------------------------- MODULE EntityIndexProofs -------------------------
(***************************************************************************)
(* Proofs about the entity index, for every index mask, generation count   *)
(* and initial capacity: the invariants of EntityIndex, that it implements *)
(* IdPool, and how long EntityGenerations keeps a stale id rejected.       *)
(***************************************************************************)
EXTENDS EntityGenerations, FiniteSetTheorems, WellFoundedInduction, TLAPS

(***************************************************************************)
(* A free list through the slots D that visits exactly the slots F.  The   *)
(* last conjunct says that F is reached from the head; the two before it,  *)
(* that links are never shared, keep that true when a slot is unlinked.    *)
(***************************************************************************)
Linked(D, F, head, next) ==
  /\ F \subseteq D
  /\ head \in F \union {Sentinel}
  /\ \A i \in F : next[i] \in F \union {Sentinel}
  /\ \A i, j \in F : next[i] = next[j] => i = j
  /\ \A i \in F : next[i] # head
  /\ \A S \in SUBSET D : ClosedUnderNext(S, head, next) => F \subseteq S

(***************************************************************************)
(* Every non-empty set of naturals has a least element: the form in which  *)
(* induction along the new slots of a grown index is used below.           *)
(***************************************************************************)
LEMMA LeastElement ==
  ASSUME NEW T, T \subseteq Nat, T # {}
  PROVE  \E m \in T : \A k \in T : m <= k
<1> DEFINE R == OpToRel(<, Nat)
<1>1. IsWellFoundedOn(R, Nat)
  BY NatLessThanWellFounded
<1>2. \A x, y \in Nat : x < y => <<x, y>> \in R
  BY DEF OpToRel
<1> HIDE DEF R
<1>3. PICK m \in T : \A k \in T : ~(<<k, m>> \in R)
  BY <1>1, WFMin, Zenon
<1>4. SUFFICES ASSUME NEW k \in T PROVE m <= k
  OBVIOUS
<1>5. m \in Nat /\ k \in Nat
  OBVIOUS
<1>6. ~(k < m)
  BY <1>2, <1>3, <1>5, Zenon
<1>7. QED
  BY <1>5, <1>6

(***************************************************************************)
(* Writing the row of a held slot does not touch the free list.            *)
(***************************************************************************)
LEMMA TouchLinked ==
  ASSUME NEW D, NEW F, NEW head, NEW next, NEW next2, NEW x,
         Sentinel \notin D, DOMAIN next = D, DOMAIN next2 = D,
         Linked(D, F, head, next), x \notin F,
         \A i \in F : next2[i] = next[i]
  PROVE  Linked(D, F, head, next2)
<1>1. ASSUME NEW S \in SUBSET D, ClosedUnderNext(S, head, next2)
      PROVE  F \subseteq S
  <2>1. ClosedUnderNext(S \intersect F, head, next)
    BY <1>1 DEF Linked, ClosedUnderNext
  <2>2. QED
    BY <2>1 DEF Linked
<1>2. QED
  BY <1>1 DEF Linked

(***************************************************************************)
(* free_list_push puts a slot that was off the list in front of it.        *)
(***************************************************************************)
LEMMA PushLinked ==
  ASSUME NEW D, NEW F, NEW head, NEW next, NEW next2, NEW x \in D,
         Sentinel \notin D, DOMAIN next = D, x \notin F,
         Linked(D, F, head, next),
         next2 = [next EXCEPT ![x] = head]
  PROVE  Linked(D, F \union {x}, x, next2)
<1>1. ASSUME NEW S \in SUBSET D, ClosedUnderNext(S, x, next2)
      PROVE  F \union {x} \subseteq S
  <2>1. x \in S
    BY <1>1 DEF ClosedUnderNext
  <2>2. head # Sentinel => head \in S
    BY <1>1, <2>1 DEF ClosedUnderNext, Linked
  <2>3. ClosedUnderNext(S \intersect F, head, next)
    BY <1>1, <2>2 DEF Linked, ClosedUnderNext
  <2>4. QED
    BY <2>1, <2>3 DEF Linked
<1>2. QED
  BY <1>1 DEF Linked

(***************************************************************************)
(* Unlinking slot n, wherever it is on the list: free_list_pop when n is   *)
(* the head, the walk of insert_id in general.                             *)
(***************************************************************************)
LEMMA UnlinkLinked ==
  ASSUME NEW D, NEW F, NEW head, NEW next, NEW head2, NEW next2, NEW n \in F,
         Sentinel \notin D, DOMAIN next = D, DOMAIN next2 = D,
         Linked(D, F, head, next),
         head2 = IF head = n THEN next[n] ELSE head,
         \A i \in F \ {n} :
            next2[i] = IF next[i] = n THEN next[n] ELSE next[i]
  PROVE  Linked(D, F \ {n}, head2, next2)
<1>1. ASSUME NEW S \in SUBSET D, ClosedUnderNext(S, head2, next2)
      PROVE  F \ {n} \subseteq S
  <2> DEFINE G == S \intersect (F \ {n})
  <2>1. CASE head = n
    <3>1. ClosedUnderNext(G \union {n}, head, next)
      BY <1>1, <2>1 DEF Linked, ClosedUnderNext
    <3>2. QED
      BY <3>1 DEF Linked
  <2>2. CASE head # n /\ \E p \in G : next[p] = n
    <3>1. PICK p \in G : next[p] = n
      BY <2>2
    <3>2. next[n] \in F /\ next[n] # n => next[n] \in S
      BY <1>1, <3>1 DEF ClosedUnderNext, Linked
    <3>3. next[n] # n
      BY <3>1 DEF Linked
    <3>4. ClosedUnderNext(G \union {n}, head, next)
      BY <1>1, <2>2, <3>2, <3>3 DEF Linked, ClosedUnderNext
    <3>5. QED
      BY <3>4 DEF Linked
  <2>3. CASE head # n /\ ~ \E p \in G : next[p] = n
    <3>1. ClosedUnderNext(G, head, next)
      BY <1>1, <2>3 DEF Linked, ClosedUnderNext
    <3>2. QED
      BY <3>1 DEF Linked
  <2>4. QED
    BY <2>1, <2>2, <2>3
<1>2. QED
  BY <1>1 DEF Linked

(***************************************************************************)
(* grow chains the slots c..m-1 in front of the list.                      *)
(***************************************************************************)
LEMMA GrowLinked ==
  ASSUME NEW c \in Nat, NEW m \in Nat, c < m, NEW F, NEW head, NEW next, NEW next2,
         Sentinel \notin 0..(m - 1), DOMAIN next = 0..(c - 1),
         Linked(0..(c - 1), F, head, next),
         next2 = [i \in 0..(m - 1) |->
                    IF i < c THEN next[i]
                    ELSE IF i = m - 1 THEN head ELSE i + 1]
  PROVE  Linked(0..(m - 1), F \union c..(m - 1), c, next2)
<1> DEFINE D  == 0..(c - 1)
           N  == c..(m - 1)
<1>1. F \subseteq D /\ head \in F \union {Sentinel}
  BY DEF Linked
<1>2. \A i \in F : next2[i] = next[i]
  BY <1>1
<1>3. \A i \in N : next2[i] = IF i = m - 1 THEN head ELSE i + 1
  OBVIOUS
<1>dom. DOMAIN next2 = 0..(m - 1) /\ F \subseteq 0..(m - 1)
  BY <1>1
<1>4. ASSUME NEW S \in SUBSET (0..(m - 1)), ClosedUnderNext(S, c, next2)
      PROVE  F \union N \subseteq S
  <2>1. c \in S
    BY <1>4 DEF ClosedUnderNext
  <2>2. N \subseteq S
    <3>1. SUFFICES ASSUME N \ S # {} PROVE FALSE
      OBVIOUS
    <3>2. PICK k \in N \ S : \A j \in N \ S : k <= j
      <4>1. N \ S \subseteq Nat
        OBVIOUS
      <4>2. QED
        BY <3>1, <4>1, LeastElement
    <3>3. k # c /\ k - 1 \in N /\ k - 1 \in S
      BY <2>1, <3>2
    <3>4. next2[k - 1] = k
      BY <1>3, <3>2, <3>3
    <3>5. QED
      BY <1>4, <3>2, <3>3, <3>4 DEF ClosedUnderNext
  <2>3. head # Sentinel => head \in S
    <3>1. m - 1 \in S /\ next2[m - 1] = head
      BY <1>3, <2>2
    <3>2. head # Sentinel => head \in DOMAIN next2
      BY <1>1, <1>dom
    <3>3. QED
      BY <1>4, <3>1, <3>2, Zenon DEF ClosedUnderNext
  <2>4. ClosedUnderNext(S \intersect F, head, next)
    <3>1. head # Sentinel => head \in S \intersect F
      BY <1>1, <2>3
    <3>2. ASSUME NEW i \in S \intersect F, next[i] \in DOMAIN next
          PROVE  next[i] \in S \intersect F
      <4>1. next[i] \in F
        BY <3>2 DEF Linked
      <4>2. next2[i] = next[i] /\ next2[i] \in DOMAIN next2
        BY <1>2, <1>dom, <4>1
      <4>3. QED
        BY <1>4, <4>1, <4>2, Zenon DEF ClosedUnderNext
    <3>3. QED
      BY <3>1, <3>2, Zenon DEF ClosedUnderNext
  <2>5. QED
    BY <1>1, <2>2, <2>4 DEF Linked
<1>5. \A i \in F \union N : next2[i] \in (F \union N) \union {Sentinel}
  BY <1>1, <1>2, <1>3 DEF Linked
<1>6. \A i, j \in F \union N : next2[i] = next2[j] => i = j
  <2>1. \A i, j \in F : next2[i] = next2[j] => i = j
    BY <1>2 DEF Linked
  <2>2. \A i \in F, j \in N : next2[i] # next2[j]
    BY <1>1, <1>2, <1>3 DEF Linked
  <2>3. \A i, j \in N : next2[i] = next2[j] => i = j
    BY <1>1, <1>3
  <2>4. QED
    BY <2>1, <2>2, <2>3
<1>7. \A i \in F \union N : next2[i] # c
  BY <1>1, <1>2, <1>3 DEF Linked
<1>8. F \union N \subseteq 0..(m - 1) /\ c \in N
  BY <1>1
<1>9. QED
  BY <1>4, <1>5, <1>6, <1>7, <1>8 DEF Linked
-----------------------------------------------------------------------------
Unheld == Slots \ AllocatedSlots

FieldsOK ==
  /\ cap \in 1..(IndexMask - 1)
  /\ generation \in [Slots -> Generations]
  /\ arch \in [Slots -> Tables \union {Null}]
  /\ row_index \in [Slots -> Slots \union Rows \union {Sentinel}]
  /\ allocated \subseteq Slots \X Generations

ListOK == Linked(Slots, Unheld, free_list, row_index)

(***************************************************************************)
(* The inductive invariant.  FreeListExact speaks only of the slots that   *)
(* the walk visits; ListOK adds that links are not shared and that every   *)
(* link of a free slot leads to a free slot or to the end, without which   *)
(* unlinking from the middle of the list could lose the slots behind it.   *)
(***************************************************************************)
IInv == FieldsOK /\ ListOK /\ CountExact /\ HeldIdsCurrent

(***************************************************************************)
(* Adding an id adds its slot to the held slots.                           *)
(***************************************************************************)
LEMMA HoldSlot ==
  ASSUME NEW A, NEW x, NEW g
  PROVE  {id[1] : id \in A \union {<<x, g>>}} = {id[1] : id \in A} \union {x}
<1> DEFINE B == {id[1] : id \in A \union {<<x, g>>}}
<1>1. x \in B
  <2>1. <<x, g>>[1] = x /\ <<x, g>> \in A \union {<<x, g>>}
    OBVIOUS
  <2>2. QED
    BY <2>1, Zenon
<1>2. {id[1] : id \in A} \subseteq B
  OBVIOUS
<1>3. ASSUME NEW y \in B, y # x PROVE y \in {id[1] : id \in A}
  <2>1. PICK id \in A \union {<<x, g>>} : y = id[1]
    OBVIOUS
  <2>2. id # <<x, g>>
    BY <1>3, <2>1
  <2>3. QED
    BY <2>1, <2>2
<1>4. QED
  BY <1>1, <1>2, <1>3

(***************************************************************************)
(* The held slots are a finite set of slots.                               *)
(***************************************************************************)
LEMMA HeldFinite ==
  ASSUME FieldsOK
  PROVE  /\ AllocatedSlots \subseteq Slots
         /\ IsFiniteSet(AllocatedSlots)
         /\ Cardinality(AllocatedSlots) \in Nat
         /\ Cardinality(AllocatedSlots) <= cap
<1> USE IndexAssumption
<1>1. AllocatedSlots \subseteq Slots
  BY DEF FieldsOK, AllocatedSlots
<1>2. cap \in Nat /\ cap >= 1
  BY DEF FieldsOK
<1>3. IsFiniteSet(Slots) /\ Cardinality(Slots) = cap
  BY <1>2, FS_Interval DEF Slots
<1>4. IsFiniteSet(AllocatedSlots) /\ Cardinality(AllocatedSlots) <= cap
  BY <1>1, <1>3, FS_Subset
<1>5. QED
  BY <1>1, <1>4, FS_CardinalityType

(***************************************************************************)
(* An empty free list means a full index: allocate() returns OutOfCapacity *)
(* exactly when no slot is left, and never falls back to slot count.       *)
(***************************************************************************)
LEMMA EmptyListIsFull ==
  ASSUME IInv, free_list = Sentinel
  PROVE  Unheld = {} /\ count = cap
<1> USE IndexAssumption
<1>1. ClosedUnderNext({}, free_list, row_index)
  BY DEF ClosedUnderNext
<1>2. Unheld = {}
  BY <1>1 DEF IInv, ListOK, Linked
<1>3. AllocatedSlots = Slots
  BY <1>2, HeldFinite DEF Unheld, IInv
<1>4. cap \in Nat /\ cap >= 1
  BY DEF IInv, FieldsOK
<1>5. Cardinality(Slots) = cap
  BY <1>4, FS_Interval DEF Slots
<1>6. QED
  BY <1>2, <1>3, <1>5 DEF IInv, CountExact

(***************************************************************************)
(* Sentinel is no slot, and slot sets are domains.                         *)
(***************************************************************************)
LEMMA SlotFacts ==
  ASSUME FieldsOK
  PROVE  /\ cap \in Nat /\ cap >= 1 /\ cap < IndexMask
         /\ Sentinel \notin Slots
         /\ DOMAIN row_index = Slots
BY IndexAssumption DEF FieldsOK, Slots

(***************************************************************************)
(* The initial free list is a growth from nothing.                         *)
(***************************************************************************)
LEMMA InitIInv == Init => IInv
<1> SUFFICES ASSUME Init PROVE IInv
  OBVIOUS
<1> USE IndexAssumption
<1>1. cap \in Nat /\ cap >= 1 /\ cap < IndexMask
  BY DEF Init
<1>2. FieldsOK
  BY <1>1 DEF Init, FieldsOK, Slots, Generations
<1>3. AllocatedSlots = {} /\ Unheld = Slots
  BY DEF Init, AllocatedSlots, Unheld
<1>4. CountExact
  BY <1>3, FS_EmptySet DEF Init, CountExact
<1>5. ListOK
  <2> DEFINE none == [i \in 0..(0 - 1) |-> 0]
  <2>1. 0..(0 - 1) = {} /\ DOMAIN none = 0..(0 - 1)
    OBVIOUS
  <2>2. Linked(0..(0 - 1), {}, Sentinel, none)
    BY <2>1 DEF Linked
  <2>3. row_index = [i \in 0..(cap - 1) |->
                       IF i < 0 THEN none[i]
                       ELSE IF i = cap - 1 THEN Sentinel ELSE i + 1]
    BY <1>1 DEF Init, Slots
  <2>4. Sentinel \notin 0..(cap - 1)
    BY <1>1
  <2> HIDE DEF none
  <2>5. Linked(0..(cap - 1), {} \union 0..(cap - 1), 0, row_index)
    BY <1>1, <2>1, <2>2, <2>3, <2>4, GrowLinked
  <2>6. QED
    BY <1>3, <2>5 DEF ListOK, Slots, Init
<1>6. HeldIdsCurrent
  BY DEF Init, HeldIdsCurrent
<1>7. QED
  BY <1>2, <1>4, <1>5, <1>6 DEF IInv

(***************************************************************************)
(* What grow(m) leaves: all fields in range, and a list of every slot that *)
(* is not held, the new ones first.                                        *)
(***************************************************************************)
LEMMA GrownFacts ==
  ASSUME IInv, NEW m \in Nat, CanGrow(m)
  PROVE  /\ cap \in Nat /\ cap >= 1 /\ cap < m /\ m \in 1..(IndexMask - 1)
         /\ Sentinel \notin 0..(m - 1)
         /\ Slots \subseteq 0..(m - 1)
         /\ GrownGeneration(m) \in [0..(m - 1) -> Generations]
         /\ GrownArch(m) \in [0..(m - 1) -> Tables \union {Null}]
         /\ GrownRowIndex(m) \in [0..(m - 1) -> 0..(m - 1) \union Rows \union {Sentinel}]
         /\ Linked(0..(m - 1), 0..(m - 1) \ AllocatedSlots, cap, GrownRowIndex(m))
         /\ \A i \in Slots : GrownGeneration(m)[i] = generation[i]
         /\ cap \notin AllocatedSlots
<1> USE IndexAssumption
<1>1. cap \in Nat /\ cap >= 1 /\ cap < m /\ m \in 1..(IndexMask - 1)
  BY SlotFacts DEF IInv, CanGrow
<1>2. Sentinel \notin 0..(m - 1) /\ Slots \subseteq 0..(m - 1)
  BY <1>1 DEF Slots
<1>3. /\ GrownGeneration(m) \in [0..(m - 1) -> Generations]
      /\ \A i \in Slots : GrownGeneration(m)[i] = generation[i]
  BY <1>1 DEF GrownGeneration, IInv, FieldsOK, Slots, Generations
<1>4. GrownArch(m) \in [0..(m - 1) -> Tables \union {Null}]
  BY <1>1 DEF GrownArch, IInv, FieldsOK, Slots
<1>5. free_list \in Slots \union {Sentinel}
  BY DEF IInv, ListOK, Linked, Unheld
<1>6. GrownRowIndex(m) \in [0..(m - 1) -> 0..(m - 1) \union Rows \union {Sentinel}]
  <2>1. SUFFICES ASSUME NEW i \in 0..(m - 1)
                 PROVE  GrownRowIndex(m)[i] \in 0..(m - 1) \union Rows \union {Sentinel}
    BY DEF GrownRowIndex
  <2>2. CASE i < cap
    BY <1>1, <1>2, <2>2 DEF GrownRowIndex, IInv, FieldsOK, Slots
  <2>3. CASE ~(i < cap)
    BY <1>1, <1>2, <1>5, <2>3 DEF GrownRowIndex
  <2>4. QED
    BY <2>2, <2>3
<1>7. /\ cap \notin AllocatedSlots
      /\ 0..(m - 1) \ AllocatedSlots = Unheld \union cap..(m - 1)
  BY <1>1, HeldFinite DEF IInv, Unheld, Slots
<1>8. Linked(0..(m - 1), 0..(m - 1) \ AllocatedSlots, cap, GrownRowIndex(m))
  <2>1. Linked(0..(cap - 1), Unheld, free_list, row_index)
    BY DEF IInv, ListOK, Slots
  <2>2. DOMAIN row_index = 0..(cap - 1)
    BY SlotFacts DEF IInv, Slots
  <2>3. Linked(0..(m - 1), Unheld \union cap..(m - 1), cap, GrownRowIndex(m))
    BY <1>1, <1>2, <2>1, <2>2, GrowLinked DEF GrownRowIndex
  <2>4. QED
    BY <1>7, <2>3
<1>9. QED
  BY <1>1, <1>2, <1>3, <1>4, <1>6, <1>7, <1>8

(***************************************************************************)
(* reserve: the new slots are all free.                                    *)
(***************************************************************************)
LEMMA ReserveIInv ==
  ASSUME IInv, NEW n \in 1..MaxReserve, Reserve(n)
  PROVE  IInv'
<1> USE IndexAssumption
<1>1. count \in Nat
  BY HeldFinite DEF IInv, CountExact
<1> DEFINE m == count + n
<1>2. m \in Nat /\ CanGrow(m)
  BY <1>1 DEF Reserve, Grow
<1>3. /\ cap' = m /\ free_list' = cap /\ count' = count /\ allocated' = allocated
      /\ generation' = GrownGeneration(m)
      /\ arch' = GrownArch(m)
      /\ row_index' = GrownRowIndex(m)
  BY DEF Reserve, Grow
<1> HIDE DEF m
<1>4. Slots' = 0..(m - 1) /\ AllocatedSlots' = AllocatedSlots
  BY <1>3 DEF Slots, AllocatedSlots
<1>5. FieldsOK'
  BY <1>2, <1>3, <1>4, GrownFacts DEF IInv, FieldsOK, Generations
<1>6. ListOK'
  BY <1>2, <1>3, <1>4, GrownFacts DEF ListOK, Unheld
<1>7. CountExact' /\ HeldIdsCurrent'
  BY <1>2, <1>3, <1>4, GrownFacts DEF IInv, FieldsOK, CountExact, HeldIdsCurrent
<1>8. QED
  BY <1>5, <1>6, <1>7 DEF IInv

(***************************************************************************)
(* Holding one more slot x with generation g keeps the count and the ids.  *)
(***************************************************************************)
LEMMA TakeKeepsIds ==
  ASSUME IInv, NEW x \in Slots', NEW g \in Generations, x \notin AllocatedSlots,
         allocated' = allocated \union {<<x, g>>}, count' = count + 1,
         Slots \subseteq Slots', generation'[x] = g,
         \A i \in Slots \ {x} : generation'[i] = generation[i]
  PROVE  /\ AllocatedSlots' = AllocatedSlots \union {x}
         /\ CountExact' /\ HeldIdsCurrent'
         /\ allocated' \subseteq Slots' \X Generations
<1>1. AllocatedSlots' = AllocatedSlots \union {x}
  BY HoldSlot DEF AllocatedSlots
<1>2. CountExact'
  <2>1. IsFiniteSet(AllocatedSlots)
    BY HeldFinite DEF IInv
  <2>2. Cardinality(AllocatedSlots \union {x}) = Cardinality(AllocatedSlots) + 1
    BY <2>1, FS_AddElement
  <2>3. QED
    BY <1>1, <2>2 DEF IInv, CountExact
<1>3. HeldIdsCurrent'
  <2>1. SUFFICES ASSUME NEW id \in allocated' PROVE generation'[id[1]] = id[2]
    BY DEF HeldIdsCurrent
  <2>2. CASE id = <<x, g>>
    BY <2>2
  <2>3. CASE id \in allocated
    <3>1. id[1] \in AllocatedSlots /\ id[1] \in Slots
      BY <2>3 DEF AllocatedSlots, IInv, FieldsOK
    <3>2. QED
      BY <2>3, <3>1 DEF IInv, HeldIdsCurrent
  <2>4. QED
    BY <2>2, <2>3
<1>4. allocated' \subseteq Slots' \X Generations
  BY DEF IInv, FieldsOK
<1>5. QED
  BY <1>1, <1>2, <1>3, <1>4

(***************************************************************************)
(* allocate pops the head of the list; it never uses slot number count.    *)
(***************************************************************************)
LEMMA AllocateIInv ==
  ASSUME IInv, Allocate
  PROVE  IInv'
<1> DEFINE x == free_list
           g == generation[x]
<1>1. free_list # Sentinel /\ NextSlot = x
  BY EmptyListIsFull DEF Allocate, OutOfCapacity, NextSlot
<1>2. x \in Unheld /\ x \in Slots /\ x \notin AllocatedSlots
  BY <1>1 DEF IInv, ListOK, Linked, Unheld
<1>3. g \in Generations
  BY <1>2 DEF IInv, FieldsOK
<1>4. /\ cap' = cap /\ generation' = generation /\ Slots' = Slots
      /\ count' = count + 1 /\ free_list' = row_index[x]
      /\ arch' = [arch EXCEPT ![x] = Null]
      /\ row_index' = [row_index EXCEPT ![x] = Sentinel]
      /\ allocated' = allocated \union {<<x, g>>}
  BY <1>1 DEF Allocate, Slots
<1>5. /\ AllocatedSlots' = AllocatedSlots \union {x}
      /\ CountExact' /\ HeldIdsCurrent'
      /\ allocated' \subseteq Slots' \X Generations
  <2> HIDE DEF x, g
  <2>1. g = generation[x]
    BY DEF x, g
  <2>2. QED
    BY <1>2, <1>3, <1>4, <2>1, TakeKeepsIds
<1>6. FieldsOK'
  BY <1>2, <1>4, <1>5 DEF IInv, FieldsOK
<1>7. Unheld' = Unheld \ {x}
  BY <1>4, <1>5 DEF Unheld
<1>8. ListOK'
  <2>1. DOMAIN row_index' = Slots /\ \A i \in Unheld \ {x} : row_index'[i] = row_index[i]
    BY <1>4, SlotFacts DEF IInv, Unheld
  <2>2. \A i \in Unheld : row_index[i] # x
    BY DEF IInv, ListOK, Linked
  <2> HIDE DEF x
  <2>3. Linked(Slots, Unheld \ {x}, row_index[x], row_index')
    <3>1. x = free_list
      BY DEF x
    <3>2. Linked(Slots, Unheld, x, row_index)
      BY <3>1 DEF IInv, ListOK
    <3>3. Sentinel \notin Slots /\ DOMAIN row_index = Slots
      BY SlotFacts DEF IInv
    <3>4. \A i \in Unheld \ {x} : row_index'[i] =
             IF row_index[i] = x THEN row_index[x] ELSE row_index[i]
      BY <2>1, <2>2
    <3>5. QED
      BY <1>2, <2>1, <3>2, <3>3, <3>4, UnlinkLinked
  <2>4. QED
    BY <1>4, <1>7, <2>3 DEF ListOK
<1>9. QED
  BY <1>5, <1>6, <1>8 DEF IInv

(***************************************************************************)
(* allocate_with_resize on a full index takes the first new slot.          *)
(***************************************************************************)
LEMMA AllocateWithResizeIInv ==
  ASSUME IInv, AllocateWithResize
  PROVE  IInv'
<1> USE IndexAssumption
<1> DEFINE m    == ResizedCap
           rows == GrownRowIndex(m)
<1>1. m \in Nat /\ CanGrow(m)
  BY SlotFacts DEF AllocateWithResize, IInv, ResizedCap
<1>2. /\ cap' = m /\ count' = count + 1 /\ free_list' = rows[cap]
      /\ generation' = GrownGeneration(m)
      /\ arch' = GrownArch(m)
      /\ row_index' = [rows EXCEPT ![cap] = Sentinel]
      /\ allocated' = allocated \union {<<cap, 0>>}
  BY DEF AllocateWithResize
<1> HIDE DEF m
<1>3. /\ cap \in Nat /\ cap >= 1 /\ cap < m /\ m \in 1..(IndexMask - 1)
      /\ Sentinel \notin 0..(m - 1)
      /\ Slots \subseteq 0..(m - 1)
      /\ rows \in [0..(m - 1) -> 0..(m - 1) \union Rows \union {Sentinel}]
      /\ Linked(0..(m - 1), 0..(m - 1) \ AllocatedSlots, cap, rows)
      /\ cap \notin AllocatedSlots
  BY <1>1, GrownFacts
<1> HIDE DEF rows
<1>4. Slots' = 0..(m - 1) /\ cap \in Slots'
  BY <1>2, <1>3 DEF Slots
<1>5. generation'[cap] = 0 /\ 0 \in Generations
  BY <1>2, <1>3, <1>4 DEF GrownGeneration, Generations
<1>6. /\ AllocatedSlots' = AllocatedSlots \union {cap}
      /\ CountExact' /\ HeldIdsCurrent'
      /\ allocated' \subseteq Slots' \X Generations
  <2>1. \A i \in Slots \ {cap} : generation'[i] = generation[i]
    BY <1>1, <1>2, GrownFacts
  <2>2. QED
    BY <1>2, <1>3, <1>4, <1>5, <2>1, TakeKeepsIds
<1>7. FieldsOK'
  <2>1. generation' \in [Slots' -> Generations] /\ arch' \in [Slots' -> Tables \union {Null}]
    BY <1>1, <1>2, <1>4, GrownFacts DEF Generations
  <2>2. row_index' \in [Slots' -> Slots' \union Rows \union {Sentinel}]
    BY <1>2, <1>3, <1>4
  <2>3. QED
    BY <1>2, <1>3, <1>6, <2>1, <2>2 DEF FieldsOK, Generations
<1>8. ListOK'
  <2> DEFINE F == 0..(m - 1) \ AllocatedSlots
  <2>1. Unheld' = F \ {cap} /\ cap \in F
    BY <1>3, <1>4, <1>6 DEF Unheld
  <2>2. \A i \in F : rows[i] # cap
    BY <1>3 DEF Linked
  <2>3. /\ DOMAIN rows = 0..(m - 1) /\ DOMAIN row_index' = 0..(m - 1)
        /\ \A i \in F \ {cap} : row_index'[i] = rows[i]
    BY <1>2, <1>3
  <2> HIDE DEF F
  <2>4. \A i \in F \ {cap} : row_index'[i] =
           IF rows[i] = cap THEN rows[cap] ELSE rows[i]
    BY <2>2, <2>3
  <2>5. Linked(0..(m - 1), F, cap, rows)
    BY <1>3 DEF F
  <2>6. Linked(0..(m - 1), F \ {cap}, rows[cap], row_index')
    BY <1>3, <2>1, <2>3, <2>4, <2>5, UnlinkLinked
  <2>7. QED
    BY <1>2, <1>4, <2>1, <2>6 DEF ListOK
<1>9. QED
  BY <1>6, <1>7, <1>8 DEF IInv

(***************************************************************************)
(* The walk visits free slots only: F is closed under the links, so it is  *)
(* one of the sets OnFreeList quantifies over; and by the last conjunct of *)
(* Linked it visits all of them.                                           *)
(***************************************************************************)
LEMMA WalkIsUnheld ==
  ASSUME IInv
  PROVE  \A i \in Slots : OnFreeList(i) <=> i \in Unheld
<1>1. ClosedUnderNext(Unheld, free_list, row_index)
  BY SlotFacts DEF IInv, ListOK, Linked, ClosedUnderNext
<1>2. Unheld \in SUBSET Slots
  BY DEF Unheld
<1>3. ASSUME NEW i \in Slots, OnFreeList(i) PROVE i \in Unheld
  BY <1>1, <1>2, <1>3 DEF OnFreeList
<1>4. ASSUME NEW i \in Unheld PROVE OnFreeList(i)
  BY <1>4 DEF OnFreeList, IInv, ListOK, Linked
<1>5. QED
  BY <1>3, <1>4

(***************************************************************************)
(* insert_id below the capacity unlinks a slot from anywhere on the list.  *)
(***************************************************************************)
LEMMA InsertIdIInv ==
  ASSUME IInv, NEW id \in EntityId, InsertId(id)
  PROVE  IInv'
<1> DEFINE x == id[1]
           g == id[2]
<1>1. id = <<x, g>> /\ g \in Generations /\ x \in Slots
  BY SlotFacts DEF EntityId, Indices, Slots, InsertId, IInv
<1>2. x \in Unheld /\ x \notin AllocatedSlots
  BY <1>1, WalkIsUnheld DEF InsertId, Unheld
<1>3. /\ cap' = cap /\ Slots' = Slots /\ count' = count + 1
      /\ generation' = [generation EXCEPT ![x] = g]
      /\ free_list' = IF free_list = x THEN row_index[x] ELSE free_list
      /\ arch' = [arch EXCEPT ![x] = Null]
      /\ row_index' = Unlinked(x)
      /\ allocated' = allocated \union {<<x, g>>}
  BY <1>1 DEF InsertId, Slots
<1> HIDE DEF x, g
<1>4. /\ generation'[x] = g
      /\ \A i \in Slots \ {x} : generation'[i] = generation[i]
      /\ generation' \in [Slots -> Generations]
  BY <1>1, <1>3 DEF IInv, FieldsOK
<1>5. /\ AllocatedSlots' = AllocatedSlots \union {x}
      /\ CountExact' /\ HeldIdsCurrent'
      /\ allocated' \subseteq Slots' \X Generations
  BY <1>1, <1>2, <1>3, <1>4, TakeKeepsIds
<1>6. FieldsOK'
  <2>1. row_index' \in [Slots -> Slots \union Rows \union {Sentinel}]
    BY <1>1, <1>3 DEF Unlinked, IInv, FieldsOK
  <2>2. QED
    BY <1>1, <1>3, <1>4, <1>5, <2>1 DEF IInv, FieldsOK
<1>7. ListOK'
  <2>1. Unheld' = Unheld \ {x}
    BY <1>3, <1>5 DEF Unheld
  <2>2. DOMAIN row_index' = Slots
    BY <1>3 DEF Unlinked
  <2>3. \A i \in Unheld \ {x} : row_index'[i] =
           IF row_index[i] = x THEN row_index[x] ELSE row_index[i]
    BY <1>3, WalkIsUnheld DEF Unlinked, Unheld
  <2>4. Sentinel \notin Slots /\ DOMAIN row_index = Slots
    BY SlotFacts DEF IInv
  <2>5. Linked(Slots, Unheld, free_list, row_index)
    BY DEF IInv, ListOK
  <2>6. Linked(Slots, Unheld \ {x}, free_list', row_index')
    BY <1>2, <1>3, <2>2, <2>3, <2>4, <2>5, UnlinkLinked
  <2>7. QED
    BY <1>3, <2>1, <2>6 DEF ListOK
<1>8. QED
  BY <1>5, <1>6, <1>7 DEF IInv

(***************************************************************************)
(* insert_id past the capacity unlinks the last slot of the new chain.     *)
(***************************************************************************)
LEMMA InsertIdBeyondIInv ==
  ASSUME IInv, NEW id \in EntityId, InsertIdBeyond(id)
  PROVE  IInv'
<1> USE IndexAssumption
<1> DEFINE x    == id[1]
           g    == id[2]
           m    == x + 1
           rows == GrownRowIndex(m)
<1>1. /\ id = <<x, g>> /\ g \in Generations /\ x \in Nat /\ m \in Nat
      /\ CanGrow(m) /\ x >= cap
  BY DEF EntityId, Indices, InsertIdBeyond
<1>2. /\ cap' = m /\ count' = count + 1
      /\ free_list' = IF x = cap THEN rows[x] ELSE cap
      /\ generation' = [GrownGeneration(m) EXCEPT ![x] = g]
      /\ arch' = GrownArch(m)
      /\ row_index' = [i \in 0..x |->
                         IF i = x THEN Sentinel
                         ELSE IF i >= cap /\ rows[i] = x THEN rows[x]
                         ELSE rows[i]]
      /\ allocated' = allocated \union {<<x, g>>}
  BY <1>1 DEF InsertIdBeyond
<1>3. m - 1 = x
  BY <1>1
<1> HIDE DEF x, g, m
<1>4. /\ cap \in Nat /\ cap >= 1 /\ cap < m /\ m \in 1..(IndexMask - 1)
      /\ Sentinel \notin 0..(m - 1)
      /\ Slots \subseteq 0..(m - 1)
      /\ rows \in [0..(m - 1) -> 0..(m - 1) \union Rows \union {Sentinel}]
      /\ Linked(0..(m - 1), 0..(m - 1) \ AllocatedSlots, cap, rows)
  BY <1>1, GrownFacts
<1>5. \A i \in 0..(m - 1) : i < cap => rows[i] = row_index[i]
  BY DEF GrownRowIndex
<1> HIDE DEF rows
<1>6. Slots' = 0..(m - 1) /\ x \in Slots' /\ x \notin Slots /\ x \notin AllocatedSlots
  BY <1>1, <1>2, <1>3, <1>4, HeldFinite DEF Slots, IInv
<1>7. /\ generation' \in [Slots' -> Generations] /\ generation'[x] = g
      /\ \A i \in Slots \ {x} : generation'[i] = generation[i]
  <2>1. /\ GrownGeneration(m) \in [0..(m - 1) -> Generations]
        /\ \A i \in Slots : GrownGeneration(m)[i] = generation[i]
    BY <1>1, GrownFacts
  <2>2. QED
    BY <1>1, <1>2, <1>4, <1>6, <2>1
<1>8. /\ AllocatedSlots' = AllocatedSlots \union {x}
      /\ CountExact' /\ HeldIdsCurrent'
      /\ allocated' \subseteq Slots' \X Generations
  BY <1>1, <1>2, <1>4, <1>6, <1>7, TakeKeepsIds
<1>9. FieldsOK'
  <2>1. arch' \in [Slots' -> Tables \union {Null}]
    BY <1>1, <1>2, <1>6, GrownFacts
  <2>2. row_index' \in [Slots' -> Slots' \union Rows \union {Sentinel}]
    BY <1>2, <1>3, <1>4, <1>6
  <2>3. cap' \in 1..(IndexMask - 1)
    BY <1>2, <1>4
  <2>4. QED
    BY <1>7, <1>8, <2>1, <2>2, <2>3 DEF FieldsOK, Generations
<1>10. ListOK'
  <2> DEFINE F == 0..(m - 1) \ AllocatedSlots
  <2>1. Unheld' = F \ {x} /\ x \in F
    BY <1>6, <1>8 DEF Unheld
  <2>2. DOMAIN rows = 0..(m - 1) /\ DOMAIN row_index' = 0..(m - 1)
    BY <1>2, <1>3, <1>4
  <2>3. \A i \in F \ {x} : row_index'[i] =
           IF rows[i] = x THEN rows[x] ELSE rows[i]
    <3>1. SUFFICES ASSUME NEW i \in F \ {x}
                   PROVE  row_index'[i] = IF rows[i] = x THEN rows[x] ELSE rows[i]
      OBVIOUS
    <3>2. i < cap => rows[i] # x
      <4>1. ASSUME i < cap PROVE rows[i] # x
        <5>1. i \in Unheld
          BY <1>4, <3>1, <4>1 DEF Unheld, Slots
        <5>2. rows[i] \in Slots \union {Sentinel}
          BY <1>5, <3>1, <4>1, <5>1 DEF IInv, ListOK, Linked, Unheld
        <5>3. QED
          BY <1>4, <1>6, <5>2
      <4>2. QED
        BY <4>1
    <3>3. i \in 0..x /\ i # x /\ i \in Nat
      BY <1>3, <3>1
    <3>4. QED
      BY <1>2, <1>4, <3>2, <3>3
  <2> HIDE DEF F
  <2>4. Linked(0..(m - 1), F, cap, rows)
    BY <1>4 DEF F
  <2>5. free_list' = IF cap = x THEN rows[x] ELSE cap
    BY <1>2
  <2>6. Linked(0..(m - 1), F \ {x}, free_list', row_index')
    BY <1>4, <2>1, <2>2, <2>3, <2>4, <2>5, UnlinkLinked
  <2>7. QED
    BY <1>6, <2>1, <2>6 DEF ListOK
<1>11. QED
  BY <1>8, <1>9, <1>10 DEF IInv

(***************************************************************************)
(* update and update_row_index write a held slot, which is off the list:   *)
(* a row number stored in row_index is never followed as a link.           *)
(***************************************************************************)
LEMMA UpdatesIInv ==
  ASSUME IInv, NEW id \in allocated, NEW row \in Rows,
         \/ \E table \in Tables : Update(id, table, row)
         \/ UpdateRowIndex(id, row)
  PROVE  IInv'
<1> DEFINE x == id[1]
<1>1. x \in AllocatedSlots /\ x \in Slots /\ x \notin Unheld
  BY HeldFinite DEF AllocatedSlots, IInv, Unheld
<1>2. /\ cap' = cap /\ count' = count /\ free_list' = free_list
      /\ generation' = generation /\ allocated' = allocated
      /\ row_index' = [row_index EXCEPT ![x] = row]
      /\ arch' \in [Slots -> Tables \union {Null}]
  <2>1. ASSUME NEW table \in Tables, Update(id, table, row)
        PROVE  arch' \in [Slots -> Tables \union {Null}]
    BY <1>1, <2>1 DEF Update, IInv, FieldsOK
  <2>2. QED
    BY <2>1 DEF Update, UpdateRowIndex, IInv, FieldsOK
<1> HIDE DEF x
<1>3. Slots' = Slots /\ AllocatedSlots' = AllocatedSlots /\ Unheld' = Unheld
  BY <1>2 DEF Slots, AllocatedSlots, Unheld
<1>4. FieldsOK'
  BY <1>1, <1>2, <1>3 DEF IInv, FieldsOK, Generations
<1>5. ListOK'
  <2>1. Sentinel \notin Slots /\ DOMAIN row_index = Slots /\ DOMAIN row_index' = Slots
    BY <1>2, SlotFacts DEF IInv
  <2>2. \A i \in Unheld : row_index'[i] = row_index[i]
    BY <1>1, <1>2, <2>1 DEF Unheld
  <2>3. Linked(Slots, Unheld, free_list, row_index')
    BY <1>1, <2>1, <2>2, TouchLinked DEF IInv, ListOK
  <2>4. QED
    BY <1>2, <1>3, <2>3 DEF ListOK
<1>6. CountExact' /\ HeldIdsCurrent'
  BY <1>2, <1>3 DEF IInv, CountExact, HeldIdsCurrent
<1>7. QED
  BY <1>4, <1>5, <1>6 DEF IInv

(***************************************************************************)
(* free: the id is the only one that holds the slot, so the slot becomes   *)
(* free and is pushed.                                                     *)
(***************************************************************************)
LEMMA FreeIInv ==
  ASSUME IInv, NEW id \in allocated, Free(id)
  PROVE  IInv'
<1> USE IndexAssumption
<1> DEFINE x == id[1]
<1>1. x \in AllocatedSlots /\ x \in Slots /\ x \notin Unheld
  BY HeldFinite DEF AllocatedSlots, IInv, Unheld
<1>2. /\ cap' = cap /\ Slots' = Slots /\ count' = count - 1 /\ free_list' = x
      /\ generation' = [generation EXCEPT ![x] = (@ + 1) % GenMod]
      /\ arch' = [arch EXCEPT ![x] = Null]
      /\ row_index' = [row_index EXCEPT ![x] = free_list]
      /\ allocated' = allocated \ {id}
  BY DEF Free, Slots
<1>3. ASSUME NEW other \in allocated, other # id PROVE other[1] # x
  <2>1. generation[other[1]] = other[2] /\ generation[id[1]] = id[2]
    BY DEF IInv, HeldIdsCurrent
  <2>2. other = <<other[1], other[2]>> /\ id = <<id[1], id[2]>>
    BY DEF IInv, FieldsOK
  <2>3. QED
    BY <1>3, <2>1, <2>2
<1>4. AllocatedSlots' = AllocatedSlots \ {x}
  BY <1>2, <1>3 DEF AllocatedSlots
<1> HIDE DEF x
<1>5. Unheld' = Unheld \union {x}
  BY <1>1, <1>2, <1>4 DEF Unheld
<1>6. free_list \in Slots \union {Sentinel}
  BY DEF IInv, ListOK, Linked, Unheld
<1>7. FieldsOK'
  <2>1. generation' \in [Slots -> Generations]
    <3>1. generation[x] \in Nat
      BY <1>1 DEF IInv, FieldsOK, Generations
    <3>2. (generation[x] + 1) % GenMod \in Generations
      BY <3>1 DEF Generations
    <3>3. QED
      BY <1>1, <1>2, <3>2 DEF IInv, FieldsOK
  <2>2. QED
    BY <1>1, <1>2, <1>6, <2>1 DEF IInv, FieldsOK, Generations
<1>8. ListOK'
  <2>1. Sentinel \notin Slots /\ DOMAIN row_index = Slots
    BY SlotFacts DEF IInv
  <2>2. Linked(Slots, Unheld \union {x}, x, row_index')
    BY <1>1, <1>2, <2>1, PushLinked DEF IInv, ListOK
  <2>3. QED
    BY <1>2, <1>5, <2>2 DEF ListOK
<1>9. CountExact'
  <2>1. IsFiniteSet(AllocatedSlots) /\ Cardinality(AllocatedSlots) \in Nat
    BY HeldFinite DEF IInv
  <2>2. Cardinality(AllocatedSlots \ {x}) = Cardinality(AllocatedSlots) - 1
    BY <1>1, <2>1, FS_RemoveElement
  <2>3. QED
    BY <1>2, <1>4, <2>2 DEF IInv, CountExact
<1>10. HeldIdsCurrent'
  BY <1>2, <1>3 DEF IInv, HeldIdsCurrent, FieldsOK
<1>11. QED
  BY <1>7, <1>8, <1>9, <1>10 DEF IInv

(***************************************************************************)
(* IInv is inductive.                                                      *)
(***************************************************************************)
LEMMA NextIInv ==
  ASSUME IInv, [Next]_vars
  PROVE  IInv'
<1>1. CASE Allocate
  BY <1>1, AllocateIInv
<1>2. CASE AllocateWithResize
  BY <1>2, AllocateWithResizeIInv
<1>3. ASSUME NEW n \in 1..MaxReserve, Reserve(n) PROVE IInv'
  BY <1>3, ReserveIInv
<1>4. ASSUME NEW id \in EntityId, InsertId(id) PROVE IInv'
  BY <1>4, InsertIdIInv
<1>5. ASSUME NEW id \in EntityId, InsertIdBeyond(id) PROVE IInv'
  BY <1>5, InsertIdBeyondIInv
<1>6. ASSUME NEW id \in allocated, NEW t \in Tables, NEW r \in Rows, Update(id, t, r)
      PROVE  IInv'
  BY <1>6, UpdatesIInv
<1>7. ASSUME NEW id \in allocated, NEW r \in Rows, UpdateRowIndex(id, r) PROVE IInv'
  BY <1>7, UpdatesIInv
<1>8. ASSUME NEW id \in allocated, Free(id) PROVE IInv'
  BY <1>8, FreeIInv
<1>9. CASE UNCHANGED vars
  BY <1>9 DEF vars, IInv, FieldsOK, ListOK, Linked, ClosedUnderNext, Unheld, Slots,
              AllocatedSlots, CountExact, HeldIdsCurrent, Generations
<1>10. QED
  BY <1>1, <1>2, <1>3, <1>4, <1>5, <1>6, <1>7, <1>8, <1>9 DEF Next

(***************************************************************************)
(* IInv holds in every reachable state of the entity index.                *)
(***************************************************************************)
THEOREM Invariance == Spec => []IInv
<1>1. QED
  BY InitIInv, NextIInv, PTL DEF Spec

(***************************************************************************)
(* Every field keeps its range: capacity below the index mask, generations *)
(* in their bits, links and rows in bounds.                                *)
(***************************************************************************)
THEOREM TypeCorrect == Spec => []TypeOK
<1>1. IInv => TypeOK
  BY HeldFinite DEF IInv, FieldsOK, ListOK, Linked, Unheld, CountExact, TypeOK
<1>2. QED
  BY Invariance, <1>1, PTL

(***************************************************************************)
(* Walking the free list visits exactly the slots that no caller holds.    *)
(***************************************************************************)
THEOREM FreeListIsExact == Spec => []FreeListExact
<1>1. IInv => FreeListExact
  BY WalkIsUnheld DEF FreeListExact, FreeSlots, Unheld
<1>2. QED
  BY Invariance, <1>1, PTL

(***************************************************************************)
(* The generation of a held slot is its holder's.                          *)
(***************************************************************************)
THEOREM HeldIdsAreCurrent == Spec => []HeldIdsCurrent
<1>1. IInv => HeldIdsCurrent
  BY DEF IInv
<1>2. QED
  BY Invariance, <1>1, PTL

(***************************************************************************)
(* count is the number of held slots: allocating, inserting a given id and *)
(* freeing never make it drift, also when the free list runs out or the    *)
(* index grows.                                                            *)
(***************************************************************************)
THEOREM CountIsExact == Spec => []CountExact
<1>1. IInv => CountExact
  BY DEF IInv
<1>2. QED
  BY Invariance, <1>1, PTL
-----------------------------------------------------------------------------
(***************************************************************************)
(* The ids a reader finds off the free list are the ids the callers hold.  *)
(***************************************************************************)
LEMMA HeldIsAllocated == IInv => HeldIds = allocated
<1> SUFFICES ASSUME IInv PROVE HeldIds = allocated
  OBVIOUS
<1>1. Slots \ FreeSlots = AllocatedSlots
  BY WalkIsUnheld, HeldFinite DEF FreeSlots, Unheld, IInv
<1>2. ASSUME NEW i \in AllocatedSlots PROVE <<i, generation[i]>> \in allocated
  <2>1. PICK id \in allocated : i = id[1]
    BY DEF AllocatedSlots
  <2>2. id = <<id[1], id[2]>>
    BY DEF IInv, FieldsOK
  <2>3. generation[id[1]] = id[2]
    BY DEF IInv, HeldIdsCurrent
  <2>4. QED
    BY <2>1, <2>2, <2>3
<1>3. ASSUME NEW id \in allocated PROVE id \in HeldIds
  <2>1. id = <<id[1], id[2]>> /\ id[1] \in AllocatedSlots
    BY DEF IInv, FieldsOK, AllocatedSlots
  <2>2. generation[id[1]] = id[2]
    BY DEF IInv, HeldIdsCurrent
  <2>3. QED
    BY <1>1, <2>1, <2>2 DEF HeldIds
<1>4. HeldIds \subseteq allocated
  BY <1>1, <1>2 DEF HeldIds
<1>5. QED
  BY <1>3, <1>4

(***************************************************************************)
(* The same in the state after a step.                                     *)
(***************************************************************************)
LEMMA HeldIsAllocatedNext == IInv' => HeldIds' = allocated'
<1>1. (IInv => HeldIds = allocated)'
  BY HeldIsAllocated, PTL
<1>2. QED
  BY <1>1

(***************************************************************************)
(* A call that takes one more id is a Take of the pool.                    *)
(***************************************************************************)
LEMMA TakeRefines ==
  ASSUME IInv, IInv', NEW id \in EntityId, id[1] \notin AllocatedSlots,
         allocated' = allocated \union {id}, arch'[id[1]] = Null,
         \A i \in AllocatedSlots : arch'[i] = arch[i] /\ row_index'[i] = row_index[i]
  PROVE  Pool!Take(id)
<1>1. HeldIds = allocated /\ HeldIds' = allocated'
  BY HeldIsAllocated, HeldIsAllocatedNext
<1>2. \A other \in allocated : other[1] \in AllocatedSlots
  BY DEF AllocatedSlots
<1>3. \A other \in allocated : Place'[other] = Place[other]
  BY <1>1, <1>2 DEF Place
<1>4. Place'[id] = <<>>
  BY <1>1 DEF Place
<1>5. Place' = [i \in allocated' |-> Place'[i]]
  BY <1>1 DEF Place
<1>6. Place' = [i \in allocated' |-> IF i = id THEN <<>> ELSE Place[i]]
  BY <1>3, <1>4, <1>5
<1>7. QED
  BY <1>1, <1>2, <1>6 DEF Pool!Take

(***************************************************************************)
(* A call that changes neither ids nor what is stored about them stutters. *)
(***************************************************************************)
LEMMA StutterRefines ==
  ASSUME IInv, IInv', allocated' = allocated,
         \A i \in AllocatedSlots : arch'[i] = arch[i] /\ row_index'[i] = row_index[i]
  PROVE  UNCHANGED <<HeldIds, Place>>
<1>1. HeldIds = allocated /\ HeldIds' = allocated'
  BY HeldIsAllocated, HeldIsAllocatedNext
<1>2. \A other \in allocated : other[1] \in AllocatedSlots
  BY DEF AllocatedSlots
<1>3. \A other \in allocated : Place'[other] = Place[other]
  BY <1>1, <1>2 DEF Place
<1>4. Place' = [i \in allocated |-> Place'[i]] /\ Place = [i \in allocated |-> Place[i]]
  BY <1>1 DEF Place
<1>5. QED
  BY <1>1, <1>3, <1>4

(***************************************************************************)
(* Growth copies what is stored about the held slots.                      *)
(***************************************************************************)
LEMMA GrowthKeepsHeld ==
  ASSUME IInv, NEW m \in Nat, CanGrow(m)
  PROVE  \A i \in AllocatedSlots :
            /\ i < cap /\ i \in 0..(m - 1)
            /\ GrownArch(m)[i] = arch[i] /\ GrownRowIndex(m)[i] = row_index[i]
<1>1. AllocatedSlots \subseteq Slots /\ cap \in Nat /\ cap < m
  BY HeldFinite, GrownFacts DEF IInv
<1>2. QED
  BY <1>1 DEF Slots, GrownArch, GrownRowIndex

(***************************************************************************)
(* The pool starts empty.                                                  *)
(***************************************************************************)
LEMMA InitRefines == Init => Pool!Init
<1> SUFFICES ASSUME Init PROVE Pool!Init
  OBVIOUS
<1>1. HeldIds = allocated
  BY InitIInv, HeldIsAllocated
<1>2. HeldIds = {}
  BY <1>1 DEF Init
<1>3. QED
  BY <1>2 DEF Pool!Init, Place

(***************************************************************************)
(* allocate, with and without growth, is a Take.                           *)
(***************************************************************************)
LEMMA AllocateRefines ==
  ASSUME IInv, IInv', Allocate \/ AllocateWithResize
  PROVE  \E id \in EntityId : Pool!Take(id)
<1> USE IndexAssumption
<1>1. CASE Allocate
  <2> DEFINE id == <<free_list, generation[free_list]>>
  <2>1. free_list # Sentinel /\ NextSlot = free_list
    BY <1>1, EmptyListIsFull DEF Allocate, OutOfCapacity, NextSlot
  <2>2. free_list \in Slots /\ free_list \notin AllocatedSlots
    BY <2>1 DEF IInv, ListOK, Linked, Unheld
  <2>3. id \in EntityId
    BY <2>2 DEF IInv, FieldsOK, EntityId, Slots, Indices
  <2>4. allocated' = allocated \union {id} /\ arch'[id[1]] = Null
    BY <1>1, <2>1, <2>2 DEF Allocate, IInv, FieldsOK
  <2>5. \A i \in AllocatedSlots : arch'[i] = arch[i] /\ row_index'[i] = row_index[i]
    BY <1>1, <2>1, <2>2, HeldFinite DEF Allocate, IInv, FieldsOK
  <2>6. id[1] \notin AllocatedSlots
    BY <2>2
  <2> HIDE DEF id
  <2>7. QED
    BY <2>3, <2>4, <2>5, <2>6, TakeRefines
<1>2. CASE AllocateWithResize
  <2> DEFINE id == <<cap, 0>>
             m  == ResizedCap
  <2>1. m \in Nat /\ CanGrow(m)
    BY <1>2, SlotFacts DEF AllocateWithResize, IInv, ResizedCap
  <2>2. /\ allocated' = allocated \union {id}
        /\ arch' = GrownArch(m)
        /\ row_index' = [GrownRowIndex(m) EXCEPT ![cap] = Sentinel]
    BY <1>2 DEF AllocateWithResize
  <2> HIDE DEF m
  <2>3. cap \in Nat /\ cap < m /\ m \in 1..(IndexMask - 1) /\ cap \notin AllocatedSlots
    BY <2>1, GrownFacts
  <2>4. id \in EntityId /\ id[1] \notin AllocatedSlots
    <3>1. cap \in Indices /\ 0 \in Generations
      BY <2>3 DEF Indices, Generations
    <3>2. QED
      BY <2>3, <3>1 DEF EntityId
  <2>5. arch'[id[1]] = Null
    <3>1. cap \in 0..(m - 1) /\ ~(cap < cap)
      BY <2>3
    <3>2. QED
      BY <2>2, <3>1 DEF GrownArch
  <2>6. \A i \in AllocatedSlots : arch'[i] = arch[i] /\ row_index'[i] = row_index[i]
    BY <2>1, <2>2, <2>3, GrowthKeepsHeld DEF GrownRowIndex
  <2> HIDE DEF id
  <2>7. QED
    BY <2>2, <2>4, <2>5, <2>6, TakeRefines
<1>3. QED
  BY <1>1, <1>2

(***************************************************************************)
(* insert_id, with and without growth, is a Take of the given id.          *)
(***************************************************************************)
LEMMA InsertIdRefines ==
  ASSUME IInv, IInv', NEW id \in EntityId, InsertId(id) \/ InsertIdBeyond(id)
  PROVE  Pool!Take(id)
<1> USE IndexAssumption
<1>1. CASE InsertId(id)
  <2> DEFINE x == id[1]
  <2>1. x \in Slots
    BY <1>1, SlotFacts DEF EntityId, Indices, Slots, InsertId, IInv
  <2>2. x \in Unheld /\ x \notin AllocatedSlots
    BY <1>1, <2>1, WalkIsUnheld DEF InsertId, Unheld
  <2>3. /\ allocated' = allocated \union {id}
        /\ arch' = [arch EXCEPT ![x] = Null]
        /\ row_index' = Unlinked(x)
    BY <1>1 DEF InsertId
  <2>4. arch'[x] = Null
    BY <2>1, <2>3 DEF IInv, FieldsOK
  <2>5. ASSUME NEW i \in AllocatedSlots
        PROVE  arch'[i] = arch[i] /\ row_index'[i] = row_index[i]
    <3>1. i \in Slots /\ i # x /\ ~OnFreeList(i)
      BY <2>2, HeldFinite, WalkIsUnheld DEF IInv, Unheld
    <3>2. QED
      BY <2>3, <3>1 DEF Unlinked, IInv, FieldsOK
  <2>6. QED
    BY <2>2, <2>3, <2>4, <2>5, TakeRefines
<1>2. CASE InsertIdBeyond(id)
  <2> DEFINE x == id[1]
             m == x + 1
  <2>1. x \in Nat /\ m \in Nat /\ CanGrow(m) /\ x >= cap
    BY <1>2 DEF EntityId, Indices, InsertIdBeyond
  <2>2. /\ allocated' = allocated \union {id}
        /\ arch' = GrownArch(m)
        /\ \A i \in 0..x : i < cap => row_index'[i] = GrownRowIndex(m)[i]
    <3>1. \A i \in 0..x : i < cap => ~(i >= cap) /\ i # x
      BY <2>1, SlotFacts DEF IInv
    <3>2. QED
      BY <1>2, <3>1 DEF InsertIdBeyond
  <2>3. cap \in Nat /\ x \notin AllocatedSlots
    BY <2>1, SlotFacts, HeldFinite DEF IInv, Slots
  <2>4. arch'[x] = Null
    BY <2>1, <2>2, <2>3 DEF GrownArch
  <2>5. \A i \in AllocatedSlots : arch'[i] = arch[i] /\ row_index'[i] = row_index[i]
    BY <2>1, <2>2, <2>3, GrowthKeepsHeld
  <2>6. QED
    BY <2>2, <2>3, <2>4, <2>5, TakeRefines
<1>3. QED
  BY <1>1, <1>2

(***************************************************************************)
(* update of a held id is the Put of that id and leaves every other place  *)
(* alone.                                                                  *)
(***************************************************************************)
LEMMA UpdateRefines ==
  ASSUME IInv, IInv', NEW id \in allocated, NEW t \in Tables, NEW r \in Rows,
         Update(id, t, r)
  PROVE  Pool!Put(id, t, r)
<1>1. HeldIds = allocated /\ HeldIds' = allocated /\ allocated' = allocated
  BY HeldIsAllocated, HeldIsAllocatedNext DEF Update
<1>2. \A other \in allocated : other[1] \in Slots /\ (other # id => other[1] # id[1])
  <2>1. \A other \in allocated : /\ generation[other[1]] = other[2] /\ other[1] \in Slots
                                 /\ other = <<other[1], other[2]>>
    BY DEF IInv, FieldsOK, HeldIdsCurrent
  <2>2. QED
    BY <2>1
<1>3. /\ arch' = [arch EXCEPT ![id[1]] = t]
      /\ row_index' = [row_index EXCEPT ![id[1]] = r]
      /\ arch \in [Slots -> Tables \union {Null}] /\ DOMAIN row_index = Slots
  BY DEF Update, IInv, FieldsOK
<1>4. Place'[id] = <<t, r>>
  BY <1>1, <1>2, <1>3, IndexAssumption DEF Place
<1>5. \A other \in allocated : other # id => Place'[other] = Place[other]
  BY <1>1, <1>2, <1>3 DEF Place
<1>6. Place' = [i \in allocated |-> Place'[i]] /\ Place = [i \in allocated |-> Place[i]]
  BY <1>1 DEF Place
<1>7. Place' = [Place EXCEPT ![id] = <<t, r>>]
  BY <1>4, <1>5, <1>6
<1>8. QED
  BY <1>1, <1>7 DEF Pool!Put

(***************************************************************************)
(* update_row_index of a held id is the MoveRow of that id.                *)
(***************************************************************************)
LEMMA UpdateRowIndexRefines ==
  ASSUME IInv, IInv', NEW id \in allocated, NEW r \in Rows, UpdateRowIndex(id, r)
  PROVE  Pool!MoveRow(id, r)
<1>1. HeldIds = allocated /\ HeldIds' = allocated /\ allocated' = allocated
  BY HeldIsAllocated, HeldIsAllocatedNext DEF UpdateRowIndex
<1>2. \A other \in allocated : other[1] \in Slots /\ (other # id => other[1] # id[1])
  <2>1. \A other \in allocated : /\ generation[other[1]] = other[2] /\ other[1] \in Slots
                                 /\ other = <<other[1], other[2]>>
    BY DEF IInv, FieldsOK, HeldIdsCurrent
  <2>2. QED
    BY <2>1
<1>3. /\ arch' = arch /\ arch[id[1]] # Null
      /\ row_index' = [row_index EXCEPT ![id[1]] = r]
      /\ DOMAIN row_index = Slots
  BY DEF UpdateRowIndex, IsValid, IInv, FieldsOK
<1>4. Place[id] = <<arch[id[1]], row_index[id[1]]>> /\ Place'[id] = <<arch[id[1]], r>>
  BY <1>1, <1>2, <1>3 DEF Place
<1>5. \A other \in allocated : other # id => Place'[other] = Place[other]
  BY <1>1, <1>2, <1>3 DEF Place
<1>6. Place' = [i \in allocated |-> Place'[i]] /\ Place = [i \in allocated |-> Place[i]]
  BY <1>1 DEF Place
<1>7. Place[id] # <<>> /\ Place[id][1] = arch[id[1]]
  BY <1>4
<1>8. Place' = [Place EXCEPT ![id] = <<@[1], r>>]
  BY <1>4, <1>5, <1>6, <1>7
<1>9. QED
  BY <1>1, <1>7, <1>8 DEF Pool!MoveRow

(***************************************************************************)
(* free of a held id is its Release.                                       *)
(***************************************************************************)
LEMMA FreeRefines ==
  ASSUME IInv, IInv', NEW id \in allocated, Free(id)
  PROVE  Pool!Release(id)
<1>1. HeldIds = allocated /\ HeldIds' = allocated' /\ allocated' = allocated \ {id}
  BY HeldIsAllocated, HeldIsAllocatedNext DEF Free
<1>2. \A other \in allocated : other[1] \in Slots /\ (other # id => other[1] # id[1])
  <2>1. \A other \in allocated : /\ generation[other[1]] = other[2] /\ other[1] \in Slots
                                 /\ other = <<other[1], other[2]>>
    BY DEF IInv, FieldsOK, HeldIdsCurrent
  <2>2. QED
    BY <2>1
<1>3. /\ arch' = [arch EXCEPT ![id[1]] = Null]
      /\ row_index' = [row_index EXCEPT ![id[1]] = free_list]
      /\ DOMAIN arch = Slots /\ DOMAIN row_index = Slots
  BY DEF Free, IInv, FieldsOK
<1>4. \A other \in allocated' : Place'[other] = Place[other]
  BY <1>1, <1>2, <1>3 DEF Place
<1>5. Place' = [i \in allocated' |-> Place'[i]]
  BY <1>1 DEF Place
<1>6. QED
  BY <1>1, <1>4, <1>5 DEF Pool!Release

(***************************************************************************)
(* reserve is invisible.                                                   *)
(***************************************************************************)
LEMMA ReserveRefines ==
  ASSUME IInv, IInv', NEW n \in 1..MaxReserve, Reserve(n)
  PROVE  UNCHANGED <<HeldIds, Place>>
<1>1. count + n \in Nat /\ CanGrow(count + n)
  BY HeldFinite, IndexAssumption DEF IInv, CountExact, Reserve, Grow
<1>2. /\ allocated' = allocated
      /\ arch' = GrownArch(count + n) /\ row_index' = GrownRowIndex(count + n)
  BY DEF Reserve, Grow
<1>3. QED
  BY <1>1, <1>2, GrowthKeepsHeld, StutterRefines

(***************************************************************************)
(* The entity index implements the abstract id pool.                       *)
(***************************************************************************)
THEOREM Refinement == Spec => PoolSpec
<1>1. ASSUME IInv, IInv', [Next]_vars PROVE [Pool!Next]_<<HeldIds, Place>>
  <2>1. CASE Allocate \/ AllocateWithResize
    BY <1>1, <2>1, AllocateRefines DEF Pool!Next
  <2>2. ASSUME NEW n \in 1..MaxReserve, Reserve(n) PROVE UNCHANGED <<HeldIds, Place>>
    BY <1>1, <2>2, ReserveRefines
  <2>3. ASSUME NEW id \in EntityId, InsertId(id) \/ InsertIdBeyond(id) PROVE Pool!Next
    BY <1>1, <2>3, InsertIdRefines DEF Pool!Next
  <2>4. HeldIds = allocated
    BY <1>1, HeldIsAllocated
  <2>5. ASSUME NEW id \in allocated, NEW t \in Tables, NEW r \in Rows, Update(id, t, r)
        PROVE  Pool!Next
    BY <1>1, <2>4, <2>5, UpdateRefines DEF Pool!Next
  <2>6. ASSUME NEW id \in allocated, NEW r \in Rows, UpdateRowIndex(id, r)
        PROVE  Pool!Next
    BY <1>1, <2>4, <2>6, UpdateRowIndexRefines DEF Pool!Next
  <2>7. ASSUME NEW id \in allocated, Free(id) PROVE Pool!Next
    BY <1>1, <2>4, <2>7, FreeRefines DEF Pool!Next
  <2>8. CASE UNCHANGED vars
    BY <1>1, <2>8, StutterRefines DEF vars
  <2>9. QED
    BY <1>1, <2>1, <2>2, <2>3, <2>5, <2>6, <2>7, <2>8 DEF Next
<1>2. QED
  BY InitRefines, Invariance, <1>1, PTL DEF Spec, PoolSpec, Pool!Spec
-----------------------------------------------------------------------------
(***************************************************************************)
(* The masked increment of a generation.                                   *)
(***************************************************************************)
LEMMA NextGeneration ==
  ASSUME NEW G \in Nat \ {0}, NEW g \in 0..(G - 1)
  PROVE  (g + 1) % G = IF g + 1 = G THEN 0 ELSE g + 1
<1>1. CASE g + 1 = G
  <2>1. G % G = 0
    OBVIOUS
  <2>2. QED
    BY <1>1, <2>1
<1>2. CASE g + 1 < G
  BY <1>2
<1>3. QED
  BY <1>1, <1>2

\* Generation g after k < GenMod further calls of free.
After(g, k) == IF g + k < GenMod THEN g + k ELSE g + k - GenMod

(***************************************************************************)
(* The history tells the generation a slot has reached by now.             *)
(***************************************************************************)
HistoryOK ==
  /\ freed_since \in [EntityId -> 0..GenMod]
  /\ \A id \in EntityId :
       freed_since[id] \in 1..(GenMod - 1) =>
         id[1] \in Slots /\ generation[id[1]] = After(id[2], freed_since[id])

(***************************************************************************)
(* Steps that are neither a free nor an insert_id keep the generations.    *)
(***************************************************************************)
LEMMA HistoryKept ==
  ASSUME IInv, HistoryOK, UNCHANGED freed_since, Slots \subseteq Slots',
         \A i \in Slots : generation'[i] = generation[i]
  PROVE  HistoryOK'
BY DEF HistoryOK, EntityId, Indices, Generations, After

(***************************************************************************)
(* insert_id starts the history of its slot afresh.                        *)
(***************************************************************************)
LEMMA HistoryInsert ==
  ASSUME IInv, HistoryOK, NEW id \in EntityId, NoteInsert(id), Slots \subseteq Slots',
         \A i \in Slots \ {id[1]} : generation'[i] = generation[i]
  PROVE  HistoryOK'
<1> USE IndexAssumption
<1>1. /\ freed_since' \in [EntityId -> 0..GenMod]
      /\ \A o \in EntityId : freed_since'[o] = IF o[1] = id[1] THEN 0 ELSE freed_since[o]
  BY DEF NoteInsert, HistoryOK
<1>2. ASSUME NEW o \in EntityId, freed_since'[o] \in 1..(GenMod - 1)
      PROVE  o[1] \in Slots' /\ generation'[o[1]] = After(o[2], freed_since'[o])
  <2>1. o[1] # id[1] /\ freed_since'[o] = freed_since[o]
    BY <1>1, <1>2
  <2>2. QED
    BY <1>2, <2>1 DEF HistoryOK
<1>3. QED
  BY <1>1, <1>2 DEF HistoryOK, After, EntityId, Indices, Generations

(***************************************************************************)
(* free moves every history of its slot on by one.                         *)
(***************************************************************************)
LEMMA HistoryFree ==
  ASSUME IInv, HistoryOK, NEW id \in allocated, Free(id), NoteFree(id)
  PROVE  HistoryOK'
<1> USE IndexAssumption
<1>1. /\ id = <<id[1], id[2]>> /\ id[1] \in Slots /\ id[2] \in Generations
      /\ generation[id[1]] = id[2] /\ id \in EntityId
  BY SlotFacts DEF IInv, FieldsOK, HeldIdsCurrent, EntityId, Indices, Slots
<1>2. generation' = [generation EXCEPT ![id[1]] = (@ + 1) % GenMod] /\ Slots' = Slots
  BY DEF Free, Slots
<1>3. generation'[id[1]] = After(id[2], 1)
  <2>1. generation'[id[1]] = (id[2] + 1) % GenMod
    BY <1>1, <1>2 DEF IInv, FieldsOK
  <2>2. (id[2] + 1) % GenMod = IF id[2] + 1 = GenMod THEN 0 ELSE id[2] + 1
    BY <1>1, NextGeneration DEF Generations
  <2>3. QED
    BY <1>1, <2>1, <2>2 DEF After, Generations
<1>4. ASSUME NEW o \in EntityId
      PROVE  freed_since'[o] =
               IF o = id THEN 1
               ELSE IF o[1] = id[1] /\ freed_since[o] \in 1..(GenMod - 1)
                    THEN freed_since[o] + 1 ELSE freed_since[o]
  <2>1. freed_since'[o] =
          CASE o = id -> 1
            [] o # id /\ o[1] = id[1] /\ freed_since[o] \in 1..(GenMod - 1)
                 -> freed_since[o] + 1
            [] OTHER -> freed_since[o]
    BY DEF NoteFree
  <2>2. CASE o = id
    BY <2>1, <2>2
  <2>3. CASE o # id /\ o[1] = id[1] /\ freed_since[o] \in 1..(GenMod - 1)
    BY <2>1, <2>3
  <2>4. CASE o # id /\ ~(o[1] = id[1] /\ freed_since[o] \in 1..(GenMod - 1))
    BY <2>1, <2>4
  <2>5. QED
    BY <2>2, <2>3, <2>4
<1>5. freed_since' \in [EntityId -> 0..GenMod]
  <2>1. ASSUME NEW o \in EntityId PROVE freed_since'[o] \in 0..GenMod
    BY <1>4 DEF HistoryOK
  <2>2. DOMAIN freed_since' = EntityId /\ freed_since' = [o \in EntityId |-> freed_since'[o]]
    BY DEF NoteFree
  <2>3. QED
    BY <2>1, <2>2
<1>6. ASSUME NEW o \in EntityId, freed_since'[o] \in 1..(GenMod - 1)
      PROVE  o[1] \in Slots' /\ generation'[o[1]] = After(o[2], freed_since'[o])
  <2>1. CASE o = id
    BY <1>1, <1>2, <1>3, <1>4, <2>1
  <2>2. CASE o # id /\ o[1] = id[1]
    <3> DEFINE k == freed_since[o]
    <3>1. k \in 1..(GenMod - 1) /\ freed_since'[o] = k + 1 /\ k + 1 < GenMod
      BY <1>4, <1>6, <2>2 DEF HistoryOK
    <3>2. generation[id[1]] = After(o[2], k)
      BY <2>2, <3>1 DEF HistoryOK
    <3>3. o[2] \in 0..(GenMod - 1) /\ generation[id[1]] \in 0..(GenMod - 1)
      BY <1>1 DEF EntityId, Generations
    <3>4. generation'[o[1]] = (generation[id[1]] + 1) % GenMod
      BY <1>1, <1>2, <2>2 DEF IInv, FieldsOK
    <3>5. (generation[id[1]] + 1) % GenMod =
             IF generation[id[1]] + 1 = GenMod THEN 0 ELSE generation[id[1]] + 1
      BY <3>3, NextGeneration
    <3>6. After(o[2], k + 1) =
             IF After(o[2], k) + 1 = GenMod THEN 0 ELSE After(o[2], k) + 1
      BY <3>1, <3>3 DEF After
    <3>7. QED
      BY <1>1, <1>2, <2>2, <3>1, <3>2, <3>4, <3>5, <3>6
  <2>3. CASE o # id /\ o[1] # id[1]
    <3>1. freed_since'[o] = freed_since[o]
      BY <1>4, <2>3
    <3>2. o[1] \in Slots /\ generation[o[1]] = After(o[2], freed_since[o])
      BY <1>6, <3>1 DEF HistoryOK
    <3>3. QED
      BY <1>2, <2>3, <3>1, <3>2 DEF IInv, FieldsOK
  <2>4. QED
    BY <2>1, <2>2, <2>3
<1>7. QED
  BY <1>5, <1>6 DEF HistoryOK, After, EntityId, Indices, Generations

(***************************************************************************)
(* IInv and HistoryOK together are inductive for the index with history.   *)
(***************************************************************************)
LEMMA HistoryNext ==
  ASSUME IInv, HistoryOK, [GNext]_gvars
  PROVE  IInv' /\ HistoryOK'
<1> USE IndexAssumption
<1>1. IInv'
  BY NextIInv DEF GNext, gvars, Next
<1>2. ASSUME UNCHANGED freed_since, Slots' = Slots, generation' = generation
      PROVE  HistoryOK'
  BY <1>2, HistoryKept
<1>3. ASSUME NEW m \in Nat, CanGrow(m), cap' = m
      PROVE  /\ Slots \subseteq Slots'
             /\ \A i \in Slots : GrownGeneration(m)[i] = generation[i]
  <2>1. Slots' = 0..(m - 1)
    BY <1>3 DEF Slots
  <2>2. QED
    BY <1>3, <2>1, GrownFacts
<1>4. ASSUME Allocate, UNCHANGED freed_since PROVE HistoryOK'
  <2>1. Slots' = Slots /\ generation' = generation
    BY <1>4 DEF Allocate, Slots
  <2>2. QED
    BY <1>2, <1>4, <2>1
<1>5. ASSUME AllocateWithResize, UNCHANGED freed_since PROVE HistoryOK'
  <2> DEFINE m == ResizedCap
  <2>1. m \in Nat /\ CanGrow(m) /\ cap' = m /\ generation' = GrownGeneration(m)
    BY <1>5, SlotFacts DEF AllocateWithResize, IInv, ResizedCap
  <2> HIDE DEF m
  <2>2. QED
    BY <1>3, <1>5, <2>1, HistoryKept
<1>6. ASSUME NEW n \in 1..MaxReserve, Reserve(n), UNCHANGED freed_since
      PROVE  HistoryOK'
  <2> DEFINE m == count + n
  <2>1. m \in Nat /\ CanGrow(m) /\ cap' = m /\ generation' = GrownGeneration(m)
    BY <1>6, HeldFinite DEF IInv, CountExact, Reserve, Grow
  <2> HIDE DEF m
  <2>2. QED
    BY <1>3, <1>6, <2>1, HistoryKept
<1>7. ASSUME NEW id \in EntityId, InsertId(id), NoteInsert(id) PROVE HistoryOK'
  <2>1. Slots' = Slots /\ generation' = [generation EXCEPT ![id[1]] = id[2]]
    BY <1>7 DEF InsertId, Slots
  <2>2. QED
    BY <1>7, <2>1, HistoryInsert DEF IInv, FieldsOK
<1>8. ASSUME NEW id \in EntityId, InsertIdBeyond(id), NoteInsert(id) PROVE HistoryOK'
  <2> DEFINE m == id[1] + 1
  <2>1. /\ m \in Nat /\ CanGrow(m) /\ cap' = m /\ id[1] \in 0..(m - 1)
        /\ generation' = [GrownGeneration(m) EXCEPT ![id[1]] = id[2]]
    BY <1>8 DEF EntityId, Indices, InsertIdBeyond
  <2> HIDE DEF m
  <2>2. \A i \in Slots \ {id[1]} : generation'[i] = generation[i]
    BY <1>3, <2>1, GrownFacts
  <2>3. QED
    BY <1>3, <1>8, <2>1, <2>2, HistoryInsert
<1>9. ASSUME NEW id \in allocated, NEW t \in Tables, NEW r \in Rows,
             Update(id, t, r), UNCHANGED freed_since
      PROVE  HistoryOK'
  BY <1>2, <1>9 DEF Update, Slots
<1>10. ASSUME NEW id \in allocated, NEW r \in Rows,
              UpdateRowIndex(id, r), UNCHANGED freed_since
       PROVE  HistoryOK'
  BY <1>2, <1>10 DEF UpdateRowIndex, Slots
<1>11. ASSUME NEW id \in allocated, Free(id), NoteFree(id) PROVE HistoryOK'
  BY <1>11, HistoryFree
<1>12. CASE UNCHANGED gvars
  <2>1. vars' = vars /\ freed_since' = freed_since
    BY <1>12 DEF gvars
  <2>2. Slots' = Slots /\ generation' = generation
    BY <2>1 DEF vars, Slots
  <2>3. QED
    BY <1>1, <1>2, <2>1, <2>2
<1>13. HistoryOK'
  BY <1>4, <1>5, <1>6, <1>7, <1>8, <1>9, <1>10, <1>11, <1>12 DEF GNext
<1>14. QED
  BY <1>1, <1>13

(***************************************************************************)
(* A freed id is rejected by is_valid and held by nobody until its slot    *)
(* has been freed GenMod times, for any mix of calls in between.           *)
(***************************************************************************)
THEOREM StaleIdsAreRejected == GSpec => []StaleIdsRejected
<1> USE IndexAssumption
<1>1. GInit => IInv /\ HistoryOK
  BY InitIInv DEF GInit, HistoryOK
<1>2. IInv /\ HistoryOK => StaleIdsRejected
  <2>1. SUFFICES ASSUME IInv, HistoryOK, NEW id \in EntityId,
                        freed_since[id] \in 1..(GenMod - 1)
                 PROVE  id \notin allocated /\ ~IsValid(id)
    BY DEF StaleIdsRejected
  <2>2. generation[id[1]] = After(id[2], freed_since[id])
    BY <2>1 DEF HistoryOK
  <2>3. id[2] \in 0..(GenMod - 1)
    BY DEF EntityId, Generations
  <2>4. generation[id[1]] # id[2]
    BY <2>1, <2>2, <2>3 DEF After
  <2>5. QED
    BY <2>1, <2>4 DEF IInv, HeldIdsCurrent, IsValid
<1>3. QED
  BY <1>1, <1>2, HistoryNext, PTL DEF GSpec
=============================================================================
