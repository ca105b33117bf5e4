------------------------ MODULE SortedSystemsProofs ------------------------
(***************************************************************************)
(* Proof that sorted_systems sorts: for any number of systems and any      *)
(* orderings between them, a walk that ends without a panic has put every  *)
(* system in the result once and none before one it names.                 *)
(***************************************************************************)
EXTENDS SortedSystems, TLAPS

Types ==
  /\ given \in Seq(Ids)
  /\ after \in [Ids -> SUBSET Ids]
  /\ systems \subseteq Members
  /\ next \in Nat \ {0}
  /\ pending \in Seq(Ids) /\ todo \in Seq(SUBSET Ids) /\ Len(todo) = Len(pending)
  /\ out \in Seq(Ids)

\* A system is unvisited, pending or in the result; in the latter two once.
Partition ==
  /\ Members = systems \union RangeOf(pending) \union RangeOf(out)
  /\ systems \intersect RangeOf(pending) = {}
  /\ systems \intersect RangeOf(out) = {}
  /\ RangeOf(pending) \intersect RangeOf(out) = {}
  /\ \A i, j \in DOMAIN pending : pending[i] = pending[j] => i = j
  /\ \A i, j \in DOMAIN out : out[i] = out[j] => i = j

\* What a pending call has visited is in the result, but for the call it is
\* waiting for.
CallsExact ==
  \A i \in DOMAIN pending : \A b \in after[pending[i]] \intersect Members :
    \/ b \in todo[i]
    \/ b \in RangeOf(out)
    \/ i < Len(pending) /\ b = pending[i + 1]

\* What is in the result comes after all it names.
OutSorted ==
  \A i \in DOMAIN out : \A b \in after[out[i]] \intersect Members :
    \E j \in DOMAIN out : j < i /\ out[j] = b

\* The outer loop leaves no system unvisited behind.
LoopDone == \A k \in DOMAIN given : k < next => given[k] \notin systems

(***************************************************************************)
(* The inductive invariant, of a walk that has not panicked.               *)
(***************************************************************************)
IInv ==
  /\ Types
  /\ result \in {"running", "done"} => Partition /\ CallsExact /\ OutSorted /\ LoopDone
  /\ result = "done" => pending = <<>> /\ next > Len(given)
-----------------------------------------------------------------------------
(***************************************************************************)
(* What is in a sequence after Append and after its last element is gone.  *)
(***************************************************************************)
LEMMA AppendFacts ==
  ASSUME NEW S, NEW s \in Seq(S), NEW e \in S
  PROVE  /\ Append(s, e) \in Seq(S)
         /\ Len(Append(s, e)) = Len(s) + 1
         /\ DOMAIN s = 1..Len(s) /\ DOMAIN Append(s, e) = 1..(Len(s) + 1)
         /\ \A i \in DOMAIN s : Append(s, e)[i] = s[i]
         /\ Append(s, e)[Len(s) + 1] = e
         /\ RangeOf(Append(s, e)) = RangeOf(s) \union {e}
<1>1. /\ Append(s, e) \in Seq(S)
      /\ Len(Append(s, e)) = Len(s) + 1
      /\ DOMAIN s = 1..Len(s) /\ DOMAIN Append(s, e) = 1..(Len(s) + 1)
      /\ \A i \in DOMAIN s : Append(s, e)[i] = s[i]
      /\ Append(s, e)[Len(s) + 1] = e
      /\ Len(s) \in Nat
  OBVIOUS
<1>2. RangeOf(Append(s, e)) = RangeOf(s) \union {e}
  BY <1>1 DEF RangeOf
<1> QED
  BY <1>1, <1>2

\* Dropping the last element.
LEMMA ButLastFacts ==
  ASSUME NEW S, NEW s \in Seq(S), s # <<>>
  PROVE  LET r == SubSeq(s, 1, Len(s) - 1) IN
         /\ r \in Seq(S)
         /\ Len(r) = Len(s) - 1
         /\ Len(s) \in Nat \ {0}
         /\ DOMAIN s = 1..Len(s) /\ DOMAIN r = 1..(Len(s) - 1)
         /\ \A i \in DOMAIN r : r[i] = s[i]
         /\ RangeOf(s) = RangeOf(r) \union {s[Len(s)]}
<1> DEFINE r == SubSeq(s, 1, Len(s) - 1)
<1>1. Len(s) \in Nat \ {0} /\ DOMAIN s = 1..Len(s)
  OBVIOUS
<1>2. r \in Seq(S) /\ Len(r) = Len(s) - 1
  BY <1>1
<1>3. DOMAIN r = 1..(Len(s) - 1) /\ \A i \in DOMAIN r : r[i] = s[i]
  BY <1>1
<1>4. RangeOf(s) = RangeOf(r) \union {s[Len(s)]}
  <2> HIDE DEF r
  <2> QED
    BY <1>1, <1>3 DEF RangeOf
<1> QED
  BY <1>1, <1>2, <1>3, <1>4
-----------------------------------------------------------------------------
(***************************************************************************)
(* A call that starts: id was what the innermost pending call, if there is *)
(* one, is visiting.  Then id is visited, or there is a cycle.             *)
(***************************************************************************)
LEMMA CallKeeps ==
  ASSUME Types, Partition, OutSorted, result = "running",
         NEW id \in Ids, NEW rest \in Seq(SUBSET Ids), Len(rest) = Len(pending),
         \A i \in DOMAIN pending : \A b \in after[pending[i]] \intersect Members :
           \/ b \in rest[i]
           \/ b \in RangeOf(out)
           \/ i < Len(pending) /\ b = pending[i + 1]
           \/ i = Len(pending) /\ b = id,
         Call(id, rest), UNCHANGED <<given, after>>, next' \in Nat \ {0}
  PROVE  /\ Types'
         /\ \/ result' = "circular"
            \/ /\ result' = "running"
               /\ Partition' /\ CallsExact' /\ OutSorted'
               /\ systems' \subseteq systems /\ id \notin systems'
<1>1. Members' = Members
  BY DEF Members, RangeOf
<1>2. CASE CallCircular(id, rest)
  BY <1>1, <1>2 DEF CallCircular, Types
<1>3. CASE CallReturns(id, rest)
  <2>1. /\ id \notin RangeOf(pending) /\ id \notin systems
        /\ todo' = rest /\ UNCHANGED <<systems, pending, out, result>>
    BY <1>3 DEF CallReturns
  <2>2. Types' /\ Partition' /\ OutSorted'
    <3>1. RangeOf(pending)' = RangeOf(pending) /\ RangeOf(out)' = RangeOf(out)
      BY <2>1 DEF RangeOf
    <3>2. Types'
      BY <1>1, <2>1 DEF Types
    <3>3. Partition'
      BY <1>1, <2>1, <3>1 DEF Partition
    <3>4. OutSorted'
      BY <1>1, <2>1 DEF OutSorted
    <3> QED
      BY <3>2, <3>3, <3>4
  <2>3. id \in Members => id \in RangeOf(out)
    BY <2>1 DEF Partition
  <2>4. CallsExact'
    BY <1>1, <2>1, <2>3 DEF CallsExact, RangeOf
  <2> QED
    BY <2>1, <2>2, <2>4
<1>4. CASE CallDescends(id, rest)
  <2>1. /\ id \notin RangeOf(pending) /\ id \in systems
        /\ systems' = systems \ {id}
        /\ pending' = Append(pending, id)
        /\ todo' = Append(rest, after[id])
        /\ UNCHANGED <<out, result>>
    BY <1>4 DEF CallDescends
  <2>2. /\ pending' \in Seq(Ids) /\ Len(pending') = Len(pending) + 1
        /\ Len(pending) \in Nat
        /\ DOMAIN pending = 1..Len(pending) /\ DOMAIN pending' = 1..(Len(pending) + 1)
        /\ \A i \in DOMAIN pending : pending'[i] = pending[i]
        /\ pending'[Len(pending) + 1] = id
        /\ RangeOf(pending') = RangeOf(pending) \union {id}
    BY <2>1, AppendFacts DEF Types
  <2>3. /\ todo' \in Seq(SUBSET Ids) /\ Len(todo') = Len(pending) + 1
        /\ \A i \in 1..Len(pending) : todo'[i] = rest[i]
        /\ todo'[Len(pending) + 1] = after[id]
    <3>1. after[id] \in SUBSET Ids
      BY DEF Types
    <3> QED
      BY <2>1, <3>1, AppendFacts
  <2>4. Types'
    BY <1>1, <2>1, <2>2, <2>3 DEF Types
  <2>5. Partition'
    <3>1. \A i, j \in DOMAIN pending' : pending'[i] = pending'[j] => i = j
      BY <2>1, <2>2 DEF Partition, RangeOf
    <3>2. RangeOf(out') = RangeOf(out)
      BY <2>1 DEF RangeOf
    <3> QED
      BY <1>1, <2>1, <2>2, <3>1, <3>2 DEF Partition
  <2>6. CallsExact'
    <3> SUFFICES ASSUME NEW i \in DOMAIN pending',
                        NEW b \in after'[pending'[i]] \intersect Members'
                 PROVE  \/ b \in todo'[i]
                        \/ b \in RangeOf(out')
                        \/ i < Len(pending') /\ b = pending'[i + 1]
      BY DEF CallsExact
    <3>1. CASE i = Len(pending) + 1
      BY <2>2, <2>3, <3>1
    <3>2. CASE i \in DOMAIN pending
      BY <1>1, <2>1, <2>2, <2>3, <3>2 DEF RangeOf
    <3> QED
      BY <2>2, <3>1, <3>2
  <2>7. OutSorted'
    BY <1>1, <2>1 DEF OutSorted
  <2> QED
    BY <2>1, <2>4, <2>5, <2>6, <2>7
<1> QED
  BY <1>2, <1>3, <1>4 DEF Call

(***************************************************************************)
(* The invariant holds at first.                                           *)
(***************************************************************************)
LEMMA InitInvariant == Init => IInv
<1> SUFFICES ASSUME Init PROVE IInv
  OBVIOUS
<1>1. given \in Seq(Ids)
  BY DEF Init
<1>2. Types
  BY <1>1 DEF Init, Types
<1>3. Partition
  BY DEF Init, Partition, RangeOf
<1>4. CallsExact /\ OutSorted
  BY DEF Init, CallsExact, OutSorted
<1>5. LoopDone
  BY <1>1 DEF Init, LoopDone
<1>6. result # "done"
  BY DEF Init
<1> QED
  BY <1>2, <1>3, <1>4, <1>5, <1>6 DEF IInv

(***************************************************************************)
(* A turn of the outer loop.                                               *)
(***************************************************************************)
LEMMA NextSystemKeeps == ASSUME IInv, NextSystem PROVE IInv'
<1>1. /\ Types /\ Partition /\ CallsExact /\ OutSorted /\ LoopDone
      /\ result = "running" /\ pending = <<>>
      /\ next \in DOMAIN given /\ next' = next + 1
      /\ Call(given[next], <<>>)
      /\ UNCHANGED <<given, after>>
  BY DEF IInv, NextSystem, Types, input
<1>2. given[next] \in Ids /\ next' \in Nat \ {0}
  BY <1>1 DEF Types
<1>3. /\ Types'
      /\ \/ result' = "circular"
         \/ /\ result' = "running"
            /\ Partition' /\ CallsExact' /\ OutSorted'
            /\ systems' \subseteq systems /\ given[next] \notin systems'
  <2>1. <<>> \in Seq(SUBSET Ids) /\ Len(<<>>) = Len(pending) /\ DOMAIN pending = {}
    BY <1>1
  <2> QED
    BY <1>1, <1>2, <2>1, CallKeeps
<1>4. result' = "running" => LoopDone'
  BY <1>1, <1>3 DEF LoopDone, Types
<1> QED
  BY <1>3, <1>4 DEF IInv

(***************************************************************************)
(* The innermost call visits one of the systems it names.                  *)
(***************************************************************************)
LEMMA VisitAfterKeeps == ASSUME IInv, VisitAfter PROVE IInv'
<1>1. /\ Types /\ Partition /\ CallsExact /\ OutSorted /\ LoopDone
      /\ result = "running" /\ pending # <<>>
      /\ UNCHANGED <<given, after, next>>
  BY DEF IInv, VisitAfter
<1>2. Depth \in DOMAIN pending /\ Depth = Len(pending) /\ DOMAIN todo = DOMAIN pending
  BY <1>1 DEF Types, Depth
<1>3. PICK id \in todo[Depth] : Call(id, [todo EXCEPT ![Depth] = @ \ {id}])
  BY DEF VisitAfter
<1> DEFINE rest == [todo EXCEPT ![Depth] = @ \ {id}]
<1>4. todo[Depth] \subseteq Ids
  BY <1>1, <1>2 DEF Types
<1>5. rest \in Seq(SUBSET Ids) /\ Len(rest) = Len(pending)
  BY <1>1, <1>2, <1>4 DEF Types
<1>6. \A i \in DOMAIN pending : rest[i] = IF i = Depth THEN todo[i] \ {id} ELSE todo[i]
  BY <1>2
<1>7. \A i \in DOMAIN pending : \A b \in after[pending[i]] \intersect Members :
        \/ b \in rest[i]
        \/ b \in RangeOf(out)
        \/ i < Len(pending) /\ b = pending[i + 1]
        \/ i = Len(pending) /\ b = id
  <2> HIDE DEF rest
  <2> QED
    BY <1>1, <1>2, <1>6 DEF CallsExact
<1>8. /\ Types'
      /\ \/ result' = "circular"
         \/ /\ result' = "running"
            /\ Partition' /\ CallsExact' /\ OutSorted'
            /\ systems' \subseteq systems /\ id \notin systems'
  <2>1. id \in Ids /\ Call(id, rest) /\ next' \in Nat \ {0}
    BY <1>1, <1>3, <1>4 DEF Types
  <2> HIDE DEF rest
  <2> QED
    BY <1>1, <1>5, <1>7, <2>1, CallKeeps
<1>9. result' = "running" => LoopDone'
  BY <1>1, <1>8 DEF LoopDone
<1> QED
  BY <1>8, <1>9 DEF IInv

(***************************************************************************)
(* The innermost call returns: all it names is in the result by then.      *)
(***************************************************************************)
LEMMA ReturnKeeps == ASSUME IInv, Return PROVE IInv'
<1> DEFINE sys == pending[Len(pending)]
<1>1. /\ Types /\ Partition /\ CallsExact /\ OutSorted /\ LoopDone
      /\ result = "running" /\ pending # <<>>
      /\ todo[Len(pending)] = {}
      /\ pending' = SubSeq(pending, 1, Len(pending) - 1)
      /\ todo' = SubSeq(todo, 1, Len(todo) - 1)
      /\ out' = Append(out, sys)
      /\ UNCHANGED <<given, after, systems, next, result>>
  BY DEF IInv, Return, Depth, Types
<1>2. Members' = Members
  BY <1>1 DEF Members, RangeOf
<1>3. /\ pending' \in Seq(Ids) /\ Len(pending') = Len(pending) - 1
      /\ Len(pending) \in Nat \ {0}
      /\ DOMAIN pending = 1..Len(pending) /\ DOMAIN pending' = 1..(Len(pending) - 1)
      /\ \A i \in DOMAIN pending' : pending'[i] = pending[i]
      /\ RangeOf(pending) = RangeOf(pending') \union {sys}
  BY <1>1, ButLastFacts DEF Types
<1>4. /\ todo' \in Seq(SUBSET Ids) /\ Len(todo') = Len(pending')
      /\ \A i \in DOMAIN pending' : todo'[i] = todo[i]
  <2>1. todo # <<>>
    BY <1>1, <1>3 DEF Types
  <2> QED
    BY <1>1, <1>3, <2>1, ButLastFacts DEF Types
<1>5. sys \in Ids /\ sys \in RangeOf(pending) /\ sys \notin RangeOf(pending')
  BY <1>1, <1>3 DEF Types, RangeOf, Partition
<1>6. /\ out' \in Seq(Ids)
      /\ Len(out) \in Nat
      /\ DOMAIN out = 1..Len(out) /\ DOMAIN out' = 1..(Len(out) + 1)
      /\ \A i \in DOMAIN out : out'[i] = out[i]
      /\ out'[Len(out) + 1] = sys
      /\ RangeOf(out') = RangeOf(out) \union {sys}
  <2> HIDE DEF sys
  <2> QED
    BY <1>1, <1>5, AppendFacts DEF Types
<1> HIDE DEF sys
<1>7. Types'
  BY <1>1, <1>2, <1>3, <1>4, <1>6 DEF Types
<1>8. Partition'
  <2>1. \A i, j \in DOMAIN pending' : pending'[i] = pending'[j] => i = j
    BY <1>1, <1>3 DEF Partition
  <2>2. sys \notin RangeOf(out)
    BY <1>1, <1>5 DEF Partition
  <2>3. \A i, j \in DOMAIN out' : out'[i] = out'[j] => i = j
    BY <1>1, <1>6, <2>2 DEF Partition, RangeOf
  <2> QED
    BY <1>1, <1>2, <1>3, <1>5, <1>6, <2>1, <2>3 DEF Partition
<1>9. CallsExact'
  <2> SUFFICES ASSUME NEW i \in DOMAIN pending',
                      NEW b \in after'[pending'[i]] \intersect Members'
               PROVE  \/ b \in todo'[i]
                      \/ b \in RangeOf(out')
                      \/ i < Len(pending') /\ b = pending'[i + 1]
    BY DEF CallsExact
  <2>1. \/ b \in todo[i]
        \/ b \in RangeOf(out)
        \/ i < Len(pending) /\ b = pending[i + 1]
    BY <1>1, <1>2, <1>3 DEF CallsExact
  <2>2. CASE i < Len(pending) - 1
    BY <1>3, <1>4, <1>6, <2>1, <2>2
  <2>3. CASE i = Len(pending) - 1
    <3>1. pending[i + 1] = sys
      BY <1>3, <2>3 DEF sys
    <3> QED
      BY <1>4, <1>6, <2>1, <3>1
  <2> QED
    BY <1>3, <2>2, <2>3
<1>10. \A b \in after[sys] \intersect Members : b \in RangeOf(out)
  <2> DEFINE d == Len(pending)
  <2> SUFFICES ASSUME NEW b \in after[sys] \intersect Members PROVE b \in RangeOf(out)
    OBVIOUS
  <2>1. d \in DOMAIN pending /\ ~(d < d)
    BY <1>3
  <2>2. todo[d] = {} /\ pending[d] = sys
    BY <1>1 DEF sys
  <2>3. CallsExact
    BY <1>1
  <2> HIDE DEF d
  <2>4. b \in todo[d] \/ b \in RangeOf(out)
    <3>1. \/ b \in todo[d]
          \/ b \in RangeOf(out)
          \/ d < Len(pending) /\ b = pending[d + 1]
      BY <2>1, <2>2, <2>3 DEF CallsExact
    <3> QED
      BY <2>1, <3>1 DEF d
  <2> QED
    BY <2>2, <2>4
<1>11. OutSorted'
  <2> SUFFICES ASSUME NEW i \in DOMAIN out', NEW b \in after'[out'[i]] \intersect Members'
               PROVE  \E j \in DOMAIN out' : j < i /\ out'[j] = b
    BY DEF OutSorted
  <2>1. CASE i \in DOMAIN out
    <3>1. PICK j \in DOMAIN out : j < i /\ out[j] = b
      BY <1>1, <1>2, <1>6, <2>1 DEF OutSorted
    <3> QED
      BY <1>6, <3>1
  <2>2. CASE i = Len(out) + 1
    <3>1. b \in RangeOf(out)
      BY <1>1, <1>2, <1>6, <1>10, <2>2
    <3>2. PICK j \in DOMAIN out : out[j] = b
      BY <3>1 DEF RangeOf
    <3> QED
      BY <1>6, <2>2, <3>2
  <2> QED
    BY <1>6, <2>1, <2>2
<1>12. LoopDone'
  BY <1>1 DEF LoopDone
<1> QED
  BY <1>1, <1>7, <1>8, <1>9, <1>11, <1>12 DEF IInv

(***************************************************************************)
(* Every part of the invariant is about these variables only.              *)
(***************************************************************************)
LEMMA Untouched ==
  ASSUME UNCHANGED <<given, after, systems, next, pending, todo, out>>
  PROVE  /\ Types => Types'
         /\ Partition => Partition'
         /\ CallsExact => CallsExact'
         /\ OutSorted => OutSorted'
         /\ LoopDone => LoopDone'
<1>1. RangeOf(pending)' = RangeOf(pending) /\ RangeOf(out)' = RangeOf(out)
  BY DEF RangeOf
<1>2. Members' = Members
  BY DEF Members, RangeOf
<1>3. (Types => Types') /\ (LoopDone => LoopDone')
  BY <1>2 DEF Types, LoopDone
<1>4. Partition => Partition'
  BY <1>1, <1>2 DEF Partition
<1>5. (CallsExact => CallsExact') /\ (OutSorted => OutSorted')
  BY <1>1, <1>2 DEF CallsExact, OutSorted
<1> QED
  BY <1>3, <1>4, <1>5

(***************************************************************************)
(* Every step keeps the invariant.                                         *)
(***************************************************************************)
LEMMA StepInvariant == IInv /\ [Next]_vars => IInv'
<1> SUFFICES ASSUME IInv, [Next]_vars PROVE IInv'
  OBVIOUS
<1>1. CASE NextSystem
  BY <1>1, NextSystemKeeps
<1>2. CASE VisitAfter
  BY <1>2, VisitAfterKeeps
<1>3. CASE Return
  BY <1>3, ReturnKeeps
<1>4. CASE Finish
  BY <1>4, Untouched DEF Finish, IInv
<1>5. CASE UNCHANGED vars
  BY <1>5, Untouched DEF vars, IInv
<1> QED
  BY <1>1, <1>2, <1>3, <1>4, <1>5 DEF Next, Ended

(***************************************************************************)
(* The inductive invariant holds in every reachable state.                 *)
(***************************************************************************)
THEOREM Invariance == Spec => []IInv
BY InitInvariant, StepInvariant, PTL DEF Spec

(***************************************************************************)
(* When the walk is over nothing is pending or unvisited: all of the       *)
(* systems are in the result.                                              *)
(***************************************************************************)
LEMMA SortedHolds == IInv => Sorted
<1> SUFFICES ASSUME IInv PROVE Sorted
  OBVIOUS
<1> SUFFICES ASSUME result = "done"
             PROVE  /\ RangeOf(out) = Members
                    /\ \A i, j \in DOMAIN out : out[i] = out[j] => i = j
                    /\ \A a, b \in Members : b \in after[a] => Precedes(out, b, a)
  BY DEF Sorted
<1>1. Types /\ Partition /\ OutSorted /\ LoopDone /\ pending = <<>> /\ next > Len(given)
  BY DEF IInv
<1>2. systems = {}
  BY <1>1 DEF LoopDone, Types, Members, RangeOf
<1>3. RangeOf(out) = Members
  BY <1>1, <1>2 DEF Partition, RangeOf
<1>4. ASSUME NEW a \in Members, NEW b \in Members, b \in after[a]
      PROVE  Precedes(out, b, a)
  <2>1. PICK i \in DOMAIN out : out[i] = a
    BY <1>3 DEF RangeOf
  <2>2. PICK j \in DOMAIN out : j < i /\ out[j] = b
    BY <1>1, <1>4, <2>1 DEF OutSorted
  <2> QED
    BY <2>1, <2>2 DEF Precedes
<1> QED
  BY <1>1, <1>3, <1>4 DEF Partition

(***************************************************************************)
(* A walk that ends without a panic sorts the systems.                     *)
(***************************************************************************)
THEOREM SystemsAreSorted == Spec => []Sorted
BY SortedHolds, Invariance, PTL

(***************************************************************************)
(* The types the runs check: what is pending or in the result is a system  *)
(* of the stage, also of a walk that has panicked.                         *)
(***************************************************************************)
LEMMA TypeOKInit == Init => TypeOK
<1> SUFFICES ASSUME Init PROVE TypeOK
  OBVIOUS
<1>1. given \in Seq(Ids) /\ Len(given) \in Nat
  BY DEF Init
<1>2. next \in 1..(Len(given) + 1)
  BY <1>1 DEF Init
<1> QED
  BY <1>2 DEF Init, TypeOK, Depth

LEMMA TypeOKStep == Types /\ TypeOK /\ [Next]_vars => TypeOK'
<1> SUFFICES ASSUME Types, TypeOK, [Next]_vars PROVE TypeOK'
  OBVIOUS
<1> USE DEF TypeOK, Depth
<1>1. ASSUME NEW id \in Ids, NEW rest \in Seq(SUBSET Ids), Len(rest) = Len(pending),
             Call(id, rest), UNCHANGED <<given, after>>, next' \in 1..(Len(given) + 1)
      PROVE  TypeOK'
  <2>1. Members' = Members
    BY <1>1 DEF Members, RangeOf
  <2>2. CASE CallCircular(id, rest)
    BY <1>1, <2>1, <2>2 DEF CallCircular
  <2>3. CASE CallReturns(id, rest)
    BY <1>1, <2>1, <2>3 DEF CallReturns
  <2>4. CASE CallDescends(id, rest)
    <3>1. /\ id \in Members
          /\ systems' = systems \ {id}
          /\ pending' = Append(pending, id) /\ todo' = Append(rest, after[id])
          /\ UNCHANGED <<out, result>>
      BY <2>4 DEF CallDescends
    <3>2. pending' \in Seq(Members) /\ Len(pending') = Len(pending) + 1
      BY <3>1
    <3>3. after[id] \in SUBSET Ids
      BY <1>1 DEF Types
    <3>4. todo' \in Seq(SUBSET Ids) /\ Len(todo') = Len(rest) + 1
      BY <1>1, <3>1, <3>3
    <3> QED
      BY <1>1, <2>1, <3>1, <3>2, <3>4
  <2> QED
    BY <1>1, <2>2, <2>3, <2>4 DEF Call
<1>2. CASE NextSystem
  <2>1. /\ pending = <<>> /\ next \in DOMAIN given /\ next' = next + 1
        /\ Call(given[next], <<>>) /\ UNCHANGED <<given, after>>
    BY <1>2 DEF NextSystem, input, Types
  <2>2. given[next] \in Ids /\ next' \in 1..(Len(given) + 1)
    BY <2>1 DEF Types
  <2>3. <<>> \in Seq(SUBSET Ids) /\ Len(<<>>) = Len(pending)
    BY <2>1
  <2> HIDE DEF TypeOK
  <2> QED
    BY <1>1, <2>1, <2>2, <2>3
<1>3. CASE VisitAfter
  <2>1. Len(pending) \in DOMAIN todo
    BY <1>3 DEF VisitAfter, Types
  <2>2. PICK id \in todo[Len(pending)] :
          Call(id, [todo EXCEPT ![Len(pending)] = todo[Len(pending)] \ {id}])
    BY <1>3 DEF VisitAfter
  <2>3. todo[Len(pending)] \in SUBSET Ids
    BY <2>1
  <2> DEFINE rest == [todo EXCEPT ![Len(pending)] = todo[Len(pending)] \ {id}]
  <2>4. id \in Ids /\ rest \in Seq(SUBSET Ids) /\ Len(rest) = Len(pending)
    BY <2>1, <2>3
  <2>5. UNCHANGED <<given, after, next>>
    BY <1>3 DEF VisitAfter
  <2>6. next' \in 1..(Len(given) + 1)
    BY <2>5
  <2> HIDE DEF TypeOK, rest
  <2> QED
    BY <1>1, <2>2, <2>4, <2>5, <2>6 DEF rest
<1>4. CASE Return
  <2>1. /\ pending # <<>>
        /\ pending' = SubSeq(pending, 1, Len(pending) - 1)
        /\ todo' = SubSeq(todo, 1, Len(pending) - 1)
        /\ out' = Append(out, pending[Len(pending)])
        /\ UNCHANGED <<given, after, systems, next, result>>
    BY <1>4 DEF Return
  <2>2. Members' = Members
    BY <2>1 DEF Members, RangeOf
  <2>3. pending[Len(pending)] \in Members
    BY <2>1
  <2>4. pending' \in Seq(Members) /\ todo' \in Seq(SUBSET Ids) /\ Len(todo') = Len(pending')
    BY <2>1, ButLastFacts
  <2>5. out' \in Seq(Members)
    BY <2>1, <2>3
  <2> QED
    BY <2>1, <2>2, <2>4, <2>5
<1>5. CASE Finish \/ UNCHANGED vars
  <2>1. UNCHANGED <<given, systems, next, pending, todo, out>> /\ result' \in {"done", result}
    BY <1>5 DEF Finish, vars
  <2>2. Members' = Members
    BY <2>1 DEF Members, RangeOf
  <2> QED
    BY <2>1, <2>2
<1> QED
  BY <1>2, <1>3, <1>4, <1>5 DEF Next, Ended

-----------------------------------------------------------------------------
(***************************************************************************)
(* Why the walk visits what it visits: a pending call is there for what    *)
(* the calls below it name.                                                *)
(***************************************************************************)
LEMMA LeadsToNamed == ASSUME NEW a, NEW b \in Named(a) PROVE LeadsTo(a, b)
BY DEF LeadsTo

LEMMA LeadsToTrans ==
  ASSUME NEW a, NEW b, NEW c, LeadsTo(a, b), LeadsTo(b, c)
  PROVE  LeadsTo(a, c)
<1> SUFFICES ASSUME NEW S \in SUBSET Members, Named(a) \subseteq S,
                    \A x \in S : Named(x) \subseteq S
             PROVE  c \in S
  BY DEF LeadsTo
<1>1. b \in S
  BY DEF LeadsTo
<1>2. Named(b) \subseteq S
  BY <1>1
<1> QED
  BY <1>2 DEF LeadsTo

\* The orders asked for do not change.
LEMMA LeadsToFixed ==
  ASSUME UNCHANGED <<given, after>>
  PROVE  Members' = Members /\ \A a, b : LeadsTo(a, b)' = LeadsTo(a, b)
<1>1. Members' = Members
  BY DEF Members, RangeOf
<1> QED
  BY <1>1 DEF LeadsTo, Named

Chain == \A i, j \in DOMAIN pending : i < j => LeadsTo(pending[i], pending[j])

TodoNamed == \A i \in DOMAIN pending : todo[i] \subseteq after[pending[i]]

\* The outermost call is that of the outer loop.
Root == pending # <<>> => next - 1 \in DOMAIN given /\ pending[1] = given[next - 1]

\* A system in the result comes after those registered before it, unless one
\* of the latter, or one registered still before, leads to it.
OrderKept ==
  \A p \in DOMAIN out : \A i, j \in DOMAIN given :
    i < j /\ out[p] = given[j] =>
      \/ \E q \in DOMAIN out : q < p /\ out[q] = given[i]
      \/ \E k \in 1..i : LeadsTo(given[k], given[j])

WalkInv ==
  /\ result \in {"running", "done"} => ~Repeated /\ Chain /\ TodoNamed /\ Root /\ OrderKept
  /\ result = "circular" => \E a \in Members : LeadsTo(a, a)

LEMMA WalkInit == Init => WalkInv
BY DEF Init, WalkInv, Repeated, Chain, TodoNamed, Root, OrderKept

(***************************************************************************)
(* A call that starts: all pending calls lead to id, so if it is one of    *)
(* them it leads to itself.                                                *)
(***************************************************************************)
LEMMA CallKeepsWalk ==
  ASSUME Types, Partition, WalkInv, result = "running",
         NEW id \in Ids, NEW rest \in Seq(SUBSET Ids), Len(rest) = Len(pending),
         \A i \in DOMAIN pending : rest[i] \subseteq after[pending[i]],
         id \in Members => \A i \in DOMAIN pending : LeadsTo(pending[i], id),
         pending = <<>> => next \in DOMAIN given /\ id = given[next] /\ next' = next + 1,
         pending # <<>> => next' = next,
         Call(id, rest), UNCHANGED <<given, after>>
  PROVE  WalkInv'
<1>1. ~Repeated /\ Chain /\ TodoNamed /\ Root /\ OrderKept
  BY DEF WalkInv
<1>2. Members' = Members /\ \A a, b : LeadsTo(a, b)' = LeadsTo(a, b)
  BY LeadsToFixed
<1>3. ~Repeated'
  BY <1>1 DEF Repeated
<1>4. CASE CallCircular(id, rest)
  <2>1. PICK i \in DOMAIN pending : pending[i] = id
    BY <1>4 DEF CallCircular, RangeOf
  <2>2. id \in Members
    BY <2>1 DEF Partition, RangeOf
  <2>3. LeadsTo(id, id)
    BY <2>1, <2>2
  <2> QED
    BY <1>2, <1>4, <2>2, <2>3 DEF CallCircular, WalkInv
<1>5. CASE CallReturns(id, rest)
  <2>1. todo' = rest /\ UNCHANGED <<systems, pending, out, result>>
    BY <1>5 DEF CallReturns
  <2>2. Chain' /\ OrderKept'
    BY <1>1, <1>2, <2>1 DEF Chain, OrderKept
  <2>3. TodoNamed' /\ Root'
    BY <1>1, <2>1 DEF TodoNamed, Root
  <2> QED
    BY <1>3, <2>1, <2>2, <2>3 DEF WalkInv
<1>6. CASE CallDescends(id, rest)
  <2>1. /\ id \in systems
        /\ pending' = Append(pending, id)
        /\ todo' = Append(rest, after[id])
        /\ UNCHANGED <<out, result>>
    BY <1>6 DEF CallDescends
  <2>2. /\ Len(pending) \in Nat
        /\ DOMAIN pending = 1..Len(pending) /\ DOMAIN pending' = 1..(Len(pending) + 1)
        /\ \A i \in DOMAIN pending : pending'[i] = pending[i]
        /\ pending'[Len(pending) + 1] = id
    BY <2>1, AppendFacts DEF Types
  <2>3. /\ \A i \in 1..Len(pending) : todo'[i] = rest[i]
        /\ todo'[Len(pending) + 1] = after[id]
    <3>1. after[id] \in SUBSET Ids
      BY DEF Types
    <3> QED
      BY <2>1, <3>1, AppendFacts
  <2>4. id \in Members
    BY <2>1 DEF Types
  <2>5. Chain'
    <3> SUFFICES ASSUME NEW i \in DOMAIN pending', NEW j \in DOMAIN pending', i < j
                 PROVE  LeadsTo(pending'[i], pending'[j])
      BY <1>2 DEF Chain
    <3>1. i \in DOMAIN pending
      BY <2>2
    <3>2. CASE j \in DOMAIN pending
      BY <1>1, <2>2, <3>1, <3>2 DEF Chain
    <3>3. CASE j = Len(pending) + 1
      BY <2>2, <2>4, <3>1, <3>3
    <3> QED
      BY <2>2, <3>2, <3>3
  <2>6. TodoNamed'
    BY <2>2, <2>3 DEF TodoNamed
  <2>7. Root'
    <3>1. CASE pending = <<>>
      <4>1. next' - 1 = next /\ pending'[1] = id
        BY <2>1, <3>1 DEF Types
      <4> QED
        BY <3>1, <4>1 DEF Root
    <3>2. CASE pending # <<>>
      BY <1>1, <2>2, <3>2 DEF Root
    <3> QED
      BY <3>1, <3>2
  <2>8. OrderKept'
    BY <1>2, <2>1 DEF OrderKept, WalkInv
  <2> QED
    BY <1>3, <2>1, <2>5, <2>6, <2>7, <2>8 DEF WalkInv
<1> QED
  BY <1>4, <1>5, <1>6 DEF Call

LEMMA NextSystemKeepsWalk == ASSUME IInv, WalkInv, NextSystem PROVE WalkInv'
<1>1. /\ Types /\ Partition /\ result = "running" /\ pending = <<>>
      /\ next \in DOMAIN given /\ next' = next + 1
      /\ Call(given[next], <<>>)
      /\ UNCHANGED <<given, after>>
  BY DEF IInv, NextSystem, Types, input
<1>2. given[next] \in Ids
  BY <1>1 DEF Types
<1>3. <<>> \in Seq(SUBSET Ids) /\ Len(<<>>) = Len(pending) /\ DOMAIN pending = {}
  BY <1>1
<1> QED
  BY <1>1, <1>2, <1>3, CallKeepsWalk

LEMMA VisitAfterKeepsWalk == ASSUME IInv, WalkInv, VisitAfter PROVE WalkInv'
<1>1. /\ Types /\ Partition /\ Chain /\ TodoNamed
      /\ result = "running" /\ pending # <<>>
      /\ UNCHANGED <<given, after, next>>
  BY DEF IInv, WalkInv, VisitAfter
<1>2. Depth \in DOMAIN pending /\ Depth = Len(pending) /\ DOMAIN todo = DOMAIN pending
  BY <1>1 DEF Types, Depth
<1>3. PICK id \in todo[Depth] : Call(id, [todo EXCEPT ![Depth] = @ \ {id}])
  BY DEF VisitAfter
<1> DEFINE rest == [todo EXCEPT ![Depth] = @ \ {id}]
<1>4. todo[Depth] \subseteq Ids
  BY <1>1, <1>2 DEF Types
<1>5. rest \in Seq(SUBSET Ids) /\ Len(rest) = Len(pending)
  BY <1>1, <1>2, <1>4 DEF Types
<1>6. \A i \in DOMAIN pending : rest[i] \subseteq todo[i]
  BY <1>2
<1>7. ASSUME id \in Members, NEW i \in DOMAIN pending PROVE LeadsTo(pending[i], id)
  <2>1. id \in Named(pending[Depth])
    BY <1>1, <1>2, <1>7 DEF TodoNamed, Named
  <2>2. LeadsTo(pending[Depth], id)
    BY <2>1, LeadsToNamed
  <2>3. i = Depth \/ i < Depth
    BY <1>1, <1>2 DEF Types
  <2> QED
    BY <1>1, <1>2, <2>2, <2>3, LeadsToTrans DEF Chain
<1>8. id \in Ids /\ Call(id, rest)
  BY <1>3, <1>4
<1> HIDE DEF rest
<1>9. \A i \in DOMAIN pending : rest[i] \subseteq after[pending[i]]
  BY <1>1, <1>6 DEF TodoNamed
<1> QED
  BY <1>1, <1>5, <1>7, <1>8, <1>9, CallKeepsWalk

(***************************************************************************)
(* The innermost call returns.  What was registered before it and is not   *)
(* in the result is either pending, and leads to it, or not yet seen by    *)
(* the outer loop; then what the outer loop has last seen leads to it.     *)
(***************************************************************************)
LEMMA ReturnKeepsWalk == ASSUME IInv, WalkInv, Return PROVE WalkInv'
<1> DEFINE d == Len(pending)
<1> DEFINE sys == pending[d]
<1>1. /\ Types /\ Partition /\ LoopDone
      /\ ~Repeated /\ Chain /\ TodoNamed /\ Root /\ OrderKept
      /\ result = "running" /\ pending # <<>>
      /\ pending' = SubSeq(pending, 1, d - 1)
      /\ todo' = SubSeq(todo, 1, Len(todo) - 1)
      /\ out' = Append(out, sys)
      /\ UNCHANGED <<given, after, systems, next, result>>
  BY DEF IInv, WalkInv, Return, Depth, Types
<1>2. /\ DOMAIN pending = 1..d /\ DOMAIN pending' = 1..(d - 1) /\ d \in Nat \ {0}
      /\ \A i \in DOMAIN pending' : pending'[i] = pending[i]
  BY <1>1, ButLastFacts DEF Types
<1>3. \A i \in DOMAIN pending' : todo'[i] = todo[i]
  <2>1. todo # <<>>
    BY <1>1, <1>2 DEF Types
  <2> QED
    BY <1>1, <1>2, <2>1, ButLastFacts DEF Types
<1>4. /\ Len(out) \in Nat
      /\ DOMAIN out = 1..Len(out) /\ DOMAIN out' = 1..(Len(out) + 1)
      /\ \A i \in DOMAIN out : out'[i] = out[i]
      /\ out'[Len(out) + 1] = sys
  <2>1. sys \in Ids
    BY <1>1, <1>2 DEF Types
  <2> HIDE DEF sys
  <2> QED
    BY <1>1, <2>1, AppendFacts DEF Types
<1>5. Members' = Members /\ \A a, b : LeadsTo(a, b)' = LeadsTo(a, b)
  BY <1>1, LeadsToFixed
<1>6. Chain'
  BY <1>1, <1>2, <1>5 DEF Chain
<1>7. TodoNamed'
  <2> SUFFICES ASSUME NEW i \in DOMAIN pending' PROVE todo'[i] \subseteq after[pending'[i]]
    BY <1>1 DEF TodoNamed
  <2>1. i \in DOMAIN pending /\ pending'[i] = pending[i] /\ todo'[i] = todo[i]
    BY <1>2, <1>3
  <2>2. todo[i] \subseteq after[pending[i]]
    BY <1>1, <2>1 DEF TodoNamed
  <2> QED
    BY <2>1, <2>2
<1>8. Root'
  <2>1. pending' # <<>> => 1 \in DOMAIN pending'
    BY <1>1, <1>2 DEF Types
  <2> QED
    BY <1>1, <1>2, <2>1 DEF Root
<1>9. ~Repeated'
  BY <1>1 DEF Repeated
<1>10. ASSUME NEW i \in DOMAIN given, NEW j \in DOMAIN given, i < j, sys = given[j],
              given[i] \notin RangeOf(out)
       PROVE  \E k \in 1..i : LeadsTo(given[k], given[j])
  <2>1. DOMAIN given = 1..Len(given) /\ Len(given) \in Nat
    BY <1>1 DEF Types
  <2>2. CASE i < next
    <3>1. given[i] \in Members /\ given[i] \notin systems
      BY <1>1, <2>2 DEF LoopDone, Members, RangeOf
    <3>2. PICK m \in DOMAIN pending : pending[m] = given[i]
      BY <1>1, <1>10, <3>1 DEF Partition, RangeOf
    <3>3. m # d
      <4>1. i # j
        BY <1>10, <2>1
      <4>2. given[i] # given[j]
        BY <1>1, <4>1 DEF Repeated
      <4> QED
        BY <1>10, <3>2, <4>2
    <3>4. LeadsTo(given[i], sys)
      BY <1>1, <1>2, <3>2, <3>3 DEF Chain
    <3> QED
      BY <1>10, <2>1, <3>4
  <2>3. CASE ~(i < next)
    <3>1. next - 1 \in DOMAIN given /\ pending[1] = given[next - 1]
      BY <1>1 DEF Root
    <3>2. next - 1 \in 1..i /\ next - 1 < j
      BY <1>1, <1>10, <2>1, <2>3, <3>1 DEF Types
    <3>3. given[next - 1] # given[j]
      <4>1. next - 1 # j
        BY <1>1, <2>1, <3>1, <3>2
      <4> QED
        BY <1>1, <3>1, <4>1 DEF Repeated
    <3>4. d # 1
      BY <1>10, <3>1, <3>3
    <3>5. LeadsTo(pending[1], sys)
      BY <1>1, <1>2, <3>4 DEF Chain
    <3> QED
      BY <1>10, <3>1, <3>2, <3>5
  <2> QED
    BY <2>2, <2>3
<1> HIDE DEF sys, d
<1>11. OrderKept'
  <2> SUFFICES ASSUME NEW p \in DOMAIN out', NEW i \in DOMAIN given, NEW j \in DOMAIN given,
                      i < j, out'[p] = given[j]
               PROVE  \/ \E q \in DOMAIN out' : q < p /\ out'[q] = given[i]
                      \/ \E k \in 1..i : LeadsTo(given[k], given[j])
    BY <1>1, <1>5 DEF OrderKept
  <2>1. CASE p \in DOMAIN out
    <3>1. \/ \E q \in DOMAIN out : q < p /\ out[q] = given[i]
          \/ \E k \in 1..i : LeadsTo(given[k], given[j])
      BY <1>1, <1>4, <2>1 DEF OrderKept
    <3> QED
      BY <1>4, <3>1
  <2>2. CASE p = Len(out) + 1
    <3>1. CASE given[i] \in RangeOf(out)
      <4>1. PICK q \in DOMAIN out : out[q] = given[i]
        BY <3>1 DEF RangeOf
      <4> QED
        BY <1>4, <2>2, <4>1
    <3>2. CASE given[i] \notin RangeOf(out)
      BY <1>4, <1>10, <2>2, <3>2
    <3> QED
      BY <3>1, <3>2
  <2> QED
    BY <1>4, <2>1, <2>2
<1> QED
  BY <1>1, <1>6, <1>7, <1>8, <1>9, <1>11 DEF WalkInv

LEMMA WalkStep == IInv /\ WalkInv /\ [Next]_vars => WalkInv'
<1> SUFFICES ASSUME IInv, WalkInv, [Next]_vars PROVE WalkInv'
  OBVIOUS
<1>1. CASE NextSystem
  BY <1>1, NextSystemKeepsWalk
<1>2. CASE VisitAfter
  BY <1>2, VisitAfterKeepsWalk
<1>3. CASE Return
  BY <1>3, ReturnKeepsWalk
<1>4. CASE Finish \/ UNCHANGED vars
  <2>1. /\ UNCHANGED <<given, after, next, pending, todo, out>>
        /\ \/ result' = result
           \/ result = "running" /\ result' = "done"
    BY <1>4 DEF Finish, vars
  <2>2. Members' = Members /\ \A a, b : LeadsTo(a, b)' = LeadsTo(a, b)
    BY <2>1, LeadsToFixed
  <2> QED
    BY <2>1, <2>2 DEF WalkInv, Repeated, Chain, TodoNamed, Root, OrderKept
<1> QED
  BY <1>1, <1>2, <1>3, <1>4 DEF Next, Ended

(***************************************************************************)
(* Whatever overtakes a system in the result is led to.                    *)
(***************************************************************************)
LEMMA OrderIsKept == IInv /\ WalkInv => KeepsOrder
<1> SUFFICES ASSUME IInv, WalkInv, result = "done",
                    NEW i \in DOMAIN given, NEW j \in DOMAIN given,
                    i < j, Precedes(out, given[j], given[i])
             PROVE  \E k \in 1..i : LeadsTo(given[k], given[j])
  BY DEF KeepsOrder
<1>1. PICK p \in DOMAIN out, q \in DOMAIN out : p < q /\ out[p] = given[j] /\ out[q] = given[i]
  BY DEF Precedes
<1>2. Types /\ Partition /\ OrderKept
  BY DEF IInv, WalkInv
<1>3. ~\E r \in DOMAIN out : r < p /\ out[r] = given[i]
  BY <1>1, <1>2 DEF Partition, Types
<1> QED
  BY <1>1, <1>2, <1>3 DEF OrderKept

\* Of every walk, also one that is refused.
THEOREM WalkInvariance == Spec => []WalkInv
BY WalkInit, WalkStep, Invariance, PTL DEF Spec

(***************************************************************************)
(* Only systems that lead to each other are refused as circular.           *)
(***************************************************************************)
THEOREM CircularIsCyclic == Spec => []CircularMeansCycle
<1>1. WalkInv => CircularMeansCycle
  BY DEF WalkInv, CircularMeansCycle
<1> QED
  BY <1>1, WalkInvariance, PTL

(***************************************************************************)
(* Systems that nothing orders stay as registered.                         *)
(***************************************************************************)
THEOREM OrderOfRegistration == Spec => []KeepsOrder
BY OrderIsKept, Invariance, WalkInvariance, PTL
=============================================================================
