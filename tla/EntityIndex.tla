---------------------------- MODULE EntityIndex ----------------------------
(***************************************************************************)
(* The entity index of cecs (src/src/entity_index.rs): a growable array of *)
(* entries whose unused slots form a singly linked free list threaded      *)
(* through row_index, and whose generation counter tells apart the         *)
(* successive owners of one slot.                                          *)
(*                                                                         *)
(* The array of struct Entry is modelled field by field: generation, arch  *)
(* and row_index are functions on the slots 0..cap-1.  An EntityId is the  *)
(* pair <<index, generation>> (src/src/entity_id.rs packs the same pair    *)
(* into 24 + 8 bits).                                                      *)
(*                                                                         *)
(* The variable allocated is not a field of the struct: it is the set of   *)
(* ids the callers (World and EntityCommands) have been given and have not *)
(* freed.  It states the callers' side of the "# Safety" contracts and is  *)
(* never read by the code's own computations.                              *)
(***************************************************************************)
EXTENDS Integers, FiniteSets

CONSTANTS
  IndexMask,        \* ENTITY_INDEX_MASK: every capacity stays below it
  GenMod,           \* ENTITY_GEN_MASK + 1: generations count modulo GenMod
  Sentinel,         \* SENTINEL (!0): the end of the free list
  Null,             \* the null archetype pointer
  Tables,           \* addresses of archetype tables
  Rows,             \* row numbers an entity may be given inside a table
  InitialCapacity,  \* argument of EntityIndex::new
  MaxReserve        \* bound on the argument of reserve

ASSUME IndexAssumption ==
  /\ IndexMask \in Nat /\ IndexMask > 2
  /\ GenMod \in Nat /\ GenMod > 1
  /\ Sentinel \in Nat /\ Sentinel > IndexMask
  /\ Null \notin Tables
  /\ Rows \subseteq Nat
  /\ InitialCapacity \in Nat /\ InitialCapacity < IndexMask
  /\ MaxReserve \in Nat

VARIABLES
  cap,         \* number of entries
  count,       \* "Currently allocated entries"
  free_list,   \* head of the free list, or Sentinel
  generation,  \* Entry.generation of every slot
  arch,        \* Entry.arch of every slot
  row_index,   \* Entry.row_index: row of an entity, or next free slot
  allocated    \* ids held by the callers

vars == <<cap, count, free_list, generation, arch, row_index, allocated>>
-----------------------------------------------------------------------------
Indices == 0..(IndexMask - 1)
Generations == 0..(GenMod - 1)
EntityId == Indices \X Generations
Slots == 0..(cap - 1)
AllocatedSlots == {id[1] : id \in allocated}

(***************************************************************************)
(* EntityIndex::new.  "allocate at least 1 entry": the slots are chained   *)
(* in increasing order and the last one ends the list.                     *)
(***************************************************************************)
Init ==
  /\ cap = IF InitialCapacity = 0 THEN 1 ELSE InitialCapacity
  /\ count = 0
  /\ free_list = 0
  /\ generation = [i \in Slots |-> 0]
  /\ arch = [i \in Slots |-> Null]
  /\ row_index = [i \in Slots |-> IF i = cap - 1 THEN Sentinel ELSE i + 1]
  /\ allocated = {}

(***************************************************************************)
(* grow(new_cap): the old entries are copied, the new ones are chained in  *)
(* front of the free list.  The asserts of grow are CanGrow; a failing     *)
(* assert panics before anything is written.                               *)
(***************************************************************************)
CanGrow(new_cap) == new_cap < IndexMask /\ new_cap > cap /\ new_cap >= 2

GrownGeneration(new_cap) ==
  [i \in 0..(new_cap - 1) |-> IF i < cap THEN generation[i] ELSE 0]

\* Mutant: the archetype pointers of the old entries are not copied.
GrownArchForgets(new_cap) == [i \in 0..(new_cap - 1) |-> Null]

GrownArch(new_cap) ==
  [i \in 0..(new_cap - 1) |-> IF i < cap THEN arch[i] ELSE Null]

\* Mutant: the new chain ends the list, so the old free slots are lost.
GrownRowIndexDropsTail(new_cap) ==
  [i \in 0..(new_cap - 1) |->
     IF i < cap THEN row_index[i]
     ELSE IF i = new_cap - 1 THEN Sentinel ELSE i + 1]

GrownRowIndex(new_cap) ==
  [i \in 0..(new_cap - 1) |->
     IF i < cap THEN row_index[i]
     ELSE IF i = new_cap - 1 THEN free_list ELSE i + 1]

Grow(new_cap) ==
  /\ CanGrow(new_cap)
  /\ cap' = new_cap
  /\ free_list' = cap
  /\ generation' = GrownGeneration(new_cap)
  /\ arch' = GrownArch(new_cap)
  /\ row_index' = GrownRowIndex(new_cap)
  /\ UNCHANGED <<count, allocated>>

(***************************************************************************)
(* allocate(): free_list_pop, or the slot number count when the list is    *)
(* empty, then init_allocated_id.  With an empty list and count = cap it   *)
(* returns OutOfCapacity and changes nothing.                              *)
(***************************************************************************)
OutOfCapacity == free_list = Sentinel /\ count = cap

NextSlot == IF free_list # Sentinel THEN free_list ELSE count

Allocate ==
  /\ ~OutOfCapacity
  /\ count' = count + 1
  /\ free_list' = IF free_list # Sentinel THEN row_index[free_list] ELSE Sentinel
  /\ arch' = [arch EXCEPT ![NextSlot] = Null]
  /\ row_index' = [row_index EXCEPT ![NextSlot] = Sentinel]
  /\ allocated' = allocated \union {<<NextSlot, generation[NextSlot]>>}
  /\ UNCHANGED <<cap, generation>>

(***************************************************************************)
(* allocate_with_resize() when the index is full: grow by half, rounded    *)
(* up, then allocate pops slot cap, the first of the new ones.  (When the  *)
(* index is not full it is Allocate.)                                      *)
(***************************************************************************)
ResizedCap == (3 * cap + 1) \div 2

AllocateWithResize ==
  /\ OutOfCapacity
  /\ CanGrow(ResizedCap)
  /\ cap' = ResizedCap
  /\ count' = count + 1
  /\ free_list' = GrownRowIndex(ResizedCap)[cap]
  /\ generation' = GrownGeneration(ResizedCap)
  /\ arch' = GrownArch(ResizedCap)
  /\ row_index' = [GrownRowIndex(ResizedCap) EXCEPT ![cap] = Sentinel]
  /\ allocated' = allocated \union {<<cap, 0>>}

Reserve(additional) ==
  /\ count + additional > cap
  /\ Grow(count + additional)

(***************************************************************************)
(* Walking the free list from its head.  A set is closed when it holds the *)
(* head and the successor of each of its members; the slots the walk       *)
(* visits are the ones in every closed set.                                *)
(***************************************************************************)
ClosedUnderNext(S, head, next) ==
  /\ head # Sentinel => head \in S
  /\ \A i \in S : next[i] \in DOMAIN next => next[i] \in S

OnFreeList(i) ==
  \A S \in SUBSET Slots : ClosedUnderNext(S, free_list, row_index) => i \in S

FreeSlots == {i \in Slots : OnFreeList(i)}

(***************************************************************************)
(* insert_id(id): take a given slot with a given generation.  The slot     *)
(* must be on the free list; an initialised slot (arch not null) and a     *)
(* slot that was allocated but never initialised are refused with Taken or *)
(* AlreadyInserted, which change nothing.  InsertId is the case            *)
(* id.index() < capacity, where the walk finds the slot and unlinks it.    *)
(***************************************************************************)
Unlinked(needle) ==
  [i \in Slots |->
     IF i = needle THEN Sentinel
     ELSE IF OnFreeList(i) /\ row_index[i] = needle THEN row_index[needle]
     ELSE row_index[i]]

\* Mutant: a null archetype is taken for a free slot, the list is not walked.
InsertIdTrustsArch(id) ==
  /\ id[1] < cap
  /\ arch[id[1]] = Null
  /\ count' = count + 1
  /\ free_list' = IF free_list = id[1] THEN row_index[id[1]] ELSE free_list
  /\ row_index' = Unlinked(id[1])
  /\ generation' = [generation EXCEPT ![id[1]] = id[2]]
  /\ allocated' = allocated \union {id}
  /\ UNCHANGED <<cap, arch>>

InsertId(id) ==
  /\ id[1] < cap
  /\ arch[id[1]] = Null
  /\ OnFreeList(id[1])
  /\ count' = count + 1
  /\ free_list' = IF free_list = id[1] THEN row_index[id[1]] ELSE free_list
  /\ row_index' = Unlinked(id[1])
  /\ arch' = [arch EXCEPT ![id[1]] = Null]
  /\ generation' = [generation EXCEPT ![id[1]] = id[2]]
  /\ allocated' = allocated \union {id}
  /\ UNCHANGED cap

(***************************************************************************)
(* insert_id(id) past the capacity: grow to id.index() + 1, so that the    *)
(* slot is the last of the new chain cap, cap+1, ..., id.index(), whose    *)
(* successor is the old head; unlinking it lets its predecessor (or the    *)
(* head, when it is the only new slot) continue with the old head.         *)
(***************************************************************************)
\* Mutant: the slot is unlinked without counting it.
InsertIdBeyondUncounted(id) ==
  /\ id[1] >= cap
  /\ CanGrow(id[1] + 1)
  /\ cap' = id[1] + 1
  /\ count' = count
  /\ free_list' = IF id[1] = cap THEN free_list ELSE cap
  /\ row_index' = [GrownRowIndex(id[1] + 1) EXCEPT
                     ![id[1]] = Sentinel, ![id[1] - 1] = free_list]
  /\ arch' = GrownArch(id[1] + 1)
  /\ generation' = [GrownGeneration(id[1] + 1) EXCEPT ![id[1]] = id[2]]
  /\ allocated' = allocated \union {id}

InsertIdBeyond(id) ==
  LET needle == id[1]
      rows   == GrownRowIndex(needle + 1)
  IN
  /\ needle >= cap
  /\ CanGrow(needle + 1)
  /\ cap' = needle + 1
  /\ count' = count + 1
  /\ free_list' = IF needle = cap THEN rows[needle] ELSE cap
  /\ row_index' = [i \in 0..needle |->
                     IF i = needle THEN Sentinel
                     ELSE IF i >= cap /\ rows[i] = needle THEN rows[needle]
                     ELSE rows[i]]
  /\ arch' = GrownArch(needle + 1)
  /\ generation' = [GrownGeneration(needle + 1) EXCEPT ![needle] = id[2]]
  /\ allocated' = allocated \union {id}

(***************************************************************************)
(* update and update_row_index: "Caller must ensure that the id is valid". *)
(* World::init_id calls update on a freshly allocated id, every other call *)
(* is about an entity that already sits in a table.                        *)
(***************************************************************************)
IsValid(id) == id[1] < cap /\ generation[id[1]] = id[2] /\ arch[id[1]] # Null

Update(id, table, row) ==
  /\ id \in allocated
  /\ arch' = [arch EXCEPT ![id[1]] = table]
  /\ row_index' = [row_index EXCEPT ![id[1]] = row]
  /\ UNCHANGED <<cap, count, free_list, generation, allocated>>

UpdateRowIndex(id, row) ==
  /\ id \in allocated
  /\ IsValid(id)
  /\ row_index' = [row_index EXCEPT ![id[1]] = row]
  /\ UNCHANGED <<cap, count, free_list, generation, arch, allocated>>

(***************************************************************************)
(* free(id): bump the generation modulo GenMod and push the slot.          *)
(***************************************************************************)
\* Mutant: the generation is not masked to its width.
FreeUnmasked(id) ==
  /\ id \in allocated
  /\ count' = count - 1
  /\ arch' = [arch EXCEPT ![id[1]] = Null]
  /\ generation' = [generation EXCEPT ![id[1]] = @ + 1]
  /\ row_index' = [row_index EXCEPT ![id[1]] = free_list]
  /\ free_list' = id[1]
  /\ allocated' = allocated \ {id}
  /\ UNCHANGED cap

\* Mutant: the generation is left as it was.
FreeKeepsGeneration(id) ==
  /\ id \in allocated
  /\ count' = count - 1
  /\ arch' = [arch EXCEPT ![id[1]] = Null]
  /\ row_index' = [row_index EXCEPT ![id[1]] = free_list]
  /\ free_list' = id[1]
  /\ allocated' = allocated \ {id}
  /\ UNCHANGED <<cap, generation>>

Free(id) ==
  /\ id \in allocated
  /\ count' = count - 1
  /\ arch' = [arch EXCEPT ![id[1]] = Null]
  /\ generation' = [generation EXCEPT ![id[1]] = (@ + 1) % GenMod]
  /\ row_index' = [row_index EXCEPT ![id[1]] = free_list]
  /\ free_list' = id[1]
  /\ allocated' = allocated \ {id}
  /\ UNCHANGED cap

Next ==
  \/ Allocate
  \/ AllocateWithResize
  \/ \E n \in 1..MaxReserve : Reserve(n)
  \/ \E id \in EntityId : InsertId(id)
  \/ \E id \in EntityId : InsertIdBeyond(id)
  \/ \E id \in allocated, t \in Tables, r \in Rows : Update(id, t, r)
  \/ \E id \in allocated, r \in Rows : UpdateRowIndex(id, r)
  \/ \E id \in allocated : Free(id)

Spec == Init /\ [][Next]_vars
-----------------------------------------------------------------------------
(***************************************************************************)
(* Properties.                                                             *)
(***************************************************************************)

(***************************************************************************)
(* Every field keeps its range: the capacity stays below the index mask,   *)
(* generations fit their bits, links and rows are slots, rows or Sentinel. *)
(***************************************************************************)
TypeOK ==
  /\ cap \in 1..(IndexMask - 1)
  /\ count \in 0..cap
  /\ free_list \in Slots \union {Sentinel}
  /\ generation \in [Slots -> Generations]
  /\ arch \in [Slots -> Tables \union {Null}]
  /\ row_index \in [Slots -> Slots \union Rows \union {Sentinel}]
  /\ allocated \subseteq Slots \X Generations

(***************************************************************************)
(* A walk of the free list visits exactly the slots no caller holds: no    *)
(* slot leaks when the array grows or a slot is unlinked from the middle   *)
(* of the list, and no held slot can be handed out a second time although  *)
(* its row_index, now a row number, may equal the number of a slot.        *)
(***************************************************************************)
FreeListExact == FreeSlots = Slots \ AllocatedSlots

(***************************************************************************)
(* count is the number of slots in use.  Together with FreeListExact it    *)
(* makes OutOfCapacity exact: the list is empty only when count = cap, so  *)
(* the branch of allocate() that uses slot number count is never taken.    *)
(***************************************************************************)
CountExact == count = Cardinality(AllocatedSlots)

(***************************************************************************)
(* The generation stored in a slot is the one its holder was given, so no  *)
(* two holders share a slot, whatever mix of allocate, insert_id, free and *)
(* growth led there; the debug_assert_eq! of update, update_row_index and  *)
(* free on the generation cannot fail.                                     *)
(***************************************************************************)
HeldIdsCurrent == \A id \in allocated : generation[id[1]] = id[2]

(***************************************************************************)
(* The abstract pool of ids (IdPool), as a reader of the index sees it:    *)
(* the ids in use are the slots off the free list with their generations,  *)
(* and the place of an id is what read() returns.  Growth, the free list   *)
(* and the double use of row_index must be invisible.                      *)
(***************************************************************************)
HeldIds == {<<i, generation[i]>> : i \in Slots \ FreeSlots}

Place == [id \in HeldIds |->
            IF arch[id[1]] = Null THEN <<>>
            ELSE <<arch[id[1]], row_index[id[1]]>>]

Pool == INSTANCE IdPool WITH ids <- HeldIds, place <- Place

(***************************************************************************)
(* Every step of the entity index is a step of the abstract id pool.       *)
(***************************************************************************)
PoolSpec == Pool!Spec
=============================================================================
