------------------------------- MODULE IdPool -------------------------------
(***************************************************************************)
(* What the entity index promises: a pool of ids <<index, generation>>, at *)
(* most one in use per index, each with at most one place, a pair          *)
(* <<table, row>>, that changes only when the holder of that id says so.   *)
(* A taken id has no place (<<>>) until it is first put somewhere.         *)
(***************************************************************************)
EXTENDS Naturals

CONSTANTS EntityId, Tables, Rows

VARIABLES ids, place

Init == ids = {} /\ place = [id \in {} |-> <<>>]

Take(id) ==
  /\ \A other \in ids : other[1] # id[1]
  /\ ids' = ids \union {id}
  /\ place' = [i \in ids' |-> IF i = id THEN <<>> ELSE place[i]]

Put(id, table, row) ==
  /\ place' = [place EXCEPT ![id] = <<table, row>>]
  /\ UNCHANGED ids

MoveRow(id, row) ==
  /\ place[id] # <<>>
  /\ place' = [place EXCEPT ![id] = <<@[1], row>>]
  /\ UNCHANGED ids

Release(id) ==
  /\ ids' = ids \ {id}
  /\ place' = [i \in ids' |-> place[i]]

Next ==
  \/ \E id \in EntityId : Take(id)
  \/ \E id \in ids, table \in Tables, row \in Rows : Put(id, table, row)
  \/ \E id \in ids, row \in Rows : MoveRow(id, row)
  \/ \E id \in ids : Release(id)

Spec == Init /\ [][Next]_<<ids, place>>
=============================================================================
