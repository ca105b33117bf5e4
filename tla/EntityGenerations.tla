------------------------- MODULE EntityGenerations -------------------------
(***************************************************************************)
(* How long a stale EntityId stays rejected.  EntityIndex with a history   *)
(* variable: freed_since[id] counts the calls of free on the slot of id    *)
(* from the one that freed id on (0: never freed, or forgotten).  The      *)
(* history of a slot is forgotten when insert_id gives the slot a          *)
(* generation of the caller's choice, which may well be an old one.        *)
(***************************************************************************)
EXTENDS EntityIndex

VARIABLE freed_since

gvars == <<vars, freed_since>>

GInit == Init /\ freed_since = [id \in EntityId |-> 0]

\* A count of GenMod says that the slot went once around its generations.
NoteFree(id) ==
  freed_since' = [other \in EntityId |->
     CASE other = id -> 1
       [] other # id /\ other[1] = id[1] /\ freed_since[other] \in 1..(GenMod - 1)
            -> freed_since[other] + 1
       [] OTHER -> freed_since[other]]

NoteInsert(id) ==
  freed_since' = [other \in EntityId |->
     IF other[1] = id[1] THEN 0 ELSE freed_since[other]]

GNext ==
  \/ Allocate /\ UNCHANGED freed_since
  \/ AllocateWithResize /\ UNCHANGED freed_since
  \/ \E n \in 1..MaxReserve : Reserve(n) /\ UNCHANGED freed_since
  \/ \E id \in EntityId : InsertId(id) /\ NoteInsert(id)
  \/ \E id \in EntityId : InsertIdBeyond(id) /\ NoteInsert(id)
  \/ \E id \in allocated, t \in Tables, r \in Rows :
       Update(id, t, r) /\ UNCHANGED freed_since
  \/ \E id \in allocated, r \in Rows :
       UpdateRowIndex(id, r) /\ UNCHANGED freed_since
  \/ \E id \in allocated : Free(id) /\ NoteFree(id)

GSpec == GInit /\ [][GNext]_gvars
-----------------------------------------------------------------------------
(***************************************************************************)
(* is_valid and read reject the id of a freed entity until its slot has    *)
(* been freed GenMod times from then on (256 in the code), however often   *)
(* the slot is taken again in between.  At that point the 8-bit generation *)
(* has wrapped and the stale id names the new owner: the bound is tight.   *)
(***************************************************************************)
StaleIdsRejected ==
  \A id \in EntityId :
    freed_since[id] \in 1..(GenMod - 1) => id \notin allocated /\ ~IsValid(id)
=============================================================================
