----------------------------- MODULE MCCommands -----------------------------
(***************************************************************************)
(* TLC instance of Commands: three commands by two systems are a batch the *)
(* sort may put out of order.  Ids are interchangeable.                    *)
(***************************************************************************)
EXTENDS Commands, TLC

MCWritten ==
  [type : {"entity"}, action : {"fetch"}, id : Ids, value : Values]
    \union [type : {"entity"}, action : {"insert"}, value : Values]
    \union [type : {"entity"}, action : {"insert_id"}, id : Ids, value : {None}]
    \union [type : {"entity"}, action : {"delete"}, id : Ids]
    \union {[type |-> "entity", action |-> "merge", src |-> e, dst |-> f] :
              <<e, f>> \in {p \in Ids \X Ids : p[1] # p[2]}}
    \union [type : {"resource"}, value : Values]
    \union [type : {"reserve"}]

Symmetry == Permutations(Ids)
=============================================================================
