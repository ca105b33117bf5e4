------------------------ MODULE MCEntityGenerations ------------------------
(***************************************************************************)
(* TLC instance of EntityIndex with the history of EntityGenerations: an   *)
(* index of up to three slots with three generations, and rows that are    *)
(* slot numbers, too.                                                      *)
(***************************************************************************)
EXTENDS EntityGenerations
=============================================================================
