------------------------------ MODULE MCStage ------------------------------
(***************************************************************************)
(* TLC instance of BuiltStage: every builder of up to three systems, every *)
(* order they may ask for, and for stages of three these accesses.         *)
(***************************************************************************)
EXTENDS BuiltStage

MCAccess ==
  {[NoAccess EXCEPT !.comp_const = {"C"}],
   [NoAccess EXCEPT !.comp_mut = {"C"}],
   [NoAccess EXCEPT !.comp_const = {"C"}, !.res_mut = {"R"}],
   [NoAccess EXCEPT !.res_const = {"R"}, !.res_mut = {CommandSentinel}],
   [NoAccess EXCEPT !.exclusive = TRUE]}
=============================================================================
