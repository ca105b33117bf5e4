----------------------------- MODULE MCPersist -----------------------------
(***************************************************************************)
(* TLC instance of Persist: what an application registers over time.       *)
(***************************************************************************)
EXTENDS Persist

CA == <<"Component", "A">>
CB == <<"Component", "B">>
RA == <<"Resource", "A">>
RB == <<"Resource", "B">>

MCIds == {<<0, 0>>, <<0, 1>>, <<1, 1>>}
MCChains == {<<>>, <<CA>>, <<CA, CB>>, <<RA, CB, CA>>, <<RB, CA, RA>>}
MCVersions == {<<1, 0>>, <<1, 1>>, <<2, 0>>}
=============================================================================
