------------------------------ MODULE MCWorld ------------------------------
(***************************************************************************)
(* TLC instances of World and the queries over it.  Entities, values and   *)
(* components are interchangeable: for every query MCSystems has the one   *)
(* with the components exchanged.                                          *)
(***************************************************************************)
EXTENDS Queries

Symmetry == Permutations(Entities) \union Permutations(Values)
                                   \union Permutations(Components)

Part(kind, c) == [kind |-> kind, of |-> c]
Query(parts, filter) == [parts |-> parts, filter |-> filter]

\* Every kind of part and of filter, alone and in tuples, and a QuerySet whose
\* second query shares what the first one borrows mutably.
SystemsFor(a, b) ==
  {<<Query(<<Part("ref", a), Part("id", a), Part("opt", b)>>, NoFilter)>>,
   <<Query(<<Part("mut", a), Part("has", b)>>, Or(WithOut(b), With(a)))>>,
   <<Query(<<Part("opt_mut", b), Part("hash", b)>>, Both(With(a), NoFilter))>>,
   <<Query(<<Part("opt", a)>>, WithOut(b)), Query(<<Part("mut", a)>>, NoFilter)>>}

MCSystems == UNION {SystemsFor(a, b) : <<a, b>> \in {<<x, y>> \in Components \X Components : x # y}}

\* Two optional borrows of one component.
TwiceSystems == {<<Query(<<Part("opt_mut", a), Part("opt_mut", a)>>, NoFilter)>> : a \in Components}
=============================================================================
