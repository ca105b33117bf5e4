---------------------------- MODULE EntityStore ----------------------------
(***************************************************************************)
(* What a World promises its users: a map from entities to the components  *)
(* they have.  Tables, rows and archetypes are not part of the promise.    *)
(***************************************************************************)
EXTENDS Naturals

CONSTANTS Entities, Components, Values

VARIABLE data   \* [live entities -> [their components -> Values]]

Bundles == UNION {[cs -> Values] : cs \in (SUBSET Components) \ {{}}}

\* The components of f, and those of g that f does not have.
Over(f, g) == [c \in DOMAIN f \union DOMAIN g |-> IF c \in DOMAIN f THEN f[c] ELSE g[c]]

Without(f, S) == [x \in DOMAIN f \ S |-> f[x]]

Init == data = [e \in {} |-> <<>>]

Create(e) ==
  /\ e \notin DOMAIN data
  /\ data' = [x \in DOMAIN data \union {e} |->
                IF x = e THEN [c \in {} |-> <<>>] ELSE data[x]]

Set(e, bundle) == data' = [data EXCEPT ![e] = Over(bundle, @)]

Remove(e, c) == data' = [data EXCEPT ![e] = Without(@, {c})]

Delete(e) == data' = Without(data, {e})

\* "Move all components from lhs to rhs, overriding components rhs already
\* has. Then delete the lhs entity"
Merge(lhs, rhs) ==
  data' = Without([data EXCEPT ![rhs] = Over(data[lhs], @)], {lhs})

\* An operation that leaves data as it is is no step.
Next ==
  \/ \E e \in Entities \ DOMAIN data : Create(e)
  \/ \E e \in DOMAIN data \ DOMAIN data' :
       Delete(e) \/ \E rhs \in DOMAIN data \ {e} : Merge(e, rhs)
  \/ \E e \in DOMAIN data \intersect DOMAIN data' :
       /\ data'[e] # data[e]
       /\ \/ \E bundle \in Bundles : Set(e, bundle)
          \/ \E c \in Components : Remove(e, c)

Spec == Init /\ [][Next]_data
=============================================================================
