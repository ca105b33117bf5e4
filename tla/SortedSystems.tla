--------------------------- MODULE SortedSystems ---------------------------
(***************************************************************************)
(* sorted_systems and extend_sorted_systems (src/src/systems.rs): the      *)
(* systems of a stage are put in an order in which each comes after those  *)
(* it names, by a depth-first walk.  The recursion is a stack of calls;    *)
(* one step is one call, one return, or one turn of the outer loop.        *)
(* A system may name one that is not part of the stage.                    *)
(***************************************************************************)
EXTENDS Integers, Sequences, FiniteSets

CONSTANT Ids    \* TypeIds of systems

VARIABLES
  given,     \* the argument: the ids of the systems, as they were registered
  after,     \* SystemDescriptor::after of each
  systems,   \* the map of systems that have not been visited
  next,      \* the outer loop's position in systemids
  pending,   \* the ids whose calls have not returned, outermost first
  todo,      \* for every call: the ids of after it has yet to visit
  out,       \* the result
  result     \* "running", "done", "circular" or "duplicate"

input == <<given, after>>
vars == <<given, after, systems, next, pending, todo, out, result>>

RangeOf(s) == {s[i] : i \in DOMAIN s}
Members == RangeOf(given)
Repeated == \E i, j \in DOMAIN given : i # j /\ given[i] = given[j]

Init ==
  /\ given \in Seq(Ids)
  /\ after \in [Ids -> SUBSET Ids]
  /\ systems = Members
  /\ next = 1
  /\ pending = <<>>
  /\ todo = <<>>
  /\ out = <<>>
  /\ result = IF Repeated THEN "duplicate" ELSE "running"

Depth == Len(pending)

\* Mutant: a system that is in its place already is taken for a cycle.
CallSeen(id, rest) ==
  /\ id \in RangeOf(pending) \union RangeOf(out)
  /\ result' = "circular"
  /\ UNCHANGED <<systems, pending, todo, out>>

(***************************************************************************)
(* The three ways a call of extend_sorted_systems starts; rest is what the *)
(* calls below have yet to visit.                                          *)
(***************************************************************************)
CallCircular(id, rest) ==
  /\ id \in RangeOf(pending)
  /\ result' = "circular"
  /\ UNCHANGED <<systems, pending, todo, out>>

\* Visited already, or not a system of this stage.
CallReturns(id, rest) ==
  /\ id \notin RangeOf(pending)
  /\ id \notin systems
  /\ todo' = rest
  /\ UNCHANGED <<systems, pending, out, result>>

\* Mutant: a system is put in its place before those it names.
CallDescendsEarly(id, rest) ==
  /\ id \notin RangeOf(pending)
  /\ id \in systems
  /\ systems' = systems \ {id}
  /\ pending' = Append(pending, id)
  /\ todo' = Append(rest, {})
  /\ UNCHANGED <<out, result>>

CallDescends(id, rest) ==
  /\ id \notin RangeOf(pending)
  /\ id \in systems
  /\ systems' = systems \ {id}
  /\ pending' = Append(pending, id)
  /\ todo' = Append(rest, after[id])
  /\ UNCHANGED <<out, result>>

Call(id, rest) ==
  \/ CallCircular(id, rest)
  \/ CallReturns(id, rest)
  \/ CallDescends(id, rest)

\* Mutant: the outer loop follows the map, not the order of registration.
NextSystemAny ==
  /\ result = "running"
  /\ pending = <<>> /\ next <= Len(given)
  /\ next' = next + 1
  /\ \E id \in IF systems # {} THEN systems ELSE {given[next]} : Call(id, <<>>)
  /\ UNCHANGED input

NextSystem ==
  /\ result = "running"
  /\ pending = <<>> /\ next <= Len(given)
  /\ next' = next + 1
  /\ Call(given[next], <<>>)
  /\ UNCHANGED input

\* The ids of a HashSet come in any order.
VisitAfter ==
  /\ result = "running"
  /\ pending # <<>>
  /\ \E id \in todo[Depth] : Call(id, [todo EXCEPT ![Depth] = @ \ {id}])
  /\ UNCHANGED <<given, after, next>>

Return ==
  /\ result = "running"
  /\ pending # <<>> /\ todo[Depth] = {}
  /\ pending' = SubSeq(pending, 1, Depth - 1)
  /\ todo' = SubSeq(todo, 1, Depth - 1)
  /\ out' = Append(out, pending[Depth])
  /\ UNCHANGED <<given, after, systems, next, result>>

Finish ==
  /\ result = "running"
  /\ pending = <<>> /\ next > Len(given)
  /\ result' = "done"
  /\ UNCHANGED <<given, after, systems, next, pending, todo, out>>

\* The call has returned or panicked.
Ended == result # "running" /\ UNCHANGED vars

Next == NextSystem \/ VisitAfter \/ Return \/ Finish \/ Ended

Spec == Init /\ [][Next]_vars
-----------------------------------------------------------------------------
TypeOK ==
  /\ systems \subseteq Members
  /\ next \in 1..(Len(given) + 1)
  /\ pending \in Seq(Members) /\ todo \in Seq(SUBSET Ids) /\ Len(todo) = Depth
  /\ out \in Seq(Members)
  /\ result \in {"running", "done", "circular", "duplicate"}

\* a precedes b in the sequence s.
Precedes(s, a, b) == \E i, j \in DOMAIN s : i < j /\ s[i] = a /\ s[j] = b

(***************************************************************************)
(* The result has every system of the stage once, none before one it names.*)
(***************************************************************************)
Sorted ==
  result = "done" =>
    /\ RangeOf(out) = Members
    /\ \A i, j \in DOMAIN out : out[i] = out[j] => i = j
    /\ \A a, b \in Members : b \in after[a] => Precedes(out, b, a)

(***************************************************************************)
(* "Circular dependencies detected" only when there are some: b names a,   *)
(* directly or through other systems of the stage, and a names b.          *)
(***************************************************************************)
Named(a) == after[a] \intersect Members

\* b is in every set that has what a names, and what its members name.
LeadsTo(a, b) ==
  \A S \in SUBSET Members :
    Named(a) \subseteq S /\ (\A c \in S : Named(c) \subseteq S) => b \in S

CircularMeansCycle == result = "circular" => \E a \in Members : LeadsTo(a, a)

(***************************************************************************)
(* "preserve the original order if no other ordering requirement is        *)
(* present" (systems.rs:24): b overtakes a, which was registered before    *)
(* it, only if a or a system registered before a has to come after b.      *)
(***************************************************************************)
KeepsOrder ==
  result = "done" =>
    \A i, j \in DOMAIN given :
      i < j /\ Precedes(out, given[j], given[i]) =>
        \E k \in 1..i : LeadsTo(given[k], given[j])
=============================================================================
