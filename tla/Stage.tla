------------------------------- MODULE Stage -------------------------------
(***************************************************************************)
(* One run of a stage with the feature "parallel": Schedule::from_stage    *)
(* (src/src/scheduler.rs) makes a task graph of what the systems say they  *)
(* access (src/src/query.rs), World::execute_stage (src/src/lib.rs) runs   *)
(* it, and the systems meanwhile read and write what they have access to   *)
(* and take the world's lock (src/src/world_access.rs).                    *)
(*                                                                         *)
(* A system is its place in SystemStage::systems, which sorted_systems has *)
(* put in order (see SortedSystems).  The graph is run as TaskGraph says,  *)
(* which JobPool implements.                                               *)
(***************************************************************************)
EXTENDS Integers, Sequences, FiniteSets

CONSTANTS
  N,                \* number of systems of the stage
  Components,       \* types of components
  Resources,        \* types of resources
  CommandSentinel,  \* the resource type all Commands write
  Access            \* what systems may access: a set of Accesses

Systems == 1..N
Cells == Components \union Resources

\* The parts of a SystemDescriptor that from_stage looks at, but after.
Accesses ==
  [exclusive  : BOOLEAN,
   comp_mut   : SUBSET Components,
   comp_const : SUBSET Components,
   res_mut    : SUBSET (Resources \union {CommandSentinel}),
   res_const  : SUBSET Resources]

ASSUME StageAssumption ==
  /\ N \in Nat \ {0}
  /\ Components \intersect Resources = {}
  /\ CommandSentinel \notin Cells
  /\ Access \subseteq Accesses
  \* "system has incompatible queries": WorldAccess goes with nothing else
  /\ \A a \in Access : a.exclusive => a.res_mut = {}

VARIABLES
  stage,      \* SystemStage::systems: what each system accesses
  after,      \* SystemDescriptor::after; 0 is a system of another stage
  parents,    \* Schedule::parents
  at,         \* execute_stage: "conditions", "graph", "done" or "skipped"
  phase,      \* of every system, as in TaskGraph
  this_lock,  \* World::this_lock
  in_id,      \* of every system: "before", "inside" or "after" a call of id()
  panicked,   \* a lock was taken twice
  cell,       \* the components of a type, or a resource: who has written it
  saw,        \* what every system has read so far
  wrote       \* and what it has written

static == <<stage, after, parents>>
data == <<cell, saw, wrote>>
vars == <<static, at, phase, this_lock, in_id, panicked, data>>
-----------------------------------------------------------------------------
Disjoint(S, T) == S \intersect T = {}

\* Mutant: readers do not wait for an earlier writer.
IsDisjointOneWay(p, q) ==
  /\ ~p.exclusive /\ ~q.exclusive
  /\ Disjoint(p.comp_mut, q.comp_const) /\ Disjoint(p.res_mut, q.res_const)
  /\ Disjoint(p.comp_mut, q.comp_mut) /\ Disjoint(p.res_mut, q.res_mut)

\* Mutant: two systems may write the same resource.
IsDisjointSharedRes(p, q) ==
  /\ ~p.exclusive /\ ~q.exclusive
  /\ Disjoint(p.comp_mut, q.comp_const) /\ Disjoint(p.res_mut, q.res_const)
  /\ Disjoint(p.comp_mut, q.comp_mut)
  /\ Disjoint(p.comp_const, q.comp_mut) /\ Disjoint(p.res_const, q.res_mut)

\* QueryProperties::is_disjoint
IsDisjoint(p, q) ==
  /\ ~p.exclusive /\ ~q.exclusive
  /\ Disjoint(p.comp_mut, q.comp_const) /\ Disjoint(p.res_mut, q.res_const)
  /\ Disjoint(p.comp_mut, q.comp_mut) /\ Disjoint(p.res_mut, q.res_mut)
  /\ Disjoint(p.comp_const, q.comp_mut) /\ Disjoint(p.res_const, q.res_mut)

\* Mutant: explicit orderings are left out.
FromStageUnordered(st, af) ==
  [i \in Systems |-> {j \in 1..(i - 1) : ~IsDisjoint(st[i], st[j])}]

\* Mutant: a system waits for all that conflict with it, not only for those
\* before it.
FromStageBothWays(st, af) ==
  [i \in Systems |-> {j \in Systems \ {i} : ~IsDisjoint(st[i], st[j])}
                       \union (af[i] \intersect Systems)]

(***************************************************************************)
(* Schedule::from_stage: the earlier systems a system conflicts with and   *)
(* the ones it names, but for those of other stages.  In the code parents  *)
(* are a vector, and one that is both is in it twice: its child counts it  *)
(* twice, and is released by it twice.                                     *)
(***************************************************************************)
FromStage(st, af) ==
  [i \in Systems |-> {j \in 1..(i - 1) : ~IsDisjoint(st[i], st[j])}
                       \union (af[i] \intersect Systems)]

\* Schedule::jobs
Edges == {e \in Systems \X Systems : e[1] \in parents[e[2]]}

Graph == INSTANCE TaskGraph WITH Jobs <- Systems, after <- Edges

\* WorldAccess hands out the whole world.
Reads(s) == IF stage[s].exclusive THEN Cells
            ELSE (stage[s].comp_const \union stage[s].res_const) \ {CommandSentinel}
Writes(s) == IF stage[s].exclusive THEN Cells
             ELSE (stage[s].comp_mut \union stage[s].res_mut) \ {CommandSentinel}
Touches(s) == Reads(s) \union Writes(s)
UsesCommands(s) == CommandSentinel \in stage[s].res_mut

\* The first system names no other ("bad ordering", scheduler.rs:37), the
\* others only earlier ones of this stage.
Init ==
  /\ stage \in [Systems -> Access]
  /\ after \in [Systems -> SUBSET (0..(N - 1))]
  /\ after[1] = {} /\ \A i \in Systems : \A j \in after[i] : j < i
  /\ parents = FromStage(stage, after)
  /\ at = "conditions"
  /\ phase = [s \in Systems |-> "new"]
  /\ this_lock = FALSE
  /\ in_id = [s \in Systems |-> "before"]
  /\ panicked = FALSE
  /\ cell = [c \in Cells |-> <<>>]
  /\ saw = [s \in Systems |-> <<>>]
  /\ wrote = [s \in Systems |-> {}]
-----------------------------------------------------------------------------
\* The should_run systems run one after the other before anything else.
ShouldRun ==
  /\ at = "conditions"
  /\ at' \in {"graph", "skipped"}
  /\ UNCHANGED <<static, phase, this_lock, in_id, panicked, data>>

\* run_graph hands in the systems in their order.
Enqueue(s) ==
  /\ at = "graph"
  /\ \A i \in 1..(s - 1) : phase[i] # "new"
  /\ Graph!Enqueue(s)
  /\ UNCHANGED <<static, at, this_lock, in_id, panicked, data>>

\* WorldLock::lock panics when the lock is taken.
Lock ==
  /\ panicked' = (panicked \/ this_lock)
  /\ this_lock' = TRUE

\* SystemJob::execute: the queries are made, WorldAccess takes the lock.
Start(s) ==
  /\ Graph!Start(s)
  /\ IF stage[s].exclusive THEN Lock ELSE UNCHANGED <<this_lock, panicked>>
  /\ UNCHANGED <<static, at, in_id, data>>

Running(s) == phase[s] = "running"

\* EntityCommands::id
LockId(s) ==
  /\ Running(s) /\ UsesCommands(s)
  /\ in_id[s] = "before"
  /\ Lock
  /\ in_id' = [in_id EXCEPT ![s] = "inside"]
  /\ UNCHANGED <<static, at, phase, data>>

UnlockId(s) ==
  /\ in_id[s] = "inside"
  /\ this_lock' = FALSE
  /\ in_id' = [in_id EXCEPT ![s] = "after"]
  /\ UNCHANGED <<static, at, phase, panicked, data>>

\* A system reads all it has access to, and writes what it may after that.
Read(s, c) ==
  /\ Running(s)
  /\ c \in Touches(s) \ DOMAIN saw[s]
  /\ saw' = [saw EXCEPT ![s] = [x \in DOMAIN @ \union {c} |-> IF x = c THEN cell[c] ELSE @[x]]]
  /\ UNCHANGED <<static, at, phase, this_lock, in_id, panicked, cell, wrote>>

\* Mutant: a system also writes what it may only read.
WriteAny(s, c) ==
  /\ Running(s)
  /\ c \in (Touches(s) \intersect DOMAIN saw[s]) \ wrote[s]
  /\ cell' = [cell EXCEPT ![c] = Append(saw[s][c], s)]
  /\ wrote' = [wrote EXCEPT ![s] = @ \union {c}]
  /\ UNCHANGED <<static, at, phase, this_lock, in_id, panicked, saw>>

Write(s, c) ==
  /\ Running(s)
  /\ c \in (Writes(s) \intersect DOMAIN saw[s]) \ wrote[s]
  /\ cell' = [cell EXCEPT ![c] = Append(saw[s][c], s)]
  /\ wrote' = [wrote EXCEPT ![s] = @ \union {c}]
  /\ UNCHANGED <<static, at, phase, this_lock, in_id, panicked, saw>>

\* The system returns; the guard of its WorldAccess is dropped.
Finish(s) ==
  /\ DOMAIN saw[s] = Touches(s) /\ wrote[s] = Writes(s)
  /\ UsesCommands(s) => in_id[s] = "after"
  /\ Graph!Finish(s)
  /\ this_lock' = IF stage[s].exclusive THEN FALSE ELSE this_lock
  /\ UNCHANGED <<static, at, in_id, panicked, data>>

\* run_graph returns.
Return ==
  /\ at = "graph"
  /\ \A s \in Systems : phase[s] = "finished"
  /\ at' = "done"
  /\ UNCHANGED <<static, phase, this_lock, in_id, panicked, data>>

Next ==
  \/ ShouldRun \/ Return
  \/ \E s \in Systems :
       \/ Enqueue(s) \/ Start(s) \/ LockId(s) \/ UnlockId(s) \/ Finish(s)
       \/ \E c \in Cells : Read(s, c) \/ Write(s, c)

Spec == Init /\ [][Next]_vars

\* Jobs are run and systems return (see JobPool for the former).
FairSpec == Spec /\ WF_vars(Next)
-----------------------------------------------------------------------------
TypeOK ==
  /\ stage \in [Systems -> Access] /\ after \in [Systems -> SUBSET (0..(N - 1))]
  /\ parents \in [Systems -> SUBSET Systems]
  /\ at \in {"conditions", "graph", "done", "skipped"}
  /\ phase \in [Systems -> {"new", "enqueued", "running", "finished"}]
  /\ this_lock \in BOOLEAN /\ panicked \in BOOLEAN
  /\ in_id \in [Systems -> {"before", "inside", "after"}]
  /\ cell \in [Cells -> Seq(Systems)]
  /\ \A s \in Systems : DOMAIN saw[s] \subseteq Touches(s) /\ wrote[s] \subseteq Writes(s)

(***************************************************************************)
(* No system runs while another one writes what it has access to; a system *)
(* with WorldAccess runs alone.                                            *)
(***************************************************************************)
NoRace ==
  \A s, t \in Systems :
    s # t /\ Running(s) /\ Running(t) =>
      /\ Writes(s) \intersect Touches(t) = {}
      /\ ~stage[s].exclusive

(***************************************************************************)
(* The parallel run gives what a run of the systems one by one, in the     *)
(* order of the stage, gives: every system sees exactly the writes of the  *)
(* earlier systems.                                                        *)
(***************************************************************************)
\* The systems before s that write c.
WritersBefore(s, c) == {t \in 1..(s - 1) : c \in Writes(t)}

\* q is the members of S, each once and the lower ones first.
Lists(q, S) ==
  /\ {q[i] : i \in DOMAIN q} = S
  /\ \A i, j \in DOMAIN q : i < j => q[i] < q[j]

SerialResult ==
  /\ \A s \in Systems : \A c \in DOMAIN saw[s] : Lists(saw[s][c], WritersBefore(s, c))
  /\ at = "done" => \A c \in Cells : Lists(cell[c], WritersBefore(N + 1, c))

(***************************************************************************)
(* A system starts after those it names have finished, also when they have *)
(* no access in common.  The doc of `after` says that then they "may still *)
(* execute in parallel" (systems.rs:227); from_stage adds an edge          *)
(* (scheduler.rs:47), and the test par_ordering_test wants it to.          *)
(***************************************************************************)
AfterRespected ==
  \A s \in Systems : \A t \in after[s] \intersect Systems :
    phase[s] \in {"running", "finished"} => phase[t] = "finished"

(***************************************************************************)
(* The world's lock, which panics instead of waiting, is never taken twice *)
(* by systems of one stage, whether they hold WorldAccess or reserve ids.  *)
(***************************************************************************)
NeverLockedTwice == ~panicked

\* Every run of a stage ends.
RunEnds == <>(at \in {"done", "skipped"})
=============================================================================
