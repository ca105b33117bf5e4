----------------------------- MODULE BuiltStage -----------------------------
(***************************************************************************)
(* A stage from its builder to the end of a run: SystemStageBuilder::build *)
(* sorts the systems (SortedSystems), World::add_stage or run_stage makes  *)
(* the schedule of what comes out, and execute_stage runs it (Stage).      *)
(***************************************************************************)
EXTENDS Stage

CONSTANT Ids    \* TypeIds of systems

VARIABLES
  given,     \* SystemStageBuilder::systems: the ids as they were registered
  named,     \* SystemDescriptor::after of each
  systems, next, pending, todo, out, result,    \* as in SortedSystems
  built      \* the stage is part of the World

sorting == <<given, named, systems, next, pending, todo, out, result>>
allvars == <<sorting, built, vars>>

Sort == INSTANCE SortedSystems WITH after <- named
-----------------------------------------------------------------------------
NoAccess == [exclusive |-> FALSE, comp_mut |-> {}, comp_const |-> {}, res_mut |-> {}, res_const |-> {}]

\* Before the stage is built, the variables of Stage have a value of no meaning.
Unbuilt ==
  /\ stage = [s \in Systems |-> NoAccess]
  /\ after = [s \in Systems |-> {}]
  /\ parents = [s \in Systems |-> {}]
  /\ at = "conditions"
  /\ phase = [s \in Systems |-> "new"]
  /\ this_lock = FALSE
  /\ in_id = [s \in Systems |-> "before"]
  /\ panicked = FALSE
  /\ cell = [c \in Cells |-> <<>>]
  /\ saw = [s \in Systems |-> <<>>]
  /\ wrote = [s \in Systems |-> {}]

BuiltInit ==
  /\ given \in UNION {[1..n -> Ids] : n \in 0..N}
  /\ Sort!Init
  /\ built = FALSE
  /\ Unbuilt

SortStep ==
  /\ ~built
  /\ Sort!NextSystem \/ Sort!VisitAfter \/ Sort!Return \/ Sort!Finish
  /\ UNCHANGED <<built, vars>>

\* The systems of this stage the i-th one names, by their place.
Before(i) == {j \in Systems : out[j] \in named[out[i]]}

(***************************************************************************)
(* build, and add_stage with the schedule.  Any system but the first may   *)
(* also name systems of other stages (0), which the sort passes over.  The *)
(* builder is used up.                                                     *)
(***************************************************************************)
AddStage ==
  /\ ~built /\ result = "done" /\ Len(out) = N
  /\ built' = TRUE
  /\ stage' \in [Systems -> Access]
  /\ \E others \in [Systems -> SUBSET {0}] :
       /\ others[1] = {}
       /\ after' = [i \in Systems |-> Before(i) \union others[i]]
  /\ parents' = FromStage(stage', after')
  /\ given' = <<>> /\ named' = [id \in Ids |-> {}]
  /\ systems' = {} /\ next' = 1 /\ pending' = <<>> /\ todo' = <<>>
  /\ out' = <<>> /\ result' = "running"
  /\ UNCHANGED <<at, phase, this_lock, in_id, panicked, data>>

RunStep == built /\ Next /\ UNCHANGED <<sorting, built>>

BuiltNext == SortStep \/ AddStage \/ RunStep

BuiltSpec == BuiltInit /\ [][BuiltNext]_allvars

\* Jobs are run and systems return (see JobPool for the former).
BuiltFairSpec == BuiltSpec /\ WF_allvars(BuiltNext)
-----------------------------------------------------------------------------
(***************************************************************************)
(* The variables of both components have their types, and the stage is     *)
(* what from_stage takes for granted: every system comes after those of    *)
(* the stage it names, the first one names none ("bad ordering",           *)
(* scheduler.rs:37).                                                       *)
(***************************************************************************)
BuiltOK ==
  /\ Sort!TypeOK
  /\ built => /\ TypeOK
              /\ after[1] = {}
              /\ \A i \in Systems : \A j \in after[i] : j < i

\* What build hands over is in order: see SortedSystems.
Sorted == Sort!Sorted

\* Only a stage with a cycle is refused as circular: see SortedSystems.
CircularMeansCycle == Sort!CircularMeansCycle

\* Systems that nothing orders stay as registered: see SortedSystems.
KeepsOrder == Sort!KeepsOrder

(***************************************************************************)
(* Every builder either is refused, with a panic about a cycle or a        *)
(* duplicate, or gives a stage whose runs end: the orders the systems ask  *)
(* for, sorted and joined with those of their accesses, never make a cycle *)
(* of jobs that wait for each other.                                       *)
(***************************************************************************)
Refused == result \in {"circular", "duplicate"}
TooFew == ~built /\ result = "done" /\ Len(out) < N

StageEnds == <>(Refused \/ TooFew \/ at \in {"done", "skipped"})
=============================================================================
