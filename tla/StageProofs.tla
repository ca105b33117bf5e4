---------------------------- MODULE StageProofs ----------------------------
(***************************************************************************)
(* Proofs about Stage, for every number of systems and whatever they       *)
(* access: systems that run at the same time do not conflict, explicit     *)
(* orderings hold, the world's lock is never taken twice, and a run has    *)
(* the result of a serial one.  The second part has the same of a stage    *)
(* from its builder on (BuiltStage).                                       *)
(***************************************************************************)
EXTENDS BuiltStage, TLAPS

\* s holds the world's lock: as a WorldAccess, or inside id().
Holds(s) == Running(s) /\ (stage[s].exclusive \/ in_id[s] = "inside")

StaticOK ==
  /\ stage \in [Systems -> Access]
  /\ after \in [Systems -> SUBSET (0..(N - 1))]
  /\ parents = FromStage(stage, after)

PhaseOK == phase \in [Systems -> {"new", "enqueued", "running", "finished"}]

IdOK ==
  /\ in_id \in [Systems -> {"before", "inside", "after"}]
  /\ \A s \in Systems : in_id[s] = "inside" => Running(s) /\ UsesCommands(s)

\* What a system waits for is over when the system runs.
ParentsFirst ==
  \A s \in Systems : phase[s] \in {"running", "finished"} =>
    \A j \in parents[s] : phase[j] = "finished"

LockOK ==
  /\ this_lock \in BOOLEAN
  /\ this_lock => \E s \in Systems : Holds(s)

(***************************************************************************)
(* The inductive invariant.  NoRace and AfterRespected follow from the     *)
(* order of the graph alone; that no lock is taken twice needs to know who *)
(* holds it.                                                               *)
(***************************************************************************)
IInv == StaticOK /\ PhaseOK /\ IdOK /\ ParentsFirst /\ LockOK /\ ~panicked

-----------------------------------------------------------------------------
(***************************************************************************)
(* Of two systems that are not disjoint one waits for the other: is_disjoint*)
(* is symmetric, so the later one finds the earlier one in the history.    *)
(***************************************************************************)
LEMMA ConflictsOrdered ==
  ASSUME StaticOK, NEW s \in Systems, NEW t \in Systems, s # t,
         ~IsDisjoint(stage[s], stage[t])
  PROVE  s \in parents[t] \/ t \in parents[s]
<1>1. ~IsDisjoint(stage[t], stage[s])
  BY DEF IsDisjoint, Disjoint
<1>2. N \in Nat
  BY StageAssumption
<1>3. s < t \/ t < s
  BY <1>2 DEF Systems
<1>4. CASE s < t
  <2>1. s \in 1..(t - 1)
    BY <1>2, <1>4 DEF Systems
  <2> QED
    BY <1>1, <2>1 DEF StaticOK, FromStage
<1>5. CASE t < s
  <2>1. t \in 1..(s - 1)
    BY <1>2, <1>5 DEF Systems
  <2> QED
    BY <2>1 DEF StaticOK, FromStage
<1> QED
  BY <1>3, <1>4, <1>5

(***************************************************************************)
(* Systems that run at the same time are disjoint.                         *)
(***************************************************************************)
LEMMA RunningDisjoint ==
  ASSUME StaticOK, ParentsFirst, NEW s \in Systems, NEW t \in Systems, s # t,
         Running(s), Running(t)
  PROVE  IsDisjoint(stage[s], stage[t])
<1> SUFFICES ASSUME ~IsDisjoint(stage[s], stage[t]) PROVE FALSE
  OBVIOUS
<1>1. s \in parents[t] \/ t \in parents[s]
  BY ConflictsOrdered
<1> QED
  BY <1>1 DEF ParentsFirst, Running

(***************************************************************************)
(* A system that holds the lock keeps the others that want it from running.*)
(***************************************************************************)
LEMMA HolderAlone ==
  ASSUME StaticOK, ParentsFirst, IdOK, NEW s \in Systems, NEW t \in Systems,
         Holds(t), Running(s), s # t
  PROVE  ~stage[s].exclusive /\ ~UsesCommands(s)
<1>1. IsDisjoint(stage[s], stage[t])
  BY RunningDisjoint DEF Holds
<1>2. ~stage[s].exclusive /\ ~stage[t].exclusive
  BY <1>1 DEF IsDisjoint
<1>3. UsesCommands(t)
  BY <1>2 DEF Holds, IdOK
<1>4. ~UsesCommands(s)
  BY <1>1, <1>3 DEF IsDisjoint, Disjoint, UsesCommands
<1> QED
  BY <1>2, <1>4

-----------------------------------------------------------------------------
(***************************************************************************)
(* The invariant holds at first.                                           *)
(***************************************************************************)
LEMMA InitInvariant == Init => IInv
<1> SUFFICES ASSUME Init PROVE IInv
  OBVIOUS
<1>1. StaticOK
  BY DEF Init, StaticOK
<1>2. PhaseOK
  BY DEF Init, PhaseOK
<1>3. IdOK
  BY DEF Init, IdOK
<1>4. ParentsFirst
  BY DEF Init, ParentsFirst
<1>5. LockOK /\ ~panicked
  BY DEF Init, LockOK
<1> QED
  BY <1>1, <1>2, <1>3, <1>4, <1>5 DEF IInv

\* Steps that leave alone all that the invariant is about.
LEMMA Untouched ==
  ASSUME IInv, UNCHANGED <<stage, after, parents, phase, this_lock, in_id, panicked>>
  PROVE  IInv'
BY DEF IInv, StaticOK, PhaseOK, IdOK, ParentsFirst, LockOK, Holds, Running,
       UsesCommands, FromStage

(***************************************************************************)
(* Handing in a system: it did not run and does not run now.               *)
(***************************************************************************)
LEMMA EnqueueKeeps ==
  ASSUME IInv, NEW s \in Systems, Enqueue(s)
  PROVE  IInv'
<1> USE DEF IInv
<1>1. /\ phase[s] = "new"
      /\ phase' = [phase EXCEPT ![s] = "enqueued"]
      /\ UNCHANGED <<stage, after, parents, this_lock, in_id, panicked>>
  BY DEF Enqueue, Graph!Enqueue, static
<1>2. StaticOK' /\ PhaseOK'
  BY <1>1 DEF StaticOK, PhaseOK, FromStage
<1>3. \A t \in Systems : Running(t)' <=> Running(t)
  BY <1>1 DEF PhaseOK, Running
<1>4. IdOK'
  BY <1>1, <1>3 DEF IdOK, UsesCommands
<1>5. parents \in [Systems -> SUBSET Systems]
  BY StageAssumption DEF StaticOK, FromStage, Systems
<1>6. ParentsFirst'
  BY <1>1, <1>5 DEF ParentsFirst, PhaseOK
<1>7. LockOK' /\ ~panicked'
  BY <1>1, <1>3 DEF LockOK, Holds
<1> QED
  BY <1>2, <1>4, <1>6, <1>7

(***************************************************************************)
(* A system starts when its parents are done; if it takes the lock, nobody *)
(* else holds it.                                                          *)
(***************************************************************************)
LEMMA StartKeeps ==
  ASSUME IInv, NEW s \in Systems, Start(s)
  PROVE  IInv'
<1> USE DEF IInv
<1>1. /\ phase[s] = "enqueued"
      /\ \A i \in Systems : i \in parents[s] => phase[i] = "finished"
      /\ phase' = [phase EXCEPT ![s] = "running"]
      /\ UNCHANGED <<stage, after, parents, in_id>>
  BY DEF Start, Graph!Start, Edges, static
<1>2. StaticOK' /\ PhaseOK'
  BY <1>1 DEF StaticOK, PhaseOK, FromStage
<1>3. \A t \in Systems : Running(t)' <=> (Running(t) \/ t = s)
  BY <1>1 DEF PhaseOK, Running
<1>4. IdOK'
  BY <1>1, <1>3 DEF IdOK, UsesCommands
<1>5. parents \in [Systems -> SUBSET Systems]
  BY StageAssumption DEF StaticOK, FromStage, Systems
<1>6. ParentsFirst'
  BY <1>1, <1>5 DEF ParentsFirst, PhaseOK
<1>7. \A t \in Systems : Holds(t) => Holds(t)'
  BY <1>1, <1>3 DEF Holds
<1>8. CASE stage[s].exclusive
  <2>1. this_lock' = TRUE /\ panicked' = (panicked \/ this_lock)
    BY <1>8 DEF Start, Lock
  <2>2. Holds(s)'
    BY <1>1, <1>3, <1>8 DEF Holds
  <2>3. ~this_lock
    <3> SUFFICES ASSUME this_lock PROVE FALSE
      OBVIOUS
    <3>1. PICK t \in Systems : Holds(t)
      BY DEF LockOK
    <3>2. t # s
      BY <1>1, <3>1 DEF Holds, Running
    <3>3. s \in parents[t] \/ t \in parents[s]
      BY <1>8, <3>2, ConflictsOrdered DEF IsDisjoint
    <3> QED
      BY <1>1, <3>1, <3>3 DEF Holds, Running, ParentsFirst
  <2> QED
    BY <1>2, <1>4, <1>6, <2>1, <2>2, <2>3 DEF LockOK
<1>9. CASE ~stage[s].exclusive
  <2>1. UNCHANGED <<this_lock, panicked>>
    BY <1>9 DEF Start
  <2> QED
    BY <1>2, <1>4, <1>6, <1>7, <2>1 DEF LockOK
<1> QED
  BY <1>8, <1>9

(***************************************************************************)
(* id() takes the lock: whoever held it would not let Commands run.        *)
(***************************************************************************)
LEMMA LockIdKeeps ==
  ASSUME IInv, NEW s \in Systems, LockId(s)
  PROVE  IInv'
<1> USE DEF IInv
<1>1. /\ Running(s) /\ UsesCommands(s) /\ in_id[s] = "before"
      /\ this_lock' = TRUE /\ panicked' = (panicked \/ this_lock)
      /\ in_id' = [in_id EXCEPT ![s] = "inside"]
      /\ UNCHANGED <<stage, after, parents, phase>>
  BY DEF LockId, Lock, static
<1>2. StaticOK' /\ PhaseOK' /\ ParentsFirst'
  BY <1>1 DEF StaticOK, PhaseOK, ParentsFirst, FromStage
<1>3. IdOK'
  BY <1>1 DEF IdOK, Running, UsesCommands
<1>4. Holds(s)'
  BY <1>1 DEF Holds, Running, IdOK
<1>5. ~this_lock
  <2> SUFFICES ASSUME this_lock PROVE FALSE
    OBVIOUS
  <2>1. PICK t \in Systems : Holds(t)
    BY DEF LockOK
  <2>2. t = s
    BY <1>1, <2>1, HolderAlone
  <2>3. stage[s].exclusive
    BY <1>1, <2>1, <2>2 DEF Holds
  <2>4. stage[s].res_mut = {}
    BY <2>3, StageAssumption DEF StaticOK
  <2> QED
    BY <1>1, <2>4 DEF UsesCommands
<1> QED
  BY <1>1, <1>2, <1>3, <1>4, <1>5 DEF LockOK

(***************************************************************************)
(* id() gives the lock back.                                               *)
(***************************************************************************)
LEMMA UnlockIdKeeps ==
  ASSUME IInv, NEW s \in Systems, UnlockId(s)
  PROVE  IInv'
<1> USE DEF IInv
<1>1. /\ this_lock' = FALSE
      /\ in_id' = [in_id EXCEPT ![s] = "after"]
      /\ UNCHANGED <<stage, after, parents, phase, panicked>>
  BY DEF UnlockId, static
<1>2. StaticOK' /\ PhaseOK' /\ ParentsFirst'
  BY <1>1 DEF StaticOK, PhaseOK, ParentsFirst, FromStage
<1>3. IdOK'
  BY <1>1 DEF IdOK, Running, UsesCommands
<1> QED
  BY <1>1, <1>2, <1>3 DEF LockOK

(***************************************************************************)
(* A system returns, and gives back the lock if it had WorldAccess; if it  *)
(* had not, it is not inside id() any more.                                *)
(***************************************************************************)
LEMMA FinishKeeps ==
  ASSUME IInv, NEW s \in Systems, Finish(s)
  PROVE  IInv'
<1> USE DEF IInv
<1>1. /\ Running(s)
      /\ UsesCommands(s) => in_id[s] = "after"
      /\ phase' = [phase EXCEPT ![s] = "finished"]
      /\ this_lock' = IF stage[s].exclusive THEN FALSE ELSE this_lock
      /\ UNCHANGED <<stage, after, parents, in_id, panicked>>
  BY DEF Finish, Graph!Finish, static, Running
<1>2. StaticOK' /\ PhaseOK'
  BY <1>1 DEF StaticOK, PhaseOK, FromStage
<1>3. in_id[s] # "inside"
  BY <1>1 DEF IdOK
<1>4. \A t \in Systems : Running(t)' <=> (Running(t) /\ t # s)
  BY <1>1 DEF PhaseOK, Running
<1>5. IdOK'
  BY <1>1, <1>3, <1>4 DEF IdOK, UsesCommands
<1>6. parents \in [Systems -> SUBSET Systems]
  BY StageAssumption DEF StaticOK, FromStage, Systems
<1>7. ParentsFirst'
  BY <1>1, <1>6 DEF ParentsFirst, PhaseOK, Running
<1>8. LockOK'
  BY <1>1, <1>3, <1>4 DEF LockOK, Holds
<1> QED
  BY <1>1, <1>2, <1>5, <1>7, <1>8

(***************************************************************************)
(* Every step keeps the invariant.                                         *)
(***************************************************************************)
LEMMA StepInvariant == IInv /\ [Next]_vars => IInv'
<1> SUFFICES ASSUME IInv, [Next]_vars PROVE IInv'
  OBVIOUS
<1>1. CASE ShouldRun
  BY <1>1, Untouched DEF ShouldRun, static
<1>2. CASE Return
  BY <1>2, Untouched DEF Return, static
<1>3. ASSUME NEW s \in Systems, Enqueue(s) PROVE IInv'
  BY <1>3, EnqueueKeeps
<1>4. ASSUME NEW s \in Systems, Start(s) PROVE IInv'
  BY <1>4, StartKeeps
<1>5. ASSUME NEW s \in Systems, LockId(s) PROVE IInv'
  BY <1>5, LockIdKeeps
<1>6. ASSUME NEW s \in Systems, UnlockId(s) PROVE IInv'
  BY <1>6, UnlockIdKeeps
<1>7. ASSUME NEW s \in Systems, Finish(s) PROVE IInv'
  BY <1>7, FinishKeeps
<1>8. ASSUME NEW s \in Systems, NEW c \in Cells, Read(s, c) PROVE IInv'
  BY <1>8, Untouched DEF Read, static
<1>9. ASSUME NEW s \in Systems, NEW c \in Cells, Write(s, c) PROVE IInv'
  BY <1>9, Untouched DEF Write, static
<1>10. CASE UNCHANGED vars
  BY <1>10, Untouched DEF vars, static
<1> QED
  BY <1>1, <1>2, <1>3, <1>4, <1>5, <1>6, <1>7, <1>8, <1>9, <1>10 DEF Next

(***************************************************************************)
(* The inductive invariant holds in every reachable state.                 *)
(***************************************************************************)
THEOREM Invariance == Spec => []IInv
BY InitInvariant, StepInvariant, PTL DEF Spec

(***************************************************************************)
(* The world's lock is never taken twice.                                  *)
(***************************************************************************)
THEOREM NoLockTwice == Spec => []NeverLockedTwice
<1>1. IInv => NeverLockedTwice
  BY DEF IInv, NeverLockedTwice
<1> QED
  BY <1>1, Invariance, PTL

(***************************************************************************)
(* What is_disjoint means: neither system has the whole world, and the one *)
(* writes nothing that the other one touches.                              *)
(***************************************************************************)
LEMMA DisjointAccess ==
  ASSUME StaticOK, NEW s \in Systems, NEW t \in Systems, IsDisjoint(stage[s], stage[t])
  PROVE  Writes(s) \intersect Touches(t) = {} /\ ~stage[s].exclusive
<1>1. ~stage[s].exclusive /\ ~stage[t].exclusive
  BY DEF IsDisjoint
<1>2. stage[s] \in Accesses /\ stage[t] \in Accesses
  BY StageAssumption DEF StaticOK
<1>3. Writes(s) = (stage[s].comp_mut \union stage[s].res_mut) \ {CommandSentinel}
  BY <1>1 DEF Writes
<1>4. Touches(t) = (stage[t].comp_const \union stage[t].res_const
                     \union stage[t].comp_mut \union stage[t].res_mut) \ {CommandSentinel}
  BY <1>1 DEF Touches, Reads, Writes
<1>5. /\ stage[s].comp_mut \subseteq Components /\ stage[t].comp_mut \subseteq Components
      /\ stage[t].comp_const \subseteq Components /\ stage[t].res_const \subseteq Resources
      /\ stage[s].res_mut \subseteq Resources \union {CommandSentinel}
      /\ stage[t].res_mut \subseteq Resources \union {CommandSentinel}
  BY <1>2 DEF Accesses
<1> QED
  BY <1>1, <1>3, <1>4, <1>5, StageAssumption DEF IsDisjoint, Disjoint

(***************************************************************************)
(* Two systems that run at the same time are disjoint, so neither writes   *)
(* what the other one touches.                                             *)
(***************************************************************************)
LEMMA NoRaceHolds == IInv => NoRace
BY RunningDisjoint, DisjointAccess DEF NoRace, IInv

(***************************************************************************)
(* The systems one names are among its parents.                            *)
(***************************************************************************)
LEMMA OrderHolds == IInv => AfterRespected
<1> SUFFICES ASSUME IInv PROVE AfterRespected
  OBVIOUS
<1> SUFFICES ASSUME NEW s \in Systems, NEW t \in after[s] \intersect Systems,
                    phase[s] \in {"running", "finished"}
             PROVE  phase[t] = "finished"
  BY DEF AfterRespected
<1>1. t \in parents[s]
  BY DEF IInv, StaticOK, FromStage
<1> QED
  BY <1>1 DEF IInv, ParentsFirst

(***************************************************************************)
(* No system runs while another one writes what it has access to.          *)
(***************************************************************************)
THEOREM NoRaces == Spec => []NoRace
BY NoRaceHolds, Invariance, PTL

(***************************************************************************)
(* A system starts after those it names have finished.                     *)
(***************************************************************************)
THEOREM ExplicitOrder == Spec => []AfterRespected
BY OrderHolds, Invariance, PTL

-----------------------------------------------------------------------------
(***************************************************************************)
(* What the invariant above leaves out: how far the run is, and what the   *)
(* systems have read and written.                                          *)
(***************************************************************************)
DataOK ==
  /\ at \in {"conditions", "graph", "done", "skipped"} /\ panicked \in BOOLEAN
  /\ cell \in [Cells -> Seq(Systems)]
  /\ DOMAIN saw = Systems /\ DOMAIN wrote = Systems
  /\ \A s \in Systems :
       /\ saw[s] \in [DOMAIN saw[s] -> Seq(Systems)]
       /\ DOMAIN saw[s] \subseteq Touches(s)
       /\ wrote[s] \subseteq Writes(s)

LEMMA DataInit == Init => DataOK
<1> SUFFICES ASSUME Init PROVE DataOK
  OBVIOUS
<1>1. \A s \in Systems : saw[s] = <<>> /\ DOMAIN saw[s] = {} /\ wrote[s] = {}
  BY DEF Init
<1>2. <<>> \in [{} -> Seq(Systems)]
  <2>1. <<>> = [x \in {} |-> x]
    OBVIOUS
  <2> QED
    BY <2>1
<1>3. \A s \in Systems : saw[s] \in [DOMAIN saw[s] -> Seq(Systems)]
  BY <1>1, <1>2, Zenon
<1>4. /\ at = "conditions" /\ panicked = FALSE /\ cell \in [Cells -> Seq(Systems)]
      /\ DOMAIN saw = Systems /\ DOMAIN wrote = Systems
  BY DEF Init
<1>5. \A s \in Systems : DOMAIN saw[s] \subseteq Touches(s) /\ wrote[s] \subseteq Writes(s)
  BY <1>1
<1> QED
  BY <1>3, <1>4, <1>5 DEF DataOK

\* What a system may touch is as fixed as the stage.
LEMMA TouchesFixed ==
  ASSUME stage' = stage, NEW s
  PROVE  Touches(s)' = Touches(s) /\ Writes(s)' = Writes(s)
BY DEF Touches, Reads, Writes

LEMMA ReadKeepsData ==
  ASSUME DataOK, NEW s \in Systems, NEW c \in Cells, Read(s, c)
  PROVE  DataOK'
<1> DEFINE now == [x \in DOMAIN saw[s] \union {c} |-> IF x = c THEN cell[c] ELSE saw[s][x]]
<1>1. /\ c \in Touches(s)
      /\ saw' = [saw EXCEPT ![s] = now]
      /\ UNCHANGED <<stage, at, panicked, cell, wrote>>
  BY DEF Read, static
<1>2. cell[c] \in Seq(Systems) /\ saw[s] \in [DOMAIN saw[s] -> Seq(Systems)]
  BY DEF DataOK
<1>3. now \in [DOMAIN saw[s] \union {c} -> Seq(Systems)] /\ DOMAIN now = DOMAIN saw[s] \union {c}
  BY <1>2
<1> HIDE DEF now
<1>4. DOMAIN saw' = Systems /\ saw'[s] = now /\ \A t \in Systems \ {s} : saw'[t] = saw[t]
  BY <1>1 DEF DataOK
<1>5. \A t \in Systems : Touches(t)' = Touches(t) /\ Writes(t)' = Writes(t)
  BY <1>1, TouchesFixed
<1>6. ASSUME NEW t \in Systems
      PROVE  saw'[t] \in [DOMAIN saw'[t] -> Seq(Systems)] /\ DOMAIN saw'[t] \subseteq Touches(t)
  BY <1>1, <1>3, <1>4 DEF DataOK
<1> QED
  BY <1>1, <1>4, <1>5, <1>6 DEF DataOK

LEMMA WriteKeepsData ==
  ASSUME DataOK, NEW s \in Systems, NEW c \in Cells, Write(s, c)
  PROVE  DataOK'
<1>1. /\ c \in Writes(s) /\ c \in DOMAIN saw[s]
      /\ cell' = [cell EXCEPT ![c] = Append(saw[s][c], s)]
      /\ wrote' = [wrote EXCEPT ![s] = wrote[s] \union {c}]
      /\ UNCHANGED <<stage, at, panicked, saw>>
  BY DEF Write, static
<1>2. saw[s][c] \in Seq(Systems)
  BY <1>1 DEF DataOK
<1>3. cell' \in [Cells -> Seq(Systems)]
  BY <1>1, <1>2 DEF DataOK
<1>4. DOMAIN wrote' = Systems /\ \A t \in Systems : wrote'[t] \subseteq Writes(t)
  BY <1>1 DEF DataOK
<1>5. \A t \in Systems : Touches(t)' = Touches(t) /\ Writes(t)' = Writes(t)
  BY <1>1, TouchesFixed
<1> QED
  BY <1>1, <1>3, <1>4, <1>5 DEF DataOK

LEMMA DataStep == DataOK /\ [Next]_vars => DataOK'
<1> SUFFICES ASSUME DataOK, [Next]_vars PROVE DataOK'
  OBVIOUS
<1>1. ASSUME UNCHANGED <<stage, cell, saw, wrote>>,
             at' \in {"conditions", "graph", "done", "skipped"}, panicked' \in BOOLEAN
      PROVE  DataOK'
  <2>1. \A t \in Systems : Touches(t)' = Touches(t) /\ Writes(t)' = Writes(t)
    BY <1>1, TouchesFixed
  <2> QED
    BY <1>1, <2>1 DEF DataOK
<1>2. CASE ShouldRun \/ Return
  BY <1>1, <1>2 DEF ShouldRun, Return, static, data, DataOK
<1>3. ASSUME NEW s \in Systems,
             Enqueue(s) \/ Start(s) \/ LockId(s) \/ UnlockId(s) \/ Finish(s)
      PROVE  DataOK'
  <2>1. UNCHANGED <<stage, at, cell, saw, wrote>>
    BY <1>3 DEF Enqueue, Start, LockId, UnlockId, Finish, static, data
  <2>2. panicked' = panicked \/ panicked' = (panicked \/ this_lock)
    BY <1>3 DEF Enqueue, Start, LockId, UnlockId, Finish, Lock
  <2>3. panicked' \in BOOLEAN
    BY <2>2 DEF DataOK
  <2> QED
    BY <1>1, <2>1, <2>3 DEF DataOK
<1>4. ASSUME NEW s \in Systems, NEW c \in Cells, Read(s, c) \/ Write(s, c) PROVE DataOK'
  BY <1>4, ReadKeepsData, WriteKeepsData
<1>5. CASE UNCHANGED vars
  BY <1>1, <1>5 DEF vars, static, data, DataOK
<1> QED
  BY <1>2, <1>3, <1>4, <1>5 DEF Next

(***************************************************************************)
(* Both invariants together are the types that the runs check.             *)
(***************************************************************************)
LEMMA TypesHold == IInv /\ DataOK => TypeOK
<1> SUFFICES ASSUME IInv, DataOK PROVE TypeOK
  OBVIOUS
<1>1. parents \in [Systems -> SUBSET Systems]
  BY StageAssumption DEF IInv, StaticOK, FromStage, Systems
<1> QED
  BY <1>1 DEF TypeOK, IInv, DataOK, StaticOK, PhaseOK, IdOK, LockOK

\* Type correctness of a run of a stage.
THEOREM TypeCorrect == Spec => []TypeOK
<1>1. Spec => []DataOK
  BY DataInit, DataStep, PTL DEF Spec
<1> QED
  BY <1>1, Invariance, TypesHold, PTL

-----------------------------------------------------------------------------
(***************************************************************************)
(* The parallel run against the run of the systems one by one.             *)
(***************************************************************************)
\* A system waits for earlier ones only.
ParentsEarlier == \A s \in Systems : \A j \in parents[s] : j < s

\* A system reads and writes only while it runs, and writes all it may.
RunOK ==
  \A s \in Systems :
    /\ wrote[s] \subseteq DOMAIN saw[s]
    /\ phase[s] \in {"new", "enqueued"} => DOMAIN saw[s] = {}
    /\ phase[s] = "finished" => wrote[s] = Writes(s)

Writers(c) == {s \in Systems : c \in wrote[s]}

\* No write was lost, and they came in the order of the stage.
CellsOK == \A c \in Cells : Lists(cell[c], Writers(c))

SawOK == \A s \in Systems : \A c \in DOMAIN saw[s] : Lists(saw[s][c], WritersBefore(s, c))

DoneOK == at = "done" => \A s \in Systems : phase[s] = "finished"

(***************************************************************************)
(* The inductive invariant of the data.  That a system sees exactly the    *)
(* earlier writes needs both directions of the graph: those it conflicts   *)
(* with and that come before it are its parents, hence finished and all    *)
(* their writes done; of those that come after, it is a parent, so that    *)
(* they have not started and written nothing.                              *)
(***************************************************************************)
SerialInv == IInv /\ DataOK /\ ParentsEarlier /\ RunOK /\ CellsOK /\ SawOK /\ DoneOK

LEMMA WritersSystems == ASSUME NEW s \in Systems, NEW c PROVE WritersBefore(s, c) \subseteq Systems
BY StageAssumption DEF WritersBefore, Systems

(***************************************************************************)
(* While a system that has not yet written c runs, those that have written *)
(* c are the earlier ones that may.                                        *)
(***************************************************************************)
LEMMA SeesEarlier ==
  ASSUME IInv, DataOK, ParentsEarlier, RunOK, NEW s \in Systems, Running(s),
         NEW c \in Touches(s), c \notin wrote[s]
  PROVE  Writers(c) = WritersBefore(s, c)
<1>1. N \in Nat /\ s \in 1..N /\ Systems = 1..N
  BY StageAssumption DEF Systems
<1>2. ASSUME NEW t \in Systems, t # s, c \in Writes(t)
      PROVE  s \in parents[t] \/ t \in parents[s]
  <2>1. ~IsDisjoint(stage[t], stage[s])
    BY <1>2, DisjointAccess DEF IInv
  <2> QED
    BY <1>2, <2>1, ConflictsOrdered DEF IInv
<1>3. ASSUME NEW t \in Writers(c) PROVE t \in WritersBefore(s, c)
  <2>1. t \in Systems /\ c \in wrote[t] /\ t # s /\ c \in Writes(t)
    BY <1>3 DEF Writers, DataOK
  <2>2. phase[t] \in {"running", "finished"}
    BY <2>1 DEF RunOK, IInv, PhaseOK
  <2>3. s \notin parents[t]
    BY <2>1, <2>2 DEF IInv, ParentsFirst, Running
  <2>4. t < s
    BY <1>2, <2>1, <2>3 DEF ParentsEarlier
  <2> QED
    BY <1>1, <2>1, <2>4 DEF WritersBefore
<1>4. ASSUME NEW t \in WritersBefore(s, c) PROVE t \in Writers(c)
  <2>1. t \in Systems /\ t < s /\ c \in Writes(t)
    BY <1>1, <1>4 DEF WritersBefore
  <2>2. s \notin parents[t]
    BY <1>1, <2>1 DEF ParentsEarlier
  <2>3. t \in parents[s]
    BY <1>1, <1>2, <2>1, <2>2
  <2>4. phase[t] = "finished"
    BY <2>3 DEF IInv, ParentsFirst, Running
  <2> QED
    BY <2>1, <2>4 DEF RunOK, Writers
<1> QED
  BY <1>3, <1>4

(***************************************************************************)
(* A later system is put at the end of the list.                           *)
(***************************************************************************)
LEMMA ListsAppend ==
  ASSUME NEW S \in SUBSET Nat, NEW q \in Seq(Nat), Lists(q, S),
         NEW s \in Nat, \A t \in S : t < s
  PROVE  Lists(Append(q, s), S \union {s})
<1> DEFINE r == Append(q, s)
<1>1. /\ DOMAIN r = 1..(Len(q) + 1) /\ DOMAIN q = 1..Len(q) /\ Len(q) \in Nat
      /\ r[Len(q) + 1] = s /\ \A i \in DOMAIN q : r[i] = q[i] /\ q[i] \in Nat
  OBVIOUS
<1> HIDE DEF r
<1>2. \A i \in DOMAIN q : q[i] \in S
  BY DEF Lists
<1>3. ASSUME NEW i \in DOMAIN r, NEW j \in DOMAIN r, i < j PROVE r[i] < r[j]
  <2>1. i \in DOMAIN q
    BY <1>1, <1>3
  <2>2. CASE j \in DOMAIN q
    BY <1>1, <1>3, <2>1, <2>2 DEF Lists
  <2>3. CASE j = Len(q) + 1
    BY <1>1, <1>2, <2>1, <2>3
  <2> QED
    BY <1>1, <2>2, <2>3
<1>4. {r[i] : i \in DOMAIN r} = S \union {s}
  <2>1. ASSUME NEW i \in DOMAIN r PROVE r[i] \in S \union {s}
    BY <1>1, <1>2
  <2>2. ASSUME NEW t \in S PROVE \E i \in DOMAIN r : r[i] = t
    <3>1. PICK i \in DOMAIN q : q[i] = t
      BY DEF Lists
    <3> QED
      BY <1>1, <3>1
  <2>3. Len(q) + 1 \in DOMAIN r
    BY <1>1
  <2> QED
    BY <1>1, <2>1, <2>2, <2>3
<1> QED
  BY <1>3, <1>4 DEF Lists, r


LEMMA SerialInit == Init => SerialInv
<1> SUFFICES ASSUME Init PROVE SerialInv
  OBVIOUS
<1>1. IInv /\ DataOK
  BY InitInvariant, DataInit
<1>2. ParentsEarlier
  <2>1. N \in Nat /\ Systems = 1..N
    BY StageAssumption DEF Systems
  <2>2. \A i \in Systems : \A j \in after[i] : j < i
    BY DEF Init
  <2> QED
    BY <2>1, <2>2 DEF Init, FromStage, ParentsEarlier
<1>3. \A s \in Systems : wrote[s] = {} /\ saw[s] = <<>> /\ DOMAIN saw[s] = {} /\ phase[s] = "new"
  BY DEF Init
<1>4. CellsOK
  <2>1. \A c \in Cells : Writers(c) = {} /\ cell[c] = <<>> /\ DOMAIN cell[c] = {}
    BY <1>3 DEF Writers, Init
  <2> QED
    BY <2>1 DEF CellsOK, Lists
<1> QED
  BY <1>1, <1>2, <1>3, <1>4 DEF SerialInv, RunOK, SawOK, DoneOK, Init

\* What the steps that read and write nothing leave as it is.
LEMMA SameData ==
  ASSUME UNCHANGED <<stage, cell, saw, wrote>>, CellsOK, SawOK
  PROVE  CellsOK' /\ SawOK'
<1>1. \A c : Writers(c)' = Writers(c)
  BY DEF Writers
<1>2. \A s, c : WritersBefore(s, c)' = WritersBefore(s, c)
  BY DEF WritersBefore, Writes
<1> QED
  BY <1>1, <1>2 DEF CellsOK, SawOK, Lists

(***************************************************************************)
(* The steps that move a system through its phases: it starts with nothing *)
(* read, and ends with everything written.                                 *)
(***************************************************************************)
LEMMA PhaseStepKeepsSerial ==
  ASSUME SerialInv, NEW s \in Systems,
         Enqueue(s) \/ Start(s) \/ LockId(s) \/ UnlockId(s) \/ Finish(s)
  PROVE  ParentsEarlier' /\ RunOK' /\ CellsOK' /\ SawOK' /\ DoneOK'
<1>1. UNCHANGED <<stage, parents, at, cell, saw, wrote>>
  BY DEF Enqueue, Start, LockId, UnlockId, Finish, static, data
<1>2. ParentsEarlier' /\ CellsOK' /\ SawOK'
  BY <1>1, SameData DEF SerialInv, ParentsEarlier
<1>3. \A t : Writes(t)' = Writes(t)
  BY <1>1 DEF Writes
<1>4. PhaseOK
  BY DEF SerialInv, IInv
<1>5. \/ phase' = phase
      \/ phase' = [phase EXCEPT ![s] = "enqueued"] /\ phase[s] = "new"
      \/ phase' = [phase EXCEPT ![s] = "running"] /\ phase[s] = "enqueued"
      \/ phase' = [phase EXCEPT ![s] = "finished"] /\ phase[s] = "running" /\ wrote[s] = Writes(s)
  BY DEF Enqueue, Start, LockId, UnlockId, Finish, Graph!Enqueue, Graph!Start, Graph!Finish
<1>6. RunOK'
  <2> SUFFICES ASSUME NEW t \in Systems
               PROVE  /\ wrote[t] \subseteq DOMAIN saw[t]
                      /\ phase'[t] \in {"new", "enqueued"} => DOMAIN saw[t] = {}
                      /\ phase'[t] = "finished" => wrote[t] = Writes(t)
    BY <1>1, <1>3 DEF RunOK
  <2>1. /\ wrote[t] \subseteq DOMAIN saw[t]
        /\ phase[t] \in {"new", "enqueued"} => DOMAIN saw[t] = {}
        /\ phase[t] = "finished" => wrote[t] = Writes(t)
    BY DEF SerialInv, RunOK
  <2> QED
    BY <1>4, <1>5, <2>1 DEF PhaseOK
<1>7. DoneOK'
  <2>1. phase[s] = "finished" => UNCHANGED phase
    BY <1>5
  <2> QED
    BY <1>1, <2>1 DEF SerialInv, DoneOK
<1> QED
  BY <1>2, <1>6, <1>7

(***************************************************************************)
(* A system reads what the earlier ones have written.                      *)
(***************************************************************************)
LEMMA ReadKeepsSerial ==
  ASSUME SerialInv, NEW s \in Systems, NEW c \in Cells, Read(s, c)
  PROVE  ParentsEarlier' /\ RunOK' /\ CellsOK' /\ SawOK' /\ DoneOK'
<1> DEFINE now == [x \in DOMAIN saw[s] \union {c} |-> IF x = c THEN cell[c] ELSE saw[s][x]]
<1>1. /\ Running(s) /\ c \in Touches(s) /\ c \notin DOMAIN saw[s]
      /\ saw' = [saw EXCEPT ![s] = now]
      /\ UNCHANGED <<stage, parents, at, phase, cell, wrote>>
  BY DEF Read, static
<1>2. /\ DOMAIN now = DOMAIN saw[s] \union {c} /\ now[c] = cell[c]
      /\ \A x \in DOMAIN saw[s] : now[x] = saw[s][x]
  BY <1>1
<1> HIDE DEF now
<1>3. saw'[s] = now /\ \A t \in Systems \ {s} : saw'[t] = saw[t]
  BY <1>1 DEF SerialInv, DataOK
<1>4. \A x : Writers(x)' = Writers(x)
  BY <1>1 DEF Writers
<1>5. \A t, x : WritersBefore(t, x)' = WritersBefore(t, x)
  BY <1>1 DEF WritersBefore, Writes
<1>6. \A t : Writes(t)' = Writes(t)
  BY <1>1 DEF Writes
<1>7. Lists(now[c], WritersBefore(s, c))
  <2>1. c \notin wrote[s]
    BY <1>1 DEF SerialInv, RunOK
  <2>2. Writers(c) = WritersBefore(s, c)
    BY <1>1, <2>1, SeesEarlier DEF SerialInv
  <2> QED
    BY <1>2, <2>2 DEF SerialInv, CellsOK
<1>8. SawOK'
  <2> SUFFICES ASSUME NEW t \in Systems, NEW x \in DOMAIN saw'[t]
               PROVE  Lists(saw'[t][x], WritersBefore(t, x))
    BY <1>5 DEF SawOK, Lists
  <2>1. CASE t = s /\ x = c
    BY <1>3, <1>7, <2>1
  <2>2. CASE t = s /\ x # c
    BY <1>2, <1>3, <2>2 DEF SerialInv, SawOK
  <2>3. CASE t # s
    BY <1>3, <2>3 DEF SerialInv, SawOK
  <2> QED
    BY <2>1, <2>2, <2>3
<1>9. RunOK'
  <2> SUFFICES ASSUME NEW t \in Systems
               PROVE  /\ wrote[t] \subseteq DOMAIN saw'[t]
                      /\ phase[t] \in {"new", "enqueued"} => DOMAIN saw'[t] = {}
                      /\ phase[t] = "finished" => wrote[t] = Writes(t)
    BY <1>1, <1>6 DEF RunOK
  <2>1. CASE t = s
    BY <1>1, <1>2, <1>3, <2>1 DEF SerialInv, RunOK, Running
  <2>2. CASE t # s
    BY <1>3, <2>2 DEF SerialInv, RunOK
  <2> QED
    BY <2>1, <2>2
<1>10. CellsOK'
  BY <1>1, <1>4 DEF SerialInv, CellsOK, Lists
<1> QED
  BY <1>1, <1>8, <1>9, <1>10 DEF SerialInv, ParentsEarlier, DoneOK

(***************************************************************************)
(* A system puts itself behind those whose writes it has seen: there is    *)
(* nothing else in the cell that would be lost.                            *)
(***************************************************************************)
LEMMA WriteKeepsSerial ==
  ASSUME SerialInv, NEW s \in Systems, NEW c \in Cells, Write(s, c)
  PROVE  ParentsEarlier' /\ RunOK' /\ CellsOK' /\ SawOK' /\ DoneOK'
<1>1. /\ Running(s) /\ c \in Writes(s) /\ c \in DOMAIN saw[s] /\ c \notin wrote[s]
      /\ cell' = [cell EXCEPT ![c] = Append(saw[s][c], s)]
      /\ wrote' = [wrote EXCEPT ![s] = wrote[s] \union {c}]
      /\ UNCHANGED <<stage, parents, at, phase, saw>>
  BY DEF Write, static
<1>2. cell'[c] = Append(saw[s][c], s) /\ \A x \in Cells \ {c} : cell'[x] = cell[x]
  BY <1>1 DEF SerialInv, DataOK
<1>3. /\ wrote'[s] = wrote[s] \union {c}
      /\ \A t \in Systems \ {s} : wrote'[t] = wrote[t]
  BY <1>1 DEF SerialInv, DataOK
<1>4. \A t, x : WritersBefore(t, x)' = WritersBefore(t, x)
  BY <1>1 DEF WritersBefore, Writes
<1>5. \A t : Writes(t)' = Writes(t)
  BY <1>1 DEF Writes
<1>6. \A x \in Cells \ {c} : Writers(x)' = Writers(x)
  BY <1>3 DEF Writers
<1>7. Writers(c)' = WritersBefore(s, c) \union {s}
  <2>1. Writers(c) = WritersBefore(s, c)
    BY <1>1, SeesEarlier DEF SerialInv, Touches
  <2>2. Writers(c)' = Writers(c) \union {s}
    BY <1>3 DEF Writers
  <2> QED
    BY <2>1, <2>2
<1>8. Lists(cell'[c], WritersBefore(s, c) \union {s})
  <2>1. N \in Nat /\ Systems = 1..N
    BY StageAssumption DEF Systems
  <2>2. /\ WritersBefore(s, c) \in SUBSET Nat /\ s \in Nat
        /\ \A t \in WritersBefore(s, c) : t < s
    BY <2>1 DEF WritersBefore
  <2>3. saw[s][c] \in Seq(Systems)
    BY <1>1 DEF SerialInv, DataOK
  <2>4. saw[s][c] \in Seq(Nat)
    BY <2>1, <2>3
  <2>5. Lists(saw[s][c], WritersBefore(s, c))
    BY <1>1 DEF SerialInv, SawOK
  <2> QED
    BY <1>2, <2>2, <2>4, <2>5, ListsAppend
<1>9. CellsOK'
  <2> SUFFICES ASSUME NEW x \in Cells PROVE Lists(cell'[x], Writers(x)')
    BY DEF CellsOK, Lists
  <2>1. CASE x = c
    BY <1>7, <1>8, <2>1
  <2>2. CASE x # c
    BY <1>2, <1>6, <2>2 DEF SerialInv, CellsOK
  <2> QED
    BY <2>1, <2>2
<1>10. SawOK'
  BY <1>1, <1>4 DEF SerialInv, SawOK, Lists
<1>11. RunOK'
  <2> SUFFICES ASSUME NEW t \in Systems
               PROVE  /\ wrote'[t] \subseteq DOMAIN saw[t]
                      /\ phase[t] \in {"new", "enqueued"} => DOMAIN saw[t] = {}
                      /\ phase[t] = "finished" => wrote'[t] = Writes(t)
    BY <1>1, <1>5 DEF RunOK
  <2>1. CASE t = s
    BY <1>1, <1>3, <2>1 DEF SerialInv, RunOK, Running
  <2>2. CASE t # s
    BY <1>3, <2>2 DEF SerialInv, RunOK
  <2> QED
    BY <2>1, <2>2
<1> QED
  BY <1>1, <1>9, <1>10, <1>11 DEF SerialInv, ParentsEarlier, DoneOK

LEMMA SerialStep == SerialInv /\ [Next]_vars => SerialInv'
<1> SUFFICES ASSUME SerialInv, [Next]_vars PROVE SerialInv'
  OBVIOUS
<1>1. IInv' /\ DataOK'
  BY StepInvariant, DataStep DEF SerialInv
<1>2. ASSUME UNCHANGED <<stage, parents, phase, cell, saw, wrote>>, DoneOK'
      PROVE  SerialInv'
  <2>1. CellsOK' /\ SawOK'
    BY <1>2, SameData DEF SerialInv
  <2>2. RunOK' /\ ParentsEarlier'
    BY <1>2 DEF SerialInv, RunOK, ParentsEarlier, Writes
  <2> QED
    BY <1>1, <1>2, <2>1, <2>2 DEF SerialInv
<1>3. CASE ShouldRun \/ Return
  <2>1. DoneOK'
    BY <1>3 DEF ShouldRun, Return, DoneOK
  <2> QED
    BY <1>2, <1>3, <2>1 DEF ShouldRun, Return, static, data
<1>4. ASSUME NEW s \in Systems,
             Enqueue(s) \/ Start(s) \/ LockId(s) \/ UnlockId(s) \/ Finish(s)
      PROVE  SerialInv'
  BY <1>1, <1>4, PhaseStepKeepsSerial DEF SerialInv
<1>5. ASSUME NEW s \in Systems, NEW c \in Cells, Read(s, c) \/ Write(s, c)
      PROVE  SerialInv'
  BY <1>1, <1>5, ReadKeepsSerial, WriteKeepsSerial DEF SerialInv
<1>6. CASE UNCHANGED vars
  <2>1. DoneOK'
    BY <1>6 DEF vars, SerialInv, DoneOK
  <2> QED
    BY <1>2, <1>6, <2>1 DEF vars, static, data
<1> QED
  BY <1>3, <1>4, <1>5, <1>6 DEF Next

(***************************************************************************)
(* When the run is over, all have written what they may.                   *)
(***************************************************************************)
LEMMA SerialHolds == SerialInv => SerialResult
<1> SUFFICES ASSUME SerialInv PROVE SerialResult
  OBVIOUS
<1>1. ASSUME at = "done", NEW c \in Cells PROVE Lists(cell[c], WritersBefore(N + 1, c))
  <2>1. N \in Nat /\ Systems = 1..N
    BY StageAssumption DEF Systems
  <2>2. \A s \in Systems : wrote[s] = Writes(s)
    BY <1>1 DEF SerialInv, DoneOK, RunOK
  <2>3. Writers(c) = WritersBefore(N + 1, c)
    BY <2>1, <2>2 DEF Writers, WritersBefore
  <2> QED
    BY <2>3 DEF SerialInv, CellsOK
<1> QED
  BY <1>1 DEF SerialResult, SerialInv, SawOK

(***************************************************************************)
(* A parallel run is a serial one: every system sees exactly the writes of *)
(* the systems before it, and the result is that of the whole order.       *)
(***************************************************************************)
THEOREM SerialRun == Spec => []SerialResult
BY SerialInit, SerialStep, SerialHolds, PTL DEF Spec
-----------------------------------------------------------------------------
(***************************************************************************)
(* From its builder to the end of a run.  What SortedSystemsProofs shows   *)
(* of the result of the sort is what the proofs above take for granted of  *)
(* a stage, so that the promises of both hold of whatever systems and      *)
(* orderings a builder is given.                                           *)
(***************************************************************************)
SP == INSTANCE SortedSystemsProofs WITH after <- named

\* "bad ordering" (scheduler.rs:37) does not come up.
InOrder == after[1] = {} /\ \A i \in Systems : \A j \in after[i] : j < i

(***************************************************************************)
(* The inductive invariant: that of the sort, and once the stage is part   *)
(* of the world that of its run.                                           *)
(***************************************************************************)
BuiltInv ==
  /\ SP!IInv /\ SP!WalkInv /\ Sort!TypeOK
  /\ built \in BOOLEAN
  /\ ~built => Unbuilt
  /\ built => SerialInv /\ InOrder
-----------------------------------------------------------------------------
(***************************************************************************)
(* The two instances of SortedSystems, BuiltStage's and that of the        *)
(* module of its proofs, say the same.                                     *)
(***************************************************************************)
LEMMA SameInit == Sort!Init => SP!Init
BY DEF Sort!Init, SP!Init, Sort!Members, SP!Members, Sort!RangeOf, SP!RangeOf,
       Sort!Repeated, SP!Repeated

LEMMA SameTypes == Sort!TypeOK <=> SP!TypeOK
BY DEF Sort!TypeOK, SP!TypeOK, Sort!Members, SP!Members, Sort!RangeOf, SP!RangeOf,
       Sort!Depth, SP!Depth

LEMMA SameTypesNext == Sort!TypeOK' <=> SP!TypeOK'
BY DEF Sort!TypeOK, SP!TypeOK, Sort!Members, SP!Members, Sort!RangeOf, SP!RangeOf,
       Sort!Depth, SP!Depth

LEMMA SameSorted == SP!Sorted => Sorted
BY DEF Sorted, Sort!Sorted, SP!Sorted, Sort!Members, SP!Members, Sort!RangeOf, SP!RangeOf,
       Sort!Precedes, SP!Precedes

LEMMA SameLeadsTo == \A a, b : Sort!LeadsTo(a, b) <=> SP!LeadsTo(a, b)
BY DEF Sort!LeadsTo, SP!LeadsTo, Sort!Named, SP!Named, Sort!Members, SP!Members,
       Sort!RangeOf, SP!RangeOf

LEMMA SameCircular == SP!CircularMeansCycle => CircularMeansCycle
BY SameLeadsTo DEF CircularMeansCycle, Sort!CircularMeansCycle, SP!CircularMeansCycle,
       Sort!Members, SP!Members, Sort!RangeOf, SP!RangeOf

LEMMA SameOrder == SP!KeepsOrder => KeepsOrder
BY SameLeadsTo DEF KeepsOrder, Sort!KeepsOrder, SP!KeepsOrder, Sort!Precedes, SP!Precedes

LEMMA SameNext ==
  Sort!NextSystem \/ Sort!VisitAfter \/ Sort!Return \/ Sort!Finish => SP!Next
<1>1. ASSUME NEW id, NEW rest, Sort!Call(id, rest) PROVE SP!Call(id, rest)
  BY <1>1 DEF Sort!Call, Sort!CallCircular, Sort!CallReturns, Sort!CallDescends,
              Sort!RangeOf, SP!Call, SP!CallCircular, SP!CallReturns, SP!CallDescends,
              SP!RangeOf
<1>2. Sort!NextSystem => SP!NextSystem
  BY <1>1 DEF Sort!NextSystem, SP!NextSystem, Sort!input, SP!input
<1>3. Sort!VisitAfter => SP!VisitAfter
  BY <1>1 DEF Sort!VisitAfter, SP!VisitAfter, Sort!Depth, SP!Depth
<1>4. Sort!Return => SP!Return
  BY DEF Sort!Return, SP!Return, Sort!Depth, SP!Depth
<1>5. Sort!Finish => SP!Finish
  BY DEF Sort!Finish, SP!Finish
<1> QED
  BY <1>2, <1>3, <1>4, <1>5 DEF SP!Next

(***************************************************************************)
(* The sort's part of the invariant: at first, and with every step of it.  *)
(***************************************************************************)
LEMMA SortInit == Sort!Init => SP!IInv /\ SP!WalkInv /\ Sort!TypeOK
BY SameInit, SameTypes, SP!InitInvariant, SP!WalkInit, SP!TypeOKInit

LEMMA SortInitNext == Sort!Init' => SP!IInv' /\ SP!WalkInv' /\ Sort!TypeOK'
BY SortInit, PTL

LEMMA SortStepKeeps == ASSUME BuiltInv, SortStep PROVE BuiltInv'
<1>1. SP!IInv /\ SP!WalkInv /\ SP!TypeOK /\ SP!Next /\ ~built /\ Unbuilt /\ UNCHANGED <<built, vars>>
  BY SameTypes, SameNext DEF BuiltInv, SortStep
<1>2. SP!IInv' /\ SP!WalkInv' /\ SP!TypeOK'
  <2>1. SP!IInv => SP!Types
    BY DEF SP!IInv
  <2> QED
    BY <1>1, <2>1, SP!StepInvariant, SP!WalkStep, SP!TypeOKStep
<1>3. Unbuilt'
  BY <1>1 DEF Unbuilt, vars, static, data
<1> QED
  BY <1>1, <1>2, <1>3, SameTypesNext DEF BuiltInv

LEMMA RunStepKeeps == ASSUME BuiltInv, RunStep PROVE BuiltInv'
<1>1. /\ built /\ SerialInv /\ InOrder /\ Next /\ UNCHANGED <<sorting, built>>
      /\ SP!IInv /\ SP!WalkInv /\ SP!TypeOK
  BY SameTypes DEF BuiltInv, RunStep
<1>2. SerialInv'
  BY <1>1, SerialStep
<1>3. InOrder'
  <2>1. UNCHANGED after
    BY <1>1 DEF Next, ShouldRun, Return, Enqueue, Start, LockId, UnlockId, Read, Write,
                Finish, static
  <2> QED
    BY <1>1, <2>1 DEF InOrder
<1>4. SP!IInv' /\ SP!WalkInv' /\ SP!TypeOK'
  <2>1. UNCHANGED SP!vars
    BY <1>1 DEF sorting, SP!vars
  <2>2. SP!IInv => SP!Types
    BY DEF SP!IInv
  <2> QED
    BY <1>1, <2>1, <2>2, SP!StepInvariant, SP!WalkStep, SP!TypeOKStep
<1> QED
  BY <1>1, <1>2, <1>3, <1>4, SameTypesNext DEF BuiltInv

(***************************************************************************)
(* The stage that is added starts in a state that Stage takes for granted: *)
(* a system that another names stands before it, since it is in the result *)
(* once, and somewhere before.                                             *)
(***************************************************************************)
LEMMA AddStageOrdered ==
  ASSUME BuiltInv, AddStage
  PROVE  /\ after' \in [Systems -> SUBSET (0..(N - 1))]
         /\ after'[1] = {} /\ \A i \in Systems : \A j \in after'[i] : j < i
<1>1. PICK others \in [Systems -> SUBSET {0}] :
        /\ others[1] = {}
        /\ after' = [i \in Systems |-> Before(i) \union others[i]]
  BY DEF AddStage
<1>2. N \in Nat \ {0} /\ Systems = 1..N
  BY StageAssumption DEF Systems
<1>3. SP!Types /\ SP!Partition /\ SP!OutSorted /\ Len(out) = N
  BY DEF BuiltInv, SP!IInv, AddStage
<1>4. DOMAIN out = Systems
  BY <1>2, <1>3 DEF SP!Types
<1>5. ASSUME NEW i \in Systems, NEW j \in Before(i) PROVE j \in Systems /\ j < i
  <2>1. j \in Systems /\ out[j] \in named[out[i]]
    BY <1>5 DEF Before
  <2>2. out[j] \in SP!Members
    BY <1>3, <1>4, <2>1 DEF SP!Partition, SP!RangeOf
  <2>3. PICK k \in DOMAIN out : k < i /\ out[k] = out[j]
    BY <1>3, <1>4, <2>1, <2>2 DEF SP!OutSorted
  <2>4. k = j
    BY <1>3, <1>4, <2>1, <2>3 DEF SP!Partition
  <2> QED
    BY <2>1, <2>3, <2>4
<1>6. ASSUME NEW i \in Systems
      PROVE  after'[i] \subseteq 0..(N - 1) /\ \A j \in after'[i] : j < i
  BY <1>1, <1>2, <1>5
<1>7. after'[1] = {}
  BY <1>1, <1>2, <1>5
<1> QED
  BY <1>1, <1>6, <1>7

LEMMA InitNext == Init' => SerialInv'
BY SerialInit, PTL

LEMMA AddStageKeeps == ASSUME BuiltInv, AddStage PROVE BuiltInv'
<1>1. ~built /\ Unbuilt /\ built' = TRUE
  BY DEF BuiltInv, AddStage
<1>2. Init'
  BY <1>1, AddStageOrdered DEF AddStage, Unbuilt, Init, data
<1>3. SerialInv'
  BY <1>2, InitNext
<1>4. InOrder'
  BY AddStageOrdered DEF InOrder
<1>5. Sort!Init'
  <2>1. <<>> \in Seq(Ids) /\ DOMAIN <<>> = {}
    OBVIOUS
  <2> QED
    BY <2>1 DEF AddStage, Sort!Init, Sort!Members, Sort!RangeOf, Sort!Repeated
<1> QED
  BY <1>1, <1>3, <1>4, <1>5, SortInitNext DEF BuiltInv

(***************************************************************************)
(* The invariant holds in every reachable state.                           *)
(***************************************************************************)
THEOREM BuiltInvariance == BuiltSpec => []BuiltInv
<1>1. BuiltInit => BuiltInv
  BY SortInit DEF BuiltInit, BuiltInv
<1>2. BuiltInv /\ [BuiltNext]_allvars => BuiltInv'
  <2> SUFFICES ASSUME BuiltInv, [BuiltNext]_allvars PROVE BuiltInv'
    OBVIOUS
  <2>1. CASE SortStep
    BY <2>1, SortStepKeeps
  <2>2. CASE AddStage
    BY <2>2, AddStageKeeps
  <2>3. CASE RunStep
    BY <2>3, RunStepKeeps
  <2>4. CASE UNCHANGED allvars
    <3>1. UNCHANGED SP!vars /\ UNCHANGED vars /\ UNCHANGED built
      BY <2>4 DEF allvars, sorting, SP!vars
    <3>2. SP!IInv' /\ SP!WalkInv' /\ SP!TypeOK'
      BY <3>1, SameTypes, SP!StepInvariant, SP!WalkStep, SP!TypeOKStep DEF BuiltInv, SP!IInv
    <3>3. built => SerialInv' /\ InOrder'
      BY <3>1, SerialStep DEF BuiltInv, InOrder, vars, static
    <3>4. ~built => Unbuilt'
      BY <3>1 DEF BuiltInv, Unbuilt, vars, static, data
    <3> QED
      BY <3>1, <3>2, <3>3, <3>4, SameTypesNext DEF BuiltInv
  <2> QED
    BY <2>1, <2>2, <2>3, <2>4 DEF BuiltNext
<1> QED
  BY <1>1, <1>2, PTL DEF BuiltSpec

(***************************************************************************)
(* Types, and what Schedule::from_stage takes for granted of a stage.      *)
(***************************************************************************)
THEOREM BuiltStagesOK == BuiltSpec => []BuiltOK
<1>1. BuiltInv => BuiltOK
  BY TypesHold DEF BuiltInv, SerialInv, BuiltOK, InOrder
<1> QED
  BY <1>1, BuiltInvariance, PTL

(***************************************************************************)
(* What build hands over has every system once, after those it names.      *)
(***************************************************************************)
THEOREM BuiltSorted == BuiltSpec => []Sorted
<1>1. BuiltInv => Sorted
  BY SP!SortedHolds, SameSorted DEF BuiltInv
<1> QED
  BY <1>1, BuiltInvariance, PTL

(***************************************************************************)
(* A stage is refused as circular only if a system leads to itself.        *)
(***************************************************************************)
THEOREM BuiltRefusals == BuiltSpec => []CircularMeansCycle
<1>1. SP!WalkInv => SP!CircularMeansCycle
  BY DEF SP!WalkInv, SP!CircularMeansCycle
<1>2. BuiltInv => CircularMeansCycle
  BY <1>1, SameCircular DEF BuiltInv
<1> QED
  BY <1>2, BuiltInvariance, PTL

(***************************************************************************)
(* Systems that nothing orders stay as registered.                         *)
(***************************************************************************)
THEOREM BuiltInRegisteredOrder == BuiltSpec => []KeepsOrder
<1>1. BuiltInv => KeepsOrder
  BY SP!OrderIsKept, SameOrder DEF BuiltInv
<1> QED
  BY <1>1, BuiltInvariance, PTL

\* Nothing runs while the stage is being built.
LEMMA UnbuiltIsQuiet ==
  Unbuilt => NoRace /\ AfterRespected /\ NeverLockedTwice /\ SerialResult
<1> SUFFICES ASSUME Unbuilt
             PROVE  NoRace /\ AfterRespected /\ NeverLockedTwice /\ SerialResult
  OBVIOUS
<1>1. \A s \in Systems : DOMAIN saw[s] = {}
  BY DEF Unbuilt
<1> QED
  BY <1>1 DEF Unbuilt, NoRace, AfterRespected, NeverLockedTwice, Running, SerialResult

(***************************************************************************)
(* From any builder: no system runs while another one writes what it has   *)
(* access to, those it names have finished before, the world's lock is     *)
(* never taken twice, and the result is that of the serial run.            *)
(***************************************************************************)
THEOREM BuiltStagesRun ==
  BuiltSpec => [](NoRace /\ AfterRespected /\ NeverLockedTwice /\ SerialResult)
<1>1. BuiltInv => NoRace /\ AfterRespected /\ NeverLockedTwice /\ SerialResult
  BY UnbuiltIsQuiet, NoRaceHolds, OrderHolds, SerialHolds
     DEF BuiltInv, SerialInv, IInv, NeverLockedTwice
<1> QED
  BY <1>1, BuiltInvariance, PTL
=============================================================================
