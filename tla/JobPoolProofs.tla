--------------------------- MODULE JobPoolProofs ---------------------------
(***************************************************************************)
(* Proofs about JobPool, for any number of threads and jobs, any graph and *)
(* any program that uses counters as the calls of the pool do: no job is   *)
(* lost or doubled, counters are exact, waits cover what they are for, and *)
(* the pool implements TaskGraph.                                          *)
(***************************************************************************)
EXTENDS JobPool, FiniteSetTheorems, TLAPS

Programs == Jobs \union {Main}

Types ==
  /\ tasks_left \in [Counters -> Int]
  /\ children \in [Jobs -> SUBSET Counters]
  /\ phase \in [Jobs -> {"new", "enqueued", "running", "finished"}]
  /\ pc \in [Programs -> Nat \ {0}]
  /\ \A p \in Programs : pc[p] <= Len(Program[p]) + 1
  /\ panicked \subseteq Programs
  /\ queue \in [Threads -> Seq(Jobs)]
  /\ wait_list \in [Threads -> SUBSET Jobs]
  /\ stack \in [Threads -> Seq(Programs)]

\* What a thread does, as far as the others are not concerned.
ModesOK ==
  /\ mode \in [Threads -> Modes]
  /\ left \in [Threads -> SUBSET (Threads \union Jobs)]
  /\ fails \in [Threads -> 0..(MaxFails - 1)]
  /\ closing \in BOOLEAN
  /\ \A t \in Threads :
       /\ mode[t] = "steal" => left[t] \subseteq Threads \ {t}
       /\ mode[t] \in {"promote", "promoted"} => left[t] \subseteq wait_list[t]

\* Sequences, one per thread: x is in one of them; no place has the same job
\* as another.
On(q, x) == \E t \in Threads : \E i \in DOMAIN q[t] : q[t][i] = x
Distinct(q) ==
  \A t, u \in Threads : \A i \in DOMAIN q[t], k \in DOMAIN q[u] :
    q[t][i] = q[u][k] => t = u /\ i = k

InQueue(j) == On(queue, j)
InWaitList(j) == \E t \in Threads : j \in wait_list[t]
InFrame(j) == On(stack, j)

\* Enqueued jobs are in one place, and nothing else is.
QueuesOK ==
  /\ Distinct(queue)
  /\ \A j \in Jobs : InQueue(j) => phase[j] = "enqueued" /\ ~InWaitList(j)
  /\ \A t, u \in Threads : \A j \in wait_list[t] :
       phase[j] = "enqueued" /\ (j \in wait_list[u] => t = u)
  /\ \A j \in Jobs : phase[j] = "enqueued" => InQueue(j) \/ InWaitList(j)

\* Running jobs are on one stack, once; so are those that have finished and
\* have not counted down yet.
StacksOK ==
  /\ Distinct(stack)
  /\ \A j \in Jobs : InFrame(j) => phase[j] \in {"running", "finished"}
  /\ \A j \in Jobs : phase[j] = "running" => InFrame(j)

\* An enqueue has been made if the job is not new any more.  A program that
\* panicked was at an instruction that can.
ProgramsOK ==
  /\ \A p \in Programs : \A k \in DOMAIN Program[p], j \in Jobs :
       HandsIn(p, k, j) => (k < pc[p] <=> phase[j] # "new")
  /\ \A j \in Jobs : phase[j] # "new" =>
       \E p \in Programs : \E k \in DOMAIN Program[p] : HandsIn(p, k, j)
  /\ \A j \in Jobs : phase[j] = "finished" => AtEnd(j)
  /\ \A p \in panicked :
       pc[p] \in DOMAIN Program[p] /\ Program[p][pc[p]].op \in {"panic", "unwrap"}

\* Until it has finished a job has all its children.
ChildrenOK ==
  \A j \in Jobs :
    /\ phase[j] = "new" => \A c \in children[j] : <<j, c>> \in Edges
    /\ \A c \in Counters : <<j, c>> \in Edges => c \in children[j] \/ phase[j] = "finished"
    /\ \A p \in Programs : \A k \in DOMAIN Program[p], c \in Counters :
         Adds(p, k, j, c) /\ k < pc[p] => c \in children[j] \/ phase[j] = "finished"

\* What is about to run or running waits for nothing.
Runnable ==
  \A j \in Jobs : InQueue(j) \/ phase[j] = "running" => \A i \in Jobs : j \notin children[i]

(***************************************************************************)
(* The inductive invariant.                                                *)
(***************************************************************************)
IInv ==
  /\ Types /\ ModesOK
  /\ QueuesOK /\ StacksOK /\ CountersExact
  /\ ProgramsOK /\ ChildrenOK /\ Runnable /\ WaitsCovered

-----------------------------------------------------------------------------
LEMMA ProgramTypes ==
  /\ DOMAIN Program = Programs
  /\ \A p \in Programs : /\ Len(Program[p]) \in Nat
                         /\ DOMAIN Program[p] = 1..Len(Program[p])
                         /\ \A k \in DOMAIN Program[p] : Program[p][k] \in Instructions
  /\ Main \notin Jobs
  /\ Jobs \subseteq Programs /\ Main \in Programs
  /\ Jobs \subseteq Counters /\ Handles \subseteq Counters
  /\ NoChild \notin Counters
BY PoolAssumption DEF Programs, Counters

\* CountersAssumption, as it is used: a job is added to a counter before the
\* job that has the counter is handed in, or the handle is waited for.
LEMMA ChildNoEdge ==
  ASSUME NEW q \in DOMAIN Program, NEW k \in DOMAIN Program[q],
         NEW j \in Jobs, NEW c \in Counters, Adds(q, k, j, c)
  PROVE  <<j, c>> \notin Edges
BY CountersAssumption

LEMMA AddedFirst ==
  ASSUME NEW q \in DOMAIN Program, NEW k \in DOMAIN Program[q],
         NEW j \in Jobs, NEW c \in Counters, Adds(q, k, j, c)
  PROVE  \A r \in DOMAIN Program : \A l \in DOMAIN Program[r] :
           \/ c \in Jobs /\ HandsIn(r, l, c)
           \/ c \in Handles /\ Program[r][l].op \in {"wait", "await"} /\ Program[r][l].on = c
           => q = r /\ k < l
BY CountersAssumption, Zenon

LEMMA AddedBeforeHandedIn ==
  ASSUME NEW q \in DOMAIN Program, NEW k \in DOMAIN Program[q],
         NEW r \in DOMAIN Program, NEW l \in DOMAIN Program[r],
         NEW j \in Jobs, NEW c \in Jobs, Adds(q, k, j, c), HandsIn(r, l, c)
  PROVE  r = q /\ k < l
<1>1. c \in Counters
  BY ProgramTypes
<1> QED
  BY <1>1, AddedFirst

LEMMA AddedBeforeWait ==
  ASSUME NEW q \in DOMAIN Program, NEW k \in DOMAIN Program[q],
         NEW r \in DOMAIN Program, NEW l \in DOMAIN Program[r],
         NEW j \in Jobs, NEW c \in Handles, Adds(q, k, j, c),
         Program[r][l].op \in {"wait", "await"}, Program[r][l].on = c
  PROVE  r = q /\ k < l
<1>1. c \in Counters
  BY ProgramTypes
<1>2. \A x \in DOMAIN Program : \A m \in DOMAIN Program[x] :
        \/ c \in Jobs /\ HandsIn(x, m, c)
        \/ c \in Handles /\ Program[x][m].op \in {"wait", "await"} /\ Program[x][m].on = c
        => q = x /\ k < m
  BY <1>1, AddedFirst
<1>3. \/ c \in Jobs /\ HandsIn(r, l, c)
      \/ c \in Handles /\ Program[r][l].op \in {"wait", "await"} /\ Program[r][l].on = c
  OBVIOUS
<1> QED
  BY <1>2, <1>3, Zenon

(***************************************************************************)
(* The program on top of a stack that has an instruction left: when it is  *)
(* a job's, the job is running.                                            *)
(***************************************************************************)
LEMMA DoingFacts ==
  ASSUME IInv, NEW t \in Threads, NEW op, Doing(t, op)
  PROVE  /\ mode[t] = "run"
         /\ Len(stack[t]) \in Nat \ {0} /\ Len(stack[t]) \in DOMAIN stack[t]
         /\ Top(t) \in Programs
         /\ Top(t) \notin panicked
         /\ pc[Top(t)] \in DOMAIN Program[Top(t)]
         /\ Instruction(t) \in Instructions
         /\ Instruction(t).op = op
         /\ Top(t) \in Jobs => phase[Top(t)] = "running"
<1>1. stack[t] \in Seq(Programs) /\ stack[t] # <<>>
  BY DEF IInv, Types, Doing, Running
<1>2. Len(stack[t]) \in Nat \ {0} /\ Len(stack[t]) \in DOMAIN stack[t]
  BY <1>1
<1>3. Top(t) \in Programs
  BY <1>1, <1>2 DEF Top
<1>4. pc[Top(t)] \in Nat \ {0} /\ pc[Top(t)] <= Len(Program[Top(t)])
  <2>1. pc[Top(t)] \in Nat \ {0} /\ ~ (pc[Top(t)] > Len(Program[Top(t)]))
    BY <1>3 DEF IInv, Types, Doing, AtEnd
  <2>2. Len(Program[Top(t)]) \in Nat
    BY <1>3, ProgramTypes
  <2> QED
    BY <2>1, <2>2
<1>5. pc[Top(t)] \in DOMAIN Program[Top(t)]
  BY <1>3, <1>4, ProgramTypes
<1>6. Top(t) \in Jobs => phase[Top(t)] = "running"
  <2> SUFFICES ASSUME Top(t) \in Jobs PROVE phase[Top(t)] = "running"
    OBVIOUS
  <2>1. phase[Top(t)] \in {"running", "finished"}
    BY <1>2 DEF IInv, StacksOK, InFrame, On, Top
  <2>2. ~AtEnd(Top(t))
    BY DEF Doing
  <2> QED
    BY <2>1, <2>2 DEF IInv, ProgramsOK
<1> QED
  BY <1>1, <1>2, <1>3, <1>5, <1>6, ProgramTypes DEF Doing, Running, AtEnd, Instruction

(***************************************************************************)
(* What the invariant is about apart from what every thread does.          *)
(***************************************************************************)
jobVars == <<tasks_left, children, phase, pc, panicked, queue, wait_list, stack>>

LEMMA QuietKeeps ==
  ASSUME IInv, UNCHANGED jobVars, ModesOK'
  PROVE  IInv'
<1> USE DEF jobVars
<1>1. Types'
  BY DEF IInv, Types
<1>2. QueuesOK'
  BY DEF IInv, QueuesOK, InQueue, InWaitList
<1>3. StacksOK'
  BY DEF IInv, StacksOK, InFrame
<1>4. CountersExact'
  BY DEF IInv, CountersExact, Retired, Frames
<1>5. ProgramsOK'
  BY DEF IInv, ProgramsOK, AtEnd
<1>6. ChildrenOK' /\ WaitsCovered'
  BY DEF IInv, ChildrenOK, WaitsCovered
<1>7. Runnable'
  BY DEF IInv, Runnable, InQueue
<1> QED
  BY <1>1, <1>2, <1>3, <1>4, <1>5, <1>6, <1>7 DEF IInv

(***************************************************************************)
(* Threads that find nothing, wait, sleep or stop.                         *)
(***************************************************************************)
LEMMA QuietSteps ==
  ASSUME IInv, NEW t \in Threads,
         \/ WaitHelp(t) \/ PopNothing(t) \/ StealFailed(t) \/ TrySucceeds(t)
         \/ TryFails(t) \/ Timeout(t) \/ Close \/ Idle
         \/ \E victim \in Threads : StealNothing(t, victim)
  PROVE  IInv'
<1>1. UNCHANGED jobVars
  BY DEF jobVars, vars, WaitHelp, PopNothing, StealFailed, TrySucceeds, TryFails, Timeout,
         Close, Idle, StealNothing
<1>2. ModesOK
  BY DEF IInv
<1>3. stack[t] # <<>> \/ stack[t] = <<>>
  OBVIOUS
<1>m. MaxFails \in Nat \ {0}
  BY PoolAssumption
<1>4. ModesOK'
  <2>1. CASE WaitHelp(t)
    BY <1>2, <2>1 DEF WaitHelp, ModesOK, Modes
  <2>2. CASE PopNothing(t)
    BY <1>2, <2>2 DEF PopNothing, ModesOK, Modes
  <2>3. CASE StealFailed(t)
    <3>1. wait_list[t] \subseteq Jobs
      BY DEF IInv, Types
    <3> QED
      BY <1>2, <2>3, <3>1 DEF StealFailed, ModesOK, Modes
  <2>4. CASE TrySucceeds(t)
    BY <1>2, <2>4, <1>m DEF TrySucceeds, ModesOK, Modes, AfterTry
  <2>5. CASE TryFails(t)
    <3>1. mode' \in [Threads -> Modes]
      BY <1>2, <2>5 DEF TryFails, ModesOK, Modes
    <3>2. fails' \in [Threads -> 0..(MaxFails - 1)]
      BY <1>2, <2>5, <1>m DEF TryFails, ModesOK
    <3>3. \A u \in Threads : mode'[u] \in {"steal", "promote", "promoted"} => mode[u] = mode'[u]
      BY <1>2, <2>5 DEF TryFails, ModesOK
    <3> QED
      BY <1>2, <2>5, <3>1, <3>2, <3>3 DEF TryFails, ModesOK
  <2>6. CASE Timeout(t)
    BY <1>2, <2>6 DEF Timeout, Woken, ModesOK, Modes
  <2>7. CASE Close
    BY <1>2, <2>7 DEF Close, ModesOK, Modes
  <2>8. CASE Idle
    BY <1>2, <2>8 DEF Idle, vars, ModesOK
  <2>9. ASSUME NEW victim \in Threads, StealNothing(t, victim) PROVE ModesOK'
    BY <1>2, <2>9 DEF StealNothing, ModesOK
  <2> QED
    BY <2>1, <2>2, <2>3, <2>4, <2>5, <2>6, <2>7, <2>8, <2>9
<1> QED
  BY <1>1, <1>4, QuietKeeps

-----------------------------------------------------------------------------
\* The jobs that have yet to decrement c.
Waiting(c) == {j \in Jobs : c \in children[j]}

LEMMA WaitingFinite ==
  ASSUME NEW c
  PROVE  /\ IsFiniteSet(Waiting(c)) /\ Cardinality(Waiting(c)) \in Nat
         /\ Cardinality(Waiting(c)) <= Cardinality(Jobs)
         /\ Cardinality(Jobs) \in Nat
         /\ Cardinality(Waiting(c)) = 0 => Waiting(c) = {}
<1>1. IsFiniteSet(Jobs) /\ Waiting(c) \subseteq Jobs
  BY PoolAssumption DEF Waiting
<1>2. IsFiniteSet(Waiting(c)) /\ Cardinality(Waiting(c)) <= Cardinality(Jobs)
  BY <1>1, FS_Subset
<1>3. Cardinality(Waiting(c)) \in Nat /\ Cardinality(Jobs) \in Nat
  BY <1>1, <1>2, FS_CardinalityType
<1>4. Cardinality(Waiting(c)) = 0 => Waiting(c) = {}
  BY <1>2, FS_EmptySet
<1> QED
  BY <1>2, <1>3, <1>4

(***************************************************************************)
(* A counter that is down: nobody has yet to decrement it, and the job it  *)
(* belongs to, if any, is done.  A job that is ready has no dependency     *)
(* left.                                                                   *)
(***************************************************************************)
LEMMA DoneMeans ==
  ASSUME IInv, NEW c \in Counters, Done(c)
  PROVE  Waiting(c) = {} /\ (c \in Jobs => Retired(c))
<1>1. tasks_left[c] = Cardinality(Waiting(c)) + IF c \in Jobs /\ ~Retired(c) THEN 1 ELSE 0
  BY DEF IInv, CountersExact, Waiting
<1>2. tasks_left[c] <= 0
  BY DEF Done
<1> QED
  BY <1>1, <1>2, WaitingFinite

LEMMA ReadyMeans ==
  ASSUME IInv, NEW j \in Jobs, Ready(j)
  PROVE  Waiting(j) = {}
<1>1. tasks_left[j] = Cardinality(Waiting(j)) + IF j \in Jobs /\ ~Retired(j) THEN 1 ELSE 0
  BY ProgramTypes DEF IInv, CountersExact, Waiting
<1>2. tasks_left[j] = 1 /\ ~Retired(j)
  BY DEF Ready, Retired
<1> QED
  BY <1>1, <1>2, WaitingFinite

(***************************************************************************)
(* A job that was handed in and that nobody has yet to decrement: all it   *)
(* depends on have finished.                                               *)
(***************************************************************************)
LEMMA DependenciesDone ==
  ASSUME IInv, NEW j \in Jobs, phase[j] # "new", \A h \in Jobs : j \notin children[h],
         NEW i \in AddsTo(j), i # j
  PROVE  phase[i] = "finished"
<1>1. i \in Jobs /\ j \in Counters
  BY ProgramTypes DEF AddsTo
<1>2. CASE <<i, j>> \in Edges
  BY <1>1, <1>2 DEF IInv, ChildrenOK
<1>3. ASSUME NEW q \in DOMAIN Program, NEW k \in DOMAIN Program[q], Adds(q, k, i, j)
      PROVE  phase[i] = "finished"
  <2>1. PICK r \in Programs : \E l \in DOMAIN Program[r] : HandsIn(r, l, j)
    BY DEF IInv, ProgramsOK
  <2>2. PICK l \in DOMAIN Program[r] : HandsIn(r, l, j)
    BY <2>1
  <2>3. l < pc[r]
    BY <2>2 DEF IInv, ProgramsOK
  <2>4. r = q /\ k < l
    BY <1>1, <1>3, <2>2, AddedBeforeHandedIn, ProgramTypes
  <2>5. q \in Programs /\ l \in Nat /\ k \in Nat /\ pc[q] \in Nat
    BY <1>3, <2>4, ProgramTypes DEF IInv, Types
  <2>6. k < pc[q]
    BY <2>3, <2>4, <2>5
  <2> QED
    BY <1>1, <1>3, <2>5, <2>6 DEF IInv, ChildrenOK
<1> QED
  BY <1>2, <1>3 DEF AddsTo

(***************************************************************************)
(* When the counter a program waits for is down, all it counts have        *)
(* finished: those that are added to it were added before the wait.        *)
(***************************************************************************)
LEMMA WaitCovers ==
  ASSUME IInv, NEW p \in Programs, pc[p] \in DOMAIN Program[p],
         Program[p][pc[p]].op \in {"wait", "await"},
         NEW c \in Counters, Program[p][pc[p]].on = c, Done(c), NEW j \in AddsTo(c)
  PROVE  phase[j] = "finished"
<1>1. Waiting(c) = {} /\ (c \in Jobs => phase[c] = "finished")
  BY DoneMeans DEF Retired
<1>2. j \in Jobs /\ \A h \in Jobs : c \notin children[h]
  BY <1>1 DEF AddsTo, Waiting
<1>3. CASE c \in Jobs
  BY <1>1, <1>2, <1>3, DependenciesDone
<1>4. CASE c \in Handles
  <2>1. PICK q \in DOMAIN Program : \E k \in DOMAIN Program[q] : Adds(q, k, j, c)
    BY <1>2, <1>4, PoolAssumption DEF AddsTo
  <2>2. PICK k \in DOMAIN Program[q] : Adds(q, k, j, c)
    BY <2>1
  <2>3. p \in DOMAIN Program /\ q \in Programs
    BY ProgramTypes
  <2>4. q = p /\ k < pc[p]
    BY <1>2, <1>4, <2>2, <2>3, AddedBeforeWait
  <2> QED
    BY <1>2, <2>2, <2>3, <2>4 DEF IInv, ChildrenOK
<1> QED
  BY <1>3, <1>4 DEF Counters

-----------------------------------------------------------------------------
(***************************************************************************)
(* Calls that only go on to the next instruction.                          *)
(***************************************************************************)
LEMMA AdvanceKeeps ==
  ASSUME IInv, NEW t \in Threads, NEW op \in {"wait", "await", "unwrap", "drop"},
         Doing(t, op), Advance(t),
         op \in {"wait", "await"} => Done(Instruction(t).on),
         UNCHANGED <<panicked, tasks_left, children, phase, queue, wait_list, stack, mode, left,
                     fails, closing>>
  PROVE  IInv'
<1> DEFINE p == Top(t)
<1>0. /\ p \in Programs /\ p \notin panicked /\ pc[p] \in DOMAIN Program[p]
      /\ Program[p][pc[p]].op = op /\ Program[p][pc[p]] \in Instructions
      /\ p \in Jobs => phase[p] = "running"
  BY DoingFacts DEF Instruction
<1>1. /\ pc' = [pc EXCEPT ![p] = @ + 1]
      /\ pc'[p] = pc[p] + 1
      /\ \A q \in Programs : q # p => pc'[q] = pc[q]
  BY <1>0 DEF Advance, IInv, Types
<1>2. pc \in [Programs -> Nat \ {0}] /\ \A q \in Programs : DOMAIN Program[q] \subseteq Nat
  BY ProgramTypes DEF IInv, Types
<1>3. Types'
  <2>1. pc[p] + 1 <= Len(Program[p]) + 1
    BY <1>0, <1>2, ProgramTypes
  <2>2. pc' \in [Programs -> Nat \ {0}]
    BY <1>1, <1>2, <1>0
  <2> QED
    BY <1>1, <2>1, <2>2 DEF IInv, Types
<1>4. ModesOK'
  BY DEF IInv, ModesOK
<1>5. QueuesOK'
  BY DEF IInv, QueuesOK, InQueue, InWaitList
<1>6. StacksOK'
  BY DEF IInv, StacksOK, InFrame
<1>7. CountersExact'
  BY DEF IInv, CountersExact, Retired, Frames
<1>8. \A q \in Programs : \A k \in DOMAIN Program[q] :
        k < pc'[q] /\ ~(k < pc[q]) => q = p /\ k = pc[p]
  BY <1>0, <1>1, <1>2
<1>9. \A q \in Programs : \A k \in DOMAIN Program[q] : k < pc[q] => k < pc'[q]
  BY <1>0, <1>1, <1>2
<1>10. ProgramsOK'
  <2>1. \A q \in Programs : \A k \in DOMAIN Program[q], j \in Jobs :
          HandsIn(q, k, j) => (k < pc'[q] <=> phase[j] # "new")
    BY <1>0, <1>8, <1>9 DEF IInv, ProgramsOK, HandsIn
  <2>2. \A j \in Jobs : phase[j] = "finished" => AtEnd(j)'
    BY <1>0, <1>1, ProgramTypes DEF IInv, ProgramsOK, AtEnd
  <2>3. \A q \in panicked : pc'[q] = pc[q]
    BY <1>0, <1>1 DEF IInv, Types
  <2> QED
    BY <2>1, <2>2, <2>3 DEF IInv, ProgramsOK, HandsIn
<1>11. ChildrenOK'
  BY <1>0, <1>8 DEF IInv, ChildrenOK, Adds
<1>12. Runnable'
  BY DEF IInv, Runnable, InQueue
<1>13. WaitsCovered'
  <2> SUFFICES ASSUME NEW q \in Programs, NEW k \in DOMAIN Program[q],
                      k < pc'[q], Program[q][k].op \in {"wait", "await"},
                      NEW j \in AddsTo(Program[q][k].on)
               PROVE  phase[j] = "finished"
    BY ProgramTypes DEF WaitsCovered, AddsTo
  <2>1. CASE k < pc[q]
    BY <2>1, ProgramTypes DEF IInv, WaitsCovered
  <2>2. CASE ~(k < pc[q])
    <3>1. q = p /\ k = pc[p]
      BY <1>8, <2>2
    <3>2. Program[p][pc[p]].on \in Counters
      BY <1>0, <3>1 DEF Instructions
    <3> QED
      BY <1>0, <3>1, <3>2, WaitCovers DEF Instruction
  <2> QED
    BY <2>1, <2>2
<1> QED
  BY <1>3, <1>4, <1>5, <1>6, <1>7, <1>10, <1>11, <1>12, <1>13 DEF IInv

LEMMA AdvanceSteps ==
  ASSUME IInv, NEW t \in Threads, WaitDone(t) \/ AwaitReady(t) \/ Unwrap(t) \/ Join
  PROVE  IInv'
<1>1. Main \in Threads
  BY DEF Threads
<1>2. CASE WaitDone(t)
  BY <1>2, AdvanceKeeps DEF WaitDone
<1>3. CASE AwaitReady(t)
  BY <1>3, AdvanceKeeps DEF AwaitReady
<1>4. CASE Unwrap(t)
  BY <1>4, AdvanceKeeps DEF Unwrap
<1>5. CASE Join
  BY <1>1, <1>5, AdvanceKeeps DEF Join
<1> QED
  BY <1>2, <1>3, <1>4, <1>5

-----------------------------------------------------------------------------
\* One of the sequences replaced.
Put(q, t, s) == [q EXCEPT ![t] = s]

(***************************************************************************)
(* Sequences of jobs, one per thread, when a job is added to one of them,  *)
(* taken from its front or its end, and when jobs move from one to another.*)
(***************************************************************************)
LEMMA Appended ==
  ASSUME NEW S, NEW q \in [Threads -> Seq(S)], NEW t \in Threads, NEW x \in S,
         NEW r, r = Put(q, t, Append(q[t], x))
  PROVE  /\ r \in [Threads -> Seq(S)]
         /\ \A y : On(r, y) <=> On(q, y) \/ y = x
         /\ Distinct(q) /\ ~On(q, x) => Distinct(r)
<1> USE DEF Put
<1>1. /\ r \in [Threads -> Seq(S)]
      /\ Len(q[t]) \in Nat /\ DOMAIN q[t] = 1..Len(q[t])
      /\ DOMAIN r[t] = 1..(Len(q[t]) + 1)
      /\ r[t][Len(q[t]) + 1] = x
      /\ \A i \in DOMAIN q[t] : r[t][i] = q[t][i]
      /\ \A u \in Threads \ {t} : r[u] = q[u]
  OBVIOUS
<1>2. ASSUME NEW y PROVE On(r, y) <=> On(q, y) \/ y = x
  <2>1. On(r, y) => On(q, y) \/ y = x
    BY <1>1 DEF On
  <2>2. On(q, y) => On(r, y)
    <3> SUFFICES ASSUME NEW u \in Threads, NEW i \in DOMAIN q[u], q[u][i] = y PROVE On(r, y)
      BY DEF On
    <3>1. i \in DOMAIN r[u] /\ r[u][i] = y
      BY <1>1
    <3> QED
      BY <3>1 DEF On
  <2>3. On(r, x)
    <3>1. Len(q[t]) + 1 \in DOMAIN r[t]
      BY <1>1
    <3> QED
      BY <1>1, <3>1 DEF On
  <2> QED
    BY <2>1, <2>2, <2>3
<1>3. ASSUME Distinct(q), ~On(q, x) PROVE Distinct(r)
  <2> SUFFICES ASSUME NEW u \in Threads, NEW v \in Threads,
                      NEW i \in DOMAIN r[u], NEW k \in DOMAIN r[v], r[u][i] = r[v][k]
               PROVE  u = v /\ i = k
    BY DEF Distinct
  <2>0. ASSUME NEW w \in Threads, NEW m \in DOMAIN r[w]
        PROVE  \/ m \in DOMAIN q[w] /\ r[w][m] = q[w][m]
               \/ w = t /\ m = Len(q[t]) + 1 /\ r[w][m] = x
    <3>1. CASE w = t
      BY <1>1, <3>1
    <3>2. CASE w # t
      BY <1>1, <3>2
    <3> QED
      BY <3>1, <3>2
  <2>1. \/ i \in DOMAIN q[u] /\ r[u][i] = q[u][i]
        \/ u = t /\ i = Len(q[t]) + 1 /\ r[u][i] = x
    BY <2>0
  <2>2. \/ k \in DOMAIN q[v] /\ r[v][k] = q[v][k]
        \/ v = t /\ k = Len(q[t]) + 1 /\ r[v][k] = x
    BY <2>0
  <2> QED
    BY <1>3, <2>1, <2>2 DEF Distinct, On
<1> QED
  BY <1>1, <1>2, <1>3

LEMMA HeadTaken ==
  ASSUME NEW S, NEW q \in [Threads -> Seq(S)], NEW t \in Threads, q[t] # <<>>, Distinct(q),
         NEW r, r = Put(q, t, Tail(q[t]))
  PROVE  /\ r \in [Threads -> Seq(S)] /\ Distinct(r)
         /\ Head(q[t]) \in S /\ On(q, Head(q[t]))
         /\ \A y : On(r, y) <=> On(q, y) /\ y # Head(q[t])
<1> USE DEF Put
<1>1. /\ r \in [Threads -> Seq(S)]
      /\ Len(q[t]) \in Nat \ {0} /\ DOMAIN q[t] = 1..Len(q[t])
      /\ DOMAIN r[t] = 1..(Len(q[t]) - 1)
      /\ Head(q[t]) = q[t][1] /\ 1 \in DOMAIN q[t] /\ Head(q[t]) \in S
      /\ \A i \in DOMAIN r[t] : i + 1 \in DOMAIN q[t] /\ r[t][i] = q[t][i + 1]
      /\ \A i \in DOMAIN q[t] : i = 1 \/ (i - 1 \in DOMAIN r[t] /\ r[t][i - 1] = q[t][i])
      /\ \A u \in Threads \ {t} : r[u] = q[u]
  <2>1. q[t] \in Seq(S) /\ Len(q[t]) \in Nat \ {0} /\ DOMAIN q[t] = 1..Len(q[t])
    OBVIOUS
  <2>2. /\ Tail(q[t]) \in Seq(S)
        /\ DOMAIN Tail(q[t]) = 1..(Len(q[t]) - 1)
        /\ \A i \in 1..(Len(q[t]) - 1) : Tail(q[t])[i] = q[t][i + 1]
    BY <2>1
  <2>3. r[t] = Tail(q[t]) /\ \A u \in Threads \ {t} : r[u] = q[u]
    OBVIOUS
  <2>4. r \in [Threads -> Seq(S)]
    BY <2>2
  <2>5. Head(q[t]) = q[t][1] /\ 1 \in DOMAIN q[t] /\ Head(q[t]) \in S
    BY <2>1
  <2>6. \A L \in Nat : \A i \in 1..(L - 1) : i + 1 \in 1..L
    OBVIOUS
  <2>7. \A L \in Nat : \A i \in 1..L : i = 1 \/ (i - 1 \in 1..(L - 1) /\ (i - 1) + 1 = i)
    OBVIOUS
  <2> QED
    BY <2>1, <2>2, <2>3, <2>4, <2>5, <2>6, <2>7
<1>2. \A u \in Threads : \A i \in DOMAIN r[u] : i \in Nat /\ r[u][i] # Head(q[t])
  <2> SUFFICES ASSUME NEW u \in Threads, NEW i \in DOMAIN r[u] PROVE i \in Nat /\ r[u][i] # Head(q[t])
    OBVIOUS
  <2>1. CASE u = t
    BY <1>1, <2>1 DEF Distinct
  <2>2. CASE u # t
    BY <1>1, <2>2 DEF Distinct
  <2> QED
    BY <2>1, <2>2
<1>3. ASSUME NEW y PROVE On(r, y) <=> On(q, y) /\ y # Head(q[t])
  <2>1. On(r, y) => On(q, y) /\ y # Head(q[t])
    <3> SUFFICES ASSUME NEW u \in Threads, NEW i \in DOMAIN r[u], r[u][i] = y
                 PROVE  On(q, y) /\ y # Head(q[t])
      BY DEF On
    <3>1. CASE u = t
      BY <1>1, <1>2, <3>1 DEF On
    <3>2. CASE u # t
      BY <1>1, <1>2, <3>2 DEF On
    <3> QED
      BY <3>1, <3>2
  <2>2. ASSUME y # Head(q[t]), NEW u \in Threads, NEW i \in DOMAIN q[u], q[u][i] = y
        PROVE  On(r, y)
    <3>1. CASE u = t
      <4>1. i - 1 \in DOMAIN r[t] /\ r[t][i - 1] = y
        BY <1>1, <2>2, <3>1
      <4> QED
        BY <4>1 DEF On
    <3>2. CASE u # t
      BY <1>1, <2>2, <3>2 DEF On
    <3> QED
      BY <3>1, <3>2
  <2> QED
    BY <2>1, <2>2 DEF On
<1>4. Distinct(r)
  <2> SUFFICES ASSUME NEW u \in Threads, NEW v \in Threads,
                      NEW i \in DOMAIN r[u], NEW k \in DOMAIN r[v], r[u][i] = r[v][k]
               PROVE  u = v /\ i = k
    BY DEF Distinct
  <2> DEFINE Was(w, m) == IF w = t THEN m + 1 ELSE m
  <2>0. ASSUME NEW w \in Threads, NEW m \in DOMAIN r[w]
        PROVE  Was(w, m) \in DOMAIN q[w] /\ q[w][Was(w, m)] = r[w][m]
    <3>1. CASE w = t
      BY <1>1, <3>1
    <3>2. CASE w # t
      BY <1>1, <3>2
    <3> QED
      BY <3>1, <3>2
  <2>1. Was(u, i) \in DOMAIN q[u] /\ q[u][Was(u, i)] = r[u][i]
    BY <2>0
  <2>2. Was(v, k) \in DOMAIN q[v] /\ q[v][Was(v, k)] = r[v][k]
    BY <2>0
  <2>3. u = v /\ Was(u, i) = Was(v, k)
    BY <2>1, <2>2 DEF Distinct
  <2> QED
    BY <1>2, <2>3
<1>5. On(q, Head(q[t]))
  BY <1>1 DEF On
<1> QED
  BY <1>1, <1>3, <1>4, <1>5

LEMMA LastTaken ==
  ASSUME NEW S, NEW q \in [Threads -> Seq(S)], NEW t \in Threads, q[t] # <<>>, Distinct(q),
         NEW r, r = Put(q, t, SubSeq(q[t], 1, Len(q[t]) - 1)),
         NEW last, last = q[t][Len(q[t])]
  PROVE  /\ r \in [Threads -> Seq(S)] /\ Distinct(r)
         /\ last \in S /\ On(q, last)
         /\ \A y : On(r, y) <=> On(q, y) /\ y # last
<1> USE DEF Put
<1>1. /\ r \in [Threads -> Seq(S)]
      /\ Len(q[t]) \in Nat \ {0} /\ DOMAIN q[t] = 1..Len(q[t])
      /\ DOMAIN r[t] = 1..(Len(q[t]) - 1)
      /\ Len(q[t]) \in DOMAIN q[t] /\ last \in S
      /\ \A i \in DOMAIN r[t] : i \in DOMAIN q[t] /\ r[t][i] = q[t][i]
      /\ \A i \in DOMAIN q[t] : i = Len(q[t]) \/ i \in DOMAIN r[t]
      /\ \A u \in Threads \ {t} : r[u] = q[u]
  <2>1. q[t] \in Seq(S) /\ Len(q[t]) \in Nat \ {0} /\ DOMAIN q[t] = 1..Len(q[t])
    OBVIOUS
  <2>2. Len(q[t]) - 1 \in Nat /\ Len(q[t]) \in DOMAIN q[t] /\ last \in S
    BY <2>1
  <2>3. /\ SubSeq(q[t], 1, Len(q[t]) - 1) \in Seq(S)
        /\ DOMAIN SubSeq(q[t], 1, Len(q[t]) - 1) = 1..(Len(q[t]) - 1)
        /\ \A i \in 1..(Len(q[t]) - 1) : SubSeq(q[t], 1, Len(q[t]) - 1)[i] = q[t][i]
    BY <2>1, <2>2
  <2>4. r[t] = SubSeq(q[t], 1, Len(q[t]) - 1) /\ \A u \in Threads \ {t} : r[u] = q[u]
    OBVIOUS
  <2>5. r \in [Threads -> Seq(S)]
    BY <2>3
  <2>6. \A i \in 1..(Len(q[t]) - 1) : i \in 1..Len(q[t])
    BY <2>1
  <2>7. \A L \in Nat : \A i \in 1..L : i = L \/ i \in 1..(L - 1)
    OBVIOUS
  <2> QED
    BY <2>1, <2>2, <2>3, <2>4, <2>5, <2>6, <2>7
<1>2. \A u \in Threads : \A i \in DOMAIN r[u] :
        i \in DOMAIN q[u] /\ r[u][i] = q[u][i] /\ ~(u = t /\ i = Len(q[t]))
  BY <1>1
<1>3. ASSUME NEW y PROVE On(r, y) <=> On(q, y) /\ y # last
  <2>1. On(r, y) => On(q, y) /\ y # last
    BY <1>1, <1>2 DEF On, Distinct
  <2>2. ASSUME y # last, NEW u \in Threads, NEW i \in DOMAIN q[u], q[u][i] = y PROVE On(r, y)
    <3>1. i \in DOMAIN r[u] /\ r[u][i] = y
      BY <1>1, <1>2, <2>2
    <3> QED
      BY <3>1 DEF On
  <2> QED
    BY <2>1, <2>2 DEF On
<1>4. Distinct(r)
  BY <1>2 DEF Distinct
<1>5. On(q, last)
  BY <1>1 DEF On
<1> QED
  BY <1>1, <1>3, <1>4, <1>5

LEMMA Moved ==
  ASSUME NEW S, NEW q \in [Threads -> Seq(S)], NEW t \in Threads, NEW v \in Threads, t # v,
         Distinct(q), NEW n \in 1..Len(q[v]),
         NEW r, r = Put(Put(q, t, q[t] \o SubSeq(q[v], 1, n)), v, SubSeq(q[v], n + 1, Len(q[v])))
  PROVE  /\ r \in [Threads -> Seq(S)] /\ Distinct(r)
         /\ \A y : On(r, y) <=> On(q, y)
<1>1. /\ Len(q[t]) \in Nat /\ Len(q[v]) \in Nat
      /\ DOMAIN q[t] = 1..Len(q[t]) /\ DOMAIN q[v] = 1..Len(q[v])
  OBVIOUS
<1>2. /\ SubSeq(q[v], 1, n) \in Seq(S) /\ Len(SubSeq(q[v], 1, n)) = n
      /\ \A i \in 1..n : SubSeq(q[v], 1, n)[i] = q[v][i]
  BY <1>1
<1>3. /\ SubSeq(q[v], n + 1, Len(q[v])) \in Seq(S)
      /\ DOMAIN SubSeq(q[v], n + 1, Len(q[v])) = 1..(Len(q[v]) - n)
      /\ \A i \in 1..(Len(q[v]) - n) : SubSeq(q[v], n + 1, Len(q[v]))[i] = q[v][i + n]
  BY <1>1
<1>4. /\ r[t] = q[t] \o SubSeq(q[v], 1, n) /\ r[v] = SubSeq(q[v], n + 1, Len(q[v]))
      /\ \A u \in Threads \ {t, v} : r[u] = q[u]
      /\ r \in [Threads -> Seq(S)]
  <2>1. q[t] \o SubSeq(q[v], 1, n) \in Seq(S)
    BY <1>2
  <2> QED
    BY <1>3, <2>1 DEF Put
<1>5. /\ DOMAIN r[t] = 1..(Len(q[t]) + n)
      /\ \A i \in 1..Len(q[t]) : r[t][i] = q[t][i]
      /\ \A i \in 1..n : r[t][Len(q[t]) + i] = q[v][i]
  BY <1>1, <1>2, <1>4
<1> DEFINE FromV(u, i) == u = t /\ i > Len(q[t])
           Thread(u, i) == IF FromV(u, i) THEN v ELSE u
           Place(u, i) == IF FromV(u, i) THEN i - Len(q[t]) ELSE IF u = v THEN i + n ELSE i
<1>6. ASSUME NEW u \in Threads, NEW i \in DOMAIN r[u]
      PROVE  /\ i \in Nat /\ Thread(u, i) \in Threads
             /\ Place(u, i) \in DOMAIN q[Thread(u, i)]
             /\ q[Thread(u, i)][Place(u, i)] = r[u][i]
             /\ Thread(u, i) = v => (u = t <=> Place(u, i) <= n)
  <2>1. CASE u = t
    <3>1. i \in 1..Len(q[t]) \/ i - Len(q[t]) \in 1..n
      BY <1>1, <1>5, <2>1
    <3>2. i \in Nat
      BY <1>1, <1>5, <2>1
    <3>3. CASE i \in 1..Len(q[t])
      BY <1>1, <1>5, <2>1, <3>3
    <3>4. CASE i - Len(q[t]) \in 1..n
      <4>1. i > Len(q[t]) /\ Len(q[t]) + (i - Len(q[t])) = i
        <5>1. i - Len(q[t]) >= 1
          BY <1>1, <1>2, <3>4
        <5> QED
          BY <1>1, <3>2, <5>1
      <4>2. r[t][i] = q[v][i - Len(q[t])] /\ i - Len(q[t]) \in DOMAIN q[v]
        <5>1. \A m \in 1..n : m \in DOMAIN q[v]
          BY <1>1
        <5>2. r[t][Len(q[t]) + (i - Len(q[t]))] = q[v][i - Len(q[t])]
          BY <1>5, <3>4
        <5> QED
          BY <3>4, <4>1, <5>1, <5>2
      <4> QED
        BY <2>1, <3>2, <3>4, <4>1, <4>2
    <3> QED
      BY <3>1, <3>3, <3>4
  <2>2. CASE u = v
    <3>1. i \in 1..(Len(q[v]) - n) /\ r[v][i] = q[v][i + n] /\ i + n \in DOMAIN q[v] /\ i + n > n
      <4>1. i \in 1..(Len(q[v]) - n) /\ r[v] = SubSeq(q[v], n + 1, Len(q[v]))
        BY <1>3, <1>4, <2>2
      <4>2. \A L \in Nat : \A b \in 1..L : \A m \in 1..(L - b) : m + b \in 1..L /\ m + b > b
        OBVIOUS
      <4>3. i + n \in 1..Len(q[v]) /\ i + n > n
        BY <1>1, <4>1, <4>2
      <4> QED
        BY <1>1, <1>3, <4>1, <4>3
    <3> QED
      BY <2>2, <3>1
  <2>3. CASE u \notin {t, v}
    <3>1. r[u] = q[u] /\ q[u] \in Seq(S)
      BY <1>4, <2>3
    <3> QED
      BY <2>3, <3>1
  <2> QED
    BY <2>1, <2>2, <2>3
<1>7. Distinct(r)
  <2> SUFFICES ASSUME NEW u \in Threads, NEW w \in Threads,
                      NEW i \in DOMAIN r[u], NEW k \in DOMAIN r[w], r[u][i] = r[w][k]
               PROVE  u = w /\ i = k
    BY DEF Distinct
  <2>1. Thread(u, i) = Thread(w, k) /\ Place(u, i) = Place(w, k)
    <3>1. /\ Thread(u, i) \in Threads /\ Place(u, i) \in DOMAIN q[Thread(u, i)]
          /\ q[Thread(u, i)][Place(u, i)] = r[u][i]
      BY <1>6
    <3>2. /\ Thread(w, k) \in Threads /\ Place(w, k) \in DOMAIN q[Thread(w, k)]
          /\ q[Thread(w, k)][Place(w, k)] = r[w][k]
      BY <1>6
    <3> HIDE DEF Thread, Place
    <3> QED
      BY <3>1, <3>2 DEF Distinct
  <2>2. i \in Nat /\ k \in Nat
    BY <1>6
  <2>3. CASE Thread(u, i) = v
    <3>1. u \in {t, v} /\ w \in {t, v}
      BY <2>1, <2>3
    <3>2. u = t <=> w = t
      <4>1. u = t <=> Place(u, i) <= n
        BY <1>6, <2>3
      <4>2. w = t <=> Place(w, k) <= n
        BY <1>6, <2>1, <2>3
      <4> HIDE DEF Place
      <4> QED
        BY <2>1, <4>1, <4>2
    <3> QED
      BY <1>1, <2>1, <2>2, <2>3, <3>1, <3>2
  <2>4. CASE Thread(u, i) # v
    BY <1>1, <2>1, <2>2, <2>4
  <2> QED
    BY <2>3, <2>4
<1>8. ASSUME NEW y PROVE On(r, y) <=> On(q, y)
  <2>1. On(r, y) => On(q, y)
    <3> HIDE DEF Thread, Place
    <3> QED
      BY <1>6 DEF On
  <2>2. ASSUME NEW u \in Threads, NEW i \in DOMAIN q[u], q[u][i] = y PROVE On(r, y)
    <3>1. CASE u = t
      <4>1. i \in DOMAIN r[t] /\ r[t][i] = y
        BY <1>1, <1>5, <2>2, <3>1
      <4> QED
        BY <4>1 DEF On
    <3>2. CASE u = v /\ i <= n
      <4>1. Len(q[t]) + i \in DOMAIN r[t] /\ r[t][Len(q[t]) + i] = y
        BY <1>1, <1>5, <2>2, <3>2
      <4> QED
        BY <4>1 DEF On
    <3>3. CASE u = v /\ ~(i <= n)
      <4>1. i - n \in 1..(Len(q[v]) - n) /\ (i - n) + n = i
        <5>1. i \in 1..Len(q[v]) /\ n \in Nat
          BY <1>1, <3>3
        <5>2. \A L \in Nat : \A a \in 1..L, b \in Nat :
                ~(a <= b) => a - b \in 1..(L - b) /\ (a - b) + b = a
          OBVIOUS
        <5> QED
          BY <1>1, <3>3, <5>1, <5>2
      <4>2. i - n \in DOMAIN r[v] /\ r[v][i - n] = y
        BY <1>1, <1>3, <1>4, <2>2, <3>3, <4>1
      <4> QED
        BY <4>2 DEF On
    <3>4. CASE u \notin {t, v}
      BY <1>4, <2>2, <3>4 DEF On
    <3> QED
      BY <3>1, <3>2, <3>3, <3>4
  <2> QED
    BY <2>1, <2>2 DEF On
<1> QED
  BY <1>4, <1>7, <1>8

-----------------------------------------------------------------------------
LEMMA FramesEmpty ==
  ASSUME NEW j \in Jobs
  PROVE  Frames(j) = {} <=> ~InFrame(j)
<1>1. ASSUME InFrame(j) PROVE Frames(j) # {}
  <2>1. PICK t \in Threads : \E i \in DOMAIN stack[t] : stack[t][i] = j
    BY <1>1 DEF InFrame, On
  <2>2. PICK i \in DOMAIN stack[t] : stack[t][i] = j
    BY <2>1
  <2>3. <<t, i>> \in Frames(j)
    BY <2>2 DEF Frames
  <2> QED
    BY <2>3
<1>2. ASSUME Frames(j) # {} PROVE InFrame(j)
  <2>1. PICK f : f \in Frames(j)
    BY <1>2
  <2>2. PICK t \in Threads : f \in {<<t, i>> : i \in {i \in DOMAIN stack[t] : stack[t][i] = j}}
    BY <2>1 DEF Frames
  <2> QED
    BY <2>2 DEF InFrame, On
<1> QED
  BY <1>1, <1>2

LEMMA RetiredMeans ==
  \A j \in Jobs : Retired(j) <=> phase[j] = "finished" /\ ~InFrame(j)
BY FramesEmpty DEF Retired

(***************************************************************************)
(* The parts of the invariant that depend on the phases of jobs, when a    *)
(* job that was handed in and has not finished changes its phase.          *)
(***************************************************************************)
LEMMA PhaseMoves ==
  ASSUME IInv, UNCHANGED <<pc, panicked, children>>,
         NEW j \in Jobs, phase[j] \in {"enqueued", "running"},
         NEW ph \in {"enqueued", "running", "finished"},
         phase' = [phase EXCEPT ![j] = ph],
         ph = "finished" => AtEnd(j)
  PROVE  /\ phase' \in [Jobs -> {"new", "enqueued", "running", "finished"}]
         /\ phase'[j] = ph /\ \A i \in Jobs \ {j} : phase'[i] = phase[i]
         /\ ProgramsOK' /\ ChildrenOK' /\ WaitsCovered'
<1>1. phase \in [Jobs -> {"new", "enqueued", "running", "finished"}]
  BY DEF IInv, Types
<1>2. /\ phase' \in [Jobs -> {"new", "enqueued", "running", "finished"}]
      /\ phase'[j] = ph /\ \A i \in Jobs \ {j} : phase'[i] = phase[i]
  BY <1>1
<1>3. \A i \in Jobs : phase'[i] = "new" <=> phase[i] = "new"
  BY <1>2
<1>4. \A i \in Jobs : phase[i] = "finished" => phase'[i] = "finished"
  BY <1>2
<1>5. ProgramsOK'
  <2>1. \A i \in Jobs : phase'[i] = "finished" => AtEnd(i)
    BY <1>2 DEF IInv, ProgramsOK
  <2> QED
    BY <1>3, <2>1 DEF IInv, ProgramsOK, AtEnd
<1>6. ChildrenOK'
  BY <1>3, <1>4 DEF IInv, ChildrenOK
<1>7. WaitsCovered'
  <2>1. \A c : AddsTo(c) \subseteq Jobs
    BY DEF AddsTo
  <2> QED
    BY <1>4, <2>1 DEF IInv, WaitsCovered
<1> QED
  BY <1>2, <1>5, <1>6, <1>7

LEMMA RetiredMeansNext ==
  \A j \in Jobs : Retired(j)' <=> phase'[j] = "finished" /\ ~InFrame(j)'
<1>1. (\A j \in Jobs : Retired(j) <=> phase[j] = "finished" /\ ~InFrame(j))'
  BY RetiredMeans, PTL
<1> QED
  BY <1>1

LEMMA CountersKept ==
  ASSUME IInv, UNCHANGED <<tasks_left, children>>, \A j \in Jobs : Retired(j)' <=> Retired(j)
  PROVE  CountersExact'
BY DEF IInv, CountersExact

(***************************************************************************)
(* A panic: the program was at an instruction that can panic, so at none   *)
(* that hands a job in.                                                    *)
(***************************************************************************)
LEMMA PanicKeeps ==
  ASSUME IInv, NEW t \in Threads, Panic(t)
  PROVE  IInv'
<1> DEFINE p == Top(t)
<1>1. /\ p \in Programs /\ pc[p] \in DOMAIN Program[p]
      /\ Program[p][pc[p]].op \in {"panic", "unwrap"}
  BY DoingFacts DEF Panic, Instruction
<1>2. panicked' = panicked \union {p}
  BY DEF Panic
<1> HIDE DEF p
<1>3. Types' /\ ModesOK'
  BY <1>1, <1>2 DEF IInv, Types, ModesOK, Panic
<1>4. QueuesOK' /\ StacksOK'
  BY DEF IInv, QueuesOK, StacksOK, InQueue, InWaitList, InFrame, On, Panic
<1>5. CountersExact'
  BY CountersKept DEF Panic, Retired, Frames
<1>6. ProgramsOK'
  BY <1>1, <1>2 DEF IInv, ProgramsOK, AtEnd, Panic
<1>7. ChildrenOK' /\ WaitsCovered'
  BY DEF IInv, ChildrenOK, WaitsCovered, Panic
<1>8. Runnable'
  BY DEF IInv, Runnable, InQueue, On, Panic
<1> QED
  BY <1>3, <1>4, <1>5, <1>6, <1>7, <1>8 DEF IInv

LEMMA TopFacts ==
  ASSUME IInv, NEW t \in Threads, Running(t)
  PROVE  /\ stack[t] # <<>> /\ Top(t) \in Programs
         /\ On(stack, Top(t))
         /\ Len(stack[t]) \in Nat \ {0}
<1>1. stack[t] \in Seq(Programs) /\ stack[t] # <<>>
  BY DEF IInv, Types, Running
<1>2. Len(stack[t]) \in Nat \ {0} /\ Len(stack[t]) \in DOMAIN stack[t]
  BY <1>1
<1> QED
  BY <1>1, <1>2 DEF Top, On

LEMMA FinishKeeps ==
  ASSUME IInv, NEW t \in Threads, Finish(t)
  PROVE  IInv'
<1> DEFINE j == Top(t)
<1>1. /\ j \in Jobs /\ phase[j] = "running" /\ AtEnd(j) /\ InFrame(j)
      /\ phase' = [phase EXCEPT ![j] = "finished"]
      /\ UNCHANGED <<panicked, tasks_left, children, pc, queue, wait_list, stack, mode, left,
                     fails, closing>>
  BY TopFacts DEF Finish, InFrame
<1> HIDE DEF j
<1>2. /\ phase' \in [Jobs -> {"new", "enqueued", "running", "finished"}]
      /\ phase'[j] = "finished" /\ \A i \in Jobs \ {j} : phase'[i] = phase[i]
      /\ ProgramsOK' /\ ChildrenOK' /\ WaitsCovered'
  BY <1>1, PhaseMoves
<1>3. Types' /\ ModesOK'
  BY <1>1, <1>2 DEF IInv, Types, ModesOK
<1>4. \A i : (InQueue(i)' <=> InQueue(i)) /\ (InWaitList(i)' <=> InWaitList(i))
             /\ (InFrame(i)' <=> InFrame(i))
  BY <1>1 DEF InQueue, InWaitList, InFrame, On
<1>5. QueuesOK'
  <2>1. ~InQueue(j) /\ ~InWaitList(j)
    BY <1>1 DEF IInv, QueuesOK, InWaitList
  <2>2. Distinct(queue)'
    BY <1>1 DEF IInv, QueuesOK, Distinct
  <2>3. \A u \in Threads : \A i \in wait_list[u] : i \in Jobs \ {j}
    BY <2>1 DEF IInv, Types, InWaitList
  <2> QED
    BY <1>1, <1>2, <1>4, <2>1, <2>2, <2>3 DEF IInv, QueuesOK
<1>6. StacksOK'
  <2>1. Distinct(stack)'
    BY <1>1 DEF IInv, StacksOK, Distinct
  <2> QED
    BY <1>1, <1>2, <1>4, <2>1 DEF IInv, StacksOK
<1>7. CountersExact'
  <2>1. \A i \in Jobs : Retired(i)' <=> Retired(i)
    BY <1>1, <1>2, <1>4, RetiredMeans, RetiredMeansNext
  <2> QED
    BY <1>1, <2>1, CountersKept
<1>8. Runnable'
  BY <1>1, <1>2, <1>4 DEF IInv, Runnable
<1> QED
  BY <1>2, <1>3, <1>5, <1>6, <1>7, <1>8 DEF IInv

-----------------------------------------------------------------------------
\* The places of jobs after a step.
LEMMA PlacesNext ==
  /\ \A j : InQueue(j)' <=> On(queue', j)
  /\ \A j : InFrame(j)' <=> On(stack', j)
  /\ Distinct(queue)' <=> Distinct(queue')
  /\ Distinct(stack)' <=> Distinct(stack')
BY DEF InQueue, InFrame, On, Distinct

LEMMA ModesAfter ==
  ASSUME IInv, NEW t \in Threads, NEW m \in {"run", "pop"}, mode' = [mode EXCEPT ![t] = m],
         UNCHANGED <<left, wait_list, fails, closing>>
  PROVE  ModesOK'
BY DEF IInv, ModesOK, Modes

(***************************************************************************)
(* A job decrements the counter of a child: it has finished and has no     *)
(* more business with it.                                                  *)
(***************************************************************************)
LEMMA ReleaseKeeps ==
  ASSUME IInv, NEW t \in Threads, NEW c \in Counters, Release(t, c)
  PROVE  IInv'
<1> DEFINE j == Top(t)
<1>1. /\ j \in Jobs /\ phase[j] = "finished" /\ c \in children[j]
      /\ tasks_left' = [tasks_left EXCEPT ![c] = @ - 1]
      /\ children' = [children EXCEPT ![j] = @ \ {c}]
      /\ UNCHANGED <<panicked, phase, pc, queue, wait_list, stack, mode, left, fails, closing>>
  BY DEF Release
<1> HIDE DEF j
<1>2. /\ children'[j] = children[j] \ {c}
      /\ \A i \in Jobs \ {j} : children'[i] = children[i]
      /\ tasks_left'[c] = tasks_left[c] - 1
      /\ \A d \in Counters \ {c} : tasks_left'[d] = tasks_left[d]
      /\ tasks_left' \in [Counters -> Int]
      /\ children' \in [Jobs -> SUBSET Counters]
  BY <1>1 DEF IInv, Types
<1>3. Types' /\ ModesOK'
  BY <1>1, <1>2 DEF IInv, Types, ModesOK
<1>4. QueuesOK' /\ StacksOK'
  BY <1>1 DEF IInv, QueuesOK, StacksOK, InQueue, InWaitList, InFrame, On, Distinct
<1>5. CountersExact'
  <2> SUFFICES ASSUME NEW d \in Counters
               PROVE  tasks_left'[d] = Cardinality({i \in Jobs : d \in children'[i]})
                                         + IF d \in Jobs /\ ~Retired(d)' THEN 1 ELSE 0
    BY DEF CountersExact
  <2> DEFINE W == {i \in Jobs : d \in children'[i]}
  <2>1. tasks_left[d] = Cardinality(Waiting(d)) + IF d \in Jobs /\ ~Retired(d) THEN 1 ELSE 0
    BY DEF IInv, CountersExact, Waiting
  <2>2. d \in Jobs => (Retired(d)' <=> Retired(d))
    BY <1>1 DEF Retired, Frames
  <2>3. CASE d = c
    <3>1. W = Waiting(d) \ {j} /\ j \in Waiting(d)
      BY <1>1, <1>2, <2>3 DEF Waiting
    <3>2. Cardinality(W) = Cardinality(Waiting(d)) - 1
      BY <3>1, WaitingFinite, FS_RemoveElement
    <3> QED
      BY <1>2, <2>1, <2>2, <2>3, <3>2, WaitingFinite
  <2>4. CASE d # c
    <3>1. W = Waiting(d)
      BY <1>1, <1>2, <2>4 DEF Waiting
    <3> QED
      BY <1>2, <2>1, <2>2, <2>4, <3>1
  <2> QED
    BY <2>3, <2>4
<1>6. ProgramsOK' /\ WaitsCovered'
  BY <1>1 DEF IInv, ProgramsOK, WaitsCovered, AtEnd
<1>7. ChildrenOK'
  <2>1. \A i \in Jobs : phase[i] = "finished" \/ children'[i] = children[i]
    BY <1>1, <1>2
  <2> QED
    BY <1>1, <2>1 DEF IInv, ChildrenOK
<1>8. Runnable'
  <2>1. \A i \in Jobs : children'[i] \subseteq children[i]
    BY <1>2
  <2> QED
    BY <1>1, <2>1 DEF IInv, Runnable, InQueue, On
<1> QED
  BY <1>3, <1>4, <1>5, <1>6, <1>7, <1>8 DEF IInv

(***************************************************************************)
(* The job leaves its thread and counts itself down.                       *)
(***************************************************************************)
LEMMA RetireKeeps ==
  ASSUME IInv, NEW t \in Threads, Retire(t)
  PROVE  IInv'
<1> DEFINE j == Top(t)
<1>1. /\ j \in Jobs /\ phase[j] = "finished" /\ Running(t)
      /\ tasks_left' = [tasks_left EXCEPT ![j] = @ - 1]
      /\ stack' = [stack EXCEPT ![t] = SubSeq(@, 1, Len(@) - 1)]
      /\ mode' = [mode EXCEPT ![t] = Resume(t)] /\ Resume(t) \in {"run", "pop"}
      /\ UNCHANGED <<panicked, children, phase, pc, queue, wait_list, left, fails, closing>>
  BY DEF Retire, Unstack, Resume
<1>2. /\ stack' \in [Threads -> Seq(Programs)] /\ Distinct(stack')
      /\ On(stack, j) /\ \A i : On(stack', i) <=> On(stack, i) /\ i # j
  <2>1. stack \in [Threads -> Seq(Programs)] /\ Distinct(stack) /\ stack[t] # <<>>
    BY <1>1 DEF IInv, Types, StacksOK, Running
  <2>2. j = stack[t][Len(stack[t])]
    BY DEF Top
  <2>3. stack' = Put(stack, t, SubSeq(stack[t], 1, Len(stack[t]) - 1))
    BY <1>1 DEF Put
  <2> HIDE DEF j
  <2> QED
    BY <2>1, <2>2, <2>3, LastTaken
<1> HIDE DEF j
<1>3. /\ tasks_left'[j] = tasks_left[j] - 1
      /\ \A d \in Counters \ {j} : tasks_left'[d] = tasks_left[d]
      /\ tasks_left' \in [Counters -> Int]
  BY <1>1, ProgramTypes DEF IInv, Types
<1>4. Types'
  BY <1>1, <1>2, <1>3 DEF IInv, Types
<1>5. ModesOK'
  BY <1>1, ModesAfter
<1>6. QueuesOK'
  BY <1>1 DEF IInv, QueuesOK, InQueue, InWaitList, On, Distinct
<1>7. StacksOK'
  BY <1>1, <1>2, PlacesNext DEF IInv, StacksOK, InFrame
<1>8. CountersExact'
  <2> SUFFICES ASSUME NEW d \in Counters
               PROVE  tasks_left'[d] = Cardinality({i \in Jobs : d \in children'[i]})
                                         + IF d \in Jobs /\ ~Retired(d)' THEN 1 ELSE 0
    BY DEF CountersExact
  <2>1. tasks_left[d] = Cardinality(Waiting(d)) + IF d \in Jobs /\ ~Retired(d) THEN 1 ELSE 0
    BY DEF IInv, CountersExact, Waiting
  <2>2. {i \in Jobs : d \in children'[i]} = Waiting(d) /\ Cardinality(Waiting(d)) \in Nat
    BY <1>1, WaitingFinite DEF Waiting
  <2>3. CASE d = j
    <3>1. ~Retired(d) /\ Retired(d)'
      BY <1>1, <1>2, <2>3, RetiredMeans, RetiredMeansNext, PlacesNext DEF InFrame
    <3>2. tasks_left[d] = Cardinality(Waiting(d)) + 1
      BY <1>1, <2>1, <2>3, <3>1
    <3>3. tasks_left'[d] = Cardinality(Waiting(d))
      BY <1>3, <2>2, <2>3, <3>2
    <3>4. (IF d \in Jobs /\ ~Retired(d)' THEN 1 ELSE 0) = 0
      BY <3>1
    <3>5. Cardinality({i \in Jobs : d \in children'[i]}) = Cardinality(Waiting(d))
      BY <2>2
    <3>6. Cardinality(Waiting(d)) + 0 = Cardinality(Waiting(d))
      BY <2>2
    <3> QED
      BY <3>3, <3>4, <3>5, <3>6
  <2>4. CASE d # j
    <3>1. d \in Jobs => (Retired(d)' <=> Retired(d))
      BY <1>1, <1>2, <2>4, RetiredMeans, RetiredMeansNext, PlacesNext DEF InFrame
    <3> QED
      BY <1>3, <2>1, <2>2, <2>4, <3>1
  <2> QED
    BY <2>3, <2>4
<1>9. ProgramsOK' /\ ChildrenOK' /\ WaitsCovered'
  BY <1>1 DEF IInv, ProgramsOK, ChildrenOK, WaitsCovered, AtEnd
<1>10. Runnable'
  BY <1>1 DEF IInv, Runnable, InQueue, On
<1> QED
  BY <1>4, <1>5, <1>6, <1>7, <1>8, <1>9, <1>10 DEF IInv

(***************************************************************************)
(* A thread takes a job from its own queue.                                *)
(***************************************************************************)
LEMMA PopJobKeeps ==
  ASSUME IInv, NEW t \in Threads, PopJob(t)
  PROVE  IInv'
<1> DEFINE j == Head(queue[t])
<1>1. /\ queue[t] # <<>>
      /\ queue' = [queue EXCEPT ![t] = Tail(@)]
      /\ phase' = [phase EXCEPT ![j] = "running"]
      /\ stack' = [stack EXCEPT ![t] = Append(@, j)]
      /\ mode' = [mode EXCEPT ![t] = "run"]
      /\ fails' = [fails EXCEPT ![t] = 0]
      /\ UNCHANGED <<panicked, tasks_left, children, pc, wait_list, left, closing>>
  BY DEF PopJob
<1>2. /\ queue' \in [Threads -> Seq(Jobs)] /\ Distinct(queue')
      /\ j \in Jobs /\ On(queue, j) /\ \A i : On(queue', i) <=> On(queue, i) /\ i # j
  <2>1. queue \in [Threads -> Seq(Jobs)] /\ Distinct(queue)
    BY DEF IInv, Types, QueuesOK
  <2>2. queue' = Put(queue, t, Tail(queue[t]))
    BY <1>1 DEF Put
  <2> QED
    BY <1>1, <2>1, <2>2, HeadTaken
<1> HIDE DEF j
<1>3. phase[j] = "enqueued" /\ ~InWaitList(j) /\ ~InFrame(j)
  BY <1>2 DEF IInv, QueuesOK, StacksOK, InQueue
<1>4. /\ stack' \in [Threads -> Seq(Programs)] /\ Distinct(stack')
      /\ \A i : On(stack', i) <=> On(stack, i) \/ i = j
  <2>1. stack \in [Threads -> Seq(Programs)] /\ Distinct(stack) /\ j \in Programs /\ ~On(stack, j)
    BY <1>2, <1>3 DEF IInv, Types, StacksOK, InFrame, Programs
  <2>2. stack' = Put(stack, t, Append(stack[t], j))
    BY <1>1 DEF Put
  <2> QED
    BY <2>1, <2>2, Appended
<1>5. /\ phase' \in [Jobs -> {"new", "enqueued", "running", "finished"}]
      /\ phase'[j] = "running" /\ \A i \in Jobs \ {j} : phase'[i] = phase[i]
      /\ ProgramsOK' /\ ChildrenOK' /\ WaitsCovered'
  BY <1>1, <1>2, <1>3, PhaseMoves
<1>6. Types'
  BY <1>1, <1>2, <1>4, <1>5 DEF IInv, Types
<1>7. ModesOK'
  BY <1>1, PoolAssumption DEF IInv, ModesOK, Modes
<1>8. \A i : InWaitList(i)' <=> InWaitList(i)
  BY <1>1 DEF InWaitList
<1>9. QueuesOK'
  <2>1. \A u \in Threads : \A i \in wait_list[u] : i \in Jobs \ {j}
    BY <1>3 DEF IInv, Types, InWaitList
  <2> QED
    <3>1. \A i : InQueue(i)' <=> InQueue(i) /\ i # j
      <4>1. \A i : InQueue(i) <=> On(queue, i)
        BY DEF InQueue
      <4> QED
        BY <1>2, <4>1, PlacesNext
    <3>2. \A i \in Jobs : InQueue(i)' => phase'[i] = "enqueued" /\ ~InWaitList(i)'
      BY <1>5, <1>8, <3>1 DEF IInv, QueuesOK
    <3>3. \A u, v \in Threads : \A i \in wait_list'[u] :
            phase'[i] = "enqueued" /\ (i \in wait_list'[v] => u = v)
      BY <1>1, <1>5, <2>1 DEF IInv, QueuesOK
    <3>4. \A i \in Jobs : phase'[i] = "enqueued" => InQueue(i)' \/ InWaitList(i)'
      BY <1>5, <1>8, <3>1 DEF IInv, QueuesOK
    <3>5. Distinct(queue)'
      BY <1>2, PlacesNext
    <3> QED
      BY <3>2, <3>3, <3>4, <3>5 DEF QueuesOK
<1>10. StacksOK'
  BY <1>4, <1>5, PlacesNext DEF IInv, StacksOK, InFrame
<1>11. CountersExact'
  <2>1. \A i \in Jobs : Retired(i)' <=> Retired(i)
    BY <1>3, <1>4, <1>5, RetiredMeans, RetiredMeansNext, PlacesNext DEF InFrame
  <2> QED
    BY <1>1, <2>1, CountersKept
<1>12. Runnable'
  BY <1>1, <1>2, <1>5, PlacesNext DEF IInv, Runnable, InQueue
<1> QED
  BY <1>5, <1>6, <1>7, <1>9, <1>10, <1>11, <1>12 DEF IInv

(***************************************************************************)
(* A future that is not ready goes back to the thread's queue.             *)
(***************************************************************************)
LEMMA AwaitPendingKeeps ==
  ASSUME IInv, NEW t \in Threads, AwaitPending(t)
  PROVE  IInv'
<1> DEFINE j == Top(t)
<1>1. /\ j \in Jobs /\ phase[j] = "running"
      /\ phase' = [phase EXCEPT ![j] = "enqueued"]
      /\ queue' = [queue EXCEPT ![t] = Append(@, j)]
      /\ stack' = [stack EXCEPT ![t] = SubSeq(@, 1, Len(@) - 1)]
      /\ mode' = [mode EXCEPT ![t] = Resume(t)] /\ Resume(t) \in {"run", "pop"}
      /\ UNCHANGED <<panicked, tasks_left, children, pc, wait_list, left, fails, closing>>
  BY DoingFacts DEF AwaitPending, Unstack, Resume
<1>2. /\ stack' \in [Threads -> Seq(Programs)] /\ Distinct(stack')
      /\ On(stack, j) /\ \A i : On(stack', i) <=> On(stack, i) /\ i # j
  <2>1. stack \in [Threads -> Seq(Programs)] /\ Distinct(stack) /\ stack[t] # <<>>
    BY DEF IInv, Types, StacksOK, AwaitPending, Doing, Running
  <2>2. j = stack[t][Len(stack[t])]
    BY DEF Top
  <2>3. stack' = Put(stack, t, SubSeq(stack[t], 1, Len(stack[t]) - 1))
    BY <1>1 DEF Put
  <2> HIDE DEF j
  <2> QED
    BY <2>1, <2>2, <2>3, LastTaken
<1> HIDE DEF j
<1>3. ~InQueue(j) /\ ~InWaitList(j)
  BY <1>1 DEF IInv, QueuesOK, InWaitList
<1>4. /\ queue' \in [Threads -> Seq(Jobs)] /\ Distinct(queue')
      /\ \A i : On(queue', i) <=> On(queue, i) \/ i = j
  <2>1. queue \in [Threads -> Seq(Jobs)] /\ Distinct(queue) /\ ~On(queue, j)
    BY <1>3 DEF IInv, Types, QueuesOK, InQueue
  <2>2. queue' = Put(queue, t, Append(queue[t], j))
    BY <1>1 DEF Put
  <2>3. j \in Jobs
    BY <1>1
  <2> QED
    BY <2>1, <2>2, <2>3, Appended
<1>5. /\ phase' \in [Jobs -> {"new", "enqueued", "running", "finished"}]
      /\ phase'[j] = "enqueued" /\ \A i \in Jobs \ {j} : phase'[i] = phase[i]
      /\ ProgramsOK' /\ ChildrenOK' /\ WaitsCovered'
  BY <1>1, PhaseMoves
<1>6. Types'
  BY <1>1, <1>2, <1>4, <1>5 DEF IInv, Types
<1>7. ModesOK'
  BY <1>1, ModesAfter
<1>8. \A i : InWaitList(i)' <=> InWaitList(i)
  BY <1>1 DEF InWaitList
<1>9. QueuesOK'
  <2>1. \A u \in Threads : \A i \in wait_list[u] : i \in Jobs \ {j}
    BY <1>3 DEF IInv, Types, InWaitList
  <2> QED
    BY <1>1, <1>3, <1>4, <1>5, <1>8, <2>1, PlacesNext DEF IInv, QueuesOK, InQueue
<1>10. StacksOK'
  BY <1>2, <1>5, PlacesNext DEF IInv, StacksOK, InFrame
<1>11. CountersExact'
  <2>1. \A i \in Jobs : Retired(i)' <=> Retired(i)
    BY <1>1, <1>2, <1>5, RetiredMeans, RetiredMeansNext, PlacesNext DEF InFrame
  <2> QED
    BY <1>1, <2>1, CountersKept
<1>12. Runnable'
  BY <1>1, <1>4, <1>5, PlacesNext DEF IInv, Runnable, InQueue
<1> QED
  BY <1>5, <1>6, <1>7, <1>9, <1>10, <1>11, <1>12 DEF IInv

(***************************************************************************)
(* A thread steals from the front of another one's queue.  It never visits *)
(* itself, so the jobs that move were not in its own queue.                *)
(***************************************************************************)
LEMMA StealBatchKeeps ==
  ASSUME IInv, NEW t \in Threads, NEW victim \in Threads, NEW n \in 1..Cardinality(Jobs),
         StealBatch(t, victim, n)
  PROVE  IInv'
<1>1. /\ mode[t] = "steal" /\ victim \in left[t]
      /\ n \in 1..((Len(queue[victim]) + 1) \div 2)
      /\ queue' = [queue EXCEPT ![t] = @ \o SubSeq(queue[victim], 1, n),
                                ![victim] = SubSeq(@, n + 1, Len(@))]
      /\ left' = [left EXCEPT ![t] = {}]
      /\ mode' = [mode EXCEPT ![t] = AfterTry(t)]
      /\ fails' = [fails EXCEPT ![t] = 0]
      /\ UNCHANGED <<panicked, tasks_left, children, phase, pc, wait_list, stack, closing>>
  BY DEF StealBatch
<1>2. t # victim
  BY <1>1 DEF IInv, ModesOK
<1>3. /\ queue' \in [Threads -> Seq(Jobs)] /\ Distinct(queue')
      /\ \A i : On(queue', i) <=> On(queue, i)
  <2>1. queue \in [Threads -> Seq(Jobs)] /\ Distinct(queue)
    BY DEF IInv, Types, QueuesOK
  <2>2. n \in 1..Len(queue[victim])
    <3>1. Len(queue[victim]) \in Nat
      BY <2>1
    <3>2. \A L \in Nat : \A m \in 1..((L + 1) \div 2) : m \in 1..L
      OBVIOUS
    <3> QED
      BY <1>1, <3>1, <3>2
  <2>3. queue' = Put(Put(queue, t, queue[t] \o SubSeq(queue[victim], 1, n)), victim,
                     SubSeq(queue[victim], n + 1, Len(queue[victim])))
    BY <1>1, <1>2 DEF Put
  <2> QED
    BY <1>2, <2>1, <2>2, <2>3, Moved
<1>4. Types'
  BY <1>1, <1>3 DEF IInv, Types
<1>5. ModesOK'
  <2>1. AfterTry(t) \in {"run", "pop"}
    BY DEF AfterTry
  <2> QED
    BY <1>1, <2>1, PoolAssumption DEF IInv, ModesOK, Modes
<1>6. QueuesOK'
  <2>1. \A i : InWaitList(i)' <=> InWaitList(i)
    BY <1>1 DEF InWaitList
  <2> QED
    BY <1>1, <1>3, <2>1, PlacesNext DEF IInv, QueuesOK, InQueue
<1>7. StacksOK'
  BY <1>1 DEF IInv, StacksOK, InFrame, On, Distinct
<1>8. CountersExact'
  BY <1>1, CountersKept DEF Retired, Frames
<1>9. ProgramsOK' /\ ChildrenOK' /\ WaitsCovered'
  BY <1>1 DEF IInv, ProgramsOK, ChildrenOK, WaitsCovered, AtEnd
<1>10. Runnable'
  BY <1>1, <1>3, PlacesNext DEF IInv, Runnable, InQueue
<1> QED
  BY <1>4, <1>5, <1>6, <1>7, <1>8, <1>9, <1>10 DEF IInv

(***************************************************************************)
(* A thread looks at a job of its wait list; when the job may run by now it*)
(* goes to the thread's queue.                                             *)
(***************************************************************************)
LEMMA PromoteKeeps ==
  ASSUME IInv, NEW t \in Threads, NEW j \in Jobs, Promote(t, j)
  PROVE  IInv'
<1>1. /\ mode[t] \in {"promote", "promoted"} /\ j \in left[t]
      /\ left' = [left EXCEPT ![t] = @ \ {j}]
      /\ UNCHANGED <<panicked, tasks_left, children, phase, pc, stack, fails, closing>>
  BY DEF Promote
<1>2. CASE ~Ready(j)
  <2>1. UNCHANGED <<wait_list, queue, mode>>
    BY <1>2 DEF Promote
  <2>2. ModesOK'
    BY <1>1, <2>1 DEF IInv, ModesOK
  <2> QED
    BY <1>1, <2>1, <2>2, QuietKeeps DEF jobVars
<1>3. CASE Ready(j)
  <2>1. /\ wait_list' = [wait_list EXCEPT ![t] = @ \ {j}]
        /\ queue' = [queue EXCEPT ![t] = Append(@, j)]
        /\ NotifyOne([mode EXCEPT ![t] = "promoted"])
    BY <1>3 DEF Promote
  <2>2. j \in wait_list[t] /\ phase[j] = "enqueued" /\ ~InQueue(j)
    <3>1. j \in wait_list[t]
      BY <1>1 DEF IInv, ModesOK
    <3>2. InWaitList(j)
      BY <3>1 DEF InWaitList
    <3> QED
      BY <3>1, <3>2 DEF IInv, QueuesOK
  <2>3. /\ queue' \in [Threads -> Seq(Jobs)] /\ Distinct(queue')
        /\ \A i : On(queue', i) <=> On(queue, i) \/ i = j
    <3>1. queue \in [Threads -> Seq(Jobs)] /\ Distinct(queue) /\ ~On(queue, j)
      BY <2>2 DEF IInv, Types, QueuesOK, InQueue
    <3>2. queue' = Put(queue, t, Append(queue[t], j))
      BY <2>1 DEF Put
    <3> QED
      BY <3>1, <3>2, Appended
  <2>4. /\ wait_list' \in [Threads -> SUBSET Jobs]
        /\ wait_list'[t] = wait_list[t] \ {j}
        /\ \A u \in Threads \ {t} : wait_list'[u] = wait_list[u]
    BY <2>1 DEF IInv, Types
  <2>5. \A i : InWaitList(i)' <=> InWaitList(i) /\ i # j
    <3>1. \A u \in Threads : j \in wait_list[u] => u = t
      BY <2>2 DEF IInv, QueuesOK
    <3> QED
      BY <2>4, <3>1 DEF InWaitList
  <2>6. Types'
    BY <1>1, <2>3, <2>4 DEF IInv, Types
  <2>7. ModesOK'
    <3>1. /\ mode' \in [Threads -> Modes]
          /\ \A u \in Threads : \/ mode'[u] \in {"pop", "exited"}
                                \/ u = t /\ mode'[u] = "promoted"
                                \/ u # t /\ mode'[u] = mode[u]
      <4> DEFINE m == [mode EXCEPT ![t] = "promoted"]
      <4>1. /\ m \in [Threads -> Modes] /\ m[t] = "promoted"
            /\ \A u \in Threads \ {t} : m[u] = mode[u]
        BY DEF IInv, ModesOK, Modes
      <4>2. NotifyOne(m)
        BY <2>1
      <4> HIDE DEF m
      <4>3. mode' = m \/ \E u \in Threads : mode' = [m EXCEPT ![u] = Woken]
        BY <4>2 DEF NotifyOne
      <4>4. Woken \in {"pop", "exited"} /\ {"pop", "exited"} \subseteq Modes
        BY DEF Woken, Modes
      <4> QED
        BY <4>1, <4>3, <4>4
    <3>2. left' \in [Threads -> SUBSET (Threads \union Jobs)] /\ left'[t] = left[t] \ {j}
          /\ \A u \in Threads \ {t} : left'[u] = left[u]
      BY <1>1 DEF IInv, ModesOK
    <3> QED
      BY <1>1, <2>4, <3>1, <3>2 DEF IInv, ModesOK
  <2>8. QueuesOK'
    <3>1. \A i : InQueue(i)' <=> InQueue(i) \/ i = j
      <4>1. \A i : InQueue(i) <=> On(queue, i)
        BY DEF InQueue
      <4> QED
        BY <2>3, <4>1, PlacesNext
    <3>2. \A i \in Jobs : InQueue(i)' => phase[i] = "enqueued" /\ ~InWaitList(i)'
      BY <2>2, <2>5, <3>1 DEF IInv, QueuesOK
    <3>3. \A u, v \in Threads : \A i \in wait_list'[u] :
            phase[i] = "enqueued" /\ (i \in wait_list'[v] => u = v)
      <4>1. \A u \in Threads : wait_list'[u] \subseteq wait_list[u]
        BY <2>4
      <4> QED
        BY <4>1 DEF IInv, QueuesOK
    <3>4. \A i \in Jobs : phase[i] = "enqueued" => InQueue(i)' \/ InWaitList(i)'
      BY <2>5, <3>1 DEF IInv, QueuesOK
    <3>5. Distinct(queue)'
      BY <2>3, PlacesNext
    <3> QED
      BY <1>1, <3>2, <3>3, <3>4, <3>5 DEF QueuesOK
  <2>9. StacksOK'
    BY <1>1 DEF IInv, StacksOK, InFrame, On, Distinct
  <2>10. CountersExact'
    BY <1>1, CountersKept DEF Retired, Frames
  <2>11. ProgramsOK' /\ ChildrenOK' /\ WaitsCovered'
    BY <1>1 DEF IInv, ProgramsOK, ChildrenOK, WaitsCovered, AtEnd
  <2>12. Runnable'
    <3>1. \A i \in Jobs : j \notin children[i]
      BY <1>3, ReadyMeans DEF Waiting
    <3> QED
      BY <1>1, <2>3, <3>1, PlacesNext DEF IInv, Runnable, InQueue
  <2> QED
    BY <2>6, <2>7, <2>8, <2>9, <2>10, <2>11, <2>12 DEF IInv
<1> QED
  BY <1>2, <1>3

(***************************************************************************)
(* A job is handed in, once: it was new.  Its child, if it adds one, was   *)
(* no child of it before, and is not a job that may run already.           *)
(***************************************************************************)
LEMMA EnqueueFacts ==
  ASSUME IInv, NEW t \in Threads, NEW p, p = Top(t), NEW k, k = pc[p],
         NEW j, j = Instruction(t).job, NEW child, child = Instruction(t).child,
         Doing(t, "enqueue")
  PROVE  /\ p \in Programs /\ p \notin panicked /\ k \in DOMAIN Program[p] /\ k \in Nat
         /\ k <= Len(Program[p])
         /\ j \in Jobs /\ child \in Counters \union {NoChild}
         /\ Program[p][k].op = "enqueue" /\ HandsIn(p, k, j)
         /\ Program[p][k] = [op |-> "enqueue", job |-> j, child |-> child]
         /\ phase[j] = "new" /\ ~InQueue(j) /\ ~InWaitList(j) /\ ~InFrame(j)
         /\ p \in Jobs => phase[p] = "running"
<1>1. /\ p \in Programs /\ p \notin panicked /\ k \in DOMAIN Program[p]
      /\ Program[p][k] \in Instructions /\ Program[p][k].op = "enqueue"
      /\ Instruction(t) = Program[p][k]
      /\ p \in Jobs => phase[p] = "running"
  BY DoingFacts DEF Instruction
<1>2. k \in Nat /\ k <= Len(Program[p])
  BY <1>1, ProgramTypes
<1>3. Program[p][k] \in [op : {"enqueue"}, job : Jobs, child : Counters \union {NoChild}]
  BY <1>1 DEF Instructions
<1>4. /\ j \in Jobs /\ child \in Counters \union {NoChild}
      /\ Program[p][k] = [op |-> "enqueue", job |-> j, child |-> child]
      /\ HandsIn(p, k, j)
  BY <1>1, <1>3 DEF HandsIn
<1>5. phase[j] = "new"
  BY <1>1, <1>2, <1>4 DEF IInv, ProgramsOK
<1>6. ~InQueue(j) /\ ~InWaitList(j) /\ ~InFrame(j)
  BY <1>4, <1>5 DEF IInv, QueuesOK, StacksOK, InWaitList
<1> QED
  BY <1>1, <1>2, <1>4, <1>5, <1>6

LEMMA EnqueueKeeps ==
  ASSUME IInv, NEW t \in Threads, Enqueue(t)
  PROVE  IInv'
<1>p. PICK p : p = Top(t)
  OBVIOUS
<1>k. PICK k : k = pc[p]
  OBVIOUS
<1>j. PICK j : j = Instruction(t).job
  OBVIOUS
<1>c. PICK child : child = Instruction(t).child
  OBVIOUS
<1>1. /\ p \in Programs /\ p \notin panicked /\ k \in DOMAIN Program[p] /\ k \in Nat
      /\ k <= Len(Program[p])
      /\ j \in Jobs /\ child \in Counters \union {NoChild}
      /\ Program[p][k].op = "enqueue" /\ HandsIn(p, k, j)
      /\ Program[p][k] = [op |-> "enqueue", job |-> j, child |-> child]
      /\ phase[j] = "new" /\ ~InQueue(j) /\ ~InWaitList(j) /\ ~InFrame(j)
      /\ p \in Jobs => phase[p] = "running"
  BY <1>p, <1>k, <1>j, <1>c, EnqueueFacts DEF Enqueue
<1>2. /\ tasks_left' = [c \in Counters |-> IF c = child THEN tasks_left[c] + 1 ELSE tasks_left[c]]
      /\ children' = [children EXCEPT ![j] = @ \union ({child} \ {NoChild})]
      /\ phase' = [phase EXCEPT ![j] = "enqueued"]
      /\ pc' = [pc EXCEPT ![p] = @ + 1]
      /\ UNCHANGED <<panicked, stack, left, fails, closing>>
  BY <1>p, <1>j, <1>c DEF Enqueue, Advance
<1>3. \/ /\ Ready(j)
         /\ queue' = [queue EXCEPT ![t] = Append(@, j)]
         /\ NotifyOne(mode)
         /\ UNCHANGED wait_list
      \/ /\ ~Ready(j)
         /\ wait_list' = [wait_list EXCEPT ![t] = @ \union {j}]
         /\ UNCHANGED <<queue, mode>>
  BY <1>j DEF Enqueue
<1>4. /\ pc' \in [Programs -> Nat \ {0}] /\ pc'[p] = k + 1
      /\ \A q \in Programs \ {p} : pc'[q] = pc[q]
      /\ phase' \in [Jobs -> {"new", "enqueued", "running", "finished"}]
      /\ phase'[j] = "enqueued" /\ \A i \in Jobs \ {j} : phase'[i] = phase[i]
      /\ children' \in [Jobs -> SUBSET Counters]
      /\ children'[j] = children[j] \union ({child} \ {NoChild})
      /\ \A i \in Jobs \ {j} : children'[i] = children[i]
  BY <1>1, <1>2, <1>k DEF IInv, Types
<1>5. /\ queue' \in [Threads -> Seq(Jobs)] /\ Distinct(queue')
      /\ \A i : On(queue', i) <=> \/ On(queue, i)
                                  \/ Ready(j) /\ i = j
  <2>1. queue \in [Threads -> Seq(Jobs)] /\ Distinct(queue) /\ ~On(queue, j) /\ j \in Jobs
    BY <1>1 DEF IInv, Types, QueuesOK, InQueue
  <2>2. CASE Ready(j)
    <3>1. queue' = Put(queue, t, Append(queue[t], j))
      BY <1>3, <2>2 DEF Put
    <3>2. /\ queue' \in [Threads -> Seq(Jobs)] /\ Distinct(queue')
          /\ \A i : On(queue', i) <=> On(queue, i) \/ i = j
      BY <2>1, <3>1, Appended
    <3> QED
      BY <2>2, <3>2
  <2>3. CASE ~Ready(j)
    <3>1. queue' = queue
      BY <1>3, <2>3
    <3> QED
      BY <2>1, <2>3, <3>1
  <2> QED
    BY <2>2, <2>3
<1>6. /\ wait_list' \in [Threads -> SUBSET Jobs]
      /\ wait_list'[t] = wait_list[t] \union (IF Ready(j) THEN {} ELSE {j})
      /\ \A u \in Threads \ {t} : wait_list'[u] = wait_list[u]
  <2>1. wait_list \in [Threads -> SUBSET Jobs]
    BY DEF IInv, Types
  <2>2. CASE Ready(j)
    BY <1>3, <2>1, <2>2
  <2>3. CASE ~Ready(j)
    BY <1>1, <1>3, <2>1, <2>3
  <2> QED
    BY <2>2, <2>3
<1>7. \A i : InWaitList(i)' <=> \/ InWaitList(i)
                                \/ ~Ready(j) /\ i = j
  BY <1>6 DEF InWaitList
<1>8. \A i : InFrame(i)' <=> InFrame(i)
  BY <1>2 DEF InFrame, On
<1>9. Types'
  <2>1. tasks_left' \in [Counters -> Int]
    BY <1>2 DEF IInv, Types
  <2>2. \A q \in Programs : pc'[q] <= Len(Program[q]) + 1
    <3> SUFFICES ASSUME NEW q \in Programs PROVE pc'[q] <= Len(Program[q]) + 1
      OBVIOUS
    <3>1. CASE q = p
      BY <1>1, <1>4, <3>1, ProgramTypes
    <3>2. CASE q # p
      BY <1>4, <3>2 DEF IInv, Types
    <3> QED
      BY <3>1, <3>2
  <2> QED
    BY <1>2, <1>4, <1>5, <1>6, <2>1, <2>2 DEF IInv, Types
<1>10. ModesOK'
  <2>1. /\ mode' \in [Threads -> Modes]
        /\ \A u \in Threads : mode'[u] \in {"pop", "exited"} \/ mode'[u] = mode[u]
    BY <1>3 DEF IInv, ModesOK, Modes, NotifyOne, Woken
  <2>2. \A u \in Threads : wait_list[u] \subseteq wait_list'[u]
    BY <1>6
  <2> QED
    BY <1>2, <2>1, <2>2 DEF IInv, ModesOK
<1>11. QueuesOK'
  <2>1. \A u, v \in Threads : \A i \in wait_list'[u] :
          phase'[i] = "enqueued" /\ (i \in wait_list'[v] => u = v)
    <3>1. \A u \in Threads : j \notin wait_list[u] /\ wait_list[u] \subseteq Jobs
      BY <1>1 DEF InWaitList, IInv, Types
    <3> QED
      BY <1>4, <1>6, <3>1 DEF IInv, QueuesOK
  <2> QED
    <3>1. \A i \in Jobs : InQueue(i)' <=> \/ InQueue(i)
                                          \/ Ready(j) /\ i = j
      <4>1. \A i : InQueue(i) <=> On(queue, i)
        BY DEF InQueue
      <4> QED
        BY <1>5, <4>1, PlacesNext
    <3>2. \A i \in Jobs : InQueue(i)' => phase'[i] = "enqueued" /\ ~InWaitList(i)'
      BY <1>1, <1>4, <1>7, <3>1 DEF IInv, QueuesOK
    <3>3. \A i \in Jobs : phase'[i] = "enqueued" => InQueue(i)' \/ InWaitList(i)'
      <4> SUFFICES ASSUME NEW i \in Jobs, phase'[i] = "enqueued" PROVE InQueue(i)' \/ InWaitList(i)'
        OBVIOUS
      <4>1. CASE i = j
        BY <1>7, <3>1, <4>1
      <4>2. CASE i # j
        <5>1. InQueue(i) \/ InWaitList(i)
          BY <1>4, <4>2 DEF IInv, QueuesOK
        <5> QED
          BY <1>7, <3>1, <5>1
      <4> QED
        BY <4>1, <4>2
    <3>4. Distinct(queue)'
      BY <1>5, PlacesNext
    <3> QED
      BY <2>1, <3>2, <3>3, <3>4 DEF QueuesOK
<1>12. StacksOK'
  <2>1. Distinct(stack)'
    BY <1>2 DEF IInv, StacksOK, Distinct
  <2> QED
    BY <1>1, <1>4, <1>8, <2>1 DEF IInv, StacksOK
\* The child is new to the job.
<1>13. child \in Counters => child \notin children[j] /\ Adds(p, k, j, child)
  <2> SUFFICES ASSUME child \in Counters PROVE child \notin children[j] /\ Adds(p, k, j, child)
    OBVIOUS
  <2>1. Adds(p, k, j, child)
    BY <1>1 DEF Adds
  <2>2. <<j, child>> \notin Edges
    BY <1>1, <2>1, ChildNoEdge, ProgramTypes
  <2> QED
    BY <1>1, <2>1, <2>2 DEF IInv, ChildrenOK
<1>14. CountersExact'
  <2> SUFFICES ASSUME NEW d \in Counters
               PROVE  tasks_left'[d] = Cardinality({i \in Jobs : d \in children'[i]})
                                         + IF d \in Jobs /\ ~Retired(d)' THEN 1 ELSE 0
    BY DEF CountersExact
  <2> DEFINE W == {i \in Jobs : d \in children'[i]}
  <2>1. tasks_left[d] = Cardinality(Waiting(d)) + IF d \in Jobs /\ ~Retired(d) THEN 1 ELSE 0
    BY DEF IInv, CountersExact, Waiting
  <2>2. d \in Jobs => (Retired(d)' <=> Retired(d))
    BY <1>1, <1>4, <1>8, RetiredMeans, RetiredMeansNext
  <2>3. CASE d = child
    <3>1. W = Waiting(d) \union {j} /\ j \notin Waiting(d)
      BY <1>1, <1>4, <1>13, <2>3, ProgramTypes DEF Waiting
    <3>2. Cardinality(W) = Cardinality(Waiting(d)) + 1
      <4>1. IsFiniteSet(Waiting(d))
        BY WaitingFinite
      <4> HIDE DEF W
      <4> QED
        BY <3>1, <4>1, FS_AddElement
    <3>3. tasks_left'[d] = tasks_left[d] + 1
      BY <1>2, <2>3
    <3> HIDE DEF W
    <3>4. tasks_left'[d] = Cardinality(W) + IF d \in Jobs /\ ~Retired(d)' THEN 1 ELSE 0
      BY <2>1, <2>2, <3>2, <3>3, WaitingFinite
    <3> QED
      BY <3>4 DEF W
  <2>4. CASE d # child
    <3>1. W = Waiting(d)
      BY <1>1, <1>4, <2>4 DEF Waiting
    <3>2. tasks_left'[d] = tasks_left[d]
      BY <1>2, <2>4
    <3> QED
      BY <2>1, <2>2, <3>1, <3>2
  <2> QED
    BY <2>3, <2>4
<1>15. \A q \in Programs : \A m \in DOMAIN Program[q] :
         m < pc'[q] <=> m < pc[q] \/ (q = p /\ m = k)
  <2>1. \A q \in Programs : pc[q] \in Nat /\ \A m \in DOMAIN Program[q] : m \in Nat
    BY ProgramTypes DEF IInv, Types
  <2> QED
    BY <1>1, <1>4, <1>k, <2>1
<1>16. ProgramsOK'
  <2>1. \A q \in Programs : \A m \in DOMAIN Program[q], i \in Jobs :
          HandsIn(q, m, i) => (m < pc'[q] <=> phase'[i] # "new")
    <3> SUFFICES ASSUME NEW q \in Programs, NEW m \in DOMAIN Program[q], NEW i \in Jobs,
                        HandsIn(q, m, i)
                 PROVE  m < pc'[q] <=> phase'[i] # "new"
      OBVIOUS
    <3>1. m < pc[q] <=> phase[i] # "new"
      BY DEF IInv, ProgramsOK
    <3>2. i = j => q = p /\ m = k
      BY <1>1, PoolAssumption, ProgramTypes
    <3>3. q = p /\ m = k => i = j
      BY <1>1 DEF HandsIn
    <3> QED
      BY <1>4, <1>15, <3>1, <3>2, <3>3
  <2>2. \A i \in Jobs : phase'[i] # "new" =>
          \E q \in Programs : \E m \in DOMAIN Program[q] : HandsIn(q, m, i)
    BY <1>1, <1>4 DEF IInv, ProgramsOK
  <2>3. \A i \in Jobs : phase'[i] = "finished" => AtEnd(i)'
    <3>1. \A i \in Jobs : phase'[i] = "finished" => i # p /\ phase[i] = "finished"
      BY <1>1, <1>4
    <3> QED
      BY <1>2, <1>4, <3>1, ProgramTypes DEF IInv, ProgramsOK, AtEnd
  <2>4. \A q \in panicked : pc'[q] = pc[q]
    BY <1>1, <1>4 DEF IInv, Types
  <2> QED
    BY <1>2, <2>1, <2>2, <2>3, <2>4 DEF IInv, ProgramsOK, HandsIn
<1>17. ChildrenOK'
  <2> SUFFICES ASSUME NEW i \in Jobs
               PROVE  /\ phase'[i] = "new" => \A c \in children'[i] : <<i, c>> \in Edges
                      /\ \A c \in Counters : <<i, c>> \in Edges => c \in children'[i] \/ phase'[i] = "finished"
                      /\ \A q \in Programs : \A m \in DOMAIN Program[q], c \in Counters :
                           Adds(q, m, i, c) /\ m < pc'[q] => c \in children'[i] \/ phase'[i] = "finished"
    BY DEF ChildrenOK, Adds
  <2>1. children[i] \subseteq children'[i] /\ (phase[i] = "finished" => phase'[i] = "finished")
    BY <1>1, <1>4
  <2>2. phase'[i] = "new" => phase[i] = "new" /\ children'[i] = children[i]
    BY <1>4
  <2>3. ASSUME NEW c \in Counters, Adds(p, k, i, c) PROVE c \in children'[i]
    <3>1. i = j /\ c = child
      BY <1>1, <2>3 DEF Adds
    <3> QED
      BY <1>4, <2>3, <3>1, ProgramTypes
  <2> QED
    BY <1>15, <2>1, <2>2, <2>3 DEF IInv, ChildrenOK
\* A job that was handed in is not the child of one that is handed in later.
<1>18. Runnable'
  <2> SUFFICES ASSUME NEW i \in Jobs, InQueue(i)' \/ phase'[i] = "running", NEW h \in Jobs
               PROVE  i \notin children'[h]
    BY DEF Runnable
  <2>1. i \notin children[h]
    <3>1. CASE InQueue(i) \/ phase[i] = "running"
      BY <3>1 DEF IInv, Runnable
    <3>2. CASE ~(InQueue(i) \/ phase[i] = "running")
      <4>1. i = j /\ Ready(j)
        BY <1>4, <1>5, <3>2, PlacesNext DEF InQueue
      <4> QED
        BY <4>1, ReadyMeans DEF Waiting
    <3> QED
      BY <3>1, <3>2
  <2>2. i # child
    <3> SUFFICES ASSUME i = child PROVE FALSE
      OBVIOUS
    <3>1. Adds(p, k, j, i)
      BY <1>13, ProgramTypes
    <3>2. phase'[i] # "new"
      <4>1. InQueue(i) => phase[i] = "enqueued"
        BY DEF IInv, QueuesOK
      <4>2. InQueue(i)' => InQueue(i) \/ i = j
        BY <1>5, PlacesNext DEF InQueue
      <4> QED
        BY <1>4, <4>1, <4>2
    <3>3. PICK q \in Programs : \E m \in DOMAIN Program[q] : HandsIn(q, m, i)
      BY <1>16, <3>2 DEF ProgramsOK, HandsIn
    <3>4. PICK m \in DOMAIN Program[q] : HandsIn(q, m, i)
      BY <3>3
    <3>5. m < pc'[q]
      BY <1>16, <3>2, <3>4 DEF ProgramsOK, HandsIn
    <3>6. q = p /\ k < m
      BY <1>1, <3>1, <3>4, AddedBeforeHandedIn, ProgramTypes
    <3> QED
      BY <1>1, <1>4, <3>5, <3>6, ProgramTypes
  <2> QED
    BY <1>4, <2>1, <2>2
<1>19. WaitsCovered'
  <2>1. \A i \in Jobs : phase[i] = "finished" => phase'[i] = "finished"
    BY <1>1, <1>4
  <2>2. \A c : AddsTo(c) \subseteq Jobs
    BY DEF AddsTo
  <2>3. \A q \in Programs : \A m \in DOMAIN Program[q] :
          m < pc'[q] /\ Program[q][m].op \in {"wait", "await"} => m < pc[q]
    BY <1>1, <1>15
  <2> QED
    BY <2>1, <2>2, <2>3, ProgramTypes DEF IInv, WaitsCovered
<1> QED
  BY <1>9, <1>10, <1>11, <1>12, <1>14, <1>16, <1>17, <1>18, <1>19 DEF IInv

-----------------------------------------------------------------------------
LEMMA InitHolds == Init => IInv
<1> SUFFICES ASSUME Init PROVE IInv
  OBVIOUS
<1>1. /\ Main \in Threads /\ Main \in Programs
      /\ stack \in [Threads -> Seq(Programs)]
      /\ stack[Main] = <<Main>> /\ \A t \in Threads \ {Main} : stack[t] = <<>>
  <2>1. Main \in Threads /\ Main \in Programs
    BY DEF Threads, Programs
  <2>2. stack = [t \in Threads |-> IF t = Main THEN <<Main>> ELSE <<>>]
    BY DEF Init
  <2>3. <<Main>> \in Seq(Programs) /\ <<>> \in Seq(Programs)
    BY <2>1
  <2> QED
    BY <2>1, <2>2, <2>3
<1>2. \A x : ~InQueue(x) /\ ~InWaitList(x) /\ (InFrame(x) <=> x = Main)
  <2>1. \A x : ~InQueue(x) /\ ~InWaitList(x)
    BY DEF Init, InQueue, InWaitList, On
  <2>2. \A t \in Threads : \A i \in DOMAIN stack[t] : t = Main /\ i = 1 /\ stack[t][i] = Main
    BY <1>1
  <2>3. 1 \in DOMAIN stack[Main] /\ stack[Main][1] = Main
    BY <1>1
  <2> QED
    BY <1>1, <2>1, <2>2, <2>3 DEF InFrame, On
<1>3. Types
  <2>1. tasks_left \in [Counters -> Int]
    <3> SUFFICES ASSUME NEW c \in Jobs PROVE Cardinality({i \in Jobs : <<i, c>> \in Edges}) \in Nat
      BY DEF Init
    <3>1. IsFiniteSet({i \in Jobs : <<i, c>> \in Edges})
      BY PoolAssumption, FS_Subset
    <3> QED
      BY <3>1, FS_CardinalityType
  <2>2. children \in [Jobs -> SUBSET Counters]
    BY ProgramTypes DEF Init
  <2>3. pc \in [Programs -> Nat \ {0}] /\ \A p \in Programs : pc[p] <= Len(Program[p]) + 1
    BY ProgramTypes DEF Init, Programs
  <2> QED
    BY <1>1, <2>1, <2>2, <2>3 DEF Init, Types
<1>4. ModesOK
  <2>1. mode \in [Threads -> Modes] /\ \A t \in Threads : mode[t] \in {"run", "pop"}
    BY DEF Init, Modes
  <2>2. left \in [Threads -> SUBSET (Threads \union Jobs)] /\ closing \in BOOLEAN
    BY DEF Init
  <2>3. fails \in [Threads -> 0..(MaxFails - 1)]
    BY PoolAssumption DEF Init
  <2> QED
    BY <2>1, <2>2, <2>3 DEF ModesOK
<1>5. QueuesOK
  BY <1>2 DEF Init, QueuesOK, Distinct
<1>6. StacksOK
  <2>1. Distinct(stack)
    <3>1. \A t \in Threads : \A i \in DOMAIN stack[t] : t = Main /\ i = 1
      BY <1>1
    <3> QED
      BY <3>1 DEF Distinct
  <2> QED
    BY <1>2, <2>1, ProgramTypes DEF Init, StacksOK
<1>7. CountersExact
  <2> SUFFICES ASSUME NEW c \in Counters
               PROVE  tasks_left[c] = Cardinality({j \in Jobs : c \in children[j]})
                                        + IF c \in Jobs /\ ~Retired(c) THEN 1 ELSE 0
    BY DEF CountersExact
  <2>1. CASE c \in Jobs
    <3>1. {j \in Jobs : c \in children[j]} = {i \in Jobs : <<i, c>> \in Edges}
      BY <2>1 DEF Init
    <3>2. ~Retired(c)
      BY <2>1 DEF Init, Retired
    <3>3. tasks_left[c] = 1 + Cardinality({i \in Jobs : <<i, c>> \in Edges})
      BY <2>1 DEF Init
    <3>4. Cardinality({i \in Jobs : <<i, c>> \in Edges}) \in Nat
      BY PoolAssumption, FS_Subset, FS_CardinalityType
    <3>5. tasks_left[c] = Cardinality({i \in Jobs : <<i, c>> \in Edges}) + 1
      BY <3>3, <3>4
    <3> QED
      BY <2>1, <3>1, <3>2, <3>5
  <2>2. CASE c \notin Jobs
    <3>1. {j \in Jobs : c \in children[j]} = {}
      BY <2>2 DEF Init
    <3>2. Cardinality({j \in Jobs : c \in children[j]}) = 0
      BY <3>1, FS_EmptySet
    <3>3. tasks_left[c] = 0
      BY <2>2 DEF Init
    <3> QED
      BY <2>2, <3>2, <3>3
  <2> QED
    BY <2>1, <2>2
<1>8. \A p \in Programs : \A k \in DOMAIN Program[p] : ~(k < pc[p])
  BY ProgramTypes DEF Init, Programs
<1>9. ProgramsOK
  BY <1>8 DEF Init, ProgramsOK
<1>10. ChildrenOK
  <2>1. \A j \in Jobs, c \in Counters : <<j, c>> \in Edges => c \in children[j]
    BY PoolAssumption DEF Init
  <2>2. \A j \in Jobs : \A c \in children[j] : <<j, c>> \in Edges
    BY DEF Init
  <2> QED
    BY <1>8, <2>1, <2>2 DEF ChildrenOK
<1>11. Runnable
  BY <1>2 DEF Init, Runnable
<1>12. WaitsCovered
  BY <1>8, ProgramTypes DEF WaitsCovered
<1> QED
  BY <1>3, <1>4, <1>5, <1>6, <1>7, <1>9, <1>10, <1>11, <1>12 DEF IInv

LEMMA StepKeeps == IInv /\ [Next]_vars => IInv'
<1> SUFFICES ASSUME IInv, [Next]_vars PROVE IInv'
  OBVIOUS
<1>1. Main \in Threads
  BY DEF Threads
<1>2. CASE UNCHANGED vars
  BY <1>2, QuietKeeps DEF vars, jobVars, IInv, ModesOK
<1>3. CASE Close \/ Join \/ Idle
  BY <1>1, <1>3, QuietSteps, AdvanceSteps
<1>4. ASSUME NEW t \in Threads, Step(t) PROVE IInv'
  <2>1. CASE WaitHelp(t) \/ PopNothing(t) \/ StealFailed(t) \/ TrySucceeds(t) \/ TryFails(t)
               \/ Timeout(t) \/ \E victim \in Threads : StealNothing(t, victim)
    BY <2>1, QuietSteps
  <2>2. CASE WaitDone(t) \/ AwaitReady(t) \/ Unwrap(t)
    BY <2>2, AdvanceSteps
  <2>3. CASE Enqueue(t)
    BY <2>3, EnqueueKeeps
  <2>4. CASE AwaitPending(t)
    BY <2>4, AwaitPendingKeeps
  <2>5. CASE Panic(t)
    BY <2>5, PanicKeeps
  <2>6. CASE Finish(t)
    BY <2>6, FinishKeeps
  <2>7. CASE \E c \in Counters : Release(t, c)
    BY <2>7, ReleaseKeeps
  <2>8. CASE Retire(t)
    BY <2>8, RetireKeeps
  <2>9. CASE PopJob(t)
    BY <2>9, PopJobKeeps
  <2>10. CASE \E victim \in Threads, n \in 1..Cardinality(Jobs) : StealBatch(t, victim, n)
    BY <2>10, StealBatchKeeps
  <2>11. CASE \E job \in Jobs : Promote(t, job)
    BY <2>11, PromoteKeeps
  <2> QED
    BY <1>4, <2>1, <2>2, <2>3, <2>4, <2>5, <2>6, <2>7, <2>8, <2>9, <2>10, <2>11 DEF Step
<1> QED
  BY <1>2, <1>3, <1>4 DEF Next

LEMMA Invariance == Spec => []IInv
BY InitHolds, StepKeeps, PTL DEF Spec

-----------------------------------------------------------------------------
(***************************************************************************)
(* Types, for any number of threads and jobs; a counter never goes below   *)
(* zero or above the number of jobs and one.                               *)
(***************************************************************************)
THEOREM TypeCorrect == Spec => []TypeOK
<1>1. IInv => TypeOK
  <2> SUFFICES ASSUME IInv PROVE TypeOK
    OBVIOUS
  <2>1. tasks_left \in [Counters -> 0..(Cardinality(Jobs) + 1)]
    <3> SUFFICES ASSUME NEW c \in Counters PROVE tasks_left[c] \in 0..(Cardinality(Jobs) + 1)
      BY DEF IInv, Types
    <3>1. tasks_left[c] = Cardinality(Waiting(c)) + IF c \in Jobs /\ ~Retired(c) THEN 1 ELSE 0
      BY DEF IInv, CountersExact, Waiting
    <3> QED
      BY <3>1, WaitingFinite
  <2>2. \A p \in Jobs \union {Main} : pc[p] \in 1..(Len(Program[p]) + 1)
    BY ProgramTypes DEF IInv, Types, Programs
  <2> QED
    BY <2>1, <2>2 DEF IInv, Types, ModesOK, TypeOK, Programs
<1> QED
  BY <1>1, Invariance, PTL

LEMMA SingletonOne == \A x : Cardinality({x}) = 1
BY FS_Singleton

LEMMA PlacesCount ==
  ASSUME IInv, NEW j \in Jobs
  PROVE  Cardinality(Places(j)) = IF phase[j] = "enqueued" THEN 1 ELSE 0
<1> DEFINE inQueues == UNION {{<<"queue", t, i>> : i \in {i \in DOMAIN queue[t] : queue[t][i] = j}} : t \in Threads}
           inLists == {<<"wait_list", t, 0>> : t \in {t \in Threads : j \in wait_list[t]}}
<1>1. Places(j) = inQueues \union inLists
  BY DEF Places
<1>2. ASSUME ~InQueue(j) PROVE inQueues = {}
  <2>1. \A t \in Threads : {i \in DOMAIN queue[t] : queue[t][i] = j} = {}
    BY <1>2 DEF InQueue, On
  <2>2. \A x \in inQueues : FALSE
    <3> SUFFICES ASSUME NEW x \in inQueues PROVE FALSE
      OBVIOUS
    <3>1. PICK t \in Threads : x \in {<<"queue", t, i>> : i \in {i \in DOMAIN queue[t] : queue[t][i] = j}}
      OBVIOUS
    <3> QED
      BY <2>1, <3>1
  <2> QED
    BY <2>2
<1>3. ASSUME ~InWaitList(j) PROVE inLists = {}
  BY <1>3 DEF InWaitList
<1>4. CASE InQueue(j)
  <2>1. PICK t \in Threads : \E i \in DOMAIN queue[t] : queue[t][i] = j
    BY <1>4 DEF InQueue, On
  <2>2. PICK i \in DOMAIN queue[t] : queue[t][i] = j
    BY <2>1
  <2>3. \A u \in Threads : \A k \in DOMAIN queue[u] : queue[u][k] = j => u = t /\ k = i
    BY <2>2 DEF IInv, QueuesOK, Distinct
  <2>4. inQueues = {<<"queue", t, i>>}
    <3>1. <<"queue", t, i>> \in inQueues
      BY <2>2
    <3>2. ASSUME NEW x \in inQueues PROVE x = <<"queue", t, i>>
      <4>1. PICK u \in Threads : x \in {<<"queue", u, k>> : k \in {k \in DOMAIN queue[u] : queue[u][k] = j}}
        OBVIOUS
      <4>2. PICK k \in DOMAIN queue[u] : queue[u][k] = j /\ x = <<"queue", u, k>>
        BY <4>1
      <4> QED
        BY <2>3, <4>2
    <3> HIDE DEF inQueues
    <3> QED
      BY <3>1, <3>2
  <2>5. phase[j] = "enqueued" /\ ~InWaitList(j)
    BY <1>4 DEF IInv, QueuesOK
  <2> HIDE DEF inQueues, inLists
  <2> QED
    <3>1. Places(j) = {<<"queue", t, i>>}
      BY <1>1, <1>3, <2>4, <2>5
    <3> QED
      BY <2>5, <3>1, SingletonOne
<1>5. CASE InWaitList(j)
  <2>1. PICK t \in Threads : j \in wait_list[t]
    BY <1>5 DEF InWaitList
  <2>2. phase[j] = "enqueued" /\ \A u \in Threads : j \in wait_list[u] => u = t
    BY <2>1 DEF IInv, QueuesOK
  <2>3. ~InQueue(j)
    BY <1>5 DEF IInv, QueuesOK
  <2>4. inLists = {<<"wait_list", t, 0>>}
    BY <2>1, <2>2
  <2> HIDE DEF inQueues, inLists
  <2> QED
    <3>1. Places(j) = {<<"wait_list", t, 0>>}
      BY <1>1, <1>2, <2>3, <2>4
    <3> QED
      BY <2>2, <3>1, SingletonOne
<1>6. CASE ~InQueue(j) /\ ~InWaitList(j)
  <2>1. phase[j] # "enqueued"
    BY <1>6 DEF IInv, QueuesOK
  <2> HIDE DEF inQueues, inLists
  <2> QED
    BY <1>1, <1>2, <1>3, <1>6, <2>1, FS_EmptySet
<1> QED
  BY <1>4, <1>5, <1>6

LEMMA FramesCount ==
  ASSUME IInv, NEW j \in Jobs, InFrame(j)
  PROVE  Cardinality(Frames(j)) = 1
<1>1. PICK t \in Threads : \E i \in DOMAIN stack[t] : stack[t][i] = j
  BY DEF InFrame, On
<1>2. PICK i \in DOMAIN stack[t] : stack[t][i] = j
  BY <1>1
<1>3. \A u \in Threads : \A k \in DOMAIN stack[u] : stack[u][k] = j => u = t /\ k = i
  BY <1>2 DEF IInv, StacksOK, Distinct
<1>4. Frames(j) = {<<t, i>>}
  <2>1. <<t, i>> \in Frames(j)
    BY <1>2 DEF Frames
  <2>2. ASSUME NEW x \in Frames(j) PROVE x = <<t, i>>
    <3>1. PICK u \in Threads : x \in {<<u, k>> : k \in {k \in DOMAIN stack[u] : stack[u][k] = j}}
      BY DEF Frames
    <3>2. PICK k \in DOMAIN stack[u] : stack[u][k] = j /\ x = <<u, k>>
      BY <3>1
    <3> QED
      BY <1>3, <3>2
  <2> QED
    BY <2>1, <2>2
<1> QED
  BY <1>4, FS_Singleton

(***************************************************************************)
(* Thieves, owners and promotions never lose or double a job: an enqueued  *)
(* one is in one queue or one wait list, a running one on one stack.       *)
(***************************************************************************)
THEOREM JobsInOnePlace == Spec => []OnePlace
<1>1. IInv => OnePlace
  <2> SUFFICES ASSUME IInv, NEW j \in Jobs
               PROVE  /\ Cardinality(Places(j)) = IF phase[j] = "enqueued" THEN 1 ELSE 0
                      /\ phase[j] = "running" => Cardinality(Frames(j)) = 1
                      /\ phase[j] \in {"new", "enqueued"} => Frames(j) = {}
    BY DEF OnePlace
  <2>1. phase[j] = "running" => InFrame(j)
    BY DEF IInv, StacksOK
  <2>2. phase[j] \in {"new", "enqueued"} => ~InFrame(j)
    BY DEF IInv, StacksOK
  <2> QED
    BY <2>1, <2>2, PlacesCount, FramesCount, FramesEmpty
<1> QED
  BY <1>1, Invariance, PTL

(***************************************************************************)
(* A counter is the number of jobs that have yet to decrement it, and one  *)
(* more for the job it belongs to: enqueue, release and retire of any      *)
(* number of threads never make it drift.                                  *)
(***************************************************************************)
THEOREM CountersNeverDrift == Spec => []CountersExact
BY Invariance, PTL DEF IInv

(***************************************************************************)
(* A wait or an await ends only when everything that was added to the      *)
(* counter has finished, whoever ran it.                                   *)
(***************************************************************************)
THEOREM WaitsAreCovered == Spec => []WaitsCovered
BY Invariance, PTL DEF IInv

(***************************************************************************)
(* A caller that waits for its inline jobs before anything that may panic  *)
(* keeps the promise the unsafe code asks for: when the frame is left, the *)
(* jobs whose data is in it have finished.                                 *)
(***************************************************************************)
THEOREM InlineDataOutlivesJobs == InlineWaited => (Spec => []InlineOutlives)
<1> SUFFICES ASSUME InlineWaited PROVE Spec => []InlineOutlives
  OBVIOUS
<1>1. IInv => InlineOutlives
  <2> SUFFICES ASSUME IInv, NEW p \in Programs, Left(p),
                      NEW k \in DOMAIN Program[p], k < pc[p],
                      Program[p][k].op = "enqueue", Program[p][k].job \in Inline
               PROVE  phase[Program[p][k].job] = "finished"
    BY ProgramTypes DEF InlineOutlives
  <2>1. PICK w \in DOMAIN Program[p] :
          /\ k < w /\ Program[p][w].op = "wait"
          /\ Program[p][k].job \in AddsTo(Program[p][w].on)
          /\ \A m \in k..w : Program[p][m].op \in {"enqueue", "wait", "await"}
    BY ProgramTypes DEF InlineWaited
  <2>2. AtEnd(p)
    BY DEF Left, Returned, IInv, ProgramsOK, Programs
  <2>3. w \in Nat /\ k \in Nat /\ pc[p] \in Nat /\ w <= Len(Program[p]) /\ Len(Program[p]) \in Nat
    BY ProgramTypes DEF IInv, Types
  <2>4. w < pc[p]
    <3>1. CASE pc[p] > Len(Program[p])
      BY <2>3, <3>1
    <3>2. CASE p \in panicked
      <4>1. Program[p][pc[p]].op \in {"panic", "unwrap"}
        BY <3>2 DEF IInv, ProgramsOK
      <4>2. pc[p] \notin k..w
        BY <2>1, <4>1
      <4> QED
        BY <2>3, <4>2
    <3> QED
      BY <2>2, <3>1, <3>2 DEF AtEnd
  <2> QED
    BY <2>1, <2>4, ProgramTypes DEF IInv, WaitsCovered
<1> QED
  BY <1>1, Invariance, PTL

-----------------------------------------------------------------------------
LEMMA PopJobStarts ==
  ASSUME IInv, NEW t \in Threads, PopJob(t)
  PROVE  Graph!Start(Head(queue[t])) /\ Head(queue[t]) \in Jobs
<1> DEFINE j == Head(queue[t])
<1>1. j \in Jobs /\ InQueue(j)
  <2>1. queue[t] # <<>> /\ queue[t] \in Seq(Jobs)
    BY DEF PopJob, IInv, Types
  <2>2. 1 \in DOMAIN queue[t] /\ queue[t][1] = j /\ j \in Jobs
    BY <2>1
  <2> QED
    BY <2>2 DEF InQueue, On
<1>2. phase' = [phase EXCEPT ![j] = "running"]
  BY DEF PopJob
<1> HIDE DEF j
<1>3. phase[j] = "enqueued" /\ \A i \in Jobs : j \notin children[i]
  BY <1>1 DEF IInv, QueuesOK, Runnable
<1>4. \A i \in Jobs : <<i, j>> \in After => phase[i] = "finished"
  <2> SUFFICES ASSUME NEW i \in Jobs, <<i, j>> \in After PROVE phase[i] = "finished"
    OBVIOUS
  <2>1. i # j /\ i \in AddsTo(j)
    BY DEF After
  <2> QED
    BY <1>1, <1>3, <2>1, DependenciesDone
<1>5. Graph!Start(j) /\ j \in Jobs
  BY <1>1, <1>2, <1>3, <1>4 DEF Graph!Start
<1> QED
  BY <1>5 DEF j

LEMMA StepRefines ==
  ASSUME IInv, [Next]_vars
  PROVE  [Graph!Next]_<<After, phase>>
<1>1. UNCHANGED After
  BY DEF After, AddsTo
<1>2. CASE UNCHANGED phase
  BY <1>1, <1>2
<1>3. ASSUME NEW j \in Jobs, Graph!Enqueue(j) \/ Graph!Start(j) \/ Graph!Yield(j) \/ Graph!Finish(j)
      PROVE  Graph!Next
  BY <1>1, <1>3 DEF Graph!Next
<1>4. ASSUME NEW t \in Threads, Step(t), ~UNCHANGED phase PROVE Graph!Next
  <2>1. Enqueue(t) \/ AwaitPending(t) \/ Finish(t) \/ PopJob(t)
    BY <1>4 DEF Step, WaitDone, WaitHelp, AwaitReady, Unwrap, Panic, Release, Retire, PopNothing,
                StealBatch, StealNothing, StealFailed, Promote, TrySucceeds, TryFails, Timeout
  <2>2. CASE Enqueue(t)
    <3>1. Doing(t, "enqueue") /\ phase' = [phase EXCEPT ![Instruction(t).job] = "enqueued"]
      BY <2>2 DEF Enqueue
    <3>2. Instruction(t).job \in Jobs /\ phase[Instruction(t).job] = "new"
      BY <3>1, EnqueueFacts
    <3>3. Graph!Enqueue(Instruction(t).job)
      BY <3>1, <3>2 DEF Graph!Enqueue
    <3> QED
      BY <1>3, <3>2, <3>3
  <2>3. CASE AwaitPending(t)
    <3>1. Top(t) \in Jobs /\ phase[Top(t)] = "running" /\ phase' = [phase EXCEPT ![Top(t)] = "enqueued"]
      BY <2>3, DoingFacts DEF AwaitPending
    <3>2. Graph!Yield(Top(t))
      BY <3>1 DEF Graph!Yield
    <3> QED
      BY <1>3, <3>1, <3>2
  <2>4. CASE Finish(t)
    <3>1. Top(t) \in Jobs /\ Graph!Finish(Top(t))
      BY <2>4 DEF Finish, Graph!Finish
    <3> QED
      BY <1>3, <3>1
  <2>5. CASE PopJob(t)
    BY <1>3, <2>5, PopJobStarts
  <2> QED
    BY <2>1, <2>2, <2>3, <2>4, <2>5
<1>5. CASE Close \/ Join \/ Idle \/ UNCHANGED vars
  BY <1>2, <1>5 DEF Close, Join, Idle, vars
<1> QED
  BY <1>2, <1>4, <1>5 DEF Next

(***************************************************************************)
(* The pool runs task graphs: whatever the threads do, every job is handed *)
(* in once and runs once, and it starts only when all that the graph and   *)
(* the added children put before it have finished.                         *)
(***************************************************************************)
THEOREM RunsTaskGraphs == Spec => GraphSpec
<1>1. Init => Graph!Init
  BY DEF Init, Graph!Init, After
<1>2. IInv /\ [Next]_vars => [Graph!Next]_<<After, phase>>
  BY StepRefines
<1> QED
  BY <1>1, <1>2, Invariance, PTL DEF Spec, GraphSpec, Graph!Spec
=============================================================================
