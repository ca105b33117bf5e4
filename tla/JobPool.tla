------------------------------ MODULE JobPool ------------------------------
(***************************************************************************)
(* The job system of cecs (src/src/job_system.rs): worker threads with one *)
(* queue of runnable jobs each, work stealing, wait lists for jobs whose   *)
(* dependencies are not done, counters that tell when a job may run, and   *)
(* threads that run other jobs while they wait for a counter.              *)
(*                                                                         *)
(* What the jobs do is the constant Program: the calls a job (or Main, the *)
(* thread that made the pool) makes to the pool, one after the other:      *)
(*   enqueue   add_child or add_child_handle, then enqueue_job             *)
(*   wait      JobPool::wait: run jobs until the counter is down           *)
(*   await     poll a JobHandle: Main does it with block_on and runs       *)
(*             nothing meanwhile; a job is a future and goes back to the   *)
(*             queue until the handle is done                              *)
(*   unwrap    take the result of a job: panic when the job panicked, or   *)
(*             has no result yet                                           *)
(*   panic                                                                 *)
(*   drop      Main drops the pool                                         *)
(* run_graph, join, map_reduce, scope, enqueue_graph and enqueue_future    *)
(* are such programs (see MCJobPool).  A panic ends the program: that of a *)
(* job is caught in its execute, and the job is done as any other.  Jobs   *)
(* that do not catch it (SystemJob) do not panic here.                     *)
(*                                                                         *)
(* Every access to a counter or a queue is a step of its own, but for an   *)
(* enqueue, which is one step: nobody looks at the counter it adds to      *)
(* before the program goes on, and a job that is ready stays ready until   *)
(* it runs.  Memory is sequentially consistent.                            *)
(***************************************************************************)
EXTENDS Integers, Sequences, FiniteSets

CONSTANTS
  Workers,   \* worker threads
  Main,      \* the thread that made the pool; it works while it waits
  Jobs,
  Handles,   \* counters that do not belong to a job (JobHandle::default)
  Inline,    \* the jobs whose data lives in the frame that hands them in
  Edges,     \* <<parent, child>>: HomogeneousJobGraph::add_dependency
  MaxFails,  \* failed tries after which a worker sleeps (8 in the code)
  NoChild,   \* the child of an enqueue that adds none
  Program    \* [Jobs \union {Main} -> Seq(Instructions)]

Threads == Workers \union {Main}
Counters == Jobs \union Handles

Instructions ==
  [op : {"enqueue"}, job : Jobs, child : Counters \union {NoChild}]
    \union [op : {"wait", "await"}, on : Counters]
    \union [op : {"unwrap"}, on : Jobs]
    \union [op : {"panic", "drop"}]

\* p's k-th instruction hands in job.
HandsIn(p, k, job) == Program[p][k].op = "enqueue" /\ Program[p][k].job = job

ASSUME PoolAssumption ==
  /\ Main \notin Workers \union Jobs
  /\ Jobs \intersect Handles = {} /\ NoChild \notin Counters
  /\ MaxFails \in Nat \ {0} /\ IsFiniteSet(Jobs)
  /\ Edges \subseteq Jobs \X Jobs /\ Inline \subseteq Jobs
  /\ Program \in [Jobs \union {Main} -> Seq(Instructions)]
  /\ \A p \in DOMAIN Program : \A k \in DOMAIN Program[p] :
       \A q \in DOMAIN Program : \A l \in DOMAIN Program[q] : \A job \in Jobs :
         HandsIn(p, k, job) /\ HandsIn(q, l, job) => p = q /\ k = l

\* p's k-th instruction hands in job, which counts down c.
Adds(p, k, job, c) == Program[p][k] = [op |-> "enqueue", job |-> job, child |-> c]

(***************************************************************************)
(* How the calls of the pool use a counter.  A child is no dependency of   *)
(* the graph too: it is the root, which the graph does not have, or a      *)
(* handle.  Jobs are added to a root before the root is handed in, which   *)
(* gives it away, and to a handle before it is waited for, all by the      *)
(* program that made it.                                                   *)
(***************************************************************************)
ASSUME CountersAssumption ==
  \A p \in DOMAIN Program : \A k \in DOMAIN Program[p] :
    \A job \in Jobs, c \in Counters : Adds(p, k, job, c) =>
      /\ <<job, c>> \notin Edges
      /\ \A q \in DOMAIN Program : \A l \in DOMAIN Program[q] :
           \/ c \in Jobs /\ HandsIn(q, l, c)
           \/ c \in Handles /\ Program[q][l].op \in {"wait", "await"} /\ Program[q][l].on = c
           => p = q /\ k < l

VARIABLES
  tasks_left,  \* the counters: Job::tasks_left and JobHandle::tasks_left
  children,    \* Job::children: the counters a job decrements when it is done
  phase,       \* of a job: "new", "enqueued", "running", "finished"
  pc,          \* next instruction of every job, and of Main
  panicked,    \* the programs that ended by a panic
  queue,       \* Inner::runnable_queues, one per thread, first in first out
  wait_list,   \* Inner::wait_lists, one per thread
  stack,       \* the jobs a thread is in: a job that waits lets others run
  mode,        \* what a thread is doing: see below
  left,        \* what run_once has yet to look at in a loop over a set
  fails,       \* of a worker: failed tries in a row
  closing      \* the Mutex<bool> of Inner::sleep

vars == <<tasks_left, children, phase, pc, panicked, queue, wait_list, stack, mode, left, fails, closing>>

(***************************************************************************)
(* mode[t]: "run": in the program on top of the stack; "pop", "steal",     *)
(* "promote", "promoted": in run_once, in this order; "asleep": in         *)
(* wait_for on the condition variable; "exited".                           *)
(***************************************************************************)
Modes == {"run", "pop", "steal", "promote", "promoted", "asleep", "exited"}
-----------------------------------------------------------------------------
Top(t) == stack[t][Len(stack[t])]
Running(t) == mode[t] = "run" /\ stack[t] # <<>>
AtEnd(j) == pc[j] > Len(Program[j]) \/ j \in panicked
Instruction(t) == Program[Top(t)][pc[Top(t)]]

\* The instruction of the running program, when it is an op.
Doing(t, op) == Running(t) /\ ~AtEnd(Top(t)) /\ Instruction(t).op = op

Advance(t) == pc' = [pc EXCEPT ![Top(t)] = @ + 1]

\* Mutant: a handle counts as done while one job is left.
DoneEarly(c) == tasks_left[c] <= 1

\* Job::ready, JobHandle::done
Ready(j) == tasks_left[j] = 1 /\ phase[j] # "finished"
Done(c) == tasks_left[c] <= 0

Init ==
  /\ tasks_left = [c \in Counters |->
       IF c \in Jobs THEN 1 + Cardinality({i \in Jobs : <<i, c>> \in Edges}) ELSE 0]
  /\ children = [j \in Jobs |-> {c \in Jobs : <<j, c>> \in Edges}]
  /\ phase = [j \in Jobs |-> "new"]
  /\ pc = [p \in Jobs \union {Main} |-> 1]
  /\ panicked = {}
  /\ queue = [t \in Threads |-> <<>>]
  /\ wait_list = [t \in Threads |-> {}]
  /\ stack = [t \in Threads |-> IF t = Main THEN <<Main>> ELSE <<>>]
  /\ mode = [t \in Threads |-> IF t = Main THEN "run" ELSE "pop"]
  /\ left = [t \in Threads |-> {}]
  /\ fails = [t \in Threads |-> 0]
  /\ closing = FALSE
-----------------------------------------------------------------------------
\* Mutant: the flag is not looked at.
WokenAnyway == "pop"

(***************************************************************************)
(* sleep.1.notify_one(): one sleeping thread, if there is one, is woken.   *)
(* m is what becomes of mode apart from that.  Whoever wakes up looks at   *)
(* the flag first.                                                         *)
(***************************************************************************)
Woken == IF closing THEN "exited" ELSE "pop"

NotifyOne(m) ==
  LET sleepers == {t \in Threads : m[t] = "asleep"} IN
  \/ sleepers = {} /\ mode' = m
  \/ \E t \in sleepers : mode' = [m EXCEPT ![t] = Woken]

\* Mutant: the child is not told that there is one more job to wait for.
EnqueueUncounted(t) ==
  LET job == Instruction(t).job
      child == Instruction(t).child
  IN
  /\ Doing(t, "enqueue")
  /\ children' = [children EXCEPT ![job] = @ \union ({child} \ {NoChild})]
  /\ phase' = [phase EXCEPT ![job] = "enqueued"]
  /\ \/ /\ Ready(job)
        /\ queue' = [queue EXCEPT ![t] = Append(@, job)]
        /\ NotifyOne(mode)
        /\ UNCHANGED wait_list
     \/ /\ ~Ready(job)
        /\ wait_list' = [wait_list EXCEPT ![t] = @ \union {job}]
        /\ UNCHANGED <<queue, mode>>
  /\ Advance(t)
  /\ UNCHANGED <<panicked, tasks_left, stack, left, fails, closing>>

(***************************************************************************)
(* add_child / add_child_handle, then enqueue_job: a job that may run goes *)
(* to the thread's own queue and a sleeper is woken, any other one to the  *)
(* thread's own wait list.                                                 *)
(***************************************************************************)
Enqueue(t) ==
  LET job == Instruction(t).job
      child == Instruction(t).child
  IN
  /\ Doing(t, "enqueue")
  /\ tasks_left' = [c \in Counters |-> IF c = child THEN tasks_left[c] + 1 ELSE tasks_left[c]]
  /\ children' = [children EXCEPT ![job] = @ \union ({child} \ {NoChild})]
  /\ phase' = [phase EXCEPT ![job] = "enqueued"]
  /\ \/ /\ Ready(job)
        /\ queue' = [queue EXCEPT ![t] = Append(@, job)]
        /\ NotifyOne(mode)
        /\ UNCHANGED wait_list
     \/ /\ ~Ready(job)
        /\ wait_list' = [wait_list EXCEPT ![t] = @ \union {job}]
        /\ UNCHANGED <<queue, mode>>
  /\ Advance(t)
  /\ UNCHANGED <<panicked, stack, left, fails, closing>>

(***************************************************************************)
(* JobPool::wait: "while !job.done()" run_once.                            *)
(***************************************************************************)
WaitDone(t) ==
  /\ Doing(t, "wait")
  /\ Done(Instruction(t).on)
  /\ Advance(t)
  /\ UNCHANGED <<panicked, tasks_left, children, phase, queue, wait_list, stack, mode, left, fails, closing>>

WaitHelp(t) ==
  /\ Doing(t, "wait")
  /\ ~Done(Instruction(t).on)
  /\ mode' = [mode EXCEPT ![t] = "pop"]
  /\ UNCHANGED <<panicked, tasks_left, children, phase, pc, queue, wait_list, stack, left, fails, closing>>

\* JobHandle::poll
AwaitReady(t) ==
  /\ Doing(t, "await")
  /\ Done(Instruction(t).on)
  /\ Advance(t)
  /\ UNCHANGED <<panicked, tasks_left, children, phase, queue, wait_list, stack, mode, left, fails, closing>>

\* What a thread does once the job on top of its stack is off it.
Resume(t) == IF Len(stack[t]) > 1 THEN "run" ELSE "pop"
Unstack(t) == stack' = [stack EXCEPT ![t] = SubSeq(@, 1, Len(@) - 1)]

(***************************************************************************)
(* FutureJob: the future is pending, ExecutionState::Reenqueue.            *)
(***************************************************************************)
AwaitPending(t) ==
  /\ Doing(t, "await")
  /\ ~Done(Instruction(t).on)
  /\ Top(t) \in Jobs
  /\ phase' = [phase EXCEPT ![Top(t)] = "enqueued"]
  /\ queue' = [queue EXCEPT ![t] = Append(@, Top(t))]
  /\ Unstack(t)
  /\ mode' = [mode EXCEPT ![t] = Resume(t)]
  /\ UNCHANGED <<panicked, tasks_left, children, pc, wait_list, left, fails, closing>>

(***************************************************************************)
(* JobResult::take and unwrap; execute_job stores the result before the    *)
(* job is done.                                                            *)
(***************************************************************************)
HasResult(j) == phase[j] = "finished" /\ j \notin panicked

Unwrap(t) ==
  /\ Doing(t, "unwrap")
  /\ HasResult(Instruction(t).on)
  /\ Advance(t)
  /\ UNCHANGED <<panicked, tasks_left, children, phase, queue, wait_list, stack, mode, left, fails, closing>>

Panic(t) ==
  /\ \/ Doing(t, "panic")
     \/ Doing(t, "unwrap") /\ ~HasResult(Instruction(t).on)
  /\ panicked' = panicked \union {Top(t)}
  /\ UNCHANGED <<tasks_left, children, phase, pc, queue, wait_list, stack, mode, left, fails, closing>>
-----------------------------------------------------------------------------
(***************************************************************************)
(* Job::execute, after the job's function has returned or its panic was    *)
(* caught: the children are decremented one by one, then the job's own     *)
(* counter.                                                                *)
(***************************************************************************)
Finish(t) ==
  /\ Running(t) /\ AtEnd(Top(t))
  /\ Top(t) \in Jobs /\ phase[Top(t)] = "running"
  /\ phase' = [phase EXCEPT ![Top(t)] = "finished"]
  /\ UNCHANGED <<panicked, tasks_left, children, pc, queue, wait_list, stack, mode, left, fails, closing>>

\* Mutant: the counter of a dependent job may be decremented twice.
ReleaseTwice(t, c) ==
  /\ Running(t) /\ AtEnd(Top(t))
  /\ Top(t) \in Jobs
  /\ c \in children[Top(t)]
  /\ tasks_left' = [tasks_left EXCEPT ![c] = @ - 1]
  /\ \/ phase[Top(t)] = "running" /\ UNCHANGED children
     \/ phase[Top(t)] = "finished" /\ children' = [children EXCEPT ![Top(t)] = @ \ {c}]
  /\ UNCHANGED <<panicked, phase, pc, queue, wait_list, stack, mode, left, fails, closing>>

Release(t, c) ==
  /\ Running(t)
  /\ Top(t) \in Jobs /\ phase[Top(t)] = "finished"
  /\ c \in children[Top(t)]
  /\ tasks_left' = [tasks_left EXCEPT ![c] = @ - 1]
  /\ children' = [children EXCEPT ![Top(t)] = @ \ {c}]
  /\ UNCHANGED <<panicked, phase, pc, queue, wait_list, stack, mode, left, fails, closing>>

Retire(t) ==
  /\ Running(t)
  /\ Top(t) \in Jobs /\ phase[Top(t)] = "finished"
  /\ children[Top(t)] = {}
  /\ tasks_left' = [tasks_left EXCEPT ![Top(t)] = @ - 1]
  /\ Unstack(t)
  /\ mode' = [mode EXCEPT ![t] = Resume(t)]
  /\ UNCHANGED <<panicked, children, phase, pc, queue, wait_list, left, fails, closing>>
-----------------------------------------------------------------------------
(***************************************************************************)
(* Executor::run_once.  A thread pops a job from its queue; else steals a  *)
(* batch from another thread's; else promotes the jobs of its wait list    *)
(* that may run by now.  The order in which the other queues and the wait  *)
(* list are visited is left open.                                          *)
(***************************************************************************)
\* What follows run_once: the waiting program, or another try of the worker.
AfterTry(t) == IF stack[t] # <<>> THEN "run" ELSE "pop"

PopJob(t) ==
  LET job == Head(queue[t]) IN
  /\ mode[t] = "pop"
  /\ queue[t] # <<>>
  /\ queue' = [queue EXCEPT ![t] = Tail(@)]
  /\ phase' = [phase EXCEPT ![job] = "running"]
  /\ stack' = [stack EXCEPT ![t] = Append(@, job)]
  /\ mode' = [mode EXCEPT ![t] = "run"]
  /\ fails' = [fails EXCEPT ![t] = 0]
  /\ UNCHANGED <<panicked, tasks_left, children, pc, wait_list, left, closing>>

PopNothing(t) ==
  /\ mode[t] = "pop"
  /\ queue[t] = <<>>
  /\ mode' = [mode EXCEPT ![t] = "steal"]
  /\ left' = [left EXCEPT ![t] = Threads \ {t}]
  /\ UNCHANGED <<panicked, tasks_left, children, phase, pc, queue, wait_list, stack, fails, closing>>

\* Mutant: the stolen batch is also left where it was.
StealBatchCopies(t, victim, n) ==
  /\ mode[t] = "steal"
  /\ victim \in left[t]
  /\ n \in 1..((Len(queue[victim]) + 1) \div 2)
  /\ queue' = [queue EXCEPT ![t] = @ \o SubSeq(queue[victim], 1, n)]
  /\ left' = [left EXCEPT ![t] = {}]
  /\ mode' = [mode EXCEPT ![t] = AfterTry(t)]
  /\ fails' = [fails EXCEPT ![t] = 0]
  /\ UNCHANGED <<panicked, tasks_left, children, phase, pc, wait_list, stack, closing>>

\* crossbeam's steal_batch: "some" of the jobs in the other queue, at most
\* half of them rounded up, from the front.
StealBatch(t, victim, n) ==
  /\ mode[t] = "steal"
  /\ victim \in left[t]
  /\ n \in 1..((Len(queue[victim]) + 1) \div 2)
  /\ queue' = [queue EXCEPT ![t] = @ \o SubSeq(queue[victim], 1, n),
                            ![victim] = SubSeq(@, n + 1, Len(@))]
  /\ left' = [left EXCEPT ![t] = {}]
  /\ mode' = [mode EXCEPT ![t] = AfterTry(t)]
  /\ fails' = [fails EXCEPT ![t] = 0]
  /\ UNCHANGED <<panicked, tasks_left, children, phase, pc, wait_list, stack, closing>>

StealNothing(t, victim) ==
  /\ mode[t] = "steal"
  /\ victim \in left[t]
  /\ queue[victim] = <<>>
  /\ left' = [left EXCEPT ![t] = @ \ {victim}]
  /\ UNCHANGED <<panicked, tasks_left, children, phase, pc, queue, wait_list, stack, mode, fails, closing>>

\* Mutant: the wait list is not looked at.
StealFailedForgets(t) ==
  /\ mode[t] = "steal"
  /\ left[t] = {}
  /\ mode' = [mode EXCEPT ![t] = "promote"]
  /\ UNCHANGED <<panicked, tasks_left, children, phase, pc, queue, wait_list, stack, left, fails, closing>>

StealFailed(t) ==
  /\ mode[t] = "steal"
  /\ left[t] = {}
  /\ mode' = [mode EXCEPT ![t] = "promote"]
  /\ left' = [left EXCEPT ![t] = wait_list[t]]
  /\ UNCHANGED <<panicked, tasks_left, children, phase, pc, queue, wait_list, stack, fails, closing>>

\* Mutant: the first dependency that finishes is enough.
PromoteEarly(t, job) ==
  /\ mode[t] \in {"promote", "promoted"}
  /\ job \in left[t]
  /\ left' = [left EXCEPT ![t] = @ \ {job}]
  /\ \/ /\ tasks_left[job] <= 2
        /\ wait_list' = [wait_list EXCEPT ![t] = @ \ {job}]
        /\ queue' = [queue EXCEPT ![t] = Append(@, job)]
        /\ NotifyOne([mode EXCEPT ![t] = "promoted"])
     \/ /\ tasks_left[job] > 2
        /\ UNCHANGED <<wait_list, queue, mode>>
  /\ UNCHANGED <<panicked, tasks_left, children, phase, pc, stack, fails, closing>>

Promote(t, job) ==
  /\ mode[t] \in {"promote", "promoted"}
  /\ job \in left[t]
  /\ left' = [left EXCEPT ![t] = @ \ {job}]
  /\ \/ /\ Ready(job)
        /\ wait_list' = [wait_list EXCEPT ![t] = @ \ {job}]
        /\ queue' = [queue EXCEPT ![t] = Append(@, job)]
        /\ NotifyOne([mode EXCEPT ![t] = "promoted"])
     \/ /\ ~Ready(job)
        /\ UNCHANGED <<wait_list, queue, mode>>
  /\ UNCHANGED <<panicked, tasks_left, children, phase, pc, stack, fails, closing>>

(***************************************************************************)
(* The end of run_once.  A program that waits looks at its counter again.  *)
(* A worker tries again, and sleeps when MaxFails tries in a row failed.   *)
(***************************************************************************)
TrySucceeds(t) ==
  /\ mode[t] = "promoted"
  /\ left[t] = {}
  /\ mode' = [mode EXCEPT ![t] = AfterTry(t)]
  /\ fails' = [fails EXCEPT ![t] = 0]
  /\ UNCHANGED <<panicked, tasks_left, children, phase, pc, queue, wait_list, stack, left, closing>>

TryFails(t) ==
  /\ mode[t] = "promote"
  /\ left[t] = {}
  /\ \/ /\ stack[t] # <<>>
        /\ mode' = [mode EXCEPT ![t] = "run"]
        /\ UNCHANGED fails
     \/ /\ stack[t] = <<>> /\ fails[t] + 1 < MaxFails
        /\ mode' = [mode EXCEPT ![t] = "pop"]
        /\ fails' = [fails EXCEPT ![t] = @ + 1]
     \/ /\ stack[t] = <<>> /\ fails[t] + 1 = MaxFails
        /\ mode' = [mode EXCEPT ![t] = "asleep"]
        /\ fails' = [fails EXCEPT ![t] = 0]
  /\ UNCHANGED <<panicked, tasks_left, children, phase, pc, queue, wait_list, stack, left, closing>>

\* wait_for ends after 10 ms at the latest.
Timeout(t) ==
  /\ mode[t] = "asleep"
  /\ mode' = [mode EXCEPT ![t] = Woken]
  /\ UNCHANGED <<panicked, tasks_left, children, phase, pc, queue, wait_list, stack, left, fails, closing>>
-----------------------------------------------------------------------------
(***************************************************************************)
(* Inner::drop: the flag is set, everybody is woken and joined.            *)
(***************************************************************************)
Close ==
  /\ Doing(Main, "drop")
  /\ ~closing
  /\ closing' = TRUE
  /\ mode' = [t \in Threads |-> IF mode[t] = "asleep" THEN "exited" ELSE mode[t]]
  /\ UNCHANGED <<panicked, tasks_left, children, phase, pc, queue, wait_list, stack, left, fails>>

Join ==
  /\ Doing(Main, "drop")
  /\ closing
  /\ \A t \in Workers : mode[t] = "exited"
  /\ Advance(Main)
  /\ UNCHANGED <<panicked, tasks_left, children, phase, queue, wait_list, stack, mode, left, fails, closing>>

Step(t) ==
  \/ Enqueue(t)
  \/ WaitDone(t)
  \/ WaitHelp(t)
  \/ AwaitReady(t)
  \/ AwaitPending(t)
  \/ Unwrap(t)
  \/ Panic(t)
  \/ Finish(t)
  \/ \E c \in Counters : Release(t, c)
  \/ Retire(t)
  \/ PopJob(t)
  \/ PopNothing(t)
  \/ \E victim \in Threads, n \in 1..Cardinality(Jobs) : StealBatch(t, victim, n)
  \/ \E victim \in Threads : StealNothing(t, victim)
  \/ StealFailed(t)
  \/ \E job \in Jobs : Promote(t, job)
  \/ TrySucceeds(t)
  \/ TryFails(t)
  \/ Timeout(t)

\* Main's own calls are over.
Returned == AtEnd(Main)

\* The program is over; without a drop the workers go on looking for jobs.
Idle == Returned /\ UNCHANGED vars

Next == (\E t \in Threads : Step(t)) \/ Close \/ Join \/ Idle

Spec == Init /\ [][Next]_vars

(***************************************************************************)
(* Every thread keeps running.  A thread that comes to look at its queue   *)
(* while there is a job in it, again and again, gets one in the end: the   *)
(* others do not steal every job of a thread, also those it stole itself a *)
(* moment ago, between its last step and the next.                         *)
(***************************************************************************)
Look(t) == queue[t] # <<>> /\ (WaitHelp(t) \/ PopJob(t))

Fairness ==
  /\ \A t \in Threads : WF_vars(Step(t)) /\ SF_vars(Look(t)) /\ SF_vars(PopJob(t))
  /\ WF_vars(Close) /\ WF_vars(Join)

FairSpec == Spec /\ Fairness
-----------------------------------------------------------------------------
(***************************************************************************)
(* Properties.                                                             *)
(***************************************************************************)
TypeOK ==
  /\ tasks_left \in [Counters -> 0..(Cardinality(Jobs) + 1)]
  /\ children \in [Jobs -> SUBSET Counters]
  /\ phase \in [Jobs -> {"new", "enqueued", "running", "finished"}]
  /\ \A p \in Jobs \union {Main} : pc[p] \in 1..(Len(Program[p]) + 1)
  /\ panicked \subseteq Jobs \union {Main}
  /\ queue \in [Threads -> Seq(Jobs)]
  /\ wait_list \in [Threads -> SUBSET Jobs]
  /\ stack \in [Threads -> Seq(Jobs \union {Main})]
  /\ mode \in [Threads -> Modes]
  /\ left \in [Threads -> SUBSET (Threads \union Jobs)]
  /\ fails \in [Threads -> 0..(MaxFails - 1)]
  /\ closing \in BOOLEAN

(***************************************************************************)
(* A job is where its phase says, once: an enqueued one in one queue or    *)
(* one wait list, a running one on one stack.  Nothing a thief, the owner  *)
(* of a queue and a promotion do at the same time loses or doubles a job.  *)
(***************************************************************************)
Places(j) ==
  (UNION {{<<"queue", t, i>> : i \in {i \in DOMAIN queue[t] : queue[t][i] = j}} : t \in Threads})
    \union {<<"wait_list", t, 0>> : t \in {t \in Threads : j \in wait_list[t]}}

Frames(j) ==
  UNION {{<<t, i>> : i \in {i \in DOMAIN stack[t] : stack[t][i] = j}} : t \in Threads}

OnePlace ==
  \A j \in Jobs :
    /\ Cardinality(Places(j)) = IF phase[j] = "enqueued" THEN 1 ELSE 0
    /\ phase[j] = "running" => Cardinality(Frames(j)) = 1
    /\ phase[j] \in {"new", "enqueued"} => Frames(j) = {}

(***************************************************************************)
(* Every counter is the number of jobs that have yet to decrement it, and  *)
(* for a job one more until it is done itself: jobs that are added,        *)
(* promoted and finished at the same time never make it drift.             *)
(***************************************************************************)
Retired(j) == phase[j] = "finished" /\ Frames(j) = {}

CountersExact ==
  \A c \in Counters :
    tasks_left[c] = Cardinality({j \in Jobs : c \in children[j]})
                      + IF c \in Jobs /\ ~Retired(c) THEN 1 ELSE 0

(***************************************************************************)
(* When a wait or an await is over, every job it was for has finished, so  *)
(* what those jobs point to on the waiting thread's stack may go           *)
(* ("Caller must ensure that `data` outlives the Job", job_system.rs:587). *)
(***************************************************************************)
AddsTo(c) ==
  {j \in Jobs : \/ j = c
                \/ <<j, c>> \in Edges
                \/ \E p \in DOMAIN Program : \E k \in DOMAIN Program[p] : Adds(p, k, j, c)}

WaitsCovered ==
  \A p \in DOMAIN Program : \A k \in DOMAIN Program[p] :
    k < pc[p] /\ Program[p][k].op \in {"wait", "await"} =>
      \A j \in AddsTo(Program[p][k].on) : phase[j] = "finished"

\* The frame of p's program is left.
Left(p) == IF p = Main THEN Returned ELSE phase[p] = "finished"

\* What a caller has to do for its inline jobs: wait for them before anything
\* else that may panic.
InlineWaited ==
  \A p \in DOMAIN Program : \A k \in DOMAIN Program[p] :
    Program[p][k].op = "enqueue" /\ Program[p][k].job \in Inline =>
      \E w \in DOMAIN Program[p] :
        /\ k < w /\ Program[p][w].op = "wait"
        /\ Program[p][k].job \in AddsTo(Program[p][w].on)
        /\ \A m \in k..w : Program[p][m].op \in {"enqueue", "wait", "await"}

(***************************************************************************)
(* "caller must ensure that the instance outlives the job"                 *)
(* (job_system.rs:690): when the frame a job's data is in is left, also by *)
(* a panic, the job has finished.                                          *)
(***************************************************************************)
InlineOutlives ==
  \A p \in DOMAIN Program : Left(p) =>
    \A k \in DOMAIN Program[p] :
      k < pc[p] /\ Program[p][k].op = "enqueue" /\ Program[p][k].job \in Inline
        => phase[Program[p][k].job] = "finished"

(***************************************************************************)
(* The pool runs a task graph: the edges of the graph and those that       *)
(* enqueue adds are respected, and every job runs once.                    *)
(***************************************************************************)
After == {e \in Jobs \X Jobs : e[1] # e[2] /\ e[1] \in AddsTo(e[2])}

Graph == INSTANCE TaskGraph WITH after <- After

GraphSpec == Graph!Spec

(***************************************************************************)
(* Every job that is handed in gets done, also one in the wait list of a   *)
(* thread that has nothing else to do, and one after a job that panicked.  *)
(***************************************************************************)
EveryJobFinishes == []<>(\A j \in Jobs : phase[j] \in {"new", "finished"})

(***************************************************************************)
(* Waits end: Main gets to the end of its program, closing the pool        *)
(* included.                                                               *)
(***************************************************************************)
MainReturns == <>Returned
=============================================================================
