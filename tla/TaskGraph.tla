----------------------------- MODULE TaskGraph -----------------------------
(***************************************************************************)
(* What a job pool promises: every job that is handed in runs once, never  *)
(* before the jobs it depends on have finished.  Threads, queues, wait     *)
(* lists and counters are not part of the promise.                         *)
(***************************************************************************)
CONSTANT Jobs

VARIABLES
  after,   \* the graph: <<i, j>> \in after when j depends on i
  phase    \* of every job: "new", "enqueued", "running", "finished"

Init ==
  /\ after \subseteq Jobs \X Jobs
  /\ phase = [j \in Jobs |-> "new"]

Enqueue(j) ==
  /\ phase[j] = "new"
  /\ phase' = [phase EXCEPT ![j] = "enqueued"]

\* A future that is not ready goes back to the queue and is polled again.
Yield(j) ==
  /\ phase[j] = "running"
  /\ phase' = [phase EXCEPT ![j] = "enqueued"]

Start(j) ==
  /\ phase[j] = "enqueued"
  /\ \A i \in Jobs : <<i, j>> \in after => phase[i] = "finished"
  /\ phase' = [phase EXCEPT ![j] = "running"]

Finish(j) ==
  /\ phase[j] = "running"
  /\ phase' = [phase EXCEPT ![j] = "finished"]

Next ==
  /\ UNCHANGED after
  /\ \E j \in Jobs : Enqueue(j) \/ Start(j) \/ Yield(j) \/ Finish(j)

Spec == Init /\ [][Next]_<<after, phase>>
=============================================================================
