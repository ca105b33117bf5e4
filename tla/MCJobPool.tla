----------------------------- MODULE MCJobPool -----------------------------
(***************************************************************************)
(* Programs for JobPool: how the public calls of the pool use it.          *)
(***************************************************************************)
EXTENDS JobPool

E(j, c) == [op |-> "enqueue", job |-> j, child |-> c]
W(c) == [op |-> "wait", on |-> c]
A(c) == [op |-> "await", on |-> c]
U(j) == [op |-> "unwrap", on |-> j]
Panics == [op |-> "panic"]
Drop == [op |-> "drop"]

\* JobPool::join of two functions; both count down the handle c.
JoinCalls(a, b, c) == <<E(a, c), E(b, c), W(c), U(a), U(b)>>

\* JobPool::run_graph and enqueue_graph: all jobs before root.
GraphCalls(first, second, root) == <<E(first, root), E(second, root), E(root, NoChild)>>

\* JobPool::map_reduce of two items: the map jobs count down the handle c; of
\* the two halves the left one is reduced by the job half, the right one here.
MapReduceCalls(m1, m2, c, half) ==
  <<E(m1, c), E(m2, c), W(c), E(half, NoChild), U(m2), W(half), U(half)>>

Calls(jobs, f) == [p \in jobs \union {Main} |-> IF p \in DOMAIN f THEN f[p] ELSE <<>>]

(***************************************************************************)
(* Main runs a graph where b comes after a; b runs a join of its own while *)
(* the graph is running, and panics as y does.  Then a job s hands in a    *)
(* graph of one job and does not wait for it, so droot waits for d in a    *)
(* worker's wait list; a future f awaits g; Main, which runs no jobs by    *)
(* then, awaits both and drops the pool.                                   *)
(***************************************************************************)
PoolJobs == {"a", "b", "root", "x", "y", "s", "d", "droot", "f", "g"}
PoolEdges == {<<"a", "b">>}
PoolInline == {"a", "b", "root", "x", "y"}
PoolProgram == Calls(PoolJobs,
  [p \in {Main, "b", "y", "s", "f"} |->
     CASE p = Main -> GraphCalls("a", "b", "root") \o
                      <<W("root"), E("s", NoChild), E("g", NoChild), E("f", NoChild),
                        A("droot"), A("f"), Drop>>
       [] p = "b"  -> JoinCalls("x", "y", "h")
       [] p = "y"  -> <<Panics>>
       [] p = "s"  -> <<E("d", "droot"), E("droot", NoChild)>>
       [] p = "f"  -> <<A("g")>>])

\* enqueue_graph by Main, which awaits it with block_on.
BlockOnJobs == {"a", "root"}
BlockOnProgram == Calls(BlockOnJobs,
  [p \in {Main} |-> <<E("a", "root"), E("root", NoChild), A("root")>>])

\* map_reduce where mapping the second item panics.
MapJobs == {"m1", "m2", "half"}
MapProgram == Calls(MapJobs,
  [p \in {Main, "m2", "half"} |->
     CASE p = Main   -> MapReduceCalls("m1", "m2", "h", "half")
       [] p = "m2"   -> <<Panics>>
       [] p = "half" -> <<U("m1")>>])

\* map_reduce does not keep the promise about inline jobs, the others do.
ASSUME ProgramAssumption == InlineWaited \/ Program = MapProgram
=============================================================================
