# Verification of cecs

cecs is an embeddable entity component system: a `World` keeps entities with
typed components in archetype tables, users change it through commands or
directly, and systems (functions over queries) run in stages, in parallel on a
work-stealing job pool. This directory holds TLA+ models of its core, the TLC
configurations that check them on small instances, and TLAPS proofs for every
value of the constants. Source paths are relative to the repository; `lib.rs`
means `src/lib.rs`.

Contents: [inventory](#inventory), [modules](#modules),
[runs](#runs), [fairness](#fairness), [proofs](#proofs),
[findings](#findings), [not modelled](#not-modelled), [plan](#plan).

## Inventory

| component | source | state | operations |
|---|---|---|---|
| Entity index | `entity_index.rs`, `entity_id.rs` | array of entries (generation, archetype pointer, row or free link), `count`, head of the free list | `new`, `grow`, `allocate`, `allocate_with_resize`, `reserve`, `insert_id`, `update`, `update_row_index`, `free`, `read`, `is_valid` |
| World | `lib.rs`, `bundle.rs` | `archetypes`, `archetypes_staging`, `entity_ids`, `resources`, `commands`, `system_stages`, `schedule`, `this_lock`, `job_system` | insert, delete, merge and move entities, set and remove components, `apply_commands`, `vacuum`, `clone`, stages and `tick` |
| Archetype tables | `table.rs` | list of entities and one column per component type | insert and remove rows (swap-remove), move a row to another table, swap values, extend or reduce a table by a column |
| Commands | `commands.rs` | one buffer per system; an entity command has an action and a payload | `spawn`, `entity`, `delete`, `merge`, `insert_id`, `id`, `sort_commands`, `apply` |
| Systems and stages | `systems.rs` | a stage's systems and conditions, their descriptors | `add_system`, `after`, `sorted_systems`, execution |
| Schedule | `scheduler.rs` | the parents of every system | `from_stage`, `jobs` |
| World access | `world_access.rs` | one atomic flag | `lock`, `unlock` |
| Queries | `query.rs`, `query/*`, `query_set.rs` | none of their own: a query is a type and a pointer to the world | iteration, `count`, `is_empty`, `any`, `fetch`, `contains`, `par_for_each`, filters, `subset`, the types a query borrows, `is_disjoint` |
| Job system | `job_system.rs` | one queue and one wait list per thread, counters of jobs and handles, `sleep` mutex and condition variable | `enqueue_*`, `run_graph`, `join`, `map_reduce`, `scope`, `wait`, `run_once`, worker loop, drop |
| Resources | `resources.rs` | map from type to value | insert, fetch, remove |
| Persistence | `serde.rs` | a chain of persisters, one per type, and a version | `save`, `load`, `load_version`, and the visitors of the last two |

How they interact. The index maps an id to a table *pointer* and a row; the
table lists the ids of its rows. The two views must agree after every
operation, and the table operations report, by return value, the entity that
was moved by a swap-remove so that the World can tell the index. Systems run
against a shared `&World`; they get their columns, resources and command buffer
without locks, so the only thing that keeps two systems apart is the graph
`Schedule::from_stage` builds. Commands are buffered per system and applied
after the stage by `apply_commands`, which also exchanges tables between
`archetypes` (visited by queries) and `archetypes_staging` (empty ones).
`EntityCommands::id` is the exception: it allocates in the index from inside a
running system, guarded by `this_lock`, which *panics* instead of waiting. The
job pool runs the graph; the thread that calls `run_graph` works too.

What is hard, and what makes each component correct:

* **Entity index**: one field is a row number in a used slot and a link in a
  free one; growth splices new slots in front of the list; `insert_id` unlinks
  from the middle; generations wrap. Correct when the free list is exactly the
  slots nobody holds, generations match holders, and stale ids are rejected.
* **World and tables**: every operation displaces another entity; a batch may
  fail half way; two maps hold tables of the same type. Correct when index and
  tables agree, no row is lost, queries see every entity between batches, and
  users see nothing but a map from entities to components.
* **Commands**: applied later, in another order, possibly not at all.
* **Stages**: data races, explicit orders, the panicking lock. Correct when a
  parallel run gives what a run one by one gives.
* **Queries**: a tuple of parts walks columns in step and items must stay those
  of one entity; table-wise answers must agree with item-wise ones; batches must
  cut a table without gap or overlap; the types a query says it borrows must be
  those it hands out. Correct when every kind of query shows the world as it is
  and two queries that may be used at once do not overlap.
* **Persistence**: a number of entries announced before they are written, keys
  in any order, readers that know other types, versions. Correct when what
  both sides know comes back, and a payload is refused only for a reason.
* **Job system**: stealing races with popping and promoting; counters are
  lowered one at a time while others read them; threads help while they wait;
  wake-ups get lost; jobs panic while others still point into their frames. Correct when every job runs once, after those it depends
  on, waits end only when they may, and end in the end.

PROJECT.json lists the hazards one by one, with their lines and the properties
that guard against them.

## Modules

### EntityIndex, IdPool, EntityGenerations

`EntityIndex` is `struct EntityIndex` field by field: `cap`, `count`,
`free_list`, and the fields of `Entry` as functions on the slots. An id is the
pair of index and generation. `allocated` is not in the code: it is the set of
ids callers hold, and states their side of the `# Safety` contracts (free,
update and update_row_index are called with ids one holds).

| action | code |
|---|---|
| `Allocate` | `allocate`, and `allocate_with_resize` when there is room |
| `AllocateWithResize` | `allocate_with_resize` on a full index; `ResizedCap` is the growth by half |
| `Reserve` | `reserve` with `grow` |
| `InsertId`, `InsertIdBeyond` | `insert_id` below the capacity, and past it (with `grow`) |
| `Update`, `UpdateRowIndex`, `Free` | the functions of these names |

A failing assertion in `grow` panics before anything is written: no step is
taken. A walk of the free list is described by the sets closed under the links
(`OnFreeList`) so that no recursion is needed. `IdPool` is the abstract
specification: ids in use, at most one per index, each with a place.
`EntityGenerations` adds a history variable that counts frees.

### World, EntityStore

`World` has the index entries `loc`, the tables in memory `tables`, and the
two maps. A table has an address `<<type, k>>`; a second table of one type gets
another `k`, because the code identifies tables by pointer in one place and by
type in another, and the model must not identify what the code does not. Each
of `InsertEntity`, `InsertId`, `ReserveId`/`InitReserved`, `DeleteEntity`,
`SetBundle`, `RemoveComponent`, `MergeEntities` (its four cases are operators
named for them), `StartBatch`, `FinishBatch`, `FailBatch`, `Vacuum` and `Clone`
is the whole function, with every index update it makes. After `Clone` the
program goes on with the clone: an address in `archetypes` now stands for the
copy of that table. The cloned index has the pointers of the original, named
`<<type, 0>>`, which is no table of the clone; `CloneWith` gives the entries of
the entities a query finds (`Occupants`) the addresses of the copies. A clone
starts without staging tables and with new command buffers, so that ids that
are reserved and not yet initialised leak.

A command with a payload of several components is as many steps; nothing else
runs in between. `EntityStore` is the abstract specification: a map from live
entities to their components, and what each operation does to it.

The constant `Avoid` names situations callers stay clear of; a run without a
name in `Avoid` includes the situation. This is how the code's known hazards
are kept out of the runs that say what holds otherwise, and are what other runs
are about. The conditions are in the guards of `MergeSame`, `RemoveComponent`,
`MergeIntoThird`, `FailBatch`, `Vacuum` and `Clone`. `vacuum_in_use` also keeps
away what a vacuum or a clone does after a failed batch: drop the rows of
staging tables. Nothing is checked of it.

### Queries

`Queries` extends World with what can be asked of it, as operators on its state:
queries change nothing. A query is a sequence of parts (`&T`, `&mut T`, the two
options, `Has`, `EntityId`, `ArchetypeHash`) and a filter, which is the set of
archetype types it lets through. Per part there is the iterator over a table
(`IterPart`), over a range of its rows (`IterRangePart`), the item of one row
(`FetchPart`) and `contains`; per tuple `InStep`, `FetchRow`, `ContainsTable`; per
query `QueryIter`, `Count`, `IsEmpty`, `AnyRow`, `Fetch`, `ContainsId` and
`ParForEach`, which cuts tables with `Batches`. Archetypes come in no order, as
their keys are hashes: results are functions from types to sequences.

`TypesMut`, `TypesConst`, `ComponentsMut` and `ComponentsConst` are the types a
query or QuerySet declares, `Valid` is `ensure_query_valid`, `Subset` the
assertions of `subset`. `MayMeet` are the pairs of queries that may be iterated
at the same time: those made from two parameters of one system, or of two
systems without an edge, which are valid and disjoint. That the queries of one
QuerySet are not used at the same time is the borrow checker's business.

### TaskGraph, JobPool

`TaskGraph` is the promise: each job is enqueued, starts when those before it
have finished, may yield (a pending future), and finishes, once.

`JobPool` is `Inner`, `Executor` and `Job`. Every access to a queue or counter
is a step:

| actions | code |
|---|---|
| `Enqueue` | `add_child`/`add_child_handle` followed by `enqueue_job` |
| `WaitDone`, `WaitHelp` | the loop of `JobPool::wait` |
| `AwaitReady`, `AwaitPending` | `JobHandle::poll`; `FutureJob::execute` returning `Reenqueue` |
| `Unwrap`, `Panic` | `JobResult::take` and `unwrap`; the panic that `execute_job` catches |
| `Finish`, `Release`, `Retire` | `Job::execute`: the function returned, then each child, then its own counter |
| `PopJob`, `PopNothing`, `StealBatch`, `StealNothing`, `StealFailed`, `Promote` | `run_once`, in its order |
| `TrySucceeds`, `TryFails`, `Timeout` | `worker_thread`: failed tries in a row, then `wait_for` 10 ms |
| `Close`, `Join` | `Inner::drop` |

`Enqueue` is one step: the counter it adds to is not looked at before the
program continues, and a ready job stays ready, so the accesses commute with
what others do. What jobs do is the constant `Program`, the calls of each job
and of the main thread to the pool. `run_graph`, `join`, `enqueue_graph`,
`enqueue_future`, `block_on` and `map_reduce` are such programs, written in
`MCJobPool` with one operator per call (`GraphCalls`, `JoinCalls`,
`MapReduceCalls`). `Inline` are the jobs whose data is in the frame of the
program that hands them in.

### SortedSystems

`sorted_systems` and the recursive `extend_sorted_systems` as a stack machine:
`pending` is the code's own vector, `todo` the rest of the loop of every call.
`NextSystem` is a turn of the outer loop, `VisitAfter` of the inner one (in any
order: `after` is a hash set), `Return` the end of a call. `CallCircular`,
`CallReturns` and `CallDescends` are the three ways a call starts. Systems may
name ids that are not part of the stage.

### Stage

`Stage` composes the schedule with the run of a stage. `FromStage` is
`Schedule::from_stage`, `IsDisjoint` is `QueryProperties::is_disjoint`, `Edges`
is `Schedule::jobs`. The graph is run by `INSTANCE TaskGraph`, which is what
`JobPool` is shown to implement. Running systems read each cell they have access
to and then write those they may write (`Read`, `Write`); what they wrote and saw
is recorded as the sequence of writers. Systems with `Commands` call `id()`
once (`LockId`, `UnlockId`); those with `WorldAccess` hold the lock from `Start`
to `Finish`. A lock that is taken sets `panicked`.

Its `Init` has every stage of `N` systems over the set `Access`, and every
explicit order that names earlier systems only (which is what `Sorted` of
SortedSystems gives) or systems of other stages (`0`); the first names none, as
the assertion at `scheduler.rs:37` demands.

### BuiltStage

The composition of the last two: `SortStep` is `SystemStageBuilder::build`, an
instance of SortedSystems on the builder's systems; `AddStage` makes the
schedule of what comes out, with any accesses and with `after` as it was named;
`RunStep` is a step of Stage. The order Stage takes for granted is the one the
sort gives (`BuiltOK`), and a builder that is not refused gives a stage whose
runs end.

### Commands

`Commands` is what lies between a system that writes a command and the world
that changes: the buffers (`World::commands`), the batch, and the control flow
of `tick`, `run_stage`, `execute_stage` and `run_system` that says whose turn
it is to write.

| action | code |
|---|---|
| `EnsureCommands` | `ensure_commands`: the user writes to the first buffer |
| `ExecuteStage` | the stage starts; `resize_commands`, which never shrinks |
| `ConditionsHold`, `ConditionsFail` | the loop over `should_run`, whose commands go to the first buffer; the early return |
| `StartSystem` | the stage's systems, in any order, one at a time as far as they have `Commands` |
| `RunInside` | `run_system` called by a system with `WorldAccess` in the middle of a stage |
| `Issue` | `spawn`, `entity`, `delete`, `merge_entities`, `insert_id`, `insert_resource`, ... |
| `ReserveId` | `EntityCommands::id`: an insert becomes an init. With a full index it fails and changes nothing; inside a system with `WorldAccess` it panics |
| `StartBatch` | `apply_commands`: drain and `sort_commands` |
| `Apply`, `FailBatch`, `FinishBatch` | one command; the `?` that drops all the others; the end |

What a command does is stated on the level of `EntityStore`, with one component,
and an id for a slot of its own: World and EntityIndex say how it is done.
`SortCommands` is the result of `sort_unstable_by_key`, as the orders of places it
may come from: for short slices it is an insertion sort and keeps equal
elements in order, and it finds slices that are in order already; for others any
order of equal elements may come out.
`SmallSort` is 20 in the standard library. A system with `WorldAccess` runs one other system.

### Persist

A world here is a map from ids to components and one of resources; every value
is different, so one in a wrong place shows. `Save` is `save` with
`count_entries` and the chain of `save_entry`. A load reads one key per step:
`LoadVersionKey`, `LoadComponent`, `LoadResource`, `LoadUnknown`, `EndLoad`, and
`FindVersion`, `PassEntry`, `EndLoadVersion` for `load_version`. The formats are
libraries, modelled by what the code needs of them: `Positions` (who believes
the announced length when there is nothing to write), `IsNext` (a tree of
values sorts its keys), `MapEnds` (bincode counts the announced keys, `left`;
the others look for the end), `NextKeyFails` and `MisreadKey` (what becomes of a
value nobody asked for), and `EndFails` (text and tree check that all was read).

A tree drops a value nobody asked for; text is at the wrong place and fails;
bincode takes the bytes of the value for the next key. The value of the version
is a string like a key, so it makes one key that nobody knows, and reading goes
on at the next entry with one key less to come. Of any other value bincode may
make no key, and fails, or one of any number of bytes, after which it stands at
an entry further on or in the middle of one: `MisreadKey` lets all of this
happen. Assumed is that the keys, which are names of Rust types, do not occur
within values.

## Runs

| run | instance | shows |
|---|---|---|
| `entity_index` | mask 4 (3 slots), 3 generations, reserve up to 3, rows 0 and 1, which are slot numbers too | free list, count and generations are exact; a stale id is rejected until 3 frees; implements IdPool |
| `world` | 3 entities, 2 components, 2 values, all of `Avoid`; batches may fail; 7 kinds of parts and 4 of filters in 8 parameters, parallelism 3 | index agrees with tables, only a batch that fails hides entities from queries and the next one that completes shows them, implements EntityStore, merging two entities of different archetypes moves all; queries agree with the world and with each other, batches cover each row once, what one admitted parameter writes another does not see |
| `world_merge_finding` | violation, see Findings | |
| `world_duplicate_finding` | violation, see Findings | |
| `queries_finding` | violation, see Findings | |
| `job_pool` | 2 workers and main; a graph where `b` comes after `a` and runs a join of its own with a panic in it, a detached graph, a future that awaits a job, drop | jobs in one place, counters exact, waits end only when they may, no job outlives its frame, implements TaskGraph; every job finishes, main returns |
| `job_pool_block_on_finding` | violation, see Findings | |
| `job_pool_map_reduce_finding` | violation, see Findings | |
| `stage` | all builders of at most 3 systems over 3 ids, all `after` relations; stages of 3 systems over 5 kinds of access | sorted and stable, refused as circular only if so; no race, serial result, explicit order, lock never taken twice, every run ends |
| `commands` | stages of up to 2 systems, 2 ids, 1 value, up to 3 commands in the buffers; `SmallSort` 2 | no command is lost or left to the next stage, every reserved id has one init, resources change after entities, short batches do what was issued |
| `commands_order_finding` | violation, see Findings | |
| `persist` | ids on 2 indices, one of them with 2 generations, 2 types as components and as resources, 5 chains, 3 versions and none, 3 formats | what writer and reader both know comes back, except what bincode loses without a word; why a load or load_version fails |

Why these bounds are enough. A free list of three slots has a head, a middle
and an end, growth splices in front of a list that is not empty, and an index
can be full, grown and full again; three generations make the wrap part of every
run and leave two frees before it. With three entities a table has a first, a middle and a last row, so a swap-remove moves a row
that is not the one removed, two rows can move in one merge, and a third entity
can be the one displaced by both; two components give the four types {}, A, B,
AB, hence all four cases of merge and two tables of one type. In the pool two
workers can steal from each other and from the main thread, a job can be in a
wait list of any of them, and a thread can be two programs deep. `MaxFails` is
8 in the code; 2 shortens the way to sleep and takes no
behaviour away, since a try may fail for any number of rounds through wake-ups.
Three systems make a chain of conflicts whose ends do not conflict, and a
system between two others that do. A parallelism of 3 cuts tables of up to
three rows in batches of one or two rows, with a rest of none, one or two and an
empty last batch. In Persist two types as component and as resource make keys
that differ in kind only, and the chains overlap in all ways: subsets, other
orders, types as the other kind, and none. With `SmallSort` 2, three commands are
the shortest batch that an unstable sort can disturb (two of one type, one of
another), and two systems are what it takes for one of them to be running
another while a second buffer is in use. The constants of a run are written in its
`.cfg`; bounds that are constants are `IndexMask`, `MaxReserve`, `N`,
`MaxCommands`, `SmallSort` and `MaxFails`. `MCWritten` leaves out commands that
remove a component and that merge an entity with itself, to keep the run
short.

Deadlock is checked in every run but `stage`, where the sort panics and the run
of a stage ends.

## Fairness

EntityIndex, World, Commands and Persist are sequential, and have only safety
properties.

JobPool: every thread takes steps (weak fairness of `Step(t)`, `Close` and
`Join`): threads are run by the operating system, and the wait of a sleeping
worker has a timeout in the code (`job_system.rs:364`). `Look` and `PopJob` are
strongly fair: a thread that looks at its own queue again and again while there
are jobs in it gets one in the end. Without it two threads could steal the same
job from each other for ever, each between the other's steal and its next pop;
the code steals and pops in consecutive iterations, so this needs an unbounded
run of coincidences. No fairness is assumed of which victim is robbed or of
which sleeper a `notify_one` wakes.

BuiltStage: weak fairness of `BuiltNext`. That systems return is assumed of the
user; that enqueued systems get run is what `job_pool` shows; the sort is a
program that runs.

## Proofs

`EntityIndexProofs`, from `IndexAssumption` (a mask above 2, at least two
generations, a sentinel beyond the slots, a null pointer that is no table). The
inductive invariant adds to the checked ones a description of the list,
`Linked`: links of free slots stay among free slots, no two are equal, none
leads to the head, and every closed set contains all free slots. Injectivity is
what keeps unlinking right, the last part says that the whole list is reached
from the head. `FreeListExact` follows by showing that the set of slots a walk
visits is the set `Linked` speaks about. One lemma per operation on a list
(push, unlink, chain), one per action, then `TypeCorrect`, `FreeListIsExact`,
`HeldIdsAreCurrent`, `CountIsExact`, the refinement `Spec => PoolSpec`, and
`StaleIdsAreRejected`, for which the invariant ties the history of a slot to its
generation: an id freed n times ago differs from it by n modulo the number of
generations.

`SortedSystemsProofs`, for any `Ids`. The invariant of a walk that has
not panicked: every system is unvisited, pending or placed, just once
(`Partition`); what a pending call has left behind in its loop is placed, but for the call it
waits for (`CallsExact`); what is placed comes after all it names
(`OutSorted`); the outer loop leaves no system unvisited (`LoopDone`).
`CallsExact` is what makes `Return` keep `OutSorted`. Paths through `after` are
stated without recursion: a leads to b if b is in every set that has what a names
and is closed under naming. `WalkInv` says that each pending call leads to the
next ones, so that a call of a pending system closes a cycle
(`CircularIsCyclic`), and that what is placed comes after what was registered
before it, unless that, or something registered still earlier, leads to it
(`OrderOfRegistration`).

`StageProofs`, from `StageAssumption` (components and resources are disjoint, a
system with `WorldAccess` has no other access, as its constructor asserts). The
invariant: what a system waits for has finished when it runs (`ParentsFirst`),
and when the lock is taken a running system holds it (`LockOK`). Because
`is_disjoint` is symmetric, the later of two systems that conflict finds the
earlier in the history (`ConflictsOrdered`), so systems that run together are
disjoint. Hence `NoRaces`, `ExplicitOrder` and `NoLockTwice`, for any number of
systems and types. `DataOK` adds what systems have read and written, for
`TypeCorrect`, and `SerialInv` in which order: systems a system conflicts with
are its parents if they come before it, so they have finished and written all
they write; if they come after it they wait for it and have written nothing.
What it finds in a cell are then the writers before it, each once and in the
order of the stage (`SerialRun`).

The second part of `StageProofs` is about BuiltStage and joins the two. Its invariant is that of the sort and, once the
stage is part of the world, that of its run (with `WalkInv` and `SerialInv`). The step that counts is `AddStage`
(`AddStageOrdered`): a system that another one names is in the result once
(`Partition`) and somewhere before it (`OutSorted`), so its place is the lower
one, and the stage that is added is an initial state of Stage. Hence, of
whatever a builder is given: the result is sorted (`BuiltSorted`), what
`from_stage` asserts is true (`BuiltStagesOK`), builders are refused for a reason
(`BuiltRefusals`) and keep the order of registration (`BuiltInRegisteredOrder`), and the stage runs without
races, with the result of a serial run, in the order asked for, and without
taking the lock twice (`BuiltStagesRun`).
Since the module has the proofs of SortedSystems by INSTANCE and BuiltStage has
an instance of its own, a few lemmas (`SameInit`, `SameNext`, ...) say that the
two are the same.

`JobPoolProofs`, for any number of threads and jobs, any graph and any program,
from `CountersAssumption`: children are added to a counter by the program that
made it, before the job of the counter is handed in or the handle waited for.
In the code a root is moved into `enqueue_job` and handles are local variables
of `join`, `map_reduce` and `scope`, so that Rust grants it; not covered is a
`Scope` that its own jobs use to spawn more. The inductive invariant: an enqueued
job is in one queue or one wait list and nothing else is (`QueuesOK`), a running
one on one stack (`StacksOK`), a job has its children until it has finished
(`ChildrenOK`), what is queued or runs waits for nothing (`Runnable`), a counter
is the number of decrements to come (`CountersExact`). The last two need
each other: a job leaves a wait list when its counter is at one, and that
nothing is left to count it down is what the number says. From it
`JobsInOnePlace`, `CountersNeverDrift`, `WaitsAreCovered`, and the refinement of
TaskGraph (`RunsTaskGraphs`; TaskGraph's specification has safety only, so
nothing of it is left out). `InlineDataOutlivesJobs` has the hypothesis
`InlineWaited`: between handing an inline job in and waiting for it the program
does nothing that may panic. `join` and `scope` keep it, `map_reduce` does not;
that is the finding.

`WorldProofs`, for any number of entities, components and values, and all but
`MergesMoveAll` under `Careful`: callers keep clear of `same_archetype`, `duplicate_archetype` and
`vacuum_in_use` (the first two are findings), while batches may fail anywhere.
An operation that moves entities is a sequence of edits of the index and the
tables: an entity leaves its row (and the last one takes it over), enters a
table at its end, takes over the row of another one, has values replaced, a
table is made or dropped. `Good` says that index and tables agree for a set of
live entities; each edit takes one `Good` to another, for a set of live entities that may
differ, and leaves the components of everybody else alone. That is what the four cases of
`merge_entities` need: in the middle of one, an entity is in two tables or in
none. `WorldInv` adds what the two maps point to, and `StagingIdle`: a type that
is in both `archetypes` and `staging` has nobody in the staging table, which
is why a promotion never replaces a table. `NewAddress` is a choice, and that
there is something to choose is a pigeonhole argument on `Entities` (`RoomForATable`),
for which `WorldAssumption` says that they are finite. Theorems: `TypeCorrect`,
`IndexFollowsTables`, `EntitiesStayVisible`,
`TablesNeverReplaced`, and `ImplementsStore`, the refinement of EntityStore.
`MergesMoveAll` does without `Careful`: it is about one merge of two entities of
different archetypes (`MergeMovesOthers`), in a state where index and tables
agree, and follows the rows of both through the three cases. Of one archetype
the claim is false (`MergeMovesAll`, the finding), so nothing is left out by it.
`WorldInv` was checked on the instance of the run `world` before it was proved.

`QueriesProofs`, for any world and any queries, from `WorldInv` and, for the
first two theorems, `Careful`. `SystemsAssumption` says that a query has at least one part
and that there are finitely many component types. `IterOfTable`, `IterOfRange` and
`FetchOfTable` say what the iterators over a table, over a range of its rows and
the fetch of a row yield: the same items, or nothing where a column is
missing. Entities the query should show and places of its items are one to one
(`PlaceOfFound`, `FoundAtPlace`, `PlacesDiffer`), which gives how often an item
comes, and with `CountHolds` `QueriesShowTheWorld`. `BatchesMeet` says that the batches cut
the rows without gap or overlap, and `PiecesMakeWhole` that such pieces make up
the whole (`ParallelBatches`). `AdmittedQueriesDoNotMeet` is about sets of types alone and needs no invariant.
The fold of `Count` and the recursion of `FlattenSeq` are functions that satisfy an
equation; a closed form satisfies it too, and that two such functions are equal
is shown at the smallest argument at which they would differ
(`SmallestNumber`, `SmallestSet`).

`CommandsProofs` has as its invariant, besides `TypeOK`, `Phases` (what the world
is doing says which buffers and systems may be left: while a batch is applied the
buffers are empty and nobody writes) and `OneInit`, which is `ReservedHasInit` by
places: an Init is at a place of a buffer or of the batch, no two for one id, and
its id is reserved. `ReservedHasInit` alone is not inductive: `FailBatch` drops
the batch and needs to know that no Init is in a buffer then. `FlattenPlaces`
makes the places of a concatenation one to one with those of its parts, which is
all that is used of `FlattenSeq`; `SortFacts` does that for the sort. For `BatchAsIssued` a
second invariant, `Progress`, says that the world is as the commands applied so
far leave it, in the order of the sort. `SortedRunEnds` then compares that order
with the one issued: entity commands do the same to entities whatever other
commands come in between (`EntityCommandSame`, `OthersLeaveEntities`), and a cut of the sorted
commands, `Cut`, stands for how far each type has come among those issued. It
assumes `KeepsEqual`, as the property does: without it batches can be reordered.

`PersistProofs`, for any world, any chains, any two persisters, from
`PersistAssumption` alone. `EntriesLaid` says what `save_entry` leaves behind: an
entry for each type of the chain with something to save and no other, as many
as `count_entries` announces; it is an induction along the chain, in the
manner of the two modules above. Hence `PositionsOK`: a reader that believes
the announced length, one that looks for the end and one that has the map in
memory come to the same entries. Of a load the invariant (`LoadedOK`) says that
the world so far is the part of the saved one with some of the types read or
lost so far that the reader knows, and with all of them unless bincode has met a
type the reader lacks (`Exact`); this does not depend on the order. `RoundTrip`
speaks of the end only and is no invariant of a step. `ReadingOK` has the reasons
a load may fail for, a value that is skipped only under a key the reader
has no use for, and where bincode is by the number of keys it has left:
`CountedExact` says that it is at the entry of that number, or, once it has taken
an unasked version for a key, one entry behind it, so that the last entry is the
one it loses (`AllButLost`). `CountedFirst` and `TextOK` say the same of
`load_version` and of text. Theorems: `TypeCorrect`, `LoadedIsSaved`, `AnswersFit`,
and `LoadNeverPanics`: the `unwrap` of `insert_id` is safe, which the model has as
a guard of `LoadComponent` and the run as absence of deadlock.

Every safety property of the passing runs is stated by a theorem. Liveness under
fairness (`EveryJobFinishes`, `MainReturns`, `StageEnds`) stays with TLC: the prover
has no ENABLED.

## Findings

* `merge_entities` of two entities of one archetype (`lib.rs:751`) swaps the
  values and the index entries of the rows and deletes `lhs` at its new row: the
  values of `lhs` are lost, and the table's list of entities names the freed
  `lhs` where `rhs` is. The doc above it promises the values of `lhs`.
* `remove_component` and `merge_entities` look for the target table in
  `archetypes` only (`lib.rs:430`); when it is among the staging tables, in use
  within the same batch, a second table of the type is made and one of them is
  dropped with its rows at the end of the batch (`lib.rs:252`).
* `enqueue_graph` followed by `block_on` of its handle never returns
  (`job_system.rs:180`): the root job is in the wait list of a thread that will
  not look at it again, and no other thread may.
* `map_reduce` hands in the reduction of the left half as a job in its own
  frame and reduces the right half before it waits (`job_system.rs:124`). If
  mapping an item of the right half panicked, the unwrap of its result
  unwinds that frame while the left job is queued or running.
* `types_mut` of `Option<&mut T>` does not look whether T is in the set
  (`query.rs:917`), as that of `&mut T` does: a query with two of them passes
  `ensure_query_valid`, and its items hold two mutable references to one component.
* The sort key of entity commands is `()` (`commands.rs:191`, a semicolon), so
  a batch is not ordered into inserts, updates and deletes as the doc above
  promises; an update issued after a delete of its entity fails and ends the
  batch. If the key is repaired, `BatchAsIssued` will have to go: it says that
  commands are applied as issued, which is what the code does now.

* `from_stage` keeps an explicit order between any two systems of a stage
  (`scheduler.rs:47`), and `par_ordering_test` relies on that where they have no
  access in common. The doc of `after` (`systems.rs:227`) says that such systems "may
  still execute in parallel". `AfterRespected` states what code and test say; if
  the doc is what was meant, the property has to go.
* The value of a key `load` has no use for is never asked for (`serde.rs:386`, and
  `serde.rs:198` for a version the reader was not given), so the tolerance
  that the comment at `serde.rs:383` speaks of exists for trees of values only. From
  JSON text the load fails (`LoadAnswers` says when). bincode takes the value for the next
  key and may return Ok with types lost that the reader knows; if only the version
  is not asked for it always does, and loses the type of the last entry
  (`RoundTrip`, `Lost`).
* The doc of `with_version` (`serde.rs:47`) says that minor and patch differences are
  accepted; code and tests refuse a payload newer than the persister
  (`serde.rs:200`, `LoadAnswers`).

The last three are found in properties of passing runs: these state what the
code does, for each case, and quote the words it contradicts.

Noticed while reading, listed as hazards: buffers of commands are applied in
order of registration, whatever `after` says, and nothing says what users may
expect; in a batch of more than 20 commands the sort by type is unstable, so
that an update may come before the init of its entity; `id()` panics in a system
run by a system with `WorldAccess`; `load_version` returns before the rest of the
map is read, which serde_json reports as an error for every world that is not
empty (`LoadAnswers`).

## Not modelled

* Column memory layout, drop glue and alignment (`table.rs`): columns are
  sequences of values. Rust's types carry most of what could go wrong there.
* Weak memory: steps are sequentially consistent. Counters in `job_system.rs` are
  accessed with relaxed ordering, which TLA+ steps cannot show.
* Panics that are not caught: a panic ends a sequential model (no step). JobPool
  has those that `execute_job` catches; `SystemJob` catches none, and what a panic
  of a system leaves of a pool is stated nowhere.
* Collisions of archetype hashes (xor of type ids).
* Resources are a map (Persist saves it, Stage has the accesses); tracing, macros
  and benches have no behaviour of their own.
* Payloads other than those `save` writes, and the index of a loaded world: its
  ids are a set with at most one per index. Generations of slots that were
  free start anew after a load.
* Without the feature `parallel` all systems share the first buffer; stages and
  commands are those of the feature.
* What a vacuum or a clone loses after a failed batch (see `Avoid`), and a pending
  future that starves the wait list of its thread (`job_system.rs:395`): in the run
  `job_pool` the awaited job has no dependencies. Both are hazards without a
  property that covers them.
* What else a system does with the world it gets by `WorldAccess`, threads that
  do not belong to a pool: see the plan.

## Plan

Done, in this order: EntityIndex with IdPool and EntityGenerations; World with
EntityStore; TaskGraph and JobPool; SortedSystems; Stage over TaskGraph;
Commands with the control flow of stages around it; Persist; Queries over World,
with clones; panics and `map_reduce` in JobPool; BuiltStage.

Next modules:

1. `NestedRun`: what a system with `WorldAccess` may call on the world while
   it runs: `run_stage` and `add_stage` while `execute_stage` holds a reference
   into the table of stages, `vacuum` and merges while ids are reserved.
2. `ThreadIndex`: the global thread index, several pools, threads that belong
   to none; who may own a queue.

Proofs to come are those of the new modules. Where a new module has questions that an existing run can
ask as well, they are added to that run.

Bounds of the runs to come are to stay those of the modules they build on:
three entities, two or three systems, two workers.
