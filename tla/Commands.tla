------------------------------ MODULE Commands ------------------------------
(***************************************************************************)
(* The commands of cecs (src/src/commands.rs): systems write them to       *)
(* buffers while they run, and World::apply_commands (src/src/lib.rs)      *)
(* later empties the buffers, sorts the commands and applies them, up to   *)
(* the first one that fails.  An id can be reserved before its entity      *)
(* exists.                                                                 *)
(*                                                                         *)
(* What a command does to an entity is as EntityStore promises (World is   *)
(* shown to implement it); one component stands for all, and an id for a   *)
(* slot of its own.                                                        *)
(*                                                                         *)
(* The buffers live longer than a batch: they are made when a stage is     *)
(* executed, are shared by its conditions, its systems, by what a system   *)
(* with WorldAccess runs in the middle of the stage, and by the user of    *)
(* the world between stages.  Systems with Commands run one at a time, in  *)
(* any order (see Stage).                                                  *)
(***************************************************************************)
EXTENDS Naturals, SequencesExt

CONSTANTS
  MaxSystems,   \* bound on the systems of a stage
  Ids,          \* ids of entities
  Values,       \* of the component, and of the resource
  None,         \* no component, no resource
  SmallSort,    \* up to so many elements sort_unstable keeps equal ones in
                \* their order (20 in the standard library)
  Written,      \* the commands that systems write
  MaxCommands   \* bound on the commands in the buffers

ASSUME CommandsAssumption ==
  /\ MaxSystems \in Nat /\ SmallSort \in Nat /\ MaxCommands \in Nat
  /\ None \notin Values

VARIABLES
  world,      \* what commands change: see Worlds
  buffers,    \* World::commands, in the order systems were registered
  batch,      \* the commands apply_commands has yet to apply
  issued,     \* history: the batch before it was sorted, and the world then
  mode,       \* what the world does: see Modes
  writer,     \* the buffer of what runs now, or 0
  left,       \* the systems of the stage that have yet to run
  inside      \* whether a system of the stage runs another one

vars == <<world, buffers, batch, issued, mode, writer, left, inside>>
running == <<mode, writer, left, inside>>
-----------------------------------------------------------------------------
Buffers == DOMAIN buffers
Modes == {"idle", "conditions", "systems", "applying"}
applying == mode = "applying"

Data == Values \union {None}

\* CommandPayload and EntityAction.  The component commands of a payload are
\* one value: the last one given, or None for remove ("fetch") or for an empty
\* payload (the others).
EntityCommands ==
  [type : {"entity"}, action : {"fetch", "init", "insert_id"}, id : Ids, value : Data]
    \union [type : {"entity"}, action : {"insert"}, value : Data]
    \union [type : {"entity"}, action : {"delete"}, id : Ids]
    \union [type : {"entity"}, action : {"merge"}, src : Ids, dst : Ids]

Payloads ==
  EntityCommands \union [type : {"resource"}, value : Data] \union [type : {"reserve"}]

\* Only id() makes an Init.
ASSUME WrittenAssumption ==
  /\ Written \subseteq Payloads
  /\ \A c \in Written : c.type = "entity" => c.action # "init"

\* The status of an id is as in World: a reserved id has a slot and no entity.
Worlds ==
  [status   : [Ids -> {"unused", "reserved", "live", "freed", "leaked"}],
   data     : [Ids -> Data],
   resource : Data]

Forgotten == [commands |-> <<>>]

Init ==
  /\ world = [status |-> [e \in Ids |-> "unused"], data |-> [e \in Ids |-> None],
              resource |-> None]
  /\ buffers = <<>>
  /\ batch = <<>>
  /\ issued = Forgotten
  /\ mode = "idle"
  /\ writer = 0
  /\ left = {}
  /\ inside = FALSE
-----------------------------------------------------------------------------
(***************************************************************************)
(* Who writes commands: World::tick, run_stage, run_system and             *)
(* execute_stage.  run_system is a stage of one system.                    *)
(***************************************************************************)
\* Mutant: buffers beyond those that are needed now are dropped.
ResizedShrinks(bs, n) == [b \in 1..n |-> IF b <= Len(bs) THEN bs[b] ELSE <<>>]

\* resize_commands: "do not shrink".
Resized(bs, n) ==
  [b \in 1..(IF Len(bs) < n THEN n ELSE Len(bs)) |-> IF b <= Len(bs) THEN bs[b] ELSE <<>>]

\* The user of the world gets a handle on the first buffer.
EnsureCommands ==
  /\ mode = "idle"
  /\ buffers' = Resized(buffers, 1)
  /\ writer' = 1
  /\ UNCHANGED <<world, batch, issued, mode, left, inside>>

\* A tick is a number of stages, and nothing between them.  Conditions, if
\* there are any, come first and all use the first buffer.
ExecuteStage(n) ==
  /\ mode = "idle"
  /\ mode' = "conditions"
  /\ buffers' = Resized(buffers, n)
  /\ writer' = 1
  /\ left' = 1..n
  /\ UNCHANGED <<world, batch, issued, inside>>

ConditionsHold ==
  /\ mode = "conditions"
  /\ mode' = "systems"
  /\ writer' = 0
  /\ UNCHANGED <<world, buffers, batch, issued, left, inside>>

\* Mutant: a stage that should not run does not apply commands either.
ConditionsFailLeaves ==
  /\ mode = "conditions"
  /\ mode' = "idle"
  /\ writer' = 0
  /\ left' = {}
  /\ UNCHANGED <<world, buffers, batch, issued, inside>>

\* The early return of execute_stage; commands are applied all the same.
ConditionsFail ==
  /\ mode = "conditions"
  /\ mode' = "systems"
  /\ writer' = 0
  /\ left' = {}
  /\ UNCHANGED <<world, buffers, batch, issued, inside>>

StartSystem(s) ==
  /\ mode = "systems" /\ ~inside
  /\ s \in left
  /\ writer' = s
  /\ left' = left \ {s}
  /\ UNCHANGED <<world, buffers, batch, issued, mode, inside>>

\* A system with WorldAccess runs a system that writes commands.
RunInside(s) ==
  /\ mode = "systems" /\ ~inside
  /\ s \in left
  /\ buffers' = Resized(buffers, 1)
  /\ writer' = 1
  /\ left' = left \ {s}
  /\ inside' = TRUE
  /\ UNCHANGED <<world, batch, issued, mode>>
-----------------------------------------------------------------------------
(***************************************************************************)
(* Writing commands.                                                       *)
(***************************************************************************)
\* Commands::spawn, entity, insert_id, delete, merge_entities, ...
Issue(c) ==
  /\ writer \in Buffers
  /\ Len(FlattenSeq(buffers)) < MaxCommands
  /\ buffers' = [buffers EXCEPT ![writer] = Append(@, c)]
  /\ UNCHANGED <<world, batch, issued, running>>

\* The handle a system calls id() on is that of the last command it wrote.
\* Inside a system with WorldAccess the lock is taken, and id() panics.
CanReserve(e) ==
  /\ ~inside
  /\ writer \in Buffers
  /\ buffers[writer] # <<>>
  /\ Last(buffers[writer]).type = "entity" /\ Last(buffers[writer]).action = "insert"
  /\ world.status[e] = "unused"

\* Mutant: the command still asks for an id of its own.
ReserveIdForgets(e) ==
  /\ CanReserve(e)
  /\ world' = [world EXCEPT !.status[e] = "reserved"]
  /\ UNCHANGED <<buffers, batch, issued, running>>

(***************************************************************************)
(* EntityCommands::id on a spawned entity: "Insert actions can become Init *)
(* actions if the id is requested".  When the index is full it returns an  *)
(* error and changes nothing.                                              *)
(***************************************************************************)
ReserveId(e) ==
  /\ CanReserve(e)
  /\ world' = [world EXCEPT !.status[e] = "reserved"]
  /\ buffers' = [buffers EXCEPT ![writer][Len(buffers[writer])] =
       [type |-> "entity", action |-> "init", id |-> e, value |-> @.value]]
  /\ UNCHANGED <<batch, issued, running>>
-----------------------------------------------------------------------------
(***************************************************************************)
(* sort_commands sorts by type with sort_unstable_by_key: any order of     *)
(* commands of the same type may result, unless there are few commands or  *)
(* they are in order already.  The sort of the entity commands that        *)
(* follows has keys that are all equal and leaves them as they are.        *)
(***************************************************************************)
CmdTy(c) == CASE c.type = "entity" -> 0 [] c.type = "resource" -> 1 [] c.type = "reserve" -> 2

InOrder(cs) == \A i, j \in DOMAIN cs : i < j => CmdTy(cs[i]) <= CmdTy(cs[j])

KeepsEqual(cs) == Len(cs) <= SmallSort \/ InOrder(cs)

\* The commands cs, those at the places p in turn.
Permuted(cs, p) == [i \in DOMAIN cs |-> cs[p[i]]]

KeepsPlaces(cs, p) ==
  \A i, j \in DOMAIN cs : i < j /\ CmdTy(cs[p[i]]) = CmdTy(cs[p[j]]) => p[i] < p[j]

\* The orders of the places of cs that are sorts.
Sorts(cs) == {p \in SetToSeqs(DOMAIN cs) : InOrder(Permuted(cs, p))}

\* Mutant: the commands are not sorted by type.
SortCommandsNot(cs) == {cs}

\* Mutant: few commands may change their order, too.
SortCommandsAny(cs) == {Permuted(cs, p) : p \in Sorts(cs)}

SortCommands(cs) ==
  {Permuted(cs, p) : p \in {q \in Sorts(cs) : KeepsEqual(cs) => KeepsPlaces(cs, q)}}

(***************************************************************************)
(* What a command does to the world w, and when it fails.                  *)
(***************************************************************************)
IsLive(w, e) == w.status[e] = "live"

IsInit(c, e) == c.type = "entity" /\ c.action = "init" /\ c.id = e

\* insert_id ignores AlreadyInserted, which is what an id gets that exists,
\* reserved or live; the check of is_id_valid follows.
Fails(c, w) ==
  /\ c.type = "entity"
  /\ \/ c.action = "fetch" /\ ~IsLive(w, c.id)
     \/ c.action = "insert_id" /\ w.status[c.id] \in {"reserved", "leaked"}
     \/ /\ c.action = "merge" /\ c.src # c.dst
        /\ ~(IsLive(w, c.src) /\ IsLive(w, c.dst))

WithEntity(w, e, value) == [w EXCEPT !.status[e] = "live", !.data[e] = value]

\* Mutant: the component of a deleted entity stays behind.
WithoutEntityKeepsData(w, e) == [w EXCEPT !.status[e] = "freed"]

WithoutEntity(w, e) == [w EXCEPT !.status[e] = "freed", !.data[e] = None]

\* An id that is inserted again, with nothing to insert, keeps what it has.
ComponentAfter(c, w) ==
  IF c.action = "insert_id" /\ c.value = None THEN w.data[c.id] ELSE c.value

EntityEffect(c, w) ==
  CASE c.action \in {"fetch", "init", "insert_id"} -> WithEntity(w, c.id, ComponentAfter(c, w))
    [] c.action = "insert" -> w           \* an entity whose id nobody knows
    [] c.action = "delete" -> IF IsLive(w, c.id) THEN WithoutEntity(w, c.id) ELSE w
    [] c.action = "merge"  ->
         IF c.src = c.dst THEN w
         ELSE WithoutEntity([w EXCEPT !.data[c.dst] =
                               IF w.data[c.src] = None THEN @ ELSE w.data[c.src]], c.src)

Effect(c, w) ==
  CASE c.type = "entity"   -> EntityEffect(c, w)
    [] c.type = "resource" -> [w EXCEPT !.resource = c.value]
    [] c.type = "reserve"  -> w
-----------------------------------------------------------------------------
(***************************************************************************)
(* World::apply_commands.                                                  *)
(***************************************************************************)
\* It follows every stage and every run of a system; users call it, too.
StartBatch ==
  /\ \/ mode = "systems" /\ (inside \/ left = {})
     \/ mode = "idle"
  /\ mode' = "applying"
  /\ writer' = 0
  /\ buffers' = [b \in Buffers |-> <<>>]
  /\ batch' \in SortCommands(FlattenSeq(buffers))
  /\ issued' = [commands |-> FlattenSeq(buffers), world |-> world]
  /\ UNCHANGED <<world, left, inside>>

Apply ==
  /\ applying
  /\ batch # <<>> /\ ~Fails(Head(batch), world)
  /\ world' = Effect(Head(batch), world)
  /\ batch' = Tail(batch)
  /\ UNCHANGED <<buffers, issued, running>>

EndBatch ==
  /\ mode' = IF inside THEN "systems" ELSE "idle"
  /\ inside' = FALSE
  /\ issued' = Forgotten
  /\ UNCHANGED <<writer, left, buffers>>

\* The commands left are dropped; a reserved id among them is never freed.
\* tick panics with the error and leaves out the stages that follow; all
\* others return it, and the stage goes on if it came from inside.
FailBatch ==
  /\ applying
  /\ batch # <<>> /\ Fails(Head(batch), world)
  /\ world' = [world EXCEPT !.status = [e \in Ids |->
                 IF \E i \in DOMAIN batch : IsInit(batch[i], e) THEN "leaked" ELSE @[e]]]
  /\ batch' = <<>>
  /\ EndBatch

FinishBatch ==
  /\ applying
  /\ batch = <<>>
  /\ EndBatch
  /\ UNCHANGED <<world, batch>>

Next ==
  \/ EnsureCommands
  \/ \E n \in 0..MaxSystems : ExecuteStage(n)
  \/ ConditionsHold \/ ConditionsFail
  \/ \E s \in left : StartSystem(s) \/ RunInside(s)
  \/ \E c \in Written : Issue(c)
  \/ \E e \in Ids : ReserveId(e)
  \/ StartBatch \/ Apply \/ FailBatch \/ FinishBatch

Spec == Init /\ [][Next]_vars
-----------------------------------------------------------------------------
(***************************************************************************)
(* Properties.                                                             *)
(***************************************************************************)

\* Only entities that exist have components.
TypeOK ==
  /\ world \in Worlds
  /\ \A e \in Ids : world.data[e] # None => IsLive(world, e)
  /\ \A b \in Buffers : \A i \in DOMAIN buffers[b] : buffers[b][i] \in Payloads
  /\ \A i \in DOMAIN batch : batch[i] \in Payloads
  /\ mode \in Modes
  /\ writer \in Buffers \union {0, 1}
  /\ left \subseteq 1..MaxSystems /\ left \subseteq Buffers
  /\ inside \in BOOLEAN 

(***************************************************************************)
(* "Id must be an allocated but uninitialized entity" (lib.rs:282): every  *)
(* Init on its way names a reserved id, no two the same one, so no entity  *)
(* gets two rows; and every reserved id has its Init, unless a batch       *)
(* failed.                                                                 *)
(***************************************************************************)
Pending == FlattenSeq(buffers) \o batch

Inits(e) == {i \in DOMAIN Pending : IsInit(Pending[i], e)}

ReservedHasInit ==
  \A e \in Ids : Cardinality(Inits(e)) = IF world.status[e] = "reserved" THEN 1 ELSE 0

(***************************************************************************)
(* "Sort actions by type": resources change only once all entity commands  *)
(* of the batch have succeeded, so a batch that fails changes none.        *)
(***************************************************************************)
EntitiesFirst ==
  [][world'.resource # world.resource => \A i \in DOMAIN batch : CmdTy(batch[i]) # 0]_vars

(***************************************************************************)
(* A batch that is not too long, or in order already, does what its        *)
(* commands do in the order in which they were issued, buffer by buffer:   *)
(* it fails if that fails, and leaves the same entities and, unless it     *)
(* fails, the same resource behind.                                        *)
(***************************************************************************)
ApplyNext(run, c) ==
  IF run.failed THEN run
  ELSE IF Fails(c, run.world) THEN [run EXCEPT !.failed = TRUE]
  ELSE [run EXCEPT !.world = Effect(c, run.world)]

AsIssued ==
  FoldLeft(ApplyNext, [failed |-> FALSE, world |-> issued.world], issued.commands)

BatchAsIssued ==
  [][applying /\ KeepsEqual(issued.commands) =>
       /\ FinishBatch => world = AsIssued.world /\ ~AsIssued.failed
       /\ FailBatch => world.data = AsIssued.world.data /\ AsIssued.failed]_vars

(***************************************************************************)
(* Commands leave the buffers all at once, into the batch, also those that *)
(* systems with other buffers wrote before a stage of fewer systems runs,  *)
(* or a system in the middle of the stage.                                 *)
(***************************************************************************)
CommandsKept ==
  [][Len(FlattenSeq(buffers')) < Len(FlattenSeq(buffers)) =>
       Len(batch') = Len(FlattenSeq(buffers))]_vars

(***************************************************************************)
(* "apply commands after each stage" (lib.rs:613): from one stage of a     *)
(* tick to the next no command stays behind, whether the stage ran or not, *)
(* and whatever ran inside it: only the user writes between stages.        *)
(***************************************************************************)
StagesSeeCommands ==
  mode = "idle" /\ writer = 0 => FlattenSeq(buffers) = <<>> /\ left = {}

(***************************************************************************)
(* "Entity Commands ordering: insert actions, update actions, delete       *)
(* actions" (commands.rs:161).                                             *)
(***************************************************************************)
ActionTy(c) ==
  CASE c.action \in {"init", "insert_id", "insert"} -> 0
    [] c.action \in {"fetch", "merge"} -> 1
    [] c.action = "delete" -> 2

DocumentedOrder ==
  \A i, j \in DOMAIN batch :
    i < j /\ batch[i].type = "entity" /\ batch[j].type = "entity" =>
      ActionTy(batch[i]) <= ActionTy(batch[j])
=============================================================================
