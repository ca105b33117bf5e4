------------------------------- MODULE World -------------------------------
(***************************************************************************)
(* The entity store of cecs::World (src/src/lib.rs) over its archetype     *)
(* tables (src/src/table.rs): entities move between tables when their set  *)
(* of components changes, rows are removed by swapping in the last row,    *)
(* and the index must follow every such move.                              *)
(*                                                                         *)
(* A table is identified by its address <<ty, k>>: ty is the set of        *)
(* components of its columns (the code hashes the set by xor of TypeIds,   *)
(* taken here to be free of collisions; the unit column every table has is *)
(* not shown) and k tells apart tables of the same ty that exist at the    *)
(* same time.  Entities are ids the index never issues twice, which is     *)
(* what EntityIndex promises; loc is the index entry of an id.             *)
(*                                                                         *)
(* Commands of one batch are applied one per step.  A command with a       *)
(* payload of several component changes is applied as that many steps on   *)
(* the same entity: the world is exclusively borrowed, nobody looks at it  *)
(* in between, and a step that fails ends the whole batch either way.      *)
(***************************************************************************)
EXTENDS Naturals, Sequences, FiniteSets

CONSTANTS
  Entities,    \* entity ids
  Components,  \* component types, without ()
  Values,      \* component values
  Avoid        \* situations the callers stay clear of, see below

(***************************************************************************)
(* Members of Avoid: "same_archetype": merging two entities of one         *)
(* archetype; "duplicate_archetype": leaving or merging into an archetype  *)
(* whose table is in use but still among the staging tables;               *)
(* "failed_batch": commands that make apply_commands return early;         *)
(* "vacuum_in_use": calling vacuum or clone while a failed batch has left  *)
(* staging tables with rows.                                               *)
(***************************************************************************)
ASSUME WorldAssumption ==
  /\ IsFiniteSet(Entities)
  /\ Avoid \subseteq {"same_archetype", "duplicate_archetype", "failed_batch",
                      "vacuum_in_use"}

VARIABLES
  status,      \* of an id: "unused", "reserved", "live", "freed", "leaked"
  loc,         \* index entry of an id: its table and row, or Nowhere
  tables,      \* the tables in memory: [address -> table]
  archetypes,  \* World::archetypes: [ty -> address]
  staging,     \* World::archetypes_staging: [ty -> address]
  applying     \* whether apply_commands is running

vars == <<status, loc, tables, archetypes, staging, applying>>
-----------------------------------------------------------------------------
VOID_TY == {}
Nowhere == [table |-> <<>>, row |-> 0]
Live == {e \in Entities : status[e] = "live"}

Bundles == UNION {[cs -> Values] : cs \in (SUBSET Components) \ {{}}}

EmptyTable(ty) == [entities |-> <<>>, columns |-> [c \in ty |-> <<>>]]

Init ==
  /\ status = [e \in Entities |-> "unused"]
  /\ loc = [e \in Entities |-> Nowhere]
  /\ tables = [p \in {<<VOID_TY, 1>>} |-> EmptyTable(VOID_TY)]
  /\ archetypes = [ty \in {VOID_TY} |-> <<VOID_TY, 1>>]
  /\ staging = [ty \in {} |-> <<>>]
  /\ applying = FALSE
-----------------------------------------------------------------------------
(***************************************************************************)
(* Tables.  Rows count from 1.                                             *)
(***************************************************************************)
\* Vec::swap_remove and Column::swap_remove
SwapRemove(seq, row) ==
  [i \in 1..(Len(seq) - 1) |-> IF i = row THEN seq[Len(seq)] ELSE seq[i]]

\* Mutant: the columns keep the values of the removed row.
RemoveRowKeepsColumns(t, row) == [t EXCEPT !.entities = SwapRemove(@, row)]

\* Mutant: in the columns the rows behind the removed one move up, instead of the
\* last one into its place.
RemoveRowShiftsColumns(t, row) ==
  [entities |-> SwapRemove(t.entities, row),
   columns  |-> [c \in DOMAIN t.columns |->
     [i \in 1..(Len(t.columns[c]) - 1) |-> t.columns[c][IF i < row THEN i ELSE i + 1]]]]

\* EntityTable::remove
RemoveRow(t, row) ==
  [entities |-> SwapRemove(t.entities, row),
   columns  |-> [c \in DOMAIN t.columns |-> SwapRemove(t.columns[c], row)]]

\* The entity that takes the place of the removed row, if any.
Displaced(t, row) == IF row < Len(t.entities) THEN {t.entities[Len(t.entities)]} ELSE {}

\* The components of one row.
RowOf(t, row) == [c \in DOMAIN t.columns |-> t.columns[c][row]]

(***************************************************************************)
(* EntityTable::insert_entity, then one value pushed to each column: those *)
(* move_entity carries over and those the bundle's insert_into adds.       *)
(***************************************************************************)
AppendRow(t, e, values) ==
  [entities |-> Append(t.entities, e),
   columns  |-> [c \in DOMAIN t.columns |-> Append(t.columns[c], values[c])]]

SetRow(t, row, values) ==
  [t EXCEPT !.columns = [c \in DOMAIN t.columns |->
     IF c \in DOMAIN values THEN [t.columns[c] EXCEPT ![row] = values[c]]
     ELSE t.columns[c]]]

SwapRows(t, a, b) ==
  [t EXCEPT !.columns = [c \in DOMAIN t.columns |->
     [t.columns[c] EXCEPT ![a] = t.columns[c][b], ![b] = t.columns[c][a]]]]

\* The values of f, and those of g where f has none.
Over(f, g) == [c \in DOMAIN f \union DOMAIN g |-> IF c \in DOMAIN f THEN f[c] ELSE g[c]]

Only(f, S) == [x \in DOMAIN f \intersect S |-> f[x]]

(***************************************************************************)
(* Where a table for ty goes when the code has to make one.  The address   *)
(* is not that of a table in memory, nor one an entity still points to.    *)
(***************************************************************************)
NewAddress(ty) ==
  LET taken == DOMAIN tables \union {loc[e].table : e \in Entities}
  IN <<ty, CHOOSE k \in 1..(Cardinality(Entities) + 2) : <<ty, k>> \notin taken>>

Memory(p, ty) == IF p \in DOMAIN tables THEN tables
                 ELSE [q \in DOMAIN tables \union {p} |->
                         IF q = p THEN EmptyTable(ty) ELSE tables[q]]

\* An address that left archetypes and staging is freed with its table.
Owned(archs, stag) == {archs[ty] : ty \in DOMAIN archs} \union {stag[ty] : ty \in DOMAIN stag}

\* update_row_index for the entity swapped into the given row of table t.
Followed(t, row) ==
  [x \in Entities |->
     IF x \in Displaced(t, row) THEN [loc[x] EXCEPT !.row = row] ELSE loc[x]]

(***************************************************************************)
(* Entity e leaves its row and becomes the last row of the table at p,     *)
(* with the given values; the entity swapped into the old row is told      *)
(* (EntityTable::move_entity, update_row_index, update).                   *)
(***************************************************************************)
MoveEntity(e, p, values) ==
  LET src == loc[e].table
      row == loc[e].row
      mem == Memory(p, DOMAIN values)
  IN
  /\ tables' = [mem EXCEPT ![src] = RemoveRow(@, row), ![p] = AppendRow(@, e, values)]
  /\ loc' = [Followed(tables[src], row) EXCEPT
               ![e] = [table |-> p, row |-> Len(mem[p].entities) + 1]]
-----------------------------------------------------------------------------
(***************************************************************************)
(* Operations.  Reading the entry of an entity whose table was freed, or   *)
(* whose row is past the end, is undefined behaviour (a failed assertion   *)
(* in debug builds): no step is taken from there.  IndexAgrees excludes    *)
(* it.                                                                     *)
(***************************************************************************)
Located(e) ==
  /\ status[e] = "live"
  /\ loc[e].table \in DOMAIN tables
  /\ loc[e].row <= Len(tables[loc[e].table].entities)

\* Data[e]: the components of e, as get_component reads them.
DataOf(e) == RowOf(tables[loc[e].table], loc[e].row)

\* The tables once lhs has left its row and its values have replaced those of
\* rhs (EntityTable::move_entity_into).
MoveEntityInto(lhs, rhs) ==
  [tables EXCEPT ![loc[lhs].table] = RemoveRow(@, loc[lhs].row),
                 ![loc[rhs].table] = SetRow(@, loc[rhs].row, DataOf(lhs))]

\* World::init_id: the entity becomes the last row of the void table.
InitId(e) ==
  LET void == archetypes[VOID_TY] IN
  /\ tables' = [tables EXCEPT ![void] = AppendRow(@, e, [c \in {} |-> 0])]
  /\ loc' = [loc EXCEPT ![e] = [table |-> void, row |-> Len(tables[void].entities) + 1]]
  /\ status' = [status EXCEPT ![e] = "live"]
  /\ UNCHANGED <<archetypes, staging, applying>>

\* World::insert_entity
InsertEntity(e) == status[e] = "unused" /\ InitId(e)

(***************************************************************************)
(* World::insert_id on an id whose slot is free: one that was never used,  *)
(* or one that was freed and comes back to life.                           *)
(***************************************************************************)
InsertId(e) == status[e] \in {"unused", "freed"} /\ InitId(e)

\* EntityCommands::id: the id exists, the entity comes with the Init command.
ReserveId(e) ==
  /\ ~applying
  /\ status[e] = "unused"
  /\ status' = [status EXCEPT ![e] = "reserved"]
  /\ UNCHANGED <<loc, tables, archetypes, staging, applying>>

\* EntityAction::Init
InitReserved(e) == applying /\ status[e] = "reserved" /\ InitId(e)

(***************************************************************************)
(* World::delete_entity                                                    *)
(***************************************************************************)
DeleteEntity(e) ==
  /\ Located(e)
  /\ tables' = [tables EXCEPT ![loc[e].table] = RemoveRow(@, loc[e].row)]
  /\ loc' = [Followed(tables[loc[e].table], loc[e].row) EXCEPT ![e] = Nowhere]
  /\ status' = [status EXCEPT ![e] = "freed"]
  /\ UNCHANGED <<archetypes, staging, applying>>

\* get_archetype_by_key_mut: archetypes first, then the staging tables.
Lookup(ty) ==
  IF ty \in DOMAIN archetypes THEN archetypes[ty]
  ELSE IF ty \in DOMAIN staging THEN staging[ty]
  ELSE NewAddress(ty)

\* insert_archetype registers the table unless it is known already.
Registered(ty, p) ==
  [t \in DOMAIN archetypes \union (IF p \in DOMAIN tables THEN {} ELSE {ty}) |->
     IF t \in DOMAIN archetypes THEN archetypes[t] ELSE p]

(***************************************************************************)
(* World::set_bundle: in place when the table has all the columns, else in *)
(* the table of the extended type.                                         *)
(***************************************************************************)
SetBundle(e, bundle) ==
  LET src == loc[e].table
      ty  == src[1] \union DOMAIN bundle
      p   == Lookup(ty)
  IN
  /\ applying
  /\ Located(e)
  /\ \/ /\ DOMAIN bundle \subseteq src[1]
        /\ tables' = [tables EXCEPT ![src] = SetRow(@, loc[e].row, bundle)]
        /\ UNCHANGED <<loc, archetypes>>
     \/ /\ ~(DOMAIN bundle \subseteq src[1])
        /\ MoveEntity(e, p, Over(bundle, DataOf(e)))
        /\ archetypes' = Registered(ty, p)
  /\ UNCHANGED <<status, staging, applying>>

(***************************************************************************)
(* The table remove_component and merge_entities use for ty: they look in  *)
(* archetypes only, and make a table when ty is not there.                 *)
(***************************************************************************)
LookupActive(ty) == IF ty \in DOMAIN archetypes THEN archetypes[ty] ELSE NewAddress(ty)

StagedInUse(ty) ==
  /\ ty \in DOMAIN staging \ DOMAIN archetypes
  /\ tables[staging[ty]].entities # <<>>

\* World::remove_component; ComponentNotFound is ignored by its caller.
RemoveComponent(e, c) ==
  LET ty == loc[e].table[1] \ {c}
      p  == LookupActive(ty)
  IN
  /\ applying
  /\ Located(e)
  /\ c \in loc[e].table[1]
  /\ "duplicate_archetype" \in Avoid => ~StagedInUse(ty)
  /\ MoveEntity(e, p, Only(DataOf(e), ty))
  /\ archetypes' = Registered(ty, p)
  /\ UNCHANGED <<status, staging, applying>>

(***************************************************************************)
(* World::merge_entities(lhs, rhs), by the types of the two tables.        *)
(***************************************************************************)
Freed(e) == status' = [status EXCEPT ![e] = "freed"]

(***************************************************************************)
(* "if they're the same archetype just swap and remove": in the table of   *)
(* rhs the values change places, and so do the rows of the index entries;  *)
(* the list of entities stays as it is, then lhs is deleted.               *)
(***************************************************************************)
MergeSame(lhs, rhs) ==
  LET lt == loc[lhs].table
      rt == loc[rhs].table
      l  == loc[lhs].row
      r  == loc[rhs].row
      swapped == [tables EXCEPT ![rt] = SwapRows(@, l, r)]
  IN
  /\ lt[1] = rt[1]
  /\ "same_archetype" \notin Avoid
  /\ l <= Len(tables[rt].entities) /\ r <= Len(tables[lt].entities)
  /\ lhs \notin Displaced(tables[lt], r)    \* debug_assert_ne! in delete_entity
  /\ Freed(lhs)
  /\ tables' = [swapped EXCEPT ![lt] = RemoveRow(@, r)]
  /\ loc' = [Followed(tables[lt], r) EXCEPT ![lhs] = Nowhere, ![rhs].row = l]
  /\ UNCHANGED archetypes

\* Mutant: a component both have keeps the value of rhs.
MergeIntoRhsKeeps(lhs, rhs) ==
  LET lt == loc[lhs].table IN
  /\ lt[1] \subseteq loc[rhs].table[1] /\ lt[1] # loc[rhs].table[1]
  /\ Freed(lhs)
  /\ tables' = [tables EXCEPT ![lt] = RemoveRow(@, loc[lhs].row)]
  /\ loc' = [Followed(tables[lt], loc[lhs].row) EXCEPT ![lhs] = Nowhere]
  /\ UNCHANGED archetypes

\* "rhs is already in the correct archetype"
MergeIntoRhs(lhs, rhs) ==
  LET lt == loc[lhs].table
      rt == loc[rhs].table
      l  == loc[lhs].row
  IN
  /\ lt[1] \subseteq rt[1] /\ lt[1] # rt[1]
  /\ Freed(lhs)
  /\ tables' = MoveEntityInto(lhs, rhs)
  /\ loc' = [Followed(tables[lt], l) EXCEPT ![lhs] = Nowhere]
  /\ UNCHANGED archetypes

\* "rhs is a subset of lhs": rhs takes over the row of lhs.
MergeIntoLhs(lhs, rhs) ==
  LET lt == loc[lhs].table
      rt == loc[rhs].table
      r  == loc[rhs].row
  IN
  /\ rt[1] \subseteq lt[1] /\ lt[1] # rt[1]
  /\ Freed(lhs)
  /\ tables' = [tables EXCEPT ![rt] = RemoveRow(@, r),
                              ![lt].entities[loc[lhs].row] = rhs]
  /\ loc' = [Followed(tables[rt], r) EXCEPT ![lhs] = Nowhere, ![rhs] = loc[lhs]]
  /\ UNCHANGED archetypes

\* "dst_arch is disjoint from both lhs and rhs"
MergeIntoThird(lhs, rhs) ==
  LET lt  == loc[lhs].table
      rt  == loc[rhs].table
      l   == loc[lhs].row
      r   == loc[rhs].row
      ty  == lt[1] \union rt[1]
      p   == LookupActive(ty)
      mem == Memory(p, ty)
  IN
  /\ ty # lt[1] /\ ty # rt[1]
  /\ "duplicate_archetype" \in Avoid => ~StagedInUse(ty)
  /\ Freed(lhs)
  /\ tables' = [mem EXCEPT ![rt] = RemoveRow(@, r),
                           ![lt] = RemoveRow(@, l),
                           ![p]  = AppendRow(@, rhs, Over(DataOf(lhs), DataOf(rhs)))]
  /\ loc' = [x \in Entities |->
       CASE x = lhs -> Nowhere
         [] x = rhs -> [table |-> p, row |-> Len(mem[p].entities) + 1]
         [] x \notin {lhs, rhs} /\ x \in Displaced(tables[rt], r) -> [loc[x] EXCEPT !.row = r]
         [] x \notin {lhs, rhs} /\ x \in Displaced(tables[lt], l) -> [loc[x] EXCEPT !.row = l]
         [] OTHER -> loc[x]]
  /\ archetypes' = Registered(ty, p)

MergeEntities(lhs, rhs) ==
  /\ lhs # rhs
  /\ Located(lhs) /\ Located(rhs)
  /\ \/ MergeSame(lhs, rhs)
     \/ MergeIntoRhs(lhs, rhs)
     \/ MergeIntoLhs(lhs, rhs)
     \/ MergeIntoThird(lhs, rhs)
  /\ UNCHANGED <<staging, applying>>
-----------------------------------------------------------------------------
(***************************************************************************)
(* World::apply_commands.                                                  *)
(***************************************************************************)
StartBatch ==
  /\ ~applying
  /\ applying' = TRUE
  /\ UNCHANGED <<status, loc, tables, archetypes, staging>>

InUse(p) == tables[p].entities # <<>>

\* The tables that are still owned; the others are dropped with their rows.
Keep(archs, stag) == tables' = Only(tables, Owned(archs, stag))

\* Mutant: tables in use stay among the staging tables.
FinishBatchNoPromotion ==
  LET demoted == {ty \in DOMAIN archetypes \ {VOID_TY} : ~InUse(archetypes[ty])} IN
  /\ applying
  /\ \A e \in Entities : status[e] # "reserved"
  /\ applying' = FALSE
  /\ archetypes' = Only(archetypes, DOMAIN archetypes \ demoted)
  /\ staging' = Over(Only(archetypes, demoted), staging)
  /\ Keep(archetypes', staging')
  /\ UNCHANGED <<status, loc>>

(***************************************************************************)
(* All commands done: "empty archetypes go to staging, non-empty staging   *)
(* archetypes go to the archetypes proper, except for the empty archetype  *)
(* which is treated special".  A promoted table replaces the one of the    *)
(* same ty in archetypes, a demoted one that in staging.                   *)
(***************************************************************************)
FinishBatch ==
  LET promoted == {ty \in DOMAIN staging : InUse(staging[ty])}
      archs    == Over(Only(staging, promoted), archetypes)
      rest     == Only(staging, DOMAIN staging \ promoted)
      demoted  == {ty \in DOMAIN archs \ {VOID_TY} : ~InUse(archs[ty])}
  IN
  /\ applying
  /\ \A e \in Entities : status[e] # "reserved"
  /\ archetypes' = Only(archs, DOMAIN archs \ demoted)
  /\ staging' = Over(Only(archs, demoted), rest)
  /\ Keep(archetypes', staging')
  /\ applying' = FALSE
  /\ UNCHANGED <<status, loc>>

(***************************************************************************)
(* A command names an entity that is not alive, or inserts an id whose     *)
(* slot is taken: apply_commands returns the error at once.  The commands  *)
(* left, among them the Init of reserved ids, are dropped.                 *)
(***************************************************************************)
FailBatch ==
  /\ applying
  /\ "failed_batch" \notin Avoid
  /\ \E e \in Entities : status[e] # "live"
  /\ status' = [e \in Entities |-> IF status[e] = "reserved" THEN "leaked" ELSE status[e]]
  /\ applying' = FALSE
  /\ UNCHANGED <<loc, tables, archetypes, staging>>

\* World::vacuum: "Remove empty archetypes"
Vacuum ==
  /\ ~applying
  /\ staging # [ty \in {} |-> <<>>]
  /\ "vacuum_in_use" \in Avoid => \A ty \in DOMAIN staging : ~InUse(staging[ty])
  /\ staging' = [ty \in {} |-> <<>>]
  /\ Keep(archetypes, staging')
  /\ UNCHANGED <<status, loc, archetypes, applying>>

(***************************************************************************)
(* World::clone, and the program goes on with the clone.  Its tables take  *)
(* over the addresses of those they copy; <<ty, 0>> is the original's one, *)
(* which the clone does not own.  The index is copied with its pointers,   *)
(* then the entries of the entities that Query<EntityId> finds are made to *)
(* name the new tables (an unwrap, should one of them not be in the index).*)
(* Staging tables are not copied, nor are buffered commands: ids reserved  *)
(* so far get no Init.                                                     *)
(***************************************************************************)
Original(entry) ==
  IF entry.table = Nowhere.table THEN entry ELSE [entry EXCEPT !.table = <<@[1], 0>>]

Copied == {archetypes[ty] : ty \in DOMAIN archetypes}

Occupants == UNION {{tables[p].entities[row] : row \in DOMAIN tables[p].entities} : p \in Copied}

CloneWith(corrected) ==
  /\ ~applying
  /\ "vacuum_in_use" \in Avoid => \A ty \in DOMAIN staging : ~InUse(staging[ty])
  /\ \A e \in Occupants : loc[e].table # Nowhere.table
  /\ loc' = [e \in Entities |->
       IF e \in corrected THEN [loc[e] EXCEPT !.table = archetypes[@[1]]]
       ELSE Original(loc[e])]
  /\ staging' = [ty \in {} |-> <<>>]
  /\ Keep(archetypes, staging')
  /\ status' = [e \in Entities |-> IF status[e] = "reserved" THEN "leaked" ELSE status[e]]
  /\ UNCHANGED <<archetypes, applying>>

\* Mutant: the correction finds entities with a component only.
CloneMissesVoid == CloneWith({e \in Occupants : loc[e].table[1] # VOID_TY})

Clone == CloneWith(Occupants)

Next ==
  \/ \E e \in Entities : InsertEntity(e)
  \/ \E e \in Entities : InsertId(e)
  \/ \E e \in Entities : ReserveId(e)
  \/ \E e \in Entities : InitReserved(e)
  \/ \E e \in Entities : DeleteEntity(e)
  \/ \E e \in Entities, bundle \in Bundles : SetBundle(e, bundle)
  \/ \E e \in Entities, c \in Components : RemoveComponent(e, c)
  \/ \E lhs, rhs \in Entities : MergeEntities(lhs, rhs)
  \/ StartBatch
  \/ FinishBatch
  \/ FailBatch
  \/ Vacuum
  \/ Clone

Spec == Init /\ [][Next]_vars
-----------------------------------------------------------------------------
(***************************************************************************)
(* Properties.                                                             *)
(***************************************************************************)

(***************************************************************************)
(* Tables have a full row for each of their entities, and archetypes and   *)
(* staging point to tables of the type they file them under.               *)
(***************************************************************************)
TypeOK ==
  /\ status \in [Entities -> {"unused", "reserved", "live", "freed", "leaked"}]
  /\ applying \in BOOLEAN
  /\ \A p \in DOMAIN tables :
       /\ tables[p] \in [entities : Seq(Entities), columns : [p[1] -> Seq(Values)]]
       /\ \A c \in p[1] : Len(tables[p].columns[c]) = Len(tables[p].entities)
  /\ \A map \in {archetypes, staging} : \A ty \in DOMAIN map :
       map[ty] \in DOMAIN tables /\ map[ty][1] = ty
  /\ VOID_TY \in DOMAIN archetypes

(***************************************************************************)
(* The index and the tables agree: every live entity is in the row its     *)
(* index entry names, and every row belongs to the live entity it lists.   *)
(* This is what the debug assertions of delete_entity, move_entity and     *)
(* update_row_index (lib.rs:310, table.rs:115-118, entity_index.rs:263)    *)
(* rely on, across every swap_remove.                                      *)
(***************************************************************************)
IndexAgrees ==
  /\ \A e \in Live :
       /\ loc[e].table \in DOMAIN tables
       /\ loc[e].row \in DOMAIN tables[loc[e].table].entities
       /\ tables[loc[e].table].entities[loc[e].row] = e
  /\ \A p \in DOMAIN tables : \A row \in DOMAIN tables[p].entities :
       LET e == tables[p].entities[row] IN
       e \in Live /\ loc[e] = [table |-> p, row |-> row]

(***************************************************************************)
(* Between batches every live entity is in a table that queries visit:     *)
(* they walk World::archetypes only.  A batch that fails may end this, and *)
(* nothing else does; and whatever it left behind, the next batch that     *)
(* completes makes every live entity visible again.                        *)
(***************************************************************************)
QueriesSeeAll ==
  ~applying => \A e \in Live :
    loc[e].table[1] \in DOMAIN archetypes /\ archetypes[loc[e].table[1]] = loc[e].table

StaysVisible ==
  [][FinishBatch \/ (QueriesSeeAll /\ ~FailBatch) => QueriesSeeAll']_vars

(***************************************************************************)
(* "Musn't insert the same archetype twice" (lib.rs:472): a table in       *)
(* archetypes is never replaced by another one of its type.                *)
(***************************************************************************)
NeverReplaced ==
  [][\A ty \in DOMAIN archetypes \intersect DOMAIN archetypes' :
       archetypes'[ty] = archetypes[ty]]_vars

(***************************************************************************)
(* What the doc says of merge_entities: "Move all components from `lhs` to *)
(* `rhs`, overrinding components `rhs` already has" (lib.rs:733).          *)
(***************************************************************************)
RhsHasBoth(lhs, rhs) == DataOf(rhs)' = Over(DataOf(lhs), DataOf(rhs))

\* The doc makes no exception.  Two entities of one archetype are one.
MergeMovesAll ==
  [][\A lhs, rhs \in Entities : MergeEntities(lhs, rhs) => RhsHasBoth(lhs, rhs)]_vars

(***************************************************************************)
(* What the code does: the doc's promise holds of two entities of          *)
(* different archetypes, in all of the three cases and wherever the table  *)
(* of both their types is (lib.rs:771-851), while index and tables agree.  *)
(***************************************************************************)
MergeMovesOthers ==
  [][\A lhs, rhs \in Live :
       /\ loc[lhs].table[1] # loc[rhs].table[1] /\ MergeEntities(lhs, rhs)
       /\ TypeOK /\ IndexAgrees
       => RhsHasBoth(lhs, rhs)]_vars

(***************************************************************************)
(* The abstract store: every step of the World, with all its moves between *)
(* tables, changes the components of exactly the entities it should.       *)
(***************************************************************************)
Data == [e \in Live |-> DataOf(e)]

Store == INSTANCE EntityStore WITH data <- Data

(***************************************************************************)
(* The World implements the abstract entity store.                         *)
(***************************************************************************)
StoreSpec == Store!Spec
=============================================================================
