------------------------------ MODULE Persist ------------------------------
(***************************************************************************)
(* Saving and loading a World (src/src/serde.rs).  A WorldPersister is a   *)
(* chain of persisters, one per registered type of component or resource.  *)
(* save writes a map with one entry per type that has something to save,   *)
(* load reads the entries of a map one by one into a new world, with a     *)
(* persister that may be another one than the writer's.                    *)
(*                                                                         *)
(* The formats are libraries; they differ in the order in which a map is   *)
(* read, in how its end is found, and in what becomes of a value nobody    *)
(* asked for.  A payload is what save wrote: files are not damaged.  The   *)
(* keys, names of types and "__version__", do not occur within values.     *)
(***************************************************************************)
EXTENDS Integers, Sequences, FiniteSets

CONSTANTS
  Ids,        \* ids of entities: <<index, generation>>
  Types,      \* types of components and resources
  Chains,     \* the chains of types programs register: sequences of Keys
  Versions,   \* what with_version is given: <<major, minor and patch>>
  NoVersion,
  Formats     \* "text": serde_json from text; "tree": serde_json::Value;
              \* "counted": bincode

Keys == {"Component", "Resource"} \X Types    \* entry_name: SerTy and type
VERSION_KEY == <<"__version__">>

Persisters == [chain : Chains, version : Versions \union {NoVersion}]

ASSUME PersistAssumption ==
  /\ Ids \subseteq Nat \X Nat
  /\ Chains \subseteq Seq(Keys)
  /\ Versions \subseteq Nat \X Nat /\ NoVersion \notin Versions
  /\ Formats \subseteq {"text", "tree", "counted"}

VARIABLES
  format,
  world,     \* the world that is saved, see Worlds
  writer,    \* the persister that saves
  reader,    \* the persister that loads
  phase,     \* see Phases
  announced, \* the length save gives to serialize_map
  payload,   \* the entries save wrote
  todo,      \* positions of the entries the format has yet to come to
  left,      \* keys bincode has yet to answer
  unread,    \* whether the format stands before the rest of a value
  loaded,    \* WorldVisitor::world
  version    \* what load_version returned

static == <<format, world, writer, reader>>
saved == <<announced, payload>>
vars == <<static, phase, saved, todo, left, unread, loaded, version>>

(***************************************************************************)
(* load returns a world ("loaded"), an error of its own about the version  *)
(* ("mismatch") or one of the format ("garbled"); load_version returns a   *)
(* version or none ("told"), or an error of the format ("untold").         *)
(***************************************************************************)
Phases == {"saving", "saved", "loading", "loaded", "mismatch", "garbled",
           "asking", "told", "untold"}
-----------------------------------------------------------------------------
RangeOf(s) == {s[i] : i \in DOMAIN s}

\* The values of f, and those of g where f has none.
Over(f, g) == [x \in DOMAIN f \union DOMAIN g |-> IF x \in DOMAIN f THEN f[x] ELSE g[x]]

\* Ids that can be alive at the same time: one per index.
Distinct(S) == \A e, f \in S : e[1] = f[1] => e = f

(***************************************************************************)
(* A world: its entities with their components, and its resources.  No two *)
(* values are the same, so that one in a wrong place is seen.              *)
(***************************************************************************)
Worlds ==
  {[entities  |-> [e \in DOMAIN has |-> [c \in has[e] |-> <<e, c>>]],
    resources |-> [r \in res |-> <<"res", r>>]] :
      has \in UNION {[S -> SUBSET Types] : S \in {S \in SUBSET Ids : Distinct(S)}},
      res \in SUBSET Types}

EmptyWorld == [entities |-> [e \in {} |-> <<>>], resources |-> [r \in {} |-> <<>>]]

Init ==
  /\ format \in Formats
  /\ world \in Worlds
  /\ writer \in Persisters /\ reader \in Persisters
  /\ phase = "saving"
  /\ announced = 0
  /\ payload = <<>>
  /\ todo = {}
  /\ left = 0
  /\ unread = FALSE
  /\ loaded = EmptyWorld
  /\ version = NoVersion
-----------------------------------------------------------------------------
(***************************************************************************)
(* save.                                                                   *)
(***************************************************************************)
\* Query<(EntityId, &T)>: the entities that have a component, with its value.
RowsOf(c) ==
  [e \in {e \in DOMAIN world.entities : c \in DOMAIN world.entities[e]} |->
     world.entities[e][c]]

\* save_impl: a type with nothing to save has no entry.
Entry(key) ==
  IF key[1] = "Component"
  THEN IF RowsOf(key[2]) = [e \in {} |-> <<>>] THEN <<>>
       ELSE <<[key |-> key, value |-> RowsOf(key[2])]>>
  ELSE IF key[2] \notin DOMAIN world.resources THEN <<>>
       ELSE <<[key |-> key, value |-> world.resources[key[2]]]>>

\* save_entry: along the chain.
Entries[n \in 0..Len(writer.chain)] ==
  IF n = 0 THEN <<>> ELSE Entries[n - 1] \o Entry(writer.chain[n])

VersionEntry ==
  IF writer.version = NoVersion THEN <<>>
  ELSE <<[key |-> VERSION_KEY, value |-> writer.version]>>

\* Mutant: entities are counted, not types.
CountEntriesOfRows ==
  Cardinality({p \in (DOMAIN writer.chain) \X (DOMAIN world.entities) :
    LET key == writer.chain[p[1]] IN
    key[1] = "Component" /\ key[2] \in DOMAIN world.entities[p[2]]})

\* Mutant: resources are not counted.
CountEntriesOfComponents ==
  Cardinality({i \in DOMAIN writer.chain :
    LET key == writer.chain[i] IN
    /\ key[1] = "Component"
    /\ \E e \in DOMAIN world.entities : key[2] \in DOMAIN world.entities[e]})

\* count_entries
CountEntries ==
  Cardinality({i \in DOMAIN writer.chain :
    LET key == writer.chain[i] IN
    \/ /\ key[1] = "Component"
       /\ \E e \in DOMAIN world.entities : key[2] \in DOMAIN world.entities[e]
    \/ /\ key[1] = "Resource"
       /\ key[2] \in DOMAIN world.resources})

Save ==
  /\ phase = "saving"
  /\ announced' = CountEntries + (IF writer.version = NoVersion THEN 0 ELSE 1)
  /\ payload' = VersionEntry \o Entries[Len(writer.chain)]
  /\ phase' = "saved"
  /\ UNCHANGED <<static, todo, left, unread, loaded, version>>
-----------------------------------------------------------------------------
(***************************************************************************)
(* The formats.                                                            *)
(***************************************************************************)
\* Where a reader finds entries: serde_json closes a map of length 0 before
\* anything is written to it.
Positions == IF format = "text" /\ announced = 0 THEN {} ELSE DOMAIN payload

\* The next entry.  A tree sorts its keys, by names that are left open, but
\* for that of the version, which comes last.
IsNext(i) ==
  /\ i \in todo
  /\ \/ format = "tree" /\ (payload[i].key = VERSION_KEY => todo = {i})
     \/ format # "tree" /\ \A j \in todo : i <= j

\* next_key is None: bincode has counted the announced keys.
MapEnds ==
  CASE format = "counted" -> left = 0
    [] format = "text"    -> todo = {} /\ ~unread
    [] format = "tree"    -> todo = {}

\* next_key is the key of the entry i; a tree drops a value nobody asked for.
Reading(i) ==
  /\ IsNext(i)
  /\ unread => format = "tree"
  /\ format = "counted" => left > 0

NextTodo(i) ==
  /\ todo' = todo \ {i}
  /\ left' = IF format = "counted" THEN left - 1 ELSE left

\* The value of the version is a string, as keys are.
VersionUnread ==
  unread /\ \E i \in DOMAIN payload : payload[i].key = VERSION_KEY /\ todo = DOMAIN payload \ {i}

\* next_key fails: a text has a value where a comma is due; to bincode a value
\* may be no string, or there is nothing left to read.
NextKeyFails ==
  \/ format = "text" /\ unread
  \/ /\ format = "counted" /\ left > 0
     /\ IF unread THEN ~VersionUnread ELSE todo = {}

(***************************************************************************)
(* bincode has no marks between keys and values: where a value was left it *)
(* takes the value for the next key.  Of the version's it makes a key      *)
(* nobody knows.  Of another's it may make one, with any number of its     *)
(* bytes and of what follows, and then stands at an entry or within one.   *)
(***************************************************************************)
MisreadKey ==
  /\ phase \in {"loading", "asking"}
  /\ format = "counted" /\ left > 0 /\ unread
  /\ left' = left - 1
  /\ \/ VersionUnread /\ todo' = todo /\ unread' = FALSE
     \/ /\ ~VersionUnread
        /\ \E n \in 1..(announced + 1) : todo' = {i \in todo : i >= n}
        /\ unread' \in BOOLEAN
  /\ UNCHANGED <<static, phase, saved, loaded, version>>

\* deserialize_map, when the visitor returns before the end of the map.
EndFails(rest) == rest # {} /\ format \in {"text", "tree"}
-----------------------------------------------------------------------------
(***************************************************************************)
(* load: World::new(0) and WorldVisitor::visit_map.                        *)
(***************************************************************************)
StartLoad ==
  /\ phase = "saved"
  /\ phase' = "loading"
  /\ todo' = Positions
  /\ left' = announced
  /\ UNCHANGED <<static, saved, unread, loaded, version>>

\* Mutant: newer payloads of the same major version are accepted.
MatchesMajor(v, expected) == v[1] = expected[1]

\* VersionReq "<= expected, ^major"
Matches(v, expected) == v[1] = expected[1] /\ v[2] <= expected[2]

LoadVersionKey(i) ==
  /\ phase = "loading" /\ Reading(i)
  /\ payload[i].key = VERSION_KEY
  /\ NextTodo(i)
  /\ \/ /\ reader.version = NoVersion
        /\ unread' = TRUE
        /\ UNCHANGED phase
     \/ /\ reader.version # NoVersion
        /\ unread' = FALSE
        /\ phase' = IF Matches(payload[i].value, reader.version) THEN "loading" ELSE "mismatch"
  /\ UNCHANGED <<static, saved, loaded, version>>

\* is_id_valid, insert_id, set_component for one pair of an entry.
WithComponent(entities, c, e, v) ==
  LET before == IF e \in DOMAIN entities THEN entities[e] ELSE [x \in {} |-> <<>>]
  IN Over([x \in {c} |-> v], before)

(***************************************************************************)
(* visit_map_value finds the key in the chain: a component.  insert_id is  *)
(* unwrapped: it panics, no step, when the index is another id's.          *)
(***************************************************************************)
LoadComponent(i) ==
  LET c == payload[i].key[2]
      rows == payload[i].value
  IN
  /\ phase = "loading" /\ Reading(i)
  /\ payload[i].key \in RangeOf(reader.chain) /\ payload[i].key[1] = "Component"
  /\ Distinct(DOMAIN loaded.entities \union DOMAIN rows)
  /\ loaded' = [loaded EXCEPT !.entities =
       Over([e \in DOMAIN rows |-> WithComponent(@, c, e, rows[e])], @)]
  /\ NextTodo(i)
  /\ unread' = FALSE
  /\ UNCHANGED <<static, phase, saved, version>>

LoadResource(i) ==
  /\ phase = "loading" /\ Reading(i)
  /\ payload[i].key \in RangeOf(reader.chain) /\ payload[i].key[1] = "Resource"
  /\ loaded' = [loaded EXCEPT !.resources =
       Over([r \in {payload[i].key[2]} |-> payload[i].value], @)]
  /\ NextTodo(i)
  /\ unread' = FALSE
  /\ UNCHANGED <<static, phase, saved, version>>

\* The end of the chain: Ok(()), without a call of next_value.
LoadUnknown(i) ==
  /\ phase = "loading" /\ Reading(i)
  /\ payload[i].key \notin RangeOf(reader.chain) \union {VERSION_KEY}
  /\ NextTodo(i)
  /\ unread' = TRUE
  /\ UNCHANGED <<static, phase, saved, loaded, version>>

\* next_key returns None.
EndLoad ==
  /\ phase = "loading"
  /\ MapEnds
  /\ phase' = "loaded"
  /\ UNCHANGED <<static, saved, todo, left, unread, loaded, version>>

FailNextKey ==
  /\ NextKeyFails
  /\ \/ phase = "loading" /\ phase' = "garbled"
     \/ phase = "asking" /\ phase' = "untold"
  /\ UNCHANGED <<static, saved, todo, left, unread, loaded, version>>
-----------------------------------------------------------------------------
(***************************************************************************)
(* load_version: VersionVisitor::visit_map.                                *)
(***************************************************************************)
StartLoadVersion ==
  /\ phase = "saved"
  /\ phase' = "asking"
  /\ todo' = Positions
  /\ left' = announced
  /\ UNCHANGED <<static, saved, unread, loaded, version>>

FindVersion(i) ==
  /\ phase = "asking" /\ Reading(i)
  /\ payload[i].key = VERSION_KEY
  /\ version' = payload[i].value
  /\ NextTodo(i)
  /\ phase' = IF EndFails(todo') THEN "untold" ELSE "told"
  /\ UNCHANGED <<static, saved, unread, loaded>>

PassEntry(i) ==
  /\ phase = "asking" /\ Reading(i)
  /\ payload[i].key # VERSION_KEY
  /\ NextTodo(i)
  /\ unread' = TRUE
  /\ UNCHANGED <<static, phase, saved, loaded, version>>

EndLoadVersion ==
  /\ phase = "asking"
  /\ MapEnds
  /\ phase' = "told"
  /\ UNCHANGED <<static, saved, todo, left, unread, loaded, version>>

\* The call has returned.
Returned ==
  /\ phase \in {"loaded", "mismatch", "garbled", "told", "untold"}
  /\ UNCHANGED vars

Next ==
  \/ Save \/ StartLoad \/ EndLoad \/ FailNextKey \/ MisreadKey
  \/ StartLoadVersion \/ EndLoadVersion
  \/ \E i \in todo :
       \/ LoadVersionKey(i) \/ LoadComponent(i) \/ LoadResource(i) \/ LoadUnknown(i)
       \/ FindVersion(i) \/ PassEntry(i)
  \/ Returned

Spec == Init /\ [][Next]_vars
-----------------------------------------------------------------------------
(***************************************************************************)
(* Properties.                                                             *)
(***************************************************************************)
TypeOK ==
  /\ phase \in Phases
  /\ announced \in 0..(Len(writer.chain) + 1)
  /\ \A i \in DOMAIN payload : payload[i].key \in Keys \union {VERSION_KEY}
  /\ todo \subseteq 1..announced \union DOMAIN payload
  /\ left \in 0..announced
  /\ unread \in BOOLEAN
  /\ Distinct(DOMAIN loaded.entities)
  /\ \A e \in DOMAIN loaded.entities : DOMAIN loaded.entities[e] \subseteq Types
  /\ DOMAIN loaded.resources \subseteq Types
  /\ version \in Versions \union {NoVersion}

Common(kind) ==
  {c \in Types : <<kind, c>> \in RangeOf(writer.chain) \intersect RangeOf(reader.chain)}

\* The reader has a persister for every type of the payload.
KnowsTypes ==
  \A i \in DOMAIN payload : payload[i].key \in RangeOf(reader.chain) \union {VERSION_KEY}

\* The reader asks for every value of the payload.
KnowsAll == KnowsTypes /\ (reader.version = NoVersion => writer.version = NoVersion)

Only(f, S) == [x \in DOMAIN f \intersect S |-> f[x]]

\* The part of the saved world that has types C of components and R of resources.
Part(C, R) ==
  [entities  |-> [e \in {e \in DOMAIN world.entities : DOMAIN world.entities[e] \intersect C # {}} |->
                    Only(world.entities[e], C)],
   resources |-> Only(world.resources, R)]

(***************************************************************************)
(* The type of the last entry, where bincode spends one of the announced   *)
(* keys on a version that the reader does not ask for.                     *)
(***************************************************************************)
Lost(kind) ==
  {c \in Types :
     /\ format = "counted" /\ writer.version # NoVersion /\ reader.version = NoVersion
     /\ {i \in DOMAIN payload : payload[i].key = <<kind, c>>} = {Len(payload)}}

(***************************************************************************)
(* What load returns is what was saved, as far as writer and reader both   *)
(* know the types, whatever their chains and the order of the entries: the *)
(* same ids, every component with its entity ("Entities with no component  *)
(* in WorldPersister will not be serialized", serde.rs:55).  Only bincode  *)
(* may lose types without a word: that of the last entry, when the payload *)
(* has a version and the reader none, and any when the reader lacks a type *)
(* ("missing deserializaers are not an error", serde.rs:383); even then    *)
(* what it loads is whole and in its place.                                *)
(***************************************************************************)
RoundTrip ==
  phase = "loaded" =>
    IF format = "counted" /\ ~KnowsTypes
    THEN \E C \in SUBSET Common("Component"), R \in SUBSET Common("Resource") :
           loaded = Part(C, R)
    ELSE loaded = Part(Common("Component") \ Lost("Component"),
                       Common("Resource") \ Lost("Resource"))

Compatible ==
  NoVersion \in {writer.version, reader.version}
    \/ /\ writer.version[1] = reader.version[1]
       /\ writer.version[2] <= reader.version[2]

\* There is nothing but a version in the payload.
OnlyVersion == \A i \in DOMAIN payload : payload[i].key = VERSION_KEY

(***************************************************************************)
(* A payload is refused for its version when it is of another major        *)
(* version than the reader or newer than it, though "Minor and patch       *)
(* version differences are accepted" (serde.rs:47), and then alone.  From  *)
(* text it is refused exactly when it has a value nobody asks for, though  *)
(* "missing deserializaers are not an error" (serde.rs:383); from bincode  *)
(* only when it has a type the reader lacks; from a tree never.  A version *)
(* that is told is the writer's; from text it is told only when there is   *)
(* nothing else, from bincode always when there is one.                    *)
(***************************************************************************)
LoadAnswers ==
  /\ phase = "loaded" => Compatible /\ (format = "text" => KnowsAll)
  /\ phase = "mismatch" => ~Compatible
  /\ phase = "garbled" => \/ format = "text" /\ ~KnowsAll
                          \/ format = "counted" /\ ~KnowsTypes
  /\ phase = "told" => version = writer.version /\ (format = "text" => OnlyVersion)
  /\ phase = "untold" => \/ format = "text" /\ ~OnlyVersion
                         \/ format = "counted" /\ writer.version = NoVersion /\ announced > 1

=============================================================================
