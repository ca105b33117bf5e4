--------------------------- MODULE PersistProofs ---------------------------
(***************************************************************************)
(* Proofs about Persist, for every world, every chain of types, and every  *)
(* pair of writer and reader: a world that was loaded is the saved one, as *)
(* far as both know the types and but for what bincode passes over, and    *)
(* what load and load_version answer fits the versions and the types.      *)
(***************************************************************************)
EXTENDS Persist, FiniteSetTheorems, WellFoundedInduction, TLAPS

\* A key of the chain that has something to save, and its entry.
Saves(key) ==
  \/ key[1] = "Component" /\ \E e \in DOMAIN world.entities : key[2] \in DOMAIN world.entities[e]
  \/ key[1] = "Resource" /\ key[2] \in DOMAIN world.resources

EntryOf(key) ==
  [key |-> key, value |-> IF key[1] = "Component" THEN RowsOf(key[2])
                          ELSE world.resources[key[2]]]

WorldOK ==
  /\ Distinct(DOMAIN world.entities)
  /\ \A e \in DOMAIN world.entities : DOMAIN world.entities[e] \subseteq Types
  /\ DOMAIN world.resources \subseteq Types

StaticOK == format \in Formats /\ WorldOK /\ writer \in Persisters /\ reader \in Persisters

(***************************************************************************)
(* A payload has an entry for each type with something to save and no      *)
(* other, that of the version first, and its length is the announced one.  *)
(***************************************************************************)
LengthOK ==
  /\ announced \in 0..(Len(writer.chain) + 1)
  /\ DOMAIN payload = 1..announced /\ Len(payload) = announced

VersionFirst ==
  /\ phase # "saving" /\ writer.version # NoVersion =>
       1 \in DOMAIN payload /\ payload[1].key = VERSION_KEY
  /\ \A i \in DOMAIN payload : payload[i].key = VERSION_KEY => i = 1

EntryOK(entry) ==
  \/ /\ writer.version # NoVersion
     /\ entry = [key |-> VERSION_KEY, value |-> writer.version]
  \/ \E key \in RangeOf(writer.chain) : Saves(key) /\ entry = EntryOf(key)

EntriesOK == \A i \in DOMAIN payload : EntryOK(payload[i])

AllSaved ==
  phase # "saving" =>
    \A key \in RangeOf(writer.chain) : Saves(key) =>
      \E i \in DOMAIN payload : payload[i].key = key

PayloadOK == LengthOK /\ VersionFirst /\ EntriesOK /\ AllSaved

\* The entries that were read or lost, and the types the reader knows of them.
Done == DOMAIN payload \ todo

Known(kind) ==
  {c \in Types : /\ <<kind, c>> \in RangeOf(reader.chain)
                 /\ \E i \in Done : payload[i].key = <<kind, c>>}

\* The entities of the saved world, as far as they have components of K.
PartOf(K) ==
  [e \in {e \in DOMAIN world.entities : DOMAIN world.entities[e] \intersect K # {}} |->
     Only(world.entities[e], K)]

LoadPhases == {"loading", "loaded", "mismatch", "garbled"}

\* The format comes to all keys, but for those a version takes the place of.
Exact == format = "counted" => KnowsTypes

(***************************************************************************)
(* What was loaded is what the entries say of some of the types the reader *)
(* knows: of all it came to, where nothing but a version is misread.       *)
(***************************************************************************)
LoadedOK ==
  IF phase \in LoadPhases
  THEN \E C \in SUBSET Known("Component"), R \in SUBSET Known("Resource") :
         /\ loaded = Part(C, R)
         /\ Exact => C = Known("Component") /\ R = Known("Resource")
  ELSE loaded = EmptyWorld

\* Nothing is read before save is over.
AtStart == phase \in {"saving", "saved"} => todo = {} /\ left = 0 /\ unread = FALSE

\* The reader has no use for the version of the payload.
VersionUnasked == phase \in {"loading", "loaded"} /\ writer.version # NoVersion /\ reader.version = NoVersion

\* The first key bincode answers is that of the first entry.
CountedFirst ==
  format = "counted" /\ phase \in {"loading", "asking"} =>
    /\ left = announced => todo = DOMAIN payload /\ unread = FALSE
    /\ left # announced => 1 \notin todo /\ (phase = "asking" => writer.version = NoVersion)

(***************************************************************************)
(* bincode comes to the entries in order, as many as there are keys left;  *)
(* one more is left when it has come to a version that nobody asked for,   *)
(* and taken it for a key.                                                 *)
(***************************************************************************)
CountedExact ==
  format = "counted" /\ KnowsTypes /\ phase \in {"loading", "loaded"} =>
    \/ todo = (announced - left + 1)..announced /\ unread = FALSE
       /\ (left # announced => ~VersionUnasked)
    \/ todo = (announced - left)..announced /\ unread = FALSE /\ VersionUnasked /\ left + 1 < announced
    \/ todo = 2..announced /\ left + 1 = announced /\ unread = TRUE /\ VersionUnasked

\* A text is read on as long as every value is asked for.
TextOK ==
  format = "text" /\ unread = FALSE =>
    /\ phase = "loading" =>
         \A i \in Done : payload[i].key \in RangeOf(reader.chain)
                           \/ (payload[i].key = VERSION_KEY /\ reader.version # NoVersion)
    /\ phase = "asking" => Done = {}

\* A value is skipped for a reason; the entry of the version is not passed over.
ReadingOK ==
  /\ phase \in Phases
  /\ todo \subseteq DOMAIN payload
  /\ left \in 0..announced
  /\ phase = "loaded" => IF format = "counted" THEN left = 0 ELSE todo = {}
  /\ unread \in BOOLEAN
  /\ AtStart
  /\ unread /\ phase = "loading" => ~KnowsAll
  /\ unread /\ phase = "asking" => ~OnlyVersion
  /\ phase = "asking" => \A i \in Done : payload[i].key # VERSION_KEY
  /\ phase \in {"loading", "loaded"} =>
       \A i \in Done : payload[i].key = VERSION_KEY => Compatible
  /\ phase \notin {"told", "untold"} => version = NoVersion
  /\ version \in {writer.version, NoVersion}
  /\ CountedFirst /\ CountedExact /\ TextOK

IInv == StaticOK /\ PayloadOK /\ LoadedOK /\ ReadingOK /\ LoadAnswers

-----------------------------------------------------------------------------
(***************************************************************************)
(* Induction over numbers, by minimal elements.                            *)
(***************************************************************************)
LEMMA SmallestNumber ==
  ASSUME NEW T \in SUBSET Nat, T # {}
  PROVE  \E x \in T : \A y \in T : x <= y
<1> DEFINE U == {1..n : n \in T}
<1>1. U \subseteq FiniteSubsetsOf(Nat)
  <2>1. \A n \in T : 1..n \in SUBSET Nat /\ IsFiniteSet(1..n)
    BY FS_Interval
  <2> QED
    BY <2>1 DEF FiniteSubsetsOf
<1>2. U # {}
  OBVIOUS
<1>3. PICK u \in U : \A v \in U : <<v, u>> \notin StrictSubsetOrdering(Nat)
  <2> HIDE DEF U
  <2> QED
    BY <1>1, <1>2, FS_StrictSubsetOrderingWellFounded, WFMin
<1>4. \A v \in U : v \subseteq u => v = u
  BY <1>1, <1>3 DEF StrictSubsetOrdering, FiniteSubsetsOf
<1>5. PICK x \in T : u = 1..x
  OBVIOUS
<1>6. ASSUME NEW y \in T, y < x PROVE FALSE
  <2>1. 1..y \subseteq 1..x /\ x \in 1..x /\ x \notin 1..y
    BY <1>6
  <2> QED
    BY <2>1, <1>4, <1>5
<1> QED
  BY <1>6

\* T are the numbers up to n of which a statement is false.
LEMMA NoneFalse ==
  ASSUME NEW n \in Nat, NEW T \in SUBSET (0..n), 0 \notin T,
         \A k \in 0..n : k + 1 \in T => k \in T
  PROVE  T = {}
<1> SUFFICES ASSUME T # {} PROVE FALSE
  OBVIOUS
<1>1. PICK x \in T : \A y \in T : x <= y
  BY SmallestNumber
<1>2. x \in 1..n /\ x - 1 \in 0..n /\ (x - 1) + 1 = x
  OBVIOUS
<1> QED
  BY <1>1, <1>2


-----------------------------------------------------------------------------
(***************************************************************************)
(* Keys: that of the version is no type's.                                 *)
(***************************************************************************)
LEMMA KeyParts ==
  ASSUME NEW key \in Keys
  PROVE  /\ key = <<key[1], key[2]>> /\ key[1] \in {"Component", "Resource"} /\ key[2] \in Types
         /\ key # VERSION_KEY
BY DEF Keys, VERSION_KEY

LEMMA ChainKeys ==
  ASSUME NEW p \in Persisters
  PROVE  /\ p.chain \in Seq(Keys) /\ Len(p.chain) \in Nat /\ DOMAIN p.chain = 1..Len(p.chain)
         /\ RangeOf(p.chain) \subseteq Keys /\ \A i \in DOMAIN p.chain : p.chain[i] \in Keys
         /\ p.version \in Versions \union {NoVersion}
<1>1. p.chain \in Seq(Keys) /\ p.version \in Versions \union {NoVersion}
  BY PersistAssumption DEF Persisters
<1> QED
  BY <1>1 DEF RangeOf

(***************************************************************************)
(* The entry of a type: one if it has something to save.                   *)
(***************************************************************************)
LEMMA EntryIs ==
  ASSUME NEW key \in Keys
  PROVE  Entry(key) = IF Saves(key) THEN <<EntryOf(key)>> ELSE <<>>
<1>1. key[1] = "Component" \/ key[1] = "Resource"
  BY KeyParts
<1>2. CASE key[1] = "Component"
  <2> DEFINE rows == RowsOf(key[2])
  <2>1. DOMAIN rows = {e \in DOMAIN world.entities : key[2] \in DOMAIN world.entities[e]}
    BY DEF RowsOf
  <2>2. rows = [e \in {} |-> <<>>] <=> DOMAIN rows = {}
    BY DEF RowsOf
  <2>3. Saves(key) <=> DOMAIN rows # {}
    BY <1>2, <2>1 DEF Saves
  <2> QED
    BY <1>2, <2>2, <2>3 DEF Entry, EntryOf
<1>3. CASE key[1] = "Resource"
  <2>1. "Component" # "Resource"
    OBVIOUS
  <2> QED
    BY <1>3, <2>1 DEF Entry, EntryOf, Saves
<1> QED
  BY <1>1, <1>2, <1>3

\* s has the entries of the first k types of the chain, and no more.
Laid(k, s) ==
  /\ s \in Seq({EntryOf(key) : key \in RangeOf(writer.chain)})
  /\ \A i \in DOMAIN s : \E j \in 1..k :
       Saves(writer.chain[j]) /\ s[i] = EntryOf(writer.chain[j])
  /\ \A j \in 1..k : Saves(writer.chain[j]) =>
       \E i \in DOMAIN s : s[i] = EntryOf(writer.chain[j])
  /\ Len(s) = Cardinality({j \in 1..k : Saves(writer.chain[j])})

LEMMA AppendFacts ==
  ASSUME NEW X, NEW s \in Seq(X), NEW y \in X
  PROVE  LET r == Append(s, y) IN
         /\ r \in Seq(X) /\ Len(r) = Len(s) + 1 /\ DOMAIN r = DOMAIN s \union {Len(s) + 1}
         /\ r[Len(s) + 1] = y /\ \A i \in DOMAIN s : r[i] = s[i]
<1> DEFINE r == Append(s, y)
<1>1. r \in Seq(X) /\ Len(r) = Len(s) + 1 /\ Len(s) \in Nat /\ DOMAIN s = 1..Len(s)
  OBVIOUS
<1>2. DOMAIN r = 1..(Len(s) + 1)
  BY <1>1
<1>3. DOMAIN r = DOMAIN s \union {Len(s) + 1}
  BY <1>1, <1>2
<1>4. r[Len(s) + 1] = y /\ \A i \in DOMAIN s : r[i] = s[i]
  OBVIOUS
<1> QED
  BY <1>1, <1>3, <1>4

LEMMA LaidNext ==
  ASSUME StaticOK, NEW k \in Nat, k + 1 \in DOMAIN writer.chain, NEW s, Laid(k, s)
  PROVE  Laid(k + 1, s \o Entry(writer.chain[k + 1]))
<1> DEFINE key == writer.chain[k + 1]
           X == {EntryOf(y) : y \in RangeOf(writer.chain)}
           S == {j \in 1..k : Saves(writer.chain[j])}
           R == {j \in 1..(k + 1) : Saves(writer.chain[j])}
<1>1. key \in Keys /\ key \in RangeOf(writer.chain) /\ EntryOf(key) \in X
  BY ChainKeys DEF StaticOK, RangeOf
<1>2. s \in Seq(X) /\ Len(s) = Cardinality(S)
  BY DEF Laid
<1>3. IsFiniteSet(S) /\ k + 1 \notin S
  <2>1. IsFiniteSet(1..k) /\ S \subseteq 1..k
    BY FS_Interval
  <2>2. IsFiniteSet(S)
    BY <2>1, FS_Subset
  <2> QED
    BY <2>2
<1>4. 1..(k + 1) = 1..k \union {k + 1}
  OBVIOUS
<1>5. CASE Saves(key)
  <2> DEFINE r == Append(s, EntryOf(key))
  <2>1. s \o Entry(key) = r
    <3> HIDE DEF key, X
    <3>1. s \o <<EntryOf(key)>> = Append(s, EntryOf(key))
      BY <1>1, <1>2
    <3> QED
      BY <1>1, <1>5, <3>1, EntryIs
  <2>2. /\ r \in Seq(X) /\ Len(r) = Len(s) + 1 /\ DOMAIN r = DOMAIN s \union {Len(s) + 1}
        /\ r[Len(s) + 1] = EntryOf(key) /\ \A i \in DOMAIN s : r[i] = s[i]
    <3> HIDE DEF X
    <3>1. EntryOf(key) \in X /\ s \in Seq(X)
      BY <1>1, <1>2
    <3> HIDE DEF key
    <3> QED
      BY <3>1, AppendFacts
  <2>3. R = S \union {k + 1}
    BY <1>4, <1>5
  <2>4. Len(r) = Cardinality(R)
    <3> HIDE DEF S, R, r
    <3> QED
      BY <1>2, <1>3, <2>2, <2>3, FS_AddElement
  <2> HIDE DEF r
  <2>5. ASSUME NEW i \in DOMAIN r
        PROVE  \E j \in 1..(k + 1) : Saves(writer.chain[j]) /\ r[i] = EntryOf(writer.chain[j])
    <3>1. CASE i \in DOMAIN s
      <4>1. PICK j \in 1..k : Saves(writer.chain[j]) /\ s[i] = EntryOf(writer.chain[j])
        BY <3>1 DEF Laid
      <4> QED
        BY <1>4, <2>2, <3>1, <4>1
    <3>2. CASE i = Len(s) + 1
      BY <1>4, <1>5, <2>2, <3>2
    <3> QED
      BY <2>2, <3>1, <3>2
  <2>6. ASSUME NEW j \in 1..(k + 1), Saves(writer.chain[j])
        PROVE  \E i \in DOMAIN r : r[i] = EntryOf(writer.chain[j])
    <3>1. CASE j \in 1..k
      BY <2>2, <2>6, <3>1 DEF Laid
    <3>2. CASE j = k + 1
      BY <2>2, <3>2
    <3> QED
      BY <1>4, <3>1, <3>2
  <2> QED
    BY <2>1, <2>2, <2>4, <2>5, <2>6 DEF Laid
<1>6. CASE ~Saves(key)
  <2>1. s \o Entry(key) = s
    <3> HIDE DEF key, X
    <3>1. s \o <<>> = s
      BY <1>2
    <3> QED
      BY <1>1, <1>6, <3>1, EntryIs
  <2>2. R = S
    BY <1>4, <1>6
  <2>3. \A i \in DOMAIN s : \E j \in 1..(k + 1) :
          Saves(writer.chain[j]) /\ s[i] = EntryOf(writer.chain[j])
    BY <1>4 DEF Laid
  <2>4. \A j \in 1..(k + 1) : Saves(writer.chain[j]) =>
          \E i \in DOMAIN s : s[i] = EntryOf(writer.chain[j])
    BY <1>4, <1>6 DEF Laid
  <2>5. s \in Seq(X) /\ Len(s) = Cardinality(R)
    BY <1>2, <2>2
  <2>6. Laid(k + 1, s)
    BY <2>3, <2>4, <2>5 DEF Laid
  <2> QED
    BY <2>1, <2>6
<1> QED
  BY <1>5, <1>6

(***************************************************************************)
(* save_entry walks the chain: what Entries defines.                       *)
(***************************************************************************)
LEMMA EntriesNext ==
  ASSUME StaticOK
  PROVE  /\ Entries[0] = <<>>
         /\ \A m \in 1..Len(writer.chain) :
              Entries[m] = Entries[m - 1] \o Entry(writer.chain[m])
<1> DEFINE n == Len(writer.chain)
           Upto(k, f) == f = [m \in 0..k |-> IF m = 0 THEN <<>>
                                             ELSE f[m - 1] \o Entry(writer.chain[m])]
           T == {k \in 0..n : ~\E f : Upto(k, f)}
<1>1. n \in Nat
  BY ChainKeys DEF StaticOK
<1>2. 0 \notin T
  <2>1. Upto(0, [m \in 0..0 |-> <<>>])
    OBVIOUS
  <2> QED
    BY <2>1
<1>3. ASSUME NEW k \in 0..n, k + 1 \in T PROVE k \in T
  <2> SUFFICES ASSUME NEW f, Upto(k, f) PROVE FALSE
    OBVIOUS
  <2> DEFINE g == [m \in 0..(k + 1) |-> IF m = k + 1 THEN f[k] \o Entry(writer.chain[m])
                                         ELSE f[m]]
             h == [m \in 0..(k + 1) |-> IF m = 0 THEN <<>>
                                         ELSE g[m - 1] \o Entry(writer.chain[m])]
  <2>1. ASSUME NEW m \in 0..(k + 1) PROVE g[m] = h[m]
    <3>1. CASE m = k + 1
      <4>1. k \in 0..(k + 1) /\ k # k + 1 /\ m # 0 /\ m - 1 = k
        BY <3>1
      <4>2. g[k] = f[k]
        BY <4>1
      <4> QED
        BY <3>1, <4>1, <4>2
    <3>2. CASE m = 0
      <4>1. m # k + 1 /\ m \in 0..k
        BY <3>2
      <4> QED
        BY <3>2, <4>1
    <3>3. CASE m # k + 1 /\ m # 0
      <4>1. m \in 0..k /\ m - 1 \in 0..(k + 1) /\ m - 1 # k + 1
        BY <3>3
      <4>2. g[m] = f[m] /\ g[m - 1] = f[m - 1]
        BY <3>3, <4>1
      <4>3. f[m] = f[m - 1] \o Entry(writer.chain[m])
        BY <3>3, <4>1
      <4> QED
        BY <3>3, <4>2, <4>3
    <3> QED
      BY <3>1, <3>2, <3>3
  <2>2. g = h
    BY <2>1
  <2>3. Upto(k + 1, g)
    BY <2>2
  <2> QED
    BY <1>3, <2>3
<1>4. T = {}
  <2>1. T \in SUBSET (0..n)
    OBVIOUS
  <2> HIDE DEF T
  <2> QED
    BY <1>1, <1>2, <1>3, <2>1, NoneFalse
<1> DEFINE IsEntries(f) == Upto(n, f)
<1>5. \E f : IsEntries(f)
  <2>1. n \in 0..n
    BY <1>1
  <2> HIDE DEF Upto
  <2>2. n \notin T
    BY <1>4
  <2> QED
    BY <2>1, <2>2
<1>6. Entries = CHOOSE f : IsEntries(f)
  BY DEF Entries
<1>7. IsEntries(Entries)
  <2> HIDE DEF IsEntries
  <2> QED
    BY <1>5, <1>6
<1>8. Entries = [m \in 0..n |-> IF m = 0 THEN <<>>
                               ELSE Entries[m - 1] \o Entry(writer.chain[m])]
  BY <1>7
<1>9. 0 \in 0..n /\ \A m \in 1..n : m \in 0..n /\ m # 0
  BY <1>1
<1> QED
  BY <1>8, <1>9

(***************************************************************************)
(* What save_entry writes is one entry for each type of the chain that has *)
(* something to save, as many as count_entries says.                       *)
(***************************************************************************)
LEMMA EntriesLaid ==
  ASSUME StaticOK
  PROVE  Laid(Len(writer.chain), Entries[Len(writer.chain)])
<1> DEFINE n == Len(writer.chain)
           T == {k \in 0..n : ~Laid(k, Entries[k])}
<1>1. n \in Nat /\ DOMAIN writer.chain = 1..n
  BY ChainKeys DEF StaticOK
<1>2. 0 \notin T
  <2>1. 1..0 = {} /\ {j \in 1..0 : Saves(writer.chain[j])} = {}
    OBVIOUS
  <2>2. Len(<<>>) = 0 /\ DOMAIN <<>> = {} /\ Cardinality({}) = 0
    BY FS_EmptySet
  <2>3. \A X : <<>> \in Seq(X)
    OBVIOUS
  <2>4. Laid(0, <<>>)
    BY <2>1, <2>2, <2>3 DEF Laid
  <2> QED
    BY <2>4, EntriesNext
<1>3. ASSUME NEW k \in 0..n, k + 1 \in T PROVE k \in T
  <2> SUFFICES ASSUME Laid(k, Entries[k]) PROVE FALSE
    OBVIOUS
  <2>1. k + 1 \in 1..n /\ (k + 1) - 1 = k /\ k \in Nat
    BY <1>1, <1>3
  <2>2. Entries[k + 1] = Entries[k] \o Entry(writer.chain[k + 1])
    BY <2>1, EntriesNext
  <2>3. Laid(k + 1, Entries[k + 1])
    BY <1>1, <2>1, <2>2, LaidNext
  <2> QED
    BY <1>3, <2>3
<1>4. T = {}
  <2>1. T \in SUBSET (0..n)
    OBVIOUS
  <2> HIDE DEF T
  <2> QED
    BY <1>1, <1>2, <1>3, <2>1, NoneFalse
<1> QED
  BY <1>1, <1>4

-----------------------------------------------------------------------------
(***************************************************************************)
(* The invariant holds at first.                                           *)
(***************************************************************************)
LEMMA WorldsOK == world \in Worlds => WorldOK
<1> SUFFICES ASSUME world \in Worlds PROVE WorldOK
  OBVIOUS
<1>1. PICK has \in UNION {[S -> SUBSET Types] : S \in {S \in SUBSET Ids : Distinct(S)}},
           res \in SUBSET Types :
        world = [entities  |-> [e \in DOMAIN has |-> [c \in has[e] |-> <<e, c>>]],
                 resources |-> [r \in res |-> <<"res", r>>]]
  BY DEF Worlds
<1>2. PICK S \in SUBSET Ids : Distinct(S) /\ has \in [S -> SUBSET Types]
  OBVIOUS
<1>3. /\ DOMAIN world.entities = S
      /\ \A e \in S : DOMAIN world.entities[e] = has[e]
      /\ DOMAIN world.resources = res
  BY <1>1, <1>2
<1> QED
  BY <1>2, <1>3 DEF WorldOK

LEMMA InitInvariant == Init => IInv
<1> SUFFICES ASSUME Init PROVE IInv
  OBVIOUS
<1>1. /\ phase = "saving" /\ announced = 0 /\ payload = <<>> /\ DOMAIN payload = {}
      /\ todo = {} /\ left = 0 /\ unread = FALSE /\ loaded = EmptyWorld /\ version = NoVersion
      /\ 1..announced = {} /\ Len(payload) = 0
  BY DEF Init
<1>2. StaticOK
  BY WorldsOK DEF Init, StaticOK
<1>3. Len(writer.chain) \in Nat
  BY <1>2, ChainKeys DEF StaticOK
<1>4. PayloadOK
  BY <1>1, <1>3 DEF PayloadOK, LengthOK, VersionFirst, EntriesOK, AllSaved
<1>5. LoadedOK
  BY <1>1 DEF LoadedOK, LoadPhases
<1>6. ReadingOK /\ LoadAnswers
  <2>1. CountedFirst /\ CountedExact /\ TextOK
    BY <1>1 DEF CountedFirst, CountedExact, TextOK
  <2>2. left \in 0..announced
    BY <1>1
  <2> QED
    BY <1>1, <2>1, <2>2 DEF ReadingOK, AtStart, Phases, LoadAnswers
<1> QED
  BY <1>2, <1>4, <1>5, <1>6 DEF IInv

\* What the invariant says of the worlds and persisters stays.
LEMMA SameStatic ==
  ASSUME UNCHANGED static
  PROVE  /\ \A key : (Saves(key)' <=> Saves(key)) /\ EntryOf(key)' = EntryOf(key)
         /\ \A entry : EntryOK(entry)' <=> EntryOK(entry)
         /\ \A C, R : Part(C, R)' = Part(C, R)
         /\ Compatible' <=> Compatible
         /\ StaticOK' <=> StaticOK
<1>1. UNCHANGED <<format, world, writer, reader>>
  BY DEF static
<1>2. \A key : (Saves(key)' <=> Saves(key)) /\ EntryOf(key)' = EntryOf(key)
  BY <1>1 DEF Saves, EntryOf, RowsOf
<1>3. \A entry : EntryOK(entry)' <=> EntryOK(entry)
  BY <1>1, <1>2 DEF EntryOK
<1>4. \A C, R : Part(C, R)' = Part(C, R)
  BY <1>1 DEF Part
<1> QED
  BY <1>1, <1>2, <1>3, <1>4 DEF Compatible, StaticOK, WorldOK

LEMMA PrependFacts ==
  ASSUME NEW X, NEW s \in Seq(X), NEW y
  PROVE  LET r == <<y>> \o s IN
         /\ DOMAIN r = 1..(Len(s) + 1) /\ Len(r) = Len(s) + 1 /\ r[1] = y
         /\ \A i \in DOMAIN s : i + 1 \in DOMAIN r /\ i + 1 # 1 /\ r[i + 1] = s[i]
         /\ \A i \in DOMAIN r : i = 1 \/ (i - 1 \in DOMAIN s /\ r[i] = s[i - 1])
<1> DEFINE r == <<y>> \o s
           Y == X \union {y}
<1>1. <<y>> \in Seq(Y) /\ s \in Seq(Y) /\ Len(<<y>>) = 1 /\ <<y>>[1] = y
  OBVIOUS
<1>2. Len(s) \in Nat /\ DOMAIN s = 1..Len(s)
  OBVIOUS
<1>3. /\ Len(r) = Len(s) + 1 /\ DOMAIN r = 1..(Len(s) + 1)
      /\ \A i \in 1..(Len(s) + 1) : r[i] = IF i <= 1 THEN <<y>>[i] ELSE s[i - 1]
  <2> HIDE DEF Y
  <2> QED
    BY <1>1, <1>2
<1> HIDE DEF r
<1>4. \A i \in DOMAIN s : i + 1 \in DOMAIN r /\ i + 1 # 1 /\ r[i + 1] = s[i]
  BY <1>2, <1>3
<1>5. \A i \in DOMAIN r : i = 1 \/ (i - 1 \in DOMAIN s /\ r[i] = s[i - 1])
  BY <1>2, <1>3
<1>6. r[1] = y
  BY <1>1, <1>2, <1>3
<1> QED
  BY <1>3, <1>4, <1>5, <1>6 DEF r

(***************************************************************************)
(* count_entries is the number of types with something to save.            *)
(***************************************************************************)
LEMMA CountIs ==
  ASSUME StaticOK
  PROVE  /\ CountEntries = Cardinality({i \in 1..Len(writer.chain) : Saves(writer.chain[i])})
         /\ CountEntries \in 0..Len(writer.chain)
<1> DEFINE n == Len(writer.chain)
           S == {i \in 1..n : Saves(writer.chain[i])}
<1>1. n \in Nat /\ DOMAIN writer.chain = 1..n
  BY ChainKeys DEF StaticOK
<1>2. CountEntries = Cardinality(S)
  BY <1>1 DEF CountEntries, Saves
<1>3. IsFiniteSet(1..n) /\ Cardinality(1..n) = n /\ S \subseteq 1..n
  <2>1. S \subseteq 1..n
    OBVIOUS
  <2> HIDE DEF S, n
  <2>2. IsFiniteSet(1..n) /\ Cardinality(1..n) = IF 1 > n THEN 0 ELSE n - 1 + 1
    <3>1. 1 \in Int /\ n \in Int
      BY <1>1
    <3> QED
      BY <3>1, FS_Interval, Zenon
  <2> QED
    BY <1>1, <2>1, <2>2
<1>4. Cardinality(S) \in Nat /\ Cardinality(S) <= n
  <2> HIDE DEF S, n
  <2> QED
    BY <1>3, FS_Subset, FS_CardinalityType
<1> QED
  BY <1>1, <1>2, <1>4

(***************************************************************************)
(* save writes as many entries as it announces: one for the version, and   *)
(* one for each type with something to save.                               *)
(***************************************************************************)
LEMMA SaveKeepsPayload ==
  ASSUME IInv, Save
  PROVE  PayloadOK'
<1> DEFINE n == Len(writer.chain)
           s == Entries[n]
           X == {EntryOf(key) : key \in RangeOf(writer.chain)}
<1>1. /\ announced' = CountEntries + (IF writer.version = NoVersion THEN 0 ELSE 1)
      /\ payload' = VersionEntry \o s /\ phase' = "saved" /\ UNCHANGED static
      /\ StaticOK
  BY DEF Save, IInv
<1>2. UNCHANGED <<format, world, writer, reader>>
  BY <1>1 DEF static
<1>3. n \in Nat /\ DOMAIN writer.chain = 1..n /\ RangeOf(writer.chain) = {writer.chain[j] : j \in 1..n}
  BY <1>1, ChainKeys DEF StaticOK, RangeOf
<1>4. Laid(n, s)
  BY <1>1, EntriesLaid
<1> HIDE DEF s
<1>5. s \in Seq(X) /\ Len(s) = CountEntries /\ CountEntries \in 0..n
  BY <1>1, <1>4, CountIs DEF Laid
<1>6. ASSUME NEW i \in DOMAIN s PROVE EntryOK(s[i]) /\ s[i].key # VERSION_KEY
  <2>1. PICK j \in 1..n : Saves(writer.chain[j]) /\ s[i] = EntryOf(writer.chain[j])
    BY <1>4 DEF Laid
  <2>2. s[i].key = writer.chain[j] /\ writer.chain[j] \in Keys
    BY <1>1, <1>3, <2>1, ChainKeys DEF EntryOf, StaticOK
  <2> QED
    BY <1>3, <2>1, <2>2, KeyParts DEF EntryOK
<1>7. ASSUME NEW key \in RangeOf(writer.chain), Saves(key)
      PROVE  \E i \in DOMAIN s : s[i].key = key
  <2>1. PICK j \in 1..n : key = writer.chain[j]
    BY <1>3
  <2>2. PICK i \in DOMAIN s : s[i] = EntryOf(key)
    BY <1>4, <1>7, <2>1 DEF Laid
  <2>3. EntryOf(key).key = key
    BY DEF EntryOf
  <2> QED
    BY <2>2, <2>3
<1>8. CASE writer.version = NoVersion
  <2>1. payload' = s
    <3>1. VersionEntry = <<>>
      BY <1>8 DEF VersionEntry
    <3> HIDE DEF X
    <3>2. <<>> \o s = s
      BY <1>5
    <3> QED
      BY <1>1, <3>1, <3>2
  <2>2. announced' \in 0..(n + 1) /\ DOMAIN payload' = 1..announced' /\ Len(payload') = announced'
    <3> HIDE DEF X
    <3>1. announced' = Len(s)
      BY <1>1, <1>5, <1>8
    <3>2. DOMAIN s = 1..Len(s)
      BY <1>5
    <3> QED
      BY <1>3, <1>5, <2>1, <3>1, <3>2
  <2>3. LengthOK' /\ VersionFirst'
    BY <1>2, <1>6, <1>8, <2>1, <2>2 DEF LengthOK, VersionFirst
  <2>4. EntriesOK'
    BY <1>1, <1>6, <2>1, SameStatic DEF EntriesOK
  <2>5. AllSaved'
    BY <1>1, <1>2, <1>7, <2>1, SameStatic DEF AllSaved
  <2> QED
    BY <2>3, <2>4, <2>5 DEF PayloadOK
<1>9. CASE writer.version # NoVersion
  <2> DEFINE entry == [key |-> VERSION_KEY, value |-> writer.version]
  <2>1. /\ DOMAIN payload' = 1..(Len(s) + 1) /\ Len(payload') = Len(s) + 1 /\ payload'[1] = entry
        /\ \A i \in DOMAIN s : i + 1 \in DOMAIN payload' /\ payload'[i + 1] = s[i]
        /\ \A i \in DOMAIN payload' : i = 1 \/ (i - 1 \in DOMAIN s /\ payload'[i] = s[i - 1])
    <3>1. payload' = <<entry>> \o s
      BY <1>1, <1>9 DEF VersionEntry
    <3> HIDE DEF X, entry
    <3> QED
      BY <1>5, <3>1, PrependFacts
  <2>2. /\ announced' \in 0..(n + 1) /\ DOMAIN payload' = 1..announced'
        /\ Len(payload') = announced' /\ 1 \in DOMAIN payload'
    BY <1>1, <1>3, <1>5, <1>9, <2>1
  <2>3. LengthOK' /\ VersionFirst'
    BY <1>2, <1>6, <2>1, <2>2 DEF LengthOK, VersionFirst
  <2>4. EntriesOK'
    <3> SUFFICES ASSUME NEW i \in DOMAIN payload' PROVE EntryOK(payload'[i])
      BY <1>1, SameStatic DEF EntriesOK
    <3>1. EntryOK(entry)
      BY <1>9 DEF EntryOK
    <3> QED
      BY <1>6, <2>1, <3>1
  <2>5. AllSaved'
    <3> SUFFICES ASSUME NEW key \in RangeOf(writer.chain), Saves(key)
                 PROVE  \E i \in DOMAIN payload' : payload'[i].key = key
      BY <1>1, <1>2, SameStatic DEF AllSaved
    <3>1. PICK i \in DOMAIN s : s[i].key = key
      BY <1>7
    <3> QED
      BY <2>1, <3>1
  <2> QED
    BY <2>3, <2>4, <2>5 DEF PayloadOK
<1> QED
  BY <1>8, <1>9

LEMMA SaveKeeps ==
  ASSUME IInv, Save
  PROVE  IInv'
<1>1. /\ phase = "saving" /\ phase' = "saved"
      /\ UNCHANGED <<static, todo, left, unread, loaded, version>>
      /\ StaticOK /\ LoadedOK /\ ReadingOK /\ LengthOK
  BY DEF Save, IInv, PayloadOK
<1>2. todo = {} /\ left = 0 /\ unread = FALSE /\ version = NoVersion /\ loaded = EmptyWorld
  <2>1. AtStart
    BY <1>1 DEF ReadingOK
  <2> QED
    BY <1>1, <2>1 DEF AtStart, ReadingOK, LoadedOK, LoadPhases
<1>3. StaticOK'
  BY <1>1, SameStatic
<1>4. LoadedOK'
  BY <1>1, <1>2 DEF LoadedOK, LoadPhases
<1>5. PayloadOK' /\ announced' \in Nat
  <2>1. Len(writer'.chain) \in Nat
    BY <1>3, ChainKeys DEF StaticOK
  <2> QED
    BY <2>1, SaveKeepsPayload DEF PayloadOK, LengthOK
<1>6. ReadingOK' /\ LoadAnswers'
  BY <1>1, <1>2, <1>5
     DEF ReadingOK, AtStart, Phases, LoadAnswers, static, CountedFirst, CountedExact, TextOK
<1> QED
  BY <1>3, <1>4, <1>5, <1>6 DEF IInv

-----------------------------------------------------------------------------
(***************************************************************************)
(* Reading leaves the payload alone.                                       *)
(***************************************************************************)
LEMMA SamePayload ==
  ASSUME IInv, UNCHANGED <<static, saved>>, phase # "saving"
  PROVE  StaticOK' /\ PayloadOK'
<1>1. UNCHANGED <<format, world, writer, reader, announced, payload>> /\ StaticOK /\ PayloadOK
  BY DEF static, saved, IInv
<1>2. LengthOK' /\ VersionFirst'
  BY <1>1 DEF PayloadOK, LengthOK, VersionFirst
<1>3. EntriesOK'
  BY <1>1, SameStatic DEF PayloadOK, EntriesOK
<1>4. AllSaved'
  BY <1>1, SameStatic DEF PayloadOK, AllSaved
<1> QED
  BY <1>1, <1>2, <1>3, <1>4, SameStatic DEF PayloadOK

LEMMA SameAnswers ==
  ASSUME UNCHANGED <<static, saved>>
  PROVE  /\ Compatible' <=> Compatible
         /\ KnowsAll' <=> KnowsAll
         /\ KnowsTypes' <=> KnowsTypes
         /\ OnlyVersion' <=> OnlyVersion
         /\ Exact' <=> Exact
         /\ \A C, R : Part(C, R)' = Part(C, R)
         /\ UNCHANGED <<format, world, writer, reader, announced, payload>>
<1>1. UNCHANGED <<format, world, writer, reader, announced, payload>>
  BY DEF static, saved
<1> QED
  BY <1>1, SameStatic DEF KnowsAll, KnowsTypes, OnlyVersion, Exact

LEMMA Announced ==
  ASSUME IInv
  PROVE  /\ announced \in Nat /\ DOMAIN payload = 1..announced /\ Len(payload) = announced
         /\ format \in {"text", "tree", "counted"}
<1>1. format \in {"text", "tree", "counted"}
  BY PersistAssumption DEF IInv, StaticOK
<1>2. Len(writer.chain) \in Nat
  BY ChainKeys DEF IInv, StaticOK
<1> QED
  BY <1>1, <1>2 DEF IInv, PayloadOK, LengthOK

\* Whatever the format, a reader finds the entries that were written.
LEMMA PositionsOK == ASSUME IInv PROVE Positions = DOMAIN payload
<1>1. announced = 0 => 1..announced = {}
  OBVIOUS
<1> QED
  BY <1>1, Announced DEF Positions

LEMMA EntryKinds ==
  ASSUME IInv, NEW i \in DOMAIN payload
  PROVE  \/ /\ payload[i].key = VERSION_KEY /\ payload[i].value = writer.version
            /\ writer.version # NoVersion
         \/ /\ payload[i].key \in Keys /\ payload[i].key \in RangeOf(writer.chain)
            /\ payload[i].key # VERSION_KEY
            /\ Saves(payload[i].key) /\ payload[i] = EntryOf(payload[i].key)
<1>1. EntryOK(payload[i]) /\ writer \in Persisters
  BY DEF IInv, PayloadOK, EntriesOK, StaticOK
<1>2. CASE writer.version # NoVersion /\ payload[i] = [key |-> VERSION_KEY, value |-> writer.version]
  BY <1>2
<1>3. ASSUME NEW key \in RangeOf(writer.chain), Saves(key), payload[i] = EntryOf(key)
      PROVE  /\ payload[i].key \in Keys /\ payload[i].key \in RangeOf(writer.chain)
             /\ payload[i].key # VERSION_KEY
             /\ Saves(payload[i].key) /\ payload[i] = EntryOf(payload[i].key)
  <2>1. payload[i].key = key
    BY <1>3 DEF EntryOf
  <2>2. key \in Keys
    BY <1>1, ChainKeys
  <2> QED
    BY <1>3, <2>1, <2>2, KeyParts
<1> QED
  BY <1>1, <1>2, <1>3 DEF EntryOK

(***************************************************************************)
(* An entry is read: its type is one more of those that are known, if the  *)
(* reader knows it.  bincode has come past the first.                      *)
(***************************************************************************)
LEMMA DoneNext ==
  ASSUME IInv, NEW i \in todo, Reading(i), NextTodo(i), UNCHANGED <<static, saved>>
  PROVE  /\ i \in DOMAIN payload /\ Done' = Done \union {i} /\ todo' \subseteq DOMAIN payload'
         /\ \A kind : Known(kind)' = Known(kind) \union
              {c \in Types : <<kind, c>> \in RangeOf(reader.chain) /\ payload[i].key = <<kind, c>>}
         /\ left' \in 0..announced'
         /\ format = "counted" /\ phase \in {"loading", "asking"} =>
              left' # announced' /\ 1 \notin todo' /\ (left = announced => i = 1)
<1>1. UNCHANGED <<format, reader, payload, announced>> /\ todo \subseteq DOMAIN payload
      /\ todo' = todo \ {i}
  BY DEF static, saved, IInv, ReadingOK, NextTodo
<1>2. i \in DOMAIN payload /\ Done' = Done \union {i} /\ todo' \subseteq DOMAIN payload'
  BY <1>1 DEF Done
<1>3. \A kind : Known(kind)' = Known(kind) \union
        {c \in Types : <<kind, c>> \in RangeOf(reader.chain) /\ payload[i].key = <<kind, c>>}
  BY <1>1, <1>2 DEF Known, RangeOf
<1>4. left \in 0..announced /\ announced \in Nat /\ DOMAIN payload = 1..announced
  BY Announced DEF IInv, ReadingOK
<1>5. left' \in 0..announced' /\ (format = "counted" => left' # announced')
  BY <1>1, <1>4 DEF Reading, NextTodo
<1>6. ASSUME format = "counted", phase \in {"loading", "asking"}
      PROVE  1 \notin todo' /\ (left = announced => i = 1)
  <2>1. CASE left = announced
    <3>1. todo = 1..announced /\ 1 \in todo
      BY <1>2, <1>4, <1>6, <2>1 DEF IInv, ReadingOK, CountedFirst
    <3>2. i <= 1 /\ i \in Nat /\ i >= 1
      BY <1>2, <1>4, <1>6, <3>1 DEF Reading, IsNext
    <3> QED
      BY <1>1, <3>2
  <2>2. CASE left # announced
    BY <1>1, <1>6, <2>2 DEF IInv, ReadingOK, CountedFirst
  <2> QED
    BY <2>1, <2>2
<1> QED
  BY <1>2, <1>3, <1>5, <1>6

\* An entry nobody asks for, or the version's, adds no type.
LEMMA KnownSame ==
  ASSUME IInv, NEW i \in todo, Reading(i), NextTodo(i), UNCHANGED <<static, saved>>,
         payload[i].key \notin RangeOf(reader.chain)
  PROVE  \A kind : Known(kind)' = Known(kind)
<1>1. \A kind : Known(kind)' = Known(kind) \union
        {c \in Types : <<kind, c>> \in RangeOf(reader.chain) /\ payload[i].key = <<kind, c>>}
  BY DoneNext
<1>2. \A kind : {c \in Types : <<kind, c>> \in RangeOf(reader.chain) /\ payload[i].key = <<kind, c>>} = {}
  OBVIOUS
<1> QED
  BY <1>1, <1>2

LEMMA PartIs ==
  \A C, R : Part(C, R) = [entities |-> PartOf(C), resources |-> Only(world.resources, R)]
BY DEF Part, PartOf

LEMMA StartKeeps ==
  ASSUME IInv, StartLoad \/ StartLoadVersion
  PROVE  IInv'
<1>1. /\ phase = "saved" /\ phase' \in {"loading", "asking"} /\ todo' = Positions /\ left' = announced
      /\ UNCHANGED <<static, saved, unread, loaded, version>>
  BY DEF StartLoad, StartLoadVersion
<1>2. StaticOK' /\ PayloadOK'
  BY <1>1, SamePayload
<1>3. UNCHANGED <<format, world, writer, reader, announced, payload>>
  BY <1>1, SameAnswers
<1>4. Done' = {} /\ todo' = DOMAIN payload' /\ DOMAIN payload' = 1..announced' /\ announced' \in Nat
  BY <1>1, <1>3, PositionsOK, Announced DEF Done
<1>5. unread = FALSE /\ version = NoVersion /\ loaded = EmptyWorld
  BY <1>1 DEF IInv, ReadingOK, AtStart, LoadedOK, LoadPhases
<1>6. CountedFirst' /\ TextOK'
  BY <1>1, <1>3, <1>4, <1>5 DEF CountedFirst, TextOK
<1>7. CountedExact'
  <2>1. left' = announced' /\ unread' = FALSE
    BY <1>1, <1>3, <1>5
  <2>2. todo' = (announced' - left' + 1)..announced'
    BY <1>4, <2>1
  <2> QED
    BY <2>1, <2>2 DEF CountedExact
<1>8. ReadingOK' /\ LoadAnswers'
  <2>1. left' \in 0..announced'
    BY <1>1, <1>3, <1>4
  <2> QED
    BY <1>1, <1>3, <1>4, <1>5, <1>6, <1>7, <2>1 DEF ReadingOK, AtStart, Phases, LoadAnswers
<1>9. LoadedOK'
  <2>1. \A kind : Known(kind)' = {}
    BY <1>4 DEF Known
  <2>2. Part({}, {}) = EmptyWorld /\ Part({}, {})' = Part({}, {})
    <3>1. PartOf({}) = [e \in {} |-> <<>>] /\ Only(world.resources, {}) = [r \in {} |-> <<>>]
      BY DEF PartOf, Only
    <3> QED
      BY <1>1, <3>1, PartIs, SameAnswers DEF EmptyWorld
  <2> QED
    BY <1>1, <1>5, <2>1, <2>2 DEF LoadedOK, LoadPhases, EmptyWorld
<1> QED
  BY <1>2, <1>8, <1>9 DEF IInv

-----------------------------------------------------------------------------
(***************************************************************************)
(* Steps that take no value into the world.                                *)
(***************************************************************************)
LEMMA LoadedSame ==
  ASSUME IInv, UNCHANGED <<static, saved, loaded>>,
         phase \in LoadPhases <=> phase' \in LoadPhases,
         phase \in LoadPhases => \A kind : /\ Known(kind) \subseteq Known(kind)'
                                           /\ Exact => Known(kind)' = Known(kind)
  PROVE  LoadedOK'
<1>1. (\A C, R : Part(C, R)' = Part(C, R)) /\ (Exact' <=> Exact)
  BY SameAnswers
<1>2. CASE phase \in LoadPhases
  <2>1. PICK C \in SUBSET Known("Component"), R \in SUBSET Known("Resource") :
          /\ loaded = Part(C, R)
          /\ Exact => C = Known("Component") /\ R = Known("Resource")
    BY <1>2 DEF IInv, LoadedOK
  <2>2. loaded' = Part(C, R)'
    BY <1>1, <2>1
  <2> QED
    BY <1>1, <1>2, <2>1, <2>2 DEF LoadedOK
<1>3. CASE phase \notin LoadPhases
  BY <1>3 DEF IInv, LoadedOK, EmptyWorld
<1> QED
  BY <1>2, <1>3

\* Steps that end the reading leave all entries where they are.
LEMMA KnownStays ==
  ASSUME UNCHANGED <<static, saved, todo>>
  PROVE  Done' = Done /\ \A kind : Known(kind)' = Known(kind)
<1>1. UNCHANGED <<reader, payload, todo>>
  BY DEF static, saved
<1> QED
  BY <1>1 DEF Done, Known

LEMMA ReaderKeys ==
  ASSUME IInv
  PROVE  RangeOf(reader.chain) \subseteq Keys /\ VERSION_KEY \notin RangeOf(reader.chain)
<1>1. RangeOf(reader.chain) \subseteq Keys
  BY ChainKeys DEF IInv, StaticOK
<1> QED
  BY <1>1, KeyParts

\* The version's entry is the first.
LEMMA VersionAt ==
  ASSUME IInv, phase # "saving"
  PROVE  /\ \A i \in DOMAIN payload : payload[i].key = VERSION_KEY => i = 1
         /\ writer.version # NoVersion <=> 1 \in DOMAIN payload /\ payload[1].key = VERSION_KEY
         /\ writer.version # NoVersion => announced >= 1
<1>1. VersionFirst
  BY DEF IInv, PayloadOK
<1>2. \A i \in DOMAIN payload : payload[i].key = VERSION_KEY => writer.version # NoVersion
  BY EntryKinds
<1> QED
  BY <1>1, <1>2, Announced DEF VersionFirst

(***************************************************************************)
(* The version's entry: it is the writer's, and either goes with that of   *)
(* the reader or ends the load.                                            *)
(***************************************************************************)
LEMMA LoadVersionKeyKeeps ==
  ASSUME IInv, NEW i \in todo, LoadVersionKey(i)
  PROVE  IInv'
<1>1. /\ phase = "loading" /\ payload[i].key = VERSION_KEY /\ Reading(i) /\ NextTodo(i)
      /\ UNCHANGED <<static, saved, loaded, version>>
      /\ \/ reader.version = NoVersion /\ unread' = TRUE /\ phase' = phase
         \/ /\ reader.version # NoVersion /\ unread' = FALSE
            /\ phase' = IF Matches(payload[i].value, reader.version) THEN "loading" ELSE "mismatch"
  BY DEF LoadVersionKey
<1>2. StaticOK' /\ PayloadOK'
  BY <1>1, SamePayload
<1>3. /\ Done' = Done \union {i} /\ todo' \subseteq DOMAIN payload' /\ i \in DOMAIN payload
      /\ left' \in 0..announced'
      /\ UNCHANGED <<format, world, writer, reader, announced, payload>>
      /\ (Compatible' <=> Compatible) /\ (KnowsAll' <=> KnowsAll) /\ (KnowsTypes' <=> KnowsTypes)
  BY <1>1, DoneNext, SameAnswers
<1>4. payload[i].value = writer.version /\ writer.version # NoVersion /\ i = 1
  BY <1>1, <1>3, EntryKinds, VersionAt
<1>5. LoadedOK'
  <2>1. \A kind : Known(kind)' = Known(kind)
    BY <1>1, KnownSame, ReaderKeys
  <2> QED
    BY <1>1, <2>1, LoadedSame DEF LoadPhases
<1>6. ReadingOK /\ version = NoVersion /\ left \in 0..announced /\ announced \in Nat
      /\ todo \subseteq 1..announced
  BY <1>1, Announced DEF IInv, ReadingOK
<1>7. CountedFirst'
  BY <1>1, <1>3, DoneNext DEF CountedFirst
<1>8. CountedExact'
  <2> SUFFICES ASSUME format = "counted", KnowsTypes, phase' = "loading"
               PROVE  \/ /\ todo' = (announced - left' + 1)..announced /\ unread' = FALSE
                         /\ reader.version # NoVersion
                      \/ /\ todo' = 2..announced /\ left' + 1 = announced /\ unread' = TRUE
                         /\ reader.version = NoVersion
    BY <1>1, <1>3, <1>4 DEF CountedExact, VersionUnasked
  <2>1. unread = FALSE /\ left > 0 /\ todo' = todo \ {1} /\ left' = left - 1
    BY <1>1, <1>4, <1>6 DEF Reading, NextTodo, ReadingOK
  <2>2. \/ todo = (announced - left + 1)..announced
        \/ todo = (announced - left)..announced /\ left + 1 < announced
    BY <1>1, <1>6, <2>1 DEF ReadingOK, CountedExact
  <2>3. left = announced /\ todo = 1..announced
    BY <1>4, <1>6, <2>2
  <2>4. todo' = 2..announced /\ left' + 1 = announced /\ announced - left' + 1 = 2
    BY <1>6, <2>1, <2>3
  <2> QED
    BY <1>1, <2>4
<1>9. TextOK'
  BY <1>1, <1>3, <1>6 DEF TextOK, ReadingOK, Reading
<1>10. CASE reader.version = NoVersion
  <2>1. ~KnowsAll
    BY <1>4, <1>10 DEF KnowsAll
  <2>2. Compatible
    BY <1>10 DEF Compatible
  <2>3. phase' = "loading" /\ unread' = TRUE
    BY <1>1, <1>10
  <2>4. ReadingOK' /\ LoadAnswers'
    BY <1>1, <1>3, <1>6, <1>7, <1>8, <1>9, <2>1, <2>2, <2>3
       DEF ReadingOK, AtStart, Phases, LoadAnswers
  <2> QED
    BY <1>2, <1>5, <2>4 DEF IInv
<1>11. CASE reader.version # NoVersion
  <2>1. unread' = FALSE
    BY <1>1, <1>11
  <2>2. Compatible <=> Matches(payload[i].value, reader.version)
    BY <1>4, <1>11 DEF Compatible, Matches
  <2>3. phase' = IF Compatible THEN "loading" ELSE "mismatch"
    BY <1>1, <1>11, <2>2
  <2>4. ReadingOK' /\ LoadAnswers'
    BY <1>1, <1>3, <1>6, <1>7, <1>8, <1>9, <2>1, <2>3
       DEF ReadingOK, AtStart, Phases, LoadAnswers
  <2> QED
    BY <1>2, <1>5, <2>4 DEF IInv
<1> QED
  BY <1>10, <1>11

(***************************************************************************)
(* The entry of a type nobody asks for: its value is left where it is.     *)
(***************************************************************************)
LEMMA LoadUnknownKeeps ==
  ASSUME IInv, NEW i \in todo, LoadUnknown(i)
  PROVE  IInv'
<1>1. /\ phase = "loading" /\ Reading(i) /\ NextTodo(i) /\ unread' = TRUE
      /\ payload[i].key \notin RangeOf(reader.chain) /\ payload[i].key # VERSION_KEY
      /\ UNCHANGED <<static, saved, loaded, version, phase>>
  BY DEF LoadUnknown
<1>2. StaticOK' /\ PayloadOK'
  BY <1>1, SamePayload
<1>3. /\ Done' = Done \union {i} /\ todo' \subseteq DOMAIN payload' /\ i \in DOMAIN payload
      /\ left' \in 0..announced'
      /\ UNCHANGED <<format, world, writer, reader, announced, payload>>
      /\ (Compatible' <=> Compatible) /\ (KnowsAll' <=> KnowsAll) /\ (KnowsTypes' <=> KnowsTypes)
  BY <1>1, DoneNext, SameAnswers
<1>4. LoadedOK'
  <2>1. \A kind : Known(kind)' = Known(kind)
    BY <1>1, KnownSame
  <2> QED
    BY <1>1, <2>1, LoadedSame
<1>5. ~KnowsTypes /\ ~KnowsAll
  BY <1>1, <1>3 DEF KnowsAll, KnowsTypes
<1>6. CountedFirst' /\ CountedExact' /\ TextOK'
  BY <1>1, <1>3, <1>5, DoneNext DEF CountedFirst, CountedExact, TextOK
<1>7. ReadingOK' /\ LoadAnswers'
  BY <1>1, <1>3, <1>5, <1>6 DEF IInv, ReadingOK, AtStart, Phases, LoadAnswers
<1> QED
  BY <1>2, <1>4, <1>7 DEF IInv

(***************************************************************************)
(* bincode takes a value for a key: entries may be passed over, but for a  *)
(* version's, which it comes to first.                                     *)
(***************************************************************************)
LEMMA MisreadKeyKeeps ==
  ASSUME IInv, MisreadKey
  PROVE  IInv'
<1>1. /\ phase \in {"loading", "asking"} /\ format = "counted" /\ left > 0 /\ left' = left - 1
      /\ unread = TRUE /\ unread' \in BOOLEAN /\ todo' \subseteq todo
      /\ VersionUnread => todo' = todo /\ unread' = FALSE
      /\ UNCHANGED <<static, phase, saved, loaded, version>>
  BY DEF MisreadKey, IInv, ReadingOK
<1>2. StaticOK' /\ PayloadOK'
  BY <1>1, SamePayload
<1>3. /\ UNCHANGED <<format, world, writer, reader, announced, payload>>
      /\ (Compatible' <=> Compatible) /\ (KnowsAll' <=> KnowsAll) /\ (KnowsTypes' <=> KnowsTypes)
      /\ (OnlyVersion' <=> OnlyVersion) /\ (Exact' <=> Exact)
  BY <1>1, SameAnswers
<1>4. /\ left \in 0..announced /\ announced \in Nat /\ DOMAIN payload = 1..announced
      /\ todo \subseteq DOMAIN payload /\ ReadingOK
      /\ todo' \subseteq DOMAIN payload' /\ left' \in 0..announced' /\ left' # announced'
  BY <1>1, <1>3, Announced DEF IInv, ReadingOK
<1>5. left # announced /\ 1 \notin todo /\ (phase = "asking" => writer.version = NoVersion)
  BY <1>1, <1>4 DEF ReadingOK, CountedFirst
<1>6. /\ Done \subseteq Done' /\ \A kind : Known(kind) \subseteq Known(kind)'
      /\ \A j \in Done' \ Done : j \in DOMAIN payload /\ payload[j].key # VERSION_KEY
  BY <1>1, <1>3, <1>4, <1>5, VersionAt DEF Done, Known
<1>7. ASSUME phase = "loading", KnowsTypes
      PROVE  /\ VersionUnread /\ todo' = 2..announced /\ left + 1 = announced /\ VersionUnasked
  <2>1. todo = 2..announced /\ left + 1 = announced /\ VersionUnasked
    BY <1>1, <1>4, <1>7 DEF ReadingOK, CountedExact
  <2>2. 1 \in DOMAIN payload /\ payload[1].key = VERSION_KEY
    BY <1>1, <2>1, VersionAt DEF VersionUnasked
  <2>3. todo = DOMAIN payload \ {1}
    BY <1>4, <2>1
  <2> QED
    BY <1>1, <2>1, <2>2, <2>3 DEF VersionUnread
<1>8. LoadedOK'
  <2>1. phase = "loading" /\ Exact => todo' = todo
    BY <1>1, <1>7 DEF Exact
  <2>2. phase = "loading" /\ Exact => \A kind : Known(kind)' = Known(kind)
    BY <1>1, <2>1, KnownStays
  <2> QED
    BY <1>1, <1>6, <2>2, LoadedSame DEF LoadPhases
<1>9. CountedFirst' /\ TextOK'
  BY <1>1, <1>3, <1>4, <1>5 DEF CountedFirst, TextOK
<1>10. CountedExact'
  <2> SUFFICES ASSUME phase = "loading", KnowsTypes
               PROVE  /\ todo' = (announced - left')..announced /\ unread' = FALSE
                      /\ VersionUnasked' /\ left' + 1 < announced
    BY <1>1, <1>3 DEF CountedExact
  <2>1. todo' = 2..announced /\ left + 1 = announced /\ unread' = FALSE /\ VersionUnasked
    BY <1>1, <1>7
  <2>2. announced - left' = 2 /\ left' + 1 < announced
    BY <1>1, <1>4, <2>1
  <2> QED
    BY <1>1, <1>3, <2>1, <2>2 DEF VersionUnasked
<1>11. unread' /\ phase = "loading" => ~KnowsAll
  BY <1>1, <1>4 DEF ReadingOK
<1>12. ReadingOK' /\ LoadAnswers'
  BY <1>1, <1>3, <1>4, <1>6, <1>9, <1>10, <1>11 DEF ReadingOK, AtStart, Phases, LoadAnswers
<1> QED
  BY <1>2, <1>8, <1>12 DEF IInv

(***************************************************************************)
(* load_version.                                                           *)
(***************************************************************************)
LEMMA AskingFacts ==
  ASSUME IInv, phase = "asking"
  PROVE  version = NoVersion /\ ReadingOK /\ LoadedOK /\ phase \notin LoadPhases
BY DEF IInv, ReadingOK, LoadPhases

LEMMA PassEntryKeeps ==
  ASSUME IInv, NEW i \in todo, PassEntry(i)
  PROVE  IInv'
<1>1. /\ phase = "asking" /\ Reading(i) /\ NextTodo(i) /\ unread' = TRUE
      /\ payload[i].key # VERSION_KEY
      /\ UNCHANGED <<static, saved, loaded, version, phase>>
  BY DEF PassEntry
<1>2. StaticOK' /\ PayloadOK'
  BY <1>1, SamePayload
<1>3. /\ Done' = Done \union {i} /\ todo' \subseteq DOMAIN payload' /\ i \in DOMAIN payload
      /\ left' \in 0..announced'
      /\ UNCHANGED <<format, world, writer, reader, announced, payload>>
      /\ (OnlyVersion' <=> OnlyVersion)
  BY <1>1, DoneNext, SameAnswers
<1>4. LoadedOK'
  BY <1>1, AskingFacts, LoadedSame
<1>5. ~OnlyVersion
  BY <1>1, <1>3 DEF OnlyVersion
<1>6. CountedFirst'
  <2> SUFFICES ASSUME format = "counted" PROVE writer.version = NoVersion
    BY <1>1, <1>3, DoneNext DEF CountedFirst
  <2>1. CASE left = announced
    BY <1>1, <2>1, DoneNext, VersionAt
  <2>2. CASE left # announced
    BY <1>1, <2>2 DEF IInv, ReadingOK, CountedFirst
  <2> QED
    BY <2>1, <2>2
<1>7. CountedExact' /\ TextOK'
  BY <1>1 DEF CountedExact, TextOK
<1>8. ReadingOK' /\ LoadAnswers'
  BY <1>1, <1>3, <1>5, <1>6, <1>7 DEF IInv, ReadingOK, AtStart, Phases, LoadAnswers
<1> QED
  BY <1>2, <1>4, <1>8 DEF IInv

(***************************************************************************)
(* The version is found.  A tree comes to it last; in a text there may be  *)
(* entries behind it, and the text's end is missed.                        *)
(***************************************************************************)
LEMMA FindVersionKeeps ==
  ASSUME IInv, NEW i \in todo, FindVersion(i)
  PROVE  IInv'
<1>1. /\ phase = "asking" /\ Reading(i) /\ NextTodo(i) /\ IsNext(i)
      /\ payload[i].key = VERSION_KEY /\ version' = payload[i].value
      /\ phase' = IF EndFails(todo') THEN "untold" ELSE "told"
      /\ UNCHANGED <<static, saved, loaded, unread>>
  BY DEF FindVersion, Reading
<1>2. StaticOK' /\ PayloadOK'
  BY <1>1, SamePayload
<1>3. /\ Done' = Done \union {i} /\ todo' \subseteq DOMAIN payload' /\ i \in DOMAIN payload
      /\ left' \in 0..announced'
      /\ UNCHANGED <<format, world, writer, reader, announced, payload>>
      /\ (OnlyVersion' <=> OnlyVersion)
  BY <1>1, DoneNext, SameAnswers
<1>4. version' = writer.version
  BY <1>1, <1>3, EntryKinds
<1>5. LoadedOK'
  BY <1>1, AskingFacts, LoadedSame DEF LoadPhases
<1>6. ReadingOK'
  <2>1. CountedFirst' /\ CountedExact' /\ TextOK'
    BY <1>1 DEF CountedFirst, CountedExact, TextOK
  <2> QED
    BY <1>1, <1>3, <1>4, <2>1 DEF IInv, ReadingOK, AtStart, Phases
<1>7. EndFails(todo') => format = "text" /\ ~OnlyVersion
  <2> SUFFICES ASSUME EndFails(todo') PROVE format = "text" /\ ~OnlyVersion
    OBVIOUS
  <2>1. PICK j \in todo : j # i
    BY <1>1 DEF EndFails, NextTodo
  <2>2. format = "text"
    BY <1>1, <2>1 DEF IsNext, EndFails
  <2>3. j \in DOMAIN payload /\ i = 1
    BY <1>1, <1>3, <2>1, VersionAt DEF IInv, ReadingOK
  <2>4. payload[j].key # VERSION_KEY
    BY <1>1, <2>1, <2>3, VersionAt
  <2> QED
    BY <2>2, <2>3, <2>4 DEF OnlyVersion
<1>8. ~EndFails(todo') /\ format = "text" => OnlyVersion
  <2> SUFFICES ASSUME ~EndFails(todo'), format = "text" PROVE OnlyVersion
    OBVIOUS
  <2>1. unread = FALSE
    BY <1>1 DEF Reading, IInv, ReadingOK
  <2>2. Done = {} /\ todo' = {} /\ todo' = todo \ {i}
    BY <1>1, <2>1 DEF EndFails, IInv, ReadingOK, TextOK, NextTodo
  <2>3. DOMAIN payload = {i}
    BY <1>3, <2>2 DEF Done
  <2> QED
    BY <1>1, <2>3 DEF OnlyVersion
<1>9. LoadAnswers'
  BY <1>1, <1>3, <1>4, <1>7, <1>8 DEF LoadAnswers
<1> QED
  BY <1>2, <1>5, <1>6, <1>9 DEF IInv

(***************************************************************************)
(* The end of the map: the version's entry, if there is one, was read.     *)
(***************************************************************************)
LEMMA EndKeeps ==
  ASSUME IInv, EndLoad \/ EndLoadVersion
  PROVE  IInv'
<1>1. /\ MapEnds /\ UNCHANGED <<static, saved, todo, left, unread, loaded, version>>
      /\ \/ phase = "loading" /\ phase' = "loaded"
         \/ phase = "asking" /\ phase' = "told"
  BY DEF EndLoad, EndLoadVersion
<1>2. StaticOK' /\ PayloadOK'
  BY <1>1, SamePayload
<1>3. /\ UNCHANGED <<format, world, writer, reader, announced, payload>>
      /\ (Compatible' <=> Compatible) /\ (KnowsAll' <=> KnowsAll) /\ (KnowsTypes' <=> KnowsTypes)
      /\ (OnlyVersion' <=> OnlyVersion) /\ Done' = Done
      /\ \A kind : Known(kind)' = Known(kind)
  BY <1>1, SameAnswers, KnownStays
<1>4. LoadedOK'
  BY <1>1, <1>3, LoadedSame DEF LoadPhases
<1>5. /\ IF format = "counted" THEN left = 0 ELSE todo = {}
      /\ format = "text" => unread = FALSE
      /\ format # "counted" => Done = DOMAIN payload
  BY <1>1, Announced DEF MapEnds, IInv, ReadingOK, Done
<1>6. writer.version # NoVersion => 1 \in DOMAIN payload /\ payload[1].key = VERSION_KEY
                                    /\ announced >= 1
  BY <1>1, VersionAt
<1>7. writer.version # NoVersion =>
        1 \in Done /\ (format = "counted" => phase = "loading")
  <2> SUFFICES ASSUME writer.version # NoVersion, format = "counted"
               PROVE  1 \notin todo /\ phase = "loading"
    BY <1>5, <1>6 DEF Done
  <2>1. left # announced
    BY <1>5, <1>6, Announced
  <2> QED
    BY <1>1, <2>1 DEF IInv, ReadingOK, CountedFirst
<1>8. CASE phase = "loading"
  <2>1. Compatible
    BY <1>6, <1>7, <1>8 DEF Compatible, IInv, ReadingOK
  <2>2. phase' = "loaded" /\ version = NoVersion /\ ReadingOK
    BY <1>1, <1>8 DEF IInv, ReadingOK
  <2>3. format = "text" => KnowsAll
    <3> SUFFICES ASSUME format = "text" PROVE KnowsAll
      OBVIOUS
    <3>1. \A i \in DOMAIN payload : payload[i].key \in RangeOf(reader.chain)
             \/ (payload[i].key = VERSION_KEY /\ reader.version # NoVersion)
      BY <1>5, <1>8 DEF IInv, ReadingOK, TextOK
    <3> QED
      BY <1>6, <3>1, ReaderKeys DEF KnowsAll, KnowsTypes
  <2>4. CountedFirst' /\ TextOK'
    BY <2>2 DEF CountedFirst, TextOK
  <2>5. CountedExact'
    BY <1>1, <1>3, <1>8, <2>2 DEF ReadingOK, CountedExact, VersionUnasked
  <2>6. ReadingOK'
    BY <1>1, <1>3, <1>5, <1>8, <2>1, <2>2, <2>4, <2>5 DEF ReadingOK, AtStart, Phases
  <2>7. LoadAnswers'
    BY <1>3, <2>1, <2>2, <2>3 DEF LoadAnswers
  <2> QED
    BY <1>2, <1>4, <2>6, <2>7 DEF IInv
<1>9. CASE phase = "asking"
  <2>1. writer.version = NoVersion /\ version = NoVersion
    BY <1>6, <1>7, <1>9 DEF IInv, ReadingOK
  <2>2. phase' = "told" /\ ReadingOK
    BY <1>1, <1>9 DEF IInv, ReadingOK
  <2>3. format = "text" => OnlyVersion
    BY <1>5, <1>9, <2>2 DEF ReadingOK, TextOK, OnlyVersion
  <2>4. CountedFirst' /\ CountedExact' /\ TextOK'
    BY <2>2 DEF CountedFirst, CountedExact, TextOK
  <2>5. ReadingOK' /\ LoadAnswers'
    BY <1>1, <1>3, <2>1, <2>2, <2>3, <2>4 DEF ReadingOK, AtStart, Phases, LoadAnswers
  <2> QED
    BY <1>2, <1>4, <2>5 DEF IInv
<1> QED
  BY <1>1, <1>8, <1>9

(***************************************************************************)
(* next_key fails on a text where a value was skipped, and on bincode only *)
(* where the reader lacks a type: a version leaves enough for every key.   *)
(***************************************************************************)
LEMMA FailKeeps ==
  ASSUME IInv, FailNextKey
  PROVE  IInv'
<1>1. /\ UNCHANGED <<static, saved, todo, left, unread, loaded, version>> /\ NextKeyFails
      /\ \/ phase = "loading" /\ phase' = "garbled"
         \/ phase = "asking" /\ phase' = "untold"
  BY DEF FailNextKey
<1>2. StaticOK' /\ PayloadOK'
  BY <1>1, SamePayload
<1>3. /\ UNCHANGED <<format, world, writer, reader, announced, payload>>
      /\ (KnowsAll' <=> KnowsAll) /\ (KnowsTypes' <=> KnowsTypes)
      /\ (OnlyVersion' <=> OnlyVersion) /\ Done' = Done
      /\ \A kind : Known(kind)' = Known(kind)
  BY <1>1, SameAnswers, KnownStays
<1>4. LoadedOK'
  BY <1>1, <1>3, LoadedSame DEF LoadPhases
<1>5. ReadingOK'
  <2>1. CountedFirst' /\ CountedExact' /\ TextOK'
    BY <1>1 DEF CountedFirst, CountedExact, TextOK
  <2> QED
    BY <1>1, <1>3, <2>1 DEF IInv, ReadingOK, AtStart, Phases
<1>6. /\ left \in 0..announced /\ announced \in Nat /\ DOMAIN payload = 1..announced
      /\ unread \in BOOLEAN /\ ReadingOK
  BY Announced DEF IInv, ReadingOK
<1>7. \/ format = "text" /\ unread
      \/ format = "counted" /\ left > 0 /\ (unread => ~VersionUnread) /\ (~unread => todo = {})
  BY <1>1 DEF NextKeyFails
<1>8. CASE phase = "loading"
  <2>1. format = "text" => ~KnowsAll
    BY <1>7, <1>8, <1>6 DEF ReadingOK
  <2>2. ASSUME format = "counted", KnowsTypes PROVE FALSE
    <3>1. CASE todo = (announced - left + 1)..announced /\ unread = FALSE
      <4>1. announced \in todo
        BY <1>6, <1>7, <2>2, <3>1
      <4> QED
        BY <1>7, <2>2, <3>1, <4>1
    <3>2. CASE todo = (announced - left)..announced /\ unread = FALSE
      <4>1. announced \in todo
        BY <1>6, <1>7, <2>2, <3>2
      <4> QED
        BY <1>7, <2>2, <3>2, <4>1
    <3>3. CASE todo = 2..announced /\ unread = TRUE /\ VersionUnasked
      <4>1. todo = DOMAIN payload \ {1}
        BY <1>6, <3>3
      <4>2. 1 \in DOMAIN payload /\ payload[1].key = VERSION_KEY
        BY <1>8, <3>3, VersionAt DEF VersionUnasked
      <4> QED
        BY <1>7, <2>2, <3>3, <4>1, <4>2 DEF VersionUnread
    <3> QED
      BY <1>6, <1>8, <2>2, <3>1, <3>2, <3>3 DEF ReadingOK, CountedExact
  <2>3. LoadAnswers'
    BY <1>1, <1>3, <1>7, <1>8, <2>1, <2>2 DEF LoadAnswers
  <2> QED
    BY <1>2, <1>4, <1>5, <2>3 DEF IInv
<1>9. CASE phase = "asking"
  <2>1. format = "text" => ~OnlyVersion
    BY <1>7, <1>9, <1>6 DEF ReadingOK
  <2>2. ASSUME format = "counted" PROVE writer.version = NoVersion /\ announced > 1
    <3>1. CASE left = announced
      <4>1. todo = DOMAIN payload /\ unread = FALSE
        BY <1>6, <1>9, <2>2, <3>1 DEF ReadingOK, CountedFirst
      <4>2. 1 \in todo
        BY <1>6, <1>7, <2>2, <3>1, <4>1
      <4> QED
        BY <1>7, <2>2, <4>1, <4>2
    <3>2. CASE left # announced
      <4>1. writer.version = NoVersion
        BY <1>6, <1>9, <2>2, <3>2 DEF ReadingOK, CountedFirst
      <4>2. announced > 1
        BY <1>6, <1>7, <2>2, <3>2
      <4> QED
        BY <4>1, <4>2
    <3> QED
      BY <3>1, <3>2
  <2>3. LoadAnswers'
    BY <1>1, <1>3, <1>7, <1>9, <2>1, <2>2 DEF LoadAnswers
  <2> QED
    BY <1>2, <1>4, <1>5, <2>3 DEF IInv
<1> QED
  BY <1>1, <1>8, <1>9

-----------------------------------------------------------------------------
(***************************************************************************)
(* Taking an entry: the world gets the components of one more type.        *)
(***************************************************************************)
LEMMA AddComponent ==
  ASSUME NEW K, NEW c
  PROVE  LET rows == RowsOf(c) IN
         Over([e \in DOMAIN rows |-> WithComponent(PartOf(K), c, e, rows[e])], PartOf(K))
           = PartOf(K \union {c})
<1> DEFINE rows == RowsOf(c)
           E == world.entities
           new == [e \in DOMAIN rows |-> WithComponent(PartOf(K), c, e, rows[e])]
           r == Over(new, PartOf(K))
           D == {e \in DOMAIN E : DOMAIN E[e] \intersect (K \union {c}) # {}}
<1>1. /\ DOMAIN rows = {e \in DOMAIN E : c \in DOMAIN E[e]}
      /\ \A e \in DOMAIN rows : rows[e] = E[e][c]
  BY DEF RowsOf
<1>2. /\ DOMAIN PartOf(K) = {e \in DOMAIN E : DOMAIN E[e] \intersect K # {}}
      /\ \A e \in DOMAIN PartOf(K) : PartOf(K)[e] = Only(E[e], K)
  BY DEF PartOf
<1>3. DOMAIN new = DOMAIN rows
  OBVIOUS
<1>4. DOMAIN new \union DOMAIN PartOf(K) = D
  BY <1>1, <1>2, <1>3
<1>5. ASSUME NEW e \in D
      PROVE  (IF e \in DOMAIN new THEN new[e] ELSE PartOf(K)[e]) = Only(E[e], K \union {c})
  <2>1. CASE e \in DOMAIN rows
    <3> DEFINE before == IF e \in DOMAIN PartOf(K) THEN PartOf(K)[e] ELSE [x \in {} |-> <<>>]
               one == [x \in {c} |-> rows[e]]
               whole == Over(one, before)
    <3>1. new[e] = whole
      BY <2>1 DEF WithComponent
    <3>2. /\ DOMAIN before = DOMAIN E[e] \intersect K
          /\ \A x \in DOMAIN before : before[x] = E[e][x]
      <4>1. CASE e \in DOMAIN PartOf(K)
        BY <1>2, <4>1 DEF Only
      <4>2. CASE e \notin DOMAIN PartOf(K)
        <5>1. DOMAIN E[e] \intersect K = {}
          BY <1>1, <1>2, <2>1, <4>2
        <5> QED
          BY <4>2, <5>1
      <4> QED
        BY <4>1, <4>2
    <3>3. c \in DOMAIN E[e] /\ rows[e] = E[e][c]
      BY <1>1, <2>1
    <3> HIDE DEF before
    <3>4. whole = [x \in {c} \union DOMAIN before |-> IF x \in {c} THEN rows[e] ELSE before[x]]
      BY DEF Over
    <3>5. {c} \union DOMAIN before = DOMAIN E[e] \intersect (K \union {c})
      BY <3>2, <3>3
    <3>6. \A x \in {c} \union DOMAIN before :
            (IF x \in {c} THEN rows[e] ELSE before[x]) = E[e][x]
      BY <3>2, <3>3
    <3>7. whole = Only(E[e], K \union {c})
      BY <3>4, <3>5, <3>6 DEF Only
    <3> QED
      BY <1>3, <2>1, <3>1, <3>7
  <2>2. CASE e \notin DOMAIN rows
    <3>1. e \in DOMAIN PartOf(K) /\ c \notin DOMAIN E[e]
      BY <1>1, <1>2, <2>2
    <3>2. DOMAIN E[e] \intersect K = DOMAIN E[e] \intersect (K \union {c})
      BY <3>1
    <3>3. Only(E[e], K) = Only(E[e], K \union {c})
      BY <3>2 DEF Only
    <3> QED
      BY <1>2, <1>3, <2>2, <3>1, <3>3
  <2> QED
    BY <2>1, <2>2
<1> HIDE DEF new
<1>6. r = [e \in D |-> IF e \in DOMAIN new THEN new[e] ELSE PartOf(K)[e]]
  BY <1>4 DEF Over
<1>7. r = [e \in D |-> Only(E[e], K \union {c})]
  BY <1>5, <1>6
<1> QED
  BY <1>7 DEF PartOf, new

LEMMA AddResource ==
  ASSUME NEW K, NEW c \in DOMAIN world.resources
  PROVE  Over([r \in {c} |-> world.resources[c]], Only(world.resources, K))
           = Only(world.resources, K \union {c})
<1> DEFINE R == world.resources
<1>1. DOMAIN Only(R, K) = DOMAIN R \intersect K /\ \A x \in DOMAIN Only(R, K) : Only(R, K)[x] = R[x]
  BY DEF Only
<1>2. {c} \union DOMAIN Only(R, K) = DOMAIN R \intersect (K \union {c})
  BY <1>1
<1>3. Over([r \in {c} |-> R[c]], Only(R, K))
        = [x \in {c} \union DOMAIN Only(R, K) |->
             IF x \in {c} THEN R[c] ELSE Only(R, K)[x]]
  BY DEF Over
<1>4. \A x \in {c} \union DOMAIN Only(R, K) :
        (IF x \in {c} THEN R[c] ELSE Only(R, K)[x]) = R[x]
  BY <1>1
<1> QED
  BY <1>2, <1>3, <1>4 DEF Only

\* A type that is read and known is one more that was taken, of its kind.
LEMMA KnownNext ==
  ASSUME IInv, NEW i \in todo, Reading(i), NextTodo(i), UNCHANGED <<static, saved>>,
         payload[i].key \in RangeOf(reader.chain),
         NEW kind, payload[i].key[1] = kind, NEW other, other # kind
  PROVE  /\ Known(kind)' = Known(kind) \union {payload[i].key[2]}
         /\ Known(other)' = Known(other)
<1> DEFINE key == payload[i].key
           New(k) == {c \in Types : <<k, c>> \in RangeOf(reader.chain) /\ key = <<k, c>>}
<1>1. key \in Keys
  BY ReaderKeys
<1>2. key = <<kind, key[2]>> /\ key[2] \in Types
  <2> HIDE DEF key
  <2>1. key = <<key[1], key[2]>> /\ key[2] \in Types
    BY <1>1, KeyParts
  <2> QED
    BY <2>1 DEF key
<1>3. \A k : Known(k)' = Known(k) \union New(k)
  BY DoneNext
<1>4. New(kind) = {key[2]}
  <2>1. key \in RangeOf(reader.chain)
    OBVIOUS
  <2> HIDE DEF key
  <2>2. \A c : key = <<kind, c>> => c = key[2]
    BY <1>2
  <2> QED
    BY <1>2, <2>1, <2>2
<1>5. New(other) = {}
  <2> HIDE DEF key
  <2>1. \A c : key = <<other, c>> => other = kind
    BY <1>2
  <2> QED
    BY <2>1
<1> HIDE DEF New, key
<1>6. Known(kind)' = Known(kind) \union {key[2]} /\ Known(other)' = Known(other)
  BY <1>3, <1>4, <1>5
<1> QED
  BY <1>6 DEF key

(***************************************************************************)
(* What the steps that take a value have in common.                        *)
(***************************************************************************)
LEMMA TakeKeeps ==
  ASSUME IInv, NEW i \in todo, LoadComponent(i) \/ LoadResource(i), LoadedOK'
  PROVE  IInv'
<1>1. /\ phase = "loading" /\ Reading(i) /\ NextTodo(i) /\ unread' = FALSE
      /\ payload[i].key \in RangeOf(reader.chain)
      /\ UNCHANGED <<static, saved, version, phase>>
  BY DEF LoadComponent, LoadResource
<1>2. StaticOK' /\ PayloadOK'
  BY <1>1, SamePayload
<1>3. /\ Done' = Done \union {i} /\ todo' \subseteq DOMAIN payload' /\ i \in DOMAIN payload
      /\ left' \in 0..announced'
      /\ UNCHANGED <<format, world, writer, reader, announced, payload>>
      /\ (Compatible' <=> Compatible) /\ (KnowsTypes' <=> KnowsTypes)
  BY <1>1, DoneNext, SameAnswers
<1>4. payload[i].key # VERSION_KEY
  BY <1>1, ReaderKeys
<1>5. CountedFirst'
  BY <1>1, <1>3, DoneNext DEF CountedFirst
<1>6. CountedExact'
  <2> SUFFICES ASSUME format = "counted", KnowsTypes
               PROVE  \/ /\ todo' = (announced - left' + 1)..announced
                         /\ ~VersionUnasked
                      \/ todo' = (announced - left')..announced /\ VersionUnasked /\ left' + 1 < announced
    BY <1>1, <1>3 DEF CountedExact, VersionUnasked
  <2>1. /\ unread = FALSE /\ left > 0 /\ left' = left - 1 /\ todo' = todo \ {i}
        /\ left \in 0..announced /\ announced \in Nat /\ DOMAIN payload = 1..announced
        /\ \A j \in todo : i <= j
    BY <1>1, Announced DEF Reading, IsNext, NextTodo, IInv, ReadingOK
  <2>2. CASE todo = (announced - left + 1)..announced /\ (left # announced => ~VersionUnasked)
    <3>1. announced - left + 1 \in todo
      BY <2>1, <2>2
    <3>2. i = announced - left + 1
      <4>1. i \in (announced - left + 1)..announced /\ i <= announced - left + 1
        BY <2>1, <2>2, <3>1
      <4> QED
        BY <2>1, <4>1
    <3>3. todo' = (announced - left' + 1)..announced
      BY <2>1, <2>2, <3>2
    <3>4. left = announced => ~VersionUnasked
      BY <1>1, <1>4, <2>1, <3>2, VersionAt DEF VersionUnasked
    <3> QED
      BY <2>2, <3>3, <3>4
  <2>3. CASE todo = (announced - left)..announced /\ VersionUnasked /\ left + 1 < announced
    <3>1. announced - left \in todo
      BY <2>1, <2>3
    <3>2. i = announced - left
      <4>1. i \in (announced - left)..announced /\ i <= announced - left
        BY <2>1, <2>3, <3>1
      <4> QED
        BY <2>1, <4>1
    <3>3. todo' = (announced - left')..announced /\ left' + 1 < announced
      BY <2>1, <2>3, <3>2
    <3> QED
      BY <2>3, <3>3
  <2> QED
    BY <1>1, <2>1, <2>2, <2>3 DEF IInv, ReadingOK, CountedExact
<1>7. TextOK'
  BY <1>1, <1>3 DEF TextOK, IInv, ReadingOK, Reading
<1>8. ReadingOK' /\ LoadAnswers'
  BY <1>1, <1>3, <1>4, <1>5, <1>6, <1>7 DEF IInv, ReadingOK, AtStart, Phases, LoadAnswers
<1> QED
  BY <1>2, <1>8 DEF IInv

\* More of the saved world is loaded.
LEMMA LoadedNext ==
  ASSUME IInv, UNCHANGED <<static, saved>>, phase' \in LoadPhases,
         NEW C, NEW R, loaded' = Part(C, R),
         C \in SUBSET Known("Component")', R \in SUBSET Known("Resource")',
         Exact => C = Known("Component")' /\ R = Known("Resource")'
  PROVE  LoadedOK'
<1>1. (Exact' <=> Exact) /\ Part(C, R)' = Part(C, R)
  BY SameAnswers
<1>2. loaded' = Part(C, R)'
  BY <1>1
<1> QED
  BY <1>1, <1>2 DEF LoadedOK

LEMMA LoadComponentKeeps ==
  ASSUME IInv, NEW i \in todo, LoadComponent(i)
  PROVE  IInv'
<1> DEFINE key == payload[i].key
<1>1. /\ phase = "loading" /\ phase' = "loading" /\ Reading(i) /\ NextTodo(i)
      /\ key \in RangeOf(reader.chain) /\ key[1] = "Component"
      /\ UNCHANGED <<static, saved>>
  BY DEF LoadComponent
<1>2. PICK C \in SUBSET Known("Component"), R \in SUBSET Known("Resource") :
        /\ loaded = Part(C, R)
        /\ Exact => C = Known("Component") /\ R = Known("Resource")
  BY <1>1 DEF IInv, LoadedOK, LoadPhases
<1>3. payload[i].value = RowsOf(key[2])
  <2>1. payload[i] = EntryOf(key)
    BY <1>1, DoneNext, EntryKinds, ReaderKeys
  <2> QED
    BY <1>1, <2>1 DEF EntryOf
<1>4. loaded' = [loaded EXCEPT !.entities =
        Over([e \in DOMAIN RowsOf(key[2]) |->
                WithComponent(loaded.entities, key[2], e, RowsOf(key[2])[e])], loaded.entities)]
  BY <1>3 DEF LoadComponent
<1>5. loaded = [entities |-> PartOf(C), resources |-> Only(world.resources, R)]
  BY <1>2, PartIs
<1>6. loaded' = [loaded EXCEPT !.entities = PartOf(C \union {key[2]})]
  <2>1. loaded.entities = PartOf(C)
    BY <1>5
  <2> HIDE DEF key
  <2> QED
    BY <1>4, <2>1, AddComponent
<1>7. loaded' = Part(C \union {key[2]}, R)
  <2> HIDE DEF key
  <2> QED
    BY <1>5, <1>6, PartIs
<1>8. /\ Known("Component")' = Known("Component") \union {key[2]}
      /\ Known("Resource")' = Known("Resource")
  <2>1. payload[i].key[1] = "Component" /\ payload[i].key \in RangeOf(reader.chain)
        /\ "Resource" # "Component"
    BY <1>1
  <2> QED
    BY <1>1, <2>1, KnownNext
<1>9. LoadedOK'
  <2> DEFINE D == C \union {key[2]}
  <2>1. D \in SUBSET Known("Component")' /\ R \in SUBSET Known("Resource")'
        /\ (Exact => D = Known("Component")' /\ R = Known("Resource")')
    BY <1>2, <1>8
  <2>2. loaded' = Part(D, R) /\ phase' \in LoadPhases
    BY <1>1, <1>7 DEF LoadPhases
  <2> HIDE DEF D
  <2> QED
    BY <1>1, <2>1, <2>2, LoadedNext
<1> QED
  BY <1>9, TakeKeeps

LEMMA LoadResourceKeeps ==
  ASSUME IInv, NEW i \in todo, LoadResource(i)
  PROVE  IInv'
<1> DEFINE key == payload[i].key
<1>1. /\ phase = "loading" /\ phase' = "loading" /\ Reading(i) /\ NextTodo(i)
      /\ key \in RangeOf(reader.chain) /\ key[1] = "Resource"
      /\ UNCHANGED <<static, saved>>
  BY DEF LoadResource
<1>2. PICK C \in SUBSET Known("Component"), R \in SUBSET Known("Resource") :
        /\ loaded = Part(C, R)
        /\ Exact => C = Known("Component") /\ R = Known("Resource")
  BY <1>1 DEF IInv, LoadedOK, LoadPhases
<1>3. "Resource" # "Component"
  OBVIOUS
<1>4. payload[i].value = world.resources[key[2]] /\ key[2] \in DOMAIN world.resources
  <2>1. payload[i] = EntryOf(key) /\ Saves(key)
    BY <1>1, DoneNext, EntryKinds, ReaderKeys
  <2>2. EntryOf(key).value = world.resources[key[2]]
    BY <1>1, <1>3 DEF EntryOf
  <2>3. key[2] \in DOMAIN world.resources
    BY <1>1, <1>3, <2>1 DEF Saves
  <2> QED
    BY <2>1, <2>2, <2>3
<1>5. loaded' = [loaded EXCEPT !.resources =
        Over([r \in {key[2]} |-> world.resources[key[2]]], loaded.resources)]
  BY <1>4 DEF LoadResource
<1>6. loaded = [entities |-> PartOf(C), resources |-> Only(world.resources, R)]
  BY <1>2, PartIs
<1>7. loaded' = [loaded EXCEPT !.resources = Only(world.resources, R \union {key[2]})]
  <2>1. loaded.resources = Only(world.resources, R)
    BY <1>6
  <2> HIDE DEF key
  <2> QED
    BY <1>4, <1>5, <2>1, AddResource
<1>8. loaded' = Part(C, R \union {key[2]})
  <2> HIDE DEF key
  <2> QED
    BY <1>6, <1>7, PartIs
<1>9. /\ Known("Resource")' = Known("Resource") \union {key[2]}
      /\ Known("Component")' = Known("Component")
  <2>1. payload[i].key[1] = "Resource" /\ payload[i].key \in RangeOf(reader.chain)
    BY <1>1
  <2> QED
    BY <1>1, <1>3, <2>1, KnownNext
<1>10. LoadedOK'
  <2> DEFINE D == R \union {key[2]}
  <2>1. C \in SUBSET Known("Component")' /\ D \in SUBSET Known("Resource")'
        /\ (Exact => C = Known("Component")' /\ D = Known("Resource")')
    BY <1>2, <1>9
  <2>2. loaded' = Part(C, D) /\ phase' \in LoadPhases
    BY <1>1, <1>8 DEF LoadPhases
  <2> HIDE DEF D
  <2> QED
    BY <1>1, <2>1, <2>2, LoadedNext
<1> QED
  BY <1>10, TakeKeeps

-----------------------------------------------------------------------------
(***************************************************************************)
(* Every step keeps the invariant.                                         *)
(***************************************************************************)
LEMMA IdleKeeps ==
  ASSUME IInv, UNCHANGED vars
  PROVE  IInv'
<1>1. UNCHANGED <<format, world, writer, reader, announced, payload, phase, todo, left, unread,
                  loaded, version>>
  BY DEF vars, static, saved
<1>2. UNCHANGED <<static, saved, todo, loaded>>
  BY <1>1 DEF static, saved
<1>3. StaticOK' /\ (Compatible' <=> Compatible) /\ (KnowsAll' <=> KnowsAll) /\ Done' = Done
      /\ (KnowsTypes' <=> KnowsTypes) /\ (OnlyVersion' <=> OnlyVersion)
  BY <1>2, SameStatic, SameAnswers, KnownStays DEF IInv
<1>4. PayloadOK'
  <2>1. EntriesOK' /\ AllSaved'
    BY <1>1, <1>2, SameStatic DEF IInv, PayloadOK, EntriesOK, AllSaved
  <2> QED
    BY <1>1, <2>1 DEF IInv, PayloadOK, LengthOK, VersionFirst
<1>5. LoadedOK'
  BY <1>1, <1>2, KnownStays, LoadedSame
<1>6. CountedFirst' /\ CountedExact' /\ TextOK'
  BY <1>1, <1>3 DEF IInv, ReadingOK, CountedFirst, CountedExact, TextOK, VersionUnasked
<1>7. ReadingOK' /\ LoadAnswers'
  BY <1>1, <1>3, <1>6 DEF IInv, ReadingOK, AtStart, LoadAnswers
<1> QED
  BY <1>3, <1>4, <1>5, <1>7 DEF IInv

LEMMA StepInvariant == IInv /\ [Next]_vars => IInv'
<1> SUFFICES ASSUME IInv, [Next]_vars PROVE IInv'
  OBVIOUS
<1>1. CASE Save
  BY <1>1, SaveKeeps
<1>2. CASE StartLoad \/ StartLoadVersion
  BY <1>2, StartKeeps
<1>3. CASE EndLoad \/ EndLoadVersion
  BY <1>3, EndKeeps
<1>4. CASE FailNextKey
  BY <1>4, FailKeeps
<1>5. ASSUME NEW i \in todo,
             \/ LoadVersionKey(i) \/ LoadComponent(i) \/ LoadResource(i) \/ LoadUnknown(i)
             \/ FindVersion(i) \/ PassEntry(i)
      PROVE  IInv'
  BY <1>5, LoadVersionKeyKeeps, LoadComponentKeeps, LoadResourceKeeps, LoadUnknownKeeps,
     FindVersionKeeps, PassEntryKeeps
<1>6. CASE Returned \/ UNCHANGED vars
  BY <1>6, IdleKeeps DEF Returned
<1>7. CASE MisreadKey
  BY <1>7, MisreadKeyKeeps
<1> QED
  BY <1>1, <1>2, <1>3, <1>4, <1>5, <1>6, <1>7 DEF Next

(***************************************************************************)
(* The inductive invariant holds in every reachable state.                 *)
(***************************************************************************)
THEOREM Invariance == Spec => []IInv
BY InitInvariant, StepInvariant, PTL DEF Spec

\* What is loaded has entities of the saved world, with some of their components.
LEMMA LoadedWithin ==
  ASSUME IInv
  PROVE  /\ DOMAIN loaded.entities \subseteq DOMAIN world.entities
         /\ \A e \in DOMAIN loaded.entities :
              DOMAIN loaded.entities[e] \subseteq DOMAIN world.entities[e]
         /\ DOMAIN loaded.resources \subseteq DOMAIN world.resources
<1>1. CASE loaded = EmptyWorld
  BY <1>1 DEF EmptyWorld
<1>2. ASSUME NEW K, NEW R, loaded = Part(K, R)
      PROVE  /\ DOMAIN loaded.entities \subseteq DOMAIN world.entities
             /\ \A e \in DOMAIN loaded.entities :
                  DOMAIN loaded.entities[e] \subseteq DOMAIN world.entities[e]
             /\ DOMAIN loaded.resources \subseteq DOMAIN world.resources
  <2>1. loaded.entities = PartOf(K) /\ loaded.resources = Only(world.resources, R)
    BY <1>2, PartIs
  <2> QED
    BY <2>1 DEF PartOf, Only
<1> QED
  BY <1>1, <1>2 DEF IInv, LoadedOK

(***************************************************************************)
(* Types: among them that the length save announces is at most that of the *)
(* chain and the version, and that no two loaded entities share an index.  *)
(***************************************************************************)
THEOREM TypeCorrect == Spec => []TypeOK
<1>1. IInv => TypeOK
  <2> SUFFICES ASSUME IInv PROVE TypeOK
    OBVIOUS
  <2>1. phase \in Phases /\ unread \in BOOLEAN /\ announced \in 0..(Len(writer.chain) + 1)
        /\ todo \subseteq 1..announced \union DOMAIN payload /\ left \in 0..announced
    BY DEF IInv, ReadingOK, PayloadOK, LengthOK
  <2>2. \A i \in DOMAIN payload : payload[i].key \in Keys \union {VERSION_KEY}
    BY EntryKinds
  <2>3. version \in Versions \union {NoVersion}
    BY ChainKeys DEF IInv, ReadingOK, StaticOK
  <2>4. WorldOK
    BY DEF IInv, StaticOK
  <2>5. Distinct(DOMAIN loaded.entities)
    BY <2>4, LoadedWithin DEF WorldOK, Distinct
  <2>6. /\ \A e \in DOMAIN loaded.entities : DOMAIN loaded.entities[e] \subseteq Types
        /\ DOMAIN loaded.resources \subseteq Types
    BY <2>4, LoadedWithin DEF WorldOK
  <2> QED
    BY <2>1, <2>2, <2>3, <2>5, <2>6 DEF TypeOK
<1> QED
  BY <1>1, Invariance, PTL

(***************************************************************************)
(* Of the types that both know and that have something to save, the reader *)
(* came to all but the last, where bincode takes a version for a key.      *)
(***************************************************************************)
LEMMA AllButLost ==
  ASSUME IInv, phase = "loaded", Exact, NEW kind \in {"Component", "Resource"}, NEW c,
         Saves(<<kind, c>>)
  PROVE  c \in Known(kind) <=> c \in Common(kind) \ Lost(kind)
<1> DEFINE At == {i \in DOMAIN payload : payload[i].key = <<kind, c>>}
<1>1. /\ announced \in Nat /\ DOMAIN payload = 1..announced /\ Len(payload) = announced
      /\ todo \subseteq DOMAIN payload /\ left \in 0..announced
      /\ IF format = "counted" THEN left = 0 ELSE todo = {}
  BY Announced DEF IInv, ReadingOK
<1>2. c \in Known(kind) => c \in Common(kind)
  <2> SUFFICES ASSUME c \in Known(kind) PROVE c \in Common(kind)
    OBVIOUS
  <2>1. PICK i \in DOMAIN payload : payload[i].key = <<kind, c>>
    BY DEF Known, Done
  <2>2. <<kind, c>> \in RangeOf(reader.chain) /\ c \in Types
    BY DEF Known
  <2>3. <<kind, c>> \in RangeOf(writer.chain)
    BY <2>1, <2>2, EntryKinds, ReaderKeys
  <2> QED
    BY <2>2, <2>3 DEF Common
<1> SUFFICES ASSUME c \in Common(kind) PROVE c \in Known(kind) <=> c \notin Lost(kind)
  BY <1>2
<1>3. <<kind, c>> \in RangeOf(writer.chain) /\ <<kind, c>> \in RangeOf(reader.chain) /\ c \in Types
  BY DEF Common
<1>4. PICK p \in DOMAIN payload : payload[p].key = <<kind, c>>
  BY <1>3 DEF IInv, PayloadOK, AllSaved
<1>5. p \in At /\ announced >= 1 /\ announced \in DOMAIN payload
  BY <1>1, <1>4
<1>6. c \in Known(kind) <=> \E i \in At : i \notin todo
  BY <1>3 DEF Known, Done
<1>7. c \in Lost(kind) <=> format = "counted" /\ VersionUnasked /\ At = {announced}
  BY <1>1, <1>3 DEF Lost, VersionUnasked
<1> HIDE DEF At
<1>8. CASE todo = {} /\ (format = "counted" => ~VersionUnasked)
  BY <1>5, <1>6, <1>7, <1>8
<1>9. CASE format = "counted" /\ todo = {announced} /\ VersionUnasked
  BY <1>5, <1>6, <1>7, <1>9
<1>10. CASE format = "counted" /\ VersionUnasked /\ announced = 1
  <2>1. payload[1].key = VERSION_KEY /\ p = 1
    BY <1>1, <1>4, <1>10, VersionAt DEF VersionUnasked
  <2>2. <<kind, c>> # VERSION_KEY
    BY <1>3, ReaderKeys
  <2> QED
    BY <1>4, <2>1, <2>2
<1>11. CASE format = "counted"
  <2>1. KnowsTypes /\ left = 0
    BY <1>1, <1>11 DEF Exact
  <2>2. CASE todo = (announced - left + 1)..announced /\ (left # announced => ~VersionUnasked)
    <3>1. todo = {} /\ ~VersionUnasked
      BY <1>1, <1>5, <2>1, <2>2
    <3> QED
      BY <1>8, <3>1
  <2>3. CASE todo = (announced - left)..announced /\ VersionUnasked
    <3>1. todo = {announced}
      BY <1>1, <2>1, <2>3
    <3> QED
      BY <1>9, <1>11, <2>3, <3>1
  <2>4. CASE left + 1 = announced /\ VersionUnasked
    BY <1>1, <1>10, <1>11, <2>1, <2>4
  <2> QED
    BY <1>11, <2>1, <2>2, <2>3, <2>4 DEF IInv, ReadingOK, CountedExact
<1>12. CASE format # "counted"
  BY <1>1, <1>8, <1>12
<1> QED
  BY <1>11, <1>12

(***************************************************************************)
(* A loaded world is the saved one as far as writer and reader both know   *)
(* the types, of every chain of types, in every format, whatever the order *)
(* the entries are read in; but bincode loses the last type when nobody    *)
(* asks for the version, and may lose any when the reader lacks a type.    *)
(***************************************************************************)
THEOREM LoadedIsSaved == Spec => []RoundTrip
<1>1. IInv => RoundTrip
  <2> SUFFICES ASSUME IInv, phase = "loaded" PROVE RoundTrip
    BY DEF RoundTrip
  <2>1. PICK C \in SUBSET Known("Component"), R \in SUBSET Known("Resource") :
          /\ loaded = Part(C, R)
          /\ Exact => C = Known("Component") /\ R = Known("Resource")
    BY DEF IInv, LoadedOK, LoadPhases
  <2>2. CASE ~Exact
    <3>1. ASSUME NEW kind PROVE Known(kind) \subseteq Common(kind)
      <4> SUFFICES ASSUME NEW c \in Known(kind) PROVE c \in Common(kind)
        OBVIOUS
      <4>1. PICK i \in DOMAIN payload : payload[i].key = <<kind, c>>
        BY DEF Known, Done
      <4>2. <<kind, c>> \in RangeOf(reader.chain) /\ c \in Types
        BY DEF Known
      <4>3. <<kind, c>> \in RangeOf(writer.chain)
        BY <4>1, <4>2, EntryKinds, ReaderKeys
      <4> QED
        BY <4>2, <4>3 DEF Common
    <3>2. C \in SUBSET Common("Component") /\ R \in SUBSET Common("Resource")
      BY <3>1
    <3> QED
      BY <2>1, <2>2, <3>2 DEF RoundTrip, Exact
  <2>3. CASE Exact
    <3> DEFINE K == Common("Component") \ Lost("Component")
               L == Common("Resource") \ Lost("Resource")
    <3>1. \A e \in DOMAIN world.entities :
            DOMAIN world.entities[e] \intersect C = DOMAIN world.entities[e] \intersect K
      <4> SUFFICES ASSUME NEW e \in DOMAIN world.entities, NEW c \in DOMAIN world.entities[e]
                   PROVE  c \in C <=> c \in K
        OBVIOUS
      <4>1. Saves(<<"Component", c>>)
        BY DEF Saves
      <4> QED
        BY <2>1, <2>3, <4>1, AllButLost
    <3>2. DOMAIN world.resources \intersect R = DOMAIN world.resources \intersect L
      <4> SUFFICES ASSUME NEW c \in DOMAIN world.resources
                   PROVE  c \in R <=> c \in L
        OBVIOUS
      <4>1. Saves(<<"Resource", c>>)
        BY DEF Saves
      <4> QED
        BY <2>1, <2>3, <4>1, AllButLost
    <3> HIDE DEF K, L
    <3>3. PartOf(C) = PartOf(K)
      BY <3>1 DEF PartOf, Only
    <3>4. Only(world.resources, R) = Only(world.resources, L)
      BY <3>2 DEF Only
    <3>5. loaded = Part(K, L)
      BY <2>1, <3>3, <3>4, PartIs
    <3> QED
      BY <2>3, <3>5 DEF RoundTrip, Exact, K, L
  <2> QED
    BY <2>2, <2>3
<1> QED
  BY <1>1, Invariance, PTL

(***************************************************************************)
(* A load that succeeds was of a version that goes with the reader's, and  *)
(* from text every value was asked for; one that is refused for its        *)
(* version was not; one that breaks off met a value nobody asked for, in a *)
(* format that notices.  load_version tells the writer's version.          *)
(***************************************************************************)
THEOREM AnswersFit == Spec => []LoadAnswers
BY Invariance, PTL DEF IInv

(***************************************************************************)
(* insert_id is never refused: "world.insert_id(id).unwrap()"              *)
(* (serde.rs:296) does not panic, in whatever order entries bring the ids. *)
(***************************************************************************)
InsertsSucceed ==
  \A i \in todo : payload[i].key[1] = "Component" =>
    Distinct(DOMAIN loaded.entities \union DOMAIN payload[i].value)

THEOREM LoadNeverPanics == Spec => []InsertsSucceed
<1>1. IInv => InsertsSucceed
  <2> SUFFICES ASSUME IInv, NEW i \in todo, payload[i].key[1] = "Component"
               PROVE  Distinct(DOMAIN loaded.entities \union DOMAIN payload[i].value)
    BY DEF InsertsSucceed
  <2>1. i \in DOMAIN payload
    BY DEF IInv, ReadingOK
  <2>2. payload[i].key # VERSION_KEY
    BY DEF VERSION_KEY
  <2>3. payload[i] = EntryOf(payload[i].key)
    BY <2>1, <2>2, EntryKinds
  <2>4. payload[i].value = RowsOf(payload[i].key[2])
    BY <2>3 DEF EntryOf
  <2>5. DOMAIN payload[i].value \subseteq DOMAIN world.entities
    BY <2>4 DEF RowsOf
  <2>6. Distinct(DOMAIN world.entities)
    BY DEF IInv, StaticOK, WorldOK
  <2> QED
    BY <2>5, <2>6, LoadedWithin DEF Distinct
<1> QED
  BY <1>1, Invariance, PTL
=============================================================================
