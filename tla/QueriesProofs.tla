--------------------------- MODULE QueriesProofs ---------------------------
(***************************************************************************)
(* Proofs about Queries, for every world and every set of queries: each    *)
(* kind of query shows the entities as they are, parallel batches cover    *)
(* the rows once, and queries admitted together do not see each other's    *)
(* writes.                                                                 *)
(***************************************************************************)
EXTENDS Queries, WorldProofs, SequenceTheorems

(***************************************************************************)
(* Induction over numbers and over finite sets, by minimal elements.       *)
(***************************************************************************)
LEMMA SmallestSet ==
  ASSUME NEW S, NEW U, U \subseteq FiniteSubsetsOf(S), U # {}
  PROVE  \E u \in U : \A v \in U : v \subseteq u => v = u
<1>1. PICK u \in U : \A v \in U : <<v, u>> \notin StrictSubsetOrdering(S)
  BY FS_StrictSubsetOrderingWellFounded, WFMin
<1> QED
  BY <1>1 DEF StrictSubsetOrdering, FiniteSubsetsOf

LEMMA SmallestNumber ==
  ASSUME NEW T \in SUBSET Nat, T # {}
  PROVE  \E x \in T : \A y \in T : x <= y
<1> DEFINE U == {1..n : n \in T}
<1>1. U \subseteq FiniteSubsetsOf(Nat)
  <2>1. \A n \in T : 1..n \in SUBSET Nat /\ IsFiniteSet(1..n)
    BY FS_Interval
  <2> QED
    BY <2>1 DEF FiniteSubsetsOf
<1>2. U # {}
  OBVIOUS
<1>3. PICK u \in U : \A v \in U : v \subseteq u => v = u
  <2> HIDE DEF U
  <2> QED
    BY <1>1, <1>2, SmallestSet
<1>4. PICK x \in T : u = 1..x
  OBVIOUS
<1>5. ASSUME NEW y \in T, y < x PROVE FALSE
  <2>1. 1..y \subseteq 1..x /\ x \in 1..x /\ x \notin 1..y
    BY <1>5
  <2> QED
    BY <2>1, <1>3, <1>4
<1> QED
  BY <1>5

-----------------------------------------------------------------------------
(***************************************************************************)
(* Pieces of a sequence, one after the other, laid end to end.             *)
(***************************************************************************)
LEMMA PiecesMakeWhole ==
  ASSUME NEW X, NEW whole \in Seq(X), NEW n \in Nat \ {0},
         NEW ends \in [0..n -> 0..Len(whole)], ends[0] = 0, ends[n] = Len(whole),
         \A k \in 1..n : ends[k - 1] <= ends[k],
         NEW pieces, Len(pieces) = n,
         \A k \in 1..n : pieces[k] = SubSeq(whole, ends[k - 1] + 1, ends[k])
  PROVE  FlattenSeq(pieces) = whole
<1> DEFINE IsFlat(f) == f = [i \in 1..n |-> IF i = 1 THEN pieces[i] ELSE f[i - 1] \o pieces[i]]
           flatten == CHOOSE f : IsFlat(f)
           upTo == [i \in 1..n |-> SubSeq(whole, 1, ends[i])]
<1>1. \A i \in 0..n : ends[i] \in Nat /\ ends[i] <= Len(whole)
  OBVIOUS
<1>2. upTo[1] = pieces[1]
  <2>1. 1 \in 1..n /\ 1 - 1 = 0
    OBVIOUS
  <2>2. pieces[1] = SubSeq(whole, ends[0] + 1, ends[1])
    BY <2>1
  <2> QED
    BY <2>1, <2>2
<1>3. ASSUME NEW i \in 2..n PROVE upTo[i] = upTo[i - 1] \o pieces[i]
  <2>1. i - 1 \in 0..n /\ i \in 0..n /\ i - 1 \in 1..n /\ i \in 1..n
    OBVIOUS
  <2>2. ends[i - 1] \in Nat /\ ends[i] \in Nat /\ ends[i] <= Len(whole) /\ ends[i - 1] <= ends[i]
    BY <1>1, <2>1
  <2> DEFINE a == ends[i - 1]
             b == ends[i]
  <2>3. upTo[i] = SubSeq(whole, 1, b) /\ upTo[i - 1] = SubSeq(whole, 1, a)
        /\ pieces[i] = SubSeq(whole, a + 1, b)
    BY <2>1
  <2> HIDE DEF a, b, upTo
  <2>4. SubSeq(whole, 1, b) = SubSeq(whole, 1, a) \o SubSeq(whole, a + 1, b)
    <3>1. 1 \in 1..(Len(whole) + 1) /\ a \in (1 - 1)..Len(whole) /\ b \in a..Len(whole)
      BY <2>2 DEF a, b
    <3> QED
      BY <3>1, ConcatAdjacentSubSeq
  <2> QED
    BY <2>3, <2>4
<1>4. IsFlat(upTo)
  <2> DEFINE g == [i \in 1..n |-> IF i = 1 THEN pieces[i] ELSE upTo[i - 1] \o pieces[i]]
  <2>1. \A i \in 1..n : upTo[i] = g[i]
    <3> SUFFICES ASSUME NEW i \in 1..n PROVE upTo[i] = g[i]
      OBVIOUS
    <3>1. i = 1 \/ i \in 2..n
      OBVIOUS
    <3> HIDE DEF upTo
    <3> QED
      BY <3>1, <1>2, <1>3
  <2> QED
    BY <2>1
<1>5. IsFlat(flatten)
  <2> HIDE DEF IsFlat
  <2> QED
    BY <1>4
<1>6. FlattenSeq(pieces) = flatten[n]
  BY DEF FlattenSeq
<1>7. \A i \in 1..n : flatten[i] = IF i = 1 THEN pieces[i] ELSE flatten[i - 1] \o pieces[i]
  <2> HIDE DEF flatten
  <2> QED
    BY <1>5
<1> HIDE DEF flatten, upTo, IsFlat
<1>8. ASSUME NEW j \in 1..n, flatten[j] # upTo[j] PROVE FALSE
  <2> DEFINE T == {i \in 1..n : flatten[i] # upTo[i]}
  <2>1. j \in T
    BY <1>8
  <2>2. PICK i \in T : \A k \in T : i <= k
    <3>1. T \in SUBSET Nat
      OBVIOUS
    <3> HIDE DEF T
    <3> QED
      BY <2>1, <3>1, SmallestNumber
  <2>3. i # 1
    BY <1>2, <1>7
  <2>4. i \in 2..n /\ i - 1 \in 1..n /\ i - 1 \notin T
    BY <2>2, <2>3
  <2>5. flatten[i - 1] = upTo[i - 1] /\ flatten[i] # upTo[i] /\ i \in 1..n
    BY <2>2, <2>4
  <2> HIDE DEF T
  <2>6. flatten[i] = flatten[i - 1] \o pieces[i]
    BY <1>7, <2>3, <2>5
  <2> QED
    BY <1>3, <2>4, <2>5, <2>6
<1>9. upTo[n] = whole
  <2>1. n \in 1..n /\ ends[n] = Len(whole)
    OBVIOUS
  <2>2. upTo[n] = SubSeq(whole, 1, ends[n])
    BY <2>1 DEF upTo
  <2> QED
    BY <2>1, <2>2, SubSeqFull
<1> QED
  BY <1>6, <1>8, <1>9

LEMMA LengthOf ==
  ASSUME NEW n \in Nat, NEW f, DOMAIN f = 1..n, f = [i \in 1..n |-> f[i]]
  PROVE  Len(f) = n /\ f \in Seq({f[i] : i \in 1..n})
<1> DEFINE S == {f[i] : i \in 1..n}
<1>1. f \in [1..n -> S]
  OBVIOUS
<1> HIDE DEF S
<1>2. f \in Seq(S)
  BY <1>1, SeqDef
<1> QED
  BY <1>1, <1>2 DEF S

(***************************************************************************)
(* Batches cut 0..len into ranges that meet.                               *)
(***************************************************************************)
LEMMA BatchesMeet ==
  ASSUME NEW len \in Nat, NEW size \in Nat \ {0}
  PROVE  \E n \in Nat \ {0} : \E ends \in [0..n -> 0..len] :
           /\ DOMAIN Batches(len, size) = 1..n
           /\ ends[0] = 0 /\ ends[n] = len
           /\ \A k \in 1..n : /\ ends[k - 1] <= ends[k]
                              /\ Batches(len, size)[k] = <<ends[k - 1], ends[k]>>
<1> DEFINE m == len \div size
           w == len - (len % size)
           whole == [i \in 1..m |-> <<(i - 1) * size, i * size>>]
           ends == [k \in 0..(m + 1) |-> IF k <= m THEN k * size ELSE len]
<1>1. m \in Nat /\ w \in 0..len /\ w = m * size
  OBVIOUS
<1>2. Batches(len, size) = Append(whole, <<w, len>>)
  BY DEF Batches
<1> HIDE DEF m, w
<1>3. \A k \in 0..m : k * size \in 0..w
  <2>1. SUFFICES ASSUME NEW k \in 0..m PROVE k * size \in Nat /\ k * size <= m * size
    BY <1>1
  <2>2. k \in Nat /\ k <= m /\ size \in Nat
    BY <1>1
  <2> QED
    BY <1>1, <2>2
<1>4. Len(whole) = m /\ DOMAIN whole = 1..m /\ whole \in Seq({whole[i] : i \in 1..m})
  <2>1. DOMAIN whole = 1..m /\ whole = [i \in 1..m |-> whole[i]]
    OBVIOUS
  <2> HIDE DEF whole
  <2> QED
    BY <1>1, <2>1, LengthOf
<1>5. /\ DOMAIN Append(whole, <<w, len>>) = 1..(m + 1)
      /\ \A k \in 1..m : Append(whole, <<w, len>>)[k] = whole[k]
      /\ Append(whole, <<w, len>>)[m + 1] = <<w, len>>
  <2> DEFINE S == {whole[i] : i \in 1..m} \union {<<w, len>>}
  <2>1. whole \in Seq(S) /\ <<w, len>> \in S
    BY <1>4, SeqMonotonic
  <2> HIDE DEF S, whole
  <2> QED
    BY <1>1, <1>4, <2>1, AppendProperties
<1>6. ends \in [0..(m + 1) -> 0..len]
  <2>1. \A k \in 0..(m + 1) : k <= m => k \in 0..m
    BY <1>1
  <2> QED
    BY <1>1, <1>3, <2>1
<1>7. ends[0] = 0 /\ ends[m + 1] = len
  BY <1>1
<1>8. ASSUME NEW k \in 1..(m + 1)
      PROVE  ends[k - 1] <= ends[k] /\ Batches(len, size)[k] = <<ends[k - 1], ends[k]>>
  <2>1. CASE k \in 1..m
    <3>1. ends[k - 1] = (k - 1) * size /\ ends[k] = k * size
      BY <1>1, <2>1
    <3>2. whole[k] = <<(k - 1) * size, k * size>>
      BY <2>1
    <3>3. (k - 1) * size <= k * size
      BY <1>1, <2>1
    <3> HIDE DEF ends, whole
    <3> QED
      BY <1>2, <1>5, <2>1, <3>1, <3>2, <3>3
  <2>2. CASE k = m + 1
    <3>1. ends[k - 1] = w /\ ends[k] = len
      BY <1>1, <2>2
    <3> HIDE DEF ends, whole
    <3> QED
      BY <1>1, <1>2, <1>5, <2>2, <3>1
  <2> QED
    BY <1>1, <2>1, <2>2
<1>9. m + 1 \in Nat \ {0} /\ DOMAIN Batches(len, size) = 1..(m + 1)
  BY <1>1, <1>2, <1>5
<1> HIDE DEF ends
<1> QED
  BY <1>6, <1>7, <1>8, <1>9

-----------------------------------------------------------------------------
(***************************************************************************)
(* What a query yields of one table, and of a range of its rows.           *)
(***************************************************************************)
Parts == [kind : Kinds, of : Components]

QueryOK(q) == q.parts \in Seq(Parts) /\ q.parts # <<>> /\ q.filter \subseteq SUBSET Components

LEMMA QueriesOK == ASSUME NEW q \in Queries PROVE QueryOK(q)
<1>1. PICK s \in Systems : \E i \in DOMAIN s : q = s[i]
  BY DEF Queries
<1> QED
  BY <1>1, SystemsAssumption DEF QueryOK, Parts

LEMMA PartsOK ==
  ASSUME NEW q, QueryOK(q)
  PROVE  DOMAIN q.parts # {} /\ \A j \in DOMAIN q.parts : q.parts[j] \in Parts
<1> DEFINE s == q.parts
<1>1. s \in Seq(Parts) /\ s # <<>>
  BY DEF QueryOK
<1> HIDE DEF s
<1>2. Len(s) \in Nat \ {0} /\ DOMAIN s = 1..Len(s)
  BY <1>1, EmptySeq
<1>3. 1 \in DOMAIN s /\ \A j \in DOMAIN s : s[j] \in Parts
  BY <1>1, <1>2, ElementOfSeq
<1> QED
  BY <1>3 DEF s

\* Only "&T" and "&mut T" ask for a column.
Wanted(q, ty) == \A j \in DOMAIN q.parts : q.parts[j].kind \in {"ref", "mut"} => q.parts[j].of \in ty

ShownPart(part, e, data) ==
  CASE part.kind \in {"ref", "mut"}     -> data[part.of]
    [] part.kind \in {"opt", "opt_mut"} -> IF part.of \in DOMAIN data THEN <<data[part.of]>> ELSE <<>>
    [] part.kind = "has"                -> part.of \in DOMAIN data
    [] part.kind = "id"                 -> e
    [] part.kind = "hash"               -> DOMAIN data

LEMMA ItemParts ==
  ASSUME NEW q, NEW e, NEW data
  PROVE  Item(q, e, data) = [j \in DOMAIN q.parts |-> ShownPart(q.parts[j], e, data)]
BY DEF Item, ShownPart

\* What t shows of its row.
ShownRow(part, t, row) == ShownPart(part, t.entities[row], RowOf(t, row))
ItemAt(q, t, row) == Item(q, t.entities[row], RowOf(t, row))

LEMMA PartOfTable ==
  ASSUME NEW ty, NEW t \in Table(ty), NEW part \in Parts
  PROVE  IF part.kind \in {"ref", "mut"} /\ part.of \notin ty
         THEN IterPart(part, t) = <<>>
         ELSE IterPart(part, t) = [row \in 1..Len(t.entities) |-> ShownRow(part, t, row)]
<1> DEFINE n == Len(t.entities)
<1>1. /\ t.entities \in Seq(Entities) /\ n \in Nat /\ DOMAIN t.entities = 1..n
      /\ DOMAIN t.columns = ty
      /\ \A c \in ty : t.columns[c] \in Seq(Values) /\ Len(t.columns[c]) = n
  BY DEF Table
<1>2. \A c \in ty : t.columns[c] = [row \in 1..n |-> t.columns[c][row]]
  BY <1>1
<1>3. \A row : DOMAIN RowOf(t, row) = ty /\ \A c \in ty : RowOf(t, row)[c] = t.columns[c][row]
  BY <1>1 DEF RowOf
<1>4. t.entities = [row \in 1..n |-> t.entities[row]]
  BY <1>1
<1>5. part.kind \in Kinds
  BY DEF Parts
<1> HIDE DEF n
<1>6. CASE part.kind \in {"ref", "mut"}
  <2>1. IterPart(part, t) = IF part.of \in ty THEN t.columns[part.of] ELSE <<>>
    BY <1>1, <1>6 DEF IterPart, IterColumn, HasColumn
  <2>2. \A row : ShownRow(part, t, row) = RowOf(t, row)[part.of]
    BY <1>6 DEF ShownRow, ShownPart
  <2> QED
    BY <1>2, <1>3, <1>6, <2>1, <2>2 DEF n
<1>7. CASE part.kind \in {"opt", "opt_mut"}
  <2>1. IterPart(part, t) = [row \in 1..n |-> IF part.of \in ty THEN <<t.columns[part.of][row]>> ELSE <<>>]
    BY <1>1, <1>7 DEF IterPart, IterOption, HasColumn
  <2>2. \A row : ShownRow(part, t, row) = IF part.of \in ty THEN <<t.columns[part.of][row]>> ELSE <<>>
    BY <1>3, <1>7 DEF ShownRow, ShownPart
  <2> QED
    BY <1>7, <2>1, <2>2 DEF n
<1>8. CASE part.kind = "has"
  <2>1. IterPart(part, t) = [row \in 1..n |-> part.of \in ty]
    BY <1>1, <1>8 DEF IterPart, IterHas, HasColumn
  <2>2. \A row : ShownRow(part, t, row) = (part.of \in ty)
    BY <1>3, <1>8 DEF ShownRow, ShownPart
  <2> QED
    BY <1>8, <2>1, <2>2 DEF n
<1>9. CASE part.kind = "id"
  <2>1. IterPart(part, t) = t.entities
    BY <1>9 DEF IterPart
  <2>2. \A row : ShownRow(part, t, row) = t.entities[row]
    BY <1>9 DEF ShownRow, ShownPart
  <2> QED
    BY <1>4, <1>9, <2>1, <2>2 DEF n
<1>10. CASE part.kind = "hash"
  <2>1. IterPart(part, t) = [row \in 1..n |-> ty]
    BY <1>1, <1>10 DEF IterPart
  <2>2. \A row : ShownRow(part, t, row) = ty
    BY <1>3, <1>10 DEF ShownRow, ShownPart
  <2> QED
    BY <1>10, <2>1, <2>2 DEF n
<1> QED
  BY <1>5, <1>6, <1>7, <1>8, <1>9, <1>10 DEF Kinds

LEMMA ShortestEnds ==
  ASSUME NEW seqs, NEW m \in Nat,
         \A j \in DOMAIN seqs : Len(seqs[j]) \in Nat /\ m <= Len(seqs[j]),
         \E j \in DOMAIN seqs : Len(seqs[j]) = m
  PROVE  InStep(seqs) = [i \in 1..m |-> [j \in DOMAIN seqs |-> seqs[j][i]]]
<1> DEFINE lens == {Len(seqs[j]) : j \in DOMAIN seqs}
           IsShortest(n) == n \in lens /\ \A j \in DOMAIN seqs : n <= Len(seqs[j])
           shortest == CHOOSE n \in lens : \A j \in DOMAIN seqs : n <= Len(seqs[j])
<1>1. IsShortest(m)
  OBVIOUS
<1>2. IsShortest(shortest)
  BY <1>1
<1>3. shortest = m
  <2> HIDE DEF shortest
  <2>1. shortest <= m /\ m <= shortest /\ shortest \in Nat
    BY <1>2
  <2> QED
    BY <2>1
<1>4. InStep(seqs) = [i \in 1..shortest |-> [j \in DOMAIN seqs |-> seqs[j][i]]]
  BY DEF InStep
<1> QED
  BY <1>3, <1>4

(***************************************************************************)
(* All rows of a table the query wants, or none of it.                     *)
(***************************************************************************)
LEMMA IterOfTable ==
  ASSUME NEW q, QueryOK(q), NEW ty, NEW t \in Table(ty)
  PROVE  Iter(q, t) = IF Wanted(q, ty) THEN [row \in 1..Len(t.entities) |-> ItemAt(q, t, row)] ELSE <<>>
<1> DEFINE n == Len(t.entities)
           seqs == [j \in DOMAIN q.parts |-> IterPart(q.parts[j], t)]
<1>1. n \in Nat /\ Iter(q, t) = InStep(seqs) /\ DOMAIN seqs = DOMAIN q.parts
  BY DEF Table, Iter
<1>2. DOMAIN q.parts # {} /\ \A j \in DOMAIN q.parts : q.parts[j] \in Parts
  BY PartsOK
<1>3. \A j \in DOMAIN q.parts :
        IF q.parts[j].kind \in {"ref", "mut"} /\ q.parts[j].of \notin ty
        THEN seqs[j] = <<>>
        ELSE seqs[j] = [row \in 1..n |-> ShownRow(q.parts[j], t, row)]
  BY <1>2, PartOfTable
<1> HIDE DEF n, seqs
<1>4. \A j \in DOMAIN q.parts :
        IF q.parts[j].kind \in {"ref", "mut"} /\ q.parts[j].of \notin ty
        THEN Len(seqs[j]) = 0
        ELSE Len(seqs[j]) = n /\ \A row \in 1..n : seqs[j][row] = ShownRow(q.parts[j], t, row)
  <2>1. ASSUME NEW j \in DOMAIN q.parts,
               seqs[j] = [row \in 1..n |-> ShownRow(q.parts[j], t, row)]
        PROVE  Len(seqs[j]) = n /\ \A row \in 1..n : seqs[j][row] = ShownRow(q.parts[j], t, row)
    <3> DEFINE f == seqs[j]
    <3>1. DOMAIN f = 1..n /\ f = [row \in 1..n |-> f[row]]
          /\ \A row \in 1..n : f[row] = ShownRow(q.parts[j], t, row)
      BY <2>1
    <3> HIDE DEF f
    <3>2. Len(f) = n
      BY <1>1, <3>1, LengthOf
    <3> QED
      BY <3>1, <3>2 DEF f
  <2> SUFFICES ASSUME NEW j \in DOMAIN q.parts
               PROVE  IF q.parts[j].kind \in {"ref", "mut"} /\ q.parts[j].of \notin ty
                      THEN Len(seqs[j]) = 0
                      ELSE Len(seqs[j]) = n /\ \A row \in 1..n : seqs[j][row] = ShownRow(q.parts[j], t, row)
    OBVIOUS
  <2>2. CASE q.parts[j].kind \in {"ref", "mut"} /\ q.parts[j].of \notin ty
    <3>1. seqs[j] = <<>>
      BY <1>3, <2>2
    <3> QED
      BY <2>2, <3>1
  <2>3. CASE ~(q.parts[j].kind \in {"ref", "mut"} /\ q.parts[j].of \notin ty)
    <3>1. seqs[j] = [row \in 1..n |-> ShownRow(q.parts[j], t, row)]
      BY <1>3, <2>3
    <3> QED
      BY <2>1, <2>3, <3>1
  <2> QED
    BY <2>2, <2>3
<1>5. CASE Wanted(q, ty)
  <2>1. \A j \in DOMAIN seqs : Len(seqs[j]) = n
    BY <1>1, <1>4, <1>5 DEF Wanted
  <2>2. InStep(seqs) = [i \in 1..n |-> [j \in DOMAIN seqs |-> seqs[j][i]]]
    BY <1>1, <1>2, <2>1, ShortestEnds
  <2>3. \A row \in 1..n : [j \in DOMAIN seqs |-> seqs[j][row]] = ItemAt(q, t, row)
    <3> SUFFICES ASSUME NEW row \in 1..n PROVE [j \in DOMAIN seqs |-> seqs[j][row]] = ItemAt(q, t, row)
      OBVIOUS
    <3>1. \A j \in DOMAIN q.parts : seqs[j][row] = ShownPart(q.parts[j], t.entities[row], RowOf(t, row))
      BY <1>4, <1>5 DEF Wanted, ShownRow
    <3> QED
      BY <1>1, <3>1, ItemParts DEF ItemAt
  <2> QED
    BY <1>1, <1>5, <2>2, <2>3 DEF n
<1>6. CASE ~Wanted(q, ty)
  <2>1. \A j \in DOMAIN seqs : Len(seqs[j]) \in Nat /\ 0 <= Len(seqs[j])
    BY <1>1, <1>4
  <2>2. \E j \in DOMAIN seqs : Len(seqs[j]) = 0
    BY <1>1, <1>4, <1>6 DEF Wanted
  <2>3. InStep(seqs) = [i \in 1..0 |-> [j \in DOMAIN seqs |-> seqs[j][i]]]
    BY <2>1, <2>2, ShortestEnds
  <2> QED
    BY <1>1, <1>6, <2>3
<1> QED
  BY <1>5, <1>6

\* The same of the rows of a range.
LEMMA IterOfRange ==
  ASSUME NEW q, QueryOK(q), NEW ty, NEW t \in Table(ty),
         NEW a \in 0..Len(t.entities), NEW b \in a..Len(t.entities)
  PROVE  IterRange(q, t, <<a, b>>) =
           IF Wanted(q, ty) THEN [i \in 1..(b - a) |-> ItemAt(q, t, a + i)] ELSE <<>>
<1> DEFINE n == Len(t.entities)
           seqs == [j \in DOMAIN q.parts |-> IterRangePart(q.parts[j], t, <<a, b>>)]
<1>1. n \in Nat /\ IterRange(q, t, <<a, b>>) = InStep(seqs) /\ DOMAIN seqs = DOMAIN q.parts
  BY DEF Table, IterRange
<1>2. DOMAIN q.parts # {} /\ \A j \in DOMAIN q.parts : q.parts[j] \in Parts
  BY PartsOK
<1>3. a \in Nat /\ b \in Nat /\ a <= b /\ b <= n
  BY <1>1
<1>4. ASSUME NEW j \in DOMAIN q.parts
      PROVE  IF q.parts[j].kind \in {"ref", "mut"} /\ q.parts[j].of \notin ty
             THEN Len(seqs[j]) = 0
             ELSE /\ Len(seqs[j]) = b - a
                  /\ \A i \in 1..(b - a) : seqs[j][i] = ShownRow(q.parts[j], t, a + i)
  <2> DEFINE items == IterPart(q.parts[j], t)
  <2>1. seqs[j] = IF items = <<>> THEN <<>> ELSE SubSeq(items, a + 1, b)
    BY DEF IterRangePart
  <2>2. IF q.parts[j].kind \in {"ref", "mut"} /\ q.parts[j].of \notin ty
        THEN items = <<>>
        ELSE items = [row \in 1..n |-> ShownRow(q.parts[j], t, row)]
    BY <1>2, PartOfTable
  <2> HIDE DEF items, seqs
  <2>3. CASE q.parts[j].kind \in {"ref", "mut"} /\ q.parts[j].of \notin ty
    BY <2>1, <2>2, <2>3
  <2>4. CASE ~(q.parts[j].kind \in {"ref", "mut"} /\ q.parts[j].of \notin ty)
    <3>1. items = [row \in 1..n |-> ShownRow(q.parts[j], t, row)]
      BY <2>2, <2>4
    <3> HIDE DEF n
    <3>2. DOMAIN items = 1..n /\ items = [row \in 1..n |-> items[row]]
          /\ \A row \in 1..n : items[row] = ShownRow(q.parts[j], t, row)
      BY <3>1
    <3>3. CASE n = 0
      <4>1. items = <<>>
        BY <3>1, <3>3
      <4> QED
        BY <1>3, <2>1, <2>4, <3>3, <4>1
    <3>4. CASE n # 0
      <4>1. items # <<>>
        BY <1>1, <3>2, <3>4
      <4>2. \A i \in (a + 1)..b : i \in 1..n
        BY <1>3, <1>1
      <4> DEFINE S == {items[i] : i \in 1..n}
      <4>3. \A i \in (a + 1)..b : items[i] \in S
        BY <4>2
      <4> HIDE DEF S
      <4>4. /\ Len(SubSeq(items, a + 1, b)) = IF a + 1 <= b THEN b - (a + 1) + 1 ELSE 0
            /\ \A i \in 1..(b - (a + 1) + 1) : SubSeq(items, a + 1, b)[i] = items[a + 1 + i - 1]
        BY <1>3, <4>3, SubSeqProperties
      <4>5. \A i \in 1..(b - a) : a + i \in 1..n /\ SubSeq(items, a + 1, b)[i] = items[a + i]
        <5> SUFFICES ASSUME NEW i \in 1..(b - a)
                     PROVE  a + i \in 1..n /\ SubSeq(items, a + 1, b)[i] = items[a + i]
          OBVIOUS
        <5>1. i \in 1..(b - (a + 1) + 1) /\ a + 1 + i - 1 = a + i /\ a + i \in 1..n
          BY <1>1, <1>3
        <5> QED
          BY <4>4, <5>1
      <4>6. Len(SubSeq(items, a + 1, b)) = b - a
        BY <1>3, <4>4
      <4> QED
        BY <2>1, <2>4, <3>2, <4>1, <4>5, <4>6
    <3> QED
      BY <3>3, <3>4
  <2> QED
    BY <2>3, <2>4
<1> HIDE DEF n, seqs
<1>5. CASE Wanted(q, ty)
  <2>1. \A j \in DOMAIN seqs : Len(seqs[j]) = b - a
    BY <1>1, <1>4, <1>5 DEF Wanted
  <2>2. InStep(seqs) = [i \in 1..(b - a) |-> [j \in DOMAIN seqs |-> seqs[j][i]]]
    <3>1. b - a \in Nat
      BY <1>3
    <3>2. /\ \A j \in DOMAIN seqs : Len(seqs[j]) \in Nat /\ b - a <= Len(seqs[j])
          /\ \E j \in DOMAIN seqs : Len(seqs[j]) = b - a
      BY <1>1, <1>2, <2>1, <3>1
    <3> QED
      BY <3>1, <3>2, ShortestEnds
  <2>3. \A i \in 1..(b - a) : [j \in DOMAIN seqs |-> seqs[j][i]] = ItemAt(q, t, a + i)
    <3> SUFFICES ASSUME NEW i \in 1..(b - a)
                 PROVE  [j \in DOMAIN seqs |-> seqs[j][i]] = ItemAt(q, t, a + i)
      OBVIOUS
    <3>1. \A j \in DOMAIN q.parts : seqs[j][i] = ShownPart(q.parts[j], t.entities[a + i], RowOf(t, a + i))
      BY <1>4, <1>5 DEF Wanted, ShownRow
    <3> QED
      BY <1>1, <3>1, ItemParts DEF ItemAt
  <2> QED
    BY <1>1, <1>5, <2>2, <2>3
<1>6. CASE ~Wanted(q, ty)
  <2>1. \A j \in DOMAIN seqs : Len(seqs[j]) \in Nat /\ 0 <= Len(seqs[j])
    BY <1>1, <1>3, <1>4
  <2>2. \E j \in DOMAIN seqs : Len(seqs[j]) = 0
    BY <1>1, <1>4, <1>6 DEF Wanted
  <2>3. InStep(seqs) = [i \in 1..0 |-> [j \in DOMAIN seqs |-> seqs[j][i]]]
    BY <2>1, <2>2, ShortestEnds
  <2> QED
    BY <1>1, <1>6, <2>3
<1> QED
  BY <1>5, <1>6

\* The tables a query visits.
LEMMA VisitedTables ==
  ASSUME WorldInv, NEW ty \in DOMAIN archetypes
  PROVE  TableOf(ty) \in Table(ty) /\ archetypes[ty] \in DOMAIN tables
<1>1. archetypes[ty] \in DOMAIN tables /\ archetypes[ty][1] = ty
  BY DEF WorldInv, Maps, MapOK
<1>2. tables[archetypes[ty]] \in Table(archetypes[ty][1])
  BY <1>1 DEF WorldInv, Good, Shape
<1> QED
  BY <1>1, <1>2 DEF TableOf

-----------------------------------------------------------------------------
(***************************************************************************)
(* Parallel batches.                                                       *)
(***************************************************************************)
LEMMA BatchesCover ==
  ASSUME NEW q, QueryOK(q), NEW ty, NEW t \in Table(ty), NEW size \in Nat \ {0}
  PROVE  LET ranges == Batches(Len(t.entities), size)
         IN  FlattenSeq([k \in DOMAIN ranges |-> IterRange(q, t, ranges[k])]) = Iter(q, t)
<1> DEFINE len == Len(t.entities)
           ranges == Batches(len, size)
           pieces == [k \in DOMAIN ranges |-> IterRange(q, t, ranges[k])]
           whole == Iter(q, t)
<1>1. len \in Nat
  BY DEF Table
<1>2. PICK n \in Nat \ {0} : \E ends \in [0..n -> 0..len] :
           /\ DOMAIN ranges = 1..n
           /\ ends[0] = 0 /\ ends[n] = len
           /\ \A k \in 1..n : ends[k - 1] <= ends[k] /\ ranges[k] = <<ends[k - 1], ends[k]>>
  BY <1>1, BatchesMeet
<1>3. PICK ends \in [0..n -> 0..len] :
           /\ DOMAIN ranges = 1..n
           /\ ends[0] = 0 /\ ends[n] = len
           /\ \A k \in 1..n : ends[k - 1] <= ends[k] /\ ranges[k] = <<ends[k - 1], ends[k]>>
  BY <1>2
<1> HIDE DEF ranges
<1>4. DOMAIN pieces = 1..n /\ pieces = [k \in 1..n |-> pieces[k]]
  BY <1>3
<1>5. Len(pieces) = n
  <2> HIDE DEF pieces
  <2> QED
    BY <1>4, LengthOf
<1>6. ASSUME NEW k \in 1..n
      PROVE  /\ ends[k - 1] \in 0..len /\ ends[k] \in ends[k - 1]..len
             /\ pieces[k] = IF Wanted(q, ty)
                            THEN [i \in 1..(ends[k] - ends[k - 1]) |-> ItemAt(q, t, ends[k - 1] + i)]
                            ELSE <<>>
  <2>1. k \in 0..n /\ k - 1 \in 0..n
    OBVIOUS
  <2>2. ends[k - 1] \in 0..len /\ ends[k] \in 0..len /\ ends[k - 1] <= ends[k]
    BY <1>3, <2>1
  <2>3. ends[k] \in ends[k - 1]..len
    BY <1>1, <2>2
  <2>4. pieces[k] = IterRange(q, t, <<ends[k - 1], ends[k]>>)
    BY <1>3
  <2> HIDE DEF pieces
  <2> QED
    BY <2>2, <2>3, <2>4, IterOfRange
<1>7. whole = IF Wanted(q, ty) THEN [row \in 1..len |-> ItemAt(q, t, row)] ELSE <<>>
  BY IterOfTable
<1> HIDE DEF pieces, whole
<1>8. CASE Wanted(q, ty)
  <2> DEFINE X == {whole[i] : i \in 1..len}
  <2>1. DOMAIN whole = 1..len /\ whole = [i \in 1..len |-> whole[i]]
        /\ \A i \in 1..len : whole[i] = ItemAt(q, t, i)
    BY <1>7, <1>8
  <2>2. Len(whole) = len /\ whole \in Seq(X)
    <3> HIDE DEF len
    <3> QED
      BY <1>1, <2>1, LengthOf
  <2>3. ASSUME NEW k \in 1..n PROVE pieces[k] = SubSeq(whole, ends[k - 1] + 1, ends[k])
    <3> DEFINE a == ends[k - 1]
               b == ends[k]
    <3>1. a \in Nat /\ b \in Nat /\ a <= b /\ b <= len
      <4>1. a \in 0..len /\ b \in a..len
        BY <1>6
      <4> HIDE DEF a, b, len
      <4> QED
        BY <1>1, <4>1
    <3>2. pieces[k] = [i \in 1..(b - a) |-> ItemAt(q, t, a + i)]
      BY <1>6, <1>8
    <3> HIDE DEF a, b, X, len
    <3>3. \A i \in (a + 1)..b : whole[i] \in X
      BY <3>1, <1>1 DEF X
    <3>4. /\ SubSeq(whole, a + 1, b) \in Seq(X)
          /\ Len(SubSeq(whole, a + 1, b)) = IF a + 1 <= b THEN b - (a + 1) + 1 ELSE 0
          /\ \A i \in 1..(b - (a + 1) + 1) : SubSeq(whole, a + 1, b)[i] = whole[a + 1 + i - 1]
      BY <3>1, <3>3, SubSeqProperties
    <3> DEFINE s == SubSeq(whole, a + 1, b)
    <3>5. s \in Seq(X) /\ Len(s) = b - a
      BY <3>1, <3>4
    <3>6. ASSUME NEW i \in 1..(b - a) PROVE s[i] = ItemAt(q, t, a + i)
      <4>1. i \in 1..(b - (a + 1) + 1) /\ a + 1 + i - 1 = a + i /\ a + i \in 1..len
        BY <1>1, <3>1
      <4> QED
        BY <2>1, <3>4, <4>1
    <3> HIDE DEF s
    <3>7. s = [i \in 1..(b - a) |-> s[i]]
      BY <3>1, <3>5
    <3>8. s = pieces[k]
      BY <3>2, <3>6, <3>7
    <3> QED
      BY <3>8 DEF s, a, b
  <2> HIDE DEF X, len
  <2>4. /\ ends \in [0..n -> 0..Len(whole)] /\ ends[0] = 0 /\ ends[n] = Len(whole)
        /\ \A k \in 1..n : ends[k - 1] <= ends[k]
    BY <1>3, <2>2
  <2>5. FlattenSeq(pieces) = whole
    BY <1>5, <2>2, <2>3, <2>4, PiecesMakeWhole
  <2> QED
    BY <2>5 DEF pieces, whole, ranges, len
<1>9. CASE ~Wanted(q, ty)
  <2> DEFINE none == [k \in 0..n |-> 0]
  <2>1. whole = <<>> /\ whole \in Seq({}) /\ Len(whole) = 0
    BY <1>7, <1>9
  <2>2. \A k \in 1..n : pieces[k] = <<>>
    BY <1>6, <1>9
  <2>3. \A k \in 1..n : k \in 0..n /\ k - 1 \in 0..n
    OBVIOUS
  <2>4. /\ none \in [0..n -> 0..Len(whole)] /\ none[0] = 0 /\ none[n] = Len(whole)
        /\ \A k \in 1..n : none[k - 1] = 0 /\ none[k] = 0
    BY <2>1, <2>3
  <2> HIDE DEF none
  <2>5. ASSUME NEW k \in 1..n PROVE pieces[k] = SubSeq(whole, none[k - 1] + 1, none[k])
    <3>1. none[k - 1] + 1 = 1 /\ none[k] = 0
      BY <2>4
    <3>2. SubSeq(whole, 1, 0) = <<>>
      BY SubSeqEmpty
    <3> QED
      BY <2>2, <3>1, <3>2
  <2>6. \A k \in 1..n : none[k - 1] <= none[k]
    BY <2>4
  <2>7. FlattenSeq(pieces) = whole
    <3>1. whole \in Seq({})
      BY <2>1
    <3>2. none \in [0..n -> 0..Len(whole)] /\ none[0] = 0 /\ none[n] = Len(whole)
      BY <2>4
    <3> QED
      BY <1>5, <2>5, <2>6, <3>1, <3>2, PiecesMakeWhole
  <2> QED
    BY <2>7 DEF pieces, whole, ranges, len
<1> QED
  BY <1>8, <1>9

LEMMA ParallelHolds == WorldInv => ParallelOnce
<1> SUFFICES ASSUME WorldInv, NEW q \in Queries, NEW n \in Parallelism, NEW ty \in DOMAIN QueryIter(q)
             PROVE  QueryIter(q)[ty] = IF ty \in DOMAIN ParForEach(q, n)
                                       THEN FlattenSeq(ParForEach(q, n)[ty]) ELSE <<>>
  BY DEF ParallelOnce
<1> DEFINE t == TableOf(ty)
           len == Len(t.entities)
           size == len \div n + 1
           ranges == Batches(len, size)
<1>1. ty \in Visited(q) /\ QueryIter(q)[ty] = Iter(q, t)
  BY DEF QueryIter
<1>2. t \in Table(ty)
  BY <1>1, VisitedTables DEF Visited
<1>3. len \in Nat /\ size \in Nat \ {0}
  <2>1. len \in Nat /\ n \in Nat \ {0}
    BY <1>2, ParallelismAssumption DEF Table
  <2> HIDE DEF len
  <2> QED
    BY <2>1
<1>4. QueryOK(q)
  BY QueriesOK
<1>5. CASE t.entities # <<>>
  <2>1. ty \in DOMAIN ParForEach(q, n)
        /\ ParForEach(q, n)[ty] = [k \in DOMAIN ranges |-> IterRange(q, t, ranges[k])]
    BY <1>1, <1>5 DEF ParForEach
  <2> HIDE DEF t, size
  <2>2. FlattenSeq([k \in DOMAIN ranges |-> IterRange(q, t, ranges[k])]) = Iter(q, t)
    BY <1>2, <1>3, <1>4, BatchesCover
  <2> QED
    BY <1>1, <2>1, <2>2
<1>6. CASE t.entities = <<>>
  <2>1. ty \notin DOMAIN ParForEach(q, n)
    BY <1>6 DEF ParForEach
  <2> HIDE DEF t
  <2>2. Iter(q, t) = <<>>
    <3>1. len = 0
      BY <1>6
    <3>2. Iter(q, t) = IF Wanted(q, ty) THEN [row \in 1..len |-> ItemAt(q, t, row)] ELSE <<>>
      BY <1>2, <1>4, IterOfTable
    <3> HIDE DEF len
    <3> QED
      BY <3>1, <3>2
  <2> QED
    BY <1>1, <2>1, <2>2
<1> QED
  BY <1>5, <1>6

(***************************************************************************)
(* The jobs of par_for_each get each row once, for any number of workers,  *)
(* rows and parts.                                                         *)
(***************************************************************************)
THEOREM ParallelBatches == Careful => (Spec => []ParallelOnce)
<1> SUFFICES ASSUME Careful PROVE Spec => []ParallelOnce
  OBVIOUS
<1> QED
  BY Invariant, ParallelHolds, PTL

-----------------------------------------------------------------------------
(***************************************************************************)
(* Entities and rows.  The entities that q should show by iteration, and   *)
(* the places of the items it yields.                                      *)
(***************************************************************************)
Found(q) == {e \in Live : Matches(q, Data[e])} \intersect Visible

Place(e) == <<loc[e].table[1], loc[e].row>>

Places(q) ==
  {at \in (DOMAIN QueryIter(q)) \X (1..Cardinality(Entities)) : at[2] <= Len(QueryIter(q)[at[1]])}

ItemIn(q, at) == QueryIter(q)[at[1]][at[2]]

LEMMA VisibleInRow ==
  ASSUME WorldInv, NEW ty \in DOMAIN archetypes, NEW row \in 1..Len(TableOf(ty).entities)
  PROVE  \E x \in Visible :
           /\ TableOf(ty).entities[row] = x /\ x \in Live /\ x \in Entities
           /\ loc[x].table = archetypes[ty] /\ loc[x].table[1] = ty /\ loc[x].row = row
<1>1. PICK p \in DOMAIN tables :
        p = archetypes[ty] /\ p[1] = ty /\ TableOf(ty) = tables[p] /\ TableOf(ty) \in Table(ty)
  BY VisitedTables DEF TableOf, WorldInv, Maps, MapOK
<1>2. row \in DOMAIN tables[p].entities
  BY <1>1 DEF Table
<1>3. PICK x \in Live : x = tables[p].entities[row] /\ loc[x] = [table |-> p, row |-> row]
  BY <1>2 DEF WorldInv, Good, RowsTrue
<1>4. loc[x].table = p /\ loc[x].row = row
  BY <1>3
<1>5. x \in Visible
  BY <1>1, <1>4 DEF Visible
<1> QED
  BY <1>1, <1>3, <1>4, <1>5 DEF Live

LEMMA RowOfVisible ==
  ASSUME WorldInv, NEW e \in Visible
  PROVE  LET ty == loc[e].table[1]
             t  == TableOf(ty) IN
         /\ e \in Live /\ e \in Entities
         /\ ty \in DOMAIN archetypes
         /\ loc[e].row \in 1..Len(t.entities) /\ t.entities[loc[e].row] = e
         /\ Data[e] = RowOf(t, loc[e].row) /\ DOMAIN Data[e] = ty
<1> DEFINE ty == loc[e].table[1]
           t == TableOf(ty)
<1>1. e \in Live /\ ty \in DOMAIN archetypes /\ t = tables[loc[e].table]
  BY DEF Visible, TableOf
<1>2. t \in Table(ty)
  BY <1>1, VisitedTables
<1>3. loc[e].row \in 1..Len(t.entities) /\ t.entities[loc[e].row] = e /\ e \in Entities
  BY <1>1, RowOfLive DEF WorldInv
<1>4. Data[e] = RowOf(t, loc[e].row)
  BY <1>1 DEF Data, DataOf
<1>5. DOMAIN Data[e] = ty
  BY <1>2, <1>4 DEF RowOf, Table
<1> QED
  BY <1>1, <1>3, <1>4, <1>5

\* Tables are no longer than there are entities: no entity has two rows.
LEMMA TableLength ==
  ASSUME WorldInv, NEW ty \in DOMAIN archetypes
  PROVE  /\ Len(TableOf(ty).entities) \in Nat
         /\ Len(TableOf(ty).entities) <= Cardinality(Entities)
<1> DEFINE n == Len(TableOf(ty).entities)
           f == [row \in 1..n |-> TableOf(ty).entities[row]]
<1>1. n \in Nat
  BY VisitedTables DEF Table
<1>2. ASSUME NEW row \in 1..n PROVE f[row] \in Entities /\ loc[f[row]].row = row
  <2>1. PICK x \in Visible : TableOf(ty).entities[row] = x /\ x \in Entities /\ loc[x].row = row
    BY VisibleInRow
  <2>2. f[row] = x
    BY <2>1
  <2> QED
    BY <2>1, <2>2
<1>3. f \in [1..n -> Entities]
  BY <1>2
<1> HIDE DEF f, n
<1>4. f \in Injection(1..n, Entities)
  BY <1>2, <1>3 DEF Injection, IsInjective
<1>5. IsFiniteSet(Entities) /\ Cardinality(1..n) = n
  BY <1>1, FS_Interval, WorldAssumption
<1> QED
  BY <1>1, <1>4, <1>5, FS_Injection DEF n

LEMMA MatchesType ==
  ASSUME NEW q, NEW data
  PROVE  Matches(q, data) <=> DOMAIN data \in q.filter /\ Wanted(q, DOMAIN data)
BY DEF Matches, Wanted, PartsOf

LEMMA WantedTable ==
  ASSUME NEW q, NEW ty, NEW t \in Table(ty)
  PROVE  ContainsTable(q, t) <=> Wanted(q, ty)
BY DEF ContainsTable, ContainsPart, HasColumn, Wanted, Table

\* What a query finds, by type.
LEMMA FoundTypes ==
  ASSUME WorldInv, NEW q \in Queries
  PROVE  /\ \A ty : ty \in Matching(q) <=> ty \in Visited(q) /\ Wanted(q, ty)
         /\ \A e \in Visible : e \in Found(q) <=> loc[e].table[1] \in Matching(q)
<1>1. \A ty : ty \in Matching(q) <=> ty \in Visited(q) /\ Wanted(q, ty)
  BY VisitedTables, WantedTable DEF Matching, Visited
<1>2. ASSUME NEW e \in Visible PROVE e \in Found(q) <=> loc[e].table[1] \in Matching(q)
  <2>1. e \in Live /\ loc[e].table[1] \in DOMAIN archetypes /\ DOMAIN Data[e] = loc[e].table[1]
    BY RowOfVisible
  <2> QED
    BY <1>1, <2>1, MatchesType DEF Found, Visited
<1> QED
  BY <1>1, <1>2

LEMMA IterOfType ==
  ASSUME WorldInv, NEW q \in Queries, NEW ty \in Visited(q)
  PROVE  /\ ty \in DOMAIN QueryIter(q)
         /\ ty \in Matching(q) =>
              /\ Len(QueryIter(q)[ty]) = Len(TableOf(ty).entities)
              /\ \A row \in 1..Len(TableOf(ty).entities) :
                   QueryIter(q)[ty][row] = ItemAt(q, TableOf(ty), row)
         /\ ty \notin Matching(q) => Len(QueryIter(q)[ty]) = 0
<1> DEFINE t == TableOf(ty)
           n == Len(t.entities)
           s == QueryIter(q)[ty]
<1>1. ty \in DOMAIN QueryIter(q) /\ s = Iter(q, t)
  BY DEF QueryIter
<1>2. t \in Table(ty) /\ n \in Nat
  BY VisitedTables, TableLength DEF Visited
<1>3. ty \in Matching(q) <=> Wanted(q, ty)
  BY FoundTypes
<1>4. s = IF Wanted(q, ty) THEN [row \in 1..n |-> ItemAt(q, t, row)] ELSE <<>>
  BY <1>1, <1>2, QueriesOK, IterOfTable
<1> HIDE DEF s, n, t
<1>5. CASE Wanted(q, ty)
  <2>1. DOMAIN s = 1..n /\ s = [row \in 1..n |-> s[row]] /\ \A row \in 1..n : s[row] = ItemAt(q, t, row)
    BY <1>4, <1>5
  <2>2. Len(s) = n
    BY <1>2, <2>1, LengthOf
  <2> QED
    BY <1>1, <1>3, <1>5, <2>1, <2>2 DEF s, n, t
<1>6. CASE ~Wanted(q, ty)
  <2>1. s = <<>>
    BY <1>4, <1>6
  <2> QED
    BY <1>1, <1>3, <1>6, <2>1 DEF s
<1> QED
  BY <1>5, <1>6

(***************************************************************************)
(* The entities a query should show and the places of its items are one    *)
(* to one.                                                                 *)
(***************************************************************************)
LEMMA PlaceOfFound ==
  ASSUME WorldInv, NEW q \in Queries, NEW e \in Found(q)
  PROVE  Place(e) \in Places(q) /\ ItemIn(q, Place(e)) = Item(q, e, Data[e])
<1> DEFINE ty == loc[e].table[1]
           row == loc[e].row
           t == TableOf(ty)
           n == Len(t.entities)
<1>1. e \in Visible /\ ty \in Matching(q) /\ ty \in Visited(q)
  BY FoundTypes DEF Found
<1>2. /\ ty \in DOMAIN archetypes /\ row \in 1..n /\ t.entities[row] = e
      /\ Data[e] = RowOf(t, row)
  BY <1>1, RowOfVisible
<1>3. n \in Nat /\ n <= Cardinality(Entities) /\ Cardinality(Entities) \in Nat
  BY <1>2, TableLength, FS_CardinalityType, WorldAssumption
<1>4. /\ ty \in DOMAIN QueryIter(q) /\ Len(QueryIter(q)[ty]) = n
      /\ QueryIter(q)[ty][row] = ItemAt(q, t, row)
  BY <1>1, <1>2, IterOfType
<1>5. ItemAt(q, t, row) = Item(q, e, Data[e])
  BY <1>2 DEF ItemAt
<1> HIDE DEF ty, row, t, n
<1>6. Place(e) = <<ty, row>>
  BY DEF Place, ty, row
<1>7. row \in 1..Cardinality(Entities) /\ row <= n
  BY <1>2, <1>3
<1>8. <<ty, row>> \in Places(q)
  BY <1>4, <1>7 DEF Places
<1> QED
  BY <1>4, <1>5, <1>6, <1>8 DEF ItemIn

LEMMA FoundAtPlace ==
  ASSUME WorldInv, NEW q \in Queries, NEW at \in Places(q)
  PROVE  \E e \in Found(q) : Place(e) = at
<1> DEFINE ty == at[1]
           row == at[2]
<1>1. /\ ty \in DOMAIN QueryIter(q) /\ row \in 1..Cardinality(Entities)
      /\ row <= Len(QueryIter(q)[ty]) /\ at = <<ty, row>>
  BY DEF Places
<1>2. ty \in Visited(q) /\ ty \in DOMAIN archetypes
  BY <1>1 DEF QueryIter, Visited
<1>3. Cardinality(Entities) \in Nat /\ Len(TableOf(ty).entities) \in Nat
  BY <1>2, FS_CardinalityType, WorldAssumption, TableLength
<1> HIDE DEF ty, row
<1>4. ty \in Matching(q)
  <2>1. row >= 1 /\ row \in Nat
    BY <1>1, <1>3
  <2>2. ty \notin Matching(q) => Len(QueryIter(q)[ty]) = 0
    BY <1>2, IterOfType
  <2> QED
    BY <1>1, <2>1, <2>2
<1>5. row \in 1..Len(TableOf(ty).entities)
  <2>1. Len(QueryIter(q)[ty]) = Len(TableOf(ty).entities)
    BY <1>2, <1>4, IterOfType
  <2> QED
    BY <1>1, <1>3, <2>1
<1>6. PICK x \in Visible : loc[x].table[1] = ty /\ loc[x].row = row
  BY <1>2, <1>5, VisibleInRow
<1>7. x \in Found(q)
  BY <1>4, <1>6, FoundTypes
<1> QED
  BY <1>1, <1>6, <1>7 DEF Place

LEMMA PlacesDiffer ==
  ASSUME WorldInv, NEW e \in Visible, NEW x \in Visible, Place(e) = Place(x)
  PROVE  e = x
<1>1. loc[e].table[1] = loc[x].table[1] /\ loc[e].row = loc[x].row
  BY DEF Place
<1>2. /\ TableOf(loc[e].table[1]).entities[loc[e].row] = e
      /\ TableOf(loc[x].table[1]).entities[loc[x].row] = x
  BY RowOfVisible
<1> QED
  BY <1>1, <1>2

LEMMA VisibleFinite ==
  ASSUME NEW S, S \subseteq Visible
  PROVE  IsFiniteSet(S) /\ Cardinality(S) \in Nat
<1>1. S \subseteq Entities
  BY DEF Visible, Live
<1>2. IsFiniteSet(S)
  BY <1>1, FS_Subset, WorldAssumption
<1> QED
  BY <1>2, FS_CardinalityType

\* Every item as often as there are entities that look like it.
LEMMA ItemsHold ==
  ASSUME WorldInv, NEW q \in Queries, NEW x
  PROVE  Occurrences(x, QueryIter(q)) = Cardinality({e \in Found(q) : Item(q, e, Data[e]) = x})
<1> DEFINE S == {e \in Found(q) : Item(q, e, Data[e]) = x}
           T == {at \in Places(q) : ItemIn(q, at) = x}
           f == [e \in S |-> Place(e)]
<1>1. Occurrences(x, QueryIter(q)) = Cardinality(T)
  <2>1. T = {at \in (DOMAIN QueryIter(q)) \X (1..Cardinality(Entities)) :
               at[2] <= Len(QueryIter(q)[at[1]]) /\ QueryIter(q)[at[1]][at[2]] = x}
    BY DEF Places, ItemIn
  <2> HIDE DEF T
  <2> QED
    BY <2>1 DEF Occurrences
<1>2. f \in [S -> T]
  BY PlaceOfFound
<1>3. \A at \in T : \E e \in S : f[e] = at
  <2> SUFFICES ASSUME NEW at \in T PROVE \E e \in S : f[e] = at
    OBVIOUS
  <2>1. PICK e \in Found(q) : Place(e) = at
    BY FoundAtPlace
  <2>2. e \in S
    BY <2>1, PlaceOfFound
  <2> QED
    BY <2>1, <2>2
<1>4. \A e, y \in S : f[e] = f[y] => e = y
  BY PlacesDiffer DEF Found
<1>5. S \subseteq Visible
  BY DEF Found
<1> HIDE DEF S, T, f
<1>6. ExistsBijection(S, T)
  <2>1. f \in Bijection(S, T)
    BY <1>2, <1>3, <1>4 DEF Bijection, Injection, Surjection, IsInjective
  <2> QED
    BY <2>1 DEF ExistsBijection
<1>7. IsFiniteSet(S)
  BY <1>5, VisibleFinite
<1>8. Cardinality(T) = Cardinality(S)
  BY <1>6, <1>7, FS_Bijection
<1> QED
  BY <1>1, <1>8 DEF S

-----------------------------------------------------------------------------
(***************************************************************************)
(* Query::count adds up the lengths of the tables of some types: what it   *)
(* has added is the number of entities in them.                            *)
(***************************************************************************)
InTypes(S) == {e \in Visible : loc[e].table[1] \in S}

LEMMA TypeCount ==
  ASSUME WorldInv, NEW ty \in DOMAIN archetypes
  PROVE  Cardinality(InTypes({ty})) = Len(TableOf(ty).entities)
<1> DEFINE n == Len(TableOf(ty).entities)
           f == [e \in InTypes({ty}) |-> loc[e].row]
<1>1. n \in Nat
  BY TableLength
<1>2. ASSUME NEW e \in InTypes({ty}) PROVE loc[e].row \in 1..n /\ TableOf(ty).entities[loc[e].row] = e
  BY RowOfVisible DEF InTypes
<1>3. f \in [InTypes({ty}) -> 1..n]
  BY <1>2
<1>4. ASSUME NEW row \in 1..n PROVE \E e \in InTypes({ty}) : f[e] = row
  <2>1. PICK x \in Visible : loc[x].table[1] = ty /\ loc[x].row = row
    BY VisibleInRow
  <2>2. x \in InTypes({ty})
    BY <2>1 DEF InTypes
  <2> QED
    BY <2>1, <2>2
<1>5. \A e, x \in InTypes({ty}) : f[e] = f[x] => e = x
  BY <1>2
<1>6. IsFiniteSet(InTypes({ty})) /\ Cardinality(1..n) = n
  <2>1. InTypes({ty}) \subseteq Visible
    BY DEF InTypes
  <2> HIDE DEF n
  <2>2. Cardinality(1..n) = n
    BY <1>1, FS_Interval
  <2> QED
    BY <2>1, <2>2, VisibleFinite
<1> HIDE DEF f, n
<1>7. ExistsBijection(InTypes({ty}), 1..n)
  <2>1. f \in Bijection(InTypes({ty}), 1..n)
    BY <1>3, <1>4, <1>5 DEF Bijection, Injection, Surjection, IsInjective
  <2> QED
    BY <2>1 DEF ExistsBijection
<1> QED
  BY <1>6, <1>7, FS_Bijection DEF n

LEMMA OneTypeMore ==
  ASSUME WorldInv, NEW S, NEW ty \in S, ty \in DOMAIN archetypes
  PROVE  Cardinality(InTypes(S)) = Cardinality(InTypes(S \ {ty})) + Len(TableOf(ty).entities)
<1> DEFINE A == InTypes(S \ {ty})
           B == InTypes({ty})
<1>1. InTypes(S) = A \union B /\ A \intersect B = {} /\ A \subseteq Visible /\ B \subseteq Visible
  BY DEF InTypes
<1> HIDE DEF A, B
<1>2. IsFiniteSet(A) /\ IsFiniteSet(B) /\ Cardinality(A) \in Nat /\ Cardinality(B) \in Nat
  BY <1>1, VisibleFinite
<1>3. Cardinality(A \union B) = Cardinality(A) + Cardinality(B)
  <2>1. Cardinality(A \union B) = Cardinality(A) + Cardinality(B) - Cardinality(A \intersect B)
    BY <1>2, FS_Union
  <2>2. Cardinality(A \intersect B) = 0
    BY <1>1, FS_EmptySet
  <2> QED
    BY <1>2, <2>1, <2>2
<1> QED
  BY <1>1, <1>3, TypeCount DEF A, B

LEMMA CountHolds ==
  ASSUME WorldInv, NEW q \in Queries
  PROVE  Count(q) = Cardinality(Found(q))
<1> DEFINE M == Matching(q)
           size(ty) == Len(TableOf(ty).entities)
           pick(s) == CHOOSE x \in s : TRUE
           IsSum(f) == f = [s \in SUBSET M |-> IF s = {} THEN 0 ELSE f[s \ {pick(s)}] + size(pick(s))]
           iter == CHOOSE f : IsSum(f)
           number == [s \in SUBSET M |-> Cardinality(InTypes(s))]
<1>1. Count(q) = iter[M]
  BY DEF Count, FoldSet, MapThenFoldSet
<1>2. \A s : s # {} => pick(s) \in s
  OBVIOUS
<1>3. M \subseteq DOMAIN archetypes /\ IsFiniteSet(M)
  <2>1. M \subseteq DOMAIN archetypes /\ M \subseteq SUBSET Components
    BY QueriesOK DEF Matching, Visited, QueryOK
  <2>2. IsFiniteSet(SUBSET Components)
    BY SystemsAssumption, FS_SUBSET
  <2> HIDE DEF M
  <2> QED
    BY <2>1, <2>2, FS_Subset
<1> HIDE DEF M, pick, size
<1>4. number[{}] = 0
  <2>1. InTypes({}) = {}
    BY DEF InTypes
  <2> QED
    BY <2>1, FS_EmptySet
<1>5. ASSUME NEW s \in SUBSET M, s # {}
      PROVE  /\ s \ {pick(s)} \in SUBSET M
             /\ number[s] = number[s \ {pick(s)}] + size(pick(s))
  <2>1. pick(s) \in s /\ pick(s) \in DOMAIN archetypes
    BY <1>2, <1>3, <1>5
  <2>2. Cardinality(InTypes(s)) = Cardinality(InTypes(s \ {pick(s)})) + size(pick(s))
    BY <2>1, OneTypeMore DEF size
  <2>3. s \ {pick(s)} \in SUBSET M
    OBVIOUS
  <2> QED
    BY <2>2, <2>3
<1> HIDE DEF number
<1>6. IsSum(number)
  <2>1. DOMAIN number = SUBSET M /\ number = [s \in SUBSET M |-> number[s]]
    BY DEF number
  <2>2. \A s \in SUBSET M : number[s] = IF s = {} THEN 0 ELSE number[s \ {pick(s)}] + size(pick(s))
    BY <1>4, <1>5
  <2> QED
    BY <2>1, <2>2
<1>7. IsSum(iter)
  <2> HIDE DEF IsSum
  <2> QED
    BY <1>6
<1> HIDE DEF iter
<1>8. \A s \in SUBSET M : iter[s] = IF s = {} THEN 0 ELSE iter[s \ {pick(s)}] + size(pick(s))
  <2> DEFINE f == iter
  <2>1. f = [s \in SUBSET M |-> IF s = {} THEN 0 ELSE f[s \ {pick(s)}] + size(pick(s))]
    BY <1>7
  <2> HIDE DEF f
  <2>2. \A s \in SUBSET M : f[s] = IF s = {} THEN 0 ELSE f[s \ {pick(s)}] + size(pick(s))
    BY <2>1
  <2> QED
    BY <2>2 DEF f
<1>9. iter[M] = number[M]
  <2> DEFINE U == {s \in SUBSET M : iter[s] # number[s]}
  <2> SUFFICES ASSUME M \in U PROVE FALSE
    OBVIOUS
  <2>1. U \subseteq FiniteSubsetsOf(M)
    BY <1>3, FS_Subset DEF FiniteSubsetsOf
  <2>2. PICK s \in U : \A v \in U : v \subseteq s => v = s
    <3> HIDE DEF U
    <3> QED
      BY <2>1, SmallestSet
  <2>3. s # {}
    BY <1>4, <1>8
  <2>4. pick(s) \in s /\ s \ {pick(s)} \notin U
    BY <1>2, <2>2, <2>3
  <2>5. iter[s \ {pick(s)}] = number[s \ {pick(s)}]
    BY <1>5, <2>3, <2>4
  <2> QED
    BY <1>5, <1>8, <2>3, <2>5
<1>10. Found(q) = InTypes(M)
  <2>1. Found(q) \subseteq Visible
    BY DEF Found
  <2> QED
    BY <2>1, FoundTypes DEF InTypes, M
<1> QED
  BY <1>1, <1>9, <1>10 DEF number

-----------------------------------------------------------------------------
(***************************************************************************)
(* By id: an entity is fetched from whatever table it is in.               *)
(***************************************************************************)
LEMMA FetchOfTable ==
  ASSUME NEW q, QueryOK(q), NEW ty, NEW t \in Table(ty), NEW row \in 1..Len(t.entities)
  PROVE  FetchRow(q, t, row) = IF Wanted(q, ty) THEN <<ItemAt(q, t, row)>> ELSE <<>>
<1> DEFINE items == [j \in DOMAIN q.parts |-> FetchPart(q.parts[j], t, row)]
<1>1. FetchRow(q, t, row) = IF \A j \in DOMAIN items : items[j] # <<>>
                            THEN << [j \in DOMAIN items |-> items[j][1]] >> ELSE <<>>
  BY DEF FetchRow
<1>2. DOMAIN items = DOMAIN q.parts
  OBVIOUS
<1>3. DOMAIN t.columns = ty /\ DOMAIN RowOf(t, row) = ty
      /\ \A c \in ty : RowOf(t, row)[c] = t.columns[c][row]
  BY DEF Table, RowOf
<1>4. ASSUME NEW j \in DOMAIN q.parts
      PROVE  IF q.parts[j].kind \in {"ref", "mut"} /\ q.parts[j].of \notin ty
             THEN items[j] = <<>>
             ELSE items[j] = <<ShownRow(q.parts[j], t, row)>>
  <2> DEFINE part == q.parts[j]
  <2>1. part.kind \in Kinds
    BY PartsOK DEF Parts
  <2>2. items[j] = FetchPart(part, t, row)
    OBVIOUS
  <2> HIDE DEF part, items
  <2>3. CASE part.kind \in {"ref", "mut"}
    BY <1>3, <2>2, <2>3 DEF FetchPart, HasColumn, ShownRow, ShownPart, part
  <2>4. CASE part.kind \in {"opt", "opt_mut"}
    BY <1>3, <2>2, <2>4 DEF FetchPart, HasColumn, ShownRow, ShownPart, part
  <2>5. CASE part.kind = "has"
    BY <1>3, <2>2, <2>5 DEF FetchPart, HasColumn, ShownRow, ShownPart, part
  <2>6. CASE part.kind = "id"
    BY <1>3, <2>2, <2>6 DEF FetchPart, HasColumn, ShownRow, ShownPart, part
  <2>7. CASE part.kind = "hash"
    BY <1>3, <2>2, <2>7 DEF FetchPart, HasColumn, ShownRow, ShownPart, part
  <2> QED
    BY <2>1, <2>3, <2>4, <2>5, <2>6, <2>7 DEF Kinds
<1> HIDE DEF items
<1>5. CASE Wanted(q, ty)
  <2>1. \A j \in DOMAIN items : items[j] = <<ShownRow(q.parts[j], t, row)>>
    BY <1>2, <1>4, <1>5 DEF Wanted
  <2>2. [j \in DOMAIN items |-> items[j][1]] = ItemAt(q, t, row)
    <3>1. \A j \in DOMAIN items : items[j][1] = ShownPart(q.parts[j], t.entities[row], RowOf(t, row))
      BY <2>1 DEF ShownRow
    <3> QED
      BY <1>2, <3>1, ItemParts DEF ItemAt
  <2> QED
    BY <1>1, <1>5, <2>1, <2>2
<1>6. CASE ~Wanted(q, ty)
  <2>1. \E j \in DOMAIN items : items[j] = <<>>
    BY <1>2, <1>4, <1>6 DEF Wanted
  <2> QED
    BY <1>1, <1>6, <2>1
<1> QED
  BY <1>5, <1>6

LEMMA FetchHolds ==
  ASSUME WorldInv, NEW q \in Queries, NEW e \in Entities
  PROVE  /\ Fetch(q, e) = IF e \in Live /\ Matches(q, Data[e]) THEN <<Item(q, e, Data[e])>> ELSE <<>>
         /\ ContainsId(q, e) <=> e \in Live /\ Matches(q, Data[e])
<1>1. CASE e \notin Live
  BY <1>1 DEF Fetch, ContainsId
<1>2. CASE e \in Live
  <2> DEFINE ty == loc[e].table[1]
             t == tables[loc[e].table]
             row == loc[e].row
  <2>1. t \in Table(ty) /\ row \in 1..Len(t.entities) /\ t.entities[row] = e
    BY <1>2, RowOfLive DEF WorldInv
  <2>2. Data[e] = RowOf(t, row)
    BY <1>2 DEF Data, DataOf
  <2>3. DOMAIN Data[e] = ty
    BY <2>1, <2>2 DEF RowOf, Table
  <2>4. Matches(q, Data[e]) <=> ty \in q.filter /\ Wanted(q, ty)
    BY <2>3, MatchesType
  <2>5. ItemAt(q, t, row) = Item(q, e, Data[e])
    BY <2>1, <2>2 DEF ItemAt
  <2>6. /\ Fetch(q, e) = IF ty \in q.filter THEN FetchRow(q, t, row) ELSE <<>>
        /\ ContainsId(q, e) <=> ty \in q.filter /\ ContainsTable(q, t)
    BY <1>2 DEF Fetch, ContainsId
  <2> HIDE DEF ty, t, row
  <2>7. FetchRow(q, t, row) = IF Wanted(q, ty) THEN <<ItemAt(q, t, row)>> ELSE <<>>
    BY <2>1, QueriesOK, FetchOfTable
  <2>8. ContainsTable(q, t) <=> Wanted(q, ty)
    BY <2>1, WantedTable
  <2> QED
    BY <1>2, <2>4, <2>5, <2>6, <2>7, <2>8
<1> QED
  BY <1>1, <1>2

\* is_empty and any.
LEMMA EmptyHolds ==
  ASSUME WorldInv, NEW q \in Queries
  PROVE  (IsEmpty(q) <=> Found(q) = {}) /\ (AnyRow(q) <=> Found(q) # {})
<1>1. ASSUME NEW e \in Found(q) PROVE \E ty \in Matching(q) : TableOf(ty).entities # <<>>
  <2> DEFINE ty == loc[e].table[1]
  <2>1. e \in Visible /\ ty \in Matching(q)
    BY FoundTypes DEF Found
  <2>2. ty \in DOMAIN archetypes /\ loc[e].row \in 1..Len(TableOf(ty).entities)
    BY <2>1, RowOfVisible
  <2>3. Len(TableOf(ty).entities) \in Nat
    BY <2>2, TableLength
  <2> HIDE DEF ty
  <2>4. TableOf(ty).entities # <<>>
    BY <2>2, <2>3
  <2> QED
    BY <2>1, <2>4
<1>2. ASSUME NEW ty \in Matching(q), TableOf(ty).entities # <<>> PROVE Found(q) # {}
  <2>1. ty \in DOMAIN archetypes
    BY DEF Matching, Visited
  <2>2. TableOf(ty).entities \in Seq(Entities)
    BY <2>1, VisitedTables DEF Table
  <2>3. 1 \in 1..Len(TableOf(ty).entities)
    BY <1>2, <2>2, EmptySeq
  <2>4. PICK x \in Visible : loc[x].table[1] = ty
    BY <2>1, <2>3, VisibleInRow
  <2>5. x \in Found(q)
    BY <2>4, FoundTypes
  <2> QED
    BY <2>5
<1> QED
  BY <1>1, <1>2 DEF IsEmpty, AnyRow

LEMMA AgreeHolds == WorldInv => QueriesAgree
<1> SUFFICES ASSUME WorldInv, NEW q \in Queries
             PROVE  LET data    == Data
                        matched == {e \in Live : Matches(q, data[e])}
                        found   == matched \intersect Visible
                        results == QueryIter(q)
                        items   == UNION {{results[ty][i] : i \in DOMAIN results[ty]} : ty \in DOMAIN results}
                    IN
                    /\ \A x \in items \union {Item(q, e, data[e]) : e \in found} :
                         Occurrences(x, results) = Cardinality({e \in found : Item(q, e, data[e]) = x})
                    /\ Count(q) = Cardinality(found)
                    /\ IsEmpty(q) <=> found = {}
                    /\ AnyRow(q) <=> found # {}
                    /\ \A e \in Entities :
                         /\ Fetch(q, e) = IF e \in matched THEN <<Item(q, e, data[e])>> ELSE <<>>
                         /\ ContainsId(q, e) <=> e \in matched
  BY DEF QueriesAgree
<1>1. \A x : Occurrences(x, QueryIter(q)) = Cardinality({e \in Found(q) : Item(q, e, Data[e]) = x})
  BY ItemsHold
<1>2. \A e \in Entities :
        /\ Fetch(q, e) = IF e \in {y \in Live : Matches(q, Data[y])} THEN <<Item(q, e, Data[e])>> ELSE <<>>
        /\ ContainsId(q, e) <=> e \in {y \in Live : Matches(q, Data[y])}
  BY FetchHolds
<1> QED
  BY <1>1, <1>2, CountHolds, EmptyHolds DEF Found

(***************************************************************************)
(* However entities have moved between tables, every way to ask a query    *)
(* shows the entities as they are, and nothing else.                       *)
(***************************************************************************)
THEOREM QueriesShowTheWorld == Careful => (Spec => []QueriesAgree)
<1> SUFFICES ASSUME Careful PROVE Spec => []QueriesAgree
  OBVIOUS
<1> QED
  BY Invariant, AgreeHolds, PTL

-----------------------------------------------------------------------------
(***************************************************************************)
(* Borrows: whatever a system iterates over, also by subset, it declared.  *)
(***************************************************************************)
LEMMA DerivedDeclared ==
  ASSUME NEW s, NEW q \in Derived(s)
  PROVE  /\ TypesMut(q) \subseteq ComponentsMut(s)
         /\ TypesConst(q) \subseteq ComponentsMut(s) \union ComponentsConst(s)
<1>1. ASSUME NEW i \in DOMAIN s
      PROVE  /\ TypesMut(s[i]) \subseteq ComponentsMut(s)
             /\ TypesConst(s[i]) \subseteq ComponentsMut(s) \union ComponentsConst(s)
  <2>1. TypesMut(s[i]) \subseteq ComponentsMut(s)
    BY DEF ComponentsMut
  <2> DEFINE shared == UNION {TypesConst(s[j]) : j \in DOMAIN s}
  <2>2. TypesConst(s[i]) \subseteq shared
    OBVIOUS
  <2>3. ComponentsConst(s) = shared \ ComponentsMut(s)
    BY DEF ComponentsConst
  <2> HIDE DEF shared
  <2> QED
    BY <2>1, <2>2, <2>3
<1>2. PICK i \in DOMAIN s : q = s[i] \/ Subset(s[i], q)
  BY DEF Derived
<1> QED
  BY <1>1, <1>2 DEF Subset

LEMMA BorrowedDeclared ==
  ASSUME NEW q, NEW ty
  PROVE  /\ Borrowed(q, ty, {"mut", "opt_mut"}) \subseteq TypesMut(q)
         /\ Borrowed(q, ty, {"ref", "mut", "opt", "opt_mut"}) \subseteq TypesMut(q) \union TypesConst(q)
BY DEF Borrowed, TypesMut, TypesConst

LEMMA UnseenHolds == WritesUnseen
<1> SUFFICES ASSUME NEW meet \in MayMeet, NEW ty
             PROVE  Borrowed(meet[1], ty, {"mut", "opt_mut"})
                      \intersect Borrowed(meet[2], ty, {"ref", "mut", "opt", "opt_mut"}) = {}
  BY DEF WritesUnseen
<1>1. PICK p \in Systems \X Systems :
        Disjoint(p[1], p[2]) /\ meet \in Derived(p[1]) \X Derived(p[2])
  BY DEF MayMeet
<1>2. meet[1] \in Derived(p[1]) /\ meet[2] \in Derived(p[2])
  BY <1>1
<1>3. ComponentsMut(p[1]) \intersect (ComponentsMut(p[2]) \union ComponentsConst(p[2])) = {}
  BY <1>1 DEF Disjoint
<1>4. Borrowed(meet[1], ty, {"mut", "opt_mut"}) \subseteq ComponentsMut(p[1])
  BY <1>2, DerivedDeclared, BorrowedDeclared
<1>5. Borrowed(meet[2], ty, {"ref", "mut", "opt", "opt_mut"})
        \subseteq ComponentsMut(p[2]) \union ComponentsConst(p[2])
  BY <1>2, DerivedDeclared, BorrowedDeclared
<1> QED
  BY <1>3, <1>4, <1>5

(***************************************************************************)
(* Any two parameters that are admitted together, of any systems: what one *)
(* may write the other never sees.                                         *)
(***************************************************************************)
THEOREM AdmittedQueriesDoNotMeet == Spec => []WritesUnseen
BY UnseenHolds, PTL

=============================================================================
