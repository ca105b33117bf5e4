--------------------------- MODULE CommandsProofs ---------------------------
(***************************************************************************)
(* Proofs about Commands, for any number of systems, ids and commands:     *)
(* each reserved id has one Init on its way, a stage finds no commands of  *)
(* the one before, commands leave the buffers all at once, resources       *)
(* change after entities, and a batch that the sort leaves its order does  *)
(* what its commands do one after the other.                               *)
(***************************************************************************)
EXTENDS Commands, FunctionTheorems, FiniteSetTheorems, WellFoundedInduction,
        SequenceTheorems, TLAPS

(***************************************************************************)
(* Where the Inits of an id are.                                           *)
(***************************************************************************)
InBuffer(e, b, i) == b \in Buffers /\ i \in DOMAIN buffers[b] /\ IsInit(buffers[b][i], e)

InBatch(e, i) == i \in DOMAIN batch /\ IsInit(batch[i], e)

BuffersEmpty == \A b \in Buffers : buffers[b] = <<>>

(***************************************************************************)
(* The inductive invariant.                                                *)
(***************************************************************************)
\* What TypeOK leaves open: that the variables are sequences and records.
Sequences ==
  /\ buffers \in Seq(Seq(Payloads))
  /\ batch \in Seq(Payloads)
  /\ applying => issued \in [commands : Seq(Payloads), world : Worlds]

\* What the world does, and what it has left then.
Phases ==
  /\ ~applying => batch = <<>>
  /\ mode = "idle" => left = {}
  /\ inside => mode \in {"systems", "applying"}
  /\ applying => writer = 0 /\ BuffersEmpty /\ (inside \/ left = {})
  /\ mode = "idle" /\ writer = 0 => BuffersEmpty

\* Inits are of reserved ids, of each there is one.
OneInitOf(e) ==
  /\ \A b, i : InBuffer(e, b, i) => world.status[e] = "reserved"
  /\ \A i : InBatch(e, i) => world.status[e] = "reserved"
  /\ \A b, i, c, j : InBuffer(e, b, i) /\ InBuffer(e, c, j) => b = c /\ i = j
  /\ \A i, j : InBatch(e, i) /\ InBatch(e, j) => i = j
  /\ \A b, i, j : ~(InBuffer(e, b, i) /\ InBatch(e, j))
  /\ world.status[e] = "reserved" =>
       (\E b, i : InBuffer(e, b, i)) \/ (\E i : InBatch(e, i))

OneInit == \A e \in Ids : OneInitOf(e)

BatchInOrder == InOrder(batch)

IInv == TypeOK /\ Sequences /\ Phases /\ OneInit /\ BatchInOrder

-----------------------------------------------------------------------------
(***************************************************************************)
(* Induction over numbers, by minimal elements.                            *)
(***************************************************************************)
LEMMA SmallestNumber ==
  ASSUME NEW T \in SUBSET Nat, T # {}
  PROVE  \E x \in T : \A y \in T : x <= y
<1> DEFINE U == {1..n : n \in T}
<1>1. U \subseteq FiniteSubsetsOf(Nat)
  <2>1. \A n \in T : 1..n \in SUBSET Nat /\ IsFiniteSet(1..n)
    BY FS_Interval
  <2> QED
    BY <2>1 DEF FiniteSubsetsOf
<1>2. U # {}
  OBVIOUS
<1>3. PICK u \in U : \A v \in U : <<v, u>> \notin StrictSubsetOrdering(Nat)
  <2> HIDE DEF U
  <2> QED
    BY <1>1, <1>2, FS_StrictSubsetOrderingWellFounded, WFMin
<1>4. \A v \in U : v \subseteq u => v = u
  BY <1>1, <1>3 DEF StrictSubsetOrdering, FiniteSubsetsOf
<1>5. PICK x \in T : u = 1..x
  OBVIOUS
<1>6. ASSUME NEW y \in T, y < x PROVE FALSE
  <2>1. 1..y \subseteq 1..x /\ x \in 1..x /\ x \notin 1..y
    BY <1>6
  <2> QED
    BY <2>1, <1>4, <1>5
<1> QED
  BY <1>6

\* T are the numbers up to n of which a statement is false.
LEMMA NoneFalse ==
  ASSUME NEW n \in Nat, NEW T \in SUBSET (0..n), 0 \notin T,
         \A k \in 0..n : k + 1 \in T => k \in T
  PROVE  T = {}
<1> SUFFICES ASSUME T # {} PROVE FALSE
  OBVIOUS
<1>1. PICK x \in T : \A y \in T : x <= y
  BY SmallestNumber
<1>2. x \in 1..n /\ x - 1 \in 0..n /\ (x - 1) + 1 = x
  OBVIOUS
<1> QED
  BY <1>1, <1>2

-----------------------------------------------------------------------------
(***************************************************************************)
(* Buffers laid end to end: each place of the whole is one of a buffer.    *)
(***************************************************************************)
IsFlat(ss, f) ==
  f = [i \in 1..Len(ss) |-> IF i = 1 THEN ss[i] ELSE f[i - 1] \o ss[i]]

\* Place i of whole is place col[i] of buffer row[i], one of the first n.
Laid(whole, ss, n, row, col) ==
  /\ row \in [DOMAIN whole -> 1..n]
  /\ \A i \in DOMAIN whole : col[i] \in DOMAIN ss[row[i]] /\ whole[i] = ss[row[i]][col[i]]
  /\ \A i, j \in DOMAIN whole : row[i] = row[j] /\ col[i] = col[j] => i = j
  /\ \A r \in 1..n : \A c \in DOMAIN ss[r] : \E i \in DOMAIN whole : row[i] = r /\ col[i] = c

LEMMA FlattenIsFlat ==
  ASSUME NEW X, NEW ss \in Seq(Seq(X)), ss # <<>>
  PROVE  \E f \in [1..Len(ss) -> Seq(X)] : IsFlat(ss, f) /\ FlattenSeq(ss) = f[Len(ss)]
<1> DEFINE n == Len(ss)
           Upto(k, f) == /\ f \in [1..k -> Seq(X)]
                         /\ \A i \in 1..k : f[i] = IF i = 1 THEN ss[i] ELSE f[i - 1] \o ss[i]
           T == {k \in 0..n : ~\E f : Upto(k, f)}
<1>1. n \in Nat /\ n # 0 /\ \A i \in 1..n : ss[i] \in Seq(X)
  BY EmptySeq
<1>2. 0 \notin T
  <2>1. Upto(0, [i \in 1..0 |-> <<>>])
    OBVIOUS
  <2> QED
    BY <2>1
<1>3. ASSUME NEW k \in 0..n, k + 1 \in T PROVE k \in T
  <2> SUFFICES ASSUME NEW f, Upto(k, f) PROVE FALSE
    OBVIOUS
  <2>1. k + 1 \in 1..n
    BY <1>1, <1>3
  <2> DEFINE g == [i \in 1..(k + 1) |-> IF i = k + 1
                                          THEN (IF i = 1 THEN ss[i] ELSE f[i - 1] \o ss[i])
                                          ELSE f[i]]
  <2>2. \A i \in 1..(k + 1) : i \in 1..n /\ (i = k + 1 \/ i \in 1..k)
                              /\ (i # 1 => i - 1 \in 1..k /\ i - 1 \in 1..(k + 1))
    BY <2>1
  <2>3. ASSUME NEW i \in 1..(k + 1)
        PROVE  g[i] \in Seq(X) /\ g[i] = IF i = 1 THEN ss[i] ELSE g[i - 1] \o ss[i]
    <3>1. i # 1 => g[i - 1] = f[i - 1] /\ f[i - 1] \in Seq(X)
      BY <2>2
    <3>2. CASE i = k + 1
      <4>1. g[i] = IF i = 1 THEN ss[i] ELSE f[i - 1] \o ss[i]
        BY <3>2
      <4>2. ss[i] \in Seq(X)
        BY <1>1, <2>2
      <4> HIDE DEF g
      <4>3. i # 1 => f[i - 1] \o ss[i] \in Seq(X)
        BY <3>1, <4>2, ConcatProperties
      <4> QED
        BY <3>1, <4>1, <4>2, <4>3
    <3>3. CASE i # k + 1
      <4>1. i \in 1..k /\ g[i] = f[i]
        BY <2>2, <3>3
      <4> HIDE DEF g
      <4> QED
        BY <3>1, <4>1
    <3> QED
      BY <3>2, <3>3
  <2>4. Upto(k + 1, g)
    <3>1. g \in [1..(k + 1) -> Seq(X)]
      BY <2>3
    <3> HIDE DEF g
    <3> QED
      BY <2>3, <3>1
  <2> HIDE DEF Upto
  <2> QED
    BY <1>3, <2>4
<1>4. T = {}
  <2>1. T \in SUBSET (0..n)
    OBVIOUS
  <2> HIDE DEF T
  <2> QED
    BY <1>1, <1>2, <1>3, <2>1, NoneFalse
<1>5. PICK f : Upto(n, f)
  <2> HIDE DEF Upto
  <2> QED
    BY <1>1, <1>4
<1>6. IsFlat(ss, f)
  BY <1>5 DEF IsFlat
<1> DEFINE flatten == CHOOSE h : IsFlat(ss, h)
<1>7. IsFlat(ss, flatten)
  BY <1>6
<1>8. FlattenSeq(ss) = flatten[n]
  BY <1>1 DEF FlattenSeq, IsFlat
<1> HIDE DEF flatten
<1>9. \A i \in 1..n : flatten[i] = IF i = 1 THEN ss[i] ELSE flatten[i - 1] \o ss[i]
  BY <1>7 DEF IsFlat
<1>10. flatten \in [1..n -> Seq(X)]
  <2> DEFINE V == {k \in 0..n : k # 0 /\ flatten[k] \notin Seq(X)}
  <2>1. ASSUME NEW k \in 0..n, k + 1 \in V PROVE k \in V
    <3>1. k + 1 \in 1..n /\ flatten[k + 1] \notin Seq(X) /\ (k + 1) - 1 = k
      BY <2>1
    <3>2. flatten[k + 1] = IF k + 1 = 1 THEN ss[k + 1] ELSE flatten[k] \o ss[k + 1]
      BY <1>9, <3>1
    <3>3. ss[k + 1] \in Seq(X)
      BY <1>1, <3>1
    <3>4. k + 1 # 1
      <4> HIDE DEF V
      <4> QED
        BY <3>1, <3>2, <3>3
    <3>5. flatten[k + 1] = flatten[k] \o ss[k + 1]
      BY <3>2, <3>4
    <3>6. k # 0
      BY <3>4
    <3> QED
      BY <3>1, <3>3, <3>5, <3>6, ConcatProperties
  <2>2. V = {}
    <3>1. V \in SUBSET (0..n) /\ 0 \notin V
      OBVIOUS
    <3> HIDE DEF V
    <3> QED
      BY <1>1, <2>1, <3>1, NoneFalse
  <2>3. ASSUME NEW i \in 1..n PROVE flatten[i] \in Seq(X)
    <3>1. i \in 0..n /\ i # 0
      BY <1>1
    <3>2. i \notin V
      <4> HIDE DEF V
      <4> QED
        BY <2>2
    <3> HIDE DEF n
    <3> QED
      BY <3>1, <3>2
  <2>4. flatten = [i \in 1..n |-> flatten[i]]
    BY <1>7 DEF IsFlat
  <2> QED
    BY <2>3, <2>4
<1> QED
  BY <1>7, <1>8, <1>10

LEMMA LaidNext ==
  ASSUME NEW X, NEW ss \in Seq(Seq(X)), NEW n \in 0..(Len(ss) - 1), NEW whole \in Seq(X),
         NEW row, NEW col, Laid(whole, ss, n, row, col)
  PROVE  \E row2, col2 : Laid(whole \o ss[n + 1], ss, n + 1, row2, col2)
<1> DEFINE last == ss[n + 1]
           both == whole \o last
           m == Len(whole)
           row2 == [i \in 1..(m + Len(last)) |-> IF i <= m THEN row[i] ELSE n + 1]
           col2 == [i \in 1..(m + Len(last)) |-> IF i <= m THEN col[i] ELSE i - m]
<1>1. n \in Nat /\ n + 1 \in 1..Len(ss) /\ last \in Seq(X)
  OBVIOUS
<1>2. /\ m \in Nat /\ Len(last) \in Nat /\ DOMAIN whole = 1..m /\ DOMAIN last = 1..Len(last)
      /\ DOMAIN both = 1..(m + Len(last))
      /\ \A i \in DOMAIN both : both[i] = IF i <= m THEN whole[i] ELSE last[i - m]
  BY <1>1
<1>3. \A i \in DOMAIN both : \/ i \in DOMAIN whole /\ i <= m
                             \/ i - m \in DOMAIN last /\ ~(i <= m) /\ i \in Nat
  BY <1>2
<1>4. /\ \A i \in DOMAIN whole : i \in DOMAIN both /\ i <= m
      /\ \A c \in DOMAIN last : c + m \in DOMAIN both /\ ~(c + m <= m) /\ (c + m) - m = c
  BY <1>2
<1>5. \A i \in DOMAIN both : /\ i <= m => row2[i] = row[i] /\ col2[i] = col[i]
                             /\ ~(i <= m) => row2[i] = n + 1 /\ col2[i] = i - m
  BY <1>2
<1>6. \A i \in DOMAIN whole : row[i] \in 1..n /\ row[i] # n + 1 /\ row[i] \in 1..(n + 1)
  BY <1>1 DEF Laid
<1>7. DOMAIN row2 = DOMAIN both
  BY <1>2
<1> HIDE DEF row2, col2, both, m
<1>8. row2 \in [DOMAIN both -> 1..(n + 1)]
  <2>1. row2 = [i \in DOMAIN both |-> row2[i]]
    BY <1>7 DEF row2
  <2>2. \A i \in DOMAIN both : row2[i] \in 1..(n + 1)
    BY <1>1, <1>3, <1>5, <1>6
  <2> QED
    BY <2>1, <2>2
<1>9. ASSUME NEW i \in DOMAIN both
      PROVE  col2[i] \in DOMAIN ss[row2[i]] /\ both[i] = ss[row2[i]][col2[i]]
  <2>1. CASE i \in DOMAIN whole /\ i <= m
    BY <1>2, <1>5, <2>1 DEF Laid
  <2>2. CASE i - m \in DOMAIN last /\ ~(i <= m)
    BY <1>2, <1>5, <2>2
  <2> QED
    BY <1>3, <2>1, <2>2
<1>10. ASSUME NEW i \in DOMAIN both, NEW j \in DOMAIN both, row2[i] = row2[j], col2[i] = col2[j]
       PROVE  i = j
  <2>1. CASE i \in DOMAIN whole /\ i <= m /\ j \in DOMAIN whole /\ j <= m
    BY <1>5, <1>10, <2>1 DEF Laid
  <2>2. CASE ~(i <= m) /\ ~(j <= m) /\ i \in Nat /\ j \in Nat
    <3>1. i - m = j - m
      BY <1>5, <1>10, <2>2
    <3> QED
      BY <1>2, <2>2, <3>1
  <2> QED
    BY <1>3, <1>5, <1>6, <1>10, <2>1, <2>2
<1>11. ASSUME NEW r \in 1..(n + 1), NEW c \in DOMAIN ss[r]
       PROVE  \E i \in DOMAIN both : row2[i] = r /\ col2[i] = c
  <2>1. CASE r = n + 1
    <3>1. row2[c + m] = n + 1 /\ col2[c + m] = c /\ c + m \in DOMAIN both
      BY <1>4, <1>5, <2>1
    <3> QED
      BY <2>1, <3>1
  <2>2. CASE r # n + 1
    <3>1. r \in 1..n
      BY <1>1, <2>2
    <3>2. PICK i \in DOMAIN whole : row[i] = r /\ col[i] = c
      BY <3>1 DEF Laid
    <3> QED
      BY <1>4, <1>5, <3>2
  <2> QED
    BY <2>1, <2>2
<1>12. Laid(both, ss, n + 1, row2, col2)
  BY <1>8, <1>9, <1>10, <1>11 DEF Laid
<1> QED
  BY <1>12 DEF both

\* All that is used of FlattenSeq.
LEMMA FlattenPlaces ==
  ASSUME NEW X, NEW ss \in Seq(Seq(X))
  PROVE  /\ FlattenSeq(ss) \in Seq(X)
         /\ \E row, col : Laid(FlattenSeq(ss), ss, Len(ss), row, col)
<1>1. CASE ss = <<>>
  <2>1. FlattenSeq(ss) = <<>> /\ Len(ss) = 0
    BY <1>1 DEF FlattenSeq
  <2>2. Laid(<<>>, ss, 0, <<>>, <<>>)
    BY DEF Laid
  <2> QED
    BY <2>1, <2>2, EmptySeq
<1>2. CASE ss # <<>>
  <2> DEFINE n == Len(ss)
  <2>1. PICK f \in [1..n -> Seq(X)] : IsFlat(ss, f) /\ FlattenSeq(ss) = f[n]
    BY <1>2, FlattenIsFlat
  <2> DEFINE whole(k) == IF k = 0 THEN <<>> ELSE f[k]
             T == {k \in 0..n : ~\E row, col : Laid(whole(k), ss, k, row, col)}
  <2>2. n \in Nat /\ n # 0
    BY <1>2, EmptySeq
  <2>3. 0 \notin T
    <3>1. Laid(<<>>, ss, 0, <<>>, <<>>)
      BY DEF Laid
    <3> QED
      BY <3>1
  <2>4. ASSUME NEW k \in 0..n, k + 1 \in T PROVE k \in T
    <3> SUFFICES ASSUME NEW row, NEW col, Laid(whole(k), ss, k, row, col) PROVE FALSE
      OBVIOUS
    <3>1. k + 1 \in 1..n /\ (k + 1) - 1 = k /\ k \in 0..(Len(ss) - 1)
      BY <2>2, <2>4
    <3>2. whole(k) \in Seq(X)
      <4>1. k = 0 \/ k \in 1..n
        OBVIOUS
      <4> QED
        BY <2>1, <4>1, EmptySeq
    <3>3. whole(k + 1) = whole(k) \o ss[k + 1]
      <4>1. f[k + 1] = IF k + 1 = 1 THEN ss[k + 1] ELSE f[k] \o ss[k + 1]
        BY <2>1, <3>1 DEF IsFlat
      <4>2. ss[k + 1] \in Seq(X)
        BY <3>1
      <4>3. CASE k = 0
        BY <4>1, <4>2, <4>3, ConcatEmptySeq
      <4>4. CASE k # 0
        <5>1. k + 1 # 1 /\ k + 1 # 0
          BY <4>4
        <5> QED
          BY <4>1, <4>4, <5>1
      <4> QED
        BY <4>3, <4>4
    <3> HIDE DEF whole
    <3>4. \E row2, col2 : Laid(whole(k + 1), ss, k + 1, row2, col2)
      BY <3>1, <3>2, <3>3, LaidNext
    <3> QED
      BY <2>4, <3>4
  <2>5. T = {}
    <3>1. T \in SUBSET (0..n)
      OBVIOUS
    <3> HIDE DEF T
    <3> QED
      BY <2>2, <2>3, <2>4, <3>1, NoneFalse
  <2>6. \E row, col : Laid(whole(n), ss, n, row, col)
    <3>1. n \in 0..n
      BY <2>2
    <3> HIDE DEF whole, n
    <3>2. \A k \in 0..n : \E row, col : Laid(whole(k), ss, k, row, col)
      BY <2>5
    <3> QED
      BY <3>1, <3>2
  <2> QED
    BY <2>1, <2>2, <2>6
<1> QED
  BY <1>1, <1>2

\* Empty buffers laid end to end are empty, and the other way round.
LEMMA FlattenEmpty ==
  ASSUME NEW X, NEW ss \in Seq(Seq(X))
  PROVE  FlattenSeq(ss) = <<>> <=> \A b \in DOMAIN ss : ss[b] = <<>>
<1> DEFINE whole == FlattenSeq(ss)
<1>1. PICK row, col : Laid(whole, ss, Len(ss), row, col)
  BY FlattenPlaces
<1>2. whole \in Seq(X) /\ DOMAIN ss = 1..Len(ss) /\ \A b \in DOMAIN ss : ss[b] \in Seq(X)
  BY FlattenPlaces
<1> HIDE DEF whole
<1>3. whole = <<>> <=> DOMAIN whole = {}
  BY <1>2
<1>4. ASSUME NEW b \in DOMAIN ss PROVE ss[b] = <<>> <=> DOMAIN ss[b] = {}
  <2>1. ss[b] \in Seq(X)
    BY <1>2
  <2> QED
    BY <2>1
<1> QED
  BY <1>1, <1>2, <1>3, <1>4 DEF Laid, whole

\* With more places in some buffers, the whole does not get shorter.
LEMMA FlattenGrows ==
  ASSUME NEW X, NEW ss \in Seq(Seq(X)), NEW tt \in Seq(Seq(X)), Len(ss) <= Len(tt),
         \A b \in DOMAIN ss : DOMAIN ss[b] \subseteq DOMAIN tt[b]
  PROVE  Len(FlattenSeq(ss)) <= Len(FlattenSeq(tt))
<1> DEFINE F == FlattenSeq(ss)
           G == FlattenSeq(tt)
<1>1. PICK row, col : Laid(F, ss, Len(ss), row, col)
  BY FlattenPlaces
<1>2. PICK row2, col2 : Laid(G, tt, Len(tt), row2, col2)
  BY FlattenPlaces
<1>3. F \in Seq(X) /\ G \in Seq(X)
  BY FlattenPlaces
<1> HIDE DEF F, G
<1>4. /\ Len(F) \in Nat /\ Len(G) \in Nat /\ DOMAIN F = 1..Len(F) /\ DOMAIN G = 1..Len(G)
  BY <1>3
<1>5. \A r \in 1..Len(ss) : r \in 1..Len(tt) /\ r \in DOMAIN ss
  OBVIOUS
<1>6. ASSUME NEW i \in DOMAIN F
      PROVE  \E j \in DOMAIN G : row2[j] = row[i] /\ col2[j] = col[i]
  <2>1. row[i] \in 1..Len(ss) /\ col[i] \in DOMAIN ss[row[i]]
    BY <1>1 DEF Laid
  <2>2. row[i] \in 1..Len(tt) /\ col[i] \in DOMAIN tt[row[i]]
    BY <1>5, <2>1
  <2> QED
    BY <1>2, <2>2 DEF Laid
<1> DEFINE at == [i \in 1..Len(F) |-> CHOOSE j \in DOMAIN G : row2[j] = row[i] /\ col2[j] = col[i]]
<1>7. \A i \in 1..Len(F) : at[i] \in 1..Len(G) /\ row2[at[i]] = row[i] /\ col2[at[i]] = col[i]
  BY <1>4, <1>6
<1>8. at \in Injection(1..Len(F), 1..Len(G))
  <2>1. at \in [1..Len(F) -> 1..Len(G)]
    BY <1>7
  <2>2. ASSUME NEW i \in 1..Len(F), NEW j \in 1..Len(F), at[i] = at[j] PROVE i = j
    <3> HIDE DEF at
    <3>1. row[i] = row[j] /\ col[i] = col[j]
      BY <1>7, <2>2
    <3> QED
      BY <1>1, <1>4, <3>1 DEF Laid
  <2> HIDE DEF at
  <2> QED
    BY <2>1, <2>2 DEF Injection, IsInjective
<1>9. ExistsInjection(1..Len(F), 1..Len(G))
  BY <1>8 DEF ExistsInjection
<1> QED
  BY <1>4, <1>9, Fun_NatInjLeq DEF F, G

-----------------------------------------------------------------------------
(***************************************************************************)
(* A sort puts each command at one place.                                  *)
(***************************************************************************)
\* p puts each of n places at one of them.
Shuffles(n, p) ==
  /\ p \in [1..n -> 1..n]
  /\ \A i, j \in 1..n : p[i] = p[j] => i = j
  /\ \A k \in 1..n : \E i \in 1..n : p[i] = k

LEMMA OrdersShuffle ==
  ASSUME NEW n \in Nat, NEW p \in SetToSeqs(1..n)
  PROVE  Shuffles(n, p)
<1>1. IsFiniteSet(1..n) /\ Cardinality(1..n) = n
  BY FS_Interval
<1>2. p \in [1..n -> 1..n] /\ \A i, j \in 1..n : p[i] = p[j] => i = j
  BY <1>1 DEF SetToSeqs
<1>3. ASSUME NEW k \in 1..n, ~\E i \in 1..n : p[i] = k PROVE FALSE
  <2> DEFINE S == (1..n) \ {k}
  <2>1. IsFiniteSet(S) /\ Cardinality(S) = n - 1
    BY <1>1, FS_RemoveElement
  <2>2. p \in [1..n -> S]
    BY <1>2, <1>3
  <2> HIDE DEF S
  <2>3. \E i, j \in 1..n : i # j /\ p[i] = p[j]
    BY <1>1, <2>1, <2>2, FS_PigeonHole
  <2> QED
    BY <1>2, <2>3
<1> QED
  BY <1>2, <1>3 DEF Shuffles

LEMMA SortFacts ==
  ASSUME NEW X, NEW cs \in Seq(X), NEW sorted \in SortCommands(cs)
  PROVE  /\ sorted \in Seq(X) /\ Len(sorted) = Len(cs) /\ InOrder(sorted)
         /\ \E p : /\ Shuffles(Len(cs), p)
                   /\ \A i \in 1..Len(cs) : sorted[i] = cs[p[i]]
                   /\ KeepsEqual(cs) => KeepsPlaces(cs, p)
<1>1. PICK p \in SetToSeqs(DOMAIN cs) :
        /\ sorted = Permuted(cs, p) /\ InOrder(Permuted(cs, p))
        /\ KeepsEqual(cs) => KeepsPlaces(cs, p)
  BY DEF SortCommands, Sorts
<1>2. Len(cs) \in Nat /\ DOMAIN cs = 1..Len(cs) /\ \A i \in 1..Len(cs) : cs[i] \in X
  BY ElementOfSeq, LenProperties
<1>3. Shuffles(Len(cs), p)
  BY <1>1, <1>2, OrdersShuffle
<1>4. sorted = [i \in 1..Len(cs) |-> cs[p[i]]]
  BY <1>1, <1>2 DEF Permuted
<1>5. \A i \in 1..Len(cs) : p[i] \in 1..Len(cs)
  BY <1>3 DEF Shuffles
<1>6. sorted \in Seq(X) /\ Len(sorted) = Len(cs)
  BY <1>2, <1>4, <1>5, IsASeq
<1> QED
  BY <1>1, <1>3, <1>4, <1>6

-----------------------------------------------------------------------------
(***************************************************************************)
(* What one command does.                                                  *)
(***************************************************************************)
\* Only entities that exist have components.
DataLive(w) == \A e \in Ids : w.data[e] # None => IsLive(w, e)

LEMMA PayloadKinds ==
  ASSUME NEW c \in Payloads
  PROVE  \/ c.type = "entity" /\ c.action \in {"fetch", "init", "insert_id"} /\ c.id \in Ids
            /\ c.value \in Data
         \/ c.type = "entity" /\ c.action = "insert" /\ c.value \in Data
         \/ c.type = "entity" /\ c.action = "delete" /\ c.id \in Ids
         \/ c.type = "entity" /\ c.action = "merge" /\ c.src \in Ids /\ c.dst \in Ids
         \/ c.type = "resource" /\ c.value \in Data
         \/ c.type = "reserve"
BY DEF Payloads, EntityCommands

LEMMA WithEntityFacts ==
  ASSUME NEW w \in Worlds, DataLive(w), NEW e \in Ids, NEW v \in Data
  PROVE  /\ WithEntity(w, e, v) \in Worlds /\ DataLive(WithEntity(w, e, v))
         /\ WithEntity(w, e, v).status = [w.status EXCEPT ![e] = "live"]
BY DEF WithEntity, Worlds, DataLive, IsLive

LEMMA WithoutEntityFacts ==
  ASSUME NEW w \in Worlds, NEW e \in Ids, \A f \in Ids \ {e} : w.data[f] # None => IsLive(w, f)
  PROVE  /\ WithoutEntity(w, e) \in Worlds /\ DataLive(WithoutEntity(w, e))
         /\ WithoutEntity(w, e).status = [w.status EXCEPT ![e] = "freed"]
<1>1. None \in Data
  BY DEF Data
<1> QED
  BY <1>1 DEF WithoutEntity, Worlds, DataLive, IsLive

LEMMA EffectFacts ==
  ASSUME NEW w \in Worlds, DataLive(w), NEW c \in Payloads, ~Fails(c, w)
  PROVE  /\ Effect(c, w) \in Worlds /\ DataLive(Effect(c, w))
         /\ \A e \in Ids : Effect(c, w).status[e] = "reserved" <=>
                             w.status[e] = "reserved" /\ ~IsInit(c, e)
<1>1. w.status \in [Ids -> {"unused", "reserved", "live", "freed", "leaked"}]
      /\ w.data \in [Ids -> Data]
  BY DEF Worlds
<1>2. CASE c.type = "entity" /\ c.action \in {"fetch", "init", "insert_id"} /\ c.id \in Ids
           /\ c.value \in Data
  <2> DEFINE v == ComponentAfter(c, w)
  <2>1. Effect(c, w) = WithEntity(w, c.id, v) /\ v \in Data
    BY <1>1, <1>2 DEF Effect, EntityEffect, ComponentAfter
  <2> HIDE DEF v
  <2>2. c.action # "init" => w.status[c.id] # "reserved"
    BY <1>2 DEF Fails, IsLive
  <2>3. /\ WithEntity(w, c.id, v) \in Worlds /\ DataLive(WithEntity(w, c.id, v))
        /\ WithEntity(w, c.id, v).status = [w.status EXCEPT ![c.id] = "live"]
    BY <1>2, <2>1, WithEntityFacts
  <2>4. \A e \in Ids : Effect(c, w).status[e] = IF e = c.id THEN "live" ELSE w.status[e]
    BY <1>1, <2>1, <2>3
  <2>5. \A e \in Ids : IsInit(c, e) <=> e = c.id /\ c.action = "init"
    BY <1>2 DEF IsInit
  <2> QED
    BY <2>1, <2>2, <2>3, <2>4, <2>5
<1>3. CASE c.type = "entity" /\ c.action = "insert"
  BY <1>3 DEF Effect, EntityEffect, IsInit
<1>4. CASE c.type = "entity" /\ c.action = "delete" /\ c.id \in Ids
  <2>1. CASE IsLive(w, c.id)
    <3>1. Effect(c, w) = WithoutEntity(w, c.id)
      BY <1>4, <2>1 DEF Effect, EntityEffect
    <3>2. /\ WithoutEntity(w, c.id) \in Worlds /\ DataLive(WithoutEntity(w, c.id))
          /\ WithoutEntity(w, c.id).status = [w.status EXCEPT ![c.id] = "freed"]
      BY <1>4, WithoutEntityFacts DEF DataLive
    <3>3. \A e \in Ids : Effect(c, w).status[e] = IF e = c.id THEN "freed" ELSE w.status[e]
      BY <1>1, <3>1, <3>2
    <3>4. \A e \in Ids : ~IsInit(c, e)
      BY <1>4 DEF IsInit
    <3> QED
      BY <2>1, <3>1, <3>2, <3>3, <3>4 DEF IsLive
  <2>2. CASE ~IsLive(w, c.id)
    BY <1>4, <2>2 DEF Effect, EntityEffect, IsInit
  <2> QED
    BY <2>1, <2>2
<1>5. CASE c.type = "entity" /\ c.action = "merge" /\ c.src \in Ids /\ c.dst \in Ids
  <2>1. CASE c.src = c.dst
    BY <1>5, <2>1 DEF Effect, EntityEffect, IsInit
  <2>2. CASE c.src # c.dst
    <3> DEFINE d == IF w.data[c.src] = None THEN w.data[c.dst] ELSE w.data[c.src]
               m == [w EXCEPT !.data[c.dst] = d]
    <3>1. w.status[c.src] = "live" /\ w.status[c.dst] = "live"
      BY <1>5, <2>2 DEF Fails, IsLive
    <3>2. Effect(c, w) = WithoutEntity(m, c.src)
      BY <1>5, <2>2 DEF Effect, EntityEffect
    <3>3. d \in Data
      BY <1>1, <1>5
    <3> HIDE DEF d
    <3>4. m \in Worlds /\ m.status = w.status
          /\ \A f \in Ids : m.data[f] # None => IsLive(m, f)
      BY <1>1, <1>5, <3>1, <3>3 DEF Worlds, DataLive, IsLive
    <3> HIDE DEF m
    <3>5. /\ WithoutEntity(m, c.src) \in Worlds /\ DataLive(WithoutEntity(m, c.src))
          /\ WithoutEntity(m, c.src).status = [m.status EXCEPT ![c.src] = "freed"]
      BY <1>5, <3>4, WithoutEntityFacts
    <3>6. \A e \in Ids : Effect(c, w).status[e] = IF e = c.src THEN "freed" ELSE w.status[e]
      BY <1>1, <3>2, <3>4, <3>5
    <3>7. \A e \in Ids : ~IsInit(c, e)
      BY <1>5 DEF IsInit
    <3> QED
      BY <3>1, <3>2, <3>5, <3>6, <3>7
  <2> QED
    BY <2>1, <2>2
<1>6. CASE c.type = "resource" /\ c.value \in Data
  BY <1>6 DEF Effect, IsInit, Worlds, DataLive, IsLive
<1>7. CASE c.type = "reserve"
  BY <1>7 DEF Effect, IsInit
<1> QED
  BY <1>2, <1>3, <1>4, <1>5, <1>6, <1>7, PayloadKinds

-----------------------------------------------------------------------------
(***************************************************************************)
(* The steps.                                                              *)
(***************************************************************************)
LEMMA ResizedFacts ==
  ASSUME NEW X, NEW bs \in Seq(Seq(X)), NEW n \in Nat
  PROVE  /\ Resized(bs, n) \in Seq(Seq(X))
         /\ Len(Resized(bs, n)) = IF Len(bs) < n THEN n ELSE Len(bs)
         /\ \A b \in DOMAIN Resized(bs, n) :
              Resized(bs, n)[b] = IF b \in DOMAIN bs THEN bs[b] ELSE <<>>
<1> DEFINE m == IF Len(bs) < n THEN n ELSE Len(bs)
           r == [b \in 1..m |-> IF b <= Len(bs) THEN bs[b] ELSE <<>>]
<1>1. Resized(bs, n) = r
  BY DEF Resized
<1>2. m \in Nat /\ Len(bs) \in Nat /\ DOMAIN bs = 1..Len(bs)
  OBVIOUS
<1>3. \A b \in 1..m : b <= Len(bs) <=> b \in DOMAIN bs
  BY <1>2
<1>4. \A b \in 1..m : r[b] \in Seq(X)
  BY <1>2, <1>3, EmptySeq, ElementOfSeq
<1> HIDE DEF m
<1>5. r \in Seq(Seq(X)) /\ Len(r) = m /\ DOMAIN r = 1..m
  BY <1>2, <1>4, IsASeq
<1>6. \A b \in 1..m : r[b] = IF b \in DOMAIN bs THEN bs[b] ELSE <<>>
  BY <1>3
<1> HIDE DEF r
<1> QED
  BY <1>1, <1>5, <1>6 DEF m

LEMMA BuffersTyped ==
  ASSUME NEW X, NEW bs \in Seq(Seq(X))
  PROVE  /\ Len(bs) \in Nat /\ DOMAIN bs = 1..Len(bs)
         /\ \A b \in DOMAIN bs : bs[b] \in Seq(X)
         /\ \A b \in DOMAIN bs : \A i \in DOMAIN bs[b] : bs[b][i] \in X
<1>1. Len(bs) \in Nat /\ DOMAIN bs = 1..Len(bs) /\ \A b \in DOMAIN bs : bs[b] \in Seq(X)
  OBVIOUS
<1>2. ASSUME NEW b \in DOMAIN bs, NEW i \in DOMAIN bs[b] PROVE bs[b][i] \in X
  <2>1. bs[b] \in Seq(X)
    BY <1>1
  <2> QED
    BY <2>1
<1> QED
  BY <1>1, <1>2

\* Steps that make no Init and remove none.
LEMMA SameInits ==
  ASSUME OneInit, world'.status = world.status,
         \A e \in Ids : \A b, i : InBuffer(e, b, i)' <=> InBuffer(e, b, i),
         \A e \in Ids : \A i : InBatch(e, i)' <=> InBatch(e, i)
  PROVE  OneInit'
BY DEF OneInit, OneInitOf

LEMMA InitHolds == Init => IInv
<1> SUFFICES ASSUME Init PROVE IInv
  OBVIOUS
<1>1. buffers = <<>> /\ batch = <<>> /\ Buffers = {} /\ DOMAIN batch = {}
  BY DEF Init, Buffers
<1>2. world \in Worlds /\ \A e \in Ids : world.data[e] = None /\ world.status[e] = "unused"
  BY DEF Init, Worlds, Data
<1>3. mode = "idle" /\ writer = 0 /\ left = {} /\ inside = FALSE
  BY DEF Init
<1>4. TypeOK
  BY <1>1, <1>2, <1>3 DEF TypeOK, Modes
<1>5. Sequences
  BY <1>1, <1>3, EmptySeq DEF Sequences, applying
<1>6. Phases
  BY <1>1, <1>3 DEF Phases, applying, BuffersEmpty
<1>7. OneInit
  BY <1>1, <1>2 DEF OneInit, OneInitOf, InBuffer, InBatch
<1>8. BatchInOrder
  BY <1>1 DEF BatchInOrder, InOrder
<1> QED
  BY <1>4, <1>5, <1>6, <1>7, <1>8 DEF IInv

\* Steps that take more buffers, empty ones.
LEMMA MoreBuffers ==
  ASSUME IInv, NEW n \in Nat, buffers' = Resized(buffers, n), batch' = batch, world' = world,
         issued' = issued, ~applying, ~applying'
  PROVE  /\ Sequences' /\ OneInit' /\ BatchInOrder'
         /\ Buffers \subseteq Buffers' /\ 1..n \subseteq Buffers'
         /\ BuffersEmpty => BuffersEmpty'
         /\ \A b \in Buffers' : \A i \in DOMAIN buffers'[b] : buffers'[b][i] \in Payloads
<1>1. buffers \in Seq(Seq(Payloads)) /\ batch \in Seq(Payloads)
  BY DEF IInv, Sequences
<1>2. /\ buffers' \in Seq(Seq(Payloads))
      /\ Len(buffers') = IF Len(buffers) < n THEN n ELSE Len(buffers)
      /\ \A b \in DOMAIN buffers' : buffers'[b] = IF b \in DOMAIN buffers THEN buffers[b] ELSE <<>>
  BY <1>1, ResizedFacts
<1>3. Len(buffers) \in Nat /\ DOMAIN buffers = 1..Len(buffers) /\ DOMAIN buffers' = 1..Len(buffers')
  BY <1>1, <1>2
<1>4. Buffers \subseteq Buffers' /\ 1..n \subseteq Buffers'
  BY <1>2, <1>3 DEF Buffers
<1>5. \A e : \A b, i : InBuffer(e, b, i)' <=> InBuffer(e, b, i)
  BY <1>2, <1>4 DEF InBuffer, Buffers
<1>6. \A e : \A i : InBatch(e, i)' <=> InBatch(e, i)
  BY DEF InBatch
<1>7. OneInit'
  BY <1>5, <1>6, SameInits DEF IInv
<1>8. Sequences'
  BY <1>1, <1>2 DEF Sequences
<1>9. BatchInOrder'
  BY DEF IInv, BatchInOrder
<1>10. BuffersEmpty => BuffersEmpty'
  BY <1>2 DEF BuffersEmpty, Buffers
<1>11. \A b \in Buffers' : \A i \in DOMAIN buffers'[b] : buffers'[b][i] \in Payloads
  BY <1>2, BuffersTyped DEF Buffers
<1> QED
  BY <1>4, <1>7, <1>8, <1>9, <1>10, <1>11

LEMMA EnsureCommandsKeeps == IInv /\ EnsureCommands => IInv'
<1> SUFFICES ASSUME IInv, EnsureCommands PROVE IInv'
  OBVIOUS
<1> USE DEF EnsureCommands
<1>1. ~applying /\ ~applying'
  BY DEF applying
<1>2. /\ Sequences' /\ OneInit' /\ BatchInOrder'
      /\ Buffers \subseteq Buffers'
      /\ \A b \in Buffers' : \A i \in DOMAIN buffers'[b] : buffers'[b][i] \in Payloads
  BY <1>1, MoreBuffers
<1>3. TypeOK'
  BY <1>2 DEF IInv, TypeOK, IsLive
<1>4. Phases'
  BY <1>1 DEF IInv, Phases
<1> QED
  BY <1>2, <1>3, <1>4 DEF IInv

LEMMA ExecuteStageKeeps ==
  ASSUME IInv, NEW n \in 0..MaxSystems, ExecuteStage(n)
  PROVE  IInv'
<1> USE DEF ExecuteStage
<1>1. ~applying /\ ~applying' /\ n \in Nat
  BY DEF applying
<1>2. /\ Sequences' /\ OneInit' /\ BatchInOrder'
      /\ Buffers \subseteq Buffers' /\ 1..n \subseteq Buffers'
      /\ \A b \in Buffers' : \A i \in DOMAIN buffers'[b] : buffers'[b][i] \in Payloads
  BY <1>1, MoreBuffers
<1>3. 1..n \subseteq 1..MaxSystems
  BY CommandsAssumption
<1>4. TypeOK'
  BY <1>2, <1>3 DEF IInv, TypeOK, IsLive, Modes
<1>5. Phases'
  BY <1>1 DEF IInv, Phases
<1> QED
  BY <1>2, <1>4, <1>5 DEF IInv

LEMMA RunInsideKeeps ==
  ASSUME IInv, NEW s \in left, RunInside(s)
  PROVE  IInv'
<1> USE DEF RunInside
<1>1. ~applying /\ ~applying'
  BY DEF applying
<1>2. /\ Sequences' /\ OneInit' /\ BatchInOrder'
      /\ Buffers \subseteq Buffers'
      /\ \A b \in Buffers' : \A i \in DOMAIN buffers'[b] : buffers'[b][i] \in Payloads
  BY <1>1, MoreBuffers
<1>3. TypeOK'
  BY <1>2 DEF IInv, TypeOK, IsLive
<1>4. Phases'
  BY <1>1 DEF IInv, Phases
<1> QED
  BY <1>2, <1>3, <1>4 DEF IInv

\* Steps that leave the commands and the world alone.
LEMMA CommandsStay ==
  ASSUME IInv, UNCHANGED <<world, buffers, batch, issued>>, ~applying, ~applying'
  PROVE  Sequences' /\ OneInit' /\ BatchInOrder' /\ Buffers' = Buffers
<1>1. Sequences'
  BY DEF IInv, Sequences
<1>2. OneInit'
  BY SameInits DEF IInv, InBuffer, InBatch, Buffers
<1>3. BatchInOrder' /\ Buffers' = Buffers
  BY DEF IInv, BatchInOrder, Buffers
<1> QED
  BY <1>1, <1>2, <1>3

LEMMA ConditionsKeep == IInv /\ (ConditionsHold \/ ConditionsFail) => IInv'
<1> SUFFICES ASSUME IInv, ConditionsHold \/ ConditionsFail PROVE IInv'
  OBVIOUS
<1> USE DEF ConditionsHold, ConditionsFail
<1>1. ~applying /\ ~applying' /\ mode' = "systems"
  BY DEF applying
<1>2. Sequences' /\ OneInit' /\ BatchInOrder' /\ Buffers' = Buffers
  BY <1>1, CommandsStay
<1>3. TypeOK'
  BY <1>2 DEF IInv, TypeOK, IsLive, Modes
<1>4. Phases'
  BY <1>1 DEF IInv, Phases
<1> QED
  BY <1>2, <1>3, <1>4 DEF IInv

LEMMA StartSystemKeeps ==
  ASSUME IInv, NEW s \in left, StartSystem(s)
  PROVE  IInv'
<1> USE DEF StartSystem
<1>1. ~applying /\ ~applying'
  BY DEF applying
<1>2. Sequences' /\ OneInit' /\ BatchInOrder' /\ Buffers' = Buffers
  BY <1>1, CommandsStay
<1>3. TypeOK'
  BY <1>2 DEF IInv, TypeOK, IsLive
<1>4. Phases'
  BY <1>1 DEF IInv, Phases
<1> QED
  BY <1>2, <1>3, <1>4 DEF IInv

LEMMA IssueKeeps ==
  ASSUME IInv, NEW c \in Written, Issue(c)
  PROVE  IInv'
<1> DEFINE old == buffers[writer]
           longer == Append(old, c)
<1>1. /\ buffers' = [buffers EXCEPT ![writer] = longer]
      /\ writer \in Buffers /\ UNCHANGED <<world, batch, issued, mode, writer, left, inside>>
  BY DEF Issue, running
<1>2. /\ buffers \in Seq(Seq(Payloads)) /\ old \in Seq(Payloads)
      /\ c \in Payloads /\ \A e \in Ids : ~IsInit(c, e)
  <2>1. buffers \in Seq(Seq(Payloads))
    BY DEF IInv, Sequences
  <2>2. c \in Payloads /\ \A e \in Ids : ~IsInit(c, e)
    BY WrittenAssumption DEF IsInit
  <2> QED
    BY <1>1, <2>1, <2>2, BuffersTyped DEF Buffers
<1>3. /\ longer \in Seq(Payloads) /\ Len(longer) = Len(old) + 1 /\ Len(old) \in Nat
      /\ DOMAIN longer = 1..(Len(old) + 1) /\ DOMAIN old = 1..Len(old)
      /\ \A i \in 1..Len(old) : longer[i] = old[i]
      /\ longer[Len(old) + 1] = c
  BY <1>2, AppendProperties
<1> HIDE DEF longer
<1>4. buffers' \in Seq(Seq(Payloads)) /\ Buffers' = Buffers
  BY <1>1, <1>2, <1>3, ExceptSeq DEF Buffers
<1>5. ASSUME NEW e \in Ids, NEW b, NEW i PROVE InBuffer(e, b, i)' <=> InBuffer(e, b, i)
  <2>1. CASE b \in Buffers /\ b = writer
    <3>1. buffers'[b] = longer
      BY <1>1, <2>1 DEF Buffers
    <3>2. i \in DOMAIN longer <=> i \in DOMAIN old \/ i = Len(old) + 1
      BY <1>3
    <3>3. Len(old) + 1 \notin DOMAIN old
      BY <1>3
    <3>4. \A k \in DOMAIN old : longer[k] = old[k]
      BY <1>3
    <3> QED
      BY <1>2, <1>3, <1>4, <2>1, <3>1, <3>2, <3>3, <3>4 DEF InBuffer
  <2>2. CASE b \in Buffers /\ b # writer
    <3>1. buffers'[b] = buffers[b]
      BY <1>1, <2>2 DEF Buffers
    <3> QED
      BY <1>4, <3>1 DEF InBuffer
  <2> QED
    BY <1>4, <2>1, <2>2 DEF InBuffer
<1>6. OneInit'
  BY <1>1, <1>5, SameInits DEF IInv, InBatch
<1>7. Sequences'
  BY <1>1, <1>4 DEF IInv, Sequences, applying
<1>8. \A b \in Buffers' : \A i \in DOMAIN buffers'[b] : buffers'[b][i] \in Payloads
  BY <1>4, BuffersTyped DEF Buffers
<1>9. TypeOK'
  BY <1>1, <1>4, <1>8 DEF IInv, TypeOK, IsLive
<1>10. ~applying /\ writer # 0
  <2>1. 0 \notin Buffers
    BY <1>2, BuffersTyped DEF Buffers
  <2> QED
    BY <1>1, <2>1 DEF IInv, Phases
<1>11. Phases'
  BY <1>1, <1>10 DEF IInv, Phases, applying
<1>12. BatchInOrder'
  BY <1>1 DEF IInv, BatchInOrder
<1> QED
  BY <1>6, <1>7, <1>9, <1>11, <1>12 DEF IInv

LEMMA ReserveIdKeeps ==
  ASSUME IInv, NEW e \in Ids, ReserveId(e)
  PROVE  IInv'
<1> DEFINE old == buffers[writer]
           n == Len(old)
           init == [type |-> "entity", action |-> "init", id |-> e, value |-> old[n].value]
           new == [old EXCEPT ![n] = init]
<1>1. /\ buffers' = [buffers EXCEPT ![writer] = new]
      /\ world' = [world EXCEPT !.status[e] = "reserved"]
      /\ writer \in Buffers /\ UNCHANGED <<batch, issued, mode, writer, left, inside>>
      /\ old # <<>> /\ old[n].type = "entity" /\ old[n].action = "insert"
      /\ world.status[e] = "unused"
  BY DEF ReserveId, CanReserve, running, Last, Buffers
<1>2. buffers \in Seq(Seq(Payloads)) /\ old \in Seq(Payloads) /\ world \in Worlds
  <2>1. buffers \in Seq(Seq(Payloads)) /\ world \in Worlds
    BY DEF IInv, Sequences, TypeOK
  <2> QED
    BY <1>1, <2>1, BuffersTyped DEF Buffers
<1>3. n \in Nat /\ n \in 1..n /\ DOMAIN old = 1..n
  BY <1>1, <1>2
<1>4. old[n] \in Payloads
  BY <1>2, <1>3
<1>5. old[n].value \in Data
  BY <1>1, <1>4, PayloadKinds
<1>6. init \in Payloads /\ IsInit(init, e) /\ \A f \in Ids : IsInit(init, f) => f = e
  BY <1>5 DEF Payloads, EntityCommands, IsInit
<1>7. \A f \in Ids : ~IsInit(old[n], f)
  BY <1>1 DEF IsInit
<1> HIDE DEF init
<1>8. /\ new \in Seq(Payloads) /\ DOMAIN new = DOMAIN old
      /\ \A i \in DOMAIN old : new[i] = IF i = n THEN init ELSE old[i]
  BY <1>2, <1>3, <1>6, ExceptSeq
<1> HIDE DEF new
<1>9. buffers' \in Seq(Seq(Payloads)) /\ Buffers' = Buffers
  BY <1>1, <1>2, <1>8, ExceptSeq DEF Buffers
<1>10. ASSUME NEW f \in Ids, NEW b, NEW i
       PROVE  InBuffer(f, b, i)' <=> InBuffer(f, b, i) \/ (f = e /\ b = writer /\ i = n)
  <2>1. CASE b \in Buffers /\ b = writer
    <3>1. buffers'[b] = new
      BY <1>1, <2>1 DEF Buffers
    <3> QED
      BY <1>3, <1>6, <1>7, <1>8, <1>9, <2>1, <3>1 DEF InBuffer
  <2>2. CASE b \in Buffers /\ b # writer
    <3>1. buffers'[b] = buffers[b]
      BY <1>1, <2>2 DEF Buffers
    <3> QED
      BY <1>9, <2>2, <3>1 DEF InBuffer
  <2> QED
    BY <1>1, <1>9, <2>1, <2>2 DEF InBuffer
<1>11. \A f \in Ids : \A i : InBatch(f, i)' <=> InBatch(f, i)
  BY <1>1 DEF InBatch
<1>12. \A f \in Ids : world'.status[f] = IF f = e THEN "reserved" ELSE world.status[f]
  BY <1>1, <1>2 DEF Worlds
<1>13. OneInit'
  <2>1. ASSUME NEW f \in Ids, f # e
        PROVE  /\ \A b, i : InBuffer(f, b, i)' <=> InBuffer(f, b, i)
               /\ \A i : InBatch(f, i)' <=> InBatch(f, i)
               /\ world'.status[f] = world.status[f]
    BY <1>10, <1>11, <1>12, <2>1
  <2>2. (\A b, i : ~InBuffer(e, b, i)) /\ (\A i : ~InBatch(e, i))
    BY <1>1 DEF IInv, OneInit, OneInitOf
  <2>3. /\ \A b, i : InBuffer(e, b, i)' <=> b = writer /\ i = n
        /\ \A i : ~InBatch(e, i)'
        /\ world'.status[e] = "reserved"
    BY <1>10, <1>11, <1>12, <2>2
  <2>4. OneInitOf(e)'
    <3> HIDE DEF n
    <3>1. \E b, i : InBuffer(e, b, i)'
      BY <2>3
    <3> QED
      BY <2>3, <3>1 DEF OneInitOf
  <2>5. ASSUME NEW f \in Ids, f # e PROVE OneInitOf(f)'
    <3>1. OneInitOf(f)
      BY DEF IInv, OneInit
    <3> QED
      BY <2>1, <2>5, <3>1 DEF OneInitOf
  <2> QED
    BY <2>4, <2>5 DEF OneInit
<1>14. Sequences'
  BY <1>1, <1>9 DEF IInv, Sequences, applying
<1>15. \A b \in Buffers' : \A i \in DOMAIN buffers'[b] : buffers'[b][i] \in Payloads
  BY <1>9, BuffersTyped DEF Buffers
<1>16. world' \in Worlds /\ \A f \in Ids : world'.data[f] # None => IsLive(world', f)
  <2>1. \A f \in Ids : world.data[f] # None => IsLive(world, f)
    BY DEF IInv, TypeOK
  <2>2. world' \in Worlds /\ world'.data = world.data
    BY <1>1, <1>2 DEF Worlds
  <2> QED
    BY <1>1, <1>12, <2>1, <2>2 DEF IsLive
<1>17. TypeOK'
  BY <1>1, <1>9, <1>15, <1>16 DEF IInv, TypeOK
<1>18. ~applying /\ writer # 0
  <2>1. 0 \notin Buffers
    BY <1>2, BuffersTyped DEF Buffers
  <2> QED
    BY <1>1, <2>1 DEF IInv, Phases
<1>19. Phases'
  BY <1>1, <1>18 DEF IInv, Phases, applying
<1>20. BatchInOrder'
  BY <1>1 DEF IInv, BatchInOrder
<1> QED
  BY <1>13, <1>14, <1>17, <1>19, <1>20 DEF IInv

LEMMA StartBatchKeeps == IInv /\ StartBatch => IInv'
<1> SUFFICES ASSUME IInv, StartBatch PROVE IInv'
  OBVIOUS
<1> DEFINE cs == FlattenSeq(buffers)
<1>1. /\ (mode = "systems" /\ (inside \/ left = {})) \/ mode = "idle"
      /\ mode' = "applying" /\ writer' = 0 /\ buffers' = [b \in Buffers |-> <<>>]
      /\ batch' \in SortCommands(cs) /\ issued' = [commands |-> cs, world |-> world]
      /\ UNCHANGED <<world, left, inside>>
  BY DEF StartBatch
<1>2. /\ buffers \in Seq(Seq(Payloads)) /\ world \in Worlds
      /\ Len(buffers) \in Nat /\ Buffers = 1..Len(buffers) /\ batch = <<>>
  <2>1. buffers \in Seq(Seq(Payloads)) /\ world \in Worlds /\ batch = <<>>
    BY <1>1 DEF IInv, Sequences, TypeOK, Phases, applying
  <2> QED
    BY <2>1, BuffersTyped DEF Buffers
<1>3. buffers' \in Seq(Seq(Payloads)) /\ Buffers' = Buffers /\ \A b \in Buffers' : buffers'[b] = <<>>
  <2>1. <<>> \in Seq(Payloads)
    BY EmptySeq
  <2> QED
    BY <1>1, <1>2, <2>1, IsASeq DEF Buffers
<1>4. cs \in Seq(Payloads)
  BY <1>2, FlattenPlaces
<1>5. PICK row, col : Laid(cs, buffers, Len(buffers), row, col)
  BY <1>2, FlattenPlaces
<1> HIDE DEF cs
<1>6. /\ batch' \in Seq(Payloads) /\ Len(batch') = Len(cs) /\ InOrder(batch')
      /\ DOMAIN cs = 1..Len(cs) /\ DOMAIN batch' = 1..Len(cs)
  BY <1>1, <1>4, SortFacts
<1>7. PICK p : Shuffles(Len(cs), p) /\ \A i \in 1..Len(cs) : batch'[i] = cs[p[i]]
  BY <1>1, <1>4, SortFacts
<1>8. ASSUME NEW e \in Ids, NEW i, InBatch(e, i)'
      PROVE  i \in 1..Len(cs) /\ InBuffer(e, row[p[i]], col[p[i]])
  <2>1. i \in 1..Len(cs) /\ IsInit(cs[p[i]], e) /\ p[i] \in DOMAIN cs
    BY <1>6, <1>7, <1>8 DEF InBatch, Shuffles
  <2> QED
    BY <1>2, <1>5, <2>1 DEF Laid, InBuffer
<1>9. ASSUME NEW e \in Ids, NEW b, NEW i, InBuffer(e, b, i) PROVE \E k : InBatch(e, k)'
  <2>1. b \in 1..Len(buffers) /\ i \in DOMAIN buffers[b] /\ IsInit(buffers[b][i], e)
    BY <1>2, <1>9 DEF InBuffer
  <2>2. PICK j \in DOMAIN cs : row[j] = b /\ col[j] = i
    BY <1>5, <2>1 DEF Laid
  <2>3. PICK k \in 1..Len(cs) : p[k] = j
    BY <1>6, <1>7, <2>2 DEF Shuffles
  <2>4. cs[j] = buffers[b][i]
    BY <1>5, <2>2 DEF Laid
  <2> QED
    BY <1>6, <1>7, <2>1, <2>3, <2>4 DEF InBatch
<1>10. ASSUME NEW e \in Ids, NEW i, NEW j, InBatch(e, i)', InBatch(e, j)' PROVE i = j
  <2>1. /\ i \in 1..Len(cs) /\ InBuffer(e, row[p[i]], col[p[i]])
        /\ j \in 1..Len(cs) /\ InBuffer(e, row[p[j]], col[p[j]])
    BY <1>8, <1>10
  <2>2. row[p[i]] = row[p[j]] /\ col[p[i]] = col[p[j]]
    BY <2>1 DEF IInv, OneInit, OneInitOf
  <2>3. p[i] \in DOMAIN cs /\ p[j] \in DOMAIN cs
    BY <1>6, <1>7, <2>1 DEF Shuffles
  <2>4. p[i] = p[j]
    BY <1>5, <2>2, <2>3 DEF Laid
  <2> QED
    BY <1>7, <2>1, <2>4 DEF Shuffles
<1>11. ASSUME NEW e \in Ids PROVE OneInitOf(e)'
  <2>1. \A b, i : ~InBuffer(e, b, i)'
    BY <1>3 DEF InBuffer
  <2>2. OneInitOf(e) /\ world'.status[e] = world.status[e]
    BY <1>1 DEF IInv, OneInit
  <2>3. \A i : ~InBatch(e, i)
    BY <1>2 DEF InBatch
  <2>4. \A i : InBatch(e, i)' => world.status[e] = "reserved"
    BY <1>8, <2>2 DEF OneInitOf
  <2>5. world.status[e] = "reserved" => \E i : InBatch(e, i)'
    BY <1>9, <2>2, <2>3 DEF OneInitOf
  <2> QED
    BY <1>10, <2>1, <2>2, <2>4, <2>5 DEF OneInitOf
<1>12. OneInit'
  BY <1>11 DEF OneInit
<1>13. Sequences'
  BY <1>1, <1>2, <1>3, <1>4, <1>6 DEF Sequences
<1>14. /\ \A b \in Buffers' : \A i \in DOMAIN buffers'[b] : buffers'[b][i] \in Payloads
       /\ \A i \in DOMAIN batch' : batch'[i] \in Payloads
  BY <1>3, <1>6
<1>15. TypeOK'
  BY <1>1, <1>3, <1>14 DEF IInv, TypeOK, Modes, IsLive
<1>16. Phases'
  BY <1>1, <1>3 DEF IInv, Phases, applying, BuffersEmpty
<1>17. BatchInOrder'
  BY <1>6 DEF BatchInOrder
<1> QED
  BY <1>12, <1>13, <1>15, <1>16, <1>17 DEF IInv

\* While a batch is applied buffers are empty, and the next command is typed.
LEMMA BatchFacts ==
  ASSUME IInv, applying
  PROVE  /\ batch \in Seq(Payloads) /\ world \in Worlds /\ DataLive(world)
         /\ \A e \in Ids : \A b, i : ~InBuffer(e, b, i)
         /\ batch # <<>> => Head(batch) \in Payloads /\ 1 \in DOMAIN batch /\ Head(batch) = batch[1]
<1>1. batch \in Seq(Payloads) /\ world \in Worlds /\ DataLive(world)
  BY DEF IInv, Sequences, TypeOK, DataLive
<1>2. \A e \in Ids : \A b, i : ~InBuffer(e, b, i)
  BY DEF IInv, Phases, BuffersEmpty, InBuffer
<1> QED
  BY <1>1, <1>2

LEMMA ApplyKeeps == IInv /\ Apply => IInv'
<1> SUFFICES ASSUME IInv, Apply PROVE IInv'
  OBVIOUS
<1> DEFINE c == Head(batch)
<1>1. /\ applying /\ batch # <<>> /\ ~Fails(c, world) /\ world' = Effect(c, world)
      /\ batch' = Tail(batch) /\ UNCHANGED <<buffers, issued, mode, writer, left, inside>>
  BY DEF Apply, running
<1>2. /\ batch \in Seq(Payloads) /\ world \in Worlds /\ DataLive(world)
      /\ \A e \in Ids : \A b, i : ~InBuffer(e, b, i)
      /\ c \in Payloads /\ 1 \in DOMAIN batch /\ c = batch[1]
  BY <1>1, BatchFacts
<1>3. /\ batch' \in Seq(Payloads) /\ Len(batch) \in Nat /\ Len(batch') = Len(batch) - 1
      /\ DOMAIN batch = 1..Len(batch) /\ DOMAIN batch' = 1..(Len(batch) - 1)
      /\ \A i \in 1..(Len(batch) - 1) : batch'[i] = batch[i + 1]
  BY <1>1, <1>2, HeadTailProperties
<1>4. \A i : i \in DOMAIN batch' => i + 1 \in DOMAIN batch /\ i \in Nat /\ i + 1 # 1
  BY <1>3
<1>5. \A i \in DOMAIN batch : i = 1 \/ (i - 1 \in DOMAIN batch' /\ (i - 1) + 1 = i)
  BY <1>3
<1> HIDE DEF c
<1>6. /\ world' \in Worlds /\ DataLive(world')
      /\ \A e \in Ids : world'.status[e] = "reserved" <=>
                          world.status[e] = "reserved" /\ ~IsInit(c, e)
  BY <1>1, <1>2, EffectFacts
<1>7. ASSUME NEW e \in Ids PROVE OneInitOf(e)'
  <2>1. OneInitOf(e)
    BY DEF IInv, OneInit
  <2>2. \A b, i : ~InBuffer(e, b, i)'
    BY <1>1, <1>2 DEF InBuffer, Buffers
  <2>3. ASSUME NEW i, InBatch(e, i)' PROVE i \in DOMAIN batch' /\ InBatch(e, i + 1)
    BY <1>3, <1>4, <2>3 DEF InBatch
  <2>4. IsInit(c, e) <=> InBatch(e, 1)
    BY <1>2 DEF InBatch
  <2>5. \A i : InBatch(e, i)' => world'.status[e] = "reserved"
    BY <1>4, <1>6, <2>1, <2>3, <2>4 DEF OneInitOf
  <2>6. ASSUME NEW i, NEW j, InBatch(e, i)', InBatch(e, j)' PROVE i = j
    <3>1. i \in Nat /\ j \in Nat /\ i + 1 = j + 1
      BY <1>4, <2>1, <2>3, <2>6 DEF OneInitOf
    <3> QED
      BY <3>1
  <2>7. ASSUME world'.status[e] = "reserved" PROVE \E i : InBatch(e, i)'
    <3>1. PICK j : InBatch(e, j)
      BY <1>2, <1>6, <2>1, <2>7 DEF OneInitOf
    <3>2. j # 1
      BY <1>6, <2>4, <2>7, <3>1
    <3>3. j - 1 \in DOMAIN batch' /\ (j - 1) + 1 = j
      BY <1>5, <3>1, <3>2 DEF InBatch
    <3>4. batch'[j - 1] = batch[j]
      BY <1>3, <3>3
    <3> QED
      BY <3>1, <3>3, <3>4 DEF InBatch
  <2> QED
    BY <2>2, <2>5, <2>6, <2>7 DEF OneInitOf
<1>8. OneInit'
  BY <1>7 DEF OneInit
<1>9. Sequences'
  BY <1>1, <1>3 DEF IInv, Sequences, applying
<1>10. Buffers' = Buffers
  BY <1>1 DEF Buffers
<1>11. TypeOK'
  BY <1>1, <1>3, <1>6, <1>10 DEF IInv, TypeOK, DataLive
<1>12. Phases'
  BY <1>1, <1>10 DEF IInv, Phases, applying, BuffersEmpty
<1>13. BatchInOrder'
  <2>1. InOrder(batch)
    BY DEF IInv, BatchInOrder
  <2>2. ASSUME NEW i \in DOMAIN batch', NEW j \in DOMAIN batch', i < j
        PROVE  CmdTy(batch'[i]) <= CmdTy(batch'[j])
    <3>1. i + 1 \in DOMAIN batch /\ j + 1 \in DOMAIN batch /\ i + 1 < j + 1
      BY <1>3, <1>4, <2>2
    <3>2. batch'[i] = batch[i + 1] /\ batch'[j] = batch[j + 1]
      BY <1>3, <2>2
    <3> QED
      BY <2>1, <3>1, <3>2 DEF InOrder
  <2> QED
    BY <2>2 DEF BatchInOrder, InOrder
<1> QED
  BY <1>8, <1>9, <1>11, <1>12, <1>13 DEF IInv

\* What the end of a batch leaves, when no id is reserved any more.
LEMMA EndBatchKeeps ==
  ASSUME IInv, applying, EndBatch, batch' = <<>>, world' \in Worlds, DataLive(world'),
         \A e \in Ids : world'.status[e] # "reserved"
  PROVE  IInv'
<1>1. /\ mode' = IF inside THEN "systems" ELSE "idle"
      /\ inside' = FALSE /\ UNCHANGED <<writer, left, buffers>>
  BY DEF EndBatch
<1>2. ~applying' /\ Buffers' = Buffers
  BY <1>1 DEF applying, Buffers
<1>3. OneInit'
  <2>1. \A e \in Ids : \A b, i : ~InBuffer(e, b, i)'
    BY <1>1, BatchFacts DEF InBuffer, Buffers
  <2>2. \A e \in Ids : \A i : ~InBatch(e, i)'
    BY DEF InBatch
  <2> QED
    BY <2>1, <2>2 DEF OneInit, OneInitOf
<1>4. Sequences'
  BY <1>1, <1>2, EmptySeq DEF IInv, Sequences
<1>5. TypeOK'
  <2>1. \A i \in DOMAIN batch' : batch'[i] \in Payloads
    OBVIOUS
  <2> QED
    BY <1>1, <1>2, <2>1 DEF IInv, TypeOK, DataLive, Modes
<1>6. Phases'
  <2>1. BuffersEmpty'
    BY <1>1, <1>2 DEF IInv, Phases, BuffersEmpty
  <2> QED
    BY <1>1, <1>2, <2>1 DEF IInv, Phases
<1>7. BatchInOrder'
  BY DEF BatchInOrder, InOrder
<1> QED
  BY <1>3, <1>4, <1>5, <1>6, <1>7 DEF IInv

LEMMA FailBatchKeeps == IInv /\ FailBatch => IInv'
<1> SUFFICES ASSUME IInv, FailBatch PROVE IInv'
  OBVIOUS
<1>1. /\ applying /\ EndBatch /\ batch' = <<>>
      /\ world' = [world EXCEPT !.status = [e \in Ids |->
                     IF \E i \in DOMAIN batch : IsInit(batch[i], e) THEN "leaked"
                     ELSE world.status[e]]]
  BY DEF FailBatch
<1>2. world \in Worlds /\ DataLive(world) /\ \A e \in Ids : \A b, i : ~InBuffer(e, b, i)
  BY <1>1, BatchFacts
<1>3. /\ world' \in Worlds /\ world'.data = world.data
      /\ \A e \in Ids : world'.status[e] = IF \E i : InBatch(e, i) THEN "leaked"
                                            ELSE world.status[e]
  BY <1>1, <1>2 DEF Worlds, InBatch
<1>4. \A e \in Ids : world'.status[e] # "reserved"
  BY <1>2, <1>3 DEF IInv, OneInit, OneInitOf
<1>5. DataLive(world')
  <2>1. \A e \in Ids : (\E i : InBatch(e, i)) => world.status[e] = "reserved"
    BY DEF IInv, OneInit, OneInitOf
  <2> QED
    BY <1>2, <1>3, <2>1 DEF DataLive, IsLive
<1> QED
  BY <1>1, <1>3, <1>4, <1>5, EndBatchKeeps

LEMMA FinishBatchKeeps == IInv /\ FinishBatch => IInv'
<1> SUFFICES ASSUME IInv, FinishBatch PROVE IInv'
  OBVIOUS
<1>1. applying /\ EndBatch /\ batch = <<>> /\ batch' = <<>> /\ world' = world
  BY DEF FinishBatch
<1>2. world \in Worlds /\ DataLive(world) /\ \A e \in Ids : \A b, i : ~InBuffer(e, b, i)
  BY <1>1, BatchFacts
<1>3. \A e \in Ids : world.status[e] # "reserved"
  BY <1>1, <1>2 DEF IInv, OneInit, OneInitOf, InBatch
<1> QED
  BY <1>1, <1>2, <1>3, EndBatchKeeps

LEMMA StepKeeps == IInv /\ [Next]_vars => IInv'
<1> SUFFICES ASSUME IInv, [Next]_vars PROVE IInv'
  OBVIOUS
<1>1. ASSUME NEW n \in 0..MaxSystems, ExecuteStage(n) PROVE IInv'
  BY <1>1, ExecuteStageKeeps
<1>2. ASSUME NEW s \in left, StartSystem(s) \/ RunInside(s) PROVE IInv'
  BY <1>2, StartSystemKeeps, RunInsideKeeps
<1>3. ASSUME NEW c \in Written, Issue(c) PROVE IInv'
  BY <1>3, IssueKeeps
<1>4. ASSUME NEW e \in Ids, ReserveId(e) PROVE IInv'
  BY <1>4, ReserveIdKeeps
<1>5. CASE EnsureCommands \/ ConditionsHold \/ ConditionsFail
  BY <1>5, EnsureCommandsKeeps, ConditionsKeep
<1>6. CASE StartBatch \/ Apply \/ FailBatch \/ FinishBatch
  BY <1>6, StartBatchKeeps, ApplyKeeps, FailBatchKeeps, FinishBatchKeeps
<1>7. CASE UNCHANGED vars
  BY <1>7 DEF vars, IInv, TypeOK, Sequences, Phases, OneInit, OneInitOf, BatchInOrder,
              InBuffer, InBatch, Buffers, BuffersEmpty, applying, IsLive
<1> QED
  BY <1>1, <1>2, <1>3, <1>4, <1>5, <1>6, <1>7 DEF Next

LEMMA Invariance == Spec => []IInv
BY InitHolds, StepKeeps, PTL DEF Spec

-----------------------------------------------------------------------------
(***************************************************************************)
(* The theorems.                                                           *)
(***************************************************************************)

(***************************************************************************)
(* Commands on their way are commands, writers have buffers, and only      *)
(* entities that exist have components, whatever is reserved, applied or   *)
(* dropped by a failing batch.                                             *)
(***************************************************************************)
THEOREM TypeCorrect == Spec => []TypeOK
<1>1. IInv => TypeOK
  BY DEF IInv
<1> QED
  BY <1>1, Invariance, PTL

\* What is on its way is at a place of a buffer or of the batch.
LEMMA PendingPlaces ==
  ASSUME IInv, NEW e \in Ids
  PROVE  Cardinality(Inits(e)) = IF world.status[e] = "reserved" THEN 1 ELSE 0
<1> DEFINE cs == FlattenSeq(buffers)
           n == Len(cs)
<1>1. buffers \in Seq(Seq(Payloads)) /\ batch \in Seq(Payloads) /\ OneInitOf(e)
  BY DEF IInv, Sequences, OneInit
<1>2. cs \in Seq(Payloads)
  BY <1>1, FlattenPlaces
<1>3. PICK row, col : Laid(cs, buffers, Len(buffers), row, col)
  BY <1>1, FlattenPlaces
<1>4. Buffers = 1..Len(buffers)
  BY <1>1, BuffersTyped DEF Buffers
<1>5. Pending = cs \o batch
  BY DEF Pending
<1> HIDE DEF cs
<1>6. /\ n \in Nat /\ Len(batch) \in Nat /\ DOMAIN cs = 1..n /\ DOMAIN batch = 1..Len(batch)
      /\ DOMAIN Pending = 1..(n + Len(batch))
      /\ \A i \in DOMAIN Pending : Pending[i] = IF i <= n THEN cs[i] ELSE batch[i - n]
  BY <1>1, <1>2, <1>5
<1>7. \A i \in DOMAIN Pending : \/ i \in DOMAIN cs /\ Pending[i] = cs[i]
                                \/ i \notin DOMAIN cs /\ i - n \in DOMAIN batch /\ i \in Nat
                                   /\ Pending[i] = batch[i - n]
  BY <1>6
<1>8. /\ \A i \in DOMAIN cs : i \in DOMAIN Pending /\ Pending[i] = cs[i]
      /\ \A i \in DOMAIN batch : i + n \in DOMAIN Pending /\ Pending[i + n] = batch[i]
  <2>1. \A i \in DOMAIN cs : i \in DOMAIN Pending /\ i <= n
    BY <1>6
  <2>2. \A i \in DOMAIN batch : i + n \in DOMAIN Pending /\ ~(i + n <= n) /\ (i + n) - n = i
    BY <1>6
  <2> QED
    BY <1>6, <2>1, <2>2
<1> DEFINE Found(i) == i \in DOMAIN Pending /\ IsInit(Pending[i], e)
<1>9. Inits(e) = {i \in DOMAIN Pending : Found(i)}
  BY DEF Inits
<1>10. ASSUME NEW i, Found(i)
       PROVE  \/ i \in DOMAIN cs /\ InBuffer(e, row[i], col[i])
              \/ i \notin DOMAIN cs /\ i \in Nat /\ InBatch(e, i - n)
  <2>1. CASE i \in DOMAIN cs
    <3>1. IsInit(cs[i], e)
      BY <1>10, <1>8, <2>1
    <3> QED
      BY <1>3, <1>4, <2>1, <3>1 DEF Laid, InBuffer
  <2>2. CASE i \notin DOMAIN cs
    BY <1>7, <1>10, <2>2 DEF InBatch
  <2> QED
    BY <2>1, <2>2
<1>11. ASSUME NEW b, NEW i, InBuffer(e, b, i) PROVE \E k : Found(k)
  <2>1. PICK k \in DOMAIN cs : row[k] = b /\ col[k] = i
    BY <1>3, <1>4, <1>11 DEF Laid, InBuffer
  <2>2. cs[k] = buffers[b][i]
    BY <1>3, <2>1 DEF Laid
  <2> QED
    BY <1>8, <1>11, <2>1, <2>2 DEF InBuffer
<1>12. ASSUME NEW i, InBatch(e, i) PROVE \E k : Found(k)
  BY <1>8, <1>12 DEF InBatch
<1>13. ASSUME NEW i, NEW j, Found(i), Found(j) PROVE i = j
  <2> HIDE DEF Found
  <2>1. CASE i \in DOMAIN cs /\ j \in DOMAIN cs
    <3>1. InBuffer(e, row[i], col[i]) /\ InBuffer(e, row[j], col[j])
      BY <1>10, <1>13, <2>1
    <3>2. row[i] = row[j] /\ col[i] = col[j]
      BY <1>1, <3>1 DEF OneInitOf
    <3> QED
      BY <1>3, <2>1, <3>2 DEF Laid
  <2>2. CASE i \notin DOMAIN cs /\ j \notin DOMAIN cs
    <3>1. i \in Nat /\ j \in Nat /\ i - n = j - n
      BY <1>1, <1>10, <1>13, <2>2 DEF OneInitOf
    <3> QED
      BY <1>6, <3>1
  <2>3. ~(i \in DOMAIN cs /\ j \notin DOMAIN cs) /\ ~(j \in DOMAIN cs /\ i \notin DOMAIN cs)
    BY <1>1, <1>10, <1>13 DEF OneInitOf
  <2> QED
    BY <2>1, <2>2, <2>3
<1>14. (\E i : Found(i)) <=> world.status[e] = "reserved"
  <2> HIDE DEF Found
  <2> QED
    BY <1>1, <1>10, <1>11, <1>12 DEF OneInitOf
<1>15. CASE world.status[e] = "reserved"
  <2>1. PICK i : Found(i)
    BY <1>14, <1>15
  <2>2. Inits(e) = {i}
    BY <1>9, <1>13, <2>1
  <2> QED
    BY <1>15, <2>2, FS_Singleton
<1>16. CASE world.status[e] # "reserved"
  <2>1. Inits(e) = {}
    BY <1>9, <1>14, <1>16
  <2> QED
    BY <1>16, <2>1, FS_EmptySet
<1> QED
  BY <1>15, <1>16

(***************************************************************************)
(* "Id must be an allocated but uninitialized entity" (lib.rs:282) holds   *)
(* whenever an Init is applied: between EntityCommands::id and the batch   *)
(* there is one Init for each reserved id and none for any other, however  *)
(* buffers are sorted and whatever fails.                                  *)
(***************************************************************************)
THEOREM ReservedIdsHaveInits == Spec => []ReservedHasInit
<1>1. IInv => ReservedHasInit
  BY PendingPlaces DEF ReservedHasInit
<1> QED
  BY <1>1, Invariance, PTL

(***************************************************************************)
(* "apply commands after each stage" (lib.rs:613): between the stages of a *)
(* tick the buffers are empty and no system is left, also when conditions  *)
(* fail, a batch fails, or systems run inside others.                      *)
(***************************************************************************)
THEOREM StagesFindCommandsApplied == Spec => []StagesSeeCommands
<1>1. IInv => StagesSeeCommands
  <2> SUFFICES ASSUME IInv, mode = "idle", writer = 0
               PROVE  FlattenSeq(buffers) = <<>> /\ left = {}
    BY DEF StagesSeeCommands
  <2>1. buffers \in Seq(Seq(Payloads)) /\ BuffersEmpty /\ left = {}
    BY DEF IInv, Sequences, Phases
  <2> QED
    BY <2>1, FlattenEmpty DEF BuffersEmpty, Buffers
<1> QED
  BY <1>1, Invariance, PTL

\* In steps that start no batch, buffers do not lose places.
LEMMA BuffersGrow ==
  ASSUME IInv, [Next]_vars, ~StartBatch
  PROVE  /\ Len(buffers) <= Len(buffers')
         /\ \A b \in DOMAIN buffers : DOMAIN buffers[b] \subseteq DOMAIN buffers'[b]
<1>1. buffers \in Seq(Seq(Payloads)) /\ MaxSystems \in Nat
  BY CommandsAssumption DEF IInv, Sequences
<1>2. /\ Len(buffers) \in Nat /\ DOMAIN buffers = 1..Len(buffers)
      /\ \A b \in DOMAIN buffers : buffers[b] \in Seq(Payloads)
  BY <1>1, BuffersTyped
<1>3. ASSUME NEW n \in Nat, buffers' = Resized(buffers, n)
      PROVE  /\ Len(buffers) <= Len(buffers')
             /\ \A b \in DOMAIN buffers : DOMAIN buffers[b] \subseteq DOMAIN buffers'[b]
  <2>1. /\ buffers' \in Seq(Seq(Payloads))
        /\ Len(buffers') = IF Len(buffers) < n THEN n ELSE Len(buffers)
        /\ \A b \in DOMAIN buffers' : buffers'[b] = IF b \in DOMAIN buffers THEN buffers[b] ELSE <<>>
    BY <1>1, <1>3, ResizedFacts
  <2>2. Len(buffers) <= Len(buffers') /\ DOMAIN buffers' = 1..Len(buffers')
    BY <1>2, <2>1
  <2> QED
    BY <1>2, <2>1, <2>2
<1>4. CASE UNCHANGED buffers
  BY <1>2, <1>4
<1>5. ASSUME NEW c \in Written, Issue(c)
      PROVE  /\ Len(buffers) <= Len(buffers')
             /\ \A b \in DOMAIN buffers : DOMAIN buffers[b] \subseteq DOMAIN buffers'[b]
  <2>1. writer \in DOMAIN buffers /\ buffers' = [buffers EXCEPT ![writer] = Append(buffers[writer], c)]
    BY <1>5 DEF Issue, Buffers
  <2>2. DOMAIN buffers[writer] \subseteq DOMAIN Append(buffers[writer], c)
    BY <1>2, <2>1
  <2>3. Len(buffers') = Len(buffers)
    BY <1>2, <2>1
  <2> QED
    BY <1>2, <2>1, <2>2, <2>3
<1>6. ASSUME NEW e \in Ids, ReserveId(e)
      PROVE  /\ Len(buffers) <= Len(buffers')
             /\ \A b \in DOMAIN buffers : DOMAIN buffers[b] \subseteq DOMAIN buffers'[b]
  <2>1. Len(buffers') = Len(buffers) /\ \A b \in DOMAIN buffers : DOMAIN buffers'[b] = DOMAIN buffers[b]
    BY <1>2, <1>6 DEF ReserveId
  <2> QED
    BY <1>2, <2>1
<1>7. CASE EnsureCommands \/ \E s \in left : RunInside(s)
  BY <1>3, <1>7 DEF EnsureCommands, RunInside
<1>8. CASE \E n \in 0..MaxSystems : ExecuteStage(n)
  <2>1. PICK n \in Nat : buffers' = Resized(buffers, n)
    BY <1>1, <1>8 DEF ExecuteStage
  <2> QED
    BY <1>3, <2>1
<1>9. CASE \/ ConditionsHold \/ ConditionsFail \/ \E s \in left : StartSystem(s)
           \/ Apply \/ FailBatch \/ FinishBatch \/ UNCHANGED vars
  BY <1>4, <1>9 DEF ConditionsHold, ConditionsFail, StartSystem, Apply, FailBatch, FinishBatch,
                    EndBatch, vars
<1> QED
  BY <1>5, <1>6, <1>7, <1>8, <1>9 DEF Next

(***************************************************************************)
(* World::resize_commands does "not shrink", so commands leave the buffers *)
(* only through the swap of apply_commands, all of them into one batch.    *)
(***************************************************************************)
THEOREM CommandsLeaveTogether == Spec => CommandsKept
<1>1. ASSUME IInv, [Next]_vars, Len(FlattenSeq(buffers')) < Len(FlattenSeq(buffers))
      PROVE  Len(batch') = Len(FlattenSeq(buffers))
  <2>1. IInv'
    BY <1>1, StepKeeps
  <2>2. buffers \in Seq(Seq(Payloads)) /\ buffers' \in Seq(Seq(Payloads))
    BY <1>1, <2>1 DEF IInv, Sequences
  <2>3. FlattenSeq(buffers) \in Seq(Payloads) /\ FlattenSeq(buffers') \in Seq(Payloads)
    BY <2>2, FlattenPlaces
  <2>4. CASE StartBatch
    <3>1. batch' \in SortCommands(FlattenSeq(buffers))
      BY <2>4 DEF StartBatch
    <3> QED
      BY <2>3, <3>1, SortFacts
  <2>5. CASE ~StartBatch
    <3>1. Len(FlattenSeq(buffers)) <= Len(FlattenSeq(buffers'))
      BY <1>1, <2>2, <2>5, BuffersGrow, FlattenGrows
    <3> QED
      BY <1>1, <2>3, <3>1
  <2> QED
    BY <2>4, <2>5
<1>2. IInv /\ [Next]_vars =>
        [Len(FlattenSeq(buffers')) < Len(FlattenSeq(buffers)) =>
           Len(batch') = Len(FlattenSeq(buffers))]_vars
  BY <1>1
<1> QED
  BY <1>2, Invariance, PTL DEF Spec, CommandsKept

(***************************************************************************)
(* "Sort actions by type": when a resource changes no entity command is    *)
(* left in the batch, so a batch that fails has changed no resource.       *)
(***************************************************************************)
THEOREM ResourcesChangeLast == Spec => EntitiesFirst
<1>1. ASSUME IInv, [Next]_vars, world'.resource # world.resource, NEW i \in DOMAIN batch
      PROVE  CmdTy(batch[i]) # 0
  <2>1. world \in Worlds
    BY <1>1 DEF IInv, TypeOK
  <2>2. Apply
    <3>1. CASE FailBatch
      BY <1>1, <2>1, <3>1 DEF FailBatch, Worlds
    <3>2. CASE \E e \in Ids : ReserveId(e)
      BY <1>1, <2>1, <3>2 DEF ReserveId, Worlds
    <3> QED
      BY <1>1, <3>1, <3>2
         DEF Next, EnsureCommands, ExecuteStage, ConditionsHold, ConditionsFail, StartSystem,
             RunInside, Issue, StartBatch, FinishBatch, vars
  <2> DEFINE c == Head(batch)
  <2>3. applying /\ batch # <<>> /\ world' = Effect(c, world)
    BY <2>2 DEF Apply
  <2>4. /\ batch \in Seq(Payloads) /\ c \in Payloads /\ 1 \in DOMAIN batch /\ c = batch[1]
    BY <1>1, <2>3, BatchFacts
  <2> HIDE DEF c
  <2>5. CmdTy(c) # 0
    <3>1. CASE c.type = "entity"
      <4>1. Effect(c, world) = EntityEffect(c, world)
        BY <3>1 DEF Effect
      <4>2. EntityEffect(c, world).resource = world.resource
        BY <2>1, <2>4, <3>1, PayloadKinds DEF EntityEffect, WithEntity, WithoutEntity, Worlds
      <4> QED
        BY <1>1, <2>3, <4>1, <4>2
    <3>2. CASE c.type # "entity"
      BY <2>4, <3>2, PayloadKinds DEF CmdTy
    <3> QED
      BY <3>1, <3>2
  <2>6. \A k \in DOMAIN batch : CmdTy(batch[k]) \in Nat
    <3>1. \A k \in DOMAIN batch : batch[k] \in Payloads
      BY <2>4
    <3> QED
      BY <3>1, PayloadKinds DEF CmdTy
  <2>7. i = 1 \/ 1 < i
    BY <2>4
  <2>8. CmdTy(batch[1]) <= CmdTy(batch[i]) \/ i = 1
    BY <1>1, <2>4, <2>7 DEF IInv, BatchInOrder, InOrder
  <2> QED
    BY <1>1, <2>4, <2>5, <2>6, <2>8
<1>2. IInv /\ [Next]_vars =>
        [world'.resource # world.resource => \A i \in DOMAIN batch : CmdTy(batch[i]) # 0]_vars
  BY <1>1
<1> QED
  BY <1>2, Invariance, PTL DEF Spec, EntitiesFirst

-----------------------------------------------------------------------------
(***************************************************************************)
(* Commands one after the other: AsIssued as a run with a result after     *)
(* each command.                                                           *)
(***************************************************************************)
Results == [failed : BOOLEAN, world : {w \in Worlds : DataLive(w)}]

Start(w) == [failed |-> FALSE, world |-> w]

IsRun(cs, w, run) ==
  /\ run \in [0..Len(cs) -> Results]
  /\ run[0] = Start(w)
  /\ \A i \in 1..Len(cs) : run[i] = ApplyNext(run[i - 1], cs[i])

\* What a run does to entities, and how it ends for them.
Entities(r) == <<r.failed, r.world.status, r.world.data>>

LEMMA ResultFields ==
  ASSUME NEW r \in Results
  PROVE  /\ r.failed \in BOOLEAN /\ r.world \in Worlds /\ DataLive(r.world)
         /\ r = [failed |-> r.failed, world |-> r.world]
         /\ r.world = [status |-> r.world.status, data |-> r.world.data,
                       resource |-> r.world.resource]
BY DEF Results, Worlds

LEMMA ApplyNextTyped ==
  ASSUME NEW r \in Results, NEW c \in Payloads
  PROVE  ApplyNext(r, c) \in Results
<1>1. r.world \in Worlds /\ DataLive(r.world) /\ r.failed \in BOOLEAN
  BY ResultFields
<1>2. CASE r.failed
  BY <1>2 DEF ApplyNext
<1>3. CASE ~r.failed /\ Fails(c, r.world)
  BY <1>3 DEF ApplyNext, Results
<1>4. CASE ~r.failed /\ ~Fails(c, r.world)
  <2> DEFINE v == Effect(c, r.world)
  <2>1. v \in Worlds /\ DataLive(v)
    BY <1>1, <1>4, EffectFacts
  <2>2. ApplyNext(r, c) = [r EXCEPT !.world = v]
    BY <1>4 DEF ApplyNext
  <2> HIDE DEF v
  <2> QED
    BY <2>1, <2>2 DEF Results
<1> QED
  BY <1>1, <1>2, <1>3, <1>4

\* A command that is not for entities leaves them alone.
LEMMA OthersLeaveEntities ==
  ASSUME NEW r \in Results, NEW c \in Payloads, CmdTy(c) # 0
  PROVE  /\ Entities(ApplyNext(r, c)) = Entities(r)
         /\ ApplyNext(r, c).world.resource =
              IF ~r.failed /\ CmdTy(c) = 1 THEN c.value ELSE r.world.resource
<1>1. c.type # "entity" /\ ~Fails(c, r.world)
  BY PayloadKinds DEF CmdTy, Fails
<1>2. r.world \in Worlds /\ r.failed \in BOOLEAN
  BY ResultFields
<1>3. CASE r.failed
  BY <1>3 DEF ApplyNext
<1>4. CASE ~r.failed /\ c.type = "resource"
  <2>1. ApplyNext(r, c) = [r EXCEPT !.world = [r.world EXCEPT !.resource = c.value]]
    BY <1>1, <1>4 DEF ApplyNext, Effect
  <2> QED
    BY <1>2, <1>4, <2>1 DEF Results, Worlds, Entities, CmdTy
<1>5. CASE ~r.failed /\ c.type = "reserve"
  <2>1. ApplyNext(r, c) = [r EXCEPT !.world = r.world]
    BY <1>1, <1>5 DEF ApplyNext, Effect
  <2>2. CmdTy(c) = 2
    BY <1>5 DEF CmdTy
  <2> QED
    BY <1>2, <2>1, <2>2 DEF Results, Worlds, Entities
<1> QED
  BY <1>1, <1>2, <1>3, <1>4, <1>5, PayloadKinds

\* A command for entities does the same to the same entities, and leaves the
\* resource alone.
LEMMA EntityCommandSame ==
  ASSUME NEW r \in Results, NEW s \in Results, NEW c \in Payloads, CmdTy(c) = 0,
         Entities(r) = Entities(s)
  PROVE  /\ Entities(ApplyNext(r, c)) = Entities(ApplyNext(s, c))
         /\ ApplyNext(r, c).world.resource = r.world.resource
<1>1. c.type = "entity"
  BY PayloadKinds DEF CmdTy
<1>2. /\ r.world \in Worlds /\ r.failed \in BOOLEAN /\ s.world \in Worlds
      /\ s.failed = r.failed /\ s.world.status = r.world.status /\ s.world.data = r.world.data
  BY ResultFields DEF Entities
<1>3. Fails(c, r.world) <=> Fails(c, s.world)
  BY <1>2 DEF Fails, IsLive
<1>4. CASE r.failed
  BY <1>2, <1>4 DEF ApplyNext
<1>5. CASE ~r.failed /\ Fails(c, r.world)
  <2>1. /\ ApplyNext(r, c) = [r EXCEPT !.failed = TRUE]
        /\ ApplyNext(s, c) = [s EXCEPT !.failed = TRUE]
    BY <1>2, <1>3, <1>5 DEF ApplyNext
  <2> QED
    BY <1>2, <2>1 DEF Results, Entities
<1>6. CASE ~r.failed /\ ~Fails(c, r.world)
  <2> DEFINE v == EntityEffect(c, r.world)
             u == EntityEffect(c, s.world)
  <2>1. ApplyNext(r, c) = [r EXCEPT !.world = v] /\ ApplyNext(s, c) = [s EXCEPT !.world = u]
    BY <1>1, <1>2, <1>3, <1>6 DEF ApplyNext, Effect
  <2>2. v.status = u.status /\ v.data = u.data /\ v.resource = r.world.resource
    <3>1. \A e, x : /\ WithEntity(r.world, e, x).status = WithEntity(s.world, e, x).status
                    /\ WithEntity(r.world, e, x).data = WithEntity(s.world, e, x).data
                    /\ WithEntity(r.world, e, x).resource = r.world.resource
      BY <1>2 DEF WithEntity, Worlds
    <3>2. \A w1, w2 \in Worlds : \A e :
            w1.status = w2.status /\ w1.data = w2.data =>
              /\ WithoutEntity(w1, e).status = WithoutEntity(w2, e).status
              /\ WithoutEntity(w1, e).data = WithoutEntity(w2, e).data
              /\ WithoutEntity(w1, e).resource = w1.resource
      BY DEF WithoutEntity, Worlds
    <3>3. CASE c.action \in {"fetch", "init", "insert_id"}
      <4>1. ComponentAfter(c, r.world) = ComponentAfter(c, s.world)
        BY <1>2 DEF ComponentAfter
      <4> QED
        BY <3>1, <3>3, <4>1 DEF EntityEffect
    <3>4. CASE c.action = "insert"
      BY <1>2, <3>4 DEF EntityEffect
    <3>5. CASE c.action = "delete"
      BY <1>2, <3>2, <3>5 DEF EntityEffect, IsLive
    <3>6. CASE c.action = "merge" /\ c.src = c.dst
      BY <1>2, <3>6 DEF EntityEffect
    <3>7. CASE c.action = "merge" /\ c.src # c.dst /\ c.src \in Ids /\ c.dst \in Ids
      <4> DEFINE d == IF r.world.data[c.src] = None THEN r.world.data[c.dst]
                      ELSE r.world.data[c.src]
                 w1 == [r.world EXCEPT !.data[c.dst] = d]
                 w2 == [s.world EXCEPT !.data[c.dst] = d]
      <4>1. v = WithoutEntity(w1, c.src) /\ u = WithoutEntity(w2, c.src)
        BY <1>2, <3>7 DEF EntityEffect
      <4>2. d \in Data
        BY <1>2, <3>7 DEF Worlds
      <4> HIDE DEF d
      <4>3. /\ w1 \in Worlds /\ w2 \in Worlds /\ w1.status = w2.status /\ w1.data = w2.data
            /\ w1.resource = r.world.resource
        BY <1>2, <3>7, <4>2 DEF Worlds
      <4> HIDE DEF w1, w2, v, u
      <4> QED
        BY <3>2, <4>1, <4>3
    <3> QED
      BY <1>1, <3>3, <3>4, <3>5, <3>6, <3>7, PayloadKinds
  <2> HIDE DEF v, u
  <2>3. /\ ApplyNext(r, c).failed = r.failed /\ ApplyNext(r, c).world = v
        /\ ApplyNext(s, c).failed = s.failed /\ ApplyNext(s, c).world = u
    BY <2>1 DEF Results
  <2> QED
    BY <1>2, <2>2, <2>3 DEF Entities
<1> QED
  BY <1>2, <1>4, <1>5, <1>6

-----------------------------------------------------------------------------
(***************************************************************************)
(* AsIssued is a run.                                                      *)
(***************************************************************************)
LEMMA MaxFacts ==
  ASSUME NEW k \in Nat, NEW s \in SUBSET (1..k), s # {}
  PROVE  Max(s) \in s /\ \A y \in s : y <= Max(s)
<1> DEFINE T == {k - y : y \in s}
<1>1. \A y \in s : y \in Nat /\ k - y \in Nat
  OBVIOUS
<1>2. T \in SUBSET Nat /\ T # {}
  BY <1>1
<1>3. PICK t \in T : \A u \in T : t <= u
  <2> HIDE DEF T
  <2> QED
    BY <1>2, SmallestNumber
<1>4. PICK x \in s : t = k - x
  OBVIOUS
<1>5. ASSUME NEW y \in s PROVE x >= y
  <2>1. k - x <= k - y
    BY <1>3, <1>4
  <2> QED
    BY <1>1, <2>1
<1>6. Max(s) \in s /\ \A y \in s : Max(s) >= y
  BY <1>5 DEF Max
<1> QED
  BY <1>1, <1>6

\* The recursive function of FoldLeft, on the places up to k.
Folds(cs, w, k, it) ==
  /\ it \in [SUBSET (1..k) -> Results]
  /\ it[{}] = Start(w)
  /\ \A s \in SUBSET (1..k) : s # {} => it[s] = ApplyNext(it[s \ {Max(s)}], cs[Max(s)])

LEMMA FoldsNext ==
  ASSUME NEW cs \in Seq(Payloads), NEW w, NEW k \in Nat, k + 1 \in 1..Len(cs),
         NEW it, Folds(cs, w, k, it)
  PROVE  \E it2 : Folds(cs, w, k + 1, it2)
<1> DEFINE m == k + 1
           it2 == [s \in SUBSET (1..m) |->
                     IF m \in s THEN ApplyNext(it[s \ {m}], cs[m]) ELSE it[s]]
<1>1. \A s \in SUBSET (1..m) : s \ {m} \in SUBSET (1..k) /\ (m \notin s => s \in SUBSET (1..k))
  OBVIOUS
<1>2. cs[m] \in Payloads /\ m \in Nat
  OBVIOUS
<1>3. \A s \in SUBSET (1..m) : m \in s => Max(s) = m
  <2> SUFFICES ASSUME NEW s \in SUBSET (1..m), m \in s PROVE Max(s) = m
    OBVIOUS
  <2>1. Max(s) \in s /\ m <= Max(s)
    BY <1>2, MaxFacts
  <2>2. Max(s) \in 1..m
    BY <2>1
  <2> QED
    BY <2>1, <2>2
<1>4. \A s \in SUBSET (1..m) : it2[s] \in Results
  BY <1>1, <1>2, ApplyNextTyped DEF Folds
<1>5. it2 \in [SUBSET (1..m) -> Results]
  BY <1>4
<1>6. it2[{}] = Start(w)
  BY <1>1 DEF Folds
<1>7. ASSUME NEW s \in SUBSET (1..m), s # {}
      PROVE  it2[s] = ApplyNext(it2[s \ {Max(s)}], cs[Max(s)])
  <2> DEFINE x == Max(s)
  <2>1. x \in s /\ s \ {x} \in SUBSET (1..m)
    BY <1>2, <1>7, MaxFacts
  <2>2. CASE m \in s
    <3>1. x = m /\ m \notin s \ {x}
      BY <1>3, <2>2
    <3>2. it2[s \ {x}] = it[s \ {m}]
      BY <2>1, <3>1
    <3> HIDE DEF x
    <3>3. it2[s] = ApplyNext(it[s \ {m}], cs[m])
      BY <2>2
    <3> HIDE DEF it2
    <3> QED
      BY <3>1, <3>2, <3>3 DEF x
  <2>3. CASE m \notin s
    <3>1. s \in SUBSET (1..k) /\ it2[s] = it[s] /\ m \notin s \ {x}
      BY <1>1, <2>3
    <3> HIDE DEF x
    <3>2. it2[s \ {x}] = it[s \ {x}]
      BY <2>1, <3>1
    <3> HIDE DEF it2
    <3> QED
      BY <1>7, <3>1, <3>2 DEF Folds, x
  <2> QED
    BY <2>2, <2>3
<1> HIDE DEF it2
<1> QED
  BY <1>5, <1>6, <1>7 DEF Folds

LEMMA FoldIsRun ==
  ASSUME NEW cs \in Seq(Payloads), NEW w \in Worlds, DataLive(w)
  PROVE  \E run : IsRun(cs, w, run) /\ FoldLeft(ApplyNext, Start(w), cs) = run[Len(cs)]
<1> DEFINE n == Len(cs)
           T == {k \in 0..n : ~\E it : Folds(cs, w, k, it)}
<1>1. n \in Nat /\ DOMAIN cs = 1..n
  OBVIOUS
<1>2. Start(w) \in Results
  BY DEF Start, Results
<1>3. 0 \notin T
  <2>1. Folds(cs, w, 0, [s \in SUBSET (1..0) |-> Start(w)])
    <3>1. \A s \in SUBSET (1..0) : s = {}
      OBVIOUS
    <3>2. {} \in SUBSET (1..0)
      OBVIOUS
    <3> QED
      BY <1>2, <3>1, <3>2 DEF Folds
  <2> QED
    BY <2>1
<1>4. ASSUME NEW k \in 0..n, k + 1 \in T PROVE k \in T
  <2>1. k + 1 \in 1..n /\ k \in Nat
    BY <1>4
  <2> QED
    BY <1>4, <2>1, FoldsNext
<1>5. T = {}
  <2>1. T \in SUBSET (0..n)
    OBVIOUS
  <2> HIDE DEF T
  <2> QED
    BY <1>1, <1>3, <1>4, <2>1, NoneFalse
<1>6. PICK it : Folds(cs, w, n, it)
  BY <1>1, <1>5
<1> DEFINE IsIter(f) == f = [s \in SUBSET (DOMAIN cs) |->
                               IF s = {} THEN Start(w)
                               ELSE LET x == Max(s)
                                    IN  ApplyNext(f[s \ {x}], cs[x])]
           iter == CHOOSE f : IsIter(f)
<1>7. IsIter(it)
  <2>1. \A s \in SUBSET (1..n) : it[s] = IF s = {} THEN Start(w)
                                          ELSE ApplyNext(it[s \ {Max(s)}], cs[Max(s)])
    BY <1>6 DEF Folds
  <2>2. it = [s \in SUBSET (1..n) |-> it[s]]
    BY <1>6 DEF Folds
  <2> QED
    BY <1>1, <2>1, <2>2
<1>8. IsIter(iter)
  <2> HIDE DEF IsIter
  <2> QED
    BY <1>7
<1>9. FoldLeft(ApplyNext, Start(w), cs) = iter[DOMAIN cs]
  BY DEF FoldLeft, MapThenFoldSet
<1> HIDE DEF iter
<1>10. /\ iter[{}] = Start(w)
       /\ \A s \in SUBSET (1..n) : s # {} => iter[s] = ApplyNext(iter[s \ {Max(s)}], cs[Max(s)])
  BY <1>1, <1>8
<1> DEFINE run == [k \in 0..n |-> iter[1..k]]
<1>11. ASSUME NEW i \in 1..n PROVE run[i] = ApplyNext(run[i - 1], cs[i])
  <2>1. i \in 0..n /\ i - 1 \in 0..n /\ 1..i \in SUBSET (1..n) /\ i \in 1..i /\ i \in Nat
    OBVIOUS
  <2>2. Max(1..i) \in 1..i /\ i <= Max(1..i)
    BY <2>1, MaxFacts
  <2>3. Max(1..i) = i
    BY <2>1, <2>2
  <2>4. (1..i) \ {i} = 1..(i - 1)
    BY <2>1
  <2>5. iter[1..i] = ApplyNext(iter[(1..i) \ {Max(1..i)}], cs[Max(1..i)])
    BY <1>10, <2>1
  <2>6. iter[1..i] = ApplyNext(iter[1..(i - 1)], cs[i])
    BY <2>3, <2>4, <2>5
  <2> QED
    BY <2>1, <2>6
<1>12. run[0] = Start(w)
  <2>1. 1..0 = {} /\ 0 \in 0..n
    BY <1>1
  <2> QED
    BY <1>10, <2>1
<1>13. DOMAIN run = 0..n
  OBVIOUS
<1> HIDE DEF run
<1>14. \A i \in 0..n : run[i] \in Results
  <2> DEFINE V == {k \in 0..n : run[k] \notin Results}
  <2>1. 0 \notin V /\ V \in SUBSET (0..n)
    BY <1>2, <1>12
  <2>2. ASSUME NEW k \in 0..n, k + 1 \in V PROVE k \in V
    <3>1. k + 1 \in 1..n /\ (k + 1) - 1 = k
      BY <2>2
    <3>2. run[k + 1] = ApplyNext(run[k], cs[k + 1]) /\ cs[k + 1] \in Payloads
      BY <1>11, <3>1
    <3> QED
      BY <2>2, <3>2, ApplyNextTyped
  <2>3. V = {}
    <3> HIDE DEF V
    <3> QED
      BY <1>1, <2>1, <2>2, NoneFalse
  <2> QED
    BY <2>3
<1>15. run \in [0..n -> Results]
  <2>1. run = [k \in 0..n |-> run[k]]
    BY <1>13 DEF run
  <2> QED
    BY <1>14, <2>1
<1>16. IsRun(cs, w, run)
  BY <1>11, <1>12, <1>15 DEF IsRun
<1>17. run[n] = iter[DOMAIN cs]
  BY <1>1 DEF run
<1> QED
  BY <1>9, <1>16, <1>17

-----------------------------------------------------------------------------
(***************************************************************************)
(* A sort that keeps the places of equal commands.                         *)
(***************************************************************************)
StableSort(cs, p, sorted) ==
  /\ cs \in Seq(Payloads) /\ sorted \in Seq(Payloads) /\ Len(sorted) = Len(cs)
  /\ Shuffles(Len(cs), p) /\ \A i \in 1..Len(cs) : sorted[i] = cs[p[i]]
  /\ InOrder(sorted) /\ KeepsPlaces(cs, p)

\* The first q sorted commands are those of a smaller type and those of type
\* ty among the first m that were issued.
Cut(cs, p, ty, m, q) ==
  /\ q \in 0..Len(cs)
  /\ \A i \in 1..Len(cs) :
       i <= q <=> CmdTy(cs[p[i]]) < ty \/ (CmdTy(cs[p[i]]) = ty /\ p[i] <= m)

LEMMA CmdTyTyped ==
  ASSUME NEW c \in Payloads
  PROVE  CmdTy(c) \in 0..2
BY PayloadKinds DEF CmdTy

LEMMA CutNext ==
  ASSUME NEW cs, NEW p, NEW sorted, StableSort(cs, p, sorted),
         NEW ty \in 0..2, NEW m \in 0..(Len(cs) - 1), NEW q, Cut(cs, p, ty, m, q)
  PROVE  /\ CmdTy(cs[m + 1]) # ty => Cut(cs, p, ty, m + 1, q)
         /\ CmdTy(cs[m + 1]) = ty =>
              Cut(cs, p, ty, m + 1, q + 1) /\ q + 1 \in 1..Len(cs) /\ p[q + 1] = m + 1
<1> DEFINE n == Len(cs)
           type(i) == CmdTy(cs[p[i]])
<1>1. n \in Nat /\ DOMAIN cs = 1..n /\ DOMAIN sorted = 1..n /\ m + 1 \in 1..n
  BY DEF StableSort
<1>2. \A i \in 1..n : p[i] \in 1..n /\ type(i) \in 0..2
  <2>1. \A i \in 1..n : p[i] \in 1..n
    BY DEF Shuffles, StableSort
  <2>2. \A i \in 1..n : cs[p[i]] \in Payloads
    BY <1>1, <2>1 DEF StableSort
  <2> QED
    BY <2>1, <2>2, CmdTyTyped
<1>3. PICK k \in 1..n : p[k] = m + 1
  BY <1>1 DEF Shuffles, StableSort
<1>4. \A i \in 1..n : p[i] = m + 1 => i = k
  BY <1>3 DEF Shuffles, StableSort
<1>5. \A i \in 1..n : p[i] <= m + 1 <=> p[i] <= m \/ i = k
  BY <1>2, <1>3, <1>4
<1>6. type(k) = CmdTy(cs[m + 1])
  BY <1>3
<1>7. q \in 0..n /\ \A i \in 1..n : i <= q <=> type(i) < ty \/ (type(i) = ty /\ p[i] <= m)
  BY DEF Cut
<1>8. \A i, j \in 1..n : i < j => type(i) <= type(j)
  BY <1>1 DEF InOrder, StableSort
<1>9. \A i, j \in 1..n : i < j /\ type(i) = type(j) => p[i] < p[j]
  BY <1>1 DEF KeepsPlaces, StableSort
<1> HIDE DEF type, n
<1>10. ASSUME CmdTy(cs[m + 1]) # ty
       PROVE  \A i \in 1..n : i <= q <=> type(i) < ty \/ (type(i) = ty /\ p[i] <= m + 1)
  BY <1>5, <1>6, <1>7, <1>10
<1>11. ASSUME CmdTy(cs[m + 1]) = ty
       PROVE  /\ q + 1 = k
              /\ \A i \in 1..n : i <= q + 1 <=> type(i) < ty \/ (type(i) = ty /\ p[i] <= m + 1)
  <2>1. type(k) = ty /\ ~(p[k] <= m) /\ ~(type(k) < ty)
    BY <1>1, <1>3, <1>6, <1>11
  <2>2. ~(k <= q)
    BY <1>7, <2>1
  <2>3. q \in Nat /\ q + 1 \in 1..n
    BY <1>1, <1>7, <2>2
  <2>4. ASSUME q + 1 # k PROVE FALSE
    <3>1. q + 1 < k /\ ~(q + 1 <= q)
      BY <2>2, <2>3, <2>4
    <3>2. type(q + 1) <= ty
      BY <1>8, <2>1, <2>3, <3>1
    <3>3. type(q + 1) = ty
      BY <1>2, <1>7, <2>3, <3>1, <3>2
    <3>4. p[q + 1] < m + 1
      BY <1>3, <1>9, <2>1, <2>3, <3>1, <3>3
    <3>5. p[q + 1] <= m
      BY <1>2, <2>3, <3>4
    <3> QED
      BY <1>7, <2>3, <3>1, <3>3, <3>5
  <2>5. \A i \in 1..n : i <= q + 1 <=> i <= q \/ i = k
    BY <2>3, <2>4
  <2> QED
    BY <1>5, <1>7, <2>1, <2>4, <2>5
<1>12. CmdTy(cs[m + 1]) # ty => Cut(cs, p, ty, m + 1, q)
  BY <1>7, <1>10 DEF Cut, type, n
<1>13. ASSUME CmdTy(cs[m + 1]) = ty
       PROVE  Cut(cs, p, ty, m + 1, q + 1) /\ q + 1 \in 1..Len(cs) /\ p[q + 1] = m + 1
  <2>1. q + 1 = k /\ q + 1 \in 1..n /\ q + 1 \in 0..n
    BY <1>1, <1>11, <1>13
  <2> QED
    BY <1>3, <1>11, <1>13, <2>1 DEF Cut, type, n
<1> QED
  BY <1>12, <1>13

\* Where no step changes g, g is the same.
LEMMA NoChange ==
  ASSUME NEW a \in Nat, NEW b \in Nat, a <= b, NEW g,
         \A i \in (a + 1)..b : g[i] = g[i - 1]
  PROVE  g[b] = g[a]
<1> DEFINE n == b - a
           T == {k \in 0..n : g[a + k] # g[a]}
<1>1. n \in Nat /\ a + n = b /\ a + 0 = a
  OBVIOUS
<1>2. 0 \notin T /\ T \in SUBSET (0..n)
  BY <1>1
<1>3. ASSUME NEW k \in 0..n, k + 1 \in T PROVE k \in T
  <2>1. k + 1 \in 0..n /\ a + (k + 1) \in (a + 1)..b /\ (a + (k + 1)) - 1 = a + k
    BY <1>3
  <2>2. g[a + (k + 1)] = g[a + k]
    BY <2>1
  <2> QED
    BY <1>3, <2>2
<1>4. T = {}
  <2> HIDE DEF T, n
  <2> QED
    BY <1>1, <1>2, <1>3, NoneFalse
<1>5. n \in 0..n
  BY <1>1
<1> QED
  BY <1>1, <1>4, <1>5

-----------------------------------------------------------------------------
(***************************************************************************)
(* A run of the sorted commands ends as one of the commands as they were   *)
(* issued.                                                                 *)
(***************************************************************************)
\* After a command has failed nothing changes.
LEMMA FailedStays ==
  ASSUME NEW cs \in Seq(Payloads), NEW w, NEW run, IsRun(cs, w, run),
         NEW a \in 0..Len(cs), NEW b \in a..Len(cs), run[a].failed
  PROVE  run[b] = run[a]
<1> DEFINE n == b - a
           T == {k \in 0..n : run[a + k] # run[a]}
<1>1. n \in Nat /\ a + n = b /\ a + 0 = a /\ Len(cs) \in Nat
  OBVIOUS
<1>2. 0 \notin T /\ T \in SUBSET (0..n)
  BY <1>1
<1>3. ASSUME NEW k \in 0..n, k + 1 \in T PROVE k \in T
  <2>1. k + 1 \in 0..n /\ a + (k + 1) \in 1..Len(cs) /\ (a + (k + 1)) - 1 = a + k
    BY <1>1, <1>3
  <2>2. run[a + (k + 1)] = ApplyNext(run[a + k], cs[a + (k + 1)])
    BY <2>1 DEF IsRun
  <2>3. run[a + k] = run[a] => run[a + (k + 1)] = run[a]
    BY <2>2 DEF ApplyNext
  <2> QED
    BY <1>3, <2>3
<1>4. T = {}
  <2> HIDE DEF T, n
  <2> QED
    BY <1>1, <1>2, <1>3, NoneFalse
<1>5. n \in 0..n
  BY <1>1
<1>6. run[a + n] = run[a]
  BY <1>4, <1>5
<1> HIDE DEF n, T
<1> QED
  BY <1>1, <1>6

LEMMA SortFactsAgain ==
  ASSUME NEW cs, NEW p, NEW sorted, StableSort(cs, p, sorted),
         NEW w, NEW R, IsRun(cs, w, R), NEW S, IsRun(sorted, w, S)
  PROVE  /\ Len(cs) \in Nat
         /\ \A i \in 0..Len(cs) : R[i] \in Results /\ S[i] \in Results
         /\ R[0] = Start(w) /\ S[0] = Start(w)
         /\ \A i \in 1..Len(cs) :
              /\ p[i] \in 1..Len(cs) /\ sorted[i] = cs[p[i]]
              /\ cs[i] \in Payloads /\ sorted[i] \in Payloads
              /\ R[i - 1] \in Results /\ R[i] = ApplyNext(R[i - 1], cs[i])
              /\ S[i - 1] \in Results /\ S[i] = ApplyNext(S[i - 1], sorted[i])
<1>1. Len(cs) \in Nat /\ Len(sorted) = Len(cs) /\ cs \in Seq(Payloads) /\ sorted \in Seq(Payloads)
  BY DEF StableSort
<1>2. \A i \in 0..Len(cs) : R[i] \in Results /\ S[i] \in Results
  BY <1>1 DEF IsRun
<1>3. \A i \in 1..Len(cs) : i - 1 \in 0..Len(cs) /\ p[i] \in 1..Len(cs) /\ sorted[i] = cs[p[i]]
  BY <1>1 DEF StableSort, Shuffles
<1>4. \A i \in 1..Len(cs) : cs[i] \in Payloads /\ sorted[i] \in Payloads
  BY <1>1
<1> QED
  BY <1>1, <1>2, <1>3, <1>4 DEF IsRun

LEMMA SortedEntities ==
  ASSUME NEW cs, NEW p, NEW sorted, StableSort(cs, p, sorted),
         NEW w, NEW R, IsRun(cs, w, R), NEW S, IsRun(sorted, w, S)
  PROVE  \E q : /\ Cut(cs, p, 0, Len(cs), q)
                /\ Entities(R[Len(cs)]) = Entities(S[q]) /\ Entities(S[Len(cs)]) = Entities(S[q])
<1> DEFINE n == Len(cs)
           T == {m \in 0..n : ~\E q : Cut(cs, p, 0, m, q) /\ Entities(R[m]) = Entities(S[q])}
<1>1. /\ n \in Nat
      /\ \A i \in 0..n : R[i] \in Results /\ S[i] \in Results
      /\ R[0] = Start(w) /\ S[0] = Start(w)
      /\ \A i \in 1..n : /\ p[i] \in 1..n /\ sorted[i] = cs[p[i]]
                         /\ cs[i] \in Payloads /\ sorted[i] \in Payloads
                         /\ R[i - 1] \in Results /\ R[i] = ApplyNext(R[i - 1], cs[i])
                         /\ S[i - 1] \in Results /\ S[i] = ApplyNext(S[i - 1], sorted[i])
  BY SortFactsAgain
<1>2. 0 \notin T
  <2>1. \A i \in 1..n : CmdTy(cs[p[i]]) \in 0..2 /\ p[i] \in 1..n
    BY <1>1, CmdTyTyped
  <2>2. \A i \in 1..n : ~(i <= 0) /\ ~(CmdTy(cs[p[i]]) < 0) /\ ~(p[i] <= 0)
    <3>1. \A i \in 1..n : i \in Nat /\ i # 0
      BY <1>1
    <3>2. \A i \in 1..n : p[i] \in Nat /\ p[i] # 0
      BY <2>1, <3>1
    <3> HIDE DEF n
    <3> QED
      BY <2>1, <3>1, <3>2
  <2>3. Cut(cs, p, 0, 0, 0)
    BY <1>1, <2>2 DEF Cut
  <2> QED
    BY <1>1, <2>3
<1>3. ASSUME NEW m \in 0..n, m + 1 \in T PROVE m \in T
  <2> SUFFICES ASSUME NEW q, Cut(cs, p, 0, m, q), Entities(R[m]) = Entities(S[q])
               PROVE  FALSE
    OBVIOUS
  <2>1. m + 1 \in 1..n /\ m \in 0..(n - 1) /\ (m + 1) - 1 = m /\ m + 1 \in 0..n
    BY <1>1, <1>3
  <2>2. R[m + 1] = ApplyNext(R[m], cs[m + 1]) /\ cs[m + 1] \in Payloads /\ R[m] \in Results
    BY <1>1, <2>1
  <2>3. CASE CmdTy(cs[m + 1]) # 0
    <3>1. Entities(R[m + 1]) = Entities(R[m])
      BY <2>2, <2>3, OthersLeaveEntities
    <3>2. Cut(cs, p, 0, m + 1, q)
      BY <2>1, <2>3, CutNext
    <3> QED
      BY <1>3, <2>1, <3>1, <3>2
  <2>4. CASE CmdTy(cs[m + 1]) = 0
    <3>1. Cut(cs, p, 0, m + 1, q + 1) /\ q + 1 \in 1..n /\ p[q + 1] = m + 1
      BY <2>1, <2>4, CutNext
    <3>2. q \in Nat /\ (q + 1) - 1 = q
      BY <1>1 DEF Cut
    <3>3. S[q + 1] = ApplyNext(S[q], cs[m + 1]) /\ S[q] \in Results
      BY <1>1, <3>1, <3>2
    <3>4. Entities(R[m + 1]) = Entities(S[q + 1])
      BY <2>2, <2>4, <3>3, EntityCommandSame
    <3> QED
      BY <1>3, <2>1, <3>1, <3>4
  <2> QED
    BY <2>3, <2>4
<1>4. T = {}
  <2>1. T \in SUBSET (0..n)
    OBVIOUS
  <2> HIDE DEF T
  <2> QED
    BY <1>1, <1>2, <1>3, <2>1, NoneFalse
<1>5. PICK q : Cut(cs, p, 0, n, q) /\ Entities(R[n]) = Entities(S[q])
  <2>1. n \in 0..n
    BY <1>1
  <2> QED
    BY <1>4, <2>1
<1>6. q \in 0..n /\ q \in Nat /\ q <= n
  BY <1>1, <1>5 DEF Cut
<1> DEFINE g == [i \in 0..n |-> Entities(S[i])]
<1>7. ASSUME NEW i \in (q + 1)..n PROVE g[i] = g[i - 1]
  <2>1. i \in 1..n /\ ~(i <= q) /\ i \in 0..n /\ i - 1 \in 0..n
    BY <1>1, <1>6
  <2>2. p[i] <= n /\ sorted[i] = cs[p[i]] /\ sorted[i] \in Payloads
        /\ S[i] = ApplyNext(S[i - 1], sorted[i]) /\ S[i - 1] \in Results
    BY <1>1, <2>1
  <2>3. CmdTy(sorted[i]) # 0
    BY <1>5, <2>1, <2>2 DEF Cut
  <2>4. Entities(S[i]) = Entities(S[i - 1])
    BY <2>2, <2>3, OthersLeaveEntities
  <2> QED
    BY <2>1, <2>4
<1>8. g[n] = g[q]
  <2> HIDE DEF g
  <2> QED
    BY <1>1, <1>6, <1>7, NoChange
<1>9. g[n] = Entities(S[n]) /\ g[q] = Entities(S[q])
  BY <1>1, <1>6
<1> QED
  BY <1>5, <1>8, <1>9

LEMMA SortedResource ==
  ASSUME NEW cs, NEW p, NEW sorted, StableSort(cs, p, sorted),
         NEW w, NEW R, IsRun(cs, w, R), NEW S, IsRun(sorted, w, S),
         \A i \in 0..Len(cs) : ~R[i].failed /\ ~S[i].failed,
         NEW q0, Cut(cs, p, 0, Len(cs), q0)
  PROVE  R[Len(cs)].world.resource = S[Len(cs)].world.resource
<1> DEFINE n == Len(cs)
           res(r) == r.world.resource
           T == {m \in 0..n : ~\E q : Cut(cs, p, 1, m, q) /\ res(R[m]) = res(S[q])}
           g == [i \in 0..n |-> res(S[i])]
<1>1. /\ n \in Nat
      /\ \A i \in 0..n : R[i] \in Results /\ S[i] \in Results
      /\ R[0] = Start(w) /\ S[0] = Start(w)
      /\ \A i \in 1..n : /\ p[i] \in 1..n /\ sorted[i] = cs[p[i]]
                         /\ cs[i] \in Payloads /\ sorted[i] \in Payloads
                         /\ R[i - 1] \in Results /\ R[i] = ApplyNext(R[i - 1], cs[i])
                         /\ S[i - 1] \in Results /\ S[i] = ApplyNext(S[i - 1], sorted[i])
  BY SortFactsAgain
<1>2. \A i \in 1..n : CmdTy(cs[p[i]]) \in 0..2 /\ CmdTy(cs[i]) \in 0..2
  BY <1>1, CmdTyTyped
<1>3. \A i \in 1..n : i - 1 \in 0..n /\ i \in 0..n
  BY <1>1
<1>4. ASSUME NEW r \in Results, NEW c \in Payloads, CmdTy(c) # 1
      PROVE  res(ApplyNext(r, c)) = res(r)
  BY <1>4, OthersLeaveEntities, EntityCommandSame
<1>5. ASSUME NEW r \in Results, NEW c \in Payloads, CmdTy(c) = 1, ~r.failed
      PROVE  res(ApplyNext(r, c)) = c.value
  BY <1>5, OthersLeaveEntities
<1> HIDE DEF res
<1>6. 0 \notin T
  <2>1. q0 \in 0..n /\ q0 \in Nat
    BY <1>1 DEF Cut
  <2>2. ASSUME NEW i \in 1..n
        PROVE  i <= q0 <=> CmdTy(cs[p[i]]) < 1 \/ (CmdTy(cs[p[i]]) = 1 /\ p[i] <= 0)
    <3>1. i <= q0 <=> CmdTy(cs[p[i]]) < 0 \/ (CmdTy(cs[p[i]]) = 0 /\ p[i] <= n)
      BY DEF Cut
    <3>2. p[i] \in 1..n /\ CmdTy(cs[p[i]]) \in 0..2
      BY <1>1, <1>2
    <3> HIDE DEF n
    <3> QED
      BY <1>1, <3>1, <3>2
  <2>3. Cut(cs, p, 1, 0, q0)
    BY <2>1, <2>2 DEF Cut
  <2>4. ASSUME NEW i \in (0 + 1)..q0 PROVE g[i] = g[i - 1]
    <3>1. i \in 1..n /\ i <= q0
      BY <1>1, <2>1
    <3>2. CmdTy(sorted[i]) # 1
      <4>1. p[i] \in 1..n /\ ~(p[i] <= 0) /\ sorted[i] = cs[p[i]]
        BY <1>1, <3>1
      <4>2. CmdTy(cs[p[i]]) < 1
        BY <2>2, <3>1, <4>1
      <4>3. CmdTy(cs[p[i]]) \in 0..2
        BY <1>2, <3>1
      <4> QED
        BY <4>1, <4>2, <4>3
    <3>3. res(S[i]) = res(S[i - 1])
      BY <1>1, <1>4, <3>1, <3>2
    <3> QED
      BY <1>3, <3>1, <3>3
  <2>5. g[q0] = g[0]
    <3> HIDE DEF g
    <3> QED
      BY <2>1, <2>4, NoChange
  <2>6. res(S[q0]) = res(R[0])
    BY <1>1, <2>1, <2>5
  <2> QED
    BY <2>3, <2>6
<1>7. ASSUME NEW m \in 0..n, m + 1 \in T PROVE m \in T
  <2> SUFFICES ASSUME NEW q, Cut(cs, p, 1, m, q), res(R[m]) = res(S[q])
               PROVE  FALSE
    OBVIOUS
  <2>1. m + 1 \in 1..n /\ m \in 0..(n - 1) /\ (m + 1) - 1 = m /\ m + 1 \in 0..n
    BY <1>1, <1>7
  <2>2. /\ R[m + 1] = ApplyNext(R[m], cs[m + 1]) /\ cs[m + 1] \in Payloads
        /\ R[m] \in Results /\ ~R[m].failed
    BY <1>1, <2>1
  <2>3. CASE CmdTy(cs[m + 1]) # 1
    <3>1. res(R[m + 1]) = res(R[m])
      BY <1>4, <2>2, <2>3
    <3>2. Cut(cs, p, 1, m + 1, q)
      BY <2>1, <2>3, CutNext
    <3> QED
      BY <1>7, <2>1, <3>1, <3>2
  <2>4. CASE CmdTy(cs[m + 1]) = 1
    <3>1. Cut(cs, p, 1, m + 1, q + 1) /\ q + 1 \in 1..n /\ p[q + 1] = m + 1
      BY <2>1, <2>4, CutNext
    <3>2. q \in Nat /\ (q + 1) - 1 = q /\ q \in 0..n
      BY <1>1 DEF Cut
    <3>3. S[q + 1] = ApplyNext(S[q], cs[m + 1]) /\ S[q] \in Results /\ ~S[q].failed
      BY <1>1, <3>1, <3>2
    <3>4. res(R[m + 1]) = res(S[q + 1])
      BY <1>5, <2>2, <2>4, <3>3
    <3> QED
      BY <1>7, <2>1, <3>1, <3>4
  <2> QED
    BY <2>3, <2>4
<1>8. T = {}
  <2>1. T \in SUBSET (0..n)
    OBVIOUS
  <2> HIDE DEF T
  <2> QED
    BY <1>1, <1>6, <1>7, <2>1, NoneFalse
<1>9. PICK q : Cut(cs, p, 1, n, q) /\ res(R[n]) = res(S[q])
  <2>1. n \in 0..n
    BY <1>1
  <2> QED
    BY <1>8, <2>1
<1>10. q \in 0..n /\ q \in Nat /\ q <= n
  BY <1>1, <1>9 DEF Cut
<1>11. ASSUME NEW i \in (q + 1)..n PROVE g[i] = g[i - 1]
  <2>1. i \in 1..n /\ ~(i <= q)
    BY <1>1, <1>10
  <2>2. CmdTy(sorted[i]) # 1
    BY <1>1, <1>9, <2>1 DEF Cut
  <2>3. res(S[i]) = res(S[i - 1])
    BY <1>1, <1>4, <2>1, <2>2
  <2> QED
    BY <1>3, <2>1, <2>3
<1>12. g[n] = g[q]
  <2> HIDE DEF g
  <2> QED
    BY <1>1, <1>10, <1>11, NoChange
<1>13. res(S[n]) = res(S[q])
  <2>1. g[n] = res(S[n]) /\ g[q] = res(S[q])
    BY <1>1, <1>10
  <2> QED
    BY <1>12, <2>1
<1> QED
  BY <1>9, <1>13 DEF res

LEMMA SortedRunEnds ==
  ASSUME NEW cs, NEW p, NEW sorted, StableSort(cs, p, sorted),
         NEW w, NEW R, IsRun(cs, w, R), NEW S, IsRun(sorted, w, S)
  PROVE  LET n == Len(cs) IN
           /\ Entities(R[n]) = Entities(S[n])
           /\ ~S[n].failed => R[n].world = S[n].world
<1> DEFINE n == Len(cs)
<1>1. PICK q : Cut(cs, p, 0, n, q) /\ Entities(R[n]) = Entities(S[q]) /\ Entities(S[n]) = Entities(S[q])
  BY SortedEntities
<1>2. Entities(R[n]) = Entities(S[n])
  BY <1>1
<1>3. n \in Nat /\ R[n] \in Results /\ S[n] \in Results
  <2>1. n \in Nat /\ n \in 0..n
    BY SortFactsAgain
  <2> QED
    BY <2>1, SortFactsAgain
<1>4. ASSUME ~S[n].failed PROVE R[n].world = S[n].world
  <2>1. ~R[n].failed
    BY <1>2, <1>4 DEF Entities
  <2>2. ASSUME NEW i \in 0..n PROVE ~R[i].failed /\ ~S[i].failed
    <3>1. n \in i..n /\ cs \in Seq(Payloads) /\ sorted \in Seq(Payloads) /\ Len(sorted) = n
      BY <1>3 DEF StableSort
    <3>2. R[i].failed => R[n] = R[i]
      BY <3>1, FailedStays
    <3>3. S[i].failed => S[n] = S[i]
      BY <3>1, FailedStays
    <3> QED
      BY <1>4, <2>1, <3>2, <3>3
  <2>3. R[n].world.resource = S[n].world.resource
    BY <1>1, <2>2, SortedResource
  <2>4. R[n].world.status = S[n].world.status /\ R[n].world.data = S[n].world.data
    BY <1>2 DEF Entities
  <2> HIDE DEF n
  <2> QED
    BY <1>3, <2>3, <2>4, ResultFields
<1> QED
  BY <1>2, <1>4

-----------------------------------------------------------------------------
(***************************************************************************)
(* How far a batch has come: the commands applied are the first of the     *)
(* sorted ones, and the world is as they leave it.                         *)
(***************************************************************************)
\* The batch is what is left of sorted after the first k commands.
LeftOf(sorted, k) ==
  /\ k \in 0..Len(sorted) /\ Len(batch) = Len(sorted) - k
  /\ \A j \in 1..(Len(sorted) - k) : batch[j] = sorted[k + j]

BatchRun(p, sorted, run, k) ==
  /\ sorted \in Seq(Payloads) /\ Len(sorted) = Len(issued.commands) /\ InOrder(sorted)
  /\ Shuffles(Len(issued.commands), p)
  /\ \A i \in 1..Len(issued.commands) : sorted[i] = issued.commands[p[i]]
  /\ KeepsEqual(issued.commands) => KeepsPlaces(issued.commands, p)
  /\ IsRun(sorted, issued.world, run)
  /\ LeftOf(sorted, k)
  /\ ~run[k].failed /\ world = run[k].world

Progress ==
  applying => DataLive(issued.world) /\ \E p, sorted, run, k : BatchRun(p, sorted, run, k)

LEMMA ProgressStarts ==
  ASSUME IInv, StartBatch
  PROVE  Progress'
<1> DEFINE cs == FlattenSeq(buffers)
<1>1. batch' \in SortCommands(cs) /\ issued' = [commands |-> cs, world |-> world] /\ world' = world
  BY DEF StartBatch
<1>2. buffers \in Seq(Seq(Payloads)) /\ world \in Worlds /\ DataLive(world)
  BY DEF IInv, Sequences, TypeOK, DataLive
<1>3. cs \in Seq(Payloads)
  BY <1>2, FlattenPlaces
<1> HIDE DEF cs
<1>4. batch' \in Seq(Payloads) /\ Len(batch') = Len(cs) /\ InOrder(batch')
  BY <1>1, <1>3, SortFacts
<1>5. PICK p : /\ Shuffles(Len(cs), p)
               /\ \A i \in 1..Len(cs) : batch'[i] = cs[p[i]]
               /\ KeepsEqual(cs) => KeepsPlaces(cs, p)
  BY <1>1, <1>3, SortFacts
<1>6. PICK run : IsRun(batch', world, run)
  BY <1>2, <1>4, FoldIsRun
<1>7. run[0] = Start(world)
  BY <1>6 DEF IsRun
<1>8. ~run[0].failed /\ world = run[0].world
  BY <1>7 DEF Start
<1>9. LeftOf(batch, 0)'
  <2>1. Len(batch') \in Nat /\ Len(batch') - 0 = Len(batch')
        /\ \A j \in 1..Len(batch') : 0 + j = j
    BY <1>4
  <2> QED
    BY <2>1 DEF LeftOf
<1>10. issued'.commands = cs /\ issued'.world = world
  BY <1>1
<1>11. BatchRun(p, batch, run, 0)'
  BY <1>1, <1>4, <1>5, <1>6, <1>8, <1>9, <1>10 DEF BatchRun
<1>12. \E sorted : BatchRun(p, sorted, run, 0)'
  BY <1>11 DEF BatchRun, LeftOf
<1> QED
  BY <1>2, <1>10, <1>12 DEF Progress

\* The run is at the world, and its next command is that of the batch.
Reached(sorted, run, k) ==
  /\ Len(sorted) \in Nat /\ k \in 0..Len(sorted)
  /\ run[k] = [failed |-> FALSE, world |-> world]
  /\ batch = <<>> <=> k = Len(sorted)
  /\ batch # <<>> => /\ k + 1 \in 1..Len(sorted) /\ Head(batch) = sorted[k + 1]
                     /\ run[k + 1] = ApplyNext(run[k], sorted[k + 1])

LEMMA RunReached ==
  ASSUME IInv, applying, NEW p, NEW sorted, NEW run, NEW k, BatchRun(p, sorted, run, k)
  PROVE  Reached(sorted, run, k)
<1>1. batch \in Seq(Payloads) /\ sorted \in Seq(Payloads)
  BY BatchFacts DEF BatchRun
<1>2. k \in 0..Len(sorted) /\ Len(batch) = Len(sorted) - k /\ Len(sorted) \in Nat
  BY <1>1 DEF BatchRun, LeftOf
<1>3. run[k] \in Results /\ run[k] = [failed |-> FALSE, world |-> world]
  <2>1. run[k] \in Results /\ ~run[k].failed /\ world = run[k].world
    BY <1>2 DEF BatchRun, IsRun
  <2> QED
    BY <2>1, ResultFields
<1>4. batch = <<>> <=> Len(batch) = 0
  BY <1>1, EmptySeq
<1>5. ASSUME batch # <<>>
      PROVE  /\ k + 1 \in 1..Len(sorted) /\ Head(batch) = sorted[k + 1]
             /\ run[k + 1] = ApplyNext(run[k], sorted[k + 1])
  <2>1. k + 1 \in 1..Len(sorted) /\ (k + 1) - 1 = k /\ 1 \in 1..(Len(sorted) - k)
    BY <1>1, <1>2, <1>4, <1>5
  <2>2. Head(batch) = batch[1]
    BY <1>1, <1>5
  <2> QED
    BY <2>1, <2>2 DEF BatchRun, LeftOf, IsRun
<1> QED
  BY <1>2, <1>3, <1>4, <1>5 DEF Reached

LEMMA ProgressApplies ==
  ASSUME IInv, Progress, Apply
  PROVE  Progress'
<1>1. /\ applying /\ batch # <<>> /\ ~Fails(Head(batch), world)
      /\ world' = Effect(Head(batch), world) /\ batch' = Tail(batch)
      /\ issued' = issued
  BY DEF Apply
<1>2. PICK p, sorted, run, k : BatchRun(p, sorted, run, k)
  BY <1>1 DEF Progress
<1>3. /\ Len(sorted) \in Nat /\ k \in 0..Len(sorted)
      /\ run[k] = [failed |-> FALSE, world |-> world]
      /\ k + 1 \in 1..Len(sorted) /\ Head(batch) = sorted[k + 1]
      /\ run[k + 1] = ApplyNext(run[k], sorted[k + 1])
  <2>1. Reached(sorted, run, k)
    BY <1>1, <1>2, RunReached
  <2> QED
    BY <1>1, <2>1 DEF Reached
<1>4. run[k + 1] = [failed |-> FALSE, world |-> world']
  <2> DEFINE r == run[k]
             c == sorted[k + 1]
  <2>1. ~r.failed /\ r.world = world /\ ~Fails(c, world) /\ world' = Effect(c, world)
    BY <1>1, <1>3
  <2> HIDE DEF r, c
  <2>2. ApplyNext(r, c) = [r EXCEPT !.world = world']
    BY <2>1 DEF ApplyNext
  <2>3. r = [failed |-> FALSE, world |-> world]
    BY <1>3 DEF r
  <2>4. ApplyNext(r, c) = [failed |-> FALSE, world |-> world']
    BY <2>2, <2>3
  <2> QED
    BY <1>1, <1>3, <2>4 DEF r, c
<1>5. LeftOf(sorted, k + 1)'
  <2>1. batch \in Seq(Payloads) /\ Len(batch) = Len(sorted) - k
        /\ \A j \in 1..(Len(sorted) - k) : batch[j] = sorted[k + j]
    BY <1>1, <1>2, BatchFacts DEF BatchRun, LeftOf
  <2>2. /\ Len(batch') = Len(batch) - 1
        /\ \A j \in 1..(Len(batch) - 1) : batch'[j] = batch[j + 1]
    BY <1>1, <2>1, HeadTailProperties
  <2>3. k \in Nat /\ k + 1 \in 0..Len(sorted) /\ Len(batch') = Len(sorted) - (k + 1)
    BY <1>1, <1>3, <2>1, <2>2
  <2>4. ASSUME NEW j \in 1..(Len(sorted) - (k + 1)) PROVE batch'[j] = sorted[(k + 1) + j]
    <3>1. j \in 1..(Len(batch) - 1) /\ j + 1 \in 1..(Len(sorted) - k) /\ k + (j + 1) = (k + 1) + j
      <4> DEFINE l == Len(sorted)
      <4>1. l \in Nat /\ Len(batch) = l - k /\ j \in 1..(l - (k + 1))
        BY <1>3, <2>1
      <4> HIDE DEF l
      <4>2. j \in Nat
        BY <2>3, <4>1
      <4> QED
        BY <2>3, <4>1, <4>2 DEF l
    <3> QED
      BY <2>1, <2>2, <3>1
  <2> QED
    BY <2>3, <2>4 DEF LeftOf
<1>6. BatchRun(p, sorted, run, k + 1)'
  BY <1>1, <1>2, <1>4, <1>5 DEF BatchRun
<1>7. DataLive(issued.world)
  BY <1>1 DEF Progress
<1> QED
  BY <1>1, <1>6, <1>7 DEF Progress

LEMMA ProgressKept == IInv /\ Progress /\ [Next]_vars => Progress'
<1> SUFFICES ASSUME IInv, Progress, [Next]_vars PROVE Progress'
  OBVIOUS
<1>1. CASE StartBatch
  BY <1>1, ProgressStarts
<1>2. CASE Apply
  BY <1>2, ProgressApplies
<1>3. CASE UNCHANGED vars
  BY <1>3 DEF vars, Progress, applying, BatchRun, LeftOf
<1>4. CASE FailBatch \/ FinishBatch
  BY <1>4 DEF FailBatch, FinishBatch, EndBatch, Progress, applying
<1>5. CASE EnsureCommands \/ ConditionsHold \/ ConditionsFail
           \/ (\E n \in 0..MaxSystems : ExecuteStage(n))
           \/ (\E s \in left : StartSystem(s) \/ RunInside(s))
  BY <1>5 DEF EnsureCommands, ConditionsHold, ConditionsFail, ExecuteStage, StartSystem, RunInside,
              Progress, applying
<1>6. CASE (\E c \in Written : Issue(c)) \/ (\E e \in Ids : ReserveId(e))
  <2>1. writer \in Buffers /\ mode' = mode
    BY <1>6 DEF Issue, ReserveId, CanReserve, running
  <2>2. 0 \notin Buffers
    BY BuffersTyped DEF IInv, Sequences, Buffers
  <2>3. ~applying /\ ~applying'
    BY <2>1, <2>2 DEF IInv, Phases, applying
  <2> QED
    BY <2>3 DEF Progress
<1> QED
  BY <1>1, <1>2, <1>3, <1>4, <1>5, <1>6 DEF Next

\* Where the batch ends, AsIssued ends alike.
LEMMA EndsAsIssued ==
  ASSUME IInv, Progress, applying, KeepsEqual(issued.commands)
  PROVE  /\ FinishBatch => world = AsIssued.world /\ ~AsIssued.failed
         /\ FailBatch => world.data = AsIssued.world.data /\ AsIssued.failed
<1> DEFINE cs == issued.commands
           n == Len(cs)
<1>1. PICK p, sorted, S, k : BatchRun(p, sorted, S, k)
  BY DEF Progress
<1>2. cs \in Seq(Payloads) /\ issued.world \in Worlds /\ DataLive(issued.world)
  BY DEF IInv, Sequences, Progress
<1>3. PICK R : IsRun(cs, issued.world, R) /\ FoldLeft(ApplyNext, Start(issued.world), cs) = R[n]
  BY <1>2, FoldIsRun
<1>4. AsIssued = R[n]
  BY <1>3 DEF AsIssued, Start
<1>5. StableSort(cs, p, sorted) /\ IsRun(sorted, issued.world, S) /\ Len(sorted) = n
  BY <1>1, <1>2 DEF BatchRun, StableSort
<1>6. /\ Entities(R[n]) = Entities(S[n])
      /\ ~S[n].failed => R[n].world = S[n].world
  BY <1>3, <1>5, SortedRunEnds
<1>7. /\ n \in Nat /\ k \in 0..n
      /\ S[k] = [failed |-> FALSE, world |-> world]
      /\ batch = <<>> <=> k = n
      /\ batch # <<>> => /\ k + 1 \in 1..n /\ Head(batch) = sorted[k + 1]
                         /\ S[k + 1] = ApplyNext(S[k], sorted[k + 1])
  <2>1. Reached(sorted, S, k)
    BY <1>1, RunReached
  <2> QED
    BY <1>5, <2>1 DEF Reached
<1> HIDE DEF n
<1>8. ASSUME FinishBatch PROVE world = AsIssued.world /\ ~AsIssued.failed
  <2>1. k = n
    BY <1>7, <1>8 DEF FinishBatch
  <2>2. ~S[n].failed /\ S[n].world = world
    BY <1>7, <2>1
  <2>3. R[n].world = world /\ ~R[n].failed
    BY <1>6, <2>2 DEF Entities
  <2> QED
    BY <1>4, <2>3
<1>9. ASSUME FailBatch PROVE world.data = AsIssued.world.data /\ AsIssued.failed
  <2>1. /\ k + 1 \in 1..n /\ Fails(sorted[k + 1], world)
        /\ S[k + 1] = ApplyNext(S[k], sorted[k + 1])
    BY <1>7, <1>9 DEF FailBatch
  <2>2. S[k + 1] = [failed |-> TRUE, world |-> world]
    <3> DEFINE r == S[k]
               c == sorted[k + 1]
    <3>1. r = [failed |-> FALSE, world |-> world] /\ Fails(c, world)
      BY <1>7, <2>1
    <3>2. S[k + 1] = ApplyNext(r, c)
      BY <2>1
    <3> HIDE DEF r, c
    <3>3. ~r.failed /\ r.world = world
      BY <3>1
    <3>4. ApplyNext(r, c) = [r EXCEPT !.failed = TRUE]
      BY <3>1, <3>3 DEF ApplyNext
    <3> QED
      BY <3>1, <3>2, <3>4
  <2>3. sorted \in Seq(Payloads) /\ k + 1 \in 0..Len(sorted) /\ n \in (k + 1)..Len(sorted)
    BY <1>5, <1>7, <2>1 DEF StableSort
  <2>4. S[n] = S[k + 1]
    BY <1>5, <2>2, <2>3, FailedStays
  <2>5. S[n].failed /\ S[n].world.data = world.data
    BY <2>2, <2>4
  <2>6. R[n].failed /\ R[n].world.data = world.data
    BY <1>6, <2>5 DEF Entities
  <2> QED
    BY <1>4, <2>6
<1> QED
  BY <1>8, <1>9

(***************************************************************************)
(* A batch that sort_unstable does not reorder, because it is short or in  *)
(* order already, does what its commands do one after the other: it fails  *)
(* if they fail, with the same entities, and otherwise leaves the same     *)
(* world, although all entity commands have moved before the others.       *)
(***************************************************************************)
THEOREM SortKeepsMeaning == Spec => BatchAsIssued
<1>1. Init => Progress
  BY DEF Init, Progress, applying
<1>2. IInv /\ Progress /\ [Next]_vars =>
        [applying /\ KeepsEqual(issued.commands) =>
           /\ FinishBatch => world = AsIssued.world /\ ~AsIssued.failed
           /\ FailBatch => world.data = AsIssued.world.data /\ AsIssued.failed]_vars
  BY EndsAsIssued
<1> QED
  BY <1>1, <1>2, InitHolds, StepKeeps, ProgressKept, PTL DEF Spec, BatchAsIssued

=============================================================================
