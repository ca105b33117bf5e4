---------------------------- MODULE WorldProofs ----------------------------
(***************************************************************************)
(* Proofs about World, for every set of entities, components and values:   *)
(* the index and the tables agree whatever moves between tables, and the   *)
(* World implements the abstract entity store.                             *)
(*                                                                         *)
(* Every operation that moves entities is a sequence of a few edits: an    *)
(* entity leaves its row, is put at the end of a table, takes over the row *)
(* of another one, has values replaced; an empty table is made or dropped. *)
(* The first part shows what each edit does to an index and tables that    *)
(* agree, the second one that the operations are such sequences.           *)
(***************************************************************************)
EXTENDS World, FiniteSetTheorems, TLAPS

(***************************************************************************)
(* What the callers stay clear of.  Runs with a violation show that the    *)
(* first two break what is proved here; vacuum and clone drop the staging  *)
(* tables, in use or not.  Batches may fail.                               *)
(***************************************************************************)
Careful == {"same_archetype", "duplicate_archetype", "vacuum_in_use"} \subseteq Avoid

\* A table with columns for ty.
Table(ty) ==
  {t \in [entities : Seq(Entities), columns : [ty -> Seq(Values)]] :
     \A c \in ty : Len(t.columns[c]) = Len(t.entities)}

Shape(tb) == \A p \in DOMAIN tb : tb[p] \in Table(p[1])

\* IndexAgrees of any set of live entities L, index lo and tables tb.
RowsFound(L, lo, tb) ==
  \A e \in L :
    /\ lo[e].table \in DOMAIN tb
    /\ lo[e].row \in DOMAIN tb[lo[e].table].entities
    /\ tb[lo[e].table].entities[lo[e].row] = e

RowsTrue(L, lo, tb) ==
  \A p \in DOMAIN tb : \A row \in DOMAIN tb[p].entities :
    /\ tb[p].entities[row] \in L
    /\ lo[tb[p].entities[row]] = [table |-> p, row |-> row]

Good(L, lo, tb) == L \subseteq Entities /\ Shape(tb) /\ RowsFound(L, lo, tb) /\ RowsTrue(L, lo, tb)

\* The components of e.
At(lo, tb, e) == RowOf(tb[lo[e].table], lo[e].row)

\* The entities of S have the components they had.
SameAt(S, lo, tb, lo2, tb2) == \A x \in S : At(lo2, tb2, x) = At(lo, tb, x)
-----------------------------------------------------------------------------
(***************************************************************************)
(* Tables.                                                                 *)
(***************************************************************************)
LEMMA SwapRemoveFacts ==
  ASSUME NEW S, NEW s \in Seq(S), NEW row \in 1..Len(s)
  PROVE  /\ SwapRemove(s, row) \in Seq(S)
         /\ Len(SwapRemove(s, row)) = Len(s) - 1
         /\ \A i \in 1..(Len(s) - 1) :
              SwapRemove(s, row)[i] = IF i = row THEN s[Len(s)] ELSE s[i]
<1>1. Len(s) \in Nat /\ Len(s) - 1 \in Nat
  OBVIOUS
<1>2. \A i \in 1..(Len(s) - 1) : i \in 1..Len(s) /\ Len(s) \in 1..Len(s)
  BY <1>1
<1> QED
  BY <1>1, <1>2 DEF SwapRemove

LEMMA TableFacts ==
  ASSUME NEW ty, NEW t \in Table(ty)
  PROVE  /\ t.entities \in Seq(Entities) /\ Len(t.entities) \in Nat
         /\ DOMAIN t.entities = 1..Len(t.entities)
         /\ DOMAIN t.columns = ty
         /\ \A c \in ty : t.columns[c] \in Seq(Values) /\ Len(t.columns[c]) = Len(t.entities)
         /\ t = [entities |-> t.entities, columns |-> t.columns]
BY DEF Table

\* A record of full columns is a table.
LEMMA IsTable ==
  ASSUME NEW ty, NEW es \in Seq(Entities), NEW cs, cs = [c \in ty |-> cs[c]],
         \A c \in ty : cs[c] \in Seq(Values) /\ Len(cs[c]) = Len(es)
  PROVE  [entities |-> es, columns |-> cs] \in Table(ty)
BY DEF Table

LEMMA EmptyTableFacts ==
  ASSUME NEW ty
  PROVE  EmptyTable(ty) \in Table(ty) /\ EmptyTable(ty).entities = <<>>
BY DEF Table, EmptyTable

(***************************************************************************)
(* The last row takes the place of the removed one, in all columns.        *)
(***************************************************************************)
LEMMA RemoveRowFacts ==
  ASSUME NEW ty, NEW t \in Table(ty), NEW row \in 1..Len(t.entities)
  PROVE  /\ RemoveRow(t, row) \in Table(ty)
         /\ Len(RemoveRow(t, row).entities) = Len(t.entities) - 1
         /\ DOMAIN RemoveRow(t, row).entities = 1..(Len(t.entities) - 1)
         /\ \A i \in 1..(Len(t.entities) - 1) :
              RemoveRow(t, row).entities[i] =
                IF i = row THEN t.entities[Len(t.entities)] ELSE t.entities[i]
         /\ \A i \in 1..(Len(t.entities) - 1) :
              RowOf(RemoveRow(t, row), i) =
                IF i = row THEN RowOf(t, Len(t.entities)) ELSE RowOf(t, i)
<1> DEFINE r == RemoveRow(t, row)
           es == SwapRemove(t.entities, row)
           cs == [c \in ty |-> SwapRemove(t.columns[c], row)]
<1>1. r = [entities |-> es, columns |-> cs]
  BY TableFacts DEF RemoveRow
<1>2. /\ es \in Seq(Entities) /\ Len(es) = Len(t.entities) - 1
      /\ \A i \in 1..(Len(t.entities) - 1) :
           es[i] = IF i = row THEN t.entities[Len(t.entities)] ELSE t.entities[i]
  <2> DEFINE s == t.entities
  <2>1. s \in Seq(Entities) /\ row \in 1..Len(s)
    BY TableFacts
  <2> HIDE DEF s
  <2>2. /\ SwapRemove(s, row) \in Seq(Entities)
        /\ Len(SwapRemove(s, row)) = Len(s) - 1
        /\ \A i \in 1..(Len(s) - 1) :
             SwapRemove(s, row)[i] = IF i = row THEN s[Len(s)] ELSE s[i]
    BY <2>1, SwapRemoveFacts
  <2> QED
    BY <2>2 DEF s
<1>3. ASSUME NEW c \in ty
      PROVE  /\ SwapRemove(t.columns[c], row) \in Seq(Values)
             /\ Len(SwapRemove(t.columns[c], row)) = Len(t.entities) - 1
             /\ \A i \in 1..(Len(t.entities) - 1) :
                  SwapRemove(t.columns[c], row)[i] =
                    IF i = row THEN t.columns[c][Len(t.entities)] ELSE t.columns[c][i]
  <2> DEFINE s == t.columns[c]
  <2>1. s \in Seq(Values) /\ Len(s) = Len(t.entities) /\ row \in 1..Len(s)
    BY TableFacts
  <2> HIDE DEF s
  <2>2. /\ SwapRemove(s, row) \in Seq(Values)
        /\ Len(SwapRemove(s, row)) = Len(s) - 1
        /\ \A i \in 1..(Len(s) - 1) :
             SwapRemove(s, row)[i] = IF i = row THEN s[Len(s)] ELSE s[i]
    BY <2>1, SwapRemoveFacts
  <2> QED
    BY <2>1, <2>2 DEF s
<1> HIDE DEF es
<1>4. r \in Table(ty)
  <2>1. \A c \in ty : cs[c] \in Seq(Values) /\ Len(cs[c]) = Len(es)
    BY <1>2, <1>3
  <2>2. cs = [c \in ty |-> cs[c]]
    OBVIOUS
  <2> HIDE DEF cs, r
  <2> QED
    BY <1>1, <1>2, <2>1, <2>2, IsTable
<1>5. r.entities = es /\ r.columns = cs /\ DOMAIN r.columns = ty /\ DOMAIN t.columns = ty
  BY <1>1, TableFacts
<1>6. DOMAIN es = 1..(Len(t.entities) - 1)
  BY <1>2
<1>7. ASSUME NEW i \in 1..(Len(t.entities) - 1)
      PROVE  RowOf(r, i) = IF i = row THEN RowOf(t, Len(t.entities)) ELSE RowOf(t, i)
  <2>1. RowOf(r, i) = [c \in ty |-> SwapRemove(t.columns[c], row)[i]]
    BY <1>5 DEF RowOf
  <2>2. \A k : RowOf(t, k) = [c \in ty |-> t.columns[c][k]]
    BY <1>5 DEF RowOf
  <2>3. CASE i = row
    BY <1>3, <2>1, <2>2, <2>3
  <2>4. CASE i # row
    BY <1>3, <2>1, <2>2, <2>4
  <2> QED
    BY <2>3, <2>4
<1> QED
  BY <1>2, <1>4, <1>5, <1>6, <1>7

(***************************************************************************)
(* A new row at the end.                                                   *)
(***************************************************************************)
LEMMA AppendRowFacts ==
  ASSUME NEW ty, NEW t \in Table(ty), NEW e \in Entities, NEW values \in [ty -> Values]
  PROVE  /\ AppendRow(t, e, values) \in Table(ty)
         /\ Len(AppendRow(t, e, values).entities) = Len(t.entities) + 1
         /\ DOMAIN AppendRow(t, e, values).entities = 1..(Len(t.entities) + 1)
         /\ \A i \in 1..Len(t.entities) :
              /\ AppendRow(t, e, values).entities[i] = t.entities[i]
              /\ RowOf(AppendRow(t, e, values), i) = RowOf(t, i)
         /\ AppendRow(t, e, values).entities[Len(t.entities) + 1] = e
         /\ RowOf(AppendRow(t, e, values), Len(t.entities) + 1) = values
<1> DEFINE r == AppendRow(t, e, values)
           n == Len(t.entities)
           cs == [c \in ty |-> Append(t.columns[c], values[c])]
<1>1. r = [entities |-> Append(t.entities, e), columns |-> cs]
  BY TableFacts DEF AppendRow
<1>2. /\ Append(t.entities, e) \in Seq(Entities) /\ Len(Append(t.entities, e)) = n + 1
      /\ DOMAIN Append(t.entities, e) = 1..(n + 1)
      /\ \A i \in 1..n : Append(t.entities, e)[i] = t.entities[i]
      /\ Append(t.entities, e)[n + 1] = e /\ n \in Nat
  BY TableFacts
<1>3. ASSUME NEW c \in ty
      PROVE  /\ Append(t.columns[c], values[c]) \in Seq(Values)
             /\ Len(Append(t.columns[c], values[c])) = n + 1
             /\ \A i \in 1..n : Append(t.columns[c], values[c])[i] = t.columns[c][i]
             /\ Append(t.columns[c], values[c])[n + 1] = values[c]
  <2>1. t.columns[c] \in Seq(Values) /\ Len(t.columns[c]) = n /\ values[c] \in Values
    BY TableFacts
  <2> HIDE DEF n
  <2> QED
    BY <2>1
<1>4. r \in Table(ty)
  <2>1. \A c \in ty : cs[c] \in Seq(Values) /\ Len(cs[c]) = Len(Append(t.entities, e))
    BY <1>2, <1>3
  <2>2. cs = [c \in ty |-> cs[c]]
    OBVIOUS
  <2> HIDE DEF cs, r
  <2> QED
    BY <1>1, <1>2, <2>1, <2>2, IsTable
<1>5. /\ r.entities = Append(t.entities, e)
      /\ r.columns = cs /\ DOMAIN r.columns = ty /\ DOMAIN t.columns = ty
  BY <1>1, TableFacts
<1>6. \A k : /\ RowOf(r, k) = [c \in ty |-> Append(t.columns[c], values[c])[k]]
             /\ RowOf(t, k) = [c \in ty |-> t.columns[c][k]]
  BY <1>5 DEF RowOf
<1>7. \A i \in 1..n : RowOf(r, i) = RowOf(t, i)
  BY <1>3, <1>6
<1>8. RowOf(r, n + 1) = values
  BY <1>3, <1>6
<1> HIDE DEF r
<1> QED
  BY <1>2, <1>4, <1>5, <1>7, <1>8 DEF r

(***************************************************************************)
(* The values of one row are replaced, in the columns the table has.       *)
(***************************************************************************)
LEMMA SetRowFacts ==
  ASSUME NEW ty, NEW t \in Table(ty), NEW row \in 1..Len(t.entities),
         NEW values, DOMAIN values \subseteq ty, \A c \in DOMAIN values : values[c] \in Values
  PROVE  /\ SetRow(t, row, values) \in Table(ty)
         /\ SetRow(t, row, values).entities = t.entities
         /\ \A i \in 1..Len(t.entities) : i # row => RowOf(SetRow(t, row, values), i) = RowOf(t, i)
         /\ RowOf(SetRow(t, row, values), row) = Over(values, RowOf(t, row))
<1> DEFINE r == SetRow(t, row, values)
           n == Len(t.entities)
           cs == [c \in ty |-> IF c \in DOMAIN values THEN [t.columns[c] EXCEPT ![row] = values[c]]
                               ELSE t.columns[c]]
<1>1. r = [entities |-> t.entities, columns |-> cs]
  <2>1. t = [entities |-> t.entities, columns |-> t.columns] /\ DOMAIN t.columns = ty
    BY TableFacts
  <2>2. \A v : [t EXCEPT !.columns = v] = [entities |-> t.entities, columns |-> v]
    BY <2>1
  <2>3. r = [t EXCEPT !.columns = cs]
    BY <2>1 DEF SetRow
  <2> HIDE DEF cs, r
  <2> QED
    BY <2>2, <2>3
<1>2. ASSUME NEW c \in ty
      PROVE  /\ cs[c] \in Seq(Values) /\ Len(cs[c]) = n
             /\ \A i \in 1..n : i # row => cs[c][i] = t.columns[c][i]
             /\ cs[c][row] = IF c \in DOMAIN values THEN values[c] ELSE t.columns[c][row]
  <2>1. t.columns[c] \in Seq(Values) /\ Len(t.columns[c]) = n /\ row \in 1..n
    BY TableFacts
  <2> HIDE DEF n
  <2>2. CASE c \in DOMAIN values
    <3>1. values[c] \in Values /\ cs[c] = [t.columns[c] EXCEPT ![row] = values[c]]
      BY <2>2
    <3> HIDE DEF cs
    <3> QED
      BY <2>1, <2>2, <3>1
  <2>3. CASE c \notin DOMAIN values
    BY <2>1, <2>3
  <2> QED
    BY <2>2, <2>3
<1>3. cs = [c \in ty |-> cs[c]]
  OBVIOUS
<1> HIDE DEF cs
<1>4. r \in Table(ty)
  <2>1. t.entities \in Seq(Entities) /\ \A c \in ty : cs[c] \in Seq(Values) /\ Len(cs[c]) = Len(t.entities)
    BY <1>2, TableFacts
  <2> HIDE DEF r
  <2> QED
    BY <1>1, <1>3, <2>1, IsTable
<1>5. r.entities = t.entities /\ r.columns = cs /\ DOMAIN cs = ty /\ DOMAIN t.columns = ty
  BY <1>1, <1>3, TableFacts
<1>6. \A k : RowOf(r, k) = [c \in ty |-> cs[c][k]] /\ RowOf(t, k) = [c \in ty |-> t.columns[c][k]]
  BY <1>5 DEF RowOf
<1>7. \A i \in 1..n : i # row => RowOf(r, i) = RowOf(t, i)
  BY <1>2, <1>6
<1>8. RowOf(r, row) = Over(values, RowOf(t, row))
  <2>1. DOMAIN RowOf(t, row) = ty /\ DOMAIN values \union ty = ty
    BY <1>6
  <2>2. Over(values, RowOf(t, row)) =
          [c \in ty |-> IF c \in DOMAIN values THEN values[c] ELSE RowOf(t, row)[c]]
    BY <2>1 DEF Over
  <2> QED
    BY <1>2, <1>6, <2>2
<1> QED
  BY <1>4, <1>5, <1>7, <1>8

-----------------------------------------------------------------------------
(***************************************************************************)
(* The edits, of any index lo and tables tb that agree about the entities  *)
(* L.  First what agreeing says of one of them.                            *)
(***************************************************************************)
LEMMA RowOfLive ==
  ASSUME NEW L, NEW lo, NEW tb, Good(L, lo, tb), NEW e \in L
  PROVE  /\ e \in Entities
         /\ lo[e].table \in DOMAIN tb
         /\ tb[lo[e].table] \in Table(lo[e].table[1])
         /\ lo[e].row \in 1..Len(tb[lo[e].table].entities)
         /\ Len(tb[lo[e].table].entities) \in Nat
         /\ tb[lo[e].table].entities[lo[e].row] = e
<1>1. lo[e].table \in DOMAIN tb /\ tb[lo[e].table].entities[lo[e].row] = e
  BY DEF Good, RowsFound
<1>2. tb[lo[e].table] \in Table(lo[e].table[1])
  BY <1>1 DEF Good, Shape
<1>3. lo[e].row \in DOMAIN tb[lo[e].table].entities
  BY DEF Good, RowsFound
<1>4. /\ DOMAIN tb[lo[e].table].entities = 1..Len(tb[lo[e].table].entities)
      /\ Len(tb[lo[e].table].entities) \in Nat
  BY <1>2, TableFacts
<1> QED
  BY <1>1, <1>2, <1>3, <1>4 DEF Good

LEMMA LiveRecord ==
  ASSUME NEW L, NEW lo, NEW tb, Good(L, lo, tb), NEW e \in L
  PROVE  lo[e] = [table |-> lo[e].table, row |-> lo[e].row]
BY DEF Good, RowsFound, RowsTrue

LEMMA EntityOfRow ==
  ASSUME NEW L, NEW lo, NEW tb, Good(L, lo, tb), NEW p \in DOMAIN tb
  PROVE  /\ tb[p] \in Table(p[1])
         /\ Len(tb[p].entities) \in Nat /\ DOMAIN tb[p].entities = 1..Len(tb[p].entities)
         /\ \A row \in 1..Len(tb[p].entities) :
              /\ tb[p].entities[row] \in L
              /\ lo[tb[p].entities[row]] = [table |-> p, row |-> row]
              /\ lo[tb[p].entities[row]].table = p /\ lo[tb[p].entities[row]].row = row
<1>1. tb[p] \in Table(p[1])
  BY DEF Good, Shape
<1>2. Len(tb[p].entities) \in Nat /\ DOMAIN tb[p].entities = 1..Len(tb[p].entities)
  BY <1>1, TableFacts
<1> QED
  BY <1>1, <1>2 DEF Good, RowsTrue

LEMMA TableOfRow ==
  ASSUME NEW L, NEW lo, NEW tb, Good(L, lo, tb), NEW p \in DOMAIN tb,
         NEW row \in 1..Len(tb[p].entities)
  PROVE  tb[p].entities[row] \in L /\ lo[tb[p].entities[row]].table = p
<1> DEFINE x == tb[p].entities[row]
<1>1. row \in DOMAIN tb[p].entities
  BY EntityOfRow
<1>2. x \in L /\ lo[x] = [table |-> p, row |-> row]
  BY <1>1 DEF Good, RowsTrue
<1> HIDE DEF x
<1>3. x \in L /\ lo[x].table = p
  BY <1>2
<1> QED
  BY <1>3 DEF x

\* lo2 is lo for the entities of S, but for the one swapped into the row.
Follows(S, lo, lo2, t, p, row) ==
  \A x \in S : lo2[x] = IF x \in Displaced(t, row) THEN [table |-> p, row |-> row] ELSE lo[x]

LeftTables(tb, p, row) == [tb EXCEPT ![p] = RemoveRow(tb[p], row)]

Left(L2, lo, tb, lo2, tb2) ==
  Good(L2, lo2, tb2) /\ SameAt(L2, lo, tb, lo2, tb2) /\ DOMAIN tb2 = DOMAIN tb

(***************************************************************************)
(* An entity leaves its row.                                               *)
(***************************************************************************)
LEMMA Leave ==
  ASSUME NEW L, NEW lo, NEW tb, Good(L, lo, tb), NEW e \in L, NEW lo2,
         Follows(L \ {e}, lo, lo2, tb[lo[e].table], lo[e].table, lo[e].row)
  PROVE  Left(L \ {e}, lo, tb, lo2, LeftTables(tb, lo[e].table, lo[e].row))
<1> DEFINE p == lo[e].table
           row == lo[e].row
           t == tb[p]
           n == Len(t.entities)
           tb2 == LeftTables(tb, p, row)
           L2 == L \ {e}
<1>1. /\ p \in DOMAIN tb /\ t \in Table(p[1]) /\ row \in 1..n /\ n \in Nat
      /\ t.entities[row] = e
  <2>1. /\ lo[e].table \in DOMAIN tb
        /\ tb[lo[e].table] \in Table(lo[e].table[1])
        /\ lo[e].row \in 1..Len(tb[lo[e].table].entities)
        /\ Len(tb[lo[e].table].entities) \in Nat
        /\ tb[lo[e].table].entities[lo[e].row] = e
    BY RowOfLive
  <2> QED
    BY <2>1
<1>2. /\ DOMAIN tb2 = DOMAIN tb /\ tb2[p] = RemoveRow(t, row)
      /\ \A q \in DOMAIN tb : q # p => tb2[q] = tb[q]
  BY <1>1 DEF LeftTables
<1>3. /\ RemoveRow(t, row) \in Table(p[1])
      /\ DOMAIN RemoveRow(t, row).entities = 1..(n - 1)
      /\ \A i \in 1..(n - 1) :
           /\ RemoveRow(t, row).entities[i] = IF i = row THEN t.entities[n] ELSE t.entities[i]
           /\ RowOf(RemoveRow(t, row), i) = IF i = row THEN RowOf(t, n) ELSE RowOf(t, i)
  <2>1. t \in Table(p[1]) /\ row \in 1..Len(t.entities)
    BY <1>1
  <2> HIDE DEF t, row, p
  <2> QED
    BY <2>1, RemoveRowFacts
<1>4. \A x : x \in Displaced(t, row) <=> row < n /\ x = t.entities[n]
  BY DEF Displaced
<1>5. /\ \A i \in 1..n : /\ t.entities[i] \in L
                         /\ lo[t.entities[i]] = [table |-> p, row |-> i]
                         /\ lo[t.entities[i]].table = p /\ lo[t.entities[i]].row = i
      /\ n \in 1..n /\ DOMAIN t.entities = 1..n
  <2>1. n \in 1..n
    BY <1>1
  <2> QED
    BY <1>1, <2>1, EntityOfRow
<1>6. \A x \in L2 : lo2[x] = IF row < n /\ x = t.entities[n] THEN [table |-> p, row |-> row] ELSE lo[x]
  BY <1>4 DEF Follows
<1>7. Shape(tb2)
  BY <1>2, <1>3 DEF Good, Shape
<1> HIDE DEF tb2, t, n, p, row
<1>8. ASSUME NEW x \in L2
      PROVE  /\ lo2[x].table \in DOMAIN tb2
             /\ lo2[x].row \in DOMAIN tb2[lo2[x].table].entities
             /\ tb2[lo2[x].table].entities[lo2[x].row] = x
             /\ At(lo2, tb2, x) = At(lo, tb, x)
  <2>1. /\ lo[x].table \in DOMAIN tb
        /\ lo[x].row \in DOMAIN tb[lo[x].table].entities
        /\ tb[lo[x].table].entities[lo[x].row] = x
    BY DEF Good, RowsFound
  <2>2. CASE row < n /\ x = t.entities[n]
    <3>1. lo2[x].table = p /\ lo2[x].row = row /\ lo[x].table = p /\ lo[x].row = n
      <4>1. lo2[x] = [table |-> p, row |-> row]
        BY <1>6, <2>2
      <4>2. lo[x].table = p /\ lo[x].row = n
        BY <1>5, <2>2
      <4> QED
        BY <4>1, <4>2
    <3>2. row \in 1..(n - 1)
      BY <1>1, <2>2
    <3>3. RemoveRow(t, row).entities[row] = x /\ RowOf(RemoveRow(t, row), row) = RowOf(t, n)
      BY <1>3, <2>2, <3>2
    <3> QED
      BY <1>1, <1>2, <1>3, <3>1, <3>2, <3>3 DEF At, t
  <2>3. CASE ~(row < n /\ x = t.entities[n]) /\ lo[x].table = p
    <3>1. lo2[x] = lo[x] /\ x # e
      BY <1>6, <2>3
    <3>2. lo[x].row \in 1..n /\ t.entities[lo[x].row] = x
      BY <1>1, <2>1, <2>3, TableFacts DEF t, n
    <3>3. lo[x].row # row /\ lo[x].row # n
      BY <1>1, <2>3, <3>1, <3>2
    <3>4. lo[x].row \in 1..(n - 1)
      BY <1>1, <3>2, <3>3
    <3>5. /\ RemoveRow(t, row).entities[lo[x].row] = x
          /\ RowOf(RemoveRow(t, row), lo[x].row) = RowOf(t, lo[x].row)
      BY <1>3, <3>2, <3>3, <3>4
    <3> QED
      BY <1>1, <1>2, <1>3, <2>3, <3>1, <3>4, <3>5 DEF At, t
  <2>4. CASE lo[x].table # p
    <3>1. ~(row < n /\ x = t.entities[n])
      BY <1>1, <1>5, <2>4
    <3>2. lo2[x] = lo[x]
      BY <1>6, <3>1
    <3> QED
      BY <1>2, <2>1, <2>4, <3>2 DEF At
  <2> QED
    BY <2>2, <2>3, <2>4
<1>9. ASSUME NEW q \in DOMAIN tb2, NEW i \in DOMAIN tb2[q].entities
      PROVE  /\ tb2[q].entities[i] \in L2
             /\ lo2[tb2[q].entities[i]] = [table |-> q, row |-> i]
  <2>1. CASE q = p
    <3>1. i \in 1..(n - 1) /\ i \in 1..n
      BY <1>1, <1>2, <1>3, <1>9, <2>1
    <3>2. CASE i = row
      <4>1. row < n /\ tb2[q].entities[i] = t.entities[n] /\ n \in 1..n
        BY <1>1, <1>2, <1>3, <2>1, <3>1, <3>2
      <4>2. t.entities[n] # e
        <5>1. lo[t.entities[n]].row = n /\ lo[t.entities[row]].row = row
          BY <1>1, <1>5
        <5>2. n # row
          BY <1>1, <4>1
        <5> QED
          BY <1>1, <5>1, <5>2
      <4>3. t.entities[n] \in L2
        BY <1>5, <4>1, <4>2
      <4> QED
        BY <1>6, <2>1, <3>2, <4>1, <4>3
    <3>3. CASE i # row
      <4>1. tb2[q].entities[i] = t.entities[i]
        BY <1>2, <1>3, <2>1, <3>1, <3>3
      <4>2. t.entities[i] # e /\ t.entities[i] # t.entities[n]
        <5>1. /\ lo[t.entities[i]].row = i /\ lo[t.entities[n]].row = n
              /\ lo[t.entities[row]].row = row
          BY <1>1, <1>5, <3>1
        <5>2. i # n
          BY <1>1, <3>1
        <5> QED
          BY <1>1, <3>3, <5>1, <5>2
      <4>3. t.entities[i] \in L2
        BY <1>5, <3>1, <4>2
      <4> QED
        BY <1>5, <1>6, <2>1, <3>1, <4>1, <4>2, <4>3
    <3> QED
      BY <3>2, <3>3
  <2>2. CASE q # p
    <3>1. tb2[q] = tb[q] /\ q \in DOMAIN tb
      BY <1>2, <2>2
    <3>2. tb[q].entities[i] \in L /\ lo[tb[q].entities[i]] = [table |-> q, row |-> i]
      BY <1>9, <3>1 DEF Good, RowsTrue
    <3>3. tb[q].entities[i] # e /\ tb[q].entities[i] # t.entities[n]
      <4>1. lo[tb[q].entities[i]].table = q
        BY <3>2
      <4>2. lo[t.entities[n]].table = p /\ lo[t.entities[row]].table = p
        BY <1>1, <1>5
      <4> QED
        BY <1>1, <2>2, <4>1, <4>2
    <3> QED
      BY <1>6, <3>1, <3>2, <3>3
  <2> QED
    BY <2>1, <2>2
<1>10. RowsFound(L2, lo2, tb2) /\ SameAt(L2, lo, tb, lo2, tb2)
  BY <1>8 DEF RowsFound, SameAt
<1>11. RowsTrue(L2, lo2, tb2)
  BY <1>9 DEF RowsTrue
<1> QED
  BY <1>2, <1>7, <1>10, <1>11 DEF Good, Left, tb2, p, row, t

LEMMA LeaveTo ==
  ASSUME NEW L, NEW lo, NEW tb, NEW e, NEW lo2, NEW p, NEW row, NEW L2, NEW tb2,
         Good(L, lo, tb), e \in L, p = lo[e].table, row = lo[e].row, L2 = L \ {e},
         Follows(L2, lo, lo2, tb[p], p, row), tb2 = LeftTables(tb, p, row)
  PROVE  Left(L2, lo, tb, lo2, tb2)
BY Leave

LEMMA DisplacedFacts ==
  ASSUME NEW L, NEW lo, NEW tb, Good(L, lo, tb), NEW p \in DOMAIN tb, NEW row \in Nat,
         NEW x \in Displaced(tb[p], row)
  PROVE  lo[x] = [table |-> p, row |-> Len(tb[p].entities)]
<1>1. row < Len(tb[p].entities) /\ x = tb[p].entities[Len(tb[p].entities)]
  BY DEF Displaced
<1>2. Len(tb[p].entities) \in 1..Len(tb[p].entities)
  BY <1>1, EntityOfRow
<1> QED
  BY <1>1, <1>2, EntityOfRow

LEMMA DisplacedTable ==
  ASSUME NEW L, NEW lo, NEW tb, Good(L, lo, tb), NEW p \in DOMAIN tb, NEW row \in Nat,
         NEW x \in Displaced(tb[p], row)
  PROVE  lo[x].table = p
<1>1. lo[x] = [table |-> p, row |-> Len(tb[p].entities)]
  BY DisplacedFacts
<1> QED
  BY <1>1

AppendedTables(tb, p, e, values) == [tb EXCEPT ![p] = AppendRow(tb[p], e, values)]

Entered(L, lo, tb, lo2, tb2, e, values) ==
  /\ Good(L \union {e}, lo2, tb2) /\ SameAt(L, lo, tb, lo2, tb2)
  /\ At(lo2, tb2, e) = values
  /\ DOMAIN tb2 = DOMAIN tb

(***************************************************************************)
(* An entity is put at the end of a table.                                 *)
(***************************************************************************)
LEMMA Enter ==
  ASSUME NEW L, NEW lo, NEW tb, Good(L, lo, tb), NEW e \in Entities, e \notin L, NEW lo2,
         NEW p \in DOMAIN tb, NEW values \in [p[1] -> Values],
         \A x \in L : lo2[x] = lo[x],
         lo2[e] = [table |-> p, row |-> Len(tb[p].entities) + 1]
  PROVE  Entered(L, lo, tb, lo2, AppendedTables(tb, p, e, values), e, values)
<1> DEFINE t == tb[p]
           n == Len(t.entities)
           u == AppendRow(t, e, values)
           tb2 == AppendedTables(tb, p, e, values)
           L2 == L \union {e}
<1>1. t \in Table(p[1]) /\ n \in Nat /\ DOMAIN t.entities = 1..n
  BY EntityOfRow
<1>2. /\ u \in Table(p[1]) /\ DOMAIN u.entities = 1..(n + 1)
      /\ \A i \in 1..n : u.entities[i] = t.entities[i] /\ RowOf(u, i) = RowOf(t, i)
      /\ u.entities[n + 1] = e /\ RowOf(u, n + 1) = values
  <2> DEFINE ty == p[1]
  <2>1. t \in Table(ty) /\ values \in [ty -> Values]
    BY <1>1
  <2> HIDE DEF t, ty
  <2>2. u \in Table(ty) /\ DOMAIN u.entities = 1..(Len(t.entities) + 1)
    BY <2>1, AppendRowFacts
  <2>3. \A i \in 1..n : u.entities[i] = t.entities[i] /\ RowOf(u, i) = RowOf(t, i)
    BY <2>1, AppendRowFacts
  <2>4. u.entities[n + 1] = e /\ RowOf(u, n + 1) = values
    BY <2>1, AppendRowFacts
  <2> QED
    BY <2>2, <2>3, <2>4 DEF ty
<1>3. /\ DOMAIN tb2 = DOMAIN tb /\ tb2[p] = u
      /\ \A q \in DOMAIN tb : q # p => tb2[q] = tb[q]
  BY DEF AppendedTables
<1>4. Shape(tb2)
  BY <1>2, <1>3 DEF Good, Shape
<1> HIDE DEF tb2, u, n
<1>5. ASSUME NEW x \in L
      PROVE  /\ lo2[x].table \in DOMAIN tb2
             /\ lo2[x].row \in DOMAIN tb2[lo2[x].table].entities
             /\ tb2[lo2[x].table].entities[lo2[x].row] = x
             /\ At(lo2, tb2, x) = At(lo, tb, x)
  <2>1. /\ lo[x].table \in DOMAIN tb
        /\ lo[x].row \in DOMAIN tb[lo[x].table].entities
        /\ tb[lo[x].table].entities[lo[x].row] = x
        /\ lo2[x] = lo[x]
    BY DEF Good, RowsFound
  <2>2. CASE lo[x].table = p
    <3>1. lo[x].row \in 1..n /\ lo[x].row \in 1..(n + 1)
      BY <1>1, <2>1, <2>2
    <3> QED
      BY <1>2, <1>3, <2>1, <2>2, <3>1 DEF At
  <2>3. CASE lo[x].table # p
    BY <1>3, <2>1, <2>3 DEF At
  <2> QED
    BY <2>2, <2>3
<1>6. /\ lo2[e].table = p /\ lo2[e].row = n + 1 /\ n + 1 \in 1..(n + 1)
  BY <1>1 DEF n
<1>7. At(lo2, tb2, e) = values
  BY <1>2, <1>3, <1>6 DEF At
<1>8. ASSUME NEW q \in DOMAIN tb2, NEW i \in DOMAIN tb2[q].entities
      PROVE  /\ tb2[q].entities[i] \in L2
             /\ lo2[tb2[q].entities[i]] = [table |-> q, row |-> i]
  <2>1. CASE q = p /\ i = n + 1
    BY <1>2, <1>3, <2>1 DEF n
  <2>2. CASE q = p /\ i # n + 1
    <3>1. i \in 1..n
      BY <1>1, <1>2, <1>3, <1>8, <2>2
    <3>2. t.entities[i] \in L /\ lo[t.entities[i]] = [table |-> p, row |-> i]
      BY <1>1, <3>1 DEF Good, RowsTrue
    <3> QED
      BY <1>2, <1>3, <2>2, <3>1, <3>2
  <2>3. CASE q # p
    <3>1. tb2[q] = tb[q] /\ q \in DOMAIN tb
      BY <1>3, <2>3
    <3>2. tb[q].entities[i] \in L /\ lo[tb[q].entities[i]] = [table |-> q, row |-> i]
      BY <1>8, <3>1 DEF Good, RowsTrue
    <3> QED
      BY <3>1, <3>2
  <2> QED
    BY <2>1, <2>2, <2>3
<1>9. RowsFound(L2, lo2, tb2)
  BY <1>2, <1>3, <1>5, <1>6 DEF RowsFound
<1>10. RowsTrue(L2, lo2, tb2)
  BY <1>8 DEF RowsTrue
<1>11. SameAt(L, lo, tb, lo2, tb2)
  BY <1>5 DEF SameAt
<1> QED
  BY <1>3, <1>4, <1>7, <1>9, <1>10, <1>11 DEF Good, Entered, tb2

SetTables(tb, p, row, values) == [tb EXCEPT ![p] = SetRow(tb[p], row, values)]

ValuesSet(L, lo, tb, tb2, e, values) ==
  /\ Good(L, lo, tb2) /\ SameAt(L \ {e}, lo, tb, lo, tb2)
  /\ At(lo, tb2, e) = Over(values, At(lo, tb, e))
  /\ DOMAIN tb2 = DOMAIN tb

(***************************************************************************)
(* Values of an entity are replaced, in columns its table has.             *)
(***************************************************************************)
LEMMA SetValues ==
  ASSUME NEW L, NEW lo, NEW tb, Good(L, lo, tb), NEW e \in L, NEW values,
         DOMAIN values \subseteq lo[e].table[1], \A c \in DOMAIN values : values[c] \in Values
  PROVE  ValuesSet(L, lo, tb, SetTables(tb, lo[e].table, lo[e].row, values), e, values)
<1> DEFINE p == lo[e].table
           row == lo[e].row
           t == tb[p]
           u == SetRow(t, row, values)
           tb2 == SetTables(tb, p, row, values)
<1>1. /\ p \in DOMAIN tb /\ t \in Table(p[1]) /\ row \in 1..Len(t.entities)
      /\ t.entities[row] = e
  BY RowOfLive
<1>2. /\ u \in Table(p[1]) /\ u.entities = t.entities
      /\ \A i \in 1..Len(t.entities) : i # row => RowOf(u, i) = RowOf(t, i)
      /\ RowOf(u, row) = Over(values, RowOf(t, row))
  <2>1. DOMAIN values \subseteq p[1] /\ t \in Table(p[1]) /\ row \in 1..Len(t.entities)
    BY <1>1
  <2> HIDE DEF t, row, p
  <2> QED
    BY <2>1, SetRowFacts
<1>3. /\ DOMAIN tb2 = DOMAIN tb /\ tb2[p] = u
      /\ \A q \in DOMAIN tb : q # p => tb2[q] = tb[q]
  BY <1>1 DEF SetTables
<1>4. DOMAIN t.entities = 1..Len(t.entities)
  BY <1>1, TableFacts
<1> HIDE DEF tb2, u
<1>5. \A q \in DOMAIN tb : tb2[q].entities = tb[q].entities
  BY <1>2, <1>3
<1>6. Good(L, lo, tb2)
  <2>1. Shape(tb2)
    BY <1>2, <1>3 DEF Good, Shape
  <2>2. RowsFound(L, lo, tb2)
    BY <1>3, <1>5 DEF Good, RowsFound
  <2>3. RowsTrue(L, lo, tb2)
    <3> SUFFICES ASSUME NEW q \in DOMAIN tb, NEW i \in DOMAIN tb[q].entities
                 PROVE  /\ tb[q].entities[i] \in L
                        /\ lo[tb[q].entities[i]] = [table |-> q, row |-> i]
      <4>1. ASSUME NEW q \in DOMAIN tb2, NEW i \in DOMAIN tb2[q].entities,
                   tb[q].entities[i] \in L,
                   lo[tb[q].entities[i]] = [table |-> q, row |-> i]
            PROVE  /\ tb2[q].entities[i] \in L
                   /\ lo[tb2[q].entities[i]] = [table |-> q, row |-> i]
        <5>1. tb2[q].entities = tb[q].entities
          BY <1>3, <1>5
        <5> QED
          BY <4>1, <5>1
      <4> QED
        BY <1>3, <1>5, <4>1 DEF RowsTrue
    <3> QED
      BY DEF Good, RowsTrue
  <2> QED
    BY <2>1, <2>2, <2>3 DEF Good
<1>7. ASSUME NEW x \in L \ {e} PROVE At(lo, tb2, x) = At(lo, tb, x)
  <2>1. /\ lo[x].table \in DOMAIN tb
        /\ lo[x].row \in DOMAIN tb[lo[x].table].entities
        /\ tb[lo[x].table].entities[lo[x].row] = x
    BY DEF Good, RowsFound
  <2>2. CASE lo[x].table = p
    <3>1. lo[x].row # row /\ lo[x].row \in 1..Len(t.entities)
      BY <1>1, <1>4, <2>1, <2>2
    <3> QED
      BY <1>2, <1>3, <2>2, <3>1 DEF At
  <2>3. CASE lo[x].table # p
    BY <1>3, <2>1, <2>3 DEF At
  <2> QED
    BY <2>2, <2>3
<1>8. At(lo, tb2, e) = Over(values, At(lo, tb, e))
  BY <1>2, <1>3 DEF At
<1> QED
  BY <1>3, <1>6, <1>7, <1>8 DEF SameAt, ValuesSet, tb2

RenamedTables(tb, p, row, e) == [tb EXCEPT ![p].entities[row] = e]

TakenOver(L, lo, tb, lo2, tb2, a, b) ==
  /\ Good((L \ {a}) \union {b}, lo2, tb2) /\ SameAt(L \ {a}, lo, tb, lo2, tb2)
  /\ At(lo2, tb2, b) = At(lo, tb, a)
  /\ DOMAIN tb2 = DOMAIN tb

(***************************************************************************)
(* b takes over the row, and so the components, of a.                      *)
(***************************************************************************)
LEMMA TakeOver ==
  ASSUME NEW L, NEW lo, NEW tb, Good(L, lo, tb), NEW a \in L, NEW b \in Entities, b \notin L,
         NEW lo2, \A x \in L \ {a} : lo2[x] = lo[x], lo2[b] = lo[a]
  PROVE  TakenOver(L, lo, tb, lo2, RenamedTables(tb, lo[a].table, lo[a].row, b), a, b)
<1> DEFINE p == lo[a].table
           row == lo[a].row
           t == tb[p]
           es == [t.entities EXCEPT ![row] = b]
           u == [entities |-> es, columns |-> t.columns]
           tb2 == RenamedTables(tb, p, row, b)
           L2 == (L \ {a}) \union {b}
<1>1. /\ p \in DOMAIN tb /\ t \in Table(p[1]) /\ row \in 1..Len(t.entities)
      /\ t.entities[row] = a
  BY RowOfLive
<1>2. lo[a] = [table |-> p, row |-> row]
  BY LiveRecord
<1>3. /\ DOMAIN t.entities = 1..Len(t.entities) /\ t.entities \in Seq(Entities)
      /\ DOMAIN t.columns = p[1]
      /\ \A c \in p[1] : t.columns[c] \in Seq(Values) /\ Len(t.columns[c]) = Len(t.entities)
      /\ t = [entities |-> t.entities, columns |-> t.columns]
  BY <1>1, TableFacts
<1>4. /\ DOMAIN tb2 = DOMAIN tb /\ tb2[p] = [t EXCEPT !.entities[row] = b]
      /\ \A q \in DOMAIN tb : q # p => tb2[q] = tb[q]
  BY <1>1 DEF RenamedTables
<1>5. tb2[p] = u
  BY <1>3, <1>4
<1>6. /\ es \in Seq(Entities) /\ Len(es) = Len(t.entities) /\ DOMAIN es = 1..Len(t.entities)
      /\ es[row] = b /\ \A i \in 1..Len(t.entities) : i # row => es[i] = t.entities[i]
  <2> DEFINE s == t.entities
  <2>1. s \in Seq(Entities) /\ row \in 1..Len(s)
    BY <1>1, <1>3
  <2> HIDE DEF s, row
  <2> QED
    BY <2>1 DEF s
<1> HIDE DEF es
<1>7. u \in Table(p[1]) /\ u.entities = es /\ \A i : RowOf(u, i) = RowOf(t, i)
  <2>1. u.entities = es /\ u.columns = t.columns
    OBVIOUS
  <2>2. \A i : RowOf(u, i) = RowOf(t, i)
    BY <2>1 DEF RowOf
  <2>3. u \in Table(p[1])
    <3> DEFINE cs == t.columns
               ty == p[1]
    <3>1. es \in Seq(Entities) /\ \A c \in ty : cs[c] \in Seq(Values) /\ Len(cs[c]) = Len(es)
      BY <1>3, <1>6
    <3>2. cs = [c \in ty |-> cs[c]]
      BY <1>1 DEF Table
    <3> HIDE DEF cs, ty
    <3>3. [entities |-> es, columns |-> cs] \in Table(ty)
      BY <3>1, <3>2, IsTable
    <3> QED
      BY <3>3 DEF cs, ty
  <2> QED
    BY <2>1, <2>2, <2>3
<1> HIDE DEF tb2, u
<1>8. Shape(tb2)
  BY <1>4, <1>5, <1>7 DEF Good, Shape
<1>9. ASSUME NEW x \in L \ {a}
      PROVE  /\ lo2[x].table \in DOMAIN tb2
             /\ lo2[x].row \in DOMAIN tb2[lo2[x].table].entities
             /\ tb2[lo2[x].table].entities[lo2[x].row] = x
             /\ At(lo2, tb2, x) = At(lo, tb, x)
  <2>1. /\ lo[x].table \in DOMAIN tb
        /\ lo[x].row \in DOMAIN tb[lo[x].table].entities
        /\ tb[lo[x].table].entities[lo[x].row] = x
        /\ lo2[x] = lo[x]
    BY DEF Good, RowsFound
  <2>2. CASE lo[x].table = p
    <3>1. lo[x].row # row /\ lo[x].row \in 1..Len(t.entities)
      BY <1>1, <1>3, <2>1, <2>2
    <3> QED
      BY <1>4, <1>5, <1>6, <1>7, <2>1, <2>2, <3>1 DEF At
  <2>3. CASE lo[x].table # p
    BY <1>4, <2>1, <2>3 DEF At
  <2> QED
    BY <2>2, <2>3
<1>10. /\ lo2[b].table \in DOMAIN tb2
       /\ lo2[b].row \in DOMAIN tb2[lo2[b].table].entities
       /\ tb2[lo2[b].table].entities[lo2[b].row] = b
       /\ At(lo2, tb2, b) = At(lo, tb, a)
  BY <1>1, <1>4, <1>5, <1>6, <1>7 DEF At
<1>11. ASSUME NEW q \in DOMAIN tb2, NEW i \in DOMAIN tb2[q].entities
       PROVE  /\ tb2[q].entities[i] \in L2
              /\ lo2[tb2[q].entities[i]] = [table |-> q, row |-> i]
  <2>1. CASE q = p /\ i = row
    BY <1>2, <1>5, <1>6, <1>7, <2>1
  <2>2. CASE q = p /\ i # row
    <3>1. i \in 1..Len(t.entities) /\ tb2[q].entities[i] = t.entities[i]
      BY <1>5, <1>6, <1>7, <1>11, <2>2
    <3>2. /\ t.entities[i] \in L /\ lo[t.entities[i]] = [table |-> p, row |-> i]
          /\ lo[t.entities[i]].row = i
      BY <1>1, <3>1, EntityOfRow
    <3>3. t.entities[i] # a
      BY <2>2, <3>2
    <3> QED
      BY <2>2, <3>1, <3>2, <3>3
  <2>3. CASE q # p
    <3>1. tb2[q] = tb[q] /\ q \in DOMAIN tb
      BY <1>4, <2>3
    <3>2. tb[q].entities[i] \in L /\ lo[tb[q].entities[i]] = [table |-> q, row |-> i]
      BY <1>11, <3>1 DEF Good, RowsTrue
    <3>3. tb[q].entities[i] # a
      BY <2>3, <3>2
    <3> QED
      BY <3>1, <3>2, <3>3
  <2> QED
    BY <2>1, <2>2, <2>3
<1>12. RowsFound(L2, lo2, tb2)
  BY <1>9, <1>10 DEF RowsFound
<1>13. RowsTrue(L2, lo2, tb2)
  BY <1>11 DEF RowsTrue
<1>14. SameAt(L \ {a}, lo, tb, lo2, tb2)
  BY <1>9 DEF SameAt
<1> QED
  BY <1>4, <1>8, <1>10, <1>12, <1>13, <1>14 DEF Good, TakenOver, tb2

WithTable(tb, p) == [q \in DOMAIN tb \union {p} |-> IF q = p THEN EmptyTable(p[1]) ELSE tb[q]]

(***************************************************************************)
(* An empty table is made.                                                 *)
(***************************************************************************)
LEMMA MakeTable ==
  ASSUME NEW L, NEW lo, NEW tb, Good(L, lo, tb), NEW p, p \notin DOMAIN tb
  PROVE  Good(L, lo, WithTable(tb, p)) /\ SameAt(L, lo, tb, lo, WithTable(tb, p))
<1> DEFINE tb2 == WithTable(tb, p)
<1>1. /\ DOMAIN tb2 = DOMAIN tb \union {p} /\ tb2[p] = EmptyTable(p[1])
      /\ \A q \in DOMAIN tb : tb2[q] = tb[q]
  BY DEF WithTable
<1>2. EmptyTable(p[1]) \in Table(p[1]) /\ EmptyTable(p[1]).entities = <<>>
  BY EmptyTableFacts
<1> HIDE DEF tb2
<1>3. Shape(tb2)
  BY <1>1, <1>2 DEF Good, Shape
<1>4. RowsFound(L, lo, tb2)
  BY <1>1 DEF Good, RowsFound
<1>5. RowsTrue(L, lo, tb2)
  <2>1. DOMAIN tb2[p].entities = {}
    BY <1>1, <1>2
  <2> QED
    BY <1>1, <2>1 DEF Good, RowsTrue
<1>6. SameAt(L, lo, tb, lo, tb2)
  BY <1>1 DEF Good, RowsFound, SameAt, At
<1> QED
  BY <1>3, <1>4, <1>5, <1>6 DEF Good, tb2

(***************************************************************************)
(* Tables without rows are dropped.                                        *)
(***************************************************************************)
LEMMA DropTables ==
  ASSUME NEW L, NEW lo, NEW tb, Good(L, lo, tb), NEW S,
         \A p \in DOMAIN tb \ S : tb[p].entities = <<>>
  PROVE  Good(L, lo, Only(tb, S)) /\ SameAt(L, lo, tb, lo, Only(tb, S))
<1> DEFINE tb2 == Only(tb, S)
<1>1. DOMAIN tb2 = DOMAIN tb \intersect S /\ \A q \in DOMAIN tb2 : tb2[q] = tb[q]
  BY DEF Only
<1> HIDE DEF tb2
<1>2. Shape(tb2) /\ RowsTrue(L, lo, tb2)
  BY <1>1 DEF Good, Shape, RowsTrue
<1>3. ASSUME NEW e \in L PROVE lo[e].table \in DOMAIN tb2
  <2>1. lo[e].table \in DOMAIN tb /\ lo[e].row \in DOMAIN tb[lo[e].table].entities
    BY DEF Good, RowsFound
  <2>2. tb[lo[e].table].entities # <<>>
    BY <2>1
  <2> QED
    BY <1>1, <2>1, <2>2
<1>4. RowsFound(L, lo, tb2)
  BY <1>1, <1>3 DEF Good, RowsFound
<1>5. SameAt(L, lo, tb, lo, tb2)
  BY <1>1, <1>3 DEF SameAt, At
<1> QED
  BY <1>2, <1>4, <1>5 DEF Good, tb2

-----------------------------------------------------------------------------
(***************************************************************************)
(* The inductive invariant.  A type that is both in archetypes and in      *)
(* staging has nobody in its staging table: a promotion never replaces a   *)
(* table of archetypes, whose entities would be lost.                      *)
(***************************************************************************)
MapOK(m) == \A ty \in DOMAIN m : m[ty] \in DOMAIN tables /\ m[ty][1] = ty

NobodyIn(p) == \A x \in Live : loc[x].table # p

StagingIdle ==
  \A ty \in DOMAIN archetypes \intersect DOMAIN staging :
    archetypes[ty] # staging[ty] /\ NobodyIn(staging[ty])

Maps ==
  /\ MapOK(archetypes) /\ MapOK(staging)
  /\ VOID_TY \in DOMAIN archetypes
  /\ DOMAIN tables = Owned(archetypes, staging)
  /\ StagingIdle

WorldInv ==
  /\ status \in [Entities -> {"unused", "reserved", "live", "freed", "leaked"}]
  /\ applying \in BOOLEAN
  /\ DOMAIN loc = Entities
  /\ Good(Live, loc, tables)
  /\ Maps

(***************************************************************************)
(* There is room for one more table of a type: the ids can point to at     *)
(* most as many as there are ids, and staging holds one.                   *)
(***************************************************************************)
LEMMA RoomForATable ==
  ASSUME IsFiniteSet(Entities), NEW ty, NEW lo, NEW s
  PROVE  \E k \in 1..(Cardinality(Entities) + 2) :
           <<ty, k>> # s /\ \A e \in Entities : <<ty, k>> # lo[e].table
<1> DEFINE N == Cardinality(Entities)
           f == [e \in Entities |-> lo[e].table]
           I == {f[e] : e \in Entities}
           T == I \union {s}
           S == 1..(N + 2)
<1>1. N \in Nat
  BY FS_CardinalityType
<1>2. IsFiniteSet(I) /\ Cardinality(I) <= N /\ Cardinality(I) \in Nat
  <2>1. f \in [Entities -> I] /\ \A t \in I : \E e \in Entities : f[e] = t
    OBVIOUS
  <2> HIDE DEF f, I
  <2>2. f \in Surjection(Entities, I)
    BY <2>1 DEF Surjection
  <2>3. IsFiniteSet(I) /\ Cardinality(I) <= N
    BY <2>2, FS_Surjection
  <2> QED
    BY <2>3, FS_CardinalityType
<1> HIDE DEF I, N
<1>3. IsFiniteSet(T) /\ Cardinality(T) <= N + 1 /\ Cardinality(T) \in Nat
  <2>1. IsFiniteSet(T) /\ Cardinality(T) = IF s \in I THEN Cardinality(I) ELSE Cardinality(I) + 1
    BY <1>2, FS_AddElement
  <2> HIDE DEF T
  <2>2. Cardinality(T) \in Nat
    BY <2>1, FS_CardinalityType
  <2> QED
    BY <1>1, <1>2, <2>1, <2>2
<1>4. IsFiniteSet(S) /\ Cardinality(S) = N + 2
  BY <1>1, FS_Interval
<1> HIDE DEF T, S
<1>5. SUFFICES ASSUME \A k \in S : <<ty, k>> \in T PROVE FALSE
  BY DEF S, T, I, f, N
<1> DEFINE g == [k \in S |-> <<ty, k>>]
<1>6. g \in [S -> T] /\ Cardinality(T) < Cardinality(S)
  BY <1>1, <1>3, <1>4, <1>5
<1> HIDE DEF g
<1>7. \E x, y \in S : x # y /\ g[x] = g[y]
  BY <1>3, <1>4, <1>6, FS_PigeonHole
<1> QED
  BY <1>7 DEF g

(***************************************************************************)
(* A new table is new.                                                     *)
(***************************************************************************)
LEMMA NewAddressIsNew ==
  ASSUME WorldInv, NEW ty, ty \notin DOMAIN archetypes
  PROVE  /\ NewAddress(ty) \notin DOMAIN tables
         /\ NewAddress(ty)[1] = ty
<1> DEFINE K == 1..(Cardinality(Entities) + 2)
           room(t, lo, s) == \E k \in K : <<t, k>> # s /\ \A e \in Entities : <<t, k>> # lo[e].table
           taken == DOMAIN tables \union {loc[e].table : e \in Entities}
<1>1. \E k \in K : <<ty, k>> # staging[ty] /\ \A e \in Entities : <<ty, k>> # loc[e].table
  <2>1. IsFiniteSet(Entities)
    BY WorldAssumption
  <2> QED
    <3>1. \A t, lo, s : room(t, lo, s)
      BY <2>1, RoomForATable
    <3> HIDE DEF room
    <3>2. room(ty, loc, staging[ty])
      BY <3>1
    <3> QED
      BY <3>2 DEF room
<1>2. \A k : <<ty, k>> \in DOMAIN tables => <<ty, k>> = staging[ty]
  <2>1. \A t \in DOMAIN archetypes : archetypes[t][1] = t
    BY DEF WorldInv, Maps, MapOK
  <2>2. \A t \in DOMAIN staging : staging[t][1] = t
    BY DEF WorldInv, Maps, MapOK
  <2>3. DOMAIN tables = Owned(archetypes, staging)
    BY DEF WorldInv, Maps
  <2>4. \A k : <<ty, k>>[1] = ty
    OBVIOUS
  <2> QED
    BY <2>1, <2>2, <2>3, <2>4 DEF Owned
<1>3. \E k \in K : <<ty, k>> \notin taken
  BY <1>1, <1>2
<1>4. NewAddress(ty) = <<ty, CHOOSE k \in K : <<ty, k>> \notin taken>>
  BY DEF NewAddress
<1> HIDE DEF taken, K
<1>5. NewAddress(ty) \notin taken /\ NewAddress(ty)[1] = ty
  BY <1>3, <1>4
<1> QED
  BY <1>5 DEF taken

-----------------------------------------------------------------------------
(***************************************************************************)
(* The operations as sequences of edits.                                   *)
(***************************************************************************)
LEMMA FollowedFacts ==
  ASSUME Good(Live, loc, tables), NEW p \in DOMAIN tables, NEW row \in Nat
  PROVE  /\ DOMAIN Followed(tables[p], row) = Entities
         /\ Follows(Entities, loc, Followed(tables[p], row), tables[p], p, row)
<1> DEFINE t == tables[p]
<1>1. DOMAIN Followed(t, row) = Entities
  BY DEF Followed
<1>2. ASSUME NEW x \in Entities, x \in Displaced(t, row)
      PROVE  [loc[x] EXCEPT !.row = row] = [table |-> p, row |-> row]
  <2>1. loc[x] = [table |-> p, row |-> Len(t.entities)]
    BY <1>2, DisplacedFacts
  <2> QED
    BY <2>1
<1>3. \A x \in Entities :
        Followed(t, row)[x] = IF x \in Displaced(t, row) THEN [loc[x] EXCEPT !.row = row] ELSE loc[x]
  BY DEF Followed
<1>4. Follows(Entities, loc, Followed(t, row), t, p, row)
  BY <1>2, <1>3 DEF Follows
<1> QED
  BY <1>1, <1>4

(***************************************************************************)
(* What a step leaves of the entities that stay where they are.            *)
(***************************************************************************)
Stays(S) ==
  /\ SameAt(S, loc, tables, loc', tables')
  /\ \A x \in S : loc'[x].table = loc[x].table

\* The tables once the one at p is there.
LEMMA MemoryFacts ==
  ASSUME Good(Live, loc, tables), NEW p
  PROVE  /\ Good(Live, loc, Memory(p, p[1])) /\ SameAt(Live, loc, tables, loc, Memory(p, p[1]))
         /\ DOMAIN Memory(p, p[1]) = DOMAIN tables \union {p}
         /\ \A q \in DOMAIN tables : Memory(p, p[1])[q] = tables[q]
<1> DEFINE mem == Memory(p, p[1])
<1>1. CASE p \in DOMAIN tables
  <2>1. mem = tables
    BY <1>1 DEF Memory
  <2> HIDE DEF mem
  <2> QED
    BY <1>1, <2>1 DEF SameAt, mem
<1>2. CASE p \notin DOMAIN tables
  <2>1. mem = WithTable(tables, p)
    BY <1>2 DEF Memory, WithTable
  <2> HIDE DEF mem
  <2>2. Good(Live, loc, mem) /\ SameAt(Live, loc, tables, loc, mem)
    BY <1>2, <2>1, MakeTable
  <2>3. DOMAIN mem = DOMAIN tables \union {p} /\ \A q \in DOMAIN tables : mem[q] = tables[q]
    BY <1>2, <2>1 DEF WithTable
  <2> QED
    BY <2>2, <2>3 DEF mem
<1> QED
  BY <1>1, <1>2

(***************************************************************************)
(* MoveEntity makes the table if there is none, takes the entity out of    *)
(* its table, and puts it into the other one.                              *)
(***************************************************************************)
LEMMA Move ==
  ASSUME WorldInv, NEW e \in Live, NEW p, p # loc[e].table,
         NEW values \in [p[1] -> Values], MoveEntity(e, p, values)
  PROVE  /\ Good(Live, loc', tables')
         /\ Stays(Live \ {e})
         /\ At(loc', tables', e) = values
         /\ DOMAIN tables' = DOMAIN tables \union {p}
         /\ DOMAIN loc' = Entities
         /\ loc'[e].table = p
<1> DEFINE src == loc[e].table
           row == loc[e].row
           mem == Memory(p, DOMAIN values)
           left == LeftTables(mem, src, row)
           L2 == Live \ {e}
<1>1. /\ Good(Live, loc, tables) /\ DOMAIN loc = Entities
      /\ src \in DOMAIN tables /\ row \in Nat /\ e \in Entities
  BY RowOfLive DEF WorldInv
<1>2. /\ Good(Live, loc, mem) /\ SameAt(Live, loc, tables, loc, mem)
      /\ DOMAIN mem = DOMAIN tables \union {p} /\ mem[src] = tables[src]
  <2>1. mem = Memory(p, p[1])
    OBVIOUS
  <2> HIDE DEF mem, src
  <2> QED
    BY <1>1, <2>1, MemoryFacts
<1>3. /\ tables' = [mem EXCEPT ![src] = RemoveRow(mem[src], row),
                               ![p] = AppendRow(mem[p], e, values)]
      /\ loc' = [Followed(tables[src], row) EXCEPT
                   ![e] = [table |-> p, row |-> Len(mem[p].entities) + 1]]
  BY DEF MoveEntity
<1> HIDE DEF mem
<1>4. /\ DOMAIN loc' = Entities
      /\ loc'[e] = [table |-> p, row |-> Len(mem[p].entities) + 1]
      /\ Follows(L2, loc, loc', mem[src], src, row)
  <2>1. /\ DOMAIN Followed(tables[src], row) = Entities
        /\ Follows(Entities, loc, Followed(tables[src], row), tables[src], src, row)
    BY <1>1, FollowedFacts
  <2>2. L2 \subseteq Entities
    BY DEF Live
  <2> HIDE DEF src, row
  <2>3. /\ DOMAIN loc' = Entities
        /\ loc'[e] = [table |-> p, row |-> Len(mem[p].entities) + 1]
        /\ \A x \in L2 : loc'[x] = Followed(tables[src], row)[x]
    BY <1>1, <1>3, <2>1, <2>2
  <2> QED
    BY <1>2, <2>1, <2>2, <2>3 DEF Follows
<1>5. Good(L2, loc', left) /\ SameAt(L2, loc, mem, loc', left) /\ DOMAIN left = DOMAIN mem
  <2> DEFINE l2 == loc'
  <2>1. /\ Good(Live, loc, mem) /\ Follows(L2, loc, l2, mem[src], src, row)
        /\ e \in Live /\ src = loc[e].table /\ row = loc[e].row /\ L2 = Live \ {e}
        /\ left = LeftTables(mem, src, row)
    BY <1>2, <1>4
  <2> HIDE DEF l2, left, L2, src, row
  <2>2. Left(L2, loc, mem, l2, left)
    BY <2>1, LeaveTo
  <2> QED
    BY <2>2 DEF l2, Left
<1>6. left[p] = mem[p] /\ p \in DOMAIN left
  BY <1>2 DEF LeftTables
<1>7. tables' = AppendedTables(left, p, e, values)
  BY <1>2, <1>3 DEF LeftTables, AppendedTables
<1> HIDE DEF left, src, row
<1>8. /\ Good(L2 \union {e}, loc', tables') /\ SameAt(L2, loc', left, loc', tables')
      /\ At(loc', tables', e) = values /\ DOMAIN tables' = DOMAIN left
  <2> DEFINE l2 == loc'
  <2>1. l2[e] = [table |-> p, row |-> Len(left[p].entities) + 1] /\ Good(L2, l2, left)
    BY <1>4, <1>5, <1>6
  <2> HIDE DEF l2
  <2>2. Entered(L2, l2, left, l2, AppendedTables(left, p, e, values), e, values)
    <3>1. e \notin L2 /\ \A x \in L2 : l2[x] = l2[x]
      OBVIOUS
    <3> HIDE DEF L2
    <3> QED
      BY <1>1, <1>6, <2>1, <3>1, Enter
  <2> QED
    BY <1>7, <2>2 DEF Entered, l2
<1>9. L2 \union {e} = Live
  OBVIOUS
<1>10. Stays(L2)
  <2>1. SameAt(L2, loc, tables, loc', tables')
    BY <1>2, <1>5, <1>8 DEF SameAt
  <2>2. ASSUME NEW x \in L2 PROVE loc'[x].table = loc[x].table
    <3>1. CASE x \in Displaced(mem[src], row)
      <4>1. loc'[x].table = src
        BY <1>4, <3>1 DEF Follows
      <4>2. loc[x].table = src
        <5>1. x \in Displaced(tables[src], row) /\ Good(Live, loc, tables)
          BY <1>1, <1>2, <3>1
        <5> QED
          BY <1>1, <5>1, DisplacedTable
      <4> QED
        BY <4>1, <4>2
    <3>2. CASE x \notin Displaced(mem[src], row)
      BY <1>4, <3>2 DEF Follows
    <3> QED
      BY <3>1, <3>2
  <2> QED
    BY <2>1, <2>2 DEF Stays
<1>11. loc'[e].table = p
  BY <1>4
<1>12. DOMAIN tables' = DOMAIN tables \union {p}
  BY <1>2, <1>5, <1>8
<1> QED
  BY <1>4, <1>8, <1>9, <1>10, <1>11, <1>12

(***************************************************************************)
(* A table an operation may use for ty: the one of archetypes, else the    *)
(* one of staging, else a new one; a new one leaves nobody behind in       *)
(* staging.                                                                *)
(***************************************************************************)
Target(ty, p) ==
  /\ p[1] = ty
  /\ \/ ty \in DOMAIN archetypes /\ p = archetypes[ty]
     \/ ty \in DOMAIN staging \ DOMAIN archetypes /\ p = staging[ty]
     \/ /\ ty \notin DOMAIN archetypes /\ p \notin DOMAIN tables
        /\ ty \in DOMAIN staging => NobodyIn(staging[ty])

LEMMA LookupIsTarget ==
  ASSUME WorldInv, NEW ty
  PROVE  Target(ty, Lookup(ty))
<1>1. CASE ty \in DOMAIN archetypes
  BY <1>1 DEF Lookup, Target, WorldInv, Maps, MapOK
<1>2. CASE ty \in DOMAIN staging \ DOMAIN archetypes
  BY <1>2 DEF Lookup, Target, WorldInv, Maps, MapOK
<1>3. CASE ty \notin DOMAIN archetypes /\ ty \notin DOMAIN staging
  BY <1>3, NewAddressIsNew DEF Lookup, Target
<1> QED
  BY <1>1, <1>2, <1>3

\* A table without rows is that of nobody.
LEMMA NobodyIfEmpty ==
  ASSUME Good(Live, loc, tables), NEW p \in DOMAIN tables
  PROVE  tables[p].entities = <<>> <=> NobodyIn(p)
<1>1. ASSUME tables[p].entities = <<>>, NEW x \in Live, loc[x].table = p PROVE FALSE
  BY <1>1 DEF Good, RowsFound
<1>2. ASSUME tables[p].entities # <<>> PROVE ~NobodyIn(p)
  <2>1. Len(tables[p].entities) \in Nat /\ tables[p].entities \in Seq(Entities)
    BY EntityOfRow, TableFacts
  <2>2. 1 \in 1..Len(tables[p].entities)
    BY <1>2, <2>1
  <2>3. tables[p].entities[1] \in Live /\ loc[tables[p].entities[1]].table = p
    BY <2>2, TableOfRow
  <2> QED
    BY <2>3 DEF NobodyIn
<1> QED
  BY <1>1, <1>2 DEF NobodyIn

LEMMA ActiveIsTarget ==
  ASSUME WorldInv, Careful, NEW ty, "duplicate_archetype" \in Avoid => ~StagedInUse(ty)
  PROVE  Target(ty, LookupActive(ty))
<1>1. CASE ty \in DOMAIN archetypes
  BY <1>1 DEF LookupActive, Target, WorldInv, Maps, MapOK
<1>2. CASE ty \notin DOMAIN archetypes
  <2>1. NewAddress(ty) \notin DOMAIN tables /\ NewAddress(ty)[1] = ty
    BY <1>2, NewAddressIsNew
  <2>2. ASSUME ty \in DOMAIN staging PROVE NobodyIn(staging[ty])
    <3>1. staging[ty] \in DOMAIN tables /\ Good(Live, loc, tables)
      BY <2>2 DEF WorldInv, Maps, MapOK
    <3>2. tables[staging[ty]].entities = <<>>
      BY <1>2, <2>2 DEF Careful, StagedInUse
    <3> QED
      BY <3>1, <3>2, NobodyIfEmpty
  <2> QED
    BY <1>2, <2>1, <2>2 DEF LookupActive, Target
<1> QED
  BY <1>1, <1>2

(***************************************************************************)
(* Archetypes and staging are in order when a step puts entities in such a *)
(* table, or where others were, and registers the table when it is new.    *)
(***************************************************************************)
LEMMA MapsFollow ==
  ASSUME WorldInv, NEW ty, NEW p, Target(ty, p),
         DOMAIN archetypes' = DOMAIN archetypes \union (IF p \in DOMAIN tables THEN {} ELSE {ty}),
         \A t \in DOMAIN archetypes' :
           archetypes'[t] = IF t \in DOMAIN archetypes THEN archetypes[t] ELSE p,
         staging' = staging,
         DOMAIN tables' = DOMAIN tables \union {p},
         \A x \in Live' : loc'[x].table = p \/ \E y \in Live : loc'[x].table = loc[y].table
  PROVE  Maps'
<1>1. /\ \A t \in DOMAIN archetypes : archetypes[t] \in DOMAIN tables /\ archetypes[t][1] = t
      /\ \A t \in DOMAIN staging : staging[t] \in DOMAIN tables /\ staging[t][1] = t
      /\ VOID_TY \in DOMAIN archetypes
      /\ DOMAIN tables = Owned(archetypes, staging)
      /\ StagingIdle
  BY DEF WorldInv, Maps, MapOK
<1>2. p \in DOMAIN tables \/ ty \notin DOMAIN archetypes
  BY <1>1 DEF Target
<1>3. MapOK(archetypes)' /\ MapOK(staging)' /\ (VOID_TY \in DOMAIN archetypes)'
  BY <1>1, <1>2 DEF MapOK, Target, VOID_TY
<1>4. (DOMAIN tables = Owned(archetypes, staging))'
  <2>1. \A q : q \in DOMAIN tables <=>
                 (\E t \in DOMAIN archetypes : q = archetypes[t]) \/ (\E t \in DOMAIN staging : q = staging[t])
    BY <1>1 DEF Owned
  <2>2. \A q : q \in DOMAIN tables' <=>
                 (\E t \in DOMAIN archetypes' : q = archetypes'[t]) \/ (\E t \in DOMAIN staging : q = staging[t])
    BY <1>1, <1>2, <2>1
  <2>3. Owned(archetypes', staging') =
          {archetypes'[t] : t \in DOMAIN archetypes'} \union {staging[t] : t \in DOMAIN staging}
    BY DEF Owned
  <2> QED
    BY <2>2, <2>3
<1>5. StagingIdle'
  <2> SUFFICES ASSUME NEW t \in DOMAIN archetypes', t \in DOMAIN staging
               PROVE  /\ archetypes'[t] # staging[t]
                      /\ \A x \in Live' : loc'[x].table # staging[t]
    BY DEF StagingIdle, NobodyIn
  <2>1. CASE t \in DOMAIN archetypes
    <3>1. archetypes[t] # staging[t] /\ \A x \in Live : loc[x].table # staging[t]
      BY <1>1, <2>1 DEF StagingIdle, NobodyIn
    <3>2. p # staging[t]
      BY <1>1, <2>1, <3>1 DEF Target
    <3> QED
      BY <2>1, <3>1, <3>2
  <2>2. CASE t \notin DOMAIN archetypes
    <3>1. p \notin DOMAIN tables /\ t = ty /\ archetypes'[t] = p
      BY <2>2
    <3>2. \A x \in Live : loc[x].table # staging[t]
      BY <1>1, <2>2, <3>1 DEF Target, NobodyIn
    <3> QED
      BY <1>1, <3>1, <3>2
  <2> QED
    BY <2>1, <2>2
<1> QED
  BY <1>3, <1>4, <1>5 DEF Maps

\* Nothing is registered.
LEMMA MapsKept ==
  ASSUME WorldInv, UNCHANGED <<archetypes, staging>>, DOMAIN tables' = DOMAIN tables,
         \A x \in Live' : \/ loc'[x].table = archetypes[VOID_TY]
                          \/ \E y \in Live : loc'[x].table = loc[y].table
  PROVE  Maps'
<1> DEFINE p == archetypes[VOID_TY]
<1>1. Target(VOID_TY, p) /\ p \in DOMAIN tables
  BY DEF WorldInv, Maps, MapOK, Target
<1> HIDE DEF p
<1>2. /\ DOMAIN archetypes' = DOMAIN archetypes \union (IF p \in DOMAIN tables THEN {} ELSE {VOID_TY})
      /\ \A t \in DOMAIN archetypes' :
           archetypes'[t] = IF t \in DOMAIN archetypes THEN archetypes[t] ELSE p
      /\ DOMAIN tables' = DOMAIN tables \union {p}
  BY <1>1
<1>3. \A x \in Live' : loc'[x].table = p \/ \E y \in Live : loc'[x].table = loc[y].table
  BY DEF p
<1> QED
  BY <1>1, <1>2, <1>3, MapsFollow

(***************************************************************************)
(* Queries see all if they did, and entities are put only into p, which is *)
(* in archetypes afterwards, or where others were.                         *)
(***************************************************************************)
LEMMA VisibleFollow ==
  ASSUME QueriesSeeAll, NEW p, UNCHANGED applying,
         \A t \in DOMAIN archetypes : t \in DOMAIN archetypes' /\ archetypes'[t] = archetypes[t],
         p[1] \in DOMAIN archetypes' /\ archetypes'[p[1]] = p,
         \A x \in Live' : loc'[x].table = p \/ \E y \in Live : loc'[x].table = loc[y].table
  PROVE  QueriesSeeAll'
<1> SUFFICES ASSUME ~applying, NEW x \in Live'
             PROVE  /\ loc'[x].table[1] \in DOMAIN archetypes'
                    /\ archetypes'[loc'[x].table[1]] = loc'[x].table
  BY DEF QueriesSeeAll
<1>1. CASE loc'[x].table = p
  BY <1>1
<1>2. ASSUME NEW y \in Live, loc'[x].table = loc[y].table
      PROVE  /\ loc'[x].table[1] \in DOMAIN archetypes'
             /\ archetypes'[loc'[x].table[1]] = loc'[x].table
  <2>1. loc[y].table[1] \in DOMAIN archetypes /\ archetypes[loc[y].table[1]] = loc[y].table
    BY DEF QueriesSeeAll
  <2> QED
    BY <1>2, <2>1
<1> QED
  BY <1>1, <1>2

LEMMA VisibleKept ==
  ASSUME WorldInv, QueriesSeeAll, UNCHANGED <<archetypes, applying>>,
         \A x \in Live' : \/ loc'[x].table = archetypes[VOID_TY]
                          \/ \E y \in Live : loc'[x].table = loc[y].table
  PROVE  QueriesSeeAll'
<1> DEFINE p == archetypes[VOID_TY]
<1>1. VOID_TY \in DOMAIN archetypes /\ p[1] = VOID_TY
  BY DEF WorldInv, Maps, MapOK
<1>2. p[1] \in DOMAIN archetypes' /\ archetypes'[p[1]] = p
  BY <1>1
<1>3. \A x \in Live' : loc'[x].table = p \/ \E y \in Live : loc'[x].table = loc[y].table
  OBVIOUS
<1> HIDE DEF p
<1> QED
  BY <1>2, <1>3, VisibleFollow

LEMMA InitOK ==
  ASSUME Init PROVE WorldInv
<1>1. /\ tables = [p \in {<<VOID_TY, 1>>} |-> EmptyTable(VOID_TY)]
      /\ archetypes = [ty \in {VOID_TY} |-> <<VOID_TY, 1>>]
      /\ staging = [ty \in {} |-> <<>>]
      /\ status = [e \in Entities |-> "unused"] /\ loc = [e \in Entities |-> Nowhere]
      /\ applying = FALSE
  BY DEF Init
<1> DEFINE p == <<VOID_TY, 1>>
<1>2. p[1] = VOID_TY
  OBVIOUS
<1> HIDE DEF p
<1>3. DOMAIN tables = {p} /\ tables[p] = EmptyTable(VOID_TY)
  BY <1>1 DEF p
<1>4. Live = {}
  BY <1>1 DEF Live
<1>5. EmptyTable(VOID_TY) \in Table(p[1]) /\ EmptyTable(VOID_TY).entities = <<>>
  BY <1>2, EmptyTableFacts
<1>6. Good(Live, loc, tables)
  <2>1. Shape(tables)
    BY <1>3, <1>5 DEF Shape
  <2>2. DOMAIN tables[p].entities = {}
    BY <1>3, <1>5
  <2> QED
    BY <1>3, <1>4, <2>1, <2>2 DEF Good, RowsFound, RowsTrue
<1>7. /\ DOMAIN archetypes = {VOID_TY} /\ archetypes[VOID_TY] = p
      /\ DOMAIN staging = {}
  BY <1>1 DEF p
<1>8. Maps
  BY <1>2, <1>3, <1>7 DEF Maps, MapOK, StagingIdle, Owned
<1> QED
  BY <1>1, <1>6, <1>8 DEF WorldInv

(***************************************************************************)
(* The components of a live entity are those of its table's type.          *)
(***************************************************************************)
LEMMA DataFacts ==
  ASSUME WorldInv, NEW e \in Live
  PROVE  /\ DataOf(e) \in [loc[e].table[1] -> Values]
         /\ DataOf(e) = At(loc, tables, e)
         /\ Located(e)
<1> DEFINE src == loc[e].table
           row == loc[e].row
<1>1. src \in DOMAIN tables /\ tables[src] \in Table(src[1]) /\ row \in 1..Len(tables[src].entities)
  BY RowOfLive DEF WorldInv
<1>2. Located(e)
  BY <1>1, RowOfLive DEF Located, Live, WorldInv
<1>3. DataOf(e) = RowOf(tables[src], row) /\ At(loc, tables, e) = RowOf(tables[src], row)
  BY DEF DataOf, At
<1> HIDE DEF src, row
<1>4. /\ DOMAIN tables[src].columns = src[1]
      /\ \A c \in src[1] : tables[src].columns[c] \in Seq(Values)
                           /\ Len(tables[src].columns[c]) = Len(tables[src].entities)
  BY <1>1, TableFacts
<1>5. \A c \in src[1] : tables[src].columns[c][row] \in Values
  BY <1>1, <1>4
<1>6. RowOf(tables[src], row) \in [src[1] -> Values]
  BY <1>4, <1>5 DEF RowOf
<1> QED
  BY <1>2, <1>3, <1>6 DEF src

\* The entities of S keep the components they had.
Keeps(S) == SameAt(S, loc, tables, loc', tables')

LEMMA LocatedIsLive ==
  ASSUME NEW e \in Entities, Located(e) PROVE e \in Live
BY DEF Located, Live

LEMMA InitIdOK ==
  ASSUME WorldInv, NEW e \in Entities, e \notin Live, InitId(e)
  PROVE  /\ WorldInv'
         /\ Live' = Live \union {e} /\ Keeps(Live)
         /\ DataOf(e)' = [c \in {} |-> 0]
         /\ \A x \in Live : loc'[x] = loc[x]
         /\ loc'[e].table = archetypes[VOID_TY]
<1> DEFINE void == archetypes[VOID_TY]
           none == [c \in {} |-> 0]
           l2 == loc'
           tb2 == tables'
<1>1. /\ Good(Live, loc, tables) /\ DOMAIN loc = Entities
      /\ void \in DOMAIN tables /\ void[1] = VOID_TY
      /\ status \in [Entities -> {"unused", "reserved", "live", "freed", "leaked"}]
      /\ applying \in BOOLEAN
  BY DEF WorldInv, Maps, MapOK
<1>2. /\ tb2 = AppendedTables(tables, void, e, none)
      /\ l2 = [loc EXCEPT ![e] = [table |-> void, row |-> Len(tables[void].entities) + 1]]
      /\ status' = [status EXCEPT ![e] = "live"]
      /\ UNCHANGED <<archetypes, staging, applying>>
  BY DEF InitId, AppendedTables
<1>3. none \in [void[1] -> Values]
  BY <1>1 DEF VOID_TY
<1>4. Live' = Live \union {e}
  BY <1>1, <1>2 DEF Live
<1>5. /\ l2[e] = [table |-> void, row |-> Len(tables[void].entities) + 1]
      /\ DOMAIN l2 = Entities /\ Live \subseteq Entities
      /\ \A x \in Entities \ {e} : l2[x] = loc[x]
  BY <1>1, <1>2 DEF Live
<1>6. \A x \in Live : l2[x] = loc[x]
  BY <1>5
<1> HIDE DEF l2, tb2, none, void
<1>7. Entered(Live, loc, tables, l2, AppendedTables(tables, void, e, none), e, none)
  BY <1>1, <1>3, <1>5, <1>6, Enter
<1>8. Good(Live, loc, tables)' /\ Keeps(Live) /\ DataOf(e)' = none /\ DOMAIN tables' = DOMAIN tables
  BY <1>2, <1>4, <1>7 DEF Entered, Keeps, At, DataOf, l2, tb2
<1>9. Maps'
  <2>1. l2[e].table = void
    BY <1>5
  <2>2. \A x \in Live' : loc'[x].table = void \/ \E y \in Live : loc'[x].table = loc[y].table
    BY <1>4, <1>6, <2>1 DEF l2
  <2> QED
    BY <1>2, <1>8, <2>2, MapsKept DEF void
<1>10. status' \in [Entities -> {"unused", "reserved", "live", "freed", "leaked"}]
  BY <1>1, <1>2
<1>11. DOMAIN loc' = Entities
  BY <1>5 DEF l2
<1> QED
  BY <1>1, <1>2, <1>4, <1>5, <1>6, <1>8, <1>9, <1>10, <1>11 DEF WorldInv, none, l2, void

SameTables(S, lo, lo2) == \A x \in S : lo2[x].table = lo[x].table

\* What Leave says of the World.
LEMMA LeaveWorld ==
  ASSUME WorldInv, NEW e \in Live, NEW S, S \subseteq Live, NEW l2,
         \A x \in S : l2[x] = Followed(tables[loc[e].table], loc[e].row)[x]
  PROVE  /\ Follows(S, loc, l2, tables[loc[e].table], loc[e].table, loc[e].row)
         /\ SameTables(S, loc, l2)
<1> DEFINE src == loc[e].table
           row == loc[e].row
           f == Followed(tables[src], row)
<1>1. Good(Live, loc, tables) /\ src \in DOMAIN tables /\ row \in Nat /\ Live \subseteq Entities
  BY RowOfLive DEF WorldInv, Live
<1>2. Follows(Entities, loc, f, tables[src], src, row)
  BY <1>1, FollowedFacts
<1> HIDE DEF f, src, row
<1>3. /\ Follows(S, loc, l2, tables[src], src, row)
      /\ \A x \in S : l2[x] = IF x \in Displaced(tables[src], row)
                              THEN [table |-> src, row |-> row] ELSE loc[x]
  BY <1>1, <1>2 DEF Follows, f, src, row
<1>4. ASSUME NEW x \in S PROVE l2[x].table = loc[x].table
  <2>1. CASE x \in Displaced(tables[src], row)
    <3>1. l2[x].table = src
      BY <1>3, <2>1
    <3>2. loc[x].table = src
      BY <1>1, <2>1, DisplacedTable
    <3> QED
      BY <3>1, <3>2
  <2>2. CASE x \notin Displaced(tables[src], row)
    BY <1>3, <2>2
  <2> QED
    BY <2>1, <2>2
<1> QED
  BY <1>3, <1>4 DEF SameTables, src, row

LEMMA DeleteOK ==
  ASSUME WorldInv, NEW e \in Entities, DeleteEntity(e)
  PROVE  /\ WorldInv'
         /\ e \in Live /\ Live' = Live \ {e} /\ Keeps(Live \ {e})
         /\ SameTables(Live \ {e}, loc, loc')
<1> DEFINE src == loc[e].table
           row == loc[e].row
           L2 == Live \ {e}
           l2 == loc'
           tb2 == tables'
<1>1. e \in Live /\ Good(Live, loc, tables) /\ DOMAIN loc = Entities /\ src \in DOMAIN tables
  BY LocatedIsLive, RowOfLive DEF WorldInv, DeleteEntity
<1>2. /\ tb2 = LeftTables(tables, src, row)
      /\ l2 = [Followed(tables[src], row) EXCEPT ![e] = Nowhere]
      /\ status' = [status EXCEPT ![e] = "freed"]
      /\ UNCHANGED <<archetypes, staging, applying>>
  BY DEF DeleteEntity, LeftTables
<1>3. Live' = L2
  BY <1>1, <1>2 DEF Live, WorldInv
<1>4. DOMAIN l2 = Entities /\ \A x \in L2 : l2[x] = Followed(tables[src], row)[x]
  BY <1>2 DEF Followed, Live
<1> HIDE DEF l2, tb2
<1>5. /\ Follows(L2, loc, l2, tables[src], src, row)
      /\ SameTables(L2, loc, l2)
  <2>1. L2 \subseteq Live
    OBVIOUS
  <2> HIDE DEF L2
  <2> QED
    BY <1>1, <1>4, <2>1, LeaveWorld
<1>6. Left(L2, loc, tables, l2, tb2)
  BY <1>1, <1>2, <1>5, LeaveTo
<1>7. Good(Live, loc, tables)' /\ Keeps(L2) /\ DOMAIN tables' = DOMAIN tables
  BY <1>3, <1>6 DEF Left, Keeps, l2, tb2
<1>8. Maps'
  <2>1. \A x \in Live' : \E y \in Live : loc'[x].table = loc[y].table
    BY <1>3, <1>5 DEF SameTables, l2
  <2> QED
    BY <1>2, <1>7, <2>1, MapsKept
<1> QED
  BY <1>1, <1>2, <1>3, <1>4, <1>5, <1>7, <1>8 DEF WorldInv, l2

(***************************************************************************)
(* MoveEntity to the table of another type, which is registered if new.    *)
(***************************************************************************)
LEMMA MoveOK ==
  ASSUME WorldInv, NEW e \in Live, NEW p, p[1] # loc[e].table[1], Target(p[1], p),
         NEW values \in [p[1] -> Values], MoveEntity(e, p, values),
         archetypes' = Registered(p[1], p), UNCHANGED <<status, staging, applying>>
  PROVE  /\ WorldInv'
         /\ Live' = Live /\ Keeps(Live \ {e})
         /\ DataOf(e)' = values
<1>1. /\ Good(Live, loc', tables')
      /\ Stays(Live \ {e})
      /\ At(loc', tables', e) = values
      /\ DOMAIN tables' = DOMAIN tables \union {p}
      /\ DOMAIN loc' = Entities
      /\ loc'[e].table = p
  BY Move
<1>2. Live' = Live
  BY DEF Live
<1>3. \A x \in Live' : loc'[x].table = p \/ \E y \in Live : loc'[x].table = loc[y].table
  BY <1>1, <1>2 DEF Stays
<1>4. /\ DOMAIN archetypes' = DOMAIN archetypes \union (IF p \in DOMAIN tables THEN {} ELSE {p[1]})
      /\ \A t \in DOMAIN archetypes' :
           archetypes'[t] = IF t \in DOMAIN archetypes THEN archetypes[t] ELSE p
  BY DEF Registered
<1>5. Maps'
  BY <1>1, <1>3, <1>4, MapsFollow
<1> QED
  BY <1>1, <1>2, <1>5 DEF WorldInv, Stays, Keeps, At, DataOf

LEMMA BundleFacts ==
  ASSUME NEW bundle \in Bundles
  PROVE  /\ bundle \in [DOMAIN bundle -> Values] /\ DOMAIN bundle \subseteq Components
         /\ DOMAIN bundle # {}
         /\ \A c \in DOMAIN bundle : bundle[c] \in Values
<1>1. PICK cs \in (SUBSET Components) \ {{}} : bundle \in [cs -> Values]
  BY DEF Bundles
<1>2. DOMAIN bundle = cs
  BY <1>1
<1> QED
  BY <1>1, <1>2

LEMMA OverFacts ==
  ASSUME NEW A, NEW B, NEW V, NEW f \in [A -> V], NEW g \in [B -> V]
  PROVE  Over(f, g) \in [A \union B -> V]
<1>1. DOMAIN f = A /\ DOMAIN g = B
  OBVIOUS
<1>2. Over(f, g) = [c \in A \union B |-> IF c \in A THEN f[c] ELSE g[c]]
  BY <1>1 DEF Over
<1>3. \A c \in A \union B : (IF c \in A THEN f[c] ELSE g[c]) \in V
  OBVIOUS
<1> QED
  BY <1>2, <1>3

LEMMA SetBundleOK ==
  ASSUME WorldInv, NEW e \in Entities, NEW bundle \in Bundles, SetBundle(e, bundle)
  PROVE  /\ WorldInv'
         /\ e \in Live /\ Live' = Live /\ Keeps(Live \ {e})
         /\ DataOf(e)' = Over(bundle, DataOf(e))
<1> DEFINE src == loc[e].table
           row == loc[e].row
           ty == src[1] \union DOMAIN bundle
           p == Lookup(ty)
<1>1. /\ e \in Live /\ Good(Live, loc, tables) /\ DOMAIN loc = Entities /\ src \in DOMAIN tables
      /\ DataOf(e) \in [src[1] -> Values] /\ DataOf(e) = At(loc, tables, e)
      /\ Live' = Live /\ UNCHANGED <<status, staging, applying>>
  BY LocatedIsLive, RowOfLive, DataFacts DEF WorldInv, SetBundle, Live
<1>2. /\ bundle \in [DOMAIN bundle -> Values]
      /\ \A c \in DOMAIN bundle : bundle[c] \in Values
  BY BundleFacts
<1>3. CASE /\ DOMAIN bundle \subseteq src[1]
           /\ tables' = SetTables(tables, src, row, bundle)
           /\ UNCHANGED <<loc, archetypes>>
  <2> DEFINE tb2 == tables'
  <2>1. ValuesSet(Live, loc, tables, SetTables(tables, src, row, bundle), e, bundle)
    BY <1>1, <1>2, <1>3, SetValues
  <2>2. /\ Good(Live, loc, tables)' /\ Keeps(Live \ {e}) /\ DOMAIN tables' = DOMAIN tables
        /\ At(loc, tables, e)' = Over(bundle, At(loc, tables, e))
    <3> HIDE DEF src, row
    <3> QED
      BY <1>1, <1>3, <2>1 DEF ValuesSet, Keeps
  <2>3. Maps'
    BY <1>1, <1>3, <2>2, MapsKept
  <2> QED
    BY <1>1, <1>3, <2>2, <2>3 DEF WorldInv, At, DataOf
<1>4. CASE /\ ~(DOMAIN bundle \subseteq src[1])
           /\ MoveEntity(e, p, Over(bundle, DataOf(e)))
           /\ archetypes' = Registered(ty, p)
  <2>1. Target(ty, p) /\ p[1] = ty
    BY LookupIsTarget DEF Target
  <2>2. ty # src[1]
    BY <1>4
  <2>3. Over(bundle, DataOf(e)) \in [p[1] -> Values]
    <3>1. Over(bundle, DataOf(e)) \in [DOMAIN bundle \union src[1] -> Values]
      BY <1>1, <1>2, OverFacts
    <3>2. DOMAIN bundle \union src[1] = p[1]
      BY <2>1
    <3> QED
      BY <3>1, <3>2
  <2> HIDE DEF p, ty
  <2> QED
    BY <1>1, <1>4, <2>1, <2>2, <2>3, MoveOK
<1> QED
  BY <1>3, <1>4 DEF SetBundle, SetTables

LEMMA RemoveComponentOK ==
  ASSUME WorldInv, Careful, NEW e \in Entities, NEW c \in Components, RemoveComponent(e, c)
  PROVE  /\ WorldInv'
         /\ e \in Live /\ Live' = Live /\ Keeps(Live \ {e})
         /\ DataOf(e)' = Only(DataOf(e), loc[e].table[1] \ {c})
<1> DEFINE src == loc[e].table
           ty == src[1] \ {c}
           p == LookupActive(ty)
<1>1. /\ e \in Live /\ DataOf(e) \in [src[1] -> Values]
      /\ Live' = Live /\ UNCHANGED <<status, staging, applying>>
  BY LocatedIsLive, DataFacts DEF RemoveComponent, Live
<1>2. /\ c \in src[1] /\ ("duplicate_archetype" \in Avoid => ~StagedInUse(ty))
      /\ MoveEntity(e, p, Only(DataOf(e), ty)) /\ archetypes' = Registered(ty, p)
  BY DEF RemoveComponent
<1>3. Target(ty, p) /\ p[1] = ty
  BY <1>2, ActiveIsTarget DEF Target
<1>4. ty # src[1]
  BY <1>2
<1>5. Only(DataOf(e), ty) \in [p[1] -> Values]
  <2>1. DOMAIN DataOf(e) \intersect ty = ty
    BY <1>1
  <2>2. Only(DataOf(e), ty) = [x \in ty |-> DataOf(e)[x]]
    BY <2>1 DEF Only
  <2>3. \A x \in ty : DataOf(e)[x] \in Values
    BY <1>1
  <2> QED
    BY <1>3, <2>2, <2>3
<1> DEFINE v == Only(DataOf(e), ty)
<1> HIDE DEF p, v
<1>6. /\ WorldInv' /\ Live' = Live /\ Keeps(Live \ {e})
      /\ DataOf(e)' = v
  BY <1>1, <1>2, <1>3, <1>4, <1>5, MoveOK DEF v
<1> QED
  BY <1>1, <1>6 DEF v

-----------------------------------------------------------------------------
(***************************************************************************)
(* Merging: rhs ends with the components of both, lhs is gone.             *)
(***************************************************************************)
Merged(lhs, rhs) ==
  /\ WorldInv'
  /\ Live' = Live \ {lhs} /\ Keeps(Live \ {lhs, rhs})
  /\ DataOf(rhs)' = Over(DataOf(lhs), DataOf(rhs))
  /\ QueriesSeeAll => QueriesSeeAll'

\* The part of the invariant a merge changes.
LEMMA FreedOK ==
  ASSUME WorldInv, NEW lhs \in Live, Freed(lhs)
  PROVE  /\ status' \in [Entities -> {"unused", "reserved", "live", "freed", "leaked"}]
         /\ Live' = Live \ {lhs}
<1>1. /\ status \in [Entities -> {"unused", "reserved", "live", "freed", "leaked"}]
      /\ status' = [status EXCEPT ![lhs] = "freed"]
      /\ lhs \in Entities
  BY DEF WorldInv, Freed, Live
<1> QED
  BY <1>1 DEF Live

\* An entity of another table is not the one swapped into the row.
LEMMA NotDisplaced ==
  ASSUME NEW L, NEW lo, NEW tb, NEW p, NEW row, NEW x, NEW S, NEW lo2,
         Good(L, lo, tb), p \in DOMAIN tb, row \in Nat, x \in S, lo[x].table # p,
         Follows(S, lo, lo2, tb[p], p, row)
  PROVE  lo2[x] = lo[x]
<1>1. x \notin Displaced(tb[p], row)
  BY DisplacedTable
<1> QED
  BY <1>1 DEF Follows

LEMMA MergeIntoRhsOK ==
  ASSUME WorldInv, NEW lhs \in Live, NEW rhs \in Live, lhs # rhs, MergeIntoRhs(lhs, rhs),
         UNCHANGED <<staging, applying>>
  PROVE  Merged(lhs, rhs)
<1> DEFINE lt == loc[lhs].table
           rt == loc[rhs].table
           l == loc[lhs].row
           r == loc[rhs].row
           v == DataOf(lhs)
           L2 == Live \ {lhs}
           l2 == loc'
           tb2 == tables'
           left == LeftTables(tables, lt, l)
<1>1. /\ Good(Live, loc, tables) /\ DOMAIN loc = Entities /\ applying \in BOOLEAN
      /\ lt \in DOMAIN tables /\ rt \in DOMAIN tables /\ l \in Nat
      /\ v \in [lt[1] -> Values]
  BY RowOfLive, DataFacts DEF WorldInv
<1>2. /\ lt[1] \subseteq rt[1] /\ lt # rt
      /\ tables' = [tables EXCEPT ![lt] = RemoveRow(tables[lt], l), ![rt] = SetRow(tables[rt], r, v)]
      /\ l2 = [Followed(tables[lt], l) EXCEPT ![lhs] = Nowhere]
      /\ Freed(lhs) /\ UNCHANGED <<archetypes, staging, applying>>
  BY DEF MergeIntoRhs, MoveEntityInto
<1>3. DOMAIN l2 = Entities /\ \A x \in L2 : l2[x] = Followed(tables[lt], l)[x]
  BY <1>2 DEF Followed, Live
<1>4. L2 \subseteq Live /\ rhs \in L2
  OBVIOUS
<1> HIDE DEF l2, tb2, v, L2
<1>5. Follows(L2, loc, l2, tables[lt], lt, l) /\ SameTables(L2, loc, l2)
  BY <1>3, <1>4, LeaveWorld
<1>6. l2[rhs] = loc[rhs]
  <2>1. loc[rhs].table # lt
    BY <1>2
  <2> HIDE DEF lt, l
  <2> QED
    BY <1>1, <1>4, <1>5, <2>1, NotDisplaced
<1>7. Left(L2, loc, tables, l2, left)
  BY <1>1, <1>5, LeaveTo DEF L2
<1>8. tables' = SetTables(left, rt, r, v)
  BY <1>1, <1>2 DEF LeftTables, SetTables
<1> HIDE DEF left
<1>9. l2[rhs].table = rt /\ l2[rhs].row = r
  BY <1>6
<1>10. ValuesSet(L2, l2, left, tables', rhs, v)
  <2>1. Good(L2, l2, left)
    BY <1>7 DEF Left
  <2>2. DOMAIN v \subseteq l2[rhs].table[1] /\ \A c \in DOMAIN v : v[c] \in Values
    BY <1>1, <1>2, <1>9
  <2>3. ValuesSet(L2, l2, left, SetTables(left, l2[rhs].table, l2[rhs].row, v), rhs, v)
    BY <1>4, <2>1, <2>2, SetValues
  <2> QED
    BY <1>8, <1>9, <2>3
<1>11. /\ status' \in [Entities -> {"unused", "reserved", "live", "freed", "leaked"}]
       /\ Live' = L2
  BY <1>2, FreedOK DEF L2
<1>12. Good(Live, loc, tables)' /\ DOMAIN tables' = DOMAIN tables
  BY <1>7, <1>10, <1>11 DEF Left, ValuesSet, l2
<1>13. SameAt(L2 \ {rhs}, loc, tables, loc', tables')
  BY <1>7, <1>10 DEF Left, ValuesSet, SameAt, l2
<1>14. At(loc', tables', rhs) = Over(v, At(loc, tables, rhs))
  BY <1>4, <1>7, <1>10 DEF Left, ValuesSet, SameAt, l2
<1>15. Maps' /\ (QueriesSeeAll => QueriesSeeAll')
  <2>1. \A x \in Live' : \E y \in Live : loc'[x].table = loc[y].table
    BY <1>4, <1>5, <1>11 DEF SameTables, l2
  <2>2. Maps'
    BY <1>2, <1>12, <2>1, MapsKept
  <2> QED
    BY <1>2, <2>1, <2>2, VisibleKept
<1>16. WorldInv'
  BY <1>1, <1>2, <1>3, <1>11, <1>12, <1>15 DEF WorldInv, l2
<1>17. L2 \ {rhs} = Live \ {lhs, rhs}
  BY DEF L2
<1> QED
  BY <1>11, <1>13, <1>14, <1>15, <1>16, <1>17 DEF Merged, Keeps, DataOf, At, v, L2

LEMMA MergeIntoLhsOK ==
  ASSUME WorldInv, NEW lhs \in Live, NEW rhs \in Live, lhs # rhs, MergeIntoLhs(lhs, rhs),
         UNCHANGED <<staging, applying>>
  PROVE  Merged(lhs, rhs)
<1> DEFINE lt == loc[lhs].table
           rt == loc[rhs].table
           l == loc[lhs].row
           r == loc[rhs].row
           L1 == Live \ {rhs}
           L2 == Live \ {lhs}
           l1 == Followed(tables[rt], r)
           l2 == loc'
           left == LeftTables(tables, rt, r)
<1>1. /\ Good(Live, loc, tables) /\ DOMAIN loc = Entities /\ applying \in BOOLEAN
      /\ lt \in DOMAIN tables /\ rt \in DOMAIN tables /\ r \in Nat
      /\ DataOf(lhs) \in [lt[1] -> Values] /\ DataOf(rhs) \in [rt[1] -> Values]
      /\ DataOf(lhs) = At(loc, tables, lhs) /\ rhs \in Entities
  BY RowOfLive, DataFacts DEF WorldInv
<1>2. /\ rt[1] \subseteq lt[1] /\ lt # rt
      /\ tables' = [tables EXCEPT ![rt] = RemoveRow(tables[rt], r), ![lt].entities[l] = rhs]
      /\ l2 = [l1 EXCEPT ![lhs] = Nowhere, ![rhs] = loc[lhs]]
      /\ Freed(lhs) /\ UNCHANGED <<archetypes, staging, applying>>
  BY DEF MergeIntoLhs
<1>3. /\ DOMAIN l2 = Entities /\ l2[rhs] = loc[lhs]
      /\ \A x \in L1 \ {lhs} : l2[x] = l1[x]
  <2>1. DOMAIN l1 = Entities /\ Live \subseteq Entities
    BY DEF Followed, Live
  <2> HIDE DEF l1
  <2> QED
    BY <1>1, <1>2, <2>1
<1>4. L1 \subseteq Live /\ lhs \in L1 /\ \A x \in L1 : l1[x] = Followed(tables[rt], r)[x]
  OBVIOUS
<1> HIDE DEF l1, l2, L1
<1>5. Follows(L1, loc, l1, tables[rt], rt, r) /\ SameTables(L1, loc, l1)
  BY <1>4, LeaveWorld
<1>6. l1[lhs] = loc[lhs]
  <2>1. loc[lhs].table # rt
    BY <1>2
  <2> HIDE DEF rt, r
  <2> QED
    BY <1>1, <1>4, <1>5, <2>1, NotDisplaced
<1>7. Left(L1, loc, tables, l1, left)
  BY <1>1, <1>5, LeaveTo DEF L1
<1>8. tables' = RenamedTables(left, lt, l, rhs)
  BY <1>1, <1>2 DEF LeftTables, RenamedTables
<1> HIDE DEF left
<1>9. l1[lhs].table = lt /\ l1[lhs].row = l
  BY <1>6
<1>10. TakenOver(L1, l1, left, l2, tables', lhs, rhs)
  <2>1. Good(L1, l1, left) /\ rhs \notin L1 /\ l2[rhs] = l1[lhs]
    BY <1>3, <1>6, <1>7 DEF Left, L1
  <2>2. TakenOver(L1, l1, left, l2, RenamedTables(left, l1[lhs].table, l1[lhs].row, rhs), lhs, rhs)
    BY <1>1, <1>3, <1>4, <2>1, TakeOver
  <2> QED
    BY <1>8, <1>9, <2>2
<1>11. /\ status' \in [Entities -> {"unused", "reserved", "live", "freed", "leaked"}]
       /\ Live' = L2
  BY <1>2, FreedOK
<1>12. (L1 \ {lhs}) \union {rhs} = L2 /\ L1 \ {lhs} = Live \ {lhs, rhs}
  BY DEF L1
<1>13. Good(Live, loc, tables)' /\ DOMAIN tables' = DOMAIN tables
  BY <1>7, <1>10, <1>11, <1>12 DEF Left, TakenOver, l2
<1>14. SameAt(Live \ {lhs, rhs}, loc, tables, loc', tables')
  BY <1>7, <1>10, <1>12 DEF Left, TakenOver, SameAt, l2
<1>15. At(loc', tables', rhs) = DataOf(lhs)
  BY <1>1, <1>4, <1>7, <1>10 DEF Left, TakenOver, SameAt, l2
<1>16. DataOf(lhs) = Over(DataOf(lhs), DataOf(rhs))
  <2>1. DOMAIN DataOf(lhs) = lt[1] /\ DOMAIN DataOf(rhs) = rt[1] /\ lt[1] \union rt[1] = lt[1]
    BY <1>1, <1>2
  <2>2. Over(DataOf(lhs), DataOf(rhs)) = [c \in lt[1] |-> DataOf(lhs)[c]]
    BY <2>1 DEF Over
  <2> QED
    BY <1>1, <2>2
<1>17. Maps' /\ (QueriesSeeAll => QueriesSeeAll')
  <2>1. ASSUME NEW x \in Live' PROVE \E y \in Live : loc'[x].table = loc[y].table
    <3>1. CASE x = rhs
      BY <1>3, <3>1 DEF l2
    <3>2. CASE x # rhs
      <4>1. x \in L1 \ {lhs} /\ x \in Live
        BY <1>11, <2>1, <3>2 DEF L1
      <4>2. loc'[x].table = loc[x].table
        BY <1>3, <1>5, <4>1 DEF SameTables, l2
      <4> QED
        BY <4>1, <4>2
    <3> QED
      BY <3>1, <3>2
  <2>2. Maps'
    BY <1>2, <1>13, <2>1, MapsKept
  <2> QED
    BY <1>2, <2>1, <2>2, VisibleKept
<1>18. WorldInv'
  BY <1>1, <1>2, <1>3, <1>11, <1>13, <1>17 DEF WorldInv, l2
<1> QED
  BY <1>11, <1>14, <1>15, <1>16, <1>17, <1>18 DEF Merged, Keeps, DataOf, At

LEMMA MergeIntoThirdOK ==
  ASSUME WorldInv, Careful, NEW lhs \in Live, NEW rhs \in Live, lhs # rhs,
         MergeIntoThird(lhs, rhs), UNCHANGED <<staging, applying>>
  PROVE  Merged(lhs, rhs)
<1> DEFINE lt == loc[lhs].table
           rt == loc[rhs].table
           l == loc[lhs].row
           r == loc[rhs].row
           ty == lt[1] \union rt[1]
           p == LookupActive(ty)
           mem == Memory(p, ty)
           v == Over(DataOf(lhs), DataOf(rhs))
           L1 == Live \ {rhs}
           L2 == Live \ {lhs, rhs}
           l1 == Followed(tables[rt], r)
           fl == Followed(tables[lt], l)
           l2 == loc'
           left1 == LeftTables(mem, rt, r)
           left2 == LeftTables(left1, lt, l)
<1>1. /\ Good(Live, loc, tables) /\ DOMAIN loc = Entities /\ applying \in BOOLEAN
      /\ lt \in DOMAIN tables /\ rt \in DOMAIN tables /\ r \in Nat /\ l \in Nat
      /\ DataOf(lhs) \in [lt[1] -> Values] /\ DataOf(rhs) \in [rt[1] -> Values]
      /\ rhs \in Entities /\ lhs \in Entities
  BY RowOfLive, DataFacts DEF WorldInv
<1>2. /\ ty # lt[1] /\ ty # rt[1]
      /\ tables' = [mem EXCEPT ![rt] = RemoveRow(mem[rt], r), ![lt] = RemoveRow(mem[lt], l),
                               ![p] = AppendRow(mem[p], rhs, v)]
      /\ archetypes' = Registered(ty, p)
      /\ Freed(lhs) /\ UNCHANGED <<staging, applying>>
  <2>1. rt # lt /\ lt # p /\ rt # p
    <3>1. ty # lt[1] /\ ty # rt[1] /\ Target(ty, p)
      BY ActiveIsTarget DEF MergeIntoThird
    <3>2. p[1] = ty
      BY <3>1 DEF Target
    <3> QED
      BY <3>1, <3>2
  <2> QED
    BY <2>1 DEF MergeIntoThird
<1>3. Target(ty, p) /\ p[1] = ty
  BY ActiveIsTarget DEF MergeIntoThird, Target
<1>4. lt # rt /\ p # lt /\ p # rt
  BY <1>2, <1>3
<1>5. /\ Good(Live, loc, mem) /\ SameAt(Live, loc, tables, loc, mem)
      /\ DOMAIN mem = DOMAIN tables \union {p}
      /\ mem[lt] = tables[lt] /\ mem[rt] = tables[rt]
  <2>1. mem = Memory(p, p[1])
    BY <1>3
  <2> HIDE DEF mem, p, lt, rt
  <2> QED
    BY <1>1, <2>1, MemoryFacts
<1>6. /\ DOMAIN l2 = Entities
      /\ l2[rhs] = [table |-> p, row |-> Len(mem[p].entities) + 1]
      /\ \A x \in L2 : l2[x] = IF x \in Displaced(tables[rt], r) THEN l1[x] ELSE fl[x]
  <2>1. l2 = [x \in Entities |->
         CASE x = lhs -> Nowhere
           [] x = rhs -> [table |-> p, row |-> Len(mem[p].entities) + 1]
           [] x \notin {lhs, rhs} /\ x \in Displaced(tables[rt], r) -> [loc[x] EXCEPT !.row = r]
           [] x \notin {lhs, rhs} /\ x \in Displaced(tables[lt], l) -> [loc[x] EXCEPT !.row = l]
           [] OTHER -> loc[x]]
    BY DEF MergeIntoThird
  <2>2. DOMAIN l2 = Entities /\ l2[rhs] = [table |-> p, row |-> Len(mem[p].entities) + 1]
    <3> HIDE DEF p, mem
    <3> QED
      BY <1>1, <2>1
  <2>3. ASSUME NEW x \in L2
        PROVE  l2[x] = IF x \in Displaced(tables[rt], r) THEN l1[x] ELSE fl[x]
    <3>1. x \in Entities /\ x # lhs /\ x # rhs /\ x \notin {lhs, rhs}
      BY DEF Live
    <3>2. /\ l1[x] = IF x \in Displaced(tables[rt], r) THEN [loc[x] EXCEPT !.row = r] ELSE loc[x]
          /\ fl[x] = IF x \in Displaced(tables[lt], l) THEN [loc[x] EXCEPT !.row = l] ELSE loc[x]
      BY <3>1 DEF Followed
    <3>3. x \in Displaced(tables[rt], r) => x \notin Displaced(tables[lt], l)
      <4>1. x \in Displaced(tables[rt], r) => loc[x].table = rt
        BY <1>1, DisplacedTable
      <4>2. x \in Displaced(tables[lt], l) => loc[x].table = lt
        BY <1>1, DisplacedTable
      <4> QED
        BY <1>4, <4>1, <4>2
    <3>4. l2[x] = IF x \in Displaced(tables[rt], r) THEN [loc[x] EXCEPT !.row = r]
                  ELSE IF x \in Displaced(tables[lt], l) THEN [loc[x] EXCEPT !.row = l]
                  ELSE loc[x]
      <4> DEFINE inR == x \in Displaced(tables[rt], r)
                 inL == x \in Displaced(tables[lt], l)
                 a == [loc[x] EXCEPT !.row = r]
                 b == [loc[x] EXCEPT !.row = l]
                 c == [table |-> p, row |-> Len(mem[p].entities) + 1]
      <4>1. l2[x] = CASE x = lhs -> Nowhere
                      [] x = rhs -> c
                      [] x \notin {lhs, rhs} /\ inR -> a
                      [] x \notin {lhs, rhs} /\ inL -> b
                      [] OTHER -> loc[x]
        <5> HIDE DEF l2
        <5> QED
          BY <2>1, <3>1
      <4> HIDE DEF l2, inR, inL, a, b, c
      <4>2. l2[x] = IF inR THEN a ELSE IF inL THEN b ELSE loc[x]
        <5>1. CASE inR
          BY <3>1, <3>3, <4>1, <5>1 DEF inR, inL
        <5>2. CASE ~inR /\ inL
          BY <3>1, <4>1, <5>2
        <5>3. CASE ~inR /\ ~inL
          BY <3>1, <4>1, <5>3
        <5> QED
          BY <5>1, <5>2, <5>3
      <4> QED
        BY <4>2 DEF inR, inL, a, b
    <3> HIDE DEF l1, fl, l2, rt, lt, r, l
    <3> QED
      BY <3>2, <3>4
  <2> QED
    BY <2>2, <2>3
<1> HIDE DEF l2, mem, v, p
<1>7. L1 \subseteq Live /\ lhs \in L1 /\ L2 = L1 \ {lhs} /\ rhs \notin L2
  OBVIOUS
<1> HIDE DEF L1, L2
<1>8. Follows(L1, loc, l1, tables[rt], rt, r) /\ SameTables(L1, loc, l1)
  BY <1>7, LeaveWorld
<1>9. Follows(L1, loc, fl, tables[lt], lt, l) /\ SameTables(L1, loc, fl)
  BY <1>7, LeaveWorld
<1>10. l1[lhs] = loc[lhs]
  <2>1. loc[lhs].table # rt
    BY <1>4
  <2> HIDE DEF rt, r, l1
  <2> QED
    <3>1. /\ Good(Live, loc, tables) /\ rt \in DOMAIN tables /\ r \in Nat /\ lhs \in L1
          /\ Follows(L1, loc, l1, tables[rt], rt, r)
      BY <1>1, <1>7, <1>8
    <3> QED
      BY <2>1, <3>1, NotDisplaced
<1> HIDE DEF l1, fl
<1>11. Left(L1, loc, mem, l1, left1)
  BY <1>5, <1>8, LeaveTo DEF L1
<1>12. /\ left1[lt] = tables[lt] /\ left1[p] = mem[p]
       /\ DOMAIN left1 = DOMAIN mem
  BY <1>4, <1>5 DEF LeftTables
<1>13. ASSUME NEW x \in L2
       PROVE  /\ l2[x] = IF x \in Displaced(tables[lt], l) THEN [table |-> lt, row |-> l] ELSE l1[x]
              /\ l2[x].table = loc[x].table
  <2>1. x \in L1
    BY <1>7
  <2>2. CASE x \in Displaced(tables[rt], r)
    <3>1. loc[x].table = rt
      BY <1>1, <2>2, DisplacedTable
    <3>2. x \notin Displaced(tables[lt], l)
      <4>1. x \in Displaced(tables[lt], l) => loc[x].table = lt
        BY <1>1, DisplacedTable
      <4> QED
        BY <1>4, <3>1, <4>1
    <3>3. l2[x] = l1[x]
      BY <1>6, <2>2
    <3> QED
      BY <1>8, <2>1, <3>2, <3>3 DEF SameTables
  <2>3. CASE x \notin Displaced(tables[rt], r)
    <3>1. l2[x] = fl[x] /\ l1[x] = loc[x]
      BY <1>6, <1>8, <2>1, <2>3 DEF Follows
    <3>2. fl[x] = IF x \in Displaced(tables[lt], l) THEN [table |-> lt, row |-> l] ELSE loc[x]
      BY <1>9, <2>1 DEF Follows
    <3> QED
      BY <1>9, <2>1, <3>1, <3>2 DEF SameTables
  <2> QED
    BY <2>2, <2>3
<1>14. Left(L2, l1, left1, l2, left2)
  <2>1. Follows(L2, l1, l2, left1[lt], lt, l)
    BY <1>12, <1>13 DEF Follows
  <2>2. Good(L1, l1, left1) /\ lt = l1[lhs].table /\ l = l1[lhs].row
    BY <1>10, <1>11 DEF Left
  <2> HIDE DEF left1, lt, l
  <2> QED
    BY <1>7, <2>1, <2>2, LeaveTo
<1>15. /\ left2[p] = mem[p] /\ p \in DOMAIN left2 /\ DOMAIN left2 = DOMAIN tables \union {p}
       /\ tables' = AppendedTables(left2, p, rhs, v)
  BY <1>2, <1>4, <1>5 DEF LeftTables, AppendedTables
<1>16. v \in [p[1] -> Values]
  BY <1>1, <1>3, OverFacts DEF v
<1> HIDE DEF left1, left2
<1>17. /\ Good(L2 \union {rhs}, l2, tables')
       /\ SameAt(L2, l2, left2, l2, tables')
       /\ At(l2, tables', rhs) = v
       /\ DOMAIN tables' = DOMAIN tables \union {p}
  <2>1. /\ Good(L2, l2, left2) /\ rhs \notin L2 /\ p \in DOMAIN left2
        /\ l2[rhs] = [table |-> p, row |-> Len(left2[p].entities) + 1]
        /\ \A x \in L2 : l2[x] = l2[x]
    BY <1>6, <1>7, <1>14, <1>15 DEF Left
  <2>2. Entered(L2, l2, left2, l2, AppendedTables(left2, p, rhs, v), rhs, v)
    BY <1>1, <1>16, <2>1, Enter
  <2> QED
    BY <1>15, <2>2 DEF Entered
<1>18. /\ status' \in [Entities -> {"unused", "reserved", "live", "freed", "leaked"}]
       /\ Live' = Live \ {lhs}
  BY <1>2, FreedOK
<1>19. L2 \union {rhs} = Live' /\ L2 = Live \ {lhs, rhs}
  BY <1>18 DEF L2
<1>20. SameAt(L2, loc, tables, loc', tables')
  <2>1. \A x \in L2 : x \in L1 /\ x \in Live
    BY <1>7
  <2>2. \A x \in L2 : /\ At(loc, mem, x) = At(loc, tables, x)
                      /\ At(l1, left1, x) = At(loc, mem, x)
                      /\ At(l2, left2, x) = At(l1, left1, x)
                      /\ At(l2, tables', x) = At(l2, left2, x)
    BY <1>5, <1>11, <1>14, <1>17, <2>1 DEF Left, SameAt
  <2> QED
    BY <2>2 DEF SameAt, l2
<1>21. Maps' /\ (QueriesSeeAll => QueriesSeeAll')
  <2>1. l2[rhs].table = p
    BY <1>6
  <2>2. \A x \in Live' : loc'[x].table = p \/ \E y \in Live : loc'[x].table = loc[y].table
    <3> SUFFICES ASSUME NEW x \in Live' PROVE l2[x].table = p \/ \E y \in Live : l2[x].table = loc[y].table
      BY DEF l2
    <3>1. CASE x = rhs
      BY <2>1, <3>1
    <3>2. CASE x # rhs
      <4>1. x \in L2 /\ x \in Live
        BY <1>7, <1>19, <3>2
      <4> QED
        BY <1>13, <4>1
    <3> QED
      BY <3>1, <3>2
  <2>3. /\ DOMAIN archetypes' = DOMAIN archetypes \union (IF p \in DOMAIN tables THEN {} ELSE {ty})
        /\ \A t \in DOMAIN archetypes' :
             archetypes'[t] = IF t \in DOMAIN archetypes THEN archetypes[t] ELSE p
    BY <1>2 DEF Registered
  <2>4. p[1] \in DOMAIN archetypes' /\ archetypes'[p[1]] = p
    <3>1. CASE ty \in DOMAIN archetypes
      BY <1>3, <2>3, <3>1 DEF p, LookupActive
    <3>2. CASE ty \notin DOMAIN archetypes
      <4>1. p \notin DOMAIN tables
        BY <3>2, NewAddressIsNew DEF p, LookupActive
      <4> QED
        BY <1>3, <2>3, <3>2, <4>1
    <3> QED
      BY <3>1, <3>2
  <2> HIDE DEF ty
  <2>5. Maps'
    BY <1>2, <1>3, <1>17, <2>2, <2>3, MapsFollow
  <2>6. QueriesSeeAll => QueriesSeeAll'
    BY <1>2, <2>2, <2>3, <2>4, VisibleFollow
  <2> QED
    BY <2>5, <2>6
<1>22. WorldInv'
  BY <1>1, <1>2, <1>6, <1>17, <1>18, <1>19, <1>21 DEF WorldInv, l2
<1>23. DataOf(rhs)' = v
  BY <1>17 DEF DataOf, At, l2
<1> QED
  BY <1>18, <1>19, <1>20, <1>21, <1>22, <1>23 DEF Merged, Keeps, v

-----------------------------------------------------------------------------
(***************************************************************************)
(* The end of a batch, vacuum and clone drop tables; none of them is that  *)
(* of a live entity.                                                       *)
(***************************************************************************)
LEMMA TablesDropped ==
  ASSUME WorldInv, NEW S, tables' = Only(tables, S), Live' = Live,
         \A x \in Live : loc'[x] = loc[x],
         \A p \in DOMAIN tables \ S : NobodyIn(p)
  PROVE  /\ Live' = Live /\ Good(Live, loc, tables)' /\ Keeps(Live)
         /\ DOMAIN tables' = DOMAIN tables \intersect S
<1>1. Good(Live, loc, tables)
  BY DEF WorldInv
<1>2. \A p \in DOMAIN tables \ S : tables[p].entities = <<>>
  BY <1>1, NobodyIfEmpty
<1>3. Good(Live, loc, Only(tables, S)) /\ SameAt(Live, loc, tables, loc, Only(tables, S))
  BY <1>1, <1>2, DropTables
<1>4. DOMAIN Only(tables, S) = DOMAIN tables \intersect S
  BY DEF Only
<1> DEFINE l2 == loc'
<1> HIDE DEF l2
<1>5. \A x \in Live : l2[x] = loc[x]
  BY DEF l2
<1>6. Good(Live, l2, Only(tables, S)) /\ SameAt(Live, loc, tables, l2, Only(tables, S))
  <2>1. \A x \in Live : At(l2, Only(tables, S), x) = At(loc, Only(tables, S), x)
    BY <1>5 DEF At
  <2>2. RowsFound(Live, l2, Only(tables, S)) /\ RowsTrue(Live, l2, Only(tables, S))
    BY <1>3, <1>5 DEF Good, RowsFound, RowsTrue
  <2> QED
    BY <1>3, <2>1, <2>2 DEF Good, SameAt
<1> QED
  BY <1>4, <1>6 DEF Keeps, l2

LEMMA InUseFacts ==
  ASSUME WorldInv, NEW p \in DOMAIN tables
  PROVE  InUse(p) <=> ~NobodyIn(p)
BY NobodyIfEmpty DEF InUse, WorldInv

LEMMA FinishBatchOK ==
  ASSUME WorldInv, FinishBatch
  PROVE  /\ WorldInv'
         /\ Live' = Live /\ Keeps(Live) /\ QueriesSeeAll'
         /\ \A t \in DOMAIN archetypes \intersect DOMAIN archetypes' : archetypes'[t] = archetypes[t]
<1> DEFINE promoted == {ty \in DOMAIN staging : InUse(staging[ty])}
           archs == Over(Only(staging, promoted), archetypes)
           rest == Only(staging, DOMAIN staging \ promoted)
           demoted == {ty \in DOMAIN archs \ {VOID_TY} : ~InUse(archs[ty])}
           S == Owned(archetypes', staging')
<1>1. /\ archetypes' = Only(archs, DOMAIN archs \ demoted)
      /\ staging' = Over(Only(archs, demoted), rest)
      /\ tables' = Only(tables, S) /\ applying' = FALSE /\ UNCHANGED <<status, loc>>
  BY DEF FinishBatch, Keep
<1>2. /\ \A t \in DOMAIN archetypes : archetypes[t] \in DOMAIN tables /\ archetypes[t][1] = t
      /\ \A t \in DOMAIN staging : staging[t] \in DOMAIN tables /\ staging[t][1] = t
      /\ VOID_TY \in DOMAIN archetypes
      /\ \A q : q \in DOMAIN tables <=> (\E t \in DOMAIN archetypes : q = archetypes[t])
                                         \/ (\E t \in DOMAIN staging : q = staging[t])
      /\ \A t \in DOMAIN archetypes \intersect DOMAIN staging :
           archetypes[t] # staging[t] /\ NobodyIn(staging[t])
  BY DEF WorldInv, Maps, MapOK, Owned, StagingIdle
<1>3. \A t \in promoted : t \in DOMAIN staging \ DOMAIN archetypes /\ InUse(staging[t])
  BY <1>2, InUseFacts
<1>4. \A t \in DOMAIN staging \ promoted : NobodyIn(staging[t])
  BY <1>2, InUseFacts
<1> HIDE DEF promoted
<1>5. /\ DOMAIN archs = promoted \union DOMAIN archetypes
      /\ \A t \in promoted : archs[t] = staging[t]
      /\ \A t \in DOMAIN archetypes : archs[t] = archetypes[t]
  BY <1>3 DEF Over, Only
<1>6. DOMAIN rest = DOMAIN staging \ promoted /\ \A t \in DOMAIN rest : rest[t] = staging[t]
  BY DEF Only
<1> HIDE DEF archs, rest
<1>7. /\ demoted \subseteq DOMAIN archs /\ VOID_TY \notin demoted
      /\ \A t \in DOMAIN archs \ {VOID_TY} : t \notin demoted => InUse(archs[t])
      /\ \A t \in demoted : ~InUse(archs[t])
  OBVIOUS
<1> HIDE DEF demoted
<1>8. /\ DOMAIN archetypes' = DOMAIN archs \ demoted
      /\ \A t \in DOMAIN archetypes' : archetypes'[t] = archs[t]
  BY <1>1 DEF Only
<1>9. /\ DOMAIN staging' = demoted \union DOMAIN rest
      /\ \A t \in DOMAIN staging' : staging'[t] = IF t \in demoted THEN archs[t] ELSE rest[t]
  BY <1>1, <1>7 DEF Over, Only
<1>10. \A t \in DOMAIN archs : archs[t] \in DOMAIN tables /\ archs[t][1] = t
  BY <1>2, <1>3, <1>5
<1>11. \A q : q \in S <=> \/ \E t \in DOMAIN archs : q = archs[t]
                          \/ \E t \in DOMAIN rest \ demoted : q = rest[t]
  BY <1>7, <1>8, <1>9 DEF Owned
<1> HIDE DEF S
<1>12. S \subseteq DOMAIN tables
  BY <1>2, <1>6, <1>10, <1>11
<1>13. \A q \in DOMAIN tables \ S : NobodyIn(q)
  <2> SUFFICES ASSUME NEW q \in DOMAIN tables, q \notin S PROVE NobodyIn(q)
    OBVIOUS
  <2>1. \A t \in DOMAIN archetypes : q # archetypes[t]
    BY <1>5, <1>11
  <2>2. PICK t \in DOMAIN staging : q = staging[t]
    BY <1>2, <2>1
  <2>3. t \notin promoted
    BY <1>5, <1>11, <2>2
  <2> QED
    BY <1>4, <2>2, <2>3
<1>14. /\ Live' = Live /\ Good(Live, loc, tables)' /\ Keeps(Live)
       /\ DOMAIN tables' = S
  <2>1. Live' = Live
    BY <1>1 DEF Live
  <2> QED
    BY <1>1, <1>12, <1>13, <2>1, TablesDropped
<1>15. MapOK(archetypes)' /\ MapOK(staging)' /\ (VOID_TY \in DOMAIN archetypes)'
  <2>1. \A t \in DOMAIN archetypes' : archetypes'[t] \in S /\ archetypes'[t][1] = t
    BY <1>8, <1>10, <1>11
  <2>2. \A t \in DOMAIN staging' : staging'[t] \in S /\ staging'[t][1] = t
    BY <1>2, <1>6, <1>7, <1>9, <1>10, <1>11
  <2>3. VOID_TY \in DOMAIN archetypes'
    BY <1>2, <1>5, <1>7, <1>8
  <2> QED
    BY <1>14, <2>1, <2>2, <2>3 DEF MapOK, VOID_TY
<1>16. StagingIdle'
  <2> SUFFICES ASSUME NEW t \in DOMAIN archetypes', t \in DOMAIN staging'
               PROVE  archetypes'[t] # staging'[t] /\ NobodyIn(staging'[t])
    BY <1>1, <1>14 DEF StagingIdle, NobodyIn
  <2>1. t \in DOMAIN archs /\ t \notin demoted /\ t \in DOMAIN staging \ promoted
    BY <1>6, <1>8, <1>9
  <2>2. t \in DOMAIN archetypes /\ archetypes'[t] = archetypes[t] /\ staging'[t] = staging[t]
    BY <1>5, <1>6, <1>8, <1>9, <2>1
  <2> QED
    BY <1>2, <2>1, <2>2
<1>17. WorldInv'
  BY <1>1, <1>14, <1>15, <1>16 DEF WorldInv, Maps, S
<1>18. QueriesSeeAll'
  <2> SUFFICES ASSUME NEW e \in Live
               PROVE  /\ loc[e].table[1] \in DOMAIN archetypes'
                      /\ archetypes'[loc[e].table[1]] = loc[e].table
    BY <1>1, <1>14 DEF QueriesSeeAll
  <2> DEFINE q == loc[e].table
  <2>1. q \in DOMAIN tables /\ ~NobodyIn(q)
    BY RowOfLive DEF WorldInv, NobodyIn
  <2>2. InUse(q)
    BY <2>1, InUseFacts
  <2> HIDE DEF q
  <2>3. \E t \in DOMAIN archs : q = archs[t]
    <3>1. CASE \E t \in DOMAIN archetypes : q = archetypes[t]
      BY <1>5, <3>1
    <3>2. CASE \E t \in DOMAIN staging : q = staging[t]
      BY <1>4, <1>5, <2>1, <3>2
    <3> QED
      BY <1>2, <2>1, <3>1, <3>2
  <2>4. PICK t \in DOMAIN archs : q = archs[t] /\ t \notin demoted
    BY <1>7, <2>2, <2>3
  <2> QED
    BY <1>8, <1>10, <2>4 DEF q
<1>19. \A t \in DOMAIN archetypes \intersect DOMAIN archetypes' : archetypes'[t] = archetypes[t]
  BY <1>5, <1>8
<1> QED
  BY <1>14, <1>17, <1>18, <1>19

\* The staging tables go, nobody is in one of them.
LEMMA StagingDropped ==
  ASSUME WorldInv, \A ty \in DOMAIN staging : NobodyIn(staging[ty]),
         tables' = Only(tables, Owned(archetypes, staging')), staging' = [ty \in {} |-> <<>>],
         UNCHANGED <<archetypes, applying>>, Live' = Live,
         status' \in [Entities -> {"unused", "reserved", "live", "freed", "leaked"}],
         \A x \in Live : loc'[x] = loc[x], DOMAIN loc' = Entities
  PROVE  WorldInv' /\ Live' = Live /\ Keeps(Live) /\ (QueriesSeeAll => QueriesSeeAll')
<1> DEFINE S == Owned(archetypes, staging')
<1>1. /\ \A t \in DOMAIN archetypes : archetypes[t] \in DOMAIN tables /\ archetypes[t][1] = t
      /\ VOID_TY \in DOMAIN archetypes
      /\ DOMAIN tables = Owned(archetypes, staging)
  BY DEF WorldInv, Maps, MapOK
<1>2. DOMAIN staging' = {}
  OBVIOUS
<1>3. S = {archetypes[t] : t \in DOMAIN archetypes}
  BY <1>2 DEF Owned
<1> HIDE DEF S
<1>4. S \subseteq DOMAIN tables
  BY <1>1, <1>3
<1>5. \A q \in DOMAIN tables \ S : NobodyIn(q)
  BY <1>1, <1>3 DEF Owned
<1>6. /\ Live' = Live /\ Good(Live, loc, tables)' /\ Keeps(Live)
      /\ DOMAIN tables' = S
  BY <1>4, <1>5, TablesDropped DEF S
<1>7. Maps'
  BY <1>1, <1>2, <1>3, <1>6 DEF Maps, MapOK, StagingIdle, VOID_TY, S
<1>8. WorldInv'
  BY <1>6, <1>7 DEF WorldInv
<1>9. QueriesSeeAll => QueriesSeeAll'
  BY <1>6 DEF QueriesSeeAll
<1> QED
  BY <1>6, <1>8, <1>9

LEMMA StagingUnused ==
  ASSUME WorldInv, Careful, "vacuum_in_use" \in Avoid => \A ty \in DOMAIN staging : ~InUse(staging[ty])
  PROVE  \A ty \in DOMAIN staging : NobodyIn(staging[ty])
BY InUseFacts DEF Careful, WorldInv, Maps, MapOK

LEMMA VacuumOK ==
  ASSUME WorldInv, Careful, Vacuum
  PROVE  WorldInv' /\ Live' = Live /\ Keeps(Live) /\ (QueriesSeeAll => QueriesSeeAll')
<1>1. \A ty \in DOMAIN staging : NobodyIn(staging[ty])
  BY StagingUnused DEF Vacuum
<1>2. /\ tables' = Only(tables, Owned(archetypes, staging')) /\ staging' = [ty \in {} |-> <<>>]
      /\ UNCHANGED <<status, archetypes, applying, loc>>
  BY DEF Vacuum, Keep
<1>3. Live' = Live
  BY <1>2 DEF Live
<1> QED
  BY <1>1, <1>2, <1>3, StagingDropped DEF WorldInv

\* An Init that is dropped makes nobody live.
LEMMA ReservedDropped ==
  ASSUME WorldInv,
         status' = [e \in Entities |-> IF status[e] = "reserved" THEN "leaked" ELSE status[e]]
  PROVE  /\ status' \in [Entities -> {"unused", "reserved", "live", "freed", "leaked"}]
         /\ Live' = Live
<1>1. status \in [Entities -> {"unused", "reserved", "live", "freed", "leaked"}]
  BY DEF WorldInv
<1> QED
  BY <1>1 DEF Live

(***************************************************************************)
(* Nobody is in a staging table, so every live entity is visited, and what *)
(* the clone makes of its entry is what the index says of the original.    *)
(***************************************************************************)
LEMMA CloneOK ==
  ASSUME WorldInv, Careful, Clone
  PROVE  WorldInv' /\ Live' = Live /\ Keeps(Live) /\ (QueriesSeeAll => QueriesSeeAll')
<1>1. \A ty \in DOMAIN staging : NobodyIn(staging[ty])
  BY StagingUnused DEF Clone, CloneWith
<1>2. /\ tables' = Only(tables, Owned(archetypes, staging')) /\ staging' = [ty \in {} |-> <<>>]
      /\ UNCHANGED <<archetypes, applying>>
      /\ status' = [e \in Entities |-> IF status[e] = "reserved" THEN "leaked" ELSE status[e]]
      /\ loc' = [e \in Entities |->
           IF e \in Occupants THEN [loc[e] EXCEPT !.table = archetypes[@[1]]]
           ELSE Original(loc[e])]
  BY DEF Clone, CloneWith, Keep
<1>3. /\ Good(Live, loc, tables)
      /\ \A t \in DOMAIN archetypes : archetypes[t] \in DOMAIN tables /\ archetypes[t][1] = t
      /\ \A q \in DOMAIN tables : \/ \E t \in DOMAIN archetypes : q = archetypes[t]
                                 \/ \E t \in DOMAIN staging : q = staging[t]
  BY DEF WorldInv, Maps, MapOK, Owned
<1>4. ASSUME NEW x \in Live
      PROVE  x \in Occupants /\ [loc[x] EXCEPT !.table = archetypes[@[1]]] = loc[x]
  <2> DEFINE q == loc[x].table
             r == loc[x].row
  <2>1. q \in DOMAIN tables /\ r \in DOMAIN tables[q].entities /\ tables[q].entities[r] = x
    BY <1>3 DEF Good, RowsFound
  <2>2. loc[x] = [table |-> q, row |-> r]
    BY <1>3, <2>1 DEF Good, RowsTrue
  <2>3. ~NobodyIn(q)
    BY RowOfLive DEF WorldInv, NobodyIn
  <2> HIDE DEF q, r
  <2>4. PICK t \in DOMAIN archetypes : q = archetypes[t]
    BY <1>1, <1>3, <2>1, <2>3
  <2>5. x \in Occupants
    BY <2>1, <2>4 DEF Occupants, Copied
  <2>6. archetypes[q[1]] = q
    BY <1>3, <2>4
  <2> QED
    BY <2>2, <2>5, <2>6
<1>5. Live \subseteq Entities
  BY DEF Live
<1>6. DOMAIN loc' = Entities
  BY <1>2
<1>7. \A x \in Live : loc'[x] = loc[x]
  BY <1>2, <1>4, <1>5
<1>8. /\ status' \in [Entities -> {"unused", "reserved", "live", "freed", "leaked"}]
      /\ Live' = Live
  BY <1>2, ReservedDropped
<1> QED
  BY <1>1, <1>2, <1>6, <1>7, <1>8, StagingDropped

\* The steps that move nobody.
LEMMA QuietOK ==
  ASSUME WorldInv,
         \/ \E e \in Entities : ReserveId(e)
         \/ StartBatch
         \/ FailBatch
         \/ UNCHANGED vars
  PROVE  /\ WorldInv'
         /\ Live' = Live /\ Keeps(Live)
         /\ UNCHANGED <<loc, tables, archetypes, staging>>
<1>1. UNCHANGED <<loc, tables, archetypes, staging>> /\ applying' \in BOOLEAN
  BY DEF ReserveId, StartBatch, FailBatch, vars, WorldInv
<1>2. status' \in [Entities -> {"unused", "reserved", "live", "freed", "leaked"}] /\ Live' = Live
  <2>1. status \in [Entities -> {"unused", "reserved", "live", "freed", "leaked"}]
    BY DEF WorldInv
  <2>2. CASE \E e \in Entities : ReserveId(e)
    BY <2>1, <2>2 DEF ReserveId, Live
  <2>3. CASE FailBatch
    BY <2>3, ReservedDropped DEF FailBatch
  <2>4. CASE StartBatch \/ UNCHANGED vars
    BY <2>1, <2>4 DEF StartBatch, vars, Live
  <2> QED
    BY <2>2, <2>3, <2>4
<1>3. Maps'
  BY <1>1, <1>2 DEF WorldInv, Maps, MapOK, Owned, StagingIdle, NobodyIn
<1> QED
  BY <1>1, <1>2, <1>3 DEF WorldInv, Keeps, SameAt

LEMMA MergeOK ==
  ASSUME WorldInv, Careful, NEW lhs \in Entities, NEW rhs \in Entities, MergeEntities(lhs, rhs)
  PROVE  lhs \in Live /\ rhs \in Live /\ lhs # rhs /\ Merged(lhs, rhs)
<1>1. /\ lhs \in Live /\ rhs \in Live /\ lhs # rhs /\ UNCHANGED <<staging, applying>>
      /\ ~MergeSame(lhs, rhs)
  BY LocatedIsLive DEF MergeEntities, MergeSame, Careful
<1>2. CASE MergeIntoRhs(lhs, rhs)
  BY <1>1, <1>2, MergeIntoRhsOK
<1>3. CASE MergeIntoLhs(lhs, rhs)
  BY <1>1, <1>3, MergeIntoLhsOK
<1>4. CASE MergeIntoThird(lhs, rhs)
  BY <1>1, <1>4, MergeIntoThirdOK
<1> QED
  BY <1>1, <1>2, <1>3, <1>4 DEF MergeEntities
-----------------------------------------------------------------------------
(***************************************************************************)
(* The invariant.                                                          *)
(***************************************************************************)
CreateStep(e) == InsertEntity(e) \/ InsertId(e) \/ InitReserved(e)

LEMMA CreateFacts ==
  ASSUME NEW e \in Entities, CreateStep(e)
  PROVE  e \notin Live /\ InitId(e)
BY DEF CreateStep, InsertEntity, InsertId, InitReserved, Live

QuietStep ==
  \/ \E e \in Entities : ReserveId(e)
  \/ StartBatch
  \/ FailBatch
  \/ UNCHANGED vars

LEMMA StepCases ==
  ASSUME [Next]_vars
  PROVE  \/ \E e \in Entities : CreateStep(e)
         \/ \E e \in Entities : DeleteEntity(e)
         \/ \E e \in Entities, bundle \in Bundles : SetBundle(e, bundle)
         \/ \E e \in Entities, c \in Components : RemoveComponent(e, c)
         \/ \E lhs, rhs \in Entities : MergeEntities(lhs, rhs)
         \/ FinishBatch \/ Vacuum \/ Clone
         \/ QuietStep
BY DEF Next, CreateStep, QuietStep

LEMMA InvStep ==
  ASSUME Careful, WorldInv, [Next]_vars
  PROVE  WorldInv'
<1>1. ASSUME NEW e \in Entities, CreateStep(e) PROVE WorldInv'
  BY <1>1, CreateFacts, InitIdOK
<1>2. ASSUME NEW e \in Entities, DeleteEntity(e) PROVE WorldInv'
  BY <1>2, DeleteOK
<1>3. ASSUME NEW e \in Entities, NEW bundle \in Bundles, SetBundle(e, bundle) PROVE WorldInv'
  BY <1>3, SetBundleOK
<1>4. ASSUME NEW e \in Entities, NEW c \in Components, RemoveComponent(e, c) PROVE WorldInv'
  BY <1>4, RemoveComponentOK
<1>5. ASSUME NEW lhs \in Entities, NEW rhs \in Entities, MergeEntities(lhs, rhs) PROVE WorldInv'
  BY <1>5, MergeOK DEF Merged
<1>6. FinishBatch \/ Vacuum \/ Clone => WorldInv'
  BY FinishBatchOK, VacuumOK, CloneOK
<1>7. QuietStep => WorldInv'
  BY QuietOK DEF QuietStep
<1> QED
  BY <1>1, <1>2, <1>3, <1>4, <1>5, <1>6, <1>7, StepCases

LEMMA Invariant == Careful => (Spec => []WorldInv)
<1> SUFFICES ASSUME Careful PROVE Spec => []WorldInv
  OBVIOUS
<1>1. Init => WorldInv
  BY InitOK
<1>2. WorldInv /\ [Next]_vars => WorldInv'
  BY InvStep
<1> QED
  BY <1>1, <1>2, PTL DEF Spec

(***************************************************************************)
(* Tables have full rows, and the maps point to tables of the type they    *)
(* file them under.                                                        *)
(***************************************************************************)
THEOREM TypeCorrect == Careful => (Spec => []TypeOK)
<1>1. WorldInv => TypeOK
  <2> SUFFICES ASSUME WorldInv PROVE TypeOK
    OBVIOUS
  <2>1. \A p \in DOMAIN tables : tables[p] \in Table(p[1])
    BY DEF WorldInv, Good, Shape
  <2>2. \A p \in DOMAIN tables :
          /\ tables[p] \in [entities : Seq(Entities), columns : [p[1] -> Seq(Values)]]
          /\ \A c \in p[1] : Len(tables[p].columns[c]) = Len(tables[p].entities)
    BY <2>1 DEF Table
  <2>3. \A map \in {archetypes, staging} : \A ty \in DOMAIN map :
          map[ty] \in DOMAIN tables /\ map[ty][1] = ty
    BY DEF WorldInv, Maps, MapOK
  <2> QED
    BY <2>2, <2>3 DEF TypeOK, WorldInv, Maps
<1> QED
  BY <1>1, Invariant, PTL

(***************************************************************************)
(* The index and the tables agree whatever moves between tables.           *)
(***************************************************************************)
THEOREM IndexFollowsTables == Careful => (Spec => []IndexAgrees)
<1>1. WorldInv => IndexAgrees
  BY DEF WorldInv, Good, RowsFound, RowsTrue, IndexAgrees
<1> QED
  BY <1>1, Invariant, PTL

(***************************************************************************)
(* Merges of entities of different archetypes.  Unlike the lemmas about    *)
(* the invariant these ask nothing of the callers.                         *)
(***************************************************************************)
LEMMA FoundInTable ==
  ASSUME TypeOK, IndexAgrees, NEW e \in Live
  PROVE  /\ loc[e].table \in DOMAIN tables
         /\ tables[loc[e].table] \in Table(loc[e].table[1])
         /\ loc[e].row \in 1..Len(tables[loc[e].table].entities)
<1>1. /\ loc[e].table \in DOMAIN tables
      /\ loc[e].row \in DOMAIN tables[loc[e].table].entities
  BY DEF IndexAgrees
<1>2. tables[loc[e].table] \in Table(loc[e].table[1])
  BY <1>1 DEF TypeOK, Table
<1> QED
  BY <1>1, <1>2, TableFacts

\* An entity swapped into a row is in the table that row is of.
LEMMA DisplacedIsThere ==
  ASSUME TypeOK, IndexAgrees, NEW p \in DOMAIN tables, NEW row \in Nat,
         NEW x \in Displaced(tables[p], row)
  PROVE  loc[x].table = p
<1>1. tables[p].entities \in Seq(Entities)
  BY DEF TypeOK
<1>2. Len(tables[p].entities) \in DOMAIN tables[p].entities /\ x = tables[p].entities[Len(tables[p].entities)]
  BY <1>1 DEF Displaced
<1>3. loc[x] = [table |-> p, row |-> Len(tables[p].entities)]
  BY <1>2 DEF IndexAgrees
<1> QED
  BY <1>3

LEMMA SetRowValues ==
  ASSUME NEW ty, NEW t \in Table(ty), NEW row \in 1..Len(t.entities), NEW v, DOMAIN v \subseteq ty
  PROVE  RowOf(SetRow(t, row, v), row) = Over(v, RowOf(t, row))
<1> DEFINE cols == [c \in ty |-> IF c \in DOMAIN v THEN [t.columns[c] EXCEPT ![row] = v[c]]
                                 ELSE t.columns[c]]
<1>1. /\ DOMAIN t.columns = ty
      /\ \A c \in ty : row \in DOMAIN t.columns[c]
  BY TableFacts
<1>2. SetRow(t, row, v) = [t EXCEPT !.columns = cols]
  BY <1>1 DEF SetRow
<1>3. \A c \in ty : cols[c][row] = IF c \in DOMAIN v THEN v[c] ELSE t.columns[c][row]
  BY <1>1
<1>4. DOMAIN cols = ty
  OBVIOUS
<1> HIDE DEF cols
<1>5. SetRow(t, row, v).columns = cols
  BY <1>2 DEF Table
<1>6. RowOf(SetRow(t, row, v), row) = [c \in ty |-> cols[c][row]]
  BY <1>4, <1>5 DEF RowOf
<1>7. /\ RowOf(t, row) = [c \in ty |-> t.columns[c][row]]
      /\ DOMAIN v \union ty = ty
  BY <1>1 DEF RowOf
<1> QED
  BY <1>3, <1>6, <1>7 DEF Over

LEMMA AppendRowValues ==
  ASSUME NEW ty, NEW t \in Table(ty), NEW e, NEW v, DOMAIN v = ty
  PROVE  RowOf(AppendRow(t, e, v), Len(t.entities) + 1) = [c \in ty |-> v[c]]
<1>1. /\ DOMAIN t.columns = ty
      /\ \A c \in ty : t.columns[c] \in Seq(Values) /\ Len(t.columns[c]) = Len(t.entities)
  BY TableFacts
<1>2. AppendRow(t, e, v).columns = [c \in ty |-> Append(t.columns[c], v[c])]
  BY <1>1 DEF AppendRow
<1>3. ASSUME NEW c \in ty PROVE Append(t.columns[c], v[c])[Len(t.entities) + 1] = v[c]
  BY <1>1
<1> QED
  BY <1>2, <1>3 DEF RowOf

LEMMA RowIsFunction ==
  ASSUME NEW t, NEW row
  PROVE  RowOf(t, row) = [c \in DOMAIN t.columns |-> RowOf(t, row)[c]]
BY DEF RowOf

LEMMA OthersMerge ==
  ASSUME TypeOK, IndexAgrees, NEW lhs \in Entities, NEW rhs \in Entities,
         MergeEntities(lhs, rhs), loc[lhs].table[1] # loc[rhs].table[1]
  PROVE  RhsHasBoth(lhs, rhs)
<1> DEFINE lt == loc[lhs].table
           rt == loc[rhs].table
           l == loc[lhs].row
           r == loc[rhs].row
           a == DataOf(lhs)
           b == DataOf(rhs)
<1>1. lhs \in Live /\ rhs \in Live /\ lhs # rhs
  BY DEF MergeEntities, Located, Live
<1>2. /\ lt \in DOMAIN tables /\ rt \in DOMAIN tables /\ lt # rt
      /\ tables[lt] \in Table(lt[1]) /\ tables[rt] \in Table(rt[1])
      /\ l \in 1..Len(tables[lt].entities) /\ r \in 1..Len(tables[rt].entities)
  BY <1>1, FoundInTable
<1>3. l \in Nat /\ r \in Nat
  BY <1>2, TableFacts
<1>4. a = RowOf(tables[lt], l) /\ b = RowOf(tables[rt], r) /\ DOMAIN a = lt[1] /\ DOMAIN b = rt[1]
  BY <1>2, TableFacts DEF DataOf, RowOf
<1>5. DataOf(rhs)' = RowOf(tables'[loc'[rhs].table], loc'[rhs].row)
  BY DEF DataOf
<1>6. CASE MergeIntoRhs(lhs, rhs)
  <2>1. /\ lt[1] \subseteq rt[1]
        /\ tables' = [tables EXCEPT ![lt] = RemoveRow(tables[lt], l), ![rt] = SetRow(tables[rt], r, a)]
        /\ loc' = [Followed(tables[lt], l) EXCEPT ![lhs] = Nowhere]
    BY <1>2, <1>6 DEF MergeIntoRhs, MoveEntityInto
  <2>2. loc'[rhs] = loc[rhs]
    <3>1. rhs \notin Displaced(tables[lt], l)
      BY <1>2, <1>3, DisplacedIsThere
    <3> QED
      BY <1>1, <2>1, <3>1 DEF Followed
  <2>3. tables'[rt] = SetRow(tables[rt], r, a)
    BY <1>2, <2>1
  <2> HIDE DEF a
  <2>4. RowOf(SetRow(tables[rt], r, a), r) = Over(a, RowOf(tables[rt], r))
    BY <1>2, <1>4, <2>1, SetRowValues
  <2> QED
    BY <1>4, <1>5, <2>2, <2>3, <2>4 DEF RhsHasBoth, a
<1>7. CASE MergeIntoLhs(lhs, rhs)
  <2>1. /\ rt[1] \subseteq lt[1]
        /\ tables' = [tables EXCEPT ![rt] = RemoveRow(tables[rt], r), ![lt].entities[l] = rhs]
        /\ loc' = [Followed(tables[rt], r) EXCEPT ![lhs] = Nowhere, ![rhs] = loc[lhs]]
    BY <1>2, <1>7 DEF MergeIntoLhs
  <2>2. loc'[rhs] = loc[lhs]
    BY <1>1, <2>1 DEF Followed
  <2>3. tables'[lt] = [tables[lt] EXCEPT !.entities[l] = rhs]
    BY <1>2, <2>1
  <2>4. tables'[lt].columns = tables[lt].columns
    BY <1>2, <2>3 DEF Table
  <2>5. DataOf(rhs)' = a
    BY <1>4, <1>5, <2>2, <2>4 DEF RowOf
  <2>6. a = [c \in lt[1] |-> a[c]]
    BY <1>2, <1>4, TableFacts, RowIsFunction
  <2> HIDE DEF a, b
  <2>7. Over(a, b) = [c \in lt[1] |-> a[c]]
    BY <1>4, <2>1 DEF Over
  <2> QED
    BY <2>5, <2>6, <2>7 DEF RhsHasBoth, a, b
<1>8. CASE MergeIntoThird(lhs, rhs)
  <2> DEFINE ty == lt[1] \union rt[1]
             p == LookupActive(ty)
             mem == Memory(p, ty)
             v == Over(a, b)
             c0 == [table |-> p, row |-> Len(mem[p].entities) + 1]
  <2>1. p[1] = ty
    BY DEF LookupActive, NewAddress, TypeOK
  <2>2. p # lt /\ p # rt
    BY <1>8, <2>1 DEF MergeIntoThird
  <2>3. tables' = [mem EXCEPT ![rt] = RemoveRow(mem[rt], r), ![lt] = RemoveRow(mem[lt], l),
                              ![p] = AppendRow(mem[p], rhs, v)]
    BY <1>2, <1>8, <2>2 DEF MergeIntoThird
  <2>4. loc'[rhs] = c0
    <3>1. loc' = [x \in Entities |->
         CASE x = lhs -> Nowhere
           [] x = rhs -> c0
           [] x \notin {lhs, rhs} /\ x \in Displaced(tables[rt], r) -> [loc[x] EXCEPT !.row = r]
           [] x \notin {lhs, rhs} /\ x \in Displaced(tables[lt], l) -> [loc[x] EXCEPT !.row = l]
           [] OTHER -> loc[x]]
      BY <1>8 DEF MergeIntoThird
    <3> HIDE DEF c0
    <3> QED
      BY <1>1, <3>1
  <2> HIDE DEF ty, p
  <2>5. DOMAIN mem = DOMAIN tables \union {p} /\ mem[p] \in Table(ty)
    <3>1. CASE p \in DOMAIN tables
      <4>1. mem = tables /\ tables[p] \in Table(p[1])
        BY <3>1 DEF Memory, TypeOK, Table
      <4> HIDE DEF mem
      <4> QED
        BY <2>1, <3>1, <4>1
    <3>2. CASE p \notin DOMAIN tables
      BY <3>2, EmptyTableFacts DEF Memory
    <3> QED
      BY <3>1, <3>2
  <2> HIDE DEF mem
  <2>6. tables'[p] = AppendRow(mem[p], rhs, v)
    BY <2>3, <2>5
  <2>7. DOMAIN v = ty /\ v = [c \in ty |-> v[c]]
    <3> HIDE DEF a, b
    <3> QED
      BY <1>4 DEF Over, ty
  <2> HIDE DEF v
  <2>8. DataOf(rhs)' = RowOf(AppendRow(mem[p], rhs, v), Len(mem[p].entities) + 1)
    BY <1>5, <2>4, <2>6
  <2>9. DataOf(rhs)' = v
    BY <2>5, <2>7, <2>8, AppendRowValues
  <2> QED
    BY <2>9 DEF RhsHasBoth, v
<1> QED
  BY <1>6, <1>7, <1>8 DEF MergeEntities, MergeSame

(***************************************************************************)
(* A merge of two entities of different archetypes, out of a world whose   *)
(* index and tables agree, leaves rhs with the components of both, those   *)
(* of lhs first: whether the table of both types is that of rhs, that of   *)
(* lhs or a third one, and whatever callers avoid.  For two entities of    *)
(* one archetype it is false (MergeMovesAll).                              *)
(***************************************************************************)
THEOREM MergesMoveAll == Spec => MergeMovesOthers
<1>1. \A lhs, rhs \in Live :
        /\ loc[lhs].table[1] # loc[rhs].table[1] /\ MergeEntities(lhs, rhs)
        /\ TypeOK /\ IndexAgrees
        => RhsHasBoth(lhs, rhs)
  BY OthersMerge DEF Live
<1> QED
  BY <1>1, PTL DEF Spec, MergeMovesOthers

LEMMA SeeStep ==
  ASSUME Careful, WorldInv, [Next]_vars, FinishBatch \/ (QueriesSeeAll /\ ~FailBatch)
  PROVE  QueriesSeeAll'
<1>1. CASE FinishBatch
  BY <1>1, FinishBatchOK
<1>2. CASE QueriesSeeAll /\ ~FailBatch
  <2>1. ASSUME NEW e \in Entities, CreateStep(e) PROVE QueriesSeeAll'
    <3>1. /\ Live' = Live \union {e} /\ \A x \in Live : loc'[x] = loc[x]
          /\ loc'[e].table = archetypes[VOID_TY]
          /\ UNCHANGED <<archetypes, applying>>
      BY <2>1, CreateFacts, InitIdOK DEF InitId
    <3>2. \A x \in Live' : \/ loc'[x].table = archetypes[VOID_TY]
                           \/ \E y \in Live : loc'[x].table = loc[y].table
      BY <3>1
    <3> QED
      BY <1>2, <3>1, <3>2, VisibleKept
  <2>2. ASSUME NEW e \in Entities, DeleteEntity(e) PROVE QueriesSeeAll'
    <3>1. /\ Live' = Live \ {e} /\ SameTables(Live \ {e}, loc, loc')
          /\ UNCHANGED <<archetypes, applying>>
      BY <2>2, DeleteOK DEF DeleteEntity
    <3>2. \A x \in Live' : \E y \in Live : loc'[x].table = loc[y].table
      BY <3>1 DEF SameTables
    <3> QED
      BY <1>2, <3>1, <3>2, VisibleKept
  <2>3. ASSUME NEW e \in Entities, NEW bundle \in Bundles, SetBundle(e, bundle) PROVE QueriesSeeAll'
    BY <2>3 DEF SetBundle, QueriesSeeAll
  <2>4. ASSUME NEW e \in Entities, NEW c \in Components, RemoveComponent(e, c) PROVE QueriesSeeAll'
    BY <2>4 DEF RemoveComponent, QueriesSeeAll
  <2>5. ASSUME NEW lhs \in Entities, NEW rhs \in Entities, MergeEntities(lhs, rhs) PROVE QueriesSeeAll'
    BY <1>2, <2>5, MergeOK DEF Merged
  <2>6. Vacuum \/ Clone => QueriesSeeAll'
    BY <1>2, VacuumOK, CloneOK
  <2>7. QuietStep => QueriesSeeAll'
    <3> SUFFICES ASSUME QuietStep PROVE QueriesSeeAll'
      OBVIOUS
    <3>1. Live' = Live /\ UNCHANGED <<loc, tables, archetypes, staging>>
      BY QuietOK DEF QuietStep
    <3>2. applying' = applying \/ applying' = TRUE
      BY <1>2 DEF QuietStep, ReserveId, StartBatch, vars
    <3> QED
      BY <1>2, <3>1, <3>2 DEF QueriesSeeAll
  <2> QED
    BY <1>1, <2>1, <2>2, <2>3, <2>4, <2>5, <2>6, <2>7, StepCases
<1> QED
  BY <1>1, <1>2

(***************************************************************************)
(* Between batches queries see every live entity, until a batch fails; the *)
(* next one that completes makes all of them visible again.                *)
(***************************************************************************)
THEOREM EntitiesStayVisible == Careful => (Spec => StaysVisible)
<1> SUFFICES ASSUME Careful PROVE Spec => StaysVisible
  OBVIOUS
<1>1. Spec => []WorldInv
  BY Invariant
<1>2. WorldInv /\ [Next]_vars =>
        [FinishBatch \/ (QueriesSeeAll /\ ~FailBatch) => QueriesSeeAll']_vars
  BY SeeStep
<1> QED
  BY <1>1, <1>2, PTL DEF Spec, StaysVisible

LEMMA ReplaceStep ==
  ASSUME Careful, WorldInv, [Next]_vars
  PROVE  \A ty \in DOMAIN archetypes \intersect DOMAIN archetypes' : archetypes'[ty] = archetypes[ty]
<1>1. \A ty, p : archetypes' = Registered(ty, p) =>
        \A t \in DOMAIN archetypes \intersect DOMAIN archetypes' : archetypes'[t] = archetypes[t]
  BY DEF Registered
<1>2. CASE FinishBatch
  BY <1>2, FinishBatchOK
<1>3. CASE \E lhs, rhs \in Entities : MergeEntities(lhs, rhs)
  <2>1. PICK lhs \in Entities, rhs \in Entities : MergeEntities(lhs, rhs)
    BY <1>3
  <2>2. CASE MergeIntoThird(lhs, rhs)
    BY <1>1, <2>2 DEF MergeIntoThird
  <2>3. CASE MergeSame(lhs, rhs) \/ MergeIntoRhs(lhs, rhs) \/ MergeIntoLhs(lhs, rhs)
    BY <2>3 DEF MergeSame, MergeIntoRhs, MergeIntoLhs
  <2> QED
    BY <2>1, <2>2, <2>3 DEF MergeEntities
<1>4. CASE \/ \E e \in Entities, bundle \in Bundles : SetBundle(e, bundle)
           \/ \E e \in Entities, c \in Components : RemoveComponent(e, c)
  BY <1>1, <1>4 DEF SetBundle, RemoveComponent
<1>5. CASE \/ \E e \in Entities : CreateStep(e)
           \/ \E e \in Entities : DeleteEntity(e)
           \/ Vacuum \/ Clone \/ QuietStep
  <2>1. archetypes' = archetypes
    BY <1>5 DEF CreateStep, InsertEntity, InsertId, InitReserved, InitId, DeleteEntity, Vacuum, Clone, CloneWith,
                QuietStep, ReserveId, StartBatch, FailBatch, vars
  <2> QED
    BY <2>1
<1> QED
  BY <1>2, <1>3, <1>4, <1>5, StepCases

(***************************************************************************)
(* A table in archetypes is never replaced by another one of its type:     *)
(* what the comment in insert_archetype asks for, of careful callers.      *)
(***************************************************************************)
THEOREM TablesNeverReplaced == Careful => (Spec => NeverReplaced)
<1> SUFFICES ASSUME Careful PROVE Spec => NeverReplaced
  OBVIOUS
<1>1. Spec => []WorldInv
  BY Invariant
<1>2. WorldInv /\ [Next]_vars =>
        [\A ty \in DOMAIN archetypes \intersect DOMAIN archetypes' :
           archetypes'[ty] = archetypes[ty]]_vars
  BY ReplaceStep
<1> QED
  BY <1>1, <1>2, PTL DEF Spec, NeverReplaced

-----------------------------------------------------------------------------
(***************************************************************************)
(* The abstract store.                                                     *)
(***************************************************************************)
LEMMA DataIs ==
  /\ Data = [x \in Live |-> At(loc, tables, x)]
  /\ Data' = [x \in Live' |-> At(loc', tables', x)]
BY DEF Data, DataOf, At

LEMMA DataInit ==
  ASSUME Init PROVE Store!Init
<1>1. Live = {}
  BY DEF Init, Live
<1> QED
  BY <1>1 DEF Store!Init, Data

\* The components of S are kept, those of e become v.
ChangedTo(S, e, v) == Data' = [x \in S \union {e} |-> IF x = e THEN v ELSE Data[x]]

LEMMA DataChange ==
  ASSUME NEW S, NEW e, NEW v, Live' = S \union {e}, e \notin S, S \subseteq Live, Keeps(S), DataOf(e)' = v
  PROVE  ChangedTo(S, e, v)
<1>1. \A x \in S : At(loc', tables', x) = Data[x]
  BY DataIs DEF Keeps, SameAt
<1>2. At(loc', tables', e) = v
  BY DEF DataOf, At
<1> QED
  BY <1>1, <1>2, DataIs DEF ChangedTo

LEMMA DataKept ==
  ASSUME Live' \subseteq Live, Keeps(Live')
  PROVE  Data' = [x \in Live' |-> Data[x]]
<1>1. \A x \in Live' : At(loc', tables', x) = Data[x]
  BY DataIs DEF Keeps, SameAt
<1> QED
  BY <1>1, DataIs

\* A step that gives one entity other components changes them, or nothing.
LEMMA Touched ==
  ASSUME NEW e \in Live, NEW v, Data' = [Data EXCEPT ![e] = v], Data' # Data
  PROVE  e \in DOMAIN Data' /\ Data'[e] # Data[e]
BY DataIs DEF Data

LEMMA StoreStep ==
  ASSUME Careful, WorldInv, [Next]_vars
  PROVE  [Store!Next]_Data
<1>0. DOMAIN Data = Live /\ Live \subseteq Entities /\ \A x \in Live : Data[x] = DataOf(x)
  BY DEF Data, Live
<1>1. ASSUME NEW e \in Entities, CreateStep(e) PROVE Store!Create(e)
  <2>1. e \notin Live /\ Live' = Live \union {e} /\ Keeps(Live) /\ DataOf(e)' = [c \in {} |-> 0]
    BY <1>1, CreateFacts, InitIdOK
  <2>2. [c \in {} |-> 0] = [c \in {} |-> <<>>]
    OBVIOUS
  <2> DEFINE v == [c \in {} |-> <<>>]
  <2>3. DataOf(e)' = v
    BY <2>1, <2>2
  <2> HIDE DEF v
  <2>4. Data' = [x \in Live \union {e} |-> IF x = e THEN v ELSE Data[x]]
    <3>1. e \notin Live /\ Live \subseteq Live
      BY <2>1
    <3>2. ChangedTo(Live, e, v)
      BY <2>1, <2>3, <3>1, DataChange
    <3> QED
      BY <3>2 DEF ChangedTo
  <2> QED
    BY <1>0, <2>1, <2>4 DEF Store!Create, v
<1>2. ASSUME NEW e \in Entities, DeleteEntity(e) PROVE e \in Live /\ Store!Delete(e)
  <2>1. e \in Live /\ Live' = Live \ {e} /\ Keeps(Live \ {e})
    BY <1>2, DeleteOK
  <2>2. Data' = [x \in Live \ {e} |-> Data[x]]
    BY <2>1, DataKept
  <2> QED
    BY <1>0, <2>1, <2>2 DEF Store!Delete, Store!Without
<1>3. ASSUME NEW e \in Entities, NEW bundle \in Bundles, SetBundle(e, bundle)
      PROVE  e \in Live /\ Store!Set(e, bundle)
  <2> DEFINE v == Over(bundle, DataOf(e))
  <2>1. e \in Live /\ Live' = Live /\ Keeps(Live \ {e}) /\ DataOf(e)' = v
    BY <1>3, SetBundleOK
  <2>2. v = Store!Over(bundle, Data[e])
    BY <1>0, <2>1 DEF Over, Store!Over
  <2> HIDE DEF v
  <2>3. Data' = [x \in (Live \ {e}) \union {e} |-> IF x = e THEN v ELSE Data[x]]
    <3> DEFINE S == Live \ {e}
    <3>1. Live' = S \union {e} /\ e \notin S /\ S \subseteq Live /\ Keeps(S)
      BY <2>1
    <3> HIDE DEF S
    <3>2. ChangedTo(S, e, v)
      BY <2>1, <3>1, DataChange
    <3> QED
      BY <3>2 DEF ChangedTo, S
  <2> QED
    BY <1>0, <2>1, <2>2, <2>3, DataIs DEF Store!Set
<1>4. ASSUME NEW e \in Entities, NEW c \in Components, RemoveComponent(e, c)
      PROVE  e \in Live /\ Store!Remove(e, c)
  <2> DEFINE v == Only(DataOf(e), loc[e].table[1] \ {c})
  <2>1. e \in Live /\ Live' = Live /\ Keeps(Live \ {e}) /\ DataOf(e)' = v
    BY <1>4, RemoveComponentOK
  <2>2. v = Store!Without(Data[e], {c})
    <3>1. DOMAIN DataOf(e) = loc[e].table[1] /\ Data[e] = DataOf(e)
      BY <1>0, <2>1, DataFacts
    <3>2. DOMAIN DataOf(e) \intersect (loc[e].table[1] \ {c}) = DOMAIN DataOf(e) \ {c}
      BY <3>1
    <3> QED
      BY <3>1, <3>2 DEF Only, Store!Without
  <2> HIDE DEF v
  <2>3. Data' = [x \in (Live \ {e}) \union {e} |-> IF x = e THEN v ELSE Data[x]]
    <3> DEFINE S == Live \ {e}
    <3>1. Live' = S \union {e} /\ e \notin S /\ S \subseteq Live /\ Keeps(S)
      BY <2>1
    <3> HIDE DEF S
    <3>2. ChangedTo(S, e, v)
      BY <2>1, <3>1, DataChange
    <3> QED
      BY <3>2 DEF ChangedTo, S
  <2> QED
    BY <1>0, <2>1, <2>2, <2>3, DataIs DEF Store!Remove
<1>5. ASSUME NEW lhs \in Entities, NEW rhs \in Entities, MergeEntities(lhs, rhs)
      PROVE  lhs \in Live /\ rhs \in Live \ {lhs} /\ Store!Merge(lhs, rhs)
  <2> DEFINE v == Over(DataOf(lhs), DataOf(rhs))
  <2>1. /\ lhs \in Live /\ rhs \in Live /\ lhs # rhs
        /\ Live' = Live \ {lhs} /\ Keeps(Live \ {lhs, rhs}) /\ DataOf(rhs)' = v
    BY <1>5, MergeOK DEF Merged
  <2>2. v = Store!Over(Data[lhs], Data[rhs])
    BY <1>0, <2>1 DEF Over, Store!Over
  <2> HIDE DEF v
  <2>3. Data' = [x \in (Live \ {lhs, rhs}) \union {rhs} |-> IF x = rhs THEN v ELSE Data[x]]
    <3> DEFINE S == Live \ {lhs, rhs}
    <3>1. Live' = S \union {rhs} /\ rhs \notin S /\ S \subseteq Live /\ Keeps(S)
      BY <2>1
    <3> HIDE DEF S
    <3>2. ChangedTo(S, rhs, v)
      BY <2>1, <3>1, DataChange
    <3> QED
      BY <3>2 DEF ChangedTo, S
  <2>4. (Live \ {lhs, rhs}) \union {rhs} = Live \ {lhs}
    BY <2>1
  <2>5. Store!Merge(lhs, rhs)
    <3> DEFINE f == [Data EXCEPT ![rhs] = v]
    <3>1. DOMAIN f = Live /\ \A x \in Live : f[x] = IF x = rhs THEN v ELSE Data[x]
      BY <1>0, DataIs
    <3>2. f = [Data EXCEPT ![rhs] = Store!Over(Data[lhs], @)]
      BY <2>2
    <3> HIDE DEF f
    <3>3. Store!Without(f, {lhs}) = [x \in Live \ {lhs} |-> f[x]]
      BY <3>1 DEF Store!Without
    <3>4. Data' = Store!Without(f, {lhs})
      BY <2>3, <2>4, <3>1, <3>3
    <3> QED
      BY <3>2, <3>4 DEF Store!Merge
  <2> QED
    BY <2>1, <2>5
<1>6. FinishBatch \/ Vacuum \/ Clone \/ QuietStep => Data' = Data
  <2> SUFFICES ASSUME FinishBatch \/ Vacuum \/ Clone \/ QuietStep PROVE Data' = Data
    OBVIOUS
  <2>1. Live' = Live /\ Keeps(Live)
    BY FinishBatchOK, VacuumOK, CloneOK, QuietOK DEF QuietStep
  <2> QED
    BY <2>1, DataKept, DataIs
<1>7. (\E e \in Entities : CreateStep(e)) => Store!Next
  <2> SUFFICES ASSUME NEW e \in Entities, CreateStep(e) PROVE Store!Next
    OBVIOUS
  <2>1. e \in Entities \ DOMAIN Data /\ Store!Create(e)
    BY <1>1 DEF Store!Create
  <2> QED
    BY <2>1 DEF Store!Next
<1>8. (\E e \in Entities : DeleteEntity(e)) => Store!Next
  <2> SUFFICES ASSUME NEW e \in Entities, DeleteEntity(e) PROVE Store!Next
    OBVIOUS
  <2>1. e \in DOMAIN Data \ DOMAIN Data' /\ Store!Delete(e)
    BY <1>0, <1>2 DEF Store!Delete, Store!Without
  <2> QED
    BY <2>1 DEF Store!Next
<1>9. (\E e \in Entities, bundle \in Bundles : SetBundle(e, bundle)) => [Store!Next]_Data
  <2> SUFFICES ASSUME NEW e \in Entities, NEW bundle \in Bundles, SetBundle(e, bundle),
                      Data' # Data
               PROVE  Store!Next
    OBVIOUS
  <2>1. e \in Live /\ Store!Set(e, bundle)
    BY <1>3
  <2>2. e \in DOMAIN Data \intersect DOMAIN Data' /\ Data'[e] # Data[e]
    BY <1>0, <2>1, Touched DEF Store!Set
  <2> QED
    BY <2>1, <2>2 DEF Store!Next, Store!Bundles, Bundles
<1>10. (\E e \in Entities, c \in Components : RemoveComponent(e, c)) => [Store!Next]_Data
  <2> SUFFICES ASSUME NEW e \in Entities, NEW c \in Components, RemoveComponent(e, c),
                      Data' # Data
               PROVE  Store!Next
    OBVIOUS
  <2>1. e \in Live /\ Store!Remove(e, c)
    BY <1>4
  <2>2. e \in DOMAIN Data \intersect DOMAIN Data' /\ Data'[e] # Data[e]
    BY <1>0, <2>1, Touched DEF Store!Remove
  <2> QED
    BY <2>1, <2>2 DEF Store!Next
<1>11. (\E lhs, rhs \in Entities : MergeEntities(lhs, rhs)) => Store!Next
  <2> SUFFICES ASSUME NEW lhs \in Entities, NEW rhs \in Entities, MergeEntities(lhs, rhs)
               PROVE  Store!Next
    OBVIOUS
  <2>1. lhs \in Live /\ rhs \in Live \ {lhs} /\ Store!Merge(lhs, rhs)
    BY <1>5
  <2>2. lhs \in DOMAIN Data \ DOMAIN Data' /\ rhs \in DOMAIN Data \ {lhs}
    BY <1>0, <2>1 DEF Store!Merge, Store!Without
  <2> QED
    BY <2>1, <2>2 DEF Store!Next
<1> QED
  BY <1>6, <1>7, <1>8, <1>9, <1>10, <1>11, StepCases

(***************************************************************************)
(* The World implements the abstract entity store: whatever moves between  *)
(* tables, each step changes the components of the entities it names and   *)
(* of no other.                                                            *)
(***************************************************************************)
THEOREM ImplementsStore == Careful => (Spec => StoreSpec)
<1> SUFFICES ASSUME Careful PROVE Spec => StoreSpec
  OBVIOUS
<1>1. Init => Store!Init
  BY DataInit
<1>2. WorldInv /\ [Next]_vars => [Store!Next]_Data
  BY StoreStep
<1>3. Spec => []WorldInv
  BY Invariant
<1> QED
  BY <1>1, <1>2, <1>3, PTL DEF Spec, StoreSpec, Store!Spec
=============================================================================
