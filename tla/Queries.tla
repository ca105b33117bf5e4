------------------------------ MODULE Queries ------------------------------
(***************************************************************************)
(* Queries over the World (src/src/query.rs, query/filters.rs,             *)
(* query_set.rs): what a query yields by iteration, in parallel batches    *)
(* and by id, and which components it says it borrows.                     *)
(*                                                                         *)
(* A query is a sequence of parts and a filter.  The kinds of parts are    *)
(*   "ref" &T, "mut" &mut T, "opt" Option<&T>, "opt_mut" Option<&mut T>,   *)
(*   "has" Has<T>, "id" EntityId, "hash" ArchetypeHash,                    *)
(* and a filter is the set of archetype types it lets through.  An         *)
(* optional item, and what fetch returns, is a sequence of at most one     *)
(* value.  Iteration by &self, &mut self and the unsafe variants yield the *)
(* same rows, in the same order.                                           *)
(***************************************************************************)
EXTENDS World, SequencesExt

CONSTANTS
  Systems,       \* queries a system may have: sequences, of one query for
                 \* Query, of more for QuerySet
  Parallelism    \* the possible values of JobPool::parallelism

Kinds == {"ref", "mut", "opt", "opt_mut", "has", "id", "hash"}

ASSUME ParallelismAssumption == Parallelism \subseteq Nat \ {0}

\* A query has at least one part, and a program has finitely many types.
ASSUME SystemsAssumption ==
  /\ IsFiniteSet(Components)
  /\ \A s \in Systems : \A i \in DOMAIN s :
       /\ s[i].parts \in Seq([kind : Kinds, of : Components]) \ {<<>>}
       /\ s[i].filter \subseteq SUBSET Components

Queries == UNION {{s[i] : i \in DOMAIN s} : s \in Systems}
-----------------------------------------------------------------------------
(***************************************************************************)
(* Filters.                                                                *)
(***************************************************************************)
NoFilter == SUBSET Components
With(c) == {ty \in SUBSET Components : c \in ty}
WithOut(c) == {ty \in SUBSET Components : c \notin ty}
Or(f, g) == f \union g
Both(f, g) == f \intersect g        \* a tuple of filters, and with_filter
-----------------------------------------------------------------------------
(***************************************************************************)
(* Parts over one table: the iterator of a part as the sequence of its     *)
(* items, the part of it in a range of rows, and the item of one row.      *)
(***************************************************************************)
HasColumn(t, c) == c \in DOMAIN t.columns

\* Mutant: no items where the component is missing.
IterOptionSkips(t, c) ==
  IF HasColumn(t, c) THEN [row \in DOMAIN t.entities |-> <<t.columns[c][row]>>] ELSE <<>>

\* "Option<&T>": one item per row, with or without the column.
IterOption(t, c) ==
  [row \in DOMAIN t.entities |-> IF HasColumn(t, c) THEN <<t.columns[c][row]>> ELSE <<>>]

\* "Has<T>": the same answer for every row.
IterHas(t, c) == [row \in DOMAIN t.entities |-> HasColumn(t, c)]

\* "&T": the column, or no items at all.
IterColumn(t, c) == IF HasColumn(t, c) THEN t.columns[c] ELSE <<>>

IterPart(part, t) ==
  CASE part.kind \in {"ref", "mut"}     -> IterColumn(t, part.of)
    [] part.kind \in {"opt", "opt_mut"} -> IterOption(t, part.of)
    [] part.kind = "has"                -> IterHas(t, part.of)
    [] part.kind = "id"                 -> t.entities
    [] part.kind = "hash"               -> [row \in DOMAIN t.entities |-> DOMAIN t.columns]

\* A range of rows, from its first up to but without its end, counting from 0;
\* one past the end is a panic.  A part without items has nothing to slice.
IterRangePart(part, t, range) ==
  LET items == IterPart(part, t)
  IN IF items = <<>> THEN <<>> ELSE SubSeq(items, range[1] + 1, range[2])

FetchPart(part, t, row) ==
  CASE part.kind \in {"ref", "mut"} ->
         IF HasColumn(t, part.of) THEN <<t.columns[part.of][row]>> ELSE <<>>
    [] part.kind \in {"opt", "opt_mut"} ->
         << IF HasColumn(t, part.of) THEN <<t.columns[part.of][row]>> ELSE <<>> >>
    [] part.kind = "has"  -> <<HasColumn(t, part.of)>>
    [] part.kind = "id"   -> <<t.entities[row]>>
    [] part.kind = "hash" -> <<DOMAIN t.columns>>

ContainsPart(part, t) == part.kind \in {"ref", "mut"} => HasColumn(t, part.of)
-----------------------------------------------------------------------------
(***************************************************************************)
(* Tuples of parts: the iterators go in step until one of them ends; fetch *)
(* and contains need all parts.                                            *)
(***************************************************************************)
InStep(seqs) ==
  LET shortest == CHOOSE n \in {Len(seqs[j]) : j \in DOMAIN seqs} :
                    \A j \in DOMAIN seqs : n <= Len(seqs[j])
  IN [i \in 1..shortest |-> [j \in DOMAIN seqs |-> seqs[j][i]]]

Iter(q, t) == InStep([j \in DOMAIN q.parts |-> IterPart(q.parts[j], t)])

IterRange(q, t, range) == InStep([j \in DOMAIN q.parts |-> IterRangePart(q.parts[j], t, range)])

FetchRow(q, t, row) ==
  LET items == [j \in DOMAIN q.parts |-> FetchPart(q.parts[j], t, row)]
  IN IF \A j \in DOMAIN items : items[j] # <<>>
     THEN << [j \in DOMAIN items |-> items[j][1]] >> ELSE <<>>

ContainsTable(q, t) == \A j \in DOMAIN q.parts : ContainsPart(q.parts[j], t)
-----------------------------------------------------------------------------
(***************************************************************************)
(* Query.                                                                  *)
(***************************************************************************)
Visited(q) == DOMAIN archetypes \intersect q.filter
TableOf(ty) == tables[archetypes[ty]]

\* Query::iter: per archetype, as they come in no order of their own.
QueryIter(q) == [ty \in Visited(q) |-> Iter(q, TableOf(ty))]

Matching(q) == {ty \in Visited(q) : ContainsTable(q, TableOf(ty))}

Count(q) == FoldSet(LAMBDA ty, n : n + Len(TableOf(ty).entities), 0, Matching(q))
IsEmpty(q) == \A ty \in Matching(q) : TableOf(ty).entities = <<>>
AnyRow(q) == \E ty \in Matching(q) : TableOf(ty).entities # <<>>

\* Query::fetch and contains: by id, in whatever table the entity is.
Fetch(q, e) ==
  IF e \in Live /\ loc[e].table[1] \in q.filter
  THEN FetchRow(q, tables[loc[e].table], loc[e].row) ELSE <<>>

ContainsId(q, e) ==
  e \in Live /\ loc[e].table[1] \in q.filter /\ ContainsTable(q, tables[loc[e].table])

\* Mutant: the last batch starts a row late.
BatchesSkipOne(len, size) ==
  Append([i \in 1..(len \div size) |-> <<(i - 1) * size, i * size>>],
         <<len - (len % size) + 1, len>>)

\* batches: whole ones, and what is left over, which may be nothing.
Batches(len, size) ==
  Append([i \in 1..(len \div size) |-> <<(i - 1) * size, i * size>>],
         <<len - (len % size), len>>)

\* Query::par_for_each: one job per batch, in the order they are spawned.
ParForEach(q, parallelism) ==
  [ty \in {ty \in Visited(q) : TableOf(ty).entities # <<>>} |->
     LET t == TableOf(ty)
         len == Len(t.entities)
         ranges == Batches(len, len \div parallelism + 1)
     IN [k \in DOMAIN ranges |-> IterRange(q, t, ranges[k])]]
-----------------------------------------------------------------------------
(***************************************************************************)
(* Borrows.                                                                *)
(***************************************************************************)
PartsOf(q) == {q.parts[j] : j \in DOMAIN q.parts}

TypesMut(q) == {part.of : part \in {p \in PartsOf(q) : p.kind \in {"mut", "opt_mut"}}}
TypesConst(q) == {part.of : part \in {p \in PartsOf(q) : p.kind \in {"ref", "opt"}}}

\* Mutant: the types a set borrows are those of its first query.
ComponentsMutOfFirst(s) == TypesMut(s[1])

\* QuerySet::components_mut and components_const, and those of Query.
ComponentsMut(s) == UNION {TypesMut(s[i]) : i \in DOMAIN s}
ComponentsConst(s) == (UNION {TypesConst(s[i]) : i \in DOMAIN s}) \ ComponentsMut(s)

\* The debug assertion in types_mut of "&mut T": T is not in the set yet.
AssertedOnce(q) ==
  \A i, j \in DOMAIN q.parts :
    i < j /\ q.parts[i].kind \in {"mut", "opt_mut"} /\ q.parts[j].kind = "mut"
      => q.parts[i].of # q.parts[j].of

\* ensure_query_valid; a set shares its types out among its queries.
Valid(s) ==
  /\ \A i \in DOMAIN s : AssertedOnce(s[i])
  /\ ComponentsMut(s) \intersect ComponentsConst(s) = {}

\* QueryProperties::is_disjoint, for components.
Disjoint(s, r) ==
  /\ ComponentsMut(s) \intersect (ComponentsMut(r) \union ComponentsConst(r)) = {}
  /\ ComponentsConst(s) \intersect ComponentsMut(r) = {}

\* Query::subset: the sub-query may borrow no more than its parent.
Subset(q, sub) ==
  /\ Valid(<<sub>>)
  /\ TypesMut(sub) \subseteq TypesMut(q)
  /\ TypesConst(sub) \subseteq TypesMut(q) \union TypesConst(q)

\* The queries a system can iterate with the parameter s.
Derived(s) ==
  {s[i] : i \in DOMAIN s} \union
  {sub \in Queries : \E i \in DOMAIN s : sub.filter = s[i].filter /\ Subset(s[i], sub)}

\* Two parameters of one system, or of two systems of one stage that nothing
\* orders, are admitted if both are valid and their borrows are disjoint: the
\* queries that may be iterated at the same time then.
MayMeet ==
  LET admitted == {p \in Systems \X Systems : Valid(p[1]) /\ Valid(p[2]) /\ Disjoint(p[1], p[2])}
  IN UNION {Derived(p[1]) \X Derived(p[2]) : p \in admitted}
-----------------------------------------------------------------------------
(***************************************************************************)
(* Properties.                                                             *)
(***************************************************************************)
\* What query q should show of an entity with the components data.
Matches(q, data) ==
  /\ DOMAIN data \in q.filter
  /\ \A part \in PartsOf(q) : part.kind \in {"ref", "mut"} => part.of \in DOMAIN data

Item(q, e, data) ==
  [j \in DOMAIN q.parts |->
    LET part == q.parts[j] IN
    CASE part.kind \in {"ref", "mut"}     -> data[part.of]
      [] part.kind \in {"opt", "opt_mut"} -> IF part.of \in DOMAIN data THEN <<data[part.of]>> ELSE <<>>
      [] part.kind = "has"                -> part.of \in DOMAIN data
      [] part.kind = "id"                 -> e
      [] part.kind = "hash"               -> DOMAIN data]

Visible == {e \in Live : loc[e].table[1] \in DOMAIN archetypes
                         /\ archetypes[loc[e].table[1]] = loc[e].table}

Occurrences(x, results) ==
  Cardinality({at \in (DOMAIN results) \X (1..Cardinality(Entities)) :
                 at[2] <= Len(results[at[1]]) /\ results[at[1]][at[2]] = x})

(***************************************************************************)
(* However entities have been moved between tables, iteration yields every *)
(* visible entity the query matches once, with its own components side by  *)
(* side in one item, and nothing else; count, is_empty and any agree with  *)
(* it, although they look at tables and not at items; fetch and contains   *)
(* give the same item for the id, and nothing for an id that is not alive. *)
(***************************************************************************)
QueriesAgree ==
  ~applying => \A q \in Queries :
    LET data    == Data
        matched == {e \in Live : Matches(q, data[e])}
        found   == matched \intersect Visible
        results == QueryIter(q)
        items   == UNION {{results[ty][i] : i \in DOMAIN results[ty]} : ty \in DOMAIN results}
    IN
    /\ \A x \in items \union {Item(q, e, data[e]) : e \in found} :
         Occurrences(x, results) = Cardinality({e \in found : Item(q, e, data[e]) = x})
    /\ Count(q) = Cardinality(found)
    /\ IsEmpty(q) <=> found = {}
    /\ AnyRow(q) <=> found # {}
    /\ \A e \in Entities :
         /\ Fetch(q, e) = IF e \in matched THEN <<Item(q, e, data[e])>> ELSE <<>>
         /\ ContainsId(q, e) <=> e \in matched

(***************************************************************************)
(* Whatever the number of workers, the jobs of par_for_each get each row   *)
(* once: the batches laid end to end are the iteration, and no job is      *)
(* given rows past the end of its table.                                   *)
(***************************************************************************)
ParallelOnce ==
  ~applying => \A q \in Queries, n \in Parallelism :
    LET serial   == QueryIter(q)
        parallel == ParForEach(q, n)
    IN \A ty \in DOMAIN serial :
         serial[ty] = IF ty \in DOMAIN parallel THEN FlattenSeq(parallel[ty]) ELSE <<>>

\* The components of an entity of type ty that an item of query q refers to.
Borrowed(q, ty, kinds) ==
  IF ty \in q.filter /\ \A part \in PartsOf(q) : part.kind \in {"ref", "mut"} => part.of \in ty
  THEN {part.of : part \in {p \in PartsOf(q) : p.kind \in kinds}} \intersect ty
  ELSE {}

(***************************************************************************)
(* What one of two admitted parameters may write through the items of its  *)
(* queries, or of queries made from them by subset, the other one never    *)
(* sees: in a QuerySet too, which leaves out of its shared types those     *)
(* another query of the set borrows mutably.                               *)
(***************************************************************************)
WritesUnseen ==
  ~applying => \A meet \in MayMeet : \A e \in Visible :
    LET ty == loc[e].table[1] IN
    Borrowed(meet[1], ty, {"mut", "opt_mut"})
      \intersect Borrowed(meet[2], ty, {"ref", "mut", "opt", "opt_mut"}) = {}

(***************************************************************************)
(* "A query may only borrow a type once" (query.rs:1114): no item of a     *)
(* valid query has two references to one component, one of them mutable.   *)
(***************************************************************************)
BorrowedOnce ==
  ~applying => \A s \in Systems : Len(s) = 1 /\ Valid(s) =>
    \A e \in Visible : Matches(s[1], DataOf(e)) =>
      \A i, j \in DOMAIN s[1].parts :
        LET p == s[1].parts[i]
            r == s[1].parts[j]
        IN i # j /\ p.kind \in {"mut", "opt_mut"} /\ r.kind \in {"ref", "mut", "opt", "opt_mut"}
           /\ p.of \in loc[e].table[1] => p.of # r.of
=============================================================================
