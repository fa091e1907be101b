---------------------------- MODULE PagingProofs ----------------------------
(***************************************************************************)
(* Theorems about Paging.  What a page lists is an ORDER BY with LIMIT and *)
(* OFFSET; the lemmas first show that ranks number the rows of a table     *)
(* from 0 without gaps, so that a page is exactly the rows whose ranks lie *)
(* in its interval.  The invariant then follows one scroll.                *)
(***************************************************************************)
EXTENDS Paging, FiniteSetTheorems, TLAPS

-----------------------------------------------------------------------------
(* Arithmetic. *)

LEMMA MaxMin ==
    ASSUME NEW a \in Int, NEW b \in Int
    PROVE  /\ Max({a, b}) = IF a >= b THEN a ELSE b
           /\ Min({a, b}) = IF a <= b THEN a ELSE b
<1>1. PICK x \in {a, b} : \A y \in {a, b} : x >= y
  OBVIOUS
<1>2. Max({a, b}) \in {a, b} /\ \A y \in {a, b} : Max({a, b}) >= y
  BY <1>1 DEF Max
<1>3. PICK z \in {a, b} : \A y \in {a, b} : z <= y
  OBVIOUS
<1>4. Min({a, b}) \in {a, b} /\ \A y \in {a, b} : Min({a, b}) <= y
  BY <1>3 DEF Min
<1> QED
  BY <1>2, <1>4

LEMMA TimesMonotone ==
    ASSUME NEW a \in Nat, NEW b \in Nat, NEW s \in Nat, a <= b
    PROVE  a * s <= b * s
<1>1. b * s = a * s + (b - a) * s
  OBVIOUS
<1>2. (b - a) * s >= 0 /\ a * s \in Int /\ (b - a) * s \in Int
  OBVIOUS
<1> QED
  BY <1>1, <1>2

\* has_next is exact: the pages up to page hold all counted rows just when
\* page is not below total_pages.
LEMMA PagesCover ==
    ASSUME NEW total \in Nat, NEW size \in Nat \ {0}, NEW page \in Nat \ {0}
    PROVE  page < TotalPages(total, size) <=> page * size < total
<1>1. CASE total = 0
  <2>1. page * size >= 0
    OBVIOUS
  <2> QED
    BY <1>1, <2>1 DEF TotalPages
<1>2. CASE total # 0
  <2>1. PICK q \in Nat : q = (total + size - 1) \div size
    OBVIOUS
  <2>2. q = TotalPages(total, size)
    BY <1>2, <2>1 DEF TotalPages
  <2>3. /\ q * size <= total + size - 1
        /\ total + size - 1 < q * size + size
    BY <2>1
  <2>4. ASSUME page < q PROVE page * size < total
    <3>1. (page + 1) * size <= q * size
      BY <2>4, TimesMonotone
    <3>2. (page + 1) * size = page * size + size
      OBVIOUS
    <3>3. page * size \in Int /\ q * size \in Int
      OBVIOUS
    <3> QED
      BY <3>1, <3>2, <3>3, <2>3
  <2>5. ASSUME q <= page PROVE total <= page * size
    <3>1. q * size <= page * size
      BY <2>5, TimesMonotone
    <3>2. page * size \in Int /\ q * size \in Int
      OBVIOUS
    <3> QED
      BY <3>1, <3>2, <2>3
  <2>6. page * size \in Int
    OBVIOUS
  <2> QED
    BY <2>2, <2>4, <2>5, <2>6
<1> QED
  BY <1>1, <1>2

LEMMA BelowModulus ==
    ASSUME NEW a \in Nat, NEW w \in Nat \ {0}, a < w
    PROVE  a % w = a
OBVIOUS

LEMMA OffsetIsExact ==
    ASSUME NEW page \in Nat \ {0}, NEW size \in Nat, (page - 1) * size < Wide
    PROVE  (page - 1) * size \in Nat /\ Offset(page, size) = (page - 1) * size
<1>1. PICK skipped \in Nat : skipped = (page - 1) * size
  OBVIOUS
<1>2. Wide \in Nat \ {0}
  BY PagingAssumption
<1>3. skipped % Wide = skipped
  BY <1>1, <1>2, BelowModulus
<1> QED
  BY <1>1, <1>3 DEF Offset

LEMMA Counting ==
    ASSUME NEW n \in Nat
    PROVE  /\ IsFiniteSet(1..n) /\ Cardinality(1..n) = n
           /\ IsFiniteSet(0..n - 1) /\ Cardinality(0..n - 1) = n
           /\ \A i \in 1..n : /\ IsFiniteSet(1..n \ {i})
                             /\ Cardinality(1..n \ {i}) = n - 1
<1>1. IsFiniteSet(1..n) /\ Cardinality(1..n) = n
  <2>1. 1 \in Int /\ n \in Int
    OBVIOUS
  <2>2. /\ IsFiniteSet(1..n)
        /\ Cardinality(1..n) = IF 1 > n THEN 0 ELSE n - 1 + 1
    BY <2>1, FS_Interval
  <2> QED
    BY <2>2
<1>2. IsFiniteSet(0..n - 1) /\ Cardinality(0..n - 1) = n
  <2>1. 0 \in Int /\ n - 1 \in Int
    OBVIOUS
  <2>2. /\ IsFiniteSet(0..n - 1)
        /\ Cardinality(0..n - 1) = IF 0 > n - 1 THEN 0 ELSE n - 1 - 0 + 1
    BY <2>1, FS_Interval
  <2> QED
    BY <2>2
<1>3. ASSUME NEW i \in 1..n
      PROVE  IsFiniteSet(1..n \ {i}) /\ Cardinality(1..n \ {i}) = n - 1
  BY <1>1, <1>3, FS_RemoveElement
<1> QED
  BY <1>1, <1>2, <1>3

-----------------------------------------------------------------------------
(* Ranks. *)

LEMMA ColumnIsNat ==
    ASSUME NEW row \in Rows, NEW sort \in SortKeys
    PROVE  Column(row, sort) \in Nat
BY PagingAssumption DEF Rows, Column, SortKeys, NoExit

\* The ORDER BY with id DESC as its last key is a strict total order.
LEMMA BeforeIsOrder ==
    ASSUME NEW table \in Seq(Rows), NEW sort \in SortKeys, NEW dir \in Directions,
           NEW i \in DOMAIN table, NEW j \in DOMAIN table
    PROVE  /\ ~Before(table, i, i, sort, dir)
           /\ i # j => Before(table, i, j, sort, dir) \/ Before(table, j, i, sort, dir)
           /\ \A k \in DOMAIN table :
                Before(table, k, i, sort, dir) /\ Before(table, i, j, sort, dir)
                => Before(table, k, j, sort, dir)
<1>1. \A k \in DOMAIN table : k \in Nat /\ Column(table[k], sort) \in Nat
  BY ColumnIsNat
<1> QED
  BY <1>1 DEF Before

\* A query selects from the rows of a table, finitely many.
LEMMA SelectedRows ==
    ASSUME NEW table \in Seq(Rows), NEW query
    PROVE  /\ Matching(table, query) \subseteq DOMAIN table
           /\ IsFiniteSet(Matching(table, query))
           /\ Cardinality(Matching(table, query)) \in 0..Len(table)
<1>1. DOMAIN table = 1..Len(table) /\ Len(table) \in Nat
  OBVIOUS
<1>2. IsFiniteSet(1..Len(table)) /\ Cardinality(1..Len(table)) = Len(table)
  BY <1>1, Counting
<1>3. Matching(table, query) \in SUBSET (1..Len(table))
  BY <1>1 DEF Matching
<1>4. /\ IsFiniteSet(Matching(table, query))
      /\ Cardinality(Matching(table, query)) <= Len(table)
  BY <1>2, <1>3, FS_Subset
<1>5. Cardinality(Matching(table, query)) \in Nat
  BY <1>4, FS_CardinalityType
<1> QED
  BY <1>1, <1>3, <1>4, <1>5

LEMMA EarlierRows ==
    ASSUME NEW table \in Seq(Rows), NEW query, NEW sort \in SortKeys,
           NEW dir \in Directions, NEW i \in DOMAIN table
    PROVE  /\ IsFiniteSet({j \in Matching(table, query) : Before(table, j, i, sort, dir)})
           /\ Rank(table, i, query, sort, dir) \in Nat
           /\ i \in Matching(table, query) =>
                Rank(table, i, query, sort, dir) \in 0..Cardinality(Matching(table, query)) - 1
<1> DEFINE M == Matching(table, query)
           Earlier == {j \in M : Before(table, j, i, sort, dir)}
<1>1. M \subseteq DOMAIN table /\ IsFiniteSet(M) /\ Cardinality(M) \in Nat
  BY SelectedRows
<1>2. IsFiniteSet(Earlier)
  <2>1. Earlier \in SUBSET M
    OBVIOUS
  <2> HIDE DEF Earlier, M
  <2> QED
    BY <1>1, <2>1, FS_Subset
<1>3. Cardinality(Earlier) \in Nat
  <2> HIDE DEF Earlier
  <2> QED
    BY <1>2, FS_CardinalityType
<1>4. ASSUME i \in M PROVE Cardinality(Earlier) \in 0..Cardinality(M) - 1
  <2>1. IsFiniteSet(M \ {i}) /\ Cardinality(M \ {i}) = Cardinality(M) - 1
    <3> HIDE DEF M
    <3> QED
      BY <1>1, <1>4, FS_RemoveElement
  <2>2. Earlier \in SUBSET (M \ {i})
    BY BeforeIsOrder
  <2>3. Cardinality(Earlier) <= Cardinality(M \ {i})
    <3> HIDE DEF Earlier, M
    <3> QED
      BY <2>1, <2>2, FS_Subset
  <2> HIDE DEF Earlier, M
  <2> QED
    BY <1>1, <1>3, <2>1, <2>3
<1> QED
  BY <1>2, <1>3, <1>4 DEF Rank

LEMMA RankBound ==
    ASSUME NEW table \in Seq(Rows), NEW query, NEW sort \in SortKeys,
           NEW dir \in Directions, NEW i \in DOMAIN table
    PROVE  /\ Rank(table, i, query, sort, dir) \in Nat
           /\ i \in Matching(table, query) =>
                Rank(table, i, query, sort, dir) \in 0..Cardinality(Matching(table, query)) - 1
BY EarlierRows

LEMMA RankOrders ==
    ASSUME NEW table \in Seq(Rows), NEW query, NEW sort \in SortKeys,
           NEW dir \in Directions, NEW i \in Matching(table, query),
           NEW j \in Matching(table, query), Before(table, i, j, sort, dir)
    PROVE  Rank(table, i, query, sort, dir) < Rank(table, j, query, sort, dir)
<1> DEFINE Earlier(x) == {k \in Matching(table, query) : Before(table, k, x, sort, dir)}
<1>0. Matching(table, query) \subseteq DOMAIN table
  BY SelectedRows
<1>1. IsFiniteSet(Earlier(i)) /\ IsFiniteSet(Earlier(j))
  BY <1>0, EarlierRows
<1>2. Earlier(i) \in SUBSET Earlier(j)
  BY <1>0, BeforeIsOrder
<1>3. i \in Earlier(j) /\ i \notin Earlier(i)
  BY <1>0, BeforeIsOrder
<1>4. Cardinality(Earlier(i)) <= Cardinality(Earlier(j))
      /\ Cardinality(Earlier(i)) # Cardinality(Earlier(j))
  <2> HIDE DEF Earlier
  <2> QED
    BY <1>1, <1>2, <1>3, FS_Subset
<1>5. Cardinality(Earlier(i)) \in Nat /\ Cardinality(Earlier(j)) \in Nat
  <2> HIDE DEF Earlier
  <2> QED
    BY <1>1, FS_CardinalityType
<1> QED
  BY <1>4, <1>5 DEF Rank

LEMMA RankInjective ==
    ASSUME NEW table \in Seq(Rows), NEW query, NEW sort \in SortKeys,
           NEW dir \in Directions, NEW i \in Matching(table, query),
           NEW j \in Matching(table, query),
           Rank(table, i, query, sort, dir) = Rank(table, j, query, sort, dir)
    PROVE  i = j
<1>0. i \in DOMAIN table /\ j \in DOMAIN table
  BY SelectedRows
<1>1. Rank(table, i, query, sort, dir) \in Int /\ Rank(table, j, query, sort, dir) \in Int
  BY <1>0, RankBound
<1>2. ~Before(table, i, j, sort, dir) /\ ~Before(table, j, i, sort, dir)
  BY <1>1, RankOrders
<1> QED
  BY <1>0, <1>2, BeforeIsOrder

\* Each rank below the number of rows selected is some selected row's.
LEMMA RankOnto ==
    ASSUME NEW table \in Seq(Rows), NEW query, NEW sort \in SortKeys,
           NEW dir \in Directions, NEW r \in 0..Cardinality(Matching(table, query)) - 1
    PROVE  \E i \in Matching(table, query) : Rank(table, i, query, sort, dir) = r
<1> DEFINE M == Matching(table, query)
           N == Cardinality(M)
           f == [i \in M |-> Rank(table, i, query, sort, dir)]
<1>1. M \subseteq DOMAIN table /\ IsFiniteSet(M) /\ N \in Nat
  BY SelectedRows
<1>2. \A i \in M : f[i] \in 0..N - 1
  BY <1>1, RankBound
<1>3. \A i, j \in M : f[i] = f[j] => i = j
  BY RankInjective
<1>4. f \in Injection(M, 0..N - 1)
  <2>1. f \in [M -> 0..N - 1]
    BY <1>2
  <2> HIDE DEF f, M
  <2> QED
    BY <2>1, <1>3 DEF Injection, IsInjective
<1>5. IsFiniteSet(0..N - 1) /\ Cardinality(0..N - 1) = N
  <2> HIDE DEF N
  <2> QED
    BY <1>1, Counting
<1>6. f \in Surjection(M, 0..N - 1)
  <2>1. Cardinality(M) = Cardinality(0..N - 1)
    BY <1>5
  <2> HIDE DEF f, N, M
  <2> QED
    BY <1>1, <1>4, <1>5, <2>1, FS_Injection
<1>7. \E i \in M : f[i] = r
  <2>1. r \in 0..N - 1
    OBVIOUS
  <2> HIDE DEF f, M, N
  <2> QED
    BY <1>6, <2>1 DEF Surjection
<1> QED
  BY <1>7

\* A row that comes in last moves no row up the list.
LEMMA AppendRaisesRanks ==
    ASSUME NEW table \in Seq(Rows), NEW row \in Rows, NEW query,
           NEW sort \in SortKeys, NEW dir \in Directions, NEW i \in DOMAIN table
    PROVE  /\ Matching(table, query) \subseteq Matching(Append(table, row), query)
           /\ Rank(table, i, query, sort, dir) <= Rank(Append(table, row), i, query, sort, dir)
<1> DEFINE longer == Append(table, row)
           Earlier == {k \in Matching(table, query) : Before(table, k, i, sort, dir)}
           EarlierNow == {k \in Matching(longer, query) : Before(longer, k, i, sort, dir)}
<1>1. /\ longer \in Seq(Rows) /\ DOMAIN table \subseteq DOMAIN longer
      /\ \A k \in DOMAIN table : longer[k] = table[k]
  OBVIOUS
<1>2. IsFiniteSet(EarlierNow)
  BY <1>1, EarlierRows
<1>3. Matching(table, query) \subseteq Matching(longer, query)
  BY <1>1 DEF Matching
<1>4. Earlier \in SUBSET EarlierNow
  <2>1. Matching(table, query) \subseteq DOMAIN table
    BY SelectedRows
  <2> QED
    BY <1>1, <1>3, <2>1 DEF Before
<1>5. Cardinality(Earlier) <= Cardinality(EarlierNow)
  <2> HIDE DEF Earlier, EarlierNow
  <2> QED
    BY <1>2, <1>4, FS_Subset
<1> QED
  BY <1>3, <1>5 DEF Rank

\* Nor does filling in an exit code, if the list keeps its rows and is sorted
\* by another column.
SameButExit(table, filled) ==
    /\ DOMAIN filled = DOMAIN table
    /\ \A k \in DOMAIN table :
         filled[k].at = table[k].at /\ filled[k].comm = table[k].comm

LEMMA BackfillRaisesRanks ==
    ASSUME NEW table \in Seq(Rows), NEW filled \in Seq(Rows), SameButExit(table, filled),
           NEW query, Matching(table, query) \subseteq Matching(filled, query),
           NEW sort \in SortKeys \ {"exit_code"}, NEW dir \in Directions,
           NEW j \in DOMAIN table
    PROVE  Rank(table, j, query, sort, dir) <= Rank(filled, j, query, sort, dir)
<1> DEFINE Earlier == {k \in Matching(table, query) : Before(table, k, j, sort, dir)}
           EarlierNow == {k \in Matching(filled, query) : Before(filled, k, j, sort, dir)}
<1>1. \A k \in DOMAIN table : Column(filled[k], sort) = Column(table[k], sort)
  BY DEF Column, SortKeys, SameButExit
<1>2. \A k \in DOMAIN table :
        Before(filled, k, j, sort, dir) = Before(table, k, j, sort, dir)
  BY <1>1 DEF Before
<1>3. Earlier \in SUBSET EarlierNow
  <2>1. Matching(table, query) \subseteq DOMAIN table
    BY SelectedRows
  <2> QED
    BY <1>2, <2>1
<1>4. IsFiniteSet(EarlierNow)
  <2>1. j \in DOMAIN filled
    BY DEF SameButExit
  <2> QED
    BY <2>1, EarlierRows
<1>5. Cardinality(Earlier) <= Cardinality(EarlierNow)
  <2> HIDE DEF Earlier, EarlierNow
  <2> QED
    BY <1>3, <1>4, FS_Subset
<1> QED
  BY <1>5 DEF Rank

\* LIMIT and OFFSET cut an interval out of the ranks.
Cut(table, query, sort, dir, first, size) ==
    [n \in 1..Min({first + size, Cardinality(Matching(table, query))}) - first |->
        CHOOSE i \in Matching(table, query) :
            Rank(table, i, query, sort, dir) = first + n - 1]

\* A page lists the selected rows with these ranks, in their order.
Lists(page, table, query, sort, dir, first, size) ==
    /\ page \in Seq(DOMAIN table)
    /\ \A n \in DOMAIN page : Rank(table, page[n], query, sort, dir) = first + n - 1
    /\ \A i \in DOMAIN table :
         (\E n \in DOMAIN page : page[n] = i)
         <=> /\ i \in Matching(table, query)
             /\ Rank(table, i, query, sort, dir) \in first..first + size - 1

LEMMA IntervalOfRanks ==
    ASSUME NEW table \in Seq(Rows), NEW query, NEW sort \in SortKeys,
           NEW dir \in Directions, NEW first \in Nat, NEW size \in Nat
    PROVE  Lists(Cut(table, query, sort, dir, first, size),
                 table, query, sort, dir, first, size)
<1> DEFINE M == Matching(table, query)
           rank(i) == Rank(table, i, query, sort, dir)
           row(r) == CHOOSE i \in M : rank(i) = r
<1>0. PICK page : page = Cut(table, query, sort, dir, first, size)
  OBVIOUS
<1>1. PICK N \in Nat : N = Cardinality(M) /\ M \subseteq DOMAIN table
  BY SelectedRows
<1>2. PICK last \in Int : last = IF first + size <= N THEN first + size ELSE N
  OBVIOUS
<1>3. last = Min({first + size, N})
  <2>1. first + size \in Int /\ N \in Int
    OBVIOUS
  <2>2. Min({first + size, N}) = IF first + size <= N THEN first + size ELSE N
    BY <2>1, MaxMin, Zenon
  <2> QED
    BY <1>2, <2>2
<1>4. PICK length \in Nat : length = IF last - first >= 0 THEN last - first ELSE 0
  <2>1. (IF last - first >= 0 THEN last - first ELSE 0) \in Nat
    OBVIOUS
  <2> QED
    BY <2>1, Zenon
<1>5. 1..last - first = 1..length
  BY <1>4
<1>6. page = [n \in 1..length |-> row(first + n - 1)]
  BY <1>0, <1>1, <1>3, <1>5, Zenon DEF Cut
<1>7. ASSUME NEW n \in 1..length
      PROVE  row(first + n - 1) \in M /\ rank(row(first + n - 1)) = first + n - 1
  <2>1. first + n - 1 \in 0..N - 1
    BY <1>2, <1>4
  <2>2. \E i \in M : rank(i) = first + n - 1
    BY <2>1, <1>1, RankOnto
  <2> QED
    BY <2>2
<1>8. page \in [1..length -> M]
  BY <1>6, <1>7, Zenon
<1>9. \A n \in 1..length : page[n] \in M /\ rank(page[n]) = first + n - 1
  <2> HIDE DEF row, M, rank
  <2> QED
    BY <1>6, <1>7
<1>10. page \in Seq(DOMAIN table) /\ DOMAIN page = 1..length
  <2>1. page \in [1..length -> DOMAIN table]
    <3> HIDE DEF M
    <3> QED
      BY <1>1, <1>8
  <2> QED
    BY <2>1
<1>11. ASSUME NEW i \in DOMAIN table
       PROVE  (\E n \in 1..length : page[n] = i)
              <=> i \in M /\ rank(i) \in first..first + size - 1
  <2>1. PICK r \in Nat : r = rank(i) /\ (i \in M => r \in 0..N - 1)
    BY <1>1, RankBound
  <2>2. ASSUME NEW n \in 1..length, page[n] = i
        PROVE  i \in M /\ r \in first..first + size - 1
    <3>1. r = first + n - 1 /\ i \in M
      BY <1>9, <2>1, <2>2
    <3> QED
      BY <3>1, <1>2, <1>4
  <2>3. ASSUME i \in M, r \in first..first + size - 1
        PROVE  \E n \in 1..length : page[n] = i
    <3>1. PICK n \in Int : n = r - first + 1
      OBVIOUS
    <3>2. n \in 1..length /\ first + n - 1 = r
      BY <2>1, <2>3, <3>1, <1>2, <1>4
    <3>3. rank(page[n]) = rank(i) /\ page[n] \in M
      BY <1>9, <2>1, <3>2
    <3>4. page[n] = i
      BY <2>3, <3>3, RankInjective
    <3> QED
      BY <3>2, <3>4
  <2> QED
    BY <2>1, <2>2, <2>3
<1> QED
  BY <1>0, <1>9, <1>10, <1>11, Zenon DEF Lists

\* A page whose offset does not wrap around lists the rows whose ranks lie in
\* its interval, in their order.
LEMMA PageListsItsRanks ==
    ASSUME rows \in Seq(Rows), NEW q,
           q.page \in Nat \ {0}, q.size \in Nat \ {0},
           q.sort \in SortKeys, q.dir \in Directions,
           (q.page - 1) * q.size < Wide
    PROVE  Lists(PageOf(q), rows, q.query, q.sort, q.dir, (q.page - 1) * q.size, q.size)
<1>1. /\ (q.page - 1) * q.size \in Nat
      /\ Offset(q.page, q.size) = (q.page - 1) * q.size
  BY OffsetIsExact
<1>2. PageOf(q) = Cut(rows, q.query, q.sort, q.dir, Offset(q.page, q.size), q.size)
  BY Zenon DEF PageOf, Cut
<1>3. q.size \in Nat
  OBVIOUS
<1> QED
  BY <1>1, <1>2, <1>3, IntervalOfRanks, Zenon

-----------------------------------------------------------------------------
(* The invariant. *)

Sentinels == {"none", "armed", "fired", "end"}
Sizes == 1..Max({DefaultSize, MaxPageSize})

Views == [sentinel : Sentinels, shown : Seq(Nat), page : Nat \ {0}, size : Sizes,
          query : Queries, sort : SortKeys, dir : Directions, base : Seq(Rows),
          kept : BOOLEAN, still : BOOLEAN, from : Nat \ {0}, total : Nat]
Requests == [at : {"idle", "asked", "counted"}, kind : {"index", "list", "append"},
             page : Nat \ {0}, size : Sizes, query : Queries, sort : SortKeys,
             dir : Directions, total : Nat]

\* Rows are never deleted: ids shown, counts and the first page's rows fit
\* the table for good.
Shapes ==
    /\ rows \in Seq(Rows) /\ now \in 0..MaxSeconds
    /\ view \in Views /\ req \in Requests
    /\ \A n \in DOMAIN view.shown : view.shown[n] \in DOMAIN rows
    /\ view.total <= Len(rows) /\ req.total <= Len(rows)
    /\ Len(view.shown) <= MaxShown
    /\ Len(view.base) <= Len(rows) /\ Len(rows) <= MaxRows

\* A list that has kept its rows still has those of its first page's table.
ListKept ==
    /\ view.still => view.kept
    /\ view.kept => Matching(view.base, view.query) \subseteq Matching(rows, view.query)

\* The sentinel says whether the rows counted go on after the last page shown.
SentinelIsTrue ==
    /\ view.from <= view.page
    /\ view.sentinel = "armed" => view.page * view.size < view.total
    /\ view.sentinel = "end" => view.total <= view.page * view.size

\* A request's offset does not wrap around, and the request of a sentinel
\* continues the list that is shown.
RequestContinues ==
    req.at # "idle" =>
        /\ (req.page - 1) * req.size < Wide
        /\ req.kind = "append" =>
             /\ view.sentinel = "fired" /\ req.page = view.page + 1
             /\ req.size = view.size /\ req.query = Linked(view.query)
             /\ req.sort = view.sort /\ req.dir = view.dir

ScrollInv == Shapes /\ ListKept /\ SentinelIsTrue /\ RequestContinues
PagingInv == ScrollInv /\ ScrollIsExact /\ NothingJumped

\* The premise of the theorems.  offset() multiplies in u32 and the page
\* number comes from the client: the theorems are about tables of at most
\* 2^32 rows and about page numbers whose offset does not wrap around.
NoWrap ==
    /\ MaxRows <= Wide
    /\ \A page \in AskedPages, size \in 1..MaxPageSize : (page - 1) * size < Wide

-----------------------------------------------------------------------------
(* The steps. *)

LEMMA SizesAre ==
    /\ 1 \in Sizes /\ DefaultSize \in Sizes /\ Sizes \subseteq Nat \ {0}
    /\ 1..MaxPageSize \subseteq Sizes
<1>1. DefaultSize \in Nat \ {0} /\ MaxPageSize \in Nat \ {0}
  BY PagingAssumption
<1>2. Max({DefaultSize, MaxPageSize})
        = IF DefaultSize >= MaxPageSize THEN DefaultSize ELSE MaxPageSize
  BY <1>1, MaxMin
<1> QED
  BY <1>1, <1>2 DEF Sizes

\* The rows and the view decide the two properties of a scroll.
LEMMA ScrollFrame ==
    ASSUME UNCHANGED <<rows, view>>
    PROVE  /\ ScrollIsExact => ScrollIsExact'
           /\ NothingJumped => NothingJumped'
           /\ SentinelIsTrue => SentinelIsTrue'
           /\ ListKept => ListKept'
BY DEF ScrollIsExact, NothingJumped, SentinelIsTrue, ListKept, Shown, Skipped, RankIn,
       Listed, Matching

LEMMA InitPaging == ASSUME Init PROVE PagingInv
<1>1. 1 \in Sizes /\ DOMAIN << >> = {}
  BY SizesAre
<1>2. Shapes
  BY <1>1, PagingAssumption, QueriesAssumption
     DEF Init, Shapes, Blank, Idle, Views, Requests, Sentinels, SortKeys, Directions
<1>3. SentinelIsTrue /\ RequestContinues /\ ScrollIsExact /\ NothingJumped
  BY DEF Init, SentinelIsTrue, RequestContinues, ScrollIsExact, NothingJumped, Blank, Idle
<1>4. ListKept
  BY DEF Init, ListKept, Blank, Matching
<1> QED
  BY <1>2, <1>3, <1>4 DEF PagingInv, ScrollInv

LEMMA TickStep == ASSUME PagingInv, Tick PROVE PagingInv'
<1>1. Shapes'
  BY PagingAssumption DEF PagingInv, ScrollInv, Shapes, Tick
<1>2. RequestContinues'
  BY DEF PagingInv, ScrollInv, RequestContinues, Tick
<1> QED
  BY <1>1, <1>2, ScrollFrame DEF PagingInv, ScrollInv, Tick

LEMMA AskStep ==
    ASSUME PagingInv, NEW kind \in {"index", "list", "append"}, NEW page \in Nat \ {0},
           NEW size \in Sizes, NEW query \in Queries, NEW sort \in SortKeys,
           NEW dir \in Directions, Ask(kind, page, size, query, sort, dir)
    PROVE  /\ req' \in Requests /\ req'.total = 0 /\ req'.kind = kind
           /\ req'.page = page /\ req'.size = size /\ req'.query = query
           /\ req'.sort = sort /\ req'.dir = dir
BY DEF Ask, Requests

LEMMA NewListStep ==
    ASSUME PagingInv, NEW kind \in {"index", "list"}, NEW page \in Nat \ {0},
           NEW size \in Sizes, NEW query \in Queries, NEW sort \in SortKeys,
           NEW dir \in Directions, (page - 1) * size < Wide,
           Ask(kind, page, size, query, sort, dir), UNCHANGED <<rows, now, view>>
    PROVE  PagingInv'
<1>1. /\ req' \in Requests /\ req'.total = 0 /\ req'.kind = kind
      /\ req'.page = page /\ req'.size = size
  BY AskStep
<1>2. Shapes'
  BY <1>1 DEF PagingInv, ScrollInv, Shapes
<1>3. RequestContinues'
  BY <1>1 DEF RequestContinues
<1> QED
  BY <1>2, <1>3, ScrollFrame DEF PagingInv, ScrollInv

LEMMA IndexStep ==
    ASSUME PagingInv, NEW query \in Queries, Index(query)
    PROVE  PagingInv'
<1>1. (1 - 1) * DefaultSize < Wide /\ DefaultSize \in Sizes
  BY PagingAssumption, SizesAre
<1> QED
  BY <1>1, NewListStep DEF Index, SortKeys, Directions

LEMMA AskListStep ==
    ASSUME PagingInv, NoWrap,
           NEW page \in AskedPages, NEW size \in AskedSizes, NEW query \in Queries,
           NEW sort \in SortKeys, NEW dir \in Directions,
           AskList(page, size, query, sort, dir)
    PROVE  PagingInv'
<1>1. page \in Nat /\ size \in Nat /\ MaxPageSize \in Nat \ {0}
  BY PagingAssumption
<1>2. PICK p \in Nat \ {0} : p = Max({page, 1}) /\ (p = page \/ p = 1)
  BY <1>1, MaxMin
<1>3. PICK s \in 1..MaxPageSize : s = Max({1, Min({size, MaxPageSize})})
  <2>1. Min({size, MaxPageSize}) = IF size <= MaxPageSize THEN size ELSE MaxPageSize
    BY <1>1, MaxMin
  <2>2. PICK m \in Int : m = Min({size, MaxPageSize}) /\ m <= MaxPageSize
    BY <1>1, <2>1
  <2>3. Max({1, m}) = IF 1 >= m THEN 1 ELSE m
    <3>1. 1 \in Int /\ m \in Int
      OBVIOUS
    <3> QED
      BY <3>1, MaxMin, Zenon
  <2> QED
    BY <1>1, <2>2, <2>3
<1>4. (p - 1) * s < Wide
  <2>1. CASE p = page
    BY <2>1, <1>3 DEF NoWrap
  <2>2. CASE p = 1
    BY <2>2, PagingAssumption
  <2> QED
    BY <1>2, <2>1, <2>2
<1>5. Ask("list", p, s, query, sort, dir) /\ UNCHANGED <<rows, now, view>>
  BY <1>2, <1>3, Zenon DEF AskList
<1>6. s \in Sizes
  BY <1>3, SizesAre
<1> QED
  BY <1>4, <1>5, <1>6, NewListStep

LEMMA SortByStep ==
    ASSUME PagingInv, NEW key \in SortKeys, SortBy(key)
    PROVE  PagingInv'
<1>1. PICK dir \in Directions : dir = IF key = view.sort THEN Toggle(view.dir) ELSE "desc"
  BY DEF PagingInv, ScrollInv, Shapes, Views, Directions, Toggle
<1>2. PICK size \in Sizes : size = view.size
  BY DEF PagingInv, ScrollInv, Shapes, Views
<1>3. (1 - 1) * size < Wide
  BY SizesAre, PagingAssumption
<1>4. PICK query \in Queries : query = Linked(view.query)
  BY QueriesAssumption DEF PagingInv, ScrollInv, Shapes, Views
<1>5. Ask("list", 1, size, query, key, dir) /\ UNCHANGED <<rows, now, view>>
  BY <1>1, <1>2, <1>4, Zenon DEF SortBy
<1> QED
  BY <1>3, <1>5, NewListStep

\* An armed sentinel promises rows: its page starts within the table.
LEMMA LoadMoreStep == ASSUME PagingInv, NoWrap, LoadMore PROVE PagingInv'
<1>1. /\ view \in Views /\ view.sentinel = "armed" /\ req.at = "idle"
      /\ Ask("append", view.page + 1, view.size, Linked(view.query), view.sort, view.dir)
      /\ view' = [view EXCEPT !.sentinel = "fired"] /\ UNCHANGED <<rows, now>>
  BY DEF PagingInv, ScrollInv, Shapes, LoadMore, Ask
<1>2. /\ view' \in Views /\ view'.sentinel = "fired" /\ view'.shown = view.shown
      /\ view'.page = view.page /\ view'.size = view.size /\ view'.sort = view.sort
      /\ view'.dir = view.dir /\ view'.base = view.base /\ view'.still = view.still
      /\ view'.from = view.from /\ view'.total = view.total
      /\ view'.query = view.query /\ view'.kept = view.kept
  BY <1>1 DEF Views, Sentinels
<1>3. PICK page \in Nat \ {0}, size \in Sizes, query \in Queries,
           sort \in SortKeys, dir \in Directions :
        /\ page = view.page + 1 /\ size = view.size /\ query = Linked(view.query)
        /\ sort = view.sort /\ dir = view.dir
  BY <1>1, QueriesAssumption DEF Views
<1>4. /\ req' \in Requests /\ req'.total = 0 /\ req'.kind = "append"
      /\ req'.page = page /\ req'.size = size /\ req'.query = query
      /\ req'.sort = sort /\ req'.dir = dir
  BY <1>1, <1>3, AskStep
<1>5. Shapes'
  BY <1>1, <1>2, <1>4 DEF PagingInv, ScrollInv, Shapes
<1>6. (page - 1) * size < Wide
  <2>1. /\ view.page * view.size < view.total /\ view.total <= Len(rows)
        /\ Len(rows) <= MaxRows /\ MaxRows <= Wide
    BY <1>1 DEF PagingInv, ScrollInv, Shapes, SentinelIsTrue, NoWrap
  <2>2. page - 1 = view.page
    BY <1>1, <1>3 DEF Views
  <2>3. PICK skipped \in Int : skipped = (page - 1) * size
    BY SizesAre
  <2>4. skipped < view.total
    BY <2>1, <2>2, <2>3, <1>3
  <2>5. view.total \in Nat /\ Len(rows) \in Nat /\ MaxRows \in Nat /\ Wide \in Nat
    BY <1>1, PagingAssumption DEF Views, PagingInv, ScrollInv, Shapes
  <2>6. skipped < Wide
    BY <2>1, <2>4, <2>5
  <2> QED
    BY <2>3, <2>6
<1>7. RequestContinues'
  BY <1>2, <1>3, <1>4, <1>6 DEF RequestContinues
<1>8. SentinelIsTrue'
  BY <1>2 DEF PagingInv, ScrollInv, SentinelIsTrue
<1>9. ScrollIsExact' /\ NothingJumped' /\ ListKept'
  BY <1>1, <1>2
     DEF PagingInv, ScrollInv, ScrollIsExact, NothingJumped, ListKept, Shown, Skipped,
         RankIn, Listed, Matching
<1> QED
  BY <1>5, <1>7, <1>8, <1>9 DEF PagingInv, ScrollInv

\* The recorder's steps end the time in which the table is what it was, and
\* the list has kept its rows only as long as none of them left it.
Recorded ==
    /\ view' \in Views /\ ~view'.still
    /\ view'.kept => view.kept /\ Matching(rows, view.query) \subseteq Matching(rows', view.query)
    /\ view'.sentinel = view.sentinel /\ view'.shown = view.shown
    /\ view'.page = view.page /\ view'.size = view.size /\ view'.query = view.query
    /\ view'.sort = view.sort /\ view'.dir = view.dir /\ view'.base = view.base
    /\ view'.from = view.from /\ view'.total = view.total
    /\ UNCHANGED <<now, req>>

LEMMA RecorderScroll ==
    ASSUME PagingInv, Recorded
    PROVE  ListKept' /\ SentinelIsTrue' /\ RequestContinues' /\ ScrollIsExact'
<1>1. ListKept'
  <2>1. ListKept
    BY DEF PagingInv, ScrollInv
  <2> SUFFICES ASSUME view'.kept
               PROVE  Matching(view.base, view.query) \subseteq Matching(rows', view.query)
    <3>1. /\ ~view'.still /\ view'.base = view.base /\ view'.query = view.query
          /\ Matching(view.base, view.query)' = Matching(view'.base, view'.query)
          /\ Matching(rows, view.query)' = Matching(rows', view'.query)
      BY DEF Recorded, Matching
    <3> QED
      BY <3>1, Zenon DEF ListKept
  <2> QED
    BY <2>1, Zenon DEF ListKept, Recorded
<1>2. SentinelIsTrue'
  BY DEF PagingInv, ScrollInv, SentinelIsTrue, Recorded
<1>3. RequestContinues'
  BY DEF PagingInv, ScrollInv, RequestContinues, Recorded
<1>4. ScrollIsExact'
  BY DEF ScrollIsExact, Recorded
<1> QED
  BY <1>1, <1>2, <1>3, <1>4

\* What moves no row up the list makes no later page jump over one.
LEMMA RecorderJumpsNothing ==
    ASSUME PagingInv, Recorded, rows' \in Seq(Rows), DOMAIN rows \subseteq DOMAIN rows',
           view'.kept /\ view.sort # "exit_code" =>
             \A i \in DOMAIN rows :
               Rank(rows, i, view.query, view.sort, view.dir)
                 <= Rank(rows', i, view.query, view.sort, view.dir)
    PROVE  NothingJumped'
<1>1. Shapes /\ ListKept /\ view \in Views /\ rows \in Seq(Rows)
  BY DEF PagingInv, ScrollInv, Shapes
<1> SUFFICES ASSUME view.sentinel # "none", view.sort # "exit_code", view'.kept,
                    NEW i \in Matching(view.base, view.query),
                    Rank(view.base, i, view.query, view.sort, view.dir) >= Skipped,
                    Rank(rows', i, view.query, view.sort, view.dir) < view.page * view.size
             PROVE  i \in Shown
  BY DEF NothingJumped, RankIn, Skipped, Shown, Listed, Matching, Recorded
<1>2. view.kept
  BY DEF Recorded
<1>3. i \in DOMAIN rows
  <2>1. i \in DOMAIN view.base
    BY DEF Matching
  <2> QED
    BY <2>1, <1>1 DEF Shapes, Views
<1>4. PICK query \in Queries, sort \in SortKeys, dir \in Directions :
        query = view.query /\ sort = view.sort /\ dir = view.dir
  BY <1>1 DEF Views
<1>5. Rank(rows, i, query, sort, dir) <= Rank(rows', i, query, sort, dir)
  BY <1>3, <1>4, Zenon
<1>6. PICK old \in Nat, new \in Nat :
        old = Rank(rows, i, query, sort, dir) /\ new = Rank(rows', i, query, sort, dir)
  <2>1. i \in DOMAIN rows'
    BY <1>3
  <2> QED
    BY <1>1, <1>3, <2>1, RankBound, Zenon
<1>7. PICK loaded \in Int : loaded = view.page * view.size
  <2>1. view.page \in Nat /\ view.size \in Nat
    BY <1>1, SizesAre DEF Views
  <2> QED
    BY <2>1
<1>8. Rank(rows, i, query, sort, dir) < loaded
  <2>1. new < loaded /\ old <= new
    BY <1>4, <1>5, <1>6, <1>7, Zenon
  <2> QED
    BY <1>6, <1>7, <2>1
<1> QED
  BY <1>2, <1>4, <1>7, <1>8 DEF PagingInv, NothingJumped, RankIn, Listed

LEMMA InsertStep ==
    ASSUME PagingInv, NEW comm \in Comms, InsertRow(comm)
    PROVE  PagingInv'
<1>1. PICK row \in Rows : rows' = Append(rows, row)
  BY DEF InsertRow, Rows, PagingInv, ScrollInv, Shapes, NoExit
<1>2. /\ Shapes /\ view \in Views /\ view' = [view EXCEPT !.still = FALSE]
      /\ UNCHANGED <<now, req>> /\ Len(rows) < MaxRows
  BY DEF InsertRow, PagingInv, ScrollInv, Shapes
<1>3. /\ rows \in Seq(Rows) /\ rows' \in Seq(Rows) /\ Len(rows') = Len(rows) + 1
      /\ DOMAIN rows \subseteq DOMAIN rows'
  BY <1>1, <1>2 DEF Shapes
<1>4. /\ Matching(rows, view.query) \subseteq Matching(rows', view.query)
      /\ \A i \in DOMAIN rows :
           Rank(rows, i, view.query, view.sort, view.dir)
             <= Rank(rows', i, view.query, view.sort, view.dir)
  <2>1. PICK query \in Queries, sort \in SortKeys, dir \in Directions :
          query = view.query /\ sort = view.sort /\ dir = view.dir
    BY <1>2 DEF Views
  <2>2. \A i \in DOMAIN rows : Rank(rows, i, query, sort, dir) <= Rank(rows', i, query, sort, dir)
    BY <1>1, <1>3, AppendRaisesRanks
  <2>3. Matching(rows, query) \subseteq Matching(rows', query)
    BY <1>1, <1>3 DEF Matching
  <2> QED
    BY <2>1, <2>2, <2>3, Zenon
<1>5. Recorded
  <2>1. view'.kept => view.kept
    BY <1>2, Zenon DEF Views
  <2> QED
    BY <1>2, <1>4, <2>1 DEF Recorded, Views
<1>6. Shapes'
  <2>1. MaxRows \in Nat /\ Len(rows) \in Nat /\ view.total \in Nat /\ req.total \in Nat
        /\ Len(view.base) \in Nat
    BY <1>2, PagingAssumption DEF Shapes, Views, Requests
  <2> QED
    BY <1>2, <1>3, <1>5, <2>1 DEF Shapes, Recorded
<1>7. ListKept' /\ SentinelIsTrue' /\ RequestContinues' /\ ScrollIsExact'
  BY <1>5, RecorderScroll
<1>8. NothingJumped'
  BY <1>3, <1>4, <1>5, RecorderJumpsNothing
<1> QED
  BY <1>6, <1>7, <1>8 DEF PagingInv, ScrollInv

LEMMA BackfillStep ==
    ASSUME PagingInv, NEW r \in DOMAIN rows, NEW code \in ExitCodes, Backfill(r, code)
    PROVE  PagingInv'
<1>1. /\ Shapes /\ view \in Views /\ UNCHANGED <<now, req>> /\ rows \in Seq(Rows)
      /\ rows' = [rows EXCEPT ![r].exit = code]
  BY DEF Backfill, PagingInv, ScrollInv, Shapes
<1>2. rows' \in Seq(Rows) /\ Len(rows') = Len(rows) /\ DOMAIN rows' = DOMAIN rows
  <2>1. PICK row \in Rows : row = rows[r]
    BY <1>1
  <2>2. PICK filled \in Rows : filled = [row EXCEPT !.exit = code]
    BY DEF Rows
  <2>3. rows' = [rows EXCEPT ![r] = filled]
    BY <1>1, <2>1, <2>2
  <2> QED
    BY <1>1, <2>3
<1>3. Recorded
  <2>1. PICK kept \in BOOLEAN :
          kept = (/\ view.kept
                  /\ Matching(rows, view.query) \subseteq Matching(rows', view.query))
    BY Zenon
  <2>2. view' = [view EXCEPT !.still = FALSE, !.kept = kept]
    BY <2>1, Zenon DEF Backfill
  <2>3. view'.kept = kept
    BY <1>1, <2>2, Zenon DEF Views
  <2>4. view' \in Views /\ ~view'.still
    BY <1>1, <2>2 DEF Views
  <2>5. /\ view'.sentinel = view.sentinel /\ view'.shown = view.shown
        /\ view'.page = view.page /\ view'.size = view.size /\ view'.query = view.query
        /\ view'.sort = view.sort /\ view'.dir = view.dir /\ view'.base = view.base
        /\ view'.from = view.from /\ view'.total = view.total
    BY <1>1, <2>2 DEF Views
  <2> QED
    BY <1>1, <2>1, <2>3, <2>4, <2>5, Zenon DEF Recorded
<1>4. Shapes'
  BY <1>1, <1>2, <1>3 DEF Shapes, Recorded
<1>5. ListKept' /\ SentinelIsTrue' /\ RequestContinues' /\ ScrollIsExact'
  BY <1>3, RecorderScroll
<1>6. ASSUME view'.kept, view.sort # "exit_code", NEW i \in DOMAIN rows
      PROVE  Rank(rows, i, view.query, view.sort, view.dir)
               <= Rank(rows', i, view.query, view.sort, view.dir)
  <2>1. PICK query \in Queries, sort \in SortKeys \ {"exit_code"}, dir \in Directions :
          query = view.query /\ sort = view.sort /\ dir = view.dir
    BY <1>1, <1>6 DEF Views
  <2>2. PICK table \in Seq(Rows), filled \in Seq(Rows) : table = rows /\ filled = rows'
    BY <1>1, <1>2
  <2>3. SameButExit(table, filled) /\ i \in DOMAIN table
    BY <1>1, <1>2, <1>6, <2>2 DEF SameButExit, Rows
  <2>4. Matching(table, query) \subseteq Matching(filled, query)
    BY <1>3, <1>6, <2>1, <2>2, Zenon DEF Recorded
  <2>5. Rank(table, i, query, sort, dir) <= Rank(filled, i, query, sort, dir)
    BY <2>3, <2>4, BackfillRaisesRanks
  <2> QED
    BY <2>1, <2>2, <2>5, Zenon
<1>7. NothingJumped'
  BY <1>2, <1>3, <1>6, RecorderJumpsNothing
<1> QED
  BY <1>4, <1>5, <1>7 DEF PagingInv, ScrollInv

LEMMA CountStep == ASSUME PagingInv, Count PROVE PagingInv'
<1>1. /\ Shapes /\ req \in Requests /\ req.at = "asked" /\ UNCHANGED <<rows, now, view>>
      /\ req' = [req EXCEPT !.at = "counted",
                            !.total = Cardinality(Matching(rows, req.query))]
  BY DEF Count, PagingInv, ScrollInv, Shapes
<1>2. /\ req' \in Requests /\ req'.total <= Len(rows) /\ req'.kind = req.kind
      /\ req'.page = req.page /\ req'.size = req.size /\ req'.sort = req.sort
      /\ req'.dir = req.dir /\ req'.query = req.query
  <2>1. PICK total \in Nat : /\ total = Cardinality(Matching(rows, req.query))
                             /\ total <= Len(rows)
    BY <1>1, SelectedRows DEF Shapes
  <2>2. req' = [req EXCEPT !.at = "counted", !.total = total]
    BY <1>1, <2>1
  <2> QED
    BY <1>1, <2>1, <2>2 DEF Requests
<1>3. Shapes'
  BY <1>1, <1>2 DEF Shapes
<1>4. RequestContinues'
  BY <1>1, <1>2 DEF PagingInv, ScrollInv, RequestContinues
<1> QED
  BY <1>1, <1>3, <1>4, ScrollFrame DEF PagingInv, ScrollInv

LEMMA FailStep == ASSUME PagingInv, Fail PROVE PagingInv'
<1>1. Shapes /\ req' = Idle /\ UNCHANGED <<rows, now>>
  BY DEF Fail, PagingInv, ScrollInv
<1>2. Idle \in Requests /\ Idle.total = 0 /\ Idle.at = "idle"
  BY SizesAre, QueriesAssumption DEF Idle, Requests, SortKeys, Directions
<1>3. RequestContinues'
  BY <1>1, <1>2 DEF RequestContinues
<1>4. CASE view' = view
  <2>1. Shapes'
    BY <1>1, <1>2, <1>4 DEF Shapes
  <2> QED
    BY <1>1, <1>3, <1>4, <2>1, ScrollFrame DEF PagingInv, ScrollInv
<1>5. CASE view' = Blank
  <2>1. /\ Blank \in Views /\ Blank.total = 0 /\ Blank.base = << >> /\ Blank.shown = << >>
        /\ Blank.sentinel = "none" /\ Blank.from = 1 /\ Blank.page = 1 /\ Blank.kept
    BY SizesAre, QueriesAssumption DEF Blank, Views, Sentinels, SortKeys, Directions
  <2>2. Shapes'
    BY <1>1, <1>2, <1>5, <2>1, PagingAssumption DEF Shapes
  <2>3. SentinelIsTrue' /\ ScrollIsExact' /\ NothingJumped' /\ ListKept'
    BY <1>5, <2>1 DEF SentinelIsTrue, ScrollIsExact, NothingJumped, ListKept, Matching
  <2> QED
    BY <1>3, <2>2, <2>3 DEF PagingInv, ScrollInv
<1> QED
  BY <1>4, <1>5 DEF Fail

LEMMA Concatenation ==
    ASSUME NEW S, NEW s \in Seq(S), NEW t \in Seq(S), NEW st, st = s \o t
    PROVE  /\ st \in Seq(S) /\ DOMAIN st = 1..Len(s) + Len(t)
           /\ \A n \in DOMAIN s : n \in DOMAIN st /\ st[n] = s[n]
           /\ \A n \in DOMAIN t : n + Len(s) \in DOMAIN st /\ st[n + Len(s)] = t[n]
           /\ \A n \in DOMAIN st :
                n \in DOMAIN s \/ (n - Len(s) \in DOMAIN t /\ st[n] = t[n - Len(s)])
OBVIOUS

\* The cap takes the first rows of a list, all of them if they fit.
LEMMA CapTakesFirst ==
    ASSUME NEW S, NEW list \in Seq(S)
    PROVE  /\ Capped(list) \in Seq(S) /\ Len(Capped(list)) <= MaxShown
           /\ Len(list) <= MaxShown => Capped(list) = list
<1>1. PICK N \in Nat, cap \in Nat :
        N = Len(list) /\ cap = MaxShown /\ DOMAIN list = 1..N
  BY PagingAssumption
<1>2. Min({N, cap}) = IF N <= cap THEN N ELSE cap
  <2>1. N \in Int /\ cap \in Int
    OBVIOUS
  <2> QED
    BY <2>1, MaxMin, Zenon
<1>3. PICK m \in Nat : m = Min({N, cap}) /\ m <= N /\ m <= cap /\ (N <= cap => m = N)
  BY <1>2
<1>4. m \in Nat /\ m <= N /\ m <= cap /\ (N <= cap => m = N)
  BY <1>3
<1>5. PICK capped : capped = [n \in 1..m |-> list[n]]
  OBVIOUS
<1>6. Capped(list) = capped
  BY <1>1, <1>3, <1>5, Zenon DEF Capped
<1>7. capped \in Seq(S) /\ Len(capped) = m
  <2>1. \A n \in 1..m : n \in DOMAIN list
    BY <1>1, <1>4
  <2>2. \A n \in DOMAIN list : list[n] \in S
    OBVIOUS
  <2>3. capped \in [1..m -> S]
    BY <1>5, <2>1, <2>2
  <2> QED
    BY <1>4, <2>3
<1>8. ASSUME Len(list) <= MaxShown PROVE capped = list
  <2>1. list = [n \in 1..N |-> list[n]]
    BY <1>1
  <2>2. m = N
    BY <1>1, <1>4, <1>8
  <2> QED
    BY <1>5, <2>1, <2>2, Zenon
<1>9. capped \in Seq(S) /\ Len(capped) <= MaxShown
  BY <1>1, <1>4, <1>7
<1> QED
  BY <1>6, <1>8, <1>9, Zenon

\* What Select does to the view, over the request's fields.
Answered(append, items, page, size, query, sort, dir, total) ==
    /\ view' \in Views
    /\ view'.sentinel = IF page < TotalPages(total, size) THEN "armed" ELSE "end"
    /\ view'.page = page /\ view'.size = size /\ view'.query = query
    /\ view'.sort = sort /\ view'.dir = dir /\ view'.total = total
    /\ view'.shown = Capped(IF append THEN view.shown \o items ELSE items)
    /\ view'.base = IF append THEN view.base ELSE rows
    /\ view'.kept => (append => /\ view.kept /\ view.query = query
                                /\ Len(view.shown \o items) <= MaxShown)
    /\ view'.still => (append => view.still)
    /\ view'.still => view'.kept
    /\ view'.from = IF append THEN view.from ELSE page

LEMMA SelectAnswers ==
    ASSUME PagingInv, Select
    PROVE  \E append \in BOOLEAN, items \in Seq(DOMAIN rows), page \in Nat \ {0},
              size \in Sizes, query \in Queries, sort \in SortKeys, dir \in Directions,
              total \in Nat :
             /\ Answered(append, items, page, size, query, sort, dir, total)
             /\ Lists(items, rows, query, sort, dir, (page - 1) * size, size)
             /\ total <= Len(rows)
             /\ append => /\ view.page = page - 1 /\ view.size = size
                          /\ view.sort = sort /\ view.dir = dir
                          /\ view.sentinel = "fired"
<1>1. /\ req \in Requests /\ view \in Views /\ rows \in Seq(Rows) /\ req.at = "counted"
      /\ req.total <= Len(rows)
  BY DEF PagingInv, ScrollInv, Shapes, Select
<1>2. (req.page - 1) * req.size < Wide
  BY <1>1 DEF PagingInv, ScrollInv, RequestContinues
<1>3. PICK page \in Nat \ {0}, size \in Sizes, query \in Queries, sort \in SortKeys,
           dir \in Directions, total \in Nat :
        /\ page = req.page /\ size = req.size /\ query = req.query
        /\ sort = req.sort /\ dir = req.dir /\ total = req.total
  BY <1>1 DEF Requests
<1>4. Lists(PageOf(req), rows, query, sort, dir, (page - 1) * size, size)
  <2>1. req.page \in Nat \ {0} /\ req.size \in Nat \ {0}
        /\ req.sort \in SortKeys /\ req.dir \in Directions
    BY <1>3, SizesAre
  <2>2. Lists(PageOf(req), rows, req.query, req.sort, req.dir,
              (req.page - 1) * req.size, req.size)
    BY <1>1, <1>2, <2>1, PageListsItsRanks, Zenon
  <2> QED
    BY <1>3, <2>2, Zenon
<1>5. PICK items \in Seq(DOMAIN rows) : items = PageOf(req)
  BY <1>4, Zenon DEF Lists
<1>6. PICK append \in BOOLEAN : append = (req.kind = "append")
  BY Zenon
<1>7. append => /\ view.page = page - 1 /\ view.size = size /\ view.sort = sort
                /\ view.dir = dir /\ view.sentinel = "fired"
  <2> SUFFICES ASSUME append
               PROVE  /\ view.page = page - 1 /\ view.size = size /\ view.sort = sort
                      /\ view.dir = dir /\ view.sentinel = "fired"
    OBVIOUS
  <2>1. /\ view.sentinel = "fired" /\ page = view.page + 1
        /\ size = view.size /\ sort = view.sort /\ dir = view.dir
    BY <1>1, <1>3, <1>6 DEF PagingInv, ScrollInv, RequestContinues
  <2>2. view.page \in Nat
    BY <1>1 DEF Views
  <2> QED
    BY <2>1, <2>2
<1>8. Answered(append, items, page, size, query, sort, dir, total)
  <2>1. PICK list \in Seq(Nat) : list = IF append THEN view.shown \o items ELSE items
    <3>1. items \in Seq(Nat) /\ view.shown \in Seq(Nat)
      BY <1>1, <1>5 DEF Views
    <3>2. view.shown \o items \in Seq(Nat)
      BY <3>1
    <3> QED
      BY <3>1, <3>2
  <2>2. PICK shown \in Seq(Nat) : shown = Capped(list)
    BY CapTakesFirst
  <2>3. PICK base \in Seq(Rows) : base = IF append THEN view.base ELSE rows
    BY <1>1 DEF Views
  <2>4. PICK keeps \in BOOLEAN :
          keeps = (append => query = view.query /\ Len(list) <= MaxShown)
    BY Zenon
  <2>5. PICK kept \in BOOLEAN, still \in BOOLEAN :
          kept = (keeps /\ (append => view.kept)) /\ still = (keeps /\ (append => view.still))
    BY Zenon
  <2>6. PICK from \in Nat \ {0} : from = IF append THEN view.from ELSE page
    BY <1>1 DEF Views
  <2>7. PICK sentinel \in Sentinels :
          sentinel = IF page < TotalPages(total, size) THEN "armed" ELSE "end"
    BY DEF Sentinels
  <2>8. view' = [sentinel |-> sentinel, page |-> page, size |-> size, query |-> query,
                 sort |-> sort, dir |-> dir, total |-> total, shown |-> shown,
                 base |-> base, kept |-> kept, still |-> still, from |-> from]
    BY <1>3, <1>5, <1>6, <2>1, <2>2, <2>3, <2>4, <2>5, <2>6, <2>7, Zenon DEF Select
  <2>9. /\ view'.sentinel = sentinel /\ view'.page = page /\ view'.size = size
        /\ view'.query = query /\ view'.sort = sort /\ view'.dir = dir
        /\ view'.total = total /\ view'.shown = shown /\ view'.base = base
        /\ view'.from = from
    BY <2>8
  <2>10. view'.kept = kept /\ view'.still = still
    BY <2>8, Zenon
  <2>11. view' \in Views
    BY <2>8 DEF Views
  <2>12. /\ kept => (append => /\ view.kept /\ view.query = query
                               /\ Len(view.shown \o items) <= MaxShown)
         /\ still => (append => view.still)
    BY <2>1, <2>4, <2>5, Zenon
  <2>13. still => kept
    <3>1. view.still => view.kept
      BY DEF PagingInv, ScrollInv, ListKept
    <3> QED
      BY <2>5, <3>1, Zenon
  <2> QED
    BY <2>1, <2>2, <2>3, <2>6, <2>7, <2>9, <2>10, <2>11, <2>12, <2>13, Zenon DEF Answered
<1> QED
  BY <1>1, <1>3, <1>4, <1>5, <1>7, <1>8, Zenon

\* The next page comes in where the list ended.
LEMMA AppendedPage ==
    ASSUME PagingInv, UNCHANGED <<rows, now>>, req' = Idle,
           NEW items \in Seq(DOMAIN rows), NEW page \in Nat \ {0}, NEW size \in Sizes,
           NEW query \in Queries, NEW sort \in SortKeys, NEW dir \in Directions,
           NEW total \in Nat,
           Answered(TRUE, items, page, size, query, sort, dir, total),
           Lists(items, rows, query, sort, dir, (page - 1) * size, size),
           total <= Len(rows), view.page = page - 1, view.size = size,
           view.sort = sort, view.dir = dir, view.sentinel = "fired"
    PROVE  /\ Shapes' /\ ListKept' /\ ScrollIsExact' /\ NothingJumped'
           /\ view'.from <= view'.page
<1> DEFINE M == Matching(rows, query)
           rank(i) == Rank(rows, i, query, sort, dir)
<1>1. Shapes /\ ListKept /\ view \in Views /\ rows \in Seq(Rows)
  BY DEF PagingInv, ScrollInv, Shapes
<1>2. /\ view' \in Views /\ view'.page = page /\ view'.size = size /\ view'.query = query
      /\ view'.sort = sort /\ view'.dir = dir /\ view'.total = total
      /\ view'.shown = Capped(view.shown \o items)
      /\ view'.base = view.base /\ view'.from = view.from
      /\ view'.kept => /\ view.kept /\ view.query = query
                       /\ Len(view.shown \o items) <= MaxShown
      /\ view'.still => view.still /\ view'.kept
  BY Zenon DEF Answered
<1>3. PICK loaded \in Nat : loaded = (page - 1) * size
  BY SizesAre
<1>4. page * size = loaded + size /\ size \in Nat \ {0}
  BY <1>3, SizesAre
<1>5. PICK old \in Seq(DOMAIN rows) : old = view.shown
  BY <1>1 DEF Shapes, Views
<1>6. PICK new \in Seq(DOMAIN rows) : new = old \o items
  <2>1. old \o items \in Seq(DOMAIN rows)
    BY Concatenation, Zenon
  <2> QED
    BY <2>1
<1>7. /\ DOMAIN new = 1..Len(old) + Len(items)
      /\ \A n \in DOMAIN old : n \in DOMAIN new /\ new[n] = old[n]
      /\ \A n \in DOMAIN items :
           n + Len(old) \in DOMAIN new /\ new[n + Len(old)] = items[n]
      /\ \A n \in DOMAIN new :
           n \in DOMAIN old \/ (n - Len(old) \in DOMAIN items /\ new[n] = items[n - Len(old)])
  <2>1. old \in Seq(DOMAIN rows) /\ items \in Seq(DOMAIN rows)
    OBVIOUS
  <2> QED
    BY <1>6, <2>1, Concatenation, SMTT(30)
<1>8. /\ \A n \in DOMAIN items : rank(items[n]) = loaded + n - 1
      /\ \A i \in DOMAIN rows :
           (\E n \in DOMAIN items : items[n] = i)
           <=> i \in M /\ rank(i) \in loaded..loaded + size - 1
  BY <1>3, Zenon DEF Lists
<1>9. \A i \in DOMAIN rows : rank(i) \in Nat
  BY <1>1, RankBound
<1>10. /\ view'.shown \in Seq(DOMAIN rows) /\ Len(view'.shown) <= MaxShown
       /\ view'.kept => view'.shown = new
  <2>1. view'.shown = Capped(new) /\ (view'.kept => Len(new) <= MaxShown)
    BY <1>2, <1>5, <1>6, Zenon
  <2>2. Capped(new) \in Seq(DOMAIN rows) /\ Len(Capped(new)) <= MaxShown
    BY CapTakesFirst
  <2>3. Len(new) <= MaxShown => Capped(new) = new
    BY CapTakesFirst
  <2> QED
    BY <2>1, <2>2, <2>3, Zenon
<1>11. Shapes'
  <2>1. Idle \in Requests /\ Idle.total = 0
    BY SizesAre, QueriesAssumption DEF Idle, Requests, SortKeys, Directions
  <2>2. \A n \in DOMAIN view'.shown : view'.shown[n] \in DOMAIN rows
    BY <1>10
  <2> QED
    BY <1>1, <1>2, <1>10, <2>1, <2>2 DEF Shapes
<1>12. PICK skipped \in Nat : skipped = (view.from - 1) * size
  <2>1. PICK from \in Nat \ {0} : from = view.from
    BY <1>1 DEF Views
  <2>2. (from - 1) * size \in Nat
    BY <1>4
  <2> QED
    BY <2>1, <2>2
<1>13. skipped <= loaded /\ view.from <= page
  <2>1. PICK from \in Nat \ {0} : from = view.from /\ from <= page - 1
    BY <1>1 DEF PagingInv, ScrollInv, SentinelIsTrue, Views
  <2>2. (from - 1) * size <= (page - 1) * size
    BY <2>1, <1>4, TimesMonotone
  <2> QED
    BY <2>1, <2>2, <1>3, <1>12
<1>14. view'.kept => \A i \in DOMAIN rows :
         i \in Shown' <=> \/ i \in Shown
                          \/ i \in M /\ rank(i) \in loaded..loaded + size - 1
  <2> SUFFICES ASSUME view'.kept, NEW i \in DOMAIN rows
               PROVE  i \in Shown' <=> \/ i \in Shown
                                       \/ i \in M /\ rank(i) \in loaded..loaded + size - 1
    OBVIOUS
  <2>1. /\ Shown' = {new[n] : n \in DOMAIN new}
        /\ Shown = {old[n] : n \in DOMAIN old}
    BY <1>5, <1>10 DEF Shown
  <2>2. i \in Shown' <=> i \in Shown \/ \E n \in DOMAIN items : items[n] = i
    <3>1. ASSUME NEW n \in DOMAIN new, new[n] = i
          PROVE  (\E k \in DOMAIN old : old[k] = i) \/ \E k \in DOMAIN items : items[k] = i
      BY <3>1, <1>7
    <3>2. ASSUME NEW k \in DOMAIN old, old[k] = i PROVE \E n \in DOMAIN new : new[n] = i
      BY <3>2, <1>7
    <3>3. ASSUME NEW k \in DOMAIN items, items[k] = i PROVE \E n \in DOMAIN new : new[n] = i
      BY <3>3, <1>7
    <3> QED
      BY <2>1, <3>1, <3>2, <3>3
  <2> HIDE DEF M, rank
  <2> QED
    BY <2>2, <1>8
<1>15. ScrollIsExact'
  <2> SUFFICES ASSUME view.still, view'.kept, view.query = query
               PROVE  /\ \A i \in DOMAIN rows :
                           i \in Shown' <=> i \in M /\ rank(i) \in skipped..loaded + size - 1
                      /\ \A m, n \in DOMAIN new : m < n => rank(new[m]) < rank(new[n])
    <3>1. Skipped' = skipped /\ (view.page * view.size - 1)' = loaded + size - 1
      BY <1>2, <1>4, <1>12 DEF Skipped
    <3>2. (\A i : RankIn(rows, i)' = rank(i)) /\ Listed(rows)' = M
      BY <1>2 DEF RankIn, Listed, Matching
    <3>3. view'.still => /\ view.still /\ view'.kept /\ view.query = query
                         /\ view'.shown = new
      BY <1>2, <1>10, Zenon
    <3> HIDE DEF rank, M
    <3> QED
      BY <3>1, <3>2, <3>3 DEF ScrollIsExact
  <2>1. /\ \A i \in DOMAIN rows :
             i \in Shown <=> i \in M /\ rank(i) \in skipped..loaded - 1
        /\ \A m, n \in DOMAIN old : m < n => rank(old[m]) < rank(old[n])
    BY <1>3, <1>5, <1>12 DEF PagingInv, ScrollIsExact, RankIn, Skipped, Listed
  <2>2. ASSUME NEW i \in DOMAIN rows
        PROVE  i \in Shown' <=> i \in M /\ rank(i) \in skipped..loaded + size - 1
    <3>1. PICK r \in Nat : r = rank(i)
      BY <1>9
    <3>2. r \in skipped..loaded + size - 1
            <=> r \in skipped..loaded - 1 \/ r \in loaded..loaded + size - 1
      BY <1>4, <1>13
    <3> HIDE DEF M, rank
    <3> QED
      BY <2>1, <3>1, <3>2, <1>14
  <2>3. \A n \in DOMAIN old : rank(old[n]) < loaded
    <3> SUFFICES ASSUME NEW n \in DOMAIN old PROVE rank(old[n]) < loaded
      OBVIOUS
    <3>1. PICK i \in DOMAIN rows : i = old[n]
      OBVIOUS
    <3>2. i \in Shown
      BY <1>5, <3>1 DEF Shown
    <3>3. rank(i) \in skipped..loaded - 1
      BY <2>1, <3>2
    <3> QED
      BY <3>1, <3>3
  <2>4. ASSUME NEW m \in DOMAIN new, NEW n \in DOMAIN new, m < n
        PROVE  rank(new[m]) < rank(new[n])
    <3>1. m \in Nat /\ n \in Nat /\ Len(old) \in Nat /\ DOMAIN old = 1..Len(old)
          /\ DOMAIN items = 1..Len(items) /\ Len(items) \in Nat
      OBVIOUS
    <3>2. CASE m \in DOMAIN old /\ n \in DOMAIN old
      BY <3>2, <2>1, <2>4, <1>7
    <3>3. CASE m \in DOMAIN old /\ n \notin DOMAIN old
      <4>1. PICK k \in Nat : k = n - Len(old) /\ k \in DOMAIN items /\ new[n] = items[k]
        BY <3>1, <3>3, <1>7
      <4>2. rank(new[n]) = loaded + k - 1 /\ k >= 1
        <5>1. rank(items[k]) = loaded + k - 1
          BY <4>1, <1>8
        <5> QED
          BY <4>1, <5>1, <3>1
      <4>3. rank(new[m]) < loaded /\ rank(new[m]) \in Nat
        <5>1. PICK i \in DOMAIN rows : i = old[m]
          BY <3>3
        <5>2. new[m] = i
          BY <3>3, <5>1, <1>7
        <5> QED
          BY <3>3, <5>1, <5>2, <2>3, <1>9
      <4> QED
        BY <4>1, <4>2, <4>3
    <3>4. CASE m \notin DOMAIN old
      <4>1. n \notin DOMAIN old
        BY <3>1, <3>4, <2>4
      <4>2. PICK j \in Nat : j = m - Len(old) /\ j \in DOMAIN items /\ new[m] = items[j]
        BY <3>1, <3>4, <1>7
      <4>3. PICK k \in Nat : k = n - Len(old) /\ k \in DOMAIN items /\ new[n] = items[k]
        BY <3>1, <4>1, <1>7
      <4>4. rank(new[m]) = loaded + j - 1 /\ rank(new[n]) = loaded + k - 1
        BY <4>2, <4>3, <1>8
      <4>5. j < k
        BY <4>2, <4>3, <3>1, <2>4
      <4> QED
        BY <4>4, <4>5
    <3> QED
      BY <3>2, <3>3, <3>4
  <2> QED
    BY <2>2, <2>4
<1>16. NothingJumped' /\ ListKept'
  <2>1. view'.kept => Matching(view.base, query) \subseteq M
    BY <1>1, <1>2, Zenon DEF ListKept
  <2>2. ASSUME view'.kept, sort # "exit_code", NEW i \in Matching(view.base, query),
               Rank(view.base, i, query, sort, dir) >= skipped, rank(i) < loaded + size
        PROVE  i \in Shown'
    <3>1. i \in M /\ i \in DOMAIN rows /\ view.kept /\ view.query = query
      BY <1>2, <2>1, <2>2, SelectedRows, <1>1
    <3>2. PICK r \in Nat : r = rank(i)
      BY <1>9, <3>1
    <3>3. CASE r < loaded
      <4>1. i \in Shown
        BY <2>2, <3>1, <3>2, <3>3, <1>3, <1>12
           DEF PagingInv, NothingJumped, RankIn, Skipped, Listed
      <4> QED
        BY <2>2, <3>1, <4>1, <1>14
    <3>4. CASE ~(r < loaded)
      <4>1. r \in loaded..loaded + size - 1
        BY <2>2, <3>2, <3>4, <1>4
      <4> QED
        BY <2>2, <4>1, <3>1, <3>2, <1>14
    <3> QED
      BY <3>3, <3>4
  <2>3. /\ Matching(view.base, view.query)' = Matching(view.base, query)
        /\ Matching(rows, view.query)' = M
    BY <1>2 DEF Matching
  <2>4. ListKept'
    BY <1>2, <2>1, <2>3, Zenon DEF ListKept
  <2>5. NothingJumped'
    <3>1. Skipped' = skipped /\ (view.page * view.size)' = loaded + size
      BY <1>2, <1>4, <1>12 DEF Skipped
    <3>2. /\ \A i : RankIn(rows, i)' = rank(i)
          /\ \A i : RankIn(view.base, i)' = Rank(view.base, i, query, sort, dir)
          /\ Listed(view.base)' = Matching(view.base, query)
      BY <1>2 DEF RankIn, Listed, Matching
    <3>3. view'.sort = sort
      BY <1>2
    <3> HIDE DEF rank
    <3> QED
      BY <2>2, <3>1, <3>2, <3>3 DEF NothingJumped
  <2> QED
    BY <2>4, <2>5
<1> QED
  BY <1>2, <1>11, <1>13, <1>15, <1>16

\* Any other answer starts a list at its page.
LEMMA FirstPage ==
    ASSUME PagingInv, UNCHANGED <<rows, now>>, req' = Idle,
           NEW items \in Seq(DOMAIN rows), NEW page \in Nat \ {0}, NEW size \in Sizes,
           NEW query \in Queries, NEW sort \in SortKeys, NEW dir \in Directions,
           NEW total \in Nat,
           Answered(FALSE, items, page, size, query, sort, dir, total),
           Lists(items, rows, query, sort, dir, (page - 1) * size, size), total <= Len(rows)
    PROVE  /\ Shapes' /\ ListKept' /\ ScrollIsExact' /\ NothingJumped'
           /\ view'.from <= view'.page
<1> DEFINE M == Matching(rows, query)
           rank(i) == Rank(rows, i, query, sort, dir)
<1>1. Shapes /\ rows \in Seq(Rows)
  BY DEF PagingInv, ScrollInv, Shapes
<1>2. PICK first \in Nat : first = (page - 1) * size
  BY SizesAre
<1>3. page * size = first + size /\ size \in Nat \ {0} /\ size <= MaxShown
  <2>1. size <= MaxShown
    <3>1. DefaultSize \in Nat /\ MaxPageSize \in Nat /\ MaxShown \in Nat
      BY PagingAssumption
    <3>2. Max({DefaultSize, MaxPageSize})
            = IF DefaultSize >= MaxPageSize THEN DefaultSize ELSE MaxPageSize
      BY <3>1, MaxMin
    <3> QED
      BY <3>1, <3>2, PagingAssumption DEF Sizes
  <2> QED
    BY <1>2, <2>1, SizesAre
<1>4. /\ \A n \in DOMAIN items : rank(items[n]) = first + n - 1
      /\ \A i \in DOMAIN rows :
           (\E n \in DOMAIN items : items[n] = i)
           <=> i \in M /\ rank(i) \in first..first + size - 1
  BY <1>2, Zenon DEF Lists
<1>5. \A i \in DOMAIN rows : rank(i) \in Nat
  BY <1>1, RankBound
<1>6. Len(items) <= MaxShown
  <2>1. PICK length \in Nat : length = Len(items) /\ DOMAIN items = 1..length
    OBVIOUS
  <2>2. CASE length = 0
    BY <2>1, <2>2, <1>3, PagingAssumption
  <2>3. CASE length # 0
    <3>1. PICK i \in DOMAIN rows : i = items[length]
      BY <2>1, <2>3
    <3>2. length \in DOMAIN items /\ items[length] = i
      BY <2>1, <2>3, <3>1
    <3>3. rank(i) = first + length - 1 /\ rank(i) \in first..first + size - 1
      <4> HIDE DEF rank, M
      <4> QED
        BY <3>2, <1>4
    <3> QED
      BY <2>1, <3>3, <1>3, PagingAssumption
  <2> QED
    BY <2>2, <2>3
<1>7. /\ view' \in Views /\ view'.page = page /\ view'.size = size /\ view'.query = query
      /\ view'.sort = sort /\ view'.dir = dir /\ view'.total = total
      /\ view'.shown = items /\ view'.base = rows /\ view'.from = page
      /\ view'.still => view'.kept
  <2>1. Capped(items) = items
    BY <1>6, CapTakesFirst
  <2> QED
    BY <2>1, Zenon DEF Answered
<1>8. Shown' = {items[n] : n \in DOMAIN items}
  BY <1>7 DEF Shown
<1>9. \A i \in DOMAIN rows : i \in Shown' <=> i \in M /\ rank(i) \in first..first + size - 1
  BY <1>4, <1>8
<1>10. Shapes'
  <2>1. Idle \in Requests /\ Idle.total = 0
    BY SizesAre, QueriesAssumption DEF Idle, Requests, SortKeys, Directions
  <2>2. \A n \in DOMAIN items : items[n] \in DOMAIN rows
    OBVIOUS
  <2> QED
    BY <1>1, <1>6, <1>7, <2>1, <2>2 DEF Shapes
<1>11. /\ Skipped' = first /\ (view.page * view.size)' = first + size
       /\ \A i : RankIn(rows, i)' = rank(i) /\ RankIn(view.base, i)' = rank(i)
       /\ Listed(rows)' = M /\ Listed(view.base)' = M
  BY <1>2, <1>3, <1>7 DEF Skipped, RankIn, Listed, Matching
<1>12. ScrollIsExact'
  <2>1. ASSUME NEW m \in DOMAIN items, NEW n \in DOMAIN items, m < n
        PROVE  rank(items[m]) < rank(items[n])
    <3>1. rank(items[m]) = first + m - 1 /\ rank(items[n]) = first + n - 1
      BY <1>4
    <3> QED
      BY <3>1, <2>1
  <2>2. (view.page * view.size - 1)' = first + size - 1
    BY <1>3, <1>7
  <2> HIDE DEF rank, M
  <2> QED
    BY <1>7, <1>9, <1>11, <2>1, <2>2 DEF ScrollIsExact
<1>13. NothingJumped'
  <2> SUFFICES ASSUME NEW i \in M, rank(i) >= first, rank(i) < first + size
               PROVE  i \in Shown'
    <3> HIDE DEF rank, M
    <3> QED
      BY <1>11 DEF NothingJumped
  <2>1. i \in DOMAIN rows
    BY <1>1, SelectedRows
  <2>2. rank(i) \in first..first + size - 1
    BY <1>3, <1>5, <2>1
  <2> QED
    BY <2>1, <2>2, <1>9
<1>14. ListKept'
  BY <1>7 DEF ListKept, Matching
<1> QED
  BY <1>7, <1>10, <1>12, <1>13, <1>14

LEMMA SelectStep == ASSUME PagingInv, Select PROVE PagingInv'
<1>1. PICK append \in BOOLEAN, items \in Seq(DOMAIN rows), page \in Nat \ {0},
           size \in Sizes, query \in Queries, sort \in SortKeys, dir \in Directions,
           total \in Nat :
        /\ Answered(append, items, page, size, query, sort, dir, total)
        /\ Lists(items, rows, query, sort, dir, (page - 1) * size, size)
        /\ total <= Len(rows)
        /\ append => /\ view.page = page - 1 /\ view.size = size
                     /\ view.sort = sort /\ view.dir = dir
                     /\ view.sentinel = "fired"
  BY SelectAnswers, Zenon
<1>2. UNCHANGED <<rows, now>> /\ req' = Idle
  BY DEF Select
<1>3. /\ Shapes' /\ ListKept' /\ ScrollIsExact' /\ NothingJumped'
      /\ view'.from <= view'.page
  <2>1. CASE append
    <3>1. Answered(TRUE, items, page, size, query, sort, dir, total)
      BY <1>1, <2>1, Zenon
    <3> QED
      BY <1>1, <1>2, <2>1, <3>1, AppendedPage, Zenon
  <2>2. CASE ~append
    <3>1. Answered(FALSE, items, page, size, query, sort, dir, total)
      BY <1>1, <2>2, Zenon
    <3> QED
      BY <1>1, <1>2, <2>2, <3>1, FirstPage, Zenon
  <2> QED
    BY <2>1, <2>2
<1>4. RequestContinues'
  BY <1>2 DEF RequestContinues, Idle
<1>5. SentinelIsTrue'
  <2>1. /\ view'.sentinel = IF page < TotalPages(total, size) THEN "armed" ELSE "end"
        /\ view'.page = page /\ view'.size = size /\ view'.total = total
    BY <1>1, Zenon DEF Answered
  <2>2. page < TotalPages(total, size) <=> page * size < total
    BY SizesAre, PagesCover
  <2>3. PICK loaded \in Nat : loaded = page * size
    BY SizesAre
  <2> QED
    BY <1>3, <2>1, <2>2, <2>3 DEF SentinelIsTrue
<1> QED
  BY <1>3, <1>4, <1>5 DEF PagingInv, ScrollInv

THEOREM PagingIsInductive == NoWrap => (Spec => []PagingInv)
<1> SUFFICES ASSUME NoWrap PROVE Spec => []PagingInv
  OBVIOUS
<1>1. Init => PagingInv
  BY InitPaging
<1>2. PagingInv /\ [Next]_vars => PagingInv'
  <2> SUFFICES ASSUME PagingInv, [Next]_vars PROVE PagingInv'
    OBVIOUS
  <2>1. CASE Tick
    BY <2>1, TickStep
  <2>2. ASSUME NEW comm \in Comms, InsertRow(comm) PROVE PagingInv'
    BY <2>2, InsertStep
  <2>3. ASSUME NEW i \in DOMAIN rows, NEW code \in ExitCodes, Backfill(i, code)
        PROVE  PagingInv'
    BY <2>3, BackfillStep
  <2>4. ASSUME NEW query \in Queries, Index(query) PROVE PagingInv'
    BY <2>4, IndexStep
  <2>5. ASSUME NEW query \in Queries, NEW page \in AskedPages, NEW size \in AskedSizes,
               NEW sort \in SortKeys, NEW dir \in Directions,
               AskList(page, size, query, sort, dir)
        PROVE  PagingInv'
    BY <2>5, AskListStep
  <2>6. ASSUME NEW key \in SortKeys, SortBy(key) PROVE PagingInv'
    BY <2>6, SortByStep
  <2>7. CASE LoadMore
    BY <2>7, LoadMoreStep
  <2>8. CASE Count
    BY <2>8, CountStep
  <2>9. CASE Select
    BY <2>9, SelectStep
  <2>10. CASE Fail
    BY <2>10, FailStep
  <2>11. CASE UNCHANGED vars
    <3>1. UNCHANGED <<rows, now, view, req>>
      BY <2>11 DEF vars
    <3>2. Shapes' /\ RequestContinues'
      BY <3>1 DEF PagingInv, ScrollInv, Shapes, RequestContinues
    <3> QED
      BY <3>1, <3>2, ScrollFrame DEF PagingInv, ScrollInv
  <2> QED
    BY <2>1, <2>2, <2>3, <2>4, <2>5, <2>6, <2>7, <2>8, <2>9, <2>10, <2>11 DEF Next
<1> QED
  BY <1>1, <1>2, PTL DEF Spec

\* The columns keep their types, and the page number and size of a view and of
\* a request stay in the range list_events clamps them to.
THEOREM PagingTypes == NoWrap => (Spec => []TypeOK)
<1>1. PagingInv => TypeOK
  <2> SUFFICES ASSUME PagingInv PROVE TypeOK
    OBVIOUS
  <2>1. Shapes
    BY DEF PagingInv, ScrollInv
  <2>2. view.shown \in Seq(DOMAIN rows) /\ Len(view.shown) <= MaxShown
    BY <2>1 DEF Shapes, Views
  <2>3. /\ rows \in Seq(Rows) /\ view.base \in Seq(Rows) /\ now \in 0..MaxSeconds
        /\ view.sentinel \in Sentinels
        /\ req.at \in {"idle", "asked", "counted"} /\ req.kind \in {"index", "list", "append"}
    BY <2>1 DEF Shapes, Views, Requests
  <2>4. view.still \in BOOLEAN /\ view.kept \in BOOLEAN
    BY <2>1, Zenon DEF Shapes, Views
  <2>5. ASSUME NEW q \in {view, req}
        PROVE  /\ q.page \in Nat \ {0} /\ q.size \in Sizes /\ q.query \in Queries
               /\ q.sort \in SortKeys /\ q.dir \in Directions /\ q.total \in 0..Len(rows)
    BY <2>1 DEF Shapes, Views, Requests
  <2> QED
    BY <2>2, <2>3, <2>4, <2>5, Zenon DEF TypeOK, Sizes, Sentinels
<1> QED
  BY <1>1, PagingIsInductive, PTL

\* Over a table and with a filter that stay what they are, scrolling shows
\* every row of the pages loaded, once and in order, whatever the filter, the
\* column, the page size and the page the list began with.
THEOREM ScrollingIsExact == NoWrap => (Spec => []ScrollIsExact)
<1>1. PagingInv => ScrollIsExact
  BY DEF PagingInv
<1> QED
  BY <1>1, PagingIsInductive, PTL

\* However many rows come into the list between two pages, inserted ones and
\* ones whose exit code the filter waited for, OFFSET jumps over no row that
\* was there at the first page, unless the list has lost a row.
THEOREM ScrollingJumpsNothing == NoWrap => (Spec => []NothingJumped)
<1>1. PagingInv => NothingJumped
  BY DEF PagingInv
<1> QED
  BY <1>1, PagingIsInductive, PTL

\* A list that says it has ended has shown all the rows listed at its first
\* page, unless it lost a row or one came in between the last COUNT and SELECT.
THEOREM EndOfListMeansAll == NoWrap => (Spec => []EndMeansAll)
<1>1. PagingInv => EndMeansAll
  <2> SUFFICES ASSUME PagingInv, view.sentinel = "end", view.from = 1,
                      view.sort # "exit_code", view.kept,
                      view.total = Cardinality(Listed(rows)),
                      NEW i \in Listed(view.base)
               PROVE  i \in Shown
    BY DEF EndMeansAll
  <2>1. /\ view \in Views /\ rows \in Seq(Rows) /\ view.base \in Seq(Rows)
        /\ i \in Matching(view.base, view.query) /\ i \in Matching(rows, view.query)
    BY DEF PagingInv, ScrollInv, Shapes, Views, ListKept, Listed
  <2>2. PICK query \in Queries, sort \in SortKeys, dir \in Directions :
          query = view.query /\ sort = view.sort /\ dir = view.dir
    BY <2>1 DEF Views
  <2>3. PICK count \in Nat : count = Cardinality(Matching(rows, query))
    BY <2>1, SelectedRows
  <2>4. /\ Rank(rows, i, query, sort, dir) \in 0..count - 1
        /\ Rank(view.base, i, query, sort, dir) \in Nat
    <3>1. i \in DOMAIN rows /\ i \in DOMAIN view.base
      BY <2>1 DEF Matching
    <3> QED
      BY <2>1, <2>2, <2>3, <3>1, RankBound
  <2>5. PICK size \in Sizes : size = view.size
    BY <2>1 DEF Views
  <2>6. (view.from - 1) * size = 0
    BY SizesAre
  <2>7. PICK loaded \in Int : loaded = view.page * size
    BY <2>1, SizesAre DEF Views
  <2>8. count <= loaded
    BY <2>2, <2>3, <2>5, <2>7 DEF PagingInv, ScrollInv, SentinelIsTrue, Listed
  <2>9. Rank(view.base, i, query, sort, dir) >= 0 /\ Rank(rows, i, query, sort, dir) < loaded
    BY <2>3, <2>4, <2>7, <2>8
  <2> QED
    BY <2>1, <2>2, <2>5, <2>6, <2>7, <2>9 DEF PagingInv, NothingJumped, RankIn, Skipped, Listed
<1> QED
  BY <1>1, PagingIsInductive, PTL
=============================================================================
