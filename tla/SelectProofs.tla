---------------------------- MODULE SelectProofs -----------------------------
(***************************************************************************)
(* SELECT answers by its definition in every state of a table, for any     *)
(* schema, values, indexes, predicates and number of rows.                 *)
(*                                                                         *)
(* A collected row has a position in the table, each position that matches *)
(* is collected once, and no other: the sequence enumerates the matching   *)
(* positions (Enumerates).  The scan's loop gives such an enumeration      *)
(* (PickedEnumerates), so do the row ids of a lookup (Collected), sorting  *)
(* gives another one of the same positions (Arranged), and LIMIT keeps its *)
(* first elements (PrefixCount).  Sequences that enumerate the same        *)
(* positions hold every tuple equally often (SameCount).                   *)
(*                                                                         *)
(* A join enumerates pairs of positions in the same way: the right rows    *)
(* under the key of each left row, one left row after another              *)
(* (FlattenEnumerates, PairsEnumerate), and of these the ones the WHERE    *)
(* clause keeps (Composed).                                                *)
(***************************************************************************)
EXTENDS Select, TableProofs

-----------------------------------------------------------------------------
(* The loop that skips.                                                    *)

\* g[n] is what was pushed in the first n turns.
IsPicking(g, s, at) ==
  /\ Picked(s, at) = g[Len(s)] /\ g[0] = << >>
  /\ \A n \in 0..(Len(s) - 1) :
       g[n + 1] = IF n + 1 \in at THEN Append(g[n], s[n + 1]) ELSE g[n]

LEMMA PickedIs ==
  ASSUME NEW s, NEW at, Len(s) \in Nat
  PROVE  \E g : IsPicking(g, s, at)
<1> DEFINE Is(g, m) ==
      g = [n \in 0..m |-> IF n = 0 THEN << >>
                          ELSE IF n \in at THEN Append(g[n - 1], s[n]) ELSE g[n - 1]]
<1> DEFINE S == {m \in Nat : \E g : Is(g, m)}
<1>1. 0 \in S
  <2>1. Is([n \in 0..0 |-> << >>], 0)
    OBVIOUS
  <2>2. QED
    BY <2>1
<1>2. ASSUME NEW m \in Nat, m \in S
      PROVE  m + 1 \in S
  <2>1. PICK g : Is(g, m)
    BY <1>2
  <2> DEFINE h == [n \in 0..(m + 1) |->
                     IF n <= m THEN g[n]
                     ELSE IF m + 1 \in at THEN Append(g[m], s[m + 1]) ELSE g[m]]
  <2>2. ASSUME NEW n \in 0..(m + 1)
        PROVE  h[n] = IF n = 0 THEN << >>
                      ELSE IF n \in at THEN Append(h[n - 1], s[n]) ELSE h[n - 1]
    <3>1. \A k \in 0..m : h[k] = g[k]
      OBVIOUS
    <3>2. CASE n \in 0..m
      <4>1. g[n] = IF n = 0 THEN << >>
                   ELSE IF n \in at THEN Append(g[n - 1], s[n]) ELSE g[n - 1]
        BY <2>1, <3>2, Zenon
      <4>2. n # 0 => n - 1 \in 0..m
        BY <3>2
      <4> HIDE DEF h
      <4>3. QED
        BY <3>1, <3>2, <4>1, <4>2
    <3>3. CASE n = m + 1
      <4>1. h[n] = IF n \in at THEN Append(g[m], s[n]) ELSE g[m]
        BY <3>3
      <4>2. n # 0 /\ n - 1 = m /\ m \in 0..m
        BY <3>3
      <4> HIDE DEF h
      <4>3. QED
        BY <3>1, <4>1, <4>2
    <3>4. QED
      BY <3>2, <3>3
  <2>3. Is(h, m + 1)
    BY <2>2
  <2>4. \E f : Is(f, m + 1)
    <3> HIDE DEF h, Is
    <3>1. QED
      BY <2>3
  <2>5. m + 1 \in Nat
    OBVIOUS
  <2>6. QED
    <3> HIDE DEF h, Is
    <3>1. QED
      BY <2>4, <2>5
<1>3. \A m \in Nat : m \in S
  <2> HIDE DEF S
  <2>1. QED
    BY <1>1, <1>2, SetInduction
<1>4. \E g : Is(g, Len(s))
  BY <1>3
<1>5. PICK g : Is(g, Len(s)) /\ Picked(s, at) = g[Len(s)]
  BY <1>4 DEF Picked
<1>6. \A n \in 0..Len(s) : g[n] = IF n = 0 THEN << >>
                                  ELSE IF n \in at THEN Append(g[n - 1], s[n]) ELSE g[n - 1]
  BY <1>5, Zenon
<1>7. g[0] = << >>
  BY <1>6
<1>8. ASSUME NEW n \in 0..(Len(s) - 1)
      PROVE  g[n + 1] = IF n + 1 \in at THEN Append(g[n], s[n + 1]) ELSE g[n]
  <2>1. n + 1 \in 0..Len(s) /\ n + 1 # 0 /\ (n + 1) - 1 = n
    OBVIOUS
  <2>2. QED
    BY <1>6, <2>1
<1>9. IsPicking(g, s, at)
  BY <1>5, <1>7, <1>8 DEF IsPicking
<1>10. QED
  BY <1>9

\* Through f, p has the elements of s at the positions in T, each once.
Enumerates(p, s, T, f) ==
  /\ f \in [1..Len(p) -> T]
  /\ \A i, j \in 1..Len(p) : f[i] = f[j] => i = j
  /\ \A k \in T : \E i \in 1..Len(p) : f[i] = k
  /\ \A i \in 1..Len(p) : p[i] = s[f[i]]

LEMMA PickedEnumerates ==
  ASSUME NEW V, NEW s \in Seq(V), NEW T, \A k \in T : k \in 1..Len(s)
  PROVE  Picked(s, T) \in Seq(V) /\ \E f : Enumerates(Picked(s, T), s, T, f)
<1>1. PICK g : IsPicking(g, s, T)
  <2>1. Len(s) \in Nat
    OBVIOUS
  <2>2. \E g : IsPicking(g, s, T)
    BY <2>1, PickedIs, Zenon
  <2>3. QED
    BY <2>2
<1>0. Len(s) \in Nat /\ \A k \in T : k \in 1..Len(s)
  OBVIOUS
<1> DEFINE Good(n) == g[n] \in Seq(V) /\ \E f : Enumerates(g[n], s, {k \in T : k <= n}, f)
           S == {n \in Nat : n <= Len(s) => Good(n)}
<1> HIDE DEF Good
<1>2. 0 \in S
  <2>1. g[0] \in Seq(V) /\ Len(g[0]) = 0
    BY <1>1 DEF IsPicking
  <2>2. {k \in T : k <= 0} = {}
    <3>1. \A k \in T : ~(k <= 0)
      BY <1>0
    <3>2. QED
      BY <3>1
  <2>3. Enumerates(g[0], s, {}, << >>)
    BY <2>1 DEF Enumerates
  <2>4. Good(0)
    BY <2>1, <2>2, <2>3 DEF Good
  <2>5. QED
    BY <2>4
<1>3. ASSUME NEW n \in Nat, n \in S
      PROVE  n + 1 \in S
  <2>1. SUFFICES ASSUME n + 1 <= Len(s) PROVE Good(n + 1)
    OBVIOUS
  <2>0. Good(n)
    BY <1>0, <1>3, <2>1
  <2> DEFINE U == {k \in T : k <= n}
             W == {k \in T : k <= n + 1}
             m == Len(g[n])
  <2>2. PICK f : g[n] \in Seq(V) /\ Enumerates(g[n], s, U, f)
    BY <2>0 DEF Good
  <2>3. m \in Nat /\ n \in 0..(Len(s) - 1) /\ s[n + 1] \in V
    BY <2>1, <2>2
  <2>4. CASE n + 1 \in T
    <3> DEFINE p == Append(g[n], s[n + 1])
               h == [i \in 1..(m + 1) |-> IF i <= m THEN f[i] ELSE n + 1]
    <3>1. g[n + 1] = p
      BY <1>1, <2>3, <2>4 DEF IsPicking
    <3>2. /\ p \in Seq(V) /\ Len(p) = m + 1 /\ p[m + 1] = s[n + 1]
          /\ \A i \in 1..m : p[i] = g[n][i]
      BY <2>2, <2>3
    <3>3. W = U \cup {n + 1} /\ n + 1 \notin U
      <4>1. \A k \in T : k <= n + 1 <=> k <= n \/ k = n + 1
        BY <1>0
      <4>2. ~(n + 1 <= n) /\ n + 1 <= n + 1
        OBVIOUS
      <4>3. QED
        BY <2>4, <4>1, <4>2
    <3>4. /\ f \in [1..m -> U] /\ \A i, j \in 1..m : f[i] = f[j] => i = j
          /\ \A k \in U : \E i \in 1..m : f[i] = k
          /\ \A i \in 1..m : g[n][i] = s[f[i]]
      BY <2>2 DEF Enumerates
    <3> HIDE DEF p, m, U, W
    <3>5. h \in [1..(m + 1) -> W]
      BY <2>3, <3>3, <3>4
    <3>6. \A i, j \in 1..(m + 1) : h[i] = h[j] => i = j
      BY <2>3, <3>3, <3>4
    <3>7. \A k \in W : \E i \in 1..(m + 1) : h[i] = k
      <4>1. h[m + 1] = n + 1 /\ m + 1 \in 1..(m + 1)
        BY <2>3
      <4>2. ASSUME NEW k \in U PROVE \E i \in 1..(m + 1) : h[i] = k
        <5>1. PICK i \in 1..m : f[i] = k
          BY <3>4
        <5>2. i \in 1..(m + 1) /\ h[i] = k
          BY <2>3, <5>1
        <5>3. QED
          BY <5>2
      <4> HIDE DEF h
      <4>3. QED
        BY <3>3, <4>1, <4>2
    <3>8. \A i \in 1..(m + 1) : p[i] = s[h[i]]
      <4>1. ASSUME NEW i \in 1..m PROVE p[i] = s[h[i]]
        BY <2>3, <3>2, <3>4
      <4>2. p[m + 1] = s[h[m + 1]]
        BY <2>3, <3>2
      <4>3. \A i \in 1..(m + 1) : i \in 1..m \/ i = m + 1
        BY <2>3
      <4>4. QED
        BY <4>1, <4>2, <4>3
    <3> HIDE DEF h
    <3>9. Enumerates(p, s, W, h)
      BY <3>2, <3>5, <3>6, <3>7, <3>8 DEF Enumerates
    <3>10. QED
      BY <3>1, <3>2, <3>9 DEF W, Good
  <2>5. CASE n + 1 \notin T
    <3>1. \A k \in T : k <= n + 1 <=> k <= n
      <4>1. \A k \in T : k \in Nat /\ k # n + 1
        BY <1>0, <2>5
      <4>2. QED
        BY <4>1
    <3>2. W = U
      BY <3>1
    <3>3. g[n + 1] = g[n]
      BY <1>1, <2>3, <2>5 DEF IsPicking
    <3>4. QED
      BY <2>2, <3>2, <3>3 DEF Good
  <2>6. QED
    BY <2>4, <2>5
<1>4. \A n \in Nat : n \in S
  <2> HIDE DEF S
  <2>1. QED
    BY <1>2, <1>3, SetInduction
<1>5. Good(Len(s))
  BY <1>0, <1>4
<1>6. {k \in T : k <= Len(s)} = T
  <2>1. \A k \in T : k <= Len(s)
    BY <1>0
  <2>2. QED
    BY <2>1
<1>7. QED
  BY <1>1, <1>5, <1>6 DEF Good, IsPicking

\* Nothing is skipped.
LEMMA PickedAll ==
  ASSUME NEW V, NEW s \in Seq(V), NEW T, 1..Len(s) \subseteq T
  PROVE  Picked(s, T) = s
<1>0. Len(s) \in Nat
  OBVIOUS
<1>1. PICK g : IsPicking(g, s, T)
  BY <1>0, PickedIs, Zenon
<1> DEFINE Good(n) == g[n] \in Seq(V) /\ Len(g[n]) = n /\ \A i \in 1..n : g[n][i] = s[i]
           S == {n \in Nat : n <= Len(s) => Good(n)}
<1> HIDE DEF Good
<1>2. 0 \in S
  <2>1. Good(0)
    BY <1>1 DEF Good, IsPicking
  <2>2. QED
    BY <2>1
<1>3. ASSUME NEW n \in Nat, n \in S
      PROVE  n + 1 \in S
  <2>1. SUFFICES ASSUME n + 1 <= Len(s) PROVE Good(n + 1)
    OBVIOUS
  <2>2. Good(n) /\ n \in 0..(Len(s) - 1) /\ n + 1 \in T /\ s[n + 1] \in V
    <3>1. Good(n)
      BY <1>3, <2>1
    <3>2. n \in 0..(Len(s) - 1) /\ n + 1 \in 1..Len(s)
      BY <2>1
    <3>3. QED
      BY <3>1, <3>2
  <2>3. g[n + 1] = Append(g[n], s[n + 1])
    BY <1>1, <2>2 DEF IsPicking
  <2>4. QED
    BY <2>2, <2>3 DEF Good
<1>4. \A n \in Nat : n \in S
  <2> HIDE DEF S
  <2>1. QED
    BY <1>2, <1>3, SetInduction
<1>5. Good(Len(s))
  BY <1>4
<1>6. QED
  BY <1>1, <1>5, SeqEqual DEF Good, IsPicking

-----------------------------------------------------------------------------
(* Counting.                                                               *)

Places(s, T, t) == {k \in T : s[k] = t}
BagAt(s, T) == [t \in {s[k] : k \in T} |-> Cardinality({k \in T : s[k] = t})]

\* As often as t is in the enumeration, it is at one of the positions.
LEMMA SameCount ==
  ASSUME NEW p, NEW s, NEW T, NEW f, NEW t, Len(p) \in Nat, Enumerates(p, s, T, f)
  PROVE  /\ IsFiniteSet(Places(p, 1..Len(p), t))
         /\ Cardinality(Places(p, 1..Len(p), t)) = Cardinality(Places(s, T, t))
<1> DEFINE A == Places(p, 1..Len(p), t)
           B == Places(s, T, t)
           h == [i \in A |-> f[i]]
<1>1. /\ f \in [1..Len(p) -> T] /\ \A i, j \in 1..Len(p) : f[i] = f[j] => i = j
      /\ \A k \in T : \E i \in 1..Len(p) : f[i] = k
      /\ \A i \in 1..Len(p) : p[i] = s[f[i]]
  BY DEF Enumerates
<1>2. IsFiniteSet(A)
  <2>1. IsFiniteSet(1..Len(p))
    BY FS_Interval
  <2>2. A \subseteq 1..Len(p)
    BY DEF Places
  <2> HIDE DEF A
  <2>3. QED
    BY <2>1, <2>2, FS_Subset
<1>3. h \in [A -> B]
  BY <1>1 DEF Places
<1>4. \A i, j \in A : h[i] = h[j] => i = j
  BY <1>1 DEF Places
<1>5. \A k \in B : \E i \in A : h[i] = k
  <2>1. ASSUME NEW k \in B PROVE \E i \in A : h[i] = k
    <3>1. PICK i \in 1..Len(p) : f[i] = k
      BY <1>1 DEF Places
    <3>2. i \in A /\ h[i] = k
      BY <1>1, <3>1 DEF Places
    <3> HIDE DEF A, h
    <3>3. QED
      BY <3>2
  <2>2. QED
    BY <2>1
<1> HIDE DEF A, B, h
<1>6. h \in Bijection(A, B)
  BY <1>3, <1>4, <1>5 DEF Bijection, Injection, Surjection, IsInjective
<1>7. Cardinality(A) = Cardinality(B)
  BY <1>2, <1>6, FS_Bijection DEF ExistsBijection
<1>8. QED
  BY <1>2, <1>7 DEF A, B

LEMMA EnumeratedBag ==
  ASSUME NEW V, NEW p \in Seq(V), NEW s, NEW T, NEW f, Enumerates(p, s, T, f)
  PROVE  ToBag(p) = BagAt(s, T)
<1>1. DOMAIN p = 1..Len(p) /\ Len(p) \in Nat
  OBVIOUS
<1>2. Range(p) = {s[k] : k \in T}
  <2>1. \A i \in 1..Len(p) : f[i] \in T /\ p[i] = s[f[i]]
    BY DEF Enumerates
  <2>2. \A k \in T : \E i \in 1..Len(p) : p[i] = s[k]
    BY DEF Enumerates
  <2>3. QED
    BY <1>1, <2>1, <2>2 DEF Range
<1>3. \A t : Cardinality(Places(p, 1..Len(p), t)) = Cardinality(Places(s, T, t))
  BY <1>1, SameCount
<1>4. ToBag(p) = [t \in Range(p) |-> Cardinality(Places(p, 1..Len(p), t))]
  BY <1>1 DEF ToBag, Places
<1>5. BagAt(s, T) = [t \in {s[k] : k \in T} |-> Cardinality(Places(s, T, t))]
  BY DEF BagAt, Places
<1>6. QED
  BY <1>2, <1>3, <1>4, <1>5

-----------------------------------------------------------------------------
(* Rows by their ids.                                                      *)

LEMMA RowsByIds ==
  ASSUME TableInv, NEW ids \in Seq(RowId), NEW tx \in BOOLEAN, tx => ~erased,
         \A i \in 1..Len(ids) : ids[i] \in 0..(Len(rows) - 1)
  PROVE  rowsByIdForRead(ids, tx) = [i \in 1..Len(ids) |-> rows[ids[i] + 1]]
<1> DEFINE found == [i \in DOMAIN ids |->
                       IF tx THEN read(versions_, ids[i], MaxTransactionId)
                       ELSE IF ids[i] < Len(rows) THEN rows[ids[i] + 1] ELSE NoRow]
           wanted == [i \in 1..Len(ids) |-> rows[ids[i] + 1]]
           at == {i \in DOMAIN ids : found[i] # NoRow}
<1>1. rows \in Seq(Row) /\ Len(rows) \in Nat /\ Len(ids) \in Nat /\ DOMAIN ids = 1..Len(ids)
  BY DEF TableInv, RowsInv
<1>2. ASSUME NEW i \in 1..Len(ids)
      PROVE  found[i] = rows[ids[i] + 1] /\ rows[ids[i] + 1] # NoRow /\ rows[ids[i] + 1] \in Row
  <2>1. ids[i] \in 0..(Len(rows) - 1) /\ ids[i] < Len(rows) /\ ids[i] + 1 \in 1..Len(rows)
    BY <1>1
  <2>2. rows[ids[i] + 1] \in Row
    BY <1>1, <2>1
  <2>3. rows[ids[i] + 1] # NoRow
    BY <2>2, NoRowAssumption DEF Row
  <2>4. CASE tx
    <3>1. read(versions_, ids[i], nextVersion) = rows[ids[i] + 1]
      BY <2>1, <2>4, NewestIsRow
    <3>2. QED
      BY <1>1, <2>2, <2>3, <2>4, <3>1 DEF MaxTransactionId
  <2>5. CASE ~tx
    BY <1>1, <2>1, <2>2, <2>3, <2>5
  <2>6. QED
    BY <2>4, <2>5
<1>3. found = wanted
  BY <1>1, <1>2
<1>4. wanted \in Seq(Row) /\ Len(wanted) = Len(ids)
  BY <1>1, <1>2
<1>5. 1..Len(wanted) \subseteq at
  BY <1>1, <1>2, <1>4
<1>6. rowsByIdForRead(ids, tx) = Picked(found, at)
  BY DEF rowsByIdForRead
<1> HIDE DEF found, wanted, at
<1>7. Picked(wanted, at) = wanted
  BY <1>4, <1>5, PickedAll
<1>8. QED
  BY <1>3, <1>6, <1>7 DEF wanted

-----------------------------------------------------------------------------
(* The access paths.                                                       *)

\* The planner can use an index.
Indexed(p) == p # None /\ p.kind = "Comparison" /\ hasIndex(p.column)

\* The positions of the rows the comparison is true of.
Compared(p) == {i \in DOMAIN rows : compare(rows[i][p.column], p.op, p.value)}

LEMMA IndexPath ==
  ASSUME TableInv, NEW p \in Predicate \cup OrderPredicate, Indexed(p)
  PROVE  /\ p.column \in Columns
         /\ \E ids : /\ Finds(ids, Compared(p))
                     /\ \A tx : collectRows(p, tx) = Rows(Schema, rowsByIdForRead(ids, tx))
<1> DEFINE n == IndexOn(p.column)
           v == p.value
<1>1. p # None /\ p.kind = "Comparison" /\ hasIndex(p.column)
  BY DEF Indexed
<1>2. p.op \in {"=", "<", ">"} /\ v \in Value
  BY <1>1, PredicateAssumption
<1>3. n \in DOMAIN indexColumns_ /\ indexColumns_[n] = p.column
  BY <1>1 DEF hasIndex, IndexOn
<1>4. p.column \in Columns
  BY <1>3 DEF TableInv, IndexInv
<1>5. simpleComparison(p) = p
  BY <1>1 DEF simpleComparison
<1> HIDE DEF n, v
<1>6. /\ Finds(hashFind(indexes_[n], v), {i \in DOMAIN rows : rows[i][p.column] = v})
      /\ Finds(lessThan(orderedIndexes_[n], v), {i \in DOMAIN rows : less(rows[i][p.column], v)})
      /\ Finds(greaterThan(orderedIndexes_[n], v), {i \in DOMAIN rows : less(v, rows[i][p.column])})
  BY <1>2, <1>3, TableLookups
<1>7. CASE p.op = "="
  <2>1. planSelect(p) = "HashIndexLookup"
    BY <1>1, <1>5, <1>7 DEF planSelect
  <2>2. \A tx : collectRows(p, tx) = Rows(Schema, rowsByIdForRead(hashFind(indexes_[n], v), tx))
    BY <1>5, <2>1 DEF collectRows, indexedLookup, n, v
  <2>3. Compared(p) = {i \in DOMAIN rows : rows[i][p.column] = v}
    BY <1>7 DEF Compared, compare, v
  <2>4. QED
    BY <1>4, <1>6, <2>2, <2>3
<1>8. CASE p.op = "<"
  <2>1. planSelect(p) = "OrderedIndexRange"
    BY <1>1, <1>5, <1>8 DEF planSelect
  <2>2. \A tx : collectRows(p, tx) = Rows(Schema, rowsByIdForRead(lessThan(orderedIndexes_[n], v), tx))
    BY <1>5, <1>8, <2>1 DEF collectRows, orderedLookup, n, v
  <2>3. Compared(p) = {i \in DOMAIN rows : less(rows[i][p.column], v)}
    BY <1>8 DEF Compared, compare, v
  <2>4. QED
    BY <1>4, <1>6, <2>2, <2>3
<1>9. CASE p.op = ">"
  <2>1. planSelect(p) = "OrderedIndexRange"
    BY <1>1, <1>5, <1>9 DEF planSelect
  <2>2. \A tx : collectRows(p, tx) = Rows(Schema, rowsByIdForRead(greaterThan(orderedIndexes_[n], v), tx))
    BY <1>5, <1>9, <2>1 DEF collectRows, orderedLookup, n, v
  <2>3. Compared(p) = {i \in DOMAIN rows : less(v, rows[i][p.column])}
    BY <1>9 DEF Compared, compare, v
  <2>4. QED
    BY <1>4, <1>6, <2>2, <2>3
<1>10. QED
  BY <1>2, <1>7, <1>8, <1>9

LEMMA ScanPath ==
  ASSUME NEW p, ~Indexed(p), NEW tx
  PROVE  collectRows(p, tx) = Scanned(rowsSnapshotForRead(tx), p)
<1>1. planSelect(p) = "FullScan"
  <2>1. CASE p = None \/ p.kind # "Comparison"
    BY <2>1 DEF planSelect, simpleComparison
  <2>2. CASE p # None /\ p.kind = "Comparison" /\ ~hasIndex(p.column)
    <3>1. simpleComparison(p) = p
      BY <2>2 DEF simpleComparison
    <3>2. QED
      BY <2>2, <3>1 DEF planSelect
  <2>3. QED
    BY <2>1, <2>2 DEF Indexed
<1>2. QED
  BY <1>1 DEF collectRows

-----------------------------------------------------------------------------
(* What is collected.                                                      *)

Throwing(p) == p # None /\ \E i \in DOMAIN rows : Truth(rows[i], p) = "throws"

\* The rows at the positions in T, each once.
IsCollected(c, T) ==
  /\ c.ok = TRUE /\ c.rows \in Seq(Row)
  /\ \E f : Enumerates(c.rows, rows, T, f)

LEMMA Collected ==
  ASSUME TableInv, NEW p \in Predicate \cup OrderPredicate
  PROVE  IF Throwing(p) THEN collectRows(p, FALSE) = Throws
         ELSE IsCollected(collectRows(p, FALSE), Matching(p))
<1> DEFINE c == collectRows(p, FALSE)
<1>1. rows \in Seq(Row) /\ Len(rows) \in Nat /\ DOMAIN rows = 1..Len(rows)
  BY DEF TableInv, RowsInv
<1>2. CASE Indexed(p)
  <2>1. PICK ids : /\ Finds(ids, Compared(p))
                   /\ c = Rows(Schema, rowsByIdForRead(ids, FALSE))
    BY <1>2, IndexPath
  <2>2. p # None /\ p.kind = "Comparison" /\ p.column \in Columns
    BY <1>2, IndexPath DEF Indexed
  <2>3. \A i \in DOMAIN rows : Truth(rows[i], p) = IF compare(rows[i][p.column], p.op, p.value)
                                                   THEN "true" ELSE "false"
    BY <1>1, <2>2, PredicateAssumption
  <2>4. ~Throwing(p) /\ Matching(p) = Compared(p)
    BY <2>2, <2>3 DEF Throwing, Matching, Compared
  <2> DEFINE T == Compared(p)
             got == [i \in 1..Len(ids) |-> rows[ids[i] + 1]]
             f == [i \in 1..Len(ids) |-> ids[i] + 1]
  <2>5. /\ ids \in Seq(RowId) /\ Len(ids) \in Nat /\ DOMAIN ids = 1..Len(ids)
        /\ ToSet(ids) = {i - 1 : i \in T} /\ IsInjective(ids)
    BY <2>1 DEF Finds, EachOnce
  <2>6. \A k \in T : k \in 1..Len(rows) /\ k \in Nat
    BY <1>1 DEF Compared
  <2> HIDE DEF T
  <2>7. ASSUME NEW i \in 1..Len(ids) PROVE ids[i] + 1 \in T /\ ids[i] \in Nat
    <3>1. ids[i] \in {k - 1 : k \in T}
      BY <2>5 DEF ToSet
    <3>2. PICK k \in T : ids[i] = k - 1
      BY <3>1
    <3>3. k \in Nat /\ k >= 1 /\ ids[i] + 1 = k
      BY <1>1, <2>6, <3>2
    <3>4. QED
      BY <3>2, <3>3
  <2>8. \A i \in 1..Len(ids) : ids[i] \in 0..(Len(rows) - 1)
    BY <1>1, <2>6, <2>7
  <2>9. rowsByIdForRead(ids, FALSE) = got
    BY <2>5, <2>8, RowsByIds
  <2>10. \A i \in 1..Len(ids) : rows[ids[i] + 1] \in Row
    BY <1>1, <2>6, <2>7
  <2>11. got \in Seq(Row) /\ Len(got) = Len(ids)
    BY <2>5, <2>10
  <2>12. f \in [1..Len(ids) -> T]
    BY <2>7
  <2>13. \A i, j \in 1..Len(ids) : f[i] = f[j] => i = j
    BY <2>5, <2>7 DEF IsInjective
  <2>14. \A k \in T : \E i \in 1..Len(ids) : f[i] = k
    <3>1. ASSUME NEW k \in T PROVE \E i \in 1..Len(ids) : f[i] = k
      <4>1. k - 1 \in ToSet(ids)
        BY <2>5
      <4>2. PICK i \in 1..Len(ids) : ids[i] = k - 1
        BY <2>5, <4>1 DEF ToSet
      <4>3. f[i] = k
        BY <2>6, <4>2
      <4> HIDE DEF f
      <4>4. QED
        BY <4>3
    <3>2. QED
      BY <3>1
  <2>15. \A i \in 1..Len(ids) : got[i] = rows[f[i]]
    OBVIOUS
  <2> HIDE DEF got, f
  <2>16. Enumerates(got, rows, T, f)
    BY <2>11, <2>12, <2>13, <2>14, <2>15 DEF Enumerates
  <2>17. c.ok = TRUE /\ c.rows = got
    <3>1. c = Rows(Schema, got)
      BY <2>1, <2>9
    <3> HIDE DEF c
    <3>2. QED
      BY <3>1 DEF Rows
  <2>18. IsCollected(c, T)
    BY <2>11, <2>16, <2>17 DEF IsCollected
  <2>19. QED
    BY <2>4, <2>18 DEF T
<1>3. CASE ~Indexed(p)
  <2>1. c = Scanned(rows, p)
    BY <1>3, ScanPath DEF rowsSnapshotForRead
  <2> HIDE DEF c
  <2>2. CASE p = None
    <3> DEFINE f == [i \in 1..Len(rows) |-> i]
    <3>1. Enumerates(rows, rows, 1..Len(rows), f)
      BY <1>1 DEF Enumerates
    <3>2. Matching(p) = 1..Len(rows) /\ ~Throwing(p)
      BY <1>1, <2>2 DEF Matching, Throwing
    <3>3. c.ok = TRUE /\ c.rows = rows
      BY <2>1, <2>2 DEF Scanned, Rows
    <3> HIDE DEF f
    <3>4. IsCollected(c, Matching(p))
      BY <1>1, <3>1, <3>2, <3>3 DEF IsCollected
    <3>5. QED
      BY <3>2, <3>4 DEF c
  <2>3. CASE p # None /\ Throwing(p)
    BY <2>1, <2>3 DEF Scanned, Throwing, c
  <2>4. CASE p # None /\ ~Throwing(p)
    <3> DEFINE T == {i \in DOMAIN rows : Truth(rows[i], p) = "true"}
    <3>1. Matching(p) = T
      BY <2>4 DEF Matching
    <3>2. c.ok = TRUE /\ c.rows = Picked(rows, T)
      BY <2>1, <2>4 DEF Scanned, Rows, Throwing
    <3>3. \A k \in T : k \in 1..Len(rows)
      BY <1>1
    <3> HIDE DEF T
    <3>4. Picked(rows, T) \in Seq(Row) /\ \E f : Enumerates(Picked(rows, T), rows, T, f)
      BY <1>1, <3>3, PickedEnumerates
    <3>5. IsCollected(c, T)
      BY <3>2, <3>4 DEF IsCollected
    <3>6. QED
      BY <2>4, <3>1, <3>5 DEF c
  <2>5. QED
    BY <2>2, <2>3, <2>4
<1>4. QED
  BY <1>2, <1>3

-----------------------------------------------------------------------------
(* Results.                                                                *)

Tuples(rs) == [i \in DOMAIN rs |-> Tuple(rs[i])]

LEMMA SelectAll ==
  ASSUME NEW p, NEW tx
  PROVE  executeSelect(All(p), tx)
           = IF collectRows(p, tx).ok THEN {Rows(Schema, Tuples(collectRows(p, tx).rows))}
             ELSE {Throws}
<1> DEFINE q == All(p)
           c == collectRows(p, tx)
<1>1. q.columns = <<"*">> /\ q.where = p /\ q.orderBy = None /\ q.limit = None
  BY DEF All
<1>2. resolveProjection(q.columns) = Schema
  BY <1>1 DEF resolveProjection
<1>3. ToSet(Schema) \subseteq Columns
  BY SchemaOrderAssumption
<1>4. \A rs : Limited(rs, q.limit) = rs
  BY <1>1 DEF Limited
<1> HIDE DEF q
<1>5. CASE ~c.ok
  BY <1>1, <1>5 DEF executeSelect, q
<1>6. CASE c.ok
  <2>1. executeSelect(q, tx)
          = {LET kept == Limited(rs, q.limit)
             IN  Rows(Schema, [i \in DOMAIN kept |-> [j \in DOMAIN Schema |-> kept[i][Schema[j]]]])
               : rs \in {c.rows}}
    BY <1>1, <1>2, <1>3, <1>6 DEF executeSelect
  <2>2. executeSelect(q, tx)
          = {Rows(Schema, [i \in DOMAIN c.rows |-> [j \in DOMAIN Schema |-> c.rows[i][Schema[j]]]])}
    BY <1>4, <2>1
  <2>3. QED
    BY <1>6, <2>2 DEF q, Tuples, Tuple
<1>7. QED
  BY <1>5, <1>6

LEMMA EnumeratedTuples ==
  ASSUME NEW p \in Seq(Row), rows \in Seq(Row), NEW T, T \subseteq DOMAIN rows, NEW f,
         Enumerates(p, rows, T, f)
  PROVE  /\ Tuples(p) \in Seq({Tuple(r) : r \in Row}) /\ Len(Tuples(p)) = Len(p)
         /\ Enumerates(Tuples(p), Tuples(rows), T, f)
<1>1. DOMAIN p = 1..Len(p) /\ Len(p) \in Nat /\ \A i \in 1..Len(p) : p[i] \in Row
  OBVIOUS
<1>2. Tuples(p) \in Seq({Tuple(r) : r \in Row}) /\ Len(Tuples(p)) = Len(p)
  BY <1>1 DEF Tuples
<1>3. ASSUME NEW i \in 1..Len(p) PROVE Tuples(p)[i] = Tuples(rows)[f[i]]
  <2>1. f[i] \in DOMAIN rows /\ p[i] = rows[f[i]]
    BY DEF Enumerates
  <2>2. Tuples(p)[i] = Tuple(p[i]) /\ Tuples(rows)[f[i]] = Tuple(rows[f[i]])
    BY <1>1, <2>1 DEF Tuples
  <2>3. QED
    BY <2>1, <2>2
<1>4. QED
  BY <1>2, <1>3 DEF Enumerates

(* SELECT returns exactly the rows its predicate is true of, through       *)
(* whatever access path, and throws exactly when a scan would.             *)
(* (planSelect, collectRows, indexedLookup, orderedLookup, rowsById)       *)
THEOREM SelectsAreExact == Spec => []SelectExact
<1>1. ASSUME TableInv, NEW p \in Predicate, NEW result \in executeSelect(All(p), FALSE)
      PROVE  IF Throwing(p) THEN result = Throws
             ELSE result.ok /\ ToBag(result.rows) = MatchingRows(p)
  <2> DEFINE c == collectRows(p, FALSE)
  <2>1. IF Throwing(p) THEN c = Throws ELSE IsCollected(c, Matching(p))
    BY <1>1, Collected
  <2>2. executeSelect(All(p), FALSE) = IF c.ok THEN {Rows(Schema, Tuples(c.rows))} ELSE {Throws}
    BY SelectAll
  <2> HIDE DEF c
  <2>3. CASE Throwing(p)
    <3>1. c.ok = FALSE
      BY <2>1, <2>3 DEF Throws
    <3>2. QED
      BY <1>1, <2>2, <2>3, <3>1
  <2>4. CASE ~Throwing(p)
    <3>1. PICK f : /\ c.ok = TRUE /\ c.rows \in Seq(Row)
                   /\ Enumerates(c.rows, rows, Matching(p), f)
      BY <2>1, <2>4 DEF IsCollected
    <3>2. result.ok = TRUE /\ result.rows = Tuples(c.rows)
      <4>1. result = Rows(Schema, Tuples(c.rows))
        BY <1>1, <2>2, <3>1
      <4>2. QED
        BY <4>1 DEF Rows
    <3>3. rows \in Seq(Row) /\ Matching(p) \subseteq DOMAIN rows
      BY <1>1 DEF TableInv, RowsInv, Matching
    <3>4. /\ Tuples(c.rows) \in Seq({Tuple(r) : r \in Row})
          /\ Enumerates(Tuples(c.rows), Tuples(rows), Matching(p), f)
      BY <3>1, <3>3, EnumeratedTuples
    <3>5. ToBag(Tuples(c.rows)) = BagAt(Tuples(rows), Matching(p))
      BY <3>4, EnumeratedBag
    <3>6. \A k \in Matching(p) : Tuples(rows)[k] = Tuple(rows[k])
      BY <3>3 DEF Tuples
    <3>7. ToBag(Tuples(c.rows)) = MatchingRows(p)
      BY <3>5, <3>6 DEF MatchingRows, BagAt
    <3>8. QED
      BY <2>4, <3>2, <3>7
  <2>5. QED
    BY <2>3, <2>4
<1>2. TableInv => SelectExact
  BY <1>1 DEF SelectExact, Throwing
<1>3. QED
  BY <1>2, InvHolds, PTL

(* Until a row is erased, a SELECT inside a transaction returns what it    *)
(* returns outside, by index as by scan.  (readVersion,                    *)
(* rowsSnapshotForRead, rowsByIdForRead)                                   *)
THEOREM TransactionsReadRows == Spec => []TransactionReads
<1>1. ASSUME TableInv, ~erased, NEW p \in Predicate
      PROVE  collectRows(p, TRUE) = collectRows(p, FALSE)
  <2>1. CASE Indexed(p)
    <3>1. PICK ids : /\ Finds(ids, Compared(p))
                     /\ \A tx : collectRows(p, tx) = Rows(Schema, rowsByIdForRead(ids, tx))
      BY <1>1, <2>1, IndexPath
    <3>2. rows \in Seq(Row) /\ Len(rows) \in Nat /\ \A k \in Compared(p) : k \in 1..Len(rows)
      BY <1>1 DEF TableInv, RowsInv, Compared
    <3>3. ids \in Seq(RowId) /\ ToSet(ids) = {i - 1 : i \in Compared(p)}
      BY <3>1 DEF Finds, EachOnce
    <3>4. ASSUME NEW i \in 1..Len(ids) PROVE ids[i] \in 0..(Len(rows) - 1)
      <4>1. ids[i] \in {k - 1 : k \in Compared(p)}
        BY <3>3 DEF ToSet
      <4>2. PICK k \in Compared(p) : ids[i] = k - 1
        BY <4>1
      <4>3. QED
        BY <3>2, <4>2
    <3>5. rowsByIdForRead(ids, TRUE) = rowsByIdForRead(ids, FALSE)
      BY <1>1, <3>3, <3>4, RowsByIds
    <3>6. QED
      BY <3>1, <3>5
  <2>2. CASE ~Indexed(p)
    <3>1. rowsSnapshotForRead(TRUE) = rowsSnapshotForRead(FALSE)
      BY <1>1, ChainsGiveRows DEF rowsSnapshotForRead, MaxTransactionId
    <3>2. QED
      BY <2>2, <3>1, ScanPath
  <2>3. QED
    BY <2>1, <2>2
<1>2. TableInv => TransactionReads
  BY <1>1, SelectAll DEF TransactionReads
<1>3. QED
  BY <1>2, InvHolds, PTL

-----------------------------------------------------------------------------
(* ORDER BY and LIMIT.                                                     *)

LEMMA EnumeratedLength ==
  ASSUME NEW p, NEW s, NEW T, NEW f, Len(p) \in Nat, Enumerates(p, s, T, f)
  PROVE  Cardinality(T) = Len(p)
<1> DEFINE I == 1..Len(p)
<1>1. /\ f \in [I -> T] /\ \A i, j \in I : f[i] = f[j] => i = j
      /\ \A k \in T : \E i \in I : f[i] = k
  BY Zenon DEF Enumerates
<1>2. IsFiniteSet(I) /\ Cardinality(I) = Len(p)
  <2>1. 1 \in Int /\ Len(p) \in Int
    OBVIOUS
  <2>2. /\ IsFiniteSet(1..Len(p))
        /\ Cardinality(1..Len(p)) = IF 1 > Len(p) THEN 0 ELSE Len(p) - 1 + 1
    BY <2>1, FS_Interval, Zenon
  <2>3. QED
    BY <2>1, <2>2
<1> HIDE DEF I
<1>3. f \in Bijection(I, T)
  BY <1>1 DEF Bijection, Injection, Surjection, IsInjective
<1>4. QED
  BY <1>2, <1>3, FS_Bijection DEF ExistsBijection

\* Sorted, and an enumeration of the same rows.
LEMMA Arranged ==
  ASSUME NEW c \in Seq(Row), NEW T, NEW f, Enumerates(c, rows, T, f), NEW column, NEW ascending,
         NEW rs \in Arrangements(c, column, ascending)
  PROVE  /\ rs \in Seq(Row) /\ \E h : Enumerates(rs, rows, T, h)
         /\ \A i, j \in 1..Len(rs) : i < j => ~Before(rs[j], rs[i], column, ascending)
<1> DEFINE D == 1..Len(c)
<1>1. DOMAIN c = D /\ Len(c) \in Nat /\ \A i \in D : c[i] \in Row
  OBVIOUS
<1>2. PICK g \in [D -> D] :
        /\ \A i, j \in D : i < j => g[i] # g[j] /\ ~Before(c[g[j]], c[g[i]], column, ascending)
        /\ rs = [i \in D |-> c[g[i]]]
  BY <1>1 DEF Arrangements
<1>3. rs \in Seq(Row) /\ Len(rs) = Len(c)
  BY <1>1, <1>2
<1>4. g \in Injection(D, D)
  BY <1>1, <1>2 DEF Injection, IsInjective
<1>5. IsFiniteSet(D)
  BY <1>1, FS_Interval
<1>6. \A k \in D : \E i \in D : g[i] = k
  <2> HIDE DEF D
  <2>1. g \in Surjection(D, D)
    BY <1>4, <1>5, FS_Injection
  <2>2. QED
    BY <2>1 DEF Surjection
<1> DEFINE h == [i \in D |-> f[g[i]]]
<1>7. /\ f \in [D -> T] /\ \A i, j \in D : f[i] = f[j] => i = j
      /\ \A k \in T : \E i \in D : f[i] = k
      /\ \A i \in D : c[i] = rows[f[i]]
  BY DEF Enumerates
<1>8. \A i, j \in D : g[i] = g[j] => i = j
  BY <1>4 DEF Injection, IsInjective
<1> HIDE DEF D
<1>9. h \in [D -> T] /\ \A i, j \in D : h[i] = h[j] => i = j
  BY <1>2, <1>7, <1>8
<1>10. \A k \in T : \E i \in D : h[i] = k
  <2>1. ASSUME NEW k \in T PROVE \E i \in D : h[i] = k
    <3>1. PICK j \in D : f[j] = k
      BY <1>7
    <3>2. PICK i \in D : g[i] = j
      BY <1>6
    <3>3. h[i] = k
      BY <3>1, <3>2
    <3> HIDE DEF h
    <3>4. QED
      BY <3>3
  <2>2. QED
    BY <2>1
<1>11. \A i \in D : rs[i] = rows[h[i]]
  BY <1>2, <1>7
<1> HIDE DEF h
<1>12. Enumerates(rs, rows, T, h)
  BY <1>3, <1>9, <1>10, <1>11 DEF Enumerates, D
<1>13. ASSUME NEW i \in D, NEW j \in D, i < j
       PROVE  ~Before(rs[j], rs[i], column, ascending)
  <2>1. rs[j] = c[g[j]] /\ rs[i] = c[g[i]]
    BY <1>2
  <2>2. QED
    BY <1>2, <1>13, <2>1
<1>14. QED
  BY <1>3, <1>12, <1>13 DEF D

\* The number of rows a limit leaves of len.
Quota(len, n) == IF n = None THEN len ELSE Min({len, Max({n, 1})})

LEMMA QuotaBounds ==
  ASSUME NEW len \in Nat, NEW n \in Limit
  PROVE  Quota(len, n) \in 0..len
<1>1. CASE n = None
  BY <1>1 DEF Quota
<1>2. CASE n # None
  <2> DEFINE m == Max({n, 1})
  <2>1. n \in Nat
    BY <1>2, LimitAssumption
  <2>2. m \in Nat
    <3>1. \E x \in {n, 1} : \A y \in {n, 1} : x >= y
      BY <2>1
    <3>2. m \in {n, 1}
      BY <3>1 DEF Max
    <3>3. QED
      BY <2>1, <3>2
  <2> HIDE DEF m
  <2>3. \E x \in {len, m} : \A y \in {len, m} : x <= y
    BY <2>2
  <2>4. Min({len, m}) \in {len, m} /\ \A y \in {len, m} : Min({len, m}) <= y
    BY <2>3 DEF Min
  <2>5. Min({len, m}) \in 0..len
    BY <2>2, <2>4
  <2>6. QED
    BY <1>2, <2>5 DEF Quota, m
<1>3. QED
  BY <1>1, <1>2

LEMMA LimitedRows ==
  ASSUME NEW rs \in Seq(Row), NEW n \in Limit
  PROVE  /\ Limited(rs, n) \in Seq(Row) /\ Len(Limited(rs, n)) = Quota(Len(rs), n)
         /\ Quota(Len(rs), n) \in 0..Len(rs)
         /\ \A i \in 1..Quota(Len(rs), n) : Limited(rs, n)[i] = rs[i]
<1> DEFINE m == Quota(Len(rs), n)
<1>1. Len(rs) \in Nat /\ m \in 0..Len(rs)
  BY QuotaBounds
<1>2. CASE n = None
  BY <1>1, <1>2 DEF Limited, Quota
<1>3. CASE n # None
  <2>1. Limited(rs, n) = SubSeq(rs, 1, m)
    BY <1>3 DEF Limited, Quota
  <2> HIDE DEF m
  <2>2. SubSeq(rs, 1, m) \in Seq(Row) /\ Len(SubSeq(rs, 1, m)) = m
        /\ \A i \in 1..m : SubSeq(rs, 1, m)[i] = rs[i]
    BY <1>1
  <2>3. QED
    BY <1>1, <2>1, <2>2 DEF m
<1>4. QED
  BY <1>2, <1>3

\* The first elements of an enumeration: nothing is there too often, and what is there less
\* often comes later in the enumeration.
Precedes(got, m, all, s, T, t) ==
  /\ Cardinality(Places(got, 1..m, t)) <= Cardinality(Places(s, T, t))
  /\ Cardinality(Places(got, 1..m, t)) < Cardinality(Places(s, T, t)) =>
       \E i \in (m + 1)..Len(all) : all[i] = t

LEMMA PrefixCount ==
  ASSUME NEW all, Len(all) \in Nat, NEW s, NEW T, NEW h, Enumerates(all, s, T, h),
         NEW m \in 0..Len(all), NEW got, \A i \in 1..m : got[i] = all[i], NEW t
  PROVE  Precedes(got, m, all, s, T, t)
<1> DEFINE A == Places(all, 1..Len(all), t)
           B == Places(got, 1..m, t)
<1>1. IsFiniteSet(A) /\ Cardinality(A) = Cardinality(Places(s, T, t))
  BY SameCount
<1>2. B \subseteq A
  BY DEF Places
<1>3. (\A i \in (m + 1)..Len(all) : all[i] # t) => B = A
  <2>1. SUFFICES ASSUME \A i \in (m + 1)..Len(all) : all[i] # t,
                        NEW i \in A
                 PROVE  i \in B
    BY <1>2
  <2>2. i \in 1..Len(all) /\ all[i] = t
    BY DEF Places
  <2>3. i \in 1..m
    BY <2>1, <2>2
  <2>4. QED
    BY <2>2, <2>3 DEF Places
<1> HIDE DEF A, B
<1>4. Cardinality(B) \in Nat /\ Cardinality(A) \in Nat /\ Cardinality(B) <= Cardinality(A)
  BY <1>1, <1>2, FS_Subset, FS_CardinalityType
<1>5. ASSUME Cardinality(B) < Cardinality(A) PROVE \E i \in (m + 1)..Len(all) : all[i] = t
  <2>1. B # A
    BY <1>4, <1>5
  <2>2. QED
    BY <1>3, <2>1
<1>6. QED
  BY <1>1, <1>4, <1>5 DEF B, Precedes

\* The query of TopRows.
Ordered(p, n, k, ascending) ==
  [All(p) EXCEPT !.orderBy = [column |-> Schema[k], ascending |-> ascending], !.limit = n]

\* One tuple belongs before another.
Earlier(l, r, k, ascending) == IF ascending THEN less(l[k], r[k]) ELSE less(r[k], l[k])

LEMMA SelectOrdered ==
  ASSUME NEW p, NEW n, NEW k \in DOMAIN Schema, NEW ascending \in BOOLEAN,
         NEW result \in executeSelect(Ordered(p, n, k, ascending), FALSE), result.ok
  PROVE  /\ collectRows(p, FALSE).ok
         /\ \E rs \in Arrangements(collectRows(p, FALSE).rows, Schema[k], ascending) :
              result.rows = Tuples(Limited(rs, n))
<1> DEFINE q == Ordered(p, n, k, ascending)
           c == collectRows(p, FALSE)
<1>1. /\ q.columns = <<"*">> /\ q.where = p /\ q.limit = n
      /\ q.orderBy = [column |-> Schema[k], ascending |-> ascending]
  BY DEF Ordered, All
<1>2. q.orderBy.column = Schema[k] /\ q.orderBy.ascending = ascending
  BY <1>1
<1>3. resolveProjection(q.columns) = Schema
  BY <1>1 DEF resolveProjection
<1> HIDE DEF q, c
<1>4. result # Throws
  BY DEF Throws
<1>5. /\ Schema[k] \in Columns /\ ToSet(Schema) \subseteq Columns
      /\ q.orderBy # None
  <2>1. Schema[k] \in Columns
    BY SchemaOrderAssumption
  <2>2. [column |-> Schema[k], ascending |-> ascending]
           \in [column : Columns, ascending : BOOLEAN]
    BY <2>1
  <2>3. QED
    BY <1>1, <2>1, <2>2, NoneAssumption, SchemaOrderAssumption
<1>6. c.ok
  <2>1. ~c.ok => executeSelect(q, FALSE) = {Throws}
    BY <1>1 DEF executeSelect, c
  <2>2. QED
    BY <1>4, <2>1 DEF q
<1> DEFINE P == resolveProjection(q.columns)
           kept(rs) == Limited(rs, q.limit)
<1>7. PICK rs \in Arrangements(c.rows, q.orderBy.column, q.orderBy.ascending) :
        result = Rows(P, [i \in DOMAIN kept(rs) |-> [j \in DOMAIN P |-> kept(rs)[i][P[j]]]])
  <2>1. /\ collectRows(q.where, FALSE) = c /\ q.orderBy.column \in Columns
        /\ ToSet(P) \subseteq Columns /\ result \in executeSelect(q, FALSE)
    BY <1>1, <1>2, <1>3, <1>5 DEF c, q
  <2> HIDE DEF P
  <2>2. QED
    BY <1>5, <1>6, <2>1 DEF executeSelect, P
<1>8. result = Rows(Schema, [i \in DOMAIN kept(rs) |-> [j \in DOMAIN Schema |-> kept(rs)[i][Schema[j]]]])
  BY <1>3, <1>7
<1>9. result = Rows(Schema, Tuples(Limited(rs, n)))
  BY <1>1, <1>8 DEF Tuples, Tuple
<1>10. result.rows = Tuples(Limited(rs, n))
  BY <1>9 DEF Rows
<1>11. QED
  BY <1>2, <1>6, <1>7, <1>10 DEF c

LEMMA OrderOfTuples ==
  ASSUME NEW l, NEW r, NEW k \in DOMAIN Schema, NEW ascending
  PROVE  Earlier(Tuple(l), Tuple(r), k, ascending) <=> Before(l, r, Schema[k], ascending)
BY DEF Earlier, Before, Tuple

\* What TopRows says of the rows that are returned.
IsTop(got, p, n, k, ascending) ==
  /\ Len(got) = Quota(Cardinality(Matching(p)), n)
  /\ \A t \in ToSet(got) :
       /\ t \in DOMAIN MatchingRows(p)
       /\ Cardinality({i \in DOMAIN got : got[i] = t}) <= MatchingRows(p)[t]
  /\ \A i \in 1..(Len(got) - 1) : ~Earlier(got[i + 1], got[i], k, ascending)
  /\ \A t \in DOMAIN MatchingRows(p) :
       Cardinality({i \in DOMAIN got : got[i] = t}) < MatchingRows(p)[t] =>
         \A i \in DOMAIN got : ~Earlier(t, got[i], k, ascending)

LEMMA OrderedIsTop ==
  ASSUME TableInv, NEW p \in OrderPredicate, NEW n \in Limit, NEW k \in DOMAIN Schema,
         NEW ascending \in BOOLEAN,
         NEW result \in executeSelect(Ordered(p, n, k, ascending), FALSE), result.ok
  PROVE  IsTop(result.rows, p, n, k, ascending)
<1> DEFINE c == collectRows(p, FALSE)
           T == Matching(p)
           got == result.rows
<1>1. PICK rs \in Arrangements(c.rows, Schema[k], ascending) : got = Tuples(Limited(rs, n))
  BY SelectOrdered
<1>2. c.ok
  BY SelectOrdered
<1>3. IsCollected(c, T)
  <2>1. IF Throwing(p) THEN c = Throws ELSE IsCollected(c, T)
    BY Collected
  <2> HIDE DEF c
  <2>2. c # Throws
    BY <1>2 DEF Throws
  <2>3. QED
    BY <2>1, <2>2, Zenon
<1> HIDE DEF c
<1>4. PICK f : c.rows \in Seq(Row) /\ Enumerates(c.rows, rows, T, f)
  BY <1>3 DEF IsCollected
<1>5. PICK h : /\ rs \in Seq(Row) /\ Enumerates(rs, rows, T, h)
               /\ \A i, j \in 1..Len(rs) : i < j => ~Before(rs[j], rs[i], Schema[k], ascending)
  BY <1>4, Arranged
<1>6. rows \in Seq(Row) /\ T \subseteq DOMAIN rows
  BY DEF TableInv, RowsInv, Matching
<1> DEFINE m == Quota(Len(rs), n)
           all == Tuples(rs)
<1> HIDE DEF T, got
<1>7. /\ Len(all) = Len(rs) /\ Len(rs) \in Nat /\ Enumerates(all, Tuples(rows), T, h)
      /\ \A i \in 1..Len(rs) : all[i] = Tuple(rs[i])
  <2>1. Len(all) = Len(rs) /\ Enumerates(all, Tuples(rows), T, h)
    BY <1>5, <1>6, EnumeratedTuples
  <2>2. Len(rs) \in Nat /\ DOMAIN rs = 1..Len(rs)
    BY <1>5
  <2>3. QED
    BY <2>1, <2>2 DEF Tuples
<1>8. m \in 0..Len(rs) /\ m \in Nat /\ Len(rs) \in Nat
  BY <1>5, LimitedRows
<1>9. Len(got) = m /\ DOMAIN got = 1..m /\ \A i \in 1..m : got[i] = all[i] /\ got[i] = Tuple(rs[i])
  <2> DEFINE kept == Limited(rs, n)
  <2>1. kept \in Seq(Row) /\ Len(kept) = m /\ \A i \in 1..m : kept[i] = rs[i]
    BY <1>5, LimitedRows
  <2>2. got = [i \in 1..m |-> Tuple(kept[i])]
    BY <1>1, <2>1 DEF Tuples
  <2> HIDE DEF kept, m, all
  <2>3. \A i \in 1..m : got[i] = Tuple(rs[i]) /\ i \in 1..Len(rs)
    BY <1>8, <2>1, <2>2
  <2>4. Len(got) = m /\ DOMAIN got = 1..m
    BY <1>8, <2>2
  <2>5. QED
    BY <1>7, <2>3, <2>4
<1>10. Cardinality(T) = Len(rs)
  BY <1>5, <1>8, EnumeratedLength
<1>11. \A t : t \in DOMAIN MatchingRows(p) => MatchingRows(p)[t] = Cardinality(Places(Tuples(rows), T, t))
  <2>1. MatchingRows(p) = [t \in {Tuple(rows[i]) : i \in T} |->
                             Cardinality({i \in T : Tuple(rows[i]) = t})]
    BY DEF MatchingRows, T
  <2>2. \A i \in T : Tuples(rows)[i] = Tuple(rows[i])
    BY <1>6 DEF Tuples
  <2>3. \A t : {i \in T : Tuple(rows[i]) = t} = Places(Tuples(rows), T, t)
    BY <2>2 DEF Places
  <2>4. QED
    BY <2>1, <2>3
<1>12. DOMAIN MatchingRows(p) = {Tuple(rows[i]) : i \in T}
  BY DEF MatchingRows, T
<1> HIDE DEF m, all
<1>13. \A t : Cardinality({i \in DOMAIN got : got[i] = t}) = Cardinality(Places(got, 1..m, t))
  BY <1>9 DEF Places
<1>14. ASSUME NEW t PROVE Precedes(got, m, all, Tuples(rows), T, t)
  <2>1. Len(all) \in Nat
    BY <1>7
  <2>2. m \in 0..Len(all)
    BY <1>7, <1>8
  <2>3. \A i \in 1..m : got[i] = all[i]
    BY <1>9
  <2>4. Enumerates(all, Tuples(rows), T, h)
    BY <1>7
  <2>5. QED
    BY <2>1, <2>2, <2>3, <2>4, PrefixCount, Zenon
<1>15. Len(got) = Quota(Cardinality(Matching(p)), n)
  BY <1>9, <1>10 DEF m, T
<1>16. ASSUME NEW t \in ToSet(got)
       PROVE  t \in DOMAIN MatchingRows(p)
  <2>1. PICK i \in 1..m : t = Tuple(rs[i])
    BY <1>9 DEF ToSet
  <2>2. i \in 1..Len(rs)
    BY <1>8
  <2>3. h[i] \in T /\ rs[i] = rows[h[i]]
    BY <1>5, <2>2 DEF Enumerates
  <2>4. QED
    BY <1>12, <2>1, <2>3
<1>17. ASSUME NEW i \in 1..(Len(got) - 1)
       PROVE  ~Earlier(got[i + 1], got[i], k, ascending)
  <2>1. i \in 1..m /\ i + 1 \in 1..m /\ i \in 1..Len(rs) /\ i + 1 \in 1..Len(rs) /\ i < i + 1
    BY <1>8, <1>9
  <2>2. got[i] = Tuple(rs[i]) /\ got[i + 1] = Tuple(rs[i + 1])
    BY <1>9, <2>1
  <2>3. ~Before(rs[i + 1], rs[i], Schema[k], ascending)
    BY <1>5, <2>1
  <2>4. QED
    BY <2>2, <2>3, OrderOfTuples
<1>18. ASSUME NEW t \in DOMAIN MatchingRows(p), NEW i \in DOMAIN got,
              Cardinality({j \in DOMAIN got : got[j] = t}) < MatchingRows(p)[t]
       PROVE  ~Earlier(t, got[i], k, ascending)
  <2>1. Cardinality(Places(got, 1..m, t)) < Cardinality(Places(Tuples(rows), T, t))
    BY <1>11, <1>13, <1>18
  <2>2. PICK j \in (m + 1)..Len(rs) : all[j] = t
    BY <1>7, <1>14, <2>1 DEF Precedes
  <2>3. i \in 1..m /\ i \in 1..Len(rs) /\ j \in 1..Len(rs) /\ i < j
    BY <1>8, <1>9
  <2>4. t = Tuple(rs[j]) /\ got[i] = Tuple(rs[i])
    BY <1>7, <1>9, <2>2, <2>3
  <2>5. ~Before(rs[j], rs[i], Schema[k], ascending)
    BY <1>5, <2>3
  <2>6. QED
    BY <2>4, <2>5, OrderOfTuples
<1>19. \A t \in ToSet(got) : Cardinality({i \in DOMAIN got : got[i] = t}) <= MatchingRows(p)[t]
  BY <1>11, <1>13, <1>14, <1>16 DEF Precedes
<1>20. QED
  BY <1>15, <1>16, <1>17, <1>18, <1>19 DEF IsTop, got

(* A SELECT with ORDER BY and LIMIT returns the first rows of the matching *)
(* ones, sorted, and as many as the limit leaves.  (executeSelect)         *)
THEOREM TopRowsAreFirst == Spec => []TopRows
<1>1. TableInv => TopRows
  BY OrderedIsTop DEF TopRows, Ordered, IsTop, Quota, Earlier
<1>2. QED
  BY <1>1, InvHolds, PTL

-----------------------------------------------------------------------------
(* Joins.                                                                  *)

\* Where f puts the places in U of a sequence.
IsImage(W, f, U, p) == W = {f[k] : k \in U} /\ \A k \in U : k \in 1..Len(p)

\* An enumeration of some places of an enumeration.
LEMMA Composed ==
  ASSUME NEW p, NEW s, NEW T, NEW f, Enumerates(p, s, T, f),
         NEW r, NEW U, NEW g, Enumerates(r, p, U, g), NEW W, IsImage(W, f, U, p)
  PROVE  \E h : Enumerates(r, s, W, h)
<1> DEFINE D == 1..Len(r)
           P == 1..Len(p)
           h == [i \in D |-> f[g[i]]]
<1>1. /\ g \in [D -> U] /\ \A i, j \in D : g[i] = g[j] => i = j
      /\ \A k \in U : \E i \in D : g[i] = k
      /\ \A i \in D : r[i] = p[g[i]]
  BY Zenon DEF Enumerates
<1>2. /\ \A i, j \in P : f[i] = f[j] => i = j
      /\ \A i \in P : p[i] = s[f[i]]
  BY Zenon DEF Enumerates
<1>3. W = {f[k] : k \in U} /\ \A k \in U : k \in P
  BY DEF IsImage
<1> HIDE DEF D, P
<1>4. h \in [D -> W]
  BY <1>1, <1>3
<1>5. \A i, j \in D : h[i] = h[j] => i = j
  BY <1>1, <1>2, <1>3
<1>6. \A x \in W : \E i \in D : h[i] = x
  <2>1. ASSUME NEW k \in U PROVE \E i \in D : h[i] = f[k]
    <3>1. PICK i \in D : g[i] = k
      BY <1>1
    <3>2. h[i] = f[k]
      BY <3>1
    <3> HIDE DEF h
    <3>3. QED
      BY <3>2
  <2>2. QED
    BY <1>3, <2>1
<1>7. \A i \in D : r[i] = s[h[i]]
  BY <1>1, <1>2, <1>3
<1> HIDE DEF h
<1>8. Enumerates(r, s, W, h)
  BY <1>4, <1>5, <1>6, <1>7, Zenon DEF Enumerates, D
<1>9. QED
  BY <1>8

\* Element by element, a is what s has at the places in b.
Follows(a, b, s) == Len(a) = Len(b) /\ \A j \in 1..Len(b) : a[j] = s[b[j]]

LEMMA ConcatFollows ==
  ASSUME NEW V, NEW X, NEW s, NEW a \in Seq(V), NEW b \in Seq(X), NEW c \in Seq(V), NEW d \in Seq(X),
         Follows(a, b, s), Follows(c, d, s)
  PROVE  a \o c \in Seq(V) /\ b \o d \in Seq(X) /\ Follows(a \o c, b \o d, s)
<1> DEFINE ac == a \o c
           bd == b \o d
           m == Len(a)
           n == Len(c)
<1>1. m \in Nat /\ n \in Nat /\ Len(b) = m /\ Len(d) = n
  BY DEF Follows
<1>2. /\ ac \in Seq(V) /\ Len(ac) = m + n
      /\ \A i \in 1..(m + n) : ac[i] = IF i <= m THEN a[i] ELSE c[i - m]
  BY ConcatProperties, Zenon
<1>3. /\ bd \in Seq(X) /\ Len(bd) = m + n
      /\ \A i \in 1..(m + n) : bd[i] = IF i <= m THEN b[i] ELSE d[i - m]
  <2>1. /\ bd \in Seq(X) /\ Len(bd) = Len(b) + Len(d)
        /\ \A i \in 1..(Len(b) + Len(d)) : bd[i] = IF i <= Len(b) THEN b[i] ELSE d[i - Len(b)]
    BY ConcatProperties, Zenon
  <2>2. QED
    BY <1>1, <2>1, Zenon
<1>4. /\ \A j \in 1..m : a[j] = s[b[j]]
      /\ \A j \in 1..n : c[j] = s[d[j]]
  BY <1>1, Zenon DEF Follows
<1> HIDE DEF ac, bd, m, n
<1>5. ASSUME NEW i \in 1..(m + n) PROVE ac[i] = s[bd[i]]
  <2>1. CASE i <= m
    BY <1>1, <1>2, <1>3, <1>4, <2>1
  <2>2. CASE ~(i <= m)
    <3>1. i - m \in 1..n
      BY <1>1, <2>2
    <3>2. QED
      BY <1>2, <1>3, <1>4, <2>2, <3>1
  <2>3. QED
    BY <2>1, <2>2
<1>6. Follows(ac, bd, s)
  BY <1>2, <1>3, <1>5 DEF Follows
<1>7. QED
  BY <1>2, <1>3, <1>6 DEF ac, bd

LEMMA FlattenFollows ==
  ASSUME NEW V, NEW X, NEW s, NEW seqs \in Seq(Seq(V)), NEW fs \in Seq(Seq(X)),
         Len(fs) = Len(seqs), \A i \in 1..Len(seqs) : Follows(seqs[i], fs[i], s)
  PROVE  /\ FlattenSeq(seqs) \in Seq(V) /\ FlattenSeq(fs) \in Seq(X)
         /\ Follows(FlattenSeq(seqs), FlattenSeq(fs), s)
<1> DEFINE n == Len(seqs)
<1>0. n \in Nat
  OBVIOUS
<1>1. CASE n = 0
  <2>1. FlattenSeq(seqs) = seqs /\ FlattenSeq(fs) = fs
    BY <1>1 DEF FlattenSeq
  <2>2. seqs = << >> /\ fs = << >>
    BY <1>1
  <2>3. << >> \in Seq(V) /\ << >> \in Seq(X) /\ Follows(<< >>, << >>, s)
    BY DEF Follows
  <2>4. QED
    BY <2>1, <2>2, <2>3
<1>2. CASE n # 0
  <2>0. Len(seqs) \in Nat \ {0} /\ Len(fs) \in Nat \ {0}
    BY <1>2
  <2>1. PICK g : /\ FlattenSeq(seqs) = g[Len(seqs)] /\ g[1] = seqs[1]
                 /\ \A i \in 1..(Len(seqs) - 1) : g[i + 1] = g[i] \o seqs[i + 1]
    BY <2>0, Flattened
  <2>2. PICK h : /\ FlattenSeq(fs) = h[Len(fs)] /\ h[1] = fs[1]
                 /\ \A i \in 1..(Len(fs) - 1) : h[i + 1] = h[i] \o fs[i + 1]
    BY <2>0, Flattened
  <2> DEFINE Good(i) == g[i] \in Seq(V) /\ h[i] \in Seq(X) /\ Follows(g[i], h[i], s)
             S == {m \in Nat : m + 1 <= n => Good(m + 1)}
  <2>3. \A i \in 1..n : seqs[i] \in Seq(V) /\ fs[i] \in Seq(X) /\ Follows(seqs[i], fs[i], s)
    OBVIOUS
  <2> HIDE DEF Good
  <2>4. 0 \in S
    <3>1. 1 \in 1..n
      BY <1>0, <1>2
    <3>2. Good(1)
      BY <2>1, <2>2, <2>3, <3>1 DEF Good
    <3>3. QED
      BY <3>2
  <2>5. ASSUME NEW m \in Nat, m \in S
        PROVE  m + 1 \in S
    <3>1. SUFFICES ASSUME (m + 1) + 1 <= n PROVE Good((m + 1) + 1)
      OBVIOUS
    <3> DEFINE i == m + 1
    <3>2. i \in 1..(n - 1) /\ i + 1 \in 1..n /\ i <= n
      BY <1>0, <3>1
    <3>3. Good(i)
      BY <2>5, <3>2
    <3> HIDE DEF i, n
    <3>4. g[i + 1] = g[i] \o seqs[i + 1] /\ h[i + 1] = h[i] \o fs[i + 1]
      BY <2>1, <2>2, <3>2 DEF n
    <3>5. Good(i + 1)
      BY <2>3, <3>2, <3>3, <3>4, ConcatFollows DEF Good
    <3>6. QED
      BY <3>5 DEF i
  <2>6. \A m \in Nat : m \in S
    <3> HIDE DEF S
    <3>1. QED
      BY <2>4, <2>5, SetInduction
  <2>7. Good(n)
    <3>1. n - 1 \in Nat /\ (n - 1) + 1 = n /\ n <= n
      BY <1>0, <1>2
    <3>2. n - 1 \in S
      BY <2>6, <3>1
    <3>3. QED
      BY <3>1, <3>2
  <2>8. QED
    BY <2>1, <2>2, <2>7 DEF Good
<1>3. QED
  BY <1>1, <1>2

\* The elements of T, each in one of the sequences, once.
Divides(fs, X, T) ==
  /\ \A i \in 1..Len(fs) : IsInjective(fs[i])
  /\ \A i, j \in 1..Len(fs) : \A x \in X : x \in ToSet(fs[i]) /\ x \in ToSet(fs[j]) => i = j
  /\ \A x : x \in T <=> x \in X /\ \E i \in 1..Len(fs) : x \in ToSet(fs[i])
AllFollow(seqs, fs, s) ==
  Len(fs) = Len(seqs) /\ \A i \in 1..Len(seqs) : Follows(seqs[i], fs[i], s)

\* Enumerations of sets that have nothing in common, one after the other.
LEMMA FlattenEnumerates ==
  ASSUME NEW V, NEW X, NEW s, NEW seqs \in Seq(Seq(V)), NEW fs \in Seq(Seq(X)),
         AllFollow(seqs, fs, s), NEW T, Divides(fs, X, T)
  PROVE  FlattenSeq(seqs) \in Seq(V) /\ \E h : Enumerates(FlattenSeq(seqs), s, T, h)
<1>0. /\ \A i \in 1..Len(fs) : IsInjective(fs[i])
      /\ \A i, j \in 1..Len(fs) : \A x \in X : x \in ToSet(fs[i]) /\ x \in ToSet(fs[j]) => i = j
      /\ \A x : x \in T <=> x \in X /\ \E i \in 1..Len(fs) : x \in ToSet(fs[i])
  BY Zenon DEF Divides
<1> DEFINE p == FlattenSeq(seqs)
           h == FlattenSeq(fs)
<1>1. p \in Seq(V) /\ h \in Seq(X) /\ Follows(p, h, s)
  BY FlattenFollows DEF AllFollow
<1>2. /\ IsInjective(h)
      /\ \A x \in X : x \in ToSet(h) <=> \E i \in 1..Len(fs) : x \in ToSet(fs[i])
  BY <1>0, FlattenMembers
<1> HIDE DEF p, h
<1>3. Len(p) = Len(h) /\ DOMAIN h = 1..Len(p) /\ Len(p) \in Nat
  BY <1>1 DEF Follows
<1>4. ASSUME NEW x PROVE x \in T <=> \E i \in 1..Len(p) : h[i] = x
  <2>1. \A i \in 1..Len(p) : h[i] \in X
    BY <1>1, <1>3
  <2>2. x \in ToSet(h) <=> \E i \in 1..Len(p) : h[i] = x
    BY <1>3 DEF ToSet
  <2>3. QED
    BY <1>0, <1>2, <2>1, <2>2
<1>5. h \in [1..Len(p) -> T]
  <2>1. \A i \in 1..Len(p) : h[i] \in T
    BY <1>4
  <2>2. h = [i \in 1..Len(p) |-> h[i]]
    BY <1>1, <1>3
  <2>3. QED
    BY <2>1, <2>2
<1>6. \A i, j \in 1..Len(p) : h[i] = h[j] => i = j
  BY <1>2, <1>3 DEF IsInjective
<1>7. \A i \in 1..Len(p) : p[i] = s[h[i]]
  BY <1>1, <1>3 DEF Follows
<1>8. Enumerates(p, s, T, h)
  BY <1>4, <1>5, <1>6, <1>7, Zenon DEF Enumerates
<1>9. QED
  BY <1>1, <1>8 DEF p

\* What the properties need of the joined table: a schema and rows.
IsOther(other) ==
  /\ other.schema \in Seq(ToSet(other.schema))
  /\ \E V : other.rows \in Seq(V)

LEMMA OthersAre ==
  ASSUME TableInv, NEW other \in Others
  PROVE  IsOther(other)
<1>1. CASE \E rs \in OtherTables : other = [name |-> OtherName, schema |-> OtherSchema, rows |-> rs]
  <2>1. PICK rs \in OtherTables : other = [name |-> OtherName, schema |-> OtherSchema, rows |-> rs]
    BY <1>1
  <2>2. other.schema = OtherSchema /\ other.rows = rs
    BY <2>1
  <2>3. OtherSchema \in Seq(ToSet(OtherSchema)) /\ rs \in Seq([ToSet(OtherSchema) -> AnyValue])
    BY OtherAssumption
  <2>4. QED
    BY <2>2, <2>3, Zenon DEF IsOther
<1>2. CASE other = [name |-> Name, schema |-> Schema, rows |-> rows]
  <2>1. other.schema = Schema /\ other.rows = rows
    BY <1>2
  <2>2. Schema \in Seq(ToSet(Schema)) /\ rows \in Seq(Row)
    BY SchemaOrderAssumption DEF TableInv, RowsInv
  <2>3. QED
    BY <2>1, <2>2, Zenon DEF IsOther
<1>3. QED
  BY <1>1, <1>2 DEF Others

\* The right rows under a key.
Found(other, r, v) ==
  IF v \in DOMAIN rightRowsByKey(other.rows, r) THEN rightRowsByKey(other.rows, r)[v] ELSE << >>
KeyPlaces(other, r, v) == {k \in DOMAIN other.rows : other.rows[k][r] = v}

LEMMA FoundEnumerates ==
  ASSUME NEW other, NEW V, other.rows \in Seq(V), NEW r, NEW v
  PROVE  /\ Found(other, r, v) \in Seq(V)
         /\ \E f : Enumerates(Found(other, r, v), other.rows, KeyPlaces(other, r, v), f)
<1> DEFINE rs == other.rows
           K == {k \in DOMAIN rs : rs[k][r] = v}
<1>1. CASE v \in {rs[i][r] : i \in DOMAIN rs}
  <2>1. Found(other, r, v) = Picked(rs, K)
    BY <1>1 DEF Found, rightRowsByKey
  <2>2. \A k \in K : k \in 1..Len(rs)
    OBVIOUS
  <2> HIDE DEF K, rs
  <2>3. rs \in Seq(V)
    BY DEF rs
  <2>4. Picked(rs, K) \in Seq(V) /\ \E f : Enumerates(Picked(rs, K), rs, K, f)
    BY <2>2, <2>3, PickedEnumerates
  <2>5. K = KeyPlaces(other, r, v)
    BY DEF K, rs, KeyPlaces
  <2>6. QED
    BY <2>1, <2>4, <2>5 DEF rs
<1>2. CASE v \notin {rs[i][r] : i \in DOMAIN rs}
  <2>1. Found(other, r, v) = << >>
    BY <1>2 DEF Found, rightRowsByKey
  <2>2. KeyPlaces(other, r, v) = {}
    BY <1>2 DEF KeyPlaces
  <2>3. << >> \in Seq(V) /\ Enumerates(<< >>, rs, {}, << >>)
    BY DEF Enumerates
  <2>4. QED
    BY <2>1, <2>2, <2>3
<1>3. QED
  BY <1>1, <1>2

AnyJoined(other) ==
  {Joined(rows[x[1]], other.rows[x[2]], other) : x \in (DOMAIN rows) \X (DOMAIN other.rows)}

LEMMA PairsEnumerate ==
  ASSUME rows \in Seq(Row), NEW other, IsOther(other), NEW l, NEW r, NEW T,
         T = {x \in (DOMAIN rows) \X (DOMAIN other.rows) : rows[x[1]][l] = other.rows[x[2]][r]}
  PROVE  /\ joinedPairs(rows, other, l, r) \in Seq(AnyJoined(other))
         /\ \E h : Enumerates(joinedPairs(rows, other, l, r), JoinedAt(other), T, h)
<1> DEFINE X == (DOMAIN rows) \X (DOMAIN other.rows)
           J == JoinedAt(other)
           A == AnyJoined(other)
           found(i) == Found(other, r, rows[i][l])
           K(i) == KeyPlaces(other, r, rows[i][l])
           F(i) == CHOOSE f : Enumerates(found(i), other.rows, K(i), f)
           seqs == [i \in DOMAIN rows |-> [j \in DOMAIN found(i) |-> Joined(rows[i], found(i)[j], other)]]
           fs == [i \in DOMAIN rows |-> [j \in DOMAIN found(i) |-> <<i, F(i)[j]>>]]
<1>1. joinedPairs(rows, other, l, r) = FlattenSeq(seqs)
  BY DEF joinedPairs, Found
<1>2. PICK V : other.rows \in Seq(V)
  BY DEF IsOther
<1>3. DOMAIN rows = 1..Len(rows) /\ Len(rows) \in Nat
  OBVIOUS
<1>4. ASSUME NEW i \in DOMAIN rows
      PROVE  /\ found(i) \in Seq(V) /\ Len(found(i)) \in Nat /\ DOMAIN found(i) = 1..Len(found(i))
             /\ F(i) \in [1..Len(found(i)) -> K(i)]
             /\ \A j, k \in 1..Len(found(i)) : F(i)[j] = F(i)[k] => j = k
             /\ \A k \in K(i) : \E j \in 1..Len(found(i)) : F(i)[j] = k
             /\ \A j \in 1..Len(found(i)) : found(i)[j] = other.rows[F(i)[j]]
  <2>1. found(i) \in Seq(V) /\ \E f : Enumerates(found(i), other.rows, K(i), f)
    BY <1>2, FoundEnumerates, Zenon
  <2>2. Enumerates(found(i), other.rows, K(i), F(i))
    BY <2>1, Zenon
  <2> HIDE DEF found, F, K
  <2>3. Len(found(i)) \in Nat /\ DOMAIN found(i) = 1..Len(found(i))
    BY <2>1
  <2>4. QED
    BY <2>1, <2>2, <2>3, Zenon DEF Enumerates
<1>5. \A i \in DOMAIN rows : \A k \in K(i) : <<i, k>> \in X /\ other.rows[k][r] = rows[i][l]
  BY DEF KeyPlaces
<1>6. \A i \in DOMAIN rows, k \in DOMAIN other.rows :
        other.rows[k][r] = rows[i][l] => k \in K(i)
  BY DEF KeyPlaces
<1>7. \A i \in DOMAIN rows, k \in DOMAIN other.rows :
        J[<<i, k>>] = Joined(rows[i], other.rows[k], other) /\ J[<<i, k>>] \in A
  BY DEF JoinedAt, AnyJoined
<1>8. \A i \in DOMAIN rows : \A k \in K(i) : k \in DOMAIN other.rows
  BY DEF KeyPlaces
<1> HIDE DEF found, K, F, J, A
<1>9. /\ seqs \in Seq(Seq(A)) /\ Len(seqs) = Len(rows)
  <2>1. ASSUME NEW i \in DOMAIN rows
        PROVE  [j \in DOMAIN found(i) |-> Joined(rows[i], found(i)[j], other)] \in Seq(A)
    <3>1. ASSUME NEW j \in 1..Len(found(i)) PROVE Joined(rows[i], found(i)[j], other) \in A
      <4>1. F(i)[j] \in K(i) /\ found(i)[j] = other.rows[F(i)[j]]
        BY <1>4
      <4>2. QED
        BY <1>7, <1>8, <4>1
    <3>2. DOMAIN found(i) = 1..Len(found(i)) /\ Len(found(i)) \in Nat
      BY <1>4
    <3>3. QED
      BY <3>1, <3>2
  <2>2. QED
    BY <1>3, <2>1
<1>10. fs \in Seq(Seq(X)) /\ Len(fs) = Len(rows)
  <2>1. ASSUME NEW i \in DOMAIN rows
        PROVE  [j \in DOMAIN found(i) |-> <<i, F(i)[j]>>] \in Seq(X)
    <3>1. ASSUME NEW j \in 1..Len(found(i)) PROVE <<i, F(i)[j]>> \in X
      <4>1. F(i)[j] \in K(i)
        BY <1>4
      <4> HIDE DEF X
      <4>2. QED
        BY <1>5, <4>1, Zenon
    <3>2. DOMAIN found(i) = 1..Len(found(i)) /\ Len(found(i)) \in Nat
      BY <1>4
    <3> HIDE DEF X
    <3>3. QED
      BY <3>1, <3>2
  <2> HIDE DEF X
  <2>2. QED
    BY <1>3, <2>1
<1>11. ASSUME NEW i \in 1..Len(rows)
       PROVE  /\ Len(seqs[i]) = Len(found(i)) /\ Len(fs[i]) = Len(found(i))
              /\ Len(found(i)) \in Nat /\ DOMAIN fs[i] = 1..Len(found(i))
              /\ \A j \in 1..Len(found(i)) : /\ fs[i][j] = <<i, F(i)[j]>>
                                             /\ seqs[i][j] = Joined(rows[i], found(i)[j], other)
  <2>1. /\ seqs[i] = [j \in 1..Len(found(i)) |-> Joined(rows[i], found(i)[j], other)]
        /\ fs[i] = [j \in 1..Len(found(i)) |-> <<i, F(i)[j]>>]
        /\ Len(found(i)) \in Nat
    BY <1>3, <1>4
  <2>2. QED
    BY <2>1
<1> HIDE DEF seqs, fs
<1>12. ASSUME NEW i \in 1..Len(seqs) PROVE Follows(seqs[i], fs[i], J)
  <2>1. i \in 1..Len(rows) /\ i \in DOMAIN rows
    BY <1>3, <1>9
  <2>2. ASSUME NEW j \in 1..Len(found(i)) PROVE seqs[i][j] = J[fs[i][j]]
    <3>1. /\ fs[i][j] = <<i, F(i)[j]>> /\ seqs[i][j] = Joined(rows[i], found(i)[j], other)
          /\ found(i)[j] = other.rows[F(i)[j]] /\ F(i)[j] \in DOMAIN other.rows
      BY <1>4, <1>8, <1>11, <2>1
    <3>2. QED
      BY <1>7, <2>1, <3>1
  <2>3. QED
    BY <1>11, <2>1, <2>2 DEF Follows
<1>13. ASSUME NEW i \in 1..Len(fs) PROVE IsInjective(fs[i])
  <2>1. i \in 1..Len(rows) /\ i \in DOMAIN rows
    BY <1>3, <1>10
  <2>2. ASSUME NEW j \in 1..Len(found(i)), NEW k \in 1..Len(found(i)), fs[i][j] = fs[i][k]
        PROVE  j = k
    <3>1. <<i, F(i)[j]>> = <<i, F(i)[k]>>
      BY <1>11, <2>1, <2>2
    <3>2. F(i)[j] = F(i)[k]
      BY <3>1
    <3>3. QED
      BY <1>4, <2>1, <3>2
  <2>3. QED
    BY <1>11, <2>1, <2>2 DEF IsInjective
<1>14. ASSUME NEW x, NEW i \in 1..Len(fs)
       PROVE  x \in ToSet(fs[i]) <=> \E k \in K(i) : x = <<i, k>>
  <2>1. i \in 1..Len(rows) /\ i \in DOMAIN rows
    BY <1>3, <1>10
  <2>2. x \in ToSet(fs[i]) <=> \E j \in 1..Len(found(i)) : x = <<i, F(i)[j]>>
    BY <1>11, <2>1 DEF ToSet
  <2>3. \A j \in 1..Len(found(i)) : F(i)[j] \in K(i)
    BY <1>4, <2>1
  <2>4. \A k \in K(i) : \E j \in 1..Len(found(i)) : F(i)[j] = k
    BY <1>4, <2>1
  <2>5. QED
    BY <2>2, <2>3, <2>4
<1>15. \A i, j \in 1..Len(fs) : \A x \in X :
         x \in ToSet(fs[i]) /\ x \in ToSet(fs[j]) => i = j
  BY <1>14
<1>16. ASSUME NEW x
       PROVE  x \in T <=> x \in X /\ \E i \in 1..Len(fs) : x \in ToSet(fs[i])
  <2>1. ASSUME x \in T PROVE x \in X /\ \E i \in 1..Len(fs) : x \in ToSet(fs[i])
    <3>1. x \in X /\ rows[x[1]][l] = other.rows[x[2]][r]
      BY <2>1
    <3>2. x[1] \in DOMAIN rows /\ x[2] \in DOMAIN other.rows /\ x = <<x[1], x[2]>>
      BY <3>1
    <3>3. x[2] \in K(x[1]) /\ x[1] \in 1..Len(fs)
      BY <1>3, <1>6, <1>10, <3>1, <3>2
    <3>4. x \in ToSet(fs[x[1]])
      BY <1>14, <3>2, <3>3
    <3>5. QED
      BY <3>1, <3>3, <3>4
  <2>2. ASSUME NEW i \in 1..Len(fs), x \in ToSet(fs[i]) PROVE x \in T
    <3>1. PICK k \in K(i) : x = <<i, k>>
      BY <1>14, <2>2
    <3>2. i \in DOMAIN rows
      BY <1>3, <1>10
    <3>3. x \in X /\ other.rows[k][r] = rows[i][l] /\ x[1] = i /\ x[2] = k
      BY <1>5, <3>1, <3>2
    <3>4. QED
      BY <3>3
  <2>3. QED
    BY <2>1, <2>2
<1> HIDE DEF X
<1>17. Divides(fs, X, T)
  BY <1>13, <1>15, <1>16, Zenon DEF Divides
<1>18. AllFollow(seqs, fs, J)
  BY <1>9, <1>10, <1>12 DEF AllFollow
<1>19. FlattenSeq(seqs) \in Seq(A) /\ \E h : Enumerates(FlattenSeq(seqs), J, T, h)
  BY <1>9, <1>10, <1>17, <1>18, FlattenEnumerates, Zenon
<1>20. QED
  BY <1>1, <1>19 DEF J, A

LEMMA TupleSeq ==
  ASSUME NEW V, NEW n \in Nat, NEW f \in [1..n -> V]
  PROVE  f \in Seq(V) /\ Len(f) = n
<1>1. f = [i \in 1..n |-> f[i]] /\ \A i \in 1..n : f[i] \in V
  OBVIOUS
<1>2. f \in Seq(V)
  BY <1>1
<1>3. DOMAIN f = 1..n
  BY <1>1
<1>4. QED
  BY <1>2, <1>3, LenProperties

\* As many values as there are columns.
LEMMA JoinedColumns ==
  ASSUME NEW other, IsOther(other)
  PROVE  /\ Len(Schema) \in Nat /\ DOMAIN Schema = 1..Len(Schema)
         /\ Len(other.schema) \in Nat /\ DOMAIN other.schema = 1..Len(other.schema)
         /\ DOMAIN joinedColumns(other) = 1..(Len(Schema) + Len(other.schema))
         /\ Len(joinedColumns(other)) = Len(Schema) + Len(other.schema)
         /\ \A i \in 1..Len(Schema) : joinedColumns(other)[i] = <<Name, Schema[i]>>
         /\ \A i \in 1..Len(other.schema) :
              joinedColumns(other)[Len(Schema) + i] = <<other.name, other.schema[i]>>
<1> DEFINE m == Len(Schema)
           n == Len(other.schema)
           a == [i \in DOMAIN Schema |-> <<Name, Schema[i]>>]
           b == [i \in DOMAIN other.schema |-> <<other.name, other.schema[i]>>]
           V == {a[i] : i \in DOMAIN Schema} \cup {b[i] : i \in DOMAIN other.schema}
<1>1. m \in Nat /\ DOMAIN Schema = 1..m
  BY SchemaOrderAssumption
<1>2. n \in Nat /\ DOMAIN other.schema = 1..n
  BY DEF IsOther
<1>3. joinedColumns(other) = a \o b
  BY DEF joinedColumns
<1>4. /\ DOMAIN a = 1..m /\ \A i \in 1..m : a[i] \in V
      /\ DOMAIN b = 1..n /\ \A i \in 1..n : b[i] \in V
      /\ a \in [1..m -> V] /\ b \in [1..n -> V]
  BY <1>1, <1>2
<1>5. /\ \A i \in 1..m : a[i] = <<Name, Schema[i]>>
      /\ \A i \in 1..n : b[i] = <<other.name, other.schema[i]>>
  BY <1>1, <1>2
<1> HIDE DEF a, b, V, m, n
<1>6. a \in Seq(V) /\ Len(a) = m /\ b \in Seq(V) /\ Len(b) = n
  BY <1>1, <1>2, <1>4, TupleSeq, Zenon
<1>7. /\ a \o b \in Seq(V) /\ Len(a \o b) = m + n
      /\ \A i \in 1..(m + n) : (a \o b)[i] = IF i <= m THEN a[i] ELSE b[i - m]
  <2>1. /\ a \o b \in Seq(V) /\ Len(a \o b) = Len(a) + Len(b)
        /\ \A i \in 1..(Len(a) + Len(b)) : (a \o b)[i] = IF i <= Len(a) THEN a[i] ELSE b[i - Len(a)]
    BY <1>6, ConcatProperties, Zenon
  <2>2. QED
    BY <1>6, <2>1, Zenon
<1>8. DOMAIN (a \o b) = 1..(m + n)
  BY <1>7
<1>9. ASSUME NEW i \in 1..m PROVE (a \o b)[i] = <<Name, Schema[i]>>
  <2>1. i \in 1..(m + n) /\ i <= m
    BY <1>1, <1>2
  <2>2. QED
    BY <1>5, <1>7, <2>1, Zenon
<1>10. ASSUME NEW i \in 1..n PROVE (a \o b)[m + i] = <<other.name, other.schema[i]>>
  <2>1. m + i \in 1..(m + n) /\ ~(m + i <= m) /\ (m + i) - m = i
    BY <1>1, <1>2
  <2>2. QED
    BY <1>5, <1>7, <2>1, Zenon
<1>11. QED
  BY <1>1, <1>2, <1>3, <1>7, <1>8, <1>9, <1>10 DEF m, n

LEMMA JoinedRow ==
  ASSUME NEW other, IsOther(other), NEW t \in AnyJoined(other)
  PROVE  t = [j \in 1..(Len(Schema) + Len(other.schema)) |-> t[j]]
<1> DEFINE m == Len(Schema)
           n == Len(other.schema)
<1>1. m \in Nat /\ DOMAIN Schema = 1..m /\ n \in Nat /\ DOMAIN other.schema = 1..n
  BY JoinedColumns
<1>2. PICK l, r : t = Joined(l, r, other)
  BY DEF AnyJoined
<1> DEFINE a == [i \in DOMAIN Schema |-> l[Schema[i]]]
           b == [i \in DOMAIN other.schema |-> r[other.schema[i]]]
           V == {a[i] : i \in DOMAIN Schema} \cup {b[i] : i \in DOMAIN other.schema}
<1>3. t = a \o b
  BY <1>2 DEF Joined
<1>4. /\ DOMAIN a = 1..m /\ \A i \in 1..m : a[i] \in V
      /\ DOMAIN b = 1..n /\ \A i \in 1..n : b[i] \in V
      /\ a \in [1..m -> V] /\ b \in [1..n -> V]
  BY <1>1
<1> HIDE DEF a, b, V, m, n
<1>5. a \in Seq(V) /\ Len(a) = m /\ b \in Seq(V) /\ Len(b) = n
  BY <1>1, <1>4, TupleSeq, Zenon
<1>6. t \in Seq(V) /\ Len(t) = m + n
  <2>1. a \o b \in Seq(V) /\ Len(a \o b) = Len(a) + Len(b)
    BY <1>5, ConcatProperties, Zenon
  <2>2. QED
    BY <1>3, <1>5, <2>1, Zenon
<1>7. QED
  BY <1>6 DEF m, n

\* The query of JoinExact.
JoinAll(columns, on, p) ==
  [columns |-> columns, on |-> on, where |-> p, orderBy |-> None, limit |-> None]

\* The pairs that are read, and whether the join gets as far as the result.
ReadPairs(on, other) ==
  joinedPairs(rows, other, resolveTableColumn(Schema, Name, on[1]),
              resolveTableColumn(other.schema, other.name, on[2]))
Known(on, other) ==
  /\ resolveTableColumn(Schema, Name, on[1]) # None
  /\ resolveTableColumn(other.schema, other.name, on[2]) # None
Says(on, p, other, truth) ==
  {i \in DOMAIN ReadPairs(on, other) :
     matchesJoinedPredicate(p, joinedColumns(other), ReadPairs(on, other)[i]) = truth}

\* The answer, from the pairs read; and from the pairs there are.
IsRead(result, on, p, other) ==
  IF Known(on, other) /\ Says(on, p, other, "throws") = {}
  THEN result.ok /\ result.rows = Picked(ReadPairs(on, other), Says(on, p, other, "true"))
  ELSE result = Throws
IsProduct(result, on, p, other) ==
  IF Known(on, other) /\ PairsWhere(on, p, other, "throws") = {}
  THEN result.ok /\ ToBag(result.rows) = Product(on, p, other)
  ELSE result = Throws

LEMMA JoinStar ==
  ASSUME TableInv, NEW other, IsOther(other), NEW on, NEW p,
         NEW result \in executeJoinSelect(JoinAll(<<"*">>, on, p), other, FALSE),
         ReadPairs(on, other) \in Seq(AnyJoined(other))
  PROVE  IsRead(result, on, p, other)
<1> DEFINE q == JoinAll(<<"*">>, on, p)
           columns == joinedColumns(other)
           pairs == ReadPairs(on, other)
           P == [i \in DOMAIN columns |-> i]
           jr == Picked(pairs, Says(on, p, other, "true"))
<1>1. /\ q.columns = <<"*">> /\ q.on = on /\ q.where = p /\ q.orderBy = None /\ q.limit = None
  BY DEF JoinAll
<1>2. rowsSnapshotForRead(FALSE) = rows
  BY DEF rowsSnapshotForRead
<1>3. /\ DOMAIN P = 1..(Len(Schema) + Len(other.schema))
      /\ \A i \in DOMAIN P : P[i] = i /\ P[i] # 0
  BY JoinedColumns
<1> HIDE DEF q
<1>4. result \in executeJoinSelect(q, other, FALSE)
  BY DEF q
<1>5. CASE ~(Known(on, other) /\ Says(on, p, other, "throws") = {})
  <2>1. executeJoinSelect(q, other, FALSE) = {Throws}
    BY <1>1, <1>2, <1>5 DEF executeJoinSelect, Known, Says, ReadPairs
  <2>2. QED
    BY <1>4, <1>5, <2>1 DEF IsRead
<1>6. CASE Known(on, other) /\ Says(on, p, other, "throws") = {}
  <2> DEFINE cols == [j \in DOMAIN P |-> columns[P[j]]]
             out == [i \in DOMAIN jr |-> [j \in DOMAIN P |-> jr[i][P[j]]]]
  <2>1. Limited(jr, None) = jr
    BY DEF Limited
  <2>2. result = Rows(cols, out)
    <3> DEFINE l == resolveTableColumn(Schema, Name, q.on[1])
               r == resolveTableColumn(other.schema, other.name, q.on[2])
               P0 == IF q.columns = <<"*">> THEN [i \in DOMAIN columns |-> i]
                     ELSE [i \in DOMAIN q.columns |-> resolveResultColumn(columns, q.columns[i])]
               R0 == joinedPairs(rowsSnapshotForRead(FALSE), other, l, r)
               J0 == Picked(R0, {i \in DOMAIN R0 : matchesJoinedPredicate(q.where, columns, R0[i]) = "true"})
               kept(rs) == Limited(rs, q.limit)
               Row0(rs) == Rows([j \in DOMAIN P0 |-> columns[P0[j]]],
                                [i \in DOMAIN kept(rs) |-> [j \in DOMAIN P0 |-> kept(rs)[i][P0[j]]]])
    <3>1. /\ l # None /\ r # None /\ R0 = pairs
      BY <1>1, <1>2, <1>6, Zenon DEF Known, ReadPairs
    <3>2. P0 = P
      BY <1>1, Zenon
    <3>3. ~\E i \in DOMAIN P0 : P0[i] = 0
      BY <1>3, <3>2
    <3>4. ~\E i \in DOMAIN R0 : matchesJoinedPredicate(q.where, columns, R0[i]) = "throws"
      <4> HIDE DEF R0, columns, pairs
      <4>1. {i \in DOMAIN pairs : matchesJoinedPredicate(p, columns, pairs[i]) = "throws"} = {}
        BY <1>6, Zenon DEF Says, columns, pairs
      <4>2. QED
        BY <1>1, <3>1, <4>1
    <3>5. J0 = jr
      <4> HIDE DEF R0
      <4>1. q.where = p /\ R0 = pairs
        BY <1>1, <3>1
      <4>2. QED
        BY <4>1, Zenon DEF Says
    <3> DEFINE orderColumn == resolveResultColumn(columns, q.orderBy.column)
               ordered == IF q.orderBy = None THEN {J0}
                          ELSE Arrangements(J0, orderColumn, q.orderBy.ascending)
    <3>6. executeJoinSelect(q, other, FALSE) =
                    IF \/ l = None \/ r = None
                       \/ \E i \in DOMAIN P0 : P0[i] = 0
                       \/ \E i \in DOMAIN R0 : matchesJoinedPredicate(q.where, columns, R0[i]) = "throws"
                       \/ q.orderBy # None /\ orderColumn = 0
                    THEN {Throws} ELSE {Row0(rs) : rs \in ordered}
      BY Zenon DEF executeJoinSelect
    <3> HIDE DEF J0, P0, R0, l, r
    <3>7. result \in {Row0(rs) : rs \in ordered} /\ ordered = {J0}
      BY <1>1, <1>4, <3>1, <3>3, <3>4, <3>6
    <3>8. result = Row0(J0)
      BY <3>7, Zenon
    <3>9. kept(J0) = jr
      BY <1>1, <2>1, <3>5, Zenon
    <3> HIDE DEF kept, jr, P, columns
    <3>10. QED
      BY <3>2, <3>8, <3>9, Zenon
  <2> HIDE DEF cols, out
  <2>3. result = Rows(cols, out)
    BY <2>2
  <2>4. result.ok /\ result.rows = out
    BY <2>3 DEF Rows
  <2>5. jr \in Seq(AnyJoined(other))
    <3>1. \A k \in Says(on, p, other, "true") : k \in 1..Len(pairs)
      BY DEF Says
    <3>2. QED
      BY <3>1, PickedEnumerates
  <2>6. ASSUME NEW i \in DOMAIN jr PROVE [j \in DOMAIN P |-> jr[i][P[j]]] = jr[i]
    <3>1. jr[i] \in AnyJoined(other)
      BY <2>5
    <3> HIDE DEF jr, P
    <3>2. jr[i] = [j \in 1..(Len(Schema) + Len(other.schema)) |-> jr[i][j]]
      BY <3>1, JoinedRow, Zenon
    <3>3. [j \in DOMAIN P |-> jr[i][P[j]]] = [j \in 1..(Len(Schema) + Len(other.schema)) |-> jr[i][j]]
      BY <1>3
    <3>4. QED
      BY <3>2, <3>3
  <2>7. out = jr
    <3>1. jr = [i \in DOMAIN jr |-> jr[i]]
      BY <2>5
    <3> HIDE DEF jr, P
    <3>2. QED
      BY <2>6, <3>1 DEF out
  <2>8. QED
    BY <1>6, <2>4, <2>7 DEF IsRead
<1>7. QED
  BY <1>5, <1>6

\* Both tables have the column, so its bare name stands for two joined columns.
LEMMA Ambiguous ==
  ASSUME NEW other, IsOther(other), NEW c \in Columns, c \in ToSet(other.schema)
  PROVE  resolveResultColumn(joinedColumns(other), <<c>>) = 0
<1> DEFINE columns == joinedColumns(other)
           m == Len(Schema)
           n == Len(other.schema)
           suffix == {i \in DOMAIN columns : <<columns[i][2]>> = <<c>>}
<1>1. /\ m \in Nat /\ DOMAIN Schema = 1..m /\ n \in Nat /\ DOMAIN other.schema = 1..n
      /\ DOMAIN columns = 1..(m + n) /\ Len(columns) = m + n
      /\ \A i \in 1..m : columns[i] = <<Name, Schema[i]>>
      /\ \A i \in 1..n : columns[m + i] = <<other.name, other.schema[i]>>
  BY JoinedColumns
<1> HIDE DEF m, n, columns
<1>2. ASSUME NEW i \in 1..(m + n) PROVE columns[i] # <<c>>
  <2>1. \E a, b : columns[i] = <<a, b>>
    <3>1. CASE i <= m
      <4>1. i \in 1..m
        BY <1>1, <3>1
      <4>2. QED
        BY <1>1, <4>1
    <3>2. CASE ~(i <= m)
      <4>1. i - m \in 1..n /\ m + (i - m) = i
        BY <1>1, <3>2
      <4>2. columns[m + (i - m)] = <<other.name, other.schema[i - m]>>
        BY <1>1, <4>1, Zenon
      <4>3. QED
        BY <4>1, <4>2
    <3>3. QED
      BY <3>1, <3>2
  <2>2. QED
    BY <2>1
<1>3. SelectInSeq(columns, LAMBDA x : x = <<c>>) = 0
  BY <1>1, <1>2 DEF SelectInSeq
<1>4. PICK i \in 1..m : Schema[i] = c
  BY <1>1, SchemaOrderAssumption DEF ToSet
<1>5. PICK j \in 1..n : other.schema[j] = c
  BY <1>1 DEF ToSet
<1>6. i \in suffix /\ m + j \in suffix /\ i # m + j
  BY <1>1, <1>4, <1>5
<1>7. IsFiniteSet(suffix)
  <2>1. IsFiniteSet(1..(m + n)) /\ suffix \in SUBSET (1..(m + n))
    BY <1>1, FS_Interval
  <2> HIDE DEF suffix
  <2>2. QED
    BY <2>1, FS_Subset
<1>8. Cardinality(suffix) # 1
  <2> HIDE DEF suffix
  <2>1. \A x : suffix # {x}
    BY <1>6
  <2>2. QED
    BY <1>7, <2>1, FS_Singleton
<1>9. QED
  BY <1>3, <1>8 DEF resolveResultColumn, columns

LEMMA JoinShared ==
  ASSUME NEW other, IsOther(other), NEW c \in Columns, c \in ToSet(other.schema), NEW on, NEW p
  PROVE  executeJoinSelect(JoinAll(<<<<c>>>>, on, p), other, FALSE) = {Throws}
<1> DEFINE q == JoinAll(<<<<c>>>>, on, p)
           columns == joinedColumns(other)
           P == IF q.columns = <<"*">> THEN [i \in DOMAIN columns |-> i]
                ELSE [i \in DOMAIN q.columns |-> resolveResultColumn(columns, q.columns[i])]
<1>1. q.columns = <<<<c>>>>
  BY DEF JoinAll
<1>2. <<<<c>>>> # <<"*">>
  <2>1. <<c>> # "*"
    BY StarAssumption
  <2>2. <<<<c>>>>[1] = <<c>> /\ <<"*">>[1] = "*"
    BY Zenon
  <2>3. QED
    BY <2>1, <2>2, Zenon
<1>3. resolveResultColumn(columns, <<c>>) = 0
  BY Ambiguous
<1> HIDE DEF q, columns
<1>4. P = [i \in DOMAIN q.columns |-> resolveResultColumn(columns, q.columns[i])]
  BY <1>1, <1>2, Zenon
<1>5. 1 \in DOMAIN q.columns /\ q.columns[1] = <<c>>
  BY <1>1
<1>6. 1 \in DOMAIN P /\ P[1] = 0
  BY <1>3, <1>4, <1>5
<1> HIDE DEF P
<1>7. \E i \in DOMAIN P : P[i] = 0
  BY <1>6
<1>8. executeJoinSelect(q, other, FALSE) = {Throws}
  BY <1>7 DEF executeJoinSelect, P, columns
<1>9. QED
  BY <1>8 DEF q

\* What a join reads are the pairs with equal keys, and the predicate says of each what
\* PairsWhere says of it.
LEMMA SaysOfPairs ==
  ASSUME NEW other, NEW on, NEW p, NEW truth, NEW h,
         Enumerates(ReadPairs(on, other), JoinedAt(other), EqualPairs(on, other), h),
         NEW A, ReadPairs(on, other) \in Seq(A)
  PROVE  /\ {h[k] : k \in Says(on, p, other, truth)} = PairsWhere(on, p, other, truth)
         /\ \A k \in Says(on, p, other, truth) : k \in 1..Len(ReadPairs(on, other))
<1> DEFINE pairs == ReadPairs(on, other)
           T == EqualPairs(on, other)
           J == JoinedAt(other)
           Holds(joined) == matchesJoinedPredicate(p, joinedColumns(other), joined)
<1>1. /\ h \in [1..Len(pairs) -> T]
      /\ \A k \in T : \E i \in 1..Len(pairs) : h[i] = k
      /\ \A i \in 1..Len(pairs) : pairs[i] = J[h[i]]
  BY DEF Enumerates
<1>2. DOMAIN pairs = 1..Len(pairs)
  OBVIOUS
<1>3. \A k : k \in Says(on, p, other, truth) <=> k \in 1..Len(pairs) /\ Holds(pairs[k]) = truth
  BY <1>2 DEF Says
<1>4. \A x : x \in PairsWhere(on, p, other, truth) <=> x \in T /\ Holds(J[x]) = truth
  BY DEF PairsWhere
<1> HIDE DEF pairs, T, J, Holds
<1>5. QED
  BY <1>1, <1>3, <1>4 DEF pairs

LEMMA JoinIsExact ==
  ASSUME TableInv, NEW other \in Others, NEW on, NEW p,
         NEW result \in executeJoinSelect(JoinAll(<<"*">>, on, p), other, FALSE)
  PROVE  IsProduct(result, on, p, other)
<1> DEFINE pairs == ReadPairs(on, other)
           A == AnyJoined(other)
           J == JoinedAt(other)
           U == Says(on, p, other, "true")
           W == PairsWhere(on, p, other, "true")
<1>1. rows \in Seq(Row) /\ IsOther(other)
  BY OthersAre DEF TableInv, RowsInv
<1>2. pairs \in Seq(A) /\ \E h : Enumerates(pairs, J, EqualPairs(on, other), h)
  <2> DEFINE l == resolveTableColumn(Schema, Name, on[1])
             r == resolveTableColumn(other.schema, other.name, on[2])
  <2>1. EqualPairs(on, other) =
          {x \in (DOMAIN rows) \X (DOMAIN other.rows) : rows[x[1]][l] = other.rows[x[2]][r]}
    BY Zenon DEF EqualPairs
  <2>2. pairs = joinedPairs(rows, other, l, r)
    BY Zenon DEF ReadPairs
  <2> HIDE DEF l, r, pairs, A, J
  <2>3. /\ joinedPairs(rows, other, l, r) \in Seq(AnyJoined(other))
        /\ \E h : Enumerates(joinedPairs(rows, other, l, r), JoinedAt(other), EqualPairs(on, other), h)
    BY <1>1, <2>1, PairsEnumerate, Zenon
  <2>4. QED
    BY <2>2, <2>3, Zenon DEF A, J
<1>3. PICK h : Enumerates(pairs, J, EqualPairs(on, other), h)
  BY <1>2
<1>4. \A truth : /\ {h[k] : k \in Says(on, p, other, truth)} = PairsWhere(on, p, other, truth)
                 /\ \A k \in Says(on, p, other, truth) : k \in 1..Len(pairs)
  BY <1>2, <1>3, SaysOfPairs
<1>5. Says(on, p, other, "throws") = {} <=> PairsWhere(on, p, other, "throws") = {}
  <2>1. {h[k] : k \in Says(on, p, other, "throws")} = PairsWhere(on, p, other, "throws")
    BY <1>4
  <2> HIDE DEF pairs
  <2>2. QED
    BY <2>1, Zenon
<1>6. IsRead(result, on, p, other)
  BY <1>1, <1>2, JoinStar, Zenon
<1>7. Picked(pairs, U) \in Seq(A) /\ \E g : Enumerates(Picked(pairs, U), pairs, U, g)
  <2>1. \A k \in U : k \in 1..Len(pairs)
    BY <1>4
  <2> HIDE DEF pairs, A, U
  <2>2. QED
    BY <1>2, <2>1, PickedEnumerates
<1>8. \E g : Enumerates(Picked(pairs, U), J, W, g)
  <2>1. IsImage(W, h, U, pairs)
    BY <1>4 DEF IsImage
  <2> HIDE DEF pairs, U, W, J, A
  <2>2. PICK g : Enumerates(Picked(pairs, U), pairs, U, g)
    BY <1>7
  <2>3. QED
    BY <1>3, <2>1, <2>2, Composed, Zenon
<1>9. ToBag(Picked(pairs, U)) = BagAt(J, W)
  <2> HIDE DEF pairs, U, W, J, A
  <2>1. QED
    BY <1>7, <1>8, EnumeratedBag, Zenon
<1>10. BagAt(J, W) = Product(on, p, other)
  BY DEF BagAt, Product
<1>11. QED
  BY <1>5, <1>6, <1>9, <1>10 DEF IsRead, IsProduct

(* A join returns the pairs of rows with equal join columns that satisfy   *)
(* the WHERE clause, as often as there are such pairs, and throws exactly  *)
(* for an unknown join column and for a predicate that throws on a pair    *)
(* that joins; a bare column name that both tables have is refused.        *)
(* (executeJoinSelect, resolveTableColumn, resolveResultColumn)            *)
THEOREM JoinsAreExact == Spec => []JoinExact
<1>1. ASSUME TableInv, NEW other \in Others, NEW on \in JoinColumns, NEW p \in JoinPredicate
      PROVE  /\ \A result \in executeJoinSelect(JoinAll(<<"*">>, on, p), other, FALSE) :
                  IsProduct(result, on, p, other)
             /\ \A c \in Columns \cap ToSet(other.schema) :
                  executeJoinSelect(JoinAll(<<<<c>>>>, on, p), other, FALSE) = {Throws}
  <2>1. \A c \in Columns \cap ToSet(other.schema) :
          executeJoinSelect(JoinAll(<<<<c>>>>, on, p), other, FALSE) = {Throws}
    BY <1>1, OthersAre, JoinShared
  <2>2. QED
    BY <1>1, <2>1, JoinIsExact
<1>2. TableInv => JoinExact
  <2> DEFINE q(on, p) == [columns |-> <<"*">>, on |-> on, where |-> p, orderBy |-> None, limit |-> None]
             E(on, p, c) == [q(on, p) EXCEPT !.columns = <<<<c>>>>]
  <2>1. \A on, p : q(on, p) = JoinAll(<<"*">>, on, p)
    BY DEF JoinAll
  <2>2. \A on, p, c : E(on, p, c) = JoinAll(<<<<c>>>>, on, p)
    BY DEF JoinAll
  <2> HIDE DEF q, E
  <2>3. ASSUME TableInv, NEW other \in Others, NEW on \in JoinColumns, NEW p \in JoinPredicate
        PROVE  /\ \A result \in executeJoinSelect(q(on, p), other, FALSE) :
                    IsProduct(result, on, p, other)
               /\ \A c \in Columns \cap ToSet(other.schema) :
                    executeJoinSelect(E(on, p, c), other, FALSE) = {Throws}
    BY <1>1, <2>1, <2>2, <2>3, Zenon
  <2>4. QED
    BY <2>3, Zenon DEF JoinExact, IsProduct, Known, q, E
<1>3. QED
  BY <1>2, InvHolds, PTL

=============================================================================
