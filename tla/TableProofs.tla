---------------------------- MODULE TableProofs ------------------------------
(***************************************************************************)
(* A table's rows, version chains and indexes stay consistent, for any     *)
(* schema, values, indexes and number of rows.                             *)
(*                                                                         *)
(* IndexExact alone is not inductive: an insert extends entries it trusts  *)
(* to be those of the rows so far, hence IndexInv also says that every tree *)
(* is the one built from the entries of the hash index.  What a transaction *)
(* reads depends on the chains: ChainInv says that they are those of the   *)
(* ids 0 .. n-1, that every version was created below the counter, and that *)
(* until something is erased the newest version of each chain is its row,  *)
(* unmarked.                                                               *)
(***************************************************************************)
EXTENDS Table, BTreeIndexProofs

-----------------------------------------------------------------------------
(* The loops that fill an index.                                           *)

(* What hashFill computes: there is such a function, and it is read at the *)
(* end.                                                                    *)
IsFill(g, entries, rs, c) ==
  g = [n \in 0..Len(rs) |-> IF n = 0 THEN entries ELSE hashInsert(g[n - 1], rs[n][c], n - 1)]

LEMMA HashFilled ==
  ASSUME NEW entries, NEW rs, NEW c, Len(rs) \in Nat
  PROVE  \E g : IsFill(g, entries, rs, c) /\ hashFill(entries, rs, c) = g[Len(rs)]
<1> DEFINE Is(g, m) ==
      g = [n \in 0..m |-> IF n = 0 THEN entries ELSE hashInsert(g[n - 1], rs[n][c], n - 1)]
<1> DEFINE S == {m \in Nat : \E g : Is(g, m)}
<1>1. 0 \in S
  <2>1. Is([n \in 0..0 |-> entries], 0)
    OBVIOUS
  <2>2. QED
    BY <2>1
<1>2. ASSUME NEW m \in Nat, m \in S
      PROVE  m + 1 \in S
  <2>1. PICK g : Is(g, m)
    BY <1>2
  <2> DEFINE h == [n \in 0..(m + 1) |-> IF n <= m THEN g[n]
                                       ELSE hashInsert(g[m], rs[m + 1][c], m)]
  <2>2. ASSUME NEW n \in 0..(m + 1)
        PROVE  h[n] = IF n = 0 THEN entries ELSE hashInsert(h[n - 1], rs[n][c], n - 1)
    <3>1. CASE n <= m
      BY <2>1, <3>1
    <3>2. CASE n = m + 1
      BY <2>1, <3>2
    <3>3. QED
      BY <3>1, <3>2
  <2>3. Is(h, m + 1)
    BY <2>2
  <2>4. \E f : Is(f, m + 1)
    <3> HIDE DEF h, Is
    <3>1. QED
      BY <2>3
  <2>5. QED
    BY <2>4
<1>3. \A m \in Nat : m \in S
  <2> HIDE DEF S
  <2>1. QED
    BY <1>1, <1>2, SetInduction
<1>4. \E g : Is(g, Len(rs))
  BY <1>3
<1>5. QED
  BY <1>4 DEF hashFill, IsFill

(* A tree filled row by row is the tree of the filled entries.             *)
LEMMA TreeFilled ==
  ASSUME NEW entries, NEW rs, NEW c, Len(rs) \in Nat
  PROVE  treeFill(Tree(entries), rs, c) = Tree(hashFill(entries, rs, c))
<1>0. PICK g : IsFill(g, entries, rs, c) /\ hashFill(entries, rs, c) = g[Len(rs)]
  BY HashFilled
<1>1. /\ g = [n \in 0..Len(rs) |->
               IF n = 0 THEN entries ELSE hashInsert(g[n - 1], rs[n][c], n - 1)]
      /\ hashFill(entries, rs, c) = g[Len(rs)]
  BY <1>0 DEF IsFill
<1> DEFINE Is(f) ==
      f = [n \in 0..Len(rs) |->
             IF n = 0 THEN Tree(entries) ELSE treeInsert(f[n - 1], rs[n][c], n - 1)]
<1> DEFINE h == [n \in 0..Len(rs) |-> Tree(g[n])]
<1>2. \A e : Tree(e).entries_ = e
  BY DEF Tree
<1>3. Is(h)
  <2>1. ASSUME NEW n \in 0..Len(rs)
        PROVE  h[n] = IF n = 0 THEN Tree(entries) ELSE treeInsert(h[n - 1], rs[n][c], n - 1)
    <3>1. CASE n = 0
      BY <1>1, <3>1
    <3>2. CASE n # 0
      <4>1. n - 1 \in 0..Len(rs)
        BY <3>2
      <4>2. g[n] = hashInsert(g[n - 1], rs[n][c], n - 1)
        BY <1>1, <3>2
      <4>3. QED
        BY <1>2, <3>2, <4>1, <4>2 DEF treeInsert
    <3>3. QED
      BY <3>1, <3>2
  <2>2. QED
    BY <2>1
<1>4. ASSUME NEW f, Is(f)
      PROVE  f[Len(rs)] = Tree(g[Len(rs)])
  <2> DEFINE S == {n \in Nat : n <= Len(rs) => f[n] = Tree(g[n])}
  <2>1. 0 \in S
    BY <1>1, <1>4
  <2>2. ASSUME NEW n \in Nat, n \in S
        PROVE  n + 1 \in S
    <3>1. SUFFICES ASSUME n + 1 <= Len(rs)
                   PROVE  f[n + 1] = Tree(g[n + 1])
      OBVIOUS
    <3>2. f[n] = Tree(g[n])
      BY <2>2, <3>1
    <3>3. f[n + 1] = treeInsert(f[n], rs[n + 1][c], n)
      BY <1>4, <3>1
    <3>4. g[n + 1] = hashInsert(g[n], rs[n + 1][c], n)
      BY <1>1, <3>1
    <3>5. QED
      BY <1>2, <3>2, <3>3, <3>4 DEF treeInsert
  <2>3. \A n \in Nat : n \in S
    <3> HIDE DEF S
    <3>1. QED
      BY <2>1, <2>2, SetInduction
  <2>4. QED
    BY <2>3
<1>5. \E f : Is(f)
  <2> HIDE DEF h, Is
  <2>1. QED
    BY <1>3
<1>6. treeFill(Tree(entries), rs, c) = (CHOOSE f : Is(f))[Len(rs)]
  BY DEF treeFill
<1>7. Is(CHOOSE f : Is(f))
  <2> HIDE DEF Is
  <2>1. QED
    BY <1>5
<1>8. (CHOOSE f : Is(f))[Len(rs)] = Tree(g[Len(rs)])
  <2> HIDE DEF Is
  <2>1. QED
    BY <1>4, <1>7
<1>9. QED
  BY <1>1, <1>6, <1>8

-----------------------------------------------------------------------------
(* Indexes.                                                                *)

IsFunction(f) == f = [x \in DOMAIN f |-> f[x]]

\* The entries list the first m rows: Lists, in a form that survives one more row.
ListsFirst(e, rs, c, m) ==
  /\ IsFunction(e)
  /\ DOMAIN e = {rs[i][c] : i \in 1..m}
  /\ \A v \in DOMAIN e :
       /\ e[v] \in Seq(0..(m - 1))
       /\ \A k \in DOMAIN e[v] : rs[e[v][k] + 1][c] = v
       /\ \A i \in 1..m : rs[i][c] = v => \E k \in DOMAIN e[v] : e[v][k] = i - 1
       /\ \A i, j \in DOMAIN e[v] : i < j => e[v][i] < e[v][j]

(* Entering the next row keeps the listing exact.                          *)
LEMMA EnterRow ==
  ASSUME NEW e, NEW rs, NEW c, NEW m \in Nat, ListsFirst(e, rs, c, m)
  PROVE  ListsFirst(hashInsert(e, rs[m + 1][c], m), rs, c, m + 1)
<1> DEFINE key == rs[m + 1][c]
<1> DEFINE f == hashInsert(e, key, m)
<1>1. /\ DOMAIN f = DOMAIN e \cup {key}
      /\ f[key] = Append(RowIdsAt(e, key), m)
      /\ \A v \in DOMAIN e : v # key => f[v] = e[v]
  BY DEF hashInsert
<1>8. IsFunction(f)
  BY DEF hashInsert, IsFunction
<1>2. DOMAIN f = {rs[i][c] : i \in 1..(m + 1)}
  <2>1. 1..(m + 1) = 1..m \cup {m + 1}
    OBVIOUS
  <2>2. QED
    BY <1>1, <2>1 DEF ListsFirst
<1>3. ASSUME NEW v \in DOMAIN f, v # key
      PROVE  /\ f[v] \in Seq(0..m)
             /\ \A k \in DOMAIN f[v] : rs[f[v][k] + 1][c] = v
             /\ \A i \in 1..(m + 1) : rs[i][c] = v => \E k \in DOMAIN f[v] : f[v][k] = i - 1
             /\ \A i, j \in DOMAIN f[v] : i < j => f[v][i] < f[v][j]
  <2>1. v \in DOMAIN e /\ f[v] = e[v]
    BY <1>1, <1>3
  <2>2. Seq(0..(m - 1)) \subseteq Seq(0..m)
    OBVIOUS
  <2>3. rs[m + 1][c] # v
    BY <1>3
  <2> HIDE DEF f, key
  <2>4. /\ e[v] \in Seq(0..(m - 1))
        /\ \A k \in DOMAIN e[v] : rs[e[v][k] + 1][c] = v
        /\ \A i \in 1..m : rs[i][c] = v => \E k \in DOMAIN e[v] : e[v][k] = i - 1
        /\ \A i, j \in DOMAIN e[v] : i < j => e[v][i] < e[v][j]
    BY <2>1 DEF ListsFirst
  <2>5. \A i \in 1..(m + 1) : rs[i][c] = v => i \in 1..m
    BY <2>3
  <2>6. QED
    BY <2>1, <2>2, <2>4, <2>5
<1> DEFINE old == RowIdsAt(e, key)
<1>4. /\ old \in Seq(0..(m - 1))
      /\ \A k \in DOMAIN old : rs[old[k] + 1][c] = key
      /\ \A i \in 1..m : rs[i][c] = key => \E k \in DOMAIN old : old[k] = i - 1
      /\ \A i, j \in DOMAIN old : i < j => old[i] < old[j]
  <2>1. CASE key \in DOMAIN e
    BY <2>1 DEF RowIdsAt, ListsFirst
  <2>2. CASE key \notin DOMAIN e
    <3>1. old = << >>
      BY <2>2 DEF RowIdsAt
    <3>2. \A i \in 1..m : rs[i][c] # key
      BY <2>2 DEF ListsFirst
    <3>3. QED
      BY <3>1, <3>2
  <2>3. QED
    BY <2>1, <2>2
<1>5. /\ f[key] \in Seq(0..m)
      /\ \A k \in DOMAIN f[key] : rs[f[key][k] + 1][c] = key
      /\ \A i \in 1..(m + 1) : rs[i][c] = key => \E k \in DOMAIN f[key] : f[key][k] = i - 1
      /\ \A i, j \in DOMAIN f[key] : i < j => f[key][i] < f[key][j]
  <2> HIDE DEF old, f, key
  <2>1. /\ Append(old, m) \in Seq(0..m) /\ Len(Append(old, m)) = Len(old) + 1
        /\ DOMAIN Append(old, m) = 1..(Len(old) + 1) /\ DOMAIN old = 1..Len(old)
        /\ Len(old) \in Nat
        /\ \A k \in 1..Len(old) : Append(old, m)[k] = old[k] /\ old[k] \in 0..(m - 1)
        /\ Append(old, m)[Len(old) + 1] = m
    BY <1>4
  <2>2. f[key] = Append(old, m)
    BY <1>1 DEF old, key
  <2>3. key = rs[m + 1][c]
    BY DEF key
  <2>4. ASSUME NEW k \in DOMAIN f[key]
        PROVE  rs[f[key][k] + 1][c] = key
    BY <1>4, <2>1, <2>2, <2>3
  <2>5. ASSUME NEW i \in 1..(m + 1), rs[i][c] = key
        PROVE  \E k \in DOMAIN f[key] : f[key][k] = i - 1
    <3>1. CASE i = m + 1
      BY <2>1, <2>2, <3>1
    <3>2. CASE i \in 1..m
      BY <1>4, <2>1, <2>2, <2>5, <3>2
    <3>3. QED
      BY <3>1, <3>2
  <2>6. ASSUME NEW i \in DOMAIN f[key], NEW j \in DOMAIN f[key], i < j
        PROVE  f[key][i] < f[key][j]
    <3>1. i \in 1..Len(old)
      BY <2>1, <2>2, <2>6
    <3>2. CASE j \in 1..Len(old)
      BY <1>4, <2>1, <2>2, <2>6, <3>1, <3>2
    <3>3. CASE j = Len(old) + 1
      BY <2>1, <2>2, <3>1, <3>3
    <3>4. QED
      BY <2>1, <2>2, <3>2, <3>3
  <2>7. QED
    BY <2>1, <2>2, <2>4, <2>5, <2>6
<1>6. (m + 1) - 1 = m
  OBVIOUS
<1>7. QED
  <2> HIDE DEF f, key
  <2>1. ListsFirst(f, rs, c, m + 1)
    BY <1>2, <1>3, <1>5, <1>6, <1>8 DEF ListsFirst
  <2>2. QED
    BY <2>1 DEF f, key

(* An index filled from nothing lists the rows.                            *)
LEMMA FillLists ==
  ASSUME NEW rs, Len(rs) \in Nat, NEW c
  PROVE  ListsFirst(hashFill(<< >>, rs, c), rs, c, Len(rs))
<1>1. PICK g : IsFill(g, << >>, rs, c) /\ hashFill(<< >>, rs, c) = g[Len(rs)]
  BY HashFilled
<1> DEFINE S == {n \in Nat : n <= Len(rs) => ListsFirst(g[n], rs, c, n)}
<1>2. 0 \in S
  <2>1. g[0] = << >>
    BY <1>1 DEF IsFill
  <2>2. ListsFirst(<< >>, rs, c, 0)
    BY DEF ListsFirst, IsFunction
  <2>3. QED
    BY <2>1, <2>2
<1>3. ASSUME NEW n \in Nat, n \in S
      PROVE  n + 1 \in S
  <2>1. SUFFICES ASSUME n + 1 <= Len(rs)
                 PROVE  ListsFirst(g[n + 1], rs, c, n + 1)
    OBVIOUS
  <2>2. ListsFirst(g[n], rs, c, n)
    BY <1>3, <2>1
  <2>3. g[n + 1] = hashInsert(g[n], rs[n + 1][c], n)
    BY <1>1, <2>1 DEF IsFill
  <2>4. QED
    BY <2>2, <2>3, EnterRow
<1>4. \A n \in Nat : n \in S
  <2> HIDE DEF S
  <2>1. QED
    BY <1>2, <1>3, SetInduction
<1>5. QED
  BY <1>1, <1>4

-----------------------------------------------------------------------------
(* The invariant.                                                          *)

RowsInv == rows \in Seq(Row) /\ Len(rows) <= MaxRows /\ RowsFitSchema

\* Hash and ordered index hold the same entries, and the nodes are those of the entries.
IndexInv ==
  /\ indexColumns_ \in [DOMAIN indexColumns_ -> Columns]
  /\ DOMAIN indexColumns_ \subseteq IndexName
  /\ DOMAIN indexes_ = DOMAIN indexColumns_
  /\ DOMAIN orderedIndexes_ = DOMAIN indexColumns_
  /\ \A n \in DOMAIN indexColumns_ :
       /\ ListsFirst(indexes_[n], rows, indexColumns_[n], Len(rows))
       /\ orderedIndexes_[n] = Tree(indexes_[n])

\* Chains that are not empty, of versions created before next.
ChainsOf(vs, next) ==
  \A id \in DOMAIN vs :
    /\ vs[id] \in Seq(Version) \ {<< >>}
    /\ \A k \in DOMAIN vs[id] : vs[id][k].createdBy < next

\* There is a chain for every row, none is empty and none holds a version of the future.
\* Until a row is erased the newest version of a chain is the row.
Newest(id) == versions_[id][Len(versions_[id])]
ChainInv ==
  /\ nextVersion \in Nat \ {0}
  /\ erased \in BOOLEAN
  /\ \E n \in Nat : n >= Len(rows) /\ DOMAIN versions_ = 0..(n - 1)
  /\ ChainsOf(versions_, nextVersion)
  /\ ~erased =>
       /\ DOMAIN versions_ = 0..(Len(rows) - 1)
       /\ \A id \in DOMAIN versions_ :
            Newest(id).deletedBy = NoTransaction /\ Newest(id).row = rows[id + 1]

TableInv == RowsInv /\ IndexInv /\ ChainInv

LEMMA InitInv == Init => TableInv
<1> SUFFICES ASSUME Init PROVE TableInv
  OBVIOUS
<1>1. DOMAIN << >> = 0..(0 - 1) /\ DOMAIN << >> = {} /\ Len(<< >>) = 0
  OBVIOUS
<1>2. RowsInv
  BY BoundsAssumption DEF Init, RowsInv, RowsFitSchema
<1>3. IndexInv
  BY <1>1 DEF Init, IndexInv
<1>4. ChainInv
  <2>1. 0 \in Nat /\ 0 >= Len(rows) /\ DOMAIN versions_ = 0..(0 - 1)
    BY <1>1 DEF Init
  <2>2. DOMAIN versions_ = {} /\ DOMAIN versions_ = 0..(Len(rows) - 1)
    BY <1>1 DEF Init
  <2>3. nextVersion \in Nat \ {0}
    BY DEF Init
  <2>6. erased \in BOOLEAN
    BY Zenon DEF Init
  <2>4. \E n \in Nat : n >= Len(rows) /\ DOMAIN versions_ = 0..(n - 1)
    BY <2>1
  <2>5. QED
    BY <2>2, <2>3, <2>4, <2>6, Zenon DEF ChainInv, ChainsOf
<1>5. QED
  BY <1>2, <1>3, <1>4 DEF TableInv

-----------------------------------------------------------------------------
(* Rows.                                                                   *)

(* Taking a row out leaves the others.                                     *)
LEMMA RowRemoved ==
  ASSUME NEW S, NEW rs \in Seq(S), NEW id \in 0..(Len(rs) - 1)
  PROVE  /\ RemoveRow(rs, id) \in Seq(S)
         /\ Len(RemoveRow(rs, id)) = Len(rs) - 1
         /\ \A i \in DOMAIN RemoveRow(rs, id) :
              RemoveRow(rs, id)[i] = IF i <= id THEN rs[i] ELSE rs[i + 1]
<1> DEFINE a == SubSeq(rs, 1, id)
           b == SubSeq(rs, id + 2, Len(rs))
<1>1. a \in Seq(S) /\ Len(a) = id /\ \A i \in 1..id : a[i] = rs[i]
  OBVIOUS
<1>2. b \in Seq(S) /\ Len(b) = Len(rs) - id - 1
      /\ \A i \in 1..(Len(rs) - id - 1) : b[i] = rs[id + 1 + i]
  OBVIOUS
<1>3. RemoveRow(rs, id) = a \o b
  BY DEF RemoveRow
<1> HIDE DEF a, b
<1>4. /\ a \o b \in Seq(S) /\ Len(a \o b) = Len(a) + Len(b)
      /\ \A i \in 1..(Len(a) + Len(b)) :
           (a \o b)[i] = IF i <= Len(a) THEN a[i] ELSE b[i - Len(a)]
  BY <1>1, <1>2, ConcatProperties
<1>5. Len(rs) \in Nat /\ id \in Nat /\ Len(a) + Len(b) = Len(rs) - 1
  BY <1>1, <1>2
<1>6. DOMAIN (a \o b) = 1..(Len(rs) - 1)
  BY <1>4, <1>5
<1>7. ASSUME NEW i \in 1..(Len(rs) - 1)
      PROVE  (a \o b)[i] = IF i <= id THEN rs[i] ELSE rs[i + 1]
  <2>1. CASE i <= id
    BY <1>1, <1>4, <1>5, <2>1
  <2>2. CASE i > id
    <3>1. i - id \in 1..(Len(rs) - id - 1) /\ id + 1 + (i - id) = i + 1
      BY <1>5, <2>2
    <3>2. (a \o b)[i] = b[i - id]
      BY <1>1, <1>4, <1>5, <2>2
    <3>3. QED
      BY <1>2, <1>5, <2>2, <3>1, <3>2
  <2>3. QED
    BY <1>5, <2>1, <2>2
<1>8. QED
  BY <1>3, <1>4, <1>5, <1>6, <1>7

(* The rows stay well formed.                                              *)
LEMMA RowsStep == RowsInv /\ [Next]_vars => RowsInv'
<1> SUFFICES ASSUME RowsInv, [Next]_vars PROVE RowsInv'
  OBVIOUS
<1>0. /\ rows \in Seq(Row) /\ Len(rows) \in Nat /\ Len(rows) <= MaxRows
      /\ \A i \in 1..Len(rows) : Fits(rows[i])
      /\ MaxRows \in Nat
  BY BoundsAssumption DEF RowsInv, RowsFitSchema
<1>1. ASSUME NEW row \in Inserted, insert(row)
      PROVE  RowsInv'
  <2>1. Fits(row) /\ rows' = Append(rows, row) /\ Len(rows) < MaxRows
    BY <1>1 DEF insert
  <2>2. row \in Row
    BY <2>1 DEF Fits
  <2>3. /\ rows' \in Seq(Row) /\ Len(rows') = Len(rows) + 1
        /\ \A i \in 1..Len(rows') : rows'[i] = IF i = Len(rows) + 1 THEN row ELSE rows[i]
    BY <1>0, <2>1, <2>2
  <2>4. \A i \in DOMAIN rows' : Fits(rows'[i])
    BY <1>0, <2>1, <2>3
  <2>5. QED
    BY <1>0, <2>1, <2>3, <2>4 DEF RowsInv, RowsFitSchema, Fits, Row
<1>2. ASSUME NEW id \in RowId, erase(id)
      PROVE  RowsInv'
  <2>1. id \in 0..(Len(rows) - 1) /\ rows' = RemoveRow(rows, id)
    BY <1>0, <1>2 DEF erase, RowId
  <2>2. /\ rows' \in Seq(Row) /\ Len(rows') = Len(rows) - 1
        /\ \A i \in DOMAIN rows' : rows'[i] = IF i <= id THEN rows[i] ELSE rows[i + 1]
    BY <1>0, <2>1, RowRemoved
  <2>3. \A i \in DOMAIN rows' : i \in 1..Len(rows) /\ i + 1 \in 1..Len(rows)
    BY <1>0, <2>2
  <2>4. \A i \in DOMAIN rows' : Fits(rows'[i])
    BY <1>0, <2>2, <2>3
  <2>5. QED
    BY <1>0, <2>2, <2>4 DEF RowsInv, RowsFitSchema, Fits, Row
<1>3. ASSUME NEW id \in RowId, NEW c \in Columns, NEW v \in Value, update(id, c, v)
      PROVE  RowsInv'
  <2>1. /\ id + 1 \in 1..Len(rows) /\ v \in Valid[c]
        /\ rows' = [rows EXCEPT ![id + 1] = [rows[id + 1] EXCEPT ![c] = v]]
    BY <1>0, <1>3 DEF update, RowId
  <2>2. Fits([rows[id + 1] EXCEPT ![c] = v])
    BY <1>0, <2>1 DEF Fits, Row
  <2>3. [rows[id + 1] EXCEPT ![c] = v] \in Row
    BY <2>2 DEF Fits
  <2>4. /\ rows' \in Seq(Row) /\ Len(rows') = Len(rows)
        /\ \A i \in 1..Len(rows) :
             rows'[i] = IF i = id + 1 THEN [rows[id + 1] EXCEPT ![c] = v] ELSE rows[i]
    BY <1>0, <2>1, <2>3
  <2>5. \A i \in DOMAIN rows' : Fits(rows'[i])
    BY <1>0, <2>2, <2>4, SMTT(20)
  <2>6. QED
    BY <1>0, <2>4, <2>5 DEF RowsInv, RowsFitSchema, Fits, Row
<1>4. ASSUME NEW n \in IndexName, NEW c \in Columns, createIndex(n, c)
      PROVE  RowsInv'
  BY <1>4 DEF createIndex, RowsInv, RowsFitSchema, Fits, Row
<1>5. ASSUME NEW k \in 0..Len(rows), replaceRows(SubSeq(rows, k + 1, Len(rows)))
      PROVE  RowsInv'
  <2>1. SubSeq(rows, k + 1, Len(rows)) \in Seq(Row)
    BY <1>0
  <2>2. QED
    BY <1>5, <2>1 DEF replaceRows, RowsInv, RowsFitSchema, Fits, Row
<1>6. CASE UNCHANGED vars
  BY <1>6 DEF vars, RowsInv, RowsFitSchema, Fits, Row
<1>7. QED
  BY <1>1, <1>2, <1>3, <1>4, <1>5, <1>6
     DEF Next, Insert, Erase, Update, CreateIndex, ReplaceRows

-----------------------------------------------------------------------------
(* The indexes over a step.                                                *)

LEMMA TreeEntries == \A e : Tree(e).entries_ = e
BY DEF Tree

(* Only the indexed column of the listed rows counts.                      *)
LEMMA SameRowsListed ==
  ASSUME NEW e, NEW rs, NEW qs, NEW c, NEW m \in Nat, ListsFirst(e, rs, c, m),
         \A i \in 1..m : qs[i] = rs[i]
  PROVE  ListsFirst(e, qs, c, m)
<1>1. {rs[i][c] : i \in 1..m} = {qs[i][c] : i \in 1..m}
  OBVIOUS
<1>2. ASSUME NEW v \in DOMAIN e, NEW k \in DOMAIN e[v]
      PROVE  e[v][k] + 1 \in 1..m
  BY SMTT(20) DEF ListsFirst
<1>3. \A v \in DOMAIN e : \A k \in DOMAIN e[v] : qs[e[v][k] + 1][c] = v
  BY <1>2 DEF ListsFirst
<1>4. \A v \in DOMAIN e : \A i \in 1..m :
        qs[i][c] = v => \E k \in DOMAIN e[v] : e[v][k] = i - 1
  <2>1. \A v \in DOMAIN e : \A i \in 1..m :
          rs[i][c] = v => \E k \in DOMAIN e[v] : e[v][k] = i - 1
    BY DEF ListsFirst
  <2>2. QED
    BY <2>1
<1>5. QED
  BY <1>1, <1>3, <1>4 DEF ListsFirst

(* The listing of an index is what IndexExact asks for, and is well typed. *)
LEMMA ListsAll ==
  ASSUME NEW e, NEW rs \in Seq(Row), NEW c \in Columns, ListsFirst(e, rs, c, Len(rs)),
         Len(rs) <= MaxRows
  PROVE  Lists(e, rs, c) /\ IsEntries(e)
<1>1. Len(rs) \in Nat /\ DOMAIN rs = 1..Len(rs) /\ MaxRows \in Nat
  BY BoundsAssumption
<1>2. ASSUME NEW v \in DOMAIN e
      PROVE  /\ ToSet(e[v]) = {i - 1 : i \in {j \in DOMAIN rs : rs[j][c] = v}}
             /\ e[v] # << >> /\ e[v] \in Seq(RowId) /\ v \in Value
  <2>0. /\ e[v] \in Seq(0..(Len(rs) - 1))
        /\ \A k \in DOMAIN e[v] : rs[e[v][k] + 1][c] = v
        /\ \A i \in 1..Len(rs) : rs[i][c] = v => \E k \in DOMAIN e[v] : e[v][k] = i - 1
    BY DEF ListsFirst
  <2>1. e[v] \in Seq(0..(Len(rs) - 1)) /\ \A k \in DOMAIN e[v] : e[v][k] \in 0..(Len(rs) - 1)
    BY <2>0
  <2>2. ASSUME NEW k \in DOMAIN e[v]
        PROVE  e[v][k] \in {i - 1 : i \in {j \in DOMAIN rs : rs[j][c] = v}}
    <3>1. e[v][k] + 1 \in DOMAIN rs /\ rs[e[v][k] + 1][c] = v /\ e[v][k] = (e[v][k] + 1) - 1
      BY <1>1, <2>0, <2>1
    <3>2. QED
      BY <3>1
  <2>3. ASSUME NEW i \in DOMAIN rs, rs[i][c] = v
        PROVE  i - 1 \in ToSet(e[v])
    <3>1. PICK k \in DOMAIN e[v] : e[v][k] = i - 1
      BY <1>1, <2>0, <2>3
    <3>2. QED
      BY <3>1 DEF ToSet
  <2>4. ToSet(e[v]) = {i - 1 : i \in {j \in DOMAIN rs : rs[j][c] = v}}
    BY <2>2, <2>3 DEF ToSet
  <2>5. PICK i \in 1..Len(rs) : v = rs[i][c]
    BY DEF ListsFirst
  <2>6. \E k \in DOMAIN e[v] : e[v][k] = i - 1
    BY <2>0, <2>5
  <2>7. rs[i] \in Row
    BY <2>5, <1>1
  <2>8. v \in Value
    BY <2>5, <2>7 DEF Row
  <2>9. 0..(Len(rs) - 1) \subseteq RowId
    BY <1>1 DEF RowId
  <2>10. e[v] \in Seq(RowId)
    BY <2>1, <2>9
  <2>11. QED
    BY <2>4, <2>6, <2>8, <2>10
<1>3. IsEntries(e)
  BY <1>2 DEF IsEntries
<1>4. DOMAIN e = {rs[i][c] : i \in DOMAIN rs}
  BY <1>1 DEF ListsFirst
<1>5. \A v \in DOMAIN e : \A i, j \in DOMAIN e[v] : i < j => e[v][i] < e[v][j]
  BY DEF ListsFirst
<1>6. QED
  BY <1>2, <1>3, <1>4, <1>5 DEF Lists, InRowOrder

(* A rebuild makes every index exact for the rows it is given.             *)
LEMMA Rebuilt ==
  ASSUME IndexInv, NEW rs, Len(rs) \in Nat
  PROVE  /\ DOMAIN rebuildIndexes(rs) = DOMAIN indexColumns_
         /\ DOMAIN rebuildOrdered(rs) = DOMAIN indexColumns_
         /\ \A n \in DOMAIN indexColumns_ :
              /\ ListsFirst(rebuildIndexes(rs)[n], rs, indexColumns_[n], Len(rs))
              /\ rebuildOrdered(rs)[n] = Tree(rebuildIndexes(rs)[n])
<1>1. /\ DOMAIN rebuildIndexes(rs) = DOMAIN indexColumns_
      /\ DOMAIN rebuildOrdered(rs) = DOMAIN indexColumns_
  BY DEF IndexInv, rebuildIndexes, rebuildOrdered
<1>2. ASSUME NEW n \in DOMAIN indexColumns_
      PROVE  /\ ListsFirst(rebuildIndexes(rs)[n], rs, indexColumns_[n], Len(rs))
             /\ rebuildOrdered(rs)[n] = Tree(rebuildIndexes(rs)[n])
  <2>1. rebuildIndexes(rs)[n] = hashFill(<< >>, rs, indexColumns_[n])
    BY DEF IndexInv, rebuildIndexes
  <2>2. rebuildOrdered(rs)[n] = treeFill(Tree(<< >>), rs, indexColumns_[n])
    BY DEF IndexInv, rebuildOrdered, treeClear
  <2>3. QED
    BY <2>1, <2>2, FillLists, TreeFilled
<1>3. QED
  BY <1>1, <1>2

(* The indexes stay exact.                                                 *)
LEMMA IndexStep == RowsInv /\ IndexInv /\ [Next]_vars => IndexInv'
<1> SUFFICES ASSUME RowsInv, IndexInv, [Next]_vars PROVE IndexInv'
  OBVIOUS
<1>0. rows \in Seq(Row) /\ Len(rows) \in Nat /\ rows' \in Seq(Row) /\ Len(rows') \in Nat
  BY RowsStep DEF RowsInv
<1>1. ASSUME NEW row \in Inserted, insert(row)
      PROVE  IndexInv'
  <2>1. /\ row \in Row /\ rows' = Append(rows, row) /\ indexColumns_' = indexColumns_
        /\ indexes_' = addRow(indexes_, Len(rows), row)
        /\ orderedIndexes_' = addRowOrdered(orderedIndexes_, Len(rows), row)
    BY <1>1 DEF insert, Fits
  <2>2. /\ Len(rows') = Len(rows) + 1 /\ rows'[Len(rows) + 1] = row
        /\ \A i \in 1..Len(rows) : rows'[i] = rows[i]
    BY <1>0, <2>1
  <2>3. ASSUME NEW n \in DOMAIN indexColumns_
        PROVE  /\ ListsFirst(indexes_'[n], rows', indexColumns_[n], Len(rows'))
               /\ orderedIndexes_'[n] = Tree(indexes_'[n])
    <3>1. /\ ListsFirst(indexes_[n], rows, indexColumns_[n], Len(rows))
          /\ orderedIndexes_[n] = Tree(indexes_[n])
      BY DEF IndexInv
    <3>2. indexes_'[n] = hashInsert(indexes_[n], row[indexColumns_[n]], Len(rows))
      BY <2>1 DEF IndexInv, addRow
    <3>3. orderedIndexes_'[n] = treeInsert(orderedIndexes_[n], row[indexColumns_[n]], Len(rows))
      BY <2>1 DEF IndexInv, addRowOrdered
    <3>4. ListsFirst(indexes_[n], rows', indexColumns_[n], Len(rows))
      BY <1>0, <2>2, <3>1, SameRowsListed
    <3>5. QED
      BY <1>0, <2>2, <3>1, <3>2, <3>3, <3>4, EnterRow, TreeEntries DEF treeInsert
  <2>4. DOMAIN indexes_' = DOMAIN indexColumns_ /\ DOMAIN orderedIndexes_' = DOMAIN indexColumns_
    BY <2>1 DEF IndexInv, addRow, addRowOrdered
  <2>5. QED
    BY <2>1, <2>3, <2>4 DEF IndexInv
<1>2. ASSUME NEW rs, Len(rs) \in Nat, rows' = rs, UNCHANGED indexColumns_,
             indexes_' = rebuildIndexes(rs), orderedIndexes_' = rebuildOrdered(rs)
      PROVE  IndexInv'
  <2>1. /\ DOMAIN rebuildIndexes(rs) = DOMAIN indexColumns_
        /\ DOMAIN rebuildOrdered(rs) = DOMAIN indexColumns_
        /\ \A n \in DOMAIN indexColumns_ :
             /\ ListsFirst(rebuildIndexes(rs)[n], rs, indexColumns_[n], Len(rs))
             /\ rebuildOrdered(rs)[n] = Tree(rebuildIndexes(rs)[n])
    BY <1>2, Rebuilt
  <2>2. QED
    BY <1>2, <2>1 DEF IndexInv
<1>3. ASSUME NEW id \in RowId, erase(id)
      PROVE  IndexInv'
  BY <1>0, <1>2, <1>3 DEF erase
<1>4. ASSUME NEW id \in RowId, NEW c \in Columns, NEW v \in Value, update(id, c, v)
      PROVE  IndexInv'
  BY <1>0, <1>2, <1>4 DEF update
<1>5. ASSUME NEW k \in 0..Len(rows), replaceRows(SubSeq(rows, k + 1, Len(rows)))
      PROVE  IndexInv'
  BY <1>0, <1>2, <1>5 DEF replaceRows
<1>6. ASSUME NEW n \in IndexName, NEW c \in Columns, createIndex(n, c)
      PROVE  IndexInv'
  <2>1. /\ n \notin DOMAIN indexColumns_ /\ rows' = rows
        /\ DOMAIN indexColumns_' = DOMAIN indexColumns_ \cup {n}
        /\ DOMAIN indexes_' = DOMAIN indexColumns_ \cup {n}
        /\ DOMAIN orderedIndexes_' = DOMAIN indexColumns_ \cup {n}
        /\ indexColumns_'[n] = c /\ indexes_'[n] = filledHash(rows, c)
        /\ orderedIndexes_'[n] = filledTree(rows, c)
        /\ \A m \in DOMAIN indexColumns_ :
             /\ indexColumns_'[m] = indexColumns_[m] /\ indexes_'[m] = indexes_[m]
             /\ orderedIndexes_'[m] = orderedIndexes_[m]
    BY <1>6 DEF createIndex, IndexInv
  <2>2. indexColumns_' \in [DOMAIN indexColumns_' -> Columns]
    BY <1>6 DEF createIndex, IndexInv
  <2>3. /\ ListsFirst(indexes_'[n], rows, c, Len(rows))
        /\ orderedIndexes_'[n] = Tree(indexes_'[n])
    BY <1>0, <2>1, FillLists, TreeFilled DEF filledHash, filledTree, NewTree
  <2>4. ASSUME NEW m \in DOMAIN indexColumns_'
        PROVE  /\ ListsFirst(indexes_'[m], rows', indexColumns_'[m], Len(rows'))
               /\ orderedIndexes_'[m] = Tree(indexes_'[m])
    <3>1. CASE m = n
      BY <2>1, <2>3, <3>1
    <3>2. CASE m # n
      BY <2>1, <3>2 DEF IndexInv
    <3>3. QED
      BY <3>1, <3>2
  <2>5. QED
    BY <2>1, <2>2, <2>4 DEF IndexInv
<1>7. CASE UNCHANGED vars
  BY <1>7 DEF vars, IndexInv
<1>8. QED
  BY <1>1, <1>3, <1>4, <1>5, <1>6, <1>7
     DEF Next, Insert, Erase, Update, CreateIndex, ReplaceRows

-----------------------------------------------------------------------------
(* Version chains over a step.                                             *)

ChainAt(vs, id) == IF id \in DOMAIN vs THEN vs[id] ELSE << >>

\* One version is added to one chain.
Adds(ws, vs, id, row, t) ==
  /\ DOMAIN ws = DOMAIN vs \cup {id}
  /\ ws[id] \in Seq(Version) \ {<< >>}
  /\ Len(ws[id]) = Len(ChainAt(vs, id)) + 1
  /\ \A k \in 1..Len(ChainAt(vs, id)) : ws[id][k] = ChainAt(vs, id)[k]
  /\ ws[id][Len(ChainAt(vs, id)) + 1]
       = [createdBy |-> t, deletedBy |-> NoTransaction, row |-> row]
  /\ \A i \in DOMAIN vs : i # id => ws[i] = vs[i]

(* Writing does that.                                                      *)
LEMMA Written ==
  ASSUME NEW vs, NEW id, NEW row \in Row, NEW t \in Nat, ChainAt(vs, id) \in Seq(Version)
  PROVE  Adds(write(vs, id, row, t), vs, id, row, t)
<1> DEFINE version == [createdBy |-> t, deletedBy |-> NoTransaction, row |-> row]
<1>1. version \in Version
  BY DEF Version
<1>2. /\ DOMAIN write(vs, id, row, t) = DOMAIN vs \cup {id}
      /\ write(vs, id, row, t)[id] = Append(ChainAt(vs, id), version)
      /\ \A i \in DOMAIN vs : i # id => write(vs, id, row, t)[i] = vs[i]
  BY DEF write, ChainAt
<1> HIDE DEF version
<1>3. /\ Append(ChainAt(vs, id), version) \in Seq(Version)
      /\ Len(Append(ChainAt(vs, id), version)) = Len(ChainAt(vs, id)) + 1
      /\ Len(ChainAt(vs, id)) \in Nat
      /\ \A k \in 1..Len(ChainAt(vs, id)) :
           Append(ChainAt(vs, id), version)[k] = ChainAt(vs, id)[k]
      /\ Append(ChainAt(vs, id), version)[Len(ChainAt(vs, id)) + 1] = version
  BY <1>1
<1>4. Append(ChainAt(vs, id), version) # << >>
  BY <1>3
<1>5. QED
  BY <1>2, <1>3, <1>4 DEF version, Adds

(* Erasing marks the newest version of one chain, and nothing else.        *)
LEMMA Marked ==
  ASSUME NEW vs, NEW id \in DOMAIN vs, NEW t \in Nat, vs[id] \in Seq(Version) \ {<< >>}
  PROVE  /\ DOMAIN eraseVersion(vs, id, t) = DOMAIN vs
         /\ eraseVersion(vs, id, t)[id] \in Seq(Version) \ {<< >>}
         /\ DOMAIN eraseVersion(vs, id, t)[id] = DOMAIN vs[id]
         /\ \A k \in DOMAIN vs[id] :
              eraseVersion(vs, id, t)[id][k].createdBy = vs[id][k].createdBy
         /\ \A i \in DOMAIN vs : i # id => eraseVersion(vs, id, t)[i] = vs[i]
<1> DEFINE last == Len(vs[id])
           version == [vs[id][last] EXCEPT !.deletedBy = t]
           chain == [vs[id] EXCEPT ![last] = version]
<1>1. /\ DOMAIN eraseVersion(vs, id, t) = DOMAIN vs
      /\ eraseVersion(vs, id, t)[id] = chain
      /\ \A i \in DOMAIN vs : i # id => eraseVersion(vs, id, t)[i] = vs[i]
  BY DEF eraseVersion
<1>2. last \in 1..Len(vs[id]) /\ vs[id][last] \in Version
  OBVIOUS
<1>3. version \in Version /\ version.createdBy = vs[id][last].createdBy
  BY <1>2 DEF Version
<1> HIDE DEF version, last
<1>4. /\ chain \in Seq(Version) /\ Len(chain) = Len(vs[id])
      /\ DOMAIN chain = DOMAIN vs[id]
      /\ \A k \in DOMAIN vs[id] : chain[k] = IF k = last THEN version ELSE vs[id][k]
  BY <1>2, <1>3
<1>5. chain # << >>
  BY <1>4
<1>6. \A k \in DOMAIN vs[id] : chain[k].createdBy = vs[id][k].createdBy
  BY <1>3, <1>4
<1> HIDE DEF chain
<1>7. QED
  BY <1>1, <1>4, <1>5, <1>6

(* No version of a chain is of the future, and one is there to be read.    *)
LEMMA CreatedBefore ==
  ASSUME NEW vs, NEW t, ChainsOf(vs, t), NEW i \in DOMAIN vs, NEW k \in DOMAIN vs[i]
  PROVE  vs[i][k].createdBy < t /\ vs[i][k].createdBy \in Nat
<1>1. vs[i] \in Seq(Version) /\ vs[i][k].createdBy < t
  BY DEF ChainsOf
<1>2. vs[i][k] \in Version
  BY <1>1
<1>3. QED
  BY <1>1, <1>2 DEF Version

LEMMA WriteKeepsChains ==
  ASSUME NEW vs, NEW id, NEW row \in Row, NEW t \in Nat, ChainsOf(vs, t)
  PROVE  ChainsOf(write(vs, id, row, t), t + 1) /\ ChainAt(vs, id) \in Seq(Version)
<1>1. ChainAt(vs, id) \in Seq(Version)
  BY DEF ChainAt, ChainsOf
<1> DEFINE ws == write(vs, id, row, t)
<1>2. /\ DOMAIN ws = DOMAIN vs \cup {id}
      /\ ws[id] \in Seq(Version) \ {<< >>}
      /\ Len(ws[id]) = Len(ChainAt(vs, id)) + 1
      /\ \A k \in 1..Len(ChainAt(vs, id)) : ws[id][k] = ChainAt(vs, id)[k]
      /\ ws[id][Len(ChainAt(vs, id)) + 1]
           = [createdBy |-> t, deletedBy |-> NoTransaction, row |-> row]
      /\ \A i \in DOMAIN vs : i # id => ws[i] = vs[i]
  <2>1. Adds(ws, vs, id, row, t)
    BY <1>1, Written
  <2>2. QED
    BY <2>1 DEF Adds
<1> HIDE DEF ws
<1>3. ASSUME NEW k \in DOMAIN ws[id]
      PROVE  ws[id][k].createdBy < t + 1
  <2>1. k \in 1..(Len(ChainAt(vs, id)) + 1) /\ Len(ChainAt(vs, id)) \in Nat
    BY <1>1, <1>2
  <2>2. CASE k = Len(ChainAt(vs, id)) + 1
    BY <1>2, <2>2
  <2>3. CASE k \in 1..Len(ChainAt(vs, id))
    <3>1. id \in DOMAIN vs /\ ChainAt(vs, id) = vs[id] /\ k \in DOMAIN vs[id]
      BY <1>1, <2>3 DEF ChainAt
    <3>2. vs[id][k].createdBy < t /\ vs[id][k].createdBy \in Nat
      BY <3>1, CreatedBefore
    <3>3. QED
      BY <1>2, <2>3, <3>1, <3>2
  <2>4. QED
    BY <2>1, <2>2, <2>3
<1>4. ASSUME NEW i \in DOMAIN vs, i # id
      PROVE  /\ ws[i] \in Seq(Version) \ {<< >>}
             /\ \A k \in DOMAIN ws[i] : ws[i][k].createdBy < t + 1
  <2>1. ws[i] = vs[i]
    BY <1>2, <1>4
  <2>2. \A k \in DOMAIN vs[i] : vs[i][k].createdBy < t /\ vs[i][k].createdBy \in Nat
    BY CreatedBefore
  <2>3. \A k \in DOMAIN vs[i] : vs[i][k].createdBy < t + 1
    BY <2>2
  <2>4. QED
    BY <2>1, <2>3 DEF ChainsOf
<1>5. ChainsOf(ws, t + 1)
  BY <1>2, <1>3, <1>4 DEF ChainsOf
<1>6. QED
  BY <1>1, <1>5 DEF ws

(* Erasing keeps them so.                                                  *)
LEMMA EraseKeepsChains ==
  ASSUME NEW vs, NEW id \in DOMAIN vs, NEW t \in Nat, ChainsOf(vs, t)
  PROVE  ChainsOf(eraseVersion(vs, id, t), t + 1) /\ DOMAIN eraseVersion(vs, id, t) = DOMAIN vs
<1> DEFINE ws == eraseVersion(vs, id, t)
<1>1. vs[id] \in Seq(Version) \ {<< >>}
  BY DEF ChainsOf
<1>2. /\ DOMAIN ws = DOMAIN vs
      /\ ws[id] \in Seq(Version) \ {<< >>}
      /\ DOMAIN ws[id] = DOMAIN vs[id]
      /\ \A k \in DOMAIN vs[id] : ws[id][k].createdBy = vs[id][k].createdBy
      /\ \A i \in DOMAIN vs : i # id => ws[i] = vs[i]
  BY <1>1, Marked
<1> HIDE DEF ws
<1>3. \A i \in DOMAIN vs : \A k \in DOMAIN vs[i] :
        vs[i][k].createdBy < t /\ vs[i][k].createdBy \in Nat
  BY CreatedBefore
<1>4. \A i \in DOMAIN vs : \A k \in DOMAIN vs[i] : vs[i][k].createdBy < t + 1
  BY <1>3
<1>5. ASSUME NEW i \in DOMAIN vs
      PROVE  /\ ws[i] \in Seq(Version) \ {<< >>}
             /\ \A k \in DOMAIN ws[i] : ws[i][k].createdBy < t + 1
  <2>1. CASE i = id
    BY <1>2, <1>4, <2>1
  <2>2. CASE i # id
    BY <1>2, <1>4, <2>2 DEF ChainsOf
  <2>3. QED
    BY <2>1, <2>2
<1>6. ChainsOf(ws, t + 1)
  BY <1>2, <1>5 DEF ChainsOf
<1>7. QED
  BY <1>2, <1>6 DEF ws

(* The chains stay well formed, and the newest versions are the rows until *)
(* something is erased.                                                    *)
LEMMA ChainStep == RowsInv /\ ChainInv /\ [Next]_vars => ChainInv'
<1> SUFFICES ASSUME RowsInv, ChainInv, [Next]_vars PROVE ChainInv'
  OBVIOUS
<1>0. /\ rows \in Seq(Row) /\ Len(rows) \in Nat /\ rows' \in Seq(Row) /\ Len(rows') \in Nat
      /\ nextVersion \in Nat \ {0} /\ ChainsOf(versions_, nextVersion)
      /\ nextVersion + 1 \in Nat \ {0}
  BY RowsStep DEF RowsInv, ChainInv
<1>e. erased \in BOOLEAN
  BY Zenon DEF ChainInv
<1>n. PICK n \in Nat : n >= Len(rows) /\ DOMAIN versions_ = 0..(n - 1)
  BY DEF ChainInv
\* Insert and update write one row's version.
<1>1. ASSUME NEW id \in 0..Len(rows), NEW row \in Row,
             versions_' = write(versions_, id, row, nextVersion),
             nextVersion' = nextVersion + 1, erased' = erased,
             Len(rows') = IF id = Len(rows) THEN Len(rows) + 1 ELSE Len(rows),
             rows'[id + 1] = row, \A i \in 1..Len(rows) : i # id + 1 => rows'[i] = rows[i]
      PROVE  ChainInv'
  <2>1. ChainAt(versions_, id) \in Seq(Version) /\ ChainsOf(versions_', nextVersion')
    BY <1>0, <1>1, WriteKeepsChains
  <2>2. Adds(versions_', versions_, id, row, nextVersion)
    BY <1>0, <1>1, <2>1, Written
  <2>3. DOMAIN versions_' = DOMAIN versions_ \cup {id}
    BY <2>2 DEF Adds
  <2>4. \E m \in Nat : m >= Len(rows') /\ DOMAIN versions_' = 0..(m - 1)
    <3>1. CASE id < n
      <4>1. DOMAIN versions_' = 0..(n - 1) /\ n >= Len(rows')
        BY <1>0, <1>1, <1>n, <2>3, <3>1
      <4>2. QED
        BY <4>1
    <3>2. CASE ~(id < n)
      <4>1. n + 1 \in Nat /\ DOMAIN versions_' = 0..((n + 1) - 1) /\ n + 1 >= Len(rows')
        BY <1>0, <1>1, <1>n, <2>3, <3>2
      <4>2. QED
        BY <4>1
    <3>3. QED
      BY <3>1, <3>2
  <2>5. ASSUME ~erased
        PROVE  /\ DOMAIN versions_' = 0..(Len(rows') - 1)
               /\ \A i \in DOMAIN versions_' :
                    Newest(i)'.deletedBy = NoTransaction /\ Newest(i)'.row = rows'[i + 1]
    <3>1. /\ DOMAIN versions_ = 0..(Len(rows) - 1)
          /\ \A i \in DOMAIN versions_ :
               Newest(i).deletedBy = NoTransaction /\ Newest(i).row = rows[i + 1]
      BY <2>5 DEF ChainInv
    <3>2. DOMAIN versions_' = 0..(Len(rows') - 1)
      BY <1>0, <1>1, <2>3, <3>1
    <3>3. versions_'[id][Len(versions_'[id])]
            = [createdBy |-> nextVersion, deletedBy |-> NoTransaction, row |-> row]
      BY <2>2 DEF Adds
    <3>4. ASSUME NEW i \in DOMAIN versions_', i # id
          PROVE  versions_'[i] = versions_[i] /\ i \in DOMAIN versions_ /\ rows'[i + 1] = rows[i + 1]
      <4>1. i \in DOMAIN versions_
        BY <2>3, <3>4
      <4>2. i + 1 \in 1..Len(rows) /\ i + 1 # id + 1
        BY <1>0, <3>1, <3>4, <4>1
      <4>3. QED
        BY <1>1, <2>2, <3>4, <4>1, <4>2 DEF Adds
    <3>5. ASSUME NEW i \in DOMAIN versions_'
          PROVE  Newest(i)'.deletedBy = NoTransaction /\ Newest(i)'.row = rows'[i + 1]
      <4>1. CASE i = id
        BY <1>1, <3>3, <4>1 DEF Newest
      <4>2. CASE i # id
        BY <3>1, <3>4, <4>2 DEF Newest
      <4>3. QED
        BY <4>1, <4>2
    <3>6. QED
      BY <3>2, <3>5
  <2>6. erased' \in BOOLEAN
    BY <1>1, <1>e
  <2>7. nextVersion' \in Nat \ {0}
    BY <1>0, <1>1
  <2>8. QED
    BY <1>1, <2>1, <2>4, <2>5, <2>6, <2>7, Zenon DEF ChainInv
<1>2. ASSUME NEW row \in Inserted, insert(row)
      PROVE  ChainInv'
  <2>1. /\ row \in Row /\ rows' = Append(rows, row) /\ erased' = erased
        /\ versions_' = write(versions_, Len(rows), row, nextVersion)
        /\ nextVersion' = nextVersion + 1
    BY <1>2 DEF insert, Fits
  <2>2. /\ Len(rows') = Len(rows) + 1 /\ rows'[Len(rows) + 1] = row
        /\ \A i \in 1..Len(rows) : rows'[i] = rows[i]
    BY <1>0, <2>1
  <2>3. QED
    BY <1>0, <1>1, <2>1, <2>2
<1>3. ASSUME NEW id \in RowId, NEW c \in Columns, NEW v \in Value, update(id, c, v)
      PROVE  ChainInv'
  <2>1. /\ id + 1 \in 1..Len(rows) /\ erased' = erased /\ nextVersion' = nextVersion + 1
        /\ rows' = [rows EXCEPT ![id + 1] = [rows[id + 1] EXCEPT ![c] = v]]
        /\ versions_' = write(versions_, id, rows'[id + 1], nextVersion)
    BY <1>0, <1>3, BoundsAssumption DEF update, RowId
  <2>2. id \in 0..Len(rows) /\ id # Len(rows)
    BY <1>0, <1>3, <2>1, BoundsAssumption DEF RowId
  <2>3. DOMAIN rows' = 1..Len(rows) /\ \A i \in 1..Len(rows) : i # id + 1 => rows'[i] = rows[i]
    BY <1>0, <2>1
  <2>4. Len(rows') = Len(rows) /\ rows'[id + 1] \in Row
    BY <1>0, <2>1, <2>3
  <2>5. QED
    BY <1>1, <2>1, <2>2, <2>3, <2>4
<1>4. ASSUME NEW id \in RowId, erase(id)
      PROVE  ChainInv'
  <2>1. /\ id \in 0..(Len(rows) - 1) /\ rows' = RemoveRow(rows, id) /\ erased' = TRUE
        /\ versions_' = eraseVersion(versions_, id, nextVersion)
        /\ nextVersion' = nextVersion + 1
    BY <1>0, <1>4 DEF erase, RowId
  <2>2. Len(rows') = Len(rows) - 1
    BY <1>0, <2>1, RowRemoved
  <2>3. id \in DOMAIN versions_ /\ n >= Len(rows')
    BY <1>0, <1>n, <2>1, <2>2
  <2>4. ChainsOf(versions_', nextVersion') /\ DOMAIN versions_' = DOMAIN versions_
    BY <1>0, <2>1, <2>3, EraseKeepsChains
  <2>5. \E m \in Nat : m >= Len(rows') /\ DOMAIN versions_' = 0..(m - 1)
    BY <1>n, <2>3, <2>4
  <2>6. nextVersion' \in Nat \ {0} /\ erased' \in BOOLEAN
    BY <1>0, <2>1
  <2>7. QED
    BY <2>1, <2>4, <2>5, <2>6, Zenon DEF ChainInv
<1>5. ASSUME NEW n1 \in IndexName, NEW c \in Columns, createIndex(n1, c)
      PROVE  ChainInv'
  BY <1>5 DEF createIndex, ChainInv, Newest, ChainsOf
<1>6. ASSUME NEW k \in 0..Len(rows), replaceRows(SubSeq(rows, k + 1, Len(rows)))
      PROVE  ChainInv'
  <2> DEFINE rs == SubSeq(rows, k + 1, Len(rows))
  <2>1. /\ rows' = rs /\ erased' = FALSE /\ nextVersion' = Len(rs) + 1
        /\ versions_' = [id \in 0..(Len(rs) - 1) |->
             <<[createdBy |-> id + 1, deletedBy |-> NoTransaction, row |-> rs[id + 1]]>>]
    BY <1>6 DEF replaceRows
  <2> HIDE DEF rs
  <2>2. rs \in Seq(Row) /\ Len(rs) \in Nat
    BY <1>0, <2>1
  <2>3. ASSUME NEW id \in 0..(Len(rs) - 1)
        PROVE  /\ versions_'[id] \in Seq(Version) \ {<< >>}
               /\ \A j \in DOMAIN versions_'[id] : versions_'[id][j].createdBy < Len(rs) + 1
               /\ versions_'[id][Len(versions_'[id])].deletedBy = NoTransaction
               /\ versions_'[id][Len(versions_'[id])].row = rs[id + 1]
    <3> DEFINE version == [createdBy |-> id + 1, deletedBy |-> NoTransaction, row |-> rs[id + 1]]
    <3>1. rs[id + 1] \in Row
      BY <2>2
    <3>2. version \in Version /\ version.createdBy = id + 1
      BY <3>1 DEF Version
    <3>3. versions_'[id] = <<version>>
      BY <2>1
    <3>4. version.deletedBy = NoTransaction /\ version.row = rs[id + 1]
      OBVIOUS
    <3> HIDE DEF version
    <3>5. <<version>> \in Seq(Version) \ {<< >>} /\ Len(<<version>>) = 1 /\ <<version>>[1] = version
      BY <3>2
    <3>6. QED
      BY <2>2, <3>2, <3>3, <3>4, <3>5
  <2>4. DOMAIN versions_' = 0..(Len(rs) - 1) /\ Len(rs) >= Len(rows')
    BY <2>1, <2>2
  <2>5. ChainsOf(versions_', nextVersion')
    BY <2>1, <2>3, <2>4 DEF ChainsOf
  <2>6. \E m \in Nat : m >= Len(rows') /\ DOMAIN versions_' = 0..(m - 1)
    BY <2>2, <2>4
  <2>7. nextVersion' \in Nat \ {0}
    BY <2>1, <2>2
  <2>8. \A id \in DOMAIN versions_' :
          Newest(id)'.deletedBy = NoTransaction /\ Newest(id)'.row = rows'[id + 1]
    BY <2>1, <2>3, <2>4 DEF Newest
  <2>9. erased' \in BOOLEAN
    BY <2>1
  <2>10. DOMAIN versions_' = 0..(Len(rows') - 1)
    BY <2>1, <2>4
  <2>11. QED
    BY <2>5, <2>6, <2>7, <2>8, <2>9, <2>10, Zenon DEF ChainInv
<1>7. CASE UNCHANGED vars
  BY <1>7 DEF vars, ChainInv, Newest, ChainsOf
<1>8. QED
  BY <1>2, <1>3, <1>4, <1>5, <1>6, <1>7
     DEF Next, Insert, Erase, Update, CreateIndex, ReplaceRows

-----------------------------------------------------------------------------
(* The invariant, and what follows from it at once.                        *)

LEMMA NextInv == TableInv /\ [Next]_vars => TableInv'
BY RowsStep, IndexStep, ChainStep DEF TableInv

LEMMA InvHolds == Spec => []TableInv
BY InitInv, NextInv, PTL DEF Spec

LEMMA InvTyped == TableInv => TypeOK
<1> SUFFICES ASSUME TableInv PROVE TypeOK
  OBVIOUS
<1>1. RowsInv /\ IndexInv /\ ChainInv
  BY DEF TableInv
<1>2. rows \in Seq(Row) /\ Len(rows) <= MaxRows
  BY <1>1 DEF RowsInv
<1>3. \A id \in DOMAIN versions_ : id \in Nat /\ versions_[id] \in Seq(Version)
  BY <1>1 DEF ChainInv, ChainsOf
<1>4. nextVersion \in Nat \ {0}
  BY <1>1 DEF ChainInv
<1>5. ASSUME NEW n \in DOMAIN indexColumns_
      PROVE  IsEntries(indexes_[n]) /\ IsEntries(orderedIndexes_[n].entries_)
  <2>1. /\ indexColumns_[n] \in Columns /\ orderedIndexes_[n].entries_ = indexes_[n]
        /\ ListsFirst(indexes_[n], rows, indexColumns_[n], Len(rows))
    BY <1>1, TreeEntries DEF IndexInv
  <2>2. QED
    BY <1>2, <2>1, ListsAll
<1>6. erased \in BOOLEAN
  BY <1>1, Zenon DEF ChainInv
<1>7. QED
  BY <1>1, <1>2, <1>3, <1>4, <1>5, <1>6, Zenon DEF TypeOK, IndexInv

(* The state of a table stays well formed: no operation lets the three     *)
(* maps that describe the indexes drift apart.                             *)
THEOREM TableTypeCorrect == Spec => []TypeOK
BY InvHolds, InvTyped, PTL

(* Every stored row fits the schema.                                       *)
THEOREM TableRowsFitSchema == Spec => []RowsFitSchema
<1>1. TableInv => RowsFitSchema
  BY DEF TableInv, RowsInv
<1>2. QED
  BY <1>1, InvHolds, PTL

(* Every index lists every row once, under its value and in row order, and *)
(* nothing else: whatever was inserted, updated, erased and reloaded, and  *)
(* whenever the index was created.                                         *)
THEOREM IndexesAreExact == Spec => []IndexExact
<1>1. ASSUME TableInv PROVE IndexExact
  <2>1. RowsInv /\ IndexInv
    BY <1>1 DEF TableInv
  <2>2. rows \in Seq(Row) /\ Len(rows) <= MaxRows
    BY <2>1 DEF RowsInv
  <2>3. ASSUME NEW n \in DOMAIN indexColumns_
        PROVE  /\ Lists(indexes_[n], rows, indexColumns_[n])
               /\ Lists(orderedIndexes_[n].entries_, rows, indexColumns_[n])
    <3>1. /\ indexColumns_[n] \in Columns /\ orderedIndexes_[n].entries_ = indexes_[n]
          /\ ListsFirst(indexes_[n], rows, indexColumns_[n], Len(rows))
      BY <2>1, TreeEntries DEF IndexInv
    <3>2. QED
      BY <2>2, <3>1, ListsAll
  <2>4. QED
    BY <2>3 DEF IndexExact
<1>2. TableInv => IndexExact
  BY <1>1
<1>3. QED
  BY <1>2, InvHolds, PTL

-----------------------------------------------------------------------------
(* Reading through the chains.                                             *)

\* The functions visibleRows defines.
IsPassed(g, vs, reader, count) ==
  g = [n \in 0..count |->
         IF n = 0 THEN << >>
         ELSE IF read(vs, n - 1, reader) = NoRow THEN g[n - 1]
         ELSE Append(g[n - 1], read(vs, n - 1, reader))]

(* What visibleRows computes: there is such a function.                    *)
LEMMA Passed ==
  ASSUME NEW vs, NEW reader, NEW count \in Nat, DOMAIN vs = 0..(count - 1)
  PROVE  \E g : IsPassed(g, vs, reader, count) /\ visibleRows(vs, reader) = g[count]
<1> DEFINE S == {m \in Nat : \E g : IsPassed(g, vs, reader, m)}
<1>1. 0 \in S
  <2>1. IsPassed([n \in 0..0 |-> << >>], vs, reader, 0)
    BY DEF IsPassed
  <2>2. QED
    BY <2>1
<1>2. ASSUME NEW m \in Nat, m \in S
      PROVE  m + 1 \in S
  <2>1. PICK g : IsPassed(g, vs, reader, m)
    BY <1>2
  <2> DEFINE more == IF read(vs, m, reader) = NoRow THEN g[m] ELSE Append(g[m], read(vs, m, reader))
             h == [n \in 0..(m + 1) |-> IF n <= m THEN g[n] ELSE more]
  <2>2. ASSUME NEW n \in 0..(m + 1)
        PROVE  h[n] = IF n = 0 THEN << >>
                      ELSE IF read(vs, n - 1, reader) = NoRow THEN h[n - 1]
                      ELSE Append(h[n - 1], read(vs, n - 1, reader))
    <3>1. CASE n <= m
      <4>0. n \in 0..m
        BY <3>1
      <4>1. g[n] = IF n = 0 THEN << >>
                   ELSE IF read(vs, n - 1, reader) = NoRow THEN g[n - 1]
                   ELSE Append(g[n - 1], read(vs, n - 1, reader))
        BY <2>1, <4>0, Zenon DEF IsPassed
      <4>2. h[n] = g[n] /\ (n # 0 => h[n - 1] = g[n - 1])
        BY <3>1
      <4> HIDE DEF h
      <4>3. QED
        BY <4>1, <4>2
    <3>2. CASE n = m + 1
      BY <3>2
    <3>3. QED
      BY <3>1, <3>2
  <2>3. IsPassed(h, vs, reader, m + 1)
    BY <2>2 DEF IsPassed
  <2>4. \E f : IsPassed(f, vs, reader, m + 1)
    <3> HIDE DEF h
    <3>1. QED
      BY <2>3
  <2>5. QED
    BY <2>4
<1>3. \A m \in Nat : m \in S
  <2> HIDE DEF S
  <2>1. QED
    BY <1>1, <1>2, SetInduction
<1>4. \E g : IsPassed(g, vs, reader, count)
  BY <1>3
<1>5. Cardinality(DOMAIN vs) = count
  <2>1. Cardinality(0..(count - 1)) = IF 0 > count - 1 THEN 0 ELSE (count - 1) - 0 + 1
    BY FS_Interval
  <2>2. QED
    BY <2>1
<1>6. visibleRows(vs, reader) = (CHOOSE g : IsPassed(g, vs, reader, count))[count]
  BY <1>5 DEF visibleRows, IsPassed
<1>7. QED
  BY <1>4, <1>6

(* One step of those functions.                                            *)
LEMMA PassedStep ==
  ASSUME NEW g, NEW vs, NEW reader, NEW count \in Nat, IsPassed(g, vs, reader, count)
  PROVE  /\ g[0] = << >>
         /\ \A n \in 0..(count - 1) :
              g[n + 1] = IF read(vs, n, reader) = NoRow THEN g[n]
                         ELSE Append(g[n], read(vs, n, reader))
<1>1. \A n \in 0..count :
        g[n] = IF n = 0 THEN << >>
               ELSE IF read(vs, n - 1, reader) = NoRow THEN g[n - 1]
               ELSE Append(g[n - 1], read(vs, n - 1, reader))
  BY Zenon DEF IsPassed
<1>2. ASSUME NEW n \in 0..(count - 1)
      PROVE  g[n + 1] = IF read(vs, n, reader) = NoRow THEN g[n]
                        ELSE Append(g[n], read(vs, n, reader))
  <2>1. n + 1 \in 0..count /\ n + 1 # 0 /\ (n + 1) - 1 = n
    OBVIOUS
  <2>2. QED
    BY <1>1, <2>1
<1>3. 0 \in 0..count
  OBVIOUS
<1>4. QED
  BY <1>1, <1>2, <1>3

(* A reader later than every version reads the newest version that is not  *)
(* marked.                                                                 *)
LEMMA ReadNewest ==
  ASSUME NEW vs, NEW id \in DOMAIN vs, NEW reader \in Nat, ChainsOf(vs, reader),
         vs[id][Len(vs[id])].deletedBy = NoTransaction
  PROVE  read(vs, id, reader) = vs[id][Len(vs[id])].row
<1> DEFINE chain == vs[id]
           last == Len(chain)
           visible == {k \in DOMAIN chain :
                         /\ chain[k].createdBy <= reader
                         /\ chain[k].deletedBy = NoTransaction \/ chain[k].deletedBy > reader}
<1>1. chain \in Seq(Version) /\ chain # << >>
  BY DEF ChainsOf
<1>2. last \in DOMAIN chain /\ last \in Nat /\ \A k \in DOMAIN chain : k \in Nat /\ k <= last
  BY <1>1
<1>3. chain[last].createdBy <= reader
  <2>1. chain[last].createdBy < reader /\ chain[last].createdBy \in Nat
    BY <1>2, CreatedBefore
  <2>2. QED
    BY <2>1
<1>4. last \in visible
  BY <1>2, <1>3
<1>5. \A k \in visible : (\A j \in visible : j <= k) => k = last
  BY <1>2, <1>4
<1>6. \A j \in visible : j <= last
  BY <1>2
<1>7. read(vs, id, reader)
        = IF visible = {} THEN NoRow
          ELSE chain[CHOOSE k \in visible : \A j \in visible : j <= k].row
  BY DEF read
<1> HIDE DEF visible, chain, last
<1>8. (CHOOSE k \in visible : \A j \in visible : j <= k) = last
  BY <1>4, <1>5, <1>6
<1>9. read(vs, id, reader) = chain[last].row
  BY <1>4, <1>7, <1>8
<1>10. QED
  BY <1>9 DEF chain, last

(* While nothing has been erased a row is read through its chain as it is. *)
LEMMA NewestIsRow ==
  ASSUME TableInv, ~erased, NEW n \in 0..(Len(rows) - 1)
  PROVE  read(versions_, n, nextVersion) = rows[n + 1] /\ rows[n + 1] # NoRow
<1>0. /\ rows \in Seq(Row) /\ Len(rows) \in Nat /\ nextVersion \in Nat
      /\ DOMAIN versions_ = 0..(Len(rows) - 1) /\ ChainsOf(versions_, nextVersion)
  BY DEF TableInv, RowsInv, ChainInv
<1>1. n \in DOMAIN versions_ /\ n + 1 \in 1..Len(rows)
  BY <1>0
<1>2. /\ versions_[n][Len(versions_[n])].deletedBy = NoTransaction
      /\ versions_[n][Len(versions_[n])].row = rows[n + 1]
  BY <1>1 DEF TableInv, ChainInv, Newest
<1>3. read(versions_, n, nextVersion) = versions_[n][Len(versions_[n])].row
  BY <1>0, <1>1, <1>2, ReadNewest
<1>4. rows[n + 1] \in Row
  BY <1>0, <1>1
<1>5. QED
  BY <1>2, <1>3, <1>4, NoRowAssumption DEF Row

(* While nothing has been erased the chains give the rows.                 *)
LEMMA ChainsGiveRows ==
  ASSUME TableInv, ~erased
  PROVE  visibleRows(versions_, nextVersion) = rows
<1>1. /\ rows \in Seq(Row) /\ Len(rows) \in Nat /\ nextVersion \in Nat
      /\ DOMAIN versions_ = 0..(Len(rows) - 1) /\ ChainsOf(versions_, nextVersion)
  BY DEF TableInv, RowsInv, ChainInv
<1>2. ASSUME NEW n \in 0..(Len(rows) - 1)
      PROVE  read(versions_, n, nextVersion) = rows[n + 1] /\ rows[n + 1] # NoRow
  BY NewestIsRow
<1>3. PICK g : /\ IsPassed(g, versions_, nextVersion, Len(rows))
               /\ visibleRows(versions_, nextVersion) = g[Len(rows)]
  BY <1>1, Passed
<1>4. /\ g[0] = << >>
      /\ \A n \in 0..(Len(rows) - 1) :
           g[n + 1] = IF read(versions_, n, nextVersion) = NoRow THEN g[n]
                      ELSE Append(g[n], read(versions_, n, nextVersion))
  BY <1>1, <1>3, PassedStep
<1> DEFINE S == {n \in Nat : n <= Len(rows) =>
                   g[n] \in Seq(Row) /\ Len(g[n]) = n /\ \A i \in 1..n : g[n][i] = rows[i]}
<1>5. 0 \in S
  <2>1. g[0] = << >>
    BY <1>4
  <2>2. g[0] \in Seq(Row) /\ Len(g[0]) = 0
    BY <2>1
  <2>3. \A i \in 1..0 : g[0][i] = rows[i]
    OBVIOUS
  <2>4. QED
    BY <2>2, <2>3
<1>6. ASSUME NEW n \in Nat, n \in S
      PROVE  n + 1 \in S
  <2>1. SUFFICES ASSUME n + 1 <= Len(rows)
                 PROVE  /\ g[n + 1] \in Seq(Row) /\ Len(g[n + 1]) = n + 1
                        /\ \A i \in 1..(n + 1) : g[n + 1][i] = rows[i]
    OBVIOUS
  <2>2. g[n] \in Seq(Row) /\ Len(g[n]) = n /\ \A i \in 1..n : g[n][i] = rows[i]
    BY <1>1, <1>6, <2>1
  <2>3. n \in 0..(Len(rows) - 1) /\ rows[n + 1] \in Row
    BY <1>1, <2>1
  <2>4. g[n + 1] = Append(g[n], rows[n + 1])
    BY <1>2, <1>4, <2>3
  <2>5. QED
    BY <2>2, <2>3, <2>4
<1>7. \A n \in Nat : n \in S
  <2> HIDE DEF S
  <2>1. QED
    BY <1>5, <1>6, SetInduction
<1>8. /\ g[Len(rows)] \in Seq(Row) /\ Len(g[Len(rows)]) = Len(rows)
      /\ \A i \in 1..Len(rows) : g[Len(rows)][i] = rows[i]
  BY <1>1, <1>7
<1>9. g[Len(rows)] = rows
  BY <1>1, <1>8, SeqEqual
<1>10. QED
  BY <1>3, <1>9

(* While nothing has been erased the version chains read like the rows.    *)
THEOREM VersionsReadAsRows == Spec => []VersionsAgree
<1>1. TableInv => VersionsAgree
  BY ChainsGiveRows DEF VersionsAgree
<1>2. QED
  BY <1>1, InvHolds, PTL

(* A version that is written is invisible to earlier readers: each chain   *)
(* reads for them as it did.                                               *)
LEMMA WriteIsInvisible ==
  ASSUME NEW vs, NEW id, NEW row \in Row, NEW t \in Nat, ChainsOf(vs, t),
         NEW reader \in Nat, reader < t, NEW i
  PROVE  read(write(vs, id, row, t), i, reader) = read(vs, i, reader)
<1> DEFINE ws == write(vs, id, row, t)
<1>1. ChainAt(vs, id) \in Seq(Version)
  BY WriteKeepsChains
<1>2. Adds(ws, vs, id, row, t)
  BY <1>1, Written
<1> HIDE DEF ws
<1>3. DOMAIN ws = DOMAIN vs \cup {id}
  BY <1>2 DEF Adds
<1> DEFINE Visible(chain) ==
      {k \in DOMAIN chain :
         /\ chain[k].createdBy <= reader
         /\ chain[k].deletedBy = NoTransaction \/ chain[k].deletedBy > reader}
<1> DEFINE Top(V) == CHOOSE k \in V : \A j \in V : j <= k
<1>4. \A us : read(us, i, reader) = IF i \notin DOMAIN us \/ Visible(us[i]) = {} THEN NoRow
                                   ELSE us[i][Top(Visible(us[i]))].row
  BY DEF read
<1>5. CASE i # id
  <2>1. i \in DOMAIN ws <=> i \in DOMAIN vs
    BY <1>3, <1>5
  <2>2. i \in DOMAIN vs => ws[i] = vs[i]
    BY <1>2, <1>5 DEF Adds
  <2> HIDE DEF Visible, Top
  <2>3. read(ws, i, reader) = read(vs, i, reader)
    BY <1>4, <2>1, <2>2
  <2>4. QED
    BY <2>3 DEF ws
<1>6. CASE i = id
  <2> DEFINE last == Len(ChainAt(vs, id)) + 1
  <2>1. /\ DOMAIN ws[id] = 1..last /\ last \in Nat /\ last # 0
        /\ DOMAIN ChainAt(vs, id) = 1..(last - 1)
        /\ \A k \in 1..(last - 1) : ws[id][k] = ChainAt(vs, id)[k]
        /\ ws[id][last].createdBy = t
    BY <1>1, <1>2 DEF Adds
  <2> HIDE DEF last
  <2>2. ~(t <= reader)
    OBVIOUS
  <2>3. Visible(ws[id]) = Visible(ChainAt(vs, id))
    <3>1. last \notin Visible(ws[id])
      BY <2>1, <2>2
    <3>2. \A k \in 1..last : k # last => k \in 1..(last - 1)
      BY <2>1
    <3>3. \A k \in 1..(last - 1) : k \in 1..last
      BY <2>1
    <3>4. QED
      BY <2>1, <3>1, <3>2, <3>3
  <2>4. Visible(ws[id]) \subseteq 1..(last - 1)
    BY <2>1, <2>3
  <2>5. id \in DOMAIN ws
    BY <1>3
  <2>6. CASE Visible(ws[id]) = {}
    <3>1. read(ws, i, reader) = NoRow
      BY <1>4, <1>6, <2>6
    <3>2. read(vs, i, reader) = NoRow
      BY <1>4, <1>6, <2>3, <2>6 DEF ChainAt
    <3>3. QED
      BY <3>1, <3>2 DEF ws
  <2>7. CASE Visible(ws[id]) # {}
    <3>1. id \in DOMAIN vs /\ ChainAt(vs, id) = vs[id]
      <4>1. ChainAt(vs, id) # << >>
        BY <2>1, <2>4, <2>7
      <4>2. QED
        BY <4>1 DEF ChainAt
    <3>2. last - 1 \in Nat /\ Visible(ws[id]) \subseteq 0..(last - 1)
      BY <2>1, <2>4
    <3> HIDE DEF Visible
    <3>3. Top(Visible(ws[id])) \in 1..(last - 1)
      <4>1. \E k \in Visible(ws[id]) : \A j \in Visible(ws[id]) : j <= k
        BY <2>7, <3>2, GreatestNatural
      <4>2. Top(Visible(ws[id])) \in Visible(ws[id])
        BY <4>1
      <4>3. QED
        BY <2>4, <4>2
    <3> HIDE DEF Top
    <3>4. read(ws, i, reader) = ws[id][Top(Visible(ws[id]))].row
      BY <1>4, <1>6, <2>5, <2>7
    <3>5. read(vs, i, reader) = vs[id][Top(Visible(ws[id]))].row
      BY <1>4, <1>6, <2>3, <2>7, <3>1
    <3>6. QED
      BY <2>1, <3>1, <3>3, <3>4, <3>5 DEF ws
  <2>8. QED
    BY <2>6, <2>7
<1>7. QED
  BY <1>5, <1>6

(* A reader for whom every chain reads the same, and new chains read as    *)
(* nothing, sees the same rows.                                            *)
LEMMA SameReads ==
  ASSUME NEW vs, NEW ws, NEW reader, NEW n \in Nat, NEW m \in Nat, n <= m,
         DOMAIN vs = 0..(n - 1), DOMAIN ws = 0..(m - 1),
         \A i \in 0..(m - 1) : read(ws, i, reader) = read(vs, i, reader)
  PROVE  visibleRows(ws, reader) = visibleRows(vs, reader)
<1>1. PICK g : IsPassed(g, vs, reader, n) /\ visibleRows(vs, reader) = g[n]
  BY Passed
<1>2. PICK h : IsPassed(h, ws, reader, m) /\ visibleRows(ws, reader) = h[m]
  BY Passed
<1>3. /\ g[0] = << >>
      /\ \A i \in 0..(n - 1) : g[i + 1] = IF read(vs, i, reader) = NoRow THEN g[i]
                                         ELSE Append(g[i], read(vs, i, reader))
  BY <1>1, PassedStep
<1>4. /\ h[0] = << >>
      /\ \A i \in 0..(m - 1) : h[i + 1] = IF read(ws, i, reader) = NoRow THEN h[i]
                                         ELSE Append(h[i], read(ws, i, reader))
  BY <1>2, PassedStep
<1>5. \A i \in Nat : i >= n => read(vs, i, reader) = NoRow
  BY DEF read
<1> DEFINE upto(k) == IF k <= n THEN k ELSE n
           S == {k \in Nat : k <= m => h[k] = g[upto(k)]}
<1>6. 0 \in S
  BY <1>3, <1>4
<1>7. ASSUME NEW k \in Nat, k \in S
      PROVE  k + 1 \in S
  <2>1. SUFFICES ASSUME k + 1 <= m
                 PROVE  h[k + 1] = g[upto(k + 1)]
    OBVIOUS
  <2>2. h[k] = g[upto(k)]
    BY <1>7, <2>1
  <2>3. k \in 0..(m - 1)
    BY <2>1
  <2>4. CASE k < n
    <3>1. k \in 0..(n - 1) /\ upto(k) = k /\ upto(k + 1) = k + 1
      BY <2>4
    <3> HIDE DEF upto
    <3>2. QED
      BY <1>3, <1>4, <2>2, <2>3, <3>1
  <2>5. CASE ~(k < n)
    <3>1. upto(k) = n /\ upto(k + 1) = n /\ read(vs, k, reader) = NoRow
      BY <1>5, <2>5
    <3> HIDE DEF upto
    <3>2. QED
      BY <1>4, <2>2, <2>3, <3>1
  <2>6. QED
    BY <2>4, <2>5
<1>8. \A k \in Nat : k \in S
  <2> HIDE DEF S
  <2>1. QED
    BY <1>6, <1>7, SetInduction
<1>9. h[m] = g[n]
  BY <1>8
<1>10. QED
  BY <1>1, <1>2, <1>9

(* Inserting and updating change nothing that an earlier reader sees, also *)
(* after deletes left chains that no row belongs to.                       *)
THEOREM SnapshotsAreStable == Spec => SnapshotsStable
<1> DEFINE Stable == Insert \/ Update =>
             \A reader \in 0..(nextVersion - 1) :
               visibleRows(versions_, reader)' = visibleRows(versions_, reader)
<1>1. ASSUME TableInv, TableInv', Insert \/ Update, NEW reader \in 0..(nextVersion - 1)
      PROVE  visibleRows(versions_', reader) = visibleRows(versions_, reader)
  <2>1. /\ rows \in Seq(Row) /\ nextVersion \in Nat \ {0} /\ ChainsOf(versions_, nextVersion)
        /\ rows' \in Seq(Row) /\ Len(rows) \in Nat
    BY <1>1 DEF TableInv, RowsInv, ChainInv
  <2>2. PICK id \in Nat, row \in Row : versions_' = write(versions_, id, row, nextVersion)
    <3>1. CASE Insert
      <4>1. PICK row \in Inserted : insert(row)
        BY <3>1 DEF Insert
      <4>2. QED
        BY <2>1, <4>1 DEF insert, Fits
    <3>2. CASE Update
      <4>1. PICK id \in RowId, c \in Columns, v \in Value : update(id, c, v)
        BY <3>2 DEF Update
      <4>2. id \in Nat /\ id + 1 \in 1..Len(rows) /\ DOMAIN rows' = 1..Len(rows)
        BY <2>1, <4>1 DEF update, RowId
      <4>3. rows'[id + 1] \in Row
        BY <2>1, <4>2
      <4>4. QED
        BY <4>1, <4>2, <4>3 DEF update
    <3>3. QED
      BY <1>1, <3>1, <3>2
  <2>3. \A i : read(versions_', i, reader) = read(versions_, i, reader)
    BY <2>1, <2>2, WriteIsInvisible
  <2>4. PICK n \in Nat : DOMAIN versions_ = 0..(n - 1)
    BY <1>1 DEF TableInv, ChainInv
  <2>5. PICK m \in Nat : DOMAIN versions_' = 0..(m - 1)
    BY <1>1 DEF TableInv, ChainInv
  <2>6. DOMAIN versions_ \subseteq DOMAIN versions_'
    BY <2>2 DEF write
  <2>7. n <= m
    <3>1. CASE n = 0
      BY <3>1
    <3>2. CASE n # 0
      <4>1. n - 1 \in 0..(m - 1)
        BY <2>4, <2>5, <2>6, <3>2
      <4>2. QED
        BY <4>1
    <3>3. QED
      BY <3>1, <3>2
  <2>8. QED
    BY <2>3, <2>4, <2>5, <2>7, SameReads
<1>2. TableInv /\ TableInv' /\ [Next]_vars => [Stable]_vars
  <2>1. SUFFICES ASSUME TableInv, TableInv', Insert \/ Update,
                        NEW reader \in 0..(nextVersion - 1)
                 PROVE  visibleRows(versions_, reader)' = visibleRows(versions_, reader)
    OBVIOUS
  <2>2. visibleRows(versions_, reader)' = visibleRows(versions_', reader)
    BY DEF visibleRows, read
  <2>3. QED
    BY <1>1, <2>1, <2>2
<1>3. Spec => [][Stable]_vars
  <2> HIDE DEF Stable
  <2>1. QED
    BY <1>2, InvHolds, PTL DEF Spec
<1>4. QED
  BY <1>3 DEF SnapshotsStable

-----------------------------------------------------------------------------
(* Taking an entry out of an index.                                        *)

(* Removing an entry from a listing it was just put in, under an id no row *)
(* has, gives the listing back.                                            *)
LEMMA HashRemoved ==
  ASSUME NEW e, NEW rs, NEW c, NEW m \in Nat, ListsFirst(e, rs, c, m), NEW v
  PROVE  hashRemove(hashInsert(e, v, m), v, m) = e
<1> DEFINE old == RowIdsAt(e, v)
           f == hashInsert(e, v, m)
<1>1. /\ DOMAIN f = DOMAIN e \cup {v} /\ RowIdsAt(f, v) = Append(old, m)
      /\ \A k \in DOMAIN e : k # v => f[k] = e[k]
  BY DEF hashInsert, RowIdsAt
<1>2. old \in Seq(0..(m - 1)) /\ (v \in DOMAIN e => old = e[v] /\ old # << >>)
      /\ (v \notin DOMAIN e => old = << >>)
  <2>1. CASE v \in DOMAIN e
    <3>1. PICK i \in 1..m : v = rs[i][c]
      BY <2>1 DEF ListsFirst
    <3>2. e[v] \in Seq(0..(m - 1)) /\ \E k \in DOMAIN e[v] : e[v][k] = i - 1
      BY <2>1, <3>1 DEF ListsFirst
    <3>3. QED
      BY <2>1, <3>2 DEF RowIdsAt
  <2>2. CASE v \notin DOMAIN e
    BY <2>2 DEF RowIdsAt
  <2>3. QED
    BY <2>1, <2>2
<1> HIDE DEF old, f
<1>3. \A i \in DOMAIN old : old[i] # m
  <2>1. \A i \in DOMAIN old : old[i] \in 0..(m - 1)
    BY <1>2
  <2>2. QED
    BY <2>1
<1>4. Without(Append(old, m), m) = old
  BY <1>2, <1>3, AppendedIsRemoved
<1> DEFINE left == {j \in DOMAIN f : j # v \/ old # << >>}
<1>5. hashRemove(f, v, m) = [k \in left |-> IF k = v THEN old ELSE f[k]]
  BY <1>1, <1>4 DEF hashRemove
<1>6. left = DOMAIN e
  BY <1>1, <1>2
<1> HIDE DEF left
<1>7. \A k \in DOMAIN e : (IF k = v THEN old ELSE f[k]) = e[k]
  BY <1>1, <1>2
<1>8. hashRemove(f, v, m) = [k \in DOMAIN e |-> e[k]]
  BY <1>5, <1>6, <1>7
<1>9. e = [k \in DOMAIN e |-> e[k]]
  BY DEF ListsFirst, IsFunction
<1>10. QED
  BY <1>8, <1>9 DEF f

(* Taking an entry out of an index of any table that can arise undoes      *)
(* putting it in, the tree's nodes included.                               *)
THEOREM RemovingUndoesInserting == Spec => []RemoveUndoesInsert
<1>1. ASSUME TableInv, NEW n \in DOMAIN indexColumns_, NEW v \in Value
      PROVE  /\ hashRemove(hashInsert(indexes_[n], v, Len(rows)), v, Len(rows)) = indexes_[n]
             /\ treeRemove(treeInsert(orderedIndexes_[n], v, Len(rows)), v, Len(rows))
                  = orderedIndexes_[n]
  <2>1. /\ ListsFirst(indexes_[n], rows, indexColumns_[n], Len(rows)) /\ Len(rows) \in Nat
        /\ orderedIndexes_[n] = Tree(indexes_[n])
    BY <1>1 DEF TableInv, RowsInv, IndexInv
  <2>2. hashRemove(hashInsert(indexes_[n], v, Len(rows)), v, Len(rows)) = indexes_[n]
    BY <2>1, HashRemoved
  <2>3. QED
    BY <2>1, <2>2, TreeEntries DEF treeRemove, treeInsert
<1>2. TableInv => RemoveUndoesInsert
  BY <1>1 DEF RemoveUndoesInsert
<1>3. QED
  BY <1>2, InvHolds, PTL

-----------------------------------------------------------------------------
(* The ordered indexes.                                                    *)

(* A listing has finitely many keys, and they are values.                  *)
LEMMA KeysAreValues ==
  ASSUME NEW e, NEW rs \in Seq(Row), NEW c \in Columns, ListsFirst(e, rs, c, Len(rs)),
         Len(rs) <= MaxRows
  PROVE  IsFiniteSet(DOMAIN e) /\ DOMAIN e \subseteq AnyValue
<1>1. Len(rs) \in Nat /\ IsFiniteSet(1..Len(rs))
  BY IntervalSize
<1> DEFINE f == [i \in 1..Len(rs) |-> rs[i][c]]
<1>2. f \in Surjection(1..Len(rs), DOMAIN e)
  BY DEF ListsFirst, Surjection
<1>3. IsFiniteSet(DOMAIN e)
  <2> HIDE DEF f
  <2>1. QED
    BY <1>1, <1>2, FS_Surjection
<1>4. IsEntries(e)
  BY ListsAll
<1>5. DOMAIN e \subseteq AnyValue
  BY <1>4, ValueAssumption DEF IsEntries
<1>6. QED
  BY <1>3, <1>5

(* The nodes of every ordered index are a B+ tree over its entries, after  *)
(* any operations.                                                         *)
THEOREM OrderedIndexesAreBTrees == Spec => []TreeLayout
<1>1. ASSUME TableInv, NEW n \in DOMAIN orderedIndexes_
      PROVE  IsBTree(orderedIndexes_[n])
  <2>1. /\ rows \in Seq(Row) /\ Len(rows) <= MaxRows /\ indexColumns_[n] \in Columns
        /\ ListsFirst(indexes_[n], rows, indexColumns_[n], Len(rows))
        /\ orderedIndexes_[n] = Tree(indexes_[n])
    BY <1>1 DEF TableInv, RowsInv, IndexInv
  <2>2. IsFiniteSet(DOMAIN indexes_[n]) /\ DOMAIN indexes_[n] \subseteq AnyValue
    BY <2>1, KeysAreValues
  <2>3. QED
    BY <2>1, <2>2, LayoutIsBTree
<1>2. TableInv => TreeLayout
  BY <1>1 DEF TreeLayout
<1>3. QED
  BY <1>2, InvHolds, PTL

-----------------------------------------------------------------------------
(* Lookups.                                                                *)

(* The entries that list the rows hold no row id twice.                    *)
LEMMA ListsOnce ==
  ASSUME NEW e, NEW rs \in Seq(Row), NEW c \in Columns, Lists(e, rs, c), IsEntries(e)
  PROVE  /\ IsListing(e, RowId)
         /\ \A k \in DOMAIN e : InRowOrder(e[k]) /\ EachOnce(e[k], {i \in DOMAIN rs : rs[i][c] = k})
<1>1. ASSUME NEW k \in DOMAIN e
      PROVE  /\ e[k] \in Seq(RowId) /\ IsInjective(e[k]) /\ InRowOrder(e[k])
             /\ ToSet(e[k]) = {i - 1 : i \in {j \in DOMAIN rs : rs[j][c] = k}}
  <2>1. /\ e[k] \in Seq(RowId) /\ InRowOrder(e[k])
        /\ ToSet(e[k]) = {i - 1 : i \in {j \in DOMAIN rs : rs[j][c] = k}}
    BY DEF Lists, IsEntries
  <2>2. \A i \in DOMAIN e[k] : i \in Nat /\ e[k][i] \in Nat
    <3>1. \A i \in DOMAIN e[k] : i \in Nat /\ e[k][i] \in RowId
      BY <2>1
    <3>2. RowId \subseteq Nat
      BY BoundsAssumption DEF RowId
    <3>3. QED
      BY <3>1, <3>2
  <2>3. IsInjective(e[k])
    BY <2>1, <2>2 DEF IsInjective, InRowOrder
  <2>4. QED
    BY <2>1, <2>3
<1>2. ASSUME NEW k \in DOMAIN e, NEW x \in ToSet(e[k])
      PROVE  x + 1 \in DOMAIN rs /\ rs[x + 1][c] = k
  <2>1. PICK i \in DOMAIN rs : rs[i][c] = k /\ x = i - 1
    BY <1>1, <1>2
  <2>2. x + 1 = i
    BY <2>1
  <2>3. QED
    BY <2>1, <2>2
<1>3. QED
  BY <1>1, <1>2 DEF IsListing, EachOnce

(* What is collected under the keys of K are the ids of the rows whose     *)
(* value is in K.                                                          *)
LEMMA CollectedRows ==
  ASSUME NEW e, NEW rs \in Seq(Row), Len(rs) <= MaxRows, NEW c \in Columns, Lists(e, rs, c),
         NEW K, K \subseteq DOMAIN e, NEW ids, Collects(ids, e, K, RowId)
  PROVE  EachOnce(ids, {i \in DOMAIN rs : rs[i][c] \in K})
<1>1. /\ ids \in Seq(RowId) /\ IsInjective(ids)
      /\ \A x \in RowId : x \in ToSet(ids) <=> \E k \in K : x \in ToSet(e[k])
  BY DEF Collects
<1>2. \A k \in K : ToSet(e[k]) = {i - 1 : i \in {j \in DOMAIN rs : rs[j][c] = k}}
  BY DEF Lists
<1>3. ASSUME NEW x \in ToSet(ids)
      PROVE  x \in {i - 1 : i \in {j \in DOMAIN rs : rs[j][c] \in K}}
  <2>1. x \in RowId
    BY <1>1 DEF ToSet
  <2>2. PICK k \in K : x \in ToSet(e[k])
    BY <1>1, <2>1
  <2>3. PICK i \in DOMAIN rs : rs[i][c] = k /\ x = i - 1
    BY <1>2, <2>2
  <2>4. QED
    BY <2>2, <2>3
<1>4. ASSUME NEW i \in DOMAIN rs, rs[i][c] \in K
      PROVE  i - 1 \in ToSet(ids)
  <2>1. i - 1 \in RowId
    BY BoundsAssumption DEF RowId
  <2>2. i - 1 \in ToSet(e[rs[i][c]])
    BY <1>2, <1>4
  <2>3. QED
    BY <1>1, <1>4, <2>1, <2>2
<1>5. ToSet(ids) = {i - 1 : i \in {j \in DOMAIN rs : rs[j][c] \in K}}
  BY <1>3, <1>4
<1>6. QED
  BY <1>1, <1>5 DEF EachOnce

\* What a lookup has to give.
Finds(ids, T) == ids \in Seq(RowId) /\ EachOnce(ids, T)

LEMMA TableLookups ==
  ASSUME TableInv, NEW n \in DOMAIN indexColumns_, NEW v \in Value
  PROVE  LET c == indexColumns_[n]
             tree == orderedIndexes_[n]
         IN  /\ \A ids \in {hashFind(indexes_[n], v), treeFind(tree, v)} :
                  InRowOrder(ids) /\ Finds(ids, {i \in DOMAIN rows : rows[i][c] = v})
             /\ Finds(lessThan(tree, v), {i \in DOMAIN rows : less(rows[i][c], v)})
             /\ Finds(greaterThan(tree, v), {i \in DOMAIN rows : less(v, rows[i][c])})
<1> DEFINE c == indexColumns_[n]
           e == indexes_[n]
<1>1. /\ rows \in Seq(Row) /\ Len(rows) <= MaxRows /\ c \in Columns
      /\ ListsFirst(e, rows, c, Len(rows))
      /\ orderedIndexes_[n] = Tree(e)
  BY DEF TableInv, RowsInv, IndexInv
<1> HIDE DEF c, e
<1>2. IsFiniteSet(DOMAIN e) /\ DOMAIN e \subseteq AnyValue /\ v \in AnyValue
  BY <1>1, KeysAreValues, ValueAssumption
<1>3. Lists(e, rows, c) /\ IsEntries(e)
  BY <1>1, ListsAll
<1>4. /\ IsListing(e, RowId)
      /\ \A k \in DOMAIN e : InRowOrder(e[k]) /\ EachOnce(e[k], {i \in DOMAIN rows : rows[i][c] = k})
  BY <1>1, <1>3, ListsOnce
<1>5. DOMAIN e = {rows[i][c] : i \in DOMAIN rows}
  BY <1>3 DEF Lists
<1>6. InRowOrder(RowIdsAt(e, v)) /\ Finds(RowIdsAt(e, v), {i \in DOMAIN rows : rows[i][c] = v})
  <2>1. CASE v \in DOMAIN e
    BY <1>4, <2>1 DEF RowIdsAt, IsListing, Finds
  <2>2. CASE v \notin DOMAIN e
    <3>1. {i \in DOMAIN rows : rows[i][c] = v} = {}
      BY <1>5, <2>2
    <3>2. RowIdsAt(e, v) = << >>
      BY <2>2 DEF RowIdsAt
    <3>3. QED
      BY <3>1, <3>2 DEF InRowOrder, Finds, EachOnce, ToSet, IsInjective
  <2>3. QED
    BY <2>1, <2>2
<1>7. hashFind(e, v) = RowIdsAt(e, v) /\ treeFind(Tree(e), v) = RowIdsAt(e, v)
  BY <1>2, TreeFindsEntry DEF hashFind
<1>8. Finds(lessThan(Tree(e), v), {i \in DOMAIN rows : less(rows[i][c], v)})
  <2> DEFINE K == {k \in DOMAIN e : less(k, v)}
  <2>1. Collects(lessThan(Tree(e), v), e, K, RowId)
    BY <1>2, <1>4, LessThanCollects
  <2>2. {i \in DOMAIN rows : rows[i][c] \in K} = {i \in DOMAIN rows : less(rows[i][c], v)}
    BY <1>5
  <2>3. K \subseteq DOMAIN e
    OBVIOUS
  <2> HIDE DEF K
  <2>4. EachOnce(lessThan(Tree(e), v), {i \in DOMAIN rows : rows[i][c] \in K})
    BY <1>1, <1>3, <2>1, <2>3, CollectedRows
  <2>5. QED
    BY <2>1, <2>2, <2>4 DEF Collects, Finds
<1>9. Finds(greaterThan(Tree(e), v), {i \in DOMAIN rows : less(v, rows[i][c])})
  <2> DEFINE K == {k \in DOMAIN e : less(v, k)}
  <2>1. Collects(greaterThan(Tree(e), v), e, K, RowId)
    BY <1>2, <1>4, GreaterThanCollects
  <2>2. {i \in DOMAIN rows : rows[i][c] \in K} = {i \in DOMAIN rows : less(v, rows[i][c])}
    BY <1>5
  <2>3. K \subseteq DOMAIN e
    OBVIOUS
  <2> HIDE DEF K
  <2>4. EachOnce(greaterThan(Tree(e), v), {i \in DOMAIN rows : rows[i][c] \in K})
    BY <1>1, <1>3, <2>1, <2>3, CollectedRows
  <2>5. QED
    BY <2>1, <2>2, <2>4 DEF Collects, Finds
<1>10. QED
  BY <1>1, <1>6, <1>7, <1>8, <1>9 DEF c, e

(* A lookup, in either index and of one value or of a range, gives the ids *)
(* of exactly the rows it asks for, each once: the index and the rows      *)
(* agree after any operations.                                             *)
THEOREM LookupsAreExact == Spec => []LookupsExact
<1>1. TableInv => LookupsExact
  BY TableLookups DEF LookupsExact, Finds
<1>2. QED
  BY <1>1, InvHolds, PTL

=============================================================================
