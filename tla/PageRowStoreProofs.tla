-------------------------- MODULE PageRowStoreProofs -------------------------
(***************************************************************************)
(* The page-backed row store is a vector of rows, for any page size, any   *)
(* pool capacity and any number of rows.                                   *)
(*                                                                         *)
(* The invariant says where every row is (StoreInv): the pages 1..n are    *)
(* full but for the last, and row id i has the slot that division by the   *)
(* page size gives.  The pool (PoolInv) lists each page it caches once.    *)
(* Without both the theorems below are not inductive: an append trusts the *)
(* length of the last page, a touch trusts the list.                       *)
(***************************************************************************)
EXTENDS PageRowStore, FiniteSetTheorems, SequenceTheorems, TLAPS

-----------------------------------------------------------------------------
(* Division by the page size.                                              *)

SlotOf(id) == [pageId |-> PageOf(id), offset |-> id % RowsPerPage]

LEMMA DivMod ==
  ASSUME NEW i \in Nat
  PROVE  /\ PageOf(i) \in Nat \ {0} /\ i % RowsPerPage \in 0..(RowsPerPage - 1)
         /\ i = RowsPerPage * (PageOf(i) - 1) + (i % RowsPerPage)
BY RowsPerPageAssumption DEF PageOf

\* Of two pairs of page and offset, the larger number belongs to the later pair.
LEMMA PairOrder ==
  ASSUME NEW p \in Nat, NEW q \in Nat,
         NEW x \in 0..(RowsPerPage - 1), NEW y \in 0..(RowsPerPage - 1),
         RowsPerPage * p + x <= RowsPerPage * q + y
  PROVE  p <= q /\ (p = q => x <= y)
BY RowsPerPageAssumption

LEMMA SlotOrder ==
  ASSUME NEW i \in Nat, NEW j \in Nat, i <= j
  PROVE  /\ PageOf(i) <= PageOf(j)
         /\ PageOf(i) = PageOf(j) => i % RowsPerPage <= j % RowsPerPage
<1> DEFINE p == PageOf(i) - 1   q == PageOf(j) - 1
           x == i % RowsPerPage y == j % RowsPerPage
<1>1. /\ p \in Nat /\ q \in Nat /\ x \in 0..(RowsPerPage - 1) /\ y \in 0..(RowsPerPage - 1)
      /\ i = RowsPerPage * p + x /\ j = RowsPerPage * q + y
      /\ PageOf(i) = p + 1 /\ PageOf(j) = q + 1
  BY DivMod
<1> HIDE DEF p, q, x, y
<1>2. p <= q /\ (p = q => x <= y)
  BY <1>1, PairOrder
<1> QED  BY <1>1, <1>2 DEF x, y

\* Different rows have different slots.
LEMMA SlotsDiffer ==
  ASSUME NEW i \in Nat, NEW j \in Nat, PageOf(i) = PageOf(j),
         i % RowsPerPage = j % RowsPerPage
  PROVE  i = j
<1>1. /\ i = RowsPerPage * (PageOf(i) - 1) + (i % RowsPerPage)
      /\ j = RowsPerPage * (PageOf(j) - 1) + (j % RowsPerPage)
  BY DivMod
<1> QED  BY <1>1

\* The next row goes into the same page, or begins the next one when it is full.
LEMMA NextSlot ==
  ASSUME NEW i \in Nat
  PROVE  IF i % RowsPerPage = RowsPerPage - 1
         THEN PageOf(i + 1) = PageOf(i) + 1 /\ (i + 1) % RowsPerPage = 0
         ELSE PageOf(i + 1) = PageOf(i) /\ (i + 1) % RowsPerPage = (i % RowsPerPage) + 1
<1> DEFINE R == RowsPerPage
           p == PageOf(i) - 1   q == PageOf(i + 1) - 1
           x == i % R           y == (i + 1) % R
<1>1. /\ p \in Nat /\ q \in Nat /\ x \in 0..(R - 1) /\ y \in 0..(R - 1)
      /\ i = R * p + x /\ i + 1 = R * q + y
      /\ PageOf(i) = p + 1 /\ PageOf(i + 1) = q + 1 /\ R \in Nat \ {0}
  <2>1. p \in Nat /\ x \in 0..(R - 1) /\ i = R * p + x /\ PageOf(i) = p + 1
    BY DivMod
  <2> DEFINE j == i + 1
  <2>2. j \in Nat
    OBVIOUS
  <2> HIDE DEF j
  <2>3. /\ PageOf(j) \in Nat \ {0} /\ j % R \in 0..(R - 1)
        /\ j = R * (PageOf(j) - 1) + (j % R)
    BY <2>2, DivMod
  <2> QED  BY <2>1, <2>3, RowsPerPageAssumption DEF j
<1> HIDE DEF p, q, x, y, R
<1>2. R * p + (x + 1) = R * q + y
  BY <1>1
<1>3. CASE x = R - 1
  <2>1. R * (p + 1) = R * q + y
    BY <1>1, <1>2, <1>3
  <2>2. p + 1 = q /\ y = 0
    BY <1>1, <2>1
  <2> QED  BY <1>1, <1>3, <2>2 DEF x, y, R
<1>4. CASE x # R - 1
  <2>1. x + 1 \in 0..(R - 1)
    BY <1>1, <1>4
  <2>2. p = q /\ x + 1 = y
    BY <1>1, <1>2, <2>1
  <2> QED  BY <1>1, <1>4, <2>2 DEF x, y, R
<1> QED  BY <1>3, <1>4

LEMMA FirstSlot == PageOf(0) = 1 /\ 0 % RowsPerPage = 0
<1>1. 0 = RowsPerPage * (PageOf(0) - 1) + (0 % RowsPerPage)
      /\ PageOf(0) \in Nat \ {0} /\ 0 % RowsPerPage \in 0..(RowsPerPage - 1)
  BY DivMod
<1> QED  BY <1>1, RowsPerPageAssumption

-----------------------------------------------------------------------------
(* The invariant.                                                          *)

\* The ids of the pages of n rows, and how many of the rows are in page p.
Pages(n) == IF n = 0 THEN {} ELSE 1..PageOf(n - 1)
Filled(p, n) == IF p = PageOf(n - 1) THEN ((n - 1) % RowsPerPage) + 1 ELSE RowsPerPage

StoreInv ==
  /\ refill \in Seq(Row)
  /\ slots_ \in Seq(Slot)
  /\ \A i \in 1..size : slots_[i] = SlotOf(i - 1)
  /\ pages_ \in [Pages(size) -> Seq(Row)]
  /\ \A p \in Pages(size) : Len(pages_[p]) = Filled(p, size)

PoolInv ==
  /\ lru \in Seq(PageId)
  /\ Len(lru) <= Capacity
  /\ pool = [p \in Listed(lru) |-> pool[p]]
  /\ \A i, j \in 1..Len(lru) : i # j => lru[i] # lru[j]

RowStoreInv == StoreInv /\ PoolInv /\ PoolCurrent

\* Every row id below the size is in a page, at an offset the page has.
LEMMA SlotInPage ==
  ASSUME NEW n \in Nat, NEW i \in 0..(n - 1)
  PROVE  /\ PageOf(i) \in Pages(n)
         /\ (i % RowsPerPage) + 1 \in 1..Filled(PageOf(i), n)
<1>1. i \in Nat /\ n - 1 \in Nat /\ i <= n - 1
  OBVIOUS
<1>2. /\ PageOf(i) <= PageOf(n - 1)
      /\ PageOf(i) = PageOf(n - 1) => i % RowsPerPage <= (n - 1) % RowsPerPage
  BY <1>1, SlotOrder
<1>3. /\ PageOf(i) \in Nat \ {0} /\ i % RowsPerPage \in 0..(RowsPerPage - 1)
      /\ PageOf(n - 1) \in Nat \ {0} /\ (n - 1) % RowsPerPage \in 0..(RowsPerPage - 1)
  BY <1>1, DivMod
<1> QED  BY <1>1, <1>2, <1>3, RowsPerPageAssumption DEF Pages, Filled

\* What a row id reads.
RowAt(i) == pages_[PageOf(i)][(i % RowsPerPage) + 1]

SnapshotFacts ==
  /\ size \in Nat
  /\ snapshot \in Seq(Row) /\ Len(snapshot) = size
  /\ \A i \in 1..size : snapshot[i] = RowAt(i - 1) /\ RowAt(i - 1) \in Row

LEMMA SnapshotRows == StoreInv => SnapshotFacts
<1> SUFFICES ASSUME StoreInv PROVE SnapshotFacts
  OBVIOUS
<1>1. size \in Nat /\ DOMAIN slots_ = 1..size
  BY DEF StoreInv, size
<1>2. ASSUME NEW i \in 1..size
      PROVE  get(i - 1) = RowAt(i - 1) /\ RowAt(i - 1) \in Row
  <2> DEFINE p == PageOf(i - 1)
             o == (i - 1) % RowsPerPage
  <2>1. i - 1 \in 0..(size - 1)
    BY <1>1
  <2>2. p \in Pages(size) /\ o + 1 \in 1..Filled(p, size)
    BY <1>1, <2>1, SlotInPage
  <2>3. slots_[i] = SlotOf(i - 1) /\ pages_[p] \in Seq(Row) /\ Len(pages_[p]) = Filled(p, size)
    BY <2>2 DEF StoreInv
  <2>4. pages_[p][o + 1] \in Row
    BY <2>2, <2>3
  <2>5. (i - 1) + 1 = i
    BY <1>1
  <2> QED  BY <2>3, <2>4, <2>5 DEF get, RowAt, SlotOf
<1>3. snapshot = [i \in 1..size |-> RowAt(i - 1)]
  BY <1>1, <1>2 DEF snapshot
<1>4. snapshot \in [1..size -> Row]
  BY <1>2, <1>3
<1> QED  BY <1>1, <1>2, <1>3, <1>4 DEF SnapshotFacts

LEMMA SnapshotRowsNext == StoreInv' => SnapshotFacts'
BY SnapshotRows, PTL

-----------------------------------------------------------------------------
(* The buffer pool.                                                        *)

Distinct(s) == \A i, j \in 1..Len(s) : i # j => s[i] # s[j]

\* The entry at place i of a list, moved to the front.
ToFront(s, i) == <<s[i]>> \o SubSeq(s, 1, i - 1) \o SubSeq(s, i + 1, Len(s))

LEMMA MoveToFront ==
  ASSUME NEW S, NEW s \in Seq(S), NEW i \in 1..Len(s)
  PROVE  /\ ToFront(s, i) \in Seq(S) /\ Len(ToFront(s, i)) = Len(s)
         /\ \A j \in 1..Len(s) :
              ToFront(s, i)[j] = IF j = 1 THEN s[i] ELSE IF j <= i THEN s[j - 1] ELSE s[j]
<1> DEFINE z == ToFront(s, i)
           a == <<s[i]>>
           b == SubSeq(s, 1, i - 1)
           c == SubSeq(s, i + 1, Len(s))
<1>1. a \in Seq(S) /\ Len(a) = 1 /\ a[1] = s[i]
  OBVIOUS
<1>2. b \in Seq(S) /\ Len(b) = i - 1 /\ \A j \in 1..(i - 1) : b[j] = s[j]
  <2>1. \A j \in 1..(i - 1) : s[j] \in S
    OBVIOUS
  <2> QED  BY <2>1, SubSeqProperties
<1>3. c \in Seq(S) /\ Len(c) = Len(s) - i /\ \A j \in 1..(Len(s) - i) : c[j] = s[i + j]
  <2> DEFINE m == i + 1
             n == Len(s)
  <2>1. m \in Int /\ n \in Int /\ \A j \in m..n : s[j] \in S
    OBVIOUS
  <2>2. c = SubSeq(s, m, n)
    OBVIOUS
  <2> HIDE DEF m, n, c
  <2>3. /\ c \in Seq(S) /\ Len(c) = IF m <= n THEN n - m + 1 ELSE 0
        /\ \A j \in 1..(n - m + 1) : c[j] = s[m + j - 1]
    BY <2>1, <2>2, SubSeqProperties
  <2> QED  BY <2>3 DEF m, n
<1> HIDE DEF a, b, c
<1>4. /\ a \o b \in Seq(S) /\ Len(a \o b) = i
      /\ \A j \in 1..i : (a \o b)[j] = IF j = 1 THEN s[i] ELSE s[j - 1]
  <2>1. /\ a \o b \in Seq(S) /\ Len(a \o b) = Len(a) + Len(b)
        /\ \A j \in 1..(Len(a) + Len(b)) : (a \o b)[j] = IF j <= Len(a) THEN a[j] ELSE b[j - Len(a)]
    BY <1>1, <1>2, ConcatProperties
  <2> QED  BY <1>1, <1>2, <2>1
<1> DEFINE d == a \o b
<1>5. d \in Seq(S) /\ Len(d) = i /\ \A j \in 1..i : d[j] = IF j = 1 THEN s[i] ELSE s[j - 1]
  BY <1>4
<1>z. z = d \o c
  BY Zenon DEF ToFront, a, b, c
<1> HIDE DEF d, z
<1>6. /\ z \in Seq(S) /\ Len(z) = Len(d) + Len(c)
      /\ \A j \in 1..(Len(d) + Len(c)) : z[j] = IF j <= Len(d) THEN d[j] ELSE c[j - Len(d)]
  <2>1. /\ d \o c \in Seq(S) /\ Len(d \o c) = Len(d) + Len(c)
        /\ \A j \in 1..(Len(d) + Len(c)) : (d \o c)[j] = IF j <= Len(d) THEN d[j] ELSE c[j - Len(d)]
    <3>1. d \in Seq(S) /\ c \in Seq(S)
      BY <1>3, <1>5
    <3> QED  BY <3>1, ConcatProperties
  <2> QED  BY <2>1, <1>z, Zenon
<1>7. ASSUME NEW j \in 1..Len(s), j > i
      PROVE  z[j] = s[j]
  <2>1. j - i \in 1..(Len(s) - i) /\ i + (j - i) = j
    BY <1>7
  <2>2. z[j] = c[j - i]
    BY <1>3, <1>5, <1>6, <1>7
  <2> QED  BY <1>3, <2>1, <2>2
<1>8. ASSUME NEW j \in 1..Len(s), j <= i
      PROVE  z[j] = IF j = 1 THEN s[i] ELSE s[j - 1]
  BY <1>3, <1>5, <1>6, <1>8
<1> QED  BY <1>3, <1>5, <1>6, <1>7, <1>8 DEF z

\* A page that was not listed, in front of the list, which then loses its end.
Pushed(s, p) == Evicted(<<p>> \o s)

\* p in front of the first elements of s, no more than fit.
IsPushed(z, s, p, S) ==
  /\ z \in Seq(S) /\ Len(z) \in 1..Capacity /\ Len(z) <= Len(s) + 1
  /\ \A j \in 1..Len(z) : z[j] = IF j = 1 THEN p ELSE s[j - 1]


LEMMA PushAndEvict ==
  ASSUME NEW S, NEW s \in Seq(S), NEW p \in S, Len(s) <= Capacity
  PROVE  IsPushed(Pushed(s, p), s, p, S)
<1> DEFINE z == Pushed(s, p)
           a == <<p>>
           d == a \o s
<1>1. a \in Seq(S) /\ Len(a) = 1 /\ a[1] = p
  OBVIOUS
<1> HIDE DEF a
<1>2. /\ d \in Seq(S) /\ Len(d) = Len(s) + 1
      /\ \A j \in 1..(Len(s) + 1) : d[j] = IF j = 1 THEN p ELSE s[j - 1]
  <2>1. /\ a \o s \in Seq(S) /\ Len(a \o s) = Len(a) + Len(s)
        /\ \A j \in 1..(Len(a) + Len(s)) : (a \o s)[j] = IF j <= Len(a) THEN a[j] ELSE s[j - Len(a)]
    BY <1>1, ConcatProperties
  <2> QED  BY <1>1, <2>1
<1>3. z = Evicted(d)
  BY Zenon DEF a, Pushed
<1> HIDE DEF d, z
<1>4. CASE Len(d) > Capacity
  <2>1. z = SubSeq(d, 1, Capacity) /\ \A j \in 1..Capacity : d[j] \in S
    BY <1>2, <1>3, <1>4, CapacityAssumption DEF Evicted
  <2>2. z \in Seq(S) /\ Len(z) = Capacity /\ \A j \in 1..Capacity : z[j] = d[j]
    BY <2>1, SubSeqProperties, CapacityAssumption
  <2> QED  BY <1>2, <1>4, <2>2, CapacityAssumption DEF z, IsPushed
<1>5. CASE ~(Len(d) > Capacity)
  <2>1. z = d
    BY <1>3, <1>5 DEF Evicted
  <2> QED  BY <1>2, <1>5, <2>1, CapacityAssumption DEF z, IsPushed
<1> QED  BY <1>4, <1>5 DEF z

LEMMA PutKeepsPool ==
  ASSUME PoolInv, NEW p \in PageId, NEW page, put(p, page)
  PROVE  /\ PoolInv'
         /\ \A q \in DOMAIN pool' : IF q = p THEN pool'[q] = page
                                    ELSE q \in DOMAIN pool /\ pool'[q] = pool[q]
<1>1. /\ lru \in Seq(PageId) /\ Len(lru) \in Nat /\ Len(lru) <= Capacity /\ Distinct(lru)
      /\ DOMAIN pool = Listed(lru) /\ DOMAIN lru = 1..Len(lru)
  BY DEF PoolInv, Distinct
<1>2. CASE p \in DOMAIN pool
  <2> DEFINE i == CHOOSE i \in DOMAIN lru : lru[i] = p
             z == ToFront(lru, i)
  <2>1. i \in 1..Len(lru) /\ lru[i] = p
    BY <1>1, <1>2 DEF Listed
  <2>2. lru' = z /\ pool' = [pool EXCEPT ![p] = page]
    BY <1>2, <2>1 DEF put, Touched, ToFront
  <2> HIDE DEF i
  <2>3. /\ z \in Seq(PageId) /\ Len(z) = Len(lru)
        /\ \A j \in 1..Len(lru) :
             z[j] = IF j = 1 THEN lru[i] ELSE IF j <= i THEN lru[j - 1] ELSE lru[j]
    BY <1>1, <2>1, MoveToFront
  <2> HIDE DEF z
  <2>4. Distinct(z)
    BY <1>1, <2>1, <2>3, SMTT(20) DEF Distinct
  <2>5. Listed(z) = Listed(lru)
    <3>1. DOMAIN z = 1..Len(lru)
      BY <2>3
    <3>2. ASSUME NEW j \in 1..Len(lru)
          PROVE  \E k \in 1..Len(lru) : z[k] = lru[j]
      <4>1. CASE j = i
        BY <1>1, <2>1, <2>3, <4>1
      <4>2. CASE j < i
        <5>1. j + 1 \in 1..Len(lru) /\ z[j + 1] = lru[j]
          BY <1>1, <2>1, <2>3, <4>2
        <5> QED  BY <5>1
      <4>3. CASE j > i
        BY <1>1, <2>1, <2>3, <4>3
      <4> QED  BY <2>1, <4>1, <4>2, <4>3
    <3>3. ASSUME NEW k \in 1..Len(lru)
          PROVE  \E j \in 1..Len(lru) : lru[j] = z[k]
      BY <1>1, <2>1, <2>3
    <3>4. Listed(z) \subseteq Listed(lru)
      BY <1>1, <3>1, <3>3 DEF Listed
    <3>5. Listed(lru) \subseteq Listed(z)
      BY <1>1, <3>1, <3>2 DEF Listed
    <3> QED  BY <3>4, <3>5
  <2> QED  BY <1>1, <1>2, <2>2, <2>3, <2>4, <2>5 DEF PoolInv, Distinct
<1>3. CASE p \notin DOMAIN pool
  <2> DEFINE z == Pushed(lru, p)
  <2>1. lru' = z /\ pool' = [q \in Listed(z) |-> IF q = p THEN page ELSE pool[q]]
    BY <1>3 DEF put, Pushed
  <2>2. /\ z \in Seq(PageId) /\ Len(z) \in 1..Capacity /\ Len(z) <= Len(lru) + 1
        /\ \A j \in 1..Len(z) : z[j] = IF j = 1 THEN p ELSE lru[j - 1]
    <3>1. lru \in Seq(PageId) /\ Len(lru) <= Capacity
      BY <1>1
    <3>2. IsPushed(z, lru, p, PageId)
      BY <3>1, PushAndEvict
    <3> QED  BY <3>2 DEF IsPushed
  <2> HIDE DEF z
  <2>3. \A j \in 1..Len(lru) : lru[j] # p
    BY <1>1, <1>3 DEF Listed
  <2>4. ASSUME NEW j \in 1..Len(z), j # 1
        PROVE  j - 1 \in 1..Len(lru) /\ z[j] = lru[j - 1] /\ z[j] # p
    BY <1>1, <2>2, <2>3, <2>4
  <2>5. Distinct(z)
    BY <1>1, <2>2, <2>4 DEF Distinct
  <2>6. \A q \in Listed(z) : q = p \/ q \in DOMAIN pool
    BY <1>1, <2>2, <2>4 DEF Listed
  <2> QED  BY <2>1, <2>2, <2>5, <2>6 DEF PoolInv, Distinct
<1> QED  BY <1>2, <1>3

-----------------------------------------------------------------------------
(* Each step keeps the invariant.                                          *)

\* The page the next row goes into is as long as the row's offset.
LEMMA NextPage ==
  ASSUME StoreInv
  PROVE  LET n == size  p == PageOf(size)
         IN  /\ p \in PageId /\ n \in Nat
             /\ Pages(n + 1) = Pages(n) \cup {p}
             /\ RowsOf(p) \in Seq(Row) /\ Len(RowsOf(p)) = n % RowsPerPage
             /\ \A q \in Pages(n) : q # p => Filled(q, n + 1) = Filled(q, n)
             /\ Filled(p, n + 1) = (n % RowsPerPage) + 1
<1> DEFINE n == size  p == PageOf(size)
<1>1. n \in Nat
  BY DEF StoreInv, size
<1> HIDE DEF n
<1>2. p \in Nat \ {0} /\ n % RowsPerPage \in 0..(RowsPerPage - 1) /\ p = PageOf(n)
  BY <1>1, DivMod DEF n
<1> HIDE DEF p
<1>3. (n + 1) - 1 = n /\ n + 1 # 0
  BY <1>1
<1>4. Pages(n + 1) = 1..p /\ Filled(p, n + 1) = (n % RowsPerPage) + 1
  BY <1>2, <1>3 DEF Pages, Filled
<1>5. pages_ \in [Pages(n) -> Seq(Row)] /\ \A q \in Pages(n) : Len(pages_[q]) = Filled(q, n)
  BY DEF StoreInv, n
<1>6. CASE n = 0
  <2>1. p = 1 /\ n % RowsPerPage = 0 /\ Pages(n) = {}
    BY <1>2, <1>6, FirstSlot DEF Pages
  <2>2. RowsOf(p) = << >>
    BY <1>5, <2>1 DEF RowsOf
  <2>3. RowsOf(p) \in Seq(Row) /\ Len(RowsOf(p)) = n % RowsPerPage
    BY <2>1, <2>2, EmptySeq
  <2>4. Pages(n + 1) = Pages(n) \cup {p}
    BY <1>4, <2>1
  <2> QED  BY <1>1, <1>2, <1>4, <2>1, <2>3, <2>4 DEF n, p, PageId
<1>7. CASE n # 0
  <2> DEFINE m == n - 1
  <2>1. m \in Nat /\ m + 1 = n /\ Pages(n) = 1..PageOf(m)
    BY <1>1, <1>7 DEF Pages
  <2>2. PageOf(m) \in Nat \ {0}
    BY <2>1, DivMod
  <2>3. \A q : Filled(q, n) = IF q = PageOf(m) THEN (m % RowsPerPage) + 1 ELSE RowsPerPage
    BY DEF Filled
  <2>4. \A q : q # p => Filled(q, n + 1) = RowsPerPage
    BY <1>2, <1>3 DEF Filled
  <2> HIDE DEF m
  <2>5. CASE m % RowsPerPage = RowsPerPage - 1
    <3>1. p = PageOf(m) + 1 /\ n % RowsPerPage = 0
      BY <1>2, <2>1, <2>5, NextSlot
    <3>2. p \notin Pages(n) /\ Pages(n + 1) = Pages(n) \cup {p}
      BY <1>4, <2>1, <2>2, <3>1
    <3>3. RowsOf(p) \in Seq(Row) /\ Len(RowsOf(p)) = n % RowsPerPage
      <4>1. RowsOf(p) = << >>
        BY <1>5, <3>2 DEF RowsOf
      <4> QED  BY <3>1, <4>1, EmptySeq
    <3>4. \A q : Filled(q, n) = RowsPerPage
      BY <2>3, <2>5, RowsPerPageAssumption
    <3> QED  BY <1>1, <1>2, <1>4, <2>4, <3>1, <3>2, <3>3, <3>4 DEF n, p, PageId
  <2>6. CASE m % RowsPerPage # RowsPerPage - 1
    <3>1. p = PageOf(m) /\ n % RowsPerPage = (m % RowsPerPage) + 1
      BY <1>2, <2>1, <2>6, NextSlot
    <3>2. p \in Pages(n) /\ Pages(n + 1) = Pages(n) \cup {p}
      BY <1>4, <2>1, <2>2, <3>1
    <3>3. RowsOf(p) \in Seq(Row) /\ Len(RowsOf(p)) = n % RowsPerPage
      BY <1>5, <2>3, <3>1, <3>2 DEF RowsOf
    <3> QED  BY <1>1, <1>2, <1>4, <2>3, <2>4, <3>1, <3>2, <3>3 DEF n, p, PageId
  <2> QED  BY <2>5, <2>6
<1> QED  BY <1>6, <1>7

LEMMA AppendRowKeeps ==
  ASSUME RowStoreInv, NEW row \in Row, appendRow(row), refill' \in Seq(Row)
  PROVE  RowStoreInv' /\ snapshot' = Append(snapshot, row)
<1> DEFINE n == size
           p == PageOf(n)
           page == Append(RowsOf(p), row)
<1>1. StoreInv /\ PoolInv /\ PoolCurrent
  BY DEF RowStoreInv
<1>2. /\ p \in PageId /\ n \in Nat
      /\ Pages(n + 1) = Pages(n) \cup {p}
      /\ RowsOf(p) \in Seq(Row) /\ Len(RowsOf(p)) = n % RowsPerPage
      /\ \A q \in Pages(n) : q # p => Filled(q, n + 1) = Filled(q, n)
      /\ Filled(p, n + 1) = (n % RowsPerPage) + 1
  BY <1>1, NextPage
<1>3. page \in Seq(Row) /\ Len(page) = (n % RowsPerPage) + 1 /\ Len(page) - 1 = n % RowsPerPage
  <2>1. n % RowsPerPage \in Nat
    BY <1>2, DivMod, RowsPerPageAssumption
  <2> QED  BY <1>2, <2>1
<1>4. /\ pages_' = WithPage(p, page) /\ put(p, page)
      /\ slots_' = Append(slots_, [pageId |-> p, offset |-> Len(page) - 1])
  BY DEF appendRow
<1> HIDE DEF page
<1>5. slots_' = Append(slots_, SlotOf(n)) /\ SlotOf(n) \in Slot
  <2>1. n % RowsPerPage \in Nat
    BY <1>2, DivMod, RowsPerPageAssumption
  <2> QED  BY <1>2, <1>3, <1>4, <2>1 DEF SlotOf, Slot
<1>6. /\ slots_' \in Seq(Slot) /\ size' = n + 1
      /\ \A i \in 1..(n + 1) : slots_'[i] = SlotOf(i - 1)
  <2>1. slots_ \in Seq(Slot) /\ n = Len(slots_) /\ \A i \in 1..n : slots_[i] = SlotOf(i - 1)
    BY <1>1 DEF StoreInv, size
  <2> HIDE DEF n
  <2>2. /\ slots_' \in Seq(Slot) /\ Len(slots_') = n + 1
        /\ \A i \in 1..n : slots_'[i] = slots_[i]
        /\ slots_'[n + 1] = SlotOf(n)
    BY <1>2, <1>5, <2>1
  <2>3. (n + 1) - 1 = n
    BY <1>2
  <2>4. \A i \in 1..(n + 1) : i \in 1..n \/ i = n + 1
    BY <1>2
  <2> QED  BY <2>1, <2>2, <2>3, <2>4 DEF size
<1> HIDE DEF n, p
<1>7. pages_ \in [Pages(n) -> Seq(Row)] /\ \A q \in Pages(n) : Len(pages_[q]) = Filled(q, n)
  BY <1>1 DEF StoreInv, n
<1>8. /\ pages_' \in [Pages(n + 1) -> Seq(Row)]
      /\ pages_'[p] = page /\ \A q \in Pages(n) : q # p => pages_'[q] = pages_[q]
  BY <1>2, <1>3, <1>4, <1>7 DEF WithPage
<1>9. \A q \in Pages(n + 1) : Len(pages_'[q]) = Filled(q, n + 1)
  BY <1>2, <1>3, <1>7, <1>8
<1>10. StoreInv'
  BY <1>6, <1>8, <1>9 DEF StoreInv
<1>11. /\ PoolInv'
       /\ \A q \in DOMAIN pool' : IF q = p THEN pool'[q] = page
                                  ELSE q \in DOMAIN pool /\ pool'[q] = pool[q]
  BY <1>1, <1>2, <1>4, PutKeepsPool
<1>12. PoolCurrent'
  BY <1>1, <1>2, <1>7, <1>8, <1>11 DEF PoolCurrent
<1>13. snapshot' = Append(snapshot, row)
  <2>1. SnapshotFacts /\ SnapshotFacts'
    BY <1>1, <1>10, SnapshotRows, SnapshotRowsNext
  <2>2. /\ snapshot \in Seq(Row) /\ Len(snapshot) = n
        /\ snapshot' \in Seq(Row) /\ Len(snapshot') = n + 1
    BY <1>6, <2>1 DEF SnapshotFacts, n
  <2>3. ASSUME NEW i \in 1..n PROVE snapshot'[i] = snapshot[i]
    <3> DEFINE j == i - 1
    <3>1. j \in 0..(n - 1) /\ i \in 1..(n + 1) /\ n \in Nat
      BY <1>2
    <3>2. snapshot'[i] = RowAt(j)' /\ snapshot[i] = RowAt(j)
      BY <1>6, <2>1, <3>1 DEF SnapshotFacts, n
    <3> HIDE DEF j
    <3>3. PageOf(j) \in Pages(n) /\ (j % RowsPerPage) + 1 \in 1..Filled(PageOf(j), n)
      BY <3>1, SlotInPage
    <3>4. CASE PageOf(j) # p
      BY <1>8, <3>2, <3>3, <3>4 DEF RowAt
    <3>5. CASE PageOf(j) = p
      <4>1. RowsOf(p) = pages_[p] /\ Len(pages_[p]) = Filled(p, n)
        BY <1>7, <3>3, <3>5 DEF RowsOf
      <4>2. page[(j % RowsPerPage) + 1] = pages_[p][(j % RowsPerPage) + 1]
        BY <1>2, <3>3, <3>5, <4>1 DEF page
      <4> QED  BY <1>8, <3>2, <3>5, <4>2 DEF RowAt
    <3> QED  BY <3>4, <3>5
  <2>4. snapshot'[n + 1] = row
    <3>1. n + 1 \in 1..(n + 1) /\ (n + 1) - 1 = n
      BY <1>2
    <3>2. snapshot'[n + 1] = pages_'[PageOf(n)][(n % RowsPerPage) + 1]
      <4>1. \A i \in 1..(n + 1) : snapshot'[i] = RowAt(i - 1)'
        BY <1>6, <2>1 DEF SnapshotFacts
      <4>2. \A i \in 1..(n + 1) :
              snapshot'[i] = pages_'[PageOf(i - 1)][((i - 1) % RowsPerPage) + 1]
        BY <4>1 DEF RowAt
      <4> QED  BY <3>1, <4>2
    <3>3. page[Len(RowsOf(p)) + 1] = row
      BY <1>2 DEF page
    <3> QED  BY <1>2, <1>8, <3>2, <3>3 DEF p
  <2>5. /\ Append(snapshot, row) \in Seq(Row) /\ Len(Append(snapshot, row)) = n + 1
        /\ \A i \in 1..n : Append(snapshot, row)[i] = snapshot[i]
        /\ Append(snapshot, row)[n + 1] = row
    BY <2>2
  <2>6. \A i \in 1..(n + 1) : snapshot'[i] = Append(snapshot, row)[i]
    <3>1. \A i \in 1..(n + 1) : i \in 1..n \/ i = n + 1
      BY <1>2
    <3> QED  BY <2>3, <2>4, <2>5, <3>1
  <2> DEFINE a == snapshot'  b == Append(snapshot, row)
  <2>7. a \in Seq(Row) /\ b \in Seq(Row) /\ Len(a) = Len(b) /\ \A i \in 1..Len(a) : a[i] = b[i]
    BY <2>2, <2>5, <2>6
  <2> HIDE DEF a, b
  <2>8. a = b
    BY <2>7, SeqEqual
  <2> QED  BY <2>8 DEF a, b
<1> QED  BY <1>10, <1>11, <1>12, <1>13 DEF RowStoreInv

LEMMA UpdateKeeps ==
  ASSUME RowStoreInv, NEW id \in 0..(size - 1), NEW row \in Row, update(id, row)
  PROVE  RowStoreInv' /\ snapshot' = [snapshot EXCEPT ![id + 1] = row]
<1> DEFINE p == PageOf(id)
           o == id % RowsPerPage
           page == [pages_[p] EXCEPT ![o + 1] = row]
<1>1. StoreInv /\ PoolInv /\ PoolCurrent
  BY DEF RowStoreInv
<1>2. size \in Nat /\ id \in Nat /\ id + 1 \in 1..size /\ (id + 1) - 1 = id
  BY <1>1 DEF StoreInv, size
<1>3. p \in Pages(size) /\ o + 1 \in 1..Filled(p, size) /\ p \in PageId
  BY <1>2, SlotInPage, DivMod DEF PageId
<1>4. slots_[id + 1].pageId = p /\ slots_[id + 1].offset = o
  <2>1. slots_[id + 1] = SlotOf((id + 1) - 1)
    BY <1>1, <1>2 DEF StoreInv
  <2>2. slots_[id + 1] = SlotOf(id)
    BY <1>2, <2>1
  <2> QED  BY <2>2 DEF SlotOf
<1>5. /\ pages_' = [pages_ EXCEPT ![p] = page] /\ put(p, page)
      /\ UNCHANGED <<slots_, refill>>
  BY <1>4 DEF update
<1>6. /\ pages_ \in [Pages(size) -> Seq(Row)]
      /\ \A q \in Pages(size) : Len(pages_[q]) = Filled(q, size)
  BY <1>1 DEF StoreInv
<1>7. page \in Seq(Row) /\ Len(page) = Len(pages_[p]) /\ page[o + 1] = row
      /\ \A k \in 1..Len(page) : k # o + 1 => page[k] = pages_[p][k]
  <2> DEFINE s == pages_[p]
             k == o + 1
  <2>1. s \in Seq(Row) /\ k \in 1..Len(s)
    BY <1>3, <1>6
  <2> HIDE DEF s, k
  <2>2. /\ [s EXCEPT ![k] = row] \in Seq(Row) /\ Len([s EXCEPT ![k] = row]) = Len(s)
        /\ \A j \in 1..Len(s) : [s EXCEPT ![k] = row][j] = IF j = k THEN row ELSE s[j]
    BY <2>1, ExceptSeq
  <2>3. page = [s EXCEPT ![k] = row]
    BY DEF s, k
  <2> HIDE DEF page
  <2> QED  BY <2>1, <2>2, <2>3 DEF s, k
<1> HIDE DEF page, p, o
<1>8. /\ pages_' \in [Pages(size) -> Seq(Row)] /\ size' = size
      /\ pages_'[p] = page /\ \A q \in Pages(size) : q # p => pages_'[q] = pages_[q]
  BY <1>3, <1>5, <1>6, <1>7 DEF size
<1>9. StoreInv'
  BY <1>1, <1>5, <1>6, <1>7, <1>8 DEF StoreInv
<1>10. /\ PoolInv'
       /\ \A q \in DOMAIN pool' : IF q = p THEN pool'[q] = page
                                  ELSE q \in DOMAIN pool /\ pool'[q] = pool[q]
  BY <1>1, <1>3, <1>5, PutKeepsPool
<1>11. PoolCurrent'
  BY <1>1, <1>6, <1>8, <1>10 DEF PoolCurrent
<1>12. snapshot' = [snapshot EXCEPT ![id + 1] = row]
  <2>1. SnapshotFacts /\ SnapshotFacts'
    BY <1>1, <1>9, SnapshotRows, SnapshotRowsNext
  <2>2. /\ snapshot \in Seq(Row) /\ Len(snapshot) = size
        /\ snapshot' \in Seq(Row) /\ Len(snapshot') = size
    BY <1>8, <2>1 DEF SnapshotFacts
  <2>3. ASSUME NEW i \in 1..size
        PROVE  snapshot'[i] = IF i = id + 1 THEN row ELSE snapshot[i]
    <3> DEFINE j == i - 1
    <3>1. j \in 0..(size - 1) /\ j \in Nat /\ (i = id + 1 <=> j = id)
      BY <1>2
    <3>2. snapshot'[i] = RowAt(j)' /\ snapshot[i] = RowAt(j)
      BY <1>8, <2>1 DEF SnapshotFacts
    <3> HIDE DEF j
    <3>3. PageOf(j) \in Pages(size) /\ (j % RowsPerPage) + 1 \in 1..Filled(PageOf(j), size)
      BY <1>2, <3>1, SlotInPage
    <3>4. CASE j = id
      BY <1>7, <1>8, <3>1, <3>2, <3>4 DEF RowAt, p, o
    <3>5. CASE j # id /\ PageOf(j) = p
      <4>1. j % RowsPerPage # o
        BY <1>2, <3>1, <3>5, SlotsDiffer DEF p, o
      <4>2. j % RowsPerPage \in Nat /\ o \in Nat
        BY <1>2, <3>1, DivMod, RowsPerPageAssumption DEF o
      <4>3. (j % RowsPerPage) + 1 # o + 1
        BY <4>1, <4>2
      <4> QED  BY <1>6, <1>7, <1>8, <3>1, <3>2, <3>3, <3>5, <4>3 DEF RowAt
    <3>6. CASE j # id /\ PageOf(j) # p
      BY <1>8, <3>1, <3>2, <3>3, <3>6 DEF RowAt
    <3> QED  BY <3>4, <3>5, <3>6
  <2>4. snapshot' = [i \in 1..size |-> snapshot'[i]] /\ snapshot = [i \in 1..size |-> snapshot[i]]
    BY <2>2
  <2> QED  BY <1>2, <2>3, <2>4
<1> QED  BY <1>9, <1>10, <1>11, <1>12 DEF RowStoreInv

\* The pages and the slots are cleared, and the rows wait to be appended again.
LEMMA ClearKeeps ==
  ASSUME RowStoreInv, NEW rs \in Seq(Row), clearThenRefill(rs)
  PROVE  RowStoreInv' /\ snapshot' = << >> /\ refill' = rs
<1>1. slots_' = << >> /\ pages_' = << >> /\ refill' = rs /\ UNCHANGED <<pool, lru>>
  BY DEF clearThenRefill, poolVars
<1>2. size' = 0
  BY <1>1, EmptySeq DEF size
<1>3. Pages(0) = {} /\ slots_' \in Seq(Slot) /\ pages_' \in [{} -> Seq(Row)]
  BY <1>1 DEF Pages
<1>4. StoreInv'
  BY <1>1, <1>2, <1>3 DEF StoreInv
<1>5. PoolInv' /\ PoolCurrent'
  BY <1>1 DEF RowStoreInv, PoolInv, PoolCurrent
<1>6. snapshot' = << >>
  BY <1>1 DEF snapshot
<1> QED  BY <1>1, <1>4, <1>5, <1>6 DEF RowStoreInv

LEMMA RemovedRow ==
  ASSUME NEW s \in Seq(Row), NEW id \in 0..(Len(s) - 1)
  PROVE  RemoveRow(s, id) \in Seq(Row)
<1>1. \A i \in 1..id : s[i] \in Row
  OBVIOUS
<1>2. SubSeq(s, 1, id) \in Seq(Row)
  BY <1>1, SubSeqProperties
<1> DEFINE m == id + 2
           n == Len(s)
<1>3. m \in Int /\ n \in Int /\ \A i \in m..n : s[i] \in Row
  OBVIOUS
<1> HIDE DEF m, n
<1>4. SubSeq(s, m, n) \in Seq(Row)
  BY <1>3, SubSeqProperties
<1> QED  BY <1>2, <1>4, ConcatProperties DEF RemoveRow, m, n

LEMMA RemainingRows ==
  ASSUME NEW s \in Seq(Row), NEW k \in 0..Len(s)
  PROVE  SubSeq(s, k + 1, Len(s)) \in Seq(Row)
<1> DEFINE m == k + 1
           n == Len(s)
<1>1. m \in Int /\ n \in Int /\ \A i \in m..n : s[i] \in Row
  OBVIOUS
<1> HIDE DEF m, n
<1>2. SubSeq(s, m, n) \in Seq(Row)
  BY <1>1, SubSeqProperties
<1> QED  BY <1>2 DEF m, n

LEMMA RowStoreInit == ASSUME Init PROVE RowStoreInv /\ snapshot = << >>
<1>1. size = 0 /\ Pages(0) = {} /\ slots_ = << >> /\ pages_ = << >>
  BY EmptySeq DEF Init, size, Pages
<1>2. slots_ \in Seq(Slot) /\ pages_ \in [{} -> Seq(Row)] /\ refill \in Seq(Row)
  BY <1>1 DEF Init
<1>3. StoreInv
  BY <1>1, <1>2 DEF StoreInv
<1>4. PoolInv /\ PoolCurrent
  BY <1>1, CapacityAssumption DEF Init, PoolInit, PoolInv, PoolCurrent, Listed
<1>5. snapshot = << >>
  BY <1>1 DEF snapshot
<1> QED  BY <1>3, <1>4, <1>5 DEF RowStoreInv

LEMMA RowStoreStutter == ASSUME RowStoreInv, UNCHANGED vars PROVE RowStoreInv'
<1>1. UNCHANGED <<slots_, pages_, refill, pool, lru>>
  BY DEF vars, poolVars
<1>2. StoreInv'
  BY <1>1 DEF RowStoreInv, StoreInv, size
<1>3. PoolInv' /\ PoolCurrent'
  BY <1>1 DEF RowStoreInv, PoolInv, PoolCurrent
<1> QED  BY <1>2, <1>3 DEF RowStoreInv

\* What each step does to the rows the store stands for.
Effect ==
  \/ \E row \in Row : append(row) /\ snapshot' = Append(snapshot, row)
  \/ \E id \in 0..(size - 1), row \in Row :
       update(id, row) /\ snapshot' = [snapshot EXCEPT ![id + 1] = row]
  \/ \E id \in 0..(size - 1) :
       erase(id) /\ snapshot' = << >> /\ refill' = RemoveRow(snapshot, id)
  \/ \E rs \in Seq(Row) : replaceRows(rs) /\ snapshot' = << >> /\ refill' = rs
  \/ refillRow /\ snapshot' = Append(snapshot, Head(refill)) /\ Head(refill) \in Row

LEMMA RowStoreStep == ASSUME RowStoreInv, Next PROVE RowStoreInv' /\ Effect
<1>1. SnapshotFacts /\ refill \in Seq(Row)
  BY SnapshotRows DEF RowStoreInv, StoreInv
<1>2. ASSUME NEW row \in Row, append(row) PROVE RowStoreInv' /\ Effect
  <2>1. appendRow(row) /\ refill' \in Seq(Row)
    BY <1>1, <1>2 DEF append
  <2> QED  BY <1>2, <2>1, AppendRowKeeps DEF Effect
<1>3. ASSUME NEW id \in 0..(size - 1), NEW row \in Row, update(id, row)
      PROVE  RowStoreInv' /\ Effect
  BY <1>3, UpdateKeeps DEF Effect
<1>4. ASSUME NEW id \in 0..(size - 1), erase(id) PROVE RowStoreInv' /\ Effect
  <2>1. RemoveRow(snapshot, id) \in Seq(Row)
    BY <1>1, RemovedRow DEF SnapshotFacts
  <2>2. clearThenRefill(RemoveRow(snapshot, id))
    BY <1>4 DEF erase
  <2>3. RowStoreInv' /\ snapshot' = << >> /\ refill' = RemoveRow(snapshot, id)
    BY <2>1, <2>2, ClearKeeps
  <2> QED  BY <1>4, <2>3 DEF Effect
<1>5. ASSUME NEW k \in 0..size, replaceRows(SubSeq(snapshot, k + 1, size))
      PROVE  RowStoreInv' /\ Effect
  <2> DEFINE rs == SubSeq(snapshot, k + 1, size)
  <2>1. rs \in Seq(Row)
    BY <1>1, RemainingRows DEF SnapshotFacts
  <2>2. replaceRows(rs)
    BY <1>5
  <2> HIDE DEF rs
  <2>3. clearThenRefill(rs)
    BY <2>2 DEF replaceRows
  <2>4. RowStoreInv' /\ snapshot' = << >> /\ refill' = rs
    BY <2>1, <2>3, ClearKeeps
  <2> QED  BY <2>1, <2>2, <2>4 DEF Effect
<1>6. ASSUME refillRow PROVE RowStoreInv' /\ Effect
  <2>1. refill # << >> /\ appendRow(Head(refill)) /\ refill' = Tail(refill)
    BY <1>6 DEF refillRow, Settled
  <2>2. Head(refill) \in Row /\ Tail(refill) \in Seq(Row)
    BY <1>1, <2>1, HeadTailProperties
  <2>3. RowStoreInv' /\ snapshot' = Append(snapshot, Head(refill))
    BY <2>1, <2>2, AppendRowKeeps
  <2> QED  BY <1>6, <2>2, <2>3 DEF Effect
<1> QED  BY <1>2, <1>3, <1>4, <1>5, <1>6 DEF Next

LEMMA RowStoreAlways == Spec => []RowStoreInv
<1>1. Init => RowStoreInv
  BY RowStoreInit
<1>2. RowStoreInv /\ [Next]_vars => RowStoreInv'
  BY RowStoreStep, RowStoreStutter
<1> QED  BY <1>1, <1>2, PTL DEF Spec

-----------------------------------------------------------------------------
(* What follows from it.                                                   *)

(* Slots, pages and the pool are well formed, and no page has the id zero. *)
(* (PageRowStore's slots_, pages_ and bufferPool_)                         *)
THEOREM RowStoreTypeCorrect == Spec => []TypeOK
<1>1. ASSUME RowStoreInv PROVE TypeOK
  <2>1. \A n \in Nat : Pages(n) \subseteq PageId
    BY DivMod DEF Pages, PageId
  <2>2. size \in Nat
    BY <1>1 DEF RowStoreInv, StoreInv, size
  <2>3. /\ refill \in Seq(Row) /\ slots_ \in Seq(Slot)
        /\ pages_ \in [Pages(size) -> Seq(Row)]
    BY <1>1 DEF RowStoreInv, StoreInv
  <2>4. DOMAIN pages_ \subseteq PageId /\ \A p \in DOMAIN pages_ : pages_[p] \in Seq(Row)
    BY <2>1, <2>2, <2>3
  <2>5. DOMAIN pool \subseteq PageId
    <3>1. DOMAIN pool = Listed(lru) /\ lru \in Seq(PageId)
      BY <1>1 DEF RowStoreInv, PoolInv
    <3>2. \A i \in DOMAIN lru : lru[i] \in PageId
      BY <3>1
    <3> QED  BY <3>1, <3>2 DEF Listed
  <2> QED  BY <2>3, <2>4, <2>5 DEF TypeOK
<1> QED  BY <1>1, RowStoreAlways, PTL

(* The pool never holds more pages than its capacity, and its list names   *)
(* each cached page once.  (put, touch, evictIfNeeded)                     *)
THEOREM PoolIsBounded == Spec => []PoolBounded
<1>1. RowStoreInv => PoolBounded
  BY DEF RowStoreInv, PoolInv, PoolBounded
<1> QED  BY <1>1, RowStoreAlways, PTL

(* A cached page that the store still has is cached with its present       *)
(* contents.  (append, update, erase against bufferPool_.put)              *)
THEOREM PoolIsCurrent == Spec => []PoolCurrent
<1>1. RowStoreInv => PoolCurrent
  BY DEF RowStoreInv
<1> QED  BY <1>1, RowStoreAlways, PTL

\* The rows of one page are an interval of row ids.
LEMMA PageIsInterval ==
  ASSUME NEW n \in Nat, NEW p \in Pages(n)
  PROVE  LET lo == RowsPerPage * (p - 1)
         IN  /\ lo \in Nat /\ Filled(p, n) \in Nat
             /\ {i \in 1..n : PageOf(i - 1) = p} = (lo + 1)..(lo + Filled(p, n))
<1> DEFINE R == RowsPerPage
           f == Filled(p, n)
           m == n - 1
           lo == R * (p - 1)
<1>1. m \in Nat /\ p \in 1..PageOf(m) /\ R \in Nat \ {0}
  BY RowsPerPageAssumption DEF Pages
<1>2. /\ PageOf(m) \in Nat \ {0} /\ m % R \in 0..(R - 1)
      /\ m = R * (PageOf(m) - 1) + (m % R)
  BY <1>1, DivMod
<1>3. p - 1 \in Nat /\ lo \in Nat
  BY <1>1, <1>2
<1>4. f = IF p = PageOf(m) THEN (m % R) + 1 ELSE R
  BY DEF Filled
<1>5. f \in 1..R
  BY <1>1, <1>2, <1>4
<1>n. n = m + 1
  OBVIOUS
<1> HIDE DEF f, lo, R, m
<1>6. lo + f <= n
  <2>1. CASE p = PageOf(m)
    BY <1>1, <1>2, <1>3, <1>4, <1>n, <2>1 DEF lo
  <2>2. CASE p # PageOf(m)
    <3> DEFINE a == p - 1  b == PageOf(m) - 1
    <3>1. a \in Nat /\ b \in Nat /\ a + 1 <= b
      <4> DEFINE w == PageOf(m)
      <4>1. w \in Nat \ {0} /\ p \in 1..w /\ p # w
        BY <1>1, <1>2, <2>2
      <4> HIDE DEF w
      <4>2. p - 1 \in Nat /\ w - 1 \in Nat /\ (p - 1) + 1 <= w - 1
        BY <4>1
      <4> QED  BY <4>2 DEF w
    <3>2. lo = R * a /\ m = R * b + (m % R)
      BY <1>2 DEF lo
    <3> HIDE DEF a, b
    <3>3. R * (a + 1) <= R * b
      BY <1>1, <3>1
    <3>4. R * (a + 1) = R * a + R
      BY <1>1, <3>1
    <3> QED  BY <1>1, <1>2, <1>3, <1>4, <2>2, <1>n, <3>1, <3>2, <3>3, <3>4
  <2> QED  BY <2>1, <2>2
<1>7. ASSUME NEW i \in 1..n, PageOf(i - 1) = p
      PROVE  i \in (lo + 1)..(lo + f)
  <2> DEFINE j == i - 1
  <2>1. j \in Nat /\ j \in 0..(n - 1) /\ i = j + 1
    OBVIOUS
  <2> HIDE DEF j
  <2>2. (j % R) + 1 \in 1..f
    BY <1>7, <2>1, SlotInPage DEF f, R, j
  <2>3. j = lo + (j % R) /\ j % R \in 0..(R - 1)
    BY <1>7, <2>1, DivMod DEF lo, R, j
  <2> QED  BY <1>1, <1>3, <1>5, <2>1, <2>2, <2>3
<1>8. ASSUME NEW i \in (lo + 1)..(lo + f)
      PROVE  i \in 1..n /\ PageOf(i - 1) = p
  <2> DEFINE j == i - 1
             x == j - lo
             q == PageOf(j) - 1
             y == j % R
             a == p - 1
  <2>1. j \in Nat /\ x \in 0..(R - 1) /\ j = lo + x /\ i \in 1..n
    BY <1>1, <1>3, <1>5, <1>6
  <2>2. /\ q \in Nat /\ y \in 0..(R - 1) /\ j = R * q + y /\ PageOf(j) = q + 1
    <3> HIDE DEF j
    <3> QED  BY <2>1, DivMod DEF R
  <2>3. a \in Nat /\ j = R * a + x /\ p = a + 1
    BY <1>1, <1>3, <2>1 DEF lo
  <2> HIDE DEF x, q, y, a, j
  <2>4. R * a + x <= R * q + y /\ R * q + y <= R * a + x
    BY <1>1, <2>1, <2>2, <2>3
  <2>5. a <= q /\ q <= a
    BY <2>1, <2>2, <2>3, <2>4, PairOrder DEF R
  <2> QED  BY <2>1, <2>2, <2>3, <2>5 DEF j
<1> QED  BY <1>3, <1>5, <1>7, <1>8 DEF f, lo, R

(* A row id is found by arithmetic, no page is longer than a page, and no  *)
(* page holds a row that no slot points to, however often the store was    *)
(* compacted.  (append, also after erase)                                  *)
THEOREM SlotsAreDense == Spec => []SlotsDense
<1>1. ASSUME RowStoreInv PROVE SlotsDense
  <2>1. size \in Nat /\ DOMAIN slots_ = 1..size
    BY <1>1 DEF RowStoreInv, StoreInv, size
  <2>2. /\ \A i \in 1..size : slots_[i] = SlotOf(i - 1)
        /\ DOMAIN pages_ = Pages(size)
        /\ \A p \in Pages(size) : Len(pages_[p]) = Filled(p, size)
    BY <1>1 DEF RowStoreInv, StoreInv
  <2>3. \A i \in DOMAIN slots_ :
          slots_[i] = [pageId |-> PageOf(i - 1), offset |-> (i - 1) % RowsPerPage]
    BY <2>1, <2>2 DEF SlotOf
  <2>4. ASSUME NEW p \in Pages(size)
        PROVE  Len(pages_[p]) = Cardinality({i \in DOMAIN slots_ : slots_[i].pageId = p})
    <3> DEFINE lo == RowsPerPage * (p - 1)
               f == Filled(p, size)
    <3>1. {i \in DOMAIN slots_ : slots_[i].pageId = p} = {i \in 1..size : PageOf(i - 1) = p}
      BY <2>1, <2>3
    <3>2. lo \in Nat /\ f \in Nat /\ {i \in 1..size : PageOf(i - 1) = p} = (lo + 1)..(lo + f)
      BY <2>1, PageIsInterval
    <3> HIDE DEF lo, f
    <3>3. Cardinality((lo + 1)..(lo + f)) = f
      <4> DEFINE a == lo + 1  b == lo + f
      <4>1. a \in Int /\ b \in Int /\ (IF a > b THEN 0 ELSE b - a + 1) = f
        BY <3>2
      <4> HIDE DEF a, b
      <4>2. Cardinality(a..b) = f
        BY <4>1, FS_Interval
      <4> QED  BY <4>2 DEF a, b
    <3> QED  BY <2>2, <3>1, <3>2, <3>3 DEF f
  <2> QED  BY <2>2, <2>3, <2>4 DEF SlotsDense
<1> QED  BY <1>1, RowStoreAlways, PTL

-----------------------------------------------------------------------------
(* The pages implement a vector of rows.                                   *)

\* Moving the first of the rows still to come to the rows that are there.
LEMMA MoveOne ==
  ASSUME NEW s \in Seq(Row), NEW r \in Seq(Row), r # << >>
  PROVE  Append(s, Head(r)) \o Tail(r) = s \o r
<1>1. r = <<Head(r)>> \o Tail(r) /\ Head(r) \in Row /\ Tail(r) \in Seq(Row)
  OBVIOUS
<1>2. Append(s, Head(r)) = s \o <<Head(r)>>
  OBVIOUS
<1>3. <<Head(r)>> \in Seq(Row)
  BY <1>1
<1>4. (s \o <<Head(r)>>) \o Tail(r) = s \o (<<Head(r)>> \o Tail(r))
  BY <1>1, <1>3, ConcatAssociative
<1> QED  BY <1>1, <1>2, <1>4

LEMMA StepIsRowStoreStep ==
  ASSUME RowStoreInv, RowStoreInv', [Next]_vars
  PROVE  [Abstract!Next]_<<snapshot \o refill, call>>
<1> DEFINE rows == snapshot \o refill
<1>1. SnapshotFacts /\ SnapshotFacts' /\ refill \in Seq(Row) /\ refill' \in Seq(Row)
  BY SnapshotRows, SnapshotRowsNext DEF RowStoreInv, StoreInv
<1>2. /\ snapshot \in Seq(Row) /\ snapshot' \in Seq(Row)
      /\ Len(snapshot) = size /\ size \in Nat
  BY <1>1 DEF SnapshotFacts
<1>3. refill = << >> => rows = snapshot
  BY <1>2, ConcatEmptySeq
<1>4. refill' = << >> => rows' = snapshot'
  BY <1>2, ConcatEmptySeq
<1>5. snapshot' = << >> => rows' = refill'
  BY <1>1, ConcatEmptySeq
<1>6. CASE UNCHANGED vars
  BY <1>6 DEF vars, snapshot, get
<1>7. CASE Next
  <2>1. Effect
    BY <1>7, RowStoreStep
  <2>2. ASSUME NEW row \in Row, append(row), snapshot' = Append(snapshot, row)
        PROVE  Abstract!append(row)
    <3>1. refill = << >> /\ refill' = << >> /\ call' = [op |-> "append", row |-> row]
      BY <2>2 DEF append, Settled
    <3> QED  BY <1>3, <1>4, <2>2, <3>1 DEF Abstract!append
  <2>3. ASSUME NEW id \in 0..(size - 1), NEW row \in Row, update(id, row),
               snapshot' = [snapshot EXCEPT ![id + 1] = row]
        PROVE  Abstract!update(id, row) /\ id \in 0..(Len(rows) - 1)
    <3>1. /\ refill = << >> /\ refill' = << >>
          /\ call' = [op |-> "update", id |-> id, row |-> row]
      BY <2>3 DEF update, Settled
    <3> QED  BY <1>2, <1>3, <1>4, <2>3, <3>1 DEF Abstract!update
  <2>4. ASSUME NEW id \in 0..(size - 1), erase(id), snapshot' = << >>,
               refill' = RemoveRow(snapshot, id)
        PROVE  Abstract!erase(id) /\ id \in 0..(Len(rows) - 1)
    <3>1. refill = << >> /\ call' = [op |-> "erase", id |-> id]
      BY <2>4 DEF erase, clearThenRefill, Settled
    <3>2. rows = snapshot /\ rows' = RemoveRow(snapshot, id)
      BY <1>3, <1>5, <2>4, <3>1
    <3>3. id \in 0..(Len(rows) - 1) /\ id < Len(rows)
      BY <1>2, <3>2
    <3>4. rows' = Abstract!RemoveRow(rows, id)
      BY <3>2 DEF Abstract!RemoveRow, RemoveRow
    <3> HIDE DEF rows
    <3> QED  BY <3>1, <3>3, <3>4 DEF Abstract!erase, rows
  <2>5. ASSUME NEW rs \in Seq(Row), replaceRows(rs), snapshot' = << >>, refill' = rs
        PROVE  Abstract!replaceRows(rows')
    <3>1. call' = [op |-> "replaceRows", rows |-> rs] /\ rows' = rs
      BY <1>5, <2>5 DEF replaceRows
    <3> QED  BY <3>1 DEF Abstract!replaceRows
  <2>6. ASSUME refillRow, snapshot' = Append(snapshot, Head(refill)), Head(refill) \in Row
        PROVE  UNCHANGED <<rows, call>>
    <3>1. refill # << >> /\ refill' = Tail(refill) /\ call' = call
      BY <2>6 DEF refillRow, Settled
    <3>2. Append(snapshot, Head(refill)) \o Tail(refill) = snapshot \o refill
      BY <1>1, <1>2, <3>1, MoveOne
    <3> QED  BY <2>6, <3>1, <3>2
  <2> QED  BY <2>1, <2>2, <2>3, <2>4, <2>5, <2>6 DEF Effect, Abstract!Next
<1> QED  BY <1>6, <1>7

(* The pages, read through the slots, are a vector of rows: every sequence *)
(* of calls has the effect the abstract row store says it has.             *)
(* (PageRowStore against the RowStore interface and VectorRowStore)        *)
THEOREM PagesAreRows == Spec => RefinesRowStore
<1>1. Init => Abstract!Init
  <2> SUFFICES ASSUME Init PROVE Abstract!Init
    OBVIOUS
  <2>1. snapshot = << >> /\ refill = << >> /\ call = [op |-> "none"]
    BY RowStoreInit DEF Init
  <2>2. snapshot \o refill = << >>
    BY <2>1
  <2> QED  BY <2>1, <2>2 DEF Abstract!Init
<1>2. RowStoreInv /\ RowStoreInv' /\ [Next]_vars
        => [Abstract!Next]_<<snapshot \o refill, call>>
  BY StepIsRowStoreStep
<1> QED  BY <1>1, <1>2, RowStoreAlways, PTL DEF Spec, RefinesRowStore, Abstract!Spec

=============================================================================
