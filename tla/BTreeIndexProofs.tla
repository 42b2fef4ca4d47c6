-------------------------- MODULE BTreeIndexProofs ---------------------------
(***************************************************************************)
(* What the operators of the two indexes compute, for any values, any      *)
(* entries and any leaf capacity.                                          *)
(*                                                                         *)
(* The order of values is total, so the keys have ranks and Ascending lists *)
(* each of them once.  The leaves are that list cut at multiples of the    *)
(* capacity (Cuts), and what the lookups pass over is the list again       *)
(* (LeavesHoldEntries).  From these follow the layout (LayoutIsBTree) and  *)
(* what find, lessThan and greaterThan collect.                            *)
(*                                                                         *)
(* Facts about loops are proved by induction over the set of numbers for   *)
(* which they hold (SetInduction); each loop is a recursive function, and  *)
(* the first lemma about it says that there is one (Flattened).            *)
(***************************************************************************)
EXTENDS BTreeIndex, FiniteSetTheorems, SequenceTheorems, WellFoundedInduction, TLAPS

-----------------------------------------------------------------------------
(* Induction.                                                              *)

(* A set of naturals that is not empty has a least element.                *)
LEMMA LeastNatural ==
  ASSUME NEW T, T \subseteq Nat, T # {}
  PROVE  \E x \in T : \A y \in T : ~(y < x)
<1>1. \E x \in T : \A y \in T : ~(<<y, x>> \in OpToRel(<, Nat))
  BY NatLessThanWellFounded, WFMin
<1>2. \A x, y \in Nat : y < x => <<y, x>> \in OpToRel(<, Nat)
  BY DEF OpToRel
<1>3. QED
  BY <1>1, <1>2

(* A set of numbers that is bounded and not empty has a greatest element.  *)
LEMMA GreatestNatural ==
  ASSUME NEW n \in Nat, NEW T, T \subseteq 0..n, T # {}
  PROVE  \E x \in T : \A y \in T : y <= x
<1> DEFINE U == {n - t : t \in T}
<1>1. U \subseteq Nat /\ U # {}
  <2>1. \A t \in T : n - t \in Nat
    OBVIOUS
  <2>2. PICK t : t \in T
    OBVIOUS
  <2>3. n - t \in U
    BY <2>2
  <2>4. QED
    BY <2>1, <2>3
<1>2. PICK u \in U : \A w \in U : ~(w < u)
  <2> HIDE DEF U
  <2>1. QED
    BY <1>1, LeastNatural
<1>3. PICK x \in T : u = n - x
  BY <1>2
<1>4. ASSUME NEW y \in T
      PROVE  y <= x
  <2>1. n - y \in U
    OBVIOUS
  <2>2. ~(n - y < n - x)
    BY <1>2, <1>3, <2>1
  <2>3. x \in Nat /\ y \in Nat
    OBVIOUS
  <2>4. QED
    BY <2>2, <2>3
<1>5. QED
  BY <1>4

(* Induction, for a property given as the set of the numbers that have it. *)
LEMMA SetInduction ==
  ASSUME NEW S, 0 \in S, \A n \in Nat : n \in S => n + 1 \in S
  PROVE  \A n \in Nat : n \in S
<1>1. SUFFICES ASSUME {n \in Nat : n \notin S} # {} PROVE FALSE
  OBVIOUS
<1>2. PICK x \in {n \in Nat : n \notin S} : \A y \in {n \in Nat : n \notin S} : ~(y < x)
  BY <1>1, LeastNatural
<1>3. x \in Nat /\ x # 0 /\ x - 1 \in Nat
  BY <1>2
<1>4. QED
  BY <1>2, <1>3

LEMMA IntervalSize ==
  ASSUME NEW n \in Nat
  PROVE  /\ IsFiniteSet(0..(n - 1)) /\ Cardinality(0..(n - 1)) = n
         /\ IsFiniteSet(1..n) /\ Cardinality(1..n) = n
<1>1. /\ IsFiniteSet(0..(n - 1))
      /\ Cardinality(0..(n - 1)) = IF 0 > n - 1 THEN 0 ELSE (n - 1) - 0 + 1
  BY FS_Interval
<1>2. IsFiniteSet(1..n) /\ Cardinality(1..n) = IF 1 > n THEN 0 ELSE n - 1 + 1
  BY FS_Interval
<1>3. QED
  BY <1>1, <1>2

-----------------------------------------------------------------------------
(* Removing.                                                               *)

\* The functions Without defines.
IsKept(g, ids, id) ==
  g = [n \in 0..Len(ids) |->
         IF n = 0 THEN << >>
         ELSE IF ids[n] = id THEN g[n - 1] ELSE Append(g[n - 1], ids[n])]

(* Without an id that was appended, and occurs nowhere else, the row ids   *)
(* are what they were.                                                     *)
LEMMA AppendedIsRemoved ==
  ASSUME NEW T, NEW s \in Seq(T), NEW id, \A i \in DOMAIN s : s[i] # id
  PROVE  Without(Append(s, id), id) = s
<1> DEFINE ids == Append(s, id)
           g == [n \in 0..Len(ids) |-> IF n <= Len(s) THEN SubSeq(s, 1, n) ELSE s]
<1>1. /\ Len(s) \in Nat /\ DOMAIN s = 1..Len(s) /\ Len(ids) = Len(s) + 1
      /\ \A n \in 1..Len(s) : ids[n] = s[n] /\ s[n] \in T
      /\ ids[Len(s) + 1] = id
  OBVIOUS
<1> HIDE DEF ids
<1>a. /\ \A n \in 0..Len(s) : g[n] = SubSeq(s, 1, n)
      /\ g[Len(s) + 1] = s
  <2>1. /\ Len(s) + 1 \in 0..Len(ids) /\ ~(Len(s) + 1 <= Len(s))
        /\ \A n \in 0..Len(s) : n \in 0..Len(ids) /\ n <= Len(s)
    BY <1>1
  <2>2. QED
    BY <2>1
<1>b. \A n \in 1..Len(s) : ids[n] # id
  BY <1>1
\* There is such a function ...
<1>2. IsKept(g, ids, id)
  <2>1. ASSUME NEW n \in 0..Len(ids)
        PROVE  g[n] = IF n = 0 THEN << >>
                      ELSE IF ids[n] = id THEN g[n - 1] ELSE Append(g[n - 1], ids[n])
    <3> HIDE DEF g
    <3>1. CASE n = 0
      BY <1>1, <1>a, <3>1
    <3>2. CASE n \in 1..Len(s)
      <4>1. g[n] = SubSeq(s, 1, n) /\ g[n - 1] = SubSeq(s, 1, n - 1) /\ n # 0
        BY <1>1, <1>a, <3>2
      <4>2. SubSeq(s, 1, n) = Append(SubSeq(s, 1, n - 1), s[n])
        BY <1>1, <3>2
      <4>3. QED
        BY <1>1, <1>b, <3>2, <4>1, <4>2
    <3>3. CASE n = Len(s) + 1
      <4>1. g[n] = s /\ g[n - 1] = SubSeq(s, 1, Len(s)) /\ n # 0 /\ ids[n] = id
        BY <1>1, <1>a, <3>3
      <4>2. SubSeq(s, 1, Len(s)) = s
        BY <1>1
      <4>3. QED
        BY <1>1, <3>3, <4>1, <4>2
    <3>4. QED
      BY <1>1, <3>1, <3>2, <3>3
  <2>2. QED
    BY <2>1 DEF IsKept
\* ... and it is the only one.
<1>3. ASSUME NEW f, IsKept(f, ids, id)
      PROVE  f[Len(ids)] = g[Len(ids)]
  <2> DEFINE S == {n \in Nat : n <= Len(ids) => f[n] = g[n]}
  <2>1. \A n \in 0..Len(ids) :
          f[n] = IF n = 0 THEN << >>
                 ELSE IF ids[n] = id THEN f[n - 1] ELSE Append(f[n - 1], ids[n])
    BY <1>3, Zenon DEF IsKept
  <2>2. \A n \in 0..Len(ids) :
          g[n] = IF n = 0 THEN << >>
                 ELSE IF ids[n] = id THEN g[n - 1] ELSE Append(g[n - 1], ids[n])
    <3> HIDE DEF g
    <3>1. QED
      BY <1>2, Zenon DEF IsKept
  <2> HIDE DEF g
  <2>3. 0 \in S
    BY <1>1, <2>1, <2>2
  <2>4. ASSUME NEW n \in Nat, n \in S
        PROVE  n + 1 \in S
    <3>1. SUFFICES ASSUME n + 1 <= Len(ids)
                   PROVE  f[n + 1] = g[n + 1]
      OBVIOUS
    <3>2. n + 1 \in 0..Len(ids) /\ n + 1 # 0 /\ (n + 1) - 1 = n
      BY <1>1, <3>1
    <3>3. f[n] = g[n]
      BY <1>1, <2>4, <3>1
    <3>4. QED
      BY <2>1, <2>2, <3>2, <3>3
  <2>5. \A n \in Nat : n \in S
    <3> HIDE DEF S
    <3>1. QED
      BY <2>3, <2>4, SetInduction
  <2>6. QED
    BY <1>1, <2>5
<1>4. Without(ids, id) = (CHOOSE f : IsKept(f, ids, id))[Len(ids)]
  BY DEF Without, IsKept
<1>5. g[Len(ids)] = s
  BY <1>1, <1>a
<1> HIDE DEF g
<1>6. Without(ids, id) = s
  BY <1>2, <1>3, <1>4, <1>5
<1>7. QED
  BY <1>6 DEF ids

-----------------------------------------------------------------------------
(* The order of the values.                                                *)

(* operator< is a strict total order, NULL and values of different types   *)
(* included.                                                               *)
LEMMA LessIrreflexive ==
  ASSUME NEW x \in AnyValue
  PROVE  ~less(x, x)
BY DEF less, AnyValue, Null, TypeIndex

LEMMA LessTotal ==
  ASSUME NEW x \in AnyValue, NEW y \in AnyValue, x # y
  PROVE  less(x, y) \/ less(y, x)
BY DEF less, AnyValue, Null, TypeIndex

LEMMA LessTransitive ==
  ASSUME NEW x \in AnyValue, NEW y \in AnyValue, NEW z \in AnyValue, less(x, y), less(y, z)
  PROVE  less(x, z)
BY DEF less, AnyValue, Null, TypeIndex

-----------------------------------------------------------------------------
(* Keys in order.                                                          *)

\* How many keys are less: the place of a key, counted from zero.
Below(keys, k) == {j \in keys : less(j, k)}
Rank(keys, k) == Cardinality(Below(keys, k))

LEMMA RankBounds ==
  ASSUME NEW keys, IsFiniteSet(keys), keys \subseteq AnyValue, NEW k \in keys
  PROVE  IsFiniteSet(Below(keys, k)) /\ Rank(keys, k) \in 0..(Cardinality(keys) - 1)
<1>1. Below(keys, k) \subseteq keys \ {k}
  BY LessIrreflexive DEF Below
<1>2. IsFiniteSet(keys \ {k}) /\ Cardinality(keys \ {k}) = Cardinality(keys) - 1
  BY FS_RemoveElement
<1>3. IsFiniteSet(Below(keys, k)) /\ Cardinality(Below(keys, k)) <= Cardinality(keys) - 1
  BY <1>1, <1>2, FS_Subset
<1>4. Cardinality(Below(keys, k)) \in Nat /\ Cardinality(keys) \in Nat
  BY <1>3, FS_CardinalityType
<1>5. QED
  BY <1>3, <1>4 DEF Rank

LEMMA RankIncreases ==
  ASSUME NEW keys, IsFiniteSet(keys), keys \subseteq AnyValue, NEW j \in keys, NEW k \in keys,
         less(j, k)
  PROVE  Rank(keys, j) < Rank(keys, k)
<1>1. Below(keys, j) \subseteq Below(keys, k)
  BY LessTransitive DEF Below
<1>2. j \in Below(keys, k) /\ j \notin Below(keys, j)
  BY LessIrreflexive DEF Below
<1>3. /\ IsFiniteSet(Below(keys, k)) /\ IsFiniteSet(Below(keys, j))
      /\ Cardinality(Below(keys, k)) \in Nat /\ Cardinality(Below(keys, j)) \in Nat
  BY RankBounds, FS_CardinalityType
<1>4. /\ Cardinality(Below(keys, j)) <= Cardinality(Below(keys, k))
      /\ Cardinality(Below(keys, k)) # Cardinality(Below(keys, j))
  BY <1>1, <1>2, <1>3, FS_Subset
<1>5. QED
  BY <1>3, <1>4 DEF Rank

LEMMA RankInjective ==
  ASSUME NEW keys, IsFiniteSet(keys), keys \subseteq AnyValue, NEW j \in keys, NEW k \in keys,
         Rank(keys, j) = Rank(keys, k)
  PROVE  j = k
<1>1. Rank(keys, j) \in Nat /\ Rank(keys, k) \in Nat
  BY RankBounds, FS_CardinalityType
<1>2. ~less(j, k) /\ ~less(k, j)
  BY <1>1, RankIncreases
<1>3. QED
  BY <1>2, LessTotal

\* Every place is taken.
LEMMA RankSurjective ==
  ASSUME NEW keys, IsFiniteSet(keys), keys \subseteq AnyValue,
         NEW i \in 0..(Cardinality(keys) - 1)
  PROVE  \E k \in keys : Rank(keys, k) = i
<1>0. Cardinality(keys) \in Nat
  BY FS_CardinalityType
<1> DEFINE places == 0..(Cardinality(keys) - 1)
           rank == [k \in keys |-> Rank(keys, k)]
<1>1. SUFFICES ASSUME \A k \in keys : Rank(keys, k) # i PROVE FALSE
  OBVIOUS
<1>2. IsFiniteSet(places) /\ Cardinality(places) = Cardinality(keys)
  BY <1>0, IntervalSize
<1> HIDE DEF places
<1>3. i \in places
  BY DEF places
<1>4. IsFiniteSet(places \ {i}) /\ Cardinality(places \ {i}) = Cardinality(keys) - 1
  BY <1>2, <1>3, FS_RemoveElement
<1>5. \A k \in keys : Rank(keys, k) \in places \ {i}
  BY <1>1, RankBounds DEF places
<1>6. rank \in [keys -> places \ {i}]
  BY <1>5
<1>7. PICK j \in keys, k \in keys : j # k /\ rank[j] = rank[k]
  <2> HIDE DEF rank
  <2>1. Cardinality(places \ {i}) < Cardinality(keys)
    BY <1>0, <1>4
  <2>2. QED
    BY <1>4, <1>6, <2>1, FS_PigeonHole
<1>8. Rank(keys, j) = Rank(keys, k)
  BY <1>7
<1>9. QED
  BY <1>7, <1>8, RankInjective

(* The iteration order of the keys: all of them, ascending.                *)
LEMMA AscendingKeys ==
  ASSUME NEW keys, IsFiniteSet(keys), keys \subseteq AnyValue
  PROVE  /\ Ascending(keys) \in Seq(keys) /\ Len(Ascending(keys)) = Cardinality(keys)
         /\ \A k \in keys : \E i \in 1..Cardinality(keys) : Ascending(keys)[i] = k
         /\ \A i, j \in 1..Cardinality(keys) :
              i < j => less(Ascending(keys)[i], Ascending(keys)[j])
<1> DEFINE ks == Ascending(keys)
<1>0. Cardinality(keys) \in Nat
  BY FS_CardinalityType
<1>1. ASSUME NEW i \in 1..Cardinality(keys)
      PROVE  ks[i] \in keys /\ Rank(keys, ks[i]) = i - 1
  <2>1. ks[i] = CHOOSE k \in keys : Rank(keys, k) = i - 1
    BY DEF Ascending, Rank, Below
  <2>2. i - 1 \in 0..(Cardinality(keys) - 1)
    BY <1>0
  <2>3. \E k \in keys : Rank(keys, k) = i - 1
    BY <2>2, RankSurjective
  <2>4. QED
    BY <2>1, <2>3
<1>2. ks \in [1..Cardinality(keys) -> keys]
  BY <1>1 DEF Ascending
<1>3. ks \in Seq(keys) /\ Len(ks) = Cardinality(keys)
  BY <1>0, <1>2
<1> HIDE DEF ks
<1>4. ASSUME NEW k \in keys
      PROVE  \E i \in 1..Cardinality(keys) : ks[i] = k
  <2>1. Rank(keys, k) \in 0..(Cardinality(keys) - 1)
    BY RankBounds
  <2>2. Rank(keys, k) + 1 \in 1..Cardinality(keys) /\ (Rank(keys, k) + 1) - 1 = Rank(keys, k)
    BY <1>0, <2>1
  <2>3. ks[Rank(keys, k) + 1] = k
    BY <1>1, <2>2, RankInjective
  <2>4. QED
    BY <2>2, <2>3
<1>5. ASSUME NEW i \in 1..Cardinality(keys), NEW j \in 1..Cardinality(keys), i < j
      PROVE  less(ks[i], ks[j])
  <2>1. ks[i] # ks[j]
    BY <1>1, <1>5
  <2>2. ~less(ks[j], ks[i])
    <3>1. less(ks[j], ks[i]) => Rank(keys, ks[j]) < Rank(keys, ks[i])
      BY <1>1, RankIncreases
    <3>2. QED
      BY <1>1, <1>5, <3>1
  <2>3. QED
    BY <1>1, <2>1, <2>2, LessTotal
<1>6. QED
  BY <1>3, <1>4, <1>5 DEF ks

-----------------------------------------------------------------------------
(* Sequences of sequences.                                                 *)

\* The functions FlattenSeq defines, up to n.
IsFlatten(g, seqs, n) ==
  g = [i \in 1..n |-> IF i = 1 THEN seqs[i] ELSE g[i - 1] \o seqs[i]]

LEMMA Flattened ==
  ASSUME NEW seqs, Len(seqs) \in Nat \ {0}
  PROVE  \E g : /\ FlattenSeq(seqs) = g[Len(seqs)]
                /\ g[1] = seqs[1]
                /\ \A i \in 1..(Len(seqs) - 1) : g[i + 1] = g[i] \o seqs[i + 1]
<1> DEFINE S == {m \in Nat : \E g : IsFlatten(g, seqs, m + 1)}
<1>1. 0 \in S
  <2>1. IsFlatten([i \in 1..1 |-> seqs[1]], seqs, 0 + 1)
    BY DEF IsFlatten
  <2>2. QED
    BY <2>1
<1>2. ASSUME NEW m \in Nat, m \in S
      PROVE  m + 1 \in S
  <2>1. PICK g : IsFlatten(g, seqs, m + 1)
    BY <1>2
  <2> DEFINE h == [i \in 1..((m + 1) + 1) |-> IF i <= m + 1 THEN g[i] ELSE g[m + 1] \o seqs[m + 2]]
  <2>2. \A i \in 1..(m + 1) : g[i] = IF i = 1 THEN seqs[i] ELSE g[i - 1] \o seqs[i]
    BY <2>1, Zenon DEF IsFlatten
  <2>3. ASSUME NEW i \in 1..((m + 1) + 1)
        PROVE  h[i] = IF i = 1 THEN seqs[i] ELSE h[i - 1] \o seqs[i]
    <3>1. CASE i <= m + 1
      <4>1. i \in 1..(m + 1) /\ h[i] = g[i] /\ (i # 1 => h[i - 1] = g[i - 1])
        BY <3>1
      <4> HIDE DEF h
      <4>2. QED
        BY <2>2, <4>1
    <3>2. CASE i = m + 2
      <4>0. /\ ~(i <= m + 1) /\ i - 1 = m + 1 /\ i # 1
            /\ m + 1 \in 1..((m + 1) + 1) /\ m + 1 <= m + 1
        BY <3>2
      <4>1. h[i] = g[m + 1] \o seqs[i] /\ h[i - 1] = g[m + 1] /\ i # 1
        BY <3>2, <4>0
      <4> HIDE DEF h
      <4>2. QED
        BY <4>1
    <3>3. QED
      BY <3>1, <3>2
  <2>4. IsFlatten(h, seqs, (m + 1) + 1)
    BY <2>3 DEF IsFlatten
  <2>5. \E f : IsFlatten(f, seqs, (m + 1) + 1)
    <3> HIDE DEF h
    <3>1. QED
      BY <2>4
  <2>6. QED
    BY <2>5
<1>3. \A m \in Nat : m \in S
  <2> HIDE DEF S
  <2>1. QED
    BY <1>1, <1>2, SetInduction
<1>4. \E g : IsFlatten(g, seqs, Len(seqs))
  <2>1. Len(seqs) - 1 \in Nat /\ (Len(seqs) - 1) + 1 = Len(seqs)
    OBVIOUS
  <2>2. Len(seqs) - 1 \in S
    BY <1>3, <2>1
  <2>3. QED
    BY <2>1, <2>2
<1>5. FlattenSeq(seqs) = (CHOOSE g : IsFlatten(g, seqs, Len(seqs)))[Len(seqs)]
  BY DEF FlattenSeq, IsFlatten
<1>6. PICK g : IsFlatten(g, seqs, Len(seqs)) /\ FlattenSeq(seqs) = g[Len(seqs)]
  BY <1>4, <1>5
<1>7. \A i \in 1..Len(seqs) : g[i] = IF i = 1 THEN seqs[i] ELSE g[i - 1] \o seqs[i]
  BY <1>6, Zenon DEF IsFlatten
<1>8. ASSUME NEW i \in 1..(Len(seqs) - 1)
      PROVE  g[i + 1] = g[i] \o seqs[i + 1]
  <2>1. i + 1 \in 1..Len(seqs) /\ i + 1 # 1 /\ (i + 1) - 1 = i
    OBVIOUS
  <2>2. QED
    BY <1>7, <2>1
<1>9. g[1] = seqs[1]
  BY <1>7
<1>10. QED
  BY <1>6, <1>8, <1>9

(* Two adjacent pieces of a sequence make one.                             *)
LEMMA PiecesJoin ==
  ASSUME NEW T, NEW s \in Seq(T), NEW a \in 0..Len(s), NEW b \in 0..Len(s), a <= b
  PROVE  SubSeq(s, 1, a) \o SubSeq(s, a + 1, b) = SubSeq(s, 1, b)
<1> DEFINE x == SubSeq(s, 1, a)
           y == SubSeq(s, a + 1, b)
           z == SubSeq(s, 1, b)
<1>1. x \in Seq(T) /\ Len(x) = a /\ \A i \in 1..a : x[i] = s[i]
  OBVIOUS
<1>2. y \in Seq(T) /\ Len(y) = b - a /\ \A i \in 1..(b - a) : y[i] = s[a + i]
  OBVIOUS
<1>3. z \in Seq(T) /\ Len(z) = b /\ \A i \in 1..b : z[i] = s[i]
  OBVIOUS
<1> HIDE DEF x, y, z
<1>4. /\ x \o y \in Seq(T) /\ Len(x \o y) = Len(x) + Len(y)
      /\ \A i \in 1..(Len(x) + Len(y)) : (x \o y)[i] = IF i <= Len(x) THEN x[i] ELSE y[i - Len(x)]
  BY <1>1, <1>2, ConcatProperties
<1>5. a \in Nat /\ b \in Nat /\ Len(x \o y) = b
  BY <1>1, <1>2, <1>4
<1>6. ASSUME NEW i \in 1..b
      PROVE  (x \o y)[i] = z[i]
  <2>1. CASE i <= a
    BY <1>1, <1>2, <1>3, <1>4, <1>5, <2>1
  <2>2. CASE ~(i <= a)
    <3>1. i - a \in 1..(b - a) /\ a + (i - a) = i /\ i \in 1..(Len(x) + Len(y))
      BY <1>1, <1>2, <1>5, <2>2
    <3>2. QED
      BY <1>1, <1>2, <1>3, <1>4, <2>2, <3>1
  <2>3. QED
    BY <2>1, <2>2
<1>7. x \o y = z
  BY <1>3, <1>4, <1>5, <1>6, SeqEqual
<1>8. QED
  BY <1>7 DEF x, y, z

(* A sequence cut into pieces is their concatenation.                      *)
LEMMA PiecesFlatten ==
  ASSUME NEW T, NEW s \in Seq(T), NEW n \in Nat \ {0}, NEW cut \in [0..n -> 0..Len(s)],
         cut[0] = 0, cut[n] = Len(s), \A i \in 1..n : cut[i - 1] <= cut[i],
         NEW seqs, Len(seqs) = n,
         \A i \in 1..n : seqs[i] = SubSeq(s, cut[i - 1] + 1, cut[i])
  PROVE  FlattenSeq(seqs) = s
<1>1. PICK g : /\ FlattenSeq(seqs) = g[n] /\ g[1] = seqs[1]
               /\ \A i \in 1..(n - 1) : g[i + 1] = g[i] \o seqs[i + 1]
  BY Flattened
<1> DEFINE S == {m \in Nat : m + 1 <= n => g[m + 1] = SubSeq(s, 1, cut[m + 1])}
<1>2. 0 \in S
  <2>1. seqs[1] = SubSeq(s, cut[1 - 1] + 1, cut[1])
    OBVIOUS
  <2>2. cut[1 - 1] + 1 = 1
    OBVIOUS
  <2>3. 0 + 1 = 1
    OBVIOUS
  <2>4. QED
    BY <1>1, <2>1, <2>2, <2>3
<1>3. ASSUME NEW m \in Nat, m \in S
      PROVE  m + 1 \in S
  <2>1. SUFFICES ASSUME (m + 1) + 1 <= n
                 PROVE  g[(m + 1) + 1] = SubSeq(s, 1, cut[(m + 1) + 1])
    OBVIOUS
  <2> DEFINE i == m + 1
  <2>2. i \in 1..(n - 1) /\ i + 1 \in 1..n /\ (i + 1) - 1 = i
    BY <2>1
  <2>0. m + 1 <= n
    BY <2>1
  <2>3. g[i] = SubSeq(s, 1, cut[i])
    BY <1>3, <2>0
  <2> HIDE DEF i
  <2>4. g[i + 1] = SubSeq(s, 1, cut[i]) \o SubSeq(s, cut[i] + 1, cut[i + 1])
    BY <1>1, <2>2, <2>3
  <2>5. cut[i] \in 0..Len(s) /\ cut[i + 1] \in 0..Len(s) /\ cut[i] <= cut[i + 1]
    BY <2>2, SMTT(20)
  <2>6. g[i + 1] = SubSeq(s, 1, cut[i + 1])
    BY <2>4, <2>5, PiecesJoin
  <2>7. QED
    BY <2>6 DEF i
<1>4. \A m \in Nat : m \in S
  <2> HIDE DEF S
  <2>1. QED
    BY <1>2, <1>3, SetInduction
<1>5. n - 1 \in Nat /\ (n - 1) + 1 = n
  OBVIOUS
<1>6. g[n] = SubSeq(s, 1, Len(s))
  <2>1. n - 1 \in S
    BY <1>4, <1>5
  <2>2. QED
    BY <1>5, <2>1, SMTT(20)
<1>7. SubSeq(s, 1, Len(s)) = s
  OBVIOUS
<1>8. QED
  BY <1>1, <1>6, <1>7

-----------------------------------------------------------------------------
(* Division of the keys among the leaves.                                  *)

M == maxKeysPerLeaf_
PagesFor(len) == (len + M - 1) \div M

LEMMA ProductOrder ==
  ASSUME NEW a \in Nat, NEW b \in Nat, a <= b
  PROVE  /\ a * M \in Nat /\ b * M \in Nat /\ a * M <= b * M
         /\ (a + 1) * M = a * M + M
BY LeafCapacityAssumption DEF M

LEMMA PageCount ==
  ASSUME NEW len \in Nat
  PROVE  /\ PagesFor(len) \in Nat /\ (len = 0 <=> PagesFor(len) = 0)
         /\ len <= PagesFor(len) * M
         /\ len # 0 => (PagesFor(len) - 1) * M < len
<1> DEFINE a == len + M - 1
           q == a \div M
<1>1. M \in Nat \ {0} /\ a \in Nat
  BY LeafCapacityAssumption DEF M
<1>2. q \in Nat /\ a % M \in 0..(M - 1) /\ a = M * q + (a % M)
  <2> HIDE DEF a
  <2>1. QED
    BY <1>1
<1>3. PagesFor(len) = q
  BY DEF PagesFor
<1>4. M * q = q * M /\ (q - 1) * M = q * M - M
  BY <1>1, <1>2
<1>5. len <= q * M
  BY <1>1, <1>2, <1>4
<1>6. len # 0 => (q - 1) * M < len
  BY <1>1, <1>2, <1>4
<1>7. len = 0 => q = 0
  <2>1. CASE len = 0 /\ q >= 1
    <3>1. q * M >= M
      BY <1>1, <1>2, <2>1
    <3>2. QED
      BY <1>1, <1>2, <1>4, <2>1, <3>1
  <2>2. QED
    BY <1>2, <2>1
<1>8. q = 0 => len = 0
  BY <1>1, <1>5
<1>9. QED
  BY <1>2, <1>3, <1>5, <1>6, <1>7, <1>8

\* How many keys the first p leaves hold.
Cut(len, p) == IF p < PagesFor(len) THEN p * M ELSE len

LEMMA Cuts ==
  ASSUME NEW len \in Nat
  PROVE  /\ Cut(len, 0) = 0
         /\ \A p \in Nat : Cut(len, p) \in 0..len /\ Cut(len, p) <= Cut(len, p + 1)
         /\ \A p \in Nat : p >= PagesFor(len) => Cut(len, p) = len
         /\ \A p \in 1..PagesFor(len) :
              /\ Cut(len, p - 1) = (p - 1) * M
              /\ Cut(len, p) = IF p = PagesFor(len) THEN len ELSE p * M
              /\ Cut(len, p) - Cut(len, p - 1) \in 1..M
              /\ p < PagesFor(len) => Cut(len, p) - Cut(len, p - 1) = M
<1> DEFINE n == PagesFor(len)
<1>1. /\ n \in Nat /\ (len = 0 <=> n = 0) /\ len <= n * M
      /\ (len # 0 => (n - 1) * M < len) /\ M \in Nat \ {0}
  BY PageCount, LeafCapacityAssumption DEF M
<1> HIDE DEF n
<1>2. \A p \in Nat : Cut(len, p) = IF p < n THEN p * M ELSE len
  BY DEF Cut, n
<1>3. Cut(len, 0) = 0
  BY <1>1, <1>2
<1>4. ASSUME NEW p \in Nat, p < n
      PROVE  /\ p * M \in Nat /\ p * M < len /\ (p + 1) * M = p * M + M
             /\ p + 1 < n => (p + 1) * M <= len
             /\ p + 1 = n => len <= p * M + M
  <2>1. n - 1 \in Nat /\ p <= n - 1 /\ len # 0
    BY <1>1, <1>4
  <2>2. p * M \in Nat /\ p * M <= (n - 1) * M /\ (n - 1) * M \in Nat /\ (p + 1) * M = p * M + M
    BY <2>1, ProductOrder
  <2>3. p + 1 < n => p + 1 \in Nat /\ p + 1 <= n - 1
    BY <1>1
  <2>4. p + 1 < n => (p + 1) * M <= (n - 1) * M /\ (p + 1) * M \in Nat
    BY <2>1, <2>3, ProductOrder
  <2>5. p + 1 = n => len <= (p + 1) * M
    BY <1>1
  <2>6. p + 1 < n => (p + 1) * M <= len
    BY <1>1, <2>1, <2>2, <2>4
  <2>7. QED
    BY <1>1, <2>1, <2>2, <2>5, <2>6
<1>5. ASSUME NEW p \in Nat
      PROVE  Cut(len, p) \in 0..len /\ Cut(len, p) <= Cut(len, p + 1)
  <2>1. CASE p < n
    <3>1. Cut(len, p) = p * M /\ Cut(len, p) \in 0..len
      BY <1>2, <1>4, <2>1
    <3>2. CASE p + 1 < n
      BY <1>1, <1>2, <1>4, <2>1, <3>1, <3>2
    <3>3. CASE p + 1 = n
      BY <1>1, <1>2, <1>4, <2>1, <3>1, <3>3
    <3>4. QED
      BY <1>1, <2>1, <3>2, <3>3
  <2>2. CASE ~(p < n)
    <3>1. ~(p + 1 < n)
      BY <1>1, <2>2
    <3>2. QED
      BY <1>2, <2>2, <3>1
  <2>3. QED
    BY <2>1, <2>2
<1>6. ASSUME NEW p \in 1..n
      PROVE  /\ Cut(len, p - 1) = (p - 1) * M
             /\ Cut(len, p) = IF p = n THEN len ELSE p * M
             /\ Cut(len, p) - Cut(len, p - 1) \in 1..M
             /\ p < n => Cut(len, p) - Cut(len, p - 1) = M
  <2>1. p - 1 \in Nat /\ p - 1 < n /\ (p - 1) + 1 = p /\ p \in Nat
    BY <1>1
  <2>2. /\ (p - 1) * M \in Nat /\ (p - 1) * M < len /\ p * M = (p - 1) * M + M
        /\ p = n => len <= (p - 1) * M + M
    BY <1>4, <2>1
  <2>3. Cut(len, p - 1) = (p - 1) * M
    BY <1>2, <2>1
  <2>4. Cut(len, p) = IF p = n THEN len ELSE p * M
    BY <1>1, <1>2, <2>1
  <2>5. QED
    BY <1>1, <2>1, <2>2, <2>3, <2>4
<1>7. \A p \in Nat : p >= n => Cut(len, p) = len
  BY <1>1, <1>2
<1>8. QED
  BY <1>3, <1>5, <1>6, <1>7 DEF n

LEMMA CutAt ==
  ASSUME NEW len \in Nat, NEW p \in Nat
  PROVE  /\ Cut(len, p) \in 0..len /\ Cut(len, p) <= Cut(len, p + 1)
         /\ p >= PagesFor(len) => Cut(len, p) = len
BY Cuts

-----------------------------------------------------------------------------
(* The nodes.                                                              *)

\* What rebuildLayout makes of entries whose keys in order are ks.
IsLayout(nodes, e, ks, n) ==
  /\ DOMAIN nodes = 1..Len(nodes)
  /\ Len(nodes) = IF n = 0 THEN 1 ELSE IF n = 1 THEN 1 ELSE n + 1
  /\ \A p \in 1..n : nodes[p] = Leaf(e, ks, n, p)
  /\ n = 0 => nodes[1] = EmptyLeaf
  /\ n > 1 => nodes[n + 1] = Root([p \in 1..n |-> Leaf(e, ks, n, p)])

LEMMA LayoutIs ==
  ASSUME NEW e, Len(Ascending(DOMAIN e)) \in Nat
  PROVE  IsLayout(rebuildLayout(e), e, Ascending(DOMAIN e), PagesFor(Len(Ascending(DOMAIN e))))
<1> DEFINE ks == Ascending(DOMAIN e)
           n == PagesFor(Len(ks))
           leaves == [p \in 1..n |-> Leaf(e, ks, n, p)]
<1>1. n \in Nat
  BY PageCount
<1>2. rebuildLayout(e) = CASE n = 0 -> <<EmptyLeaf>>
                           [] n = 1 -> leaves
                           [] OTHER -> Append(leaves, Root(leaves))
  BY DEF rebuildLayout, PagesFor, M
<1> HIDE DEF n, ks
<1>3. CASE n = 0
  <2>1. rebuildLayout(e) = <<EmptyLeaf>>
    BY <1>2, <1>3
  <2>2. DOMAIN <<EmptyLeaf>> = 1..Len(<<EmptyLeaf>>) /\ Len(<<EmptyLeaf>>) = 1
    OBVIOUS
  <2>3. QED
    BY <1>3, <2>1, <2>2 DEF IsLayout, n, ks
<1>4. CASE n = 1
  BY <1>2, <1>4 DEF IsLayout, n, ks
<1>5. CASE n > 1
  <2> DEFINE S == Range(leaves) \cup {Root(leaves)}
             nodes == Append(leaves, Root(leaves))
  <2>1. rebuildLayout(e) = nodes
    BY <1>1, <1>2, <1>5
  <2>2. leaves \in Seq(S) /\ Len(leaves) = n /\ Root(leaves) \in S
    BY <1>1 DEF Range
  <2>3. \A p \in 1..n : leaves[p] = Leaf(e, ks, n, p)
    OBVIOUS
  <2>4. leaves = [p \in 1..n |-> Leaf(e, ks, n, p)]
    OBVIOUS
  <2> HIDE DEF leaves, S
  <2>5. /\ Len(nodes) = n + 1 /\ DOMAIN nodes = 1..(n + 1)
        /\ \A p \in 1..n : nodes[p] = leaves[p]
        /\ nodes[n + 1] = Root(leaves)
    BY <1>1, <2>2
  <2> HIDE DEF nodes
  <2>6. IsLayout(nodes, e, ks, n)
    BY <1>1, <1>5, <2>3, <2>4, <2>5 DEF IsLayout
  <2>7. QED
    BY <2>1, <2>6 DEF n, ks
<1>6. QED
  BY <1>1, <1>3, <1>4, <1>5

\* The row ids of the keys, in the order of the keys.
IdsInOrder(e, ks) == [i \in 1..Len(ks) |-> e[ks[i]]]

\* What the leaf of page p is.
IsLeaf(leaf, e, ks, p) ==
  LET from == Cut(Len(ks), p - 1)
      to == Cut(Len(ks), p)
  IN  /\ leaf.pageId = p /\ leaf.leaf = TRUE
      /\ leaf.nextLeaf = IF p < PagesFor(Len(ks)) THEN p + 1 ELSE NoPage
      /\ leaf.keys = SubSeq(ks, from + 1, to)
      /\ leaf.rowIds = SubSeq(IdsInOrder(e, ks), from + 1, to)
      /\ DOMAIN leaf.keys = 1..(to - from) /\ Len(leaf.keys) = to - from
      /\ \A j \in 1..(to - from) : leaf.keys[j] = ks[from + j]

LEMMA LeafFacts ==
  ASSUME NEW e, NEW T, NEW ks \in Seq(T), NEW p \in 1..PagesFor(Len(ks))
  PROVE  IsLeaf(Leaf(e, ks, PagesFor(Len(ks)), p), e, ks, p)
<1> DEFINE n == PagesFor(Len(ks))
           from == Cut(Len(ks), p - 1)
           to == Cut(Len(ks), p)
           leaf == Leaf(e, ks, n, p)
           here == SubSeq(ks, (p - 1) * maxKeysPerLeaf_ + 1,
                          IF p = n THEN Len(ks) ELSE p * maxKeysPerLeaf_)
<1>1. Len(ks) \in Nat /\ n \in Nat /\ p - 1 \in Nat /\ p \in Nat
  BY PageCount
<1>2. /\ from = (p - 1) * maxKeysPerLeaf_ /\ to = IF p = n THEN Len(ks) ELSE p * maxKeysPerLeaf_
      /\ from \in 0..Len(ks) /\ to \in 0..Len(ks) /\ to - from \in 1..M
  BY <1>1, Cuts DEF M
<1>3. here = SubSeq(ks, from + 1, to)
  BY <1>2
<1>4. leaf = [pageId |-> p, leaf |-> TRUE, keys |-> here,
              rowIds |-> [i \in DOMAIN here |-> e[here[i]]],
              children |-> << >>,
              nextLeaf |-> IF p < n THEN p + 1 ELSE NoPage]
  BY DEF Leaf
<1> HIDE DEF here, from, to, n
<1>5. /\ leaf.pageId = p /\ leaf.leaf = TRUE /\ leaf.keys = here
      /\ leaf.rowIds = [i \in DOMAIN here |-> e[here[i]]]
      /\ leaf.nextLeaf = IF p < n THEN p + 1 ELSE NoPage
  <2> HIDE DEF leaf
  <2>1. QED
    BY <1>4
<1> HIDE DEF leaf
<1>6. from \in Nat /\ to \in Nat /\ from + 1 <= to /\ to <= Len(ks)
  BY <1>1, <1>2, LeafCapacityAssumption DEF M
<1>7. /\ here \in Seq(T) /\ Len(here) = to - from /\ DOMAIN here = 1..(to - from)
      /\ \A j \in 1..(to - from) : here[j] = ks[from + j]
  BY <1>1, <1>3, <1>6
<1> DEFINE ids == IdsInOrder(e, ks)
           V == {e[ks[i]] : i \in 1..Len(ks)}
<1>8. ids \in Seq(V) /\ Len(ids) = Len(ks) /\ \A i \in 1..Len(ks) : ids[i] = e[ks[i]]
  BY <1>1 DEF IdsInOrder
<1> HIDE DEF ids, V
<1>9. /\ SubSeq(ids, from + 1, to) \in Seq(V) /\ Len(SubSeq(ids, from + 1, to)) = to - from
      /\ \A j \in 1..(to - from) : SubSeq(ids, from + 1, to)[j] = ids[from + j]
  BY <1>1, <1>6, <1>8
<1>10. [i \in DOMAIN here |-> e[here[i]]] = SubSeq(ids, from + 1, to)
  <2> DEFINE r == [i \in DOMAIN here |-> e[here[i]]]
  <2>1. \A j \in 1..(to - from) : from + j \in 1..Len(ks)
    BY <1>1, <1>6
  <2>2. \A j \in 1..(to - from) : r[j] = ids[from + j] /\ r[j] \in V
    BY <1>7, <1>8, <2>1 DEF V
  <2>3. to - from \in Nat
    BY <1>6
  <2>4. r \in Seq(V) /\ Len(r) = to - from
    BY <1>7, <2>2, <2>3
  <2> HIDE DEF r
  <2>5. r = SubSeq(ids, from + 1, to)
    BY <1>9, <2>2, <2>4, SeqEqual
  <2>6. QED
    BY <2>5 DEF r
<1>11. /\ leaf.keys = SubSeq(ks, from + 1, to)
       /\ leaf.rowIds = SubSeq(IdsInOrder(e, ks), from + 1, to)
       /\ DOMAIN leaf.keys = 1..(to - from) /\ Len(leaf.keys) = to - from
       /\ \A j \in 1..(to - from) : leaf.keys[j] = ks[from + j]
  BY <1>3, <1>5, <1>7, <1>10 DEF ids
<1>12. QED
  BY <1>5, <1>11 DEF leaf, from, to, n, IsLeaf

\* A tree without keys has one leaf too.
Leaves(n) == IF n = 0 THEN 1 ELSE n

\* The part of the keys, or of their row ids, that node i contributes.
PieceOf(s, i) == SubSeq(s, Cut(Len(s), i - 1) + 1, Cut(Len(s), i))

LEMMA EmptyPiece ==
  ASSUME NEW T, NEW s \in Seq(T), NEW i \in Nat \ {0}, i - 1 >= PagesFor(Len(s))
  PROVE  PieceOf(s, i) = << >>
<1>1. Len(s) \in Nat /\ i - 1 \in Nat /\ PagesFor(Len(s)) \in Nat
  BY PageCount
<1>2. Cut(Len(s), i - 1) = Len(s) /\ Cut(Len(s), i) = Len(s)
  <2>1. i >= PagesFor(Len(s)) /\ i \in Nat
    BY <1>1
  <2>2. QED
    BY <1>1, <2>1, CutAt
<1>3. SubSeq(s, Len(s) + 1, Len(s)) = << >>
  OBVIOUS
<1>4. QED
  BY <1>2, <1>3 DEF PieceOf

LEMMA NodeFacts ==
  ASSUME NEW e, NEW T, NEW ks \in Seq(T), NEW nodes, IsLayout(nodes, e, ks, PagesFor(Len(ks))),
         NEW i \in 1..Len(nodes)
  PROVE  /\ nodes[i].pageId = i /\ (nodes[i].leaf <=> i <= Leaves(PagesFor(Len(ks))))
         /\ (IF nodes[i].leaf THEN nodes[i].keys ELSE << >>) = PieceOf(ks, i)
         /\ (IF nodes[i].leaf THEN nodes[i].rowIds ELSE << >>) = PieceOf(IdsInOrder(e, ks), i)
<1> DEFINE n == PagesFor(Len(ks))
           ids == IdsInOrder(e, ks)
           V == {e[ks[k]] : k \in 1..Len(ks)}
<1>1. n \in Nat /\ Len(ks) \in Nat
  BY PageCount
<1>2. ids \in Seq(V) /\ Len(ids) = Len(ks)
  BY <1>1 DEF IdsInOrder
<1> HIDE DEF V
<1>3. Len(nodes) = IF n = 0 THEN 1 ELSE IF n = 1 THEN 1 ELSE n + 1
  BY DEF IsLayout
<1>4. CASE i <= n
  <2>1. i \in 1..n /\ nodes[i] = Leaf(e, ks, n, i)
    BY <1>1, <1>3, <1>4 DEF IsLayout
  <2>2. /\ nodes[i].pageId = i /\ nodes[i].leaf = TRUE
        /\ nodes[i].keys = SubSeq(ks, Cut(Len(ks), i - 1) + 1, Cut(Len(ks), i))
        /\ nodes[i].rowIds = SubSeq(ids, Cut(Len(ks), i - 1) + 1, Cut(Len(ks), i))
    <3>1. IsLeaf(nodes[i], e, ks, i)
      BY <2>1, LeafFacts
    <3>2. QED
      BY <3>1 DEF IsLeaf
  <2>3. i <= Leaves(n)
    BY <1>1, <2>1 DEF Leaves
  <2>4. QED
    BY <1>2, <2>2, <2>3 DEF PieceOf
<1>5. CASE n = 0
  <2>1. i = 1 /\ nodes[i] = EmptyLeaf
    BY <1>3, <1>5 DEF IsLayout
  <2>2. nodes[i].pageId = i /\ nodes[i].leaf = TRUE /\ nodes[i].keys = << >> /\ nodes[i].rowIds = << >>
    BY <2>1 DEF EmptyLeaf
  <2>3. PieceOf(ks, i) = << >> /\ PieceOf(ids, i) = << >>
    <3>1. i \in Nat \ {0} /\ i - 1 >= n
      BY <1>5, <2>1
    <3> HIDE DEF ids
    <3>2. QED
      BY <1>2, <3>1, EmptyPiece
  <2>4. i <= Leaves(n)
    BY <1>5, <2>1 DEF Leaves
  <2>5. QED
    BY <2>2, <2>3, <2>4
<1>6. CASE n # 0 /\ ~(i <= n)
  <2> DEFINE leaves == [p \in 1..n |-> Leaf(e, ks, n, p)]
  <2>1. n > 1 /\ i = n + 1
    BY <1>1, <1>3, <1>6
  <2>2. nodes[i] = Root(leaves)
    BY <2>1 DEF IsLayout
  <2>3. Len(leaves) = n
    BY <1>1
  <2> HIDE DEF leaves
  <2>4. nodes[i].pageId = n + 1 /\ nodes[i].leaf = FALSE
    BY <2>2, <2>3 DEF Root
  <2>5. PieceOf(ks, i) = << >> /\ PieceOf(ids, i) = << >>
    <3>1. i \in Nat \ {0} /\ i - 1 >= n
      BY <1>1, <2>1
    <3> HIDE DEF ids
    <3>2. QED
      BY <1>2, <3>1, EmptyPiece
  <2>6. ~(i <= Leaves(n))
    BY <1>1, <1>6 DEF Leaves
  <2>7. QED
    BY <2>1, <2>4, <2>5, <2>6
<1>7. QED
  BY <1>4, <1>5, <1>6

(* The leaves, read from left to right, hold every key in order and beside *)
(* each the row ids of the entries.                                        *)
LEMMA LeavesHoldEntries ==
  ASSUME NEW e, IsFiniteSet(DOMAIN e), DOMAIN e \subseteq AnyValue
  PROVE  /\ LeafKeys(Tree(e)) = Ascending(DOMAIN e)
         /\ LeafRowIds(Tree(e)) = IdsInOrder(e, Ascending(DOMAIN e))
         /\ leafPageCount(Tree(e)) = Leaves(PagesFor(Len(Ascending(DOMAIN e))))
<1> DEFINE ks == Ascending(DOMAIN e)
           ids == IdsInOrder(e, ks)
           n == PagesFor(Len(ks))
           nodes == Tree(e).nodes_
           N == Len(nodes)
           V == {e[ks[k]] : k \in 1..Len(ks)}
<1>1. ks \in Seq(DOMAIN e) /\ Len(ks) \in Nat /\ n \in Nat
  BY AscendingKeys, PageCount
<1>2. IsLayout(nodes, e, ks, n)
  BY <1>1, LayoutIs DEF Tree
<1>3. ids \in Seq(V) /\ Len(ids) = Len(ks)
  BY <1>1 DEF IdsInOrder
<1> HIDE DEF ks, nodes, V
<1>4. /\ N = (IF n = 0 THEN 1 ELSE IF n = 1 THEN 1 ELSE n + 1) /\ DOMAIN nodes = 1..N
      /\ N \in Nat \ {0} /\ N >= n /\ Leaves(n) \in 1..N /\ N >= Leaves(n)
  BY <1>1, <1>2 DEF IsLayout, Leaves
<1>5. \A i \in 1..N :
        /\ nodes[i].pageId = i /\ (nodes[i].leaf <=> i <= Leaves(n))
        /\ (IF nodes[i].leaf THEN nodes[i].keys ELSE << >>) = PieceOf(ks, i)
        /\ (IF nodes[i].leaf THEN nodes[i].rowIds ELSE << >>) = PieceOf(ids, i)
  BY <1>1, <1>2, NodeFacts
<1> HIDE DEF ids, n, N
<1>6. ASSUME NEW W, NEW s \in Seq(W), Len(s) = Len(ks), NEW seqs, Len(seqs) = N,
             \A i \in 1..N : seqs[i] = PieceOf(s, i)
      PROVE  FlattenSeq(seqs) = s
  <2> DEFINE cut == [i \in 0..N |-> Cut(Len(s), i)]
  <2>1. Len(s) \in Nat /\ n = PagesFor(Len(s))
    BY <1>1, <1>6 DEF n
  <2>2. cut \in [0..N -> 0..Len(s)]
    <3>1. ASSUME NEW i \in 0..N
          PROVE  Cut(Len(s), i) \in 0..Len(s)
      <4>1. i \in Nat
        BY <1>4
      <4>2. QED
        BY <2>1, <4>1, CutAt
    <3>2. QED
      BY <3>1
  <2>3. cut[0] = 0 /\ cut[N] = Len(s)
    <3>1. Cut(Len(s), 0) = 0
      BY <2>1, Cuts
    <3>2. Cut(Len(s), N) = Len(s)
      BY <1>4, <2>1, CutAt
    <3>3. QED
      BY <1>4, <3>1, <3>2
  <2>4. ASSUME NEW i \in 1..N
        PROVE  cut[i - 1] <= cut[i] /\ seqs[i] = SubSeq(s, cut[i - 1] + 1, cut[i])
    <3>1. i - 1 \in 0..N /\ i \in 0..N /\ i - 1 \in Nat /\ (i - 1) + 1 = i
      BY <1>4
    <3>2. Cut(Len(s), i - 1) <= Cut(Len(s), (i - 1) + 1)
      BY <2>1, <3>1, CutAt
    <3>3. QED
      BY <1>6, <3>1, <3>2 DEF PieceOf
  <2> HIDE DEF cut
  <2>5. QED
    BY <1>4, <1>6, <2>2, <2>3, <2>4, PiecesFlatten, ZenonT(30)
<1>7. LeafKeys(Tree(e)) = ks
  <2> DEFINE seqs == [i \in DOMAIN nodes |-> IF nodes[i].leaf THEN nodes[i].keys ELSE << >>]
  <2>1. Len(seqs) = N /\ \A i \in 1..N : seqs[i] = PieceOf(ks, i)
    BY <1>4, <1>5
  <2>2. LeafKeys(Tree(e)) = FlattenSeq(seqs)
    BY DEF LeafKeys, nodes
  <2> HIDE DEF seqs
  <2>3. QED
    BY <1>1, <1>6, <2>1, <2>2
<1>8. LeafRowIds(Tree(e)) = ids
  <2> DEFINE seqs == [i \in DOMAIN nodes |-> IF nodes[i].leaf THEN nodes[i].rowIds ELSE << >>]
  <2>1. Len(seqs) = N /\ \A i \in 1..N : seqs[i] = PieceOf(ids, i)
    BY <1>4, <1>5
  <2>2. LeafRowIds(Tree(e)) = FlattenSeq(seqs)
    BY DEF LeafRowIds, nodes
  <2> HIDE DEF seqs
  <2>3. QED
    BY <1>3, <1>6, <2>1, <2>2
<1>9. leafPageCount(Tree(e)) = Leaves(n)
  <2>1. {i \in DOMAIN nodes : nodes[i].leaf} = 1..Leaves(n)
    BY <1>4, <1>5
  <2>2. leafPageCount(Tree(e)) = Cardinality(1..Leaves(n))
    BY <2>1 DEF leafPageCount, nodes
  <2>3. Leaves(n) \in Nat
    BY <1>4
  <2>4. QED
    BY <2>2, <2>3, IntervalSize
<1>10. QED
  BY <1>7, <1>8, <1>9 DEF ks, ids, n

(* Whatever the entries, the layout rebuilt from them is a B+ tree.        *)
LEMMA LayoutIsBTree ==
  ASSUME NEW e, IsFiniteSet(DOMAIN e), DOMAIN e \subseteq AnyValue
  PROVE  IsBTree(Tree(e))
<1> DEFINE tree == Tree(e)
           ks == Ascending(DOMAIN e)
           len == Len(ks)
           n == PagesFor(len)
           nodes == tree.nodes_
           leaves == Leaves(n)
           leafSeq == [p \in 1..n |-> Leaf(e, ks, n, p)]
<1>1. /\ ks \in Seq(DOMAIN e) /\ len \in Nat /\ n \in Nat /\ (len = 0 <=> n = 0)
      /\ len = Cardinality(DOMAIN e) /\ M \in Nat \ {0}
  <2>1. /\ ks \in Seq(DOMAIN e) /\ len = Cardinality(DOMAIN e) /\ len \in Nat
        /\ M \in Nat \ {0}
    BY AscendingKeys, LeafCapacityAssumption, FS_CardinalityType DEF M
  <2> HIDE DEF len
  <2>2. QED
    BY <2>1, PageCount
<1>2. \A i, j \in 1..len : i < j => less(ks[i], ks[j])
  BY <1>1, AscendingKeys
<1>3. IsLayout(nodes, e, ks, n)
  BY <1>1, LayoutIs DEF Tree
<1>4. LeafKeys(tree) = ks /\ leafPageCount(tree) = leaves
  BY LeavesHoldEntries
<1>5. size(tree) = len
  BY <1>1 DEF size, Tree
<1>6. /\ Len(nodes) = (IF n = 0 THEN 1 ELSE IF n = 1 THEN 1 ELSE n + 1)
      /\ DOMAIN nodes = 1..Len(nodes)
      /\ n > 1 => nodes[n + 1] = Root(leafSeq)
      /\ \A p \in 1..n : nodes[p] = Leaf(e, ks, n, p)
      /\ n = 0 => nodes[1] = EmptyLeaf
  BY <1>3 DEF IsLayout
<1>7. \A i \in DOMAIN nodes : nodes[i].pageId = i /\ (nodes[i].leaf <=> i <= leaves)
  <2> HIDE DEF nodes, ks
  <2>1. ASSUME NEW i \in 1..Len(nodes)
        PROVE  nodes[i].pageId = i /\ (nodes[i].leaf <=> i <= leaves)
    <3>1. ks \in Seq(DOMAIN e)
      BY <1>1
    <3>2. /\ nodes[i].pageId = i /\ (nodes[i].leaf <=> i <= Leaves(PagesFor(Len(ks))))
          /\ (IF nodes[i].leaf THEN nodes[i].keys ELSE << >>) = PieceOf(ks, i)
          /\ (IF nodes[i].leaf THEN nodes[i].rowIds ELSE << >>) = PieceOf(IdsInOrder(e, ks), i)
      BY <1>3, <3>1, NodeFacts
    <3>3. QED
      BY <3>2
  <2>2. QED
    BY <1>6, <2>1
<1>8. \A p \in 1..n : IsLeaf(nodes[p], e, ks, p) /\ IsLeaf(leafSeq[p], e, ks, p)
  <2>1. \A p \in 1..n : leafSeq[p] = Leaf(e, ks, n, p)
    OBVIOUS
  <2> HIDE DEF leafSeq
  <2>2. QED
    BY <1>1, <1>6, <2>1, LeafFacts
<1>9. height(tree) = IF Len(nodes) <= 1 THEN 1 ELSE 2
  BY DEF height
<1>10. Len(leafSeq) = n
  BY <1>1
<1> HIDE DEF tree, ks, nodes, leafSeq
<1>11. \A p \in 1..n :
         /\ Cut(len, p) \in 0..len /\ Cut(len, p - 1) \in 0..len
         /\ Cut(len, p) - Cut(len, p - 1) \in 1..M
         /\ p < n => Cut(len, p) - Cut(len, p - 1) = M
  <2>1. ASSUME NEW p \in 1..n
        PROVE  /\ Cut(len, p) - Cut(len, p - 1) \in 1..M
               /\ p < n => Cut(len, p) - Cut(len, p - 1) = M
    BY <1>1, Cuts
  <2>2. ASSUME NEW p \in 1..n
        PROVE  Cut(len, p) \in 0..len /\ Cut(len, p - 1) \in 0..len
    <3>1. p \in Nat /\ p - 1 \in Nat
      BY <1>1
    <3> HIDE DEF len
    <3>2. QED
      BY <1>1, <3>1, CutAt
  <2>3. QED
    BY <2>1, <2>2
<1> HIDE DEF len, n
<1>12. leaves = (IF n = 0 THEN 1 ELSE n) /\ leaves \in Nat \ {0}
  BY <1>1 DEF Leaves
<1> HIDE DEF leaves
\* Every leaf but the last is full, and linked to the next.
<1>13. ASSUME NEW i \in 1..(leaves - 1)
       PROVE  Len(nodes[i].keys) = maxKeysPerLeaf_ /\ nodes[i].nextLeaf = nodes[i + 1].pageId
  <2>1. i \in 1..n /\ i < n /\ i + 1 \in 1..n /\ i + 1 \in DOMAIN nodes
    BY <1>1, <1>6, <1>12
  <2>2. /\ Len(nodes[i].keys) = Cut(len, i) - Cut(len, i - 1)
        /\ nodes[i].nextLeaf = i + 1
    BY <1>8, <2>1 DEF IsLeaf, len, n
  <2>3. QED
    BY <1>7, <1>11, <2>1, <2>2 DEF M
<1>14. /\ Len(nodes[leaves].keys) \in (IF leaves = 1 THEN 0 ELSE 1)..maxKeysPerLeaf_
       /\ nodes[leaves].nextLeaf = NoPage
  <2>1. CASE n = 0
    <3>1. leaves = 1 /\ nodes[leaves] = EmptyLeaf
      BY <1>6, <1>12, <2>1
    <3>2. nodes[leaves].keys = << >> /\ nodes[leaves].nextLeaf = NoPage
      BY <3>1 DEF EmptyLeaf
    <3>3. QED
      BY <1>1, <3>1, <3>2 DEF M
  <2>2. CASE n # 0
    <3>1. leaves = n /\ n \in 1..n /\ ~(n < n)
      BY <1>1, <1>12, <2>2
    <3>2. Len(nodes[n].keys) = Cut(len, n) - Cut(len, n - 1) /\ nodes[n].nextLeaf = NoPage
      BY <1>8, <3>1 DEF IsLeaf, len, n
    <3>3. Len(nodes[n].keys) \in 1..M
      BY <1>11, <3>1, <3>2
    <3>4. QED
      BY <1>1, <3>1, <3>2, <3>3 DEF M
  <2>3. QED
    BY <2>1, <2>2
<1>15. \A i \in 1..(len - 1) : less(ks[i], ks[i + 1])
  BY <1>1, <1>2
<1>16. height(tree) = Len(nodes) - leaves + 1
  BY <1>1, <1>6, <1>9, <1>12
<1>17. ASSUME leaves > 1
       PROVE  /\ nodes[leaves + 1].children = [i \in 1..leaves |-> i]
              /\ \A i \in 1..leaves : \A j \in DOMAIN nodes[i].keys :
                   /\ i > 1 => ~less(nodes[i].keys[j], nodes[leaves + 1].keys[i - 1])
                   /\ i < leaves => less(nodes[i].keys[j], nodes[leaves + 1].keys[i])
  <2> DEFINE root == nodes[n + 1]
  <2>1. leaves = n /\ n > 1 /\ root = Root(leafSeq)
    BY <1>1, <1>6, <1>12, <1>17
  <2>2. /\ root.children = [i \in DOMAIN leafSeq |-> leafSeq[i].pageId]
        /\ root.keys = [i \in 1..(Len(leafSeq) - 1) |-> Head(leafSeq[i + 1].keys)]
    BY <2>1 DEF Root
  <2>3. DOMAIN leafSeq = 1..n
    BY DEF leafSeq
  <2>4. \A i \in 1..n : leafSeq[i].pageId = i
    BY <1>8 DEF IsLeaf
  <2>5. root.children = [i \in 1..leaves |-> i]
    BY <2>1, <2>2, <2>3, <2>4
  <2> HIDE DEF root
  \* Where the keys of a leaf, and the first key of one, are among all keys.
  <2>6. ASSUME NEW i \in 1..n
        PROVE  /\ DOMAIN nodes[i].keys = 1..(Cut(len, i) - Cut(len, i - 1))
               /\ \A j \in 1..(Cut(len, i) - Cut(len, i - 1)) :
                    nodes[i].keys[j] = ks[Cut(len, i - 1) + j]
    BY <1>8 DEF IsLeaf, len, n
  <2>7. ASSUME NEW i \in 1..(n - 1)
        PROVE  root.keys[i] = ks[Cut(len, i) + 1]
    <3>1. i + 1 \in 1..n /\ (i + 1) - 1 = i
      BY <1>1
    <3>2. /\ Len(leafSeq[i + 1].keys) = Cut(len, i + 1) - Cut(len, i)
          /\ DOMAIN leafSeq[i + 1].keys = 1..(Cut(len, i + 1) - Cut(len, i))
          /\ \A j \in 1..(Cut(len, i + 1) - Cut(len, i)) :
               leafSeq[i + 1].keys[j] = ks[Cut(len, i) + j]
      BY <1>8, <3>1 DEF IsLeaf, len, n
    <3>3. 1 \in 1..(Cut(len, i + 1) - Cut(len, i))
      BY <1>1, <1>11, <3>1
    <3>4. Head(leafSeq[i + 1].keys) = leafSeq[i + 1].keys[1]
      OBVIOUS
    <3>5. root.keys[i] = Head(leafSeq[i + 1].keys)
      BY <1>10, <2>2
    <3>6. QED
      BY <3>2, <3>3, <3>4, <3>5
  <2>8. ASSUME NEW i \in 1..n, NEW j \in DOMAIN nodes[i].keys
        PROVE  /\ i > 1 => ~less(nodes[i].keys[j], root.keys[i - 1])
               /\ i < n => less(nodes[i].keys[j], root.keys[i])
    <3> DEFINE a == Cut(len, i - 1)
               b == Cut(len, i)
    <3>1. a \in Nat /\ b \in Nat /\ b <= len /\ j \in 1..(b - a) /\ nodes[i].keys[j] = ks[a + j]
      <4>1. /\ b \in 0..len /\ a \in 0..len /\ DOMAIN nodes[i].keys = 1..(b - a)
            /\ \A k \in 1..(b - a) : nodes[i].keys[k] = ks[a + k]
        BY <1>11, <2>6
      <4> HIDE DEF a, b
      <4>2. QED
        BY <1>1, <4>1
    <3>2. a + j \in 1..len /\ a + j <= b /\ a + 1 \in 1..len /\ a + 1 <= a + j
      BY <1>1, <3>1
    <3>3. ks[a + j] \in AnyValue /\ ks[a + 1] \in AnyValue
      BY <1>1, <3>2 DEF len
    <3>4. ASSUME i > 1
          PROVE  ~less(nodes[i].keys[j], root.keys[i - 1])
      <4>1. i - 1 \in 1..(n - 1)
        BY <1>1, <3>4
      <4>2. root.keys[i - 1] = ks[a + 1]
        BY <2>7, <4>1
      <4> HIDE DEF a
      <4>3. CASE a + j = a + 1
        BY <3>1, <3>3, <4>2, <4>3, LessIrreflexive
      <4>4. CASE a + 1 < a + j
        <5>1. less(ks[a + 1], ks[a + j])
          BY <1>2, <3>2, <4>4 DEF len
        <5>2. QED
          BY <3>1, <3>3, <4>2, <5>1, LessTransitive, LessIrreflexive
      <4>5. QED
        BY <3>1, <3>2, <4>3, <4>4
    <3>5. ASSUME i < n
          PROVE  less(nodes[i].keys[j], root.keys[i])
      <4>1. i \in 1..(n - 1) /\ i + 1 \in 1..n /\ (i + 1) - 1 = i
        BY <1>1, <3>5
      <4>2. root.keys[i] = ks[b + 1]
        BY <2>7, <4>1
      <4>3. b + 1 \in 1..len
        <5>1. Cut(len, i + 1) \in 0..len /\ Cut(len, i + 1) - b \in 1..M
          BY <1>11, <4>1
        <5>2. QED
          BY <1>1, <3>1, <5>1, SMTT(20)
      <4> HIDE DEF a, b
      <4>4. a + j < b + 1
        BY <3>1, <3>2
      <4>5. QED
        BY <1>2, <3>1, <3>2, <4>2, <4>3, <4>4 DEF len
    <3>6. QED
      BY <3>4, <3>5
  <2>9. QED
    BY <2>1, <2>5, <2>8 DEF root
<1>18. QED
  BY <1>4, <1>5, <1>7, <1>13, <1>14, <1>15, <1>16, <1>17 DEF IsBTree, tree, nodes, len, leaves

-----------------------------------------------------------------------------
(* Lookups.                                                                *)

(* Flattening sequences that have no element in common, and none twice,    *)
(* gives their elements, each once.                                        *)
LEMMA FlattenMembers ==
  ASSUME NEW T, NEW seqs \in Seq(Seq(T)),
         \A i \in 1..Len(seqs) : IsInjective(seqs[i]),
         \A i, j \in 1..Len(seqs) : \A x \in T :
           x \in ToSet(seqs[i]) /\ x \in ToSet(seqs[j]) => i = j
  PROVE  /\ FlattenSeq(seqs) \in Seq(T) /\ IsInjective(FlattenSeq(seqs))
         /\ \A x \in T : x \in ToSet(FlattenSeq(seqs))
                        <=> \E i \in 1..Len(seqs) : x \in ToSet(seqs[i])
<1>1. CASE Len(seqs) = 0
  <2>1. FlattenSeq(seqs) = << >>
    BY <1>1 DEF FlattenSeq
  <2>2. QED
    BY <1>1, <2>1 DEF IsInjective, ToSet
<1>2. CASE Len(seqs) # 0
  <2>0. Len(seqs) \in Nat \ {0}
    BY <1>2
  <2>1. PICK g : /\ FlattenSeq(seqs) = g[Len(seqs)]
                 /\ g[1] = seqs[1]
                 /\ \A i \in 1..(Len(seqs) - 1) : g[i + 1] = g[i] \o seqs[i + 1]
    BY <2>0, Flattened
  <2> DEFINE Good(s, n) == /\ s \in Seq(T) /\ IsInjective(s)
                           /\ \A x \in T : x \in ToSet(s)
                                          <=> \E i \in 1..n : x \in ToSet(seqs[i])
             S == {m \in Nat : m + 1 <= Len(seqs) => Good(g[m + 1], m + 1)}
  <2>2. 0 \in S
    <3>1. Good(g[1], 1)
      BY <2>0, <2>1
    <3>2. QED
      BY <3>1
  <2>3. ASSUME NEW m \in Nat, m \in S
        PROVE  m + 1 \in S
    <3>1. SUFFICES ASSUME (m + 1) + 1 <= Len(seqs)
                   PROVE  Good(g[(m + 1) + 1], (m + 1) + 1)
      OBVIOUS
    <3>2. m + 1 \in 1..(Len(seqs) - 1) /\ m + 1 <= Len(seqs) /\ (m + 1) + 1 \in 1..Len(seqs)
      BY <3>1
    <3> DEFINE a == g[m + 1]
               b == seqs[(m + 1) + 1]
               ab == g[(m + 1) + 1]
    <3>3. Good(a, m + 1) /\ ab = a \o b
      BY <2>1, <2>3, <3>2
    <3>4. b \in Seq(T) /\ IsInjective(b)
      BY <3>2
    <3>5. ASSUME NEW x \in T, x \in ToSet(a), x \in ToSet(b)
          PROVE  FALSE
      <4>1. PICK i \in 1..(m + 1) : x \in ToSet(seqs[i])
        BY <3>3, <3>5
      <4>2. i \in 1..Len(seqs) /\ i # (m + 1) + 1
        BY <3>2
      <4>3. i = (m + 1) + 1
        BY <3>2, <3>5, <4>1, <4>2
      <4>4. QED
        BY <4>2, <4>3
    <3>6. a \in Seq(T) /\ IsInjective(a)
      BY <3>3
    <3> HIDE DEF a, b, ab
    <3>7. /\ ab \in Seq(T) /\ Len(ab) = Len(a) + Len(b) /\ Len(a) \in Nat /\ Len(b) \in Nat
          /\ \A i \in 1..Len(ab) : ab[i] = IF i <= Len(a) THEN a[i] ELSE b[i - Len(a)]
      BY <3>3, <3>4, <3>6, ConcatProperties
    <3>8. DOMAIN ab = 1..Len(ab) /\ DOMAIN a = 1..Len(a) /\ DOMAIN b = 1..Len(b)
      BY <3>4, <3>6, <3>7
    <3>9. IsInjective(ab)
      <4>1. SUFFICES ASSUME NEW i \in 1..Len(ab), NEW j \in 1..Len(ab), ab[i] = ab[j], i < j
                     PROVE  FALSE
        BY <3>7, <3>8 DEF IsInjective
      <4>2. CASE j <= Len(a)
        <5>1. i \in DOMAIN a /\ j \in DOMAIN a /\ a[i] = a[j] /\ i # j
          BY <3>7, <3>8, <4>1, <4>2
        <5>2. QED
          BY <3>6, <5>1 DEF IsInjective
      <4>3. CASE ~(j <= Len(a)) /\ i <= Len(a)
        <5>1. i \in DOMAIN a /\ j - Len(a) \in DOMAIN b /\ a[i] = b[j - Len(a)] /\ a[i] \in T
          BY <3>6, <3>7, <3>8, <4>1, <4>3
        <5>2. QED
          BY <3>5, <5>1 DEF ToSet
      <4>4. CASE ~(i <= Len(a)) /\ ~(j <= Len(a))
        <5>1. /\ i - Len(a) \in DOMAIN b /\ j - Len(a) \in DOMAIN b /\ i - Len(a) # j - Len(a)
              /\ b[i - Len(a)] = b[j - Len(a)]
          BY <3>7, <3>8, <4>1, <4>4
        <5>2. QED
          BY <3>4, <5>1 DEF IsInjective
      <4>5. QED
        BY <4>2, <4>3, <4>4
    <3>10. ASSUME NEW x
           PROVE  x \in ToSet(ab) <=> x \in ToSet(a) \/ x \in ToSet(b)
      <4>1. ASSUME x \in ToSet(ab) PROVE x \in ToSet(a) \/ x \in ToSet(b)
        <5>1. PICK i \in DOMAIN ab : x = ab[i]
          BY <4>1 DEF ToSet
        <5>2. (i \in DOMAIN a /\ x = a[i]) \/ (i - Len(a) \in DOMAIN b /\ x = b[i - Len(a)])
          BY <3>7, <3>8, <5>1
        <5>3. QED
          BY <5>2 DEF ToSet
      <4>2. ASSUME x \in ToSet(a) PROVE x \in ToSet(ab)
        <5>1. PICK i \in DOMAIN a : x = a[i]
          BY <4>2 DEF ToSet
        <5>2. i \in DOMAIN ab /\ x = ab[i]
          BY <3>7, <3>8, <5>1
        <5>3. QED
          BY <5>2 DEF ToSet
      <4>3. ASSUME x \in ToSet(b) PROVE x \in ToSet(ab)
        <5>1. PICK i \in DOMAIN b : x = b[i]
          BY <4>3 DEF ToSet
        <5>2. i + Len(a) \in DOMAIN ab /\ x = ab[i + Len(a)]
          BY <3>7, <3>8, <5>1
        <5>3. QED
          BY <5>2 DEF ToSet
      <4>4. QED
        BY <4>1, <4>2, <4>3
    <3>11. \A x \in T : x \in ToSet(ab) <=> \E i \in 1..((m + 1) + 1) : x \in ToSet(seqs[i])
      <4>1. \A x \in T : x \in ToSet(a) <=> \E i \in 1..(m + 1) : x \in ToSet(seqs[i])
        BY <3>3
      <4>2. \A i : i \in 1..((m + 1) + 1) <=> i \in 1..(m + 1) \/ i = (m + 1) + 1
        OBVIOUS
      <4>3. QED
        BY <3>10, <4>1, <4>2, Zenon DEF b
    <3>12. QED
      BY <3>7, <3>9, <3>11 DEF ab
  <2>4. \A m \in Nat : m \in S
    <3> HIDE DEF S
    <3>1. QED
      BY <2>2, <2>3, SetInduction
  <2>5. Good(g[Len(seqs)], Len(seqs))
    <3>1. Len(seqs) - 1 \in Nat /\ (Len(seqs) - 1) + 1 = Len(seqs)
      BY <2>0
    <3>2. Len(seqs) - 1 \in S
      BY <2>4, <3>1
    <3> HIDE DEF Good
    <3>3. QED
      BY <3>1, <3>2
  <2>6. QED
    BY <2>1, <2>5
<1>3. QED
  BY <1>1, <1>2

(* The first of a set of positions.                                        *)
LEMMA FirstPosition ==
  ASSUME NEW n \in Nat, NEW I, I \subseteq 1..n, I # {}
  PROVE  Min(I) \in I /\ \A y \in I : Min(I) <= y
<1>1. \E x \in I : \A y \in I : ~(y < x)
  <2>1. I \subseteq Nat
    OBVIOUS
  <2>2. QED
    BY <2>1, LeastNatural
<1>2. \E x \in I : \A y \in I : x <= y
  BY <1>1
<1>3. QED
  BY <1>2, Zenon DEF Min

\* Entries whose row ids are in T, no id occurring twice.
IsListing(e, T) ==
  /\ \A k \in DOMAIN e : e[k] \in Seq(T) /\ IsInjective(e[k])
  /\ \A k, l \in DOMAIN e : \A x \in T : x \in ToSet(e[k]) /\ x \in ToSet(e[l]) => k = l

\* Of the entries, the ids under the keys of K, each once.
Collects(ids, e, K, T) ==
  /\ ids \in Seq(T) /\ IsInjective(ids)
  /\ \A x \in T : x \in ToSet(ids) <=> \E k \in K : x \in ToSet(e[k])

(* The ids beside the keys of a stretch of the leaves, one after another.  *)
LEMMA StretchCollects ==
  ASSUME NEW e, IsFiniteSet(DOMAIN e), DOMAIN e \subseteq AnyValue, NEW T, IsListing(e, T),
         NEW a \in Nat \ {0}, NEW b \in 0..Len(Ascending(DOMAIN e)), a <= b + 1
  PROVE  Collects(FlattenSeq(SubSeq(LeafRowIds(Tree(e)), a, b)), e,
                  {Ascending(DOMAIN e)[i] : i \in a..b}, T)
<1> DEFINE ks == Ascending(DOMAIN e)
           ids == LeafRowIds(Tree(e))
           seqs == SubSeq(ids, a, b)
<1>1. /\ ks \in Seq(DOMAIN e) /\ Len(ks) = Cardinality(DOMAIN e) /\ Len(ks) \in Nat
      /\ \A i, j \in 1..Cardinality(DOMAIN e) : i < j => less(ks[i], ks[j])
  BY AscendingKeys
<1>2. \A i \in 1..Len(ks) : ks[i] \in DOMAIN e /\ ks[i] \in AnyValue
  BY <1>1
<1>3. ids = IdsInOrder(e, ks)
  BY LeavesHoldEntries
<1>4. ids \in Seq(Seq(T)) /\ Len(ids) = Len(ks) /\ \A i \in 1..Len(ks) : ids[i] = e[ks[i]]
  BY <1>1, <1>2, <1>3 DEF IdsInOrder, IsListing
<1>5. \A i, j \in 1..Len(ks) : ks[i] = ks[j] => i = j
  <2>1. SUFFICES ASSUME NEW i \in 1..Len(ks), NEW j \in 1..Len(ks), ks[i] = ks[j], i < j
                 PROVE  FALSE
    OBVIOUS
  <2>2. less(ks[i], ks[j]) /\ ks[i] \in AnyValue
    BY <1>1, <1>2, <2>1
  <2>3. QED
    BY <2>1, <2>2, LessIrreflexive
<1> HIDE DEF ks, ids
<1>6. b \in 0..Len(ks)
  BY DEF ks
<1>7. /\ seqs \in Seq(Seq(T)) /\ Len(seqs) = (b - a) + 1
      /\ \A i \in 1..Len(seqs) : a + i - 1 \in 1..Len(ks) /\ seqs[i] = e[ks[a + i - 1]]
  <2>1. CASE a <= b
    <3>1. a \in 1..Len(ids) /\ b \in 1..Len(ids)
      BY <1>1, <1>4, <1>6, <2>1
    <3>2. /\ seqs \in Seq(Seq(T)) /\ Len(seqs) = (b - a) + 1
          /\ \A i \in 1..(b - a + 1) : seqs[i] = ids[a + i - 1]
      BY <1>4, <2>1, <3>1
    <3>3. QED
      BY <1>1, <1>4, <1>6, <2>1, <3>2
  <2>2. CASE a = b + 1
    <3>1. seqs = << >>
      BY <1>1, <1>4, <1>6, <2>2
    <3>2. QED
      BY <2>2, <3>1, <1>6
  <2>3. a <= b \/ a = b + 1
    BY <1>6
  <2> HIDE DEF seqs
  <2>4. QED
    BY <2>1, <2>2, <2>3
<1> HIDE DEF seqs
<1>8. \A i \in 1..Len(seqs) : IsInjective(seqs[i])
  BY <1>2, <1>7 DEF IsListing
<1>9. ASSUME NEW i \in 1..Len(seqs), NEW j \in 1..Len(seqs), NEW x \in T,
             x \in ToSet(seqs[i]), x \in ToSet(seqs[j])
      PROVE  i = j
  <2>1. ks[a + i - 1] = ks[a + j - 1]
    BY <1>2, <1>7, <1>9 DEF IsListing
  <2>2. a + i - 1 = a + j - 1
    BY <1>5, <1>7, <2>1
  <2>3. QED
    BY <2>2, <1>6, <1>7
<1>10. /\ FlattenSeq(seqs) \in Seq(T) /\ IsInjective(FlattenSeq(seqs))
       /\ \A x \in T : x \in ToSet(FlattenSeq(seqs)) <=> \E i \in 1..Len(seqs) : x \in ToSet(seqs[i])
  <2>1. \A i, j \in 1..Len(seqs) : \A x \in T :
          x \in ToSet(seqs[i]) /\ x \in ToSet(seqs[j]) => i = j
    BY <1>9
  <2>2. seqs \in Seq(Seq(T))
    BY <1>7
  <2>3. QED
    BY <1>8, <2>1, <2>2, FlattenMembers, Zenon
<1>11. ASSUME NEW x \in T
       PROVE  (\E i \in 1..Len(seqs) : x \in ToSet(seqs[i]))
                <=> \E k \in {ks[i] : i \in a..b} : x \in ToSet(e[k])
  <2>1. ASSUME NEW i \in 1..Len(seqs), x \in ToSet(seqs[i])
        PROVE  \E k \in {ks[j] : j \in a..b} : x \in ToSet(e[k])
    <3>1. a + i - 1 \in a..b /\ x \in ToSet(e[ks[a + i - 1]])
      BY <1>6, <1>7, <2>1
    <3>2. QED
      BY <3>1
  <2>2. ASSUME NEW i \in a..b, x \in ToSet(e[ks[i]])
        PROVE  \E j \in 1..Len(seqs) : x \in ToSet(seqs[j])
    <3>1. i - a + 1 \in 1..Len(seqs) /\ a + (i - a + 1) - 1 = i
      BY <1>6, <1>7
    <3>2. seqs[i - a + 1] = e[ks[i]]
      BY <1>7, <3>1
    <3>3. QED
      BY <2>2, <3>1, <3>2
  <2>3. QED
    BY <2>1, <2>2
<1>12. QED
  BY <1>10, <1>11 DEF Collects, ks, ids, seqs

(* Looking a key up through the leaves gives its entry.                    *)
LEMMA TreeFindsEntry ==
  ASSUME NEW e, IsFiniteSet(DOMAIN e), DOMAIN e \subseteq AnyValue, NEW v
  PROVE  treeFind(Tree(e), v) = RowIdsAt(e, v)
<1> DEFINE ks == Ascending(DOMAIN e)
           I == {i \in 1..Len(ks) : ks[i] = v}
           at == IF I # {} THEN Min(I) ELSE 0
<1>1. /\ ks \in Seq(DOMAIN e) /\ Len(ks) = Cardinality(DOMAIN e) /\ Len(ks) \in Nat
      /\ \A k \in DOMAIN e : \E i \in 1..Cardinality(DOMAIN e) : ks[i] = k
  BY AscendingKeys
<1>2. LeafKeys(Tree(e)) = ks /\ LeafRowIds(Tree(e)) = IdsInOrder(e, ks)
  BY LeavesHoldEntries
<1>3. treeFind(Tree(e), v) = IF at = 0 THEN << >> ELSE IdsInOrder(e, ks)[at]
  BY <1>2 DEF treeFind, SelectInSeq
<1> HIDE DEF ks
<1>4. CASE I = {}
  <2>1. v \notin DOMAIN e
    BY <1>1, <1>4
  <2>2. QED
    BY <1>3, <1>4, <2>1 DEF RowIdsAt
<1>5. CASE I # {}
  <2>1. Min(I) \in I
    BY <1>1, <1>5, FirstPosition
  <2>2. at \in 1..Len(ks) /\ ks[at] = v /\ at # 0
    BY <1>5, <2>1
  <2> HIDE DEF at
  <2>3. IdsInOrder(e, ks)[at] = e[v] /\ v \in DOMAIN e
    BY <1>1, <2>2 DEF IdsInOrder
  <2>4. QED
    BY <1>3, <2>2, <2>3 DEF RowIdsAt
<1>6. QED
  BY <1>4, <1>5

(* The keys of the leaves that are less than a value come first.           *)
LEMMA LessThanCollects ==
  ASSUME NEW e, IsFiniteSet(DOMAIN e), DOMAIN e \subseteq AnyValue, NEW T, IsListing(e, T),
         NEW v \in AnyValue
  PROVE  Collects(lessThan(Tree(e), v), e, {k \in DOMAIN e : less(k, v)}, T)
<1> DEFINE ks == Ascending(DOMAIN e)
           I == {i \in 1..Len(ks) : ~less(ks[i], v)}
           stop == IF I # {} THEN Min(I) ELSE 0
           b == IF stop = 0 THEN Len(ks) ELSE stop - 1
<1>1. /\ ks \in Seq(DOMAIN e) /\ Len(ks) = Cardinality(DOMAIN e) /\ Len(ks) \in Nat
      /\ \A k \in DOMAIN e : \E i \in 1..Cardinality(DOMAIN e) : ks[i] = k
      /\ \A i, j \in 1..Cardinality(DOMAIN e) : i < j => less(ks[i], ks[j])
  BY AscendingKeys
<1>2. LeafKeys(Tree(e)) = ks
  BY LeavesHoldEntries
<1>3. lessThan(Tree(e), v) = FlattenSeq(SubSeq(LeafRowIds(Tree(e)), 1, b))
  BY <1>2 DEF lessThan, SelectInSeq
<1>4. \A i \in 1..Len(ks) : ks[i] \in DOMAIN e /\ ks[i] \in AnyValue
  BY <1>1
<1>5. b \in 0..Len(ks) /\ \A i \in 1..Len(ks) : less(ks[i], v) <=> i <= b
  <2> HIDE DEF ks
  <2>1. CASE I = {}
    <3>1. \A i \in 1..Len(ks) : less(ks[i], v)
      BY <2>1
    <3>2. b = Len(ks)
      BY <2>1
    <3>3. QED
      BY <1>1, <3>1, <3>2
  <2>2. CASE I # {}
    <3>1. Min(I) \in I /\ \A y \in I : Min(I) <= y
      BY <1>1, <2>2, FirstPosition
    <3>2. stop \in 1..Len(ks) /\ ~less(ks[stop], v) /\ \A i \in 1..Len(ks) : ~less(ks[i], v) => stop <= i
      BY <2>2, <3>1
    <3>3. b = stop - 1
      BY <3>2
    <3> HIDE DEF b, stop
    <3>4. ASSUME NEW i \in 1..Len(ks), stop <= i
          PROVE  ~less(ks[i], v)
      <4>1. i = stop \/ less(ks[stop], ks[i])
        BY <1>1, <3>2, <3>4
      <4>2. less(ks[stop], ks[i]) /\ less(ks[i], v) => less(ks[stop], v)
        BY <1>4, <3>2, LessTransitive
      <4>3. QED
        BY <3>2, <4>1, <4>2
    <3>5. QED
      BY <3>2, <3>3, <3>4
  <2>3. QED
    BY <2>1, <2>2
<1> HIDE DEF b
<1>6. Collects(FlattenSeq(SubSeq(LeafRowIds(Tree(e)), 1, b)), e, {ks[i] : i \in 1..b}, T)
  <2>1. 1 \in Nat \ {0} /\ 1 <= b + 1
    BY <1>5
  <2>2. QED
    BY <1>5, <2>1, StretchCollects
<1>7. {ks[i] : i \in 1..b} = {k \in DOMAIN e : less(k, v)}
  <2> HIDE DEF ks
  <2>1. \A i \in 1..b : ks[i] \in DOMAIN e /\ less(ks[i], v)
    BY <1>1, <1>4, <1>5
  <2>2. ASSUME NEW k \in DOMAIN e, less(k, v)
        PROVE  \E i \in 1..b : ks[i] = k
    BY <1>1, <1>5, <2>2
  <2>3. QED
    BY <2>1, <2>2
<1>8. QED
  BY <1>3, <1>6, <1>7

(* The keys that are greater than a value come last.                       *)
LEMMA GreaterThanCollects ==
  ASSUME NEW e, IsFiniteSet(DOMAIN e), DOMAIN e \subseteq AnyValue, NEW T, IsListing(e, T),
         NEW v \in AnyValue
  PROVE  Collects(greaterThan(Tree(e), v), e, {k \in DOMAIN e : less(v, k)}, T)
<1> DEFINE ks == Ascending(DOMAIN e)
           I == {i \in 1..Len(ks) : less(v, ks[i])}
           start == IF I # {} THEN Min(I) ELSE 0
<1>1. /\ ks \in Seq(DOMAIN e) /\ Len(ks) = Cardinality(DOMAIN e) /\ Len(ks) \in Nat
      /\ \A k \in DOMAIN e : \E i \in 1..Cardinality(DOMAIN e) : ks[i] = k
      /\ \A i, j \in 1..Cardinality(DOMAIN e) : i < j => less(ks[i], ks[j])
  BY AscendingKeys
<1>2. LeafKeys(Tree(e)) = ks
  BY LeavesHoldEntries
<1>3. greaterThan(Tree(e), v) =
        IF start = 0 THEN << >> ELSE FlattenSeq(SubSeq(LeafRowIds(Tree(e)), start, Len(ks)))
  BY <1>2 DEF greaterThan, SelectInSeq
<1>4. \A i \in 1..Len(ks) : ks[i] \in DOMAIN e /\ ks[i] \in AnyValue
  BY <1>1
<1>5. CASE I = {}
  <2>1. greaterThan(Tree(e), v) = << >>
    BY <1>3, <1>5
  <2>2. {k \in DOMAIN e : less(v, k)} = {}
    <3> HIDE DEF ks
    <3>1. QED
      BY <1>1, <1>5
  <2>3. QED
    BY <2>1, <2>2 DEF Collects, IsInjective, ToSet
<1>6. CASE I # {}
  <2>1. Min(I) \in I /\ \A y \in I : Min(I) <= y
    <3> HIDE DEF ks
    <3>1. QED
      BY <1>1, <1>6, FirstPosition
  <2>2. /\ start \in 1..Len(ks) /\ less(v, ks[start]) /\ start # 0
        /\ \A i \in 1..Len(ks) : less(v, ks[i]) => start <= i
    <3> HIDE DEF ks
    <3>1. QED
      BY <1>6, <2>1
  <2> HIDE DEF start
  <2>3. Collects(FlattenSeq(SubSeq(LeafRowIds(Tree(e)), start, Len(ks))), e,
                 {ks[i] : i \in start..Len(ks)}, T)
    <3>1. start \in Nat \ {0} /\ Len(ks) \in 0..Len(ks) /\ start <= Len(ks) + 1
      BY <1>1, <2>2
    <3>2. QED
      BY <3>1, StretchCollects
  <2>4. {ks[i] : i \in start..Len(ks)} = {k \in DOMAIN e : less(v, k)}
    <3> HIDE DEF ks
    <3>1. ASSUME NEW i \in start..Len(ks)
          PROVE  ks[i] \in DOMAIN e /\ less(v, ks[i])
      <4>1. i \in 1..Len(ks) /\ (i = start \/ less(ks[start], ks[i]))
        BY <1>1, <2>2
      <4>2. less(v, ks[start]) /\ less(ks[start], ks[i]) => less(v, ks[i])
        BY <1>4, <2>2, <4>1, LessTransitive
      <4>3. QED
        BY <1>4, <2>2, <4>1, <4>2
    <3>2. ASSUME NEW k \in DOMAIN e, less(v, k)
          PROVE  \E i \in start..Len(ks) : ks[i] = k
      BY <1>1, <2>2, <3>2
    <3>3. QED
      BY <3>1, <3>2
  <2>5. QED
    BY <1>3, <2>2, <2>3, <2>4
<1>7. QED
  BY <1>5, <1>6

=============================================================================
