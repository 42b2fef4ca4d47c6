------------------------------ MODULE BTreeIndex -----------------------------
(***************************************************************************)
(* The two index structures of a table, as values with operations on them. *)
(*                                                                         *)
(* A hash index is its entries: for each key that occurs, the row ids in   *)
(* the order they were pushed.  A B+ tree keeps the same entries in key    *)
(* order and, built anew by every write, a vector of nodes: leaves of at   *)
(* most maxKeysPerLeaf_ keys linked from left to right and, when there are *)
(* two or more of them, one root behind them.  Lookups read the leaves     *)
(* only.  Each operation holds the index's mutex throughout.               *)
(***************************************************************************)
EXTENDS Naturals, Sequences, FiniteSets, SequencesExt, ValueOrder

CONSTANTS
  maxKeysPerLeaf_,
  NoPage                 \* a node without nextLeaf

ASSUME LeafCapacityAssumption == maxKeysPerLeaf_ \in Nat \ {0}
ASSUME NoPageAssumption == NoPage \notin Nat

-----------------------------------------------------------------------------
(* HashIndex.                                                              *)

RowIdsAt(entries, key) == IF key \in DOMAIN entries THEN entries[key] ELSE << >>

hashInsert(entries, key, id) ==
  [k \in DOMAIN entries \cup {key} |->
     IF k = key THEN Append(RowIdsAt(entries, key), id) ELSE entries[k]]

\* The row ids other than id.
Without(ids, id) ==
  LET passed[n \in 0..Len(ids)] ==
        IF n = 0 THEN << >>
        ELSE IF ids[n] = id THEN passed[n - 1] ELSE Append(passed[n - 1], ids[n])
  IN  passed[Len(ids)]

\* Every occurrence of the row id goes, and the key with its last one.
hashRemove(entries, key, id) ==
  LET rest == Without(RowIdsAt(entries, key), id)
  IN  [k \in {j \in DOMAIN entries : j # key \/ rest # << >>} |->
         IF k = key THEN rest ELSE entries[k]]

hashFind(entries, key) == RowIdsAt(entries, key)

-----------------------------------------------------------------------------
(* Nodes.                                                                  *)

\* The keys in ascending order: the iteration order of std::map.
Ascending(keys) ==
  [i \in 1..Cardinality(keys) |->
     CHOOSE k \in keys : Cardinality({j \in keys : less(j, k)}) = i - 1]

EmptyLeaf ==
  [pageId |-> 1, leaf |-> TRUE, keys |-> << >>, rowIds |-> << >>, children |-> << >>,
   nextLeaf |-> NoPage]

\* The leaf of page p when the keys are ks and there are n leaves.
Leaf(entries, ks, n, p) ==
  LET here == SubSeq(ks, (p - 1) * maxKeysPerLeaf_ + 1,
                     IF p = n THEN Len(ks) ELSE p * maxKeysPerLeaf_)
  IN  [pageId |-> p, leaf |-> TRUE, keys |-> here,
       rowIds |-> [i \in DOMAIN here |-> entries[here[i]]],
       children |-> << >>,
       nextLeaf |-> IF p < n THEN p + 1 ELSE NoPage]

Root(leaves) ==
  [pageId |-> Len(leaves) + 1, leaf |-> FALSE,
   keys |-> [i \in 1..(Len(leaves) - 1) |-> Head(leaves[i + 1].keys)],
   rowIds |-> << >>,
   children |-> [i \in DOMAIN leaves |-> leaves[i].pageId],
   nextLeaf |-> NoPage]

\* The links are set once the root is in the vector: the last leaf gets one too.
rebuildLayoutLinksRoot(entries) ==
  LET ks == Ascending(DOMAIN entries)
      n == (Len(ks) + maxKeysPerLeaf_ - 1) \div maxKeysPerLeaf_
      leaves == [p \in 1..n |-> Leaf(entries, ks, n, p)]
  IN  CASE n = 0 -> <<EmptyLeaf>>
        [] n = 1 -> leaves
        [] OTHER -> Append([leaves EXCEPT ![n].nextLeaf = n + 1], Root(leaves))

rebuildLayout(entries) ==
  LET ks == Ascending(DOMAIN entries)
      n == (Len(ks) + maxKeysPerLeaf_ - 1) \div maxKeysPerLeaf_
      leaves == [p \in 1..n |-> Leaf(entries, ks, n, p)]
  IN  CASE n = 0 -> <<EmptyLeaf>>
        [] n = 1 -> leaves
        [] OTHER -> Append(leaves, Root(leaves))

-----------------------------------------------------------------------------
(* BTreeIndex.                                                             *)

Tree(entries) == [entries_ |-> entries, nodes_ |-> rebuildLayout(entries)]

NewTree == Tree(<< >>)
treeInsert(tree, key, id) == Tree(hashInsert(tree.entries_, key, id))

\* The key stays behind with no row ids.
treeRemoveKeepsKey(tree, key, id) ==
  Tree([k \in DOMAIN tree.entries_ |->
          IF k = key THEN Without(tree.entries_[k], id)
          ELSE tree.entries_[k]])

treeRemove(tree, key, id) == Tree(hashRemove(tree.entries_, key, id))

treeClear(tree) == Tree(<< >>)

\* Keys and row ids of the leaves, as the lookups' nested loops pass them.
LeafKeys(tree) ==
  FlattenSeq([i \in DOMAIN tree.nodes_ |-> IF tree.nodes_[i].leaf THEN tree.nodes_[i].keys ELSE << >>])
LeafRowIds(tree) ==
  FlattenSeq([i \in DOMAIN tree.nodes_ |-> IF tree.nodes_[i].leaf THEN tree.nodes_[i].rowIds ELSE << >>])

treeFind(tree, key) ==
  LET at == SelectInSeq(LeafKeys(tree), LAMBDA k : k = key)
  IN  IF at = 0 THEN << >> ELSE LeafRowIds(tree)[at]

\* The loop ends at the first key that is greater.
lessThanOrEqual(tree, key) ==
  LET ks == LeafKeys(tree)
      stop == SelectInSeq(ks, LAMBDA k : less(key, k))
  IN  FlattenSeq(SubSeq(LeafRowIds(tree), 1, IF stop = 0 THEN Len(ks) ELSE stop - 1))

\* The loop ends at the first key that is not less.
lessThan(tree, key) ==
  LET ks == LeafKeys(tree)
      stop == SelectInSeq(ks, LAMBDA k : ~less(k, key))
  IN  FlattenSeq(SubSeq(LeafRowIds(tree), 1, IF stop = 0 THEN Len(ks) ELSE stop - 1))

\* Collecting starts at the first key that is greater and never stops.
greaterThan(tree, key) ==
  LET ks == LeafKeys(tree)
      start == SelectInSeq(ks, LAMBDA k : less(key, k))
  IN  IF start = 0 THEN << >> ELSE FlattenSeq(SubSeq(LeafRowIds(tree), start, Len(ks)))

size(tree) == Cardinality(DOMAIN tree.entries_)
height(tree) == IF Len(tree.nodes_) <= 1 THEN 1 ELSE 2
leafPageCount(tree) == Cardinality({i \in DOMAIN tree.nodes_ : tree.nodes_[i].leaf})

\* What a layout has to be: see TreeLayout of module Table.
IsBTree(tree) ==
  LET nodes == tree.nodes_
      leaves == leafPageCount(tree)
      ks == LeafKeys(tree)
  IN  /\ \A i \in DOMAIN nodes : nodes[i].pageId = i /\ (nodes[i].leaf <=> i <= leaves)
      /\ \A i \in 1..(leaves - 1) :
           Len(nodes[i].keys) = maxKeysPerLeaf_ /\ nodes[i].nextLeaf = nodes[i + 1].pageId
      /\ Len(nodes[leaves].keys) \in (IF leaves = 1 THEN 0 ELSE 1)..maxKeysPerLeaf_
      /\ nodes[leaves].nextLeaf = NoPage
      /\ Len(ks) = size(tree) /\ \A i \in 1..(Len(ks) - 1) : less(ks[i], ks[i + 1])
      /\ height(tree) = Len(nodes) - leaves + 1
      /\ leaves > 1 =>
           LET root == nodes[leaves + 1]
           IN  /\ root.children = [i \in 1..leaves |-> i]
               /\ \A i \in 1..leaves : \A j \in DOMAIN nodes[i].keys :
                    /\ i > 1 => ~less(nodes[i].keys[j], root.keys[i - 1])
                    /\ i < leaves => less(nodes[i].keys[j], root.keys[i])

=============================================================================
