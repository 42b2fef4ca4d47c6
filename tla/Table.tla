-------------------------------- MODULE Table --------------------------------
(***************************************************************************)
(* One table: its rows, the row versions kept beside them and its indexes. *)
(*                                                                         *)
(* A row id is a position in the row store, counted from zero, and erase() *)
(* compacts the store, so the ids of later rows shift.  The indexes are    *)
(* rebuilt row by row after erase() and update() and extended by insert(); *)
(* the version chains stay under the ids they were written with.           *)
(*                                                                         *)
(* Each operation holds the table's mutex from its first change to its     *)
(* last.  Calls that return false or throw change nothing (Table::update   *)
(* and replaceRows validate first), so an operation's guard is the         *)
(* conjunction of its checks.                                              *)
(***************************************************************************)
EXTENDS BTreeIndex

CONSTANTS
  Columns,               \* the schema's columns
  Value,                 \* values, of any type
  Valid,                 \* for each column the values its type and nullability admit
  Inserted,              \* rows that statements insert, valid or not
  IndexName,
  NoTransaction,         \* a version without deletedBy
  NoRow,                 \* std::nullopt
  MaxRows, MaxVersions   \* bounds

ASSUME ValueAssumption == Value \subseteq AnyValue
ASSUME SchemaAssumption == Valid \in [Columns -> SUBSET Value]
ASSUME InsertedAssumption == Inserted \subseteq [Columns -> Value]
ASSUME BoundsAssumption == MaxRows \in Nat /\ MaxVersions \in Nat
ASSUME NoTransactionAssumption == NoTransaction \notin Nat
ASSUME NoRowAssumption == NoRow \notin [Columns -> Value]

VARIABLES
  rows,                  \* the row store
  versions_,             \* the chains of row versions, by row id
  nextVersion,           \* nextVersionTransactionId_
  indexColumns_,         \* the column of each index
  indexes_,              \* the hash indexes
  orderedIndexes_,       \* the B+ tree indexes
  erased                 \* auxiliary: a row was erased since the rows were replaced

vars == <<rows, versions_, nextVersion, indexColumns_, indexes_, orderedIndexes_, erased>>

RowId == 0..(MaxRows - 1)
Row == [Columns -> Value]
Fits(row) == row \in Row /\ \A c \in Columns : row[c] \in Valid[c]

\* The entries of an index: row ids in the order they were entered, by key.
IsEntries(e) ==
  \A k \in DOMAIN e : k \in Value /\ e[k] \in Seq(RowId) \ {<< >>}

Version == [createdBy : Nat, deletedBy : Nat \cup {NoTransaction}, row : Row]

(* The state is well formed; hash and ordered indexes exist for exactly    *)
(* the same names.  (createIndex keeps three maps in step)                 *)
TypeOK ==
  /\ rows \in Seq(Row) /\ Len(rows) <= MaxRows
  /\ \A id \in DOMAIN versions_ : id \in Nat /\ versions_[id] \in Seq(Version)
  /\ nextVersion \in Nat \ {0}
  /\ indexColumns_ \in [DOMAIN indexColumns_ -> Columns]
  /\ DOMAIN indexColumns_ \subseteq IndexName
  /\ DOMAIN indexes_ = DOMAIN indexColumns_
  /\ DOMAIN orderedIndexes_ = DOMAIN indexColumns_
  /\ \A n \in DOMAIN indexColumns_ :
       IsEntries(indexes_[n]) /\ IsEntries(orderedIndexes_[n].entries_)
  /\ erased \in BOOLEAN

Init ==
  /\ rows = << >>
  /\ versions_ = << >>
  /\ nextVersion = 1
  /\ indexColumns_ = << >>
  /\ indexes_ = << >>
  /\ orderedIndexes_ = << >>
  /\ erased = FALSE

-----------------------------------------------------------------------------
(* MVCCRowStore.                                                           *)

\* The chain is replaced, not extended.
writeOver(versions, id, row, t) ==
  [i \in DOMAIN versions \cup {id} |->
     IF i = id THEN <<[createdBy |-> t, deletedBy |-> NoTransaction, row |-> row]>>
     ELSE versions[i]]

write(versions, id, row, t) ==
  LET chain == IF id \in DOMAIN versions THEN versions[id] ELSE << >>
      version == [createdBy |-> t, deletedBy |-> NoTransaction, row |-> row]
  IN  [i \in DOMAIN versions \cup {id} |->
         IF i = id THEN Append(chain, version) ELSE versions[i]]

\* The newest version is marked, whatever it was marked with before.
eraseVersion(versions, id, t) ==
  IF id \notin DOMAIN versions THEN versions
  ELSE [versions EXCEPT ![id][Len(versions[id])].deletedBy = t]

\* The newest version the reader may see, which need not be the newest one.
read(versions, id, reader) ==
  LET chain == versions[id]
      visible == {k \in DOMAIN chain :
                    /\ chain[k].createdBy <= reader
                    /\ chain[k].deletedBy = NoTransaction \/ chain[k].deletedBy > reader}
  IN  IF id \notin DOMAIN versions \/ visible = {} THEN NoRow
      ELSE chain[CHOOSE k \in visible : \A j \in visible : j <= k].row

\* The chains exist for the ids 0 .. n-1 for some n: the rows in the order of their ids.
visibleRows(versions, reader) ==
  LET count == Cardinality(DOMAIN versions)
      passed[n \in 0..count] ==
        IF n = 0 THEN << >>
        ELSE IF read(versions, n - 1, reader) = NoRow THEN passed[n - 1]
        ELSE Append(passed[n - 1], read(versions, n - 1, reader))
  IN  passed[count]

-----------------------------------------------------------------------------
(* Indexes.                                                                *)

\* One row entered into every hash index, and into every ordered one.
addRow(indexes, id, row) ==
  [n \in DOMAIN indexes |-> hashInsert(indexes[n], row[indexColumns_[n]], id)]
addRowOrdered(indexes, id, row) ==
  [n \in DOMAIN indexes |-> treeInsert(indexes[n], row[indexColumns_[n]], id)]

\* Every row entered, one by one, into an index over column c.
hashFill(entries, rs, c) ==
  LET filled[n \in 0..Len(rs)] ==
        IF n = 0 THEN entries ELSE hashInsert(filled[n - 1], rs[n][c], n - 1)
  IN  filled[Len(rs)]
treeFill(tree, rs, c) ==
  LET filled[n \in 0..Len(rs)] ==
        IF n = 0 THEN tree ELSE treeInsert(filled[n - 1], rs[n][c], n - 1)
  IN  filled[Len(rs)]

\* The clear() left out of the rebuild.
rebuildWithoutClear(rs) ==
  [n \in DOMAIN indexes_ |-> hashFill(indexes_[n], rs, indexColumns_[n])]

\* Every index is cleared, then every row is entered: into all of them before the
\* next row, which is the same as index by index.
rebuildIndexes(rs) ==
  [n \in DOMAIN indexes_ |-> hashFill(<< >>, rs, indexColumns_[n])]
rebuildOrdered(rs) ==
  [n \in DOMAIN orderedIndexes_ |->
     treeFill(treeClear(orderedIndexes_[n]), rs, indexColumns_[n])]

\* A new index over column c of the rows.
filledHash(rs, c) == hashFill(<< >>, rs, c)
filledTree(rs, c) == treeFill(NewTree, rs, c)

-----------------------------------------------------------------------------
(* Operations.                                                             *)

insert(row) ==
  /\ Fits(row)
  /\ Len(rows) < MaxRows /\ nextVersion <= MaxVersions
  /\ rows' = Append(rows, row)
  /\ versions_' = write(versions_, Len(rows), row, nextVersion)
  /\ nextVersion' = nextVersion + 1
  /\ indexes_' = addRow(indexes_, Len(rows), row)
  /\ orderedIndexes_' = addRowOrdered(orderedIndexes_, Len(rows), row)
  /\ UNCHANGED <<indexColumns_, erased>>

RemoveRow(rs, id) == SubSeq(rs, 1, id) \o SubSeq(rs, id + 2, Len(rs))

erase(id) ==
  /\ id < Len(rows)
  /\ nextVersion <= MaxVersions
  /\ versions_' = eraseVersion(versions_, id, nextVersion)
  /\ nextVersion' = nextVersion + 1
  /\ rows' = RemoveRow(rows, id)
  /\ indexes_' = rebuildIndexes(rows')
  /\ orderedIndexes_' = rebuildOrdered(rows')
  /\ erased' = TRUE
  /\ UNCHANGED indexColumns_

\* The type check is left out.
updateUnchecked(id, c, v) ==
  /\ id < Len(rows)
  /\ nextVersion <= MaxVersions
  /\ rows' = [rows EXCEPT ![id + 1][c] = v]
  /\ versions_' = write(versions_, id, rows'[id + 1], nextVersion)
  /\ nextVersion' = nextVersion + 1
  /\ indexes_' = rebuildIndexes(rows')
  /\ orderedIndexes_' = rebuildOrdered(rows')
  /\ UNCHANGED <<indexColumns_, erased>>

\* The row is changed in place, without a new version.
updateInPlace(id, c, v) ==
  /\ id < Len(rows)
  /\ v \in Valid[c]
  /\ rows' = [rows EXCEPT ![id + 1][c] = v]
  /\ indexes_' = rebuildIndexes(rows')
  /\ orderedIndexes_' = rebuildOrdered(rows')
  /\ UNCHANGED <<indexColumns_, erased, versions_, nextVersion>>

update(id, c, v) ==
  /\ id < Len(rows)
  /\ v \in Valid[c]
  /\ nextVersion <= MaxVersions
  /\ rows' = [rows EXCEPT ![id + 1][c] = v]
  /\ versions_' = write(versions_, id, rows'[id + 1], nextVersion)
  /\ nextVersion' = nextVersion + 1
  /\ indexes_' = rebuildIndexes(rows')
  /\ orderedIndexes_' = rebuildOrdered(rows')
  /\ UNCHANGED <<indexColumns_, erased>>

\* The ordered index is forgotten.
createHashIndexOnly(n, c) ==
  /\ n \notin DOMAIN indexes_
  /\ indexColumns_' = [m \in DOMAIN indexColumns_ \cup {n} |-> IF m = n THEN c ELSE indexColumns_[m]]
  /\ indexes_' = [m \in DOMAIN indexes_ \cup {n} |-> IF m = n THEN filledHash(rows, c) ELSE indexes_[m]]
  /\ UNCHANGED <<orderedIndexes_, rows, versions_, nextVersion, erased>>

createIndex(n, c) ==
  /\ n \notin DOMAIN indexes_
  /\ indexColumns_' = [m \in DOMAIN indexColumns_ \cup {n} |-> IF m = n THEN c ELSE indexColumns_[m]]
  /\ indexes_' = [m \in DOMAIN indexes_ \cup {n} |-> IF m = n THEN filledHash(rows, c) ELSE indexes_[m]]
  /\ orderedIndexes_' = [m \in DOMAIN orderedIndexes_ \cup {n} |->
                           IF m = n THEN filledTree(rows, c) ELSE orderedIndexes_[m]]
  /\ UNCHANGED <<rows, versions_, nextVersion, erased>>

\* LOAD, and the copy BEGIN makes: the version history starts again.
replaceRows(rs) ==
  /\ Len(rs) <= MaxRows /\ \A i \in DOMAIN rs : Fits(rs[i])
  /\ rows' = rs
  /\ versions_' = [id \in 0..(Len(rs) - 1) |->
                     <<[createdBy |-> id + 1, deletedBy |-> NoTransaction, row |-> rs[id + 1]]>>]
  /\ nextVersion' = Len(rs) + 1
  /\ indexes_' = rebuildIndexes(rs)
  /\ orderedIndexes_' = rebuildOrdered(rs)
  /\ erased' = FALSE
  /\ UNCHANGED indexColumns_

Insert == \E row \in Inserted : insert(row)
Erase == \E id \in RowId : erase(id)
Update == \E id \in RowId, c \in Columns, v \in Value : update(id, c, v)
CreateIndex == \E n \in IndexName, c \in Columns : createIndex(n, c)
\* A table is refilled with rows a table of this schema held.
ReplaceRows == \E k \in 0..Len(rows) : replaceRows(SubSeq(rows, k + 1, Len(rows)))

Next == Insert \/ Erase \/ Update \/ CreateIndex \/ ReplaceRows

Spec == Init /\ [][Next]_vars

-----------------------------------------------------------------------------
(* Properties.                                                             *)

\* The ids of the rows at a set of positions: all of them, each once, and no other.
EachOnce(ids, positions) == ToSet(ids) = {i - 1 : i \in positions} /\ IsInjective(ids)

\* Nothing but growing ids: the order of the rows.
InRowOrder(ids) == \A i, j \in DOMAIN ids : i < j => ids[i] < ids[j]

\* The keys are the values of column c, each with the ids of its rows in row order.
Lists(entries, rs, c) ==
  /\ DOMAIN entries = {rs[i][c] : i \in DOMAIN rs}
  /\ \A v \in DOMAIN entries :
       /\ ToSet(entries[v]) = {i - 1 : i \in {j \in DOMAIN rs : rs[j][c] = v}}
       /\ InRowOrder(entries[v])

(* Every index, hash and ordered, lists every row exactly once, under the  *)
(* value of its column and in row order, and lists nothing else, also      *)
(* after deletes shifted the row ids.  (insert, erase, update, createIndex *)
(* and replaceRows, which enter rows into the indexes one by one)          *)
IndexExact ==
  \A n \in DOMAIN indexColumns_ :
    /\ Lists(indexes_[n], rows, indexColumns_[n])
    /\ Lists(orderedIndexes_[n].entries_, rows, indexColumns_[n])

(* The nodes of an ordered index are a B+ tree: pages numbered from one,   *)
(* every leaf but the last full and none empty unless it is the only one,  *)
(* keys ascending within and across leaves, each leaf linked to the next   *)
(* and the last to none, and a root exactly when there are several leaves, *)
(* whose keys separate its children.  (rebuildLayout)                      *)
TreeLayout == \A n \in DOMAIN orderedIndexes_ : IsBTree(orderedIndexes_[n])

(* Looking a value up, in the hash index or through the leaves of the      *)
(* tree, gives the ids of exactly the rows with that value, in row order,  *)
(* and a range lookup those of exactly the rows below or above it, each    *)
(* once.  Values of another type and NULL are compared too.  (find,        *)
(* lessThan, greaterThan, which stop or start at the first key that fits)  *)
LookupsExact ==
  \A n \in DOMAIN indexColumns_, v \in Value :
    LET c == indexColumns_[n]
        tree == orderedIndexes_[n]
    IN  /\ \A ids \in {hashFind(indexes_[n], v), treeFind(tree, v)} :
             InRowOrder(ids) /\ EachOnce(ids, {i \in DOMAIN rows : rows[i][c] = v})
        /\ EachOnce(lessThan(tree, v), {i \in DOMAIN rows : less(rows[i][c], v)})
        /\ EachOnce(greaterThan(tree, v), {i \in DOMAIN rows : less(v, rows[i][c])})

(* Taking an entry out of an index undoes putting it in, in the nodes as   *)
(* well as in the entries, and leaves the other entries alone.             *)
(* (HashIndex::remove and BTreeIndex::remove against insert)               *)
RemoveUndoesInsert ==
  \A n \in DOMAIN indexColumns_, v \in Value :
    LET id == Len(rows)
    IN  /\ hashRemove(hashInsert(indexes_[n], v, id), v, id) = indexes_[n]
        /\ treeRemove(treeInsert(orderedIndexes_[n], v, id), v, id) = orderedIndexes_[n]

(* Every stored row, however it got its values, fits the schema.           *)
(* (validateRow, and update()'s own check of the one value it changes)     *)
RowsFitSchema == \A i \in DOMAIN rows : Fits(rows[i])

(* While nothing has been erased, what a transaction reads through the     *)
(* version chains is what everyone else reads from the row store.          *)
(* (rowsSnapshot(TransactionId) against rowsSnapshot(), update and insert) *)
VersionsAgree == ~erased => visibleRows(versions_, nextVersion) = rows

(* Inserting and updating never change what an earlier reader sees.        *)
(* (MVCCRowStore::write and read)                                          *)
SnapshotsStable ==
  [][Insert \/ Update =>
       \A reader \in 0..(nextVersion - 1) :
         visibleRows(versions_, reader)' = visibleRows(versions_, reader)]_vars

(* A row that was erased is not there any more for a reader that comes     *)
(* after.  (MVCCRowStore::erase and read)                                  *)
EraseHides ==
  [][\A id \in RowId : erase(id) => read(versions_', id, nextVersion) = NoRow]_vars

=============================================================================
