-------------------------------- MODULE Select -------------------------------
(***************************************************************************)
(* SELECT over the table of module Table: the planner's access path, the   *)
(* rows it collects, ORDER BY, LIMIT and projection; and the equi-join     *)
(* with a second table.                                                    *)
(*                                                                         *)
(* A statement runs under the read lock, so it is a function of the state. *)
(* tx says whether a transaction is active: reads then go through the      *)
(* version chains.  A result is a record of the column names and the rows, *)
(* or Throws; where the code leaves the order of rows open (std::sort is   *)
(* not stable) the definitions give the set of possible results.           *)
(***************************************************************************)
EXTENDS Table

CONSTANTS
  Schema,                \* the columns in the order of the schema
  Name, OtherName,       \* this table's name and the joined table's
  OtherSchema,           \* the joined table's columns
  OtherTables,           \* contents the joined table may have
  None,                  \* std::nullopt: no WHERE, ORDER BY, LIMIT, qualifier
  Truth(_, _),           \* the truth of a predicate on a row: module Predicates
  Predicate,             \* WHERE clauses, None included
  OrderPredicate,        \* WHERE clauses of SELECTs with ORDER BY, None included
  Limit,                 \* LIMITs, None included
  JoinPredicate,         \* WHERE clauses of joins, None included
  JoinColumns            \* pairs of columns, as written after ON

ASSUME SchemaOrderAssumption ==
  Schema \in Seq(Columns) /\ ToSet(Schema) = Columns /\ Len(Schema) = Cardinality(Columns)

\* What a single comparison is and what it says of a row; compound predicates may say
\* anything.
ASSUME PredicateAssumption ==
  \A p \in Predicate \cup OrderPredicate :
    p # None /\ p.kind = "Comparison" =>
      /\ p.op \in {"=", "<", ">"} /\ p.value \in Value
      /\ \A row \in Row :
           Truth(row, p) = IF p.column \notin Columns THEN "throws"
                           ELSE IF compare(row[p.column], p.op, p.value) THEN "true" ELSE "false"
ASSUME LimitAssumption == Limit \subseteq Nat \cup {None} /\ None \notin Nat
ASSUME OtherAssumption ==
  /\ OtherSchema \in Seq(ToSet(OtherSchema))
  /\ OtherTables \subseteq Seq([ToSet(OtherSchema) -> AnyValue])
\* The star after SELECT is not the name of a column.
ASSUME StarAssumption == \A c \in Columns : <<c>> # "*"
ASSUME NoneAssumption == None \notin [column : Columns, ascending : BOOLEAN]

Throws == [ok |-> FALSE, columns |-> << >>, rows |-> << >>]
Rows(columns, rs) == [ok |-> TRUE, columns |-> columns, rows |-> rs]

\* The elements of s at the positions in at: what a loop pushes that skips the others.
Picked(s, at) ==
  LET passed[n \in 0..Len(s)] ==
        IF n = 0 THEN << >>
        ELSE IF n \in at THEN Append(passed[n - 1], s[n]) ELSE passed[n - 1]
  IN  passed[Len(s)]

-----------------------------------------------------------------------------
(* Reading a table: outside a transaction from the row store, inside one   *)
(* from the version chains, as a reader above every id in use.             *)

\* The reader is the transaction, whose ids count transactions, not versions.
TransactionIdOfBegin == 1

MaxTransactionId == nextVersion

rowsSnapshotForRead(tx) == IF tx THEN visibleRows(versions_, MaxTransactionId) ELSE rows

rowsByIdForRead(ids, tx) ==
  LET found == [i \in DOMAIN ids |->
                  IF tx THEN read(versions_, ids[i], MaxTransactionId)
                  ELSE IF ids[i] < Len(rows) THEN rows[ids[i] + 1] ELSE NoRow]
  IN  Picked(found, {i \in DOMAIN ids : found[i] # NoRow})

hasIndex(column) == \E n \in DOMAIN indexColumns_ : indexColumns_[n] = column
IndexOn(column) == CHOOSE n \in DOMAIN indexColumns_ : indexColumns_[n] = column

indexedLookup(column, v) == hashFind(indexes_[IndexOn(column)], v)
orderedLookup(column, op, v) ==
  CASE op = "=" -> treeFind(orderedIndexes_[IndexOn(column)], v)
    [] op = ">" -> greaterThan(orderedIndexes_[IndexOn(column)], v)
    [] op = "<" -> lessThan(orderedIndexes_[IndexOn(column)], v)

-----------------------------------------------------------------------------
(* Planning and collecting.                                                *)

\* The kind is not looked at: AND and OR are planned by their left side.
simpleComparisonOfAny(where) ==
  CASE where = None -> None
    [] where.kind = "Comparison" -> where
    [] OTHER -> where.left

\* Only a single comparison can use an index.
simpleComparison(where) ==
  IF where = None THEN None
  ELSE IF where.kind = "Comparison" THEN where ELSE None

planSelect(where) ==
  LET p == simpleComparison(where)
  IN  CASE p = None -> "FullScan"
        [] p # None /\ p.op = "=" /\ hasIndex(p.column) -> "HashIndexLookup"
        [] p # None /\ p.op # "=" /\ hasIndex(p.column) -> "OrderedIndexRange"
        [] OTHER -> "FullScan"

\* The scan evaluates the predicate on every row, and one exception ends it.
Scanned(rs, where) ==
  IF where = None THEN Rows(Schema, rs)
  ELSE IF \E i \in DOMAIN rs : Truth(rs[i], where) = "throws" THEN Throws
  ELSE Rows(Schema, Picked(rs, {i \in DOMAIN rs : Truth(rs[i], where) = "true"}))

collectRows(where, tx) ==
  LET p == simpleComparison(where)
      path == planSelect(where)
  IN  CASE path = "HashIndexLookup" ->
             Rows(Schema, rowsByIdForRead(indexedLookup(p.column, p.value), tx))
        [] path = "OrderedIndexRange" ->
             Rows(Schema, rowsByIdForRead(orderedLookup(p.column, p.op, p.value), tx))
        [] OTHER -> Scanned(rowsSnapshotForRead(tx), where)

-----------------------------------------------------------------------------
(* ORDER BY, LIMIT and projection, for both forms of SELECT.               *)

Before(l, r, column, ascending) ==
  IF ascending THEN less(l[column], r[column]) ELSE less(r[column], l[column])

\* What std::ranges::sort may leave: any arrangement without an inversion.
Arrangements(rs, column, ascending) ==
  {[i \in DOMAIN rs |-> rs[p[i]]] :
     p \in {f \in [DOMAIN rs -> DOMAIN rs] :
              \A i, j \in DOMAIN rs :
                i < j => f[i] # f[j] /\ ~Before(rs[f[j]], rs[f[i]], column, ascending)}}

\* The limit is compared with > in place of >=.
LimitedLate(rs, limit) ==
  IF limit = None THEN rs ELSE SubSeq(rs, 1, Min({Len(rs), limit + 1}))

\* The limit is tested after a row was pushed: there is always a first row.
Limited(rs, limit) ==
  IF limit = None THEN rs
  ELSE SubSeq(rs, 1, Min({Len(rs), Max({limit, 1})}))

resolveProjection(columns) == IF columns = <<"*">> THEN Schema ELSE columns

executeSelect(q, tx) ==
  LET projection == resolveProjection(q.columns)
      collected == collectRows(q.where, tx)
      ordered == IF q.orderBy = None THEN {collected.rows}
                 ELSE Arrangements(collected.rows, q.orderBy.column, q.orderBy.ascending)
  IN  IF \/ ~(ToSet(projection) \subseteq Columns)
         \/ ~collected.ok
         \/ q.orderBy # None /\ q.orderBy.column \notin Columns
      THEN {Throws}
      ELSE {LET kept == Limited(rs, q.limit)
            IN  Rows(projection,
                     [i \in DOMAIN kept |-> [j \in DOMAIN projection |-> kept[i][projection[j]]]])
              : rs \in ordered}

-----------------------------------------------------------------------------
(* JOIN.  other is the joined table: its name, schema and rows.  A column  *)
(* is written <<table, column>> or <<column>>; the joined columns all have *)
(* the first form.                                                         *)

joinedColumns(other) ==
  [i \in DOMAIN Schema |-> <<Name, Schema[i]>>]
    \o [i \in DOMAIN other.schema |-> <<other.name, other.schema[i]>>]

\* The first exact match, else the only column of that name; 0 where the code throws,
\* for an unknown column as for an ambiguous one.
resolveResultColumn(columns, requested) ==
  LET exact == SelectInSeq(columns, LAMBDA c : c = requested)
      suffix == {i \in DOMAIN columns : <<columns[i][2]>> = requested}
  IN  CASE exact # 0 -> exact
        [] exact = 0 /\ Cardinality(suffix) = 1 -> CHOOSE i \in suffix : TRUE
        [] OTHER -> 0

\* The column of the table, or None.
resolveTableColumn(schema, tableName, requested) ==
  LET c == IF requested[1] = tableName THEN requested[Len(requested)] ELSE requested[1]
  IN  IF c \in ToSet(schema) THEN c ELSE None

Joined(l, r, other) ==
  [i \in DOMAIN Schema |-> l[Schema[i]]] \o [i \in DOMAIN other.schema |-> r[other.schema[i]]]

\* The joined row under every name that can be resolved in it.
Named(columns, joined) ==
  [n \in {m \in ToSet(columns) \cup {<<c[2]>> : c \in ToSet(columns)} :
            resolveResultColumn(columns, m) # 0} |->
     joined[resolveResultColumn(columns, n)]]

\* A key keeps the last row only: assignment for push_back.
rightRowsByKeyLast(rs, c) ==
  [k \in {rs[i][c] : i \in DOMAIN rs} |->
     <<Last(Picked(rs, {i \in DOMAIN rs : rs[i][c] = k}))>>]

\* std::map<Value, std::vector<Row>>
rightRowsByKey(rs, c) ==
  [k \in {rs[i][c] : i \in DOMAIN rs} |-> Picked(rs, {i \in DOMAIN rs : rs[i][c] = k})]

\* For each left row, the right rows of its key.
joinedPairs(leftRows, other, leftColumn, rightColumn) ==
  LET byKey == rightRowsByKey(other.rows, rightColumn)
      Found(v) == IF v \in DOMAIN byKey THEN byKey[v] ELSE << >>
  IN  FlattenSeq([i \in DOMAIN leftRows |->
        LET found == Found(leftRows[i][leftColumn])
        IN  [j \in DOMAIN found |-> Joined(leftRows[i], found[j], other)]])

matchesJoinedPredicate(where, columns, joined) ==
  IF where = None THEN "true" ELSE Truth(Named(columns, joined), where)

executeJoinSelect(q, other, tx) ==
  LET leftColumn == resolveTableColumn(Schema, Name, q.on[1])
      rightColumn == resolveTableColumn(other.schema, other.name, q.on[2])
      columns == joinedColumns(other)
      projection == IF q.columns = <<"*">> THEN [i \in DOMAIN columns |-> i]
                    ELSE [i \in DOMAIN q.columns |-> resolveResultColumn(columns, q.columns[i])]
      pairs == joinedPairs(rowsSnapshotForRead(tx), other, leftColumn, rightColumn)
      Holds(joined) == matchesJoinedPredicate(q.where, columns, joined)
      joinedRows == Picked(pairs, {i \in DOMAIN pairs : Holds(pairs[i]) = "true"})
      orderColumn == resolveResultColumn(columns, q.orderBy.column)
      ordered == IF q.orderBy = None THEN {joinedRows}
                 ELSE Arrangements(joinedRows, orderColumn, q.orderBy.ascending)
  IN  IF \/ leftColumn = None \/ rightColumn = None
         \/ \E i \in DOMAIN projection : projection[i] = 0
         \/ \E i \in DOMAIN pairs : Holds(pairs[i]) = "throws"
         \/ q.orderBy # None /\ orderColumn = 0
      THEN {Throws}
      ELSE {LET kept == Limited(rs, q.limit)
            IN  Rows([j \in DOMAIN projection |-> columns[projection[j]]],
                     [i \in DOMAIN kept |-> [j \in DOMAIN projection |-> kept[i][projection[j]]]])
              : rs \in ordered}

-----------------------------------------------------------------------------
(* Properties.  The queries are those of the constants.                    *)

All(where) == [columns |-> <<"*">>, where |-> where, orderBy |-> None, limit |-> None]
Tuple(row) == [i \in DOMAIN Schema |-> row[Schema[i]]]

\* The positions of the rows a predicate is true of, and the bag of those rows.
Matching(where) == {i \in DOMAIN rows : where = None \/ Truth(rows[i], where) = "true"}
MatchingRows(where) ==
  [t \in {Tuple(rows[i]) : i \in Matching(where)} |->
     Cardinality({i \in Matching(where) : Tuple(rows[i]) = t})]

(* Whatever access path the planner takes, SELECT returns each row that    *)
(* satisfies the predicate, once, and no other, and it throws exactly when *)
(* a scan of the rows would.  (planSelect, collectRows with indexedLookup, *)
(* orderedLookup and rowsById, against matches on every row)               *)
SelectExact ==
  \A p \in Predicate : \A result \in executeSelect(All(p), FALSE) :
    IF p # None /\ \E i \in DOMAIN rows : Truth(rows[i], p) = "throws"
    THEN result = Throws
    ELSE result.ok /\ ToBag(result.rows) = MatchingRows(p)

(* A SELECT with ORDER BY and LIMIT returns the first rows of the matching *)
(* ones in that order: as many as asked for (one for LIMIT 0, which the    *)
(* loop tests too late), sorted, and none of those left out belongs before *)
(* one that was returned.  (executeSelect, the order of sort, limit and    *)
(* projection)                                                             *)
TopRows ==
  \A p \in OrderPredicate, n \in Limit, k \in DOMAIN Schema, ascending \in BOOLEAN :
    LET q == [All(p) EXCEPT !.orderBy = [column |-> Schema[k], ascending |-> ascending],
                            !.limit = n]
        all == MatchingRows(p)
        count == Cardinality(Matching(p))
        Earlier(l, r) == IF ascending THEN less(l[k], r[k]) ELSE less(r[k], l[k])
    IN  \A result \in executeSelect(q, FALSE) :
          result.ok =>
            LET got == result.rows
                Returned(t) == Cardinality({i \in DOMAIN got : got[i] = t})
            IN  /\ Len(got) = IF n = None THEN count ELSE Min({count, Max({n, 1})})
                /\ \A t \in ToSet(got) : t \in DOMAIN all /\ Returned(t) <= all[t]
                /\ \A i \in 1..(Len(got) - 1) : ~Earlier(got[i + 1], got[i])
                /\ \A t \in DOMAIN all :
                     Returned(t) < all[t] => \A i \in DOMAIN got : ~Earlier(t, got[i])

(* A transaction that has not deleted rows reads what it wrote: through    *)
(* the version chains, by scan as by index, SELECT returns what it returns *)
(* outside.  (readVersion, rowsSnapshotForRead and rowsByIdForRead, whose  *)
(* row ids come from indexes over the row store)                           *)
TransactionReads ==
  ~erased => \A p \in Predicate : executeSelect(All(p), TRUE) = executeSelect(All(p), FALSE)

Others ==
  {[name |-> OtherName, schema |-> OtherSchema, rows |-> rs] : rs \in OtherTables}
    \cup {[name |-> Name, schema |-> Schema, rows |-> rows]}

\* What each pair of rows joins to, the pairs with equal keys, those of them the predicate
\* is true of, and the bag of what they join to.
JoinedAt(other) ==
  [x \in (DOMAIN rows) \X (DOMAIN other.rows) |-> Joined(rows[x[1]], other.rows[x[2]], other)]
EqualPairs(on, other) ==
  LET l == resolveTableColumn(Schema, Name, on[1])
      r == resolveTableColumn(other.schema, other.name, on[2])
  IN  {x \in (DOMAIN rows) \X (DOMAIN other.rows) : rows[x[1]][l] = other.rows[x[2]][r]}
PairsWhere(on, where, other, truth) ==
  {x \in EqualPairs(on, other) :
     matchesJoinedPredicate(where, joinedColumns(other), JoinedAt(other)[x]) = truth}
Product(on, where, other) ==
  LET pairs == PairsWhere(on, where, other, "true")
  IN  [t \in {JoinedAt(other)[x] : x \in pairs} |->
         Cardinality({x \in pairs : JoinedAt(other)[x] = t})]

(* A join returns every pair of rows with equal join columns that          *)
(* satisfies the WHERE clause, as often as there are such pairs: NULL      *)
(* joins NULL, and values of different types never join.  It throws for an *)
(* unknown join column, and when the predicate throws on a pair that       *)
(* joins; a pair that does not is never looked at.  A column name that     *)
(* both tables have is refused unless it is qualified, and a table joined  *)
(* with itself pairs its own rows.  (executeJoinSelect)                    *)
JoinExact ==
  \A other \in Others, on \in JoinColumns, p \in JoinPredicate :
    LET q == [columns |-> <<"*">>, on |-> on, where |-> p, orderBy |-> None, limit |-> None]
        known == /\ resolveTableColumn(Schema, Name, on[1]) # None
                 /\ resolveTableColumn(other.schema, other.name, on[2]) # None
    IN  /\ \A result \in executeJoinSelect(q, other, FALSE) :
             IF known /\ PairsWhere(on, p, other, "throws") = {}
             THEN result.ok /\ ToBag(result.rows) = Product(on, p, other)
             ELSE result = Throws
        /\ \A c \in Columns \cap ToSet(other.schema) :
             executeJoinSelect([q EXCEPT !.columns = <<<<c>>>>], other, FALSE) = {Throws}

=============================================================================
