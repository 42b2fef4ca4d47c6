------------------------------ MODULE Database -------------------------------
(***************************************************************************)
(* A database in memory as the executor's handlers see it: a name and a    *)
(* catalog of tables, each with a schema, rows and index definitions.      *)
(*                                                                         *)
(* A table has one column (the data is abstracted, not the control), so a  *)
(* row is a value, and its rows are a sequence because row ids are         *)
(* positions.  What an index contains and which row versions exist are     *)
(* Table's business.                                                       *)
(*                                                                         *)
(* Every operator below is the effect of one handler on the catalog.  It   *)
(* returns                                                                 *)
(*   db       the database afterwards,                                     *)
(*   outcome  "ok", "failed" (a result with success = false) or "threw",   *)
(*   log      whether the handler appends to the write-ahead log.          *)
(***************************************************************************)
EXTENDS SqlText

CONSTANTS
  DbName, TableName, IndexName,
  Value                  \* the values statements mention

Column == [type : {"INT", "DOUBLE", "STRING"}, nullable : BOOLEAN]

\* database_ is a null pointer.
NoDatabase == [null |-> TRUE]

DatabaseNew(name) == [name |-> name, tables |-> << >>]

\* A table's contents depend on nothing but its schema, its rows and its indexes.
TableNew(column) == [column |-> column, rows |-> << >>, indexes |-> {}]

Ok(db) == [db |-> db, outcome |-> "ok", log |-> TRUE]
OkUnchanged(db) == [db |-> db, outcome |-> "ok", log |-> FALSE]
Failed(db) == [db |-> db, outcome |-> "failed", log |-> FALSE]
Threw(db) == [db |-> db, outcome |-> "threw", log |-> FALSE]

HasTable(db, t) == db # NoDatabase /\ t \in DOMAIN db.tables

WithTable(db, t, table) ==
  [db EXCEPT !.tables = [n \in DOMAIN @ \cup {t} |-> IF n = t THEN table ELSE @[n]]]

WithoutTable(db, t) ==
  [db EXCEPT !.tables = [n \in DOMAIN @ \ {t} |-> @[n]]]

-----------------------------------------------------------------------------
createTable(db, s) ==
  IF db = NoDatabase \/ HasTable(db, s.table) THEN Failed(db)
  ELSE Ok(WithTable(db, s.table, TableNew(s.column)))

\* The handler does not log.
dropTableUnlogged(db, s) ==
  IF ~HasTable(db, s.table) THEN Failed(db) ELSE OkUnchanged(WithoutTable(db, s.table))

dropTable(db, s) ==
  IF ~HasTable(db, s.table) THEN Failed(db) ELSE Ok(WithoutTable(db, s.table))

\* A new table under the new name takes the rows and the index definitions.
renameTable(db, s) ==
  IF ~HasTable(db, s.table) \/ HasTable(db, s.newName) THEN Failed(db)
  ELSE Ok(WithTable(WithoutTable(db, s.table), s.newName, db.tables[s.table]))

\* Nullable columns take NULL; every other value must have the column's type.
Accepts(column, v) ==
  IF v = Null THEN column.nullable ELSE v.type = column.type

\* Only the first row of a multi-row INSERT is looked at.
validateFirstRow(db, s) ==
  HasTable(db, s.table) /\ Accepts(db.tables[s.table].column, s.rows[1])

validateRows(db, s) ==
  HasTable(db, s.table) /\ \A i \in DOMAIN s.rows : Accepts(db.tables[s.table].column, s.rows[i])

insertRow(db, t, row) == [db EXCEPT !.tables[t].rows = Append(@, row)]

\* executeInsert during replay, where a record holds one row.
insertOne(db, s) ==
  IF validateRows(db, s) THEN Ok(insertRow(db, s.table, s.rows[1])) ELSE Threw(db)

-----------------------------------------------------------------------------
(* UPDATE visits the rows in order and stops where matches() or            *)
(* Table::update() throws, DELETE visits them from the last to the first.  *)
(* What was changed before the exception stays changed.                    *)

Positions(table, P(_)) == {i \in DOMAIN table.rows : P(table.rows[i])}

update(db, s) ==
  LET table == db.tables[s.table]
      stops == Positions(table, LAMBDA row :
                 MatchThrows(row, s.where) \/ (Matches(row, s.where) /\ ~Accepts(table.column, s.value)))
      matching == Positions(table, LAMBDA row : Matches(row, s.where))
      hit == {i \in matching \ stops : \A j \in stops : i < j}
      updated == [db EXCEPT !.tables[s.table].rows =
                    [i \in DOMAIN @ |-> IF i \in hit THEN s.value ELSE @[i]]]
      result == IF hit = {} THEN db ELSE updated
  IN  IF ~HasTable(db, s.table) \/ s.column = "missing" THEN Threw(db)
      ELSE IF stops # {} THEN Threw(result)
      ELSE IF hit = {} THEN OkUnchanged(db)
      ELSE Ok(result)

\* The rows that are left once those at the positions in gone are erased.
RowsOutside(rows, gone) ==
  LET passed[n \in 0..Len(rows)] ==
        IF n = 0 THEN << >>
        ELSE IF n \in gone THEN passed[n - 1] ELSE Append(passed[n - 1], rows[n])
  IN  passed[Len(rows)]

delete(db, s) ==
  LET table == db.tables[s.table]
      stops == Positions(table, LAMBDA row : MatchThrows(row, s.where))
      hit == {i \in Positions(table, LAMBDA row : Matches(row, s.where)) : \A j \in stops : j < i}
      kept == RowsOutside(table.rows, hit)
      result == IF hit = {} THEN db ELSE [db EXCEPT !.tables[s.table].rows = kept]
  IN  IF ~HasTable(db, s.table) THEN Threw(db)
      ELSE IF stops # {} THEN Threw(result)
      ELSE IF hit = {} THEN OkUnchanged(db)
      ELSE Ok(result)

createIndex(db, s) ==
  IF ~HasTable(db, s.table) THEN Threw(db)
  ELSE IF s.column = "missing" \/ s.index \in db.tables[s.table].indexes THEN Failed(db)
  ELSE Ok([db EXCEPT !.tables[s.table].indexes = @ \cup {s.index}])

-----------------------------------------------------------------------------
(* executeUnlocked for the statements that are replayed from the log.      *)
Apply(db, s) ==
  CASE s.type = "CreateTable" -> createTable(db, s)
    [] s.type = "DropTable" -> dropTable(db, s)
    [] s.type = "RenameTable" -> renameTable(db, s)
    [] s.type = "Insert" -> insertOne(db, s)
    [] s.type = "Update" -> update(db, s)
    [] s.type = "Delete" -> delete(db, s)
    [] s.type = "CreateIndex" -> createIndex(db, s)

-----------------------------------------------------------------------------
IsTable(table) ==
  /\ table = [column |-> table.column, rows |-> table.rows, indexes |-> table.indexes]
  /\ table.column \in Column
  /\ table.indexes \subseteq IndexName

IsDatabase(db) ==
  db # NoDatabase =>
    /\ db = [name |-> db.name, tables |-> db.tables]
    /\ db.name \in DbName
    /\ db.tables = [t \in DOMAIN db.tables |-> db.tables[t]]
    /\ DOMAIN db.tables \subseteq TableName
    /\ \A t \in DOMAIN db.tables : IsTable(db.tables[t])

\* Every row has the type of its table's column.
RowsFit(db) ==
  db # NoDatabase =>
    \A t \in DOMAIN db.tables : \A i \in DOMAIN db.tables[t].rows :
      Accepts(db.tables[t].column, db.tables[t].rows[i])

-----------------------------------------------------------------------------
(* The statements of these handlers.                                       *)

WhereClause == [kind : {"none", "equal", "missing", "or", "and"}, value : Value]

Statement ==
  [type : {"CreateTable"}, table : TableName, column : Column]
    \cup [type : {"DropTable"}, table : TableName]
    \cup [type : {"RenameTable"}, table : TableName, newName : TableName]
    \cup [type : {"Insert"}, table : TableName, rows : Seq(Value) \ {<< >>}]
    \cup [type : {"Update"}, table : TableName, column : {"price", "missing"}, value : Value,
          where : WhereClause]
    \cup [type : {"Delete"}, table : TableName, where : WhereClause]
    \cup [type : {"CreateIndex"}, table : TableName, column : {"price", "missing"},
          index : IndexName]

=============================================================================
