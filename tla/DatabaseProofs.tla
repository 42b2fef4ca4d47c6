---------------------------- MODULE DatabaseProofs ---------------------------
(***************************************************************************)
(* Facts about the handlers' effects on a database, for any names, values  *)
(* and rows: the catalog stays well formed, a handler that does not log    *)
(* changes nothing, and rows that fit the columns of their tables still    *)
(* do when a handler is done (Fitted).                                     *)
(***************************************************************************)
EXTENDS Database, WellFoundedInduction, TLAPS

\* The names a statement mentions are names of tables, columns and indexes.
Replayed == {"CreateTable", "DropTable", "RenameTable", "Insert", "Update", "Delete", "CreateIndex"}

Named(s) ==
  /\ s.type \in Replayed
  /\ s.table \in TableName
  /\ s.type = "CreateTable" => s.column \in Column
  /\ s.type = "RenameTable" => s.newName \in TableName
  /\ s.type = "CreateIndex" => s.index \in IndexName
  /\ s.type = "Insert" => 1 \in DOMAIN s.rows

LEMMA WithTableDatabase ==
  ASSUME NEW db, db # NoDatabase, IsDatabase(db), NEW t \in TableName, NEW table, IsTable(table)
  PROVE  IsDatabase(WithTable(db, t, table))
<1> DEFINE tables == [n \in DOMAIN db.tables \cup {t} |-> IF n = t THEN table ELSE db.tables[n]]
<1>1. db = [name |-> db.name, tables |-> db.tables] /\ db.name \in DbName
  BY DEF IsDatabase
<1>2. WithTable(db, t, table) = [name |-> db.name, tables |-> tables]
  BY <1>1 DEF WithTable
<1>3. \A n \in DOMAIN tables : n \in TableName /\ IsTable(tables[n])
  BY DEF IsDatabase
<1>4. tables = [n \in DOMAIN tables |-> tables[n]]
  OBVIOUS
<1> HIDE DEF tables
<1>5. IsDatabase([name |-> db.name, tables |-> tables])
  BY <1>1, <1>3, <1>4 DEF IsDatabase
<1> QED  BY <1>2, <1>5

LEMMA WithoutTableDatabase ==
  ASSUME NEW db, db # NoDatabase, IsDatabase(db), NEW t
  PROVE  IsDatabase(WithoutTable(db, t))
<1> DEFINE tables == [n \in DOMAIN db.tables \ {t} |-> db.tables[n]]
<1>1. db = [name |-> db.name, tables |-> db.tables] /\ db.name \in DbName
  BY DEF IsDatabase
<1>2. WithoutTable(db, t) = [name |-> db.name, tables |-> tables]
  BY <1>1 DEF WithoutTable
<1>3. \A n \in DOMAIN tables : n \in TableName /\ IsTable(tables[n])
  BY DEF IsDatabase
<1>4. tables = [n \in DOMAIN tables |-> tables[n]]
  OBVIOUS
<1> HIDE DEF tables
<1>5. IsDatabase([name |-> db.name, tables |-> tables])
  BY <1>1, <1>3, <1>4 DEF IsDatabase
<1> QED  BY <1>2, <1>5

\* A change of one table's rows, which is what INSERT, UPDATE and DELETE do.
LEMMA RowsChangeDatabase ==
  ASSUME NEW db, NEW t, HasTable(db, t), IsDatabase(db), NEW rows
  PROVE  /\ IsDatabase([db EXCEPT !.tables[t].rows = rows])
         /\ [db EXCEPT !.tables[t].rows = rows] # NoDatabase
         /\ [db EXCEPT !.tables[t].rows = rows].tables[t].column = db.tables[t].column
         /\ t \in DOMAIN [db EXCEPT !.tables[t].rows = rows].tables
<1> DEFINE table == [column |-> db.tables[t].column, rows |-> rows, indexes |-> db.tables[t].indexes]
           tables == [n \in DOMAIN db.tables |-> IF n = t THEN table ELSE db.tables[n]]
<1>1. db = [name |-> db.name, tables |-> db.tables] /\ db.name \in DbName /\ t \in DOMAIN db.tables
  BY DEF IsDatabase, HasTable
<1>2. IsTable(db.tables[t])
  BY <1>1 DEF IsDatabase, HasTable
<1>3. [db.tables[t] EXCEPT !.rows = rows] = table
  BY <1>2 DEF IsTable
<1>4. [db.tables EXCEPT ![t].rows = rows] = tables
  BY <1>3, <1>1 DEF IsDatabase, HasTable
<1>5. [db EXCEPT !.tables[t].rows = rows] = [name |-> db.name, tables |-> tables]
  BY <1>1, <1>4
<1>6. IsTable(table)
  BY <1>2 DEF IsTable
<1>7. tables = [n \in DOMAIN tables |-> tables[n]]
  OBVIOUS
<1>8. \A n \in DOMAIN tables : n \in TableName /\ IsTable(tables[n])
  BY <1>6 DEF IsDatabase, HasTable
<1>9. tables[t].column = db.tables[t].column /\ t \in DOMAIN tables
  BY <1>1
<1> HIDE DEF tables, table
<1>10. IsDatabase([name |-> db.name, tables |-> tables])
  BY <1>1, <1>7, <1>8 DEF IsDatabase
<1>11. [name |-> db.name, tables |-> tables] # NoDatabase
  BY DEF NoDatabase
<1> QED  BY <1>5, <1>9, <1>10, <1>11

-----------------------------------------------------------------------------
(* Handler by handler.  A handler either changes nothing and does not log, *)
(* or succeeds and logs; UPDATE and DELETE have a third way, in which they *)
(* throw after they changed some rows.                                     *)

Returned == {"ok", "failed", "threw"}

\* The two ways that all handlers have.
AllOrNothing(db, r) == (~r.log /\ r.db = db) \/ (r.log /\ r.outcome = "ok")

LEMMA ResultFields ==
  ASSUME NEW db
  PROVE  /\ Ok(db).db = db /\ Ok(db).outcome = "ok" /\ Ok(db).log = TRUE
         /\ OkUnchanged(db).db = db /\ OkUnchanged(db).outcome = "ok" /\ OkUnchanged(db).log = FALSE
         /\ Failed(db).db = db /\ Failed(db).outcome = "failed" /\ Failed(db).log = FALSE
         /\ Threw(db).db = db /\ Threw(db).outcome = "threw" /\ Threw(db).log = FALSE
BY DEF Ok, OkUnchanged, Failed, Threw

\* What a handler returns when it changes nothing, and when it succeeds.
LEMMA ResultKinds ==
  ASSUME NEW db, IsDatabase(db), NEW r, NEW P, NEW after, P => IsDatabase(after),
         r \in {OkUnchanged(db), Failed(db), Threw(db)} \/ (P /\ r = Ok(after))
  PROVE  IsDatabase(r.db) /\ AllOrNothing(db, r) /\ r.outcome \in Returned
<1>1. CASE r \in {OkUnchanged(db), Failed(db), Threw(db)}
  <2>1. r.db = db /\ r.log = FALSE /\ r.outcome \in Returned
    BY <1>1 DEF OkUnchanged, Failed, Threw, Returned
  <2> QED  BY <2>1, Zenon DEF AllOrNothing
<1>2. CASE P /\ r = Ok(after)
  <2>1. r.db = after /\ r.log = TRUE /\ r.outcome = "ok"
    BY <1>2, ResultFields
  <2> QED  BY <1>2, <2>1, Zenon DEF AllOrNothing, Returned
<1> QED  BY <1>1, <1>2

LEMMA CreateTableFacts ==
  ASSUME NEW db, IsDatabase(db), NEW s, s.table \in TableName, s.column \in Column
  PROVE  /\ IsDatabase(createTable(db, s).db)
         /\ AllOrNothing(db, createTable(db, s)) /\ createTable(db, s).outcome \in Returned
<1> DEFINE table == TableNew(s.column)
<1>1. IsTable(table)
  BY DEF TableNew, IsTable
<1> HIDE DEF table
<1>2. db # NoDatabase => IsDatabase(WithTable(db, s.table, table))
  BY <1>1, WithTableDatabase
<1>3. createTable(db, s) = Failed(db)
        \/ (db # NoDatabase /\ createTable(db, s) = Ok(WithTable(db, s.table, table)))
  BY Zenon DEF createTable, table
<1> QED  BY <1>2, <1>3, ResultKinds

LEMMA DropTableFacts ==
  ASSUME NEW db, IsDatabase(db), NEW s
  PROVE  /\ IsDatabase(dropTable(db, s).db)
         /\ AllOrNothing(db, dropTable(db, s)) /\ dropTable(db, s).outcome \in Returned
<1>1. HasTable(db, s.table) => IsDatabase(WithoutTable(db, s.table))
  BY WithoutTableDatabase DEF HasTable
<1>2. dropTable(db, s) = Failed(db)
        \/ (HasTable(db, s.table) /\ dropTable(db, s) = Ok(WithoutTable(db, s.table)))
  BY Zenon DEF dropTable
<1> QED  BY <1>1, <1>2, ResultKinds

LEMMA RenameTableFacts ==
  ASSUME NEW db, IsDatabase(db), NEW s, s.newName \in TableName
  PROVE  /\ IsDatabase(renameTable(db, s).db)
         /\ AllOrNothing(db, renameTable(db, s)) /\ renameTable(db, s).outcome \in Returned
<1> DEFINE without == WithoutTable(db, s.table)
           table == db.tables[s.table]
<1>1. HasTable(db, s.table) => IsDatabase(without) /\ IsTable(table)
  BY WithoutTableDatabase DEF HasTable, IsDatabase
<1>2. HasTable(db, s.table) => IsDatabase(WithTable(without, s.newName, table))
  <2> SUFFICES ASSUME HasTable(db, s.table)
               PROVE  IsDatabase(WithTable(without, s.newName, table))
    OBVIOUS
  <2>1. db = [name |-> db.name, tables |-> db.tables] /\ db.name \in DbName
    BY DEF IsDatabase, HasTable
  <2> DEFINE rest == [n \in DOMAIN db.tables \ {s.table} |-> db.tables[n]]
             tables == [n \in DOMAIN rest \cup {s.newName} |-> IF n = s.newName THEN table ELSE rest[n]]
  <2>2. WithTable(without, s.newName, table) = [name |-> db.name, tables |-> tables]
    <3>1. without = [name |-> db.name, tables |-> rest]
      BY <2>1 DEF WithoutTable
    <3> HIDE DEF without, rest
    <3> QED  BY <3>1 DEF WithTable
  <2>3. \A n \in DOMAIN tables : n \in TableName /\ IsTable(tables[n])
    BY <1>1 DEF IsDatabase, HasTable
  <2>4. tables = [n \in DOMAIN tables |-> tables[n]]
    OBVIOUS
  <2> HIDE DEF tables
  <2>5. IsDatabase([name |-> db.name, tables |-> tables])
    BY <2>1, <2>3, <2>4 DEF IsDatabase
  <2> QED  BY <2>2, <2>5
<1>3. renameTable(db, s) = Failed(db)
        \/ (/\ HasTable(db, s.table)
            /\ renameTable(db, s) = Ok(WithTable(without, s.newName, table)))
  BY Zenon DEF renameTable
<1> QED  BY <1>2, <1>3, ResultKinds

LEMMA CreateIndexFacts ==
  ASSUME NEW db, IsDatabase(db), NEW s, s.index \in IndexName
  PROVE  /\ IsDatabase(createIndex(db, s).db)
         /\ AllOrNothing(db, createIndex(db, s)) /\ createIndex(db, s).outcome \in Returned
<1> DEFINE t == s.table
           after == [db EXCEPT !.tables[t].indexes = @ \cup {s.index}]
<1>1. HasTable(db, t) => IsDatabase(after)
  <2> SUFFICES ASSUME HasTable(db, t) PROVE IsDatabase(after)
    OBVIOUS
  <2> DEFINE table == [column |-> db.tables[t].column, rows |-> db.tables[t].rows,
                       indexes |-> db.tables[t].indexes \cup {s.index}]
             tables == [n \in DOMAIN db.tables |-> IF n = t THEN table ELSE db.tables[n]]
  <2>1. db = [name |-> db.name, tables |-> db.tables] /\ db.name \in DbName /\ t \in DOMAIN db.tables
    BY DEF IsDatabase, HasTable
  <2>2. IsTable(db.tables[t])
    BY <2>1 DEF IsDatabase, HasTable
  <2>3. [db.tables[t] EXCEPT !.indexes = @ \cup {s.index}] = table
    BY <2>2 DEF IsTable
  <2>4. [db.tables EXCEPT ![t].indexes = @ \cup {s.index}] = tables
    BY <2>3, <2>1 DEF IsDatabase, HasTable
  <2>5. after = [name |-> db.name, tables |-> tables]
    BY <2>1, <2>4, SMTT(20)
  <2>6. IsTable(table)
    BY <2>2 DEF IsTable
  <2>7. tables = [n \in DOMAIN tables |-> tables[n]]
    OBVIOUS
  <2>8. \A n \in DOMAIN tables : n \in TableName /\ IsTable(tables[n])
    BY <2>6 DEF IsDatabase, HasTable
  <2> HIDE DEF tables, table
  <2>9. IsDatabase([name |-> db.name, tables |-> tables])
    BY <2>1, <2>7, <2>8 DEF IsDatabase
  <2> QED  BY <2>5, <2>9
<1>2. createIndex(db, s) \in {Failed(db), Threw(db)}
        \/ (HasTable(db, t) /\ createIndex(db, s) = Ok(after))
  BY Zenon DEF createIndex
<1> QED  BY <1>1, <1>2, ResultKinds

LEMMA InsertFacts ==
  ASSUME NEW db, NEW t, HasTable(db, t), IsDatabase(db), NEW row
  PROVE  /\ IsDatabase(insertRow(db, t, row))
         /\ HasTable(insertRow(db, t, row), t)
         /\ insertRow(db, t, row).tables[t].column = db.tables[t].column
<1> DEFINE rows == Append(db.tables[t].rows, row)
<1>1. insertRow(db, t, row) = [db EXCEPT !.tables[t].rows = rows]
  BY DEF insertRow
<1> HIDE DEF rows
<1> QED  BY <1>1, RowsChangeDatabase DEF HasTable


-----------------------------------------------------------------------------
(* UPDATE and DELETE.                                                      *)

\* The predicates that throw on every row or on none.
Uniform(w) == w.kind \in {"none", "equal", "missing"}

\* The rows matches() throws on.
LEMMA UpdateFacts ==
  ASSUME NEW db, IsDatabase(db), NEW s
  PROVE  /\ IsDatabase(update(db, s).db)
         /\ update(db, s).log => update(db, s).outcome = "ok"
         /\ update(db, s).outcome \in Returned
         /\ Uniform(s.where) => AllOrNothing(db, update(db, s))
<1> DEFINE table == db.tables[s.table]
           stopsAt(row) == MatchThrows(row, s.where)
                             \/ (Matches(row, s.where) /\ ~Accepts(table.column, s.value))
           stops == Positions(table, stopsAt)
           matching == Positions(table, LAMBDA row : Matches(row, s.where))
           hit == {i \in matching \ stops : \A j \in stops : i < j}
           rows == [i \in DOMAIN table.rows |-> IF i \in hit THEN s.value ELSE table.rows[i]]
           updated == [db EXCEPT !.tables[s.table].rows = rows]
           result == IF hit = {} THEN db ELSE updated
           r == update(db, s)
<1>1. \/ r = Threw(db)
      \/ HasTable(db, s.table) /\ stops # {} /\ r = Threw(result)
      \/ r = OkUnchanged(db)
      \/ HasTable(db, s.table) /\ stops = {} /\ hit # {} /\ r = Ok(result)
  BY DEF update
<1>2. HasTable(db, s.table) => IsDatabase(result)
  <2> HIDE DEF rows, hit
  <2> QED  BY RowsChangeDatabase
<1>3. Uniform(s.where) /\ stops # {} => hit = {}
  <2> SUFFICES ASSUME Uniform(s.where), NEW j \in stops, NEW i \in hit PROVE FALSE
    OBVIOUS
  <2>1. MatchThrows(table.rows[j], s.where) \/ ~Accepts(table.column, s.value)
    BY DEF Positions
  <2>2. Matches(table.rows[i], s.where) /\ Accepts(table.column, s.value)
    BY DEF Positions
  <2> QED  BY <2>1, <2>2 DEF Uniform, MatchThrows, Matches
<1> HIDE DEF hit, stops, updated
<1>4. Uniform(s.where) /\ stops # {} => result = db
  BY <1>3
<1> HIDE DEF result, r
<1>5. CASE r = Threw(db) \/ r = OkUnchanged(db)
  <2>1. r.db = db /\ r.log = FALSE /\ r.outcome \in Returned
    BY <1>5 DEF Threw, OkUnchanged, Returned
  <2> QED  BY <2>1, Zenon DEF AllOrNothing, r
<1>6. CASE HasTable(db, s.table) /\ stops # {} /\ r = Threw(result)
  <2>1. r.db = result /\ r.log = FALSE /\ r.outcome \in Returned
    BY <1>6 DEF Threw, Returned
  <2> QED  BY <1>2, <1>4, <1>6, <2>1, Zenon DEF AllOrNothing, r
<1>7. CASE HasTable(db, s.table) /\ stops = {} /\ hit # {} /\ r = Ok(result)
  <2>1. r.db = result /\ r.log = TRUE /\ r.outcome = "ok"
    BY <1>7 DEF Ok
  <2> QED  BY <1>2, <1>7, <2>1, Zenon DEF AllOrNothing, Returned, r
<1> QED  BY <1>1, <1>5, <1>6, <1>7

LEMMA DeleteFacts ==
  ASSUME NEW db, IsDatabase(db), NEW s
  PROVE  /\ IsDatabase(delete(db, s).db)
         /\ delete(db, s).log => delete(db, s).outcome = "ok"
         /\ delete(db, s).outcome \in Returned
         /\ Uniform(s.where) => AllOrNothing(db, delete(db, s))
<1> DEFINE table == db.tables[s.table]
           stops == Positions(table, LAMBDA row : MatchThrows(row, s.where))
           hit == {i \in Positions(table, LAMBDA row : Matches(row, s.where)) : \A j \in stops : j < i}
           kept == RowsOutside(table.rows, hit)
           result == IF hit = {} THEN db ELSE [db EXCEPT !.tables[s.table].rows = kept]
           r == delete(db, s)
<1>1. \/ r = Threw(db)
      \/ HasTable(db, s.table) /\ stops # {} /\ r = Threw(result)
      \/ r = OkUnchanged(db)
      \/ HasTable(db, s.table) /\ stops = {} /\ hit # {} /\ r = Ok(result)
  BY DEF delete
<1>2. HasTable(db, s.table) => IsDatabase(result)
  <2> HIDE DEF kept, hit
  <2> QED  BY RowsChangeDatabase
<1>3. Uniform(s.where) /\ stops # {} => hit = {}
  <2> SUFFICES ASSUME Uniform(s.where), NEW j \in stops, NEW i \in hit PROVE FALSE
    OBVIOUS
  <2>1. MatchThrows(table.rows[j], s.where) /\ Matches(table.rows[i], s.where)
    BY DEF Positions
  <2> QED  BY <2>1 DEF Uniform, MatchThrows, Matches
<1>4. Uniform(s.where) /\ stops # {} => result = db
  BY <1>3
<1> HIDE DEF hit, stops, result, r
<1>5. CASE r = Threw(db) \/ r = OkUnchanged(db)
  <2>1. r.db = db /\ r.log = FALSE /\ r.outcome \in Returned
    BY <1>5 DEF Threw, OkUnchanged, Returned
  <2> QED  BY <2>1, Zenon DEF AllOrNothing, r
<1>6. CASE HasTable(db, s.table) /\ stops # {} /\ r = Threw(result)
  <2>1. r.db = result /\ r.log = FALSE /\ r.outcome \in Returned
    BY <1>6 DEF Threw, Returned
  <2> QED  BY <1>2, <1>4, <1>6, <2>1, Zenon DEF AllOrNothing, r
<1>7. CASE HasTable(db, s.table) /\ stops = {} /\ hit # {} /\ r = Ok(result)
  <2>1. r.db = result /\ r.log = TRUE /\ r.outcome = "ok"
    BY <1>7 DEF Ok
  <2> QED  BY <1>2, <1>7, <2>1, Zenon DEF AllOrNothing, Returned, r
<1> QED  BY <1>1, <1>5, <1>6, <1>7

LEMMA InsertOneFacts ==
  ASSUME NEW db, IsDatabase(db), NEW s
  PROVE  /\ IsDatabase(insertOne(db, s).db)
         /\ AllOrNothing(db, insertOne(db, s)) /\ insertOne(db, s).outcome \in Returned
<1>1. HasTable(db, s.table) => IsDatabase(insertRow(db, s.table, s.rows[1]))
  BY InsertFacts
<1>2. insertOne(db, s) = Threw(db)
        \/ (/\ HasTable(db, s.table)
            /\ insertOne(db, s) = Ok(insertRow(db, s.table, s.rows[1])))
  BY Zenon DEF insertOne, validateRows
<1> QED  BY <1>1, <1>2, ResultKinds

(* Every handler keeps the database well formed, logs only when it         *)
(* succeeds, and, unless a predicate throws on some rows and not on        *)
(* others, changes nothing when it does not log.  (executeUnlocked)        *)
LEMMA ApplyFacts ==
  ASSUME NEW db, IsDatabase(db), NEW s, Named(s)
  PROVE  /\ IsDatabase(Apply(db, s).db)
         /\ Apply(db, s).log => Apply(db, s).outcome = "ok"
         /\ Apply(db, s).outcome \in Returned
         /\ (s.type \in {"Update", "Delete"} => Uniform(s.where)) => AllOrNothing(db, Apply(db, s))
<1>1. CASE s.type = "CreateTable"
  <2>1. Apply(db, s) = createTable(db, s)
    BY <1>1 DEF Apply
  <2>2. s.table \in TableName /\ s.column \in Column
    BY <1>1 DEF Named
  <2> QED  BY <2>1, <2>2, CreateTableFacts, Zenon DEF AllOrNothing
<1>2. CASE s.type = "DropTable"
  <2>1. Apply(db, s) = dropTable(db, s)
    BY <1>2 DEF Apply
  <2> QED  BY <2>1, DropTableFacts, Zenon DEF AllOrNothing
<1>3. CASE s.type = "RenameTable"
  <2>1. Apply(db, s) = renameTable(db, s)
    BY <1>3 DEF Apply
  <2>2. s.newName \in TableName
    BY <1>3 DEF Named
  <2> QED  BY <2>1, <2>2, RenameTableFacts, Zenon DEF AllOrNothing
<1>4. CASE s.type = "Insert"
  <2>1. Apply(db, s) = insertOne(db, s)
    BY <1>4 DEF Apply
  <2> QED  BY <2>1, InsertOneFacts, Zenon DEF AllOrNothing
<1>5. CASE s.type = "Update"
  <2>1. Apply(db, s) = update(db, s)
    BY <1>5 DEF Apply
  <2> QED  BY <1>5, <2>1, UpdateFacts
<1>6. CASE s.type = "Delete"
  <2>1. Apply(db, s) = delete(db, s)
    BY <1>6 DEF Apply
  <2> QED  BY <1>6, <2>1, DeleteFacts
<1>7. CASE s.type = "CreateIndex"
  <2>1. Apply(db, s) = createIndex(db, s)
    BY <1>7 DEF Apply
  <2>2. s.index \in IndexName
    BY <1>7 DEF Named
  <2> QED  BY <2>1, <2>2, CreateIndexFacts, Zenon DEF AllOrNothing
<1> QED  BY <1>1, <1>2, <1>3, <1>4, <1>5, <1>6, <1>7 DEF Named, Replayed

-----------------------------------------------------------------------------
(* A statement's text.                                                     *)

LEMMA StatementNamed ==
  ASSUME NEW s \in Statement
  PROVE  Named(s)
BY DEF Statement, Named, Replayed

\* An UPDATE as a record, for the provers.
LEMMA UpdateShape ==
  ASSUME NEW s \in Statement, s.type = "Update"
  PROVE  s = [type |-> "Update", table |-> s.table, column |-> s.column, value |-> s.value,
              where |-> [kind |-> s.where.kind, value |-> s.where.value]]
<1>1. s \in [type : {"Update"}, table : TableName, column : {"price", "missing"}, value : Value,
             where : WhereClause]
  BY DEF Statement
<1> QED  BY <1>1 DEF WhereClause

LEMMA DeleteShape ==
  ASSUME NEW s \in Statement, s.type = "Delete"
  PROVE  s = [type |-> "Delete", table |-> s.table,
              where |-> [kind |-> s.where.kind, value |-> s.where.value]]
<1>1. s \in [type : {"Delete"}, table : TableName, where : WhereClause]
  BY DEF Statement
<1> QED  BY <1>1 DEF WhereClause

\* What the parser makes of each text.
LEMMA UpdateParsed ==
  ASSUME NEW s \in Statement, s.type = "Update"
  PROVE  parse(Sql(s))
           = IF parseValue(sqlLiteral(s.value)) = Unparsable
                  \/ parseValue(sqlLiteral(s.where.value)) = Unparsable
             THEN ParseError
             ELSE [type |-> "Update", table |-> s.table, column |-> s.column,
                   value |-> parseValue(sqlLiteral(s.value)),
                   where |-> [kind |-> s.where.kind,
                              value |-> parseValue(sqlLiteral(s.where.value))]]
<1> DEFINE text == updateSql(s)
<1>1. Sql(s) = text
  BY DEF Sql
<1>2. /\ text.type = "Update" /\ text.table = s.table /\ text.column = s.column
      /\ text.value = sqlLiteral(s.value)
      /\ text.where.kind = s.where.kind /\ text.where.value = sqlLiteral(s.where.value)
  BY DEF updateSql, predicateLiteral
<1> HIDE DEF text
<1>3. parse(text) = IF parseValue(text.value) = Unparsable \/ parseValue(text.where.value) = Unparsable
                    THEN ParseError
                    ELSE [type |-> "Update", table |-> text.table, column |-> text.column,
                          value |-> parseValue(text.value), where |-> parsePredicate(text.where)]
  BY <1>2 DEF parse, Literals
<1> QED  BY <1>1, <1>2, <1>3 DEF parsePredicate

LEMMA DeleteParsed ==
  ASSUME NEW s \in Statement, s.type = "Delete"
  PROVE  parse(Sql(s))
           = IF parseValue(sqlLiteral(s.where.value)) = Unparsable THEN ParseError
             ELSE [type |-> "Delete", table |-> s.table,
                   where |-> [kind |-> s.where.kind,
                              value |-> parseValue(sqlLiteral(s.where.value))]]
<1> DEFINE text == deleteSql(s)
<1>1. Sql(s) = text
  BY DEF Sql
<1>2. /\ text.type = "Delete" /\ text.table = s.table
      /\ text.where.kind = s.where.kind /\ text.where.value = sqlLiteral(s.where.value)
  BY DEF deleteSql, predicateLiteral
<1> HIDE DEF text
<1>3. parse(text) = IF parseValue(text.where.value) = Unparsable THEN ParseError
                    ELSE [type |-> "Delete", table |-> text.table, where |-> parsePredicate(text.where)]
  BY <1>2 DEF parse, Literals
<1> QED  BY <1>1, <1>2, <1>3 DEF parsePredicate

LEMMA InsertParsed ==
  ASSUME NEW t, NEW v
  PROVE  parse(insertSql(t, v))
           = IF parseValue(sqlLiteral(v)) = Unparsable THEN ParseError
             ELSE [type |-> "Insert", table |-> t, rows |-> <<parseValue(sqlLiteral(v))>>]
<1> DEFINE text == insertSql(t, v)
<1>1. text.type = "Insert" /\ text.table = t /\ text.rows[1] = sqlLiteral(v)
  BY DEF insertSql
<1> HIDE DEF text
<1>2. parse(text) = IF parseValue(text.rows[1]) = Unparsable THEN ParseError
                    ELSE [type |-> "Insert", table |-> text.table, rows |-> <<parseValue(text.rows[1])>>]
  BY <1>1 DEF parse, Literals
<1>3. parse(text) = IF parseValue(sqlLiteral(v)) = Unparsable THEN ParseError
                    ELSE [type |-> "Insert", table |-> t, rows |-> <<parseValue(sqlLiteral(v))>>]
  BY <1>1, <1>2
<1> QED  BY <1>3 DEF text

LEMMA OtherParsed ==
  ASSUME NEW s, s.type \in {"CreateTable", "DropTable", "RenameTable", "CreateIndex"}
  PROVE  parse(Sql(s)) = s
BY DEF parse, Sql, Literals

(* The parser gives back a statement over the same names.                  *)
LEMMA TextNamed ==
  ASSUME NEW s \in Statement, s.type # "Insert"
  PROVE  parse(Sql(s)) = ParseError \/ Named(parse(Sql(s)))
<1>1. CASE s.type = "Update"
  <2> DEFINE parsed == [type |-> "Update", table |-> s.table, column |-> s.column,
                        value |-> parseValue(sqlLiteral(s.value)),
                        where |-> [kind |-> s.where.kind,
                                   value |-> parseValue(sqlLiteral(s.where.value))]]
  <2>1. parse(Sql(s)) \in {ParseError, parsed}
    BY <1>1, UpdateParsed
  <2>2. Named(parsed)
    BY StatementNamed DEF Named, Replayed
  <2> QED  BY <2>1, <2>2, Zenon
<1>2. CASE s.type = "Delete"
  <2> DEFINE parsed == [type |-> "Delete", table |-> s.table,
                        where |-> [kind |-> s.where.kind,
                                   value |-> parseValue(sqlLiteral(s.where.value))]]
  <2>1. parse(Sql(s)) \in {ParseError, parsed}
    BY <1>2, DeleteParsed
  <2>2. Named(parsed)
    BY StatementNamed DEF Named, Replayed
  <2> QED  BY <2>1, <2>2, Zenon
<1>3. CASE s.type \in {"CreateTable", "DropTable", "RenameTable", "CreateIndex"}
  BY <1>3, OtherParsed, StatementNamed
<1> QED  BY <1>1, <1>2, <1>3, StatementNamed DEF Named, Replayed

LEMMA InsertTextNamed ==
  ASSUME NEW t \in TableName, NEW v
  PROVE  parse(insertSql(t, v)) = ParseError \/ Named(parse(insertSql(t, v)))
BY InsertParsed DEF Named, Replayed

(* Values whose literal the parser reads back as they were.                *)
Exact(v) == parseValue(sqlLiteral(v)) = v /\ v # Unparsable

(* A statement whose values are exact is read back as it was.              *)
LEMMA TextExact ==
  ASSUME NEW s \in Statement, s.type # "Insert",
         s.type = "Update" => Exact(s.value),
         s.type \in {"Update", "Delete"} => Exact(s.where.value)
  PROVE  parse(Sql(s)) = s
<1>1. CASE s.type = "Update"
  BY <1>1, UpdateParsed, UpdateShape DEF Exact
<1>2. CASE s.type = "Delete"
  BY <1>2, DeleteParsed, DeleteShape DEF Exact
<1>3. CASE s.type \in {"CreateTable", "DropTable", "RenameTable", "CreateIndex"}
  BY <1>3, OtherParsed
<1> QED  BY <1>1, <1>2, <1>3, StatementNamed DEF Named, Replayed

-----------------------------------------------------------------------------
(* Rows that fit their columns.                                            *)

(* Induction, for a property given as the set of the numbers that have it. *)
LEMMA InductiveSet ==
  ASSUME NEW S, 0 \in S, \A n \in Nat : n \in S => n + 1 \in S
  PROVE  \A n \in Nat : n \in S
<1> DEFINE T == {n \in Nat : n \notin S}
<1>1. SUFFICES ASSUME T # {} PROVE FALSE
  OBVIOUS
<1>2. \E x \in T : \A y \in T : ~(<<y, x>> \in OpToRel(<, Nat))
  <2>1. T \subseteq Nat
    OBVIOUS
  <2> HIDE DEF T
  <2> QED  BY <1>1, <2>1, NatLessThanWellFounded, WFMin
<1>3. PICK x \in T : \A y \in T : ~(y < x)
  BY <1>2 DEF OpToRel
<1>4. x - 1 \in Nat /\ x - 1 < x /\ (x - 1) + 1 = x
  BY <1>3
<1>5. x - 1 \in S
  BY <1>3, <1>4
<1> QED  BY <1>3, <1>4, <1>5

\* The functions RowsOutside defines.
IsOutside(g, rows, gone, n) ==
  g = [m \in 0..n |->
         IF m = 0 THEN << >>
         ELSE IF m \in gone THEN g[m - 1] ELSE Append(g[m - 1], rows[m])]

(* Erasing rows leaves rows that were there before.                        *)
LEMMA OutsideAreRows ==
  ASSUME NEW T, NEW rows \in Seq(T), NEW gone
  PROVE  RowsOutside(rows, gone) \in Seq(T)
<1> DEFINE S == {n \in Nat : \E g : IsOutside(g, rows, gone, n)}
<1>1. 0 \in S
  <2>1. IsOutside([m \in 0..0 |-> << >>], rows, gone, 0)
    BY DEF IsOutside
  <2> QED  BY <2>1
<1>2. ASSUME NEW n \in Nat, n \in S
      PROVE  n + 1 \in S
  <2>1. PICK g : IsOutside(g, rows, gone, n)
    BY <1>2
  <2> DEFINE last == IF n + 1 \in gone THEN g[n] ELSE Append(g[n], rows[n + 1])
             h == [m \in 0..(n + 1) |-> IF m <= n THEN g[m] ELSE last]
  <2>2. ASSUME NEW m \in 0..(n + 1)
        PROVE  h[m] = IF m = 0 THEN << >>
                      ELSE IF m \in gone THEN h[m - 1] ELSE Append(h[m - 1], rows[m])
    <3>1. CASE m <= n
      <4>1. m \in 0..n
        BY <3>1
      <4>2. g[m] = IF m = 0 THEN << >>
                   ELSE IF m \in gone THEN g[m - 1] ELSE Append(g[m - 1], rows[m])
        BY <2>1, <4>1, Zenon DEF IsOutside
      <4>3. h[m] = g[m] /\ (m # 0 => h[m - 1] = g[m - 1])
        BY <3>1
      <4> HIDE DEF h
      <4> QED  BY <4>2, <4>3
    <3>2. CASE m = n + 1
      BY <3>2
    <3> QED  BY <3>1, <3>2
  <2>3. IsOutside(h, rows, gone, n + 1)
    BY <2>2 DEF IsOutside
  <2>4. \E f : IsOutside(f, rows, gone, n + 1)
    <3> HIDE DEF h
    <3> QED  BY <2>3
  <2> QED  BY <2>4
<1>3. \A n \in Nat : n \in S
  <2> HIDE DEF S
  <2> QED  BY <1>1, <1>2, InductiveSet
<1>4. Len(rows) \in Nat
  OBVIOUS
<1>5. RowsOutside(rows, gone) = (CHOOSE g : IsOutside(g, rows, gone, Len(rows)))[Len(rows)]
  BY DEF RowsOutside, IsOutside
<1>6. PICK g : /\ IsOutside(g, rows, gone, Len(rows))
               /\ RowsOutside(rows, gone) = g[Len(rows)]
  BY <1>3, <1>4, <1>5
<1>7. \A m \in 0..Len(rows) :
        g[m] = IF m = 0 THEN << >>
               ELSE IF m \in gone THEN g[m - 1] ELSE Append(g[m - 1], rows[m])
  BY <1>6, Zenon DEF IsOutside
<1> DEFINE R == {n \in Nat : n <= Len(rows) => g[n] \in Seq(T)}
<1>8. 0 \in R
  <2>1. g[0] = << >>
    BY <1>4, <1>7
  <2>2. << >> \in Seq(T)
    OBVIOUS
  <2>3. g[0] \in Seq(T)
    BY <2>1, <2>2, Zenon
  <2> QED  BY <2>3
<1>9. ASSUME NEW n \in Nat, n \in R
      PROVE  n + 1 \in R
  <2>1. SUFFICES ASSUME n + 1 <= Len(rows) PROVE g[n + 1] \in Seq(T)
    OBVIOUS
  <2>2. g[n] \in Seq(T) /\ rows[n + 1] \in T
    BY <1>4, <1>9, <2>1
  <2>3. n + 1 \in 0..Len(rows) /\ n + 1 # 0 /\ (n + 1) - 1 = n
    BY <1>4, <2>1
  <2>4. g[n + 1] = IF n + 1 \in gone THEN g[n] ELSE Append(g[n], rows[n + 1])
    BY <1>7, <2>3
  <2>5. Append(g[n], rows[n + 1]) \in Seq(T)
    BY <2>2
  <2> QED  BY <2>2, <2>4, <2>5, Zenon
<1>10. \A n \in Nat : n \in R
  <2> HIDE DEF R
  <2> QED  BY <1>8, <1>9, InductiveSet
<1> QED  BY <1>4, <1>6, <1>10

\* Rows, all of values that the column admits.
RowsFitted(column, rows) ==
  \E T : rows \in Seq(T) /\ \A v \in T : Accepts(column, v)

Fitted(db) ==
  db # NoDatabase =>
    \A t \in DOMAIN db.tables : RowsFitted(db.tables[t].column, db.tables[t].rows)

LEMMA FittedFits == ASSUME NEW db, Fitted(db) PROVE RowsFit(db)
<1> SUFFICES ASSUME db # NoDatabase, NEW t \in DOMAIN db.tables, NEW i \in DOMAIN db.tables[t].rows
             PROVE  Accepts(db.tables[t].column, db.tables[t].rows[i])
  BY DEF RowsFit
<1>1. PICK T : db.tables[t].rows \in Seq(T) /\ \A v \in T : Accepts(db.tables[t].column, v)
  BY DEF Fitted, RowsFitted
<1>2. db.tables[t].rows[i] \in T
  BY <1>1
<1> QED  BY <1>1, <1>2

LEMMA EmptyFitted ==
  /\ Fitted(NoDatabase)
  /\ \A name : Fitted(DatabaseNew(name))
  /\ \A column : RowsFitted(column, << >>)
<1>1. \A name : DOMAIN DatabaseNew(name).tables = {}
  BY DEF DatabaseNew
<1>2. << >> \in Seq({}) /\ \A column : \A v \in {} : Accepts(column, v)
  OBVIOUS
<1> QED  BY <1>1, <1>2, Zenon DEF Fitted, RowsFitted

LEMMA AppendFitted ==
  ASSUME NEW column, NEW rows, RowsFitted(column, rows), NEW v, Accepts(column, v)
  PROVE  RowsFitted(column, Append(rows, v))
<1>1. PICK T : rows \in Seq(T) /\ \A w \in T : Accepts(column, w)
  BY DEF RowsFitted
<1> DEFINE U == T \cup {v}
<1>2. rows \in Seq(U) /\ v \in U
  BY <1>1
<1>3. \A w \in U : Accepts(column, w)
  BY <1>1
<1> HIDE DEF U
<1>4. Append(rows, v) \in Seq(U)
  BY <1>2
<1> QED  BY <1>3, <1>4 DEF RowsFitted

LEMMA OutsideFitted ==
  ASSUME NEW column, NEW rows, RowsFitted(column, rows), NEW gone
  PROVE  RowsFitted(column, RowsOutside(rows, gone))
<1>1. PICK T : rows \in Seq(T) /\ \A w \in T : Accepts(column, w)
  BY DEF RowsFitted
<1>2. RowsOutside(rows, gone) \in Seq(T)
  BY <1>1, OutsideAreRows
<1> QED  BY <1>1, <1>2 DEF RowsFitted

(* The rows after an UPDATE of some of them.                               *)
LEMMA ReplacedFitted ==
  ASSUME NEW column, NEW rows, RowsFitted(column, rows), NEW v, NEW hit,
         hit # {} => Accepts(column, v), hit \subseteq DOMAIN rows
  PROVE  RowsFitted(column, [i \in DOMAIN rows |-> IF i \in hit THEN v ELSE rows[i]])
<1>1. PICK T : rows \in Seq(T) /\ \A w \in T : Accepts(column, w)
  BY DEF RowsFitted
<1> DEFINE new == [i \in DOMAIN rows |-> IF i \in hit THEN v ELSE rows[i]]
           U == {new[i] : i \in DOMAIN rows}
<1>2. Len(rows) \in Nat /\ DOMAIN rows = 1..Len(rows) /\ \A i \in DOMAIN rows : rows[i] \in T
  BY <1>1
<1>3. \A w \in U : Accepts(column, w)
  BY <1>1, <1>2
<1>4. new \in Seq(U)
  BY <1>2
<1> HIDE DEF new, U
<1>5. RowsFitted(column, new)
  BY <1>3, <1>4 DEF RowsFitted
<1> QED  BY <1>5 DEF new

(* A change of one table's rows, to rows that fit.                         *)
LEMMA RowsChangeFitted ==
  ASSUME NEW db, NEW t, HasTable(db, t), IsDatabase(db), Fitted(db), NEW rows,
         RowsFitted(db.tables[t].column, rows)
  PROVE  Fitted([db EXCEPT !.tables[t].rows = rows])
<1> DEFINE new == [db EXCEPT !.tables[t].rows = rows]
<1>1. db = [name |-> db.name, tables |-> db.tables] /\ t \in DOMAIN db.tables
  BY DEF IsDatabase, HasTable
<1>2. new.tables = [db.tables EXCEPT ![t].rows = rows]
  BY <1>1
<1>3. IsTable(db.tables[t])
  BY <1>1 DEF IsDatabase, HasTable
<1>4. new.tables[t].column = db.tables[t].column /\ new.tables[t].rows = rows
  BY <1>1, <1>2, <1>3 DEF IsTable, IsDatabase, HasTable
<1>5. DOMAIN new.tables = DOMAIN db.tables /\ \A n \in DOMAIN db.tables : n # t => new.tables[n] = db.tables[n]
  BY <1>2
<1> HIDE DEF new
<1>6. Fitted(new)
  BY <1>4, <1>5 DEF Fitted, HasTable
<1> QED  BY <1>6 DEF new

LEMMA InsertFitted ==
  ASSUME NEW db, NEW t, HasTable(db, t), IsDatabase(db), Fitted(db), NEW v,
         Accepts(db.tables[t].column, v)
  PROVE  Fitted(insertRow(db, t, v))
<1> DEFINE rows == Append(db.tables[t].rows, v)
<1>1. insertRow(db, t, v) = [db EXCEPT !.tables[t].rows = rows]
  BY DEF insertRow
<1>2. RowsFitted(db.tables[t].column, rows)
  BY AppendFitted DEF Fitted, HasTable
<1> HIDE DEF rows
<1> QED  BY <1>1, <1>2, RowsChangeFitted

LEMMA UpdateFitted ==
  ASSUME NEW db, IsDatabase(db), Fitted(db), NEW s
  PROVE  Fitted(update(db, s).db)
<1> DEFINE table == db.tables[s.table]
           stopsAt(row) == MatchThrows(row, s.where)
                             \/ (Matches(row, s.where) /\ ~Accepts(table.column, s.value))
           stops == Positions(table, stopsAt)
           matching == Positions(table, LAMBDA row : Matches(row, s.where))
           hit == {i \in matching \ stops : \A j \in stops : i < j}
           rows == [i \in DOMAIN table.rows |-> IF i \in hit THEN s.value ELSE table.rows[i]]
           updated == [db EXCEPT !.tables[s.table].rows = rows]
           result == IF hit = {} THEN db ELSE updated
           r == update(db, s)
<1>1. \/ r = Threw(db) \/ r = OkUnchanged(db)
      \/ HasTable(db, s.table) /\ (r = Threw(result) \/ r = Ok(result))
  BY DEF update
<1>2. HasTable(db, s.table) => Fitted(result)
  <2>1. SUFFICES ASSUME HasTable(db, s.table) PROVE Fitted(updated)
    OBVIOUS
  <2>2. hit # {} => Accepts(table.column, s.value)
    BY DEF Positions
  <2>3. hit \subseteq DOMAIN table.rows
    BY DEF Positions
  <2>4. RowsFitted(table.column, table.rows)
    BY <2>1 DEF Fitted, HasTable
  <2> HIDE DEF hit
  <2>5. RowsFitted(table.column, rows)
    BY <2>2, <2>3, <2>4, ReplacedFitted
  <2> HIDE DEF rows
  <2> QED  BY <2>1, <2>5, RowsChangeFitted
<1> HIDE DEF result, r
<1>3. r.db = db \/ (HasTable(db, s.table) /\ r.db = result)
  BY <1>1 DEF Threw, OkUnchanged, Ok
<1> QED  BY <1>2, <1>3 DEF r

LEMMA DeleteFitted ==
  ASSUME NEW db, IsDatabase(db), Fitted(db), NEW s
  PROVE  Fitted(delete(db, s).db)
<1> DEFINE table == db.tables[s.table]
           stops == Positions(table, LAMBDA row : MatchThrows(row, s.where))
           hit == {i \in Positions(table, LAMBDA row : Matches(row, s.where)) : \A j \in stops : j < i}
           kept == RowsOutside(table.rows, hit)
           result == IF hit = {} THEN db ELSE [db EXCEPT !.tables[s.table].rows = kept]
           r == delete(db, s)
<1>1. \/ r = Threw(db) \/ r = OkUnchanged(db)
      \/ HasTable(db, s.table) /\ (r = Threw(result) \/ r = Ok(result))
  BY DEF delete
<1>2. HasTable(db, s.table) => Fitted(result)
  <2>1. SUFFICES ASSUME HasTable(db, s.table)
                 PROVE  Fitted([db EXCEPT !.tables[s.table].rows = kept])
    OBVIOUS
  <2> HIDE DEF hit
  <2>2. RowsFitted(table.column, kept)
    BY <2>1, OutsideFitted DEF Fitted, HasTable
  <2> HIDE DEF kept
  <2> QED  BY <2>1, <2>2, RowsChangeFitted
<1> HIDE DEF result, r
<1>3. r.db = db \/ (HasTable(db, s.table) /\ r.db = result)
  BY <1>1 DEF Threw, OkUnchanged, Ok
<1> QED  BY <1>2, <1>3 DEF r

LEMMA CatalogFitted ==
  ASSUME NEW db, db # NoDatabase, IsDatabase(db), Fitted(db), NEW t
  PROVE  /\ Fitted(WithoutTable(db, t))
         /\ \A table : RowsFitted(table.column, table.rows) => Fitted(WithTable(db, t, table))
<1>1. db = [name |-> db.name, tables |-> db.tables]
  BY DEF IsDatabase
<1>2. WithoutTable(db, t).tables = [n \in DOMAIN db.tables \ {t} |-> db.tables[n]]
  BY <1>1 DEF WithoutTable
<1>3. ASSUME NEW table, RowsFitted(table.column, table.rows)
      PROVE  Fitted(WithTable(db, t, table))
  <2>1. WithTable(db, t, table).tables =
          [n \in DOMAIN db.tables \cup {t} |-> IF n = t THEN table ELSE db.tables[n]]
    BY <1>1 DEF WithTable
  <2> DEFINE new == WithTable(db, t, table)
  <2>2. \A n \in DOMAIN new.tables : new.tables[n] = table \/ (n \in DOMAIN db.tables /\ new.tables[n] = db.tables[n])
    BY <2>1
  <2> HIDE DEF new
  <2>3. Fitted(new)
    BY <1>3, <2>2 DEF Fitted
  <2> QED  BY <2>3 DEF new
<1>4. Fitted(WithoutTable(db, t))
  <2> DEFINE new == WithoutTable(db, t)
  <2>1. \A n \in DOMAIN new.tables : n \in DOMAIN db.tables /\ new.tables[n] = db.tables[n]
    BY <1>2
  <2> HIDE DEF new
  <2>2. Fitted(new)
    BY <2>1 DEF Fitted
  <2> QED  BY <2>2 DEF new
<1> QED  BY <1>3, <1>4

LEMMA CreateIndexFitted ==
  ASSUME NEW db, IsDatabase(db), Fitted(db), NEW s
  PROVE  Fitted(createIndex(db, s).db)
<1> DEFINE t == s.table
           after == [db EXCEPT !.tables[t].indexes = @ \cup {s.index}]
           r == createIndex(db, s)
<1>1. HasTable(db, t) => Fitted(after)
  <2>1. SUFFICES ASSUME HasTable(db, t) PROVE Fitted(after)
    OBVIOUS
  <2>2. db = [name |-> db.name, tables |-> db.tables] /\ t \in DOMAIN db.tables
    BY <2>1 DEF IsDatabase, HasTable
  <2>3. IsTable(db.tables[t])
    BY <2>1 DEF IsDatabase, HasTable
  <2>4. after.tables = [db.tables EXCEPT ![t].indexes = @ \cup {s.index}]
    BY <2>2
  <2>5. /\ after.tables[t].column = db.tables[t].column /\ after.tables[t].rows = db.tables[t].rows
        /\ DOMAIN after.tables = DOMAIN db.tables
        /\ \A n \in DOMAIN db.tables : n # t => after.tables[n] = db.tables[n]
    BY <2>1, <2>2, <2>3, <2>4 DEF IsTable, IsDatabase, HasTable
  <2> HIDE DEF after
  <2> QED  BY <2>1, <2>5 DEF Fitted, HasTable
<1>2. r \in {Failed(db), Threw(db)} \/ (HasTable(db, t) /\ r = Ok(after))
  BY Zenon DEF createIndex
<1> HIDE DEF after, r
<1>3. r.db = db \/ (HasTable(db, t) /\ r.db = after)
  BY <1>2 DEF Failed, Threw, Ok
<1> QED  BY <1>1, <1>3 DEF r

(* Every handler leaves rows that fit their columns: INSERT and UPDATE     *)
(* check what they put there.  (Table::validateRow, Table::update)         *)
LEMMA ApplyFitted ==
  ASSUME NEW db, IsDatabase(db), Fitted(db), NEW s, Named(s)
  PROVE  Fitted(Apply(db, s).db)
<1>1. CASE s.type = "CreateTable"
  <2> DEFINE r == createTable(db, s)
             table == TableNew(s.column)
             after == WithTable(db, s.table, table)
  <2>1. Apply(db, s) = r
    BY <1>1 DEF Apply
  <2>2. r = Failed(db) \/ (db # NoDatabase /\ r = Ok(after))
    BY Zenon DEF createTable
  <2>3. table.column = s.column /\ table.rows = << >>
    BY DEF TableNew
  <2> HIDE DEF table
  <2>4. db # NoDatabase => Fitted(after)
    BY <2>3, CatalogFitted, EmptyFitted
  <2> HIDE DEF r, after
  <2>5. r.db = db \/ (db # NoDatabase /\ r.db = after)
    BY <2>2 DEF Failed, Ok
  <2> QED  BY <2>1, <2>4, <2>5
<1>2. CASE s.type = "DropTable"
  <2> DEFINE r == dropTable(db, s)
             after == WithoutTable(db, s.table)
  <2>1. Apply(db, s) = r
    BY <1>2 DEF Apply
  <2>2. r = Failed(db) \/ (db # NoDatabase /\ r = Ok(after))
    BY Zenon DEF dropTable, HasTable
  <2>3. db # NoDatabase => Fitted(after)
    BY CatalogFitted
  <2> HIDE DEF r, after
  <2>4. r.db = db \/ (db # NoDatabase /\ r.db = after)
    BY <2>2 DEF Failed, Ok
  <2> QED  BY <2>1, <2>3, <2>4
<1>3. CASE s.type = "RenameTable"
  <2> DEFINE r == renameTable(db, s)
             without == WithoutTable(db, s.table)
             table == db.tables[s.table]
             after == WithTable(without, s.newName, table)
  <2>1. Apply(db, s) = r
    BY <1>3 DEF Apply
  <2>2. r = Failed(db) \/ (HasTable(db, s.table) /\ r = Ok(after))
    BY Zenon DEF renameTable
  <2>3. HasTable(db, s.table) => Fitted(after)
    <3>1. SUFFICES ASSUME HasTable(db, s.table) PROVE Fitted(after)
      OBVIOUS
    <3>2. IsDatabase(without) /\ Fitted(without)
      BY <3>1, CatalogFitted, WithoutTableDatabase DEF HasTable
    <3>3. without # NoDatabase
      <4>1. db = [name |-> db.name, tables |-> db.tables]
        BY <3>1 DEF IsDatabase, HasTable
      <4>2. without = [name |-> db.name, tables |-> [n \in DOMAIN db.tables \ {s.table} |-> db.tables[n]]]
        BY <4>1 DEF WithoutTable
      <4> QED  BY <4>2 DEF NoDatabase
    <3>4. RowsFitted(table.column, table.rows)
      BY <3>1 DEF Fitted, HasTable
    <3> HIDE DEF without, table
    <3> QED  BY <3>2, <3>3, <3>4, CatalogFitted
  <2> HIDE DEF r, after
  <2>4. r.db = db \/ (HasTable(db, s.table) /\ r.db = after)
    BY <2>2 DEF Failed, Ok
  <2> QED  BY <2>1, <2>3, <2>4
<1>4. CASE s.type = "Insert"
  <2> DEFINE r == insertOne(db, s)
             after == insertRow(db, s.table, s.rows[1])
  <2>1. Apply(db, s) = r
    BY <1>4 DEF Apply
  <2>2. r = Threw(db) \/ (validateRows(db, s) /\ r = Ok(after))
    BY Zenon DEF insertOne
  <2>3. validateRows(db, s) /\ 1 \in DOMAIN s.rows => Fitted(after)
    BY InsertFitted DEF validateRows
  <2> HIDE DEF r, after
  <2>4. r.db = db \/ (validateRows(db, s) /\ r.db = after)
    BY <2>2 DEF Threw, Ok
  <2>5. 1 \in DOMAIN s.rows
    BY <1>4 DEF Named
  <2> QED  BY <2>1, <2>3, <2>4, <2>5
<1>5. CASE s.type = "Update"
  <2>1. Apply(db, s) = update(db, s)
    BY <1>5 DEF Apply
  <2> QED  BY <2>1, UpdateFitted
<1>6. CASE s.type = "Delete"
  <2>1. Apply(db, s) = delete(db, s)
    BY <1>6 DEF Apply
  <2> QED  BY <2>1, DeleteFitted
<1>7. CASE s.type = "CreateIndex"
  <2>1. Apply(db, s) = createIndex(db, s)
    BY <1>7 DEF Apply
  <2> QED  BY <2>1, CreateIndexFitted
<1> QED  BY <1>1, <1>2, <1>3, <1>4, <1>5, <1>6, <1>7 DEF Named, Replayed

=============================================================================
