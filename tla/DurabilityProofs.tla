--------------------------- MODULE DurabilityProofs --------------------------
(***************************************************************************)
(* Recovery gives back the database that was in memory when the process    *)
(* ended, for any number of statements, tables, rows, checkpoints and      *)
(* restarts, as long as                                                    *)
(*   - the disk does what it is told, and the process does not end between *)
(*     SAVE's record and its snapshot while an older snapshot exists;      *)
(*   - there is one database name under the storage root;                  *)
(*   - no LOAD or ROLLBACK replaces the database without a log record;     *)
(*   - logged values print exactly, and a predicate throws on every row or *)
(*     on none.                                                            *)
(* MCExecutor's runs show what happens without the conditions on SAVE, on  *)
(* ROLLBACK, on literals and on predicates.                                *)
(* In a build that evaluates arguments from right to left the index        *)
(* definitions that loading a snapshot loses are excepted, and nothing     *)
(* else is; in the other build, and before the first SAVE, recovery is     *)
(* exact.                                                                  *)
(*                                                                         *)
(* The invariant follows the database along the log: history[i + 1] is     *)
(* what record i led to, replaying it again leads there too, the snapshot  *)
(* is the history's entry at the last SAVE record, and during recovery     *)
(* memory is the entry at the position of the loop.  A database that lost  *)
(* index definitions to a load stays the same as the one that did not: no  *)
(* handler tells them apart in anything but an index.                      *)
(***************************************************************************)
EXTENDS ExecutorProofs

Faultless ==
  /\ WalFaults = {} /\ StorageFaults = {}
  /\ StopsDuringSave = FALSE /\ KeepsHistory = TRUE
  /\ \A m, n \in DbName : m = n

\* A statement that recovery can repeat from its text.
Repeatable(s) ==
  /\ s.type \notin {"Load", "Rollback"}
  /\ s.type = "Insert" => \A i \in DOMAIN s.rows : Exact(s.rows[i])
  /\ s.type = "Update" => Exact(s.value)
  /\ s.type \in {"Update", "Delete"} => Exact(s.where.value) /\ Uniform(s.where)

Durable == Faultless /\ \A s \in Statements : Repeatable(s)

-----------------------------------------------------------------------------
(* Databases that differ in nothing but index definitions a load loses.    *)

Agree(x, y) == Lasting(x) = Lasting(y)

LEMMA AgreeFields ==
  ASSUME NEW x, NEW y, Agree(x, y)
  PROVE  /\ x = NoDatabase <=> y = NoDatabase
         /\ x # NoDatabase =>
              /\ x.name = y.name /\ DOMAIN x.tables = DOMAIN y.tables
              /\ \A t \in DOMAIN x.tables : LoadedTable(x.tables[t]) = LoadedTable(y.tables[t])
<1>1. x = NoDatabase <=> y = NoDatabase
  BY LoadedFields DEF Agree, Lasting
<1>2. ASSUME x # NoDatabase
      PROVE  /\ x.name = y.name /\ DOMAIN x.tables = DOMAIN y.tables
             /\ \A t \in DOMAIN x.tables : LoadedTable(x.tables[t]) = LoadedTable(y.tables[t])
  <2>1. Loaded(x) = Loaded(y)
    BY <1>1, <1>2 DEF Agree, Lasting
  <2>2. Loaded(x).name = Loaded(y).name /\ Loaded(x).tables = Loaded(y).tables
    BY <2>1
  <2>3. /\ x.name = y.name
        /\ [t \in DOMAIN x.tables |-> LoadedTable(x.tables[t])]
             = [t \in DOMAIN y.tables |-> LoadedTable(y.tables[t])]
    BY <2>2, LoadedFields
  <2> DEFINE f == [t \in DOMAIN x.tables |-> LoadedTable(x.tables[t])]
             g == [t \in DOMAIN y.tables |-> LoadedTable(y.tables[t])]
  <2>4. DOMAIN f = DOMAIN g /\ DOMAIN f = DOMAIN x.tables /\ DOMAIN g = DOMAIN y.tables
    BY <2>3
  <2>5. ASSUME NEW t \in DOMAIN x.tables
        PROVE  LoadedTable(x.tables[t]) = LoadedTable(y.tables[t])
    <3>1. f[t] = LoadedTable(x.tables[t]) /\ g[t] = LoadedTable(y.tables[t]) /\ f = g
      BY <2>3, <2>4
    <3> QED  BY <3>1
  <2> QED  BY <2>3, <2>4, <2>5
<1> QED  BY <1>1, <1>2

LEMMA AgreeIntro ==
  ASSUME NEW x, NEW y, x # NoDatabase, y # NoDatabase,
         x.name = y.name, DOMAIN x.tables = DOMAIN y.tables,
         \A t \in DOMAIN x.tables : LoadedTable(x.tables[t]) = LoadedTable(y.tables[t])
  PROVE  Agree(x, y)
<1> DEFINE f == [t \in DOMAIN x.tables |-> LoadedTable(x.tables[t])]
           g == [t \in DOMAIN y.tables |-> LoadedTable(y.tables[t])]
<1>1. f = g
  OBVIOUS
<1> HIDE DEF f, g
<1>2. Loaded(x) = [name |-> x.name, tables |-> f] /\ Loaded(y) = [name |-> y.name, tables |-> g]
  BY DEF Loaded, f, g
<1>3. Loaded(x) = Loaded(y)
  BY <1>1, <1>2
<1> QED  BY <1>3 DEF Agree, Lasting

\* Of tables that agree.
LEMMA LoadedTableAgrees ==
  ASSUME NEW p, NEW q
  PROVE  LoadedTable(p) = LoadedTable(q) <=>
           /\ p.column = q.column /\ p.rows = q.rows
           /\ loadedIndexes(p.indexes) = loadedIndexes(q.indexes)
<1>1. LoadedTable(p) = LoadedTable(q) =>
           /\ p.column = q.column /\ p.rows = q.rows
           /\ loadedIndexes(p.indexes) = loadedIndexes(q.indexes)
  BY LoadedTableFields
<1>2. /\ p.column = q.column /\ p.rows = q.rows
      /\ loadedIndexes(p.indexes) = loadedIndexes(q.indexes)
      => LoadedTable(p) = LoadedTable(q)
  BY DEF LoadedTable
<1> QED  BY <1>1, <1>2

LEMMA AgreeTables ==
  ASSUME NEW x, NEW y, Agree(x, y), NEW t
  PROVE  /\ HasTable(x, t) <=> HasTable(y, t)
         /\ HasTable(x, t) =>
              /\ x.tables[t].column = y.tables[t].column /\ x.tables[t].rows = y.tables[t].rows
              /\ LoadedTable(x.tables[t]) = LoadedTable(y.tables[t])
              /\ loadedIndexes(x.tables[t].indexes) = loadedIndexes(y.tables[t].indexes)
<1>1. HasTable(x, t) <=> HasTable(y, t)
  BY AgreeFields DEF HasTable
<1>2. HasTable(x, t) => LoadedTable(x.tables[t]) = LoadedTable(y.tables[t])
  BY AgreeFields DEF HasTable
<1> QED  BY <1>1, <1>2, LoadedTableAgrees

LEMMA WithTableAgrees ==
  ASSUME NEW x, NEW y, IsDatabase(x), IsDatabase(y), x # NoDatabase, Agree(x, y),
         NEW t, NEW p, NEW q, LoadedTable(p) = LoadedTable(q)
  PROVE  Agree(WithTable(x, t, p), WithTable(y, t, q))
<1> DEFINE f == [n \in DOMAIN x.tables \cup {t} |-> IF n = t THEN p ELSE x.tables[n]]
           g == [n \in DOMAIN y.tables \cup {t} |-> IF n = t THEN q ELSE y.tables[n]]
           u == WithTable(x, t, p)
           v == WithTable(y, t, q)
<1>1. /\ y # NoDatabase /\ x.name = y.name /\ DOMAIN x.tables = DOMAIN y.tables
      /\ \A n \in DOMAIN x.tables : LoadedTable(x.tables[n]) = LoadedTable(y.tables[n])
  BY AgreeFields
<1>2. x = [name |-> x.name, tables |-> x.tables] /\ y = [name |-> y.name, tables |-> y.tables]
  BY <1>1 DEF IsDatabase
<1>3. u = [name |-> x.name, tables |-> f] /\ v = [name |-> y.name, tables |-> g]
  BY <1>2 DEF WithTable
<1>4. DOMAIN f = DOMAIN g /\ \A n \in DOMAIN f : LoadedTable(f[n]) = LoadedTable(g[n])
  BY <1>1
<1> HIDE DEF f, g, u, v
<1>5. /\ u.name = v.name /\ u.tables = f /\ v.tables = g
      /\ u # NoDatabase /\ v # NoDatabase
  BY <1>1, <1>3 DEF NoDatabase
<1>6. Agree(u, v)
  BY <1>4, <1>5, AgreeIntro
<1> QED  BY <1>6 DEF u, v

LEMMA WithoutTableAgrees ==
  ASSUME NEW x, NEW y, IsDatabase(x), IsDatabase(y), x # NoDatabase, Agree(x, y), NEW t
  PROVE  /\ Agree(WithoutTable(x, t), WithoutTable(y, t))
         /\ WithoutTable(x, t) # NoDatabase /\ WithoutTable(y, t) # NoDatabase
<1> DEFINE f == [n \in DOMAIN x.tables \ {t} |-> x.tables[n]]
           g == [n \in DOMAIN y.tables \ {t} |-> y.tables[n]]
           u == WithoutTable(x, t)
           v == WithoutTable(y, t)
<1>1. /\ y # NoDatabase /\ x.name = y.name /\ DOMAIN x.tables = DOMAIN y.tables
      /\ \A n \in DOMAIN x.tables : LoadedTable(x.tables[n]) = LoadedTable(y.tables[n])
  BY AgreeFields
<1>2. x = [name |-> x.name, tables |-> x.tables] /\ y = [name |-> y.name, tables |-> y.tables]
  BY <1>1 DEF IsDatabase
<1>3. u = [name |-> x.name, tables |-> f] /\ v = [name |-> y.name, tables |-> g]
  BY <1>2 DEF WithoutTable
<1>4. DOMAIN f = DOMAIN g /\ \A n \in DOMAIN f : LoadedTable(f[n]) = LoadedTable(g[n])
  BY <1>1
<1> HIDE DEF f, g, u, v
<1>5. /\ u.name = v.name /\ u.tables = f /\ v.tables = g
      /\ u # NoDatabase /\ v # NoDatabase
  BY <1>1, <1>3 DEF NoDatabase
<1>6. Agree(u, v)
  BY <1>4, <1>5, AgreeIntro
<1> QED  BY <1>5, <1>6 DEF u, v

\* A change of one table is the replacement of the table.
LEMMA RowsAsWithTable ==
  ASSUME NEW x, IsDatabase(x), NEW t, HasTable(x, t), NEW rows
  PROVE  [x EXCEPT !.tables[t].rows = rows]
           = WithTable(x, t, [column |-> x.tables[t].column, rows |-> rows,
                              indexes |-> x.tables[t].indexes])
<1> DEFINE p == [column |-> x.tables[t].column, rows |-> rows, indexes |-> x.tables[t].indexes]
           f == [n \in DOMAIN x.tables \cup {t} |-> IF n = t THEN p ELSE x.tables[n]]
<1>1. /\ x = [name |-> x.name, tables |-> x.tables] /\ t \in DOMAIN x.tables
      /\ x.tables = [n \in DOMAIN x.tables |-> x.tables[n]]
  BY DEF IsDatabase, HasTable
<1>2. IsTable(x.tables[t])
  BY <1>1 DEF IsDatabase, HasTable
<1>3. [x.tables[t] EXCEPT !.rows = rows] = p
  BY <1>2 DEF IsTable
<1>4. [x.tables EXCEPT ![t].rows = rows] = f
  BY <1>1, <1>3
<1>5. [x EXCEPT !.tables[t].rows = rows] = [name |-> x.name, tables |-> f]
  BY <1>1, <1>4
<1>6. WithTable(x, t, p) = [name |-> x.name, tables |-> f]
  BY <1>1 DEF WithTable
<1> QED  BY <1>5, <1>6

Indexed(x, t, i) == [x EXCEPT !.tables[t].indexes = @ \cup {i}]

LEMMA IndexAsWithTable ==
  ASSUME NEW x, IsDatabase(x), NEW t, HasTable(x, t), NEW i
  PROVE  Indexed(x, t, i)
           = WithTable(x, t, [column |-> x.tables[t].column, rows |-> x.tables[t].rows,
                              indexes |-> x.tables[t].indexes \cup {i}])
<1> DEFINE p == [column |-> x.tables[t].column, rows |-> x.tables[t].rows,
                 indexes |-> x.tables[t].indexes \cup {i}]
           f == [n \in DOMAIN x.tables \cup {t} |-> IF n = t THEN p ELSE x.tables[n]]
<1>1. /\ x = [name |-> x.name, tables |-> x.tables] /\ t \in DOMAIN x.tables
      /\ x.tables = [n \in DOMAIN x.tables |-> x.tables[n]]
  BY DEF IsDatabase, HasTable
<1>2. IsTable(x.tables[t])
  BY <1>1 DEF IsDatabase, HasTable
<1>3. [x.tables[t] EXCEPT !.indexes = @ \cup {i}] = p
  <2> DEFINE b == x.tables[t]
  <2>1. b = [column |-> b.column, rows |-> b.rows, indexes |-> b.indexes]
    BY <1>2 DEF IsTable
  <2> HIDE DEF b
  <2>2. [b EXCEPT !.indexes = b.indexes \cup {i}]
          = [column |-> b.column, rows |-> b.rows, indexes |-> b.indexes \cup {i}]
    BY <2>1
  <2> QED  BY <2>2 DEF b
<1>4. [x.tables EXCEPT ![t].indexes = @ \cup {i}] = f
  BY <1>1, <1>3
<1>5. [x EXCEPT !.tables[t].indexes = @ \cup {i}] = [name |-> x.name, tables |-> f]
  BY <1>1, <1>4, SMTT(20)
<1>6. WithTable(x, t, p) = [name |-> x.name, tables |-> f]
  BY <1>1 DEF WithTable
<1> QED  BY <1>5, <1>6 DEF Indexed

LEMMA RowsAgree ==
  ASSUME NEW x, NEW y, IsDatabase(x), IsDatabase(y), Agree(x, y), NEW t, HasTable(x, t), NEW rows
  PROVE  Agree([x EXCEPT !.tables[t].rows = rows], [y EXCEPT !.tables[t].rows = rows])
<1> DEFINE p == [column |-> x.tables[t].column, rows |-> rows, indexes |-> x.tables[t].indexes]
           q == [column |-> y.tables[t].column, rows |-> rows, indexes |-> y.tables[t].indexes]
<1>1. HasTable(y, t) /\ x # NoDatabase
  BY AgreeTables DEF HasTable
<1>2. /\ p.column = q.column /\ p.rows = q.rows
      /\ loadedIndexes(p.indexes) = loadedIndexes(q.indexes)
  BY AgreeTables
<1>3. /\ [x EXCEPT !.tables[t].rows = rows] = WithTable(x, t, p)
      /\ [y EXCEPT !.tables[t].rows = rows] = WithTable(y, t, q)
  BY <1>1, RowsAsWithTable
<1> HIDE DEF p, q
<1>4. LoadedTable(p) = LoadedTable(q)
  BY <1>2, LoadedTableAgrees
<1> QED  BY <1>1, <1>3, <1>4, WithTableAgrees

LEMMA IndexAgrees ==
  ASSUME NEW x, NEW y, IsDatabase(x), IsDatabase(y), Agree(x, y), NEW t, HasTable(x, t), NEW i
  PROVE  Agree(Indexed(x, t, i), Indexed(y, t, i))
<1> DEFINE p == [column |-> x.tables[t].column, rows |-> x.tables[t].rows,
                 indexes |-> x.tables[t].indexes \cup {i}]
           q == [column |-> y.tables[t].column, rows |-> y.tables[t].rows,
                 indexes |-> y.tables[t].indexes \cup {i}]
<1>1. HasTable(y, t) /\ x # NoDatabase
  BY AgreeTables DEF HasTable
<1>2. loadedIndexes(x.tables[t].indexes \cup {i}) = loadedIndexes(y.tables[t].indexes \cup {i})
  <2>1. loadedIndexes(x.tables[t].indexes) = loadedIndexes(y.tables[t].indexes)
    BY AgreeTables
  <2> QED  BY <2>1 DEF loadedIndexes
<1>3. /\ p.column = q.column /\ p.rows = q.rows
      /\ loadedIndexes(p.indexes) = loadedIndexes(q.indexes)
  BY <1>2, AgreeTables
<1>4. Indexed(x, t, i) = WithTable(x, t, p) /\ Indexed(y, t, i) = WithTable(y, t, q)
  BY <1>1, IndexAsWithTable
<1> HIDE DEF p, q
<1>5. LoadedTable(p) = LoadedTable(q)
  BY <1>3, LoadedTableAgrees
<1> QED  BY <1>1, <1>4, <1>5, WithTableAgrees

-----------------------------------------------------------------------------
(* The handlers do not tell such databases apart, except that CREATE INDEX *)
(* may create an index in one that the other has.                          *)

AgreeResult(p, q) == Agree(p.db, q.db) /\ (p.outcome = "threw" <=> q.outcome = "threw")

\* Databases with the type of a database that agree.
Twins(x, y) == IsDatabase(x) /\ IsDatabase(y) /\ Agree(x, y)

LEMMA ResultsAgree ==
  ASSUME NEW x, NEW y, Agree(x, y)
  PROVE  /\ AgreeResult(Ok(x), Ok(y)) /\ AgreeResult(OkUnchanged(x), OkUnchanged(y))
         /\ AgreeResult(Failed(x), Failed(y)) /\ AgreeResult(Threw(x), Threw(y))
         /\ AgreeResult(Failed(x), Ok(y)) /\ AgreeResult(Ok(x), Failed(y))
BY DEF AgreeResult, Ok, OkUnchanged, Failed, Threw

LEMMA CreateTableAgrees ==
  ASSUME NEW x, NEW y, Twins(x, y), NEW s
  PROVE  AgreeResult(createTable(x, s), createTable(y, s))
<1>1. (x = NoDatabase <=> y = NoDatabase) /\ (HasTable(x, s.table) <=> HasTable(y, s.table))
  BY AgreeFields, AgreeTables DEF Twins
<1>2. CASE x = NoDatabase \/ HasTable(x, s.table)
  <2>1. createTable(x, s) = Failed(x) /\ createTable(y, s) = Failed(y)
    BY <1>1, <1>2 DEF createTable
  <2> QED  BY <2>1, ResultsAgree DEF Twins
<1>3. CASE ~(x = NoDatabase \/ HasTable(x, s.table))
  <2> DEFINE u == WithTable(x, s.table, TableNew(s.column))
             v == WithTable(y, s.table, TableNew(s.column))
  <2>1. Agree(u, v)
    BY <1>3, WithTableAgrees DEF Twins
  <2>2. createTable(x, s) = Ok(u) /\ createTable(y, s) = Ok(v)
    BY <1>1, <1>3, Zenon DEF createTable
  <2> HIDE DEF u, v
  <2> QED  BY <2>1, <2>2, ResultsAgree
<1> QED  BY <1>2, <1>3

LEMMA DropTableAgrees ==
  ASSUME NEW x, NEW y, Twins(x, y), NEW s
  PROVE  AgreeResult(dropTable(x, s), dropTable(y, s))
<1>1. HasTable(x, s.table) <=> HasTable(y, s.table)
  BY AgreeTables DEF Twins
<1>2. CASE ~HasTable(x, s.table)
  <2>1. dropTable(x, s) = Failed(x) /\ dropTable(y, s) = Failed(y)
    BY <1>1, <1>2 DEF dropTable
  <2> QED  BY <2>1, ResultsAgree DEF Twins
<1>3. CASE HasTable(x, s.table)
  <2>1. Agree(WithoutTable(x, s.table), WithoutTable(y, s.table))
    BY <1>3, WithoutTableAgrees DEF Twins, HasTable
  <2>2. /\ dropTable(x, s) = Ok(WithoutTable(x, s.table))
        /\ dropTable(y, s) = Ok(WithoutTable(y, s.table))
    BY <1>1, <1>3, Zenon DEF dropTable
  <2> QED  BY <2>1, <2>2, ResultsAgree
<1> QED  BY <1>2, <1>3

LEMMA RenameTableAgrees ==
  ASSUME NEW x, NEW y, Twins(x, y), NEW s
  PROVE  AgreeResult(renameTable(x, s), renameTable(y, s))
<1> DEFINE gone(db) == WithoutTable(db, s.table)
           after(db) == WithTable(WithoutTable(db, s.table), s.newName, db.tables[s.table])
<1>1. /\ HasTable(x, s.table) <=> HasTable(y, s.table)
      /\ HasTable(x, s.newName) <=> HasTable(y, s.newName)
  BY AgreeTables DEF Twins
<1>2. CASE ~HasTable(x, s.table) \/ HasTable(x, s.newName)
  <2>1. renameTable(x, s) = Failed(x) /\ renameTable(y, s) = Failed(y)
    BY <1>1, <1>2 DEF renameTable
  <2> QED  BY <2>1, ResultsAgree DEF Twins
<1>3. CASE ~(~HasTable(x, s.table) \/ HasTable(x, s.newName))
  <2>1. IsDatabase(WithoutTable(x, s.table)) /\ IsDatabase(WithoutTable(y, s.table))
    BY <1>1, <1>3, WithoutTableDatabase DEF Twins, HasTable
  <2>2. /\ Agree(WithoutTable(x, s.table), WithoutTable(y, s.table))
        /\ WithoutTable(x, s.table) # NoDatabase
    BY <1>3, WithoutTableAgrees DEF Twins, HasTable
  <2>3. LoadedTable(x.tables[s.table]) = LoadedTable(y.tables[s.table])
    BY <1>3, AgreeTables DEF Twins
  <2>4. Agree(after(x), after(y))
    BY <2>1, <2>2, <2>3, WithTableAgrees
  <2>5. renameTable(x, s) = Ok(after(x)) /\ renameTable(y, s) = Ok(after(y))
    BY <1>1, <1>3, Zenon DEF renameTable
  <2> HIDE DEF after
  <2> QED  BY <2>4, <2>5, ResultsAgree
<1> QED  BY <1>2, <1>3

LEMMA InsertOneAgrees ==
  ASSUME NEW x, NEW y, Twins(x, y), NEW s
  PROVE  AgreeResult(insertOne(x, s), insertOne(y, s))
<1>1. validateRows(x, s) <=> validateRows(y, s)
  BY AgreeTables DEF Twins, validateRows
<1>2. CASE ~validateRows(x, s)
  <2>1. insertOne(x, s) = Threw(x) /\ insertOne(y, s) = Threw(y)
    BY <1>1, <1>2 DEF insertOne
  <2> QED  BY <2>1, ResultsAgree DEF Twins
<1>3. CASE validateRows(x, s)
  <2> DEFINE t == s.table
             rows == Append(x.tables[t].rows, s.rows[1])
             u == [x EXCEPT !.tables[t].rows = rows]
             v == [y EXCEPT !.tables[t].rows = rows]
  <2>1. HasTable(x, t)
    BY <1>3 DEF validateRows
  <2>2. x.tables[t].rows = y.tables[t].rows
    BY <2>1, AgreeTables DEF Twins
  <2>3. insertRow(x, t, s.rows[1]) = u /\ insertRow(y, t, s.rows[1]) = v
    BY <2>2 DEF insertRow
  <2>4. insertOne(x, s) = Ok(insertRow(x, t, s.rows[1]))
        /\ insertOne(y, s) = Ok(insertRow(y, t, s.rows[1]))
    BY <1>1, <1>3, Zenon DEF insertOne
  <2>5. Agree(u, v)
    <3> HIDE DEF rows, t
    <3> QED  BY <2>1, RowsAgree DEF Twins
  <2> HIDE DEF u, v
  <2> QED  BY <2>3, <2>4, <2>5, ResultsAgree
<1> QED  BY <1>2, <1>3

\* UPDATE and DELETE as functions of the column and the rows.
UpdateStops(c, rows, s) ==
  {i \in DOMAIN rows :
     MatchThrows(rows[i], s.where) \/ (Matches(rows[i], s.where) /\ ~Accepts(c, s.value))}

UpdateHit(c, rows, s) ==
  {i \in {k \in DOMAIN rows : Matches(rows[k], s.where)} \ UpdateStops(c, rows, s) :
     \A j \in UpdateStops(c, rows, s) : i < j}

UpdatedRows(c, rows, s) ==
  [i \in DOMAIN rows |-> IF i \in UpdateHit(c, rows, s) THEN s.value ELSE rows[i]]

DeleteStops(rows, s) == {i \in DOMAIN rows : MatchThrows(rows[i], s.where)}

DeleteHit(rows, s) ==
  {i \in {k \in DOMAIN rows : Matches(rows[k], s.where)} : \A j \in DeleteStops(rows, s) : j < i}

\* Both end like this.
RowsResult(db, t, fails, stops, hit, rows) ==
  IF ~HasTable(db, t) \/ fails THEN Threw(db)
  ELSE IF stops # {} THEN Threw(IF hit = {} THEN db ELSE [db EXCEPT !.tables[t].rows = rows])
  ELSE IF hit = {} THEN OkUnchanged(db)
  ELSE Ok([db EXCEPT !.tables[t].rows = rows])

LEMMA UpdateForm ==
  ASSUME NEW db, NEW s, NEW c, NEW rows,
         c = db.tables[s.table].column, rows = db.tables[s.table].rows
  PROVE  update(db, s) = RowsResult(db, s.table, s.column = "missing", UpdateStops(c, rows, s),
                                    UpdateHit(c, rows, s), UpdatedRows(c, rows, s))
BY DEF update, RowsResult, UpdateStops, UpdateHit, UpdatedRows, Positions

LEMMA DeleteForm ==
  ASSUME NEW db, NEW s, NEW rows, rows = db.tables[s.table].rows
  PROVE  delete(db, s) = RowsResult(db, s.table, FALSE, DeleteStops(rows, s), DeleteHit(rows, s),
                                    RowsOutside(rows, DeleteHit(rows, s)))
BY DEF delete, RowsResult, DeleteStops, DeleteHit, Positions

LEMMA RowsResultAgrees ==
  ASSUME NEW x, NEW y, Twins(x, y), NEW t, NEW fails, NEW stops, NEW hit, NEW rows
  PROVE  AgreeResult(RowsResult(x, t, fails, stops, hit, rows),
                     RowsResult(y, t, fails, stops, hit, rows))
<1> DEFINE u == [x EXCEPT !.tables[t].rows = rows]
           v == [y EXCEPT !.tables[t].rows = rows]
           R(db, after) ==
             IF ~HasTable(db, t) \/ fails THEN Threw(db)
             ELSE IF stops # {} THEN Threw(IF hit = {} THEN db ELSE after)
             ELSE IF hit = {} THEN OkUnchanged(db)
             ELSE Ok(after)
<1>1. HasTable(x, t) <=> HasTable(y, t)
  BY AgreeTables DEF Twins
<1>2. HasTable(x, t) => Agree(u, v)
  BY RowsAgree DEF Twins
<1>3. Agree(x, y)
  BY DEF Twins
<1>4. /\ RowsResult(x, t, fails, stops, hit, rows) = R(x, u)
      /\ RowsResult(y, t, fails, stops, hit, rows) = R(y, v)
  BY Zenon DEF RowsResult
<1> HIDE DEF u, v
<1>5. AgreeResult(R(x, u), R(y, v))
  BY <1>1, <1>2, <1>3, ResultsAgree
<1> QED  BY <1>4, <1>5

LEMMA UpdateAgrees ==
  ASSUME NEW x, NEW y, Twins(x, y), NEW s
  PROVE  AgreeResult(update(x, s), update(y, s))
<1>1. CASE HasTable(x, s.table)
  <2> DEFINE c == x.tables[s.table].column
             rows == x.tables[s.table].rows
  <2>1. c = y.tables[s.table].column /\ rows = y.tables[s.table].rows
    BY <1>1, AgreeTables DEF Twins
  <2>2. c = x.tables[s.table].column /\ rows = x.tables[s.table].rows
    OBVIOUS
  <2> HIDE DEF c, rows
  <2> DEFINE missing == s.column = "missing"
             stops == UpdateStops(c, rows, s)
             hit == UpdateHit(c, rows, s)
             updated == UpdatedRows(c, rows, s)
  <2>3. update(x, s) = RowsResult(x, s.table, missing, stops, hit, updated)
    BY <2>2, UpdateForm
  <2>4. update(y, s) = RowsResult(y, s.table, missing, stops, hit, updated)
    BY <2>1, UpdateForm
  <2> HIDE DEF missing, stops, hit, updated
  <2> QED  BY <2>3, <2>4, RowsResultAgrees
<1>2. CASE ~HasTable(x, s.table)
  <2>1. ~HasTable(y, s.table)
    BY <1>2, AgreeTables DEF Twins
  <2>2. update(x, s) = Threw(x) /\ update(y, s) = Threw(y)
    BY <1>2, <2>1 DEF update
  <2> QED  BY <2>2, ResultsAgree DEF Twins
<1> QED  BY <1>1, <1>2

LEMMA DeleteAgrees ==
  ASSUME NEW x, NEW y, Twins(x, y), NEW s
  PROVE  AgreeResult(delete(x, s), delete(y, s))
<1>1. CASE HasTable(x, s.table)
  <2> DEFINE rows == x.tables[s.table].rows
  <2>1. rows = y.tables[s.table].rows
    BY <1>1, AgreeTables DEF Twins
  <2>2. rows = x.tables[s.table].rows
    OBVIOUS
  <2> HIDE DEF rows
  <2> DEFINE stops == DeleteStops(rows, s)
             hit == DeleteHit(rows, s)
             kept == RowsOutside(rows, hit)
  <2>3. delete(x, s) = RowsResult(x, s.table, FALSE, stops, hit, kept)
    BY <2>2, DeleteForm
  <2>4. delete(y, s) = RowsResult(y, s.table, FALSE, stops, hit, kept)
    BY <2>1, DeleteForm
  <2> HIDE DEF stops, hit, kept
  <2> QED  BY <2>3, <2>4, RowsResultAgrees
<1>2. CASE ~HasTable(x, s.table)
  <2>1. ~HasTable(y, s.table)
    BY <1>2, AgreeTables DEF Twins
  <2>2. delete(x, s) = Threw(x) /\ delete(y, s) = Threw(y)
    BY <1>2, <2>1 DEF delete
  <2> QED  BY <2>2, ResultsAgree DEF Twins
<1> QED  BY <1>1, <1>2

\* Creating an index that is already there changes nothing.
LEMMA IndexThere ==
  ASSUME NEW x, IsDatabase(x), NEW t, HasTable(x, t), NEW i, i \in x.tables[t].indexes
  PROVE  Indexed(x, t, i) = x
<1> DEFINE b == x.tables[t]
           p == [column |-> b.column, rows |-> b.rows, indexes |-> b.indexes \cup {i}]
<1>1. /\ x = [name |-> x.name, tables |-> x.tables] /\ t \in DOMAIN x.tables
      /\ x.tables = [n \in DOMAIN x.tables |-> x.tables[n]]
  BY DEF IsDatabase, HasTable
<1>2. b = [column |-> b.column, rows |-> b.rows, indexes |-> b.indexes]
  BY <1>1 DEF IsDatabase, HasTable, IsTable
<1>3. b.indexes \cup {i} = b.indexes
  OBVIOUS
<1>4. p = b
  BY <1>2, <1>3
<1>5. WithTable(x, t, b) = x
  <2> HIDE DEF b
  <2>1. [n \in DOMAIN x.tables \cup {t} |-> IF n = t THEN b ELSE x.tables[n]] = x.tables
    BY <1>1 DEF b
  <2>2. WithTable(x, t, b) =
          [name |-> x.name,
           tables |-> [n \in DOMAIN x.tables \cup {t} |-> IF n = t THEN b ELSE x.tables[n]]]
    BY <1>1 DEF WithTable
  <2> QED  BY <1>1, <2>1, <2>2
<1>6. Indexed(x, t, i) = WithTable(x, t, p)
  BY IndexAsWithTable
<1> QED  BY <1>4, <1>5, <1>6

LEMMA CreateIndexAgrees ==
  ASSUME NEW x, NEW y, Twins(x, y), NEW s
  PROVE  AgreeResult(createIndex(x, s), createIndex(y, s))
<1> DEFINE t == s.table
           i == s.index
           u == Indexed(x, t, i)
           v == Indexed(y, t, i)
<1>1. HasTable(x, t) <=> HasTable(y, t)
  BY AgreeTables DEF Twins
<1>2. CASE ~HasTable(x, t)
  <2>1. createIndex(x, s) = Threw(x) /\ createIndex(y, s) = Threw(y)
    BY <1>1, <1>2 DEF createIndex
  <2> QED  BY <2>1, ResultsAgree DEF Twins
<1>3. CASE HasTable(x, t) /\ s.column = "missing"
  <2>1. createIndex(x, s) = Failed(x) /\ createIndex(y, s) = Failed(y)
    BY <1>1, <1>3 DEF createIndex
  <2> QED  BY <2>1, ResultsAgree DEF Twins
<1>4. CASE HasTable(x, t) /\ s.column # "missing"
  <2> DEFINE inX == i \in x.tables[t].indexes
             inY == i \in y.tables[t].indexes
  <2>1. /\ inX => createIndex(x, s) = Failed(x)
        /\ ~inX => createIndex(x, s) = Ok(u)
        /\ inY => createIndex(y, s) = Failed(y)
        /\ ~inY => createIndex(y, s) = Ok(v)
    BY <1>1, <1>4, Zenon DEF createIndex, Indexed
  <2>2. (inX => u = x) /\ (inY => v = y)
    <3> HIDE DEF t, i
    <3> QED  BY <1>1, <1>4, IndexThere DEF Twins
  <2>3. Agree(u, v) /\ Agree(x, y)
    <3> HIDE DEF t, i
    <3> QED  BY <1>4, IndexAgrees DEF Twins
  <2> HIDE DEF u, v, inX, inY
  <2>4. AgreeResult(Failed(x), Failed(y))
    BY <2>3, ResultsAgree
  <2>5. inX => AgreeResult(Failed(x), Ok(v))
    BY <2>2, <2>3, ResultsAgree
  <2>6. inY => AgreeResult(Ok(u), Failed(y))
    BY <2>2, <2>3, ResultsAgree
  <2>7. AgreeResult(Ok(u), Ok(v))
    BY <2>3, ResultsAgree
  <2> QED  BY <2>1, <2>4, <2>5, <2>6, <2>7
<1> QED  BY <1>2, <1>3, <1>4

LEMMA ApplyAgrees ==
  ASSUME NEW x, NEW y, Twins(x, y), NEW s, Named(s)
  PROVE  AgreeResult(Apply(x, s), Apply(y, s))
<1>1. CASE s.type = "CreateTable"
  <2>1. Apply(x, s) = createTable(x, s) /\ Apply(y, s) = createTable(y, s)
    BY <1>1 DEF Apply
  <2> QED  BY <2>1, CreateTableAgrees
<1>2. CASE s.type = "DropTable"
  <2>1. Apply(x, s) = dropTable(x, s) /\ Apply(y, s) = dropTable(y, s)
    BY <1>2 DEF Apply
  <2> QED  BY <2>1, DropTableAgrees
<1>3. CASE s.type = "RenameTable"
  <2>1. Apply(x, s) = renameTable(x, s) /\ Apply(y, s) = renameTable(y, s)
    BY <1>3 DEF Apply
  <2> QED  BY <2>1, RenameTableAgrees
<1>4. CASE s.type = "Insert"
  <2>1. Apply(x, s) = insertOne(x, s) /\ Apply(y, s) = insertOne(y, s)
    BY <1>4 DEF Apply
  <2> QED  BY <2>1, InsertOneAgrees
<1>5. CASE s.type = "Update"
  <2>1. Apply(x, s) = update(x, s) /\ Apply(y, s) = update(y, s)
    BY <1>5 DEF Apply
  <2> QED  BY <2>1, UpdateAgrees
<1>6. CASE s.type = "Delete"
  <2>1. Apply(x, s) = delete(x, s) /\ Apply(y, s) = delete(y, s)
    BY <1>6 DEF Apply
  <2> QED  BY <2>1, DeleteAgrees
<1>7. CASE s.type = "CreateIndex"
  <2>1. Apply(x, s) = createIndex(x, s) /\ Apply(y, s) = createIndex(y, s)
    BY <1>7 DEF Apply
  <2> QED  BY <2>1, CreateIndexAgrees
<1> QED  BY <1>1, <1>2, <1>3, <1>4, <1>5, <1>6, <1>7 DEF Named, Replayed

\* So neither does replay.
LEMMA ReplayAgrees ==
  ASSUME NEW x, NEW y, Twins(x, y), NEW record, IsLogged(record.operation, record.payload)
  PROVE  AgreeResult(Replay(x, record), Replay(y, record))
<1>1. CASE record.operation = "SaveDatabase"
  <2>1. Replay(x, record) = OkUnchanged(x) /\ Replay(y, record) = OkUnchanged(y)
    BY <1>1 DEF Replay
  <2> QED  BY <2>1, ResultsAgree DEF Twins
<1>2. CASE record.operation = "CreateDatabase"
  <2> DEFINE new == DatabaseNew(record.payload.name)
  <2>1. Replay(x, record) = OkUnchanged(new) /\ Replay(y, record) = OkUnchanged(new)
    BY <1>2 DEF Replay
  <2> HIDE DEF new
  <2>2. Agree(new, new)
    BY DEF Agree
  <2> QED  BY <2>1, <2>2, ResultsAgree
<1>3. CASE record.operation \notin {"SaveDatabase", "CreateDatabase"}
  <2> DEFINE s == parse(record.payload)
  <2>1. /\ Replay(x, record) = IF s = ParseError THEN Threw(x) ELSE Apply(x, s)
        /\ Replay(y, record) = IF s = ParseError THEN Threw(y) ELSE Apply(y, s)
    BY <1>3 DEF Replay
  <2>2. s = ParseError \/ Named(s)
    <3>1. CASE \E z \in Statements : z.type \in Mutation /\ record.payload = Sql(z)
      BY <3>1, StatementTypes, TextNamed DEF Mutation
    <3>2. CASE \E t \in TableName, v \in Value : record.payload = insertSql(t, v)
      BY <3>2, InsertTextNamed
    <3> QED  BY <1>3, <3>1, <3>2 DEF IsLogged
  <2> HIDE DEF s
  <2>3. AgreeResult(Threw(x), Threw(y))
    BY ResultsAgree DEF Twins
  <2>4. Named(s) => AgreeResult(Apply(x, s), Apply(y, s))
    BY ApplyAgrees
  <2> QED  BY <2>1, <2>2, <2>3, <2>4
<1> QED  BY <1>1, <1>2, <1>3

-----------------------------------------------------------------------------
(* Same with the build's order and the names of the snapshots as           *)
(* parameters, so that it can be carried from a state to the next.         *)

LoadedIn(order, db) ==
  [name |-> db.name,
   tables |-> [t \in DOMAIN db.tables |->
                 [column |-> db.tables[t].column, rows |-> db.tables[t].rows,
                  indexes |-> IF order = "LeftToRight" THEN db.tables[t].indexes
                              ELSE db.tables[t].indexes \cap {"price"}]]]

LastingIn(order, db) == IF db = NoDatabase THEN db ELSE LoadedIn(order, db)

SameIn(order, names, x, y) ==
  IF names = {} THEN x = y ELSE LastingIn(order, x) = LastingIn(order, y)

LEMMA LastingIs ==
  ASSUME NEW db
  PROVE  Lasting(db) = LastingIn(readOrder, db)
BY DEF Lasting, LastingIn, Loaded, LoadedIn, LoadedTable, loadedIndexes

LEMMA SameIs ==
  ASSUME NEW x, NEW y
  PROVE  /\ Same(x, y) <=> SameIn(readOrder, DOMAIN saved, x, y)
         /\ DOMAIN saved # {} => (Agree(x, y) <=> SameIn(readOrder, DOMAIN saved, x, y))
         /\ SameIn(readOrder, DOMAIN saved, x, y) => Agree(x, y)
BY LastingIs DEF Same, SameIn, Agree

LEMMA SameReflexive ==
  ASSUME NEW order, NEW names, NEW x
  PROVE  SameIn(order, names, x, x)
BY DEF SameIn

LEMMA SameSymmetric ==
  ASSUME NEW order, NEW names, NEW x, NEW y, SameIn(order, names, x, y)
  PROVE  SameIn(order, names, y, x)
BY DEF SameIn

LEMMA SameTransitive ==
  ASSUME NEW order, NEW names, NEW x, NEW y, NEW z,
         SameIn(order, names, x, y), SameIn(order, names, y, z)
  PROVE  SameIn(order, names, x, z)
BY DEF SameIn

\* A first snapshot only makes it weaker.
LEMMA SameStays ==
  ASSUME NEW order, NEW names, NEW later, names # {} => later # {},
         NEW x, NEW y, SameIn(order, names, x, y)
  PROVE  SameIn(order, later, x, y)
BY DEF SameIn

LEMMA ReplaySame ==
  ASSUME NEW x, NEW y, IsDatabase(x), IsDatabase(y), SameIn(readOrder, DOMAIN saved, x, y),
         NEW record, IsLogged(record.operation, record.payload)
  PROVE  /\ Replay(x, record).outcome = "threw" <=> Replay(y, record).outcome = "threw"
         /\ SameIn(readOrder, DOMAIN saved, Replay(x, record).db, Replay(y, record).db)
<1> DEFINE p == Replay(x, record)
           q == Replay(y, record)
<1>1. Agree(x, y)
  BY SameIs
<1>2. AgreeResult(p, q)
  BY <1>1, ReplayAgrees DEF Twins
<1>3. DOMAIN saved = {} => p = q
  BY DEF SameIn
<1> HIDE DEF p, q
<1>4. DOMAIN saved = {} => SameIn(readOrder, DOMAIN saved, p.db, q.db)
  BY <1>3, SameReflexive
<1>5. DOMAIN saved # {} => SameIn(readOrder, DOMAIN saved, p.db, q.db)
  BY <1>2, SameIs DEF AgreeResult
<1>6. p.outcome = "threw" <=> q.outcome = "threw"
  BY <1>2 DEF AgreeResult
<1> QED  BY <1>4, <1>5, <1>6 DEF p, q

\* What a load gives back is what was saved, up to what loading loses.
LEMMA LoadedSame ==
  ASSUME NEW db, db # NoDatabase, DOMAIN saved # {}
  PROVE  SameIn(readOrder, DOMAIN saved, Loaded(db), db)
<1> DEFINE l == Loaded(db)
<1>1. /\ l.name = db.name /\ l # NoDatabase
      /\ l.tables = [t \in DOMAIN db.tables |-> LoadedTable(db.tables[t])]
  BY LoadedFields
<1> HIDE DEF l
<1>2. /\ DOMAIN l.tables = DOMAIN db.tables
      /\ \A t \in DOMAIN l.tables : l.tables[t] = LoadedTable(db.tables[t])
  BY <1>1
<1>3. ASSUME NEW t \in DOMAIN l.tables
      PROVE  LoadedTable(l.tables[t]) = LoadedTable(db.tables[t])
  <2> DEFINE p == db.tables[t]
             q == LoadedTable(p)
  <2>1. q.column = p.column /\ q.rows = p.rows /\ q.indexes = loadedIndexes(p.indexes)
    BY LoadedTableFields
  <2>2. loadedIndexes(loadedIndexes(p.indexes)) = loadedIndexes(p.indexes)
    BY DEF loadedIndexes
  <2>3. l.tables[t] = q
    BY <1>2
  <2> HIDE DEF p, q
  <2>4. LoadedTable(q) = LoadedTable(p)
    BY <2>1, <2>2, LoadedTableAgrees
  <2> QED  BY <2>3, <2>4 DEF p
<1>4. Agree(l, db)
  BY <1>1, <1>2, <1>3, AgreeIntro
<1> QED  BY <1>4, SameIs DEF l

\* Read from left to right nothing is lost.
LEMMA LoadedExactly ==
  ASSUME NEW db, IsDatabase(db), db # NoDatabase
  PROVE  LoadedIn("LeftToRight", db) = db
<1> DEFINE T(t) == [column |-> db.tables[t].column, rows |-> db.tables[t].rows,
                    indexes |-> db.tables[t].indexes]
<1>1. /\ db = [name |-> db.name, tables |-> db.tables]
      /\ db.tables = [t \in DOMAIN db.tables |-> db.tables[t]]
      /\ \A t \in DOMAIN db.tables : db.tables[t] = T(t)
  BY DEF IsDatabase, IsTable
<1>2. LoadedIn("LeftToRight", db)
        = [name |-> db.name, tables |-> [t \in DOMAIN db.tables |-> T(t)]]
  BY DEF LoadedIn
<1> HIDE DEF T
<1>3. [t \in DOMAIN db.tables |-> T(t)] = db.tables
  BY <1>1
<1> QED  BY <1>1, <1>2, <1>3

LEMMA SameExactly ==
  ASSUME NEW names, NEW x, NEW y, IsDatabase(x), IsDatabase(y), SameIn("LeftToRight", names, x, y)
  PROVE  x = y
<1>1. LastingIn("LeftToRight", x) = x /\ LastingIn("LeftToRight", y) = y
  BY LoadedExactly DEF LastingIn
<1> QED  BY <1>1 DEF SameIn

-----------------------------------------------------------------------------
(* The invariant.                                                          *)

\* As RecordsReplay.
HistoryReplays ==
  /\ Len(history) = Len(walFile) + 1
  /\ \A i \in DOMAIN walFile :
       LET r == Replay(history[i], walFile[i])
       IN  r.outcome # "threw" /\ SameIn(readOrder, DOMAIN saved, r.db, history[i + 1])

HistoryInv ==
  /\ walTorn = FALSE
  /\ \E S : history \in Seq(S)
  /\ \A i \in 1..Len(history) : IsDatabase(history[i])
  /\ HistoryReplays

\* As MemoryIsLogged.
MemoryInv ==
  phase = "ready" => SameIn(readOrder, DOMAIN saved, database_, history[Len(history)])

\* What is known of the rest of a statement.
PendingInv ==
  /\ pending # Idle => outcome = "running"
  /\ pending.kind \in {"publish", "reset"} =>
       Len(walFile) \in Saves /\ history[Len(history)] = database_
  /\ pending.kind = "reset" => DOMAIN saved # {}
  /\ pending.kind = "insert" =>
       \A i \in DOMAIN pending.rows :
         /\ Accepts(database_.tables[pending.table].column, pending.rows[i])
         /\ Exact(pending.rows[i])

StopInv ==
  phase # "ready" \/ outcome = "recovered" =>
    /\ IsDatabase(stopImage)
    /\ SameIn(readOrder, DOMAIN saved, stopImage, history[Len(history)])

\* Where in the history memory is while the process starts.
PositionInv ==
  /\ phase = "stopped" => database_ = NoDatabase /\ loadedSnapshot = FALSE
  /\ phase = "loaded" /\ loadedSnapshot =>
       \A k \in 0..Len(walFile) :
         IsLastSave(k) => SameIn(readOrder, DOMAIN saved, database_, history[k + 1])
  /\ phase = "loaded" /\ ~loadedSnapshot =>
       SameIn(readOrder, DOMAIN saved, database_, history[1])
  /\ phase = "replaying" => SameIn(readOrder, DOMAIN saved, database_, history[cursor + 1])

DurableInv ==
  /\ ExecInv /\ HistoryInv /\ MemoryInv /\ CheckpointIsSaved
  /\ PendingInv /\ StopInv /\ PositionInv

-----------------------------------------------------------------------------
(* The history along the log.                                              *)

LEMMA HistoryAppend ==
  ASSUME NEW S, NEW h \in Seq(S), NEW x
  PROVE  /\ Append(h, x) \in Seq(S \cup {x})
         /\ Len(h) \in Nat /\ Len(Append(h, x)) = Len(h) + 1
         /\ \A i \in 1..Len(h) : Append(h, x)[i] = h[i]
         /\ Append(h, x)[Len(h) + 1] = x
<1>1. h \in Seq(S \cup {x})
  OBVIOUS
<1> QED  BY <1>1

\* Without faults a handler's append is a plain append.
LEMMA OnlyAppends ==
  ASSUME Durable, HistoryInv, phase = "ready", NEW op, NEW payload
  PROVE  (appendWal(op, payload) => append(op, payload)) /\ ~appendWalThrows
BY DEF Durable, Faultless, HistoryInv, appendWal, appendWalThrows, appendLost, appendThrows,
       CanNumber, Readable

LEMMA HistoryKept ==
  ASSUME Durable, Remember, walFile' = walFile
  PROVE  history' = history
BY DEF Durable, Faultless, Remember

LEMMA HistoryInvKept ==
  ASSUME Durable, Remember, UNCHANGED readOrder, HistoryInv, walFile' = walFile,
         walTorn' = walTorn, DOMAIN saved # {} => DOMAIN saved' # {}
  PROVE  HistoryInv'
<1>1. history' = history
  BY HistoryKept
<1>2. HistoryReplays'
  <2> SUFFICES ASSUME NEW i \in DOMAIN walFile
               PROVE  LET r == Replay(history[i], walFile[i])
                      IN  /\ r.outcome # "threw"
                          /\ SameIn(readOrder, DOMAIN saved', r.db, history[i + 1])
    BY <1>1 DEF HistoryInv, HistoryReplays
  <2> DEFINE r == Replay(history[i], walFile[i])
  <2>1. r.outcome # "threw" /\ SameIn(readOrder, DOMAIN saved, r.db, history[i + 1])
    BY DEF HistoryInv, HistoryReplays
  <2> HIDE DEF r
  <2>2. SameIn(readOrder, DOMAIN saved', r.db, history[i + 1])
    BY <2>1, SameStays
  <2> QED  BY <2>1, <2>2 DEF r
<1> QED  BY <1>1, <1>2 DEF HistoryInv

LEMMA LoggedHistory ==
  ASSUME Durable, ExecInv, HistoryInv, Remember,
         NEW op, NEW payload, IsLogged(op, payload), append(op, payload)
  PROVE  /\ \E S : history' \in Seq(S)
         /\ Len(history) = Len(walFile) + 1 /\ Len(walFile) \in Nat
         /\ Len(history') = Len(history) + 1
         /\ \A i \in 1..Len(history) : history'[i] = history[i]
         /\ history'[Len(history) + 1] = database_'
<1>1. walFile' # walFile /\ walFile' # << >> /\ Len(walFile) \in Nat
  BY AppendShape DEF ExecInv
<1>2. history' = Append(history, database_')
  BY <1>1 DEF Remember, Durable, Faultless
<1>3. PICK S : history \in Seq(S)
  BY DEF HistoryInv
<1>4. Len(history) = Len(walFile) + 1
  BY DEF HistoryInv, HistoryReplays
<1>5. /\ history' \in Seq(S \cup {database_'})
      /\ Len(history') = Len(history) + 1
      /\ \A i \in 1..Len(history) : history'[i] = history[i]
      /\ history'[Len(history) + 1] = database_'
  BY <1>2, <1>3, HistoryAppend
<1>6. \E T : history' \in Seq(T)
  BY <1>5, Zenon
<1> QED  BY <1>1, <1>4, <1>5, <1>6

\* A record that replays to what its statement left in memory.
LEMMA LoggedStep ==
  ASSUME Durable, ExecInv, HistoryInv, MemoryInv, Remember, UNCHANGED <<saved, readOrder>>,
         phase = "ready", ExecInv',
         NEW op, NEW payload, IsLogged(op, payload), append(op, payload),
         Replay(database_, Record(op, payload)).outcome # "threw",
         Replay(database_, Record(op, payload)).db = database_'
  PROVE  HistoryInv' /\ MemoryInv' /\ history'[Len(history')] = database_'
<1> DEFINE n == Len(walFile)
<1>1. /\ n \in Nat /\ DOMAIN walFile = 1..n /\ DOMAIN walFile' = 1..(n + 1)
      /\ Len(walFile') = n + 1 /\ \A i \in 1..n : walFile'[i] = walFile[i]
  BY AppendShape DEF ExecInv
<1>2. walFile'[n + 1] = Record(op, payload)
  <2>1. Record(op, payload) \in WalRecord
    BY LoggedTypes, NextLsnType DEF Record, WalRecord, ExecInv, LogInv
  <2>2. walFile \in Seq(WalRecord) /\ walFile' = Append(walFile, Record(op, payload))
    BY DEF ExecInv, LogInv, WalInv, WalTypeOK, append
  <2> QED  BY <2>1, <2>2
<1>3. /\ Len(history) = n + 1 /\ Len(history') = n + 2
      /\ \A i \in 1..(n + 1) : history'[i] = history[i]
      /\ history'[n + 2] = database_' /\ \E S : history' \in Seq(S)
  BY <1>1, LoggedHistory
<1> HIDE DEF n
<1>4. SameIn(readOrder, DOMAIN saved, history[n + 1], database_)
  BY <1>3, SameSymmetric DEF MemoryInv
<1>5. /\ IsDatabase(database_) /\ IsDatabase(database_')
      /\ \A i \in 1..(n + 1) : IsDatabase(history[i])
  BY <1>3 DEF ExecInv, DataInv, HistoryInv
<1>6. \A i \in 1..(n + 2) : IsDatabase(history'[i])
  BY <1>1, <1>3, <1>5
<1>7. /\ Replay(history[n + 1], Record(op, payload)).outcome # "threw"
      /\ SameIn(readOrder, DOMAIN saved, Replay(history[n + 1], Record(op, payload)).db, database_')
  <2> DEFINE record == Record(op, payload)
  <2>1. record.operation = op /\ record.payload = payload
    BY DEF Record
  <2>2. n + 1 \in 1..(n + 1)
    BY <1>1
  <2> HIDE DEF record
  <2>3. /\ Replay(history[n + 1], record).outcome = "threw"
             <=> Replay(database_, record).outcome = "threw"
        /\ SameIn(readOrder, DOMAIN saved, Replay(history[n + 1], record).db,
                  Replay(database_, record).db)
    BY <1>4, <1>5, <2>1, <2>2, ReplaySame
  <2> QED  BY <2>3 DEF record
<1>8. HistoryReplays'
  <2> DEFINE R(i) == Replay(history'[i], walFile'[i])
  <2> SUFFICES ASSUME NEW i \in DOMAIN walFile'
               PROVE  /\ R(i).outcome # "threw"
                      /\ SameIn(readOrder, DOMAIN saved, R(i).db, history'[i + 1])
    BY <1>1, <1>3 DEF HistoryReplays
  <2>1. CASE i = n + 1
    <3>1. /\ history'[i] = history[n + 1] /\ history'[i + 1] = database_'
          /\ walFile'[i] = Record(op, payload)
      BY <2>1, <1>1, <1>2, <1>3
    <3> QED  BY <3>1, <1>7
  <2>2. CASE i # n + 1
    <3>1. i \in 1..n /\ i \in DOMAIN walFile
      BY <2>2, <1>1
    <3>2. history'[i] = history[i] /\ history'[i + 1] = history[i + 1] /\ walFile'[i] = walFile[i]
      BY <3>1, <1>1, <1>3
    <3>3. /\ Replay(history[i], walFile[i]).outcome # "threw"
          /\ SameIn(readOrder, DOMAIN saved, Replay(history[i], walFile[i]).db, history[i + 1])
      BY <3>1 DEF HistoryInv, HistoryReplays
    <3> QED  BY <3>2, <3>3
  <2> QED  BY <2>1, <2>2
<1>9. walTorn' = FALSE
  BY DEF append, HistoryInv
<1>10. MemoryInv' /\ history'[Len(history')] = database_'
  BY <1>1, <1>3, SameReflexive DEF MemoryInv
<1> QED  BY <1>3, <1>6, <1>8, <1>9, <1>10 DEF HistoryInv

LEMMA CheckpointAppended ==
  ASSUME Durable, ExecInv, HistoryInv, CheckpointIsSaved, Remember, UNCHANGED saved,
         NEW op, NEW payload, IsLogged(op, payload), append(op, payload),
         pending.kind # "publish", op # "SaveDatabase" \/ pending'.kind = "publish"
  PROVE  CheckpointIsSaved'
<1> DEFINE n == Len(walFile)
<1>1. /\ n \in Nat /\ DOMAIN walFile = 1..n /\ DOMAIN walFile' = 1..(n + 1)
      /\ Len(walFile') = n + 1 /\ \A i \in 1..n : walFile'[i] = walFile[i]
      /\ walFile'[n + 1].operation = op
  BY AppendShape DEF ExecInv
<1>2. Len(history) = n + 1 /\ \A i \in 1..(n + 1) : history'[i] = history[i]
  BY <1>1, LoggedHistory
<1>3. DOMAIN saved' = {} => history'[1] = NoDatabase
  BY <1>1, <1>2 DEF CheckpointIsSaved
<1>4. CASE pending'.kind = "publish"
  BY <1>3, <1>4 DEF CheckpointIsSaved
<1>5. CASE op # "SaveDatabase"
  <2>1. Saves' = Saves /\ Saves \subseteq 1..n
    BY <1>1, <1>5 DEF Saves
  <2>2. ASSUME NEW m \in DOMAIN saved', NEW k \in 0..(n + 1), IsLastSave(k)'
        PROVE  saved'[m] = Image(history'[k + 1])
    <3>1. k \in 0..n /\ IsLastSave(k)
      BY <1>1, <2>1, <2>2 DEF IsLastSave
    <3>2. saved[m] = Image(history[k + 1])
      BY <3>1 DEF CheckpointIsSaved
    <3> QED  BY <1>1, <1>2, <3>1, <3>2
  <2> QED  BY <1>1, <1>3, <2>2 DEF CheckpointIsSaved
<1> QED  BY <1>4, <1>5

-----------------------------------------------------------------------------
(* Steps of a statement.                                                   *)

\* What a step of a statement has to keep.
LEMMA ReadyStep ==
  ASSUME ExecInv', HistoryInv', MemoryInv', CheckpointIsSaved', PendingInv',
         phase' = "ready", outcome' # "recovered"
  PROVE  DurableInv'
BY DEF DurableInv, StopInv, PositionInv

LEMMA StaysReady ==
  ASSUME phase = "ready", UNCHANGED recoveryVars
  PROVE  phase' = "ready"
BY DEF recoveryVars

\* A step that touches neither the files nor the database.
LEMMA QuietStep ==
  ASSUME Durable, DurableInv, Remember, UNCHANGED readOrder, phase = "ready",
         UNCHANGED walVars, UNCHANGED saved, UNCHANGED recoveryVars, database_' = database_,
         pending.kind # "publish"
  PROVE  HistoryInv' /\ MemoryInv' /\ CheckpointIsSaved'
<1>1. walFile' = walFile /\ walTorn' = walTorn
  BY DEF walVars
<1>2. history' = history
  BY <1>1, HistoryKept
<1>3. HistoryInv'
  BY <1>1, HistoryInvKept DEF DurableInv
<1>4. Saves' = Saves
  BY <1>1 DEF Saves
<1>5. CheckpointIsSaved'
  BY <1>1, <1>2, <1>4 DEF DurableInv, CheckpointIsSaved, IsLastSave
<1>6. MemoryInv'
  BY <1>2 DEF DurableInv, MemoryInv
<1> QED  BY <1>3, <1>5, <1>6

LEMMA IdlePending ==
  ASSUME pending' = Idle
  PROVE  PendingInv'
BY IdleKind DEF PendingInv

\* A statement that logs its one record and ends.
LEMMA LoggedStatement ==
  ASSUME Durable, DurableInv, Remember, UNCHANGED readOrder,
         ExecInv', phase = "ready", UNCHANGED recoveryVars,
         UNCHANGED saved, pending' = Idle, pending.kind # "publish", outcome' = "ok",
         NEW op, NEW payload, IsLogged(op, payload), op # "SaveDatabase", append(op, payload),
         Replay(database_, Record(op, payload)).outcome # "threw",
         Replay(database_, Record(op, payload)).db = database_'
  PROVE  DurableInv'
<1>1. HistoryInv' /\ MemoryInv'
  BY LoggedStep DEF DurableInv
<1>2. CheckpointIsSaved'
  BY CheckpointAppended DEF DurableInv
<1> QED  BY <1>1, <1>2, IdlePending, StaysReady, ReadyStep

LEMMA DurableCreateDatabase ==
  ASSUME Durable, DurableInv, Remember, UNCHANGED readOrder,
         NEW s \in Statements, executeCreateDatabase(s)
  PROVE  DurableInv'
<1> DEFINE payload == NamePayload(s.name)
<1>1. ExecInv' /\ phase = "ready" /\ pending = Idle
  BY CreateDatabaseStep, ReadyIdle DEF DurableInv, executeCreateDatabase
<1>2. IsLogged("CreateDatabase", payload)
  BY StatementTypes DEF executeCreateDatabase, IsLogged
<1>3. append("CreateDatabase", payload) /\ database_' = DatabaseNew(s.name) /\ outcome' = "ok"
  BY <1>1, OnlyAppends DEF executeCreateDatabase, DurableInv
<1>4. Replay(database_, Record("CreateDatabase", payload)) = OkUnchanged(DatabaseNew(s.name))
  BY DEF Replay, Record, NamePayload
<1>5. UNCHANGED saved /\ UNCHANGED recoveryVars /\ pending' = Idle
  BY <1>1 DEF executeCreateDatabase
<1> HIDE DEF payload
<1>6. /\ Replay(database_, Record("CreateDatabase", payload)).outcome # "threw"
      /\ Replay(database_, Record("CreateDatabase", payload)).db = database_'
  BY <1>3, <1>4, ResultFields
<1> QED  BY <1>1, <1>2, <1>3, <1>5, <1>6, IdleKind, LoggedStatement

\* A quiet step that ends the statement.
LEMMA QuietStatement ==
  ASSUME Durable, DurableInv, Remember, UNCHANGED readOrder,
         ExecInv', phase = "ready", UNCHANGED recoveryVars,
         UNCHANGED walVars, UNCHANGED saved, database_' = database_,
         pending = Idle, pending' = Idle, outcome' # "recovered"
  PROVE  DurableInv'
BY QuietStep, IdleKind, IdlePending, StaysReady, ReadyStep

\* What replay makes of the text of a statement.
LEMMA MutationReplays ==
  ASSUME Durable, NEW s \in Statements, s.type \in Mutation, NEW db
  PROVE  Replay(db, Record(s.type, Sql(s))) = Apply(db, s)
<1> DEFINE record == Record(s.type, Sql(s))
<1>1. record.operation = s.type /\ record.payload = Sql(s)
  BY DEF Record
<1>2. s.type \notin {"SaveDatabase", "CreateDatabase", "Insert"} /\ s.type # "ParseError"
  BY DEF Mutation
<1>3. parse(record.payload) = s
  BY <1>1, <1>2, StatementTypes, TextExact DEF Durable, Repeatable
<1>4. s # ParseError
  BY <1>2 DEF ParseError
<1> HIDE DEF record
<1>5. Replay(db, record) = IF s = ParseError THEN Threw(db) ELSE Apply(db, s)
  BY <1>1, <1>2, <1>3 DEF Replay
<1> QED  BY <1>4, <1>5 DEF record

LEMMA DurableMutation ==
  ASSUME Durable, DurableInv, Remember, UNCHANGED readOrder,
         NEW s \in Statements, s.type \in Mutation, Ready,
         mutateThenLog(s)
  PROVE  DurableInv'
<1> DEFINE r == Apply(database_, s)
<1>1. ExecInv' /\ phase = "ready" /\ pending = Idle
  BY MutationStep, ReadyIdle DEF DurableInv
<1>2. Named(s) /\ IsLogged(s.type, Sql(s)) /\ s.type # "SaveDatabase"
  BY StatementTypes DEF IsLogged, Mutation
<1>3. AllOrNothing(database_, r) /\ r.outcome \in Returned
  BY <1>2, ApplyFacts DEF DurableInv, ExecInv, DataInv, Durable, Repeatable
<1>4. database_' = r.db /\ UNCHANGED saved /\ UNCHANGED recoveryVars /\ pending' = Idle
  BY <1>1 DEF mutateThenLog
<1>5. Replay(database_, Record(s.type, Sql(s))) = r
  BY MutationReplays
<1>6. r.log => append(s.type, Sql(s)) /\ outcome' = r.outcome
  BY <1>1, OnlyAppends DEF mutateThenLog, DurableInv
<1>7. ~r.log => UNCHANGED walVars /\ outcome' = r.outcome
  BY DEF mutateThenLog
<1> HIDE DEF r
<1>8. CASE r.log
  <2>1. r.outcome = "ok"
    BY <1>3, <1>8 DEF AllOrNothing
  <2> QED  BY <1>1, <1>2, <1>4, <1>5, <1>6, <1>8, <2>1, IdleKind, LoggedStatement
<1>9. CASE ~r.log
  <2>1. database_' = database_ /\ outcome' # "recovered"
    BY <1>3, <1>4, <1>7, <1>9 DEF AllOrNothing, Returned
  <2> QED  BY <1>1, <1>4, <1>7, <1>9, <2>1, QuietStatement
<1> QED  BY <1>8, <1>9

\* INSERT: every row has been validated.
LEMMA DurableInsert ==
  ASSUME Durable, DurableInv, Remember, UNCHANGED readOrder,
         NEW s \in Statements, executeInsert(s)
  PROVE  DurableInv'
<1> DEFINE begun == [kind |-> "insert", table |-> s.table, rows |-> s.rows]
<1>1. ExecInv' /\ phase = "ready" /\ pending = Idle
  BY InsertStep, ReadyIdle DEF DurableInv, executeInsert
<1>2. /\ UNCHANGED walVars /\ UNCHANGED saved /\ UNCHANGED recoveryVars
      /\ database_' = database_
  BY DEF executeInsert
<1>3. HistoryInv' /\ MemoryInv' /\ CheckpointIsSaved'
  BY <1>1, <1>2, QuietStep, IdleKind
<1>4. CASE pending' = Idle /\ outcome' = "threw"
  BY <1>1, <1>2, <1>3, <1>4, IdlePending, StaysReady, ReadyStep
<1>5. CASE pending' = begun /\ outcome' = "running" /\ validateRows(database_, s)
  <2>1. s.type = "Insert"
    BY DEF executeInsert
  <2>2. begun.kind = "insert" /\ begun.table = s.table /\ begun.rows = s.rows
    OBVIOUS
  <2>3. \A i \in DOMAIN s.rows :
          Accepts(database_.tables[s.table].column, s.rows[i]) /\ Exact(s.rows[i])
    BY <1>5, <2>1 DEF validateRows, Durable, Repeatable
  <2> HIDE DEF begun
  <2>4. PendingInv'
    BY <1>2, <1>5, <2>2, <2>3 DEF PendingInv
  <2> QED  BY <1>1, <1>2, <1>3, <1>5, <2>4, StaysReady, ReadyStep
<1> QED  BY <1>1, <1>4, <1>5 DEF executeInsert

\* The record of one row replays to the row's insertion.
LEMMA InsertReplays ==
  ASSUME NEW db, NEW t, HasTable(db, t), NEW row, Accepts(db.tables[t].column, row), Exact(row)
  PROVE  Replay(db, Record("Insert", insertSql(t, row))) = Ok(insertRow(db, t, row))
<1> DEFINE record == Record("Insert", insertSql(t, row))
           s == [type |-> "Insert", table |-> t, rows |-> <<row>>]
<1>1. record.operation = "Insert" /\ record.payload = insertSql(t, row)
  BY DEF Record
<1>2. parse(record.payload) = s
  BY <1>1, InsertParsed DEF Exact
<1>3. s.type = "Insert" /\ s.table = t /\ s.rows = <<row>> /\ s # ParseError
  BY DEF ParseError
<1>4. DOMAIN s.rows = {1} /\ s.rows[1] = row
  BY <1>3
<1> HIDE DEF record, s
<1>5. Replay(db, record) = Apply(db, s)
  BY <1>1, <1>2, <1>3 DEF Replay
<1>6. Apply(db, s) = insertOne(db, s)
  BY <1>3 DEF Apply
<1>7. insertOne(db, s) = Ok(insertRow(db, t, row))
  BY <1>3, <1>4 DEF insertOne, validateRows
<1> QED  BY <1>5, <1>6, <1>7 DEF record

LEMMA DurableInsertNextRow ==
  ASSUME Durable, DurableInv, Remember, UNCHANGED readOrder, insertNextRow
  PROVE  DurableInv'
<1> DEFINE row == Head(pending.rows)
           t == pending.table
           after == insertRow(database_, t, row)
           rest == [pending EXCEPT !.rows = Tail(@)]
           payload == insertSql(t, row)
<1>1. ExecInv' /\ phase = "ready" /\ pending.kind = "insert" /\ pending \in Pending
  BY InsertNextRowStep DEF DurableInv, insertNextRow, ExecInv, ControlInv
<1>2. /\ t \in TableName /\ pending.rows \in Seq(Value) /\ pending.rows # << >>
      /\ pending = [kind |-> "insert", table |-> t, rows |-> pending.rows]
  BY <1>1, InsertPending
<1>3. row = pending.rows[1] /\ row \in Value /\ 1 \in DOMAIN pending.rows
  BY <1>2
<1>4. /\ HasTable(database_, t) /\ IsDatabase(database_)
      /\ Accepts(database_.tables[t].column, row) /\ Exact(row)
  BY <1>1, <1>3 DEF DurableInv, ExecInv, DataInv, PendingInv
<1>5. IsLogged("Insert", payload)
  BY <1>2, <1>3 DEF IsLogged
<1>6. /\ Replay(database_, Record("Insert", payload)).outcome # "threw"
      /\ Replay(database_, Record("Insert", payload)).db = after
  <2>1. Replay(database_, Record("Insert", payload)) = Ok(after)
    BY <1>4, InsertReplays
  <2> HIDE DEF after, payload
  <2> QED  BY <2>1, ResultFields
<1>7. /\ append("Insert", payload) /\ database_' = after
      /\ \/ Len(pending.rows) = 1 /\ pending' = Idle /\ outcome' = "ok"
         \/ Len(pending.rows) # 1 /\ pending' = rest /\ outcome' = outcome
  BY <1>1, OnlyAppends DEF insertNextRow, DurableInv
<1>8. UNCHANGED saved /\ UNCHANGED recoveryVars
  BY DEF insertNextRow
<1>9. after.tables[t].column = database_.tables[t].column
  BY <1>4, InsertFacts
<1>10. outcome = "running"
  BY <1>1, IdleKind DEF DurableInv, PendingInv
<1>11. CASE Len(pending.rows) = 1
  <2> HIDE DEF payload, after
  <2> QED  BY <1>1, <1>5, <1>6, <1>7, <1>8, <1>11, LoggedStatement
<1>12. CASE Len(pending.rows) # 1
  <2>1. rest = [kind |-> "insert", table |-> t, rows |-> Tail(pending.rows)]
    BY <1>2, SMTT(30)
  <2>2. rest.kind = "insert" /\ rest.table = t /\ rest.rows = Tail(pending.rows)
    BY <2>1
  <2>3. \A i \in DOMAIN Tail(pending.rows) :
          i + 1 \in DOMAIN pending.rows /\ Tail(pending.rows)[i] = pending.rows[i + 1]
    BY <1>2
  <2>4. pending' = rest /\ outcome' = "running"
    BY <1>7, <1>10, <1>12
  <2>5. \A i \in DOMAIN rest.rows :
          Accepts(database_.tables[t].column, rest.rows[i]) /\ Exact(rest.rows[i])
    BY <1>1, <2>2, <2>3 DEF DurableInv, PendingInv
  <2> HIDE DEF payload, after, rest
  <2>6. PendingInv'
    BY <1>7, <1>9, <2>2, <2>4, <2>5 DEF PendingInv
  <2>7. HistoryInv' /\ MemoryInv'
    BY <1>1, <1>5, <1>6, <1>7, <1>8, LoggedStep DEF DurableInv
  <2>8. CheckpointIsSaved'
    BY <1>1, <1>5, <1>7, <1>8, CheckpointAppended DEF DurableInv
  <2> QED  BY <1>1, <1>8, <2>4, <2>6, <2>7, <2>8, StaysReady, ReadyStep
<1> QED  BY <1>11, <1>12

-----------------------------------------------------------------------------
(* SAVE.                                                                   *)

LEMMA DurableSave ==
  ASSUME Durable, DurableInv, Remember, UNCHANGED readOrder,
         NEW s \in Statements, executeSaveDatabase(s)
  PROVE  DurableInv'
<1> DEFINE payload == NamePayload(database_.name)
           next == [kind |-> "publish"]
<1>1. ExecInv' /\ phase = "ready" /\ pending = Idle
  BY SaveStep, ReadyIdle DEF DurableInv, executeSaveDatabase
<1>2. UNCHANGED saved /\ UNCHANGED recoveryVars /\ database_' = database_
  BY DEF executeSaveDatabase
<1>3. CASE UNCHANGED walVars /\ pending' = pending /\ outcome' = "failed"
  BY <1>1, <1>2, <1>3, QuietStatement
<1>4. CASE /\ database_ # NoDatabase /\ append("SaveDatabase", payload)
           /\ pending' = next /\ outcome' = "running"
  <2>1. IsLogged("SaveDatabase", payload)
    BY <1>4, DatabaseHasName DEF IsLogged, DurableInv
  <2>2. Replay(database_, Record("SaveDatabase", payload)) = OkUnchanged(database_)
    BY DEF Replay, Record
  <2>3. /\ Replay(database_, Record("SaveDatabase", payload)).outcome # "threw"
        /\ Replay(database_, Record("SaveDatabase", payload)).db = database_'
    BY <1>2, <2>2, ResultFields
  <2>4. next.kind = "publish"
    OBVIOUS
  <2> HIDE DEF payload, next
  <2>5. HistoryInv' /\ MemoryInv' /\ history'[Len(history')] = database_'
    BY <1>1, <1>2, <1>4, <2>1, <2>3, LoggedStep DEF DurableInv
  <2>6. CheckpointIsSaved'
    BY <1>1, <1>2, <1>4, <2>1, <2>4, IdleKind, CheckpointAppended DEF DurableInv
  <2>7. Len(walFile') \in Saves'
    BY <1>4, <2>1, AppendShape DEF Saves, DurableInv, ExecInv
  <2>8. PendingInv'
    BY <1>4, <2>4, <2>5, <2>7 DEF PendingInv
  <2> QED  BY <1>1, <1>2, <1>4, <2>5, <2>6, <2>8, StaysReady, ReadyStep
<1> QED  BY <1>1, <1>3, <1>4, OnlyAppends DEF executeSaveDatabase, DurableInv

\* The last record is SAVE's, so it is the last SAVE record.
LEMMA LastIsSave ==
  ASSUME ExecInv, HistoryInv, PendingInv, pending.kind \in {"publish", "reset"}
  PROVE  /\ Len(walFile) \in Nat /\ IsLastSave(Len(walFile)) /\ walFile # << >>
         /\ \A k \in 0..Len(walFile) : IsLastSave(k) => k = Len(walFile)
         /\ history[Len(walFile) + 1] = database_
<1>1. /\ Len(walFile) \in Nat /\ DOMAIN walFile = 1..Len(walFile) /\ Len(walFile) \in Saves
      /\ history[Len(history)] = database_
  BY RecordTypes DEF ExecInv, LogInv, WalInv, PendingInv
<1>2. walFile # << >>
  BY <1>1 DEF Saves
<1>3. Saves \subseteq 1..Len(walFile)
  BY <1>1 DEF Saves
<1>4. IsLastSave(Len(walFile)) /\ \A k \in 0..Len(walFile) : IsLastSave(k) => k = Len(walFile)
  <2> DEFINE n == Len(walFile)
  <2>1. n \in Nat /\ n \in Saves /\ Saves \subseteq 1..n
    BY <1>1, <1>3
  <2> HIDE DEF n
  <2>2. IsLastSave(n)
    BY <2>1 DEF IsLastSave
  <2>3. ASSUME NEW k \in 0..n, IsLastSave(k) PROVE k = n
    BY <2>1, <2>3 DEF IsLastSave
  <2> QED  BY <2>2, <2>3 DEF n
<1>5. history[Len(walFile) + 1] = database_
  BY <1>1 DEF HistoryInv, HistoryReplays
<1> QED  BY <1>1, <1>2, <1>4, <1>5

LEMMA DurableSaveSnapshot ==
  ASSUME Durable, DurableInv, Remember, UNCHANGED readOrder, saveSnapshot
  PROVE  DurableInv'
<1> DEFINE next == [kind |-> "reset"]
<1>1. ExecInv' /\ phase = "ready" /\ pending.kind = "publish"
  BY SaveSnapshotStep DEF DurableInv, saveSnapshot
<1>2. /\ UNCHANGED recoveryVars /\ database_' = database_ /\ walFile' = walFile
      /\ walTorn' = walTorn
  BY DEF saveSnapshot, walVars
<1>3. publish(database_) /\ pending' = next /\ outcome' = outcome
  BY DEF saveSnapshot, Durable, Faultless, publishDamaged, saveThrows
<1>4. database_.name \in DbName /\ DOMAIN saved \subseteq DbName
  BY <1>1 DEF DurableInv, ExecInv, DataInv, IsDatabase, IsStorage
<1>5. DOMAIN saved' # {} /\ \A n \in DOMAIN saved' : saved'[n] = Image(database_)
  BY <1>3, <1>4 DEF publish, Durable, Faultless
<1>6. history' = history
  BY <1>2, HistoryKept
<1>7. HistoryInv'
  BY <1>2, <1>5, HistoryInvKept DEF DurableInv
<1>8. MemoryInv'
  <2>1. SameIn(readOrder, DOMAIN saved, database_, history[Len(history)])
    BY <1>1 DEF DurableInv, MemoryInv
  <2>2. SameIn(readOrder, DOMAIN saved', database_, history[Len(history)])
    BY <1>5, <2>1, SameStays
  <2> QED  BY <1>2, <1>6, <2>2 DEF MemoryInv
<1>9. Saves' = Saves
  BY <1>2 DEF Saves
<1>10. Len(walFile) \in Saves /\ history[Len(history)] = database_
  BY <1>1 DEF DurableInv, PendingInv
<1>11. CheckpointIsSaved'
  <2>1. ASSUME NEW n \in DOMAIN saved', NEW k \in 0..Len(walFile'), IsLastSave(k)'
        PROVE  saved'[n] = Image(history'[k + 1])
    <3>1. k \in 0..Len(walFile) /\ IsLastSave(k)
      BY <1>2, <1>9, <2>1 DEF IsLastSave
    <3>2. history'[k + 1] = database_
      BY <1>1, <1>6, <3>1, LastIsSave DEF DurableInv
    <3> QED  BY <1>5, <3>2
  <2> QED  BY <1>5, <2>1 DEF CheckpointIsSaved
<1>12. next.kind = "reset"
  OBVIOUS
<1> HIDE DEF next
<1>13. PendingInv' /\ outcome' # "recovered"
  BY <1>1, <1>2, <1>3, <1>5, <1>6, <1>9, <1>10, <1>12, IdleKind DEF DurableInv, PendingInv
<1> QED  BY <1>1, <1>2, <1>7, <1>8, <1>11, <1>13, StaysReady, ReadyStep

LEMMA DurableResetWal ==
  ASSUME Durable, DurableInv, Remember, UNCHANGED readOrder, resetWal
  PROVE  DurableInv'
<1>1. ExecInv' /\ phase = "ready" /\ pending.kind = "reset"
  BY ResetWalStep DEF DurableInv, resetWal
<1>2. /\ UNCHANGED saved /\ UNCHANGED recoveryVars /\ database_' = database_
      /\ pending' = Idle /\ outcome' = "ok"
  BY DEF resetWal
<1>3. walFile' = << >> /\ walTorn' = FALSE
  BY DEF resetWal, reset, Durable, Faultless
<1>4. Len(walFile) \in Saves /\ DOMAIN saved # {}
  BY <1>1 DEF DurableInv, PendingInv
<1>5. /\ Len(walFile) \in Nat /\ IsLastSave(Len(walFile)) /\ walFile # << >>
      /\ history[Len(walFile) + 1] = database_
  BY <1>1, LastIsSave DEF DurableInv
<1>6. history' = <<database_>>
  BY <1>2, <1>3, <1>5 DEF Remember, Durable, Faultless
<1>7. /\ Len(history') = 1 /\ history'[1] = database_
      /\ Len(walFile') = 0 /\ DOMAIN walFile' = {}
  BY <1>3, <1>6
<1>8. HistoryInv'
  <2>1. history' \in Seq({database_})
    BY <1>6
  <2>2. \E S : history' \in Seq(S)
    BY <2>1, Zenon
  <2>3. HistoryReplays'
    BY <1>7 DEF HistoryReplays
  <2>4. \A i \in 1..1 : IsDatabase(history'[i])
    BY <1>7 DEF DurableInv, ExecInv, DataInv
  <2> QED  BY <1>3, <1>7, <2>2, <2>3, <2>4 DEF HistoryInv
<1>9. MemoryInv'
  BY <1>2, <1>7, SameReflexive DEF MemoryInv
<1>10. CheckpointIsSaved'
  <2>1. \A n \in DOMAIN saved : saved[n] = Image(database_)
    BY <1>1, <1>5 DEF DurableInv, CheckpointIsSaved
  <2>2. \A k \in 0..Len(walFile') : history'[k + 1] = database_
    BY <1>7
  <2> QED  BY <1>2, <1>4, <2>1, <2>2 DEF CheckpointIsSaved
<1> QED  BY <1>1, <1>2, <1>8, <1>9, <1>10, IdlePending, StaysReady, ReadyStep

-----------------------------------------------------------------------------
(* The end of the process, and recovery.                                   *)

LEMMA DurableStop ==
  ASSUME Durable, DurableInv, Remember, UNCHANGED readOrder, Stop
  PROVE  DurableInv'
<1>1. ExecInv'
  BY StopStep DEF DurableInv
<1>2. /\ UNCHANGED saved /\ walFile' = walFile /\ walTorn' = walTorn /\ pending' = Idle
      /\ phase' = "stopped" /\ database_' = NoDatabase /\ loadedSnapshot' = FALSE
  BY DEF Stop, walStop, Durable, Faultless, DurableInv, HistoryInv
<1>3. history' = history
  BY <1>2, HistoryKept
<1>4. HistoryInv'
  BY <1>2, HistoryInvKept DEF DurableInv
<1>5. CheckpointIsSaved'
  <2>1. Saves' = Saves
    BY <1>2 DEF Saves
  <2>2. pending.kind # "publish" \/ DOMAIN saved = {}
    BY DEF Stop, Durable, Faultless
  <2> QED  BY <1>2, <1>3, <2>1, <2>2 DEF DurableInv, CheckpointIsSaved, IsLastSave
<1>6. StopInv'
  <2>1. stopImage' = IF phase = "ready" THEN database_ ELSE stopImage
    BY <1>2 DEF Remember, Durable, Faultless
  <2>2. CASE phase = "ready"
    <3>1. /\ SameIn(readOrder, DOMAIN saved, database_, history[Len(history)])
          /\ IsDatabase(database_)
      BY <2>2 DEF DurableInv, MemoryInv, ExecInv, DataInv
    <3>2. stopImage' = database_
      BY <2>1, <2>2
    <3> QED  BY <1>2, <1>3, <3>1, <3>2 DEF StopInv
  <2>3. CASE phase # "ready"
    <3>1. /\ SameIn(readOrder, DOMAIN saved, stopImage, history[Len(history)])
          /\ IsDatabase(stopImage)
      BY <2>3 DEF DurableInv, StopInv
    <3>2. stopImage' = stopImage
      BY <2>1, <2>3
    <3> QED  BY <1>2, <1>3, <3>1, <3>2 DEF StopInv
  <2> QED  BY <2>2, <2>3
<1>7. MemoryInv' /\ PositionInv'
  BY <1>2 DEF MemoryInv, PositionInv
<1> QED  BY <1>1, <1>2, <1>4, <1>5, <1>6, <1>7, IdlePending DEF DurableInv

\* A step of recovery leaves everything on disk as it is.
LEMMA RecoveryKeeps ==
  ASSUME Durable, DurableInv, Remember, UNCHANGED readOrder,
         phase # "ready", phase' # "stopped",
         UNCHANGED walVars, UNCHANGED saved, UNCHANGED pending
  PROVE  /\ HistoryInv' /\ CheckpointIsSaved' /\ PendingInv' /\ StopInv'
         /\ walFile' = walFile /\ Saves' = Saves /\ history' = history
         /\ pending = Idle
<1>1. walFile' = walFile /\ walTorn' = walTorn /\ pending = Idle /\ pending' = Idle
  BY RecoveringIdle DEF walVars, DurableInv
<1>2. history' = history
  BY <1>1, HistoryKept
<1>3. HistoryInv'
  BY <1>1, HistoryInvKept DEF DurableInv
<1>4. Saves' = Saves
  BY <1>1 DEF Saves
<1>5. CheckpointIsSaved'
  BY <1>1, <1>2, <1>4, IdleKind DEF DurableInv, CheckpointIsSaved, IsLastSave
<1>6. stopImage' = stopImage
  BY DEF Remember
<1>7. StopInv'
  BY <1>2, <1>6 DEF DurableInv, StopInv
<1> QED  BY <1>1, <1>2, <1>3, <1>4, <1>5, <1>7, IdlePending

LEMMA DurableRecoverFromStorage ==
  ASSUME Durable, DurableInv, Remember, UNCHANGED readOrder, recoverFromStorage
  PROVE  DurableInv'
<1>1. /\ ExecInv' /\ phase = "stopped" /\ phase' = "loaded"
      /\ UNCHANGED walVars /\ UNCHANGED saved /\ UNCHANGED pending
  BY RecoverFromStorageStep DEF DurableInv, recoverFromStorage
<1>2. /\ HistoryInv' /\ CheckpointIsSaved' /\ PendingInv' /\ StopInv'
      /\ walFile' = walFile /\ Saves' = Saves /\ history' = history /\ pending = Idle
  BY <1>1, RecoveryKeeps
<1>3. PICK k \in 0..Len(walFile) : IsLastSave(k)
  BY DEF DurableInv, ExecInv, LogInv
<1>4. \A n \in DOMAIN saved : \A j \in 0..Len(walFile) :
        IsLastSave(j) => saved[n] = Image(history[j + 1])
  BY <1>2, IdleKind DEF DurableInv, CheckpointIsSaved
<1>5. \A n \in DOMAIN saved : saved[n].complete
  BY <1>3, <1>4 DEF Image
<1>6. \A j \in 0..Len(walFile) : IsLastSave(j)' = IsLastSave(j)
  BY <1>2 DEF IsLastSave
<1>7. PositionInv'
  <2>1. CASE \E n \in DOMAIN saved :
               Loadable(n) /\ database_' = Loaded(saved[n].database) /\ loadedSnapshot' = TRUE
    <3>1. PICK n \in DOMAIN saved : Loadable(n) /\ database_' = Loaded(saved[n].database)
      BY <2>1
    <3> DEFINE db == saved[n].database
    <3>2. db # NoDatabase
      <4>1. saved[n] # Damaged
        BY <3>1 DEF Loadable, Damaged
      <4> QED  BY <4>1 DEF DurableInv, ExecInv, IsStorage
    <3>3. \A j \in 0..Len(walFile) : IsLastSave(j) => db = history[j + 1]
      BY <1>4 DEF Image
    <3> HIDE DEF db
    <3>4. SameIn(readOrder, DOMAIN saved, Loaded(db), db)
      BY <3>2, LoadedSame
    <3>5. database_' = Loaded(db)
      BY <3>1 DEF db
    <3>6. \A j \in 0..Len(walFile) :
            IsLastSave(j) => SameIn(readOrder, DOMAIN saved, database_', history[j + 1])
      BY <3>3, <3>4, <3>5
    <3> QED  BY <1>1, <1>2, <1>6, <2>1, <3>6 DEF PositionInv
  <2>2. CASE DOMAIN saved = {} /\ UNCHANGED <<database_, loadedSnapshot>>
    <3>1. database_' = NoDatabase /\ loadedSnapshot' = FALSE
      BY <1>1, <2>2 DEF DurableInv, PositionInv
    <3>2. history[1] = NoDatabase
      BY <2>2 DEF DurableInv, CheckpointIsSaved
    <3> QED  BY <1>1, <1>2, <3>1, <3>2, SameReflexive DEF PositionInv
  <2> QED  BY <1>5, <2>1, <2>2 DEF recoverFromStorage, Loadable
<1>8. MemoryInv'
  BY <1>1 DEF MemoryInv
<1> QED  BY <1>1, <1>2, <1>7, <1>8 DEF DurableInv

LEMMA DurableRecoverFromWal ==
  ASSUME Durable, DurableInv, Remember, UNCHANGED readOrder, recoverFromWal
  PROVE  DurableInv'
<1>1. /\ ExecInv' /\ phase = "loaded" /\ phase' = "replaying" /\ cursor' = Start
      /\ database_' = database_
      /\ UNCHANGED walVars /\ UNCHANGED saved /\ UNCHANGED pending
  BY RecoverFromWalStep DEF DurableInv, HistoryInv, Readable, recoverFromWal
<1>2. /\ HistoryInv' /\ CheckpointIsSaved' /\ PendingInv' /\ StopInv' /\ history' = history
  BY <1>1, RecoveryKeeps
<1>3. Start \in 0..Len(walFile) /\ (loadedSnapshot => IsLastSave(Start))
  BY StartInLog DEF DurableInv, ExecInv
<1>4. ~loadedSnapshot => Start = 0
  BY DEF Start
<1>5. SameIn(readOrder, DOMAIN saved, database_, history[Start + 1])
  <2> HIDE DEF Start
  <2>1. CASE loadedSnapshot
    BY <1>1, <1>3, <2>1 DEF DurableInv, PositionInv
  <2>2. CASE ~loadedSnapshot
    BY <1>1, <1>4, <2>2 DEF DurableInv, PositionInv
  <2> QED  BY <2>1, <2>2
<1>6. PositionInv' /\ MemoryInv'
  BY <1>1, <1>2, <1>5 DEF PositionInv, MemoryInv
<1> QED  BY <1>1, <1>2, <1>6 DEF DurableInv

LEMMA DurableReplayRecord ==
  ASSUME Durable, DurableInv, Remember, UNCHANGED readOrder, replayRecord
  PROVE  DurableInv'
<1> DEFINE r == Replay(database_, walFile[cursor + 1])
<1>1. /\ ExecInv' /\ phase = "replaying" /\ cursor < Len(walFile)
      /\ UNCHANGED walVars /\ UNCHANGED saved /\ UNCHANGED pending
  BY ReplayRecordStep DEF DurableInv, replayRecord, appendWal
<1>2. cursor \in Nat /\ cursor + 1 \in DOMAIN walFile
  BY <1>1, RecordTypes DEF DurableInv, ExecInv, LogInv, WalInv, ControlInv
<1>3. SameIn(readOrder, DOMAIN saved, database_, history[cursor + 1])
  BY <1>1 DEF DurableInv, PositionInv
<1>4. r.outcome # "threw" /\ SameIn(readOrder, DOMAIN saved, r.db, history[cursor + 2])
  <2> DEFINE k == cursor + 1
             record == walFile[k]
             q == Replay(history[k], record)
  <2>1. q.outcome # "threw" /\ SameIn(readOrder, DOMAIN saved, q.db, history[k + 1])
    BY <1>2 DEF DurableInv, HistoryInv, HistoryReplays
  <2>2. k + 1 = cursor + 2
    BY <1>2
  <2>3. IsDatabase(database_) /\ IsDatabase(history[k])
    <3>1. /\ Len(history) = Len(walFile) + 1 /\ Len(walFile) \in Nat
          /\ DOMAIN walFile = 1..Len(walFile)
      BY RecordTypes DEF DurableInv, HistoryInv, HistoryReplays, ExecInv, LogInv, WalInv
    <3>2. k \in 1..Len(history)
      BY <1>2, <3>1
    <3> QED  BY <3>2 DEF DurableInv, HistoryInv, ExecInv, DataInv
  <2>4. IsLogged(record.operation, record.payload)
    BY <1>2 DEF DurableInv, ExecInv, LogInv
  <2> HIDE DEF record, k
  <2>5. /\ Replay(database_, record).outcome = "threw" <=> q.outcome = "threw"
        /\ SameIn(readOrder, DOMAIN saved, Replay(database_, record).db, q.db)
    BY <1>3, <2>3, <2>4, ReplaySame DEF k
  <2> HIDE DEF q
  <2>6. SameIn(readOrder, DOMAIN saved, Replay(database_, record).db, history[k + 1])
    BY <2>1, <2>5, SameTransitive
  <2> QED  BY <2>1, <2>2, <2>5, <2>6 DEF record, k
<1>5. database_' = r.db /\ cursor' = cursor + 1 /\ phase' = "replaying"
  BY <1>1, <1>4 DEF replayRecord
<1> HIDE DEF r
<1>6. /\ HistoryInv' /\ CheckpointIsSaved' /\ PendingInv' /\ StopInv' /\ history' = history
  BY <1>1, <1>5, RecoveryKeeps
<1>7. SameIn(readOrder, DOMAIN saved, database_', history'[cursor' + 1])
  BY <1>2, <1>4, <1>5, <1>6
<1>8. PositionInv' /\ MemoryInv'
  BY <1>1, <1>5, <1>7 DEF PositionInv, MemoryInv
<1> QED  BY <1>1, <1>6, <1>8 DEF DurableInv

LEMMA DurableReplayDone ==
  ASSUME Durable, DurableInv, Remember, UNCHANGED readOrder, replayDone
  PROVE  DurableInv'
<1>1. /\ ExecInv' /\ phase = "replaying" /\ cursor = Len(walFile) /\ database_' = database_
      /\ phase' = "ready" /\ UNCHANGED walVars /\ UNCHANGED saved /\ UNCHANGED pending
  BY ReplayDoneStep DEF DurableInv, replayDone, recovered
<1>2. /\ HistoryInv' /\ CheckpointIsSaved' /\ PendingInv' /\ StopInv' /\ history' = history
  BY <1>1, RecoveryKeeps
<1>3. SameIn(readOrder, DOMAIN saved, database_, history[Len(history)])
  BY <1>1 DEF DurableInv, PositionInv, HistoryInv, HistoryReplays
<1>4. PositionInv' /\ MemoryInv'
  BY <1>1, <1>2, <1>3 DEF PositionInv, MemoryInv
<1> QED  BY <1>1, <1>2, <1>4 DEF DurableInv

-----------------------------------------------------------------------------
LEMMA DurableInit == ASSUME Init PROVE DurableInv
<1>1. /\ ExecInv /\ phase = "stopped" /\ pending = Idle /\ walTorn = FALSE /\ walFile = << >>
      /\ saved = << >> /\ database_ = NoDatabase /\ loadedSnapshot = FALSE
      /\ history = <<NoDatabase>> /\ stopImage = NoDatabase
  BY InitInv DEF Init, WalInit, StorageInit
<1>2. /\ Len(history) = 1 /\ history[1] = NoDatabase /\ Len(walFile) = 0
      /\ DOMAIN walFile = {} /\ DOMAIN saved = {} /\ history \in Seq({NoDatabase})
  BY <1>1
<1>3. \E S : history \in Seq(S)
  BY <1>2, Zenon
<1>4. HistoryInv
  BY <1>1, <1>2, <1>3, NoDatabaseIsDatabase DEF HistoryInv, HistoryReplays
<1>5. CheckpointIsSaved
  BY <1>2 DEF CheckpointIsSaved
<1>6. PendingInv
  BY <1>1, IdleKind DEF PendingInv
<1>7. MemoryInv /\ StopInv /\ PositionInv
  BY <1>1, <1>2, SameReflexive, NoDatabaseIsDatabase DEF MemoryInv, StopInv, PositionInv
<1> QED  BY <1>1, <1>4, <1>5, <1>6, <1>7 DEF DurableInv

LEMMA DurableStutter == ASSUME DurableInv, UNCHANGED vars PROVE DurableInv'
<1>1. ExecInv'
  BY StepInv DEF DurableInv
<1>2. /\ walFile' = walFile /\ walTorn' = walTorn /\ saved' = saved /\ database_' = database_
      /\ phase' = phase /\ pending' = pending /\ outcome' = outcome /\ cursor' = cursor
      /\ loadedSnapshot' = loadedSnapshot /\ history' = history /\ stopImage' = stopImage
      /\ readOrder' = readOrder
  BY DEF vars, walVars, recoveryVars, auxVars
<1>3. Saves' = Saves
  BY <1>2 DEF Saves
<1>4. HistoryInv' /\ MemoryInv' /\ StopInv'
  BY <1>2 DEF DurableInv, HistoryInv, HistoryReplays, MemoryInv, StopInv
<1>5. CheckpointIsSaved' /\ PositionInv'
  BY <1>2, <1>3 DEF DurableInv, CheckpointIsSaved, PositionInv, IsLastSave
<1>6. PendingInv'
  BY <1>2, <1>3 DEF DurableInv, PendingInv
<1> QED  BY <1>1, <1>4, <1>5, <1>6 DEF DurableInv

\* A build does not change.
LEMMA OrderStays == ASSUME Next PROVE UNCHANGED readOrder
BY DEF Next, executeCreateDatabase, executeCreateTable, executeDropTable, executeRenameTable,
       executeUpdate, executeDelete, executeCreateIndex, mutateThenLog, executeInsert,
       executeSaveDatabase, executeLoadDatabase, executeBegin, executeCommit, executeRollback,
       insertNextRow, saveSnapshot, publish, publishDamaged, saveThrows, resetWal, Stop,
       recoverFromStorage, recoverFromWal, replayRecord, replayDone

LEMMA DurableStep == ASSUME Durable, DurableInv, [Next]_vars PROVE DurableInv'
<1>1. ASSUME NEW s \in Statements, Remember, UNCHANGED readOrder,
             \/ executeCreateTable(s) \/ executeDropTable(s) \/ executeRenameTable(s)
             \/ executeUpdate(s) \/ executeDelete(s) \/ executeCreateIndex(s)
      PROVE  DurableInv'
  <2>1. s.type \in Mutation /\ Ready /\ mutateThenLog(s)
    BY <1>1 DEF executeCreateTable, executeDropTable, executeRenameTable, executeUpdate,
                executeDelete, executeCreateIndex, Mutation
  <2> QED  BY <1>1, <2>1, DurableMutation
<1>2. ASSUME NEW s \in Statements, Remember, UNCHANGED readOrder,
             executeBegin(s) \/ executeCommit(s)
      PROVE  DurableInv'
  <2>1. ExecInv'
    BY <1>2, TransactionStep DEF DurableInv
  <2>2. /\ phase = "ready" /\ pending = Idle /\ UNCHANGED walVars /\ UNCHANGED saved
        /\ UNCHANGED recoveryVars /\ database_' = database_ /\ pending' = pending
        /\ outcome' # "recovered"
    BY <1>2, ReadyIdle DEF executeBegin, executeCommit
  <2> QED  BY <1>2, <2>1, <2>2, QuietStatement
<1>3. ASSUME NEW s \in Statements, executeLoadDatabase(s) \/ executeRollback(s)
      PROVE  FALSE
  BY <1>3 DEF Durable, Repeatable, executeLoadDatabase, executeRollback
<1>4. CASE Next
  BY <1>1, <1>2, <1>3, <1>4, OrderStays, DurableCreateDatabase, DurableInsert,
     DurableInsertNextRow,
     DurableSave, DurableSaveSnapshot, DurableResetWal, DurableStop, DurableRecoverFromStorage,
     DurableRecoverFromWal, DurableReplayRecord, DurableReplayDone, Zenon DEF Next
<1> QED  BY <1>4, DurableStutter

LEMMA AlwaysDurable ==
  ASSUME Durable
  PROVE  Spec => []DurableInv
<1>1. Init => DurableInv
  BY DurableInit
<1>2. DurableInv /\ [Next]_vars => DurableInv'
  BY DurableStep
<1> QED  BY <1>1, <1>2, PTL DEF Spec

(* Without faults, and for statements that recovery can repeat, the log    *)
(* never lags behind memory: what its records lead to is what is in        *)
(* memory, up to index definitions that a load of the snapshot lost.       *)
(* (the handlers' appendWal() calls)                                       *)
THEOREM LogIsComplete ==
  ASSUME Durable
  PROVE  Spec => []MemoryIsLogged
<1>1. DurableInv => MemoryIsLogged
  BY SameIs DEF DurableInv, MemoryInv, MemoryIsLogged
<1> QED  BY <1>1, AlwaysDurable, PTL

(* Under the same conditions each record, replayed on what its             *)
(* predecessors lead to, repeats its statement, up to the same index       *)
(* definitions.  (updateSql and its siblings against Parser)               *)
THEOREM LogIsRepeatable ==
  ASSUME Durable
  PROVE  Spec => []RecordsReplay
<1>1. DurableInv => RecordsReplay
  BY SameIs DEF DurableInv, HistoryInv, HistoryReplays, RecordsReplay
<1> QED  BY <1>1, AlwaysDurable, PTL

(* Under the same conditions a snapshot file is the database at the log's  *)
(* last SAVE record, where replay starts.  (executeSaveDatabase against    *)
(* recoverFromWal)                                                         *)
THEOREM SnapshotIsCheckpoint ==
  ASSUME Durable
  PROVE  Spec => []CheckpointIsSaved
<1>1. DurableInv => CheckpointIsSaved
  BY DEF DurableInv
<1> QED  BY <1>1, AlwaysDurable, PTL

\* When the constructor has returned.
LEMMA RecoveredSame ==
  ASSUME DurableInv, phase = "ready", outcome = "recovered"
  PROVE  /\ SameIn(readOrder, DOMAIN saved, database_, stopImage)
         /\ IsDatabase(database_) /\ IsDatabase(stopImage)
<1>1. /\ SameIn(readOrder, DOMAIN saved, database_, history[Len(history)])
      /\ SameIn(readOrder, DOMAIN saved, stopImage, history[Len(history)])
      /\ IsDatabase(database_) /\ IsDatabase(stopImage)
  BY DEF DurableInv, MemoryInv, StopInv, ExecInv, DataInv
<1> QED  BY <1>1, SameSymmetric, SameTransitive

(* Under the same conditions, in a build of either order, recovery gives   *)
(* back the database that was in memory when the process ended, wherever   *)
(* it ended, and also when earlier recoveries were cut short: exactly      *)
(* while nothing was saved, and afterwards in everything but the index     *)
(* definitions that loading loses.  (recoverFromStorage, recoverFromWal)   *)
THEOREM RecoveryKeepsData ==
  ASSUME Durable
  PROVE  Spec => []RecoveredState
<1>1. DurableInv => RecoveredState
  BY RecoveredSame, SameIs DEF RecoveredState
<1> QED  BY <1>1, AlwaysDurable, PTL

\* Recovery in a build that evaluates arguments from left to right.
ExactLeftToRight ==
  phase = "ready" /\ outcome = "recovered" /\ readOrder = "LeftToRight" => database_ = stopImage

(* Under the same conditions, in a build that evaluates arguments from     *)
(* left to right, recovery gives back exactly the database that was in     *)
(* memory when the process ended, index definitions included.              *)
(* (recoverFromStorage, recoverFromWal)                                    *)
THEOREM RecoveryIsExact ==
  ASSUME Durable
  PROVE  Spec => []ExactLeftToRight
<1>1. DurableInv => ExactLeftToRight
  BY RecoveredSame, SameExactly DEF ExactLeftToRight
<1> QED  BY <1>1, AlwaysDurable, PTL

-----------------------------------------------------------------------------
(* Statements that throw.                                                  *)

LEMMA ThrowingStep ==
  ASSUME Durable, DurableInv, [Next]_vars, phase = "ready", outcome' = "threw"
  PROVE  UNCHANGED <<database_, walFile>>
<1>1. ASSUME NEW s \in Statements,
             \/ executeCreateTable(s) \/ executeDropTable(s) \/ executeRenameTable(s)
             \/ executeUpdate(s) \/ executeDelete(s) \/ executeCreateIndex(s)
      PROVE  UNCHANGED <<database_, walFile>>
  <2> DEFINE r == Apply(database_, s)
  <2>1. s.type \in Mutation /\ mutateThenLog(s)
    BY <1>1 DEF executeCreateTable, executeDropTable, executeRenameTable, executeUpdate,
                executeDelete, executeCreateIndex, Mutation
  <2>2. Named(s)
    BY <2>1, StatementTypes
  <2>3. AllOrNothing(database_, r)
    BY <2>2, ApplyFacts DEF DurableInv, ExecInv, DataInv, Durable, Repeatable
  <2>4. database_' = r.db /\ outcome' = r.outcome /\ (~r.log => UNCHANGED walVars)
    BY <2>1, OnlyAppends DEF mutateThenLog, DurableInv
  <2> HIDE DEF r
  <2>5. r.db = database_ /\ UNCHANGED walVars
    BY <2>3, <2>4 DEF AllOrNothing
  <2> QED  BY <2>4, <2>5 DEF walVars
<1>2. ASSUME NEW s \in Statements, executeInsert(s) \/ executeBegin(s) \/ executeCommit(s)
      PROVE  UNCHANGED <<database_, walFile>>
  BY <1>2 DEF executeInsert, executeBegin, executeCommit, walVars
<1>3. ASSUME NEW s \in Statements,
             \/ executeCreateDatabase(s) \/ executeSaveDatabase(s)
             \/ executeLoadDatabase(s) \/ executeRollback(s)
      PROVE  FALSE
  BY <1>3, OnlyAppends DEF executeCreateDatabase, executeSaveDatabase, DurableInv,
                           Durable, Repeatable, executeLoadDatabase, executeRollback
<1>4. pending # Idle => outcome = "running"
  BY DEF DurableInv, PendingInv
<1>5. ~insertNextRow /\ ~saveSnapshot /\ ~resetWal
  <2>1. ~insertNextRow
    BY <1>4, OnlyAppends, IdleKind DEF insertNextRow, DurableInv
  <2>2. ~saveSnapshot /\ ~resetWal
    BY <1>4, IdleKind DEF saveSnapshot, resetWal, saveThrows, Durable, Faultless
  <2> QED  BY <2>1, <2>2
<1>6. ~(Stop \/ recoverFromStorage \/ recoverFromWal \/ replayRecord \/ replayDone)
  BY DEF Stop, recoverFromStorage, recoverFromWal, replayRecord, replayDone
<1>7. CASE UNCHANGED vars
  BY <1>7 DEF vars, walVars
<1> QED  BY <1>1, <1>2, <1>3, <1>5, <1>6, <1>7, Zenon DEF Next

(* Under the same conditions a statement that throws has changed neither   *)
(* the database nor the log: a multi-row INSERT is validated as a whole,   *)
(* and UPDATE and DELETE throw before they have changed a row.             *)
(* (executeInsert, executeUpdate, executeDelete)                           *)
THEOREM ThrowingIsHarmless ==
  ASSUME Durable
  PROVE  Spec => ThrowsChangeNothing
<1>1. DurableInv /\ [Next]_vars
        => [outcome' = "threw" /\ phase = "ready" => UNCHANGED <<database_, walFile>>]_vars
  BY ThrowingStep
<1> QED  BY <1>1, AlwaysDurable, PTL DEF Spec, ThrowsChangeNothing

=============================================================================
