------------------------------ MODULE MCExecutor -----------------------------
(***************************************************************************)
(* Small instances of Executor: the statements the runs issue.             *)
(***************************************************************************)
EXTENDS Executor

CONSTANTS d1, t1, t2, i1

a == DoubleValue(15, -1)           \* 1.5
b == DoubleValue(25, -1)           \* 2.5
whole == DoubleValue(12, 4)        \* 120000.0
text == StringValue("text")        \* not a DOUBLE

Price == [type |-> "DOUBLE", nullable |-> FALSE]

CreateDatabase(n) == [type |-> "CreateDatabase", name |-> n]
CreateTable(t) == [type |-> "CreateTable", table |-> t, column |-> Price]
DropTable(t) == [type |-> "DropTable", table |-> t]
RenameTable(t, u) == [type |-> "RenameTable", table |-> t, newName |-> u]
Insert(t, rows) == [type |-> "Insert", table |-> t, rows |-> rows]
Update(t, c, v, w) == [type |-> "Update", table |-> t, column |-> c, value |-> v, where |-> w]
Delete(t, w) == [type |-> "Delete", table |-> t, where |-> w]
CreateIndex(t, c, i) == [type |-> "CreateIndex", table |-> t, column |-> c, index |-> i]
Save == [type |-> "Save"]
Load(n) == [type |-> "Load", name |-> n]
Begin == [type |-> "Begin"]
Commit == [type |-> "Commit"]
Rollback == [type |-> "Rollback"]

MCDbName == {d1}
MCTableName == {t1, t2}
MCIndexName == {i1}
MCValue == {a, b, whole, text}

\* Every value is printed exactly; every predicate is over the table's column, or
\* throws on the first row it is evaluated on.
CoreStatements ==
  {CreateDatabase(d1), CreateTable(t1), DropTable(t1), RenameTable(t1, t2),
   Insert(t1, <<a, b>>), Insert(t1, <<a, text>>),
   Update(t1, "price", b, Where("equal", a)), Update(t1, "price", a, Where("missing", a)),
   Delete(t1, Where("equal", a)), CreateIndex(t1, "price", i1),
   Save}

\* The handlers the core run leaves out, over a smaller catalog.
FaultStatements ==
  {CreateDatabase(d1), CreateTable(t1), CreateIndex(t1, "price", i1),
   Insert(t1, <<whole>>), Save, Load(NoName), Begin, Commit, Rollback}

IndexStatements == {CreateDatabase(d1), CreateTable(t1), CreateIndex(t1, "price", i1), Save}
SaveStatements == {CreateDatabase(d1), CreateTable(t1), Save}
RollbackStatements == {CreateDatabase(d1), CreateTable(t1), Begin, Commit, Rollback}
LiteralStatements == {CreateDatabase(d1), CreateTable(t1), Insert(t1, <<a>>), Insert(t1, <<whole>>)}
PredicateStatements ==
  {CreateDatabase(d1), CreateTable(t1), Insert(t1, <<a, b>>),
   Update(t1, "price", b, Where("or", a)), Delete(t1, Where("or", b)), Save}

Issued == CoreStatements \cup FaultStatements \cup LiteralStatements \cup PredicateStatements

MCPayload ==
  {Sql(s) : s \in {x \in Issued : x.type # "Insert"}}
    \cup {insertSql(t, v) : t \in MCTableName, v \in MCValue}
    \cup {NamePayload(n) : n \in MCDbName}
MCOperation ==
  {"CreateDatabase", "CreateTable", "DropTable", "RenameTable", "Insert", "Update",
   "Delete", "CreateIndex", "SaveDatabase"}

=============================================================================
