------------------------------- MODULE Executor ------------------------------
(***************************************************************************)
(* QueryExecutor: the statements that change state, the write-ahead log    *)
(* and the snapshot files behind them, the end of the process at any       *)
(* point, and the recovery the next process runs in its constructor.       *)
(*                                                                         *)
(* execute() holds the write lock for the whole of such a statement, so    *)
(* statements do not interleave with each other; they do interleave with   *)
(* the end of the process.  A handler is one action unless it touches the  *)
(* disk more than once: INSERT logs and inserts row by row, and SAVE       *)
(* appends its record, publishes the snapshot and truncates the log, each  *)
(* a step of its own with pending holding what remains.                    *)
(***************************************************************************)
EXTENDS WriteAheadLog, StorageManager, TransactionManager

CONSTANTS
  Statements,          \* the statements clients issue
  NoName,              \* LOAD DATABASE without a name
  NoTransaction,       \* activeTransaction_ without a value
  StopsDuringSave,     \* whether the process may end between SAVE's log record
                       \* and its snapshot while an older snapshot exists
  KeepsHistory,        \* whether the auxiliary variables record anything
  MaxLog, MaxSaveLog, MaxLsn, MaxRows, MaxTransactions, MaxStops     \* bounds

VARIABLES
  phase,                 \* "stopped", "loaded", "replaying" (replayingWal_), "ready"
  database_,
  transactionSnapshot_,
  activeTransaction_,
  pending,               \* the rest of a statement that takes several steps
  outcome,               \* what the last statement returned
  loadedSnapshot,        \* recoverFromStorage's local variable
  cursor,                \* recoverFromWal's loop: records replayed or skipped
  stopCount,             \* how often the process has ended
  history,               \* auxiliary: history[i + 1] is the database that record i led to
  stopImage              \* auxiliary: the database in memory when the process ended,
                         \* until the next process answers its first statement

sessionVars == <<transactionSnapshot_, activeTransaction_, transactionVars>>
recoveryVars == <<phase, loadedSnapshot, cursor, stopCount>>
auxVars == <<history, stopImage>>
vars ==
  <<walVars, saved, readOrder, sessionVars, recoveryVars, auxVars, database_, pending, outcome>>

Idle == [kind |-> "idle"]

NamePayload(name) == [name |-> name]

Mutation ==
  {"CreateTable", "DropTable", "RenameTable", "Update", "Delete", "CreateIndex"}

\* What clients may issue.
Request ==
  Statement
    \cup [type : {"CreateDatabase"}, name : DbName]
    \cup [type : {"Load"}, name : DbName \cup {NoName}]
    \cup [type : {"Save", "Begin", "Commit", "Rollback"}]

ASSUME StatementsAssumption == Statements \subseteq Request

ASSUME NoTransactionAssumption == NoTransaction \notin Nat

\* Operation and Payload have whatever a handler logs.
ASSUME LogAssumption ==
  /\ Mutation \cup {"CreateDatabase", "Insert", "SaveDatabase"} \subseteq Operation
  /\ \A name \in DbName : NamePayload(name) \in Payload
  /\ \A s \in Statements : s.type \in Mutation => Sql(s) \in Payload
  /\ \A table \in TableName, v \in Value : insertSql(table, v) \in Payload

Pending ==
  {Idle} \cup [kind : {"publish", "reset"}]
    \cup [kind : {"insert"}, table : TableName, rows : Seq(Value) \ {<< >>}]

Outcome == {"none", "recovered", "running", "ok", "failed", "threw"}

(* The state is well formed in every phase: the catalog, the snapshots     *)
(* and the log hold what the handlers put there, transaction ids are dense *)
(* and the replay loop never runs past the end of the log.                 *)
TypeOK ==
  /\ WalTypeOK
  /\ TransactionTypeOK
  /\ IsStorage
  /\ phase \in {"stopped", "loaded", "replaying", "ready"}
  /\ IsDatabase(database_)
  /\ IsDatabase(transactionSnapshot_)
  /\ activeTransaction_ \in Nat \cup {NoTransaction}
  /\ pending \in Pending
  /\ outcome \in Outcome
  /\ loadedSnapshot \in BOOLEAN
  /\ cursor \in 0..Len(walFile)
  /\ stopCount \in Nat

Init ==
  /\ WalInit
  /\ StorageInit
  /\ TransactionInit
  /\ phase = "stopped"
  /\ database_ = NoDatabase
  /\ transactionSnapshot_ = NoDatabase
  /\ activeTransaction_ = NoTransaction
  /\ pending = Idle
  /\ outcome = "none"
  /\ loadedSnapshot = FALSE
  /\ cursor = 0
  /\ stopCount = 0
  /\ history = <<NoDatabase>>
  /\ stopImage = NoDatabase

-----------------------------------------------------------------------------
(* Statements.                                                             *)

Ready == phase = "ready" /\ pending = Idle

\* Bounds on the log: for SAVE, and for the other statements that may append to it.
MayNumber == nextLsn_ # NoLsn => nextLsn_ < MaxLsn
MayLog == Len(walFile) < MaxLog /\ MayNumber

\* The guard on replayingWal_ left out.
appendWalAlways(op, payload) == append(op, payload) \/ appendLost

appendWal(op, payload) ==
  IF phase = "replaying" THEN UNCHANGED walVars
  ELSE append(op, payload) \/ appendLost

\* append() throws out of the handler.
appendWalThrows == phase # "replaying" /\ appendThrows

\* The record is written first: CREATE DATABASE.
executeCreateDatabase(s) ==
  /\ s.type = "CreateDatabase"
  /\ Ready /\ MayLog
  /\ \/ /\ appendWal("CreateDatabase", NamePayload(s.name))
        /\ database_' = DatabaseNew(s.name)
        /\ outcome' = "ok"
     \/ /\ appendWalThrows
        /\ outcome' = "threw"
        /\ UNCHANGED database_
  /\ UNCHANGED <<saved, readOrder, sessionVars, recoveryVars, pending>>

\* The handlers that change the database and then log, if there was a change.
mutateThenLog(s) ==
  LET r == Apply(database_, s)
  IN  /\ database_' = r.db
      /\ IF r.log
         THEN \/ appendWal(s.type, Sql(s)) /\ outcome' = r.outcome
              \/ appendWalThrows /\ outcome' = "threw"
         ELSE outcome' = r.outcome /\ UNCHANGED walVars
      /\ UNCHANGED <<saved, readOrder, sessionVars, recoveryVars, pending>>

executeCreateTable(s) == s.type = "CreateTable" /\ Ready /\ MayLog /\ mutateThenLog(s)
executeDropTable(s) == s.type = "DropTable" /\ Ready /\ MayLog /\ mutateThenLog(s)
executeRenameTable(s) == s.type = "RenameTable" /\ Ready /\ MayLog /\ mutateThenLog(s)
executeUpdate(s) == s.type = "Update" /\ Ready /\ MayLog /\ mutateThenLog(s)
executeDelete(s) == s.type = "Delete" /\ Ready /\ MayLog /\ mutateThenLog(s)
executeCreateIndex(s) == s.type = "CreateIndex" /\ Ready /\ MayLog /\ mutateThenLog(s)

RowsAfter(s) ==
  IF HasTable(database_, s.table)
  THEN Len(database_.tables[s.table].rows) + Len(s.rows) ELSE 0

\* The rows are validated one by one as they are inserted: the rows before the first
\* wrong one (here, one row) are logged and inserted when the statement throws.
executeInsertRowByRow(s) ==
  LET firstFits == HasTable(database_, s.table)
                     /\ Accepts(database_.tables[s.table].column, s.rows[1])
      stopsLater == firstFits /\ ~validateRows(database_, s)
  IN  /\ s.type = "Insert"
      /\ Ready /\ MayLog /\ RowsAfter(s) <= MaxRows
      /\ pending' = IF validateRows(database_, s)
                    THEN [kind |-> "insert", table |-> s.table, rows |-> s.rows] ELSE pending
      /\ outcome' = IF validateRows(database_, s) THEN "running" ELSE "threw"
      /\ IF stopsLater THEN appendWal("Insert", insertSql(s.table, s.rows[1])) ELSE UNCHANGED walVars
      /\ database_' = IF stopsLater THEN insertRow(database_, s.table, s.rows[1]) ELSE database_
      /\ UNCHANGED <<saved, readOrder, sessionVars, recoveryVars>>

\* Every row is validated before the first is logged.
executeInsert(s) ==
  /\ s.type = "Insert"
  /\ Ready /\ MayLog /\ RowsAfter(s) <= MaxRows
  /\ IF validateRows(database_, s)
     THEN /\ pending' = [kind |-> "insert", table |-> s.table, rows |-> s.rows]
          /\ outcome' = "running"
     ELSE outcome' = "threw" /\ UNCHANGED pending
  /\ UNCHANGED <<walVars, saved, readOrder, sessionVars, recoveryVars, database_>>

\* One turn of the insert loop: the record, then the row.
insertNextRow ==
  /\ phase = "ready" /\ pending.kind = "insert"
  /\ \/ /\ appendWal("Insert", insertSql(pending.table, Head(pending.rows)))
        /\ database_' = insertRow(database_, pending.table, Head(pending.rows))
        /\ IF Len(pending.rows) = 1
           THEN pending' = Idle /\ outcome' = "ok"
           ELSE pending' = [pending EXCEPT !.rows = Tail(@)] /\ UNCHANGED outcome
     \/ /\ appendWalThrows
        /\ pending' = Idle
        /\ outcome' = "threw"
        /\ UNCHANGED database_
  /\ UNCHANGED <<saved, readOrder, sessionVars, recoveryVars>>

-----------------------------------------------------------------------------
(* SAVE and LOAD.                                                          *)

executeSaveDatabase(s) ==
  /\ s.type = "Save"
  /\ Ready /\ Len(walFile) < MaxSaveLog /\ MayNumber
  /\ \/ /\ database_ = NoDatabase
        /\ outcome' = "failed"
        /\ UNCHANGED <<walVars, pending>>
     \/ /\ database_ # NoDatabase
        /\ appendWal("SaveDatabase", NamePayload(database_.name))
        /\ pending' = [kind |-> "publish"]
        /\ outcome' = "running"
     \/ /\ database_ # NoDatabase
        /\ appendWalThrows
        /\ outcome' = "threw"
        /\ UNCHANGED pending
  /\ UNCHANGED <<saved, readOrder, sessionVars, recoveryVars, database_>>

\* The temporary file is never renamed.
saveWithoutRename ==
  /\ phase = "ready" /\ pending.kind = "publish"
  /\ pending' = [kind |-> "reset"]
  /\ UNCHANGED <<walVars, saved, readOrder, outcome, sessionVars, recoveryVars, database_>>

\* The exception of saveDatabase() is swallowed and SAVE goes on.
saveSnapshotIgnoresFailure ==
  /\ phase = "ready" /\ pending.kind = "publish"
  /\ publish(database_) \/ publishDamaged(database_) \/ saveThrows(database_)
  /\ pending' = [kind |-> "reset"]
  /\ UNCHANGED <<walVars, outcome, sessionVars, recoveryVars, database_>>

saveSnapshot ==
  /\ phase = "ready" /\ pending.kind = "publish"
  /\ \/ /\ publish(database_) \/ publishDamaged(database_)
        /\ pending' = [kind |-> "reset"]
        /\ UNCHANGED outcome
     \/ /\ saveThrows(database_)
        /\ pending' = Idle
        /\ outcome' = "threw"
  /\ UNCHANGED <<walVars, sessionVars, recoveryVars, database_>>

resetWal ==
  /\ phase = "ready" /\ pending.kind = "reset"
  /\ reset
  /\ pending' = Idle
  /\ outcome' = "ok"
  /\ UNCHANGED <<saved, readOrder, sessionVars, recoveryVars, database_>>

\* The name in the statement, the active database's, or any file the directory lists first.
LoadTargets(s) ==
  IF s.name # NoName THEN {s.name}
  ELSE IF database_ # NoDatabase THEN {database_.name}
  ELSE DOMAIN saved

executeLoadDatabase(s) ==
  /\ s.type = "Load"
  /\ Ready
  /\ \/ \E n \in LoadTargets(s) :
          /\ Loadable(n)
          /\ database_' = Loaded(saved[n].database)
          /\ transactionSnapshot_' = NoDatabase
          /\ outcome' = "ok"
     \/ /\ LoadTargets(s) = {} \/ \E n \in LoadTargets(s) : ~Loadable(n)
        /\ outcome' = "threw"
        /\ UNCHANGED <<database_, transactionSnapshot_>>
  /\ UNCHANGED <<walVars, saved, readOrder, activeTransaction_, transactionVars, recoveryVars,
                 pending>>

-----------------------------------------------------------------------------
(* Transactions: none of these statements writes to the log.               *)

executeBegin(s) ==
  /\ s.type = "Begin"
  /\ Ready /\ nextId_ <= MaxTransactions
  /\ IF database_ = NoDatabase \/ transactionSnapshot_ # NoDatabase
     THEN outcome' = "failed" /\ UNCHANGED sessionVars
     ELSE /\ begin
          /\ activeTransaction_' = nextId_
          /\ transactionSnapshot_' = database_
          /\ outcome' = "ok"
  /\ UNCHANGED <<walVars, saved, readOrder, recoveryVars, database_, pending>>

\* activeTransaction_ is left set.
executeCommitKeepsActive(s) ==
  /\ s.type = "Commit"
  /\ Ready
  /\ IF transactionSnapshot_ = NoDatabase \/ activeTransaction_ = NoTransaction
     THEN outcome' = "failed" /\ UNCHANGED sessionVars
     ELSE /\ finish(activeTransaction_, "Committed")
          /\ transactionSnapshot_' = NoDatabase
          /\ outcome' = "ok"
          /\ UNCHANGED activeTransaction_
  /\ UNCHANGED <<walVars, saved, readOrder, recoveryVars, database_, pending>>

executeCommit(s) ==
  /\ s.type = "Commit"
  /\ Ready
  /\ IF transactionSnapshot_ = NoDatabase \/ activeTransaction_ = NoTransaction
     THEN outcome' = "failed" /\ UNCHANGED sessionVars
     ELSE /\ finish(activeTransaction_, "Committed")
          /\ activeTransaction_' = NoTransaction
          /\ transactionSnapshot_' = NoDatabase
          /\ outcome' = "ok"
  /\ UNCHANGED <<walVars, saved, readOrder, recoveryVars, database_, pending>>

executeRollback(s) ==
  /\ s.type = "Rollback"
  /\ Ready
  /\ IF transactionSnapshot_ = NoDatabase \/ activeTransaction_ = NoTransaction
     THEN outcome' = "failed" /\ UNCHANGED <<sessionVars, database_>>
     ELSE /\ finish(activeTransaction_, "RolledBack")
          /\ activeTransaction_' = NoTransaction
          /\ database_' = transactionSnapshot_
          /\ transactionSnapshot_' = NoDatabase
          /\ outcome' = "ok"
  /\ UNCHANGED <<walVars, saved, readOrder, recoveryVars, pending>>

-----------------------------------------------------------------------------
(* The end of the process, orderly or not: nothing is written on exit.     *)

Stop ==
  /\ phase # "stopped" /\ stopCount < MaxStops
  /\ pending.kind = "publish" /\ DOMAIN saved # {} => StopsDuringSave
  /\ walStop
  /\ transactionStop
  /\ phase' = "stopped"
  /\ database_' = NoDatabase
  /\ transactionSnapshot_' = NoDatabase
  /\ activeTransaction_' = NoTransaction
  /\ pending' = Idle
  /\ outcome' = "none"
  /\ loadedSnapshot' = FALSE
  /\ cursor' = 0
  /\ stopCount' = stopCount + 1
  /\ UNCHANGED <<saved, readOrder>>

-----------------------------------------------------------------------------
(* Recovery, in the constructor of the next process.                       *)

\* loadFirstDatabase() takes the first file of the directory, in no particular order.
recoverFromStorage ==
  /\ phase = "stopped"
  /\ phase' = "loaded"
  /\ \/ \E n \in DOMAIN saved :
          Loadable(n) /\ database_' = Loaded(saved[n].database) /\ loadedSnapshot' = TRUE
     \/ /\ DOMAIN saved = {} \/ \E n \in DOMAIN saved : ~Loadable(n)
        /\ UNCHANGED <<database_, loadedSnapshot>>
  /\ UNCHANGED <<walVars, saved, readOrder, sessionVars, cursor, stopCount, pending, outcome>>

Saves == {i \in DOMAIN walFile : walFile[i].operation = "SaveDatabase"}

\* The whole log, whatever the snapshot already holds.
StartAtFirst == 0

\* The records before the last save are skipped when a snapshot was loaded.
Start ==
  IF loadedSnapshot THEN CHOOSE i \in {0} \cup Saves : \A j \in Saves : j <= i ELSE 0

\* The constructor returns.
recovered ==
  /\ phase' = "ready"
  /\ outcome' = "recovered"
  /\ loadedSnapshot' = FALSE
  /\ cursor' = 0

recoverFromWal ==
  /\ phase = "loaded"
  /\ IF ~Readable THEN recovered
     ELSE phase' = "replaying" /\ cursor' = Start /\ UNCHANGED <<outcome, loadedSnapshot>>
  /\ UNCHANGED <<walVars, saved, readOrder, sessionVars, stopCount, database_, pending>>

\* One record of the log, applied to a database.
Replay(db, record) ==
  CASE record.operation = "SaveDatabase" -> OkUnchanged(db)
    [] record.operation = "CreateDatabase" -> OkUnchanged(DatabaseNew(record.payload.name))
    [] OTHER ->
         LET s == parse(record.payload) IN IF s = ParseError THEN Threw(db) ELSE Apply(db, s)

\* The loop moves on twice at a SAVE record.
replayRecordSkips ==
  /\ phase = "replaying" /\ cursor < Len(walFile)
  /\ LET record == walFile[cursor + 1]
         r == Replay(database_, record)
     IN  IF r.outcome = "threw" THEN database_' = NoDatabase /\ recovered
         ELSE /\ database_' = r.db
              /\ cursor' = IF record.operation = "SaveDatabase" THEN cursor + 2 ELSE cursor + 1
              /\ UNCHANGED <<phase, outcome, loadedSnapshot>>
  /\ UNCHANGED <<walVars, saved, readOrder, sessionVars, stopCount, pending>>

\* The loop skips a SAVE record without moving past it.
replayRecordStuck ==
  /\ phase = "replaying" /\ cursor < Len(walFile)
  /\ LET record == walFile[cursor + 1]
         r == Replay(database_, record)
     IN  IF r.outcome = "threw" THEN database_' = NoDatabase /\ recovered
         ELSE /\ database_' = r.db
              /\ cursor' = IF record.operation = "SaveDatabase" THEN cursor ELSE cursor + 1
              /\ UNCHANGED <<phase, outcome, loadedSnapshot>>
  /\ UNCHANGED <<walVars, saved, readOrder, sessionVars, stopCount, pending>>

\* An exception ends the replay and leaves no database at all.
replayRecord ==
  /\ phase = "replaying" /\ cursor < Len(walFile)
  /\ LET record == walFile[cursor + 1]
         r == Replay(database_, record)
     IN  /\ IF r.outcome = "threw"
            THEN database_' = NoDatabase /\ recovered
            ELSE /\ database_' = r.db
                 /\ cursor' = cursor + 1
                 /\ UNCHANGED <<phase, outcome, loadedSnapshot>>
         /\ IF r.log THEN appendWal(record.operation, record.payload) ELSE UNCHANGED walVars
  /\ UNCHANGED <<saved, readOrder, sessionVars, stopCount, pending>>

replayDone ==
  /\ phase = "replaying" /\ cursor = Len(walFile)
  /\ recovered
  /\ UNCHANGED <<walVars, saved, readOrder, sessionVars, stopCount, database_, pending>>

-----------------------------------------------------------------------------
\* Auxiliary variables record; nothing above reads them.
Remember ==
  /\ history' = IF ~KeepsHistory \/ walFile' = walFile THEN history
                ELSE IF walFile' = << >> THEN <<database_'>>
                ELSE Append(history, database_')
  /\ stopImage' = IF ~KeepsHistory \/ phase # "ready" THEN stopImage
                  ELSE IF phase' = "stopped" THEN database_ ELSE NoDatabase

Next ==
  \/ \E s \in Statements : executeCreateDatabase(s) /\ Remember
  \/ \E s \in Statements : executeCreateTable(s) /\ Remember
  \/ \E s \in Statements : executeDropTable(s) /\ Remember
  \/ \E s \in Statements : executeRenameTable(s) /\ Remember
  \/ \E s \in Statements : executeInsert(s) /\ Remember
  \/ \E s \in Statements : executeUpdate(s) /\ Remember
  \/ \E s \in Statements : executeDelete(s) /\ Remember
  \/ \E s \in Statements : executeCreateIndex(s) /\ Remember
  \/ \E s \in Statements : executeSaveDatabase(s) /\ Remember
  \/ \E s \in Statements : executeLoadDatabase(s) /\ Remember
  \/ \E s \in Statements : executeBegin(s) /\ Remember
  \/ \E s \in Statements : executeCommit(s) /\ Remember
  \/ \E s \in Statements : executeRollback(s) /\ Remember
  \/ insertNextRow /\ Remember
  \/ saveSnapshot /\ Remember
  \/ resetWal /\ Remember
  \/ Stop /\ Remember
  \/ recoverFromStorage /\ Remember
  \/ recoverFromWal /\ Remember
  \/ replayRecord /\ Remember
  \/ replayDone /\ Remember

Spec == Init /\ [][Next]_vars

\* A statement and a constructor are straight-line code: once begun they run to
\* their end, unless the process ends first.
Continue == (insertNextRow \/ saveSnapshot \/ resetWal) /\ Remember
Recover == (recoverFromStorage \/ recoverFromWal \/ replayRecord \/ replayDone) /\ Remember

FairSpec == Spec /\ WF_vars(Continue) /\ WF_vars(Recover)

-----------------------------------------------------------------------------
(* Properties.                                                             *)

(* Every row in memory, in a snapshot to roll back to and in a snapshot    *)
(* file has the type of its column, whether it came from a statement, from *)
(* the log or from a file.  (Table::validateRow and Table::update against  *)
(* the literals that replay parses)                                        *)
RowsFitSchema ==
  /\ RowsFit(database_)
  /\ RowsFit(transactionSnapshot_)
  /\ \A n \in DOMAIN saved : Loadable(n) => RowsFit(saved[n].database)

\* What of a database comes through a save and a load: everything in a build that
\* reads from left to right.
Lasting(db) == IF db = NoDatabase THEN db ELSE Loaded(db)

\* Equal; once there is a snapshot to load, equal up to the index definitions that
\* loading it loses.
Same(x, y) == IF DOMAIN saved = {} THEN x = y ELSE Lasting(x) = Lasting(y)

(* Recovery gives back the database that was in memory when the process    *)
(* ended: the snapshot and the log records after its checkpoint account    *)
(* for every statement that took effect, also for those whose process      *)
(* ended in the middle of them, and also when earlier recoveries were cut  *)
(* short.  A build that reads from right to left loses index definitions   *)
(* to the snapshot, and nothing else.                                      *)
(* (QueryExecutor::recoverFromStorage, recoverFromWal)                     *)
RecoveredState == phase = "ready" /\ outcome = "recovered" => Same(database_, stopImage)

Indexes(db) ==
  IF db = NoDatabase THEN {} ELSE {<<t, db.tables[t].indexes>> : t \in DOMAIN db.tables}

(* Index definitions survive a restart, as docs/design.md says of the      *)
(* snapshots: "Persistence: versioned binary snapshots for database        *)
(* schemas, rows, and index definitions".                                  *)
(* (the index definitions StorageManager::loadDatabase reads)              *)
IndexesRecovered ==
  phase = "ready" /\ outcome = "recovered" => Indexes(database_) = Indexes(stopImage)

(* The log never lags behind memory: what is in memory is what the records *)
(* in the file lead to, up to the index definitions that loading the       *)
(* snapshot lost.  (the appendWal() calls of every handler)                *)
MemoryIsLogged == phase = "ready" => Same(database_, history[Len(history)])

(* Each record, replayed on the database its predecessors lead to, gives   *)
(* the database that its statement left in memory, up to index definitions *)
(* lost in between, without an exception.                                  *)
(* (updateSql and its siblings against Parser and recoverFromWal)          *)
RecordsReplay ==
  /\ Len(history) = Len(walFile) + 1
  /\ \A i \in DOMAIN walFile :
       LET r == Replay(history[i], walFile[i])
       IN  r.outcome # "threw" /\ Same(r.db, history[i + 1])

IsLastSave(k) == k \in {0} \cup Saves /\ \A j \in Saves : j <= k

(* A snapshot file holds the database as of the last SAVE record of the    *)
(* log, which is where replay starts when a snapshot was loaded; without a *)
(* file the log starts from no database.  Between SAVE's record and its    *)
(* snapshot the file is allowed to be the previous one.                    *)
(* (executeSaveDatabase against recoverFromWal's choice of start)          *)
CheckpointIsSaved ==
  /\ DOMAIN saved = {} => history[1] = NoDatabase
  /\ pending.kind # "publish" =>
       \A n \in DOMAIN saved : \A k \in 0..Len(walFile) :
         IsLastSave(k) => saved[n] = Image(history[k + 1])

(* A snapshot to roll back to always belongs to a transaction the manager  *)
(* holds active, whatever was loaded or failed in between: COMMIT and      *)
(* ROLLBACK never report an inconsistent state, and the manager never      *)
(* throws.  (executeBegin, executeCommit, executeRollback,                 *)
(* executeLoadDatabase)                                                    *)
SnapshotHasTransaction ==
  /\ transactionSnapshot_ # NoDatabase => activeTransaction_ # NoTransaction
  /\ activeTransaction_ # NoTransaction => IsActive(activeTransaction_)

(* A statement that throws leaves the database as it was: input is checked *)
(* before anything is changed.  (executeInsert, executeUpdate,             *)
(* executeDelete and the validation they rely on)                          *)
ThrowsChangeNothing ==
  [][outcome' = "threw" /\ phase = "ready" => UNCHANGED <<database_, walFile>>]_vars

(* Recovery only reads: whenever it is cut short, the next process finds   *)
(* the same files.  (the replayingWal_ guard in appendWal)                 *)
RecoveryReadsOnly == [][phase # "ready" => UNCHANGED <<walFile, saved>>]_vars

(* SAVE gives up the log only for a snapshot: when the log is emptied, the *)
(* file of the database in memory has been written since and put in place, *)
(* whole or cut short by a full disk, and no exception on the way there    *)
(* was passed over.  (executeSaveDatabase: saveDatabase throws before      *)
(* wal_.reset() is reached)                                                *)
LogGivenUpForSnapshot ==
  [][walFile # << >> /\ walFile' = << >>
       => /\ database_.name \in DOMAIN saved
          /\ saved[database_.name] \in {Image(database_), Damaged}]_vars

(* A process that starts on a log with an incomplete record never writes   *)
(* to it again: no statement, and SAVE in particular, gets past its append *)
(* to the reset() that would repair the file.  (nextLsn reads the file     *)
(* before the first append; executeSaveDatabase appends before it saves)   *)
TornLogIsFinal ==
  [][phase = "ready" /\ walTorn /\ nextLsn_ = NoLsn => UNCHANGED <<walFile, walTorn, saved>>]_vars

(* A process that starts becomes ready, and a statement that was begun     *)
(* ends.  (recoverFromWal's loop and its exception handler)                *)
Progress ==
  /\ phase = "stopped" ~> phase = "ready"
  /\ pending # Idle ~> pending = Idle

=============================================================================
