---------------------------- MODULE ExecutorProofs ---------------------------
(***************************************************************************)
(* The executor's variables keep their types, for any names, values,       *)
(* statements and faults, and whenever the process ends.                   *)
(*                                                                         *)
(* TypeOK is not inductive: what replay puts into database_ depends on     *)
(* what the log holds, and the loop's position on where the last SAVE      *)
(* record is.  ExecInv adds that every record is one that a handler wrote, *)
(* that there is a last SAVE record, and which phases the rest of a        *)
(* statement and the position belong to.                                   *)
(*                                                                         *)
(* That every row fits its table's column needs the same of the rows an    *)
(* INSERT has still to put in, of the copy ROLLBACK goes back to and of    *)
(* the snapshot files (FitInv).                                            *)
(*                                                                         *)
(* The first part is about the log alone; ImplementsLog carries it over to *)
(* the log the executor writes.                                            *)
(***************************************************************************)
EXTENDS Executor, DatabaseProofs, SequenceTheorems

-----------------------------------------------------------------------------
(* The log on its own, whatever is written to it and whatever fails.       *)
(* LsnAfter picks the successor of the greatest number in the file, so the *)
(* proofs carry along that there is one (HasGreatest): finite sets of      *)
(* numbers have a maximum, but it is cheaper to watch it being appended    *)
(* than to prove that by induction.                                        *)


LsnCandidates(file) == {1} \cup {file[i].lsn + 1 : i \in DOMAIN file}

HasGreatest ==
  \E n \in LsnCandidates(walFile) : \A i \in DOMAIN walFile : walFile[i].lsn < n

WalInv == WalTypeOK /\ HasGreatest

\* What WalTypeOK says of single records.
LEMMA RecordTypes ==
  ASSUME WalTypeOK
  PROVE  /\ Len(walFile) \in Nat
         /\ DOMAIN walFile = 1..Len(walFile)
         /\ \A i \in DOMAIN walFile : walFile[i] \in WalRecord /\ walFile[i].lsn \in Nat
<1>1. walFile \in Seq(WalRecord)
  BY DEF WalTypeOK
<1>2. \A i \in DOMAIN walFile : walFile[i] \in WalRecord
  BY <1>1
<1>3. \A r \in WalRecord : r.lsn \in Nat
  BY DEF WalRecord
<1> QED  BY <1>1, <1>2, <1>3

\* The number nextLsn() computes from a file is above every number in it.
LEMMA LsnAfterType ==
  ASSUME WalInv
  PROVE  /\ LsnAfter(walFile) \in Nat
         /\ \A i \in DOMAIN walFile : walFile[i].lsn < LsnAfter(walFile)
<1> DEFINE n == LsnAfter(walFile)
<1>1. n \in LsnCandidates(walFile) /\ \A i \in DOMAIN walFile : walFile[i].lsn < n
  BY DEF WalInv, HasGreatest, LsnAfter, LsnCandidates
<1>2. \A i \in DOMAIN walFile : walFile[i].lsn + 1 \in Nat
  BY RecordTypes DEF WalInv
<1> QED  BY <1>1, <1>2 DEF LsnCandidates

LEMMA NextLsnType ==
  ASSUME WalInv
  PROVE  nextLsn \in Nat
BY LsnAfterType DEF nextLsn, WalInv, WalTypeOK

\* A record that is appended gets a number, and there is still a greatest one.
LEMMA AppendKeepsWalInv ==
  ASSUME WalInv, NEW op \in Operation, NEW payload \in Payload, append(op, payload)
  PROVE  WalInv'
<1> DEFINE record == Record(op, payload)
<1>1. record \in WalRecord /\ record.lsn = nextLsn /\ nextLsn \in Nat
  BY NextLsnType DEF Record, WalRecord
<1>2. walFile \in Seq(WalRecord) /\ walFile' = Append(walFile, record)
  BY DEF WalInv, WalTypeOK, append
<1>3. /\ Len(walFile') = Len(walFile) + 1 /\ DOMAIN walFile' = 1..(Len(walFile) + 1)
      /\ \A i \in 1..Len(walFile) : walFile'[i] = walFile[i]
      /\ walFile'[Len(walFile) + 1] = record
  BY <1>1, <1>2
<1>4. WalTypeOK'
  BY <1>1, <1>2 DEF WalInv, WalTypeOK, append
<1>5. HasGreatest'
  <2>1. PICK n \in LsnCandidates(walFile) : \A i \in DOMAIN walFile : walFile[i].lsn < n
    BY DEF WalInv, HasGreatest
  <2>2. n \in Nat /\ \A i \in 1..Len(walFile) : walFile[i].lsn \in Nat
    BY <2>1, RecordTypes DEF LsnCandidates, WalInv
  <2>3. CASE nextLsn < n
    <3>1. n \in LsnCandidates(walFile')
      BY <2>1, <1>2, <1>3 DEF LsnCandidates
    <3>2. \A i \in DOMAIN walFile' : walFile'[i].lsn < n
      BY <2>1, <2>3, <1>1, <1>2, <1>3
    <3> QED  BY <3>1, <3>2 DEF HasGreatest
  <2>4. CASE ~(nextLsn < n)
    <3>1. nextLsn + 1 \in LsnCandidates(walFile')
      BY <1>1, <1>3 DEF LsnCandidates
    <3>2. \A i \in DOMAIN walFile' : walFile'[i].lsn < nextLsn + 1
      BY <2>1, <2>2, <2>4, <1>1, <1>2, <1>3
    <3> QED  BY <3>1, <3>2 DEF HasGreatest
  <2> QED  BY <2>3, <2>4
<1> QED  BY <1>4, <1>5 DEF WalInv

\* The steps that leave the file alone, or empty it.
LEMMA OtherStepsKeepWalInv ==
  ASSUME WalInv, appendThrows \/ appendLost \/ reset \/ walStop \/ UNCHANGED walVars
  PROVE  WalInv'
<1>1. walFile' = walFile \/ walFile' = << >>
  BY DEF appendThrows, appendLost, reset, walStop, walVars
<1>2. HasGreatest'
  <2>1. CASE walFile' = walFile
    BY <2>1 DEF WalInv, HasGreatest, LsnCandidates
  <2>2. CASE walFile' = << >>
    BY <2>2 DEF HasGreatest, LsnCandidates
  <2> QED  BY <1>1, <2>1, <2>2
<1>3. walTorn' \in BOOLEAN
  BY DEF WalInv, WalTypeOK, appendThrows, appendLost, reset, walStop, walVars
<1>4. nextLsn_' \in Nat \cup {NoLsn}
  <2>1. nextLsn_' \in {nextLsn + 1, 1, NoLsn, nextLsn_}
    BY Zenon DEF appendThrows, appendLost, reset, walStop, walVars
  <2>2. nextLsn_ \in Nat \cup {NoLsn} /\ nextLsn \in Nat
    BY NextLsnType DEF WalInv, WalTypeOK
  <2> QED  BY <2>1, <2>2
<1>5. walFile' \in Seq(WalRecord)
  <2>1. << >> \in Seq(WalRecord)
    OBVIOUS
  <2>2. walFile \in Seq(WalRecord)
    BY DEF WalInv, WalTypeOK
  <2> QED  BY <1>1, <2>1, <2>2
<1> QED  BY <1>2, <1>3, <1>4, <1>5 DEF WalInv, WalTypeOK

LEMMA WalInitInv == ASSUME WalInit PROVE WalInv
<1>1. walFile = << >> /\ walTorn = FALSE /\ nextLsn_ = NoLsn
  BY DEF WalInit
<1>2. << >> \in Seq(WalRecord)
  OBVIOUS
<1>3. HasGreatest
  BY <1>1 DEF HasGreatest, LsnCandidates
<1> QED  BY <1>1, <1>2, <1>3, Zenon DEF WalInv, WalTypeOK

(* The log keeps its types: every record ever written has a sequence       *)
(* number, whatever fails.  (WriteAheadLog::append, reset and nextLsn)     *)
THEOREM WalTypeCorrect == WalSpec => []WalTypeOK
<1>1. WalInit => WalInv
  BY WalInitInv
<1>2. WalInv /\ [WalNext]_walVars => WalInv'
  BY AppendKeepsWalInv, OtherStepsKeepWalInv DEF WalNext
<1>3. WalInv => WalTypeOK
  BY DEF WalInv
<1> QED  BY <1>1, <1>2, <1>3, PTL DEF WalSpec

-----------------------------------------------------------------------------
(* Sequence numbers.  LsnIncreasing is not inductive by itself: a process  *)
(* numbers its records from its own counter, which has to be above what    *)
(* is in the file (LsnAhead), and takes the counter from the file when it  *)
(* has none (LsnAfterType).                                                *)

LsnInv == WalInv /\ LsnIncreasing /\ LsnAhead

LEMMA NextLsnAhead ==
  ASSUME LsnInv
  PROVE  nextLsn \in Nat /\ \A i \in DOMAIN walFile : walFile[i].lsn < nextLsn
<1>1. nextLsn \in Nat
  BY NextLsnType DEF LsnInv
<1>2. CASE nextLsn_ = NoLsn
  BY <1>1, <1>2, LsnAfterType DEF LsnInv, nextLsn
<1>3. CASE nextLsn_ # NoLsn
  BY <1>1, <1>3 DEF LsnInv, nextLsn, LsnAhead
<1> QED  BY <1>2, <1>3

LEMMA AppendKeepsLsnInv ==
  ASSUME LsnInv, NEW op \in Operation, NEW payload \in Payload, append(op, payload)
  PROVE  LsnInv'
<1>1. WalInv'
  BY AppendKeepsWalInv DEF LsnInv
<1>2. /\ nextLsn \in Nat /\ nextLsn_' = nextLsn + 1
      /\ \A i \in DOMAIN walFile : walFile[i].lsn < nextLsn /\ walFile[i].lsn \in Nat
  BY NextLsnAhead, RecordTypes DEF LsnInv, WalInv, append
<1>3. /\ DOMAIN walFile = 1..Len(walFile) /\ Len(walFile) \in Nat
      /\ DOMAIN walFile' = 1..(Len(walFile) + 1)
      /\ \A i \in 1..Len(walFile) : walFile'[i].lsn = walFile[i].lsn
      /\ walFile'[Len(walFile) + 1].lsn = nextLsn
  <2>1. walFile \in Seq(WalRecord) /\ walFile' = Append(walFile, Record(op, payload))
    BY DEF LsnInv, WalInv, WalTypeOK, append
  <2>2. Record(op, payload) \in WalRecord /\ Record(op, payload).lsn = nextLsn
    BY <1>2 DEF Record, WalRecord
  <2> QED  BY <2>1, <2>2
<1>4. LsnIncreasing'
  <2> SUFFICES ASSUME NEW i \in DOMAIN walFile', NEW j \in DOMAIN walFile', i < j
               PROVE  walFile'[i].lsn < walFile'[j].lsn
    BY DEF LsnIncreasing
  <2>1. CASE j = Len(walFile) + 1
    BY <2>1, <1>2, <1>3
  <2>2. CASE j # Len(walFile) + 1
    BY <2>2, <1>3 DEF LsnInv, LsnIncreasing
  <2> QED  BY <2>1, <2>2
<1>5. LsnAhead'
  BY <1>2, <1>3 DEF LsnAhead
<1> QED  BY <1>1, <1>4, <1>5 DEF LsnInv

LEMMA OtherStepsKeepLsnInv ==
  ASSUME LsnInv, "TruncateFails" \notin WalFaults,
         appendThrows \/ appendLost \/ reset \/ walStop \/ UNCHANGED walVars
  PROVE  LsnInv'
<1>1. WalInv'
  BY OtherStepsKeepWalInv DEF LsnInv
<1>2. walFile' = << >> \/ (walFile' = walFile /\ nextLsn_' \in {nextLsn + 1, NoLsn, nextLsn_})
  BY Zenon DEF appendThrows, appendLost, reset, walStop, walVars
<1>3. CASE walFile' = << >>
  BY <1>1, <1>3 DEF LsnInv, LsnIncreasing, LsnAhead
<1>4. CASE walFile' = walFile /\ nextLsn_' \in {nextLsn + 1, NoLsn, nextLsn_}
  <2>1. LsnIncreasing'
    BY <1>4 DEF LsnInv, LsnIncreasing
  <2>2. LsnAhead'
    <3>1. /\ nextLsn \in Nat
          /\ \A i \in DOMAIN walFile : walFile[i].lsn < nextLsn /\ walFile[i].lsn \in Nat
      BY NextLsnAhead, RecordTypes DEF LsnInv, WalInv
    <3>2. nextLsn_' = nextLsn_ => LsnAhead'
      BY <1>4 DEF LsnInv, LsnAhead
    <3> QED  BY <1>4, <3>1, <3>2 DEF LsnAhead
  <2> QED  BY <1>1, <2>1, <2>2 DEF LsnInv
<1> QED  BY <1>2, <1>3, <1>4

LEMMA WalInitLsnInv == ASSUME WalInit PROVE LsnInv
<1>1. walFile = << >>
  BY DEF WalInit
<1> QED  BY <1>1, WalInitInv DEF LsnInv, LsnIncreasing, LsnAhead

(* Sequence numbers increase along the file, over failed appends, lost     *)
(* records, checkpoints and restarts, unless a truncation fails unnoticed: *)
(* then the counter restarts below the records that are still there.       *)
(* (WriteAheadLog::nextLsn, reset)                                         *)
THEOREM SequenceNumbersIncrease ==
  ASSUME "TruncateFails" \notin WalFaults
  PROVE  WalSpec => []LsnIncreasing
<1>1. WalInit => LsnInv
  BY WalInitLsnInv
<1>2. LsnInv /\ [WalNext]_walVars => LsnInv'
  BY AppendKeepsLsnInv, OtherStepsKeepLsnInv DEF WalNext
<1>3. LsnInv => LsnIncreasing
  BY DEF LsnInv
<1> QED  BY <1>1, <1>2, <1>3, PTL DEF WalSpec


-----------------------------------------------------------------------------
(* The log as the executor writes it.                                      *)

IsLogged(op, payload) ==
  \/ /\ op \in {"CreateDatabase", "SaveDatabase"}
     /\ \E name \in DbName : payload = NamePayload(name)
  \/ \E s \in Statements : s.type \in Mutation /\ op = s.type /\ payload = Sql(s)
  \/ op = "Insert" /\ \E t \in TableName, v \in Value : payload = insertSql(t, v)

LogInv ==
  /\ WalInv
  /\ \A i \in DOMAIN walFile : IsLogged(walFile[i].operation, walFile[i].payload)
  /\ \E k \in 0..Len(walFile) : IsLastSave(k)

\* Statements by type.
LEMMA StatementTypes ==
  ASSUME NEW s \in Statements
  PROVE  /\ s.type \in Mutation \cup {"Insert"} => s \in Statement /\ Named(s)
         /\ s.type = "CreateDatabase" => s.name \in DbName
         /\ s.type = "Load" => s.name \in DbName \cup {NoName}
<1>1. s \in Request
  BY StatementsAssumption
<1>2. s.type \in Mutation \cup {"Insert"} => s \in Statement
  BY <1>1 DEF Request, Mutation
<1>3. s.type = "CreateDatabase" => s.name \in DbName
  BY <1>1 DEF Request, Statement
<1>4. s.type = "Load" => s.name \in DbName \cup {NoName}
  BY <1>1 DEF Request, Statement
<1> QED  BY <1>2, <1>3, <1>4, StatementNamed

LEMMA LoggedTypes ==
  ASSUME NEW op, NEW payload, IsLogged(op, payload)
  PROVE  op \in Operation /\ payload \in Payload
BY LogAssumption DEF IsLogged

\* What an append does to the file.
LEMMA AppendShape ==
  ASSUME LogInv, NEW op, NEW payload, IsLogged(op, payload), append(op, payload)
  PROVE  /\ Len(walFile) \in Nat /\ DOMAIN walFile = 1..Len(walFile)
         /\ Len(walFile') = Len(walFile) + 1 /\ DOMAIN walFile' = 1..(Len(walFile) + 1)
         /\ \A i \in 1..Len(walFile) : walFile'[i] = walFile[i]
         /\ walFile'[Len(walFile) + 1].operation = op
         /\ walFile'[Len(walFile) + 1].payload = payload
         /\ walFile' # walFile /\ walFile' # << >>
<1>1. op \in Operation /\ payload \in Payload
  BY LoggedTypes
<1>2. Record(op, payload) \in WalRecord
  BY <1>1, NextLsnType DEF Record, WalRecord, LogInv
<1>3. Record(op, payload).operation = op /\ Record(op, payload).payload = payload
  BY DEF Record
<1>4. walFile \in Seq(WalRecord) /\ walFile' = Append(walFile, Record(op, payload))
  BY DEF LogInv, WalInv, WalTypeOK, append
<1>5. /\ Len(walFile) \in Nat /\ DOMAIN walFile = 1..Len(walFile)
      /\ Len(walFile') = Len(walFile) + 1 /\ DOMAIN walFile' = 1..(Len(walFile) + 1)
      /\ \A i \in 1..Len(walFile) : walFile'[i] = walFile[i]
      /\ walFile'[Len(walFile) + 1] = Record(op, payload)
  BY <1>2, <1>4
<1> QED  BY <1>3, <1>5

LEMMA AppendKeepsLogInv ==
  ASSUME LogInv, NEW op, NEW payload, IsLogged(op, payload), append(op, payload)
  PROVE  LogInv'
<1>1. WalInv'
  BY AppendKeepsWalInv, LoggedTypes DEF LogInv
<1>2. \A i \in DOMAIN walFile' : IsLogged(walFile'[i].operation, walFile'[i].payload)
  BY AppendShape DEF LogInv
<1>3. \E k \in 0..Len(walFile') : IsLastSave(k)'
  <2>1. PICK k \in 0..Len(walFile) : IsLastSave(k)
    BY DEF LogInv
  <2>2. CASE op = "SaveDatabase"
    <3>1. IsLastSave(Len(walFile))'
      BY <2>2, AppendShape DEF IsLastSave, Saves
    <3> QED  BY <3>1, AppendShape
  <2>3. CASE op # "SaveDatabase"
    <3>1. Saves' = Saves
      BY <2>3, AppendShape DEF Saves
    <3>2. IsLastSave(k)'
      BY <2>1, <3>1 DEF IsLastSave
    <3> QED  BY <3>2, AppendShape
  <2> QED  BY <2>2, <2>3
<1> QED  BY <1>1, <1>2, <1>3 DEF LogInv

LEMMA OtherStepsKeepLogInv ==
  ASSUME LogInv, appendThrows \/ appendLost \/ reset \/ walStop \/ UNCHANGED walVars
  PROVE  LogInv'
<1>1. WalInv'
  BY OtherStepsKeepWalInv DEF LogInv
<1>2. walFile' = walFile \/ walFile' = << >>
  BY Zenon DEF appendThrows, appendLost, reset, walStop, walVars
<1>3. CASE walFile' = walFile
  <2>1. Saves' = Saves
    BY <1>3 DEF Saves
  <2> QED  BY <1>1, <1>3, <2>1 DEF LogInv, IsLastSave
<1>4. CASE walFile' = << >>
  <2>1. Len(walFile') = 0 /\ DOMAIN walFile' = {}
    BY <1>4
  <2>2. Saves' = {}
    BY <2>1 DEF Saves
  <2>3. IsLastSave(0)'
    BY <2>2 DEF IsLastSave
  <2> QED  BY <1>1, <2>1, <2>3 DEF LogInv
<1> QED  BY <1>2, <1>3, <1>4

LEMMA AppendWalKeepsLogInv ==
  ASSUME LogInv, NEW op, NEW payload, IsLogged(op, payload),
         appendWal(op, payload) \/ appendWalThrows
  PROVE  LogInv'
BY AppendKeepsLogInv, OtherStepsKeepLogInv DEF appendWal, appendWalThrows

-----------------------------------------------------------------------------
(* The other parts of the state.                                           *)

SessionInv ==
  /\ TransactionTypeOK
  /\ IsDatabase(transactionSnapshot_)
  /\ activeTransaction_ \in Nat \cup {NoTransaction}

\* What remains of a statement, and the position of the replay.
ControlInv ==
  /\ phase \in {"stopped", "loaded", "replaying", "ready"}
  /\ pending \in Pending
  /\ outcome \in Outcome
  /\ loadedSnapshot \in BOOLEAN
  /\ cursor \in 0..Len(walFile)
  /\ stopCount \in Nat
  /\ phase # "replaying" => cursor = 0
  /\ pending # Idle => phase = "ready"

DataInv ==
  /\ IsDatabase(database_)
  /\ pending.kind \in {"publish", "reset"} => database_ # NoDatabase
  /\ pending.kind = "insert" => HasTable(database_, pending.table)

ExecInv == LogInv /\ IsStorage /\ SessionInv /\ ControlInv /\ DataInv

LEMMA ExecInvTypes == ASSUME ExecInv PROVE TypeOK
BY DEF ExecInv, LogInv, WalInv, SessionInv, ControlInv, DataInv, TypeOK

LEMMA NoDatabaseIsDatabase == IsDatabase(NoDatabase)
BY DEF IsDatabase

LEMMA NewDatabaseIsDatabase ==
  ASSUME NEW name \in DbName
  PROVE  IsDatabase(DatabaseNew(name)) /\ DatabaseNew(name) # NoDatabase
<1>1. DatabaseNew(name) = [name |-> name, tables |-> << >>]
  BY DEF DatabaseNew
<1>2. DOMAIN << >> = {} /\ << >> = [t \in DOMAIN << >> |-> << >>[t]]
  OBVIOUS
<1> QED  BY <1>1, <1>2 DEF IsDatabase, NoDatabase

LEMMA IdleKind == Idle \in Pending /\ Idle.kind = "idle"
BY DEF Idle, Pending

LEMMA StorageFrame == ASSUME IsStorage, UNCHANGED <<saved, readOrder>> PROVE IsStorage'
BY DEF IsStorage

LEMMA SessionFrame == ASSUME SessionInv, UNCHANGED sessionVars PROVE SessionInv'
BY DEF SessionInv, sessionVars, TransactionTypeOK, transactionVars

\* A step of a statement: the process is ready and stays so.
LEMMA StatementControl ==
  ASSUME ControlInv, LogInv', phase = "ready", UNCHANGED recoveryVars,
         pending' \in Pending, outcome' \in Outcome
  PROVE  ControlInv'
<1>1. Len(walFile') \in Nat
  BY DEF LogInv, WalInv, WalTypeOK
<1>2. phase' = phase /\ loadedSnapshot' = loadedSnapshot /\ cursor' = 0 /\ stopCount' = stopCount
  BY DEF ControlInv, recoveryVars
<1> QED  BY <1>1, <1>2 DEF ControlInv

LEMMA ReadyIdle == ASSUME Ready PROVE phase = "ready" /\ pending = Idle
BY DEF Ready

-----------------------------------------------------------------------------
(* Statements.                                                             *)

LEMMA CreateDatabaseStep ==
  ASSUME ExecInv, NEW s \in Statements, executeCreateDatabase(s)
  PROVE  ExecInv'
<1>1. s.name \in DbName /\ IsLogged("CreateDatabase", NamePayload(s.name))
  BY StatementTypes DEF executeCreateDatabase, IsLogged
<1>2. LogInv'
  BY <1>1, AppendWalKeepsLogInv DEF executeCreateDatabase, ExecInv
<1>3. IsStorage' /\ SessionInv'
  BY StorageFrame, SessionFrame DEF executeCreateDatabase, ExecInv
<1>4. pending' = Idle /\ outcome' \in Outcome /\ phase = "ready" /\ UNCHANGED recoveryVars
  BY ReadyIdle DEF executeCreateDatabase, Outcome
<1>5. ControlInv'
  BY <1>2, <1>4, IdleKind, StatementControl DEF ExecInv
<1>6. database_' = DatabaseNew(s.name) \/ database_' = database_
  BY Zenon DEF executeCreateDatabase
<1>7. DataInv'
  BY <1>1, <1>4, <1>6, NewDatabaseIsDatabase, IdleKind DEF DataInv, ExecInv
<1> QED  BY <1>2, <1>3, <1>5, <1>7 DEF ExecInv

LEMMA MutationStep ==
  ASSUME ExecInv, NEW s \in Statements, s.type \in Mutation, Ready, mutateThenLog(s)
  PROVE  ExecInv'
<1> DEFINE r == Apply(database_, s)
<1>1. Named(s) /\ IsLogged(s.type, Sql(s))
  BY StatementTypes DEF IsLogged
<1>2. LogInv'
  BY <1>1, AppendWalKeepsLogInv, OtherStepsKeepLogInv DEF mutateThenLog, ExecInv
<1>3. IsStorage' /\ SessionInv'
  BY StorageFrame, SessionFrame DEF mutateThenLog, ExecInv
<1>4. IsDatabase(r.db) /\ r.outcome \in Returned
  BY <1>1, ApplyFacts DEF ExecInv, DataInv
<1>5. /\ pending' = Idle /\ database_' = r.db /\ outcome' \in {r.outcome, "threw"}
      /\ phase = "ready" /\ UNCHANGED recoveryVars
  BY ReadyIdle DEF mutateThenLog
<1> HIDE DEF r
<1>6. outcome' \in Outcome
  BY <1>4, <1>5 DEF Outcome, Returned
<1>7. ControlInv'
  BY <1>2, <1>5, <1>6, IdleKind, StatementControl DEF ExecInv
<1>8. DataInv'
  BY <1>4, <1>5, IdleKind DEF DataInv
<1> QED  BY <1>2, <1>3, <1>7, <1>8 DEF ExecInv

LEMMA InsertPending ==
  ASSUME NEW p \in Pending, p.kind = "insert"
  PROVE  /\ p.table \in TableName /\ p.rows \in Seq(Value) /\ p.rows # << >>
         /\ p = [kind |-> "insert", table |-> p.table, rows |-> p.rows]
<1>1. p \in [kind : {"insert"}, table : TableName, rows : Seq(Value) \ {<< >>}]
  BY DEF Pending, Idle
<1> QED  BY <1>1

LEMMA InsertStep ==
  ASSUME ExecInv, NEW s \in Statements, executeInsert(s)
  PROVE  ExecInv'
<1>1. LogInv' /\ IsStorage' /\ SessionInv'
  BY OtherStepsKeepLogInv, StorageFrame, SessionFrame DEF executeInsert, ExecInv
<1>2. s \in [type : {"Insert"}, table : TableName, rows : Seq(Value) \ {<< >>}]
  BY StatementTypes DEF executeInsert, Statement
<1> DEFINE begun == [kind |-> "insert", table |-> s.table, rows |-> s.rows]
<1>3. begun \in Pending
  BY <1>2 DEF Pending
<1>4. \/ pending' = begun /\ HasTable(database_, s.table) /\ outcome' = "running"
      \/ pending' = Idle /\ outcome' = "threw"
  BY ReadyIdle DEF executeInsert, validateRows
<1>5. phase = "ready" /\ UNCHANGED recoveryVars /\ database_' = database_
  BY ReadyIdle DEF executeInsert
<1>6. ControlInv'
  BY <1>1, <1>3, <1>4, <1>5, IdleKind, StatementControl DEF ExecInv, Outcome
<1>7. DataInv'
  <2>1. IsDatabase(database_)
    BY DEF ExecInv, DataInv
  <2>2. begun.kind = "insert" /\ begun.table = s.table
    OBVIOUS
  <2> HIDE DEF begun
  <2> QED  BY <2>1, <2>2, <1>4, <1>5, IdleKind DEF DataInv
<1> QED  BY <1>1, <1>6, <1>7 DEF ExecInv

LEMMA InsertNextRowStep ==
  ASSUME ExecInv, insertNextRow
  PROVE  ExecInv'
<1> DEFINE row == Head(pending.rows)
           after == insertRow(database_, pending.table, row)
           rest == [pending EXCEPT !.rows = Tail(@)]
<1>1. pending \in Pending /\ pending.kind = "insert" /\ phase = "ready"
  BY DEF insertNextRow, ExecInv, ControlInv
<1>2. pending.table \in TableName /\ row \in Value
  BY <1>1, InsertPending
<1>3. IsLogged("Insert", insertSql(pending.table, row))
  BY <1>2 DEF IsLogged
<1>4. LogInv'
  BY <1>3, AppendWalKeepsLogInv DEF insertNextRow, ExecInv
<1>5. IsStorage' /\ SessionInv' /\ UNCHANGED recoveryVars
  BY StorageFrame, SessionFrame DEF insertNextRow, ExecInv
<1>6. \/ /\ database_' = after
         /\ \/ Len(pending.rows) = 1 /\ pending' = Idle /\ outcome' = "ok"
            \/ Len(pending.rows) # 1 /\ pending' = rest /\ outcome' = outcome
      \/ database_' = database_ /\ pending' = Idle /\ outcome' = "threw"
  BY DEF insertNextRow
<1>7. Len(pending.rows) # 1 => rest \in Pending /\ rest.kind = "insert" /\ rest.table = pending.table
  <2> SUFFICES ASSUME Len(pending.rows) # 1
               PROVE  rest \in Pending /\ rest.kind = "insert" /\ rest.table = pending.table
    OBVIOUS
  <2>1. rest = [kind |-> "insert", table |-> pending.table, rows |-> Tail(pending.rows)]
    BY <1>1, InsertPending
  <2>2. Tail(pending.rows) \in Seq(Value) /\ Tail(pending.rows) # << >>
    <3>1. pending.rows \in Seq(Value) /\ pending.rows # << >>
      BY <1>1, InsertPending
    <3>2. Len(pending.rows) \in Nat \ {0}
      BY <3>1, EmptySeq
    <3>3. Tail(pending.rows) \in Seq(Value) /\ Len(Tail(pending.rows)) = Len(pending.rows) - 1
      BY <3>1, HeadTailProperties
    <3>4. Len(Tail(pending.rows)) # 0
      BY <3>2, <3>3
    <3> QED  BY <3>3, <3>4, EmptySeq
  <2> QED  BY <1>2, <2>1, <2>2 DEF Pending
<1>8. ControlInv'
  <2>1. pending' \in Pending /\ outcome' \in Outcome
    BY <1>6, <1>7, IdleKind DEF ExecInv, ControlInv, Outcome
  <2> QED  BY <1>1, <1>4, <1>5, <2>1, StatementControl DEF ExecInv
<1>9. IsDatabase(database_) /\ IsDatabase(after) /\ HasTable(after, pending.table)
  BY <1>1, InsertFacts DEF ExecInv, DataInv
<1> HIDE DEF after, rest
<1>10. DataInv'
  BY <1>6, <1>7, <1>9, IdleKind DEF DataInv
<1> QED  BY <1>4, <1>5, <1>8, <1>10 DEF ExecInv

-----------------------------------------------------------------------------
(* SAVE and LOAD.                                                          *)

LEMMA DatabaseHasName ==
  ASSUME ExecInv, database_ # NoDatabase
  PROVE  database_.name \in DbName
BY DEF ExecInv, DataInv, IsDatabase

LEMMA SaveStep ==
  ASSUME ExecInv, NEW s \in Statements, executeSaveDatabase(s)
  PROVE  ExecInv'
<1>1. database_ # NoDatabase => IsLogged("SaveDatabase", NamePayload(database_.name))
  BY DatabaseHasName DEF IsLogged
<1>2. LogInv'
  BY <1>1, AppendWalKeepsLogInv, OtherStepsKeepLogInv DEF executeSaveDatabase, ExecInv
<1>3. IsStorage' /\ SessionInv'
  BY StorageFrame, SessionFrame DEF executeSaveDatabase, ExecInv
<1>4. /\ outcome' \in Outcome /\ phase = "ready" /\ UNCHANGED recoveryVars /\ database_' = database_
      /\ pending' = Idle \/ (pending' = [kind |-> "publish"] /\ database_ # NoDatabase)
  BY ReadyIdle DEF executeSaveDatabase, Outcome
<1>5. [kind |-> "publish"] \in Pending
  BY DEF Pending
<1>6. ControlInv'
  BY <1>2, <1>4, <1>5, IdleKind, StatementControl DEF ExecInv
<1>7. DataInv'
  BY <1>4, IdleKind DEF DataInv, ExecInv
<1> QED  BY <1>2, <1>3, <1>6, <1>7 DEF ExecInv

LEMMA PublishStorage ==
  ASSUME IsStorage, IsDatabase(database_), database_ # NoDatabase,
         publish(database_) \/ publishDamaged(database_) \/ saveThrows(database_)
  PROVE  IsStorage'
<1>1. database_.name \in DbName
  BY DEF IsDatabase
<1>2. Image(database_) = Image(Image(database_).database) /\ Image(database_).database = database_
  BY DEF Image
<1>3. CASE publish(database_)
  <2>1. DOMAIN saved' \subseteq DbName
    BY <1>1, <1>3 DEF publish, IsStorage
  <2>2. \A n \in DOMAIN saved' :
          saved'[n] = Image(database_) \/ (n \in DOMAIN saved /\ saved'[n] = saved[n])
    BY <1>3 DEF publish
  <2>3. readOrder' = readOrder
    BY <1>3 DEF publish
  <2> QED  BY <1>2, <2>1, <2>2, <2>3 DEF IsStorage
<1>4. CASE publishDamaged(database_)
  <2>1. DOMAIN saved' \subseteq DbName
    BY <1>1, <1>4 DEF publishDamaged, IsStorage
  <2>2. \A n \in DOMAIN saved' :
          saved'[n] = Damaged \/ (n \in DOMAIN saved /\ saved'[n] = saved[n])
    BY <1>4 DEF publishDamaged
  <2>3. readOrder' = readOrder
    BY <1>4 DEF publishDamaged
  <2> QED  BY <2>1, <2>2, <2>3 DEF IsStorage
<1>5. CASE saveThrows(database_)
  BY <1>5 DEF saveThrows, IsStorage
<1> QED  BY <1>3, <1>4, <1>5

LEMMA SaveSnapshotStep ==
  ASSUME ExecInv, saveSnapshot
  PROVE  ExecInv'
<1>1. LogInv' /\ SessionInv'
  BY OtherStepsKeepLogInv, SessionFrame DEF saveSnapshot, ExecInv
<1>2. database_ # NoDatabase /\ IsDatabase(database_)
  BY DEF saveSnapshot, ExecInv, DataInv
<1>3. IsStorage'
  BY <1>2, PublishStorage DEF saveSnapshot, ExecInv
<1>4. /\ \/ pending' = [kind |-> "reset"] /\ outcome' = outcome
         \/ pending' = Idle /\ outcome' = "threw"
      /\ phase = "ready" /\ UNCHANGED recoveryVars /\ database_' = database_
  BY DEF saveSnapshot
<1>5. [kind |-> "reset"] \in Pending
  BY DEF Pending
<1>6. ControlInv'
  <2>1. pending' \in Pending /\ outcome' \in Outcome
    BY <1>4, <1>5, IdleKind DEF ExecInv, ControlInv, Outcome
  <2> QED  BY <1>1, <1>4, <2>1, StatementControl DEF ExecInv
<1>7. DataInv'
  BY <1>2, <1>4, IdleKind DEF DataInv
<1> QED  BY <1>1, <1>3, <1>6, <1>7 DEF ExecInv

LEMMA ResetWalStep ==
  ASSUME ExecInv, resetWal
  PROVE  ExecInv'
<1>1. LogInv' /\ IsStorage' /\ SessionInv'
  BY OtherStepsKeepLogInv, StorageFrame, SessionFrame DEF resetWal, ExecInv
<1>2. /\ pending' = Idle /\ outcome' = "ok" /\ phase = "ready" /\ UNCHANGED recoveryVars
      /\ database_' = database_
  BY DEF resetWal
<1>3. ControlInv'
  BY <1>1, <1>2, IdleKind, StatementControl DEF ExecInv, Outcome
<1>4. DataInv'
  BY <1>2, IdleKind DEF DataInv, ExecInv
<1> QED  BY <1>1, <1>3, <1>4 DEF ExecInv

\* What loading makes of a database.
LEMMA LoadedFields ==
  ASSUME NEW db
  PROVE  /\ Loaded(db).name = db.name
         /\ Loaded(db).tables = [t \in DOMAIN db.tables |-> LoadedTable(db.tables[t])]
         /\ Loaded(db) = [name |-> Loaded(db).name, tables |-> Loaded(db).tables]
         /\ Loaded(db) # NoDatabase
BY DEF Loaded, NoDatabase

LEMMA LoadedTableFields ==
  ASSUME NEW table
  PROVE  /\ LoadedTable(table).column = table.column
         /\ LoadedTable(table).rows = table.rows
         /\ LoadedTable(table).indexes = loadedIndexes(table.indexes)
BY DEF LoadedTable

LEMMA LoadingKeepsTypes ==
  ASSUME NEW db, IsDatabase(db), db # NoDatabase
  PROVE  IsDatabase(Loaded(db)) /\ Loaded(db) # NoDatabase
<1> DEFINE l == Loaded(db)
<1>1. /\ l.name \in DbName /\ l = [name |-> l.name, tables |-> l.tables] /\ l # NoDatabase
      /\ l.tables = [t \in DOMAIN db.tables |-> LoadedTable(db.tables[t])]
  BY LoadedFields DEF IsDatabase
<1> HIDE DEF l
<1>2. DOMAIN l.tables = DOMAIN db.tables /\ l.tables = [t \in DOMAIN l.tables |-> l.tables[t]]
  BY <1>1
<1>3. ASSUME NEW t \in DOMAIN db.tables
      PROVE  IsTable(LoadedTable(db.tables[t]))
  <2>1. db.tables[t].column \in Column /\ db.tables[t].indexes \subseteq IndexName
    BY DEF IsDatabase, IsTable
  <2>2. loadedIndexes(db.tables[t].indexes) \subseteq IndexName
    BY <2>1 DEF loadedIndexes
  <2> QED  BY <2>1, <2>2 DEF IsTable, LoadedTable
<1>4. \A t \in DOMAIN l.tables : IsTable(l.tables[t])
  BY <1>1, <1>2, <1>3
<1>5. DOMAIN l.tables \subseteq TableName
  BY <1>2 DEF IsDatabase
<1>6. IsDatabase(l) /\ l # NoDatabase
  BY <1>1, <1>2, <1>4, <1>5 DEF IsDatabase
<1> QED  BY <1>6 DEF l

LEMMA LoadedIsDatabase ==
  ASSUME IsStorage, NEW n, Loadable(n)
  PROVE  IsDatabase(Loaded(saved[n].database))
<1>1. saved[n] # Damaged
  BY DEF Loadable, Damaged
<1>2. IsDatabase(saved[n].database) /\ saved[n].database # NoDatabase
  BY <1>1 DEF IsStorage, Loadable
<1> QED  BY <1>2, LoadingKeepsTypes

LEMMA LoadStep ==
  ASSUME ExecInv, NEW s \in Statements, executeLoadDatabase(s)
  PROVE  ExecInv'
<1>1. LogInv' /\ IsStorage'
  BY OtherStepsKeepLogInv, StorageFrame DEF executeLoadDatabase, ExecInv
<1>2. IsDatabase(database_')
  BY LoadedIsDatabase DEF executeLoadDatabase, ExecInv, DataInv
<1>3. transactionSnapshot_' \in {transactionSnapshot_, NoDatabase}
      /\ UNCHANGED <<activeTransaction_, transactions_, nextId_>>
  BY DEF executeLoadDatabase, transactionVars
<1>4. SessionInv'
  BY <1>3, NoDatabaseIsDatabase DEF ExecInv, SessionInv, TransactionTypeOK
<1>5. pending' = Idle /\ outcome' \in Outcome /\ phase = "ready" /\ UNCHANGED recoveryVars
  BY ReadyIdle DEF executeLoadDatabase, Outcome
<1>6. ControlInv'
  BY <1>1, <1>5, IdleKind, StatementControl DEF ExecInv
<1>7. DataInv'
  BY <1>2, <1>5, IdleKind DEF DataInv
<1> QED  BY <1>1, <1>4, <1>6, <1>7 DEF ExecInv

-----------------------------------------------------------------------------
(* Transactions.                                                           *)

LEMMA BeginTypes ==
  ASSUME TransactionTypeOK, begin
  PROVE  TransactionTypeOK' /\ nextId_ \in Nat
<1>1. nextId_ \in Nat \ {0} /\ nextId_' = nextId_ + 1 /\ DOMAIN transactions_ = 1..(nextId_ - 1)
  BY DEF TransactionTypeOK, begin
<1>2. DOMAIN transactions_ \cup {nextId_} = 1..nextId_
  BY <1>1
<1>3. transactions_' \in [1..nextId_ -> TransactionState]
  BY <1>1, <1>2 DEF TransactionTypeOK, begin, TransactionState
<1> QED  BY <1>1, <1>3 DEF TransactionTypeOK

LEMMA FinishTypes ==
  ASSUME TransactionTypeOK, NEW id, NEW state \in TransactionState, finish(id, state)
  PROVE  TransactionTypeOK'
BY DEF TransactionTypeOK, finish

LEMMA TransactionStep ==
  ASSUME ExecInv, NEW s \in Statements, executeBegin(s) \/ executeCommit(s) \/ executeRollback(s)
  PROVE  ExecInv'
<1>1. UNCHANGED walVars /\ UNCHANGED <<saved, readOrder>> /\ UNCHANGED recoveryVars
  BY DEF executeBegin, executeCommit, executeRollback
<1>2. LogInv' /\ IsStorage'
  BY <1>1, OtherStepsKeepLogInv, StorageFrame DEF ExecInv
<1>3. phase = "ready" /\ pending' = Idle /\ outcome' \in Outcome
  BY ReadyIdle DEF executeBegin, executeCommit, executeRollback, Outcome
<1>4. ControlInv'
  BY <1>1, <1>2, <1>3, IdleKind, StatementControl DEF ExecInv
<1>5. SessionInv'
  <2>1. SessionInv /\ IsDatabase(database_)
    BY DEF ExecInv, DataInv
  <2>2. CASE UNCHANGED sessionVars
    BY <2>1, <2>2, SessionFrame
  <2>3. CASE begin /\ activeTransaction_' = nextId_ /\ transactionSnapshot_' = database_
    BY <2>1, <2>3, BeginTypes DEF SessionInv
  <2>4. CASE /\ \E state \in TransactionState : finish(activeTransaction_, state)
             /\ activeTransaction_' = NoTransaction /\ transactionSnapshot_' = NoDatabase
    BY <2>1, <2>4, FinishTypes, NoDatabaseIsDatabase DEF SessionInv
  <2>5. {"Committed", "RolledBack"} \subseteq TransactionState
    BY DEF TransactionState
  <2> QED  BY <2>2, <2>3, <2>4, <2>5 DEF executeBegin, executeCommit, executeRollback
<1>6. database_' \in {database_, transactionSnapshot_}
  BY DEF executeBegin, executeCommit, executeRollback
<1>7. DataInv'
  BY <1>3, <1>6, IdleKind DEF DataInv, ExecInv, SessionInv
<1> QED  BY <1>2, <1>4, <1>5, <1>7 DEF ExecInv

-----------------------------------------------------------------------------
(* The end of the process, and recovery.                                   *)

LEMMA StopStep ==
  ASSUME ExecInv, Stop
  PROVE  ExecInv'
<1>1. LogInv' /\ IsStorage'
  BY OtherStepsKeepLogInv, StorageFrame DEF Stop, ExecInv
<1>2. SessionInv'
  <2>1. /\ transactions_' = << >> /\ nextId_' = 1
        /\ transactionSnapshot_' = NoDatabase /\ activeTransaction_' = NoTransaction
    BY DEF Stop, transactionStop
  <2>2. << >> \in [1..0 -> TransactionState]
    OBVIOUS
  <2> QED  BY <2>1, <2>2, NoDatabaseIsDatabase DEF SessionInv, TransactionTypeOK
<1>3. Len(walFile') \in Nat
  BY <1>1 DEF LogInv, WalInv, WalTypeOK
<1>4. /\ phase' = "stopped" /\ pending' = Idle /\ outcome' = "none" /\ loadedSnapshot' = FALSE
      /\ cursor' = 0 /\ stopCount' = stopCount + 1 /\ database_' = NoDatabase
  BY DEF Stop
<1>5. ControlInv'
  <2>1. cursor' \in 0..Len(walFile') /\ stopCount' \in Nat
    BY <1>3, <1>4 DEF ExecInv, ControlInv
  <2> QED  BY <1>4, <2>1, IdleKind, Zenon DEF ControlInv, Outcome
<1>6. DataInv'
  BY <1>4, IdleKind, NoDatabaseIsDatabase DEF DataInv
<1> QED  BY <1>1, <1>2, <1>5, <1>6 DEF ExecInv

\* Nothing is pending while the process starts.
LEMMA RecoveringIdle ==
  ASSUME ExecInv, phase # "ready"
  PROVE  pending = Idle
BY DEF ExecInv, ControlInv

LEMMA RecoverFromStorageStep ==
  ASSUME ExecInv, recoverFromStorage
  PROVE  ExecInv'
<1>1. LogInv' /\ IsStorage' /\ SessionInv'
  BY OtherStepsKeepLogInv, StorageFrame, SessionFrame DEF recoverFromStorage, ExecInv
<1>2. IsDatabase(database_')
  BY LoadedIsDatabase DEF recoverFromStorage, ExecInv, DataInv
<1>3. /\ phase' = "loaded" /\ pending' = Idle /\ outcome' = outcome
      /\ loadedSnapshot' = TRUE \/ loadedSnapshot' = loadedSnapshot
      /\ cursor' = cursor /\ cursor = 0 /\ stopCount' = stopCount /\ walFile' = walFile
  BY RecoveringIdle DEF recoverFromStorage, ExecInv, ControlInv, walVars
<1>4. ControlInv'
  BY <1>3, IdleKind DEF ExecInv, ControlInv
<1>5. DataInv'
  BY <1>2, <1>3, IdleKind DEF DataInv
<1> QED  BY <1>1, <1>4, <1>5 DEF ExecInv

\* recoverFromWal starts inside the log.
LEMMA StartInLog ==
  ASSUME LogInv
  PROVE  Start \in 0..Len(walFile) /\ (loadedSnapshot => IsLastSave(Start))
<1>1. PICK k \in 0..Len(walFile) : IsLastSave(k)
  BY DEF LogInv
<1>2. Len(walFile) \in Nat /\ DOMAIN walFile = 1..Len(walFile)
  BY RecordTypes DEF LogInv, WalInv
<1>3. CASE loadedSnapshot
  <2>1. Start \in {0} \cup Saves /\ \A j \in Saves : j <= Start
    BY <1>1, <1>3 DEF Start, IsLastSave
  <2> QED  BY <1>2, <2>1 DEF Saves, IsLastSave
<1>4. CASE ~loadedSnapshot
  BY <1>2, <1>4 DEF Start
<1> QED  BY <1>3, <1>4

LEMMA RecoveredControl ==
  ASSUME ExecInv, recovered, LogInv', stopCount' = stopCount, pending' = Idle
  PROVE  ControlInv'
<1>1. Len(walFile') \in Nat
  BY DEF LogInv, WalInv, WalTypeOK
<1>2. phase' = "ready" /\ outcome' = "recovered" /\ loadedSnapshot' = FALSE /\ cursor' = 0
  BY DEF recovered
<1>3. cursor' \in 0..Len(walFile') /\ stopCount' \in Nat
  BY <1>1, <1>2 DEF ExecInv, ControlInv
<1> QED  BY <1>2, <1>3, IdleKind, Zenon DEF ControlInv, Outcome

LEMMA RecoverFromWalStep ==
  ASSUME ExecInv, recoverFromWal
  PROVE  ExecInv'
<1>1. LogInv' /\ IsStorage' /\ SessionInv'
  BY OtherStepsKeepLogInv, StorageFrame, SessionFrame DEF recoverFromWal, ExecInv
<1>2. pending' = Idle /\ database_' = database_ /\ stopCount' = stopCount /\ walFile' = walFile
  BY RecoveringIdle DEF recoverFromWal, walVars
<1>3. ControlInv'
  <2>1. CASE recovered
    BY <1>1, <1>2, <2>1, RecoveredControl
  <2>2. CASE phase' = "replaying" /\ cursor' = Start /\ UNCHANGED <<outcome, loadedSnapshot>>
    BY <1>2, <2>2, StartInLog, IdleKind DEF ExecInv, ControlInv
  <2> QED  BY <2>1, <2>2 DEF recoverFromWal
<1>4. DataInv'
  BY <1>2, IdleKind DEF DataInv, ExecInv
<1> QED  BY <1>1, <1>3, <1>4 DEF ExecInv

\* Replaying a record that a handler wrote gives a database.
LEMMA ReplayIsDatabase ==
  ASSUME NEW db, IsDatabase(db), NEW record, IsLogged(record.operation, record.payload)
  PROVE  IsDatabase(Replay(db, record).db)
<1>1. CASE record.operation = "SaveDatabase"
  <2>1. Replay(db, record) = OkUnchanged(db)
    BY <1>1 DEF Replay
  <2>2. Replay(db, record).db = db
    BY <2>1 DEF OkUnchanged
  <2> QED  BY <2>2
<1>2. CASE record.operation = "CreateDatabase"
  <2>1. record.payload.name \in DbName
    <3>1. PICK name \in DbName : record.payload = NamePayload(name)
      BY <1>2 DEF IsLogged, Mutation
    <3> QED  BY <3>1 DEF NamePayload
  <2>2. Replay(db, record) = OkUnchanged(DatabaseNew(record.payload.name))
    BY <1>2 DEF Replay
  <2>3. Replay(db, record).db = DatabaseNew(record.payload.name)
    BY <2>2 DEF OkUnchanged
  <2> QED  BY <2>1, <2>3, NewDatabaseIsDatabase
<1>3. CASE record.operation \notin {"SaveDatabase", "CreateDatabase"}
  <2> DEFINE s == parse(record.payload)
  <2>1. Replay(db, record) = IF s = ParseError THEN Threw(db) ELSE Apply(db, s)
    BY <1>3 DEF Replay
  <2>2. s = ParseError \/ Named(s)
    <3>1. CASE \E x \in Statements : x.type \in Mutation /\ record.payload = Sql(x)
      BY <3>1, StatementTypes, TextNamed DEF Mutation
    <3>2. CASE \E t \in TableName, v \in Value : record.payload = insertSql(t, v)
      BY <3>2, InsertTextNamed
    <3> QED  BY <1>3, <3>1, <3>2 DEF IsLogged
  <2> HIDE DEF s
  <2>3. CASE s = ParseError
    <3>1. Replay(db, record).db = db
      BY <2>1, <2>3 DEF Threw
    <3> QED  BY <3>1
  <2>4. CASE s # ParseError
    BY <2>1, <2>2, <2>4, ApplyFacts, Zenon
  <2> QED  BY <2>3, <2>4
<1> QED  BY <1>1, <1>2, <1>3

LEMMA ReplayRecordStep ==
  ASSUME ExecInv, replayRecord
  PROVE  ExecInv'
<1> DEFINE record == walFile[cursor + 1]
           r == Replay(database_, record)
<1>1. walFile' = walFile /\ UNCHANGED walVars
  BY DEF replayRecord, appendWal, walVars
<1>2. LogInv' /\ IsStorage' /\ SessionInv'
  BY <1>1, OtherStepsKeepLogInv, StorageFrame, SessionFrame DEF replayRecord, ExecInv
<1>3. pending' = Idle /\ stopCount' = stopCount
  BY RecoveringIdle DEF replayRecord
<1>4. cursor \in Nat /\ cursor < Len(walFile) /\ Len(walFile) \in Nat /\ cursor + 1 \in DOMAIN walFile
  BY RecordTypes DEF replayRecord, ExecInv, LogInv, WalInv, ControlInv
<1>5. IsDatabase(r.db)
  BY <1>4, ReplayIsDatabase DEF ExecInv, LogInv, DataInv
<1>6. \/ database_' = NoDatabase /\ recovered
      \/ /\ database_' = r.db /\ cursor' = cursor + 1
         /\ UNCHANGED <<phase, outcome, loadedSnapshot>> /\ phase = "replaying"
  BY DEF replayRecord
<1> HIDE DEF r, record
<1>7. ControlInv'
  <2>1. CASE recovered
    BY <1>2, <1>3, <2>1, RecoveredControl
  <2>2. CASE /\ cursor' = cursor + 1 /\ UNCHANGED <<phase, outcome, loadedSnapshot>>
             /\ phase = "replaying"
    BY <1>1, <1>3, <1>4, <2>2, IdleKind DEF ExecInv, ControlInv
  <2> QED  BY <1>6, <2>1, <2>2
<1>8. DataInv'
  BY <1>3, <1>5, <1>6, IdleKind, NoDatabaseIsDatabase DEF DataInv
<1> QED  BY <1>2, <1>7, <1>8 DEF ExecInv

LEMMA ReplayDoneStep ==
  ASSUME ExecInv, replayDone
  PROVE  ExecInv'
<1>1. LogInv' /\ IsStorage' /\ SessionInv'
  BY OtherStepsKeepLogInv, StorageFrame, SessionFrame DEF replayDone, ExecInv
<1>2. pending' = Idle /\ database_' = database_ /\ stopCount' = stopCount
  BY RecoveringIdle DEF replayDone
<1>3. ControlInv'
  BY <1>1, <1>2, RecoveredControl DEF replayDone
<1>4. DataInv'
  BY <1>2, IdleKind DEF DataInv, ExecInv
<1> QED  BY <1>1, <1>3, <1>4 DEF ExecInv

-----------------------------------------------------------------------------
LEMMA InitInv == ASSUME Init PROVE ExecInv
<1>1. WalInv /\ walFile = << >> /\ Len(walFile) = 0
  BY WalInitInv DEF Init, WalInit
<1>2. LogInv
  <2>1. DOMAIN walFile = {}
    BY <1>1
  <2>2. IsLastSave(0)
    BY <2>1 DEF IsLastSave, Saves
  <2> QED  BY <1>1, <2>1, <2>2 DEF LogInv
<1>3. IsStorage
  <2>1. DOMAIN saved = {}
    BY DEF Init, StorageInit
  <2>2. readOrder \in ReadOrder
    BY DEF Init, StorageInit
  <2> QED  BY <2>1, <2>2 DEF IsStorage
<1>4. SessionInv
  <2>1. << >> \in [1..0 -> TransactionState]
    OBVIOUS
  <2> QED  BY <2>1, NoDatabaseIsDatabase DEF Init, TransactionInit, SessionInv, TransactionTypeOK
<1>5. ControlInv
  <2>1. cursor \in 0..Len(walFile) /\ stopCount \in Nat
    BY <1>1 DEF Init
  <2> QED  BY <2>1, IdleKind, Zenon DEF Init, ControlInv, Outcome
<1>6. DataInv
  BY NoDatabaseIsDatabase, IdleKind DEF Init, DataInv
<1> QED  BY <1>2, <1>3, <1>4, <1>5, <1>6 DEF ExecInv

LEMMA StepInv == ASSUME ExecInv, [Next]_vars PROVE ExecInv'
<1>1. ASSUME NEW s \in Statements,
             \/ executeCreateTable(s) \/ executeDropTable(s) \/ executeRenameTable(s)
             \/ executeUpdate(s) \/ executeDelete(s) \/ executeCreateIndex(s)
      PROVE  ExecInv'
  <2>1. s.type \in Mutation /\ Ready /\ mutateThenLog(s)
    BY <1>1 DEF executeCreateTable, executeDropTable, executeRenameTable, executeUpdate,
                executeDelete, executeCreateIndex, Mutation
  <2> QED  BY <2>1, MutationStep
<1>2. CASE UNCHANGED vars
  <2>1. UNCHANGED walVars /\ UNCHANGED <<saved, readOrder>> /\ UNCHANGED sessionVars
    BY <1>2 DEF vars
  <2>2. LogInv' /\ IsStorage' /\ SessionInv'
    BY <2>1, OtherStepsKeepLogInv, StorageFrame, SessionFrame DEF ExecInv
  <2>3. ControlInv' /\ DataInv'
    BY <1>2 DEF vars, recoveryVars, walVars, ExecInv, ControlInv, DataInv
  <2> QED  BY <2>2, <2>3 DEF ExecInv
<1>3. CASE Next
  BY <1>1, <1>3, CreateDatabaseStep, InsertStep, InsertNextRowStep, SaveStep, SaveSnapshotStep,
     ResetWalStep, LoadStep, TransactionStep, StopStep, RecoverFromStorageStep,
     RecoverFromWalStep, ReplayRecordStep, ReplayDoneStep, Zenon DEF Next
<1> QED  BY <1>2, <1>3

(* The executor keeps its types: whatever clients issue, whatever fails    *)
(* and whenever the process ends, memory and the snapshot files hold       *)
(* databases over declared names and the log holds records that replay     *)
(* understands.  (QueryExecutor)                                           *)
THEOREM TypeCorrect == Spec => []TypeOK
<1>1. Init => ExecInv
  BY InitInv
<1>2. ExecInv /\ [Next]_vars => ExecInv'
  BY StepInv
<1>3. ExecInv => TypeOK
  BY ExecInvTypes
<1> QED  BY <1>1, <1>2, <1>3, PTL DEF Spec

-----------------------------------------------------------------------------
(* Transactions.                                                           *)

LEMMA TransactionsKept ==
  ASSUME SnapshotHasTransaction, UNCHANGED sessionVars
  PROVE  SnapshotHasTransaction'
BY DEF SnapshotHasTransaction, IsActive, sessionVars, transactionVars

LEMMA SnapshotHasTransactionStep ==
  ASSUME ExecInv, SnapshotHasTransaction, [Next]_vars
  PROVE  SnapshotHasTransaction'
<1>1. CASE UNCHANGED sessionVars
  BY <1>1, TransactionsKept
<1>2. CASE begin /\ activeTransaction_' = nextId_
  BY <1>2, NoTransactionAssumption
     DEF begin, SnapshotHasTransaction, IsActive, ExecInv, SessionInv, TransactionTypeOK
<1>3. CASE activeTransaction_' = NoTransaction /\ transactionSnapshot_' = NoDatabase
  BY <1>3 DEF SnapshotHasTransaction
<1>4. CASE /\ transactionSnapshot_' \in {transactionSnapshot_, NoDatabase}
           /\ UNCHANGED activeTransaction_ /\ UNCHANGED transactionVars
  BY <1>4 DEF SnapshotHasTransaction, IsActive, transactionVars
<1>5. \/ UNCHANGED sessionVars
      \/ begin /\ activeTransaction_' = nextId_
      \/ activeTransaction_' = NoTransaction /\ transactionSnapshot_' = NoDatabase
      \/ /\ transactionSnapshot_' \in {transactionSnapshot_, NoDatabase}
         /\ UNCHANGED activeTransaction_ /\ UNCHANGED transactionVars
  <2>1. ASSUME NEW s \in Statements, executeBegin(s) \/ executeCommit(s) \/ executeRollback(s)
        PROVE  \/ UNCHANGED sessionVars
               \/ begin /\ activeTransaction_' = nextId_
               \/ activeTransaction_' = NoTransaction /\ transactionSnapshot_' = NoDatabase
    BY <2>1 DEF executeBegin, executeCommit, executeRollback
  <2>2. ASSUME NEW s \in Statements, executeLoadDatabase(s)
        PROVE  /\ transactionSnapshot_' \in {transactionSnapshot_, NoDatabase}
               /\ UNCHANGED activeTransaction_ /\ UNCHANGED transactionVars
    BY <2>2 DEF executeLoadDatabase
  <2>3. CASE Stop
    BY <2>3 DEF Stop
  <2>4. ASSUME NEW s \in Statements,
               \/ executeCreateDatabase(s) \/ executeCreateTable(s) \/ executeDropTable(s)
               \/ executeRenameTable(s) \/ executeInsert(s) \/ executeUpdate(s)
               \/ executeDelete(s) \/ executeCreateIndex(s) \/ executeSaveDatabase(s)
        PROVE  UNCHANGED sessionVars
    BY <2>4 DEF executeCreateDatabase, executeCreateTable, executeDropTable, executeRenameTable,
                executeInsert, executeUpdate, executeDelete, executeCreateIndex,
                executeSaveDatabase, mutateThenLog
  <2>5. CASE \/ insertNextRow \/ saveSnapshot \/ resetWal \/ recoverFromStorage
             \/ recoverFromWal \/ replayRecord \/ replayDone
    BY <2>5 DEF insertNextRow, saveSnapshot, resetWal, recoverFromStorage, recoverFromWal,
                replayRecord, replayDone
  <2>6. CASE UNCHANGED vars
    BY <2>6 DEF vars
  <2> QED  BY <2>1, <2>2, <2>3, <2>4, <2>5, <2>6, Zenon DEF Next
<1> QED  BY <1>1, <1>2, <1>3, <1>4, <1>5

(* A snapshot to roll back to always belongs to a transaction the manager  *)
(* holds active, whatever was loaded in between and whatever failed: the   *)
(* manager never throws on COMMIT or ROLLBACK.  (executeBegin,             *)
(* executeCommit, executeRollback, executeLoadDatabase)                    *)
THEOREM TransactionsConsistent == Spec => []SnapshotHasTransaction
<1>1. Init => ExecInv /\ SnapshotHasTransaction
  BY InitInv DEF Init, SnapshotHasTransaction
<1>2. ExecInv /\ SnapshotHasTransaction /\ [Next]_vars => ExecInv' /\ SnapshotHasTransaction'
  BY StepInv, SnapshotHasTransactionStep
<1> QED  BY <1>1, <1>2, PTL DEF Spec

-----------------------------------------------------------------------------
(* The files while a process starts.                                       *)

(* Recovery only reads: whenever it is cut short, the next process finds   *)
(* the same files.  (the replayingWal_ guard in appendWal)                 *)
THEOREM RecoveryOnlyReads == Spec => RecoveryReadsOnly
<1>1. ASSUME [Next]_vars, phase # "ready"
      PROVE  UNCHANGED <<walFile, saved>>
  <2>1. CASE Stop \/ recoverFromStorage \/ recoverFromWal \/ replayRecord \/ replayDone
    BY <2>1 DEF Stop, walStop, recoverFromStorage, recoverFromWal, replayRecord, replayDone,
                appendWal, walVars
  <2>2. CASE UNCHANGED vars
    BY <2>2 DEF vars, walVars
  <2>3. CASE Next /\ ~(Stop \/ recoverFromStorage \/ recoverFromWal \/ replayRecord \/ replayDone)
    BY <1>1, <2>3 DEF Next, Ready, executeCreateDatabase, executeCreateTable, executeDropTable,
                      executeRenameTable, executeInsert, executeUpdate, executeDelete,
                      executeCreateIndex, executeSaveDatabase, executeLoadDatabase, executeBegin,
                      executeCommit, executeRollback, insertNextRow, saveSnapshot, resetWal
  <2> QED  BY <1>1, <2>1, <2>2, <2>3
<1>2. [Next]_vars => [phase # "ready" => UNCHANGED <<walFile, saved>>]_vars
  BY <1>1
<1> QED  BY <1>2, PTL DEF Spec, RecoveryReadsOnly

-----------------------------------------------------------------------------
(* The log as the executor uses it.                                        *)

\* A handler's call of appendWal, whatever comes of it.
LEMMA AppendWalIsWalStep ==
  ASSUME NEW op, NEW payload, IsLogged(op, payload), appendWal(op, payload) \/ appendWalThrows
  PROVE  [WalNext]_walVars
BY LoggedTypes DEF appendWal, appendWalThrows, WalNext

LEMMA StepIsWalStep ==
  ASSUME ExecInv, [Next]_vars
  PROVE  [WalNext]_walVars
<1>1. ASSUME NEW s \in Statements, executeCreateDatabase(s)
      PROVE  [WalNext]_walVars
  <2>1. IsLogged("CreateDatabase", NamePayload(s.name))
    BY <1>1, StatementTypes DEF executeCreateDatabase, IsLogged
  <2> QED  BY <1>1, <2>1, AppendWalIsWalStep DEF executeCreateDatabase
<1>2. ASSUME NEW s \in Statements,
             \/ executeCreateTable(s) \/ executeDropTable(s) \/ executeRenameTable(s)
             \/ executeUpdate(s) \/ executeDelete(s) \/ executeCreateIndex(s)
      PROVE  [WalNext]_walVars
  <2>1. s.type \in Mutation /\ mutateThenLog(s)
    BY <1>2 DEF executeCreateTable, executeDropTable, executeRenameTable, executeUpdate,
                executeDelete, executeCreateIndex, Mutation
  <2>2. IsLogged(s.type, Sql(s))
    BY <2>1 DEF IsLogged
  <2> QED  BY <2>1, <2>2, AppendWalIsWalStep DEF mutateThenLog
<1>3. ASSUME NEW s \in Statements, executeSaveDatabase(s)
      PROVE  [WalNext]_walVars
  <2>1. database_ # NoDatabase => IsLogged("SaveDatabase", NamePayload(database_.name))
    BY DatabaseHasName DEF IsLogged
  <2> QED  BY <1>3, <2>1, AppendWalIsWalStep DEF executeSaveDatabase
<1>4. ASSUME insertNextRow
      PROVE  [WalNext]_walVars
  <2>1. IsLogged("Insert", insertSql(pending.table, Head(pending.rows)))
    BY <1>4, InsertPending DEF insertNextRow, IsLogged, ExecInv, ControlInv
  <2> QED  BY <1>4, <2>1, AppendWalIsWalStep DEF insertNextRow
<1>5. ASSUME NEW s \in Statements,
             \/ executeInsert(s) \/ executeLoadDatabase(s) \/ executeBegin(s)
             \/ executeCommit(s) \/ executeRollback(s)
      PROVE  UNCHANGED walVars
  BY <1>5 DEF executeInsert, executeLoadDatabase, executeBegin, executeCommit, executeRollback
<1>6. ASSUME \/ saveSnapshot \/ recoverFromStorage \/ recoverFromWal \/ replayRecord
             \/ replayDone \/ UNCHANGED vars
      PROVE  UNCHANGED walVars
  BY <1>6 DEF saveSnapshot, recoverFromStorage, recoverFromWal, replayRecord, replayDone,
              appendWal, vars
<1>7. ASSUME resetWal \/ Stop
      PROVE  WalNext
  BY <1>7 DEF resetWal, Stop, WalNext
<1> QED  BY <1>1, <1>2, <1>3, <1>4, <1>5, <1>6, <1>7, Zenon DEF Next

(* The executor drives the log only through its operations, so it          *)
(* implements the log's specification, and what holds of the log on its    *)
(* own holds of the log in the system.  (appendWal, executeSaveDatabase)   *)
THEOREM ImplementsLog == Spec => WalSpec
<1>1. Init => ExecInv /\ WalInit
  BY InitInv DEF Init
<1>2. ExecInv /\ [Next]_vars => ExecInv' /\ [WalNext]_walVars
  BY StepInv, StepIsWalStep
<1> QED  BY <1>1, <1>2, PTL DEF Spec, WalSpec

(* In the file the executor writes, sequence numbers increase over         *)
(* failures, checkpoints and restarts, as long as truncation works.        *)
(* (WriteAheadLog::nextLsn, reset)                                         *)
THEOREM ExecutorLsnsIncrease ==
  ASSUME "TruncateFails" \notin WalFaults
  PROVE  Spec => []LsnIncreasing
BY ImplementsLog, SequenceNumbersIncrease, PTL

-----------------------------------------------------------------------------
(* A log with an incomplete record.                                        *)

\* SAVE is past its append only in a process that has numbered a record.
SaveHasNumber == pending.kind \in {"publish", "reset"} => nextLsn_ # NoLsn

LEMMA NumberTaken ==
  ASSUME ExecInv, phase = "ready", NEW op, NEW payload, appendWal(op, payload)
  PROVE  nextLsn_' # NoLsn /\ CanNumber
<1>1. CanNumber /\ nextLsn_' = nextLsn + 1
  BY DEF appendWal, append, appendLost
<1>2. nextLsn \in Nat
  BY NextLsnType DEF ExecInv, LogInv
<1>3. nextLsn_' \in Nat
  BY <1>1, <1>2
<1> QED  BY <1>1, <1>3, NoLsnAssumption

LEMMA SaveHasNumberStep ==
  ASSUME ExecInv, SaveHasNumber, [Next]_vars
  PROVE  SaveHasNumber'
<1>1. CASE UNCHANGED <<pending, nextLsn_>>
  BY <1>1 DEF SaveHasNumber
<1>2. ASSUME NEW s \in Statements, executeSaveDatabase(s)
      PROVE  SaveHasNumber'
  <2>1. phase = "ready" /\ pending = Idle
    BY <1>2, ReadyIdle DEF executeSaveDatabase
  <2>2. \/ pending' = Idle
        \/ appendWal("SaveDatabase", NamePayload(database_.name))
    BY <1>2, <2>1 DEF executeSaveDatabase
  <2> QED  BY <2>1, <2>2, NumberTaken, IdleKind DEF SaveHasNumber
<1>3. ASSUME NEW s \in Statements,
             \/ executeCreateDatabase(s) \/ executeCreateTable(s) \/ executeDropTable(s)
             \/ executeRenameTable(s) \/ executeUpdate(s) \/ executeDelete(s)
             \/ executeCreateIndex(s) \/ executeLoadDatabase(s) \/ executeBegin(s)
             \/ executeCommit(s) \/ executeRollback(s)
      PROVE  pending' = Idle
  BY <1>3, ReadyIdle DEF executeCreateDatabase, executeCreateTable, executeDropTable,
        executeRenameTable, executeUpdate, executeDelete, executeCreateIndex, mutateThenLog,
        executeLoadDatabase, executeBegin, executeCommit, executeRollback
<1>4. ASSUME NEW s \in Statements, executeInsert(s)
      PROVE  pending'.kind \in {"insert", "idle"}
  BY <1>4, ReadyIdle, IdleKind DEF executeInsert
<1>5. ASSUME insertNextRow
      PROVE  pending'.kind \in {"insert", "idle"}
  <2>1. /\ pending.kind = "insert"
        /\ pending = [kind |-> "insert", table |-> pending.table, rows |-> pending.rows]
    BY <1>5, InsertPending DEF insertNextRow, ExecInv, ControlInv
  <2>2. [pending EXCEPT !.rows = Tail(@)].kind = "insert"
    BY <2>1
  <2> QED  BY <1>5, <2>2, IdleKind DEF insertNextRow
<1>6. ASSUME saveSnapshot
      PROVE  SaveHasNumber'
  BY <1>6 DEF saveSnapshot, SaveHasNumber, walVars
<1>7. ASSUME resetWal \/ Stop
      PROVE  pending' = Idle
  BY <1>7 DEF resetWal, Stop
<1>8. ASSUME \/ recoverFromStorage \/ recoverFromWal \/ replayRecord \/ replayDone
             \/ UNCHANGED vars
      PROVE  UNCHANGED <<pending, nextLsn_>>
  BY <1>8 DEF recoverFromStorage, recoverFromWal, replayRecord, replayDone, appendWal, vars,
              walVars
<1>9. pending' = Idle \/ pending'.kind \in {"insert", "idle"} => SaveHasNumber'
  BY IdleKind DEF SaveHasNumber
<1> QED  BY <1>1, <1>2, <1>3, <1>4, <1>5, <1>6, <1>7, <1>8, <1>9, Zenon DEF Next

LEMMA TornStep ==
  ASSUME ExecInv, SaveHasNumber, [Next]_vars, phase = "ready", walTorn, nextLsn_ = NoLsn
  PROVE  UNCHANGED <<walFile, walTorn, saved>>
<1>1. ~CanNumber
  BY DEF CanNumber, Readable
<1>2. ~saveSnapshot /\ ~resetWal
  BY DEF SaveHasNumber, saveSnapshot, resetWal
<1>3. ASSUME NEW op, NEW payload
      PROVE  ~appendWal(op, payload)
  BY <1>1, NumberTaken
<1>4. appendWalThrows => UNCHANGED <<walFile, walTorn>>
  BY DEF appendWalThrows, appendThrows
<1>5. walStop => UNCHANGED <<walFile, walTorn>>
  <2>1. walTorn = TRUE
    BY DEF ExecInv, LogInv, WalInv, WalTypeOK
  <2> QED  BY <2>1 DEF walStop
<1>6. UNCHANGED walVars => UNCHANGED <<walFile, walTorn>>
  BY DEF walVars
<1>7. ASSUME NEW s \in Statements,
             \/ executeCreateTable(s) \/ executeDropTable(s) \/ executeRenameTable(s)
             \/ executeUpdate(s) \/ executeDelete(s) \/ executeCreateIndex(s)
      PROVE  UNCHANGED <<walFile, walTorn, saved>>
  <2>1. mutateThenLog(s)
    BY <1>7 DEF executeCreateTable, executeDropTable, executeRenameTable, executeUpdate,
                executeDelete, executeCreateIndex
  <2>2. UNCHANGED saved /\ (UNCHANGED walVars \/ appendWalThrows)
    BY <1>3, <2>1 DEF mutateThenLog
  <2> QED  BY <1>4, <1>6, <2>2
<1>8. ASSUME NEW s \in Statements, executeCreateDatabase(s) \/ executeSaveDatabase(s)
      PROVE  UNCHANGED <<walFile, walTorn, saved>>
  <2>1. UNCHANGED saved /\ (UNCHANGED walVars \/ appendWalThrows)
    BY <1>3, <1>8 DEF executeCreateDatabase, executeSaveDatabase
  <2> QED  BY <1>4, <1>6, <2>1
<1>9. ASSUME NEW s \in Statements,
             \/ executeInsert(s) \/ executeLoadDatabase(s) \/ executeBegin(s)
             \/ executeCommit(s) \/ executeRollback(s)
      PROVE  UNCHANGED <<walFile, walTorn, saved>>
  <2>1. UNCHANGED saved /\ UNCHANGED walVars
    BY <1>9 DEF executeInsert, executeLoadDatabase, executeBegin, executeCommit, executeRollback
  <2> QED  BY <1>6, <2>1
<1>10. ASSUME insertNextRow
       PROVE  UNCHANGED <<walFile, walTorn, saved>>
  <2>1. UNCHANGED saved /\ appendWalThrows
    BY <1>3, <1>10 DEF insertNextRow
  <2> QED  BY <1>4, <2>1
<1>11. ASSUME Stop
       PROVE  UNCHANGED <<walFile, walTorn, saved>>
  BY <1>5, <1>11 DEF Stop
<1>12. ~(recoverFromStorage \/ recoverFromWal \/ replayRecord \/ replayDone)
  BY DEF recoverFromStorage, recoverFromWal, replayRecord, replayDone
<1>13. CASE UNCHANGED vars
  BY <1>13 DEF vars, walVars
<1> QED  BY <1>2, <1>7, <1>8, <1>9, <1>10, <1>11, <1>12, <1>13, Zenon DEF Next

(* A process that starts on a log with an incomplete record never writes   *)
(* to it again, nor to a snapshot: SAVE, which would repair the file, does *)
(* not get past its append.  (nextLsn, executeSaveDatabase)                *)
THEOREM TornLogStays == Spec => TornLogIsFinal
<1>1. Init => ExecInv /\ SaveHasNumber
  BY InitInv, IdleKind DEF Init, SaveHasNumber
<1>2. ExecInv /\ SaveHasNumber /\ [Next]_vars => ExecInv' /\ SaveHasNumber'
  BY StepInv, SaveHasNumberStep
<1>3. ExecInv /\ SaveHasNumber /\ [Next]_vars
        => [phase = "ready" /\ walTorn /\ nextLsn_ = NoLsn
              => UNCHANGED <<walFile, walTorn, saved>>]_vars
  BY TornStep
<1> QED  BY <1>1, <1>2, <1>3, PTL DEF Spec, TornLogIsFinal

-----------------------------------------------------------------------------
(* SAVE and the log it empties.                                            *)

\* SAVE gets to its reset() only past a snapshot that was put in place.
ResetHasSnapshot ==
  pending.kind = "reset" =>
    database_.name \in DOMAIN saved /\ saved[database_.name] \in {Image(database_), Damaged}

LEMMA AppendLeavesRecords ==
  ASSUME ExecInv, walFile # << >>, NEW op, NEW payload,
         appendWal(op, payload) \/ appendWalThrows \/ UNCHANGED walVars
  PROVE  walFile' # << >>
<1> DEFINE record == Record(op, payload)
<1>1. walFile \in Seq(WalRecord \cup {record}) /\ record \in WalRecord \cup {record}
  BY DEF ExecInv, LogInv, WalInv, WalTypeOK
<1> HIDE DEF record
<1>2. Append(walFile, record) # << >>
  BY <1>1
<1>3. walFile' = walFile \/ walFile' = Append(walFile, record)
  BY DEF appendWal, append, appendLost, appendWalThrows, appendThrows, walVars, record
<1> QED  BY <1>2, <1>3

LEMMA ResetEmptiesLog ==
  ASSUME ExecInv, [Next]_vars, walFile # << >>, walFile' = << >>
  PROVE  resetWal
<1>1. ASSUME NEW op, NEW payload
      PROVE  ~appendWal(op, payload) /\ ~appendWalThrows /\ ~UNCHANGED walVars
  BY <1>1, AppendLeavesRecords
<1>2. \A s \in Statements : ~executeCreateDatabase(s) /\ ~executeSaveDatabase(s)
  BY <1>1, Zenon DEF executeCreateDatabase, executeSaveDatabase
<1>3. ASSUME NEW s \in Statements,
             \/ executeCreateTable(s) \/ executeDropTable(s) \/ executeRenameTable(s)
             \/ executeUpdate(s) \/ executeDelete(s) \/ executeCreateIndex(s)
      PROVE  FALSE
  <2>1. mutateThenLog(s)
    BY <1>3 DEF executeCreateTable, executeDropTable, executeRenameTable, executeUpdate,
                executeDelete, executeCreateIndex
  <2>2. appendWal(s.type, Sql(s)) \/ appendWalThrows \/ UNCHANGED walVars
    BY <2>1 DEF mutateThenLog
  <2> QED  BY <1>1, <2>2
<1>4. ASSUME NEW s \in Statements,
             \/ executeInsert(s) \/ executeLoadDatabase(s) \/ executeBegin(s)
             \/ executeCommit(s) \/ executeRollback(s)
      PROVE  FALSE
  <2>1. UNCHANGED walVars
    BY <1>4 DEF executeInsert, executeLoadDatabase, executeBegin, executeCommit, executeRollback
  <2> QED  BY <1>1, <2>1
<1>5. ~insertNextRow
  BY <1>1, Zenon DEF insertNextRow
<1>6. ASSUME \/ saveSnapshot \/ recoverFromStorage \/ recoverFromWal \/ replayRecord
             \/ replayDone \/ UNCHANGED vars
      PROVE  FALSE
  <2>1. UNCHANGED walVars
    BY <1>6 DEF saveSnapshot, recoverFromStorage, recoverFromWal, replayRecord, replayDone,
                appendWal, vars
  <2> QED  BY <1>1, <2>1
<1>7. ~Stop
  BY DEF Stop, walStop
<1> QED  BY <1>2, <1>3, <1>4, <1>5, <1>6, <1>7, Zenon DEF Next

LEMMA ResetHasSnapshotStep ==
  ASSUME ExecInv, ResetHasSnapshot, [Next]_vars
  PROVE  ResetHasSnapshot'
<1>1. ASSUME saveSnapshot
      PROVE  ResetHasSnapshot'
  <2>1. database_' = database_
    BY <1>1 DEF saveSnapshot
  <2>2. pending' = Idle \/ publish(database_) \/ publishDamaged(database_)
    BY <1>1 DEF saveSnapshot
  <2>3. publish(database_) \/ publishDamaged(database_)
          => /\ database_.name \in DOMAIN saved'
             /\ saved'[database_.name] \in {Image(database_), Damaged}
    BY DEF publish, publishDamaged
  <2> QED  BY <2>1, <2>2, <2>3, IdleKind DEF ResetHasSnapshot, Image, Damaged
<1>2. ASSUME NEW s \in Statements,
             \/ executeCreateDatabase(s) \/ executeCreateTable(s) \/ executeDropTable(s)
             \/ executeRenameTable(s) \/ executeUpdate(s) \/ executeDelete(s)
             \/ executeCreateIndex(s) \/ executeLoadDatabase(s) \/ executeBegin(s)
             \/ executeCommit(s) \/ executeRollback(s)
      PROVE  pending'.kind # "reset"
  <2>1. pending' = Idle
    BY <1>2, ReadyIdle DEF executeCreateDatabase, executeCreateTable, executeDropTable,
          executeRenameTable, executeUpdate, executeDelete, executeCreateIndex, mutateThenLog,
          executeLoadDatabase, executeBegin, executeCommit, executeRollback
  <2> QED  BY <2>1, IdleKind
<1>3. ASSUME NEW s \in Statements, executeInsert(s) \/ executeSaveDatabase(s)
      PROVE  pending'.kind # "reset"
  BY <1>3, ReadyIdle, IdleKind DEF executeInsert, executeSaveDatabase
<1>4. ASSUME insertNextRow
      PROVE  pending'.kind # "reset"
  <2>1. /\ pending.kind = "insert"
        /\ pending = [kind |-> "insert", table |-> pending.table, rows |-> pending.rows]
    BY <1>4, InsertPending DEF insertNextRow, ExecInv, ControlInv
  <2>2. [pending EXCEPT !.rows = Tail(@)].kind = "insert"
    BY <2>1
  <2> QED  BY <1>4, <2>2, IdleKind DEF insertNextRow
<1>5. ASSUME \/ resetWal \/ Stop
             \/ recoverFromStorage \/ recoverFromWal \/ replayRecord \/ replayDone
      PROVE  pending'.kind # "reset"
  <2>1. pending' = Idle
    BY <1>5, RecoveringIdle DEF resetWal, Stop, recoverFromStorage, recoverFromWal, replayRecord,
                                replayDone
  <2> QED  BY <2>1, IdleKind
<1>6. ASSUME UNCHANGED vars
      PROVE  ResetHasSnapshot'
  <2>1. UNCHANGED <<pending, database_, saved>>
    BY <1>6 DEF vars
  <2> QED  BY <2>1 DEF ResetHasSnapshot, Image, Damaged
<1>7. pending'.kind # "reset" => ResetHasSnapshot'
  BY DEF ResetHasSnapshot
<1> QED  BY <1>1, <1>2, <1>3, <1>4, <1>5, <1>6, <1>7, Zenon DEF Next

(* Whatever fails on the disk, the log is emptied only for a snapshot of   *)
(* the database in memory that has been put in place.                      *)
(* (executeSaveDatabase: saveDatabase throws before wal_.reset())          *)
THEOREM LogIsGivenUpForSnapshot == Spec => LogGivenUpForSnapshot
<1>1. Init => ExecInv /\ ResetHasSnapshot
  BY InitInv, IdleKind DEF Init, ResetHasSnapshot
<1>2. ExecInv /\ ResetHasSnapshot /\ [Next]_vars => ExecInv' /\ ResetHasSnapshot'
  BY StepInv, ResetHasSnapshotStep
<1>3. ExecInv /\ ResetHasSnapshot /\ [Next]_vars
        => [walFile # << >> /\ walFile' = << >>
              => /\ database_.name \in DOMAIN saved
                 /\ saved[database_.name] \in {Image(database_), Damaged}]_vars
  BY ResetEmptiesLog DEF ResetHasSnapshot, resetWal
<1> QED  BY <1>1, <1>2, <1>3, PTL DEF Spec, LogGivenUpForSnapshot

-----------------------------------------------------------------------------
(* Rows that fit their columns.                                            *)

\* The rows an INSERT has still to enter were validated, and no statement comes between
\* that changes the column.
PendingFits ==
  pending.kind = "insert" =>
    \A i \in DOMAIN pending.rows :
      Accepts(database_.tables[pending.table].column, pending.rows[i])

SavedFits == \A n \in DOMAIN saved : Loadable(n) => Fitted(saved[n].database)

FitInv == Fitted(database_) /\ Fitted(transactionSnapshot_) /\ SavedFits /\ PendingFits

LEMMA FitFrame ==
  ASSUME FitInv, Fitted(database_'), UNCHANGED saved, pending' = Idle,
         transactionSnapshot_' \in {transactionSnapshot_, database_, NoDatabase}
  PROVE  FitInv'
<1>1. SavedFits'
  BY DEF FitInv, SavedFits, Loadable
<1>2. PendingFits'
  BY IdleKind DEF PendingFits
<1>3. Fitted(transactionSnapshot_')
  BY EmptyFitted DEF FitInv
<1> QED  BY <1>1, <1>2, <1>3 DEF FitInv

\* Loading a snapshot gives rows that fit.
LEMMA LoadedFits ==
  ASSUME ExecInv, FitInv, NEW n, Loadable(n)
  PROVE  Fitted(Loaded(saved[n].database))
<1> DEFINE db == saved[n].database
           l == Loaded(db)
<1>1. Fitted(db) /\ db # NoDatabase
  <2>1. Fitted(db) /\ saved[n] # Damaged /\ n \in DOMAIN saved
    BY DEF FitInv, SavedFits, Loadable, Damaged
  <2> QED  BY <2>1 DEF ExecInv, IsStorage
<1> HIDE DEF db
<1>2. /\ l.tables = [t \in DOMAIN db.tables |-> LoadedTable(db.tables[t])] /\ l # NoDatabase
  BY LoadedFields
<1> HIDE DEF l
<1>3. ASSUME NEW t \in DOMAIN l.tables
      PROVE  RowsFitted(l.tables[t].column, l.tables[t].rows)
  <2>1. t \in DOMAIN db.tables /\ l.tables[t] = LoadedTable(db.tables[t])
    BY <1>2
  <2>2. RowsFitted(db.tables[t].column, db.tables[t].rows)
    BY <1>1, <2>1 DEF Fitted
  <2> QED  BY <2>1, <2>2, LoadedTableFields
<1>4. Fitted(l)
  BY <1>3 DEF Fitted
<1> QED  BY <1>4 DEF l, db

\* Replaying a record that a handler wrote gives rows that fit.
LEMMA ReplayFitted ==
  ASSUME NEW db, IsDatabase(db), Fitted(db), NEW record, IsLogged(record.operation, record.payload)
  PROVE  Fitted(Replay(db, record).db)
<1>1. CASE record.operation = "SaveDatabase"
  <2>1. Replay(db, record) = OkUnchanged(db)
    BY <1>1 DEF Replay
  <2>2. Replay(db, record).db = db
    BY <2>1 DEF OkUnchanged
  <2> QED  BY <2>2
<1>2. CASE record.operation = "CreateDatabase"
  <2>1. Replay(db, record) = OkUnchanged(DatabaseNew(record.payload.name))
    BY <1>2 DEF Replay
  <2>2. Replay(db, record).db = DatabaseNew(record.payload.name)
    BY <2>1 DEF OkUnchanged
  <2> QED  BY <2>2, EmptyFitted
<1>3. CASE record.operation \notin {"SaveDatabase", "CreateDatabase"}
  <2> DEFINE s == parse(record.payload)
  <2>1. Replay(db, record) = IF s = ParseError THEN Threw(db) ELSE Apply(db, s)
    BY <1>3 DEF Replay
  <2>2. s = ParseError \/ Named(s)
    <3>1. CASE \E x \in Statements : x.type \in Mutation /\ record.payload = Sql(x)
      BY <3>1, StatementTypes, TextNamed DEF Mutation
    <3>2. CASE \E t \in TableName, v \in Value : record.payload = insertSql(t, v)
      BY <3>2, InsertTextNamed
    <3> QED  BY <1>3, <3>1, <3>2 DEF IsLogged
  <2> HIDE DEF s
  <2>3. CASE s = ParseError
    <3>1. Replay(db, record).db = db
      BY <2>1, <2>3 DEF Threw
    <3> QED  BY <3>1
  <2>4. CASE s # ParseError
    BY <2>1, <2>2, <2>4, ApplyFitted, Zenon
  <2> QED  BY <2>3, <2>4
<1> QED  BY <1>1, <1>2, <1>3

LEMMA InsertFitStep ==
  ASSUME ExecInv, FitInv, NEW s \in Statements, executeInsert(s)
  PROVE  FitInv'
<1> DEFINE begun == [kind |-> "insert", table |-> s.table, rows |-> s.rows]
<1>1. \/ pending' = begun /\ validateRows(database_, s)
      \/ pending' = Idle
  BY ReadyIdle DEF executeInsert
<1>2. UNCHANGED <<database_, saved, transactionSnapshot_>>
  BY DEF executeInsert, sessionVars
<1>3. CASE pending' = Idle
  BY <1>2, <1>3, FitFrame DEF FitInv
<1>4. CASE pending' = begun /\ validateRows(database_, s)
  <2>1. begun.kind = "insert" /\ begun.table = s.table /\ begun.rows = s.rows
    OBVIOUS
  <2> HIDE DEF begun
  <2>2. PendingFits'
    BY <1>2, <1>4, <2>1 DEF PendingFits, validateRows
  <2>3. SavedFits'
    BY <1>2 DEF FitInv, SavedFits, Loadable
  <2> QED  BY <1>2, <2>2, <2>3 DEF FitInv
<1> QED  BY <1>1, <1>3, <1>4

LEMMA InsertNextRowFitStep ==
  ASSUME ExecInv, FitInv, insertNextRow
  PROVE  FitInv'
<1> DEFINE row == Head(pending.rows)
           after == insertRow(database_, pending.table, row)
           rest == [pending EXCEPT !.rows = Tail(@)]
<1>1. pending \in Pending /\ pending.kind = "insert" /\ phase = "ready"
  BY DEF insertNextRow, ExecInv, ControlInv
<1>2. /\ pending.rows \in Seq(Value) /\ pending.rows # << >>
      /\ pending = [kind |-> "insert", table |-> pending.table, rows |-> pending.rows]
  BY <1>1, InsertPending
<1>3. HasTable(database_, pending.table) /\ IsDatabase(database_)
  BY <1>1 DEF ExecInv, DataInv
<1>4. \A i \in DOMAIN pending.rows :
        Accepts(database_.tables[pending.table].column, pending.rows[i])
  BY <1>1 DEF FitInv, PendingFits
<1>5. row = pending.rows[1] /\ 1 \in DOMAIN pending.rows
  BY <1>2
<1>6. Fitted(after)
  BY <1>3, <1>4, <1>5, InsertFitted DEF FitInv
<1>7. after.tables[pending.table].column = database_.tables[pending.table].column
  BY <1>3, InsertFacts
<1>8. \/ database_' = after /\ (pending' = Idle \/ pending' = rest)
      \/ database_' = database_ /\ pending' = Idle
  BY DEF insertNextRow
<1>9. UNCHANGED <<saved, transactionSnapshot_>>
  BY DEF insertNextRow, sessionVars
<1>10. /\ rest.kind = "insert" /\ rest.table = pending.table /\ rest.rows = Tail(pending.rows)
  BY <1>2
<1>11. \A i \in DOMAIN Tail(pending.rows) :
         i + 1 \in DOMAIN pending.rows /\ Tail(pending.rows)[i] = pending.rows[i + 1]
  BY <1>2
<1> HIDE DEF after, rest
<1>12. CASE pending' = Idle
  BY <1>6, <1>8, <1>9, <1>12, FitFrame DEF FitInv
<1>13. CASE database_' = after /\ pending' = rest
  <2>1. PendingFits'
    BY <1>4, <1>7, <1>10, <1>11, <1>13 DEF PendingFits
  <2>2. SavedFits'
    BY <1>9 DEF FitInv, SavedFits, Loadable
  <2> QED  BY <1>6, <1>9, <1>13, <2>1, <2>2 DEF FitInv
<1> QED  BY <1>8, <1>12, <1>13

LEMMA SaveSnapshotFitStep ==
  ASSUME ExecInv, FitInv, saveSnapshot
  PROVE  FitInv'
<1>1. /\ UNCHANGED <<database_, transactionSnapshot_>>
      /\ pending' = [kind |-> "reset"] \/ pending' = Idle
      /\ publish(database_) \/ publishDamaged(database_) \/ saveThrows(database_)
  BY DEF saveSnapshot, sessionVars
<1>2. PendingFits'
  BY <1>1, IdleKind DEF PendingFits
<1>3. \A n \in DOMAIN saved' :
        \/ saved'[n] = Image(database_) \/ saved'[n] = Damaged
        \/ n \in DOMAIN saved /\ saved'[n] = saved[n]
  BY <1>1 DEF publish, publishDamaged, saveThrows
<1>4. Image(database_).database = database_ /\ Damaged.complete = FALSE
  BY DEF Image, Damaged
<1>5. SavedFits'
  BY <1>3, <1>4 DEF FitInv, SavedFits, Loadable
<1> QED  BY <1>1, <1>2, <1>5 DEF FitInv

LEMMA FitStep ==
  ASSUME ExecInv, FitInv, [Next]_vars
  PROVE  FitInv'
<1>0. IsDatabase(database_) /\ Fitted(database_) /\ Fitted(transactionSnapshot_)
  BY DEF ExecInv, DataInv, FitInv
<1>1. ASSUME NEW s \in Statements, executeCreateDatabase(s)
      PROVE  FitInv'
  <2>1. /\ database_' = DatabaseNew(s.name) \/ database_' = database_
        /\ pending' = Idle /\ UNCHANGED <<saved, transactionSnapshot_>>
    BY <1>1, ReadyIdle DEF executeCreateDatabase, sessionVars
  <2> QED  BY <1>0, <2>1, EmptyFitted, FitFrame
<1>2. ASSUME NEW s \in Statements,
             \/ executeCreateTable(s) \/ executeDropTable(s) \/ executeRenameTable(s)
             \/ executeUpdate(s) \/ executeDelete(s) \/ executeCreateIndex(s)
      PROVE  FitInv'
  <2>1. s.type \in Mutation /\ Ready /\ mutateThenLog(s)
    BY <1>2 DEF executeCreateTable, executeDropTable, executeRenameTable, executeUpdate,
                executeDelete, executeCreateIndex, Mutation
  <2>2. /\ database_' = Apply(database_, s).db
        /\ pending' = Idle /\ UNCHANGED <<saved, transactionSnapshot_>>
    BY <2>1, ReadyIdle DEF mutateThenLog, sessionVars
  <2>3. Fitted(Apply(database_, s).db)
    BY <1>0, <2>1, StatementTypes, ApplyFitted
  <2> QED  BY <2>2, <2>3, FitFrame
<1>3. ASSUME NEW s \in Statements, executeSaveDatabase(s)
      PROVE  FitInv'
  <2>1. /\ UNCHANGED <<database_, saved, transactionSnapshot_>>
        /\ pending' = Idle \/ pending' = [kind |-> "publish"]
    BY <1>3, ReadyIdle DEF executeSaveDatabase, sessionVars
  <2>2. PendingFits'
    BY <2>1, IdleKind DEF PendingFits
  <2>3. SavedFits'
    BY <2>1 DEF FitInv, SavedFits, Loadable
  <2> QED  BY <1>0, <2>1, <2>2, <2>3 DEF FitInv
<1>4. ASSUME NEW s \in Statements, executeLoadDatabase(s)
      PROVE  FitInv'
  <2>1. /\ database_' = database_ \/ \E n : Loadable(n) /\ database_' = Loaded(saved[n].database)
        /\ pending' = Idle /\ UNCHANGED saved
        /\ transactionSnapshot_' \in {transactionSnapshot_, NoDatabase}
    BY <1>4, ReadyIdle DEF executeLoadDatabase
  <2>2. Fitted(database_')
    BY <1>0, <2>1, LoadedFits
  <2> QED  BY <2>1, <2>2, FitFrame
<1>5. ASSUME NEW s \in Statements, executeBegin(s) \/ executeCommit(s) \/ executeRollback(s)
      PROVE  FitInv'
  <2>1. /\ database_' \in {database_, transactionSnapshot_} /\ pending' = Idle /\ UNCHANGED saved
        /\ transactionSnapshot_' \in {transactionSnapshot_, database_, NoDatabase}
    BY <1>5, ReadyIdle DEF executeBegin, executeCommit, executeRollback, sessionVars
  <2> QED  BY <1>0, <2>1, FitFrame
<1>6. ASSUME resetWal
      PROVE  FitInv'
  <2>1. pending' = Idle /\ UNCHANGED <<database_, saved, transactionSnapshot_>>
    BY <1>6 DEF resetWal, sessionVars
  <2> QED  BY <1>0, <2>1, FitFrame
<1>7. ASSUME Stop
      PROVE  FitInv'
  <2>1. pending' = Idle /\ database_' = NoDatabase /\ UNCHANGED saved /\ transactionSnapshot_' = NoDatabase
    BY <1>7 DEF Stop
  <2> QED  BY <2>1, EmptyFitted, FitFrame
<1>8. ASSUME recoverFromStorage
      PROVE  FitInv'
  <2>1. /\ database_' = database_ \/ \E n : Loadable(n) /\ database_' = Loaded(saved[n].database)
        /\ pending' = Idle /\ UNCHANGED <<saved, transactionSnapshot_>>
    BY <1>8, RecoveringIdle DEF recoverFromStorage, sessionVars
  <2>2. Fitted(database_')
    BY <1>0, <2>1, LoadedFits
  <2> QED  BY <2>1, <2>2, FitFrame
<1>9. ASSUME recoverFromWal \/ replayDone
      PROVE  FitInv'
  <2>1. pending' = Idle /\ UNCHANGED <<database_, saved, transactionSnapshot_>>
    BY <1>9, RecoveringIdle DEF recoverFromWal, replayDone, sessionVars
  <2> QED  BY <1>0, <2>1, FitFrame
<1>10. ASSUME replayRecord
       PROVE  FitInv'
  <2> DEFINE record == walFile[cursor + 1]
             r == Replay(database_, record)
  <2>1. /\ database_' = NoDatabase \/ database_' = r.db
        /\ pending' = Idle /\ UNCHANGED <<saved, transactionSnapshot_>>
    BY <1>10, RecoveringIdle DEF replayRecord, sessionVars
  <2>2. cursor + 1 \in DOMAIN walFile
    BY <1>10, RecordTypes DEF replayRecord, ExecInv, LogInv, WalInv, ControlInv
  <2>3. IsLogged(record.operation, record.payload)
    BY <2>2 DEF ExecInv, LogInv
  <2> HIDE DEF record
  <2>4. Fitted(r.db)
    BY <1>0, <2>3, ReplayFitted
  <2> HIDE DEF r
  <2> QED  BY <2>1, <2>4, EmptyFitted, FitFrame
<1>11. CASE UNCHANGED vars
  <2>1. UNCHANGED <<database_, pending, saved, transactionSnapshot_>>
    BY <1>11 DEF vars, sessionVars
  <2> QED  BY <2>1 DEF FitInv, SavedFits, Loadable, PendingFits
<1>12. CASE Next
  BY <1>1, <1>2, <1>3, <1>4, <1>5, <1>6, <1>7, <1>8, <1>9, <1>10, <1>12, InsertFitStep,
     InsertNextRowFitStep, SaveSnapshotFitStep, Zenon DEF Next
<1> QED  BY <1>11, <1>12

(* Every row in memory, in the snapshot to roll back to and in every       *)
(* snapshot file fits its column, also a row that recovery read back from  *)
(* a literal in the log, and also when an INSERT was cut short.            *)
(* (Table::validateRow, Table::update, executeInsert, recoverFromWal)      *)
THEOREM ExecutorRowsFitSchema == Spec => []RowsFitSchema
<1>1. Init => ExecInv /\ FitInv
  <2>1. Init => FitInv
    BY EmptyFitted, IdleKind DEF Init, StorageInit, FitInv, SavedFits, PendingFits
  <2> QED  BY <2>1, InitInv
<1>2. ExecInv /\ FitInv /\ [Next]_vars => ExecInv' /\ FitInv'
  BY StepInv, FitStep
<1>3. FitInv => RowsFitSchema
  BY FittedFits DEF FitInv, SavedFits, RowsFitSchema, Loadable
<1> QED  BY <1>1, <1>2, <1>3, PTL DEF Spec

=============================================================================
