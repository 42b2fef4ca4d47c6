---------------------------- MODULE WriteAheadLog ----------------------------
(***************************************************************************)
(* The append-only log file and the object that writes it.                 *)
(*                                                                         *)
(* walFile is the sequence of complete records in the file, walTorn says   *)
(* that it also holds an incomplete one (readAll() then throws: it has no  *)
(* notion of a damaged tail), nextLsn_ is the object's counter, NoLsn      *)
(* until the first append of the process has read the file.                *)
(***************************************************************************)
EXTENDS Naturals, Sequences

CONSTANTS
  Operation,           \* the operation of a record
  Payload,             \* its payload
  NoLsn,               \* nextLsn_ has no value yet
  WalFaults            \* which of the failures below the environment inflicts

(***************************************************************************)
(* "OpenFails"     the log cannot be opened for append: append() throws,   *)
(*                 after it has taken a sequence number;                   *)
(* "WriteFails"    a write of the record fails, after part of it may have  *)
(*                 reached the file: append() throws;                      *)
(* "FlushFails"    the record does not reach the file, or part of it does, *)
(*                 when the stream is destroyed: append() returns normally;*)
(* "TruncateFails" reset() cannot truncate the file, which it ignores;     *)
(* "TornAppend"    the process ends in the middle of an append.            *)
(***************************************************************************)
WalFault == {"OpenFails", "WriteFails", "FlushFails", "TruncateFails", "TornAppend"}

ASSUME NoLsnAssumption == NoLsn \notin Nat
ASSUME WalFaultsAssumption == WalFaults \subseteq WalFault

VARIABLES walFile, walTorn, nextLsn_

walVars == <<walFile, walTorn, nextLsn_>>

WalRecord == [lsn : Nat, operation : Operation, payload : Payload]

(* The file holds records and the counter is a number once it has a value. *)
WalTypeOK ==
  /\ walFile \in Seq(WalRecord)
  /\ walTorn \in BOOLEAN
  /\ nextLsn_ \in Nat \cup {NoLsn}

WalInit ==
  /\ walFile = << >>
  /\ walTorn = FALSE
  /\ nextLsn_ = NoLsn

-----------------------------------------------------------------------------
\* Whether readAll() returns the records rather than throw.
Readable == ~walTorn

\* A counter that starts again with every process.
LsnFromOne(file) == 1

\* One more than the greatest sequence number in the file.
LsnAfter(file) ==
  CHOOSE n \in {1} \cup {file[i].lsn + 1 : i \in DOMAIN file} :
    \A i \in DOMAIN file : file[i].lsn < n

nextLsn == IF nextLsn_ = NoLsn THEN LsnAfter(walFile) ELSE nextLsn_

\* A reader that tolerates an incomplete record.
CanAlwaysNumber == TRUE

\* nextLsn() reads the file when the counter has no value.
CanNumber == nextLsn_ # NoLsn \/ Readable

Record(op, payload) == [lsn |-> nextLsn, operation |-> op, payload |-> payload]

append(op, payload) ==
  /\ CanNumber
  /\ nextLsn_' = nextLsn + 1
  /\ walFile' = Append(walFile, Record(op, payload))
  /\ UNCHANGED walTorn

\* append() throws: no number can be taken, the file cannot be opened, or a write fails.
appendThrows ==
  /\ UNCHANGED walFile
  /\ \/ ~CanNumber /\ UNCHANGED <<walTorn, nextLsn_>>
     \/ /\ CanNumber
        /\ nextLsn_' = nextLsn + 1
        /\ \/ "OpenFails" \in WalFaults /\ UNCHANGED walTorn
           \/ "WriteFails" \in WalFaults /\ walTorn' \in {walTorn, TRUE}

\* append() returns, and the buffered bytes are lost when the stream is destroyed.
appendLost ==
  /\ CanNumber
  /\ "FlushFails" \in WalFaults
  /\ nextLsn_' = nextLsn + 1
  /\ walTorn' \in {walTorn, TRUE}
  /\ UNCHANGED walFile

reset ==
  /\ nextLsn_' = 1
  /\ \/ walFile' = << >> /\ walTorn' = FALSE
     \/ "TruncateFails" \in WalFaults /\ UNCHANGED <<walFile, walTorn>>

\* The process ends; the next one has a new WriteAheadLog over the same file.
walStop ==
  /\ nextLsn_' = NoLsn
  /\ walTorn' \in {walTorn, walTorn \/ "TornAppend" \in WalFaults}
  /\ UNCHANGED walFile

WalNext ==
  \/ \E op \in Operation, payload \in Payload : append(op, payload)
  \/ appendThrows
  \/ appendLost
  \/ reset
  \/ walStop

WalSpec == WalInit /\ [][WalNext]_walVars

-----------------------------------------------------------------------------
(* Sequence numbers increase along the file, whatever mixture of appends,  *)
(* failed appends, checkpoints and restarts wrote it: the counter a new    *)
(* process takes from the file continues the one the last process used.    *)
LsnIncreasing ==
  \A i, j \in DOMAIN walFile : i < j => walFile[i].lsn < walFile[j].lsn

\* The counter is above every number in the file.
LsnAhead ==
  nextLsn_ # NoLsn => \A i \in DOMAIN walFile : walFile[i].lsn < nextLsn_

=============================================================================
