------------------------------ MODULE Sessions -------------------------------
(***************************************************************************)
(* Clients in threads of their own that share one executor: the            *)
(* reader/writer lock of LockManager, the dispatch of execute(), and       *)
(* prepared statements.                                                    *)
(*                                                                         *)
(* A client loop parses a line without the lock and calls execute().  A    *)
(* statement that only reads holds the lock shared, any other holds it     *)
(* alone.  An EXECUTE looks its text up under the shared lock, lets go of  *)
(* it, binds and parses without the lock, and calls execute() again.       *)
(*                                                                         *)
(* The steps a statement takes under the lock are kept where another       *)
(* thread could come between them: the rows of an INSERT go in one by one, *)
(* and a JOIN reads one table after the other.  The statements that are    *)
(* not here change the database the way these do, under the lock alone;    *)
(* what they do is the Executor's subject.                                 *)
(***************************************************************************)
EXTENDS Naturals, Sequences, FiniteSets

CONSTANTS
  Thread,
  NoThread,
  Text,                  \* the statements clients write
  AnyText,               \* those, the prepared ones and the bound ones
  Row,                   \* the rows of tables
  Parse(_),              \* Parser::parse
  Bind(_, _),            \* the binding in bindPreparedSql
  Fits(_, _),            \* Table::validateRow: whether a row fits the table of that name
  NoJoin,
  InitialTables,
  InitialPrepared,
  MaxCalls               \* bound: the statements of one client

ASSUME NoThreadAssumption == NoThread \notin Thread
ASSUME MaxCallsAssumption == MaxCalls \in Nat

ASSUME InitialAssumption ==
  /\ InitialTables \in [DOMAIN InitialTables -> Seq(Row)]
  /\ InitialPrepared \in [DOMAIN InitialPrepared -> AnyText]

\* InsertQuery::rows is a vector, and what is prepared or bound is text again.
ASSUME TextAssumption ==
  /\ Text \subseteq AnyText
  /\ \A text \in AnyText :
       LET q == Parse(text)
       IN  /\ q.type = "Insert" => q.rows \in Seq(Row)
           /\ q.type = "PrepareStatement" => q.sql \in AnyText
           /\ q.type = "ExecutePrepared" =>
                \A sql \in AnyText :
                  Bind(sql, q.parameters).ok => Bind(sql, q.parameters).val \in AnyText

VARIABLES
  tables,                \* for each table its rows
  prepared,              \* preparedStatements_
  readers, writer,       \* the threads that hold the lock shared, or alone
  pc,                    \* where each client is
  query,                 \* the statement it executes
  sql,                   \* the prepared text it looked up
  done,                  \* the rows its INSERT put in, the rows its JOIN read first
  result,                \* the result it was given last
  calls                  \* how many calls it made

lockVars == <<readers, writer>>
vars == <<tables, prepared, lockVars, pc, query, sql, done, result, calls>>

NoQuery == [type |-> "None"]
ParseError == [type |-> "ParseError"]
NoSql == << >>

\* Before the first result, and for a call that threw.
Nothing == [none |-> TRUE]
Thrown == [thrown |-> TRUE]

Init ==
  /\ tables = InitialTables
  /\ prepared = InitialPrepared
  /\ readers = {} /\ writer = NoThread
  /\ pc = [t \in Thread |-> "idle"]
  /\ query = [t \in Thread |-> NoQuery]
  /\ sql = [t \in Thread |-> NoSql]
  /\ done = [t \in Thread |-> << >>]
  /\ result = [t \in Thread |-> Nothing]
  /\ calls = [t \in Thread |-> 0]

-----------------------------------------------------------------------------
(* LockManager.                                                            *)

acquireRead(t) == writer = NoThread /\ readers' = readers \cup {t} /\ UNCHANGED writer

\* The lock is given to a writer while others read.
acquireWriteAmongReaders(t) == writer = NoThread /\ writer' = t /\ UNCHANGED readers

acquireWrite(t) ==
  writer = NoThread /\ readers = {} /\ writer' = t /\ UNCHANGED readers

\* The lock goes with the scope it was taken in.
release(t) ==
  /\ readers' = readers \ {t}
  /\ writer' = IF writer = t THEN NoThread ELSE writer

-----------------------------------------------------------------------------
(* The client loop, and the way of a statement to its lock.                *)

Return(t, r) ==
  /\ result' = [result EXCEPT ![t] = r]
  /\ pc' = [pc EXCEPT ![t] = IF query[t].type = "Exit" THEN "ended" ELSE "idle"]
  /\ query' = [query EXCEPT ![t] = NoQuery]
  /\ done' = [done EXCEPT ![t] = << >>]
  /\ sql' = [sql EXCEPT ![t] = NoSql]

\* The client reads a line and parses it.
Call(t) ==
  /\ pc[t] = "idle" /\ calls[t] < MaxCalls
  /\ \E text \in Text :
       query' = [query EXCEPT ![t] = Parse(text)]
  /\ pc' = [pc EXCEPT ![t] = "execute"]
  /\ calls' = [calls EXCEPT ![t] = @ + 1]
  /\ UNCHANGED <<tables, prepared, lockVars, sql, done, result>>

\* The line, or a bound text, does not parse: nothing is executed.
ParseThrows(t) ==
  /\ pc[t] = "execute" /\ query[t].type = "ParseError"
  /\ Return(t, Thrown)
  /\ UNCHANGED <<tables, prepared, lockVars, calls>>

IsExecutePrepared(q) == q.type = "ExecutePrepared"

\* INSERT is taken for a statement that only reads.
readOnlyWithInsert(q) == q.type \in {"Select", "ListTables", "Insert"}

readOnly(q) == q.type \in {"Select", "ListTables"}

\* execute() with a statement that is not an EXECUTE.
Lock(t) ==
  /\ pc[t] = "execute"
  /\ ~IsExecutePrepared(query[t]) /\ query[t].type # "ParseError"
  /\ IF readOnly(query[t]) THEN acquireRead(t) ELSE acquireWrite(t)
  /\ pc' = [pc EXCEPT ![t] = "locked"]
  /\ UNCHANGED <<tables, prepared, query, sql, done, result, calls>>

\* bindPreparedSql: the lock for the lookup.
LockForLookup(t) ==
  /\ pc[t] = "execute" /\ IsExecutePrepared(query[t])
  /\ acquireRead(t)
  /\ pc' = [pc EXCEPT ![t] = "lookup"]
  /\ UNCHANGED <<tables, prepared, query, sql, done, result, calls>>

\* The lock is held until the bound statement has run.
LookupKeepsLock(t) ==
  /\ pc[t] = "lookup" /\ query[t].name \in DOMAIN prepared
  /\ sql' = [sql EXCEPT ![t] = prepared[query[t].name]]
  /\ pc' = [pc EXCEPT ![t] = "bind"]
  /\ UNCHANGED <<tables, prepared, lockVars, query, done, result, calls>>

\* The text is copied, and the lock released.
Lookup(t) ==
  /\ pc[t] = "lookup" /\ query[t].name \in DOMAIN prepared
  /\ sql' = [sql EXCEPT ![t] = prepared[query[t].name]]
  /\ release(t)
  /\ pc' = [pc EXCEPT ![t] = "bind"]
  /\ UNCHANGED <<tables, prepared, query, done, result, calls>>

LookupThrows(t) ==
  /\ pc[t] = "lookup" /\ query[t].name \notin DOMAIN prepared
  /\ release(t)
  /\ Return(t, Thrown)
  /\ UNCHANGED <<tables, prepared, calls>>

\* The parameters take their places, the text is parsed, and execute() is called.
BindAndParse(t) ==
  LET bound == Bind(sql[t], query[t].parameters)
  IN  /\ pc[t] = "bind"
      /\ query' = [query EXCEPT ![t] = IF bound.ok THEN Parse(bound.val) ELSE ParseError]
      /\ sql' = [sql EXCEPT ![t] = NoSql]
      /\ pc' = [pc EXCEPT ![t] = "execute"]
      /\ UNCHANGED <<tables, prepared, lockVars, done, result, calls>>

-----------------------------------------------------------------------------
(* executeUnlocked: the statement, under the lock.                         *)

Executing(t, type) == pc[t] = "locked" /\ query[t].type = type
Known(n) == n \in DOMAIN tables

Finish(t, r) == Return(t, r) /\ release(t)

UnknownTable(t) ==
  /\ Executing(t, "Insert") \/ Executing(t, "Select")
  /\ \/ ~Known(query[t].table)
     \/ /\ query[t].type = "Select"
        /\ query[t].join # NoJoin /\ ~Known(query[t].join.table)
  /\ Finish(t, Thrown)
  /\ UNCHANGED <<tables, prepared, calls>>

\* Every row is validated before the first one is inserted.
validateRows(q) == \A i \in DOMAIN q.rows : Fits(q.table, q.rows[i])

ValidateThrows(t) ==
  /\ Executing(t, "Insert") /\ Known(query[t].table) /\ ~validateRows(query[t])
  /\ Finish(t, Thrown)
  /\ UNCHANGED <<tables, prepared, calls>>

\* One turn of executeInsert's loop.
InsertRow(t) ==
  LET row == query[t].rows[Len(done[t]) + 1]
  IN  /\ Executing(t, "Insert") /\ Known(query[t].table) /\ validateRows(query[t])
      /\ Len(done[t]) < Len(query[t].rows)
      /\ tables' = [tables EXCEPT ![query[t].table] = Append(@, row)]
      /\ done' = [done EXCEPT ![t] = Append(@, row)]
      /\ UNCHANGED <<prepared, lockVars, pc, query, sql, result, calls>>

InsertReturns(t) ==
  /\ Executing(t, "Insert") /\ Known(query[t].table) /\ validateRows(query[t])
  /\ Len(done[t]) = Len(query[t].rows)
  /\ Finish(t, [inserted |-> Len(query[t].rows)])
  /\ UNCHANGED <<tables, prepared, calls>>

SelectRows(t) ==
  /\ Executing(t, "Select") /\ query[t].join = NoJoin /\ Known(query[t].table)
  /\ Finish(t, [rows |-> tables[query[t].table]])
  /\ UNCHANGED <<tables, prepared, calls>>

\* executeJoinSelect takes its copy of the left table ...
ReadLeft(t) ==
  /\ Executing(t, "Select") /\ query[t].join # NoJoin /\ done[t] = << >>
  /\ Known(query[t].table) /\ Known(query[t].join.table)
  /\ done' = [done EXCEPT ![t] = <<tables[query[t].table]>>]
  /\ UNCHANGED <<tables, prepared, lockVars, pc, query, sql, result, calls>>

\* ... and then of the right one.
ReadRight(t) ==
  /\ Executing(t, "Select") /\ query[t].join # NoJoin /\ done[t] # << >>
  /\ Finish(t, [left |-> done[t][1], right |-> tables[query[t].join.table]])
  /\ UNCHANGED <<tables, prepared, calls>>

ListTables(t) ==
  /\ Executing(t, "ListTables")
  /\ Finish(t, [names |-> DOMAIN tables])
  /\ UNCHANGED <<tables, prepared, calls>>

CreateTable(t) ==
  LET n == query[t].name
  IN  /\ Executing(t, "CreateTable")
      /\ tables' = IF Known(n) THEN tables
                   ELSE [m \in DOMAIN tables \cup {n} |-> IF m = n THEN << >> ELSE tables[m]]
      /\ Finish(t, [success |-> ~Known(n)])
      /\ UNCHANGED <<prepared, calls>>

DropTable(t) ==
  LET n == query[t].name
  IN  /\ Executing(t, "DropTable")
      /\ tables' = [m \in DOMAIN tables \ {n} |-> tables[m]]
      /\ Finish(t, [success |-> Known(n)])
      /\ UNCHANGED <<prepared, calls>>

PrepareStatement(t) ==
  LET n == query[t].name
  IN  /\ Executing(t, "PrepareStatement")
      /\ prepared' = [m \in DOMAIN prepared \cup {n} |->
                        IF m = n THEN query[t].sql ELSE prepared[m]]
      /\ Finish(t, [message |-> "PrepareStatement"])
      /\ UNCHANGED <<tables, calls>>

Exit(t) ==
  /\ Executing(t, "Exit")
  /\ Finish(t, [message |-> "Exit"])
  /\ UNCHANGED <<tables, prepared, calls>>

\* The steps of a call, in the order the thread takes them.
Step(t) ==
  \/ ParseThrows(t) \/ Lock(t)
  \/ LockForLookup(t) \/ Lookup(t) \/ LookupThrows(t) \/ BindAndParse(t)
  \/ UnknownTable(t) \/ ValidateThrows(t) \/ InsertRow(t) \/ InsertReturns(t)
  \/ SelectRows(t) \/ ReadLeft(t) \/ ReadRight(t) \/ ListTables(t)
  \/ CreateTable(t) \/ DropTable(t) \/ PrepareStatement(t) \/ Exit(t)

Next == \E t \in Thread : Call(t) \/ Step(t)

\* A thread that is inside a call goes on when it can.  std::shared_mutex promises
\* no order among the threads that wait for it, and none is assumed: a step that
\* needs the lock is fair only while the lock stays free.  Clients need not call.
Spec == Init /\ [][Next]_vars /\ \A t \in Thread : WF_vars(Step(t))

-----------------------------------------------------------------------------
(* Properties.                                                             *)

\* TypeOK: clients are where the code can be, and nobody reads while one writes.
TypeOK ==
  /\ readers \subseteq Thread /\ writer \in Thread \cup {NoThread}
  /\ writer # NoThread => readers = {}
  /\ pc \in [Thread -> {"idle", "execute", "lookup", "bind", "locked", "ended"}]
  /\ calls \in [Thread -> 0..MaxCalls]
  /\ \A t \in Thread :
       (t \in readers \/ t = writer) <=> pc[t] \in {"lookup", "locked"}

\* The rows of an INSERT that has not returned have not happened yet.
RowsPending(n) ==
  {t \in Thread : Executing(t, "Insert") /\ query[t].table = n /\ done[t] # << >>}

TablesBefore ==
  [n \in DOMAIN tables |->
     IF RowsPending(n) = {} THEN tables[n]
     ELSE LET t == CHOOSE t \in RowsPending(n) : TRUE
          IN  SubSeq(tables[n], 1, Len(tables[n]) - Len(done[t]))]

\* A text that was looked up has become the statement it will be parsed to.
QueryBound(t) ==
  IF pc[t] # "bind" THEN query[t]
  ELSE LET bound == Bind(sql[t], query[t].parameters)
       IN  IF bound.ok THEN Parse(bound.val) ELSE ParseError

Serial ==
  INSTANCE SerialSessions WITH
    tables <- TablesBefore,
    state <- [t \in Thread |-> IF pc[t] \in {"idle", "ended"} THEN pc[t] ELSE "called"],
    query <- [t \in Thread |-> QueryBound(t)]

\* RefinesSerial: whatever the threads' order, every statement takes effect and
\* answers as if it ran alone at one moment between its call and its return; only
\* an EXECUTE is two such moments, the lookup and the statement (execute(),
\* bindPreparedSql and the lock they share).
RefinesSerial == Serial!Spec

\* EveryCallReturns: a client that calls is answered, or its statement throws,
\* when the others make a bounded number of calls (without end they could keep
\* the lock from it for ever): no lock is taken twice by one thread, kept by an
\* EXECUTE, or lost with an exception.
EveryCallReturns ==
  \A t \in Thread : pc[t] = "execute" ~> pc[t] \in {"idle", "ended"}

=============================================================================
