--------------------------- MODULE SerialSessions ----------------------------
(***************************************************************************)
(* What clients that share one executor may rely on: every statement takes *)
(* effect at once, between its call and its return.  An EXECUTE takes two  *)
(* steps: the prepared text is looked up in one, and the statement it      *)
(* became takes effect in a later one.                                     *)
(***************************************************************************)
EXTENDS Naturals, Sequences

CONSTANTS
  Thread,
  Text,                  \* the statements clients write
  Parse(_),              \* Parser::parse: the query of a text, or ParseError
  Bind(_, _),            \* bindPreparedSql: the bound text of a prepared one
  Fits(_, _),            \* Table::validateRow: whether a row fits the table of that name
  NoJoin,                \* std::nullopt, the join of a SELECT from one table
  InitialTables,         \* for each table its rows
  InitialPrepared        \* for each prepared statement its text

VARIABLES
  tables,                \* for each table its rows
  prepared,              \* preparedStatements_
  state,                 \* of each client: "idle", "called" or "ended"
  query,                 \* of each client the statement it waits for
  result                 \* of each client the result it was given last

vars == <<tables, prepared, state, query, result>>

NoQuery == [type |-> "None"]
ParseError == [type |-> "ParseError"]

Nothing == [none |-> TRUE]
Thrown == [thrown |-> TRUE]

-----------------------------------------------------------------------------
(* The effect of a statement that takes place at once.                     *)

\* The text a lookup found with the parameters in place, and parsed.
Bound(sql, parameters) ==
  LET bound == Bind(sql, parameters)
  IN  IF bound.ok THEN Parse(bound.val) ELSE ParseError

WithTable(ts, n, rows) == [m \in DOMAIN ts \cup {n} |-> IF m = n THEN rows ELSE ts[m]]
Without(ts, n) == [m \in DOMAIN ts \ {n} |-> ts[m]]

AllFit(q) == \A i \in DOMAIN q.rows : Fits(q.table, q.rows[i])

TablesAfter(q, ts) ==
  CASE q.type = "CreateTable" /\ q.name \notin DOMAIN ts -> WithTable(ts, q.name, << >>)
    [] q.type = "DropTable" -> Without(ts, q.name)
    [] q.type = "Insert" /\ q.table \in DOMAIN ts /\ AllFit(q) ->
         WithTable(ts, q.table, ts[q.table] \o q.rows)
    [] OTHER -> ts

PreparedAfter(q, ps) ==
  IF q.type = "PrepareStatement" THEN WithTable(ps, q.name, q.sql) ELSE ps

\* A SELECT's answer is the rows it reads: of the table, or of both tables.
ResultOf(q, ts) ==
  CASE q.type = "ParseError" -> Thrown
    [] q.type \in {"Insert", "Select"} /\ q.table \notin DOMAIN ts -> Thrown
    [] q.type = "Insert" /\ q.table \in DOMAIN ts ->
         IF AllFit(q) THEN [inserted |-> Len(q.rows)] ELSE Thrown
    [] q.type = "Select" /\ q.table \in DOMAIN ts ->
         IF q.join = NoJoin THEN [rows |-> ts[q.table]]
         ELSE IF q.join.table \in DOMAIN ts THEN [left |-> ts[q.table], right |-> ts[q.join.table]]
         ELSE Thrown
    [] q.type = "ListTables" -> [names |-> DOMAIN ts]
    [] q.type = "CreateTable" -> [success |-> q.name \notin DOMAIN ts]
    [] q.type = "DropTable" -> [success |-> q.name \in DOMAIN ts]
    [] q.type \in {"PrepareStatement", "Exit"} -> [message |-> q.type]

-----------------------------------------------------------------------------

Init ==
  /\ tables = InitialTables
  /\ prepared = InitialPrepared
  /\ state = [t \in Thread |-> "idle"]
  /\ query = [t \in Thread |-> NoQuery]
  /\ result = [t \in Thread |-> Nothing]

\* A client calls with a statement of its own.
Call(t) ==
  /\ state[t] = "idle"
  /\ state' = [state EXCEPT ![t] = "called"]
  /\ \E q \in {Parse(text) : text \in Text} : query' = [query EXCEPT ![t] = q]
  /\ UNCHANGED <<tables, prepared, result>>

Return(t, r) ==
  /\ state' = [state EXCEPT ![t] = IF query[t].type = "Exit" THEN "ended" ELSE "idle"]
  /\ result' = [result EXCEPT ![t] = r]
  /\ query' = [query EXCEPT ![t] = NoQuery]

\* An EXECUTE becomes the statement that is prepared under its name now ...
Resolve(t) ==
  /\ state[t] = "called" /\ query[t].type = "ExecutePrepared"
  /\ query[t].name \in DOMAIN prepared
  /\ UNCHANGED <<tables, prepared, state, result>>
  /\ query' = [query EXCEPT ![t] = Bound(prepared[query[t].name], query[t].parameters)]

\* ... or throws when there is none.
ResolveThrows(t) ==
  /\ state[t] = "called" /\ query[t].type = "ExecutePrepared"
  /\ query[t].name \notin DOMAIN prepared
  /\ Return(t, Thrown)
  /\ UNCHANGED <<tables, prepared>>

\* The statement takes effect, and the client has its result.
Perform(t) ==
  /\ state[t] = "called" /\ query[t].type # "ExecutePrepared"
  /\ Return(t, ResultOf(query[t], tables))
  /\ tables' = TablesAfter(query[t], tables)
  /\ prepared' = PreparedAfter(query[t], prepared)

Next == \E t \in Thread : Call(t) \/ Resolve(t) \/ ResolveThrows(t) \/ Perform(t)

Spec == Init /\ [][Next]_vars

=============================================================================
