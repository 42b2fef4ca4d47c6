--------------------------- MODULE SessionsProofs ----------------------------
(***************************************************************************)
(* Any number of clients, with any statements, share the executor as if    *)
(* every statement ran alone at one moment.                                *)
(*                                                                         *)
(* The invariant says who holds the lock and how (LockInv), and how far    *)
(* the holder's statement has come (Progress): the rows an INSERT has put  *)
(* in are the last of its table, and the rows a JOIN read first are still  *)
(* the rows of that table.  It is inductive because a statement that       *)
(* changes a table holds the lock alone.                                   *)
(***************************************************************************)
EXTENDS Sessions, SequenceTheorems, TLAPS

IsQuery(q) ==
  /\ q.type = "Insert" => q.rows \in Seq(Row)
  /\ q.type = "PrepareStatement" => q.sql \in AnyText
  /\ q.type = "ExecutePrepared" =>
       \A text \in AnyText :
         Bind(text, q.parameters).ok => Bind(text, q.parameters).val \in AnyText

Shapes ==
  /\ tables \in [DOMAIN tables -> Seq(Row)]
  /\ prepared \in [DOMAIN prepared -> AnyText]
  /\ pc \in [Thread -> {"idle", "execute", "lookup", "bind", "locked", "ended"}]
  /\ calls \in [Thread -> 0..MaxCalls]
  /\ query = [t \in Thread |-> query[t]]
  /\ sql = [t \in Thread |-> sql[t]]
  /\ done = [t \in Thread |-> done[t]]
  /\ result = [t \in Thread |-> result[t]]

LockInv ==
  /\ readers \subseteq Thread /\ writer \in Thread \cup {NoThread}
  /\ writer # NoThread => readers = {}
  /\ \A t \in Thread :
       /\ t \in readers <=> \/ pc[t] = "lookup"
                            \/ pc[t] = "locked" /\ readOnly(query[t])
       /\ t = writer <=> pc[t] = "locked" /\ ~readOnly(query[t])

\* The rows the INSERT has put in are its first, and the last of the table.
InsertProgress(t) ==
  LET n == query[t].table  k == Len(done[t])
  IN  /\ done[t] \in Seq(Row) /\ k <= Len(query[t].rows)
      /\ done[t] # << >> =>
           /\ n \in DOMAIN tables /\ k <= Len(tables[n]) /\ validateRows(query[t])
           /\ \A i \in 1..k : tables[n][Len(tables[n]) - k + i] = query[t].rows[i]

\* The rows the JOIN read are still there, and so is the table it reads next.
JoinProgress(t) ==
  done[t] # << >> =>
    /\ query[t].join # NoJoin
    /\ query[t].table \in DOMAIN tables /\ query[t].join.table \in DOMAIN tables
    /\ done[t] = <<tables[query[t].table]>>

Progress(t) ==
  /\ IsQuery(query[t])
  /\ pc[t] \in {"lookup", "bind"} => query[t].type = "ExecutePrepared"
  /\ pc[t] = "bind" => sql[t] \in AnyText
  /\ pc[t] = "locked" => query[t].type \notin {"ExecutePrepared", "ParseError"}
  /\ Executing(t, "Insert") => InsertProgress(t)
  /\ Executing(t, "Select") => JoinProgress(t)
  /\ done[t] # << >> => Executing(t, "Insert") \/ Executing(t, "Select")

SessionsInv ==
  /\ Shapes
  /\ LockInv
  /\ \A t \in Thread : Progress(t)

-----------------------------------------------------------------------------
(* What the parser and the binding make is a query.                        *)

LEMMA ParsedIsQuery == \A text \in AnyText : IsQuery(Parse(text))
BY TextAssumption DEF IsQuery

LEMMA PlainQueries == IsQuery(NoQuery) /\ IsQuery(ParseError)
BY DEF IsQuery, NoQuery, ParseError

-----------------------------------------------------------------------------
(* The rows an INSERT has put in are the last rows of the table.           *)

\* One more row of rows at the end of s.
LEMMA TailAppend ==
  ASSUME NEW s \in Seq(Row), NEW rows \in Seq(Row), NEW k \in Nat,
         k <= Len(s), k < Len(rows),
         \A i \in 1..k : s[Len(s) - k + i] = rows[i],
         NEW z, z = Append(s, rows[k + 1])
  PROVE  \A i \in 1..(k + 1) : z[Len(z) - (k + 1) + i] = rows[i]
<1>1. Len(z) = Len(s) + 1 /\ z[Len(s) + 1] = rows[k + 1] /\ \A j \in 1..Len(s) : z[j] = s[j]
  OBVIOUS
<1>2. ASSUME NEW i \in 1..(k + 1)
      PROVE  z[Len(z) - (k + 1) + i] = rows[i]
  <2> DEFINE j == Len(s) - k + i
  <2>1. j \in Nat /\ j = Len(z) - (k + 1) + i
    BY <1>1
  <2>2. CASE i = k + 1
    BY <1>1, <2>1, <2>2
  <2>3. CASE i \in 1..k
    <3>1. j \in 1..Len(s)
      BY <2>3
    <3>2. z[j] = s[j] /\ s[j] = rows[i]
      BY <1>1, <2>3, <3>1
    <3> QED  BY <2>1, <3>2
  <2>4. i = k + 1 \/ i \in 1..k
    OBVIOUS
  <2> QED  BY <2>2, <2>3, <2>4
<1> QED  BY <1>2

\* The rows before one more row that belongs to the statement.
LEMMA AppendBefore ==
  ASSUME NEW s \in Seq(Row), NEW row \in Row, NEW k \in Nat, k <= Len(s),
         NEW z, z = Append(s, row)
  PROVE  SubSeq(z, 1, Len(z) - (k + 1)) = SubSeq(s, 1, Len(s) - k)
<1> DEFINE n == Len(s) - k
<1>1. n \in Int /\ n <= Len(s) /\ Len(z) - (k + 1) = n
  OBVIOUS
<1>2. \A i \in 1..n : s[i] \in Row /\ z[i] = s[i]
  BY <1>1
<1> HIDE DEF n
<1>3. /\ SubSeq(s, 1, n) \in Seq(Row) /\ SubSeq(z, 1, n) \in Seq(Row)
      /\ Len(SubSeq(s, 1, n)) = Len(SubSeq(z, 1, n))
      /\ Len(SubSeq(s, 1, n)) = IF 1 <= n THEN n ELSE 0
      /\ \A i \in 1..n : SubSeq(s, 1, n)[i] = s[i] /\ SubSeq(z, 1, n)[i] = z[i]
  BY <1>1, <1>2, SubSeqProperties
<1>4. SubSeq(z, 1, n) = SubSeq(s, 1, n)
  BY <1>1, <1>2, <1>3, SeqEqual
<1> QED  BY <1>1, <1>4 DEF n

\* All rows of the statement, after the ones before them.
LEMMA AllRows ==
  ASSUME NEW s \in Seq(Row), NEW rows \in Seq(Row), Len(rows) <= Len(s),
         \A i \in 1..Len(rows) : s[Len(s) - Len(rows) + i] = rows[i]
  PROVE  s = SubSeq(s, 1, Len(s) - Len(rows)) \o rows
<1> DEFINE n == Len(s) - Len(rows)
           b == SubSeq(s, 1, n)
<1>1. n \in Nat /\ n <= Len(s) /\ n + Len(rows) = Len(s)
  OBVIOUS
<1>2. \A i \in 1..n : s[i] \in Row
  BY <1>1
<1>3. \A i \in 1..Len(rows) : s[n + i] = rows[i]
  OBVIOUS
<1> HIDE DEF n
<1>4. b \in Seq(Row) /\ Len(b) = n /\ \A i \in 1..n : b[i] = s[i]
  BY <1>1, <1>2, SubSeqProperties
<1> HIDE DEF b
<1>5. /\ b \o rows \in Seq(Row) /\ Len(b \o rows) = Len(s)
      /\ \A i \in 1..Len(s) : (b \o rows)[i] = IF i <= n THEN b[i] ELSE rows[i - n]
  <2>1. /\ b \o rows \in Seq(Row) /\ Len(b \o rows) = Len(b) + Len(rows)
        /\ \A i \in 1..(Len(b) + Len(rows)) :
             (b \o rows)[i] = IF i <= Len(b) THEN b[i] ELSE rows[i - Len(b)]
    BY <1>4, ConcatProperties, Zenon
  <2>2. Len(b) = n /\ Len(b) + Len(rows) = Len(s)
    BY <1>1, <1>4
  <2>3. QED
    BY <2>1, <2>2, Zenon
<1>6. ASSUME NEW i \in 1..Len(s) PROVE s[i] = (b \o rows)[i]
  <2>1. CASE i <= n
    BY <1>1, <1>4, <1>5, <2>1
  <2>2. CASE ~(i <= n)
    <3>1. i - n \in 1..Len(rows) /\ n + (i - n) = i
      BY <1>1, <2>2
    <3> QED  BY <1>3, <1>5, <2>2, <3>1
  <2> QED  BY <2>1, <2>2
<1>7. s = b \o rows
  BY <1>5, <1>6, SeqEqual
<1> QED  BY <1>7 DEF b, n

-----------------------------------------------------------------------------
(* The lock keeps the statements under way from each other.                *)

\* While a thread holds the lock alone, no other statement is under way.
LEMMA WriterIsAlone ==
  ASSUME SessionsInv, NEW t \in Thread, pc[t] = "locked", ~readOnly(query[t]),
         NEW u \in Thread, u # t
  PROVE  pc[u] \notin {"lookup", "locked"} /\ done[u] = << >>
BY NoThreadAssumption DEF SessionsInv, LockInv, Progress, Executing

\* While a thread reads, no row of an INSERT is waiting for the others.
LEMMA ReaderSeesAll ==
  ASSUME SessionsInv, NEW t \in Thread, pc[t] = "locked", readOnly(query[t]),
         NEW u \in Thread
  PROVE  ~Executing(u, "Insert")
BY NoThreadAssumption DEF SessionsInv, LockInv, readOnly, Executing

-----------------------------------------------------------------------------
(* Each step keeps the invariant.                                          *)

\* A step of t leaves the variables of the other clients alone.
OnlyMoves(t) ==
  \A u \in Thread \ {t} :
    pc'[u] = pc[u] /\ query'[u] = query[u] /\ sql'[u] = sql[u] /\ done'[u] = done[u]

LEMMA OthersKept ==
  ASSUME SessionsInv, NEW t \in Thread, OnlyMoves(t),
         UNCHANGED tables \/ (pc[t] = "locked" /\ ~readOnly(query[t]))
  PROVE  \A u \in Thread \ {t} : Progress(u)'
<1> SUFFICES ASSUME NEW u \in Thread, u # t PROVE Progress(u)'
  OBVIOUS
<1>1. Progress(u)
  BY DEF SessionsInv
<1>2. pc'[u] = pc[u] /\ query'[u] = query[u] /\ sql'[u] = sql[u] /\ done'[u] = done[u]
  BY DEF OnlyMoves
<1>3. CASE UNCHANGED tables
  BY <1>1, <1>2, <1>3 DEF Progress, InsertProgress, JoinProgress, Executing
<1>4. CASE pc[t] = "locked" /\ ~readOnly(query[t])
  <2>1. pc[u] # "locked" /\ done[u] = << >>
    BY <1>4, WriterIsAlone
  <2> QED  BY <1>1, <1>2, <2>1 DEF Progress, Executing
<1> QED  BY <1>3, <1>4

\* A step of t keeps the invariant when it keeps the part that is about t.
LEMMA StepKeeps ==
  ASSUME SessionsInv, NEW t \in Thread, OnlyMoves(t),
         UNCHANGED tables \/ (pc[t] = "locked" /\ ~readOnly(query[t])),
         Shapes', LockInv', Progress(t)'
  PROVE  SessionsInv'
BY OthersKept DEF SessionsInv

LEMMA CallStep ==
  ASSUME SessionsInv, NEW t \in Thread, Call(t)
  PROVE  SessionsInv'
<1> USE DEF SessionsInv, Call
<1>1. PICK text \in Text : query' = [query EXCEPT ![t] = Parse(text)]
  OBVIOUS
<1>2. Shapes'
  <2>1. calls' \in [Thread -> 0..MaxCalls]
    BY MaxCallsAssumption DEF Shapes
  <2>2. query' = [u \in Thread |-> query'[u]]
    BY <1>1 DEF Shapes
  <2> QED  BY <2>1, <2>2 DEF Shapes
<1>3. LockInv'
  BY DEF Shapes, LockInv, lockVars
<1>4. IsQuery(query'[t])
  BY <1>1, ParsedIsQuery, TextAssumption DEF Shapes
<1>5. Progress(t)'
  BY <1>4 DEF Shapes, Progress, Executing
<1>6. OnlyMoves(t)
  BY DEF Shapes, OnlyMoves
<1> QED  BY <1>2, <1>3, <1>5, <1>6, StepKeeps

\* A statement that only returns: nothing was changed, and the lock is released.
LEMMA ReturnStep ==
  ASSUME SessionsInv, NEW t \in Thread, NEW r, Return(t, r),
         \/ pc[t] = "execute" /\ UNCHANGED lockVars
         \/ pc[t] \in {"lookup", "locked"} /\ release(t),
         UNCHANGED calls,
         UNCHANGED tables \/ (pc[t] = "locked" /\ ~readOnly(query[t])),
         tables' \in [DOMAIN tables' -> Seq(Row)],
         prepared' \in [DOMAIN prepared' -> AnyText]
  PROVE  SessionsInv'
<1> USE DEF SessionsInv, Return
<1>1. Shapes'
  BY DEF Shapes
<1>2. LockInv'
  BY NoThreadAssumption DEF Shapes, LockInv, lockVars, release, readOnly, NoQuery
<1>3. Progress(t)'
  BY PlainQueries DEF Shapes, Progress, Executing
<1>4. OnlyMoves(t)
  BY DEF Shapes, OnlyMoves
<1> QED  BY <1>1, <1>2, <1>3, <1>4, StepKeeps

\* The steps on the way to the lock, and the lookup of a prepared text.
LEMMA LockSteps ==
  ASSUME SessionsInv, NEW t \in Thread, Lock(t) \/ LockForLookup(t)
  PROVE  SessionsInv'
<1> USE DEF SessionsInv, Lock, LockForLookup
<1>1. Shapes'
  BY DEF Shapes
<1>2. LockInv'
  BY NoThreadAssumption
     DEF Shapes, LockInv, acquireRead, acquireWrite, readOnly, IsExecutePrepared, Progress
<1>3. Progress(t)'
  <2>1. done'[t] = << >> /\ query' = query /\ Progress(t)
    BY DEF Progress, Executing
  <2>2. query[t].type = "Insert" => query[t].rows \in Seq(Row)
    BY <2>1 DEF Progress, IsQuery
  <2>3. Executing(t, "Insert")' => InsertProgress(t)'
    BY <2>1, <2>2 DEF Executing, InsertProgress
  <2> QED  BY <2>1, <2>3 DEF Shapes, Progress, Executing, IsExecutePrepared, JoinProgress
<1>4. OnlyMoves(t)
  BY DEF Shapes, OnlyMoves
<1> QED  BY <1>1, <1>2, <1>3, <1>4, StepKeeps

LEMMA LookupStep ==
  ASSUME SessionsInv, NEW t \in Thread, Lookup(t)
  PROVE  SessionsInv'
<1> USE DEF SessionsInv, Lookup
<1>1. Shapes'
  BY DEF Shapes
<1>2. LockInv'
  BY NoThreadAssumption DEF Shapes, LockInv, release
<1>3. Progress(t)'
  BY DEF Shapes, Progress, Executing
<1>4. OnlyMoves(t)
  BY DEF Shapes, OnlyMoves
<1> QED  BY <1>1, <1>2, <1>3, <1>4, StepKeeps

LEMMA BindAndParseStep ==
  ASSUME SessionsInv, NEW t \in Thread, BindAndParse(t)
  PROVE  SessionsInv'
<1> USE DEF SessionsInv, BindAndParse
<1>1. Shapes'
  BY DEF Shapes
<1>2. LockInv'
  BY DEF Shapes, LockInv, lockVars
<1>3. IsQuery(query'[t])
  <2> DEFINE bound == Bind(sql[t], query[t].parameters)
  <2>1. bound.ok => bound.val \in AnyText
    BY DEF Progress, IsQuery
  <2>2. query'[t] = IF bound.ok THEN Parse(bound.val) ELSE ParseError
    BY DEF Shapes
  <2> QED  BY <2>1, <2>2, ParsedIsQuery, PlainQueries
<1>4. Progress(t)'
  BY <1>3 DEF Shapes, Progress, Executing
<1>5. OnlyMoves(t)
  BY DEF Shapes, OnlyMoves
<1> QED  BY <1>1, <1>2, <1>4, <1>5, StepKeeps

LEMMA InsertRowStep ==
  ASSUME SessionsInv, NEW t \in Thread, InsertRow(t)
  PROVE  SessionsInv'
<1> USE DEF SessionsInv, InsertRow
<1> DEFINE n == query[t].table
           k == Len(done[t])
           row == query[t].rows[k + 1]
<1>1. /\ tables \in [DOMAIN tables -> Seq(Row)] /\ n \in DOMAIN tables
      /\ query[t].rows \in Seq(Row) /\ done[t] \in Seq(Row)
      /\ k \in Nat /\ k < Len(query[t].rows)
  BY DEF Shapes, Progress, IsQuery, InsertProgress, Executing, Known
<1>2. row \in Row
  BY <1>1
<1>3. /\ tables' = [tables EXCEPT ![n] = Append(tables[n], row)]
      /\ done' = [done EXCEPT ![t] = Append(done[t], row)]
  OBVIOUS
<1>4. tables' \in [DOMAIN tables' -> Seq(Row)] /\ DOMAIN tables' = DOMAIN tables
  BY <1>1, <1>2, <1>3
<1>5. Shapes'
  BY <1>3, <1>4 DEF Shapes
<1>6. LockInv'
  BY DEF LockInv, lockVars
<1>7. InsertProgress(t)'
  <2>1. done'[t] = Append(done[t], row) /\ tables'[n] = Append(tables[n], row)
    BY <1>1, <1>3 DEF Shapes
  <2>2. /\ done'[t] \in Seq(Row) /\ Len(done'[t]) = k + 1
        /\ tables[n] \in Seq(Row)
        /\ Len(tables'[n]) = Len(tables[n]) + 1
    BY <1>1, <1>2, <2>1
  <2>3. k <= Len(tables[n])
        /\ \A i \in 1..k : tables[n][Len(tables[n]) - k + i] = query[t].rows[i]
    <3>1. InsertProgress(t)
      BY DEF Progress
    <3>2. CASE done[t] = << >>
      BY <1>1, <2>2, <3>2
    <3>3. CASE done[t] # << >>
      BY <3>1, <3>3 DEF InsertProgress
    <3> QED  BY <3>2, <3>3
  <2>4. \A i \in 1..(k + 1) : tables'[n][Len(tables'[n]) - (k + 1) + i] = query[t].rows[i]
    <3> DEFINE rows == query[t].rows
               s == tables[n]
    <3>1. s \in Seq(Row) /\ rows \in Seq(Row) /\ k \in Nat /\ k <= Len(s) /\ k < Len(rows)
          /\ \A i \in 1..k : s[Len(s) - k + i] = rows[i]
      BY <1>1, <2>2, <2>3
    <3>2. tables'[n] = Append(s, rows[k + 1])
      BY <2>1
    <3> DEFINE z == tables'[n]
    <3>4. z = Append(s, rows[k + 1])
      BY <3>2
    <3> HIDE DEF s, rows, k, n, z, SessionsInv, InsertRow
    <3>3. \A i \in 1..(k + 1) : z[Len(z) - (k + 1) + i] = rows[i]
      BY <3>1, <3>4, TailAppend
    <3> QED  BY <3>3 DEF rows, z
  <2>5. query' = query /\ n \in DOMAIN tables' /\ k + 1 <= Len(tables'[n])
        /\ k + 1 <= Len(query[t].rows)
    BY <1>1, <1>4, <2>2, <2>3
  <2> HIDE DEF k
  <2> QED  BY <2>2, <2>4, <2>5 DEF InsertProgress
<1>8. Progress(t)'
  BY <1>7 DEF Progress, Executing
<1>9. OnlyMoves(t)
  BY <1>3 DEF Shapes, OnlyMoves
<1> QED  BY <1>5, <1>6, <1>8, <1>9, StepKeeps DEF Executing, readOnly

LEMMA ReadLeftStep ==
  ASSUME SessionsInv, NEW t \in Thread, ReadLeft(t)
  PROVE  SessionsInv'
<1> USE DEF SessionsInv, ReadLeft
<1>1. Shapes'
  BY DEF Shapes
<1>2. LockInv'
  BY DEF LockInv, lockVars
<1>3. Progress(t)'
  BY DEF Shapes, Progress, Executing, JoinProgress, Known
<1>4. OnlyMoves(t)
  BY DEF Shapes, OnlyMoves
<1> QED  BY <1>1, <1>2, <1>3, <1>4, StepKeeps

\* The statements that return without a change.
LEMMA QuietReturns ==
  ASSUME SessionsInv, NEW t \in Thread,
         \/ ParseThrows(t) \/ LookupThrows(t) \/ UnknownTable(t) \/ ValidateThrows(t)
         \/ InsertReturns(t) \/ SelectRows(t) \/ ReadRight(t) \/ ListTables(t) \/ Exit(t)
  PROVE  SessionsInv'
<1>1. /\ UNCHANGED <<tables, prepared, calls>>
      /\ \E r : Return(t, r)
      /\ \/ pc[t] = "execute" /\ UNCHANGED lockVars
         \/ pc[t] \in {"lookup", "locked"} /\ release(t)
  BY DEF ParseThrows, LookupThrows, UnknownTable, ValidateThrows, InsertReturns, SelectRows,
         ReadRight, ListTables, Exit, Finish, Executing
<1>2. tables \in [DOMAIN tables -> Seq(Row)] /\ prepared \in [DOMAIN prepared -> AnyText]
  BY DEF SessionsInv, Shapes
<1> QED  BY <1>1, <1>2, ReturnStep

LEMMA TableStep ==
  ASSUME SessionsInv, NEW t \in Thread, CreateTable(t) \/ DropTable(t)
  PROVE  SessionsInv'
<1>1. tables \in [DOMAIN tables -> Seq(Row)] /\ prepared \in [DOMAIN prepared -> AnyText]
  BY DEF SessionsInv, Shapes
<1>2. tables' \in [DOMAIN tables' -> Seq(Row)]
  <2>1. << >> \in Seq(Row)
    OBVIOUS
  <2>2. CASE CreateTable(t)
    BY <1>1, <2>1, <2>2 DEF CreateTable
  <2>3. CASE DropTable(t)
    BY <1>1, <2>3 DEF DropTable
  <2> QED  BY <2>2, <2>3
<1>3. /\ pc[t] = "locked" /\ ~readOnly(query[t]) /\ release(t)
      /\ UNCHANGED <<prepared, calls>>
      /\ \E r : Return(t, r)
  BY DEF CreateTable, DropTable, Finish, Executing, readOnly
<1> QED  BY <1>1, <1>2, <1>3, ReturnStep

LEMMA PrepareStep ==
  ASSUME SessionsInv, NEW t \in Thread, PrepareStatement(t)
  PROVE  SessionsInv'
<1>1. tables \in [DOMAIN tables -> Seq(Row)] /\ prepared \in [DOMAIN prepared -> AnyText]
  BY DEF SessionsInv, Shapes
<1>2. query[t].sql \in AnyText
  BY DEF SessionsInv, Progress, IsQuery, PrepareStatement, Executing
<1>3. prepared' \in [DOMAIN prepared' -> AnyText]
  BY <1>1, <1>2 DEF PrepareStatement
<1>4. /\ pc[t] = "locked" /\ ~readOnly(query[t]) /\ release(t)
      /\ UNCHANGED <<tables, calls>>
      /\ \E r : Return(t, r)
  BY DEF PrepareStatement, Finish, Executing, readOnly
<1> QED  BY <1>1, <1>3, <1>4, ReturnStep

LEMMA SessionsInit == ASSUME Init PROVE SessionsInv
<1>1. Shapes
  BY InitialAssumption, MaxCallsAssumption DEF Init, Shapes
<1>2. LockInv
  BY NoThreadAssumption DEF Init, LockInv
<1>3. \A t \in Thread : Progress(t)
  BY PlainQueries DEF Init, Progress, Executing
<1> QED  BY <1>1, <1>2, <1>3 DEF SessionsInv

LEMMA SessionsStutter == ASSUME SessionsInv, UNCHANGED vars PROVE SessionsInv'
<1>1. Shapes'
  BY DEF SessionsInv, Shapes, vars
<1>2. LockInv'
  BY DEF SessionsInv, LockInv, vars, lockVars
<1>3. \A t \in Thread : Progress(t)'
  BY DEF SessionsInv, Progress, InsertProgress, JoinProgress, Executing, vars
<1> QED  BY <1>1, <1>2, <1>3 DEF SessionsInv

LEMMA SessionsNext == ASSUME SessionsInv, [Next]_vars PROVE SessionsInv'
<1>1. CASE UNCHANGED vars
  BY <1>1, SessionsStutter
<1>2. ASSUME NEW t \in Thread, Call(t) \/ Step(t) PROVE SessionsInv'
  BY <1>2, CallStep, LockSteps, LookupStep, BindAndParseStep, InsertRowStep, ReadLeftStep,
     QuietReturns, TableStep, PrepareStep, Zenon DEF Step
<1> QED  BY <1>1, <1>2, Zenon DEF Next

LEMMA SessionsAlways == Spec => []SessionsInv
<1>1. Init => SessionsInv
  BY SessionsInit
<1>2. SessionsInv /\ [Next]_vars => SessionsInv'
  BY SessionsNext
<1> QED  BY <1>1, <1>2, PTL DEF Spec

(* Every client is where the code can be, a thread holds the lock exactly  *)
(* while it looks up or executes, and nobody reads while one writes.       *)
(* (LockManager, execute())                                                *)
THEOREM SessionsTypeCorrect == Spec => []TypeOK
<1>1. SessionsInv => TypeOK
  BY DEF SessionsInv, Shapes, LockInv, TypeOK
<1> QED  BY <1>1, SessionsAlways, PTL

-----------------------------------------------------------------------------
(* The serial executor: the tables without the rows of an INSERT under way *)
(* are the ones its statements see.                                        *)

\* With no INSERT under way they are the tables.
LEMMA BeforeIsNow ==
  ASSUME SessionsInv, \A t \in Thread : ~(Executing(t, "Insert") /\ done[t] # << >>)
  PROVE  TablesBefore = tables
<1>1. \A n : RowsPending(n) = {}
  BY DEF RowsPending
<1>2. tables = [n \in DOMAIN tables |-> tables[n]]
  BY DEF SessionsInv, Shapes
<1> QED  BY <1>1, <1>2 DEF TablesBefore

\* Any statement but an INSERT sees them while it holds the lock.
LEMMA HolderSeesNow ==
  ASSUME SessionsInv, NEW t \in Thread, pc[t] = "locked", query[t].type # "Insert"
  PROVE  TablesBefore = tables
<1>1. ASSUME NEW u \in Thread, Executing(u, "Insert") PROVE done[u] = << >>
  <2>1. u # t
    BY <1>1 DEF Executing
  <2> QED  BY <1>1, <2>1, WriterIsAlone, ReaderSeesAll
<1> QED  BY <1>1, BeforeIsNow

\* They change only when the tables do, or the rows that are waiting.
LEMMA BeforeKept ==
  ASSUME UNCHANGED tables,
         \A t \in Thread : Executing(t, "Insert") /\ done[t] # << >>
           => pc'[t] = pc[t] /\ query'[t] = query[t] /\ done'[t] = done[t],
         \A t \in Thread : (Executing(t, "Insert") /\ done[t] # << >>)'
           => pc'[t] = pc[t] /\ query'[t] = query[t] /\ done'[t] = done[t]
  PROVE  UNCHANGED TablesBefore
<1>1. \A n : RowsPending(n)' = RowsPending(n)
  BY DEF RowsPending, Executing
<1>2. \A n : \A t \in RowsPending(n) : done'[t] = done[t]
  BY DEF RowsPending
<1>3. ASSUME NEW n \in DOMAIN tables
      PROVE  TablesBefore'[n] = TablesBefore[n]
  <2> DEFINE p == RowsPending(n)
             c == CHOOSE t \in p : TRUE
  <2>1. p' = p
    BY <1>1
  <2>2. c' = c
    BY <2>1
  <2>3. TablesBefore[n] = IF p = {} THEN tables[n]
                          ELSE SubSeq(tables[n], 1, Len(tables[n]) - Len(done[c]))
    BY DEF TablesBefore
  <2>4. TablesBefore'[n] = IF p' = {} THEN tables'[n]
                           ELSE SubSeq(tables'[n], 1, Len(tables'[n]) - Len(done'[c']))
    BY DEF TablesBefore
  <2>5. p # {} => c \in p
    OBVIOUS
  <2>6. p # {} => done'[c] = done[c]
    BY <1>2, <2>5
  <2> HIDE DEF p, c
  <2> QED  BY <2>1, <2>2, <2>3, <2>4, <2>6
<1> QED  BY <1>3 DEF TablesBefore

\* What the serial executor takes for a client's state and statement.
StateOf(t) == IF pc[t] \in {"idle", "ended"} THEN pc[t] ELSE "called"

LEMMA StateMoves ==
  ASSUME SessionsInv, NEW t \in Thread, OnlyMoves(t)
  PROVE  /\ [u \in Thread |-> StateOf(u)]'
              = [[u \in Thread |-> StateOf(u)] EXCEPT ![t] = StateOf(t)']
         /\ [u \in Thread |-> QueryBound(u)]'
              = [[u \in Thread |-> QueryBound(u)] EXCEPT ![t] = QueryBound(t)']
<1>1. \A u \in Thread : u # t => StateOf(u)' = StateOf(u) /\ QueryBound(u)' = QueryBound(u)
  BY DEF OnlyMoves, StateOf, QueryBound
<1> QED  BY <1>1

\* A call that returns is a return of the serial executor.
LEMMA SerialReturn ==
  ASSUME SessionsInv, NEW t \in Thread, NEW r, Return(t, r),
         pc[t] \in {"execute", "lookup", "locked"}
  PROVE  /\ Serial!Return(t, r)
         /\ [u \in Thread |-> StateOf(u)][t] = "called"
         /\ [u \in Thread |-> QueryBound(u)][t] = query[t]
<1>1. OnlyMoves(t)
  BY DEF SessionsInv, Shapes, Return, OnlyMoves
<1>2. /\ StateOf(t) = "called" /\ QueryBound(t) = query[t]
      /\ StateOf(t)' = IF query[t].type = "Exit" THEN "ended" ELSE "idle"
      /\ QueryBound(t)' = NoQuery
  BY DEF SessionsInv, Shapes, Return, StateOf, QueryBound
<1>3. result' = [result EXCEPT ![t] = r]
  BY DEF Return
<1> QED  BY <1>1, <1>2, <1>3, StateMoves DEF Serial!Return, StateOf, NoQuery, Serial!NoQuery

LEMMA SerialPerform ==
  ASSUME SessionsInv, NEW t \in Thread, pc[t] \in {"execute", "locked"},
         query[t].type # "ExecutePrepared",
         NEW r, Return(t, r), r = Serial!ResultOf(query[t], TablesBefore),
         TablesBefore' = Serial!TablesAfter(query[t], TablesBefore),
         prepared' = Serial!PreparedAfter(query[t], prepared)
  PROVE  Serial!Perform(t)
<1>1. /\ Serial!Return(t, r)
      /\ [u \in Thread |-> StateOf(u)][t] = "called"
      /\ [u \in Thread |-> QueryBound(u)][t] = query[t]
  BY SerialReturn
<1>2. StateOf(t) = "called" /\ QueryBound(t) = query[t]
  BY <1>1
<1> QED  BY <1>1, <1>2 DEF Serial!Perform, Serial!Return, StateOf

\* A step of t that returns changes none of the rows that wait for another thread.
LEMMA ReturnKeepsBefore ==
  ASSUME SessionsInv, NEW t \in Thread, NEW r, Return(t, r), UNCHANGED tables,
         query[t].type # "Insert"
  PROVE  UNCHANGED TablesBefore
<1>1. OnlyMoves(t) /\ done'[t] = << >>
  BY DEF SessionsInv, Shapes, Return, OnlyMoves
<1> QED  BY <1>1, BeforeKept DEF OnlyMoves, Executing

\* The statements that change nothing.
LEMMA SerialQuiet ==
  ASSUME SessionsInv, NEW t \in Thread,
         ParseThrows(t) \/ SelectRows(t) \/ ReadRight(t) \/ ListTables(t) \/ Exit(t)
  PROVE  Serial!Perform(t)
<1> DEFINE q == query[t]
<1>1. /\ UNCHANGED <<tables, prepared>>
      /\ pc[t] \in {"execute", "locked"}
      /\ q.type \in {"ParseError", "Select", "ListTables", "Exit"}
  BY DEF ParseThrows, SelectRows, ReadRight, ListTables, Exit, Executing
<1>2. pc[t] = "locked" => TablesBefore = tables
  BY <1>1, HolderSeesNow
<1>3. PICK r : Return(t, r) /\ r = Serial!ResultOf(q, TablesBefore)
  <2>1. CASE ParseThrows(t)
    BY <2>1 DEF ParseThrows, Serial!ResultOf, Thrown, Serial!Thrown
  <2>2. CASE SelectRows(t)
    BY <1>2, <2>2 DEF SelectRows, Finish, Executing, Known, Serial!ResultOf
  <2>3. CASE ReadRight(t)
    <3>1. JoinProgress(t) /\ pc[t] = "locked" /\ q.type = "Select" /\ done[t] # << >>
      BY <2>3 DEF ReadRight, Executing, SessionsInv, Progress
    <3>2. /\ q.join # NoJoin /\ q.table \in DOMAIN tables /\ q.join.table \in DOMAIN tables
          /\ done[t][1] = tables[q.table]
      BY <3>1 DEF JoinProgress
    <3> QED  BY <1>2, <2>3, <3>1, <3>2 DEF ReadRight, Finish, Serial!ResultOf
  <2>4. CASE ListTables(t)
    BY <1>2, <2>4 DEF ListTables, Finish, Executing, Serial!ResultOf
  <2>5. CASE Exit(t)
    BY <1>2, <2>5 DEF Exit, Finish, Executing, Serial!ResultOf
  <2> QED  BY <2>1, <2>2, <2>3, <2>4, <2>5
<1>4. UNCHANGED TablesBefore
  BY <1>1, <1>3, ReturnKeepsBefore
<1>5. TablesBefore' = Serial!TablesAfter(q, TablesBefore)
  BY <1>1, <1>4 DEF Serial!TablesAfter
<1>6. prepared' = Serial!PreparedAfter(q, prepared)
  BY <1>1 DEF Serial!PreparedAfter
<1> HIDE DEF q
<1> QED  BY <1>1, <1>3, <1>5, <1>6, SerialPerform DEF q

\* A table that is not known or a row that does not fit: the statement throws, and
\* no row is waiting.
LEMMA SerialThrows ==
  ASSUME SessionsInv, NEW t \in Thread, UnknownTable(t) \/ ValidateThrows(t)
  PROVE  Serial!Perform(t)
<1> DEFINE q == query[t]
<1>1. /\ pc[t] = "locked" /\ UNCHANGED <<tables, prepared>> /\ Return(t, Thrown)
      /\ \/ q.type \in {"Insert", "Select"} /\ q.table \notin DOMAIN tables
         \/ q.type = "Select" /\ q.join # NoJoin /\ q.join.table \notin DOMAIN tables
         \/ q.type = "Insert" /\ ~validateRows(q)
  BY DEF UnknownTable, ValidateThrows, Executing, Finish, Known
<1>2. OnlyMoves(t) /\ done'[t] = << >>
  BY <1>1 DEF SessionsInv, Shapes, Return, OnlyMoves
<1>3. q.type = "Insert" => done[t] = << >>
  BY <1>1 DEF SessionsInv, Progress, InsertProgress, Executing
<1>4. UNCHANGED TablesBefore
  BY <1>1, <1>2, <1>3, BeforeKept DEF OnlyMoves, Executing
<1>5. DOMAIN TablesBefore = DOMAIN tables
  BY DEF TablesBefore
<1>6. Thrown = Serial!ResultOf(q, TablesBefore)
  BY <1>1, <1>5 DEF Serial!ResultOf, Thrown, Serial!Thrown, validateRows, Serial!AllFit
<1>7. TablesBefore' = Serial!TablesAfter(q, TablesBefore)
  BY <1>1, <1>4, <1>5 DEF Serial!TablesAfter, validateRows, Serial!AllFit
<1>8. prepared' = Serial!PreparedAfter(q, prepared)
  BY <1>1 DEF Serial!PreparedAfter
<1> QED  BY <1>1, <1>6, <1>7, <1>8, SerialPerform

\* Afterwards, too, the tables are what is seen when no INSERT is under way.
LEMMA BeforeIsNext ==
  ASSUME tables' = [n \in DOMAIN tables' |-> tables'[n]],
         \A t \in Thread : ~(Executing(t, "Insert") /\ done[t] # << >>)'
  PROVE  TablesBefore' = tables'
<1>1. \A n : RowsPending(n)' = {}
  BY DEF RowsPending
<1> QED  BY <1>1 DEF TablesBefore

\* When the holder of the lock returns, no INSERT is under way.
LEMMA WriterLeavesNothing ==
  ASSUME SessionsInv, SessionsInv', NEW t \in Thread, NEW r, Return(t, r),
         pc[t] = "locked", ~readOnly(query[t])
  PROVE  TablesBefore' = tables'
<1>1. OnlyMoves(t) /\ done'[t] = << >>
  BY DEF SessionsInv, Shapes, Return, OnlyMoves
<1>2. \A u \in Thread : done'[u] = << >>
  BY <1>1, WriterIsAlone DEF OnlyMoves
<1>3. tables' = [n \in DOMAIN tables' |-> tables'[n]]
  BY DEF SessionsInv, Shapes
<1> QED  BY <1>2, <1>3, BeforeIsNext

LEMMA SerialTables ==
  ASSUME SessionsInv, SessionsInv', NEW t \in Thread,
         CreateTable(t) \/ DropTable(t) \/ PrepareStatement(t)
  PROVE  Serial!Perform(t)
<1> DEFINE q == query[t]
<1>1. /\ pc[t] = "locked" /\ ~readOnly(q)
      /\ q.type \in {"CreateTable", "DropTable", "PrepareStatement"}
  BY DEF CreateTable, DropTable, PrepareStatement, Executing, readOnly
<1>2. TablesBefore = tables
  BY <1>1, HolderSeesNow
<1>3. PICK r : Return(t, r) /\ r = Serial!ResultOf(q, tables)
  BY DEF CreateTable, DropTable, PrepareStatement, Executing, Finish, Known, Serial!ResultOf
<1>4. TablesBefore' = tables'
  BY <1>1, <1>3, WriterLeavesNothing
<1>5. tables' = Serial!TablesAfter(q, tables)
  <2>1. CASE CreateTable(t)
    BY <2>1 DEF CreateTable, Executing, Known, Serial!TablesAfter, Serial!WithTable
  <2>2. CASE DropTable(t)
    BY <2>2 DEF DropTable, Executing, Serial!TablesAfter, Serial!Without
  <2>3. CASE PrepareStatement(t)
    BY <2>3 DEF PrepareStatement, Executing, Serial!TablesAfter
  <2> QED  BY <2>1, <2>2, <2>3
<1>6. prepared' = Serial!PreparedAfter(q, prepared)
  BY DEF CreateTable, DropTable, PrepareStatement, Executing, Serial!PreparedAfter,
         Serial!WithTable
<1> QED  BY <1>1, <1>2, <1>3, <1>4, <1>5, <1>6, SerialPerform

\* What an INSERT under way hides: the rows it has put in.
HidesOnly(t) ==
  LET n == query[t].table
  IN  /\ DOMAIN TablesBefore = DOMAIN tables
      /\ TablesBefore = [m \in DOMAIN tables |-> TablesBefore[m]]
      /\ \A m \in DOMAIN tables : m # n => TablesBefore[m] = tables[m]
      /\ n \in DOMAIN tables =>
           TablesBefore[n] = SubSeq(tables[n], 1, Len(tables[n]) - Len(done[t]))

LEMMA InsertHides ==
  \A t \in Thread : SessionsInv /\ Executing(t, "Insert") => HidesOnly(t)
<1> SUFFICES ASSUME NEW t \in Thread, SessionsInv, Executing(t, "Insert")
             PROVE  HidesOnly(t)
  OBVIOUS
<1> DEFINE n == query[t].table
<1>1. \A m : RowsPending(m) = IF m = n /\ done[t] # << >> THEN {t} ELSE {}
  BY WriterIsAlone DEF RowsPending, Executing, readOnly
<1>2. \A m \in DOMAIN tables : m # n => TablesBefore[m] = tables[m]
  BY <1>1 DEF TablesBefore
<1>3. ASSUME n \in DOMAIN tables
      PROVE  TablesBefore[n] = SubSeq(tables[n], 1, Len(tables[n]) - Len(done[t]))
  <2>1. CASE done[t] = << >>
    <3>1. TablesBefore[n] = tables[n] /\ tables[n] \in Seq(Row)
      BY <1>1, <1>3, <2>1 DEF TablesBefore, SessionsInv, Shapes
    <3> QED  BY <2>1, <3>1, SubSeqFull
  <2>2. CASE done[t] # << >>
    <3>1. RowsPending(n) = {t} /\ (CHOOSE u \in RowsPending(n) : TRUE) = t
      BY <1>1, <2>2
    <3> QED  BY <1>3, <3>1 DEF TablesBefore
  <2> QED  BY <2>1, <2>2
<1>4. /\ DOMAIN TablesBefore = DOMAIN tables
      /\ TablesBefore = [m \in DOMAIN tables |-> TablesBefore[m]]
  BY DEF TablesBefore
<1> QED  BY <1>2, <1>3, <1>4 DEF HidesOnly

LEMMA InsertHidesNext ==
  \A t \in Thread : SessionsInv' /\ Executing(t, "Insert")' => HidesOnly(t)'
<1>1. (\A t \in Thread : SessionsInv /\ Executing(t, "Insert") => HidesOnly(t))'
  BY InsertHides, PTL
<1> QED  BY <1>1

\* One more row of an INSERT is not seen yet.
LEMMA SerialInsertRow ==
  ASSUME SessionsInv, SessionsInv', NEW t \in Thread, InsertRow(t)
  PROVE  UNCHANGED TablesBefore
<1> DEFINE n == query[t].table
           k == Len(done[t])
           row == query[t].rows[k + 1]
<1>1. /\ Executing(t, "Insert") /\ Executing(t, "Insert")' /\ query' = query
      /\ n \in DOMAIN tables /\ k < Len(query[t].rows)
      /\ tables' = [tables EXCEPT ![n] = Append(tables[n], row)]
      /\ done' = [done EXCEPT ![t] = Append(done[t], row)]
  BY DEF InsertRow, Executing, Known
<1>2. /\ tables[n] \in Seq(Row) /\ query[t].rows \in Seq(Row) /\ done[t] \in Seq(Row)
      /\ DOMAIN tables' = DOMAIN tables
      /\ \A m \in DOMAIN tables : m # n => tables'[m] = tables[m]
      /\ tables'[n] = Append(tables[n], row) /\ done'[t] = Append(done[t], row)
  BY <1>1 DEF SessionsInv, Shapes, Progress, IsQuery, InsertProgress, Executing
<1>3. k \in Nat /\ row \in Row /\ Len(done'[t]) = k + 1
  BY <1>1, <1>2
<1>4. k <= Len(tables[n])
  <2>1. InsertProgress(t)
    BY <1>1 DEF SessionsInv, Progress
  <2>2. CASE done[t] = << >>
    BY <1>2, <2>2
  <2>3. CASE done[t] # << >>
    BY <2>1, <2>3 DEF InsertProgress
  <2> QED  BY <2>2, <2>3
<1>5. HidesOnly(t) /\ HidesOnly(t)'
  BY <1>1, InsertHides, InsertHidesNext
<1>6. /\ TablesBefore[n] = SubSeq(tables[n], 1, Len(tables[n]) - k)
      /\ TablesBefore'[n] = SubSeq(tables'[n], 1, Len(tables'[n]) - (k + 1))
  BY <1>1, <1>2, <1>3, <1>5 DEF HidesOnly
<1>7. TablesBefore'[n] = TablesBefore[n]
  <2> DEFINE s == tables[n]  z == tables'[n]
  <2>1. s \in Seq(Row) /\ k <= Len(s) /\ z = Append(s, row)
    BY <1>2, <1>4
  <2> HIDE DEF s, z, k, row
  <2>2. SubSeq(z, 1, Len(z) - (k + 1)) = SubSeq(s, 1, Len(s) - k)
    BY <1>3, <2>1, AppendBefore
  <2> QED  BY <1>6, <2>2 DEF s, z
<1>8. \A m \in DOMAIN tables : m # n => TablesBefore'[m] = TablesBefore[m]
  BY <1>1, <1>2, <1>5 DEF HidesOnly
<1> QED  BY <1>2, <1>5, <1>7, <1>8 DEF HidesOnly

\* The INSERT returns: its rows are seen, all at once.
LEMMA SerialInsertReturns ==
  ASSUME SessionsInv, SessionsInv', NEW t \in Thread, InsertReturns(t)
  PROVE  Serial!Perform(t)
<1> DEFINE q == query[t]
           n == q.table
<1>1. /\ pc[t] = "locked" /\ q.type = "Insert" /\ n \in DOMAIN tables
      /\ Len(done[t]) = Len(q.rows) /\ UNCHANGED <<tables, prepared>>
      /\ Return(t, [inserted |-> Len(q.rows)]) /\ Serial!AllFit(q)
  BY DEF InsertReturns, Executing, Known, Finish, validateRows, Serial!AllFit
<1>2. TablesBefore' = tables
  BY <1>1, WriterLeavesNothing DEF readOnly
<1>3. HidesOnly(t)
  BY <1>1, InsertHides DEF Executing
<1>4. tables[n] = TablesBefore[n] \o q.rows
  <2> DEFINE s == tables[n]  rows == q.rows
  <2>1. s \in Seq(Row) /\ rows \in Seq(Row) /\ done[t] \in Seq(Row) /\ InsertProgress(t)
    BY <1>1 DEF SessionsInv, Shapes, Progress, IsQuery, InsertProgress, Executing
  <2>2. Len(rows) <= Len(s) /\ \A i \in 1..Len(rows) : s[Len(s) - Len(rows) + i] = rows[i]
    <3>1. CASE done[t] = << >>
      <4>1. Len(rows) = 0
        BY <1>1, <3>1
      <4> QED  BY <2>1, <4>1
    <3>2. CASE done[t] # << >>
      BY <1>1, <2>1, <3>2 DEF InsertProgress
    <3> QED  BY <3>1, <3>2
  <2>3. TablesBefore[n] = SubSeq(s, 1, Len(s) - Len(rows))
    BY <1>1, <1>3 DEF HidesOnly
  <2> HIDE DEF s, rows
  <2>4. s = SubSeq(s, 1, Len(s) - Len(rows)) \o rows
    BY <2>1, <2>2, AllRows
  <2> QED  BY <2>3, <2>4 DEF s, rows
<1>5. TablesBefore' = Serial!TablesAfter(q, TablesBefore)
  <2>1. tables = [m \in DOMAIN tables |-> tables[m]]
    BY DEF SessionsInv, Shapes
  <2>2. DOMAIN TablesBefore = DOMAIN tables /\ n \in DOMAIN TablesBefore
    BY <1>1, <1>3 DEF HidesOnly
  <2>3. Serial!TablesAfter(q, TablesBefore)
          = Serial!WithTable(TablesBefore, n, TablesBefore[n] \o q.rows)
    BY <1>1, <2>2 DEF Serial!TablesAfter
  <2>4. \A m \in DOMAIN tables :
          tables[m] = IF m = n THEN TablesBefore[n] \o q.rows ELSE TablesBefore[m]
    BY <1>3, <1>4 DEF HidesOnly
  <2>5. tables = Serial!WithTable(TablesBefore, n, TablesBefore[n] \o q.rows)
    BY <2>1, <2>2, <2>4 DEF Serial!WithTable
  <2> QED  BY <1>2, <2>3, <2>5
<1>6. [inserted |-> Len(q.rows)] = Serial!ResultOf(q, TablesBefore)
  BY <1>1, <1>3 DEF HidesOnly, Serial!ResultOf
<1>7. prepared' = Serial!PreparedAfter(q, prepared)
  BY <1>1 DEF Serial!PreparedAfter
<1> QED  BY <1>1, <1>5, <1>6, <1>7, SerialPerform

\* The steps on the way are no steps of the serial executor.
LEMMA SerialStutter ==
  ASSUME SessionsInv, SessionsInv', NEW t \in Thread,
         Lock(t) \/ LockForLookup(t) \/ BindAndParse(t) \/ InsertRow(t) \/ ReadLeft(t)
  PROVE  UNCHANGED Serial!vars
<1>1. OnlyMoves(t) /\ UNCHANGED <<prepared, result>>
  BY DEF SessionsInv, Shapes, OnlyMoves, Lock, LockForLookup, BindAndParse, InsertRow, ReadLeft
<1>2. StateOf(t)' = StateOf(t)
  BY DEF SessionsInv, Shapes, StateOf, Lock, LockForLookup, BindAndParse, InsertRow, ReadLeft
<1>3. QueryBound(t)' = QueryBound(t)
  <2>1. CASE BindAndParse(t)
    BY <2>1 DEF SessionsInv, Shapes, QueryBound, BindAndParse
  <2>2. CASE ~BindAndParse(t)
    BY <2>2 DEF SessionsInv, Shapes, QueryBound, Lock, LockForLookup, InsertRow, ReadLeft,
                Executing
  <2> QED  BY <2>1, <2>2
<1>4. /\ \A u \in Thread : StateOf(u)' = StateOf(u)
      /\ \A u \in Thread : QueryBound(u)' = QueryBound(u)
  BY <1>1, <1>2, <1>3 DEF OnlyMoves, StateOf, QueryBound
<1>5. UNCHANGED TablesBefore
  <2>1. CASE InsertRow(t)
    BY <2>1, SerialInsertRow
  <2>2. CASE ~InsertRow(t)
    <3>1. UNCHANGED tables /\ ~(Executing(t, "Insert") /\ done[t] # << >>)
      BY <2>2 DEF Lock, LockForLookup, BindAndParse, ReadLeft, Executing
    <3>2. ~(Executing(t, "Insert") /\ done[t] # << >>)'
      <4>1. pc[t] # "locked" => done'[t] = << >>
        BY <2>2 DEF SessionsInv, Progress, Lock, LockForLookup, BindAndParse, ReadLeft, Executing
      <4>2. pc[t] = "locked" => query'[t].type = "Select"
        BY <2>2 DEF Lock, LockForLookup, BindAndParse, ReadLeft, Executing
      <4> QED  BY <4>1, <4>2 DEF Executing
    <3> QED  BY <1>1, <3>1, <3>2, BeforeKept DEF OnlyMoves
  <2> QED  BY <2>1, <2>2
<1> QED  BY <1>1, <1>4, <1>5 DEF Serial!vars, StateOf

LEMMA SerialCall ==
  ASSUME SessionsInv, NEW t \in Thread, Call(t)
  PROVE  Serial!Call(t)
<1>1. PICK text \in Text : query' = [query EXCEPT ![t] = Parse(text)]
  BY DEF Call
<1>2. OnlyMoves(t) /\ UNCHANGED <<tables, prepared, result, done>>
  BY DEF SessionsInv, Shapes, OnlyMoves, Call
<1>3. /\ StateOf(t) = "idle" /\ StateOf(t)' = "called" /\ QueryBound(t)' = Parse(text)
  BY <1>1 DEF SessionsInv, Shapes, StateOf, QueryBound, Call
<1>4. done[t] = << >>
  BY DEF SessionsInv, Progress, Executing, Call
<1>5. UNCHANGED TablesBefore
  BY <1>2, <1>4, BeforeKept DEF OnlyMoves
<1>6. Parse(text) \in {Parse(x) : x \in Text}
  OBVIOUS
<1>7. /\ [u \in Thread |-> StateOf(u)]' = [[u \in Thread |-> StateOf(u)] EXCEPT ![t] = "called"]
      /\ [u \in Thread |-> QueryBound(u)]'
           = [[u \in Thread |-> QueryBound(u)] EXCEPT ![t] = Parse(text)]
  BY <1>2, <1>3, StateMoves
<1> QED  BY <1>2, <1>3, <1>5, <1>6, <1>7 DEF Serial!Call, StateOf

\* The lookup of a prepared text is a step of its own.
LEMMA SerialLookup ==
  ASSUME SessionsInv, NEW t \in Thread, Lookup(t)
  PROVE  Serial!Resolve(t)
<1>1. /\ pc[t] = "lookup" /\ query[t].name \in DOMAIN prepared
      /\ UNCHANGED <<tables, prepared, query, done, result>>
      /\ query[t].type = "ExecutePrepared" /\ done[t] = << >>
  BY DEF SessionsInv, Progress, Executing, Lookup
<1>2. OnlyMoves(t) /\ sql'[t] = prepared[query[t].name] /\ pc'[t] = "bind"
  BY DEF SessionsInv, Shapes, OnlyMoves, Lookup
<1>3. /\ StateOf(t) = "called" /\ StateOf(t)' = "called" /\ QueryBound(t) = query[t]
      /\ QueryBound(t)' = Serial!Bound(prepared[query[t].name], query[t].parameters)
  BY <1>1, <1>2 DEF StateOf, QueryBound, Serial!Bound, ParseError, Serial!ParseError
<1>4. UNCHANGED TablesBefore
  BY <1>1, <1>2, BeforeKept DEF OnlyMoves
<1>5. /\ [u \in Thread |-> StateOf(u)]' = [u \in Thread |-> StateOf(u)]
      /\ [u \in Thread |-> QueryBound(u)]'
           = [[u \in Thread |-> QueryBound(u)] EXCEPT ![t] = QueryBound(t)']
  BY <1>2, <1>3, StateMoves
<1> QED  BY <1>1, <1>3, <1>4, <1>5 DEF Serial!Resolve, StateOf

LEMMA SerialLookupThrows ==
  ASSUME SessionsInv, NEW t \in Thread, LookupThrows(t)
  PROVE  Serial!ResolveThrows(t)
<1>1. /\ pc[t] = "lookup" /\ query[t].name \notin DOMAIN prepared
      /\ UNCHANGED <<tables, prepared>> /\ Return(t, Thrown)
      /\ query[t].type = "ExecutePrepared"
  BY DEF SessionsInv, Progress, LookupThrows
<1>2. UNCHANGED TablesBefore
  BY <1>1, ReturnKeepsBefore
<1>3. /\ Serial!Return(t, Thrown)
      /\ [u \in Thread |-> StateOf(u)][t] = "called"
      /\ [u \in Thread |-> QueryBound(u)][t] = query[t]
  BY <1>1, SerialReturn
<1> QED  BY <1>1, <1>2, <1>3
         DEF Serial!ResolveThrows, Serial!Return, StateOf, Thrown, Serial!Thrown

LEMMA SerialNext ==
  ASSUME SessionsInv, SessionsInv', [Next]_vars
  PROVE  [Serial!Next]_(Serial!vars)
<1>1. CASE UNCHANGED vars
  <2>1. UNCHANGED TablesBefore
    BY <1>1, BeforeKept DEF vars
  <2> QED  BY <1>1, <2>1 DEF vars, Serial!vars, QueryBound
<1>2. ASSUME NEW t \in Thread, Call(t) \/ Step(t)
      PROVE  \/ Serial!Call(t) \/ Serial!Resolve(t) \/ Serial!ResolveThrows(t)
             \/ Serial!Perform(t) \/ UNCHANGED Serial!vars
  BY <1>2, SerialCall, SerialLookup, SerialLookupThrows, SerialQuiet, SerialThrows,
     SerialTables, SerialInsertReturns, SerialStutter, Zenon DEF Step
<1> QED  BY <1>1, <1>2 DEF Next, Serial!Next

LEMMA SerialInit == ASSUME Init PROVE Serial!Init
<1>1. TablesBefore = tables
  BY SessionsInit, BeforeIsNow DEF Init, Executing
<1> QED  BY <1>1 DEF Init, Serial!Init, QueryBound, NoQuery, Serial!NoQuery, Nothing,
                     Serial!Nothing

(* Whatever the threads' order, every statement takes effect and answers   *)
(* as if it ran alone at one moment between its call and its return; only  *)
(* an EXECUTE is two such moments, the lookup and the statement.           *)
(* (execute(), bindPreparedSql and the lock they share)                    *)
THEOREM SessionsAreSerial == Spec => RefinesSerial
<1>1. Init => Serial!Init
  BY SerialInit
<1>2. SessionsInv /\ SessionsInv' /\ [Next]_vars => [Serial!Next]_(Serial!vars)
  BY SerialNext
<1> QED  BY <1>1, <1>2, SessionsAlways, PTL DEF Spec, RefinesSerial, Serial!Spec

=============================================================================
