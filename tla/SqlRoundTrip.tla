---------------------------- MODULE SqlRoundTrip -----------------------------
(***************************************************************************)
(* The life of one statement's text: the executor prints a statement for   *)
(* the log, or a client writes it, perhaps with literals left open for     *)
(* PREPARE; EXECUTE binds the parameters; and recovery or EXECUTE parses   *)
(* the text again.                                                         *)
(***************************************************************************)
EXTENDS SqlGrammar

CONSTANTS
  SampleValues,    \* the values statements are made of
  ChainLength      \* bound: comparisons in a WHERE clause without parentheses

VARIABLES
  origin,          \* the statement, or the ANDs and ORs of a client's WHERE clause
  text,            \* its text
  parameters,      \* of EXECUTE, None before PREPARE
  query            \* what the parser made of the text, None before it did

vars == <<origin, text, parameters, query>>

-----------------------------------------------------------------------------
(* The statements.                                                         *)

\* The sampled values that survive printing and parsing (SqlText).
ExactValues == {v \in SampleValues : SqlText!parseValue(SqlText!sqlLiteral(v)) = v}

SampleComparisons ==
  {Comparison("a", op, SqlText!IntValue(1)) : op \in {"=", "<"}}
    \cup {Comparison("b", ">", v) : v \in ExactValues}

Compounds(lefts, rights) ==
  {Compound(kind, l, r) : kind \in {"And", "Or"}, l \in lefts, r \in rights}

\* Comparisons, pairs of them, and compounds with a pair on either side.
SamplePredicates ==
  LET pairs == Compounds(SampleComparisons, SampleComparisons)
  IN  SampleComparisons \cup pairs \cup Compounds(pairs, SampleComparisons)
        \cup Compounds(SampleComparisons, pairs)

SampleColumns ==
  {[name |-> n, type |-> t, nullable |-> b] :
     n \in {"a", "b"}, t \in {"INT", "STRING"}, b \in BOOLEAN}

LoggedStatements ==
  {[type |-> "CreateTable", name |-> "t", columns |-> <<c, d>>] :
     c \in SampleColumns, d \in SampleColumns}
  \cup {[type |-> "Insert", table |-> "t", rows |-> <<<<v, w>>>>] :
          v \in ExactValues, w \in ExactValues}
  \cup {[type |-> "Update", table |-> "t", column |-> "a", value |-> v, where |-> w] :
          v \in ExactValues, w \in SampleComparisons \cup {None}}
  \cup {[type |-> "Delete", table |-> "t", where |-> w] : w \in SamplePredicates \cup {None}}
  \cup {[type |-> "CreateIndex", name |-> "i", table |-> "t", column |-> "a"],
        [type |-> "DropTable", name |-> "t"],
        [type |-> "RenameTable", oldName |-> "t", newName |-> "u"]}

\* Statements that are not logged, as a client writes them.
SelectStatements ==
  [type : {"Select"}, table : {"t"}, columns : {<<"*">>, <<"a", "b">>},
   join : {None, [table |-> "u", leftColumn |-> "a", rightColumn |-> "u.a"]},
   where : SampleComparisons \cup {None},
   orderBy : {None} \cup [column : {"a"}, ascending : BOOLEAN], limit : {None, 0, 2}]

OtherStatements ==
  [type : {"CreateDatabase"}, name : {"d"}]
    \cup [type : {"LoadDatabase"}, name : {"d", None}]
    \cup [type : {"PrepareStatement"}, name : {"p"}, sql : {"s"}]
    \cup [type : {"ExecutePrepared"}, name : {"p"},
          parameters : UNION {[1..n -> ExactValues] : n \in 0..2}]
    \cup [type : {"Insert"}, table : {"t"}, rows : [1..2 -> [1..1 -> ExactValues]]]
    \cup [type : {"ListTables", "SaveDatabase", "BeginTransaction", "CommitTransaction",
                  "RollbackTransaction", "Exit"}]

ClientStatements == SelectStatements \cup OtherStatements

Row(values) ==
  <<Sym("(")>> \o CommaSeparated([i \in DOMAIN values |-> <<Literal(values[i])>>]) \o <<Sym(")")>>
Words(names) == [i \in DOMAIN names |-> Id(names[i])]
Optional(value, tokens) == IF value = None THEN << >> ELSE tokens

SelectText(s) ==
  <<Id("SELECT")>>
    \o (IF s.columns = <<"*">> THEN <<Sym("*")>>
        ELSE CommaSeparated([i \in DOMAIN s.columns |-> <<Id(s.columns[i])>>]))
    \o <<Id("FROM"), Id(s.table)>>
    \o Optional(s.join, <<Id("JOIN"), Id(s.join.table), Id("ON"), Id(s.join.leftColumn),
                          Sym("="), Id(s.join.rightColumn)>>)
    \o whereSql(s.where)
    \o Optional(s.orderBy, Words(<<"ORDER", "BY", s.orderBy.column>>)
                             \o IF s.orderBy.ascending THEN << >> ELSE <<Id("DESC")>>)
    \o Optional(s.limit, <<Id("LIMIT"), Literal(SqlText!IntValue(s.limit))>>)

ClientText(s) ==
  CASE s.type = "Select" -> SelectText(s)
    [] s.type = "CreateDatabase" -> Words(<<"CREATE", "DATABASE", s.name>>)
    [] s.type = "LoadDatabase" ->
         Words(<<"LOAD", "DATABASE">>) \o Optional(s.name, <<Id(s.name)>>)
    [] s.type = "PrepareStatement" ->
         Words(<<"PREPARE", s.name, "AS">>) \o <<Literal(SqlText!StringValue(s.sql))>>
    [] s.type = "ExecutePrepared" ->
         Words(<<"EXECUTE", s.name>>)
           \o IF s.parameters = << >> THEN << >> ELSE <<Id("VALUES")>> \o Row(s.parameters)
    [] s.type = "Insert" ->
         Words(<<"INSERT", "INTO", s.table, "VALUES">>)
           \o CommaSeparated([i \in DOMAIN s.rows |-> Row(s.rows[i])])
    [] s.type = "ListTables" -> Words(<<"LIST", "TABLES">>)
    [] s.type = "SaveDatabase" -> Words(<<"SAVE", "DATABASE">>)
    [] s.type = "BeginTransaction" -> <<Id("BEGIN")>>
    [] s.type = "CommitTransaction" -> <<Id("COMMIT")>>
    [] s.type = "RollbackTransaction" -> <<Id("ROLLBACK")>>
    [] s.type = "Exit" -> <<Id("EXIT")>>

\* The ANDs and ORs of a WHERE clause without parentheses.
Chains ==
  [type : {"Chain"}, ops : UNION {[1..n -> {"AND", "OR"}] : n \in 1..(ChainLength - 1)}]
IsChain == origin.type = "Chain"

\* DELETE FROM t WHERE a = 1 .. a = 2 .. a = 3, as a client writes it.
ChainText(ops) ==
  FoldLeft(LAMBDA sql, i : sql \o <<Id(ops[i]), Id("a"), Sym("="),
                                    Literal(SqlText!IntValue(i + 1))>>,
           <<Id("DELETE"), Id("FROM"), Id("t"), Id("WHERE"), Id("a"), Sym("="),
             Literal(SqlText!IntValue(1))>>,
           [i \in DOMAIN ops |-> i])

-----------------------------------------------------------------------------

Init ==
  /\ \/ origin \in LoggedStatements /\ text = LogText(origin)
     \/ origin \in ClientStatements /\ text = ClientText(origin)
     \/ origin \in Chains /\ text = ChainText(origin.ops)
  /\ parameters = None
  /\ query = None

\* The places of literals in the text, and the values there.
LiteralPlaces == {i \in DOMAIN text : parseValue(text, i).ok}
ValuesAt(places) ==
  LET order == SetToSortSeq(places, <)
  IN  [i \in DOMAIN order |-> parseValue(text, order[i]).val]

\* PREPARE with some literals left open, then EXECUTE with their values, with
\* one too many, or with one too few.
Prepare ==
  /\ parameters = None /\ query = None
  /\ \E holes \in SUBSET LiteralPlaces :
       /\ text' = [i \in DOMAIN text |-> IF i \in holes THEN Placeholder ELSE text[i]]
       /\ \/ parameters' = ValuesAt(holes)
          \/ parameters' = Append(ValuesAt(holes), SqlText!Null)
          \/ holes # {} /\ parameters' = Tail(ValuesAt(holes))
  /\ UNCHANGED <<origin, query>>

\* executePrepared: the bound text is parsed; binding may throw before that.
ExecutePrepared ==
  /\ parameters # None /\ query = None
  /\ LET bound == bindPreparedSql(text, parameters)
     IN  query' = IF bound.ok THEN parse(bound.val) ELSE ParseError
  /\ UNCHANGED <<origin, text, parameters>>

\* The text as it stands: recovery, or the command line.
Reparse ==
  /\ parameters = None /\ query = None
  /\ query' = parse(text)
  /\ UNCHANGED <<origin, text, parameters>>

Next == Prepare \/ ExecutePrepared \/ Reparse

Spec == Init /\ [][Next]_vars

-----------------------------------------------------------------------------
(* Properties.                                                             *)

ParametersFit == parameters # None => Len(parameters) = Cardinality(Placeholders(text))

\* TextParses: the parser makes of a text the statement it was written for.  For
\* a log record this is what recovery stands on: however the predicate nests, the
\* printer's parentheses and the parser's precedence agree.  For a client's text
\* every optional clause is found, present or absent.
TextParses == query # None /\ parameters = None /\ ~IsChain => query = origin

\* BindExact: a statement prepared with any of its literals left open and
\* executed with those values is that statement; with a parameter too few or too
\* many it throws, whatever the text (bindPreparedSql).
BindExact ==
  query # None /\ parameters # None /\ ~IsChain =>
    query = IF ParametersFit THEN origin ELSE ParseError

RECURSIVE Holds(_, _)
Holds(pred, true) ==
  CASE pred.kind = "Comparison" -> pred.value.num \in true
    [] pred.kind = "And" -> Holds(pred.left, true) /\ Holds(pred.right, true)
    [] pred.kind = "Or" -> Holds(pred.left, true) \/ Holds(pred.right, true)

\* The comparisons i..j of a chain are all those between two ORs.
IsGroup(ops, i, j) ==
  /\ i = 1 \/ ops[i - 1] = "OR"
  /\ j = Len(ops) + 1 \/ ops[j] = "OR"
  /\ \A k \in i..(j - 1) : ops[k] = "AND"

\* PrecedenceHolds: a WHERE clause without parentheses holds exactly when all the
\* comparisons of one of its groups between ORs hold: AND binds tighter than OR,
\* at any length and in any mixture, bound from parameters or not.
PrecedenceHolds ==
  query # None /\ IsChain /\ ParametersFit =>
    LET n == Len(origin.ops) + 1
    IN  /\ query # ParseError
        /\ \A true \in SUBSET (1..n) :
             Holds(query.where, true) <=>
               \E i \in 1..n : \E j \in i..n : IsGroup(origin.ops, i, j) /\ i..j \subseteq true

=============================================================================
