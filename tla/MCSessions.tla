----------------------------- MODULE MCSessions ------------------------------
(***************************************************************************)
(* Two clients with statements of the SQL grammar.  A text is its name and *)
(* the parameters bound to it; Query gives what the parser makes of it,    *)
(* and GrammarAssumption checks that against the grammar, token by token.  *)
(***************************************************************************)
EXTENDS Sessions

CONSTANT None

G == INSTANCE SqlGrammar

Written(name) == [name |-> name, parameters |-> << >>]

Word(w) == <<G!Id(w)>>
One == <<G!Literal(G!SqlText!IntValue(1))>>
InParens(value) == <<G!Sym("(")>> \o value \o <<G!Sym(")")>>

InsertInto(n, value) ==
  Word("INSERT") \o Word("INTO") \o Word(n) \o Word("VALUES") \o InParens(value)
SelectAll(n) == Word("SELECT") \o <<G!Sym("*")>> \o Word("FROM") \o Word(n)
ExecuteWith(n, value) == Word("EXECUTE") \o Word(n) \o Word("VALUES") \o InParens(value)

Tokens ==
  [insertTwo   |-> InsertInto("t", One) \o <<G!Sym(",")>> \o InParens(<<G!Id("NULL")>>),
   insertWrong |-> InsertInto("u", One) \o <<G!Sym(",")>> \o InParens(<<G!Id("NULL")>>),
   selectJoin  |-> SelectAll("t") \o Word("JOIN") \o Word("u") \o Word("ON") \o Word("a")
                     \o <<G!Sym("=")>> \o Word("a"),
   selectU     |-> SelectAll("u"),
   listTables  |-> Word("LIST") \o Word("TABLES"),
   prepareP    |-> Word("PREPARE") \o Word("p") \o Word("AS")
                     \o <<G!Literal(G!SqlText!StringValue(Written("selectJoin")))>>,
   executeP    |-> Word("EXECUTE") \o Word("p"),
   executeQ    |-> ExecuteWith("q", One),
   executeR    |-> Word("EXECUTE") \o Word("r"),
   createU     |-> Word("CREATE") \o Word("TABLE") \o Word("u")
                     \o InParens(Word("a") \o Word("INT")),
   dropU       |-> Word("DROP") \o Word("TABLE") \o Word("u"),
   exit        |-> Word("EXIT"),
   incomplete  |-> Word("SELECT"),
   insertOpen  |-> InsertInto("u", <<G!Placeholder>>),
   executeOpen |-> ExecuteWith("p", <<G!Placeholder>>)]

Value == G!SqlText!IntValue(1)
Parameters == {<< >>, <<Value>>}

\* What clients write; the open texts come up in prepared statements only.
MCText == {Written(n) : n \in DOMAIN Tokens \ {"insertOpen", "executeOpen"}}

MCAnyText == {[name |-> n, parameters |-> ps] : n \in DOMAIN Tokens, ps \in Parameters}
MCRow == {<<Value>>, <<G!SqlText!Null>>}

\* The column of t is nullable, that of u is not.
MCFits(n, row) == n = "u" => row # <<G!SqlText!Null>>

MCTables == [n \in {"t", "u"} |-> << >>]

\* q executes p, and p is the statement one of the clients replaces.
MCPrepared ==
  [n \in {"p", "q"} |-> Written(IF n = "p" THEN "insertOpen" ELSE "executeOpen")]

Select(n, join) ==
  [type |-> "Select", table |-> n, join |-> join, columns |-> <<"*">>, where |-> None,
   orderBy |-> None, limit |-> None]
Insert(n, rows) == [type |-> "Insert", table |-> n, rows |-> rows]
Execute(n, ps) == [type |-> "ExecutePrepared", name |-> n, parameters |-> ps]

\* The query of each text, the open ones with the value bound.
Query ==
  [insertTwo   |-> Insert("t", <<<<Value>>, <<G!SqlText!Null>>>>),
   insertWrong |-> Insert("u", <<<<Value>>, <<G!SqlText!Null>>>>),
   selectJoin  |-> Select("t", [table |-> "u", leftColumn |-> "a", rightColumn |-> "a"]),
   selectU     |-> Select("u", None),
   listTables  |-> [type |-> "ListTables"],
   prepareP    |-> [type |-> "PrepareStatement", name |-> "p", sql |-> Written("selectJoin")],
   executeP    |-> Execute("p", << >>),
   executeQ    |-> Execute("q", <<Value>>),
   executeR    |-> Execute("r", << >>),
   createU     |-> [type |-> "CreateTable", name |-> "u",
                    columns |-> <<[name |-> "a", type |-> "INT", nullable |-> FALSE]>>],
   dropU       |-> [type |-> "DropTable", name |-> "u"],
   exit        |-> [type |-> "Exit"],
   incomplete  |-> ParseError,
   insertOpen  |-> Insert("u", <<<<Value>>>>),
   executeOpen |-> Execute("p", <<Value>>)]

MCParse(text) == Query[text.name]

MCBind(text, parameters) ==
  [ok |-> (text.name \in {"insertOpen", "executeOpen"}) <=> (parameters # << >>),
   val |-> [text EXCEPT !.parameters = parameters]]

ASSUME GrammarAssumption ==
  \A n \in DOMAIN Tokens, ps \in Parameters :
    LET bound == G!bindPreparedSql(Tokens[n], ps)
    IN  /\ MCBind(Written(n), ps).ok = bound.ok
        /\ bound.ok => G!parse(bound.val) = MCParse(MCBind(Written(n), ps).val)

=============================================================================
