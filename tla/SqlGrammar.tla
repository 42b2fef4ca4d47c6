----------------------------- MODULE SqlGrammar ------------------------------
(***************************************************************************)
(* The grammar: what the parser makes of a statement's tokens, the tokens  *)
(* of the statements the executor prints for the log, and the binding of   *)
(* prepared statements.                                                    *)
(*                                                                         *)
(* A text is the sequence of its tokens, without the End token.  Keywords  *)
(* and names are identifiers, a literal's token carries the form it was    *)
(* printed in (SqlText), and the symbols are token types of their own.     *)
(* Upper and lower case of keywords and layout are left out; so is a       *)
(* question mark inside a string literal, which binding replaces as well.  *)
(*                                                                         *)
(* Each production takes the tokens and the parser's position and gives    *)
(* its result with the position behind it, or Refused where the code       *)
(* throws.                                                                 *)
(***************************************************************************)
EXTENDS Integers, Sequences, SequencesExt, FiniteSets

CONSTANT None            \* std::nullopt

SqlText == INSTANCE SqlText

Id(name) == [type |-> "Identifier", lexeme |-> name]
Sym(s) == [type |-> s, lexeme |-> s]
End == Sym("End")
Placeholder == Sym("?")

\* A printed value.  Scientific notation is not made of the tokenizer's characters.
Literal(v) ==
  LET lit == SqlText!sqlLiteral(v)
  IN  CASE lit.form = "null" -> Id("NULL")
        [] lit.form = "string" -> [type |-> "String", lexeme |-> lit]
        [] lit.form \in {"integer", "decimal"} -> [type |-> "Number", lexeme |-> lit]
        [] OTHER -> Sym("Unexpected")

Refused == [ok |-> FALSE, val |-> None, pos |-> 0]
Parsed(v, p) == [ok |-> TRUE, val |-> v, pos |-> p]

peek(ts, p) == IF p <= Len(ts) THEN ts[p] ELSE End
IsSym(ts, p, s) == peek(ts, p).type = s
IsName(ts, p) == peek(ts, p).type = "Identifier"
IsWord(ts, p, w) == IsName(ts, p) /\ peek(ts, p).lexeme = w
NameAt(ts, p) == peek(ts, p).lexeme

-----------------------------------------------------------------------------
(* Values, columns and comma-separated lists of them.                      *)

parseValue(ts, p) ==
  LET token == peek(ts, p)
  IN  CASE IsWord(ts, p, "NULL") -> Parsed(SqlText!Null, p + 1)
        [] token.type \in {"String", "Number"} -> Parsed(SqlText!parseValue(token.lexeme), p + 1)
        [] OTHER -> Refused

\* A column definition of CREATE TABLE: NOT NULL, NULL, or neither.
parseColumn(ts, p) ==
  LET column(nullable) ==
        [name |-> NameAt(ts, p), type |-> NameAt(ts, p + 1), nullable |-> nullable]
      typed == /\ IsName(ts, p) /\ IsName(ts, p + 1)
               /\ NameAt(ts, p + 1) \in {"INT", "DOUBLE", "STRING"}
  IN  CASE typed /\ IsWord(ts, p + 2, "NOT") /\ IsWord(ts, p + 3, "NULL") ->
             Parsed(column(FALSE), p + 4)
        [] typed /\ IsWord(ts, p + 2, "NULL") -> Parsed(column(TRUE), p + 3)
        [] typed /\ ~IsWord(ts, p + 2, "NOT") /\ ~IsWord(ts, p + 2, "NULL") ->
             Parsed(column(FALSE), p + 2)
        [] OTHER -> Refused

parseName(ts, p) == IF IsName(ts, p) THEN Parsed(NameAt(ts, p), p + 1) ELSE Refused

RECURSIVE parseList(_, _, _, _)

\* "(" value { "," value } ")"
parseRow(ts, p) ==
  LET list == parseList("value", ts, p + 1, << >>)
  IN  IF IsSym(ts, p, "(") /\ list.ok /\ IsSym(ts, list.pos, ")")
      THEN Parsed(list.val, list.pos + 1) ELSE Refused

\* do { item } while (match(Comma)); got is what the loop has collected.
parseList(kind, ts, p, got) ==
  LET item == CASE kind = "value" -> parseValue(ts, p)
                [] kind = "column" -> parseColumn(ts, p)
                [] kind = "name" -> parseName(ts, p)
                [] kind = "row" -> parseRow(ts, p)
  IN  CASE ~item.ok -> Refused
        [] item.ok /\ IsSym(ts, item.pos, ",") ->
             parseList(kind, ts, item.pos + 1, Append(got, item.val))
        [] OTHER -> Parsed(Append(got, item.val), item.pos)

-----------------------------------------------------------------------------
(* Predicates.                                                             *)

Comparison(c, op, v) == [kind |-> "Comparison", column |-> c, op |-> op, value |-> v]
Compound(kind, l, r) == [kind |-> kind, left |-> l, right |-> r]

RECURSIVE parseOrPredicate(_, _)

parseComparisonPredicate(ts, p) ==
  LET value == parseValue(ts, p + 2)
  IN  IF IsName(ts, p) /\ peek(ts, p + 1).type \in {"=", ">", "<"} /\ value.ok
      THEN Parsed(Comparison(NameAt(ts, p), peek(ts, p + 1).type, value.val), value.pos)
      ELSE Refused

parsePrimaryPredicate(ts, p) ==
  LET inner == parseOrPredicate(ts, p + 1)
  IN  IF ~IsSym(ts, p, "(") THEN parseComparisonPredicate(ts, p)
      ELSE IF inner.ok /\ IsSym(ts, inner.pos, ")") THEN Parsed(inner.val, inner.pos + 1)
      ELSE Refused

\* AND takes everything behind it, ORs included.
andTakesAll(ts, left) ==
  LET right == parseOrPredicate(ts, left.pos + 1)
  IN  IF left.ok /\ IsWord(ts, left.pos, "AND") /\ right.ok
      THEN Parsed(Compound("And", left.val, right.val), right.pos) ELSE left

\* while (match(AND)): what was parsed becomes the left side.
RECURSIVE andLoop(_, _)
andLoop(ts, left) ==
  LET right == parsePrimaryPredicate(ts, left.pos + 1)
  IN  CASE ~left.ok -> Refused
        [] left.ok /\ ~IsWord(ts, left.pos, "AND") -> left
        [] OTHER -> IF right.ok
                    THEN andLoop(ts, Parsed(Compound("And", left.val, right.val), right.pos))
                    ELSE Refused

parseAndPredicate(ts, p) == andLoop(ts, parsePrimaryPredicate(ts, p))

RECURSIVE orLoop(_, _)
orLoop(ts, left) ==
  LET right == parseAndPredicate(ts, left.pos + 1)
  IN  CASE ~left.ok -> Refused
        [] left.ok /\ ~IsWord(ts, left.pos, "OR") -> left
        [] OTHER -> IF right.ok
                    THEN orLoop(ts, Parsed(Compound("Or", left.val, right.val), right.pos))
                    ELSE Refused

parseOrPredicate(ts, p) == orLoop(ts, parseAndPredicate(ts, p))

-----------------------------------------------------------------------------
(* Statements.                                                             *)

AnyName == [type |-> "Identifier", lexeme |-> None]
AnyString == [type |-> "String", lexeme |-> None]

\* The tokens from p on are those of the pattern.
Follows(ts, p, pattern) ==
  \A i \in DOMAIN pattern :
    LET token == peek(ts, p + i - 1)
    IN  /\ token.type = pattern[i].type
        /\ pattern[i].lexeme \in {None, token.lexeme}

parseWhere(ts, p) ==
  IF IsWord(ts, p, "WHERE") THEN parseOrPredicate(ts, p + 1) ELSE Parsed(None, p)

parseJoin(ts, p) ==
  CASE ~IsWord(ts, p, "JOIN") -> Parsed(None, p)
    [] Follows(ts, p, <<Id("JOIN"), AnyName, Id("ON"), AnyName, Sym("="), AnyName>>) ->
         Parsed([table |-> NameAt(ts, p + 1), leftColumn |-> NameAt(ts, p + 3),
                 rightColumn |-> NameAt(ts, p + 5)], p + 6)
    [] OTHER -> Refused

parseOrderBy(ts, p) ==
  LET order(ascending) == [column |-> NameAt(ts, p + 2), ascending |-> ascending]
  IN  IF ~IsWord(ts, p, "ORDER") THEN Parsed(None, p)
      ELSE IF ~Follows(ts, p, <<Id("ORDER"), Id("BY"), AnyName>>) THEN Refused
      ELSE CASE IsWord(ts, p + 3, "DESC") -> Parsed(order(FALSE), p + 4)
             [] IsWord(ts, p + 3, "ASC") -> Parsed(order(TRUE), p + 4)
             [] OTHER -> Parsed(order(TRUE), p + 3)

\* A negative number wraps to a std::size_t no table reaches: no limit.
parseLimit(ts, p) ==
  LET literal == NameAt(ts, p + 1)
  IN  IF ~IsWord(ts, p, "LIMIT") THEN Parsed(None, p)
      ELSE IF IsSym(ts, p + 1, "Number") /\ literal.form = "integer"
           THEN Parsed(IF literal.num < 0 THEN None ELSE literal.num, p + 2)
           ELSE Refused

parseSelect(ts) ==
  LET columns == IF IsSym(ts, 2, "*") THEN Parsed(<<"*">>, 3)
                 ELSE parseList("name", ts, 2, << >>)
      join == parseJoin(ts, columns.pos + 2)
      where == parseWhere(ts, join.pos)
      orderBy == parseOrderBy(ts, where.pos)
      limit == parseLimit(ts, orderBy.pos)
  IN  IF columns.ok /\ Follows(ts, columns.pos, <<Id("FROM"), AnyName>>)
           /\ join.ok /\ where.ok /\ orderBy.ok /\ limit.ok
      THEN Parsed([type |-> "Select", table |-> NameAt(ts, columns.pos + 1),
                   join |-> join.val, columns |-> columns.val, where |-> where.val,
                   orderBy |-> orderBy.val, limit |-> limit.val], limit.pos)
      ELSE Refused

parseCreateTable(ts) ==
  LET columns == parseList("column", ts, 5, << >>)
  IN  IF Follows(ts, 3, <<AnyName, Sym("(")>>) /\ columns.ok /\ IsSym(ts, columns.pos, ")")
      THEN Parsed([type |-> "CreateTable", name |-> NameAt(ts, 3), columns |-> columns.val],
                  columns.pos + 1)
      ELSE Refused

parseInsert(ts) ==
  LET rows == parseList("row", ts, 5, << >>)
  IN  IF Follows(ts, 2, <<Id("INTO"), AnyName, Id("VALUES")>>) /\ rows.ok
      THEN Parsed([type |-> "Insert", table |-> NameAt(ts, 3), rows |-> rows.val], rows.pos)
      ELSE Refused

parseUpdate(ts) ==
  LET value == parseValue(ts, 6)
      where == parseWhere(ts, value.pos)
  IN  IF Follows(ts, 2, <<AnyName, Id("SET"), AnyName, Sym("=")>>) /\ value.ok /\ where.ok
      THEN Parsed([type |-> "Update", table |-> NameAt(ts, 2), column |-> NameAt(ts, 4),
                   value |-> value.val, where |-> where.val], where.pos)
      ELSE Refused

parseDelete(ts) ==
  LET where == parseWhere(ts, 4)
  IN  IF Follows(ts, 2, <<Id("FROM"), AnyName>>) /\ where.ok
      THEN Parsed([type |-> "Delete", table |-> NameAt(ts, 3), where |-> where.val], where.pos)
      ELSE Refused

parseExecutePrepared(ts) ==
  LET parameters == parseRow(ts, 4)
      query(values, p) ==
        Parsed([type |-> "ExecutePrepared", name |-> NameAt(ts, 2), parameters |-> values], p)
  IN  CASE IsName(ts, 2) /\ ~IsWord(ts, 3, "VALUES") -> query(<< >>, 3)
        [] IsName(ts, 2) /\ IsWord(ts, 3, "VALUES") /\ parameters.ok ->
             query(parameters.val, parameters.pos)
        [] OTHER -> Refused

\* The statements of one shape only: their tokens after the keywords, and the query.
Fixed(ts) ==
  LET shape(tokens, query) ==
        IF Follows(ts, 1, tokens) THEN Parsed(query, Len(tokens) + 1) ELSE Refused
      keyword == NameAt(ts, 1)
  IN  CASE keyword = "CREATE" /\ IsWord(ts, 2, "DATABASE") ->
             shape(<<Id("CREATE"), Id("DATABASE"), AnyName>>,
                   [type |-> "CreateDatabase", name |-> NameAt(ts, 3)])
        [] keyword = "CREATE" /\ IsWord(ts, 2, "INDEX") ->
             shape(<<Id("CREATE"), Id("INDEX"), AnyName, Id("ON"), AnyName, Sym("("),
                     AnyName, Sym(")")>>,
                   [type |-> "CreateIndex", name |-> NameAt(ts, 3), table |-> NameAt(ts, 5),
                    column |-> NameAt(ts, 7)])
        [] keyword = "DROP" ->
             shape(<<Id("DROP"), Id("TABLE"), AnyName>>,
                   [type |-> "DropTable", name |-> NameAt(ts, 3)])
        [] keyword = "RENAME" ->
             shape(<<Id("RENAME"), Id("TABLE"), AnyName, Id("TO"), AnyName>>,
                   [type |-> "RenameTable", oldName |-> NameAt(ts, 3),
                    newName |-> NameAt(ts, 5)])
        [] keyword = "LIST" -> shape(<<Id("LIST"), Id("TABLES")>>, [type |-> "ListTables"])
        [] keyword = "SAVE" -> shape(<<Id("SAVE"), Id("DATABASE")>>, [type |-> "SaveDatabase"])
        [] keyword = "LOAD" ->
             IF IsName(ts, 3)
             THEN shape(<<Id("LOAD"), Id("DATABASE"), AnyName>>,
                        [type |-> "LoadDatabase", name |-> NameAt(ts, 3)])
             ELSE shape(<<Id("LOAD"), Id("DATABASE")>>, [type |-> "LoadDatabase", name |-> None])
        [] keyword = "PREPARE" ->
             IF IsSym(ts, 4, "String")
             THEN shape(<<Id("PREPARE"), AnyName, Id("AS"), AnyString>>,
                        [type |-> "PrepareStatement", name |-> NameAt(ts, 2),
                         sql |-> NameAt(ts, 4).text])
             ELSE Refused
        [] keyword = "BEGIN" -> shape(<<Id("BEGIN")>>, [type |-> "BeginTransaction"])
        [] keyword = "COMMIT" -> shape(<<Id("COMMIT")>>, [type |-> "CommitTransaction"])
        [] keyword = "ROLLBACK" -> shape(<<Id("ROLLBACK")>>, [type |-> "RollbackTransaction"])
        [] keyword = "EXIT" -> shape(<<Id("EXIT")>>, [type |-> "Exit"])
        [] OTHER -> Refused

ParseError == [type |-> "ParseError"]

\* A statement may end with a semicolon, and nothing comes behind it.
expectStatementEnd(ts, query) ==
  LET last == IF IsSym(ts, query.pos, ";") THEN query.pos + 1 ELSE query.pos
  IN  IF query.ok /\ IsSym(ts, last, "End") THEN query.val ELSE ParseError

parse(ts) ==
  expectStatementEnd(ts,
    CASE ~IsName(ts, 1) -> Refused
      [] Follows(ts, 1, <<Id("CREATE"), Id("TABLE")>>) -> parseCreateTable(ts)
      [] IsWord(ts, 1, "INSERT") -> parseInsert(ts)
      [] IsWord(ts, 1, "SELECT") -> parseSelect(ts)
      [] IsWord(ts, 1, "UPDATE") -> parseUpdate(ts)
      [] IsWord(ts, 1, "DELETE") -> parseDelete(ts)
      [] IsWord(ts, 1, "EXECUTE") -> parseExecutePrepared(ts)
      [] OTHER -> Fixed(ts))

-----------------------------------------------------------------------------
(* Printing a statement for the log.                                       *)

\* The items, each a sequence of tokens, with commas between them.
CommaSeparated(items) ==
  FoldLeft(LAMBDA text, item : IF text = << >> THEN item ELSE text \o <<Sym(",")>> \o item,
           << >>, items)

RECURSIVE predicateLiteral(_)

\* The parentheses are left out.
predicateLiteralFlat(pred) ==
  IF pred.kind = "Comparison"
  THEN <<Id(pred.column), Sym(pred.op), Literal(pred.value)>>
  ELSE predicateLiteral(pred.left)
         \o <<Id(IF pred.kind = "And" THEN "AND" ELSE "OR")>> \o predicateLiteral(pred.right)

predicateLiteral(pred) ==
  IF pred.kind = "Comparison"
  THEN <<Id(pred.column), Sym(pred.op), Literal(pred.value)>>
  ELSE <<Sym("(")>> \o predicateLiteral(pred.left)
         \o <<Id(IF pred.kind = "And" THEN "AND" ELSE "OR")>> \o predicateLiteral(pred.right)
         \o <<Sym(")")>>

whereSql(where) == IF where = None THEN << >> ELSE <<Id("WHERE")>> \o predicateLiteral(where)

createTableSql(s) ==
  LET column(c) == <<Id(c.name), Id(c.type)>> \o IF c.nullable THEN <<Id("NULL")>> ELSE << >>
  IN  <<Id("CREATE"), Id("TABLE"), Id(s.name), Sym("(")>>
        \o CommaSeparated([i \in DOMAIN s.columns |-> column(s.columns[i])]) \o <<Sym(")")>>

insertSql(table, row) ==
  <<Id("INSERT"), Id("INTO"), Id(table), Id("VALUES"), Sym("(")>>
    \o CommaSeparated([i \in DOMAIN row |-> <<Literal(row[i])>>]) \o <<Sym(")")>>

updateSql(s) ==
  <<Id("UPDATE"), Id(s.table), Id("SET"), Id(s.column), Sym("="), Literal(s.value)>>
    \o whereSql(s.where)

deleteSql(s) == <<Id("DELETE"), Id("FROM"), Id(s.table)>> \o whereSql(s.where)

createIndexSql(s) ==
  <<Id("CREATE"), Id("INDEX"), Id(s.name), Id("ON"), Id(s.table), Sym("("), Id(s.column),
    Sym(")")>>

dropTableSql(s) == <<Id("DROP"), Id("TABLE"), Id(s.name)>>

renameTableSql(s) == <<Id("RENAME"), Id("TABLE"), Id(s.oldName), Id("TO"), Id(s.newName)>>

\* The payload of a statement's log record.  An INSERT is logged row by row.
LogText(s) ==
  (CASE s.type = "CreateTable" -> createTableSql(s)
     [] s.type = "Insert" -> insertSql(s.table, s.rows[1])
     [] s.type = "Update" -> updateSql(s)
     [] s.type = "Delete" -> deleteSql(s)
     [] s.type = "CreateIndex" -> createIndexSql(s)
     [] s.type = "DropTable" -> dropTableSql(s)
     [] s.type = "RenameTable" -> renameTableSql(s)) \o <<Sym(";")>>

-----------------------------------------------------------------------------
(* Prepared statements.                                                    *)

Placeholders(sql) == {i \in DOMAIN sql : sql[i].type = Placeholder.type}

\* The parameters in the place of the question marks, in order.
Filled(sql, parameters) ==
  [i \in DOMAIN sql |->
     IF i \in Placeholders(sql)
     THEN Literal(parameters[Cardinality({j \in Placeholders(sql) : j <= i})])
     ELSE sql[i]]

\* Parameters left over are ignored.
bindIgnoringExtra(sql, parameters) ==
  IF Len(parameters) < Cardinality(Placeholders(sql)) THEN Refused
  ELSE Parsed(Filled(sql, parameters), 0)

\* The bound text, or Refused for too few or too many parameters.
bindPreparedSql(sql, parameters) ==
  IF Len(parameters) # Cardinality(Placeholders(sql)) THEN Refused
  ELSE Parsed(Filled(sql, parameters), 0)

=============================================================================
