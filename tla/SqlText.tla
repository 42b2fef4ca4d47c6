------------------------------- MODULE SqlText -------------------------------
(***************************************************************************)
(* Values, the SQL text the executor writes for them, and what the parser  *)
(* makes of that text.                                                     *)
(*                                                                         *)
(* The write-ahead log holds logical records: each payload is a statement  *)
(* rebuilt as SQL (createTableSql, insertSql, updateSql, deleteSql,        *)
(* createIndexSql), and recovery parses it again.  Layout, keywords and    *)
(* identifiers survive that round trip; what does not always survive is a  *)
(* literal, so a statement's text is the statement with every value        *)
(* replaced by the literal it is printed as.                               *)
(*                                                                         *)
(* A DOUBLE is the decimal m * 10^e that identifies it, m not a multiple   *)
(* of ten.  operator<< prints six significant digits, drops trailing       *)
(* zeros and a trailing point, and goes to scientific notation outside     *)
(* 1e-4 .. 1e6; the tokenizer knows digits and points only, and parseValue *)
(* takes a number without a point for an INT.                              *)
(***************************************************************************)
EXTENDS Integers, Sequences

Null == [type |-> "NULL"]
IntValue(n) == [type |-> "INT", num |-> n]
DoubleValue(m, e) == [type |-> "DOUBLE", m |-> m, e |-> e]
StringValue(t) == [type |-> "STRING", text |-> t]

-----------------------------------------------------------------------------
(* Printing a double: std::ostringstream with the default format.          *)

Precision == 6                 \* std::ios_base's default precision
MaxDigits == 9                 \* bound: mantissas of at most nine digits

Abs(n) == IF n < 0 THEN -n ELSE n

Digits(m) ==
  CHOOSE d \in 1..MaxDigits :
    Abs(m) < 10^d /\ (d = 1 \/ 10^(d - 1) <= Abs(m))

\* m without its trailing zeros, and how many there were.
TrailingZeros(m) ==
  IF m = 0 THEN 0
  ELSE CHOOSE k \in 0..MaxDigits : Abs(m) % 10^k = 0 /\ Abs(m) % 10^(k + 1) # 0

Decimal(m, e) ==
  LET z == TrailingZeros(m)
      unsigned == Abs(m) \div 10^z
  IN  IF m = 0 THEN [m |-> 0, e |-> 0]
      ELSE [m |-> IF m < 0 THEN -unsigned ELSE unsigned, e |-> e + z]

\* Rounded to Precision significant digits.
Rounded(m, e) ==
  LET drop == Digits(m) - Precision
      unsigned == (Abs(m) + 5 * 10^(drop - 1)) \div 10^drop
  IN  IF drop <= 0 THEN Decimal(m, e)
      ELSE Decimal(IF m < 0 THEN -unsigned ELSE unsigned, e + drop)

PrintedExponent(d) == Digits(d.m) + d.e - 1

streamDouble(v) ==
  LET d == Rounded(v.m, v.e)
  IN  CASE PrintedExponent(d) < -4 \/ PrintedExponent(d) >= Precision ->
             [form |-> "scientific"]
        [] d.e >= 0 /\ PrintedExponent(d) < Precision ->
             [form |-> "integer", num |-> d.m * 10^d.e]
        [] OTHER -> [form |-> "decimal", m |-> d.m, e |-> d.e]

sqlLiteral(v) ==
  CASE v.type = "NULL" -> [form |-> "null"]
    [] v.type = "INT" -> [form |-> "integer", num |-> v.num]
    [] v.type = "STRING" -> [form |-> "string", text |-> v.text]
    [] v.type = "DOUBLE" -> streamDouble(v)

\* The tokenizer splits 1e+06 into several tokens and the statement is refused.
Unparsable == [type |-> "UNPARSABLE"]

parseValue(lit) ==
  CASE lit.form = "null" -> Null
    [] lit.form = "integer" -> IntValue(lit.num)
    [] lit.form = "decimal" -> DoubleValue(lit.m, lit.e)
    [] lit.form = "string" -> StringValue(lit.text)
    [] lit.form = "scientific" -> Unparsable

-----------------------------------------------------------------------------
(* WHERE clauses of UPDATE and DELETE over a table with one column.  kind  *)
(*   "none"     no WHERE;                                                  *)
(*   "equal"    column = value;                                            *)
(*   "missing"  missing = value: the column is not in the schema;          *)
(*   "or"       column = value OR missing = value;                         *)
(*   "and"      column = value AND missing = value.                        *)

NoWhere == [kind |-> "none", value |-> Null]
Where(k, v) == [kind |-> k, value |-> v]

\* matches() returned true for the row.
Matches(row, w) ==
  \/ w.kind = "none"
  \/ w.kind \in {"equal", "or"} /\ row = w.value

\* matches() threw: && and || evaluate the unknown column only when they must.
MatchThrows(row, w) ==
  \/ w.kind = "missing"
  \/ w.kind = "or" /\ row # w.value
  \/ w.kind = "and" /\ row = w.value

-----------------------------------------------------------------------------
(* Statements and their text.                                              *)

insertSql(table, row) ==
  [type |-> "Insert", table |-> table, rows |-> <<sqlLiteral(row)>>]

\* The WHERE clause is left out of the text.
predicateLiteralDropped(w) == [kind |-> "none", value |-> sqlLiteral(w.value)]

predicateLiteral(w) == [kind |-> w.kind, value |-> sqlLiteral(w.value)]

updateSql(s) ==
  [type |-> "Update", table |-> s.table, column |-> s.column,
   value |-> sqlLiteral(s.value), where |-> predicateLiteral(s.where)]

deleteSql(s) == [type |-> "Delete", table |-> s.table, where |-> predicateLiteral(s.where)]

Sql(s) ==
  CASE s.type = "Insert" -> insertSql(s.table, s.rows[1])
    [] s.type = "Update" -> updateSql(s)
    [] s.type = "Delete" -> deleteSql(s)
    [] OTHER -> s

parsePredicate(w) == [kind |-> w.kind, value |-> parseValue(w.value)]

ParseError == [type |-> "ParseError"]

\* The values in a text; the statement is refused when one cannot be parsed.
Literals(text) ==
  CASE text.type = "Insert" -> {text.rows[1]}
    [] text.type = "Update" -> {text.value, text.where.value}
    [] text.type = "Delete" -> {text.where.value}
    [] OTHER -> {}

parse(text) ==
  IF \E lit \in Literals(text) : parseValue(lit) = Unparsable THEN ParseError
  ELSE CASE text.type = "Insert" ->
              [type |-> "Insert", table |-> text.table, rows |-> <<parseValue(text.rows[1])>>]
         [] text.type = "Update" ->
              [type |-> "Update", table |-> text.table, column |-> text.column,
               value |-> parseValue(text.value), where |-> parsePredicate(text.where)]
         [] text.type = "Delete" ->
              [type |-> "Delete", table |-> text.table, where |-> parsePredicate(text.where)]
         [] OTHER -> text

=============================================================================
