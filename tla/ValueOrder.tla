----------------------------- MODULE ValueOrder ------------------------------
(***************************************************************************)
(* Typed values and their order, which the ordered indexes, range          *)
(* predicates, ORDER BY and the join's lookup table all use.               *)
(*                                                                         *)
(* A value is a record of its type and its data.  Data of one type are     *)
(* ordered as numbers; a STRING stands for its rank among the strings.     *)
(***************************************************************************)
EXTENDS Integers

Null == [type |-> "NULL", data |-> 0]
Int64(n) == [type |-> "INT", data |-> n]
Double(n) == [type |-> "DOUBLE", data |-> n]
Text(n) == [type |-> "STRING", data |-> n]
AnyValue == {Null} \cup [type : {"INT", "DOUBLE", "STRING"}, data : Int]

\* The position in the variant, and (less one) in the enumeration of column types.
TypeIndex == [NULL |-> 0, INT |-> 1, DOUBLE |-> 2, STRING |-> 3]

\* operator<: NULL comes first, then types in their order, then the data.
less(lhs, rhs) ==
  IF lhs.type = "NULL" \/ rhs.type = "NULL" \/ lhs.type # rhs.type
  THEN TypeIndex[lhs.type] < TypeIndex[rhs.type]
  ELSE lhs.data < rhs.data

\* The comparison of a WHERE clause: no SQL three-valued logic, NULL = NULL is true.
compare(left, op, right) ==
  CASE op = "=" -> left = right
    [] op = ">" -> less(right, left)
    [] op = "<" -> less(left, right)

=============================================================================
