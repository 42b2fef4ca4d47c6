----------------------------- MODULE Predicates ------------------------------
(***************************************************************************)
(* WHERE clauses and their evaluation on one row, a function from columns  *)
(* to values.                                                              *)
(***************************************************************************)
EXTENDS ValueOrder

Comparison(c, op, v) == [kind |-> "Comparison", column |-> c, op |-> op, value |-> v]
And(p, q) == [kind |-> "And", left |-> p, right |-> q]
Or(p, q) == [kind |-> "Or", left |-> p, right |-> q]

\* && and ||: the right side is not evaluated when the left side decides or throws.
RECURSIVE matches(_, _)
matches(row, p) ==
  CASE p.kind = "And" -> LET l == matches(row, p.left)
                         IN  IF l = "true" THEN matches(row, p.right) ELSE l
    [] p.kind = "Or" -> LET l == matches(row, p.left)
                        IN  IF l = "false" THEN matches(row, p.right) ELSE l
    [] OTHER -> IF p.column \notin DOMAIN row THEN "throws"
                ELSE IF compare(row[p.column], p.op, p.value) THEN "true" ELSE "false"

=============================================================================
