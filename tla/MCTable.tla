------------------------------- MODULE MCTable -------------------------------
(***************************************************************************)
(* A table with a nullable INT column and a DOUBLE column, and a second    *)
(* table to join it with.                                                  *)
(***************************************************************************)
EXTENDS Select, Predicates

CONSTANTS key, price, name, missing, t, u

MCColumns == {key, price}
MCSchema == <<key, price>>
MCValue == {Null, Int64(1), Int64(2), Double(1), Double(2)}
MCValid == [c \in MCColumns |->
              IF c = key THEN {Null, Int64(1), Int64(2)} ELSE {Double(1), Double(2)}]

RowOf(i, p) == [c \in MCColumns |-> IF c = key THEN i ELSE p]
MCInserted ==
  {RowOf(Int64(1), Double(1)), RowOf(Int64(2), Double(1)), RowOf(Null, Double(2)),
   RowOf(Double(1), Double(1))}

\* Every comparison of the indexed columns with every value, and compound ones.
MCPredicate ==
  {None, Comparison(missing, "=", Null),
   And(Comparison(key, "=", Int64(1)), Comparison(price, ">", Double(1))),
   Or(Comparison(key, "<", Int64(2)), Comparison(missing, "=", Null))}
    \cup {Comparison(c, op, v) : c \in MCColumns, op \in {"=", "<", ">"}, v \in MCValue}
MCOrderPredicate == {None, Comparison(key, "<", Int64(2))}
MCLimit == {None, 0, 2}

MCOtherSchema == <<key, name>>
OtherRow(i, n) == [c \in {key, name} |-> IF c = key THEN i ELSE n]
MCOtherTables ==
  {<<OtherRow(Int64(1), Double(1)), OtherRow(Null, Int64(1)), OtherRow(Int64(1), Null)>>}
MCJoinColumns == {<<<<key>>, <<key>>>>, <<<<t, price>>, <<u, name>>>>, <<<<t, key>>, <<key>>>>}
MCJoinPredicate == {None, Comparison(<<t, key>>, ">", Null), Comparison(<<price>>, "=", Double(1))}

=============================================================================
