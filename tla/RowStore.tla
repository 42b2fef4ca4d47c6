------------------------------- MODULE RowStore ------------------------------
(***************************************************************************)
(* What a row store promises: it behaves as a vector of rows whose ids are *)
(* positions, counted from zero.  VectorRowStore is this, literally; the   *)
(* page-backed store must be indistinguishable from it.                    *)
(***************************************************************************)
EXTENDS Naturals, Sequences

CONSTANT Row

VARIABLES rows,
          call           \* the last call that changed the store, with its arguments

Init == rows = << >> /\ call = [op |-> "none"]

\* erase() and update() return false and change nothing unless rowId < size().
append(row) ==
  /\ call' = [op |-> "append", row |-> row]
  /\ rows' = Append(rows, row)

RemoveRow(rs, id) == SubSeq(rs, 1, id) \o SubSeq(rs, id + 2, Len(rs))

erase(id) ==
  /\ id < Len(rows)
  /\ call' = [op |-> "erase", id |-> id]
  /\ rows' = RemoveRow(rows, id)

update(id, row) ==
  /\ id < Len(rows)
  /\ call' = [op |-> "update", id |-> id, row |-> row]
  /\ rows' = [rows EXCEPT ![id + 1] = row]

replaceRows(rs) ==
  /\ rs \in Seq(Row)
  /\ call' = [op |-> "replaceRows", rows |-> rs]
  /\ rows' = rs

Next ==
  \/ \E row \in Row : append(row)
  \/ \E id \in 0..(Len(rows) - 1) : erase(id)
  \/ \E id \in 0..(Len(rows) - 1), row \in Row : update(id, row)
  \/ replaceRows(rows')

Spec == Init /\ [][Next]_<<rows, call>>

=============================================================================
