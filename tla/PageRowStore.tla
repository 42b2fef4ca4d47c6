----------------------------- MODULE PageRowStore ----------------------------
(***************************************************************************)
(* The row store behind every table: rows in fixed-size pages, a slot per  *)
(* row id that says where the row is, and a buffer pool that is handed the *)
(* bytes of every page that changes.                                       *)
(*                                                                         *)
(* replaceRows() clears the pages and appends the rows again, one by one,  *)
(* and erase() is a replaceRows() of everything but the erased row.  The   *)
(* loop is modelled turn by turn: refill holds the rows it has still to    *)
(* append.  The table's mutex keeps other operations out until it is done. *)
(***************************************************************************)
EXTENDS BufferPool

CONSTANTS
  Row,
  RowsPerPage,
  MaxSize                \* bound on the number of rows

ASSUME RowsPerPageAssumption == RowsPerPage \in Nat \ {0}
ASSUME MaxSizeAssumption == MaxSize \in Nat

VARIABLES
  slots_,                \* for each row id its page and the offset in it
  pages_,                \* the rows of each page
  refill,                \* the rows replaceRows has still to append
  call                   \* auxiliary: the last call that changed the store

vars == <<slots_, pages_, refill, call, poolVars>>

\* Page ids count from one, offsets and row ids from zero.
PageId == Nat \ {0}
Slot == [pageId : PageId, offset : Nat]

Init ==
  /\ slots_ = << >>
  /\ pages_ = << >>
  /\ refill = << >>
  /\ call = [op |-> "none"]
  /\ PoolInit

size == Len(slots_)

\* Pages counted from zero.
PageOfFromZero(id) == id \div RowsPerPage

\* A page opened one row late.
PageOfLate(id) == IF id = 0 THEN 1 ELSE (id - 1) \div RowsPerPage + 1

PageOf(id) == id \div RowsPerPage + 1

RowsOf(p) == IF p \in DOMAIN pages_ THEN pages_[p] ELSE << >>

WithPage(p, page) == [q \in DOMAIN pages_ \cup {p} |-> IF q = p THEN page ELSE pages_[q]]

\* The slot of the new row takes its offset from the page it went into.
appendRow(row) ==
  LET p == PageOf(size)
      page == Append(RowsOf(p), row)
  IN  /\ pages_' = WithPage(p, page)
      /\ slots_' = Append(slots_, [pageId |-> p, offset |-> Len(page) - 1])
      /\ put(p, page)

get(id) == pages_[slots_[id + 1].pageId][slots_[id + 1].offset + 1]

snapshot == [i \in DOMAIN slots_ |-> get(i - 1)]

\* Nothing else happens while the rows are being appended again.
Settled == refill = << >>

append(row) ==
  /\ Settled /\ size < MaxSize
  /\ call' = [op |-> "append", row |-> row]
  /\ appendRow(row)
  /\ UNCHANGED refill

\* The pool is not told of the new row.
updatePagesOnly(id, row) ==
  LET slot == slots_[id + 1]
      page == [pages_[slot.pageId] EXCEPT ![slot.offset + 1] = row]
  IN  /\ Settled /\ id < size
      /\ call' = [op |-> "update", id |-> id, row |-> row]
      /\ pages_' = [pages_ EXCEPT ![slot.pageId] = page]
      /\ UNCHANGED <<slots_, refill, poolVars>>

\* Through the slot's page, which is put into the pool again.
update(id, row) ==
  LET slot == slots_[id + 1]
      page == [pages_[slot.pageId] EXCEPT ![slot.offset + 1] = row]
  IN  /\ Settled /\ id < size
      /\ call' = [op |-> "update", id |-> id, row |-> row]
      /\ pages_' = [pages_ EXCEPT ![slot.pageId] = page]
      /\ put(slot.pageId, page)
      /\ UNCHANGED <<slots_, refill>>

\* The pages and the slots are cleared; the pool is not.
clearThenRefill(rs) ==
  /\ Settled /\ Len(rs) <= MaxSize
  /\ pages_' = << >>
  /\ slots_' = << >>
  /\ refill' = rs
  /\ UNCHANGED poolVars

replaceRows(rs) ==
  /\ call' = [op |-> "replaceRows", rows |-> rs]
  /\ clearThenRefill(rs)

\* The row after the erased one is lost with it.
RemoveTwoRows(rs, id) == SubSeq(rs, 1, id) \o SubSeq(rs, id + 3, Len(rs))

RemoveRow(rs, id) == SubSeq(rs, 1, id) \o SubSeq(rs, id + 2, Len(rs))

erase(id) ==
  /\ id < size
  /\ call' = [op |-> "erase", id |-> id]
  /\ clearThenRefill(RemoveRow(snapshot, id))

refillRow ==
  /\ ~Settled
  /\ appendRow(Head(refill))
  /\ refill' = Tail(refill)
  /\ UNCHANGED call

Next ==
  \/ \E row \in Row : append(row)
  \/ \E id \in 0..(size - 1), row \in Row : update(id, row)
  \/ \E id \in 0..(size - 1) : erase(id)
  \* The rows a table is refilled with are rows it held.
  \/ \E k \in 0..size : replaceRows(SubSeq(snapshot, k + 1, size))
  \/ refillRow

Spec == Init /\ [][Next]_vars

-----------------------------------------------------------------------------
(* Properties.                                                             *)

(* The state is well formed: no page has the id zero.                      *)
TypeOK ==
  /\ slots_ \in Seq(Slot)
  /\ refill \in Seq(Row)
  /\ DOMAIN pages_ \subseteq PageId
  /\ \A p \in DOMAIN pages_ : pages_[p] \in Seq(Row)
  /\ DOMAIN pool \subseteq PageId

(* The pages, read through the slots, are a vector of rows: every sequence *)
(* of calls has the effect the abstract row store says it has.  While the  *)
(* rows are appended again, the rows still to come are counted in.         *)
(* (PageRowStore against the RowStore interface and VectorRowStore)        *)
Abstract == INSTANCE RowStore WITH rows <- snapshot \o refill
RefinesRowStore == Abstract!Spec

(* A row id is found by arithmetic: row id i is in page i / rowsPerPage at *)
(* offset i % rowsPerPage, no page is longer than a page, and no page      *)
(* holds a row that no slot points to.  (append, also after erase)         *)
SlotsDense ==
  /\ \A i \in DOMAIN slots_ :
       slots_[i] = [pageId |-> PageOf(i - 1), offset |-> (i - 1) % RowsPerPage]
  /\ \A p \in DOMAIN pages_ :
       Len(pages_[p]) = Cardinality({i \in DOMAIN slots_ : slots_[i].pageId = p})

(* The pool never holds more pages than its capacity, and its list names   *)
(* each cached page once.  (put, touch, evictIfNeeded)                     *)
PoolBounded ==
  /\ Len(lru) <= Capacity
  /\ DOMAIN pool = Listed(lru)
  /\ \A i, j \in DOMAIN lru : i # j => lru[i] # lru[j]

(* A cached page that the store still has is cached with its present       *)
(* contents, however often it was evicted and put again, and also while    *)
(* the rows are being appended again to pages that were cleared.           *)
(* (append, update, erase against bufferPool_.put)                         *)
PoolCurrent == \A p \in DOMAIN pool \cap DOMAIN pages_ : pool[p] = pages_[p]

=============================================================================
