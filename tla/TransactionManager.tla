------------------------- MODULE TransactionManager --------------------------
(***************************************************************************)
(* Transaction ids and their states.  begin() hands out the next id;       *)
(* commit() and rollback() throw unless the transaction is active.         *)
(***************************************************************************)
EXTENDS Naturals

VARIABLES transactions_,        \* from the ids handed out to their states
          nextId_

transactionVars == <<transactions_, nextId_>>

TransactionState == {"Active", "Committed", "RolledBack"}

TransactionTypeOK ==
  /\ nextId_ \in Nat \ {0}
  /\ transactions_ \in [1..(nextId_ - 1) -> TransactionState]

TransactionInit ==
  /\ transactions_ = << >>
  /\ nextId_ = 1

IsActive(id) == id \in DOMAIN transactions_ /\ transactions_[id] = "Active"

begin ==
  /\ transactions_' = [i \in DOMAIN transactions_ \cup {nextId_} |->
                         IF i = nextId_ THEN "Active" ELSE transactions_[i]]
  /\ nextId_' = nextId_ + 1

\* commit() and rollback(), on an active transaction.
finish(id, state) ==
  /\ IsActive(id)
  /\ transactions_' = [transactions_ EXCEPT ![id] = state]
  /\ UNCHANGED nextId_

\* A new process has a new manager.
transactionStop ==
  /\ transactions_' = << >>
  /\ nextId_' = 1

=============================================================================
