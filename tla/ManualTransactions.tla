------------------------- MODULE ManualTransactions -------------------------
(* service/transaction.go over repository/transaction.go.                  *)
EXTENDS LedgerRequests

\* What validateTransactionInput lets through without asking the database.
TransactionInput == [category : Category, type : Type, amount : Amount, month : Month]

\* validateTransactionInput's lookup: a category of the user, of this type.
CategoryAccepts(u, in) ==
  OwnCategory(u, in.category) /\ categories[in.category].type = in.type

\* Variant with a bug: a row exactly as old as the cutoff is not recent.
HasRecentManualTransaction_Strict(u, since) ==
  \E t \in Live(transactions) :
    /\ transactions[t].user = u
    /\ transactions[t].source = "manual"
    /\ transactions[t].created > since

\* SELECT EXISTS ... created_at >= since.
HasRecentManualTransaction(u, since) ==
  \E t \in Live(transactions) :
    /\ transactions[t].user = u
    /\ transactions[t].source = "manual"
    /\ transactions[t].created >= since

\* Create, first part: validate.
CreateTransaction(q, u, in) ==
  /\ CategoryAccepts(u, in)
  /\ Begin(q, "tx_limit", u, 0, in, now)
  /\ UNCHANGED ledgerVars

\* The clock is read somewhere between the two statements.
CheckRecent(q) ==
  /\ at[q] = "tx_limit"
  /\ \E clock \in memo[q]..now :
       IF HasRecentManualTransaction(who[q], clock - LimitWindow)
         THEN Finish(q) ELSE Proceed(q, "tx_insert")
  /\ UNCHANGED ledgerVars

\* The foreign key is all that is checked again: a category that has been
\* deleted makes an internal error, one that has changed its type nothing.
InsertManual(q) ==
  LET in == input[q]
      row == [user |-> who[q], category |-> in.category, type |-> in.type,
              amount |-> in.amount, month |-> in.month, source |-> "manual",
              rule |-> NoRow, created |-> now]
  IN
  /\ at[q] = "tx_insert"
  /\ IF CategoryExists(in.category)
       THEN /\ InsertTransaction(row)
            /\ author' = [author EXCEPT ![nextId.transaction] = q]
            /\ ReadBack(q, "tx_reread", nextId.transaction)
       ELSE Finish(q) /\ UNCHANGED <<transactions, nextId, author>>
  /\ UNCHANGED <<categories, budgets, rules, now, hadType>>

\* TransactionRepository.GetByIDForUser finds a row: its join needs the category.
OwnTransaction(u, t) ==
  /\ t \in Live(transactions)
  /\ transactions[t].user = u
  /\ CategoryExists(transactions[t].category)

\* Update, first part: load.  Generated rows are refused.
UpdateTransaction(q, u, t, in) ==
  /\ OwnTransaction(u, t)
  /\ transactions[t].source # "recurring"
  /\ Begin(q, "tx_validate", u, t, in, 0)
  /\ UNCHANGED ledgerVars

ValidateTransaction(q) ==
  /\ at[q] = "tx_validate"
  /\ IF CategoryAccepts(who[q], input[q]) THEN Proceed(q, "tx_write") ELSE Finish(q)
  /\ UNCHANGED ledgerVars

\* UPDATE ... WHERE id AND user_id: the row may be gone, and so may the category.
WriteTransaction(q) ==
  LET t == target[q]
      in == input[q]
  IN
  /\ at[q] = "tx_write"
  /\ IF /\ t \in Live(transactions) /\ transactions[t].user = who[q]
        /\ CategoryExists(in.category)
       THEN /\ transactions' = [transactions EXCEPT
                 ![t].category = in.category, ![t].type = in.type,
                 ![t].amount = in.amount, ![t].month = in.month]
            /\ ReadBack(q, "tx_reread", t)
       ELSE Finish(q) /\ UNCHANGED transactions
  /\ UNCHANGED <<categories, budgets, rules, nextId, now, ledgerHistory>>

\* Create and Update return what GetByIDForUser returns; (nil, nil) for a row
\* that has been deleted since makes the handler read through a nil pointer.
RereadTransaction(q) ==
  /\ at[q] = "tx_reread"
  /\ IF OwnTransaction(who[q], target[q]) THEN Finish(q) ELSE ReadBack(q, "panic", 0)
  /\ UNCHANGED ledgerVars

\* Delete: one DELETE, of manual and generated rows alike.
DeleteTransaction(q, u, t) ==
  /\ t \in Live(transactions) /\ transactions[t].user = u
  /\ AtOnce(q)
  /\ transactions' = [transactions EXCEPT ![t] = NoRow]
  /\ UNCHANGED <<categories, budgets, rules, nextId, now, ledgerHistory>>

TransactionStep(q) ==
  \/ \E u \in User, in \in TransactionInput : CreateTransaction(q, u, in)
  \/ CheckRecent(q)
  \/ InsertManual(q)
  \/ \E u \in User, t \in Transaction, in \in TransactionInput : UpdateTransaction(q, u, t, in)
  \/ ValidateTransaction(q)
  \/ WriteTransaction(q)
  \/ RereadTransaction(q)
  \/ \E u \in User, t \in Transaction : DeleteTransaction(q, u, t)
=============================================================================
