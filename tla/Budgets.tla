------------------------------- MODULE Budgets ------------------------------
(* service/budget.go over repository/budget.go.                            *)
EXTENDS LedgerRequests

\* Month is within isBudgetYearAllowed's window.
BudgetInput == [category : Category, month : Month]

\* validateBudgetInput's lookup.
ExpenseCategory(u, in) ==
  OwnCategory(u, in.category) /\ categories[in.category].type = "expense"

BudgetRowOf(u, in) == [user |-> u, category |-> in.category, month |-> in.month]

\* Create, first part.
CreateBudget(q, u, in) ==
  /\ ExpenseCategory(u, in)
  /\ Begin(q, "budget_insert", u, 0, in, 0)
  /\ UNCHANGED ledgerVars

\* The INSERT: a month that is taken answers budget_exists.
InsertBudgetRow(q) ==
  LET row == BudgetRowOf(who[q], input[q]) IN
  /\ at[q] = "budget_insert"
  /\ IF CategoryExists(row.category) /\ BudgetFree(0, row)
       THEN InsertBudget(row) /\ ReadBack(q, "budget_reread", nextId.budget)
       ELSE Finish(q) /\ UNCHANGED <<budgets, nextId>>
  /\ UNCHANGED <<categories, transactions, rules, now, ledgerHistory>>

OwnBudget(u, b) ==
  b \in Live(budgets) /\ budgets[b].user = u /\ CategoryExists(budgets[b].category)

\* Update, first part: load.
UpdateBudget(q, u, b, in) ==
  /\ OwnBudget(u, b)
  /\ Begin(q, "budget_validate", u, b, in, 0)
  /\ UNCHANGED ledgerVars

ValidateBudget(q) ==
  /\ at[q] = "budget_validate"
  /\ IF ExpenseCategory(who[q], input[q]) THEN Proceed(q, "budget_write") ELSE Finish(q)
  /\ UNCHANGED ledgerVars

\* UPDATE ... WHERE id AND user_id, under the unique constraint.
WriteBudget(q) ==
  LET b == target[q]
      row == BudgetRowOf(who[q], input[q])
  IN
  /\ at[q] = "budget_write"
  /\ IF /\ b \in Live(budgets) /\ budgets[b].user = who[q]
        /\ CategoryExists(row.category) /\ BudgetFree(b, row)
       THEN budgets' = [budgets EXCEPT ![b] = row] /\ ReadBack(q, "budget_reread", b)
       ELSE Finish(q) /\ UNCHANGED budgets
  /\ UNCHANGED <<categories, transactions, rules, nextId, now, ledgerHistory>>

\* As for transactions: a budget deleted since makes the handler panic.
RereadBudget(q) ==
  /\ at[q] = "budget_reread"
  /\ IF OwnBudget(who[q], target[q]) THEN Finish(q) ELSE ReadBack(q, "panic", 0)
  /\ UNCHANGED ledgerVars

DeleteBudget(q, u, b) ==
  /\ b \in Live(budgets) /\ budgets[b].user = u
  /\ AtOnce(q)
  /\ budgets' = [budgets EXCEPT ![b] = NoRow]
  /\ UNCHANGED <<categories, transactions, rules, nextId, now, ledgerHistory>>

\* Variant with a bug: whatever is booked under the category counts.
Spent_AnyType(b) ==
  Total({ t \in Live(transactions) :
            /\ transactions[t].user = budgets[b].user
            /\ transactions[t].category = budgets[b].category
            /\ transactions[t].month = budgets[b].month })

\* List, one statement: the user's budgets of a month, each with what has been
\* spent; the type counted is the row's, whatever the category's is by now.
Spent(b) ==
  Total({ t \in Live(transactions) :
            /\ transactions[t].user = budgets[b].user
            /\ transactions[t].category = budgets[b].category
            /\ transactions[t].type = "expense"
            /\ transactions[t].month = budgets[b].month })

BudgetList(u, m) ==
  { b \in Live(budgets) : OwnBudget(u, b) /\ budgets[b].month = m }

BudgetStep(q) ==
  \/ \E u \in User, in \in BudgetInput : CreateBudget(q, u, in)
  \/ InsertBudgetRow(q)
  \/ \E u \in User, b \in Budget, in \in BudgetInput : UpdateBudget(q, u, b, in)
  \/ ValidateBudget(q)
  \/ WriteBudget(q)
  \/ RereadBudget(q)
  \/ \E u \in User, b \in Budget : DeleteBudget(q, u, b)
=============================================================================
