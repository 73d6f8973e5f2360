------------------------------- MODULE Reports ------------------------------
(***************************************************************************)
(* The reads that take several statements: the monthly summary             *)
(* (service/report.go) and the page of a transaction list                  *)
(* (repository/transaction.go).  Nothing holds the tables still between    *)
(* two of them.                                                            *)
(***************************************************************************)
EXTENDS LedgerRequests

\* A clause the client leaves out is NoRow.  Those on end_date, category and
\* amount are of the same form and left out.
TransactionFilter == [start : Month \cup {NoRow}, type : Type \cup {NoRow}]

\* GetMonthlyTotals' second sum.
ExpenseTotal(u, m) ==
  Total({ t \in Live(transactions) :
            /\ transactions[t].user = u /\ transactions[t].type = "expense"
            /\ transactions[t].month = m })

\* Variant with a bug: the category says what is an expense, not the row.
SpendingOn_CategoryType(u, m, c) ==
  Total({ t \in Live(transactions) :
            /\ transactions[t].user = u /\ transactions[t].month = m
            /\ transactions[t].category = c /\ categories[c].type = "expense" })

\* A group of GetMonthlySpendingByCategory, which joins categories.
SpendingOn(u, m, c) ==
  Total({ t \in Live(transactions) :
            /\ transactions[t].user = u /\ transactions[t].type = "expense"
            /\ transactions[t].month = m
            /\ transactions[t].category = c /\ CategoryExists(c) })

\* MonthlySummary, first statement; the second one is SpendingOn for each group.
MonthlyTotals(q, u, m) ==
  /\ Begin(q, "spending", u, 0, [month |-> m], ExpenseTotal(u, m))
  /\ UNCHANGED ledgerVars

\* buildTransactionFilters.
Matches(u, filter, t) ==
  /\ transactions[t].user = u
  /\ filter.start # NoRow => transactions[t].month >= filter.start
  /\ filter.type # NoRow => transactions[t].type = filter.type

Matching(u, filter) == { t \in Live(transactions) : Matches(u, filter, t) }

\* ORDER BY transaction_date DESC, id DESC.
ListedBefore(s, t) ==
  \/ transactions[s].month > transactions[t].month
  \/ transactions[s].month = transactions[t].month /\ s > t

\* JOIN categories ... LIMIT size OFFSET (page - 1) * size.
Page(u, filter, page, size) ==
  LET joined == { t \in Matching(u, filter) : CategoryExists(transactions[t].category) }
      Rank(t) == Cardinality({ s \in joined : ListedBefore(s, t) })
  IN  { t \in joined : (page - 1) * size <= Rank(t) /\ Rank(t) < page * size }

\* Variant with a bug: the last, incomplete page is not counted.
TotalPage_Floor(total, size) == total \div size

\* pagination.BuildMeta.
TotalPage(total, size) ==
  IF total % size # 0 THEN (total \div size) + 1 ELSE total \div size

\* ListByUser: SELECT COUNT(*), then the page.
CountTransactions(q, u, filter) ==
  /\ Begin(q, "page", u, 0, filter, Cardinality(Matching(u, filter)))
  /\ UNCHANGED ledgerVars

\* The second statement and the reply.
AnswerRead(q) ==
  /\ at[q] \in {"spending", "page"}
  /\ Finish(q)
  /\ UNCHANGED ledgerVars

ReportStep(q) ==
  \/ \E u \in User, m \in Month : MonthlyTotals(q, u, m)
  \/ \E u \in User, filter \in TransactionFilter : CountTransactions(q, u, filter)
  \/ AnswerRead(q)
=============================================================================
