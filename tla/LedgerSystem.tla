---------------------------- MODULE LedgerSystem ----------------------------
(***************************************************************************)
(* Categories, manual transactions, budgets and reports over one database, *)
(* with the recurring rules and the worker as the ledger sees them, and    *)
(* the clock.                                                              *)
(***************************************************************************)
EXTENDS Categories, ManualTransactions, Budgets, Reports

VARIABLE
  moved           \* history: a write to the user's rows since the request's
                  \* first statement

vars == <<ledgerVars, requestVars, moved>>

Init ==
  /\ LedgerInit
  /\ RequestInit
  /\ moved = [q \in Request |-> FALSE]

-----------------------------------------------------------------------------
(* Rules, as far as the ledger sees them: RecurringService and             *)
(* RecurringWorker have the rest.                                          *)

RuleInput == [category : Category, type : Type]

\* RecurringService.Create: validate, then INSERT.
CreateRule(q, u, in) ==
  /\ CategoryAccepts(u, in)
  /\ Begin(q, "rule_insert", u, 0, in, 0)
  /\ UNCHANGED ledgerVars

InsertRuleRow(q) ==
  LET in == input[q] IN
  /\ at[q] = "rule_insert"
  /\ IF CategoryExists(in.category)
       THEN InsertRule([user |-> who[q], category |-> in.category, type |-> in.type])
       ELSE UNCHANGED <<rules, nextId>>
  /\ Finish(q)
  /\ UNCHANGED <<categories, transactions, budgets, now, ledgerHistory>>

\* RecurringTransactionRepository.GetByIDForUser finds a row: it joins the category.
OwnRule(u, r) ==
  r \in Live(rules) /\ rules[r].user = u /\ CategoryExists(rules[r].category)

\* RecurringService.Update, first part: load.
UpdateRule(q, u, r, in) ==
  /\ OwnRule(u, r)
  /\ Begin(q, "rule_validate", u, r, in, 0)
  /\ UNCHANGED ledgerVars

\* Variant with a bug: only Create compares the type with the category's.
ValidateRule_OwnerOnly(q) ==
  /\ at[q] = "rule_validate"
  /\ IF OwnCategory(who[q], input[q].category) THEN Proceed(q, "rule_write") ELSE Finish(q)
  /\ UNCHANGED ledgerVars

ValidateRule(q) ==
  /\ at[q] = "rule_validate"
  /\ IF CategoryAccepts(who[q], input[q]) THEN Proceed(q, "rule_write") ELSE Finish(q)
  /\ UNCHANGED ledgerVars

\* UPDATE ... WHERE id AND user_id, two statements after the category was looked
\* up: it may be gone, or of another type, and a worker may have posted a run.
WriteRule(q) ==
  LET r == target[q]
      in == input[q]
  IN
  /\ at[q] = "rule_write"
  /\ IF r \in Live(rules) /\ rules[r].user = who[q] /\ CategoryExists(in.category)
       THEN /\ rules' = [rules EXCEPT ![r].category = in.category, ![r].type = in.type]
            /\ ReadBack(q, "rule_reread", r)
       ELSE Finish(q) /\ UNCHANGED rules
  /\ UNCHANGED <<categories, transactions, budgets, nextId, now, ledgerHistory>>

\* As for transactions: a rule deleted since makes the handler panic.
RereadRule(q) ==
  /\ at[q] = "rule_reread"
  /\ IF OwnRule(who[q], target[q]) THEN Finish(q) ELSE ReadBack(q, "panic", 0)
  /\ UNCHANGED ledgerVars

\* ON DELETE SET NULL on transactions.recurring_transaction_id.
DeleteRule(q, u, r) ==
  /\ r \in Live(rules) /\ rules[r].user = u
  /\ AtOnce(q)
  /\ rules' = [rules EXCEPT ![r] = NoRow]
  /\ transactions' = [t \in Transaction |->
       IF t \in Live(transactions) /\ transactions[t].rule = r
         THEN [transactions[t] EXCEPT !.rule = NoRow] ELSE transactions[t]]
  /\ UNCHANGED <<categories, budgets, nextId, now, ledgerHistory>>

\* A worker's committed transaction: a row with the rule's category and type, at
\* most one per rule and date.
GenerateTransaction(r, m, a) ==
  LET row == [user |-> rules[r].user, category |-> rules[r].category,
              type |-> rules[r].type, amount |-> a, month |-> m,
              source |-> "recurring", rule |-> r, created |-> now]
  IN
  /\ r \in Live(rules)
  /\ \A t \in Live(transactions) : ~(transactions[t].rule = r /\ transactions[t].month = m)
  /\ InsertTransaction(row)
  /\ UNCHANGED <<categories, budgets, rules, now, ledgerHistory, requestVars>>

RuleStep(q) ==
  \/ \E u \in User, in \in RuleInput : CreateRule(q, u, in)
  \/ InsertRuleRow(q)
  \/ \E u \in User, r \in Rule, in \in RuleInput : UpdateRule(q, u, r, in)
  \/ ValidateRule(q)
  \/ WriteRule(q)
  \/ RereadRule(q)
  \/ \E u \in User, r \in Rule : DeleteRule(q, u, r)

-----------------------------------------------------------------------------
(* A statement fails, the client hangs up, or Recover answers for a        *)
(* handler that panicked: the request is over and leaves what it wrote.    *)
RequestEnds(q) ==
  /\ at[q] # "idle"
  /\ Finish(q)
  /\ UNCHANGED ledgerVars

Tick ==
  /\ now < LastTick
  /\ now' = now + 1
  /\ UNCHANGED <<tables, ledgerHistory, requestVars>>

\* Some transaction of the user is not what it was.
Moved(u) ==
  \E t \in Transaction :
    /\ transactions'[t] # transactions[t]
    /\ u \in { row.user : row \in {transactions[t], transactions'[t]} \ {NoRow} }

Step ==
  \/ \E q \in Request :
       CategoryStep(q) \/ TransactionStep(q) \/ BudgetStep(q) \/ ReportStep(q)
         \/ RuleStep(q) \/ RequestEnds(q)
  \/ \E r \in Rule, m \in Month, a \in Amount : GenerateTransaction(r, m, a)
  \/ Tick

TrackMoves ==
  moved' = [q \in Request |->
              at[q] \in {"spending", "page"} /\ at'[q] = at[q] /\ (moved[q] \/ Moved(who[q]))]

Next == Step /\ TrackMoves

Spec == Init /\ [][Next]_vars

-----------------------------------------------------------------------------
(* Properties                                                              *)

\* Each row's category exists and belongs to the row's user, although the check
\* of the owner and the write are statements apart and the foreign key does not
\* look at the user; and a generated row names a rule of its user, or none.
RefersToOwn(row) ==
  categories[row.category] # NoRow /\ categories[row.category].user = row.user

ReferencesOwned ==
  /\ \A t \in Live(transactions) :
       /\ RefersToOwn(transactions[t])
       /\ LET r == transactions[t].rule
          IN  r # NoRow => r \in Live(rules) /\ rules[r].user = transactions[t].user
  /\ \A b \in Live(budgets) : RefersToOwn(budgets[b])
  /\ \A r \in Live(rules) : RefersToOwn(rules[r])

ManualByUser(u) ==
  { t \in Live(transactions) : transactions[t].user = u /\ transactions[t].source = "manual" }

Apart(s, t) ==
  \/ transactions[s].created > transactions[t].created + LimitWindow
  \/ transactions[t].created > transactions[s].created + LimitWindow

\* service/transaction.go:77: "you can only create one manual transaction per
\* minute".
OneManualPerMinute ==
  \A u \in User : \A s, t \in ManualByUser(u) : s # t => Apart(s, t)

\* What the code does keep: of the transactions a waiting client created for a user
\* and that still exist, no two lie within a minute.  It takes another request, or
\* the deletion of the first row (HasRecentManualTransaction sees the rows that are
\* left only), to create a second one.
ClientRowsApart ==
  \A u \in User : \A s, t \in ManualByUser(u) :
    s # t /\ author[s] = author[t] => Apart(s, t)

\* service/category.go:61: "category already exists for this type".
CategoryNamesUnique ==
  \A c, d \in Live(categories) : categories[c] = categories[d] => c = d

\* A summary's categories add up to its expense total if no transaction of the
\* user changed between the two statements, whatever other users do and whatever
\* types categories have taken on.
SummaryAddsUp ==
  \A q \in Request :
    at[q] = "spending" /\ ~moved[q] =>
      memo[q] = SumFunction([c \in Category |-> SpendingOn(who[q], input[q].month, c)])

\* The budgets of a month together have never spent more than the month's
\* expenses: no transaction counts for two of them, and nothing but an expense
\* counts, although a budget's category need not be one of expenses any more.
BudgetsWithinExpenses ==
  \A u \in User, m \in Month :
    SumFunction([b \in BudgetList(u, m) |-> Spent(b)]) <= ExpenseTotal(u, m)

\* Under the same condition as SummaryAddsUp the pages a list's count announces show each counted
\* row on exactly one page, for any page size.
PagesPartitionList ==
  \A q \in Request :
    at[q] = "page" /\ ~moved[q] =>
      \A size \in 1..MaxTransaction :
        LET Pages == 1..TotalPage(memo[q], size)
        IN  \A t \in Matching(who[q], input[q]) :
              Cardinality({ p \in Pages : t \in Page(who[q], input[q], p, size) }) = 1

\* The tables implement LedgerBook: every entry, each written by statements that
\* other requests' statements separate from its checks, is entered, amended and
\* erased in one step.
Entry == ({"transaction"} \X Transaction) \cup ({"budget"} \X Budget) \cup ({"rule"} \X Rule)

EntryOf(e) ==
  LET table == CASE e[1] = "transaction" -> transactions [] e[1] = "budget" -> budgets
                 [] OTHER -> rules
      row == table[e[2]]
  IN  IF row = NoRow THEN NoRow
      ELSE [ owner   |-> row.user,
             heading |-> row.category,
             kind    |-> IF e[1] = "budget" THEN "expense" ELSE row.type,
             fixed   |-> e[1] = "transaction" /\ row.source = "recurring" ]

Book == INSTANCE LedgerBook WITH
  Owner   <- User,
  Heading <- Category,
  Kind    <- Type,
  Nothing <- NoRow,
  owner   <- [c \in Category |-> IF categories[c] = NoRow THEN NoRow ELSE categories[c].user],
  kinds   <- hadType,
  entries <- [e \in Entry |-> EntryOf(e)],
  spent   <- { e \in Entry : e[2] < nextId[e[1]] }

ASSUME BookNothingAssumption == NoRow \notin User \cup Book!EntryRow

ImplementsBook == Book!BookSpec
=============================================================================
