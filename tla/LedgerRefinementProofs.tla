----------------------- MODULE LedgerRefinementProofs -----------------------
(***************************************************************************)
(* The ledger implements LedgerBook: the statements of concurrent requests *)
(* enter, amend and erase entries in one step each.                        *)
(***************************************************************************)
EXTENDS LedgerProofs

-----------------------------------------------------------------------------
(* What a statement does to the tables                                     *)

\* A row may be written: what LedgerBook calls Enterable.
Fits(row) == RefersToOwn(row) /\ row.type \in hadType[row.category]

BudgetFits(row) == RefersToOwn(row) /\ "expense" \in hadType[row.category]

NoEffect == UNCHANGED <<tables, hadType>>

CategoryCreated ==
  \E row \in CategoryRow :
    /\ InsertCategory(row) /\ HadTypeAfter(nextId.category, row.type)
    /\ UNCHANGED <<transactions, budgets, rules>>

CategoryWritten ==
  \E c \in Category, row \in CategoryRow :
    /\ categories[c] # NoRow /\ row.user = categories[c].user
    /\ categories' = [categories EXCEPT ![c] = row] /\ HadTypeAfter(c, row.type)
    /\ UNCHANGED <<transactions, budgets, rules, nextId>>

CategoryDeleted ==
  \E c \in Category :
    /\ categories[c] # NoRow /\ ~Referenced(c)
    /\ categories' = [categories EXCEPT ![c] = NoRow]
    /\ UNCHANGED <<transactions, budgets, rules, nextId, hadType>>

TransactionInserted ==
  \E row \in TransactionRow :
    /\ Fits(row) /\ InsertTransaction(row)
    /\ UNCHANGED <<categories, budgets, rules, hadType>>

TransactionChanged ==
  \E t \in Transaction, row \in TransactionRow :
    /\ transactions[t] # NoRow /\ transactions[t].source # "recurring"
    /\ row.user = transactions[t].user /\ row.source = transactions[t].source
    /\ Fits(row)
    /\ transactions' = [transactions EXCEPT ![t] = row]
    /\ UNCHANGED <<categories, budgets, rules, nextId, hadType>>

TransactionDeleted ==
  \E t \in Transaction :
    /\ transactions[t] # NoRow
    /\ transactions' = [transactions EXCEPT ![t] = NoRow]
    /\ UNCHANGED <<categories, budgets, rules, nextId, hadType>>

BudgetInserted ==
  \E row \in BudgetRow :
    /\ BudgetFits(row) /\ InsertBudget(row)
    /\ UNCHANGED <<categories, transactions, rules, hadType>>

BudgetChanged ==
  \E b \in Budget, row \in BudgetRow :
    /\ budgets[b] # NoRow /\ row.user = budgets[b].user /\ BudgetFits(row)
    /\ budgets' = [budgets EXCEPT ![b] = row]
    /\ UNCHANGED <<categories, transactions, rules, nextId, hadType>>

BudgetDeleted ==
  \E b \in Budget :
    /\ budgets[b] # NoRow
    /\ budgets' = [budgets EXCEPT ![b] = NoRow]
    /\ UNCHANGED <<categories, transactions, rules, nextId, hadType>>

RuleInserted ==
  \E row \in RuleRow :
    /\ Fits(row) /\ InsertRule(row)
    /\ UNCHANGED <<categories, transactions, budgets, hadType>>

RuleChanged ==
  \E r \in Rule, row \in RuleRow :
    /\ rules[r] # NoRow /\ row.user = rules[r].user /\ Fits(row)
    /\ rules' = [rules EXCEPT ![r] = row]
    /\ UNCHANGED <<categories, transactions, budgets, nextId, hadType>>

RuleDeleted ==
  \E r \in Rule :
    /\ rules[r] # NoRow
    /\ rules' = [rules EXCEPT ![r] = NoRow]
    /\ transactions' = [t \in Transaction |->
         IF t \in Live(transactions) /\ transactions[t].rule = r
           THEN [transactions[t] EXCEPT !.rule = NoRow] ELSE transactions[t]]
    /\ UNCHANGED <<categories, budgets, nextId, hadType>>

Effect ==
  \/ NoEffect
  \/ CategoryCreated \/ CategoryWritten \/ CategoryDeleted
  \/ TransactionInserted \/ TransactionChanged \/ TransactionDeleted
  \/ BudgetInserted \/ BudgetChanged \/ BudgetDeleted
  \/ RuleInserted \/ RuleChanged \/ RuleDeleted

-----------------------------------------------------------------------------
(* What the book asks of the tables and of the requests                    *)

TypesHad ==
  /\ \A c \in Category : categories[c] # NoRow => categories[c].type \in hadType[c]
  /\ \A c \in Category : c >= nextId.category => hadType[c] = {}
  /\ \A r \in Rule : rules[r] # NoRow => rules[r].type \in hadType[rules[r].category]

TransactionsAllotted ==
  \A t \in Transaction : transactions[t] # NoRow => t < nextId.transaction

\* The type a checked input is for.
TypeFor(step, data) ==
  IF step \in {"budget_insert", "budget_write"} THEN "expense" ELSE data.type

InputsHad ==
  \A q \in Request : at[q] \in Checked =>
    TypeFor(at[q], input[q]) \in hadType[input[q].category]

\* The row an Update will write was manual when it was loaded, and ids are not
\* allotted twice.
Editing == {"tx_validate", "tx_write"}

EditsManual ==
  \A q \in Request : at[q] \in Editing =>
    /\ target[q] < nextId.transaction
    /\ transactions[target[q]] # NoRow => transactions[target[q]].source # "recurring"

BookInv == TypesHad /\ TransactionsAllotted /\ InputsHad /\ EditsManual

\* How requests come by what they carry: unchanged, or from the tables as they are.
RequestMoves(q) ==
  /\ at'[q] \in Checked =>
       \/ /\ at[q] \in Checked /\ input'[q] = input[q]
          /\ TypeFor(at'[q], input'[q]) = TypeFor(at[q], input[q])
       \/ /\ input'[q].category \in Category /\ categories[input'[q].category] # NoRow
          /\ TypeFor(at'[q], input'[q]) = categories[input'[q].category].type
  /\ at'[q] \in Editing =>
       \/ at[q] \in Editing /\ target'[q] = target[q]
       \/ /\ target'[q] \in Transaction /\ transactions[target'[q]] # NoRow
          /\ transactions[target'[q]].source # "recurring"

RequestsMove == \A q \in Request : RequestMoves(q)

LEMMA OneMoves ==
  ASSUME NEW q \in Request, RequestMoves(q),
         \A r \in Request \ {q} : at'[r] = at[r] /\ target'[r] = target[r] /\ input'[r] = input[r]
  PROVE  RequestsMove
<1> SUFFICES ASSUME NEW r \in Request, r # q PROVE RequestMoves(r)
  BY DEF RequestsMove
<1> QED
  BY DEF RequestMoves

LEMMA BecomeMoves ==
  ASSUME TypeInv, NEW q \in Request, NEW step, NEW user, NEW id, NEW data, NEW number,
         Become(q, step, user, id, data, number),
         step \in Checked =>
           /\ data.category \in Category /\ categories[data.category] # NoRow
           /\ TypeFor(step, data) = categories[data.category].type,
         step \in Editing =>
           /\ id \in Transaction /\ transactions[id] # NoRow
           /\ transactions[id].source # "recurring"
  PROVE  RequestsMove
<1>1. /\ \A r \in Request \ {q} :
           at'[r] = at[r] /\ target'[r] = target[r] /\ input'[r] = input[r]
      /\ at'[q] = step /\ target'[q] = id /\ input'[q] = data
  BY DEF Become, TypeInv, RequestsTyped
<1>2. RequestMoves(q)
  BY <1>1 DEF RequestMoves
<1> QED
  BY <1>1, <1>2, OneMoves

LEMMA OverMoves ==
  ASSUME TypeInv, NEW q \in Request, NEW id,
         \/ Finish(q)
         \/ \E step \in {"tx_reread", "budget_reread", "rule_reread", "panic"} : ReadBack(q, step, id)
  PROVE  RequestsMove
<1>1. CASE Finish(q)
  BY <1>1, BecomeMoves DEF Finish, Checked, Editing
<1>2. ASSUME NEW step \in {"tx_reread", "budget_reread", "rule_reread", "panic"}, ReadBack(q, step, id)
      PROVE  RequestsMove
  BY <1>2, BecomeMoves DEF ReadBack, Checked, Editing
<1> QED
  BY <1>1, <1>2

LEMMA StillMoves ==
  ASSUME UNCHANGED <<at, target, input>>
  PROVE  RequestsMove
BY DEF RequestsMove, RequestMoves

LEMMA ProceedMoves ==
  ASSUME TypeInv, NEW q \in Request, NEW step, Proceed(q, step),
         step \in Checked =>
           \/ at[q] \in Checked /\ TypeFor(step, input[q]) = TypeFor(at[q], input[q])
           \/ /\ input[q].category \in Category /\ categories[input[q].category] # NoRow
              /\ TypeFor(step, input[q]) = categories[input[q].category].type,
         step \in Editing => at[q] \in Editing
  PROVE  RequestsMove
<1>1. /\ \A r \in Request \ {q} :
           at'[r] = at[r] /\ target'[r] = target[r] /\ input'[r] = input[r]
      /\ at'[q] = step /\ target'[q] = target[q] /\ input'[q] = input[q]
  BY DEF Proceed, TypeInv, RequestsTyped
<1>2. RequestMoves(q)
  BY <1>1 DEF RequestMoves
<1> QED
  BY <1>1, <1>2, OneMoves

-----------------------------------------------------------------------------
(* Every action has one of these effects                                   *)

LEMMA TablesUntouched ==
  ASSUME UNCHANGED ledgerVars
  PROVE  Effect
BY DEF Effect, NoEffect, ledgerVars, ledgerHistory

LEMMA CategoryStepEffect ==
  ASSUME TypeInv, NEW q \in Request, CategoryStep(q)
  PROVE  Effect /\ RequestsMove
<1>0. LedgerTypeOK /\ RequestsTyped
  BY DEF TypeInv
<1>1. ASSUME NEW u \in User, NEW name \in Name, NEW type \in Type,
             CreateCategory(q, u, name, type)
      PROVE  Effect /\ RequestsMove
  <2> DEFINE row == [user |-> u, name |-> name, type |-> type]
  <2>1. row \in CategoryRow /\ row.type = type
    BY DEF CategoryRow
  <2>2. /\ InsertCategory(row) /\ HadTypeAfter(nextId.category, row.type)
        /\ UNCHANGED <<transactions, budgets, rules>>
    BY <1>1, <2>1 DEF CreateCategory
  <2>3. CategoryCreated
    BY <2>1, <2>2 DEF CategoryCreated
  <2> QED
    BY <1>1, <2>3, StillMoves DEF Effect, CreateCategory, AtOnce
<1>2. ASSUME NEW u \in User, NEW name \in Name, NEW type \in Type, NEW c \in Category,
             UpdateCategory(q, u, c, name, type)
      PROVE  Effect /\ RequestsMove
  BY <1>2, TablesUntouched, BecomeMoves DEF UpdateCategory, Begin, Checked, Editing
<1>3. ASSUME WriteCategory(q)
      PROVE  Effect /\ RequestsMove
  <2> DEFINE c == target[q]
             row == [categories[c] EXCEPT !.name = input[q].name, !.type = input[q].type]
  <2>1. c \in Category /\ input[q] \in [name : Name, type : Type]
    BY <1>0, <1>3 DEF WriteCategory, RequestsTyped, Carries
  <2>2. RequestsMove
    BY <1>3, OverMoves DEF WriteCategory
  <2>3. CASE OwnCategory(who[q], c)
    <3>1. categories[c] \in CategoryRow /\ categories[c] # NoRow
      BY <1>0, <2>1, <2>3 DEF OwnCategory, Live, LedgerTypeOK
    <3>2. row \in CategoryRow /\ row.user = categories[c].user /\ row.type = input[q].type
      BY <2>1, <3>1 DEF CategoryRow
    <3>3. /\ categories' = [categories EXCEPT
               ![c].name = input[q].name, ![c].type = input[q].type]
          /\ HadTypeAfter(c, input[q].type)
          /\ UNCHANGED <<transactions, budgets, rules, nextId>>
      BY <1>3, <2>3 DEF WriteCategory
    <3>4. categories' = [categories EXCEPT ![c] = row]
      BY <1>0, <2>1, <3>1, <3>3 DEF LedgerTypeOK, CategoryRow
    <3>5. CategoryWritten
      BY <2>1, <3>1, <3>2, <3>3, <3>4 DEF CategoryWritten
    <3> QED
      BY <2>2, <3>5 DEF Effect
  <2>4. CASE ~OwnCategory(who[q], c)
    BY <1>3, <2>2, <2>4 DEF WriteCategory, Effect, NoEffect, tables
  <2> QED
    BY <2>3, <2>4
<1>4. ASSUME NEW u \in User, NEW c \in Category, DeleteCategory(q, u, c)
      PROVE  Effect /\ RequestsMove
  <2>1. CategoryDeleted
    BY <1>4 DEF DeleteCategory, CategoryDeleted, OwnCategory, Live, ledgerHistory
  <2> QED
    BY <1>4, <2>1, StillMoves DEF Effect, DeleteCategory, AtOnce
<1> QED
  BY <1>1, <1>2, <1>3, <1>4 DEF CategoryStep

\* An input checked for the user, of a type the category has had, fits while the
\* category is there.
LEMMA CheckedFits ==
  ASSUME TypeInv, OwnInv, BookInv, NEW q \in Request, at[q] \in Checked,
         CategoryExists(input[q].category)
  PROVE  /\ categories[input[q].category] # NoRow
         /\ categories[input[q].category].user = who[q]
         /\ TypeFor(at[q], input[q]) \in hadType[input[q].category]
BY DEF OwnInv, InputsOwned, Mine, BookInv, InputsHad, CategoryExists, Live

LEMMA TransactionStepEffect ==
  ASSUME TypeInv, OwnInv, BookInv, NEW q \in Request, TransactionStep(q)
  PROVE  Effect /\ RequestsMove
<1>0. LedgerTypeOK /\ RequestsTyped
  BY DEF TypeInv
<1>1. ASSUME NEW u \in User, NEW in \in TransactionInput, CreateTransaction(q, u, in)
      PROVE  Effect /\ RequestsMove
  <2>1. /\ in.category \in Category /\ categories[in.category] # NoRow
        /\ TypeFor("tx_limit", in) = categories[in.category].type
    BY <1>1 DEF CreateTransaction, CategoryAccepts, OwnCategory, Live, TransactionInput, TypeFor
  <2>2. RequestsMove
    BY <1>1, <2>1, BecomeMoves DEF CreateTransaction, Begin, Editing
  <2> QED
    BY <1>1, <2>2, TablesUntouched DEF CreateTransaction
<1>2. ASSUME CheckRecent(q)
      PROVE  Effect /\ RequestsMove
  <2>1. Finish(q) \/ Proceed(q, "tx_insert")
    BY <1>2 DEF CheckRecent
  <2>2. at[q] \in Checked /\ TypeFor("tx_insert", input[q]) = TypeFor(at[q], input[q])
    BY <1>2 DEF CheckRecent, Checked, TypeFor
  <2>3. RequestsMove
    BY <2>1, <2>2, OverMoves, ProceedMoves DEF Editing
  <2> QED
    BY <1>2, <2>3, TablesUntouched DEF CheckRecent
<1>3. ASSUME InsertManual(q)
      PROVE  Effect /\ RequestsMove
  <2>1. at[q] = "tx_insert" /\ at[q] \in Checked
    BY <1>3 DEF InsertManual, Checked
  <2>2. who[q] \in User /\ input[q] \in TransactionInput
    BY <1>0, <2>1 DEF RequestsTyped, Carries
  <2>3. CASE CategoryExists(input[q].category)
    <3> DEFINE row == [user |-> who[q], category |-> input[q].category, type |-> input[q].type,
                       amount |-> input[q].amount, month |-> input[q].month,
                       source |-> "manual", rule |-> NoRow, created |-> now]
    <3>1. row \in TransactionRow
      BY <1>0, <2>2 DEF TransactionInput, TransactionRow, LedgerTypeOK
    <3>2. Fits(row)
      BY <2>1, <2>3, CheckedFits DEF Fits, RefersToOwn, TypeFor
    <3>3. InsertTransaction(row) /\ ReadBack(q, "tx_reread", nextId.transaction)
      BY <1>3, <2>3 DEF InsertManual
    <3>4. TransactionInserted
      BY <1>3, <3>1, <3>2, <3>3 DEF TransactionInserted, InsertManual
    <3>5. RequestsMove
      BY <3>3, OverMoves
    <3> QED
      BY <3>4, <3>5 DEF Effect
  <2>4. CASE ~CategoryExists(input[q].category)
    <3>1. NoEffect /\ Finish(q)
      BY <1>3, <2>4 DEF InsertManual, NoEffect, tables
    <3> QED
      BY <3>1, OverMoves DEF Effect
  <2> QED
    BY <2>3, <2>4
<1>4. ASSUME NEW u \in User, NEW t \in Transaction, NEW in \in TransactionInput,
             UpdateTransaction(q, u, t, in)
      PROVE  Effect /\ RequestsMove
  <2>1. transactions[t] # NoRow /\ transactions[t].source # "recurring"
    BY <1>4 DEF UpdateTransaction, OwnTransaction, Live
  <2>2. RequestsMove
    BY <1>4, <2>1, BecomeMoves DEF UpdateTransaction, Begin, Checked
  <2> QED
    BY <1>4, <2>2, TablesUntouched DEF UpdateTransaction
<1>5. ASSUME ValidateTransaction(q)
      PROVE  Effect /\ RequestsMove
  <2>1. CASE CategoryAccepts(who[q], input[q])
    <3>1. /\ input[q].category \in Category /\ categories[input[q].category] # NoRow
          /\ TypeFor("tx_write", input[q]) = categories[input[q].category].type
      BY <1>0, <1>5, <2>1 DEF ValidateTransaction, RequestsTyped, Carries, TransactionInput,
                              CategoryAccepts, OwnCategory, Live, TypeFor
    <3>2. at[q] \in Editing /\ Proceed(q, "tx_write")
      BY <1>5, <2>1 DEF ValidateTransaction, Editing
    <3>3. RequestsMove
      BY <3>1, <3>2, ProceedMoves
    <3> QED
      BY <1>5, <3>3, TablesUntouched DEF ValidateTransaction
  <2>2. CASE ~CategoryAccepts(who[q], input[q])
    BY <1>5, <2>2, OverMoves, TablesUntouched DEF ValidateTransaction
  <2> QED
    BY <2>1, <2>2
<1>6. ASSUME WriteTransaction(q)
      PROVE  Effect /\ RequestsMove
  <2> DEFINE t == target[q]
             in == input[q]
             row == [transactions[t] EXCEPT !.category = in.category, !.type = in.type,
                                            !.amount = in.amount, !.month = in.month]
  <2>1. at[q] = "tx_write" /\ at[q] \in Checked /\ at[q] \in Editing
    BY <1>6 DEF WriteTransaction, Checked, Editing
  <2>2. in \in TransactionInput /\ t \in Transaction
    BY <1>0, <2>1 DEF RequestsTyped, Carries
  <2>3. CASE /\ t \in Live(transactions) /\ transactions[t].user = who[q]
             /\ CategoryExists(in.category)
    <3>1. transactions[t] \in TransactionRow /\ transactions[t] # NoRow
      BY <1>0, <2>2, <2>3 DEF Live, LedgerTypeOK
    <3>2. /\ transactions' = [transactions EXCEPT
               ![t].category = in.category, ![t].type = in.type,
               ![t].amount = in.amount, ![t].month = in.month]
          /\ ReadBack(q, "tx_reread", t)
      BY <1>6, <2>3 DEF WriteTransaction
    <3>3. transactions' = [transactions EXCEPT ![t] = row]
      BY <1>0, <2>2, <3>1, <3>2 DEF LedgerTypeOK, TransactionRow
    <3>4. /\ row \in TransactionRow
          /\ row.category = in.category /\ row.type = in.type
          /\ row.user = transactions[t].user /\ row.source = transactions[t].source
      BY <2>2, <3>1 DEF TransactionRow, TransactionInput
    <3>5. Fits(row)
      BY <2>1, <2>3, <3>4, CheckedFits DEF Fits, RefersToOwn, TypeFor
    <3>6. transactions[t].source # "recurring"
      BY <2>1, <3>1 DEF BookInv, EditsManual
    <3>7. TransactionChanged
      BY <1>6, <2>2, <3>1, <3>3, <3>4, <3>5, <3>6
      DEF TransactionChanged, WriteTransaction, ledgerHistory
    <3>8. RequestsMove
      BY <3>2, OverMoves
    <3> QED
      BY <3>7, <3>8 DEF Effect
  <2>4. CASE ~( /\ t \in Live(transactions) /\ transactions[t].user = who[q]
                /\ CategoryExists(in.category) )
    <3>1. NoEffect /\ Finish(q)
      BY <1>6, <2>4 DEF WriteTransaction, NoEffect, tables, ledgerHistory
    <3> QED
      BY <3>1, OverMoves DEF Effect
  <2> QED
    BY <2>3, <2>4
<1>7. ASSUME RereadTransaction(q)
      PROVE  Effect /\ RequestsMove
  BY <1>7, OverMoves, TablesUntouched DEF RereadTransaction
<1>8. ASSUME NEW u \in User, NEW t \in Transaction, DeleteTransaction(q, u, t)
      PROVE  Effect /\ RequestsMove
  <2>1. TransactionDeleted
    BY <1>8 DEF DeleteTransaction, TransactionDeleted, Live, ledgerHistory
  <2> QED
    BY <1>8, <2>1, StillMoves DEF Effect, DeleteTransaction, AtOnce
<1> QED
  BY <1>1, <1>2, <1>3, <1>4, <1>5, <1>6, <1>7, <1>8 DEF TransactionStep

LEMMA BudgetStepEffect ==
  ASSUME TypeInv, OwnInv, BookInv, NEW q \in Request, BudgetStep(q)
  PROVE  Effect /\ RequestsMove
<1>0. LedgerTypeOK /\ RequestsTyped
  BY DEF TypeInv
<1>1. ASSUME NEW u \in User, NEW in \in BudgetInput, CreateBudget(q, u, in)
      PROVE  Effect /\ RequestsMove
  <2>1. /\ in.category \in Category /\ categories[in.category] # NoRow
        /\ TypeFor("budget_insert", in) = categories[in.category].type
    BY <1>1 DEF CreateBudget, ExpenseCategory, OwnCategory, Live, BudgetInput, TypeFor
  <2>2. RequestsMove
    BY <1>1, <2>1, BecomeMoves DEF CreateBudget, Begin, Editing
  <2> QED
    BY <1>1, <2>2, TablesUntouched DEF CreateBudget
<1>2. ASSUME InsertBudgetRow(q)
      PROVE  Effect /\ RequestsMove
  <2> DEFINE row == BudgetRowOf(who[q], input[q])
  <2>1. at[q] = "budget_insert" /\ at[q] \in Checked
    BY <1>2 DEF InsertBudgetRow, Checked
  <2>2. /\ row \in BudgetRow
        /\ row.category = input[q].category /\ row.user = who[q]
    BY <1>0, <2>1 DEF RequestsTyped, Carries, BudgetInput, BudgetRow, BudgetRowOf
  <2>3. CASE CategoryExists(row.category) /\ BudgetFree(0, row)
    <3>1. InsertBudget(row) /\ ReadBack(q, "budget_reread", nextId.budget)
      BY <1>2, <2>3 DEF InsertBudgetRow
    <3>2. BudgetFits(row)
      BY <2>1, <2>2, <2>3, CheckedFits DEF BudgetFits, RefersToOwn, TypeFor
    <3>3. BudgetInserted
      BY <1>2, <2>2, <3>1, <3>2 DEF BudgetInserted, InsertBudgetRow, ledgerHistory
    <3> QED
      BY <3>1, <3>3, OverMoves DEF Effect
  <2>4. CASE ~(CategoryExists(row.category) /\ BudgetFree(0, row))
    <3>1. NoEffect /\ Finish(q)
      BY <1>2, <2>4 DEF InsertBudgetRow, NoEffect, tables, ledgerHistory
    <3> QED
      BY <3>1, OverMoves DEF Effect
  <2> QED
    BY <2>3, <2>4
<1>3. ASSUME NEW u \in User, NEW b \in Budget, NEW in \in BudgetInput, UpdateBudget(q, u, b, in)
      PROVE  Effect /\ RequestsMove
  BY <1>3, BecomeMoves, TablesUntouched DEF UpdateBudget, Begin, Checked, Editing
<1>4. ASSUME ValidateBudget(q)
      PROVE  Effect /\ RequestsMove
  <2>1. CASE ExpenseCategory(who[q], input[q])
    <3>1. /\ input[q].category \in Category /\ categories[input[q].category] # NoRow
          /\ TypeFor("budget_write", input[q]) = categories[input[q].category].type
      BY <1>0, <1>4, <2>1 DEF ValidateBudget, RequestsTyped, Carries, BudgetInput,
                              ExpenseCategory, OwnCategory, Live, TypeFor
    <3>2. RequestsMove
      BY <1>4, <2>1, <3>1, ProceedMoves DEF ValidateBudget, Editing
    <3> QED
      BY <1>4, <3>2, TablesUntouched DEF ValidateBudget
  <2>2. CASE ~ExpenseCategory(who[q], input[q])
    BY <1>4, <2>2, OverMoves, TablesUntouched DEF ValidateBudget
  <2> QED
    BY <2>1, <2>2
<1>5. ASSUME WriteBudget(q)
      PROVE  Effect /\ RequestsMove
  <2> DEFINE b == target[q]
             row == BudgetRowOf(who[q], input[q])
  <2>1. at[q] = "budget_write" /\ at[q] \in Checked
    BY <1>5 DEF WriteBudget, Checked
  <2>2. /\ b \in Budget /\ row \in BudgetRow
        /\ row.category = input[q].category /\ row.user = who[q]
    BY <1>0, <2>1 DEF RequestsTyped, Carries, BudgetInput, BudgetRow, BudgetRowOf
  <2>3. CASE /\ b \in Live(budgets) /\ budgets[b].user = who[q]
             /\ CategoryExists(row.category) /\ BudgetFree(b, row)
    <3>1. budgets' = [budgets EXCEPT ![b] = row] /\ ReadBack(q, "budget_reread", b)
      BY <1>5, <2>3 DEF WriteBudget
    <3>2. BudgetFits(row)
      BY <2>1, <2>2, <2>3, CheckedFits DEF BudgetFits, RefersToOwn, TypeFor
    <3>3. BudgetChanged
      BY <1>5, <2>2, <2>3, <3>1, <3>2 DEF BudgetChanged, WriteBudget, Live, ledgerHistory
    <3> QED
      BY <3>1, <3>3, OverMoves DEF Effect
  <2>4. CASE ~( /\ b \in Live(budgets) /\ budgets[b].user = who[q]
                /\ CategoryExists(row.category) /\ BudgetFree(b, row) )
    <3>1. NoEffect /\ Finish(q)
      BY <1>5, <2>4 DEF WriteBudget, NoEffect, tables, ledgerHistory
    <3> QED
      BY <3>1, OverMoves DEF Effect
  <2> QED
    BY <2>3, <2>4
<1>6. ASSUME RereadBudget(q)
      PROVE  Effect /\ RequestsMove
  BY <1>6, OverMoves, TablesUntouched DEF RereadBudget
<1>7. ASSUME NEW u \in User, NEW b \in Budget, DeleteBudget(q, u, b)
      PROVE  Effect /\ RequestsMove
  <2>1. BudgetDeleted
    BY <1>7 DEF DeleteBudget, BudgetDeleted, Live, ledgerHistory
  <2> QED
    BY <1>7, <2>1, StillMoves DEF Effect, DeleteBudget, AtOnce
<1> QED
  BY <1>1, <1>2, <1>3, <1>4, <1>5, <1>6, <1>7 DEF BudgetStep

LEMMA RuleStepEffect ==
  ASSUME TypeInv, OwnInv, BookInv, NEW q \in Request, RuleStep(q)
  PROVE  Effect /\ RequestsMove
<1>0. LedgerTypeOK /\ RequestsTyped
  BY DEF TypeInv
<1>1. ASSUME NEW u \in User, NEW in \in RuleInput, CreateRule(q, u, in)
      PROVE  Effect /\ RequestsMove
  <2>1. /\ in.category \in Category /\ categories[in.category] # NoRow
        /\ TypeFor("rule_insert", in) = categories[in.category].type
    BY <1>1 DEF CreateRule, CategoryAccepts, OwnCategory, Live, RuleInput, TypeFor
  <2>2. RequestsMove
    BY <1>1, <2>1, BecomeMoves DEF CreateRule, Begin, Editing
  <2> QED
    BY <1>1, <2>2, TablesUntouched DEF CreateRule
<1>2. ASSUME InsertRuleRow(q)
      PROVE  Effect /\ RequestsMove
  <2> DEFINE row == [user |-> who[q], category |-> input[q].category, type |-> input[q].type]
  <2>1. at[q] = "rule_insert" /\ at[q] \in Checked /\ Finish(q)
    BY <1>2 DEF InsertRuleRow, Checked
  <2>2. row \in RuleRow
    BY <1>0, <2>1 DEF RequestsTyped, Carries, RuleInput, RuleRow
  <2>3. CASE CategoryExists(input[q].category)
    <3>1. Fits(row)
      BY <2>1, <2>3, CheckedFits DEF Fits, RefersToOwn, TypeFor
    <3>2. RuleInserted
      BY <1>2, <2>2, <2>3, <3>1 DEF RuleInserted, InsertRuleRow, ledgerHistory
    <3> QED
      BY <2>1, <3>2, OverMoves DEF Effect
  <2>4. CASE ~CategoryExists(input[q].category)
    <3>1. NoEffect
      BY <1>2, <2>4 DEF InsertRuleRow, NoEffect, tables, ledgerHistory
    <3> QED
      BY <2>1, <3>1, OverMoves DEF Effect
  <2> QED
    BY <2>3, <2>4
<1>3. ASSUME NEW u \in User, NEW r \in Rule, DeleteRule(q, u, r)
      PROVE  Effect /\ RequestsMove
  <2>1. RuleDeleted
    <3>1. rules[r] # NoRow
      BY <1>3 DEF DeleteRule, Live
    <3> QED
      BY <1>3, <3>1 DEF DeleteRule, RuleDeleted, ledgerHistory
  <2> QED
    BY <1>3, <2>1, StillMoves DEF Effect, DeleteRule, AtOnce
<1>4. ASSUME NEW u \in User, NEW r \in Rule, NEW in \in RuleInput, UpdateRule(q, u, r, in)
      PROVE  Effect /\ RequestsMove
  BY <1>4, BecomeMoves, TablesUntouched DEF UpdateRule, Begin, Checked, Editing
<1>5. ASSUME ValidateRule(q)
      PROVE  Effect /\ RequestsMove
  <2>1. CASE CategoryAccepts(who[q], input[q])
    <3>1. /\ input[q].category \in Category /\ categories[input[q].category] # NoRow
          /\ TypeFor("rule_write", input[q]) = categories[input[q].category].type
      BY <1>0, <1>5, <2>1 DEF ValidateRule, RequestsTyped, Carries, RuleInput,
                              CategoryAccepts, OwnCategory, Live, TypeFor
    <3>2. RequestsMove
      BY <1>5, <2>1, <3>1, ProceedMoves DEF ValidateRule, Editing
    <3> QED
      BY <1>5, <3>2, TablesUntouched DEF ValidateRule
  <2>2. CASE ~CategoryAccepts(who[q], input[q])
    BY <1>5, <2>2, OverMoves, TablesUntouched DEF ValidateRule
  <2> QED
    BY <2>1, <2>2
<1>6. ASSUME WriteRule(q)
      PROVE  Effect /\ RequestsMove
  <2> DEFINE r == target[q]
             in == input[q]
             row == [rules[r] EXCEPT !.category = in.category, !.type = in.type]
  <2>1. at[q] = "rule_write" /\ at[q] \in Checked
    BY <1>6 DEF WriteRule, Checked
  <2>2. r \in Rule /\ in \in RuleInput
    BY <1>0, <2>1 DEF RequestsTyped, Carries
  <2>3. CASE r \in Live(rules) /\ rules[r].user = who[q] /\ CategoryExists(in.category)
    <3>1. rules[r] \in RuleRow /\ rules[r] # NoRow
      BY <1>0, <2>2, <2>3 DEF LedgerTypeOK, Live
    <3>2. /\ row \in RuleRow /\ row.user = rules[r].user
          /\ row.category = in.category /\ row.type = in.type
      BY <2>2, <3>1 DEF RuleRow, RuleInput
    <3>3. /\ rules' = [rules EXCEPT ![r] = row] /\ ReadBack(q, "rule_reread", r)
          /\ UNCHANGED <<categories, transactions, budgets, nextId, hadType>>
      BY <1>0, <1>6, <2>3 DEF WriteRule, LedgerTypeOK, RuleRow, Live, ledgerHistory
    <3>4. Fits(row)
      BY <2>1, <2>3, <3>2, CheckedFits DEF Fits, RefersToOwn, TypeFor
    <3>5. RuleChanged
      BY <2>2, <3>1, <3>2, <3>3, <3>4 DEF RuleChanged
    <3> QED
      BY <3>3, <3>5, OverMoves DEF Effect
  <2>4. CASE ~(r \in Live(rules) /\ rules[r].user = who[q] /\ CategoryExists(in.category))
    <3>1. NoEffect /\ Finish(q)
      BY <1>6, <2>4 DEF WriteRule, NoEffect, tables, ledgerHistory
    <3> QED
      BY <3>1, OverMoves DEF Effect
  <2> QED
    BY <2>3, <2>4
<1>7. ASSUME RereadRule(q)
      PROVE  Effect /\ RequestsMove
  BY <1>7, OverMoves, TablesUntouched DEF RereadRule
<1> QED
  BY <1>1, <1>2, <1>3, <1>4, <1>5, <1>6, <1>7 DEF RuleStep

LEMMA ReportStepEffect ==
  ASSUME TypeInv, NEW q \in Request, ReportStep(q)
  PROVE  Effect /\ RequestsMove
<1>1. ASSUME NEW u \in User, NEW m \in Month, MonthlyTotals(q, u, m)
      PROVE  Effect /\ RequestsMove
  BY <1>1, BecomeMoves, TablesUntouched DEF MonthlyTotals, Begin, Checked, Editing
<1>2. ASSUME NEW u \in User, NEW filter \in TransactionFilter, CountTransactions(q, u, filter)
      PROVE  Effect /\ RequestsMove
  BY <1>2, BecomeMoves, TablesUntouched DEF CountTransactions, Begin, Checked, Editing
<1>3. ASSUME AnswerRead(q)
      PROVE  Effect /\ RequestsMove
  BY <1>3, OverMoves, TablesUntouched DEF AnswerRead
<1> QED
  BY <1>1, <1>2, <1>3 DEF ReportStep

LEMMA StepEffect ==
  ASSUME TypeInv, OwnInv, BookInv, Step
  PROVE  Effect /\ RequestsMove
<1>0. LedgerTypeOK /\ RulesOwned /\ TypesHad
  BY DEF TypeInv, OwnInv, BookInv
<1>1. ASSUME NEW q \in Request, RequestEnds(q)
      PROVE  Effect /\ RequestsMove
  BY <1>1, OverMoves, TablesUntouched DEF RequestEnds
<1>2. ASSUME NEW r \in Rule, NEW m \in Month, NEW a \in Amount, GenerateTransaction(r, m, a)
      PROVE  Effect /\ RequestsMove
  <2> DEFINE row == [user |-> rules[r].user, category |-> rules[r].category,
                     type |-> rules[r].type, amount |-> a, month |-> m,
                     source |-> "recurring", rule |-> r, created |-> now]
  <2>1. rules[r] \in RuleRow /\ rules[r] # NoRow
    BY <1>0, <1>2 DEF GenerateTransaction, Live, LedgerTypeOK
  <2>2. row \in TransactionRow
    BY <1>0, <2>1 DEF LedgerTypeOK, RuleRow, TransactionRow
  <2>3. Fits(row)
    BY <1>0, <2>1 DEF RulesOwned, RefersToOwn, TypesHad, Fits
  <2>4. TransactionInserted
    BY <1>2, <2>2, <2>3 DEF GenerateTransaction, TransactionInserted, ledgerHistory
  <2>5. RequestsMove
    BY <1>2, StillMoves DEF GenerateTransaction, requestVars
  <2> QED
    BY <2>4, <2>5 DEF Effect
<1>3. ASSUME Tick
      PROVE  Effect /\ RequestsMove
  <2>1. NoEffect
    BY <1>3 DEF Tick, NoEffect, ledgerHistory
  <2>2. RequestsMove
    BY <1>3, StillMoves DEF Tick, requestVars
  <2> QED
    BY <2>1, <2>2 DEF Effect
<1> QED
  BY <1>1, <1>2, <1>3, CategoryStepEffect, TransactionStepEffect, BudgetStepEffect,
     ReportStepEffect, RuleStepEffect
  DEF Step

-----------------------------------------------------------------------------
(* What the book asks, kept by every effect                                *)

HadGrows == \A c \in Category : hadType[c] \subseteq hadType'[c]

\* The source of an allotted transaction never changes.
SourcesKept ==
  /\ nextId'.transaction >= nextId.transaction
  /\ \A t \in Transaction : t < nextId.transaction /\ transactions'[t] # NoRow =>
       transactions[t] # NoRow /\ transactions'[t].source = transactions[t].source

Kept == TypesHad' /\ TransactionsAllotted' /\ HadGrows /\ SourcesKept

LEMMA EffectKeeps ==
  ASSUME TypeInv, TypeInv', OwnInv, BookInv, Effect
  PROVE  Kept
<1>0. /\ LedgerTypeOK /\ LedgerTypeOK' /\ Allotted
      /\ TypesHad /\ TransactionsAllotted /\ RulesOwned
  BY DEF TypeInv, OwnInv, BookInv
<1> DEFINE SameTypes == UNCHANGED <<categories, rules, hadType>> /\ nextId'.category = nextId.category
           SameTransactions == UNCHANGED transactions /\ nextId'.transaction = nextId.transaction
<1>1. ASSUME SameTypes
      PROVE  TypesHad' /\ HadGrows
  BY <1>0, <1>1 DEF TypesHad, HadGrows
<1>2. ASSUME SameTransactions
      PROVE  TransactionsAllotted' /\ SourcesKept
  BY <1>0, <1>2 DEF TransactionsAllotted, SourcesKept, LedgerTypeOK
<1>3. CASE NoEffect
  BY <1>1, <1>2, <1>3 DEF Kept, NoEffect, tables
<1>4. CASE CategoryCreated
  <2>1. PICK row \in CategoryRow :
          /\ InsertCategory(row) /\ HadTypeAfter(nextId.category, row.type)
          /\ UNCHANGED <<transactions, budgets, rules>>
    BY <1>4 DEF CategoryCreated
  <2> DEFINE new == nextId.category
  <2>2. /\ new \in Category /\ new \in Nat
        /\ nextId'.category = new + 1 /\ nextId'.transaction = nextId.transaction
    BY <1>0, <2>1, LedgerAssumption DEF InsertCategory, LedgerTypeOK
  <2>3. \A c \in Category :
          /\ categories'[c] = IF c = new THEN row ELSE categories[c]
          /\ hadType'[c] = IF c = new THEN hadType[c] \cup {row.type} ELSE hadType[c]
    BY <1>0, <2>1, <2>2 DEF InsertCategory, HadTypeAfter, LedgerTypeOK
  <2>4. HadGrows
    BY <2>3 DEF HadGrows
  <2>5. TypesHad'
    <3>1. \A c \in Category : categories'[c] # NoRow => categories'[c].type \in hadType'[c]
      BY <1>0, <2>3 DEF TypesHad
    <3>2. ASSUME NEW c \in Category, c >= nextId'.category
          PROVE  hadType'[c] = {}
      <4>1. c \in Nat
        BY LedgerAssumption DEF Category
      <4>2. c >= new /\ c # new
        BY <2>2, <3>2, <4>1
      <4> QED
        BY <1>0, <2>3, <4>2 DEF TypesHad
    <3>3. \A r \in Rule : rules'[r] # NoRow =>
            rules'[r].category \in Category /\ rules'[r].type \in hadType'[rules'[r].category]
      BY <1>0, <2>1, <2>3 DEF TypesHad, LedgerTypeOK, RuleRow
    <3> QED
      BY <3>1, <3>2, <3>3 DEF TypesHad
  <2> QED
    BY <1>2, <2>1, <2>2, <2>4, <2>5 DEF Kept
<1>5. CASE CategoryWritten
  <2>1. PICK c \in Category, row \in CategoryRow :
          /\ categories[c] # NoRow /\ row.user = categories[c].user
          /\ categories' = [categories EXCEPT ![c] = row] /\ HadTypeAfter(c, row.type)
          /\ UNCHANGED <<transactions, budgets, rules, nextId>>
    BY <1>5 DEF CategoryWritten
  <2>2. \A d \in Category :
          /\ categories'[d] = IF d = c THEN row ELSE categories[d]
          /\ hadType'[d] = IF d = c THEN hadType[d] \cup {row.type} ELSE hadType[d]
    BY <1>0, <2>1 DEF HadTypeAfter, LedgerTypeOK
  <2>3. HadGrows
    BY <2>2 DEF HadGrows
  <2>4. TypesHad'
    <3>1. \A d \in Category : categories'[d] # NoRow => categories'[d].type \in hadType'[d]
      BY <1>0, <2>2 DEF TypesHad
    <3>2. c < nextId.category
      BY <1>0, <2>1 DEF Allotted
    <3>3. \A d \in Category : d >= nextId'.category => hadType'[d] = {}
      BY <1>0, <2>1, <2>2, <3>2, LedgerAssumption DEF TypesHad, Category, LedgerTypeOK
    <3>4. \A r \in Rule : rules'[r] # NoRow =>
            rules'[r].category \in Category /\ rules'[r].type \in hadType'[rules'[r].category]
      BY <1>0, <2>1, <2>2 DEF TypesHad, LedgerTypeOK, RuleRow
    <3> QED
      BY <3>1, <3>3, <3>4 DEF TypesHad
  <2> QED
    BY <1>2, <2>1, <2>3, <2>4 DEF Kept
<1>6. CASE CategoryDeleted
  <2>1. PICK c \in Category :
          /\ categories' = [categories EXCEPT ![c] = NoRow]
          /\ UNCHANGED <<transactions, budgets, rules, nextId, hadType>>
    BY <1>6 DEF CategoryDeleted
  <2>2. \A d \in Category : categories'[d] = IF d = c THEN NoRow ELSE categories[d]
    BY <1>0, <2>1 DEF LedgerTypeOK
  <2>3. TypesHad' /\ HadGrows
    BY <1>0, <2>1, <2>2 DEF TypesHad, HadGrows
  <2> QED
    BY <1>2, <2>1, <2>3 DEF Kept
<1>7. CASE TransactionInserted
  <2>1. PICK row \in TransactionRow :
          /\ InsertTransaction(row) /\ UNCHANGED <<categories, budgets, rules, hadType>>
    BY <1>7 DEF TransactionInserted
  <2> DEFINE new == nextId.transaction
  <2>2. /\ new \in Transaction /\ new \in Nat
        /\ nextId'.transaction = new + 1 /\ nextId'.category = nextId.category
    BY <1>0, <2>1, LedgerAssumption DEF InsertTransaction, LedgerTypeOK
  <2>3. \A t \in Transaction : transactions'[t] = IF t = new THEN row ELSE transactions[t]
    BY <1>0, <2>1 DEF InsertTransaction, LedgerTypeOK
  <2>4. TransactionsAllotted' /\ SourcesKept
    BY <1>0, <2>2, <2>3 DEF TransactionsAllotted, SourcesKept, Transaction
  <2> QED
    BY <1>1, <2>1, <2>2, <2>4 DEF Kept
<1>8. CASE TransactionChanged
  <2>1. PICK t \in Transaction, row \in TransactionRow :
          /\ transactions[t] # NoRow /\ row.source = transactions[t].source
          /\ transactions' = [transactions EXCEPT ![t] = row]
          /\ UNCHANGED <<categories, budgets, rules, nextId, hadType>>
    BY <1>8 DEF TransactionChanged
  <2>2. \A s \in Transaction : transactions'[s] = IF s = t THEN row ELSE transactions[s]
    BY <1>0, <2>1 DEF LedgerTypeOK
  <2>3. TransactionsAllotted' /\ SourcesKept
    BY <1>0, <2>1, <2>2 DEF TransactionsAllotted, SourcesKept, LedgerTypeOK
  <2> QED
    BY <1>1, <2>1, <2>3 DEF Kept
<1>9. CASE TransactionDeleted
  <2>1. PICK t \in Transaction :
          /\ transactions' = [transactions EXCEPT ![t] = NoRow]
          /\ UNCHANGED <<categories, budgets, rules, nextId, hadType>>
    BY <1>9 DEF TransactionDeleted
  <2>2. \A s \in Transaction : transactions'[s] = IF s = t THEN NoRow ELSE transactions[s]
    BY <1>0, <2>1 DEF LedgerTypeOK
  <2>3. TransactionsAllotted' /\ SourcesKept
    BY <1>0, <2>1, <2>2 DEF TransactionsAllotted, SourcesKept, LedgerTypeOK
  <2> QED
    BY <1>1, <2>1, <2>3 DEF Kept
<1>10. CASE BudgetInserted
  <2>1. SameTypes /\ SameTransactions
    BY <1>0, <1>10 DEF BudgetInserted, InsertBudget, LedgerTypeOK
  <2> QED
    BY <1>1, <1>2, <2>1 DEF Kept
<1>11. CASE BudgetChanged \/ BudgetDeleted
  <2>1. SameTypes /\ SameTransactions
    BY <1>11 DEF BudgetChanged, BudgetDeleted
  <2> QED
    BY <1>1, <1>2, <2>1 DEF Kept
<1>12. CASE RuleInserted
  <2>1. PICK row \in RuleRow :
          /\ Fits(row) /\ InsertRule(row)
          /\ UNCHANGED <<categories, transactions, budgets, hadType>>
    BY <1>12 DEF RuleInserted
  <2>2. nextId'.category = nextId.category /\ nextId'.transaction = nextId.transaction
    BY <1>0, <2>1 DEF InsertRule, LedgerTypeOK
  <2>3. \A r \in Rule : rules'[r] = IF r = nextId.rule THEN row ELSE rules[r]
    BY <1>0, <2>1 DEF InsertRule, LedgerTypeOK
  <2>4. TypesHad' /\ HadGrows
    BY <1>0, <2>1, <2>2, <2>3 DEF TypesHad, HadGrows, Fits
  <2> QED
    BY <1>2, <2>1, <2>2, <2>4 DEF Kept
<1>13. CASE RuleDeleted
  <2>1. PICK r \in Rule :
          /\ rules' = [rules EXCEPT ![r] = NoRow]
          /\ transactions' = [t \in Transaction |->
               IF t \in Live(transactions) /\ transactions[t].rule = r
                 THEN [transactions[t] EXCEPT !.rule = NoRow] ELSE transactions[t]]
          /\ UNCHANGED <<categories, budgets, nextId, hadType>>
    BY <1>13 DEF RuleDeleted
  <2>2. \A s \in Rule : rules'[s] = IF s = r THEN NoRow ELSE rules[s]
    BY <1>0, <2>1 DEF LedgerTypeOK
  <2>3. TypesHad' /\ HadGrows
    BY <1>0, <2>1, <2>2 DEF TypesHad, HadGrows
  <2>4. ASSUME NEW t \in Transaction, transactions'[t] # NoRow
        PROVE  transactions[t] # NoRow /\ transactions'[t].source = transactions[t].source
    <3>1. transactions[t] # NoRow
      BY <2>1, <2>4 DEF Live
    <3>2. transactions[t] \in TransactionRow
      BY <1>0, <3>1 DEF LedgerTypeOK
    <3>3. [transactions[t] EXCEPT !.rule = NoRow].source = transactions[t].source
      BY <3>2 DEF TransactionRow
    <3> QED
      BY <2>1, <3>1, <3>3
  <2>5. TransactionsAllotted' /\ SourcesKept
    BY <1>0, <2>1, <2>4 DEF TransactionsAllotted, SourcesKept, LedgerTypeOK
  <2> QED
    BY <2>3, <2>5 DEF Kept
<1>14. CASE RuleChanged
  <2>1. PICK r \in Rule, row \in RuleRow :
          /\ Fits(row) /\ rules' = [rules EXCEPT ![r] = row]
          /\ UNCHANGED <<categories, transactions, budgets, nextId, hadType>>
    BY <1>14 DEF RuleChanged
  <2>2. \A s \in Rule : rules'[s] = IF s = r THEN row ELSE rules[s]
    BY <1>0, <2>1 DEF LedgerTypeOK
  <2>3. TypesHad' /\ HadGrows
    BY <1>0, <2>1, <2>2 DEF TypesHad, HadGrows, Fits
  <2> QED
    BY <1>2, <2>1, <2>3 DEF Kept
<1> QED
  BY <1>3, <1>4, <1>5, <1>6, <1>7, <1>8, <1>9, <1>10, <1>11, <1>12, <1>13, <1>14 DEF Effect

LEMMA StepKeepsBookInv ==
  ASSUME TypeInv, TypeInv', OwnInv, BookInv, Step
  PROVE  BookInv'
<1>1. Effect /\ RequestsMove
  BY StepEffect
<1>2. TypesHad' /\ TransactionsAllotted' /\ HadGrows /\ SourcesKept
  BY <1>1, EffectKeeps DEF Kept
<1>3. ASSUME NEW q \in Request, at'[q] \in Checked
      PROVE  TypeFor(at'[q], input'[q]) \in hadType'[input'[q].category]
  <2>1. RequestMoves(q)
    BY <1>1 DEF RequestsMove
  <2>2. CASE /\ at[q] \in Checked /\ input'[q] = input[q]
             /\ TypeFor(at'[q], input'[q]) = TypeFor(at[q], input[q])
    <3>1. input[q].category \in Category
      BY <2>2, CheckedCategory DEF TypeInv
    <3>2. TypeFor(at[q], input[q]) \in hadType[input[q].category]
      BY <2>2 DEF BookInv, InputsHad
    <3> QED
      BY <1>2, <2>2, <3>1, <3>2 DEF HadGrows
  <2>3. CASE /\ input'[q].category \in Category /\ categories[input'[q].category] # NoRow
             /\ TypeFor(at'[q], input'[q]) = categories[input'[q].category].type
    BY <1>2, <2>3 DEF HadGrows, BookInv, TypesHad
  <2> QED
    BY <1>3, <2>1, <2>2, <2>3 DEF RequestMoves
<1>4. ASSUME NEW q \in Request, at'[q] \in Editing
      PROVE  /\ target'[q] < nextId'.transaction
             /\ transactions'[target'[q]] # NoRow =>
                  transactions'[target'[q]].source # "recurring"
  <2>0. target'[q] \in Transaction
    BY <1>4 DEF TypeInv, RequestsTyped, Carries, Editing
  <2>1. /\ target'[q] < nextId.transaction
        /\ transactions[target'[q]] # NoRow => transactions[target'[q]].source # "recurring"
    BY <1>1, <1>4 DEF RequestsMove, RequestMoves, BookInv, EditsManual, TransactionsAllotted
  <2>2. target'[q] \in Nat /\ nextId.transaction \in Nat /\ nextId'.transaction \in Nat
    BY <2>0, LedgerAssumption DEF Transaction, TypeInv, LedgerTypeOK
  <2>3. nextId'.transaction >= nextId.transaction
    BY <1>2 DEF SourcesKept
  <2>4. target'[q] < nextId'.transaction
    BY <2>1, <2>2, <2>3
  <2>5. transactions'[target'[q]] # NoRow =>
          transactions'[target'[q]].source # "recurring"
    BY <1>2, <2>0, <2>1 DEF SourcesKept
  <2> QED
    BY <2>4, <2>5
<1>5. InputsHad'
  <2> SUFFICES ASSUME NEW q \in Request, at'[q] \in Checked
               PROVE  TypeFor(at[q], input[q])' \in hadType'[input'[q].category]
    BY DEF InputsHad
  <2>1. TypeFor(at'[q], input'[q]) \in hadType'[input'[q].category]
    BY <1>3
  <2> QED
    BY <2>1 DEF TypeFor
<1>6. EditsManual'
  BY <1>4 DEF EditsManual
<1> QED
  BY <1>2, <1>5, <1>6 DEF BookInv

LEMMA InitBookInv == Init => BookInv
<1> SUFFICES ASSUME Init PROVE BookInv
  OBVIOUS
<1>1. TypesHad /\ TransactionsAllotted
  BY DEF Init, LedgerInit, TypesHad, TransactionsAllotted
<1>2. InputsHad /\ EditsManual
  BY DEF Init, RequestInit, InputsHad, EditsManual, Checked, Editing
<1> QED
  BY <1>1, <1>2 DEF BookInv

LEMMA BookInvariant == Spec => []BookInv
<1>1. TypeInv /\ TypeInv' /\ OwnInv /\ BookInv /\ [Next]_vars => BookInv'
  <2> SUFFICES ASSUME TypeInv, TypeInv', OwnInv, BookInv, [Next]_vars PROVE BookInv'
    OBVIOUS
  <2>1. CASE Next
    BY <2>1, StepKeepsBookInv DEF Next
  <2>2. CASE UNCHANGED vars
    BY <2>2 DEF vars, ledgerVars, tables, ledgerHistory, requestVars, BookInv, TypesHad,
                TransactionsAllotted, InputsHad, TypeFor, EditsManual
  <2> QED
    BY <2>1, <2>2
<1> QED
  BY <1>1, InitBookInv, TypeInvariant, OwnInvariant, PTL DEF Spec

-----------------------------------------------------------------------------
(* The tables as a book                                                    *)

Owners == [c \in Category |-> IF categories[c] = NoRow THEN NoRow ELSE categories[c].user]
Entries == [e \in Entry |-> EntryOf(e)]
EverEntered == { e \in Entry : e[2] < nextId[e[1]] }

TransactionEntry(row) ==
  [owner |-> row.user, heading |-> row.category, kind |-> row.type,
   fixed |-> row.source = "recurring"]
BudgetEntry(row) ==
  [owner |-> row.user, heading |-> row.category, kind |-> "expense", fixed |-> FALSE]
RuleEntry(row) ==
  [owner |-> row.user, heading |-> row.category, kind |-> row.type, fixed |-> FALSE]

LEMMA TransactionEntries ==
  /\ \A t \in Transaction :
       EntryOf(<<"transaction", t>>) =
         IF transactions[t] = NoRow THEN NoRow ELSE TransactionEntry(transactions[t])
  /\ \A t \in Transaction :
       EntryOf(<<"transaction", t>>)' =
         IF transactions'[t] = NoRow THEN NoRow ELSE TransactionEntry(transactions'[t])
BY DEF EntryOf, TransactionEntry

LEMMA BudgetEntries ==
  /\ \A b \in Budget :
       EntryOf(<<"budget", b>>) =
         IF budgets[b] = NoRow THEN NoRow ELSE BudgetEntry(budgets[b])
  /\ \A b \in Budget :
       EntryOf(<<"budget", b>>)' =
         IF budgets'[b] = NoRow THEN NoRow ELSE BudgetEntry(budgets'[b])
BY DEF EntryOf, BudgetEntry

LEMMA RuleEntries ==
  /\ \A r \in Rule :
       EntryOf(<<"rule", r>>) =
         IF rules[r] = NoRow THEN NoRow ELSE RuleEntry(rules[r])
  /\ \A r \in Rule :
       EntryOf(<<"rule", r>>)' =
         IF rules'[r] = NoRow THEN NoRow ELSE RuleEntry(rules'[r])
BY DEF EntryOf, RuleEntry

LEMMA EntryCases ==
  \A e \in Entry :
    \/ \E t \in Transaction : e = <<"transaction", t>>
    \/ \E b \in Budget : e = <<"budget", b>>
    \/ \E r \in Rule : e = <<"rule", r>>
BY DEF Entry

\* A row that fits is one the book lets in.
LEMMA FitsEnterable ==
  ASSUME TypeInv
  PROVE  /\ \A row \in TransactionRow : Fits(row) => Book!Enterable(TransactionEntry(row))
         /\ \A row \in BudgetRow : BudgetFits(row) => Book!Enterable(BudgetEntry(row))
         /\ \A row \in RuleRow : Fits(row) => Book!Enterable(RuleEntry(row))
<1>1. ASSUME NEW row \in TransactionRow, Fits(row)
      PROVE  Book!Enterable(TransactionEntry(row))
  <2>1. TransactionEntry(row) \in Book!EntryRow
    BY DEF TransactionRow, TransactionEntry, Book!EntryRow
  <2>2. row.category \in Category
    BY DEF TransactionRow
  <2> QED
    BY <1>1, <2>1, <2>2 DEF Book!Enterable, TransactionEntry, Fits, RefersToOwn
<1>2. ASSUME NEW row \in BudgetRow, BudgetFits(row)
      PROVE  Book!Enterable(BudgetEntry(row))
  <2>1. BudgetEntry(row) \in Book!EntryRow
    BY DEF BudgetRow, BudgetEntry, Book!EntryRow, Type
  <2>2. row.category \in Category
    BY DEF BudgetRow
  <2> QED
    BY <1>2, <2>1, <2>2 DEF Book!Enterable, BudgetEntry, BudgetFits, RefersToOwn
<1>3. ASSUME NEW row \in RuleRow, Fits(row)
      PROVE  Book!Enterable(RuleEntry(row))
  <2>1. RuleEntry(row) \in Book!EntryRow
    BY DEF RuleRow, RuleEntry, Book!EntryRow
  <2>2. row.category \in Category
    BY DEF RuleRow
  <2> QED
    BY <1>3, <2>1, <2>2 DEF Book!Enterable, RuleEntry, Fits, RefersToOwn
<1> QED
  BY <1>1, <1>2, <1>3

LEMMA EntriesAre ==
  /\ \A e \in Entry : Entries[e] = EntryOf(e) /\ Entries'[e] = EntryOf(e)'
  /\ \A e \in Entry :
       (\A other \in Entry \ {e} : EntryOf(other)' = EntryOf(other)) =>
         Entries' = [Entries EXCEPT ![e] = Entries'[e]]
  /\ (\A e \in Entry : EntryOf(e)' = EntryOf(e)) => Entries' = Entries
BY DEF Entries

\* One entry is written, and the rest of the book stays: which step of the book it is.
LEMMA EnterStep ==
  ASSUME NEW e \in Entry, \A other \in Entry \ {e} : EntryOf(other)' = EntryOf(other),
         UNCHANGED <<categories, hadType>>,
         e \notin EverEntered, EverEntered' = EverEntered \cup {e},
         Book!Enterable(EntryOf(e)')
  PROVE  Book!BookNext
<1>1. Owners' = Owners
  BY DEF Owners
<1>2. /\ Entries' = [Entries EXCEPT ![e] = Entries'[e]]
      /\ Entries'[e] = EntryOf(e)'
  BY EntriesAre
<1>3. Book!Enter(e)
  BY <1>1, <1>2 DEF Book!Enter, Entries, Owners, EverEntered
<1> QED
  BY <1>3 DEF Book!BookNext

LEMMA AmendStep ==
  ASSUME NEW e \in Entry, \A other \in Entry \ {e} : EntryOf(other)' = EntryOf(other),
         UNCHANGED <<categories, hadType, nextId>>,
         EntryOf(e) # NoRow, ~EntryOf(e).fixed,
         Book!Enterable(EntryOf(e)'), ~EntryOf(e)'.fixed,
         EntryOf(e)'.owner = EntryOf(e).owner
  PROVE  Book!BookNext
<1>1. Owners' = Owners /\ EverEntered' = EverEntered
  BY DEF Owners, EverEntered
<1>2. /\ Entries' = [Entries EXCEPT ![e] = Entries'[e]]
      /\ Entries'[e] = EntryOf(e)' /\ Entries[e] = EntryOf(e)
  BY EntriesAre
<1>3. Book!Amend(e)
  BY <1>1, <1>2 DEF Book!Amend, Entries, Owners, EverEntered
<1> QED
  BY <1>3 DEF Book!BookNext

LEMMA EraseStep ==
  ASSUME NEW e \in Entry, \A other \in Entry \ {e} : EntryOf(other)' = EntryOf(other),
         UNCHANGED <<categories, hadType, nextId>>,
         EntryOf(e) # NoRow, EntryOf(e)' = NoRow
  PROVE  Book!BookNext
<1>1. Owners' = Owners /\ EverEntered' = EverEntered
  BY DEF Owners, EverEntered
<1>2. /\ Entries' = [Entries EXCEPT ![e] = Entries'[e]]
      /\ Entries'[e] = EntryOf(e)' /\ Entries[e] = EntryOf(e)
  BY EntriesAre
<1>3. Book!Erase(e)
  BY <1>1, <1>2 DEF Book!Erase, Entries, Owners, EverEntered
<1> QED
  BY <1>3 DEF Book!BookNext

\* Entries are no Nothing.
LEMMA EntriesAreRows ==
  /\ \A row \in TransactionRow : TransactionEntry(row) # NoRow
  /\ \A row \in BudgetRow : BudgetEntry(row) # NoRow
  /\ \A row \in RuleRow : RuleEntry(row) # NoRow
<1>1. \A row \in TransactionRow : TransactionEntry(row) \in Book!EntryRow
  BY DEF TransactionRow, TransactionEntry, Book!EntryRow
<1>2. \A row \in BudgetRow : BudgetEntry(row) \in Book!EntryRow
  BY DEF BudgetRow, BudgetEntry, Book!EntryRow, Type
<1>3. \A row \in RuleRow : RuleEntry(row) \in Book!EntryRow
  BY DEF RuleRow, RuleEntry, Book!EntryRow
<1> QED
  BY <1>1, <1>2, <1>3, BookNothingAssumption

\* Tables that stay keep their entries.
LEMMA OtherTables ==
  /\ transactions' = transactions =>
       \A t \in Transaction : EntryOf(<<"transaction", t>>)' = EntryOf(<<"transaction", t>>)
  /\ budgets' = budgets =>
       \A b \in Budget : EntryOf(<<"budget", b>>)' = EntryOf(<<"budget", b>>)
  /\ rules' = rules =>
       \A r \in Rule : EntryOf(<<"rule", r>>)' = EntryOf(<<"rule", r>>)
BY TransactionEntries, BudgetEntries, RuleEntries

\* One row of a table is written.
LEMMA OneRow ==
  ASSUME TypeInv
  PROVE  /\ \A t \in Transaction :
              (/\ budgets' = budgets /\ rules' = rules
               /\ \A s \in Transaction \ {t} : transactions'[s] = transactions[s]) =>
              \A e \in Entry \ {<<"transaction", t>>} : EntryOf(e)' = EntryOf(e)
         /\ \A b \in Budget :
              (/\ transactions' = transactions /\ rules' = rules
               /\ \A s \in Budget \ {b} : budgets'[s] = budgets[s]) =>
              \A e \in Entry \ {<<"budget", b>>} : EntryOf(e)' = EntryOf(e)
<1>1. ASSUME NEW t \in Transaction, budgets' = budgets, rules' = rules,
             \A s \in Transaction \ {t} : transactions'[s] = transactions[s],
             NEW e \in Entry, e # <<"transaction", t>>
      PROVE  EntryOf(e)' = EntryOf(e)
  <2>1. CASE \E s \in Transaction : e = <<"transaction", s>>
    <3>1. PICK s \in Transaction : e = <<"transaction", s>>
      BY <2>1
    <3>2. transactions'[s] = transactions[s]
      BY <1>1, <3>1
    <3> QED
      BY <3>1, <3>2, TransactionEntries
  <2>2. CASE ~\E s \in Transaction : e = <<"transaction", s>>
    BY <1>1, <2>2, EntryCases, OtherTables
  <2> QED
    BY <2>1, <2>2
<1>2. ASSUME NEW b \in Budget, transactions' = transactions, rules' = rules,
             \A s \in Budget \ {b} : budgets'[s] = budgets[s],
             NEW e \in Entry, e # <<"budget", b>>
      PROVE  EntryOf(e)' = EntryOf(e)
  <2>1. CASE \E s \in Budget : e = <<"budget", s>>
    <3>1. PICK s \in Budget : e = <<"budget", s>>
      BY <2>1
    <3>2. budgets'[s] = budgets[s]
      BY <1>2, <3>1
    <3> QED
      BY <3>1, <3>2, BudgetEntries
  <2>2. CASE ~\E s \in Budget : e = <<"budget", s>>
    BY <1>2, <2>2, EntryCases, OtherTables
  <2> QED
    BY <2>1, <2>2
<1> QED
  BY <1>1, <1>2

LEMMA OneRule ==
  ASSUME TypeInv, NEW r \in Rule, budgets' = budgets,
         \A t \in Transaction : EntryOf(<<"transaction", t>>)' = EntryOf(<<"transaction", t>>),
         \A s \in Rule \ {r} : rules'[s] = rules[s],
         NEW e \in Entry, e # <<"rule", r>>
  PROVE  EntryOf(e)' = EntryOf(e)
<1>1. CASE \E s \in Rule : e = <<"rule", s>>
  <2>1. PICK s \in Rule : e = <<"rule", s>>
    BY <1>1
  <2>2. rules'[s] = rules[s]
    BY <2>1
  <2> QED
    BY <2>1, <2>2, RuleEntries
<1>2. CASE ~\E s \in Rule : e = <<"rule", s>>
  BY <1>2, EntryCases, OtherTables
<1> QED
  BY <1>1, <1>2

\* An INSERT takes the first id of its table that has not been entered.
LEMMA NextEntry ==
  ASSUME TypeInv
  PROVE  /\ nextId.transaction \in Transaction
              /\ nextId' = [nextId EXCEPT !.transaction = @ + 1] =>
            LET e == <<"transaction", nextId.transaction>>
            IN  e \in Entry /\ e \notin EverEntered /\ EverEntered' = EverEntered \cup {e}
         /\ nextId.budget \in Budget
              /\ nextId' = [nextId EXCEPT !.budget = @ + 1] =>
            LET e == <<"budget", nextId.budget>>
            IN  e \in Entry /\ e \notin EverEntered /\ EverEntered' = EverEntered \cup {e}
         /\ nextId.rule \in Rule
              /\ nextId' = [nextId EXCEPT !.rule = @ + 1] =>
            LET e == <<"rule", nextId.rule>>
            IN  e \in Entry /\ e \notin EverEntered /\ EverEntered' = EverEntered \cup {e}
<1>0. /\ nextId \in [category : Nat, transaction : Nat, budget : Nat, rule : Nat]
      /\ \A t \in Transaction : t \in Nat
      /\ \A b \in Budget : b \in Nat
      /\ \A r \in Rule : r \in Nat
  BY LedgerAssumption DEF TypeInv, LedgerTypeOK, Transaction, Budget, Rule
<1>1. ASSUME nextId.transaction \in Transaction,
             nextId' = [nextId EXCEPT !.transaction = @ + 1]
      PROVE  LET e == <<"transaction", nextId.transaction>>
             IN  e \in Entry /\ e \notin EverEntered /\ EverEntered' = EverEntered \cup {e}
  <2> DEFINE e == <<"transaction", nextId.transaction>>
  <2>1. e \in Entry /\ e \notin EverEntered
    BY <1>0, <1>1 DEF Entry, EverEntered
  <2>2. \A x \in Entry : x \in EverEntered' <=> x \in EverEntered \/ x = e
    <3> SUFFICES ASSUME NEW x \in Entry PROVE x[2] < nextId'[x[1]] <=> x[2] < nextId[x[1]] \/ x = e
      BY DEF EverEntered
    <3>1. CASE \E t \in Transaction : x = <<"transaction", t>>
      BY <1>0, <1>1, <3>1
    <3>2. CASE \E b \in Budget : x = <<"budget", b>>
      BY <1>0, <1>1, <3>2
    <3>3. CASE \E r \in Rule : x = <<"rule", r>>
      BY <1>0, <1>1, <3>3
    <3> QED
      BY <3>1, <3>2, <3>3, EntryCases
  <2> QED
    BY <2>1, <2>2 DEF EverEntered
<1>2. ASSUME nextId.budget \in Budget,
             nextId' = [nextId EXCEPT !.budget = @ + 1]
      PROVE  LET e == <<"budget", nextId.budget>>
             IN  e \in Entry /\ e \notin EverEntered /\ EverEntered' = EverEntered \cup {e}
  <2> DEFINE e == <<"budget", nextId.budget>>
  <2>1. e \in Entry /\ e \notin EverEntered
    BY <1>0, <1>2 DEF Entry, EverEntered
  <2>2. \A x \in Entry : x \in EverEntered' <=> x \in EverEntered \/ x = e
    <3> SUFFICES ASSUME NEW x \in Entry PROVE x[2] < nextId'[x[1]] <=> x[2] < nextId[x[1]] \/ x = e
      BY DEF EverEntered
    <3>1. CASE \E t \in Transaction : x = <<"transaction", t>>
      BY <1>0, <1>2, <3>1
    <3>2. CASE \E b \in Budget : x = <<"budget", b>>
      BY <1>0, <1>2, <3>2
    <3>3. CASE \E r \in Rule : x = <<"rule", r>>
      BY <1>0, <1>2, <3>3
    <3> QED
      BY <3>1, <3>2, <3>3, EntryCases
  <2> QED
    BY <2>1, <2>2 DEF EverEntered
<1>3. ASSUME nextId.rule \in Rule,
             nextId' = [nextId EXCEPT !.rule = @ + 1]
      PROVE  LET e == <<"rule", nextId.rule>>
             IN  e \in Entry /\ e \notin EverEntered /\ EverEntered' = EverEntered \cup {e}
  <2> DEFINE e == <<"rule", nextId.rule>>
  <2>1. e \in Entry /\ e \notin EverEntered
    BY <1>0, <1>3 DEF Entry, EverEntered
  <2>2. \A x \in Entry : x \in EverEntered' <=> x \in EverEntered \/ x = e
    <3> SUFFICES ASSUME NEW x \in Entry PROVE x[2] < nextId'[x[1]] <=> x[2] < nextId[x[1]] \/ x = e
      BY DEF EverEntered
    <3>1. CASE \E t \in Transaction : x = <<"transaction", t>>
      BY <1>0, <1>3, <3>1
    <3>2. CASE \E b \in Budget : x = <<"budget", b>>
      BY <1>0, <1>3, <3>2
    <3>3. CASE \E r \in Rule : x = <<"rule", r>>
      BY <1>0, <1>3, <3>3
    <3> QED
      BY <3>1, <3>2, <3>3, EntryCases
  <2> QED
    BY <2>1, <2>2 DEF EverEntered
<1> QED
  BY <1>1, <1>2, <1>3

LEMMA EntryHeadings ==
  \A row : /\ TransactionEntry(row).heading = row.category
           /\ BudgetEntry(row).heading = row.category
           /\ RuleEntry(row).heading = row.category
BY DEF TransactionEntry, BudgetEntry, RuleEntry

LEMMA CategoryEffectsMap ==
  ASSUME TypeInv, TypeInv', OwnInv, BookInv,
         CategoryCreated \/ CategoryWritten \/ CategoryDeleted
  PROVE  Book!BookNext
<1>0. LedgerTypeOK /\ LedgerTypeOK' /\ Allotted /\ TypesHad
  BY DEF TypeInv, OwnInv, BookInv
<1>1. CASE CategoryCreated
  <2>1. PICK row \in CategoryRow :
          /\ InsertCategory(row) /\ HadTypeAfter(nextId.category, row.type)
          /\ UNCHANGED <<transactions, budgets, rules>>
    BY <1>1 DEF CategoryCreated
  <2>2. PICK new \in Category :
          /\ new \in Nat /\ new = nextId.category
          /\ nextId' = [nextId EXCEPT !.category = @ + 1]
          /\ categories' = [categories EXCEPT ![new] = row]
    <3>1. nextId.category \in Category /\ nextId.category \in Nat
      BY <1>0, <2>1, LedgerAssumption DEF InsertCategory, LedgerTypeOK
    <3> QED
      BY <2>1, <3>1 DEF InsertCategory
  <2>3. categories[new] = NoRow /\ hadType[new] = {}
    BY <1>0, <2>2 DEF Allotted, TypesHad
  <2>4. row # NoRow /\ row.user \in User /\ row.type \in Type
    BY LedgerNoRowAssumption DEF CategoryRow
  <2>5. Owners' = [Owners EXCEPT ![new] = row.user]
    BY <1>0, <2>2, <2>4 DEF Owners, LedgerTypeOK
  <2>6. hadType' = [hadType EXCEPT ![new] = {row.type}]
    BY <1>0, <2>1, <2>2, <2>3 DEF HadTypeAfter, LedgerTypeOK
  <2>7. Entries' = Entries
    BY <2>1, EntryCases, OtherTables, EntriesAre
  <2>8. EverEntered' = EverEntered
    <3> SUFFICES ASSUME NEW x \in Entry PROVE x[2] < nextId'[x[1]] <=> x[2] < nextId[x[1]]
      BY DEF EverEntered
    <3>1. nextId \in [category : Nat, transaction : Nat, budget : Nat, rule : Nat]
      BY <1>0, LedgerAssumption DEF LedgerTypeOK
    <3> QED
      BY <2>2, <3>1, EntryCases
  <2>9. Owners[new] = NoRow
    BY <2>2, <2>3 DEF Owners
  <2>10. Book!OpenHeading(new)
    BY <2>3, <2>4, <2>5, <2>6, <2>7, <2>8, <2>9
    DEF Book!OpenHeading, Owners, Entries, EverEntered
  <2> QED
    BY <2>2, <2>10 DEF Book!BookNext
<1>2. CASE CategoryWritten
  <2>1. PICK c \in Category, row \in CategoryRow :
          /\ categories[c] # NoRow /\ row.user = categories[c].user
          /\ categories' = [categories EXCEPT ![c] = row] /\ HadTypeAfter(c, row.type)
          /\ UNCHANGED <<transactions, budgets, rules, nextId>>
    BY <1>2 DEF CategoryWritten
  <2>2. row # NoRow /\ row.user \in User /\ row.type \in Type
    BY LedgerNoRowAssumption DEF CategoryRow
  <2>3. Owners' = Owners
    BY <1>0, <2>1, <2>2 DEF Owners, LedgerTypeOK
  <2>4. Entries' = Entries /\ EverEntered' = EverEntered
    BY <2>1, EntryCases, OtherTables, EntriesAre DEF EverEntered
  <2>5. Owners[c] # NoRow
    BY <2>1, <2>2, BookNothingAssumption DEF Owners
  <2>6. Book!RetypeHeading(c)
    BY <2>1, <2>2, <2>3, <2>4, <2>5
    DEF Book!RetypeHeading, HadTypeAfter, Owners, Entries, EverEntered
  <2> QED
    BY <2>1, <2>6 DEF Book!BookNext
<1>3. CASE CategoryDeleted
  <2>1. PICK c \in Category :
          /\ categories[c] # NoRow /\ ~Referenced(c)
          /\ categories' = [categories EXCEPT ![c] = NoRow]
          /\ UNCHANGED <<transactions, budgets, rules, nextId, hadType>>
    BY <1>3 DEF CategoryDeleted
  <2>2. Owners' = [Owners EXCEPT ![c] = NoRow]
    BY <1>0, <2>1 DEF Owners, LedgerTypeOK
  <2>3. Entries' = Entries /\ EverEntered' = EverEntered
    BY <2>1, EntryCases, OtherTables, EntriesAre DEF EverEntered
  <2>4. Owners[c] # NoRow
    <3>1. categories[c].user \in User
      BY <1>0, <2>1 DEF LedgerTypeOK, CategoryRow
    <3> QED
      BY <2>1, <3>1, BookNothingAssumption DEF Owners
  <2>5. ASSUME NEW e \in Entry, EntryOf(e) # NoRow
        PROVE  EntryOf(e).heading # c
    <3>1. /\ \A t \in Transaction : transactions[t] # NoRow => transactions[t].category # c
          /\ \A b \in Budget : budgets[b] # NoRow => budgets[b].category # c
          /\ \A r \in Rule : rules[r] # NoRow => rules[r].category # c
      BY <1>0, <2>1 DEF Referenced, Live, LedgerTypeOK
    <3>2. CASE \E t \in Transaction : e = <<"transaction", t>>
      <4>1. PICK t \in Transaction : e = <<"transaction", t>>
        BY <3>2
      <4> QED
        BY <2>5, <3>1, <4>1, TransactionEntries, EntryHeadings
    <3>3. CASE \E b \in Budget : e = <<"budget", b>>
      <4>1. PICK b \in Budget : e = <<"budget", b>>
        BY <3>3
      <4> QED
        BY <2>5, <3>1, <4>1, BudgetEntries, EntryHeadings
    <3>4. CASE \E r \in Rule : e = <<"rule", r>>
      <4>1. PICK r \in Rule : e = <<"rule", r>>
        BY <3>4
      <4> QED
        BY <2>5, <3>1, <4>1, RuleEntries, EntryHeadings
    <3> QED
      BY <3>2, <3>3, <3>4, EntryCases
  <2>6. \A e \in Entry : Entries[e] # NoRow => Entries[e].heading # c
    BY <2>5, EntriesAre
  <2>7. Book!CloseHeading(c)
    BY <2>1, <2>2, <2>3, <2>4, <2>6
    DEF Book!CloseHeading, Owners, Entries, EverEntered
  <2> QED
    BY <2>1, <2>7 DEF Book!BookNext
<1> QED
  BY <1>1, <1>2, <1>3

\* What an amended entry keeps.
LEMMA EntryFields ==
  /\ \A row : TransactionEntry(row).owner = row.user
  /\ \A row : BudgetEntry(row).owner = row.user
  /\ \A row : TransactionEntry(row).fixed <=> row.source = "recurring"
  /\ \A row : ~BudgetEntry(row).fixed
  /\ \A row : RuleEntry(row).owner = row.user /\ ~RuleEntry(row).fixed
BY DEF TransactionEntry, BudgetEntry, RuleEntry

LEMMA TransactionEffectsMap ==
  ASSUME TypeInv, TypeInv', OwnInv, BookInv,
         TransactionInserted \/ TransactionChanged \/ TransactionDeleted
  PROVE  Book!BookNext
<1>0. LedgerTypeOK
  BY DEF TypeInv
<1>1. CASE TransactionInserted
  <2>1. PICK row \in TransactionRow :
          /\ Fits(row) /\ InsertTransaction(row)
          /\ UNCHANGED <<categories, budgets, rules, hadType>>
    BY <1>1 DEF TransactionInserted
  <2>2. PICK new \in Transaction :
          /\ new = nextId.transaction
          /\ transactions' = [transactions EXCEPT ![new] = row]
          /\ nextId' = [nextId EXCEPT !.transaction = @ + 1]
    BY <2>1 DEF InsertTransaction
  <2>3. \A t \in Transaction : transactions'[t] = IF t = new THEN row ELSE transactions[t]
    BY <1>0, <2>2 DEF LedgerTypeOK
  <2> DEFINE e == <<"transaction", new>>
  <2>4. \A other \in Entry \ {e} : EntryOf(other)' = EntryOf(other)
    BY <2>1, <2>3, OneRow
  <2>5. e \in Entry /\ e \notin EverEntered /\ EverEntered' = EverEntered \cup {e}
    BY <2>2, NextEntry
  <2>6. row # NoRow
    BY LedgerNoRowAssumption
  <2>7. EntryOf(e)' = TransactionEntry(row)
    BY <2>3, <2>6, TransactionEntries
  <2>8. Book!Enterable(EntryOf(e)')
    BY <2>1, <2>7, FitsEnterable
  <2> QED
    BY <2>1, <2>4, <2>5, <2>8, EnterStep
<1>2. CASE TransactionChanged
  <2>1. PICK t \in Transaction, row \in TransactionRow :
          /\ transactions[t] # NoRow /\ transactions[t].source # "recurring"
          /\ row.user = transactions[t].user /\ row.source = transactions[t].source
          /\ Fits(row)
          /\ transactions' = [transactions EXCEPT ![t] = row]
          /\ UNCHANGED <<categories, budgets, rules, nextId, hadType>>
    BY <1>2 DEF TransactionChanged
  <2>2. \A s \in Transaction : transactions'[s] = IF s = t THEN row ELSE transactions[s]
    BY <1>0, <2>1 DEF LedgerTypeOK
  <2> DEFINE e == <<"transaction", t>>
  <2>3. e \in Entry /\ \A other \in Entry \ {e} : EntryOf(other)' = EntryOf(other)
    BY <2>1, <2>2, OneRow DEF Entry
  <2>4. row # NoRow /\ transactions[t] \in TransactionRow
    BY <1>0, <2>1, LedgerNoRowAssumption DEF LedgerTypeOK
  <2>5. EntryOf(e)' = TransactionEntry(row) /\ EntryOf(e) = TransactionEntry(transactions[t])
    BY <2>1, <2>2, <2>4, TransactionEntries
  <2>6. Book!Enterable(EntryOf(e)')
    BY <2>1, <2>5, FitsEnterable
  <2>7. EntryOf(e) # NoRow
    BY <2>4, <2>5, EntriesAreRows
  <2>8. /\ ~EntryOf(e).fixed /\ ~EntryOf(e)'.fixed
        /\ EntryOf(e)'.owner = EntryOf(e).owner
    BY <2>1, <2>5, EntryFields
  <2> QED
    BY <2>1, <2>3, <2>6, <2>7, <2>8, AmendStep
<1>3. CASE TransactionDeleted
  <2>1. PICK t \in Transaction :
          /\ transactions[t] # NoRow
          /\ transactions' = [transactions EXCEPT ![t] = NoRow]
          /\ UNCHANGED <<categories, budgets, rules, nextId, hadType>>
    BY <1>3 DEF TransactionDeleted
  <2>2. \A s \in Transaction : transactions'[s] = IF s = t THEN NoRow ELSE transactions[s]
    BY <1>0, <2>1 DEF LedgerTypeOK
  <2> DEFINE e == <<"transaction", t>>
  <2>3. e \in Entry /\ \A other \in Entry \ {e} : EntryOf(other)' = EntryOf(other)
    BY <2>1, <2>2, OneRow DEF Entry
  <2>4. EntryOf(e)' = NoRow /\ EntryOf(e) = TransactionEntry(transactions[t])
    BY <2>1, <2>2, TransactionEntries
  <2>5. EntryOf(e) # NoRow
    BY <1>0, <2>1, <2>4, EntriesAreRows DEF LedgerTypeOK
  <2> QED
    BY <2>1, <2>3, <2>4, <2>5, EraseStep
<1> QED
  BY <1>1, <1>2, <1>3

LEMMA BudgetEffectsMap ==
  ASSUME TypeInv, TypeInv', OwnInv, BookInv,
         BudgetInserted \/ BudgetChanged \/ BudgetDeleted
  PROVE  Book!BookNext
<1>0. LedgerTypeOK
  BY DEF TypeInv
<1>1. CASE BudgetInserted
  <2>1. PICK row \in BudgetRow :
          /\ BudgetFits(row) /\ InsertBudget(row)
          /\ UNCHANGED <<categories, transactions, rules, hadType>>
    BY <1>1 DEF BudgetInserted
  <2>2. PICK new \in Budget :
          /\ new = nextId.budget
          /\ budgets' = [budgets EXCEPT ![new] = row]
          /\ nextId' = [nextId EXCEPT !.budget = @ + 1]
    BY <2>1 DEF InsertBudget
  <2>3. \A b \in Budget : budgets'[b] = IF b = new THEN row ELSE budgets[b]
    BY <1>0, <2>2 DEF LedgerTypeOK
  <2> DEFINE e == <<"budget", new>>
  <2>4. \A other \in Entry \ {e} : EntryOf(other)' = EntryOf(other)
    BY <2>1, <2>3, OneRow
  <2>5. e \in Entry /\ e \notin EverEntered /\ EverEntered' = EverEntered \cup {e}
    BY <2>2, NextEntry
  <2>6. row # NoRow
    BY LedgerNoRowAssumption
  <2>7. EntryOf(e)' = BudgetEntry(row)
    BY <2>3, <2>6, BudgetEntries
  <2>8. Book!Enterable(EntryOf(e)')
    BY <2>1, <2>7, FitsEnterable
  <2> QED
    BY <2>1, <2>4, <2>5, <2>8, EnterStep
<1>2. CASE BudgetChanged
  <2>1. PICK b \in Budget, row \in BudgetRow :
          /\ budgets[b] # NoRow /\ row.user = budgets[b].user /\ BudgetFits(row)
          /\ budgets' = [budgets EXCEPT ![b] = row]
          /\ UNCHANGED <<categories, transactions, rules, nextId, hadType>>
    BY <1>2 DEF BudgetChanged
  <2>2. \A s \in Budget : budgets'[s] = IF s = b THEN row ELSE budgets[s]
    BY <1>0, <2>1 DEF LedgerTypeOK
  <2> DEFINE e == <<"budget", b>>
  <2>3. e \in Entry /\ \A other \in Entry \ {e} : EntryOf(other)' = EntryOf(other)
    BY <2>1, <2>2, OneRow DEF Entry
  <2>4. row # NoRow /\ budgets[b] \in BudgetRow
    BY <1>0, <2>1, LedgerNoRowAssumption DEF LedgerTypeOK
  <2>5. EntryOf(e)' = BudgetEntry(row) /\ EntryOf(e) = BudgetEntry(budgets[b])
    BY <2>1, <2>2, <2>4, BudgetEntries
  <2>6. Book!Enterable(EntryOf(e)')
    BY <2>1, <2>5, FitsEnterable
  <2>7. EntryOf(e) # NoRow
    BY <2>4, <2>5, EntriesAreRows
  <2>8. /\ ~EntryOf(e).fixed /\ ~EntryOf(e)'.fixed
        /\ EntryOf(e)'.owner = EntryOf(e).owner
    BY <2>1, <2>5, EntryFields
  <2> QED
    BY <2>1, <2>3, <2>6, <2>7, <2>8, AmendStep
<1>3. CASE BudgetDeleted
  <2>1. PICK b \in Budget :
          /\ budgets[b] # NoRow
          /\ budgets' = [budgets EXCEPT ![b] = NoRow]
          /\ UNCHANGED <<categories, transactions, rules, nextId, hadType>>
    BY <1>3 DEF BudgetDeleted
  <2>2. \A s \in Budget : budgets'[s] = IF s = b THEN NoRow ELSE budgets[s]
    BY <1>0, <2>1 DEF LedgerTypeOK
  <2> DEFINE e == <<"budget", b>>
  <2>3. e \in Entry /\ \A other \in Entry \ {e} : EntryOf(other)' = EntryOf(other)
    BY <2>1, <2>2, OneRow DEF Entry
  <2>4. EntryOf(e)' = NoRow /\ EntryOf(e) = BudgetEntry(budgets[b])
    BY <2>1, <2>2, BudgetEntries
  <2>5. EntryOf(e) # NoRow
    BY <1>0, <2>1, <2>4, EntriesAreRows DEF LedgerTypeOK
  <2> QED
    BY <2>1, <2>3, <2>4, <2>5, EraseStep
<1> QED
  BY <1>1, <1>2, <1>3

LEMMA RuleEffectsMap ==
  ASSUME TypeInv, TypeInv', OwnInv, BookInv,
         RuleInserted \/ RuleChanged \/ RuleDeleted
  PROVE  Book!BookNext
<1>0. LedgerTypeOK
  BY DEF TypeInv
<1>1. CASE RuleInserted
  <2>1. PICK row \in RuleRow :
          /\ Fits(row) /\ InsertRule(row)
          /\ UNCHANGED <<categories, transactions, budgets, hadType>>
    BY <1>1 DEF RuleInserted
  <2>2. PICK new \in Rule :
          /\ new = nextId.rule
          /\ rules' = [rules EXCEPT ![new] = row]
          /\ nextId' = [nextId EXCEPT !.rule = @ + 1]
    BY <2>1 DEF InsertRule
  <2>3. \A r \in Rule : rules'[r] = IF r = new THEN row ELSE rules[r]
    BY <1>0, <2>2 DEF LedgerTypeOK
  <2> DEFINE e == <<"rule", new>>
  <2>4. \A other \in Entry \ {e} : EntryOf(other)' = EntryOf(other)
    <3>1. \A t \in Transaction : EntryOf(<<"transaction", t>>)' = EntryOf(<<"transaction", t>>)
      BY <2>1, OtherTables
    <3> QED
      BY <2>1, <2>3, <3>1, OneRule
  <2>5. e \in Entry /\ e \notin EverEntered /\ EverEntered' = EverEntered \cup {e}
    BY <2>2, NextEntry
  <2>6. row # NoRow
    BY LedgerNoRowAssumption
  <2>7. EntryOf(e)' = RuleEntry(row)
    BY <2>3, <2>6, RuleEntries
  <2>8. Book!Enterable(EntryOf(e)')
    BY <2>1, <2>7, FitsEnterable
  <2> QED
    BY <2>1, <2>4, <2>5, <2>8, EnterStep
<1>2. CASE RuleDeleted
  <2>1. PICK r \in Rule :
          /\ rules[r] # NoRow
          /\ rules' = [rules EXCEPT ![r] = NoRow]
          /\ transactions' = [t \in Transaction |->
               IF t \in Live(transactions) /\ transactions[t].rule = r
                 THEN [transactions[t] EXCEPT !.rule = NoRow] ELSE transactions[t]]
          /\ UNCHANGED <<categories, budgets, nextId, hadType>>
    BY <1>2 DEF RuleDeleted
  <2>2. \A s \in Rule : rules'[s] = IF s = r THEN NoRow ELSE rules[s]
    BY <1>0, <2>1 DEF LedgerTypeOK
  <2>3. ASSUME NEW t \in Transaction
        PROVE  EntryOf(<<"transaction", t>>)' = EntryOf(<<"transaction", t>>)
    <3>1. CASE t \in Live(transactions) /\ transactions[t].rule = r
      <4>1. transactions[t] # NoRow /\ transactions[t] \in TransactionRow
        BY <1>0, <3>1 DEF Live, LedgerTypeOK
      <4>2. transactions'[t] = [transactions[t] EXCEPT !.rule = NoRow]
        BY <2>1, <3>1
      <4>3. /\ transactions'[t] \in TransactionRow
            /\ transactions'[t].user = transactions[t].user
            /\ transactions'[t].category = transactions[t].category
            /\ transactions'[t].type = transactions[t].type
            /\ transactions'[t].source = transactions[t].source
        BY <4>1, <4>2 DEF TransactionRow
      <4>4. transactions'[t] # NoRow
        BY <4>3, LedgerNoRowAssumption
      <4>5. TransactionEntry(transactions'[t]) = TransactionEntry(transactions[t])
        BY <4>3 DEF TransactionEntry
      <4> QED
        BY <4>1, <4>4, <4>5, TransactionEntries
    <3>2. CASE ~(t \in Live(transactions) /\ transactions[t].rule = r)
      <4>1. transactions'[t] = transactions[t]
        BY <2>1, <3>2
      <4> QED
        BY <4>1, TransactionEntries
    <3> QED
      BY <3>1, <3>2
  <2> DEFINE e == <<"rule", r>>
  <2>4. e \in Entry /\ \A other \in Entry \ {e} : EntryOf(other)' = EntryOf(other)
    BY <2>1, <2>2, <2>3, OneRule DEF Entry
  <2>5. EntryOf(e)' = NoRow /\ EntryOf(e) = RuleEntry(rules[r])
    BY <2>1, <2>2, RuleEntries
  <2>6. EntryOf(e) # NoRow
    BY <1>0, <2>1, <2>5, EntriesAreRows DEF LedgerTypeOK
  <2> QED
    BY <2>1, <2>4, <2>5, <2>6, EraseStep
<1>3. CASE RuleChanged
  <2>1. PICK r \in Rule, row \in RuleRow :
          /\ rules[r] # NoRow /\ row.user = rules[r].user /\ Fits(row)
          /\ rules' = [rules EXCEPT ![r] = row]
          /\ UNCHANGED <<categories, transactions, budgets, nextId, hadType>>
    BY <1>3 DEF RuleChanged
  <2>2. \A s \in Rule : rules'[s] = IF s = r THEN row ELSE rules[s]
    BY <1>0, <2>1 DEF LedgerTypeOK
  <2> DEFINE e == <<"rule", r>>
  <2>3. e \in Entry /\ \A other \in Entry \ {e} : EntryOf(other)' = EntryOf(other)
    <3>1. \A t \in Transaction : EntryOf(<<"transaction", t>>)' = EntryOf(<<"transaction", t>>)
      BY <2>1, OtherTables
    <3> QED
      BY <2>1, <2>2, <3>1, OneRule DEF Entry
  <2>4. row # NoRow /\ rules[r] \in RuleRow
    BY <1>0, <2>1, LedgerNoRowAssumption DEF LedgerTypeOK
  <2>5. EntryOf(e)' = RuleEntry(row) /\ EntryOf(e) = RuleEntry(rules[r])
    BY <2>1, <2>2, <2>4, RuleEntries
  <2>6. Book!Enterable(EntryOf(e)')
    BY <2>1, <2>5, FitsEnterable
  <2>7. EntryOf(e) # NoRow
    BY <2>4, <2>5, EntriesAreRows
  <2>8. /\ ~EntryOf(e).fixed /\ ~EntryOf(e)'.fixed
        /\ EntryOf(e)'.owner = EntryOf(e).owner
    BY <2>1, <2>5, EntryFields
  <2> QED
    BY <2>1, <2>3, <2>6, <2>7, <2>8, AmendStep
<1> QED
  BY <1>1, <1>2, <1>3

LEMMA NoEffectStutters ==
  ASSUME NoEffect
  PROVE  Owners' = Owners /\ Entries' = Entries /\ EverEntered' = EverEntered
<1>1. Owners' = Owners /\ EverEntered' = EverEntered
  BY DEF NoEffect, tables, Owners, EverEntered
<1>2. \A e \in Entry : EntryOf(e)' = EntryOf(e)
  BY EntryCases, OtherTables DEF NoEffect, tables
<1> QED
  BY <1>1, <1>2, EntriesAre

LEMMA StepImplementsBook ==
  ASSUME TypeInv, TypeInv', OwnInv, BookInv, [Next]_vars
  PROVE  [Book!BookNext]_(Book!bookVars)
<1>1. ASSUME NoEffect
      PROVE  UNCHANGED Book!bookVars
  BY <1>1, NoEffectStutters DEF NoEffect, Book!bookVars, Owners, Entries, EverEntered
<1>2. CASE Next
  <2>1. Effect
    BY <1>2, StepEffect DEF Next
  <2> QED
    BY <1>1, <2>1, CategoryEffectsMap, TransactionEffectsMap, BudgetEffectsMap, RuleEffectsMap
    DEF Effect
<1>3. CASE UNCHANGED vars
  BY <1>1, <1>3 DEF vars, ledgerVars, ledgerHistory, NoEffect
<1> QED
  BY <1>2, <1>3

LEMMA InitImplementsBook == Init => Book!BookInit
<1> SUFFICES ASSUME Init PROVE Book!BookInit
  OBVIOUS
<1>1. Owners = [c \in Category |-> NoRow] /\ hadType = [c \in Category |-> {}]
  BY DEF Init, LedgerInit, Owners
<1>2. ASSUME NEW e \in Entry
      PROVE  EntryOf(e) = NoRow /\ ~(e[2] < nextId[e[1]])
  <2>1. CASE \E t \in Transaction : e = <<"transaction", t>>
    BY <2>1, TransactionEntries, LedgerAssumption DEF Init, LedgerInit, Transaction
  <2>2. CASE \E b \in Budget : e = <<"budget", b>>
    BY <2>2, BudgetEntries, LedgerAssumption DEF Init, LedgerInit, Budget
  <2>3. CASE \E r \in Rule : e = <<"rule", r>>
    BY <2>3, RuleEntries, LedgerAssumption DEF Init, LedgerInit, Rule
  <2> QED
    BY <2>1, <2>2, <2>3, EntryCases
<1>3. Entries = [e \in Entry |-> NoRow] /\ EverEntered = {}
  BY <1>2 DEF Entries, EverEntered
<1> QED
  BY <1>1, <1>3 DEF Book!BookInit, Owners, Entries, EverEntered

\* The ledger implements LedgerBook: with any number of concurrent requests, each
\* a chain of statements, every transaction, budget and rule is entered in one step
\* under an open category of its owner and a type the category has had, a generated
\* transaction is never amended, and no entry comes back.
THEOREM SpecImplementsBook == Spec => ImplementsBook
<1>1. Spec => Book!BookInit
  BY InitImplementsBook DEF Spec
<1>2. Spec => [][Book!BookNext]_(Book!bookVars)
  BY StepImplementsBook, TypeInvariant, OwnInvariant, BookInvariant, PTL DEF Spec
<1> QED
  BY <1>1, <1>2, PTL DEF ImplementsBook, Book!BookSpec
=============================================================================
