---------------------------- MODULE LedgerProofs ----------------------------
(***************************************************************************)
(* The ledger's types, that every row refers to a category of its user,    *)
(* how far apart the manual rows of a waiting client lie, and what the     *)
(* reads of two statements add up to: for any number of users, requests,   *)
(* rows and calls.                                                         *)
(***************************************************************************)
EXTENDS LedgerSystem, DataLemmas, TLAPS

-----------------------------------------------------------------------------
(* Types                                                                   *)

Statement ==
  { "idle", "category_write", "tx_limit", "tx_insert", "tx_validate", "tx_write",
    "tx_reread", "budget_insert", "budget_validate", "budget_write",
    "budget_reread", "rule_insert", "rule_validate", "rule_write", "rule_reread",
    "spending", "page", "panic" }

\* What a request that is at a statement carries: a user, and the target and the
\* input the statement will write.
Carries(step, user, id, data) ==
  /\ step \in Statement
  /\ step # "idle" => user \in User
  /\ step = "category_write" =>
       id \in Category /\ data \in [name : Name, type : Type]
  /\ step \in {"tx_limit", "tx_insert", "tx_validate", "tx_write"} => data \in TransactionInput
  /\ step \in {"tx_validate", "tx_write"} => id \in Transaction
  /\ step \in {"budget_insert", "budget_validate", "budget_write"} => data \in BudgetInput
  /\ step \in {"budget_validate", "budget_write"} => id \in Budget
  /\ step \in {"rule_insert", "rule_validate", "rule_write"} => data \in RuleInput
  /\ step \in {"rule_validate", "rule_write"} => id \in Rule

RequestsTyped ==
  /\ DOMAIN at = Request /\ DOMAIN who = Request
  /\ DOMAIN target = Request /\ DOMAIN input = Request
  /\ at = [q \in Request |-> at[q]] /\ who = [q \in Request |-> who[q]]
  /\ target = [q \in Request |-> target[q]] /\ input = [q \in Request |-> input[q]]
  /\ \A q \in Request : Carries(at[q], who[q], target[q], input[q])

TypeInv == LedgerTypeOK /\ RequestsTyped

\* A request that moves on carries what its next statement needs.
LEMMA BecomeTyped ==
  ASSUME RequestsTyped, NEW q \in Request, NEW step, NEW user, NEW id, NEW data, NEW number,
         Become(q, step, user, id, data, number), Carries(step, user, id, data)
  PROVE  RequestsTyped'
<1>1. \A r \in Request : /\ at'[r] = IF r = q THEN step ELSE at[r]
                         /\ who'[r] = IF r = q THEN user ELSE who[r]
                         /\ target'[r] = IF r = q THEN id ELSE target[r]
                         /\ input'[r] = IF r = q THEN data ELSE input[r]
  BY DEF RequestsTyped, Become
<1>2. \A r \in Request : Carries(at'[r], who'[r], target'[r], input'[r])
  BY <1>1, Zenon DEF RequestsTyped
<1>3. /\ at' = [r \in Request |-> at'[r]] /\ who' = [r \in Request |-> who'[r]]
      /\ target' = [r \in Request |-> target'[r]] /\ input' = [r \in Request |-> input'[r]]
      /\ DOMAIN at' = Request /\ DOMAIN who' = Request
      /\ DOMAIN target' = Request /\ DOMAIN input' = Request
  BY DEF RequestsTyped, Become
<1> QED
  BY <1>2, <1>3 DEF RequestsTyped, Carries

LEMMA FinishTyped ==
  ASSUME RequestsTyped, NEW q \in Request, Finish(q)
  PROVE  RequestsTyped'
<1>1. Carries("idle", NoRow, 0, NoRow)
  BY DEF Carries, Statement
<1> QED
  BY <1>1, BecomeTyped DEF Finish

\* The statements of a chain carry the same input.
LEMMA ProceedTyped ==
  ASSUME RequestsTyped, NEW q \in Request, NEW step, Proceed(q, step),
         Carries(step, who[q], target[q], input[q])
  PROVE  RequestsTyped'
<1>1. \A r \in Request : at'[r] = IF r = q THEN step ELSE at[r]
  BY DEF RequestsTyped, Proceed
<1>2. UNCHANGED <<who, target, input>>
  BY DEF Proceed
<1>3. \A r \in Request : Carries(at'[r], who[r], target[r], input[r])
  BY <1>1, Zenon DEF RequestsTyped
<1>4. at' = [r \in Request |-> at'[r]] /\ DOMAIN at' = Request
  BY DEF RequestsTyped, Proceed
<1> QED
  BY <1>2, <1>3, <1>4 DEF RequestsTyped, Carries

LEMMA AtOnceTyped ==
  ASSUME RequestsTyped, NEW q \in Request, AtOnce(q)
  PROVE  RequestsTyped'
BY DEF RequestsTyped, AtOnce, Carries

LEMMA ReadBackTyped ==
  ASSUME RequestsTyped, NEW q \in Request, at[q] # "idle", NEW id,
         NEW step \in {"tx_reread", "budget_reread", "rule_reread", "panic"}, ReadBack(q, step, id)
  PROVE  RequestsTyped'
<1>1. who[q] \in User
  BY DEF RequestsTyped, Carries
<1>2. Carries(step, who[q], id, NoRow)
  BY <1>1 DEF Carries, Statement
<1> QED
  BY <1>2, BecomeTyped DEF ReadBack

\* Inserts take the next id and leave rows of the table's type.
LEMMA InsertsTyped ==
  ASSUME LedgerTypeOK
  PROVE  /\ \A row \in CategoryRow : InsertCategory(row) =>
              /\ categories' \in [Category -> CategoryRow \cup {NoRow}]
              /\ nextId'.category \in 1..(MaxCategory + 1)
              /\ nextId' = [nextId EXCEPT !.category = nextId'.category]
         /\ \A row \in TransactionRow : InsertTransaction(row) =>
              /\ transactions' \in [Transaction -> TransactionRow \cup {NoRow}]
              /\ nextId'.transaction \in 1..(MaxTransaction + 1)
              /\ nextId' = [nextId EXCEPT !.transaction = nextId'.transaction]
         /\ \A row \in BudgetRow : InsertBudget(row) =>
              /\ budgets' \in [Budget -> BudgetRow \cup {NoRow}]
              /\ nextId'.budget \in 1..(MaxBudget + 1)
              /\ nextId' = [nextId EXCEPT !.budget = nextId'.budget]
         /\ \A row \in RuleRow : InsertRule(row) =>
              /\ rules' \in [Rule -> RuleRow \cup {NoRow}]
              /\ nextId'.rule \in 1..(MaxRule + 1)
              /\ nextId' = [nextId EXCEPT !.rule = nextId'.rule]
<1>0. /\ MaxCategory \in Nat /\ MaxTransaction \in Nat
      /\ MaxBudget \in Nat /\ MaxRule \in Nat
  BY LedgerAssumption
<1>1. \A row \in CategoryRow : InsertCategory(row) =>
              /\ categories' \in [Category -> CategoryRow \cup {NoRow}]
              /\ nextId'.category \in 1..(MaxCategory + 1)
              /\ nextId' = [nextId EXCEPT !.category = nextId'.category]
  BY <1>0 DEF LedgerTypeOK, InsertCategory, Category
<1>2. \A row \in TransactionRow : InsertTransaction(row) =>
              /\ transactions' \in [Transaction -> TransactionRow \cup {NoRow}]
              /\ nextId'.transaction \in 1..(MaxTransaction + 1)
              /\ nextId' = [nextId EXCEPT !.transaction = nextId'.transaction]
  BY <1>0 DEF LedgerTypeOK, InsertTransaction, Transaction
<1>3. \A row \in BudgetRow : InsertBudget(row) =>
              /\ budgets' \in [Budget -> BudgetRow \cup {NoRow}]
              /\ nextId'.budget \in 1..(MaxBudget + 1)
              /\ nextId' = [nextId EXCEPT !.budget = nextId'.budget]
  BY <1>0 DEF LedgerTypeOK, InsertBudget, Budget
<1>4. \A row \in RuleRow : InsertRule(row) =>
              /\ rules' \in [Rule -> RuleRow \cup {NoRow}]
              /\ nextId'.rule \in 1..(MaxRule + 1)
              /\ nextId' = [nextId EXCEPT !.rule = nextId'.rule]
  BY <1>0 DEF LedgerTypeOK, InsertRule, Rule
<1> QED
  BY <1>1, <1>2, <1>3, <1>4

LEMMA CategoryStepTyped ==
  ASSUME TypeInv, NEW q \in Request, CategoryStep(q)
  PROVE  TypeInv'
<1>0. LedgerTypeOK /\ RequestsTyped
  BY DEF TypeInv
<1>1. ASSUME NEW u \in User, NEW name \in Name, NEW type \in Type,
             CreateCategory(q, u, name, type)
      PROVE  TypeInv'
  <2>1. [user |-> u, name |-> name, type |-> type] \in CategoryRow
    BY DEF CategoryRow
  <2>2. hadType' \in [Category -> SUBSET Type]
    BY <1>0, <1>1 DEF LedgerTypeOK, CreateCategory, HadTypeAfter
  <2>3. LedgerTypeOK'
    BY <1>0, <1>1, <2>1, <2>2, InsertsTyped DEF LedgerTypeOK, CreateCategory
  <2> QED
    BY <1>0, <1>1, <2>3, AtOnceTyped DEF TypeInv, CreateCategory
<1>2. ASSUME NEW u \in User, NEW name \in Name, NEW type \in Type, NEW c \in Category,
             UpdateCategory(q, u, c, name, type)
      PROVE  TypeInv'
  <2>1. Carries("category_write", u, c, [name |-> name, type |-> type])
    BY DEF Carries, Statement
  <2>2. RequestsTyped'
    BY <1>0, <1>2, <2>1, BecomeTyped DEF UpdateCategory, Begin
  <2> QED
    BY <1>0, <1>2, <2>2 DEF TypeInv, LedgerTypeOK, UpdateCategory, ledgerVars, tables, ledgerHistory
<1>3. ASSUME WriteCategory(q)
      PROVE  TypeInv'
  <2>1. at[q] = "category_write"
    BY <1>3 DEF WriteCategory
  <2>2. target[q] \in Category /\ input[q] \in [name : Name, type : Type]
    BY <1>0, <2>1 DEF RequestsTyped, Carries
  <2>3. CASE OwnCategory(who[q], target[q])
    <3>1. categories[target[q]] \in CategoryRow
      BY <1>0, <2>2, <2>3 DEF OwnCategory, Live, LedgerTypeOK
    <3>2. categories' \in [Category -> CategoryRow \cup {NoRow}]
      BY <1>0, <1>3, <2>2, <2>3, <3>1 DEF WriteCategory, LedgerTypeOK, CategoryRow
    <3>3. hadType' \in [Category -> SUBSET Type]
      BY <1>0, <1>3, <2>2, <2>3 DEF WriteCategory, LedgerTypeOK, HadTypeAfter
    <3> QED
      BY <1>0, <1>3, <3>2, <3>3, FinishTyped DEF TypeInv, LedgerTypeOK, WriteCategory
  <2>4. CASE ~OwnCategory(who[q], target[q])
    BY <1>0, <1>3, <2>4, FinishTyped DEF TypeInv, LedgerTypeOK, WriteCategory
  <2> QED
    BY <2>3, <2>4
<1>4. ASSUME NEW u \in User, NEW c \in Category, DeleteCategory(q, u, c)
      PROVE  TypeInv'
  <2>1. LedgerTypeOK'
    BY <1>0, <1>4 DEF LedgerTypeOK, DeleteCategory, ledgerHistory
  <2> QED
    BY <1>0, <1>4, <2>1, AtOnceTyped DEF TypeInv, DeleteCategory
<1> QED
  BY <1>1, <1>2, <1>3, <1>4 DEF CategoryStep

\* A step that writes no table leaves the tables typed.
LEMMA TablesStay ==
  ASSUME TypeInv, UNCHANGED ledgerVars, RequestsTyped'
  PROVE  TypeInv'
BY DEF TypeInv, LedgerTypeOK, ledgerVars, tables, ledgerHistory

LEMMA TransactionStepTyped ==
  ASSUME TypeInv, NEW q \in Request, TransactionStep(q)
  PROVE  TypeInv'
<1>0. LedgerTypeOK /\ RequestsTyped
  BY DEF TypeInv
<1>1. ASSUME NEW u \in User, NEW in \in TransactionInput, CreateTransaction(q, u, in)
      PROVE  TypeInv'
  <2>1. Carries("tx_limit", u, 0, in)
    BY DEF Carries, Statement
  <2>2. RequestsTyped'
    BY <1>0, <1>1, <2>1, BecomeTyped DEF CreateTransaction, Begin
  <2> QED
    BY <1>1, <2>2, TablesStay DEF CreateTransaction
<1>2. ASSUME CheckRecent(q)
      PROVE  TypeInv'
  <2>1. at[q] = "tx_limit"
    BY <1>2 DEF CheckRecent
  <2>2. who[q] \in User /\ input[q] \in TransactionInput
    BY <1>0, <2>1 DEF RequestsTyped, Carries
  <2>3. Carries("tx_insert", who[q], target[q], input[q])
    BY <2>2 DEF Carries, Statement
  <2>4. Finish(q) \/ Proceed(q, "tx_insert")
    BY <1>2 DEF CheckRecent
  <2>5. RequestsTyped'
    BY <1>0, <2>3, <2>4, FinishTyped, ProceedTyped
  <2> QED
    BY <1>2, <2>5, TablesStay DEF CheckRecent
<1>3. ASSUME InsertManual(q)
      PROVE  TypeInv'
  <2>1. at[q] = "tx_insert"
    BY <1>3 DEF InsertManual
  <2>2. who[q] \in User /\ input[q] \in TransactionInput
    BY <1>0, <2>1 DEF RequestsTyped, Carries
  <2>3. CASE CategoryExists(input[q].category)
    <3> DEFINE row == [user |-> who[q], category |-> input[q].category, type |-> input[q].type,
                       amount |-> input[q].amount, month |-> input[q].month,
                       source |-> "manual", rule |-> NoRow, created |-> now]
    <3>1. row \in TransactionRow
      BY <1>0, <2>2 DEF TransactionInput, TransactionRow, LedgerTypeOK
    <3>2. InsertTransaction(row) /\ ReadBack(q, "tx_reread", nextId.transaction)
      BY <1>3, <2>3 DEF InsertManual
    <3>3. /\ transactions' \in [Transaction -> TransactionRow \cup {NoRow}]
          /\ nextId'.transaction \in 1..(MaxTransaction + 1)
          /\ nextId' = [nextId EXCEPT !.transaction = nextId'.transaction]
      BY <1>0, <3>1, <3>2, InsertsTyped
    <3>4. LedgerTypeOK'
      BY <1>0, <1>3, <3>3 DEF LedgerTypeOK, InsertManual
    <3>5. RequestsTyped'
      BY <1>0, <2>1, <3>2, ReadBackTyped
    <3> QED
      BY <3>4, <3>5 DEF TypeInv
  <2>4. CASE ~CategoryExists(input[q].category)
    <3>1. LedgerTypeOK' /\ Finish(q)
      BY <1>0, <1>3, <2>4 DEF LedgerTypeOK, InsertManual
    <3> QED
      BY <1>0, <3>1, FinishTyped DEF TypeInv
  <2> QED
    BY <2>3, <2>4
<1>4. ASSUME NEW u \in User, NEW t \in Transaction, NEW in \in TransactionInput,
             UpdateTransaction(q, u, t, in)
      PROVE  TypeInv'
  <2>1. Carries("tx_validate", u, t, in)
    BY DEF Carries, Statement
  <2>2. RequestsTyped'
    BY <1>0, <1>4, <2>1, BecomeTyped DEF UpdateTransaction, Begin
  <2> QED
    BY <1>4, <2>2, TablesStay DEF UpdateTransaction
<1>5. ASSUME ValidateTransaction(q)
      PROVE  TypeInv'
  <2>1. at[q] = "tx_validate"
    BY <1>5 DEF ValidateTransaction
  <2>2. who[q] \in User /\ input[q] \in TransactionInput /\ target[q] \in Transaction
    BY <1>0, <2>1 DEF RequestsTyped, Carries
  <2>3. Carries("tx_write", who[q], target[q], input[q])
    BY <2>2 DEF Carries, Statement
  <2>4. Finish(q) \/ Proceed(q, "tx_write")
    BY <1>5 DEF ValidateTransaction
  <2>5. RequestsTyped'
    BY <1>0, <2>3, <2>4, FinishTyped, ProceedTyped
  <2> QED
    BY <1>5, <2>5, TablesStay DEF ValidateTransaction
<1>6. ASSUME WriteTransaction(q)
      PROVE  TypeInv'
  <2> DEFINE t == target[q]
             in == input[q]
             row == [transactions[t] EXCEPT !.category = in.category, !.type = in.type,
                                            !.amount = in.amount, !.month = in.month]
  <2>1. at[q] = "tx_write"
    BY <1>6 DEF WriteTransaction
  <2>2. who[q] \in User /\ in \in TransactionInput /\ t \in Transaction
    BY <1>0, <2>1 DEF RequestsTyped, Carries
  <2>3. CASE /\ t \in Live(transactions) /\ transactions[t].user = who[q]
             /\ CategoryExists(in.category)
    <3>1. transactions[t] \in TransactionRow
      BY <1>0, <2>2, <2>3 DEF Live, LedgerTypeOK
    <3>2. row \in TransactionRow
      BY <2>2, <3>1 DEF TransactionInput, TransactionRow
    <3>3. /\ transactions' = [transactions EXCEPT
               ![t].category = in.category, ![t].type = in.type,
               ![t].amount = in.amount, ![t].month = in.month]
          /\ ReadBack(q, "tx_reread", t)
      BY <1>6, <2>3 DEF WriteTransaction
    <3>4. transactions' = [transactions EXCEPT ![t] = row]
      BY <1>0, <2>2, <3>1, <3>3 DEF LedgerTypeOK, TransactionRow
    <3>5. transactions' \in [Transaction -> TransactionRow \cup {NoRow}]
      BY <1>0, <2>2, <3>2, <3>4 DEF LedgerTypeOK
    <3>6. LedgerTypeOK'
      BY <1>0, <1>6, <3>5 DEF LedgerTypeOK, WriteTransaction, ledgerHistory
    <3> QED
      BY <1>0, <2>1, <3>3, <3>6, ReadBackTyped DEF TypeInv
  <2>4. CASE ~( /\ t \in Live(transactions) /\ transactions[t].user = who[q]
                /\ CategoryExists(in.category) )
    <3>1. LedgerTypeOK' /\ Finish(q)
      BY <1>0, <1>6, <2>4 DEF LedgerTypeOK, WriteTransaction, ledgerHistory
    <3> QED
      BY <1>0, <3>1, FinishTyped DEF TypeInv
  <2> QED
    BY <2>3, <2>4
<1>7. ASSUME RereadTransaction(q)
      PROVE  TypeInv'
  <2>1. at[q] # "idle" /\ (Finish(q) \/ ReadBack(q, "panic", 0))
    BY <1>7 DEF RereadTransaction
  <2>2. RequestsTyped'
    BY <1>0, <2>1, FinishTyped, ReadBackTyped
  <2> QED
    BY <1>7, <2>2, TablesStay DEF RereadTransaction
<1>8. ASSUME NEW u \in User, NEW t \in Transaction, DeleteTransaction(q, u, t)
      PROVE  TypeInv'
  <2>1. LedgerTypeOK'
    BY <1>0, <1>8 DEF LedgerTypeOK, DeleteTransaction, ledgerHistory
  <2> QED
    BY <1>0, <1>8, <2>1, AtOnceTyped DEF TypeInv, DeleteTransaction
<1> QED
  BY <1>1, <1>2, <1>3, <1>4, <1>5, <1>6, <1>7, <1>8 DEF TransactionStep

LEMMA BudgetStepTyped ==
  ASSUME TypeInv, NEW q \in Request, BudgetStep(q)
  PROVE  TypeInv'
<1>0. LedgerTypeOK /\ RequestsTyped
  BY DEF TypeInv
<1>1. ASSUME NEW u \in User, NEW in \in BudgetInput, CreateBudget(q, u, in)
      PROVE  TypeInv'
  <2>1. Carries("budget_insert", u, 0, in)
    BY DEF Carries, Statement
  <2>2. RequestsTyped'
    BY <1>0, <1>1, <2>1, BecomeTyped DEF CreateBudget, Begin
  <2> QED
    BY <1>1, <2>2, TablesStay DEF CreateBudget
<1>2. ASSUME InsertBudgetRow(q)
      PROVE  TypeInv'
  <2> DEFINE row == BudgetRowOf(who[q], input[q])
  <2>1. at[q] = "budget_insert"
    BY <1>2 DEF InsertBudgetRow
  <2>2. row \in BudgetRow
    BY <1>0, <2>1 DEF RequestsTyped, Carries, BudgetInput, BudgetRow, BudgetRowOf
  <2>3. CASE CategoryExists(row.category) /\ BudgetFree(0, row)
    <3>1. InsertBudget(row) /\ ReadBack(q, "budget_reread", nextId.budget)
      BY <1>2, <2>3 DEF InsertBudgetRow
    <3>2. LedgerTypeOK'
      BY <1>0, <1>2, <2>2, <3>1, InsertsTyped
      DEF LedgerTypeOK, InsertBudgetRow, ledgerHistory
    <3> QED
      BY <1>0, <2>1, <3>1, <3>2, ReadBackTyped DEF TypeInv
  <2>4. CASE ~(CategoryExists(row.category) /\ BudgetFree(0, row))
    <3>1. LedgerTypeOK' /\ Finish(q)
      BY <1>0, <1>2, <2>4 DEF LedgerTypeOK, InsertBudgetRow, ledgerHistory
    <3> QED
      BY <1>0, <3>1, FinishTyped DEF TypeInv
  <2> QED
    BY <2>3, <2>4
<1>3. ASSUME NEW u \in User, NEW b \in Budget, NEW in \in BudgetInput, UpdateBudget(q, u, b, in)
      PROVE  TypeInv'
  <2>1. Carries("budget_validate", u, b, in)
    BY DEF Carries, Statement
  <2>2. RequestsTyped'
    BY <1>0, <1>3, <2>1, BecomeTyped DEF UpdateBudget, Begin
  <2> QED
    BY <1>3, <2>2, TablesStay DEF UpdateBudget
<1>4. ASSUME ValidateBudget(q)
      PROVE  TypeInv'
  <2>1. at[q] = "budget_validate"
    BY <1>4 DEF ValidateBudget
  <2>2. who[q] \in User /\ input[q] \in BudgetInput /\ target[q] \in Budget
    BY <1>0, <2>1 DEF RequestsTyped, Carries
  <2>3. Carries("budget_write", who[q], target[q], input[q])
    BY <2>2 DEF Carries, Statement
  <2>4. Finish(q) \/ Proceed(q, "budget_write")
    BY <1>4 DEF ValidateBudget
  <2>5. RequestsTyped'
    BY <1>0, <2>3, <2>4, FinishTyped, ProceedTyped
  <2> QED
    BY <1>4, <2>5, TablesStay DEF ValidateBudget
<1>5. ASSUME WriteBudget(q)
      PROVE  TypeInv'
  <2> DEFINE b == target[q]
             row == BudgetRowOf(who[q], input[q])
  <2>1. at[q] = "budget_write"
    BY <1>5 DEF WriteBudget
  <2>2. row \in BudgetRow /\ b \in Budget
    BY <1>0, <2>1 DEF RequestsTyped, Carries, BudgetInput, BudgetRow, BudgetRowOf
  <2>3. CASE budgets' = [budgets EXCEPT ![b] = row] /\ ReadBack(q, "budget_reread", b)
    <3>1. LedgerTypeOK'
      BY <1>0, <1>5, <2>2, <2>3 DEF LedgerTypeOK, WriteBudget, ledgerHistory
    <3> QED
      BY <1>0, <2>1, <2>3, <3>1, ReadBackTyped DEF TypeInv
  <2>4. CASE Finish(q) /\ UNCHANGED budgets
    <3>1. LedgerTypeOK'
      BY <1>0, <1>5, <2>4 DEF LedgerTypeOK, WriteBudget, ledgerHistory
    <3> QED
      BY <1>0, <2>4, <3>1, FinishTyped DEF TypeInv
  <2> QED
    BY <1>5, <2>3, <2>4 DEF WriteBudget
<1>6. ASSUME RereadBudget(q)
      PROVE  TypeInv'
  <2>1. at[q] # "idle" /\ (Finish(q) \/ ReadBack(q, "panic", 0))
    BY <1>6 DEF RereadBudget
  <2>2. RequestsTyped'
    BY <1>0, <2>1, FinishTyped, ReadBackTyped
  <2> QED
    BY <1>6, <2>2, TablesStay DEF RereadBudget
<1>7. ASSUME NEW u \in User, NEW b \in Budget, DeleteBudget(q, u, b)
      PROVE  TypeInv'
  <2>1. LedgerTypeOK'
    BY <1>0, <1>7 DEF LedgerTypeOK, DeleteBudget, ledgerHistory
  <2> QED
    BY <1>0, <1>7, <2>1, AtOnceTyped DEF TypeInv, DeleteBudget
<1> QED
  BY <1>1, <1>2, <1>3, <1>4, <1>5, <1>6, <1>7 DEF BudgetStep

LEMMA ReportStepTyped ==
  ASSUME TypeInv, NEW q \in Request, ReportStep(q)
  PROVE  TypeInv'
<1>0. LedgerTypeOK /\ RequestsTyped
  BY DEF TypeInv
<1>1. ASSUME NEW u \in User, NEW m \in Month, MonthlyTotals(q, u, m)
      PROVE  TypeInv'
  <2>1. Carries("spending", u, 0, [month |-> m])
    BY DEF Carries, Statement
  <2>2. RequestsTyped'
    BY <1>0, <1>1, <2>1, BecomeTyped DEF MonthlyTotals, Begin
  <2> QED
    BY <1>1, <2>2, TablesStay DEF MonthlyTotals
<1>2. ASSUME NEW u \in User, NEW filter \in TransactionFilter, CountTransactions(q, u, filter)
      PROVE  TypeInv'
  <2>1. Carries("page", u, 0, filter)
    BY DEF Carries, Statement
  <2>2. RequestsTyped'
    BY <1>0, <1>2, <2>1, BecomeTyped DEF CountTransactions, Begin
  <2> QED
    BY <1>2, <2>2, TablesStay DEF CountTransactions
<1>3. ASSUME AnswerRead(q)
      PROVE  TypeInv'
  BY <1>0, <1>3, FinishTyped, TablesStay DEF AnswerRead
<1> QED
  BY <1>1, <1>2, <1>3 DEF ReportStep

LEMMA RuleStepTyped ==
  ASSUME TypeInv, NEW q \in Request, RuleStep(q)
  PROVE  TypeInv'
<1>0. LedgerTypeOK /\ RequestsTyped
  BY DEF TypeInv
<1>1. ASSUME NEW u \in User, NEW in \in RuleInput, CreateRule(q, u, in)
      PROVE  TypeInv'
  <2>1. Carries("rule_insert", u, 0, in)
    BY DEF Carries, Statement
  <2>2. RequestsTyped'
    BY <1>0, <1>1, <2>1, BecomeTyped DEF CreateRule, Begin
  <2> QED
    BY <1>1, <2>2, TablesStay DEF CreateRule
<1>2. ASSUME InsertRuleRow(q)
      PROVE  TypeInv'
  <2> DEFINE row == [user |-> who[q], category |-> input[q].category, type |-> input[q].type]
  <2>1. row \in RuleRow
    BY <1>0, <1>2 DEF InsertRuleRow, RequestsTyped, Carries, RuleInput, RuleRow
  <2>2. InsertRule(row) \/ UNCHANGED <<rules, nextId>>
    BY <1>2 DEF InsertRuleRow
  <2>3. LedgerTypeOK'
    BY <1>0, <1>2, <2>1, <2>2, InsertsTyped DEF LedgerTypeOK, InsertRuleRow, ledgerHistory
  <2> QED
    BY <1>0, <1>2, <2>3, FinishTyped DEF TypeInv, InsertRuleRow
<1>3. ASSUME NEW u \in User, NEW r \in Rule, DeleteRule(q, u, r)
      PROVE  TypeInv'
  <2>1. \A t \in Live(transactions) :
          [transactions[t] EXCEPT !.rule = NoRow] \in TransactionRow
    BY <1>0 DEF Live, LedgerTypeOK, TransactionRow
  <2>2. transactions' \in [Transaction -> TransactionRow \cup {NoRow}]
    BY <1>0, <1>3, <2>1 DEF LedgerTypeOK, DeleteRule
  <2>3. rules' \in [Rule -> RuleRow \cup {NoRow}]
    BY <1>0, <1>3 DEF LedgerTypeOK, DeleteRule
  <2>4. LedgerTypeOK'
    BY <1>0, <1>3, <2>2, <2>3 DEF LedgerTypeOK, DeleteRule, ledgerHistory
  <2> QED
    BY <1>0, <1>3, <2>4, AtOnceTyped DEF TypeInv, DeleteRule
<1>4. ASSUME NEW u \in User, NEW r \in Rule, NEW in \in RuleInput, UpdateRule(q, u, r, in)
      PROVE  TypeInv'
  <2>1. Carries("rule_validate", u, r, in)
    BY DEF Carries, Statement
  <2>2. RequestsTyped'
    BY <1>0, <1>4, <2>1, BecomeTyped DEF UpdateRule, Begin
  <2> QED
    BY <1>4, <2>2, TablesStay DEF UpdateRule
<1>5. ASSUME ValidateRule(q)
      PROVE  TypeInv'
  <2>1. at[q] = "rule_validate"
    BY <1>5 DEF ValidateRule
  <2>2. who[q] \in User /\ input[q] \in RuleInput /\ target[q] \in Rule
    BY <1>0, <2>1 DEF RequestsTyped, Carries
  <2>3. Carries("rule_write", who[q], target[q], input[q])
    BY <2>2 DEF Carries, Statement
  <2>4. Finish(q) \/ Proceed(q, "rule_write")
    BY <1>5 DEF ValidateRule
  <2>5. RequestsTyped'
    BY <1>0, <2>3, <2>4, FinishTyped, ProceedTyped
  <2> QED
    BY <1>5, <2>5, TablesStay DEF ValidateRule
<1>6. ASSUME WriteRule(q)
      PROVE  TypeInv'
  <2> DEFINE r == target[q]
             in == input[q]
             row == [rules[r] EXCEPT !.category = in.category, !.type = in.type]
  <2>1. at[q] = "rule_write"
    BY <1>6 DEF WriteRule
  <2>2. r \in Rule /\ in \in RuleInput
    BY <1>0, <2>1 DEF RequestsTyped, Carries
  <2>3. CASE r \in Live(rules) /\ rules[r].user = who[q] /\ CategoryExists(in.category)
    <3>1. /\ rules' = [rules EXCEPT ![r] = row] /\ ReadBack(q, "rule_reread", r)
      BY <1>0, <1>6, <2>3 DEF WriteRule, LedgerTypeOK, RuleRow, Live
    <3>2. row \in RuleRow
      BY <1>0, <2>2, <2>3 DEF LedgerTypeOK, RuleRow, RuleInput, Live
    <3>3. LedgerTypeOK'
      BY <1>0, <1>6, <2>2, <3>1, <3>2 DEF LedgerTypeOK, WriteRule, ledgerHistory
    <3> QED
      BY <1>0, <2>1, <3>1, <3>3, ReadBackTyped DEF TypeInv
  <2>4. CASE ~(r \in Live(rules) /\ rules[r].user = who[q] /\ CategoryExists(in.category))
    <3>1. LedgerTypeOK' /\ Finish(q)
      BY <1>0, <1>6, <2>4 DEF LedgerTypeOK, WriteRule, ledgerHistory
    <3> QED
      BY <1>0, <3>1, FinishTyped DEF TypeInv
  <2> QED
    BY <2>3, <2>4
<1>7. ASSUME RereadRule(q)
      PROVE  TypeInv'
  <2>1. at[q] # "idle" /\ (Finish(q) \/ ReadBack(q, "panic", 0))
    BY <1>7 DEF RereadRule
  <2>2. RequestsTyped'
    BY <1>0, <2>1, FinishTyped, ReadBackTyped
  <2> QED
    BY <1>7, <2>2, TablesStay DEF RereadRule
<1> QED
  BY <1>1, <1>2, <1>3, <1>4, <1>5, <1>6, <1>7 DEF RuleStep

LEMMA StepTyped ==
  ASSUME TypeInv, Step
  PROVE  TypeInv'
<1>0. LedgerTypeOK /\ RequestsTyped
  BY DEF TypeInv
<1>1. ASSUME NEW q \in Request, RequestEnds(q)
      PROVE  TypeInv'
  BY <1>0, <1>1, FinishTyped, TablesStay DEF RequestEnds
<1>2. ASSUME NEW r \in Rule, NEW m \in Month, NEW a \in Amount, GenerateTransaction(r, m, a)
      PROVE  TypeInv'
  <2> DEFINE row == [user |-> rules[r].user, category |-> rules[r].category,
                     type |-> rules[r].type, amount |-> a, month |-> m,
                     source |-> "recurring", rule |-> r, created |-> now]
  <2>1. rules[r] \in RuleRow
    BY <1>0, <1>2 DEF GenerateTransaction, Live, LedgerTypeOK
  <2>2. row \in TransactionRow
    BY <1>0, <2>1 DEF LedgerTypeOK, RuleRow, TransactionRow
  <2>3. InsertTransaction(row)
    BY <1>2 DEF GenerateTransaction
  <2>4. LedgerTypeOK'
    BY <1>0, <1>2, <2>2, <2>3, InsertsTyped DEF LedgerTypeOK, GenerateTransaction, ledgerHistory
  <2>5. RequestsTyped'
    BY <1>0, <1>2 DEF RequestsTyped, Carries, GenerateTransaction, requestVars
  <2> QED
    BY <2>4, <2>5 DEF TypeInv
<1>3. ASSUME Tick
      PROVE  TypeInv'
  <2>1. now' \in 0..LastTick
    BY <1>0, <1>3, LedgerAssumption DEF Tick, LedgerTypeOK
  <2>2. LedgerTypeOK'
    BY <1>0, <1>3, <2>1 DEF LedgerTypeOK, Tick, tables, ledgerHistory
  <2>3. RequestsTyped'
    BY <1>0, <1>3 DEF RequestsTyped, Carries, Tick, requestVars
  <2> QED
    BY <2>2, <2>3 DEF TypeInv
<1> QED
  BY <1>1, <1>2, <1>3, CategoryStepTyped, TransactionStepTyped, BudgetStepTyped,
     ReportStepTyped, RuleStepTyped
  DEF Step

LEMMA InitTyped == Init => TypeInv
<1> SUFFICES ASSUME Init PROVE TypeInv
  OBVIOUS
<1>1. LedgerTypeOK
  BY LedgerAssumption DEF Init, LedgerInit, LedgerTypeOK
<1>2. Carries("idle", NoRow, 0, NoRow)
  BY DEF Carries, Statement
<1>3. RequestsTyped
  BY <1>2 DEF Init, RequestInit, RequestsTyped
<1> QED
  BY <1>1, <1>3 DEF TypeInv

LEMMA TypeInvariant == Spec => []TypeInv
<1>1. TypeInv /\ [Next]_vars => TypeInv'
  <2> SUFFICES ASSUME TypeInv, [Next]_vars PROVE TypeInv'
    OBVIOUS
  <2>1. CASE Next
    BY <2>1, StepTyped DEF Next
  <2>2. CASE UNCHANGED vars
    BY <2>2 DEF vars, ledgerVars, tables, ledgerHistory, requestVars, TypeInv,
                LedgerTypeOK, RequestsTyped, Carries
  <2> QED
    BY <2>1, <2>2
<1> QED
  BY <1>1, InitTyped, PTL DEF Spec

\* The tables hold rows of their types and the ids stay within their sequences,
\* for any number of users, requests, rows and calls: what a request carries from
\* its checks to its write is typed at every statement in between.
THEOREM SpecLedgerTypeOK == Spec => []LedgerTypeOK
<1>1. TypeInv => LedgerTypeOK
  BY DEF TypeInv
<1> QED
  BY <1>1, TypeInvariant, PTL

-----------------------------------------------------------------------------
(* Owners                                                                  *)

\* A category id looked up for the user: it has been allotted, so no INSERT gives
\* it to anybody else, and while its row stays the row is the user's.
Mine(u, c) ==
  /\ c < nextId.category
  /\ categories[c] # NoRow => categories[c].user = u

TransactionOwned(t) ==
  /\ RefersToOwn(transactions[t])
  /\ LET r == transactions[t].rule
     IN  r # NoRow => r \in Rule /\ rules[r] # NoRow /\ rules[r].user = transactions[t].user

TransactionsOwned == \A t \in Transaction : transactions[t] # NoRow => TransactionOwned(t)
BudgetsOwned      == \A b \in Budget : budgets[b] # NoRow => RefersToOwn(budgets[b])
RulesOwned        == \A r \in Rule : rules[r] # NoRow => RefersToOwn(rules[r])

Allotted ==
  /\ \A c \in Category : categories[c] # NoRow => c < nextId.category
  /\ \A r \in Rule : rules[r] # NoRow => r < nextId.rule

Checked ==
  { "tx_limit", "tx_insert", "tx_write", "budget_insert", "budget_write",
    "rule_insert", "rule_write" }

InputsOwned ==
  \A q \in Request : at[q] \in Checked => Mine(who[q], input[q].category)

OwnInv == TransactionsOwned /\ BudgetsOwned /\ RulesOwned /\ Allotted /\ InputsOwned

\* What no step undoes: the owner of an allotted id.
OwnersKept ==
  /\ nextId'.category >= nextId.category
  /\ \A c \in Category :
       c < nextId.category /\ categories'[c] # NoRow =>
         categories[c] # NoRow /\ categories'[c].user = categories[c].user

LEMMA OwnedMeansReferences ==
  ASSUME LedgerTypeOK
  PROVE  ReferencesOwned <=> TransactionsOwned /\ BudgetsOwned /\ RulesOwned
BY DEF LedgerTypeOK, ReferencesOwned, TransactionsOwned, BudgetsOwned, RulesOwned,
       TransactionOwned, Live

LEMMA LookedUp ==
  ASSUME TypeInv, OwnInv, NEW u, NEW c \in Category, OwnCategory(u, c)
  PROVE  Mine(u, c)
BY DEF TypeInv, LedgerTypeOK, OwnInv, Allotted, OwnCategory, Live, Mine

LEMMA MineStays ==
  ASSUME TypeInv, TypeInv', OwnersKept, NEW u, NEW c \in Category, Mine(u, c)
  PROVE  Mine(u, c)'
BY DEF TypeInv, LedgerTypeOK, OwnersKept, Mine, Category

LEMMA CheckedCategory ==
  ASSUME RequestsTyped, NEW q \in Request, at[q] \in Checked
  PROVE  input[q].category \in Category
BY DEF RequestsTyped, Carries, Checked, TransactionInput, BudgetInput, RuleInput

\* The requests a step is not of keep their checked inputs.
LEMMA InputsStay ==
  ASSUME TypeInv, TypeInv', OwnInv, OwnersKept, NEW q \in Request,
         \A r \in Request \ {q} :
           at'[r] = at[r] /\ who'[r] = who[r] /\ input'[r] = input[r],
         at'[q] \in Checked =>
           input'[q].category \in Category /\ Mine(who'[q], input'[q].category)
  PROVE  InputsOwned'
<1> SUFFICES ASSUME NEW r \in Request, at'[r] \in Checked
             PROVE  Mine(who[r], input[r].category)'
  BY DEF InputsOwned
<1>1. input'[r].category \in Category /\ Mine(who'[r], input'[r].category)
  <2>1. CASE r = q
    BY <2>1
  <2>2. CASE r # q
    BY <2>2, CheckedCategory DEF OwnInv, InputsOwned, TypeInv
  <2> QED
    BY <2>1, <2>2
<1>2. \A u : \A c \in Category : Mine(u, c) =>
         c < nextId'.category /\ (categories'[c] # NoRow => categories'[c].user = u)
  BY MineStays DEF Mine
<1> QED
  BY <1>1, <1>2 DEF Mine

LEMMA BecomeOthers ==
  ASSUME RequestsTyped, NEW q \in Request, NEW step, NEW user, NEW id, NEW data, NEW number,
         Become(q, step, user, id, data, number)
  PROVE  /\ \A r \in Request \ {q} :
              at'[r] = at[r] /\ who'[r] = who[r] /\ input'[r] = input[r]
         /\ at'[q] = step /\ who'[q] = user /\ input'[q] = data
BY DEF RequestsTyped, Become

\* Steps that write no table.
LEMMA OwnedTablesStay ==
  ASSUME TypeInv, TypeInv', OwnInv, UNCHANGED tables, NEW q \in Request,
         \A r \in Request \ {q} :
           at'[r] = at[r] /\ who'[r] = who[r] /\ input'[r] = input[r],
         at'[q] \in Checked =>
           input'[q].category \in Category /\ Mine(who'[q], input'[q].category)
  PROVE  OwnInv'
<1>0. /\ categories' = categories /\ transactions' = transactions /\ budgets' = budgets
      /\ rules' = rules /\ nextId' = nextId
  BY DEF tables
<1>1. OwnersKept
  BY <1>0 DEF OwnersKept, TypeInv, LedgerTypeOK
<1>2. InputsOwned'
  BY <1>1, InputsStay
<1>3. TransactionsOwned' /\ BudgetsOwned' /\ RulesOwned' /\ Allotted'
  BY <1>0 DEF OwnInv, TransactionsOwned, TransactionOwned, BudgetsOwned, RulesOwned,
              RefersToOwn, Allotted
<1> QED
  BY <1>2, <1>3 DEF OwnInv

LEMMA OwnedBegin ==
  ASSUME TypeInv, TypeInv', OwnInv, UNCHANGED ledgerVars, NEW q \in Request,
         NEW step, NEW user, NEW id, NEW data, NEW number,
         Begin(q, step, user, id, data, number),
         step \in Checked => data.category \in Category /\ OwnCategory(user, data.category)
  PROVE  OwnInv'
<1>1. /\ \A r \in Request \ {q} :
           at'[r] = at[r] /\ who'[r] = who[r] /\ input'[r] = input[r]
      /\ at'[q] = step /\ who'[q] = user /\ input'[q] = data
  BY BecomeOthers DEF Begin, TypeInv
<1>2. step \in Checked => data.category \in Category /\ Mine(user, data.category)
  BY LookedUp
<1> QED
  BY <1>1, <1>2, OwnedTablesStay DEF ledgerVars

\* A request that is over, or reads back, is at no checked statement.
LEMMA OverOthers ==
  ASSUME TypeInv, NEW q \in Request, NEW id,
         \/ Finish(q)
         \/ \E step \in {"tx_reread", "budget_reread", "rule_reread", "panic"} : ReadBack(q, step, id)
  PROVE  /\ \A r \in Request \ {q} :
              at'[r] = at[r] /\ who'[r] = who[r] /\ input'[r] = input[r]
         /\ at'[q] \notin Checked
<1>1. CASE Finish(q)
  BY <1>1, BecomeOthers DEF Finish, TypeInv, Checked
<1>2. CASE \E step \in {"tx_reread", "budget_reread", "rule_reread", "panic"} : ReadBack(q, step, id)
  <2>1. PICK step \in {"tx_reread", "budget_reread", "rule_reread", "panic"} : ReadBack(q, step, id)
    BY <1>2
  <2>2. Become(q, step, who[q], id, NoRow, 0)
    BY <2>1 DEF ReadBack
  <2> QED
    BY <2>2, BecomeOthers DEF TypeInv, Checked
<1> QED
  BY <1>1, <1>2

LEMMA OwnedOver ==
  ASSUME TypeInv, TypeInv', OwnInv, UNCHANGED ledgerVars, NEW q \in Request, NEW id,
         \/ Finish(q)
         \/ \E step \in {"tx_reread", "budget_reread", "rule_reread", "panic"} : ReadBack(q, step, id)
  PROVE  OwnInv'
BY OverOthers, OwnedTablesStay DEF ledgerVars

LEMMA OwnedProceed ==
  ASSUME TypeInv, TypeInv', OwnInv, UNCHANGED ledgerVars, NEW q \in Request, NEW step,
         Proceed(q, step), input[q].category \in Category, Mine(who[q], input[q].category)
  PROVE  OwnInv'
<1>1. /\ \A r \in Request \ {q} :
           at'[r] = at[r] /\ who'[r] = who[r] /\ input'[r] = input[r]
      /\ who'[q] = who[q] /\ input'[q] = input[q]
  BY DEF Proceed, TypeInv, RequestsTyped
<1> QED
  BY <1>1, OwnedTablesStay DEF ledgerVars

\* A call of one statement leaves the requests as they are.
LEMMA AtOnceInputs ==
  ASSUME TypeInv, TypeInv', OwnInv, OwnersKept, NEW q \in Request, AtOnce(q)
  PROVE  InputsOwned'
BY InputsStay DEF AtOnce, Accept, Checked

\* A new category takes an id no row can refer to; a deleted one, by RESTRICT, has
\* none that refers to it.
LEMMA CategoryStepOwned ==
  ASSUME TypeInv, TypeInv', OwnInv, NEW q \in Request, CategoryStep(q)
  PROVE  OwnInv'
<1>0. /\ LedgerTypeOK /\ RequestsTyped
      /\ TransactionsOwned /\ BudgetsOwned /\ RulesOwned /\ Allotted /\ InputsOwned
  BY DEF TypeInv, OwnInv
<1>1. ASSUME NEW u \in User, NEW name \in Name, NEW type \in Type,
             CreateCategory(q, u, name, type)
      PROVE  OwnInv'
  <2> DEFINE row == [user |-> u, name |-> name, type |-> type]
             new == nextId.category
  <2>1. /\ new \in Category /\ categories' = [categories EXCEPT ![new] = row]
        /\ nextId' = [nextId EXCEPT !.category = new + 1]
        /\ transactions' = transactions /\ budgets' = budgets /\ rules' = rules
    BY <1>1 DEF CreateCategory, InsertCategory
  <2>2. \A c \in Category : c # new => categories'[c] = categories[c]
    BY <1>0, <2>1 DEF LedgerTypeOK
  <2>3. nextId'.category = new + 1 /\ nextId'.rule = nextId.rule /\ new \in Nat
    BY <1>0, <2>1, LedgerAssumption DEF LedgerTypeOK
  <2>4. OwnersKept
    BY <2>2, <2>3 DEF OwnersKept, Category
  <2>5. InputsOwned'
    BY <1>1, <2>4, AtOnceInputs DEF CreateCategory
  <2>6. Allotted'
    BY <1>0, <2>1, <2>2, <2>3 DEF Allotted, Category
  <2>7. categories[new] = NoRow
    BY <1>0, <2>1, <2>3 DEF Allotted
  <2>8. TransactionsOwned' /\ BudgetsOwned' /\ RulesOwned'
    <3>1. \A x : x.category \in Category /\ RefersToOwn(x) =>
            categories'[x.category] # NoRow /\ categories'[x.category].user = x.user
      BY <2>2, <2>7 DEF RefersToOwn
    <3>2. /\ \A t \in Transaction : transactions[t] # NoRow => transactions[t].category \in Category
          /\ \A b \in Budget : budgets[b] # NoRow => budgets[b].category \in Category
          /\ \A r \in Rule : rules[r] # NoRow => rules[r].category \in Category
      BY <1>0 DEF LedgerTypeOK, TransactionRow, BudgetRow, RuleRow
    <3>3. TransactionsOwned'
      BY <1>0, <2>1, <3>1, <3>2 DEF TransactionsOwned, TransactionOwned, RefersToOwn
    <3>4. BudgetsOwned' /\ RulesOwned'
      BY <1>0, <2>1, <3>1, <3>2 DEF BudgetsOwned, RulesOwned, RefersToOwn
    <3> QED
      BY <3>3, <3>4
  <2> QED
    BY <2>5, <2>6, <2>8 DEF OwnInv
<1>2. ASSUME NEW u \in User, NEW name \in Name, NEW type \in Type, NEW c \in Category,
             UpdateCategory(q, u, c, name, type)
      PROVE  OwnInv'
  BY <1>2, OwnedBegin DEF UpdateCategory, Checked
<1>3. ASSUME WriteCategory(q)
      PROVE  OwnInv'
  <2> DEFINE c == target[q]
  <2>1. c \in Category
    BY <1>0, <1>3 DEF WriteCategory, RequestsTyped, Carries
  <2>2. /\ transactions' = transactions /\ budgets' = budgets /\ rules' = rules
        /\ nextId' = nextId /\ Finish(q)
    BY <1>3 DEF WriteCategory
  <2>3. \A d \in Category : categories[d] # NoRow =>
          categories'[d] # NoRow /\ categories'[d].user = categories[d].user
    <3>1. CASE OwnCategory(who[q], c)
      <4>1. categories[c] \in CategoryRow
        BY <1>0, <2>1, <3>1 DEF OwnCategory, Live, LedgerTypeOK
      <4>2. categories' = [categories EXCEPT
                 ![c].name = input[q].name, ![c].type = input[q].type]
        BY <1>3, <3>1 DEF WriteCategory
      <4>3. \A d \in Category : d # c => categories'[d] = categories[d]
        BY <1>0, <2>1, <4>2 DEF LedgerTypeOK
      <4>4. categories'[c] = [categories[c] EXCEPT !.name = input[q].name, !.type = input[q].type]
        BY <1>0, <2>1, <4>1, <4>2 DEF LedgerTypeOK, CategoryRow
      <4>5. categories'[c].user = categories[c].user
        BY <4>1, <4>4 DEF CategoryRow
      <4>6. categories'[c] \in CategoryRow
        <5>1. input[q] \in [name : Name, type : Type]
          BY <1>0, <1>3 DEF WriteCategory, RequestsTyped, Carries
        <5> QED
          BY <4>1, <4>4, <5>1 DEF CategoryRow
      <4> QED
        BY <4>3, <4>5, <4>6, LedgerNoRowAssumption
    <3>2. CASE ~OwnCategory(who[q], c)
      BY <1>3, <3>2 DEF WriteCategory
    <3> QED
      BY <3>1, <3>2
  <2>4. \A d \in Category : categories[d] = NoRow => categories'[d] = NoRow
    BY <1>0, <1>3, <2>1 DEF WriteCategory, OwnCategory, Live, LedgerTypeOK
  <2>5. OwnersKept
    BY <1>0, <2>2, <2>3, <2>4 DEF OwnersKept, LedgerTypeOK
  <2>6. InputsOwned'
    BY <2>2, <2>5, OverOthers, InputsStay
  <2>7. Allotted'
    BY <1>0, <2>2, <2>4 DEF Allotted
  <2>8. /\ \A t \in Transaction : transactions[t] # NoRow => transactions[t].category \in Category
        /\ \A b \in Budget : budgets[b] # NoRow => budgets[b].category \in Category
        /\ \A r \in Rule : rules[r] # NoRow => rules[r].category \in Category
    BY <1>0 DEF LedgerTypeOK, TransactionRow, BudgetRow, RuleRow
  <2>9. TransactionsOwned'
    BY <1>0, <2>2, <2>3, <2>8 DEF TransactionsOwned, TransactionOwned, RefersToOwn
  <2>10. BudgetsOwned' /\ RulesOwned'
    BY <1>0, <2>2, <2>3, <2>8 DEF BudgetsOwned, RulesOwned, RefersToOwn
  <2> QED
    BY <2>6, <2>7, <2>9, <2>10 DEF OwnInv
<1>4. ASSUME NEW u \in User, NEW c \in Category, DeleteCategory(q, u, c)
      PROVE  OwnInv'
  <2>1. /\ categories' = [categories EXCEPT ![c] = NoRow] /\ ~Referenced(c)
        /\ transactions' = transactions /\ budgets' = budgets /\ rules' = rules
        /\ nextId' = nextId
    BY <1>4 DEF DeleteCategory
  <2>2. /\ \A d \in Category : d # c => categories'[d] = categories[d]
        /\ categories'[c] = NoRow
    BY <1>0, <2>1 DEF LedgerTypeOK
  <2>3. OwnersKept
    BY <1>0, <2>1, <2>2 DEF OwnersKept, LedgerTypeOK
  <2>4. InputsOwned'
    BY <1>4, <2>3, AtOnceInputs DEF DeleteCategory
  <2>5. Allotted'
    BY <1>0, <2>1, <2>2 DEF Allotted
  <2>6. /\ \A t \in Transaction : transactions[t] # NoRow =>
             transactions[t].category \in Category \ {c}
        /\ \A b \in Budget : budgets[b] # NoRow => budgets[b].category \in Category \ {c}
        /\ \A r \in Rule : rules[r] # NoRow => rules[r].category \in Category \ {c}
    BY <1>0, <2>1 DEF LedgerTypeOK, TransactionRow, BudgetRow, RuleRow, Referenced, Live
  <2>7. TransactionsOwned'
    BY <1>0, <2>1, <2>2, <2>6 DEF TransactionsOwned, TransactionOwned, RefersToOwn
  <2>8. BudgetsOwned' /\ RulesOwned'
    BY <1>0, <2>1, <2>2, <2>6 DEF BudgetsOwned, RulesOwned, RefersToOwn
  <2> QED
    BY <2>4, <2>5, <2>7, <2>8 DEF OwnInv
<1> QED
  BY <1>1, <1>2, <1>3, <1>4 DEF CategoryStep

\* Steps that leave the categories and what has been allotted.
LEMMA CategoriesStay ==
  ASSUME TypeInv, OwnInv, UNCHANGED categories, nextId'.category = nextId.category
  PROVE  /\ OwnersKept
         /\ budgets' = budgets => BudgetsOwned'
         /\ rules' = rules => RulesOwned'
         /\ rules' = rules /\ nextId'.rule = nextId.rule => Allotted'
         /\ transactions' = transactions /\ rules' = rules => TransactionsOwned'
<1>1. OwnersKept
  BY DEF OwnersKept, TypeInv, LedgerTypeOK
<1>2. /\ budgets' = budgets => BudgetsOwned'
      /\ rules' = rules => RulesOwned'
  BY DEF OwnInv, BudgetsOwned, RulesOwned, RefersToOwn
<1>3. rules' = rules /\ nextId'.rule = nextId.rule => Allotted'
  BY DEF OwnInv, Allotted
<1>4. transactions' = transactions /\ rules' = rules => TransactionsOwned'
  BY DEF OwnInv, TransactionsOwned, TransactionOwned, RefersToOwn
<1> QED
  BY <1>1, <1>2, <1>3, <1>4

\* A transaction written beside rules and categories that stay.
LEMMA TransactionWritten ==
  ASSUME TypeInv, OwnInv, UNCHANGED <<categories, rules>>, NEW t \in Transaction, NEW row,
         transactions' = [transactions EXCEPT ![t] = row],
         row # NoRow =>
           /\ RefersToOwn(row)
           /\ row.rule # NoRow =>
                row.rule \in Rule /\ rules[row.rule] # NoRow /\ rules[row.rule].user = row.user
  PROVE  TransactionsOwned'
<1>1. \A s \in Transaction : transactions'[s] = IF s = t THEN row ELSE transactions[s]
  BY DEF TypeInv, LedgerTypeOK
<1> QED
  BY <1>1 DEF OwnInv, TransactionsOwned, TransactionOwned, RefersToOwn

LEMMA TransactionStepOwned ==
  ASSUME TypeInv, TypeInv', OwnInv, NEW q \in Request, TransactionStep(q)
  PROVE  OwnInv'
<1>0. /\ LedgerTypeOK /\ RequestsTyped
      /\ TransactionsOwned /\ BudgetsOwned /\ RulesOwned /\ Allotted /\ InputsOwned
  BY DEF TypeInv, OwnInv
<1>1. ASSUME NEW u \in User, NEW in \in TransactionInput, CreateTransaction(q, u, in)
      PROVE  OwnInv'
  <2>1. in.category \in Category /\ OwnCategory(u, in.category)
    BY <1>1 DEF CreateTransaction, CategoryAccepts, TransactionInput
  <2> QED
    BY <1>1, <2>1, OwnedBegin DEF CreateTransaction
<1>2. ASSUME CheckRecent(q)
      PROVE  OwnInv'
  <2>1. input[q].category \in Category /\ Mine(who[q], input[q].category)
    BY <1>0, <1>2, CheckedCategory DEF CheckRecent, InputsOwned, Checked
  <2>2. Finish(q) \/ Proceed(q, "tx_insert")
    BY <1>2 DEF CheckRecent
  <2> QED
    BY <1>2, <2>1, <2>2, OwnedOver, OwnedProceed DEF CheckRecent
<1>3. ASSUME InsertManual(q)
      PROVE  OwnInv'
  <2>1. input[q].category \in Category /\ Mine(who[q], input[q].category)
    BY <1>0, <1>3, CheckedCategory DEF InsertManual, InputsOwned, Checked
  <2>2. CASE CategoryExists(input[q].category)
    <3> DEFINE row == [user |-> who[q], category |-> input[q].category, type |-> input[q].type,
                       amount |-> input[q].amount, month |-> input[q].month,
                       source |-> "manual", rule |-> NoRow, created |-> now]
               new == nextId.transaction
    <3>1. /\ new \in Transaction /\ transactions' = [transactions EXCEPT ![new] = row]
          /\ nextId' = [nextId EXCEPT !.transaction = @ + 1]
          /\ ReadBack(q, "tx_reread", new)
          /\ categories' = categories /\ rules' = rules /\ budgets' = budgets
      BY <1>3, <2>2 DEF InsertManual, InsertTransaction
    <3>2. nextId'.category = nextId.category /\ nextId'.rule = nextId.rule
      BY <1>0, <3>1 DEF LedgerTypeOK
    <3>3. RefersToOwn(row) /\ row.rule = NoRow
      BY <2>1, <2>2 DEF CategoryExists, Live, Mine, RefersToOwn
    <3>4. TransactionsOwned'
      BY <3>1, <3>3, TransactionWritten
    <3>5. OwnersKept /\ BudgetsOwned' /\ RulesOwned' /\ Allotted'
      BY <3>1, <3>2, CategoriesStay
    <3>6. InputsOwned'
      BY <3>1, <3>5, OverOthers, InputsStay
    <3> QED
      BY <3>4, <3>5, <3>6 DEF OwnInv
  <2>3. CASE ~CategoryExists(input[q].category)
    <3>1. UNCHANGED tables /\ Finish(q)
      BY <1>3, <2>3 DEF InsertManual, tables
    <3> QED
      BY <3>1, OverOthers, OwnedTablesStay
  <2> QED
    BY <2>2, <2>3
<1>4. ASSUME NEW u \in User, NEW t \in Transaction, NEW in \in TransactionInput,
             UpdateTransaction(q, u, t, in)
      PROVE  OwnInv'
  BY <1>4, OwnedBegin DEF UpdateTransaction, Checked
<1>5. ASSUME ValidateTransaction(q)
      PROVE  OwnInv'
  <2>1. CASE CategoryAccepts(who[q], input[q])
    <3>1. input[q].category \in Category
      BY <1>0, <1>5 DEF ValidateTransaction, RequestsTyped, Carries, TransactionInput
    <3>2. Mine(who[q], input[q].category)
      BY <2>1, <3>1, LookedUp DEF CategoryAccepts
    <3> QED
      BY <1>5, <2>1, <3>1, <3>2, OwnedProceed DEF ValidateTransaction
  <2>2. CASE ~CategoryAccepts(who[q], input[q])
    BY <1>5, <2>2, OwnedOver DEF ValidateTransaction
  <2> QED
    BY <2>1, <2>2
<1>6. ASSUME WriteTransaction(q)
      PROVE  OwnInv'
  <2> DEFINE t == target[q]
             in == input[q]
             row == [transactions[t] EXCEPT !.category = in.category, !.type = in.type,
                                            !.amount = in.amount, !.month = in.month]
  <2>1. /\ in.category \in Category /\ Mine(who[q], in.category)
        /\ t \in Transaction
    BY <1>0, <1>6, CheckedCategory DEF WriteTransaction, InputsOwned, Checked, RequestsTyped, Carries
  <2>2. /\ categories' = categories /\ rules' = rules /\ budgets' = budgets
        /\ nextId' = nextId
    BY <1>6 DEF WriteTransaction
  <2>3. OwnersKept /\ BudgetsOwned' /\ RulesOwned' /\ Allotted'
    BY <2>2, CategoriesStay
  <2>4. CASE /\ t \in Live(transactions) /\ transactions[t].user = who[q]
             /\ CategoryExists(in.category)
    <3>1. transactions[t] \in TransactionRow /\ transactions[t] # NoRow
      BY <1>0, <2>1, <2>4 DEF Live, LedgerTypeOK
    <3>2. /\ transactions' = [transactions EXCEPT
               ![t].category = in.category, ![t].type = in.type,
               ![t].amount = in.amount, ![t].month = in.month]
          /\ ReadBack(q, "tx_reread", t)
      BY <1>6, <2>4 DEF WriteTransaction
    <3>3. transactions' = [transactions EXCEPT ![t] = row]
      BY <1>0, <2>1, <3>1, <3>2 DEF LedgerTypeOK, TransactionRow
    <3>4. /\ row.category = in.category /\ row.user = who[q]
          /\ row.rule = transactions[t].rule
      BY <2>4, <3>1 DEF TransactionRow
    <3>5. RefersToOwn(row)
      BY <2>1, <2>4, <3>4 DEF CategoryExists, Live, Mine, RefersToOwn
    <3>6. row.rule # NoRow =>
            row.rule \in Rule /\ rules[row.rule] # NoRow /\ rules[row.rule].user = row.user
      BY <1>0, <2>1, <2>4, <3>1, <3>4 DEF TransactionsOwned, TransactionOwned
    <3>7. TransactionsOwned'
      BY <2>1, <2>2, <3>3, <3>5, <3>6, TransactionWritten
    <3>8. InputsOwned'
      BY <2>3, <3>2, OverOthers, InputsStay
    <3> QED
      BY <2>3, <3>7, <3>8 DEF OwnInv
  <2>5. CASE ~( /\ t \in Live(transactions) /\ transactions[t].user = who[q]
                /\ CategoryExists(in.category) )
    <3>1. UNCHANGED tables /\ Finish(q)
      BY <1>6, <2>5 DEF WriteTransaction, tables
    <3> QED
      BY <3>1, OverOthers, OwnedTablesStay
  <2> QED
    BY <2>4, <2>5
<1>7. ASSUME RereadTransaction(q)
      PROVE  OwnInv'
  BY <1>7, OwnedOver DEF RereadTransaction
<1>8. ASSUME NEW u \in User, NEW t \in Transaction, DeleteTransaction(q, u, t)
      PROVE  OwnInv'
  <2>1. /\ categories' = categories /\ rules' = rules /\ budgets' = budgets
        /\ nextId' = nextId /\ transactions' = [transactions EXCEPT ![t] = NoRow]
    BY <1>8 DEF DeleteTransaction
  <2>2. OwnersKept /\ BudgetsOwned' /\ RulesOwned' /\ Allotted'
    BY <2>1, CategoriesStay
  <2>3. TransactionsOwned'
    BY <2>1, TransactionWritten
  <2>4. InputsOwned'
    BY <1>8, <2>2, AtOnceInputs DEF DeleteTransaction
  <2> QED
    BY <2>2, <2>3, <2>4 DEF OwnInv
<1> QED
  BY <1>1, <1>2, <1>3, <1>4, <1>5, <1>6, <1>7, <1>8 DEF TransactionStep

LEMMA BudgetWritten ==
  ASSUME TypeInv, OwnInv, UNCHANGED categories, NEW b \in Budget, NEW row,
         budgets' = [budgets EXCEPT ![b] = row], row # NoRow => RefersToOwn(row)
  PROVE  BudgetsOwned'
<1>1. \A other \in Budget : budgets'[other] = IF other = b THEN row ELSE budgets[other]
  BY DEF TypeInv, LedgerTypeOK
<1> QED
  BY <1>1 DEF OwnInv, BudgetsOwned, RefersToOwn

LEMMA BudgetStepOwned ==
  ASSUME TypeInv, TypeInv', OwnInv, NEW q \in Request, BudgetStep(q)
  PROVE  OwnInv'
<1>0. /\ LedgerTypeOK /\ RequestsTyped
      /\ TransactionsOwned /\ BudgetsOwned /\ RulesOwned /\ Allotted /\ InputsOwned
  BY DEF TypeInv, OwnInv
<1>1. ASSUME NEW u \in User, NEW in \in BudgetInput, CreateBudget(q, u, in)
      PROVE  OwnInv'
  <2>1. in.category \in Category /\ OwnCategory(u, in.category)
    BY <1>1 DEF CreateBudget, ExpenseCategory, BudgetInput
  <2> QED
    BY <1>1, <2>1, OwnedBegin DEF CreateBudget
<1>2. ASSUME InsertBudgetRow(q)
      PROVE  OwnInv'
  <2> DEFINE row == BudgetRowOf(who[q], input[q])
             new == nextId.budget
  <2>1. input[q].category \in Category /\ Mine(who[q], input[q].category)
    BY <1>0, <1>2, CheckedCategory DEF InsertBudgetRow, InputsOwned, Checked
  <2>2. CASE CategoryExists(row.category) /\ BudgetFree(0, row)
    <3>1. /\ new \in Budget /\ budgets' = [budgets EXCEPT ![new] = row]
          /\ nextId' = [nextId EXCEPT !.budget = @ + 1]
          /\ ReadBack(q, "budget_reread", new)
          /\ categories' = categories /\ rules' = rules /\ transactions' = transactions
      BY <1>2, <2>2 DEF InsertBudgetRow, InsertBudget
    <3>2. nextId'.category = nextId.category /\ nextId'.rule = nextId.rule
      BY <1>0, <3>1 DEF LedgerTypeOK
    <3>3. RefersToOwn(row)
      BY <2>1, <2>2 DEF CategoryExists, Live, Mine, RefersToOwn, BudgetRowOf
    <3>4. BudgetsOwned'
      BY <3>1, <3>3, BudgetWritten
    <3>5. OwnersKept /\ TransactionsOwned' /\ RulesOwned' /\ Allotted'
      BY <3>1, <3>2, CategoriesStay
    <3>6. InputsOwned'
      BY <3>1, <3>5, OverOthers, InputsStay
    <3> QED
      BY <3>4, <3>5, <3>6 DEF OwnInv
  <2>3. CASE ~(CategoryExists(row.category) /\ BudgetFree(0, row))
    <3>1. UNCHANGED tables /\ Finish(q)
      BY <1>2, <2>3 DEF InsertBudgetRow, tables
    <3> QED
      BY <3>1, OverOthers, OwnedTablesStay
  <2> QED
    BY <2>2, <2>3
<1>3. ASSUME NEW u \in User, NEW b \in Budget, NEW in \in BudgetInput, UpdateBudget(q, u, b, in)
      PROVE  OwnInv'
  BY <1>3, OwnedBegin DEF UpdateBudget, Checked
<1>4. ASSUME ValidateBudget(q)
      PROVE  OwnInv'
  <2>1. CASE ExpenseCategory(who[q], input[q])
    <3>1. input[q].category \in Category
      BY <1>0, <1>4 DEF ValidateBudget, RequestsTyped, Carries, BudgetInput
    <3>2. Mine(who[q], input[q].category)
      BY <2>1, <3>1, LookedUp DEF ExpenseCategory
    <3> QED
      BY <1>4, <2>1, <3>1, <3>2, OwnedProceed DEF ValidateBudget
  <2>2. CASE ~ExpenseCategory(who[q], input[q])
    BY <1>4, <2>2, OwnedOver DEF ValidateBudget
  <2> QED
    BY <2>1, <2>2
<1>5. ASSUME WriteBudget(q)
      PROVE  OwnInv'
  <2> DEFINE b == target[q]
             row == BudgetRowOf(who[q], input[q])
  <2>1. /\ input[q].category \in Category /\ Mine(who[q], input[q].category)
        /\ b \in Budget
    BY <1>0, <1>5, CheckedCategory DEF WriteBudget, InputsOwned, Checked, RequestsTyped, Carries
  <2>2. CASE /\ b \in Live(budgets) /\ budgets[b].user = who[q]
             /\ CategoryExists(row.category) /\ BudgetFree(b, row)
    <3>1. /\ budgets' = [budgets EXCEPT ![b] = row] /\ ReadBack(q, "budget_reread", b)
          /\ categories' = categories /\ rules' = rules /\ transactions' = transactions
          /\ nextId' = nextId
      BY <1>5, <2>2 DEF WriteBudget
    <3>2. RefersToOwn(row)
      BY <2>1, <2>2 DEF CategoryExists, Live, Mine, RefersToOwn, BudgetRowOf
    <3>3. BudgetsOwned'
      BY <2>1, <3>1, <3>2, BudgetWritten
    <3>4. OwnersKept /\ TransactionsOwned' /\ RulesOwned' /\ Allotted'
      BY <3>1, CategoriesStay
    <3>5. InputsOwned'
      BY <3>1, <3>4, OverOthers, InputsStay
    <3> QED
      BY <3>3, <3>4, <3>5 DEF OwnInv
  <2>3. CASE ~( /\ b \in Live(budgets) /\ budgets[b].user = who[q]
                /\ CategoryExists(row.category) /\ BudgetFree(b, row) )
    <3>1. UNCHANGED tables /\ Finish(q)
      BY <1>5, <2>3 DEF WriteBudget, tables
    <3> QED
      BY <3>1, OverOthers, OwnedTablesStay
  <2> QED
    BY <2>2, <2>3
<1>6. ASSUME RereadBudget(q)
      PROVE  OwnInv'
  BY <1>6, OwnedOver DEF RereadBudget
<1>7. ASSUME NEW u \in User, NEW b \in Budget, DeleteBudget(q, u, b)
      PROVE  OwnInv'
  <2>1. /\ categories' = categories /\ rules' = rules /\ transactions' = transactions
        /\ nextId' = nextId /\ budgets' = [budgets EXCEPT ![b] = NoRow]
    BY <1>7 DEF DeleteBudget
  <2>2. OwnersKept /\ TransactionsOwned' /\ RulesOwned' /\ Allotted'
    BY <2>1, CategoriesStay
  <2>3. BudgetsOwned'
    BY <2>1, BudgetWritten
  <2>4. InputsOwned'
    BY <1>7, <2>2, AtOnceInputs DEF DeleteBudget
  <2> QED
    BY <2>2, <2>3, <2>4 DEF OwnInv
<1> QED
  BY <1>1, <1>2, <1>3, <1>4, <1>5, <1>6, <1>7 DEF BudgetStep

LEMMA ReportStepOwned ==
  ASSUME TypeInv, TypeInv', OwnInv, NEW q \in Request, ReportStep(q)
  PROVE  OwnInv'
<1>1. ASSUME NEW u \in User, NEW m \in Month, MonthlyTotals(q, u, m)
      PROVE  OwnInv'
  BY <1>1, OwnedBegin DEF MonthlyTotals, Checked
<1>2. ASSUME NEW u \in User, NEW filter \in TransactionFilter, CountTransactions(q, u, filter)
      PROVE  OwnInv'
  BY <1>2, OwnedBegin DEF CountTransactions, Checked
<1>3. ASSUME AnswerRead(q)
      PROVE  OwnInv'
  BY <1>3, OwnedOver DEF AnswerRead
<1> QED
  BY <1>1, <1>2, <1>3 DEF ReportStep

LEMMA RuleStepOwned ==
  ASSUME TypeInv, TypeInv', OwnInv, NEW q \in Request, RuleStep(q)
  PROVE  OwnInv'
<1>0. /\ LedgerTypeOK /\ RequestsTyped
      /\ TransactionsOwned /\ BudgetsOwned /\ RulesOwned /\ Allotted /\ InputsOwned
  BY DEF TypeInv, OwnInv
<1>1. ASSUME NEW u \in User, NEW in \in RuleInput, CreateRule(q, u, in)
      PROVE  OwnInv'
  <2>1. in.category \in Category /\ OwnCategory(u, in.category)
    BY <1>1 DEF CreateRule, CategoryAccepts, RuleInput
  <2> QED
    BY <1>1, <2>1, OwnedBegin DEF CreateRule
<1>2. ASSUME InsertRuleRow(q)
      PROVE  OwnInv'
  <2> DEFINE row == [user |-> who[q], category |-> input[q].category, type |-> input[q].type]
             new == nextId.rule
  <2>1. input[q].category \in Category /\ Mine(who[q], input[q].category)
    BY <1>0, <1>2, CheckedCategory DEF InsertRuleRow, InputsOwned, Checked
  <2>2. /\ categories' = categories /\ budgets' = budgets /\ transactions' = transactions
        /\ Finish(q)
    BY <1>2 DEF InsertRuleRow
  <2>3. CASE CategoryExists(input[q].category)
    <3>1. /\ new \in Rule /\ rules' = [rules EXCEPT ![new] = row]
          /\ nextId' = [nextId EXCEPT !.rule = @ + 1]
      BY <1>2, <2>3 DEF InsertRuleRow, InsertRule
    <3>2. nextId'.category = nextId.category /\ nextId'.rule = new + 1 /\ new \in Nat
      BY <1>0, <3>1, LedgerAssumption DEF LedgerTypeOK
    <3>3. /\ \A r \in Rule : r # new => rules'[r] = rules[r]
          /\ rules'[new] = row /\ rules[new] = NoRow
      BY <1>0, <3>1, <3>2 DEF LedgerTypeOK, Allotted
    <3>4. RefersToOwn(row)
      BY <2>1, <2>3 DEF CategoryExists, Live, Mine, RefersToOwn
    <3>5. RulesOwned'
      BY <1>0, <2>2, <3>3, <3>4 DEF RulesOwned, RefersToOwn
    <3>6. TransactionsOwned'
      BY <1>0, <2>2, <3>3 DEF TransactionsOwned, TransactionOwned, RefersToOwn
    <3>7. Allotted'
      BY <1>0, <2>2, <3>2, <3>3 DEF Allotted, Rule
    <3>8. OwnersKept /\ BudgetsOwned'
      BY <2>2, <3>2, CategoriesStay
    <3>9. InputsOwned'
      BY <2>2, <3>8, OverOthers, InputsStay
    <3> QED
      BY <3>5, <3>6, <3>7, <3>8, <3>9 DEF OwnInv
  <2>4. CASE ~CategoryExists(input[q].category)
    <3>1. UNCHANGED tables /\ Finish(q)
      BY <1>2, <2>4 DEF InsertRuleRow, tables
    <3> QED
      BY <3>1, OverOthers, OwnedTablesStay
  <2> QED
    BY <2>3, <2>4
<1>3. ASSUME NEW u \in User, NEW r \in Rule, DeleteRule(q, u, r)
      PROVE  OwnInv'
  <2>1. /\ categories' = categories /\ budgets' = budgets /\ nextId' = nextId
        /\ rules' = [rules EXCEPT ![r] = NoRow]
        /\ transactions' = [t \in Transaction |->
             IF t \in Live(transactions) /\ transactions[t].rule = r
               THEN [transactions[t] EXCEPT !.rule = NoRow] ELSE transactions[t]]
    BY <1>3 DEF DeleteRule
  <2>2. \A s \in Rule : rules'[s] = IF s = r THEN NoRow ELSE rules[s]
    BY <1>0, <2>1 DEF LedgerTypeOK
  <2>3. ASSUME NEW t \in Transaction, transactions'[t] # NoRow
        PROVE  TransactionOwned(t)'
    <3>1. transactions[t] # NoRow
      BY <2>1, <2>3 DEF Live
    <3>2. transactions[t] \in TransactionRow
      BY <1>0, <3>1 DEF LedgerTypeOK
    <3>3. TransactionOwned(t)
      BY <1>0, <3>1 DEF TransactionsOwned
    <3>4. CASE transactions[t].rule = r
      <4>1. transactions'[t] = [transactions[t] EXCEPT !.rule = NoRow]
        BY <1>0, <2>1, <3>1, <3>4 DEF Live, LedgerTypeOK
      <4>2. /\ transactions'[t].category = transactions[t].category
            /\ transactions'[t].user = transactions[t].user
            /\ transactions'[t].rule = NoRow
        BY <3>2, <4>1 DEF TransactionRow
      <4> QED
        BY <2>1, <3>3, <4>2 DEF TransactionOwned, RefersToOwn
    <3>5. CASE transactions[t].rule # r
      <4>1. transactions'[t] = transactions[t]
        BY <2>1, <3>5
      <4> QED
        BY <2>1, <2>2, <3>3, <3>5, <4>1 DEF TransactionOwned, RefersToOwn
    <3> QED
      BY <3>4, <3>5
  <2>4. TransactionsOwned'
    BY <2>3 DEF TransactionsOwned
  <2>5. RulesOwned' /\ Allotted'
    BY <1>0, <2>1, <2>2 DEF RulesOwned, RefersToOwn, Allotted
  <2>6. OwnersKept /\ BudgetsOwned'
    BY <2>1, CategoriesStay
  <2>7. InputsOwned'
    BY <1>3, <2>6, AtOnceInputs DEF DeleteRule
  <2> QED
    BY <2>4, <2>5, <2>6, <2>7 DEF OwnInv
<1>4. ASSUME NEW u \in User, NEW r \in Rule, NEW in \in RuleInput, UpdateRule(q, u, r, in)
      PROVE  OwnInv'
  BY <1>4, OwnedBegin DEF UpdateRule, Checked
<1>5. ASSUME ValidateRule(q)
      PROVE  OwnInv'
  <2>1. CASE CategoryAccepts(who[q], input[q])
    <3>1. input[q].category \in Category
      BY <1>0, <1>5 DEF ValidateRule, RequestsTyped, Carries, RuleInput
    <3>2. Mine(who[q], input[q].category)
      BY <2>1, <3>1, LookedUp DEF CategoryAccepts
    <3> QED
      BY <1>5, <2>1, <3>1, <3>2, OwnedProceed DEF ValidateRule
  <2>2. CASE ~CategoryAccepts(who[q], input[q])
    BY <1>5, <2>2, OwnedOver DEF ValidateRule
  <2> QED
    BY <2>1, <2>2
<1>6. ASSUME WriteRule(q)
      PROVE  OwnInv'
  <2> DEFINE r == target[q]
             in == input[q]
  <2>1. /\ in.category \in Category /\ Mine(who[q], in.category) /\ r \in Rule
        /\ in.type \in Type
    <3>1. at[q] = "rule_write"
      BY <1>6 DEF WriteRule
    <3>2. r \in Rule /\ in \in RuleInput
      BY <1>0, <3>1 DEF RequestsTyped, Carries
    <3>3. Mine(who[q], in.category)
      BY <1>0, <3>1 DEF InputsOwned, Checked
    <3> QED
      BY <3>2, <3>3 DEF RuleInput
  <2>2. CASE r \in Live(rules) /\ rules[r].user = who[q] /\ CategoryExists(in.category)
    <3>1. /\ rules' = [rules EXCEPT ![r].category = in.category, ![r].type = in.type]
          /\ ReadBack(q, "rule_reread", r)
          /\ categories' = categories /\ budgets' = budgets /\ transactions' = transactions
          /\ nextId' = nextId
      BY <1>6, <2>2 DEF WriteRule
    <3>2. rules[r] \in RuleRow /\ rules[r] # NoRow
      BY <1>0, <2>1, <2>2 DEF LedgerTypeOK, Live
    <3>3. /\ \A s \in Rule : s # r => rules'[s] = rules[s]
          /\ rules'[r].user = rules[r].user /\ rules'[r].category = in.category
          /\ rules'[r] # NoRow
      <4>1. rules'[r] = [user |-> rules[r].user, category |-> in.category, type |-> in.type]
        BY <1>0, <2>1, <3>1, <3>2 DEF LedgerTypeOK, RuleRow
      <4>2. rules'[r] \in RuleRow
        BY <2>1, <3>2, <4>1 DEF RuleRow
      <4> QED
        BY <1>0, <2>1, <3>1, <4>1, <4>2, LedgerNoRowAssumption DEF LedgerTypeOK
    <3>4. RulesOwned'
      BY <1>0, <2>1, <2>2, <3>1, <3>3 DEF RulesOwned, RefersToOwn, CategoryExists, Live, Mine
    <3>5. TransactionsOwned'
      <4>1. \A s \in Rule : rules[s] # NoRow => rules'[s] # NoRow /\ rules'[s].user = rules[s].user
        BY <3>3
      <4> SUFFICES ASSUME NEW t \in Transaction, transactions[t] # NoRow
                   PROVE  TransactionOwned(t)'
        BY <3>1 DEF TransactionsOwned
      <4>2. TransactionOwned(t)
        BY <1>0 DEF TransactionsOwned
      <4> QED
        BY <3>1, <4>1, <4>2 DEF TransactionOwned, RefersToOwn
    <3>6. Allotted'
      BY <1>0, <2>1, <3>1, <3>2, <3>3 DEF Allotted
    <3>7. OwnersKept /\ BudgetsOwned'
      BY <3>1, CategoriesStay
    <3>8. InputsOwned'
      BY <3>1, <3>7, OverOthers, InputsStay
    <3> QED
      BY <3>4, <3>5, <3>6, <3>7, <3>8 DEF OwnInv
  <2>3. CASE ~(r \in Live(rules) /\ rules[r].user = who[q] /\ CategoryExists(in.category))
    <3>1. UNCHANGED tables /\ Finish(q)
      BY <1>6, <2>3 DEF WriteRule, tables
    <3> QED
      BY <3>1, OverOthers, OwnedTablesStay
  <2> QED
    BY <2>2, <2>3
<1>7. ASSUME RereadRule(q)
      PROVE  OwnInv'
  BY <1>7, OwnedOver DEF RereadRule
<1> QED
  BY <1>1, <1>2, <1>3, <1>4, <1>5, <1>6, <1>7 DEF RuleStep

LEMMA NoRequestMoved ==
  ASSUME TypeInv, TypeInv', OwnInv, OwnersKept, UNCHANGED requestVars
  PROVE  InputsOwned'
<1> SUFFICES ASSUME NEW q \in Request
             PROVE  (at[q] \in Checked => Mine(who[q], input[q].category))'
  BY DEF InputsOwned
<1>1. at'[q] \in Checked => input'[q].category \in Category /\ Mine(who'[q], input'[q].category)
  BY CheckedCategory DEF requestVars, OwnInv, InputsOwned, TypeInv
<1>2. InputsOwned'
  BY <1>1, InputsStay DEF requestVars
<1> QED
  BY <1>2 DEF InputsOwned

LEMMA StepOwned ==
  ASSUME TypeInv, TypeInv', OwnInv, Step
  PROVE  OwnInv'
<1>0. /\ LedgerTypeOK /\ RequestsTyped
      /\ TransactionsOwned /\ BudgetsOwned /\ RulesOwned /\ Allotted /\ InputsOwned
  BY DEF TypeInv, OwnInv
<1>1. ASSUME NEW q \in Request, RequestEnds(q)
      PROVE  OwnInv'
  BY <1>1, OwnedOver DEF RequestEnds
<1>2. ASSUME NEW r \in Rule, NEW m \in Month, NEW a \in Amount, GenerateTransaction(r, m, a)
      PROVE  OwnInv'
  <2> DEFINE row == [user |-> rules[r].user, category |-> rules[r].category,
                     type |-> rules[r].type, amount |-> a, month |-> m,
                     source |-> "recurring", rule |-> r, created |-> now]
             new == nextId.transaction
  <2>1. /\ new \in Transaction /\ transactions' = [transactions EXCEPT ![new] = row]
        /\ nextId' = [nextId EXCEPT !.transaction = @ + 1]
        /\ categories' = categories /\ rules' = rules /\ budgets' = budgets
        /\ UNCHANGED requestVars
    BY <1>2 DEF GenerateTransaction, InsertTransaction
  <2>2. nextId'.category = nextId.category /\ nextId'.rule = nextId.rule
    BY <1>0, <2>1 DEF LedgerTypeOK
  <2>3. rules[r] # NoRow /\ RefersToOwn(row)
    BY <1>0, <1>2 DEF GenerateTransaction, Live, RulesOwned, RefersToOwn
  <2>4. TransactionsOwned'
    BY <2>1, <2>3, TransactionWritten
  <2>5. OwnersKept /\ BudgetsOwned' /\ RulesOwned' /\ Allotted'
    BY <2>1, <2>2, CategoriesStay
  <2>6. InputsOwned'
    BY <2>1, <2>5, NoRequestMoved
  <2> QED
    BY <2>4, <2>5, <2>6 DEF OwnInv
<1>3. ASSUME Tick
      PROVE  OwnInv'
  <2>1. /\ categories' = categories /\ rules' = rules /\ budgets' = budgets
        /\ transactions' = transactions /\ nextId' = nextId /\ UNCHANGED requestVars
    BY <1>3 DEF Tick, tables
  <2>2. /\ OwnersKept /\ TransactionsOwned' /\ BudgetsOwned' /\ RulesOwned' /\ Allotted'
    BY <2>1, CategoriesStay
  <2>3. InputsOwned'
    BY <2>1, <2>2, NoRequestMoved
  <2> QED
    BY <2>2, <2>3 DEF OwnInv
<1> QED
  BY <1>1, <1>2, <1>3, CategoryStepOwned, TransactionStepOwned, BudgetStepOwned,
     ReportStepOwned, RuleStepOwned
  DEF Step

LEMMA InitOwned == Init => OwnInv
BY DEF Init, LedgerInit, RequestInit, OwnInv, TransactionsOwned, BudgetsOwned, RulesOwned,
       Allotted, InputsOwned, Checked

LEMMA OwnInvariant == Spec => []OwnInv
<1>1. TypeInv /\ TypeInv' /\ OwnInv /\ [Next]_vars => OwnInv'
  <2> SUFFICES ASSUME TypeInv, TypeInv', OwnInv, [Next]_vars PROVE OwnInv'
    OBVIOUS
  <2>1. CASE Next
    BY <2>1, StepOwned DEF Next
  <2>2. CASE UNCHANGED vars
    BY <2>2 DEF vars, ledgerVars, tables, requestVars, OwnInv, TransactionsOwned,
                TransactionOwned, BudgetsOwned, RulesOwned, RefersToOwn, Allotted,
                InputsOwned, Mine
  <2> QED
    BY <2>1, <2>2
<1> QED
  BY <1>1, InitOwned, TypeInvariant, PTL DEF Spec

\* Each transaction, budget and rule belongs to the owner of its category, and each
\* generated transaction to the owner of its rule, for any number of users, requests
\* and rows.  The owner was looked up statements before the write and the foreign
\* key asks for an id only: what makes up for it is that an id is never allotted
\* twice, and that nothing changes a row's user.
THEOREM SpecReferencesOwned == Spec => []ReferencesOwned
<1>1. TypeInv /\ OwnInv => ReferencesOwned
  BY OwnedMeansReferences DEF TypeInv, OwnInv
<1> QED
  BY <1>1, TypeInvariant, OwnInvariant, PTL

-----------------------------------------------------------------------------
(* Budgets                                                                 *)

\* The unique index, as an invariant: BudgetsWithinExpenses counts on it.
OneBudgetPerMonth ==
  \A b, other \in Live(budgets) : budgets[b] = budgets[other] => b = other

LEMMA StepKeepsBudgetsApart ==
  ASSUME TypeInv, OneBudgetPerMonth, Step
  PROVE  OneBudgetPerMonth'
<1>0. budgets = [b \in Budget |-> budgets[b]] /\ DOMAIN budgets = Budget
  BY DEF TypeInv, LedgerTypeOK
<1>1. ASSUME UNCHANGED budgets
      PROVE  OneBudgetPerMonth'
  BY <1>1 DEF OneBudgetPerMonth, Live
<1>2. ASSUME NEW q \in Request, InsertBudgetRow(q), budgets' # budgets
      PROVE  OneBudgetPerMonth'
  <2> DEFINE row == BudgetRowOf(who[q], input[q])
             new == nextId.budget
  <2>0. BudgetFree(0, row) /\ InsertBudget(row)
    BY <1>2 DEF InsertBudgetRow
  <2>1. /\ new \in Budget /\ budgets' = [budgets EXCEPT ![new] = row]
        /\ \A other \in Live(budgets) : budgets[other] # row
    <3>1. 0 \notin Live(budgets)
      BY <1>0, LedgerAssumption DEF Live, Budget
    <3> QED
      BY <2>0, <3>1 DEF InsertBudget, BudgetFree
  <2>2. \A b \in Budget : budgets'[b] = IF b = new THEN row ELSE budgets[b]
    BY <1>0, <2>1
  <2>3. DOMAIN budgets' = Budget
    BY <1>0, <2>1
  <2> QED
    BY <1>0, <2>1, <2>2, <2>3 DEF OneBudgetPerMonth, Live
<1>3. ASSUME NEW q \in Request, WriteBudget(q), budgets' # budgets
      PROVE  OneBudgetPerMonth'
  <2> DEFINE row == BudgetRowOf(who[q], input[q])
             b == target[q]
  <2>1. /\ b \in Budget /\ budgets' = [budgets EXCEPT ![b] = row]
        /\ \A other \in Live(budgets) \ {b} : budgets[other] # row
    BY <1>0, <1>3 DEF WriteBudget, BudgetFree, Live
  <2>2. \A other \in Budget : budgets'[other] = IF other = b THEN row ELSE budgets[other]
    BY <1>0, <2>1
  <2>3. DOMAIN budgets' = Budget
    BY <1>0, <2>1
  <2> QED
    BY <1>0, <2>1, <2>2, <2>3 DEF OneBudgetPerMonth, Live
<1>4. ASSUME NEW q \in Request, NEW u \in User, NEW b \in Budget, DeleteBudget(q, u, b)
      PROVE  OneBudgetPerMonth'
  <2>1. \A other \in Budget : budgets'[other] = IF other = b THEN NoRow ELSE budgets[other]
    BY <1>0, <1>4 DEF DeleteBudget
  <2>2. DOMAIN budgets' = Budget
    BY <1>0, <1>4 DEF DeleteBudget
  <2> QED
    BY <1>0, <2>1, <2>2 DEF OneBudgetPerMonth, Live
<1>5. CASE \E q \in Request : BudgetStep(q)
  BY <1>1, <1>2, <1>3, <1>4, <1>5
  DEF BudgetStep, CreateBudget, UpdateBudget, ValidateBudget, RereadBudget, ledgerVars, tables
<1>6. CASE ~\E q \in Request : BudgetStep(q)
  <2>1. UNCHANGED budgets
    BY <1>6 DEF Step, CategoryStep, CreateCategory, UpdateCategory, WriteCategory, DeleteCategory,
      TransactionStep, CreateTransaction, CheckRecent, InsertManual, UpdateTransaction,
      ValidateTransaction, WriteTransaction, RereadTransaction, DeleteTransaction,
      ReportStep, MonthlyTotals, CountTransactions, AnswerRead,
      RuleStep, CreateRule, InsertRuleRow, UpdateRule, ValidateRule, WriteRule, RereadRule,
      DeleteRule, RequestEnds, GenerateTransaction, Tick, ledgerVars, tables
  <2> QED
    BY <1>1, <2>1
<1> QED
  BY <1>5, <1>6

LEMMA BudgetsApart == Spec => []OneBudgetPerMonth
<1>1. Init => OneBudgetPerMonth
  BY DEF Init, LedgerInit, OneBudgetPerMonth, Live
<1>2. TypeInv /\ OneBudgetPerMonth /\ [Next]_vars => OneBudgetPerMonth'
  <2> SUFFICES ASSUME TypeInv, OneBudgetPerMonth, [Next]_vars PROVE OneBudgetPerMonth'
    OBVIOUS
  <2>1. CASE Next
    BY <2>1, StepKeepsBudgetsApart DEF Next
  <2>2. CASE UNCHANGED vars
    BY <2>2 DEF vars, ledgerVars, tables, OneBudgetPerMonth, Live
  <2> QED
    BY <2>1, <2>2
<1> QED
  BY <1>1, <1>2, TypeInvariant, PTL DEF Spec

-----------------------------------------------------------------------------
(* The manual transactions that a waiting client created and kept          *)

Manual(t) == transactions[t] # NoRow /\ transactions[t].source = "manual"

\* A request that has passed the check finds nothing recent of its own when it
\* inserts: only it could have inserted such a row since, and the clock only
\* moves on.  (Another request of the same user may have.)
Waited ==
  \A q \in Request, t \in Transaction :
    at[q] = "tx_insert" /\ Manual(t) /\ transactions[t].user = who[q] /\ author[t] = q =>
      transactions[t].created + LimitWindow < now

RowsApart ==
  \A s, t \in Transaction :
    s # t /\ Manual(s) /\ Manual(t) /\ transactions[s].user = transactions[t].user =>
      (author[s] = author[t] => Apart(s, t))

AuthorTyped ==
  author = [t \in Transaction |-> author[t]] /\ DOMAIN author = Transaction

LimitInv == AuthorTyped /\ Waited /\ RowsApart

\* Every manual row was there before, as far as the limit looks at it.
ManualKept ==
  \A t \in Transaction : Manual(t)' =>
    /\ Manual(t)
    /\ transactions'[t].user = transactions[t].user
    /\ transactions'[t].created = transactions[t].created

\* Nobody has come to the INSERT.
NoneArrives ==
  \A q \in Request : at'[q] = "tx_insert" => at[q] = "tx_insert" /\ who'[q] = who[q]

LEMMA LimitTypes ==
  ASSUME LedgerTypeOK
  PROVE  /\ \A t \in Transaction : transactions[t] # NoRow => transactions[t].created \in Int
         /\ now \in Int /\ LimitWindow \in Int /\ LimitWindow > 0
BY LedgerAssumption DEF LedgerTypeOK, TransactionRow

LEMMA LimitStays ==
  ASSUME TypeInv, LimitInv, ManualKept, NoneArrives, author' = author, now' \in {now, now + 1}
  PROVE  LimitInv'
<1>0. LedgerTypeOK /\ AuthorTyped /\ Waited /\ RowsApart
  BY DEF TypeInv, LimitInv
<1>1. Waited'
  <2> SUFFICES ASSUME NEW q \in Request, NEW t \in Transaction, at'[q] = "tx_insert",
                      Manual(t)', transactions'[t].user = who'[q], author'[t] = q
               PROVE  transactions'[t].created + LimitWindow < now'
    BY DEF Waited
  <2>1. /\ at[q] = "tx_insert" /\ who'[q] = who[q] /\ Manual(t) /\ author[t] = q
        /\ transactions[t].user = who[q]
        /\ transactions'[t].created = transactions[t].created
    BY DEF NoneArrives, ManualKept
  <2>2. transactions[t].created + LimitWindow < now
    BY <1>0, <2>1 DEF Waited
  <2>3. /\ transactions[t].created \in Int /\ now \in Int /\ LimitWindow \in Int
        /\ now' = now \/ now' = now + 1
    BY <1>0, <2>1, LimitTypes DEF Manual
  <2> QED
    BY <2>1, <2>2, <2>3
<1>2. RowsApart'
  <2> SUFFICES ASSUME NEW s \in Transaction, NEW t \in Transaction, s # t,
                      Manual(s)', Manual(t)', author'[s] = author'[t],
                      transactions'[s].user = transactions'[t].user
               PROVE  Apart(s, t)'
    BY DEF RowsApart
  <2>1. /\ Manual(s) /\ Manual(t) /\ author[s] = author[t]
        /\ transactions[s].user = transactions[t].user
        /\ transactions'[s].created = transactions[s].created
        /\ transactions'[t].created = transactions[t].created
    BY DEF ManualKept
  <2> QED
    BY <1>0, <2>1 DEF RowsApart, Apart
<1> QED
  BY <1>0, <1>1, <1>2 DEF LimitInv, AuthorTyped

\* The check passes only if every manual row of the user is older than a minute.
LEMMA CheckedRecent ==
  ASSUME TypeInv, LimitInv, NEW q \in Request, CheckRecent(q)
  PROVE  LimitInv'
<1>0. /\ LedgerTypeOK /\ RequestsTyped /\ AuthorTyped /\ Waited /\ RowsApart
      /\ transactions' = transactions /\ author' = author /\ now' = now
  BY DEF TypeInv, LimitInv, CheckRecent, ledgerVars, tables, ledgerHistory
<1>1. ASSUME Finish(q)
      PROVE  LimitInv'
  <2>1. NoneArrives
    BY <1>0, <1>1 DEF NoneArrives, Finish, Become, RequestsTyped
  <2>2. ManualKept
    BY <1>0 DEF ManualKept, Manual
  <2> QED
    BY <1>0, <2>1, <2>2, LimitStays
<1>2. ASSUME NEW clock \in memo[q]..now, ~HasRecentManualTransaction(who[q], clock - LimitWindow),
             Proceed(q, "tx_insert")
      PROVE  LimitInv'
  <2>1. /\ who' = who /\ clock \in Int /\ clock <= now
        /\ \A s \in Request \ {q} : at'[s] = at[s]
    BY <1>0, <1>2, LimitTypes DEF Proceed, RequestsTyped
  <2>2. ASSUME NEW t \in Transaction, Manual(t), transactions[t].user = who[q]
        PROVE  transactions[t].created + LimitWindow < now
    <3>1. t \in Live(transactions)
      BY <1>0, <2>2 DEF Live, Manual, LedgerTypeOK
    <3>2. ~(transactions[t].created >= clock - LimitWindow)
      BY <1>2, <2>2, <3>1 DEF HasRecentManualTransaction, Manual
    <3>3. /\ transactions[t].created \in Int /\ now \in Int /\ LimitWindow \in Int
      BY <1>0, <2>2, LimitTypes DEF Manual
    <3> QED
      BY <2>1, <3>2, <3>3
  <2>3. Waited'
    <3> SUFFICES ASSUME NEW s \in Request, NEW t \in Transaction, at'[s] = "tx_insert",
                        Manual(t), transactions[t].user = who[s], author[t] = s
                 PROVE  transactions[t].created + LimitWindow < now
      BY <1>0, <2>1 DEF Waited, Manual
    <3> QED
      BY <1>0, <2>1, <2>2 DEF Waited
  <2> QED
    BY <1>0, <2>3 DEF LimitInv, AuthorTyped, RowsApart, Manual, Apart
<1> QED
  BY <1>1, <1>2 DEF CheckRecent

\* The new row is more than a minute away from the request's earlier ones.
LEMMA InsertedApart ==
  ASSUME TypeInv, LimitInv, NEW q \in Request, InsertManual(q)
  PROVE  LimitInv'
<1>0. /\ LedgerTypeOK /\ RequestsTyped /\ AuthorTyped /\ Waited /\ RowsApart
      /\ at[q] = "tx_insert" /\ now' = now
  BY DEF TypeInv, LimitInv, InsertManual
<1>1. ASSUME Finish(q), UNCHANGED <<transactions, author>>
      PROVE  LimitInv'
  <2>1. NoneArrives
    BY <1>0, <1>1 DEF NoneArrives, Finish, Become, RequestsTyped
  <2>2. ManualKept
    BY <1>1 DEF ManualKept, Manual
  <2> QED
    BY <1>0, <1>1, <2>1, <2>2, LimitStays
<1>2. CASE CategoryExists(input[q].category)
  <2> DEFINE new == nextId.transaction
             row == [user |-> who[q], category |-> input[q].category, type |-> input[q].type,
                     amount |-> input[q].amount, month |-> input[q].month,
                     source |-> "manual", rule |-> NoRow, created |-> now]
  <2>1. /\ new \in Transaction /\ transactions' = [transactions EXCEPT ![new] = row]
        /\ author' = [author EXCEPT ![new] = q]
        /\ ReadBack(q, "tx_reread", new)
    BY <1>2 DEF InsertManual, InsertTransaction
  <2>2. /\ transactions'[new] = row /\ author'[new] = q
        /\ \A t \in Transaction \ {new} :
             transactions'[t] = transactions[t] /\ author'[t] = author[t]
    BY <1>0, <2>1 DEF LedgerTypeOK, AuthorTyped
  <2>3. /\ at'[q] # "tx_insert"
        /\ \A s \in Request \ {q} : at'[s] = at[s] /\ who'[s] = who[s]
    BY <1>0, <2>1 DEF ReadBack, Become, RequestsTyped
  <2>4. transactions'[new].created = now /\ transactions'[new].user = who[q]
    BY <2>2
  <2>5. AuthorTyped'
    BY <1>0, <2>1 DEF AuthorTyped
  <2> HIDE DEF new, row
  <2>6. Waited'
    <3> SUFFICES ASSUME NEW s \in Request, NEW t \in Transaction, at'[s] = "tx_insert",
                        Manual(t)', transactions'[t].user = who'[s], author'[t] = s
                 PROVE  transactions'[t].created + LimitWindow < now'
      BY DEF Waited
    <3>1. s # q /\ t # new
      BY <2>2, <2>3
    <3>2. /\ at[s] = "tx_insert" /\ who'[s] = who[s]
          /\ transactions'[t] = transactions[t] /\ author[t] = s
      BY <2>2, <2>3, <3>1
    <3> QED
      BY <1>0, <3>2 DEF Waited, Manual
  <2>7. ASSUME NEW t \in Transaction, t # new, Manual(t)', author'[t] = q,
               transactions'[t].user = who[q]
        PROVE  transactions'[new].created > transactions'[t].created + LimitWindow
    <3>1. transactions'[t] = transactions[t] /\ author[t] = q /\ Manual(t)
      BY <2>2, <2>7 DEF Manual
    <3>2. transactions[t].created + LimitWindow < now
      BY <1>0, <2>7, <3>1 DEF Waited
    <3>3. transactions[t].created \in Int /\ now \in Int /\ LimitWindow \in Int
      BY <1>0, <3>1, LimitTypes DEF Manual
    <3> QED
      BY <2>4, <3>1, <3>2, <3>3
  <2>8. RowsApart'
    <3> SUFFICES ASSUME NEW s \in Transaction, NEW t \in Transaction, s # t,
                        Manual(s)', Manual(t)', author'[s] = author'[t],
                        transactions'[s].user = transactions'[t].user
                 PROVE  \/ transactions'[s].created > transactions'[t].created + LimitWindow
                        \/ transactions'[t].created > transactions'[s].created + LimitWindow
      BY DEF RowsApart, Apart
    <3>1. CASE s = new
      BY <2>2, <2>4, <2>7, <3>1
    <3>2. CASE t = new
      BY <2>2, <2>4, <2>7, <3>2
    <3>3. CASE s # new /\ t # new
      BY <1>0, <2>2, <3>3 DEF RowsApart, Apart, Manual
    <3> QED
      BY <3>1, <3>2, <3>3
  <2> QED
    BY <2>5, <2>6, <2>8 DEF LimitInv
<1> QED
  BY <1>1, <1>2 DEF InsertManual

\* No other statement inserts a manual row, or touches its user, its time or its
\* author.
LEMMA OthersKeepManual ==
  ASSUME TypeInv, Step, \A q \in Request : ~CheckRecent(q) /\ ~InsertManual(q)
  PROVE  ManualKept /\ NoneArrives /\ author' = author /\ now' \in {now, now + 1}
<1>0. LedgerTypeOK /\ RequestsTyped
  BY DEF TypeInv
<1>1. ASSUME UNCHANGED <<transactions, author>>
      PROVE  ManualKept /\ author' = author
  BY <1>1 DEF ManualKept, Manual
<1>2. ASSUME NEW q \in Request, NEW step, NEW user, NEW id, NEW data, NEW number,
             Become(q, step, user, id, data, number), step # "tx_insert"
      PROVE  NoneArrives
  BY <1>0, <1>2 DEF NoneArrives, Become, RequestsTyped
<1>3. ASSUME NEW q \in Request, NEW step, Proceed(q, step), step # "tx_insert"
      PROVE  NoneArrives
  BY <1>0, <1>3 DEF NoneArrives, Proceed, RequestsTyped
<1>4. ASSUME UNCHANGED <<at, who>>
      PROVE  NoneArrives
  BY <1>4 DEF NoneArrives
<1>5. ASSUME NEW t \in Transaction, transactions' = [transactions EXCEPT ![t] = NoRow]
      PROVE  ManualKept
  BY <1>0, <1>5 DEF ManualKept, Manual, LedgerTypeOK
<1>6. ASSUME NEW q \in Request, CategoryStep(q)
      PROVE  ManualKept /\ NoneArrives /\ author' = author /\ now' = now
  BY <1>1, <1>2, <1>4, <1>6
     DEF CategoryStep, CreateCategory, UpdateCategory, WriteCategory, DeleteCategory,
         InsertCategory, AtOnce, Begin, Finish, ledgerVars, tables, ledgerHistory
<1>7. ASSUME NEW q \in Request, BudgetStep(q)
      PROVE  ManualKept /\ NoneArrives /\ author' = author /\ now' = now
  <2>1. UNCHANGED <<transactions, author, now>>
    BY <1>7 DEF BudgetStep, CreateBudget, InsertBudgetRow, UpdateBudget, ValidateBudget,
       WriteBudget, RereadBudget, DeleteBudget, ledgerVars, tables, ledgerHistory
  <2>2. NoneArrives
    BY <1>2, <1>3, <1>4, <1>7 DEF BudgetStep, CreateBudget, InsertBudgetRow, UpdateBudget,
       ValidateBudget, WriteBudget, RereadBudget, DeleteBudget, AtOnce, Begin, Finish, ReadBack
  <2> QED
    BY <1>1, <2>1, <2>2
<1>8. ASSUME NEW q \in Request, ReportStep(q) \/ RequestEnds(q)
      PROVE  ManualKept /\ NoneArrives /\ author' = author /\ now' = now
  BY <1>1, <1>2, <1>8 DEF ReportStep, MonthlyTotals, CountTransactions, AnswerRead,
     RequestEnds, Begin, Finish, ledgerVars, tables, ledgerHistory
<1>9. ASSUME NEW q \in Request, RuleStep(q)
      PROVE  ManualKept /\ NoneArrives /\ author' = author /\ now' = now
  <2>1. ASSUME NEW u \in User, NEW r \in Rule, DeleteRule(q, u, r)
        PROVE  ManualKept
    <3>1. \A t \in Transaction : transactions[t] # NoRow => transactions[t] \in TransactionRow
      BY <1>0 DEF LedgerTypeOK
    <3>2. ASSUME NEW t \in Transaction
          PROVE  \/ transactions'[t] = transactions[t]
                 \/ /\ transactions[t] # NoRow
                    /\ transactions'[t] = [transactions[t] EXCEPT !.rule = NoRow]
      BY <1>0, <2>1 DEF DeleteRule, Live
    <3> QED
      BY <3>1, <3>2 DEF ManualKept, Manual, TransactionRow
  <2>2. NoneArrives /\ UNCHANGED <<author, now>>
    BY <1>2, <1>3, <1>4, <1>9 DEF RuleStep, CreateRule, InsertRuleRow, UpdateRule, ValidateRule,
       WriteRule, RereadRule, DeleteRule, AtOnce, Begin, Finish, ReadBack, ledgerVars, tables,
       ledgerHistory
  <2>3. ASSUME ~\E u \in User, r \in Rule : DeleteRule(q, u, r)
        PROVE  transactions' = transactions
    BY <1>9, <2>3 DEF RuleStep, CreateRule, InsertRuleRow, UpdateRule, ValidateRule, WriteRule,
       RereadRule, ledgerVars, tables
  <2> QED
    BY <1>1, <2>1, <2>2, <2>3
<1>10. ASSUME NEW q \in Request, TransactionStep(q)
       PROVE  ManualKept /\ NoneArrives /\ author' = author /\ now' = now
  <2>1. NoneArrives /\ UNCHANGED <<author, now>>
    BY <1>2, <1>3, <1>4, <1>10 DEF TransactionStep, CreateTransaction, UpdateTransaction,
       ValidateTransaction, WriteTransaction, RereadTransaction, DeleteTransaction,
       AtOnce, Begin, Finish, ReadBack, ledgerVars, tables, ledgerHistory
  <2>2. ASSUME WriteTransaction(q)
        PROVE  ManualKept
    <3> DEFINE t == target[q]
               in == input[q]
    <3>1. t \in Transaction
      BY <1>0, <2>2 DEF WriteTransaction, RequestsTyped, Carries
    <3>2. CASE transactions' = transactions
      BY <1>1, <2>1, <3>2
    <3>3. CASE /\ t \in Live(transactions)
               /\ transactions' = [transactions EXCEPT
                    ![t].category = in.category, ![t].type = in.type,
                    ![t].amount = in.amount, ![t].month = in.month]
      <4>1. transactions[t] \in TransactionRow
        BY <1>0, <3>1, <3>3 DEF LedgerTypeOK, Live
      <4>2. /\ transactions'[t].user = transactions[t].user
            /\ transactions'[t].source = transactions[t].source
            /\ transactions'[t].created = transactions[t].created
            /\ \A s \in Transaction \ {t} : transactions'[s] = transactions[s]
        BY <1>0, <3>1, <3>3, <4>1 DEF LedgerTypeOK, TransactionRow
      <4>3. transactions[t] # NoRow
        BY <3>3 DEF Live
      <4> QED
        BY <4>2, <4>3 DEF ManualKept, Manual
    <3> QED
      BY <2>2, <3>2, <3>3 DEF WriteTransaction
  <2>3. ASSUME NEW u \in User, NEW t \in Transaction, DeleteTransaction(q, u, t)
        PROVE  ManualKept
    BY <1>5, <2>3 DEF DeleteTransaction
  <2>4. ASSUME ~WriteTransaction(q),
               ~\E u \in User, t \in Transaction : DeleteTransaction(q, u, t)
        PROVE  transactions' = transactions
    BY <1>10, <2>4 DEF TransactionStep, CreateTransaction, UpdateTransaction,
       ValidateTransaction, RereadTransaction, ledgerVars, tables
  <2> QED
    BY <1>1, <2>1, <2>2, <2>3, <2>4
<1>11. ASSUME NEW r \in Rule, NEW m \in Month, NEW a \in Amount, GenerateTransaction(r, m, a)
       PROVE  ManualKept /\ NoneArrives /\ author' = author /\ now' = now
  <2>1. NoneArrives /\ UNCHANGED <<author, now>>
    BY <1>4, <1>11 DEF GenerateTransaction, ledgerHistory, requestVars
  <2>2. /\ nextId.transaction \in Transaction
        /\ \E row : /\ row.source = "recurring"
                    /\ transactions' = [transactions EXCEPT ![nextId.transaction] = row]
    BY <1>11 DEF GenerateTransaction, InsertTransaction
  <2> QED
    BY <1>0, <2>1, <2>2 DEF ManualKept, Manual, LedgerTypeOK
<1>12. ASSUME Tick
       PROVE  ManualKept /\ NoneArrives /\ author' = author /\ now' = now + 1
  BY <1>1, <1>4, <1>12 DEF Tick, tables, ledgerHistory, requestVars
<1> QED
  BY <1>6, <1>7, <1>8, <1>9, <1>10, <1>11, <1>12 DEF Step

\* Of the manual transactions that a client which waits for its replies created for
\* a user, no two that still exist lie within a minute.  The check of
\* TransactionService.Create and its INSERT are two statements, and of one client
\* nothing gets between them; but the check reads the table, so a row deleted since
\* does not count, and the theorem says nothing of it.
THEOREM SpecClientRowsApart == Spec => []ClientRowsApart
<1>1. Init => LimitInv
  <2> SUFFICES ASSUME Init PROVE LimitInv
    OBVIOUS
  <2>1. AuthorTyped
    BY DEF Init, LedgerInit, AuthorTyped
  <2>2. Waited /\ RowsApart
    BY DEF Init, LedgerInit, RequestInit, Waited, RowsApart, Manual
  <2> QED
    BY <2>1, <2>2 DEF LimitInv
<1>2. TypeInv /\ LimitInv /\ [Next]_vars => LimitInv'
  <2> SUFFICES ASSUME TypeInv, LimitInv, [Next]_vars PROVE LimitInv'
    OBVIOUS
  <2>1. CASE UNCHANGED vars
    BY <2>1 DEF vars, ledgerVars, tables, ledgerHistory, requestVars, LimitInv, AuthorTyped,
       Waited, RowsApart, Manual, Apart
  <2>2. CASE \E q \in Request : CheckRecent(q) \/ InsertManual(q)
    BY <2>2, CheckedRecent, InsertedApart
  <2>3. CASE Step /\ \A q \in Request : ~CheckRecent(q) /\ ~InsertManual(q)
    BY <2>3, OthersKeepManual, LimitStays
  <2> QED
    BY <2>1, <2>2, <2>3 DEF Next
<1>3. TypeInv /\ LimitInv => ClientRowsApart
  BY DEF TypeInv, LedgerTypeOK, LimitInv, RowsApart, Manual, ClientRowsApart,
         ManualByUser, Live
<1>4. Spec => []TypeInv
  BY TypeInvariant
<1> QED
  BY <1>1, <1>2, <1>3, <1>4, PTL DEF Spec

-----------------------------------------------------------------------------
(* Sums over transactions                                                  *)

Amounts == [t \in Live(transactions) |-> transactions[t].amount]

LEMMA RowIs ==
  ASSUME LedgerTypeOK, NEW t \in Live(transactions)
  PROVE  /\ t \in Transaction /\ t \in Nat /\ transactions[t] \in TransactionRow
         /\ transactions[t].amount \in Nat /\ Amounts[t] = transactions[t].amount
         /\ transactions[t].category \in Category /\ transactions[t].month \in Nat
<1>1. t \in Transaction /\ transactions[t] \in TransactionRow
  BY DEF LedgerTypeOK, Live
<1>2. Amounts[t] = transactions[t].amount
  BY DEF Amounts
<1>3. /\ transactions[t].amount \in Amount /\ transactions[t].category \in Category
      /\ transactions[t].month \in Month
  BY <1>1 DEF TransactionRow
<1>4. t \in Nat
  BY <1>1, LedgerAssumption DEF Transaction
<1> QED
  BY <1>1, <1>2, <1>3, <1>4, LedgerAssumption

LEMMA LiveRowsFinite ==
  ASSUME LedgerTypeOK, NEW S \in SUBSET Live(transactions)
  PROVE  IsFiniteSet(S)
<1>1. Live(transactions) \subseteq Transaction
  BY DEF LedgerTypeOK, Live
<1>2. IsFiniteSet(Transaction)
  BY LedgerAssumption, FS_Interval DEF Transaction
<1> QED
  BY <1>1, <1>2, FS_Subset

LEMMA TotalIs ==
  ASSUME LedgerTypeOK, NEW S \in SUBSET Live(transactions)
  PROVE  Total(S) = SumFunctionOnSet(Amounts, S)
<1>1. PICK f, g : f = [t \in S |-> transactions[t].amount] /\ g = Amounts
  OBVIOUS
<1>2. Total(S) = SumFunctionOnSet(f, S)
  <2>1. DOMAIN f = S
    BY <1>1
  <2>2. Total(S) = SumFunction(f)
    BY <1>1 DEF Total
  <2> QED
    BY <2>1, <2>2 DEF SumFunction
<1>3. \A t \in S : f[t] = g[t]
  BY <1>1 DEF Amounts
<1>4. IsFiniteSet(S)
  BY LiveRowsFinite
<1>5. SumFunctionOnSet(f, S) = SumFunctionOnSet(g, S)
  BY <1>3, <1>4, SumAgrees
<1> QED
  BY <1>1, <1>2, <1>5

\* The sums of disjoint sets of transactions add up to that of them all.
LEMMA TotalOfParts ==
  ASSUME LedgerTypeOK, NEW C, IsFiniteSet(C), NEW part,
         \A c \in C : part[c] \in SUBSET Live(transactions),
         \A c, d \in C : c # d => part[c] \cap part[d] = {}
  PROVE  SumFunction([c \in C |-> Total(part[c])]) = Total(UNION { part[c] : c \in C })
<1>1. PICK f : f = Amounts
  OBVIOUS
<1>2. \A c \in C : /\ IsFiniteSet(part[c])
                   /\ \A t \in part[c] : f[t] \in Int
  BY <1>1, LiveRowsFinite, RowIs
<1>3. SumFunctionOnSet([c \in C |-> SumFunctionOnSet(f, part[c])], C)
        = SumFunctionOnSet(f, UNION { part[c] : c \in C })
  BY <1>2, SumOfParts
<1>4. \A c \in C : Total(part[c]) = SumFunctionOnSet(f, part[c])
  BY <1>1, TotalIs
<1>5. [c \in C |-> Total(part[c])] = [c \in C |-> SumFunctionOnSet(f, part[c])]
  BY <1>4
<1>6. SumFunction([c \in C |-> Total(part[c])])
        = SumFunctionOnSet([c \in C |-> SumFunctionOnSet(f, part[c])], C)
  BY <1>5 DEF SumFunction
<1>7. UNION { part[c] : c \in C } \in SUBSET Live(transactions)
  OBVIOUS
<1>8. Total(UNION { part[c] : c \in C }) = SumFunctionOnSet(f, UNION { part[c] : c \in C })
  BY <1>1, <1>7, TotalIs
<1> QED
  BY <1>3, <1>6, <1>8

Expenses(u, m) ==
  { t \in Live(transactions) :
      /\ transactions[t].user = u /\ transactions[t].type = "expense"
      /\ transactions[t].month = m }

\* Every expense is in the group of its category, as the category exists.
LEMMA SpendingAddsUp ==
  ASSUME LedgerTypeOK, ReferencesOwned, NEW u, NEW m
  PROVE  ExpenseTotal(u, m) = SumFunction([c \in Category |-> SpendingOn(u, m, c)])
<1> DEFINE Group(c) == { t \in Live(transactions) :
                           /\ transactions[t].user = u /\ transactions[t].type = "expense"
                           /\ transactions[t].month = m
                           /\ transactions[t].category = c /\ CategoryExists(c) }
<1>1. PICK part : part = [c \in Category |-> Group(c)]
  OBVIOUS
<1>2. \A c \in Category : part[c] \in SUBSET Live(transactions) /\ SpendingOn(u, m, c) = Total(part[c])
  BY <1>1 DEF SpendingOn
<1>3. \A c, d \in Category : c # d => part[c] \cap part[d] = {}
  BY <1>1
<1>4. IsFiniteSet(Category)
  BY LedgerAssumption, FS_Interval DEF Category
<1>5. UNION { part[c] : c \in Category } = Expenses(u, m)
  <2>1. ASSUME NEW t \in Expenses(u, m)
        PROVE  t \in part[transactions[t].category] /\ transactions[t].category \in Category
    <3>1. t \in Live(transactions)
      BY DEF Expenses
    <3>2. transactions[t].category \in Category
      BY <3>1, RowIs
    <3>3. CategoryExists(transactions[t].category)
      BY <3>1, <3>2 DEF ReferencesOwned, RefersToOwn, CategoryExists, Live, LedgerTypeOK
    <3> QED
      BY <1>1, <3>1, <3>2, <3>3 DEF Expenses
  <2>2. \A c \in Category : part[c] \subseteq Expenses(u, m)
    BY <1>1 DEF Expenses
  <2> QED
    BY <2>1, <2>2
<1>6. ExpenseTotal(u, m) = Total(Expenses(u, m))
  BY DEF ExpenseTotal, Expenses
<1>7. SumFunction([c \in Category |-> Total(part[c])]) = Total(Expenses(u, m))
  BY <1>2, <1>3, <1>4, <1>5, TotalOfParts
<1>8. [c \in Category |-> SpendingOn(u, m, c)] = [c \in Category |-> Total(part[c])]
  BY <1>2
<1> QED
  BY <1>6, <1>7, <1>8

\* The budgets of a month count disjoint sets of the month's expenses.
LEMMA BudgetsSpend ==
  ASSUME LedgerTypeOK, OneBudgetPerMonth, NEW u, NEW m
  PROVE  SumFunction([b \in BudgetList(u, m) |-> Spent(b)]) <= ExpenseTotal(u, m)
<1> DEFINE Counted(b) == { t \in Live(transactions) :
                             /\ transactions[t].user = budgets[b].user
                             /\ transactions[t].category = budgets[b].category
                             /\ transactions[t].type = "expense"
                             /\ transactions[t].month = budgets[b].month }
<1>1. PICK list, part : list = BudgetList(u, m) /\ part = [b \in list |-> Counted(b)]
  OBVIOUS
<1>2. \A b \in list : part[b] \in SUBSET Live(transactions) /\ Spent(b) = Total(part[b])
  BY <1>1 DEF Spent
<1>3. \A b \in list : /\ b \in Budget /\ b \in Live(budgets)
                      /\ budgets[b] \in BudgetRow /\ budgets[b].user = u /\ budgets[b].month = m
  BY <1>1 DEF BudgetList, OwnBudget, Live, LedgerTypeOK
<1>4. ASSUME NEW b \in list, NEW d \in list, NEW t \in part[b] \cap part[d]
      PROVE  b = d
  <2>1. budgets[b].category = budgets[d].category
    BY <1>1
  <2>2. budgets[b] = budgets[d]
    BY <1>3, <2>1 DEF BudgetRow
  <2> QED
    BY <1>3, <2>2 DEF OneBudgetPerMonth
<1>5. IsFiniteSet(list)
  <2>1. IsFiniteSet(Budget) /\ list \subseteq Budget
    BY <1>3, LedgerAssumption, FS_Interval DEF Budget
  <2> QED
    BY <2>1, FS_Subset
<1>6. PICK all, expenses : all = UNION { part[b] : b \in list } /\ expenses = Expenses(u, m)
  OBVIOUS
<1>7. all \subseteq expenses /\ expenses \in SUBSET Live(transactions)
  BY <1>1, <1>3, <1>6 DEF Expenses
<1>8. SumFunction([b \in list |-> Total(part[b])]) = Total(all)
  BY <1>2, <1>4, <1>5, <1>6, TotalOfParts
<1>9. [b \in BudgetList(u, m) |-> Spent(b)] = [b \in list |-> Total(part[b])]
  BY <1>1, <1>2
<1>10. PICK f : f = Amounts
  OBVIOUS
<1>11. Total(all) <= Total(expenses)
  <2>1. IsFiniteSet(expenses) /\ \A t \in expenses : f[t] \in Nat
    BY <1>7, <1>10, LiveRowsFinite, RowIs
  <2>2. SumFunctionOnSet(f, all) <= SumFunctionOnSet(f, expenses)
    BY <1>7, <2>1, SumOfFewer
  <2>3. Total(all) = SumFunctionOnSet(f, all) /\ Total(expenses) = SumFunctionOnSet(f, expenses)
    BY <1>7, <1>10, TotalIs
  <2> QED
    BY <2>2, <2>3
<1>12. ExpenseTotal(u, m) = Total(expenses)
  BY <1>6 DEF ExpenseTotal, Expenses
<1> QED
  BY <1>8, <1>9, <1>11, <1>12

-----------------------------------------------------------------------------
(* Pages                                                                   *)

LEMMA Multiples ==
  ASSUME NEW a \in Int, NEW b \in Int, NEW size \in Nat, a <= b
  PROVE  a * size <= b * size
<1>1. b - a \in Nat
  OBVIOUS
<1>2. (b - a) * size >= 0
  BY <1>1
<1>3. (b - a) * size = b * size - a * size
  OBVIOUS
<1> QED
  BY <1>2, <1>3

\* The row of a rank is on one page, and that page is counted.
LEMMA PageOf ==
  ASSUME NEW size \in Nat \ {0}, NEW total \in Nat, NEW rank \in Nat, rank < total
  PROVE  /\ (rank \div size) + 1 \in 1..TotalPage(total, size)
         /\ \A p \in 1..TotalPage(total, size) :
              (p - 1) * size <= rank /\ rank < p * size <=> p = (rank \div size) + 1
<1>1. PICK k : k = rank \div size
  OBVIOUS
<1>2. PICK n : n = total \div size
  OBVIOUS
<1>3. /\ k \in Nat /\ n \in Nat
      /\ k * size <= rank /\ rank < (k + 1) * size
      /\ n * size <= total /\ total < (n + 1) * size
      /\ total % size = total - n * size
  <2>1. \A x \in Nat : /\ x \div size \in Nat
                       /\ (x \div size) * size <= x /\ x < ((x \div size) + 1) * size
                       /\ x % size = x - (x \div size) * size
    OBVIOUS
  <2> QED
    BY <1>1, <1>2, <2>1
<1>4. TotalPage(total, size) = IF total = n * size THEN n ELSE n + 1
  BY <1>2, <1>3 DEF TotalPage
<1>5. TotalPage(total, size) \in Nat
  BY <1>3, <1>4
<1>6. k + 1 <= TotalPage(total, size)
  <2>1. CASE k >= n + 1
    BY <1>3, <2>1, Multiples
  <2>2. CASE k = n
    BY <1>3, <1>4, <2>2
  <2>3. CASE k < n
    BY <1>3, <1>4, <2>3
  <2> QED
    BY <1>3, <2>1, <2>2, <2>3
<1>7. ASSUME NEW p \in Int, (p - 1) * size <= rank, rank < p * size
      PROVE  p = k + 1
  <2>1. ~(k + 1 <= p - 1)
    BY <1>3, <1>7, Multiples
  <2>2. ~(p <= k)
    BY <1>3, <1>7, Multiples
  <2> QED
    BY <1>3, <2>1, <2>2
<1>8. ((k + 1) - 1) * size <= rank /\ rank < (k + 1) * size
  BY <1>3
<1> QED
  BY <1>1, <1>3, <1>5, <1>6, <1>7, <1>8

LEMMA PagesPartition ==
  ASSUME LedgerTypeOK, ReferencesOwned, NEW u, NEW filter, NEW size \in Nat \ {0},
         NEW t \in Matching(u, filter)
  PROVE  Cardinality({ p \in 1..TotalPage(Cardinality(Matching(u, filter)), size) :
                         t \in Page(u, filter, p, size) }) = 1
<1>1. PICK rows : rows = Matching(u, filter)
  OBVIOUS
<1>2. rows \in SUBSET Live(transactions) /\ IsFiniteSet(rows) /\ t \in rows
  BY <1>1, LiveRowsFinite DEF Matching
<1>3. { s \in Matching(u, filter) : CategoryExists(transactions[s].category) } = rows
  <2>1. \A s \in rows : transactions[s].category \in Category
    BY <1>2, RowIs
  <2>2. \A s \in rows : CategoryExists(transactions[s].category)
    BY <1>2, <2>1 DEF ReferencesOwned, RefersToOwn, CategoryExists, Live, LedgerTypeOK
  <2> QED
    BY <1>1, <2>2
<1>4. PICK before : before = { s \in rows : ListedBefore(s, t) }
  OBVIOUS
<1>5. \A p : t \in Page(u, filter, p, size) <=>
               (p - 1) * size <= Cardinality(before) /\ Cardinality(before) < p * size
  BY <1>2, <1>3, <1>4 DEF Page
<1>6. before \in SUBSET (rows \ {t})
  <2>1. ~ListedBefore(t, t)
    BY <1>2, RowIs DEF ListedBefore
  <2> QED
    BY <1>4, <2>1
<1>7. /\ Cardinality(rows) \in Nat /\ Cardinality(before) \in Nat
      /\ Cardinality(before) < Cardinality(rows)
  <2>1. /\ IsFiniteSet(rows \ {t}) /\ Cardinality(rows \ {t}) = Cardinality(rows) - 1
        /\ Cardinality(rows) \in Nat
    BY <1>2, FS_RemoveElement, FS_CardinalityType
  <2>2. /\ IsFiniteSet(before) /\ Cardinality(before) <= Cardinality(rows \ {t})
        /\ Cardinality(before) \in Nat
    BY <1>6, <2>1, FS_Subset, FS_CardinalityType
  <2> QED
    BY <2>1, <2>2
<1>8. PICK rank, total : rank = Cardinality(before) /\ total = Cardinality(rows)
  OBVIOUS
<1>9. { p \in 1..TotalPage(total, size) : t \in Page(u, filter, p, size) } = {(rank \div size) + 1}
  <2>1. /\ (rank \div size) + 1 \in 1..TotalPage(total, size)
        /\ \A p \in 1..TotalPage(total, size) :
             (p - 1) * size <= rank /\ rank < p * size <=> p = (rank \div size) + 1
    BY <1>7, <1>8, PageOf
  <2> QED
    BY <1>5, <1>8, <2>1
<1> QED
  BY <1>1, <1>8, <1>9, FS_Singleton

-----------------------------------------------------------------------------
(* Reads of two statements                                                 *)

Reads == {"spending", "page"}

\* What the first statement returned is still so, unless the user's rows moved.
FreshReads ==
  \A q \in Request : ~moved[q] =>
    /\ at[q] = "spending" => memo[q] = ExpenseTotal(who[q], input[q].month)
    /\ at[q] = "page" => memo[q] = Cardinality(Matching(who[q], input[q]))

MemoTyped == memo = [q \in Request |-> memo[q]]

ReadInv == MemoTyped /\ FreshReads

\* A request's step that neither begins a read nor touches another's.
Leaves(q) ==
  \/ AtOnce(q)
  \/ \E step \in Statement \ Reads :
       \/ Proceed(q, step)
       \/ \E user, id, data, number : Become(q, step, user, id, data, number)

Same(q) == at'[q] = at[q] /\ who'[q] = who[q] /\ input'[q] = input[q] /\ memo'[q] = memo[q]

LEMMA LeavesReads ==
  ASSUME RequestsTyped, MemoTyped, NEW p \in Request, Leaves(p)
  PROVE  MemoTyped' /\ \A q \in Request : at'[q] \in Reads => Same(q)
<1>1. CASE AtOnce(p)
  BY <1>1 DEF AtOnce, Same, MemoTyped
<1>2. ASSUME NEW step \in Statement \ Reads, Proceed(p, step)
      PROVE  MemoTyped' /\ \A q \in Request : at'[q] \in Reads => Same(q)
  BY <1>2 DEF RequestsTyped, Proceed, Same, MemoTyped
<1>3. ASSUME NEW step \in Statement \ Reads, NEW user, NEW id, NEW data, NEW number,
             Become(p, step, user, id, data, number)
      PROVE  MemoTyped' /\ \A q \in Request : at'[q] \in Reads => Same(q)
  BY <1>3 DEF RequestsTyped, Become, Same, MemoTyped
<1> QED
  BY <1>1, <1>2, <1>3 DEF Leaves

LEMMA EndsLeave ==
  ASSUME NEW q \in Request
  PROVE  /\ Finish(q) => Leaves(q)
         /\ \A step \in Statement \ Reads : \A id : ReadBack(q, step, id) => Leaves(q)
         /\ \A step \in Statement \ Reads : \A user, id, data, number :
              Begin(q, step, user, id, data, number) => Leaves(q)
<1>1. "idle" \in Statement \ Reads
  BY DEF Statement, Reads
<1>2. Finish(q) => Leaves(q)
  BY <1>1 DEF Finish, Leaves
<1>3. ASSUME NEW step \in Statement \ Reads, NEW id, ReadBack(q, step, id)
      PROVE  Leaves(q)
  BY <1>3 DEF ReadBack, Leaves
<1>4. ASSUME NEW step \in Statement \ Reads, NEW user, NEW id, NEW data, NEW number,
             Begin(q, step, user, id, data, number)
      PROVE  Leaves(q)
  BY <1>4 DEF Begin, Leaves
<1> QED
  BY <1>2, <1>3, <1>4

LEMMA OthersLeave ==
  ASSUME NEW q \in Request,
         CategoryStep(q) \/ TransactionStep(q) \/ BudgetStep(q) \/ RuleStep(q)
           \/ RequestEnds(q) \/ AnswerRead(q)
  PROVE  Leaves(q)
<1>0. /\ {"idle", "category_write", "tx_limit", "tx_insert", "tx_validate", "tx_write",
          "tx_reread", "budget_insert", "budget_validate", "budget_write",
          "budget_reread", "rule_insert", "rule_validate", "rule_write", "rule_reread",
          "panic"} \subseteq Statement \ Reads
      /\ AtOnce(q) => Leaves(q)
      /\ \A step \in Statement \ Reads : Proceed(q, step) => Leaves(q)
  BY DEF Statement, Reads, Leaves
<1>1. CASE CategoryStep(q)
  BY <1>0, <1>1, EndsLeave
  DEF CategoryStep, CreateCategory, UpdateCategory, WriteCategory, DeleteCategory
<1>2. CASE TransactionStep(q)
  BY <1>0, <1>2, EndsLeave
  DEF TransactionStep, CreateTransaction, CheckRecent, InsertManual, UpdateTransaction,
      ValidateTransaction, WriteTransaction, RereadTransaction, DeleteTransaction
<1>3. CASE BudgetStep(q)
  BY <1>0, <1>3, EndsLeave
  DEF BudgetStep, CreateBudget, InsertBudgetRow, UpdateBudget, ValidateBudget, WriteBudget,
      RereadBudget, DeleteBudget
<1>4. CASE RuleStep(q)
  BY <1>0, <1>4, EndsLeave
  DEF RuleStep, CreateRule, InsertRuleRow, UpdateRule, ValidateRule, WriteRule, RereadRule,
      DeleteRule
<1>5. CASE RequestEnds(q) \/ AnswerRead(q)
  BY <1>5, EndsLeave DEF RequestEnds, AnswerRead
<1> QED
  BY <1>1, <1>2, <1>3, <1>4, <1>5

\* A read begins with a number that is true at that moment.
Begins(q) ==
  /\ UNCHANGED transactions
  /\ at[q] = "idle"
  /\ at'[q] = "spending" => memo'[q] = ExpenseTotal(who'[q], input'[q].month)
  /\ at'[q] = "page" => memo'[q] = Cardinality(Matching(who'[q], input'[q]))

LEMMA BeginsRead ==
  ASSUME RequestsTyped, MemoTyped, NEW p \in Request,
         \/ \E u \in User, m \in Month : MonthlyTotals(p, u, m)
         \/ \E u \in User, filter \in TransactionFilter : CountTransactions(p, u, filter)
  PROVE  /\ MemoTyped'
         /\ \A q \in Request : at'[q] \in Reads => Same(q) \/ Begins(q)
<1>1. ASSUME NEW u \in User, NEW m \in Month, MonthlyTotals(p, u, m)
      PROVE  MemoTyped' /\ \A q \in Request : Same(q) \/ Begins(q)
  <2>1. PICK total : total = ExpenseTotal(u, m)
    OBVIOUS
  <2>2. /\ at[p] = "idle" /\ UNCHANGED transactions
        /\ Become(p, "spending", u, 0, [month |-> m], total)
    BY <1>1, <2>1 DEF MonthlyTotals, Begin, Accept, ledgerVars, tables
  <2>3. MemoTyped'
    BY <2>2 DEF Become, MemoTyped
  <2>4. /\ at'[p] = "spending" /\ who'[p] = u /\ input'[p] = [month |-> m] /\ memo'[p] = total
        /\ \A q \in Request : q # p => Same(q)
    BY <2>2 DEF RequestsTyped, MemoTyped, Become, Same
  <2>5. Begins(p)
    BY <2>1, <2>2, <2>4 DEF Begins
  <2> QED
    BY <2>3, <2>4, <2>5
<1>2. ASSUME NEW u \in User, NEW filter \in TransactionFilter, CountTransactions(p, u, filter)
      PROVE  MemoTyped' /\ \A q \in Request : Same(q) \/ Begins(q)
  <2>1. PICK total : total = Cardinality(Matching(u, filter))
    OBVIOUS
  <2>2. /\ at[p] = "idle" /\ UNCHANGED transactions
        /\ Become(p, "page", u, 0, filter, total)
    BY <1>2, <2>1 DEF CountTransactions, Begin, Accept, ledgerVars, tables
  <2>3. MemoTyped'
    BY <2>2 DEF Become, MemoTyped
  <2>4. /\ at'[p] = "page" /\ who'[p] = u /\ input'[p] = filter /\ memo'[p] = total
        /\ \A q \in Request : q # p => Same(q)
    BY <2>2 DEF RequestsTyped, MemoTyped, Become, Same
  <2>5. Begins(p)
    BY <2>1, <2>2, <2>4 DEF Begins
  <2> QED
    BY <2>3, <2>4, <2>5
<1> QED
  BY <1>1, <1>2

LEMMA ReadStep ==
  ASSUME RequestsTyped, MemoTyped, Step
  PROVE  /\ MemoTyped'
         /\ \A q \in Request : at'[q] \in Reads => Same(q) \/ Begins(q)
<1>1. ASSUME NEW p \in Request,
             CategoryStep(p) \/ TransactionStep(p) \/ BudgetStep(p) \/ RuleStep(p)
               \/ RequestEnds(p) \/ AnswerRead(p)
      PROVE  MemoTyped' /\ \A q \in Request : at'[q] \in Reads => Same(q) \/ Begins(q)
  BY <1>1, OthersLeave, LeavesReads
<1>2. ASSUME NEW p \in Request, ReportStep(p), ~AnswerRead(p)
      PROVE  MemoTyped' /\ \A q \in Request : at'[q] \in Reads => Same(q) \/ Begins(q)
  BY <1>2, BeginsRead DEF ReportStep
<1>3. ASSUME UNCHANGED requestVars
      PROVE  MemoTyped' /\ \A q \in Request : at'[q] \in Reads => Same(q) \/ Begins(q)
  BY <1>3 DEF requestVars, MemoTyped, Same
<1> QED
  BY <1>1, <1>2, <1>3 DEF Step, GenerateTransaction, Tick

\* While no row of a user moves, the user's totals and lists stay.
LEMMA Unmoved ==
  ASSUME LedgerTypeOK, LedgerTypeOK', NEW u, ~Moved(u), NEW m, NEW filter
  PROVE  ExpenseTotal(u, m)' = ExpenseTotal(u, m) /\ Matching(u, filter)' = Matching(u, filter)
<1>0. /\ DOMAIN transactions = Transaction /\ DOMAIN transactions' = Transaction
  BY DEF LedgerTypeOK
<1>1. ASSUME NEW t \in Transaction
      PROVE  /\ t \in Live(transactions)' /\ transactions'[t].user = u
                  <=> t \in Live(transactions) /\ transactions[t].user = u
             /\ t \in Live(transactions) /\ transactions[t].user = u =>
                  transactions'[t] = transactions[t]
  <2>1. CASE transactions'[t] = transactions[t]
    BY <1>0, <2>1 DEF Live
  <2>2. CASE transactions'[t] # transactions[t]
    <3>1. \A row \in {transactions[t], transactions'[t]} \ {NoRow} : row.user # u
      BY <2>2 DEF Moved
    <3>2. transactions[t] # NoRow => transactions[t].user # u
      BY <3>1
    <3>3. transactions'[t] # NoRow => transactions'[t].user # u
      BY <3>1
    <3> QED
      BY <3>2, <3>3 DEF Live
  <2> QED
    BY <2>1, <2>2
<1>2. PICK S : S = Expenses(u, m)
  OBVIOUS
<1>3. Expenses(u, m)' = S
  <2>1. \A t \in Transaction : t \in Expenses(u, m)' <=> t \in S
    BY <1>1, <1>2 DEF Expenses
  <2> QED
    BY <1>0, <1>2, <2>1 DEF Expenses, Live
<1>4. \A t \in S : transactions'[t] = transactions[t]
  BY <1>0, <1>1, <1>2 DEF Expenses, Live
<1>5. [t \in S |-> transactions'[t].amount] = [t \in S |-> transactions[t].amount]
  BY <1>4
<1>6. ExpenseTotal(u, m) = SumFunction([t \in S |-> transactions[t].amount])
  BY <1>2 DEF ExpenseTotal, Expenses, Total
<1>7. ExpenseTotal(u, m)' = SumFunction([t \in S |-> transactions'[t].amount])
  BY <1>3 DEF ExpenseTotal, Expenses, Total
<1>8. Matching(u, filter)' = Matching(u, filter)
  <2>1. \A t \in Transaction : t \in Matching(u, filter)' <=> t \in Matching(u, filter)
    BY <1>1 DEF Matching, Matches
  <2> QED
    BY <1>0, <2>1 DEF Matching, Live
<1> QED
  BY <1>5, <1>6, <1>7, <1>8

LEMMA StepKeepsReads ==
  ASSUME TypeInv, TypeInv', ReadInv, Next
  PROVE  ReadInv'
<1>0. LedgerTypeOK /\ LedgerTypeOK' /\ RequestsTyped /\ MemoTyped /\ FreshReads
  BY DEF TypeInv, ReadInv
<1>1. MemoTyped' /\ \A q \in Request : at'[q] \in Reads => Same(q) \/ Begins(q)
  BY <1>0, ReadStep DEF Next
<1>2. ASSUME NEW q \in Request, ~moved'[q], at'[q] \in Reads
      PROVE  /\ at'[q] = "spending" => memo'[q] = ExpenseTotal(who[q], input[q].month)'
             /\ at'[q] = "page" => memo'[q] = Cardinality(Matching(who[q], input[q]))'
  <2>1. PICK u, m, filter : u = who'[q] /\ m = input'[q].month /\ filter = input'[q]
    OBVIOUS
  <2>2. /\ ExpenseTotal(who[q], input[q].month)' = ExpenseTotal(u, m)'
        /\ Matching(who[q], input[q])' = Matching(u, filter)'
    BY <2>1 DEF ExpenseTotal, Matching, Matches
  <2>3. CASE Same(q)
    <3>1. at[q] \in Reads /\ at'[q] = at[q] /\ who[q] = u /\ input[q] = filter /\ memo'[q] = memo[q]
      BY <1>2, <2>1, <2>3 DEF Same
    <3>2. ~moved[q] /\ ~Moved(who[q])
      BY <1>2, <3>1 DEF Next, TrackMoves, Reads
    <3>3. ~Moved(u)
      BY <3>1, <3>2
    <3>4. ExpenseTotal(u, m)' = ExpenseTotal(u, m) /\ Matching(u, filter)' = Matching(u, filter)
      BY <1>0, <3>3, Unmoved
    <3>5. /\ at[q] = "spending" => memo[q] = ExpenseTotal(who[q], input[q].month)
          /\ at[q] = "page" => memo[q] = Cardinality(Matching(who[q], input[q]))
      BY <1>0, <3>2 DEF FreshReads
    <3>6. ExpenseTotal(who[q], input[q].month) = ExpenseTotal(u, m) /\ Matching(who[q], input[q]) = Matching(u, filter)
      <4>1. input[q].month = m
        BY <2>1, <3>1
      <4> QED
        BY <3>1, <4>1
    <3> QED
      BY <2>2, <3>1, <3>4, <3>5, <3>6
  <2>4. CASE Begins(q)
    <3>1. /\ UNCHANGED transactions
          /\ at'[q] = "spending" => memo'[q] = ExpenseTotal(u, m)
          /\ at'[q] = "page" => memo'[q] = Cardinality(Matching(u, filter))
      BY <2>1, <2>4 DEF Begins
    <3>2. ExpenseTotal(u, m)' = ExpenseTotal(u, m) /\ Matching(u, filter)' = Matching(u, filter)
      BY <3>1 DEF ExpenseTotal, Total, Matching, Matches
    <3> QED
      BY <2>2, <3>1, <3>2
  <2> QED
    BY <1>1, <1>2, <2>3, <2>4
<1>3. FreshReads'
  BY <1>2 DEF FreshReads, Reads
<1> QED
  BY <1>1, <1>3 DEF ReadInv

LEMMA ReadInvariant == Spec => []ReadInv
<1>1. Init => ReadInv
  BY DEF Init, RequestInit, ReadInv, MemoTyped, FreshReads
<1>2. TypeInv /\ TypeInv' /\ ReadInv /\ [Next]_vars => ReadInv'
  <2>1. CASE UNCHANGED vars
    <3>1. ASSUME UNCHANGED vars, ReadInv
          PROVE  ReadInv'
      BY <3>1 DEF vars, ledgerVars, tables, requestVars, ReadInv, MemoTyped, FreshReads,
         ExpenseTotal, Total, Matching, Matches
    <3> QED
      BY <2>1, <3>1
  <2> QED
    BY <2>1, StepKeepsReads
<1> QED
  BY <1>1, <1>2, TypeInvariant, PTL DEF Spec

\* MonthlySummary's total is the sum of its categories, if no transaction of the
\* user changed between the two statements: every expense has a category that
\* exists, whatever types the categories have taken on since.
THEOREM SpecSummaryAddsUp == Spec => []SummaryAddsUp
<1>1. TypeInv /\ OwnInv /\ ReadInv => SummaryAddsUp
  <2> SUFFICES ASSUME LedgerTypeOK, ReferencesOwned, FreshReads, NEW q \in Request,
                      at[q] = "spending", ~moved[q]
               PROVE  memo[q] = SumFunction([c \in Category |-> SpendingOn(who[q], input[q].month, c)])
    BY OwnedMeansReferences DEF TypeInv, OwnInv, ReadInv, SummaryAddsUp
  <2>1. PICK u, m : u = who[q] /\ m = input[q].month
    OBVIOUS
  <2>2. memo[q] = ExpenseTotal(u, m)
    BY <2>1 DEF FreshReads
  <2>3. ExpenseTotal(u, m) = SumFunction([c \in Category |-> SpendingOn(u, m, c)])
    BY SpendingAddsUp
  <2> QED
    BY <2>1, <2>2, <2>3
<1> QED
  BY <1>1, TypeInvariant, OwnInvariant, ReadInvariant, PTL

\* The budgets of a month never have spent more than the month's expenses: the
\* unique index keeps them on different categories, and they count by the rows' type.
THEOREM SpecBudgetsWithinExpenses == Spec => []BudgetsWithinExpenses
<1>1. LedgerTypeOK /\ OneBudgetPerMonth => BudgetsWithinExpenses
  BY BudgetsSpend DEF BudgetsWithinExpenses
<1> QED
  BY <1>1, SpecLedgerTypeOK, BudgetsApart, PTL

\* The pages a list's count announces show each counted row exactly once, for any
\* page size, if no transaction of the user changed between the two statements.
THEOREM SpecPagesPartitionList == Spec => []PagesPartitionList
<1>1. TypeInv /\ OwnInv /\ ReadInv => PagesPartitionList
  <2> SUFFICES ASSUME LedgerTypeOK, ReferencesOwned, FreshReads, NEW q \in Request,
                      at[q] = "page", ~moved[q], NEW size \in 1..MaxTransaction,
                      NEW t \in Matching(who[q], input[q])
               PROVE  Cardinality({ p \in 1..TotalPage(memo[q], size) :
                                      t \in Page(who[q], input[q], p, size) }) = 1
    BY OwnedMeansReferences DEF TypeInv, OwnInv, ReadInv, PagesPartitionList
  <2>1. PICK u, filter : u = who[q] /\ filter = input[q]
    OBVIOUS
  <2>2. memo[q] = Cardinality(Matching(u, filter))
    BY <2>1 DEF FreshReads
  <2>3. size \in Nat \ {0}
    BY LedgerAssumption
  <2>4. Cardinality({ p \in 1..TotalPage(Cardinality(Matching(u, filter)), size) :
                        t \in Page(u, filter, p, size) }) = 1
    BY <2>1, <2>3, PagesPartition
  <2> QED
    BY <2>1, <2>2, <2>4
<1> QED
  BY <1>1, TypeInvariant, OwnInvariant, ReadInvariant, PTL
=============================================================================
