----------------------------- MODULE LedgerStore ----------------------------
(***************************************************************************)
(* The tables the API's users edit: categories, transactions, budgets, and *)
(* recurring_transactions as far as the other three see them.  A row is    *)
(* NoRow before its INSERT and after its DELETE.                           *)
(*                                                                         *)
(* Notes and the amounts of budgets and rules decide nothing here and are  *)
(* left out.  A date is known by its month.  Every statement is atomic:    *)
(* outside the worker, each one is a transaction of its own.               *)
(***************************************************************************)
EXTENDS Integers, FiniteSets, Functions

CONSTANTS
  User,
  Name,           \* names of categories
  MaxCategory, MaxTransaction, MaxBudget, MaxRule,  \* bounds: rows ever inserted
  Month,          \* months that dates and budgets fall into
  Amount,         \* amounts in cents within validateAmountBounds
  LimitWindow,    \* the minute of "one manual transaction per minute", in ticks
  LastTick,       \* bound: the clock stops here
  NoRow

Type == {"income", "expense"}

Category    == 1..MaxCategory
Transaction == 1..MaxTransaction
Budget      == 1..MaxBudget
Rule        == 1..MaxRule

ASSUME LedgerAssumption ==
  /\ MaxCategory \in Nat /\ MaxTransaction \in Nat
  /\ MaxBudget \in Nat /\ MaxRule \in Nat
  /\ Month \subseteq Nat
  /\ Amount \subseteq Nat \ {0}
  /\ LimitWindow \in Nat \ {0}
  /\ LastTick \in Nat

VARIABLES
  categories, transactions, budgets, rules,   \* the tables, by id
  nextId,         \* the sequences behind the ids
  now,            \* the clock of the API and of the database
  (* History, not in the program: *)
  hadType,        \* the types a category has had
  author          \* the request slot that inserted a manual transaction

tables == <<categories, transactions, budgets, rules, nextId>>
ledgerHistory == <<hadType, author>>
ledgerVars == <<tables, now, ledgerHistory>>

CategoryRow == [user : User, name : Name, type : Type]
TransactionRow ==
  [ user : User, category : Category, type : Type, amount : Amount,
    month : Month, source : {"manual", "recurring"}, rule : Rule \cup {NoRow},
    created : 0..LastTick ]
BudgetRow == [user : User, category : Category, month : Month]
RuleRow   == [user : User, category : Category, type : Type]

ASSUME LedgerNoRowAssumption ==
  NoRow \notin CategoryRow \cup TransactionRow \cup BudgetRow \cup RuleRow \cup Nat

LedgerTypeOK ==
  /\ categories \in [Category -> CategoryRow \cup {NoRow}]
  /\ transactions \in [Transaction -> TransactionRow \cup {NoRow}]
  /\ budgets \in [Budget -> BudgetRow \cup {NoRow}]
  /\ rules \in [Rule -> RuleRow \cup {NoRow}]
  /\ nextId \in [category : 1..(MaxCategory + 1), transaction : 1..(MaxTransaction + 1),
                 budget : 1..(MaxBudget + 1), rule : 1..(MaxRule + 1)]
  /\ now \in 0..LastTick
  /\ hadType \in [Category -> SUBSET Type]

LedgerInit ==
  /\ categories = [c \in Category |-> NoRow]
  /\ transactions = [t \in Transaction |-> NoRow]
  /\ budgets = [b \in Budget |-> NoRow]
  /\ rules = [r \in Rule |-> NoRow]
  /\ nextId = [category |-> 1, transaction |-> 1, budget |-> 1, rule |-> 1]
  /\ now = 0
  /\ hadType = [c \in Category |-> {}]
  /\ author = [t \in Transaction |-> NoRow]

Live(table) == { i \in DOMAIN table : table[i] # NoRow }

\* COALESCE(SUM(amount_cents), 0) over rows of transactions.
Total(S) == SumFunction([t \in S |-> transactions[t].amount])

\* Variant with a bug: the lookup forgets the user.
OwnCategory_AnyUser(u, c) == c \in Live(categories)

\* CategoryRepository.GetByIDForUser finds a row.
OwnCategory(u, c) == c \in Live(categories) /\ categories[c].user = u

\* ON DELETE RESTRICT: what keeps a category from being deleted.
Referenced(c) ==
  \/ \E t \in Live(transactions) : transactions[t].category = c
  \/ \E b \in Live(budgets) : budgets[b].category = c
  \/ \E r \in Live(rules) : rules[r].category = c

\* REFERENCES categories(id): what an INSERT or UPDATE of a row needs.  The
\* constraint does not look at the user.
CategoryExists(c) == c \in Live(categories)

\* UNIQUE (user_id, category_id, year, month), for the row that becomes b's.
BudgetFree(b, row) == \A other \in Live(budgets) \ {b} : budgets[other] # row

\* INSERT ... RETURNING id, per table.
InsertCategory(row) ==
  /\ nextId.category \in Category
  /\ categories' = [categories EXCEPT ![nextId.category] = row]
  /\ nextId' = [nextId EXCEPT !.category = @ + 1]

InsertTransaction(row) ==
  /\ nextId.transaction \in Transaction
  /\ transactions' = [transactions EXCEPT ![nextId.transaction] = row]
  /\ nextId' = [nextId EXCEPT !.transaction = @ + 1]

InsertBudget(row) ==
  /\ nextId.budget \in Budget
  /\ budgets' = [budgets EXCEPT ![nextId.budget] = row]
  /\ nextId' = [nextId EXCEPT !.budget = @ + 1]

InsertRule(row) ==
  /\ nextId.rule \in Rule
  /\ rules' = [rules EXCEPT ![nextId.rule] = row]
  /\ nextId' = [nextId EXCEPT !.rule = @ + 1]

\* hadType after a step that leaves category c with this type.
HadTypeAfter(c, type) == hadType' = [hadType EXCEPT ![c] = @ \cup {type}]
=============================================================================
