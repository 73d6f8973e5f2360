--------------------------- MODULE RecurringStore ---------------------------
(***************************************************************************)
(* The PostgreSQL tables the recurring engine shares between the API and   *)
(* the worker processes: recurring_transactions, the transactions the      *)
(* worker generated from it, and the row locks open transactions hold.     *)
(* Every operator below is one statement of repository/recurring.go (or of *)
(* repository/transaction.go), or a fact the schema enforces.              *)
(*                                                                         *)
(* One user: every statement is scoped by user_id, so two users never meet *)
(* on a row.  Amount, note and type travel with the rule unchanged and are *)
(* left out; the category stays, because the worker's query locks its row. *)
(***************************************************************************)
EXTENDS Integers, FiniteSets

CONSTANTS
  MaxRule,        \* bound: how many rules are ever created
  Category,       \* categories the user owns
  Frequency,      \* recurrence frequencies
  LastDay,        \* bound: the clock stops at this day
  InputDate,      \* days a client may send as start_date or end_date
  NextRunDate,    \* [Frequency -> [Day -> day number]]: schedule.NextRunDate
  Worker,         \* worker processes, each with at most one open transaction
  NoDate,         \* SQL NULL in a DATE column, nil in the code
  NoRow,          \* the id has no row: not yet inserted, or deleted
  NoTx            \* nobody holds the row lock

Rule == 1..MaxRule          \* BIGSERIAL ids: allotted in order, never reused
Day  == 0..LastDay          \* days the clock can show

ASSUME StoreAssumption ==
  /\ MaxRule \in Nat \ {0}
  /\ LastDay \in Nat
  /\ InputDate \subseteq Nat
  /\ NoDate \notin Nat
  /\ NoTx \notin Worker

\* What the engine needs of schedule.NextRunDate: the next run is a later day.
ASSUME NextRunDateAssumption ==
  /\ NextRunDate \in [Frequency -> [Day -> Nat]]
  /\ \A f \in Frequency, d \in Day : NextRunDate[f][d] > d

VARIABLES
  rules,          \* recurring_transactions: [Rule -> RuleRow \cup {NoRow}]
  nextId,         \* the sequence behind recurring_transactions.id
  generated,      \* transactions with a recurring_transaction_id:
                  \*   generated[r][d] rows of rule r dated d
  rowLock,        \* FOR UPDATE locks on recurring_transactions rows
  categoryLock,   \* FOR UPDATE locks on categories rows
  today,          \* the UTC day every process reads from its clock
  (* History, not in the program: *)
  posted,         \* [Rule -> dates a worker ever inserted for the rule]
  origin          \* next_run_date as the API last wrote it

tables == <<rules, nextId, generated>>
locks == <<rowLock, categoryLock>>
history == <<posted, origin>>
storeVars == <<tables, locks, today, history>>

RuleRow ==
  [ category  : Category,
    frequency : Frequency,
    start     : Nat,
    end       : Nat \cup {NoDate},
    next      : Nat \cup {NoDate},
    active    : BOOLEAN ]

ASSUME NoRowAssumption == NoRow \notin RuleRow

\* The foreign key of the rule points at a category and every column has its
\* SQL type.  generated counts the rows per (rule, date).
StoreTypeOK ==
  /\ rules \in [Rule -> RuleRow \cup {NoRow}]
  /\ nextId \in 1..(MaxRule + 1)
  /\ generated \in [Rule -> [Day -> Nat]]
  /\ rowLock \in [Rule -> Worker \cup {NoTx}]
  /\ categoryLock \in [Category -> Worker \cup {NoTx}]
  /\ today \in Day
  /\ posted \in [Rule -> SUBSET Day]
  /\ origin \in [Rule -> Nat \cup {NoDate}]

StoreInit ==
  /\ generated = [r \in Rule |-> [d \in Day |-> 0]]
  /\ rowLock = [r \in Rule |-> NoTx]
  /\ categoryLock = [c \in Category |-> NoTx]
  /\ today = 0
  /\ posted = [r \in Rule |-> {}]
  /\ origin = [r \in Rule |-> IF rules[r] = NoRow THEN NoDate ELSE rules[r].next]

Exists(r) == rules[r] # NoRow

-----------------------------------------------------------------------------
(* GetNextDueForUpdate                                                     *)

\* The WHERE clause.
Due(r, runAt) ==
  /\ Exists(r)
  /\ rules[r].active
  /\ rules[r].next # NoDate
  /\ rules[r].next <= runAt

\* ORDER BY next_run_date ASC, id ASC.
Before(r, s) ==
  \/ rules[r].next < rules[s].next
  \/ rules[r].next = rules[s].next /\ r < s

RuleUnlocked(r) == rowLock[r] = NoTx

\* FOR UPDATE without OF locks a row of every table in the FROM list, so the
\* joined category as well: two due rules of one category exclude each other.
Lockable(r) == RuleUnlocked(r) /\ categoryLock[rules[r].category] = NoTx

\* LIMIT 1 ... SKIP LOCKED: the first due rule both of whose rows can be
\* locked, if there is one.
NextDue(runAt) ==
  { r \in Rule :
      /\ Due(r, runAt) /\ Lockable(r)
      /\ \A s \in Rule : Due(s, runAt) /\ Lockable(s) /\ s # r => Before(r, s) }

\* Rules passed over on the way to r because their category was locked.  Their
\* own row had been locked by then, and stays so until the transaction ends.
PassedOver(r, runAt) ==
  { s \in Rule : Due(s, runAt) /\ RuleUnlocked(s) /\ Before(s, r) }

\* Variant with a bug: FOR UPDATE OF c, the rule itself is not locked.
LockDue_CategoryOnly(w, r, runAt) ==
  /\ UNCHANGED rowLock
  /\ categoryLock' = [categoryLock EXCEPT ![rules[r].category] = w]

LockDue(w, r, runAt) ==
  /\ rowLock' = [s \in Rule |->
                   IF s = r \/ s \in PassedOver(r, runAt) THEN w ELSE rowLock[s]]
  /\ categoryLock' = [categoryLock EXCEPT ![rules[r].category] = w]

\* COMMIT, ROLLBACK and the end of the session release every lock.
ReleaseLocks(w) ==
  /\ rowLock' = [r \in Rule |-> IF rowLock[r] = w THEN NoTx ELSE rowLock[r]]
  /\ categoryLock' =
       [c \in Category |-> IF categoryLock[c] = w THEN NoTx ELSE categoryLock[c]]

-----------------------------------------------------------------------------
(* Writes                                                                  *)

\* Variant with a bug: no unique index, a plain INSERT.
InsertsRow_NoIndex(r, d) == TRUE

\* InsertGeneratedTransaction: ON CONFLICT (recurring_transaction_id,
\* transaction_date) DO NOTHING, and inserted says whether a row was written.
InsertsRow(r, d) == generated[r][d] = 0

\* UPDATE recurring_transactions and its RI check: the statement waits while
\* the row is locked, and for the category's key when the category changes.
CanWriteRule(r, category) ==
  /\ RuleUnlocked(r)
  /\ Exists(r) /\ rules[r].category # category => categoryLock[category] = NoTx

\* DELETE FROM transactions WHERE id = ...: the user removes one generated row.
DeleteGenerated(r, d) ==
  /\ generated[r][d] > 0
  /\ generated' = [generated EXCEPT ![r][d] = @ - 1]
  /\ UNCHANGED <<rules, nextId, locks, today, history>>

\* ON DELETE SET NULL: the generated rows survive their rule as rows of no rule,
\* which neither the unique index nor the worker ever looks at again.
DetachGenerated(r) ==
  generated' = [generated EXCEPT ![r] = [d \in Day |-> 0]]

\* The clock moves on by any number of days: nothing in the program waits for
\* midnight, and a worker may be down for longer than a day.
PassTime ==
  /\ \E d \in Day : d > today /\ today' = d
  /\ UNCHANGED <<tables, locks, history>>

-----------------------------------------------------------------------------
(* What a well-formed rule is.  The schema checks none of this.            *)

WellFormed(row) ==
  /\ row.active <=> row.next # NoDate
  /\ row.active => row.start <= row.next
  /\ row.active /\ row.end # NoDate => row.next <= row.end

\* Every rule is either scheduled (active with a next_run_date inside
\* start_date..end_date) or stopped (inactive, next_run_date NULL), whatever
\* the API and the workers write over each other: Update derives the row from
\* a read it makes outside any transaction, and AdvanceSchedule writes two of
\* the same columns.
RuleWellFormed == \A r \in Rule : Exists(r) => WellFormed(rules[r])

\* README.md:213: at most one generated transaction per rule and date.
NoDuplicateGeneration == \A r \in Rule, d \in Day : generated[r][d] <= 1
=============================================================================
