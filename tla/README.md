# Formal models of expand-log

expand-log is an expense tracker: an HTTP API (`src/cmd/api`) and a worker
process (`src/cmd/worker`) over one PostgreSQL database. These modules model its
three parts with behaviour of their own: the *recurring engine*, in which workers
turn due rules ("pay rent monthly") into transactions while the user edits the
rules; the *ledger*, in which concurrent requests edit categories, transactions
and budgets and read reports; and *authentication* behind a rate limiter. TLC
checks them on small instances, and TLAPS proves the safety properties of the
passing runs for every instance; liveness is model-checked only.

## Inventory

| Component | State | Operations | What must be right |
|---|---|---|---|
| recurring worker (`internal/worker`, `cmd/worker`) | one cycle: day, iteration, open transaction, loaded rule | `Start`, `runOnce`, `ProcessDue`, `nextSchedule` | every due run posted, once; no lock outlives its transaction; a failure leaves no trace |
| recurring repository (`repository/recurring.go`, `migrations/001_init.up.sql`) | `recurring_transactions`, generated rows of `transactions`, row locks | the statements behind API and worker, `FOR UPDATE SKIP LOCKED`, `ON CONFLICT` | unique run per rule and date; who waits for whom |
| recurring service and handler | none between requests; `Update` is four statements (load, category, UPDATE, re-read) | `Create`, `Update`, `Delete`, `List` | a rule is scheduled within its dates or stopped; every request ends in a reply |
| schedule (`pkg/schedule`) | none | `NextRunDate`, `MonthBounds` | runs move forward; months partition the days |
| manual transactions | `transactions` | `Create` (one a minute), `Update`, `Delete`, filtered `List` | the limit under concurrency; generated rows stay generated; pages of a list partition it |
| categories, budgets | `categories`, `budgets` | create, update, delete, list | references stay within the user; one budget per category and month; RESTRICT |
| reports | none; several SELECTs a request | `MonthlySummary`, `DashboardSummary` | month limits; totals that agree with each other |
| accounts and tokens | `users`, JWT | `Register`, `Login`, middleware | one account per address, answers that are true, tokens that end as told |
| rate limiter (`handler/rate_limit.go`) | timestamps per key, in memory | `allow`, `reset` | never more than the limit in a window; a true `retry_after` |
| money, pagination | none | `ParseDecimal`, `Parse`, `BuildMeta` | int64 width, page count |
| start-up (`platform/postgres`) | retry counter | `OpenWithRetry` | bounded retries |
| config, logging, tracing, router, mapper, responses | none | wiring and formatting | not modelled |

API and worker never call each other. They interact only through rows and row
locks. In the recurring engine, `GetNextDueForUpdate` locks the rule *and its category* (`FOR UPDATE`
without `OF`) and skips what is locked; an API write to a locked rule waits; an
API read does not. Everywhere else a request is a chain of single statements with
no transaction around them, so every check may be outdated by the next
statement, and only a constraint of the schema still holds. The limiter is the one
piece of shared memory. The hard behaviours are therefore interleavings of
statements, a process or call that fails between two of them, an answer that is
lost, reads that are outdated when used, days of downtime, and dates at the
edges of months and of `end_date`. `PROJECT.json` lists them line by line.

## Modules

| Module | Models |
|---|---|
| `RecurringStore` | the tables, the row locks, the clock; one operator per SQL statement |
| `RecurringWorker` | the worker: one action per call `ProcessDue` makes, plus failure and lost answer |
| `RecurringService` | the API: `Create` and `Delete`, whose statement may have to wait, the load, the UPDATE and the re-read of `Update`, the date rules of `validateRecurringInput` |
| `RecurringSystem` | workers, requests and clock composed, with fairness; starts from an empty database |
| `RecurringBacklog` | workers and clock over rules that exist already, no requests on rules |
| `PostingLedger` | abstract specification: what the engine promises, without workers, locks or requests |
| `Calendar` | `pkg/schedule` with real dates, and the month limits of the report queries |
| `LedgerStore` | the tables of the ledger with their constraints; one operator per INSERT and per condition |
| `LedgerRequests` | requests in flight: accept, next statement, re-read, reply |
| `Categories`, `ManualTransactions`, `Budgets` | the services of that name, one action per statement |
| `Reports` | the reads of several statements: monthly summary, transaction list |
| `LedgerSystem` | the ledger composed, with the requests on rules and the worker as it sees them, failures and the clock |
| `LedgerBook` | abstract specification: entries under headings, without requests or tables |
| `RateLimit` | the limiter's functions on one map |
| `RateLimitCalls` | concurrent calls of the limiter, with late clock readings |
| `Accounts` | the users table, validation, tokens |
| `AuthSystem` | `Register` and `Login` behind the limiter, with failures and restarts |
| `Registry` | abstract specification: registration and login in one step each |
| `Amounts` | `ParseDecimal` and the bounds check on integers of limited width |
| `MC...` | operators and symmetry for the small instances |
| `DataLemmas` | lemmas (TLAPS): induction over the naturals, the loop that prunes stamps, sums over finite sets |
| `RecurringProofs` | the engine's types, locks, fresh copies, well-formed rules, no duplicates (TLAPS) |
| `RecurringRefinementProofs` | the engine implements `PostingLedger`; no run is left out, and workers on their own repeat none (TLAPS) |
| `CalendarProofs` | runs move forward, one spill at most, months partition the days (TLAPS) |
| `LedgerProofs` | the ledger's types, owners, the rows of a client that waits, sums and pages (TLAPS) |
| `LedgerRefinementProofs` | the ledger implements `LedgerBook` (TLAPS) |
| `AuthProofs` | authentication's types, it implements `Registry`, tokens are honest (TLAPS) |
| `RateLimitProofs` | the limiter's types, its window and its advice (TLAPS) |

### How state and actions correspond to the code

* `rules[r]` is the row of `recurring_transactions` with id `r`, `NoRow` before
  the INSERT and after the DELETE. `generated[r][d]` counts the generated
  transactions of rule `r` dated `d`. `rowLock` and `categoryLock` say whose
  transaction holds a row `FOR UPDATE`. `today` is the UTC day of the clock.
* `pc[w]` names the call the worker makes next: `select` (`BeginTx`,
  `GetNextDueForUpdate`), `insert`, `advance`, `commit`. `runAt`, `iteration`,
  `item` and `inserted` are the variables of `ProcessDue`.
* A transaction's writes are kept with the worker and reach the tables in
  `Publish` at COMMIT. Nobody else can see or write these rows before: the rule
  is locked, and only the worker that holds it inserts rows for it.
* `RollBack` stands for each error return of `ProcessDue`, for the death of the
  process, and for shutdown (the context is cancelled and the server rolls back).
  `CommitUnknown` is a COMMIT that took effect while its answer was lost.
* `GetNextDue` picks the first due rule whose two rows can be locked. Rules it
  passes over because their category is locked stay row-locked (`PassedOver`):
  the row lock is taken before the category is found locked.
* `call[c]` is the statement a request makes next: `insert`, `write` (after load
  and validation), `reread` (after the UPDATE), `delete`; `panic` while `Recover`
  unwinds the handler. INSERT, UPDATE and DELETE wait while a worker holds what
  they need; the id is taken when the INSERT begins, and lost if it fails.
* Refused requests (`validation_error`, `not_found`) change nothing and are not
  actions; their conditions are guards of the accepted ones.
* Ledger: `at[q]` names the statement the request in slot `q` makes next; the part
  of a handler up to its first statement, and that statement, are one action
  (`CreateTransaction` ends with the category lookup), each further statement is
  one more. `who`, `target`, `input` and `memo` are the handler's variables.
  `panic` is a handler that reads through the `nil` its re-read returned.
  `RequestEnds` is any failing statement, a cancelled request, or `Recover`.
* `categories`, `transactions`, `budgets`, `rules` are the tables by id. The
  constraints are guards of the writes: `CategoryExists` the foreign key,
  `Referenced` RESTRICT, `BudgetFree` the unique constraint.
* `GenerateTransaction` is a worker's COMMIT, which the recurring modules take
  apart. Of a rule the ledger sees what the recurring modules leave out, its user,
  category and type: `CreateRule`, `UpdateRule` with the lookup of the category,
  the UPDATE and the re-read as further statements, and `DeleteRule`.
* Authentication: `at[q]` likewise. `stamp[q]` is the time `enforceAuthRateLimit`
  reads once and uses for both keys. `outcome[q]` is set when the answer is fixed.
* `posted`, `origin`, `hadType`, `author`, `moved`, `grants` and `lag` are history, never read by an action's guard.

### Abstractions

Recurring engine: one user, as every statement is scoped by `user_id`. Amount, note and type travel
unchanged and are left out, and so are the checks on them and the owner, existence
and type of the category, which are in the ledger. All processes read the same UTC day. `SELECT ... FOR UPDATE
SKIP LOCKED` and each API statement are atomic; an API statement that waits for a
category's key is modelled as waiting before it takes its own row lock. The
`created` counter is only logged.

Ledger: a date is its month, a name one of a few, and notes, the amounts of
budgets and rules, and the limits on dates and lengths are left out. A sequence is
a counter per table; a failed INSERT does not use up an id. The dates of a rule are
in the recurring modules. The history `hadType` lets the abstract
specification say that an entry was made under a type its category has had.

Authentication: a password hash is its password, a token its claims. `Normal`
stands for trimming and lower case. The limiter's keys of an action share nothing,
so `RateLimitCalls` has one.

## Runs

| Run | Shows |
|---|---|
| `calendar` | Real dates, starts on every day of 2023, 2024 and 2099, 26 runs each. Next run dates lie one period later; a monthly rule spills over at most one short month in its life and stays on the new day; each day is in exactly one month's report. |
| `recurring_backlog` | Two workers, two rules, shared or different categories, batches of two, four days, jumps of the clock, deletions of generated rows. Every occurrence before `next_run_date` (or up to `end_date`) has been posted; a deleted generated row is not generated again; no lock outlives its transaction. |
| `backlog_liveness` | Under fairness every due run of every rule is posted, although rules of one category exclude each other and calls fail. |
| `recurring_system` | Two clients with three accepted requests, one worker, one rule, two categories, three days. Rules are well-formed, runs unique, the worker's copy fresh, no run of a rule is left out since the API last wrote it, and the engine implements `PostingLedger` (`PostsAtomically`). |
| `system_liveness` | Two clients, two rules of one category, due on one day. Under fairness every request ends, whether its INSERT, UPDATE or DELETE waits for the worker's locks or its handler panics because the other client deleted the rule; and a due run leaves the queue, even if a request moved its rule back and its row exists already, without wedging the rule behind it. |
| `ledger` | Two users, two request slots, five calls, two categories, one month, two transactions, two budgets, one rule, three instants. Rows refer to the user's own categories and rules although check and write are apart, the `Update` of a rule included, whose new category may be deleted, replaced or retyped in between; the transactions that a client waiting for its replies created, and that are still there, lie a minute apart; a summary adds up, and budgets never exceed it, whatever types the categories have taken on; the pages of a list show each row once; and the tables implement `LedgerBook`: every entry is made in one step that was allowed, generated ones never change, none comes back. |
| `manual_limit` | Violation: two requests of a user create two transactions in one minute. |
| `category_names` | Violation: two categories of one name and type. |
| `auth` | Two spellings of one address, two passwords, two requests, three calls, four instants. Registration and login implement `Registry`; tokens work for whom and as long as the reply says. |
| `rate_limit` | Three callers, six calls, a quota of two in four ticks, seven instants. The quota holds in every stretch of the window minus the longest delay between clock and mutex; `retry_after_seconds` plus a second is enough. |
| `amount_maximum` | Violation: an amount above the maximum wraps into the range. |
| `update_reply` | Violation: `Update` against `Delete` ends in a nil dereference (see Findings). |

Bounds. `MaxRule`, `LastDay`, `InputDate`, `MaxCalls`, `MaxRecurringPast`,
`MaxRecurringFuture`, `BatchSize`, `StartYear`, `MaxRuns` bound the instances.
Three accepted requests let one create a rule and two others meet the worker on
it: a lost update, a rule moved back over posted days, a pause and a resume, a
deletion under an update. In `system_liveness` they are a `Create`, an `Update`
and the `Delete` that makes its handler panic, or two rules and an `Update` that
moves one back; one day is enough, as locks come and go with each cycle and the
catching up over days is `backlog_liveness`. Two workers and two rules are the
least with which `SKIP LOCKED`, the category lock and passed-over rules matter;
requests and two workers together need no more, because the proofs cover any
number of each. The recurring modules take `NextRunDate` as a constant; the
instances use a day and a "week" of two days, so that several periods, an
`end_date` on and between runs, and downtime fit in four days. The one fact they
need, that the next run is later, is what `Calendar` shows of the real function.

In the ledger `MaxCalls`, `MaxCategory`, `MaxTransaction`, `MaxBudget`, `MaxRule`
and `LastTick` bound the instance. Five calls are enough for the longest stories:
a category, a row (a rule, a transaction, a budget), a second category, an Update
that moves the row onto it, and the deletion of that category between the Update's
check and its write; two categories, two budgets and an Update that moves one onto
the other; a category, a budget on it, a change of the category's type, and a row
of the new type; a category, two rows, and a list. One month is enough as months
are only compared for equality and order, and two categories and the ids make
budgets collide and rows tie in a list; the violation runs use two, and the proofs
hold for any. Two slots are enough for every race between a check and a write, as
each such race is between one request and one statement of another. One amount is
enough as sums are only compared with sums of the same rows. A summary, and a
list, is compared with what it should show only while no transaction of its user
has changed between its statements (`moved`): otherwise the code promises nothing,
and it shows.

The limiter needs a quota of two: with one, a late stamp always meets a full
window. Seven instants and a window of four let a stamp arrive after a later
one has pruned what it should have been counted against; without the allowance
for `lag` the property fails there. `Amounts` uses 12 bits in place of 64, and a
maximum in proportion.

Deadlock is checked in the recurring runs except `calendar`, which stops after
`MaxRuns`; in the others the bounds on calls and clock let everything stop.

Fairness. Weak for `RunOnce`: the process is restarted (`docker-compose.yml`) and
its ticker fires. Strong for the worker's database calls: each can fail
(`RollBack` is never required nor excluded), but a call that is made again and
again succeeds at last. Strong for the statement a request may wait with
(`InsertRule`, `UpdateWrite` or `DeleteRule`): PostgreSQL queues those that wait
for a row and `SKIP LOCKED` never overtakes a queue. Weak for the re-read, which
waits for nothing, and for `Recover`, which always answers. Nothing is assumed of
new requests, of the clock, or of failures.

## Proofs

For all numbers of rules, categories, workers and clients, any batch size and any
schedule whose runs move forward, TLAPS proves of `RecurringSystem!Spec`:

1. `SpecTypeOK`. `TypeOK` is not inductive: `Publish` applies `NextRunDate`,
   defined on days only, to the run being posted. `TypeInv` adds that this run is
   an active rule's and no later than the cycle's day (`ItemDue`), and that a
   `Create` or an `Update` has a row to write (`RowPending`).
2. `SpecLocksMatchTransactions`, from `LockInv`, which adds that a rule is loaded
   only inside a transaction. Requests leave the locks alone; a worker takes only
   free locks and releases all of its own.
3. `SpecSnapshotFresh`, from `LockInv` and `FreshInv`: ids beyond the sequence
   have no row, and neither has an id that an INSERT has taken, which no other
   INSERT has (`PendingIds`), so `Create` cannot land on a held rule; the lock keeps
   `Update`, `Delete` and other workers out.
4. `SpecRuleWellFormed`, from all of these and the row pending in a `Create` or an
   `Update` being well-formed (`FormInv`). `NewRowWellFormed` is the lemma about
   `validateRecurringInput`, `PublishWellFormed` the one about `nextSchedule`.
5. `SpecNoDuplicateGeneration`, from `OnceInv`: a row inserted and not yet
   committed is still missing in the table, since only the holder of the rule's
   lock inserts rows for it.
6. `SpecPostsAtomically`, the refinement, from `EngineInv`: all of the above and
   the history invariants `HistoryInv` (a cycle's day has come, a generated row
   has been posted, an INSERT that wrote nothing met a posted run, an id whose row
   is not there yet has no postings). `PublishPosts` maps a COMMIT to `PostRun`,
   `ServicePosts` maps requests to `AddRule`, `EditRule`, `RemoveRule`; every other
   step stutters or is a deletion or the clock.
7. `SpecEveryOccurrencePosted`, from `NoGap`: for a rule the API has scheduled, the
   run it waits for belongs to its schedule (`Complete`), and every run before it
   has been posted. That the engine implements `PostingLedger` leaves two kinds of
   step to look at: a posting (`RunPosted`) and a request that writes a row
   (`RowWritten`). `Occurrences` is computed day by day; `OccurrencesAre` shows it is
   the least set closed under the schedule, and `RunsInOrder` that no run lies
   between one and the next.
8. `BacklogDeletedStaysDeleted`, `BacklogEveryOccurrencePosted` and
   `BacklogLocksMatchTransactions`, about `RecurringBacklog!Spec`. Its steps are the
   engine's with no request under way (`BacklogActions`), so the invariants above
   hold of it from its own initial states too, and `PostedBehind` adds that
   the days posted lie before the run a rule waits for. The hypothesis `[]ServiceInit` gives the API's variables, which
   the backlog does not have, their first values for good; it says nothing of the
   backlog's own.

The assumptions are `StoreAssumption`, `NextRunDateAssumption`, `NoRowAssumption`,
`BatchSizeAssumption` and `ServiceAssumption`; the runs evaluate them.

For all years and numbers of runs, from `CalendarAssumption`, TLAPS proves of
`Calendar!Spec`:

9. `SpecRunsMoveForward`, `SpecMonthlySkipsAtMostOnce`, `SpecMonthsPartitionDays`.
   `MonthlySkipsAtMostOnce` is nearly inductive: `Schedule` adds that the dates are
   dates. `DateOfDay` inverts `DayNumber` for every day of the calendar (of the years
   around a day, the last that has begun), and from it `AddDays` and `AddMonth` say
   what `AddDate` returns: a month is added, and a day that the month does not have
   spills into the next one (`Spill`).

For all numbers of users, request slots, rows, months, amounts and calls, TLAPS
proves of `LedgerSystem!Spec`:

10. `SpecLedgerTypeOK`. `LedgerTypeOK` speaks of the tables; an INSERT is typed
    because of what its request carries, so `TypeInv` adds `Carries`: at which
    statement a request has which user, target and input.
11. `SpecReferencesOwned`. The owner of a category is looked up at one statement and
    the row is written at a later one, under a foreign key that does not look at the
    user. `OwnInv` adds what makes up for it: a checked input names a category id
    that has been allotted and, while its row exists, is the user's (`Mine`). Ids are
    never allotted twice (`Allotted`) and no step changes a row's user
    (`OwnersKept`), so this holds at the write. The `Update` of a rule is one such write.
12. `SpecClientRowsApart`. `HasRecentManualTransaction` and the INSERT are
    statements apart. `Waited` says of a request about to insert that no row it has
    written itself is recent, as only it could have written one since its check and
    the clock only moves on; `RowsApart` is the property itself. It is about the rows
    that are still there, as the check is: it bounds what a waiting client keeps, not
    how often it creates: two requests at once break the limit (`manual_limit`), and a
    client that deletes what it created may create again at once.
13. `SpecSummaryAddsUp`, `SpecBudgetsWithinExpenses`, `SpecPagesPartitionList`.
    `FreshReads`: what the first statement of a read returned is still so, unless a
    row of its user moved (`Unmoved`). `SpendingAddsUp` splits the month's expenses by
    category, which `ReferencesOwned` makes complete; `BudgetsSpend` takes the budgets
    as some of the categories, which the unique index keeps apart (`BudgetsApart`); `PagesPartition`
    counts the rows listed before a row and divides by the page size (`Multiples`).
14. `SpecImplementsBook`, the refinement. `BookInv` adds that a row or a checked
    input has a type its category has had, although the category's type may have
    changed since, and that the row an `Update` is about to write is still the manual
    one it loaded. An `Update` of a rule amends an entry like that of a transaction does.
    `StepEffect` reduces the actions to twelve effects on the tables,
    `EffectKeeps` shows each keeps `BookInv`, and the `...EffectsMap` lemmas show each
    is one step of the book.

They assume `LedgerAssumption`, `LedgerNoRowAssumption`, `BookNothingAssumption` (the
mark of a missing row is neither a row nor a user nor an entry).

For all numbers of requests, addresses and accounts, any token lifetime and unit of
time, and whatever the limiter answers, TLAPS proves of `AuthSystem!Spec`:

15. `SpecImplementsRegistry`, the refinement. `RegistryInv` adds that emails in the
    table are unique (`UsersInv`; the unique index decides a lost race) and at which
    statement a request has a body and an answer (`RequestsInv`). `Created` shows
    that an INSERT adds one account and leaves every other as it was.
16. `SpecTokensHonest`, from `TokenInv`: a token names the only account of the email
    that was asked for, and its claim is `expires_at` cut by less than one second
    (`ClaimCut`).
17. `SpecTypeOK`. The `users` table is typed because of the body a request carries
    from its validation to the INSERT (`Carries`), and the limiter's lists stay within
    the limit whichever of its calls a request makes (`LimiterTyped`).

They assume `AccountsAssumption`, `AuthAssumption` and `RegistryNoneAssumption` (the
mark of a missing account is neither a password nor a request).

For all windows, limits, units of time, keys, callers and delays, from
`LimitAssumption` and `CallsAssumption`, TLAPS proves of `RateLimitCalls!Spec`:

18. `SpecTypeOK`, with the stamps a caller has read not being later than the clock.
19. `SpecWindowRespected`. A call's stamp is read before the mutex is taken, so a late
    stamp can come after a later one has pruned the list: the window is kept less the
    longest such delay (`lag`). `Remembered` says that pruning has forgotten no grant
    of the last `Window` ticks as the clock has them, and `EnterKeepsWindow` that a
    grant next to these stays within the limit. `grants` is the history of all grants.
20. `SpecRetrySuffices`, of every typed state: the stamps that survive the pruning at
    the time advised are fewer than the limit.

Induction over data. The theorems of the library that take an operator cannot be
used, so `DataLemmas` states induction for sets of numbers instead: every non-empty
set of naturals has a least element (`LeastNatural`, from the well-foundedness of
`<`), and a set that holds 0 and with every number the next one holds all of them
(`NaturalInduction`). What the limiter's loop keeps (`LaterKeeps`), and what
`SumFunction` of the community modules returns for every finite set (`SumTakes`,
`SumOfUnion`, `SumOfParts`), follow from it by naming the recursive function the fold
computes (`Rounds`, `Sums`) and showing that it exists.

Only model-checked: liveness (`BacklogDrains`, `DueRunsLeaveTheQueue`,
`RequestsReturn`), which is outside the prover's reach. The properties of the violation
runs do not hold, so there is nothing of them to prove.

## Findings

* `manual_limit`: `HasRecentManualTransaction` and the INSERT are separate
  statements; two concurrent requests both find nothing. (Also without concurrency:
  it looks at the rows that are left, so a client that deletes its transaction may
  create another at once, where `service/transaction.go:77` says "you can only create
  one manual transaction per minute".)
* `category_names`: `service/category.go:61` and the API tests
  (`postman/...json:646`) expect `category_exists` for a duplicate, but no unique
  index on `categories` exists.
* `amount_maximum`: `ParseDecimal` lets `whole * 100` wrap;
  "184467440737095516.17" is accepted as 0.01.
* `update_reply`: a rule deleted between `Update`'s UPDATE and its re-read makes
  `GetByIDForUser` return `(nil, nil)`; the service returns that as a success and
  `handler/recurring.go:106` reads `item.ID`. The client gets a 500 from
  `Recover` where `service/recurring.go:132` promises "recurring transaction not
  found".

Observed and neither promised nor forbidden by the repository: resuming a rule
posts the runs of its pause (and resurrects deleted ones); a concurrent `Update`
may move `next_run_date` back, which costs an idle pass over posted days; a rule
older than two years can no longer be edited or paused; a batch size of 0 is
accepted; a monthly rule of the 31st becomes one of the 1st. A category may change
its type under its transactions, rules and budgets; reports go by the rows.
`Create` and `Update` of transactions and budgets have the same re-read as
`update_reply`. A call the limiter refuses for its address still counts against
its email, which `retry_after_seconds` does not reflect. "1.-5" parses as 0.95.

## Plan

1. (done) the recurring engine, its abstract specification, the calendar, and the
   proofs above, the refinement included.
2. (done) the ledger with its abstract specification, the reports, authentication
   with its abstract specification, the limiter, amounts.
3. (done) proofs about the ledger, authentication, the limiter and the calendar,
   the refinements included. Next: that the calendar's `NextRunDate` satisfies
   `NextRunDateAssumption`, as a theorem.
4. Models: the dashboard's third read, names normalised by trimming, the bounded
   retries of `OpenWithRetry`.

## Not modelled

Configuration, logging, tracing, route wiring and response mapping (including
`FormatDecimal`, which only prints): no state and no decision. Password hashing,
token signing, the connection pool and the HTTP server are libraries. `List` and
`GetByID` operations of one statement only read. `OpenWithRetry` is a sequential
loop at start-up that ends in a connection or in the exit of the process. The
limiter never forgets a key that is not reset; the growth of its map is not
modelled.
