--------------------------- MODULE RecurringWorker --------------------------
(***************************************************************************)
(* The worker process (worker/processor.go, cmd/worker): Runner polls on a *)
(* ticker, ProcessDue posts up to BatchSize due rules, each in a database  *)
(* transaction of its own.  Several workers may share one database.        *)
(*                                                                         *)
(* A transaction's writes are invisible until COMMIT, so the model keeps   *)
(* them with the worker and applies them there: what InsertGenerated-      *)
(* Transaction found is inserted[w], what AdvanceSchedule writes follows   *)
(* from item[w].                                                           *)
(***************************************************************************)
EXTENDS RecurringStore

CONSTANT BatchSize            \* WORKER_BATCH_SIZE

ASSUME BatchSizeAssumption == BatchSize \in Nat \ {0}

VARIABLES
  pc,           \* the call ProcessDue makes next; "idle" between two cycles and
                \* while the process is down
  runAt,        \* the day ProcessDue read when the cycle began
  iteration,    \* its loop variable i
  item,         \* the rule it loaded and locked, as read: [id, row]
  inserted      \* RowsAffected() > 0 of the INSERT

workerVars == <<pc, runAt, iteration, item, inserted>>

NoItem == [id |-> 0, row |-> NoRow]
Item == [id : Rule, row : RuleRow] \cup {NoItem}

WorkerTypeOK ==
  /\ pc \in [Worker -> {"idle", "select", "insert", "advance", "commit"}]
  /\ runAt \in [Worker -> Day]
  /\ iteration \in [Worker -> 0..(BatchSize - 1)]
  /\ item \in [Worker -> Item]
  /\ inserted \in [Worker -> BOOLEAN]

WorkerInit ==
  /\ pc = [w \in Worker |-> "idle"]
  /\ runAt = [w \in Worker |-> 0]
  /\ iteration = [w \in Worker |-> 0]
  /\ item = [w \in Worker |-> NoItem]
  /\ inserted = [w \in Worker |-> FALSE]

\* The worker has a transaction that holds a rule.
InTx(w) == pc[w] \in {"insert", "advance", "commit"}

-----------------------------------------------------------------------------
(* The end of a transaction and of a cycle                                 *)

\* The transaction is over and pc moves on to at.
Leave(w, at) ==
  /\ pc' = [pc EXCEPT ![w] = at]
  /\ item' = [item EXCEPT ![w] = NoItem]
  /\ inserted' = [inserted EXCEPT ![w] = FALSE]

\* ProcessDue returns.
EndCycle(w) ==
  /\ Leave(w, "idle")
  /\ runAt' = [runAt EXCEPT ![w] = 0]
  /\ iteration' = [iteration EXCEPT ![w] = 0]

-----------------------------------------------------------------------------
(* Runner                                                                  *)

\* Start runs a cycle at once, also after a restart, and the ticker another one at
\* every tick.  The day is read here, once for the whole cycle.
RunOnce(w) ==
  /\ pc[w] = "idle"
  /\ pc' = [pc EXCEPT ![w] = "select"]
  /\ runAt' = [runAt EXCEPT ![w] = today]
  /\ UNCHANGED <<storeVars, iteration, item, inserted>>

-----------------------------------------------------------------------------
(* ProcessDue                                                              *)

\* BeginTx and GetNextDueForUpdate found a rule.
GetNextDue(w) ==
  /\ pc[w] = "select"
  /\ \E r \in NextDue(runAt[w]) :
       /\ LockDue(w, r, runAt[w])
       /\ item' = [item EXCEPT ![w] = [id |-> r, row |-> rules[r]]]
  /\ pc' = [pc EXCEPT ![w] = "insert"]
  /\ UNCHANGED <<tables, today, history, runAt, iteration, inserted>>

\* pgx.ErrNoRows: Rollback, and the cycle is over.
NothingDue(w) ==
  /\ pc[w] = "select"
  /\ NextDue(runAt[w]) = {}
  /\ EndCycle(w)
  /\ UNCHANGED storeVars

\* Variant with a bug: no ON CONFLICT clause, so a run that is there is an error.
InsertGeneratedTransaction_Conflicts(w) ==
  /\ pc[w] = "insert"
  /\ InsertsRow(item[w].id, item[w].row.next)
  /\ inserted' = [inserted EXCEPT ![w] = TRUE]
  /\ pc' = [pc EXCEPT ![w] = "advance"]
  /\ UNCHANGED <<storeVars, runAt, iteration, item>>

InsertGeneratedTransaction(w) ==
  /\ pc[w] = "insert"
  /\ inserted' = [inserted EXCEPT ![w] = InsertsRow(item[w].id, item[w].row.next)]
  /\ pc' = [pc EXCEPT ![w] = "advance"]
  /\ UNCHANGED <<storeVars, runAt, iteration, item>>

\* Variant with a bug: end_date taken as exclusive.
NextSchedule_EndExclusive(row) ==
  LET next == NextRunDate[row.frequency][row.next]
  IN  IF row.end # NoDate /\ next >= row.end
        THEN [next |-> NoDate, active |-> FALSE]
        ELSE [next |-> next, active |-> TRUE]

\* nextSchedule: the run after runDate, or the end of the rule.
NextSchedule(row) ==
  LET next == NextRunDate[row.frequency][row.next]
  IN  IF row.end # NoDate /\ next > row.end
        THEN [next |-> NoDate, active |-> FALSE]
        ELSE [next |-> next, active |-> TRUE]

\* Variant with a bug: the UPDATE runs on the pool instead of the transaction.
AdvanceSchedule_OutsideTx(w) ==
  /\ pc[w] = "advance"
  /\ pc' = [pc EXCEPT ![w] = "commit"]
  /\ rules' = [rules EXCEPT ![item[w].id] =
                 [@ EXCEPT !.next = NextSchedule(item[w].row).next,
                           !.active = NextSchedule(item[w].row).active]]
  /\ UNCHANGED <<nextId, generated, locks, today, history, runAt, iteration, item, inserted>>

AdvanceSchedule(w) ==
  /\ pc[w] = "advance"
  /\ pc' = [pc EXCEPT ![w] = "commit"]
  /\ UNCHANGED <<storeVars, runAt, iteration, item, inserted>>

\* What COMMIT makes visible: the generated row, if one was inserted, and the
\* two columns AdvanceSchedule updated WHERE id = item.id.
Publish(w) ==
  LET r == item[w].id
      row == item[w].row
  IN  /\ IF inserted[w]
           THEN /\ generated' = [generated EXCEPT ![r][row.next] = @ + 1]
                /\ posted' = [posted EXCEPT ![r] = @ \cup {row.next}]
           ELSE UNCHANGED <<generated, posted>>
      /\ IF Exists(r)
           THEN rules' = [rules EXCEPT ![r] =
                  [@ EXCEPT !.next = NextSchedule(row).next,
                            !.active = NextSchedule(row).active]]
           ELSE UNCHANGED rules
      /\ ReleaseLocks(w)
      /\ UNCHANGED <<nextId, today, origin>>

\* Variant with a bug: i <= batchSize.
Commit_BatchPlusOne(w) ==
  /\ pc[w] = "commit"
  /\ Publish(w)
  /\ IF iteration[w] < BatchSize
       THEN /\ Leave(w, "select")
            /\ iteration' = [iteration EXCEPT ![w] = @ + 1]
            /\ UNCHANGED runAt
       ELSE EndCycle(w)

Commit(w) ==
  /\ pc[w] = "commit"
  /\ Publish(w)
  /\ IF iteration[w] + 1 < BatchSize
       THEN /\ Leave(w, "select")
            /\ iteration' = [iteration EXCEPT ![w] = @ + 1]
            /\ UNCHANGED runAt
       ELSE EndCycle(w)

\* COMMIT took effect and its answer was lost: tx.Commit returns an error, the
\* Rollback that follows has nothing to roll back, ProcessDue returns the error.
CommitUnknown(w) ==
  /\ pc[w] = "commit"
  /\ Publish(w)
  /\ EndCycle(w)

\* Variant with a bug: an error path returns without tx.Rollback.
RollBack_Leaks(w) ==
  /\ pc[w] # "idle"
  /\ EndCycle(w)
  /\ UNCHANGED storeVars

\* Variant with a bug: the INSERT runs on the pool instead of the transaction.
RollBack_InsertStays(w) ==
  /\ pc[w] # "idle"
  /\ IF inserted[w]
       THEN /\ generated' = [generated EXCEPT ![item[w].id][item[w].row.next] = @ + 1]
            /\ posted' = [posted EXCEPT ![item[w].id] = @ \cup {item[w].row.next}]
       ELSE UNCHANGED <<generated, posted>>
  /\ ReleaseLocks(w)
  /\ EndCycle(w)
  /\ UNCHANGED <<rules, nextId, today, origin>>

\* Any call of the iteration fails: Rollback, ProcessDue returns the error, and
\* runOnce logs it.  Or the process dies, or is told to stop, in mid-cycle, and
\* the server rolls back what is open.
RollBack(w) ==
  /\ pc[w] # "idle"
  /\ ReleaseLocks(w)
  /\ EndCycle(w)
  /\ UNCHANGED <<tables, today, history>>

WorkerNext(w) ==
  \/ RunOnce(w)
  \/ GetNextDue(w)
  \/ NothingDue(w)
  \/ InsertGeneratedTransaction(w)
  \/ AdvanceSchedule(w)
  \/ Commit(w)
  \/ CommitUnknown(w)
  \/ RollBack(w)

-----------------------------------------------------------------------------
(* Properties                                                              *)

\* Whatever the API does meanwhile, the rule a worker read is the rule the
\* database still has when it computes the next run from it and commits: the
\* row lock keeps Update, Delete and the other workers out.  nextSchedule uses
\* the frequency and the end date of that copy.
SnapshotFresh ==
  \A w \in Worker : item[w] # NoItem => rules[item[w].id] = item[w].row

\* Row locks and transactions agree: no lock outlives its transaction on any of
\* ProcessDue's return paths, and a loaded rule and its category are locked.
LocksMatchTransactions ==
  /\ \A r \in Rule : rowLock[r] # NoTx => InTx(rowLock[r])
  /\ \A c \in Category : categoryLock[c] # NoTx => InTx(categoryLock[c])
  /\ \A w \in Worker : InTx(w) =>
       /\ item[w] # NoItem
       /\ rowLock[item[w].id] = w
       /\ categoryLock[item[w].row.category] = w

\* The days of the schedule that starts at first: f's runs from there on.
Occurrences(f, first) ==
  LET isRun[d \in Day] ==
        \/ d = first
        \/ \E p \in Day : p < d /\ isRun[p] /\ NextRunDate[f][p] = d
  IN  { d \in Day : isRun[d] }

\* Since the API last wrote the rule, the worker has posted every run before
\* next_run_date, or every run up to end_date once the rule has ended: failed
\* transactions, lost answers, crashes, days of downtime and a second worker
\* leave no gap.  (origin is NoDate while the rule is not scheduled.)
EveryOccurrencePosted ==
  \A r \in Rule : Exists(r) /\ origin[r] # NoDate =>
    \A d \in Occurrences(rules[r].frequency, origin[r]) :
      d \in posted[r] \/ IF rules[r].active
                          THEN d >= rules[r].next
                          ELSE rules[r].end # NoDate /\ d > rules[r].end

\* While no request writes a rule (RecurringBacklog), a generated transaction the
\* user has deleted is not generated again: a retry after a failure or a lost
\* answer never repeats a run that was committed.
DeletedStaysDeleted ==
  [][\A r \in Rule, d \in Day :
       d \in posted[r] /\ generated[r][d] = 0 => generated'[r][d] = 0]_generated
=============================================================================
