--------------------------- MODULE RecurringSystem --------------------------
(***************************************************************************)
(* The recurring engine: worker processes, API requests and the clock over *)
(* one database, which starts empty.                                       *)
(***************************************************************************)
EXTENDS RecurringWorker, RecurringService

vars == <<storeVars, workerVars, serviceVars>>

Init ==
  /\ rules = [r \in Rule |-> NoRow]
  /\ nextId = 1
  /\ StoreInit
  /\ WorkerInit
  /\ ServiceInit

Next ==
  \/ \E w \in Worker : WorkerNext(w) /\ UNCHANGED serviceVars
  \/ \E c \in Client : ServiceNext(c) /\ UNCHANGED workerVars
  \/ /\ PassTime \/ \E r \in Rule, d \in Day : DeleteGenerated(r, d)
     /\ UNCHANGED <<workerVars, serviceVars>>

Spec == Init /\ [][Next]_vars

TypeOK == StoreTypeOK /\ WorkerTypeOK /\ ServiceTypeOK

-----------------------------------------------------------------------------
(* Fairness: the worker process is restarted and its ticker fires; a       *)
(* database call that keeps being made does not fail forever; a statement  *)
(* waiting for a row lock is woken when the lock is released (PostgreSQL   *)
(* queues it, and SKIP LOCKED never overtakes a queue); the read after an  *)
(* UPDATE waits for nothing; Recover answers for a handler that panicked.  *)
(* Nothing is asked of new requests, of the clock, or of failures and      *)
(* crashes.                                                                *)
Fairness ==
  /\ \A w \in Worker :
       /\ WF_vars(RunOnce(w) /\ UNCHANGED serviceVars)
       /\ SF_vars((GetNextDue(w) \/ NothingDue(w)) /\ UNCHANGED serviceVars)
       /\ SF_vars(InsertGeneratedTransaction(w) /\ UNCHANGED serviceVars)
       /\ SF_vars(AdvanceSchedule(w) /\ UNCHANGED serviceVars)
       /\ SF_vars(Commit(w) /\ UNCHANGED serviceVars)
  /\ \A c \in Client :
       /\ SF_vars((InsertRule(c) \/ UpdateWrite(c) \/ DeleteRule(c)) /\ UNCHANGED workerVars)
       /\ WF_vars(UpdateReread(c) /\ UNCHANGED workerVars)
       /\ WF_vars(Recover(c) /\ UNCHANGED workerVars)

FairSpec == Spec /\ Fairness

-----------------------------------------------------------------------------
(* Properties                                                              *)

\* The engine implements PostingLedger: a worker's transaction, however it is
\* interleaved with requests, other workers and failures, takes effect as one
\* PostRun step or not at all, and no request leaves a malformed rule.
Ledger == INSTANCE PostingLedger
PostsAtomically == Ledger!LedgerSpec

\* A run that is due does not stay due: it is posted and the rule moves on, or
\* the user stops, moves or deletes the rule.  In particular a run that is in
\* the ledger already cannot wedge its rule, nor an early rule the later ones.
DueRunsLeaveTheQueue ==
  \A r \in Rule, d \in Day :
    (Due(r, today) /\ rules[r].next = d)
      ~> ~(Exists(r) /\ rules[r].active /\ rules[r].next = d)

\* A request that has begun ends, whether its INSERT, UPDATE or DELETE waits for a
\* worker's locks or its handler panics: no worker leaves a lock behind.
RequestsReturn == \A c \in Client : call[c] # "idle" ~> call[c] = "idle"
=============================================================================
