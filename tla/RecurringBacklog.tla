-------------------------- MODULE RecurringBacklog --------------------------
(***************************************************************************)
(* Workers on the rules a quiet API left behind: no requests but the       *)
(* deletion of generated transactions, while the clock may jump by days.   *)
(***************************************************************************)
EXTENDS RecurringWorker

vars == <<storeVars, workerVars>>

\* A rule as Create leaves it: scheduled, for its start_date.
FreshRow ==
  { row \in [ category : Category, frequency : Frequency, start : InputDate,
              end : InputDate \cup {NoDate}, next : InputDate, active : {TRUE} ] :
      row.next = row.start /\ WellFormed(row) }

Init ==
  /\ rules \in [Rule -> FreshRow]
  /\ nextId = MaxRule + 1
  /\ StoreInit
  /\ WorkerInit

Next ==
  \/ \E w \in Worker : WorkerNext(w)
  \/ /\ PassTime \/ \E r \in Rule, d \in Day : DeleteGenerated(r, d)
     /\ UNCHANGED workerVars

Spec == Init /\ [][Next]_vars

\* A restarted process, a ticker that fires, and a database whose calls do not
\* fail forever.
FairSpec ==
  /\ Spec
  /\ \A w \in Worker :
       /\ WF_vars(RunOnce(w))
       /\ SF_vars(GetNextDue(w) \/ NothingDue(w))
       /\ SF_vars(InsertGeneratedTransaction(w))
       /\ SF_vars(AdvanceSchedule(w))
       /\ SF_vars(Commit(w))

-----------------------------------------------------------------------------
(* Properties                                                              *)

\* Every run that is due is posted in the end, whichever other rules are due
\* before it, share its category or belong to the same worker's batch.
BacklogDrains ==
  \A r \in Rule, d \in Day :
    (rules[r].active /\ d <= today /\ d \in Occurrences(rules[r].frequency, rules[r].start)
       /\ (rules[r].end = NoDate \/ d <= rules[r].end))
      ~> d \in posted[r]
=============================================================================
