--------------------- MODULE RecurringRefinementProofs ---------------------
(***************************************************************************)
(* The recurring engine implements PostingLedger: every step of            *)
(* RecurringSystem is a step of the ledger or leaves it unchanged.  From   *)
(* that: no run is left out, and workers on their own repeat none.         *)
(***************************************************************************)
EXTENDS RecurringProofs, DataLemmas

-----------------------------------------------------------------------------
(* What the ledger's steps ask of the engine's history                     *)

\* A cycle's day has come.
DayHasCome == \A w \in Worker : runAt[w] <= today

\* A generated row has been posted, now or earlier.
RowsPosted == \A r \in Rule, d \in Day : generated[r][d] > 0 => d \in posted[r]

\* An INSERT that wrote nothing met a row: its run has been posted.
SkippedPosted ==
  \A w \in Worker : pc[w] \in {"advance", "commit"} /\ ~inserted[w] =>
    item[w].row.next \in posted[item[w].id]

\* Nothing has been posted for an id that is not in use yet.
NewIdsUnposted ==
  /\ \A r \in Rule : r >= nextId => posted[r] = {}
  /\ \A c \in Client : call[c] = "insert" => posted[callRule[c]] = {}

HistoryInv == DayHasCome /\ RowsPosted /\ SkippedPosted /\ NewIdsUnposted

LEMMA InitHistoryInv == Init => HistoryInv
  BY DEF Init, StoreInit, WorkerInit, ServiceInit, HistoryInv, DayHasCome, RowsPosted,
         SkippedPosted, NewIdsUnposted, Rule, Day

\* What the lemmas below need of types.
LEMMA HistoryTypes ==
  ASSUME TypeInv
  PROVE  /\ generated \in [Rule -> [Day -> Nat]]
         /\ posted \in [Rule -> SUBSET Day]
         /\ pc \in [Worker -> {"idle", "select", "insert", "advance", "commit"}]
         /\ runAt \in [Worker -> Day]
         /\ item \in [Worker -> Item]
         /\ inserted \in [Worker -> BOOLEAN]
         /\ \A w \in Worker : InTx(w) => item[w].id \in Rule /\ item[w].row.next \in Day
  BY DEF TypeInv, TypeOK, StoreTypeOK, WorkerTypeOK, ItemDue, InTx, Item

\* A step that only removes generated rows.
LEMMA FewerRows ==
  ASSUME TypeInv, HistoryInv, UNCHANGED <<posted, workerVars>>, today' >= today, today' \in Day,
         NewIdsUnposted',
         \A r \in Rule, d \in Day :
           generated'[r][d] \in Nat /\ generated'[r][d] <= generated[r][d]
  PROVE  HistoryInv'
<1> USE HistoryTypes
<1>1. DayHasCome'
  BY DEF workerVars, HistoryInv, DayHasCome, TypeInv, TypeOK, StoreTypeOK, Day
<1>2. RowsPosted'
  BY DEF HistoryInv, RowsPosted
<1>3. SkippedPosted'
  BY DEF workerVars, HistoryInv, SkippedPosted
<1>4. QED
  BY <1>1, <1>2, <1>3 DEF HistoryInv

LEMMA PublishHistory ==
  ASSUME TypeInv, LockInv, FreshInv, HistoryInv, NEW w \in Worker, pc[w] = "commit",
         Publish(w), NEW at \in {"select", "idle"}, Leave(w, at),
         \A v \in Worker : runAt'[v] = runAt[v] \/ runAt'[v] = 0,
         UNCHANGED serviceVars
  PROVE  HistoryInv'
<1> DEFINE id == item[w].id
           d0 == item[w].row.next
<1> USE HistoryTypes
<1>1. id \in Rule /\ d0 \in Day
  BY DEF InTx
<1>2. DayHasCome'
  <2>1. today' = today /\ today >= 0
    BY DEF Publish, TypeInv, TypeOK, StoreTypeOK, Day
  <2>2. \A v \in Worker : runAt[v] <= today
    BY DEF HistoryInv, DayHasCome
  <2>3. QED
    BY <2>1, <2>2 DEF DayHasCome
<1>3. /\ \A r \in Rule : posted[r] \subseteq posted'[r]
      /\ \A r \in Rule : r # id => posted'[r] = posted[r]
  BY <1>1 DEF Publish
<1>4. RowsPosted'
  <2>1. CASE ~inserted[w]
    BY <2>1 DEF Publish, HistoryInv, RowsPosted
  <2>2. CASE inserted[w]
    <3>1. /\ generated' = [generated EXCEPT ![id][d0] = @ + 1]
          /\ posted' = [posted EXCEPT ![id] = @ \cup {d0}]
      BY <2>2 DEF Publish
    <3>2. QED
      BY <1>1, <3>1 DEF HistoryInv, RowsPosted
  <2>3. QED
    BY <2>1, <2>2
<1>5. SkippedPosted'
  <2> SUFFICES ASSUME NEW v \in Worker, pc'[v] \in {"advance", "commit"}, ~inserted'[v]
               PROVE  item'[v].row.next \in posted'[item'[v].id]
    BY DEF SkippedPosted
  <2>1. v # w /\ pc'[v] = pc[v] /\ item'[v] = item[v] /\ inserted'[v] = inserted[v]
    BY DEF Leave
  <2>2. item[v].row.next \in posted[item[v].id] /\ item[v].id \in Rule
    BY <2>1 DEF HistoryInv, SkippedPosted, InTx
  <2>3. QED
    BY <1>3, <2>1, <2>2
<1>6. NewIdsUnposted'
  <2>1. rules[id] # NoRow
    BY <1>1, NoRowAssumption
       DEF FreshInv, SnapshotFresh, TypeInv, TypeOK, WorkerTypeOK, ItemDue, InTx, Item
  <2>2. ~(id >= nextId)
    BY <1>1, <2>1 DEF FreshInv, IdsInOrder
  <2>3. \A c \in Client : call[c] = "insert" => callRule[c] \in Rule /\ callRule[c] # id
    BY <2>1 DEF FreshInv, PendingIds
  <2>4. nextId' = nextId
    BY DEF Publish
  <2>5. QED
    BY <1>3, <2>2, <2>3, <2>4 DEF HistoryInv, NewIdsUnposted, serviceVars
<1>7. QED
  BY <1>2, <1>4, <1>5, <1>6 DEF HistoryInv

\* Requests post nothing, and a DELETE only takes generated rows away.
LEMMA ServiceGenerates ==
  ASSUME TypeInv, NEW c \in Client, ServiceNext(c)
  PROVE  /\ posted' = posted /\ today' = today
         /\ \A r \in Rule, d \in Day :
              generated'[r][d] \in Nat /\ generated'[r][d] <= generated[r][d]
<1> USE HistoryTypes
<1>1. CASE UNCHANGED <<generated, posted, today>>
  BY <1>1
<1>2. ASSUME NEW input \in RecurringInput, Create(c, input)
      PROVE  UNCHANGED <<generated, posted, today>>
  BY <1>2 DEF Create, history
<1>3. ASSUME NEW r \in Rule, NEW input \in RecurringInput, UpdateLoad(c, r, input)
      PROVE  UNCHANGED <<generated, posted, today>>
  BY <1>3 DEF UpdateLoad, storeVars, tables, history
<1>4. ASSUME NEW r \in Rule, Delete(c, r)
      PROVE  UNCHANGED <<generated, posted, today>>
  BY <1>4 DEF Delete, storeVars, tables, history
<1>5. CASE DeleteRule(c)
  <2>1. UNCHANGED <<posted, today>>
    BY <1>5 DEF DeleteRule, history
  <2>2. \/ generated' = generated
        \/ generated' = [generated EXCEPT ![callRule[c]] = [d \in Day |-> 0]]
    BY <1>5 DEF DeleteRule, DetachGenerated
  <2>3. \A r \in Rule, d \in Day :
          generated'[r][d] \in Nat /\ generated'[r][d] <= generated[r][d]
    BY <2>2
  <2> QED
    BY <2>1, <2>3
<1>6. CASE InsertRule(c) \/ UpdateWrite(c)
  BY <1>1, <1>6 DEF InsertRule, UpdateWrite
<1>7. CASE UpdateReread(c) \/ RequestFails(c) \/ Recover(c)
  BY <1>1, <1>7 DEF UpdateReread, RequestFails, Recover, storeVars, tables, history
<1> QED
  BY <1>1, <1>2, <1>3, <1>4, <1>5, <1>6, <1>7 DEF ServiceNext

\* The id an INSERT takes is one nothing was posted for.
LEMMA ServiceNewIds ==
  ASSUME TypeInv, HistoryInv, NEW c \in Client, ServiceNext(c)
  PROVE  NewIdsUnposted'
<1>0. /\ nextId \in Nat /\ posted \in [Rule -> SUBSET Day]
      /\ call \in [Client -> {"idle", "insert", "write", "reread", "delete", "panic"}]
      /\ callRule \in [Client -> Rule \cup {0}]
      /\ posted' = posted
  BY ServiceGenerates DEF TypeInv, TypeOK, StoreTypeOK, ServiceTypeOK
<1>1. ASSUME NEW at, at # "insert", NEW q, NEW row, Proceed(c, at, q, row), nextId' = nextId
      PROVE  NewIdsUnposted'
  <2>1. \A d \in Client : call'[d] = "insert" =>
          call[d] = "insert" /\ callRule'[d] = callRule[d]
    BY <1>0, <1>1 DEF Proceed
  <2> QED
    BY <1>0, <1>1, <2>1 DEF HistoryInv, NewIdsUnposted
<1>2. ASSUME NEW input \in RecurringInput, Create(c, input)
      PROVE  NewIdsUnposted'
  <2>1. /\ nextId \in Rule /\ nextId' = nextId + 1
        /\ call' = [call EXCEPT ![c] = "insert"]
        /\ callRule' = [callRule EXCEPT ![c] = nextId]
    BY <1>2 DEF Create, Proceed
  <2>2. posted[nextId] = {}
    BY <1>0, <2>1 DEF HistoryInv, NewIdsUnposted
  <2>3. \A r \in Rule : r >= nextId' => posted'[r] = {}
    BY <1>0, <2>1 DEF HistoryInv, NewIdsUnposted, Rule
  <2>4. \A d \in Client : call'[d] = "insert" => posted'[callRule'[d]] = {}
    BY <1>0, <2>1, <2>2 DEF HistoryInv, NewIdsUnposted
  <2> QED
    BY <2>3, <2>4 DEF NewIdsUnposted
<1>3. ASSUME NEW r \in Rule, NEW input \in RecurringInput, UpdateLoad(c, r, input)
      PROVE  NewIdsUnposted'
  <2>1. Proceed(c, "write", r, NewRow(rules[r], input)) /\ nextId' = nextId
    BY <1>3 DEF UpdateLoad, storeVars, tables
  <2> QED
    BY <1>1, <2>1
<1>4. ASSUME NEW r \in Rule, Delete(c, r)
      PROVE  NewIdsUnposted'
  <2>1. Proceed(c, "delete", r, NoRow) /\ nextId' = nextId
    BY <1>4 DEF Delete, storeVars, tables
  <2> QED
    BY <1>1, <2>1
<1>5. CASE UpdateWrite(c)
  <2>1. nextId' = nextId /\ (Proceed(c, "reread", callRule[c], NoRow) \/ Finish(c, "idle"))
    BY <1>5 DEF UpdateWrite
  <2> QED
    BY <1>1, <2>1 DEF Finish
<1>6. CASE InsertRule(c) \/ UpdateReread(c) \/ DeleteRule(c) \/ RequestFails(c) \/ Recover(c)
  <2>1. nextId' = nextId /\ (Finish(c, "idle") \/ Finish(c, "panic"))
    BY <1>6 DEF InsertRule, UpdateReread, DeleteRule, RequestFails, Recover, storeVars, tables
  <2> QED
    BY <1>1, <2>1 DEF Finish
<1> QED
  BY <1>2, <1>3, <1>4, <1>5, <1>6 DEF ServiceNext

LEMMA StepHistoryInv ==
  TypeInv /\ LockInv /\ FreshInv /\ HistoryInv /\ [Next]_vars => HistoryInv'
<1> SUFFICES ASSUME TypeInv, LockInv, FreshInv, HistoryInv, [Next]_vars PROVE HistoryInv'
  OBVIOUS
<1> USE HistoryTypes
<1>1. /\ today >= 0 /\ today <= today /\ today >= today /\ today \in Day
  BY DEF TypeInv, TypeOK, StoreTypeOK, Day
<1>2. CASE UNCHANGED <<generated, posted, today, nextId, workerVars, serviceVars>>
  <2>1. /\ UNCHANGED <<posted, workerVars>>
        /\ today' >= today /\ today' \in Day
        /\ NewIdsUnposted'
    BY <1>1, <1>2 DEF HistoryInv, NewIdsUnposted, serviceVars
  <2>2. \A r \in Rule, d \in Day :
          generated'[r][d] \in Nat /\ generated'[r][d] <= generated[r][d]
    BY <1>2
  <2>3. QED
    BY <1>1, <2>1, <2>2, FewerRows
<1>3. ASSUME NEW w \in Worker, WorkerNext(w), UNCHANGED serviceVars
      PROVE  HistoryInv'
  <2>1. CASE Commit(w) \/ CommitUnknown(w)
    <3>1. /\ pc[w] = "commit" /\ Publish(w)
          /\ Leave(w, "select") \/ Leave(w, "idle")
          /\ \A v \in Worker : runAt'[v] = runAt[v] \/ runAt'[v] = 0
      BY <2>1 DEF Commit, CommitUnknown, EndCycle
    <3>2. QED
      BY <1>3, <3>1, PublishHistory
  <2>2. CASE ~(Commit(w) \/ CommitUnknown(w))
    <3>1. UNCHANGED <<generated, posted, today, nextId>>
      BY <1>3, <2>2 DEF WorkerNext, RunOnce, GetNextDue, NothingDue, RollBack,
         InsertGeneratedTransaction, AdvanceSchedule, storeVars, tables, history
    <3>2. RowsPosted' /\ NewIdsUnposted'
      BY <1>3, <3>1 DEF HistoryInv, RowsPosted, NewIdsUnposted, serviceVars
    <3>3. \A v \in Worker : runAt'[v] \in {runAt[v], today, 0}
      BY <1>3, <2>2 DEF WorkerNext, RunOnce, GetNextDue, NothingDue, RollBack, EndCycle,
         InsertGeneratedTransaction, AdvanceSchedule
    <3>4. DayHasCome'
      <4>1. ASSUME NEW v \in Worker PROVE runAt'[v] <= today
        <5>1. runAt[v] <= today /\ runAt[v] \in Day
          BY DEF HistoryInv, DayHasCome
        <5>2. runAt'[v] = runAt[v] \/ runAt'[v] = today \/ runAt'[v] = 0
          BY <3>3
        <5>3. QED
          BY <1>1, <5>1, <5>2
      <4>2. QED
        BY <3>1, <4>1 DEF DayHasCome
    <3>5. SkippedPosted'
      <4> SUFFICES ASSUME NEW v \in Worker, pc'[v] \in {"advance", "commit"}, ~inserted'[v]
                   PROVE  item'[v].row.next \in posted[item'[v].id]
        BY <3>1 DEF SkippedPosted
      <4>1. CASE pc'[v] = pc[v] /\ item'[v] = item[v] /\ inserted'[v] = inserted[v]
        BY <4>1 DEF HistoryInv, SkippedPosted
      <4>2. CASE ~(pc'[v] = pc[v] /\ item'[v] = item[v] /\ inserted'[v] = inserted[v])
        <5>1. v = w /\ (InsertGeneratedTransaction(w) \/ AdvanceSchedule(w))
          BY <1>3, <2>2, <4>2 DEF WorkerNext, RunOnce, GetNextDue, NothingDue, RollBack,
             EndCycle, Leave, InsertGeneratedTransaction, AdvanceSchedule
        <5>2. CASE InsertGeneratedTransaction(w)
          <6>1. item' = item /\ ~InsertsRow(item[w].id, item[w].row.next)
            BY <5>1, <5>2 DEF InsertGeneratedTransaction
          <6>2. item[w].id \in Rule /\ item[w].row.next \in Day
            BY <5>2 DEF InsertGeneratedTransaction, InTx
          <6>3. generated[item[w].id][item[w].row.next] > 0
            BY <6>1, <6>2 DEF InsertsRow
          <6>4. QED
            BY <5>1, <6>1, <6>2, <6>3 DEF HistoryInv, RowsPosted
        <5>3. CASE AdvanceSchedule(w)
          BY <5>1, <5>3 DEF AdvanceSchedule, HistoryInv, SkippedPosted
        <5>4. QED
          BY <5>1, <5>2, <5>3
      <4>3. QED
        BY <4>1, <4>2
    <3>6. QED
      BY <3>2, <3>4, <3>5 DEF HistoryInv
  <2>3. QED
    BY <2>1, <2>2
<1>4. ASSUME NEW c \in Client, ServiceNext(c), UNCHANGED workerVars
      PROVE  HistoryInv'
  <2>1. /\ posted' = posted /\ today' = today
        /\ \A r \in Rule, d \in Day :
             generated'[r][d] \in Nat /\ generated'[r][d] <= generated[r][d]
    BY <1>4, ServiceGenerates
  <2>2. UNCHANGED <<posted, workerVars>> /\ today' >= today /\ today' \in Day
    BY <1>1, <1>4, <2>1
  <2>3. QED
    BY <1>4, <2>1, <2>2, FewerRows, ServiceNewIds
<1>5. ASSUME PassTime, UNCHANGED <<workerVars, serviceVars>>
      PROVE  HistoryInv'
  <2>1. UNCHANGED <<generated, posted, nextId>> /\ today' \in Day /\ today' >= today
    BY <1>1, <1>5 DEF PassTime, tables, history, Day
  <2>2. NewIdsUnposted'
    BY <1>5, <2>1 DEF HistoryInv, NewIdsUnposted, serviceVars
  <2>3. QED
    BY <1>1, <1>5, <2>1, <2>2, FewerRows
<1>6. ASSUME NEW r \in Rule, NEW d \in Day, DeleteGenerated(r, d),
             UNCHANGED <<workerVars, serviceVars>>
      PROVE  HistoryInv'
  <2>1. /\ UNCHANGED <<posted, today, nextId>>
        /\ generated[r][d] > 0 /\ generated' = [generated EXCEPT ![r][d] = @ - 1]
    BY <1>6 DEF DeleteGenerated, history
  <2>2. \A s \in Rule, e \in Day :
          generated'[s][e] \in Nat /\ generated'[s][e] <= generated[s][e]
    BY <2>1
  <2>3. /\ UNCHANGED <<posted, workerVars>>
        /\ today' >= today /\ today' \in Day
        /\ NewIdsUnposted'
    BY <1>1, <1>6, <2>1 DEF HistoryInv, NewIdsUnposted, serviceVars
  <2>4. QED
    BY <1>1, <2>2, <2>3, FewerRows
<1>7. QED
  BY <1>2, <1>3, <1>4, <1>5, <1>6 DEF Next, vars, storeVars, tables, history

-----------------------------------------------------------------------------
(* The refinement                                                          *)

EngineInv == TypeInv /\ LockInv /\ FreshInv /\ FormInv /\ OnceInv /\ HistoryInv

LEMMA RowsEqual ==
  ASSUME NEW a \in RuleRow, NEW b \in RuleRow,
         a.category = b.category, a.frequency = b.frequency, a.start = b.start,
         a.end = b.end, a.next = b.next, a.active = b.active
  PROVE  a = b
  BY DEF RuleRow

\* nextSchedule's two results put into the row are the ledger's next row.
LEMMA AdvancedRow ==
  ASSUME NEW row \in RuleRow, row.active, row.next \in Day
  PROVE  [row EXCEPT !.next = NextSchedule(row).next,
                     !.active = NextSchedule(row).active] = Ledger!Advanced(row)
<1> DEFINE next == NextRunDate[row.frequency][row.next]
           a == [row EXCEPT !.next = NextSchedule(row).next,
                            !.active = NextSchedule(row).active]
<1>1. next \in Nat /\ row.end \in Nat \cup {NoDate}
  BY NextRunDateAssumption DEF RuleRow
<1>2. CASE row.end = NoDate \/ next <= row.end
  <2>1. NextSchedule(row) = [next |-> next, active |-> TRUE]
    BY <1>1, <1>2, StoreAssumption DEF NextSchedule
  <2>2. Ledger!Advanced(row) = [row EXCEPT !.next = next]
    BY <1>2 DEF Ledger!Advanced
  <2>3. a \in RuleRow /\ [row EXCEPT !.next = next] \in RuleRow
    <3>1. a \in RuleRow
      BY NextScheduleType DEF RuleRow
    <3>2. [row EXCEPT !.next = next] \in RuleRow
      BY <1>1 DEF RuleRow
    <3>3. QED
      BY <3>1, <3>2
  <2>4. /\ a.next = next /\ a.active = TRUE /\ a.category = row.category
        /\ a.frequency = row.frequency /\ a.start = row.start /\ a.end = row.end
    BY <2>1 DEF RuleRow
  <2>5. a = [row EXCEPT !.next = next]
    BY <2>3, <2>4, RowsEqual DEF RuleRow
  <2>6. QED
    BY <2>2, <2>5
<1>3. CASE ~(row.end = NoDate \/ next <= row.end)
  <2>1. NextSchedule(row) = [next |-> NoDate, active |-> FALSE]
    BY <1>1, <1>3 DEF NextSchedule
  <2>2. QED
    BY <1>3, <2>1 DEF Ledger!Advanced
<1>4. QED
  BY <1>2, <1>3

LEMMA PublishPosts ==
  ASSUME EngineInv, NEW w \in Worker, pc[w] = "commit", Publish(w)
  PROVE  /\ item[w].id \in Rule /\ Ledger!PostRun(item[w].id)
         /\ rules[item[w].id] = item[w].row /\ item[w].row \in RuleRow
<1> DEFINE id == item[w].id
           row == item[w].row
           d0 == row.next
<1> USE HistoryTypes DEF EngineInv
<1>1. /\ id \in Rule /\ row \in RuleRow /\ row.active
      /\ d0 \in Day /\ d0 <= runAt[w]
  BY DEF TypeInv, TypeOK, WorkerTypeOK, ItemDue, InTx, Item
<1>2. rules[id] = row /\ row # NoRow
  BY <1>1, NoRowAssumption DEF FreshInv, SnapshotFresh, TypeInv, ItemDue, InTx
<1>3. Ledger!Due(id, today)
  <2>1. runAt[w] <= today /\ runAt[w] \in Day /\ today \in Day
    BY DEF HistoryInv, DayHasCome, TypeInv, TypeOK, StoreTypeOK
  <2>2. d0 <= today /\ d0 # NoDate
    BY <1>1, <2>1, StoreAssumption DEF Day
  <2>3. QED
    BY <1>1, <1>2, <2>2 DEF Ledger!Due, Ledger!Exists
<1>4. rules' = [rules EXCEPT ![id] = Ledger!Advanced(rules[id])]
  <2>1. Exists(id)
    BY <1>2 DEF Exists
  <2>2. rules' = [rules EXCEPT ![id] = [row EXCEPT !.next = NextSchedule(row).next,
                                                   !.active = NextSchedule(row).active]]
    BY <1>2, <2>1 DEF Publish
  <2>3. QED
    BY <1>1, <1>2, <2>2, AdvancedRow
<1>5. \/ /\ generated[id][d0] = 0
         /\ generated' = [generated EXCEPT ![id][d0] = 1]
         /\ posted' = [posted EXCEPT ![id] = @ \cup {d0}]
      \/ /\ d0 \in posted[id]
         /\ UNCHANGED <<generated, posted>>
  <2>1. CASE inserted[w]
    <3>1. generated[id][d0] = 0
      BY <2>1 DEF OnceInv, InsertFresh
    <3>2. /\ generated' = [generated EXCEPT ![id][d0] = @ + 1]
          /\ posted' = [posted EXCEPT ![id] = @ \cup {d0}]
      BY <2>1 DEF Publish
    <3>3. QED
      BY <1>1, <3>1, <3>2
  <2>2. CASE ~inserted[w]
    BY <2>2 DEF Publish, HistoryInv, SkippedPosted
  <2>3. QED
    BY <2>1, <2>2
<1>6. today' = today
  BY DEF Publish
<1>7. Ledger!PostRun(id)
  BY <1>2, <1>3, <1>4, <1>5, <1>6 DEF Ledger!PostRun
<1>8. QED
  BY <1>1, <1>2, <1>7

\* A request is an edit, a new rule, a removed rule, or nothing to the ledger.
LEMMA ServicePosts ==
  ASSUME EngineInv, NEW c \in Client, ServiceNext(c)
  PROVE  Ledger!LedgerNext \/ UNCHANGED Ledger!ledgerVars
<1> USE DEF EngineInv, Ledger!ledgerVars, Ledger!Rule, Rule
<1>1. /\ rules \in [Rule -> RuleRow \cup {NoRow}]
      /\ callRule \in [Client -> Rule \cup {0}]
  BY DEF TypeInv, TypeOK, StoreTypeOK, ServiceTypeOK
<1>2. ASSUME NEW r \in Rule, NEW row \in RuleRow, WellFormed(row),
             rules' = [rules EXCEPT ![r] = row]
      PROVE  Ledger!ChooseRow(r)
  <2>1. rules'[r] = row
    BY <1>1, <1>2
  <2>2. QED
    BY <1>2, <2>1
       DEF Ledger!ChooseRow, Ledger!RuleRow, RuleRow, Ledger!WellFormed, WellFormed
<1>3. ASSUME InsertRule(c)
      PROVE  Ledger!LedgerNext
  <2>1. /\ call[c] = "insert"
        /\ rules' = [rules EXCEPT ![callRule[c]] = callRow[c]]
        /\ UNCHANGED <<generated, posted, today>>
    BY <1>3 DEF InsertRule
  <2>2. callRule[c] \in Rule /\ rules[callRule[c]] = NoRow /\ posted[callRule[c]] = {}
    BY <2>1 DEF FreshInv, PendingIds, HistoryInv, NewIdsUnposted
  <2>3. callRow[c] \in RuleRow /\ WellFormed(callRow[c])
    BY <2>1 DEF TypeInv, RowPending, FormInv, PendingWellFormed
  <2>4. Ledger!AddRule(callRule[c])
    BY <1>2, <2>1, <2>2, <2>3 DEF Ledger!AddRule, Ledger!Exists
  <2>5. QED
    BY <2>2, <2>4 DEF Ledger!LedgerNext
<1>4. ASSUME NEW r \in Rule, NEW input \in RecurringInput, UpdateLoad(c, r, input)
      PROVE  UNCHANGED Ledger!ledgerVars
  BY <1>4 DEF UpdateLoad, storeVars, tables, history
<1>5. ASSUME UpdateWrite(c)
      PROVE  Ledger!LedgerNext \/ UNCHANGED Ledger!ledgerVars
  <2>1. UNCHANGED <<generated, posted, today>>
    BY <1>5 DEF UpdateWrite
  <2>2. CASE ~Exists(callRule[c])
    BY <1>5, <2>1, <2>2 DEF UpdateWrite
  <2>3. CASE Exists(callRule[c]) /\ callRule[c] \in Rule
    <3>1. rules' = [rules EXCEPT ![callRule[c]] = callRow[c]]
      BY <1>5, <2>3 DEF UpdateWrite
    <3>2. callRow[c] \in RuleRow /\ WellFormed(callRow[c])
      BY <1>5 DEF UpdateWrite, TypeInv, RowPending, FormInv, PendingWellFormed
    <3>3. Ledger!EditRule(callRule[c])
      BY <1>2, <2>1, <2>3, <3>1, <3>2 DEF Ledger!EditRule, Ledger!Exists, Exists
    <3>4. QED
      BY <2>3, <3>3 DEF Ledger!LedgerNext
  <2>4. CASE callRule[c] \notin Rule
    BY <1>1, <1>5, <2>1, <2>4 DEF UpdateWrite
  <2>5. QED
    BY <2>2, <2>3, <2>4
<1>6. ASSUME DeleteRule(c)
      PROVE  Ledger!LedgerNext \/ UNCHANGED Ledger!ledgerVars
  <2>1. CASE ~Exists(callRule[c])
    BY <1>6, <2>1 DEF DeleteRule, history
  <2>2. CASE Exists(callRule[c]) /\ callRule[c] \in Rule
    <3>1. Ledger!RemoveRule(callRule[c])
      BY <1>6, <2>2 DEF DeleteRule, DetachGenerated, history, Exists, Ledger!RemoveRule,
         Ledger!Exists, Ledger!DetachGenerated, Ledger!Day, Day
    <3> QED
      BY <2>2, <3>1 DEF Ledger!LedgerNext
  <2>3. CASE Exists(callRule[c]) /\ callRule[c] \notin Rule
    <3>1. /\ rules' = [rules EXCEPT ![callRule[c]] = NoRow]
          /\ generated' = [generated EXCEPT ![callRule[c]] = [d \in Day |-> 0]]
          /\ UNCHANGED <<posted, today>>
      BY <1>6, <2>3 DEF DeleteRule, DetachGenerated, history
    <3>2. generated \in [Rule -> [Day -> Nat]]
      BY HistoryTypes
    <3>3. rules' = rules
      BY <1>1, <2>3, <3>1
    <3>4. generated' = generated
      BY <2>3, <3>1, <3>2
    <3> QED
      BY <3>1, <3>3, <3>4
  <2> QED
    BY <2>1, <2>2, <2>3
<1>7. ASSUME NEW input \in RecurringInput, Create(c, input)
      PROVE  UNCHANGED Ledger!ledgerVars
  BY <1>7 DEF Create, history
<1>8. ASSUME NEW r \in Rule, Delete(c, r)
      PROVE  UNCHANGED Ledger!ledgerVars
  BY <1>8 DEF Delete, storeVars, tables, history
<1>9. CASE UpdateReread(c) \/ RequestFails(c) \/ Recover(c)
  BY <1>9 DEF UpdateReread, RequestFails, Recover, storeVars, tables, history
<1> QED
  BY <1>3, <1>4, <1>5, <1>6, <1>7, <1>8, <1>9 DEF ServiceNext

LEMMA StepPosts == EngineInv /\ [Next]_vars => [Ledger!LedgerNext]_(Ledger!ledgerVars)
<1> SUFFICES ASSUME EngineInv, [Next]_vars
             PROVE  Ledger!LedgerNext \/ UNCHANGED Ledger!ledgerVars
  OBVIOUS
<1>1. ASSUME NEW w \in Worker, WorkerNext(w)
      PROVE  Ledger!LedgerNext \/ UNCHANGED Ledger!ledgerVars
  <2>1. CASE Commit(w) \/ CommitUnknown(w)
    BY <2>1, PublishPosts
       DEF Commit, CommitUnknown, Ledger!LedgerNext, Ledger!Rule, Rule
  <2>2. CASE ~(Commit(w) \/ CommitUnknown(w))
    BY <1>1, <2>2 DEF WorkerNext, RunOnce, GetNextDue, NothingDue, RollBack,
       InsertGeneratedTransaction, AdvanceSchedule, storeVars, tables, history,
       Ledger!ledgerVars
  <2>3. QED
    BY <2>1, <2>2
<1>2. ASSUME NEW c \in Client, ServiceNext(c)
      PROVE  Ledger!LedgerNext \/ UNCHANGED Ledger!ledgerVars
  BY <1>2, ServicePosts
<1>3. ASSUME PassTime
      PROVE  Ledger!LedgerNext
  <2>1. today' > today /\ UNCHANGED <<rules, generated, posted>>
    BY <1>3 DEF PassTime, tables, history
  <2>2. QED
    BY <2>1 DEF Ledger!LedgerNext, Ledger!LedgerTick
<1>4. ASSUME NEW r \in Rule, NEW d \in Day, DeleteGenerated(r, d)
      PROVE  Ledger!LedgerNext
  <2>1. generated \in [Rule -> [Day -> Nat]] /\ generated[r][d] <= 1
    BY DEF EngineInv, TypeInv, TypeOK, StoreTypeOK, OnceInv, NoDuplicateGeneration
  <2>2. /\ generated[r][d] > 0 /\ generated' = [generated EXCEPT ![r][d] = @ - 1]
        /\ UNCHANGED <<rules, posted, today>>
    BY <1>4 DEF DeleteGenerated, history
  <2>3. generated[r][d] = 1
    BY <2>1, <2>2
  <2>4. generated' = [generated EXCEPT ![r][d] = 0]
    BY <2>1, <2>2, <2>3
  <2>5. Ledger!ErasePosting(r, d)
    BY <2>2, <2>3, <2>4 DEF Ledger!ErasePosting
  <2>6. QED
    BY <2>5 DEF Ledger!LedgerNext, Ledger!Rule, Rule, Ledger!Day, Day
<1>5. CASE UNCHANGED vars
  BY <1>5 DEF vars, storeVars, tables, history, Ledger!ledgerVars
<1>6. QED
  BY <1>1, <1>2, <1>3, <1>4, <1>5 DEF Next

LEMMA InitLedger == Init => Ledger!LedgerInit
  BY DEF Init, StoreInit, Ledger!LedgerInit, Ledger!Exists, Ledger!Rule, Ledger!Day,
         Rule, Day

\* The recurring engine keeps the ledger's promise: a worker's transaction, however
\* requests, other workers, failures and lost answers interleave with it, takes
\* effect as one posting of the run the rule waits for, or not at all.
THEOREM SpecPostsAtomically == Spec => PostsAtomically
<1>1. Init => EngineInv
  BY InitTypeInv, InitLockInv, InitFreshInv, InitFormInv, InitOnceInv, InitHistoryInv
     DEF EngineInv
<1>2. EngineInv /\ [Next]_vars => EngineInv'
  BY StepTypeInv, StepLockInv, StepFreshInv, StepFormInv, StepOnceInv, StepHistoryInv
     DEF EngineInv
<1>3. Init => Ledger!LedgerInit
  BY InitLedger
<1>4. EngineInv /\ [Next]_vars => [Ledger!LedgerNext]_(Ledger!ledgerVars)
  BY StepPosts
<1>5. QED
  BY <1>1, <1>2, <1>3, <1>4, PTL DEF Spec, PostsAtomically, Ledger!LedgerSpec

-----------------------------------------------------------------------------
(* The runs of a schedule                                                  *)

\* The set Occurrences computes, day by day, is the least one that holds the first
\* day and with a run the next one.
IsRun(f, first, isRun) ==
  [d \in Day |-> d = first
                   \/ \E p \in Day : p < d /\ isRun[p] /\ NextRunDate[f][p] = d]

LEMMA OccurrencesAre ==
  ASSUME NEW f \in Frequency, NEW first
  PROVE  /\ Occurrences(f, first) \subseteq Day
         /\ \A d \in Day :
              d \in Occurrences(f, first) <=>
                d = first \/ \E p \in Occurrences(f, first) : p < d /\ NextRunDate[f][p] = d
<1> DEFINE Closed(S) == /\ first \in Day => first \in S
                        /\ \A p \in S : NextRunDate[f][p] \in Day => NextRunDate[f][p] \in S
           Least == { d \in Day : \A S \in SUBSET Day : Closed(S) => d \in S }
           Reaches(d) == \E p \in Least : p < d /\ NextRunDate[f][p] = d
           isRun == CHOOSE F : F = IsRun(f, first, F)
<1>1. \A d \in Day : d = first \/ Reaches(d) => d \in Least
  OBVIOUS
<1>2. \A d \in Least : d = first \/ Reaches(d)
  <2> DEFINE T == { d \in Least : d = first \/ Reaches(d) }
  <2>1. T \in SUBSET Day
    OBVIOUS
  <2>2. first \in Day => first \in T
    BY <1>1
  <2>3. ASSUME NEW p \in T, NextRunDate[f][p] \in Day
        PROVE  NextRunDate[f][p] \in T
    <3>1. p \in Least /\ p \in Day /\ p < NextRunDate[f][p]
      BY NextRunDateAssumption
    <3>2. Reaches(NextRunDate[f][p])
      BY <3>1
    <3> QED
      BY <1>1, <2>3, <3>2
  <2>4. Closed(T)
    BY <2>2, <2>3
  <2> QED
    BY <2>1, <2>4
<1> DEFINE F == [d \in Day |-> d \in Least]
<1>3. F = IsRun(f, first, F)
  <2>0. Least \subseteq Day
    OBVIOUS
  <2> HIDE DEF Least
  <2>1. \A d \in Day : d \in Least <=>
          d = first \/ \E p \in Day : p < d /\ F[p] /\ NextRunDate[f][p] = d
    BY <1>1, <1>2, <2>0
  <2>2. \A d \in Day : F[d] = IsRun(f, first, F)[d]
    BY <2>1 DEF IsRun
  <2> QED
    BY <2>2 DEF IsRun
<1>4. isRun = IsRun(f, first, isRun)
  BY <1>3
<1>5. Occurrences(f, first) = { d \in Day : isRun[d] }
  BY DEF Occurrences, IsRun
<1> HIDE DEF isRun
<1>6. \A d \in Day : isRun[d] <=>
        d = first \/ \E p \in Day : p < d /\ isRun[p] /\ NextRunDate[f][p] = d
  BY <1>4 DEF IsRun
<1> QED
  BY <1>5, <1>6

\* No run comes before the first one, a run's next one is a run, and there is none
\* between the two.
LEMMA RunsInOrder ==
  ASSUME NEW f \in Frequency, NEW first \in Nat, NEW p \in Occurrences(f, first)
  PROVE  /\ first <= p /\ p \in Day
         /\ NextRunDate[f][p] \in Day => NextRunDate[f][p] \in Occurrences(f, first)
         /\ \A d \in Occurrences(f, first) : p < d => NextRunDate[f][p] <= d
<1> DEFINE O == Occurrences(f, first)
           Then(d) == NextRunDate[f][d]
<1>1. /\ O \subseteq Day /\ Day \subseteq Nat
      /\ \A d \in O : d = first \/ \E q \in O : q < d /\ Then(q) = d
      /\ \A d \in O : Then(d) \in Nat /\ Then(d) > d /\ (Then(d) \in Day => Then(d) \in O)
  <2>1. O \subseteq Day /\ Day \subseteq Nat
    BY OccurrencesAre DEF Day
  <2>2. \A d \in O : d = first \/ \E q \in O : q < d /\ Then(q) = d
    BY <2>1, OccurrencesAre
  <2>3. \A d \in O : Then(d) \in Nat /\ Then(d) > d
    BY <2>1, NextRunDateAssumption
  <2>4. \A d \in O : Then(d) \in Day => Then(d) \in O
    BY <2>1, <2>3, OccurrencesAre
  <2> QED
    BY <2>1, <2>2, <2>3, <2>4
<1> HIDE DEF O, Then
<1>2. \A d \in O : first <= d
  <2> DEFINE T == { d \in O : d < first }
  <2> SUFFICES ASSUME T # {} PROVE FALSE
    BY <1>1
  <2>1. PICK d \in T : \A e \in T : d <= e
    <3>1. T \in SUBSET Nat
      BY <1>1
    <3> QED
      BY <3>1, LeastNatural
  <2>2. PICK q \in O : q < d
    BY <1>1, <2>1
  <2> QED
    BY <1>1, <2>1, <2>2
<1>3. \A d \in O, e \in O : e < d => Then(e) <= d
  <2> DEFINE T == { d \in O : \E e \in O : e < d /\ Then(e) > d }
  <2> SUFFICES ASSUME T # {} PROVE FALSE
    BY <1>1
  <2>1. PICK d \in T : \A e \in T : d <= e
    <3>1. T \in SUBSET Nat
      BY <1>1
    <3> QED
      BY <3>1, LeastNatural
  <2>2. PICK e \in O : e < d /\ Then(e) > d
    BY <2>1
  <2>3. d # first
    BY <1>1, <1>2, <2>1, <2>2
  <2>4. PICK q \in O : q < d /\ Then(q) = d
    BY <1>1, <2>1, <2>3
  <2>5. d \in Nat /\ e \in Nat /\ q \in Nat
    BY <1>1, <2>1
  <2>6. CASE q = e
    BY <2>2, <2>4, <2>5, <2>6
  <2>7. CASE q < e
    <3>1. e \in T
      BY <2>2, <2>4, <2>7
    <3> QED
      BY <2>1, <2>2, <2>5, <3>1
  <2>8. CASE e < q
    <3>1. q \in T
      BY <1>1, <2>2, <2>4, <2>5, <2>8
    <3> QED
      BY <2>1, <2>4, <2>5, <3>1
  <2> QED
    BY <2>5, <2>6, <2>7, <2>8
<1> QED
  BY <1>1, <1>2, <1>3 DEF O, Then

-----------------------------------------------------------------------------
(* No run is left out                                                      *)

\* What holds of a rule the API has scheduled for the day first: the run it waits
\* for belongs to its schedule, and the runs before that one are done.
Complete(row, first, done) ==
  /\ row.active /\ row.next \in Day => row.next \in Occurrences(row.frequency, first)
  /\ \A d \in Occurrences(row.frequency, first) :
       d \in done \/ IF row.active THEN d >= row.next
                                   ELSE row.end # NoDate /\ d > row.end

NoGap ==
  \A r \in Rule : Exists(r) /\ origin[r] # NoDate =>
    Complete(rules[r], origin[r], posted[r])

\* A well-formed row completes the schedule that starts with the run it waits for.
LEMMA CompleteAtFirst ==
  ASSUME NEW row \in RuleRow, WellFormed(row), row.next # NoDate, NEW done
  PROVE  Complete(row, row.next, done)
<1>1. row.active /\ row.next \in Nat /\ row.frequency \in Frequency
  BY DEF RuleRow, WellFormed
<1>2. \A d \in Occurrences(row.frequency, row.next) : row.next <= d /\ d \in Nat
  BY <1>1, RunsInOrder DEF Day
<1>3. row.next \in Day => row.next \in Occurrences(row.frequency, row.next)
  BY <1>1, OccurrencesAre
<1> QED
  BY <1>1, <1>2, <1>3 DEF Complete

\* Posting the run a rule waits for completes its schedule up to the next one.
LEMMA CompleteAdvances ==
  ASSUME NEW row \in RuleRow, row.active, row.next \in Day, NEW first \in Nat,
         NEW done, Complete(row, first, done)
  PROVE  Complete(Ledger!Advanced(row), first, done \cup {row.next})
<1> DEFINE O == Occurrences(row.frequency, first)
           next == NextRunDate[row.frequency][row.next]
           new == Ledger!Advanced(row)
<1>1. /\ row.frequency \in Frequency /\ row.end \in Nat \cup {NoDate}
      /\ next \in Nat /\ O \subseteq Day /\ Day \subseteq Nat
  <2>1. row.frequency \in Frequency /\ row.end \in Nat \cup {NoDate}
    BY DEF RuleRow
  <2>2. next \in Nat
    BY <2>1, NextRunDateAssumption
  <2>3. O \subseteq Day
    BY <2>1, OccurrencesAre
  <2> QED
    BY <2>1, <2>2, <2>3 DEF Day
<1>2. row.next \in O
  BY DEF Complete
<1>3. /\ next \in Day => next \in O
      /\ \A d \in O : row.next < d => next <= d
  BY <1>1, <1>2, RunsInOrder
<1>4. \A d \in O : d \in done \cup {row.next} \/ d >= next
  <2> SUFFICES ASSUME NEW d \in O, d \notin done, d # row.next
               PROVE  d >= next
    OBVIOUS
  <2>1. d >= row.next
    BY DEF Complete
  <2>2. d \in Nat /\ row.next \in Nat
    BY <1>1
  <2>3. row.next < d
    BY <2>1, <2>2
  <2> QED
    BY <1>1, <1>3, <2>2, <2>3
<1>5. CASE row.end = NoDate \/ next <= row.end
  <2>1. new = [row EXCEPT !.next = next]
    BY <1>5 DEF Ledger!Advanced
  <2>2. new.active /\ new.next = next /\ new.frequency = row.frequency
    BY <2>1 DEF RuleRow
  <2> HIDE DEF new, next, O
  <2>3. Complete(new, first, done \cup {row.next})
    BY <1>3, <1>4, <2>2 DEF Complete, O
  <2> QED
    BY <2>3 DEF new
<1>6. CASE ~(row.end = NoDate \/ next <= row.end)
  <2>1. new = [row EXCEPT !.next = NoDate, !.active = FALSE]
    BY <1>6 DEF Ledger!Advanced
  <2>2. ~new.active /\ new.end = row.end /\ new.frequency = row.frequency
    BY <2>1 DEF RuleRow
  <2> HIDE DEF new, next, O
  <2>3. ASSUME NEW d \in O, d >= next
        PROVE  d > row.end
    <3>1. d \in Nat /\ next \in Nat /\ row.end \in Nat /\ ~(next <= row.end)
      BY <1>1, <1>6
    <3> QED
      BY <2>3, <3>1
  <2>4. Complete(new, first, done \cup {row.next})
    BY <1>4, <1>6, <2>2, <2>3 DEF Complete, O
  <2> QED
    BY <2>4 DEF new
<1> QED
  BY <1>5, <1>6

LEMMA GapTypes ==
  ASSUME TypeInv
  PROVE  /\ rules \in [Rule -> RuleRow \cup {NoRow}]
         /\ posted \in [Rule -> SUBSET Day]
         /\ origin \in [Rule -> Nat \cup {NoDate}]
         /\ callRule \in [Client -> Rule \cup {0}]
BY DEF TypeInv, TypeOK, StoreTypeOK, ServiceTypeOK

\* A request that writes a row schedules the rule afresh, from the row's next run.
LEMMA RowWritten ==
  ASSUME EngineInv, NoGap, NEW r \in Rule, NEW row \in RuleRow, WellFormed(row),
         rules' = [rules EXCEPT ![r] = row], origin' = [origin EXCEPT ![r] = row.next],
         posted' = posted
  PROVE  NoGap'
<1> SUFFICES ASSUME NEW s \in Rule, rules'[s] # NoRow, origin'[s] # NoDate
             PROVE  Complete(rules'[s], origin'[s], posted'[s])
  BY DEF NoGap, Exists
<1> USE GapTypes DEF EngineInv
<1>1. CASE s = r
  <2>1. rules'[s] = row /\ origin'[s] = row.next
    BY <1>1
  <2> QED
    BY <2>1, CompleteAtFirst
<1>2. CASE s # r
  <2>1. rules'[s] = rules[s] /\ origin'[s] = origin[s] /\ posted'[s] = posted[s]
    BY <1>2
  <2> QED
    BY <2>1 DEF NoGap, Exists
<1> QED
  BY <1>1, <1>2

\* A posting moves one rule on by one run.
LEMMA RunPosted ==
  ASSUME EngineInv, NoGap, NEW r \in Rule, Ledger!PostRun(r),
         rules[r] \in RuleRow, origin' = origin
  PROVE  NoGap'
<1> SUFFICES ASSUME NEW s \in Rule, rules'[s] # NoRow, origin'[s] # NoDate
             PROVE  Complete(rules'[s], origin'[s], posted'[s])
  BY DEF NoGap, Exists
<1> USE GapTypes DEF EngineInv
<1> DEFINE d == rules[r].next
<1>1. /\ rules' = [rules EXCEPT ![r] = Ledger!Advanced(rules[r])]
      /\ posted' = [posted EXCEPT ![r] = @ \cup {d}]
      /\ rules[r].active /\ d \in Day
  <2>1. /\ rules' = [rules EXCEPT ![r] = Ledger!Advanced(rules[r])]
        /\ rules[r].active /\ d # NoDate /\ d <= today
        /\ \/ posted' = [posted EXCEPT ![r] = @ \cup {d}]
           \/ d \in posted[r] /\ posted' = posted
    BY DEF Ledger!PostRun, Ledger!Due
  <2>2. posted[r] \cup {d} = posted[r] => posted = [posted EXCEPT ![r] = @ \cup {d}]
    OBVIOUS
  <2>3. posted' = [posted EXCEPT ![r] = @ \cup {d}]
    BY <2>1, <2>2
  <2>4. d \in Nat /\ today \in Day
    BY <2>1 DEF RuleRow, TypeInv, TypeOK, StoreTypeOK
  <2>5. d \in Day
    BY <2>1, <2>4, StoreAssumption DEF Day
  <2> QED
    BY <2>1, <2>3, <2>5
<1> HIDE DEF d
<1>2. CASE s = r
  <2>1. /\ rules'[s] = Ledger!Advanced(rules[s]) /\ posted'[s] = posted[s] \cup {d}
        /\ origin'[s] = origin[s] /\ origin[s] \in Nat
    BY <1>1, <1>2
  <2>2. Complete(rules[s], origin[s], posted[s])
    BY <1>2, <2>1, NoRowAssumption DEF NoGap, Exists
  <2> QED
    BY <1>1, <1>2, <2>1, <2>2, CompleteAdvances DEF d
<1>3. CASE s # r
  <2>1. rules'[s] = rules[s] /\ origin'[s] = origin[s] /\ posted'[s] = posted[s]
    BY <1>1, <1>3
  <2> QED
    BY <2>1 DEF NoGap, Exists
<1> QED
  BY <1>2, <1>3

LEMMA StepNoGap == EngineInv /\ NoGap /\ [Next]_vars => NoGap'
<1> SUFFICES ASSUME EngineInv, NoGap, [Next]_vars PROVE NoGap'
  OBVIOUS
<1> USE GapTypes DEF EngineInv
<1>1. CASE UNCHANGED <<rules, origin, posted>>
  BY <1>1 DEF NoGap, Exists
<1>2. ASSUME NEW w \in Worker, WorkerNext(w)
      PROVE  NoGap'
  <2>1. CASE Commit(w) \/ CommitUnknown(w)
    <3>1. pc[w] = "commit" /\ Publish(w) /\ origin' = origin
      BY <2>1 DEF Commit, CommitUnknown, Publish
    <3> QED
      BY <3>1, PublishPosts, RunPosted
  <2>2. CASE ~(Commit(w) \/ CommitUnknown(w))
    BY <1>1, <1>2, <2>2 DEF WorkerNext, RunOnce, GetNextDue, NothingDue, RollBack,
       InsertGeneratedTransaction, AdvanceSchedule, storeVars, tables, history
  <2> QED
    BY <2>1, <2>2
<1>3. ASSUME NEW c \in Client, ServiceNext(c)
      PROVE  NoGap'
  <2>1. CASE InsertRule(c)
    <3>1. /\ call[c] = "insert" /\ posted' = posted
          /\ rules' = [rules EXCEPT ![callRule[c]] = callRow[c]]
          /\ origin' = [origin EXCEPT ![callRule[c]] = callRow[c].next]
      BY <2>1 DEF InsertRule
    <3>2. callRule[c] \in Rule /\ callRow[c] \in RuleRow /\ WellFormed(callRow[c])
      BY <3>1 DEF TypeInv, RowPending, FormInv, PendingWellFormed
    <3> QED
      BY <3>1, <3>2, RowWritten
  <2>2. CASE UpdateWrite(c)
    <3>1. callRow[c] \in RuleRow /\ WellFormed(callRow[c]) /\ posted' = posted
      BY <2>2 DEF UpdateWrite, TypeInv, RowPending, FormInv, PendingWellFormed
    <3>2. CASE ~Exists(callRule[c])
      BY <1>1, <2>2, <3>2 DEF UpdateWrite
    <3>3. CASE Exists(callRule[c])
      <4>1. /\ rules' = [rules EXCEPT ![callRule[c]] = callRow[c]]
            /\ origin' = [origin EXCEPT ![callRule[c]] = callRow[c].next]
        BY <2>2, <3>3 DEF UpdateWrite
      <4>2. CASE callRule[c] \in Rule
        BY <3>1, <4>1, <4>2, RowWritten
      <4>3. CASE callRule[c] \notin Rule
        BY <1>1, <3>1, <4>1, <4>3
      <4> QED
        BY <4>2, <4>3
    <3> QED
      BY <3>2, <3>3
  <2>3. CASE DeleteRule(c)
    <3>1. /\ posted' = posted /\ origin' = origin
          /\ \/ rules' = rules
             \/ rules' = [rules EXCEPT ![callRule[c]] = NoRow]
      BY <2>3 DEF DeleteRule, history
    <3> QED
      BY <3>1 DEF NoGap, Exists
  <2>4. ASSUME NEW r \in Rule, NEW input \in RecurringInput, UpdateLoad(c, r, input)
        PROVE  NoGap'
    BY <1>1, <2>4 DEF UpdateLoad, storeVars, tables, history
  <2>5. ASSUME NEW input \in RecurringInput, Create(c, input)
        PROVE  NoGap'
    BY <1>1, <2>5 DEF Create, history
  <2>6. ASSUME NEW r \in Rule, Delete(c, r)
        PROVE  NoGap'
    BY <1>1, <2>6 DEF Delete, storeVars, tables, history
  <2>7. CASE UpdateReread(c) \/ RequestFails(c) \/ Recover(c)
    BY <1>1, <2>7 DEF UpdateReread, RequestFails, Recover, storeVars, tables, history
  <2> QED
    BY <1>3, <2>1, <2>2, <2>3, <2>4, <2>5, <2>6, <2>7 DEF ServiceNext
<1>4. CASE PassTime
  BY <1>1, <1>4 DEF PassTime, tables, history
<1>5. ASSUME NEW r \in Rule, NEW d \in Day, DeleteGenerated(r, d)
      PROVE  NoGap'
  BY <1>1, <1>5 DEF DeleteGenerated, history
<1>6. CASE UNCHANGED vars
  BY <1>1, <1>6 DEF vars, storeVars, tables, history
<1> QED
  BY <1>2, <1>3, <1>4, <1>5, <1>6 DEF Next

\* Since the API last wrote a rule, every run of its schedule before the one it waits
\* for has been posted, and for a finished rule every run up to its end_date: no
\* failure, lost answer, crash, downtime, second worker or request makes ProcessDue
\* pass over a run.
THEOREM SpecEveryOccurrencePosted == Spec => []EveryOccurrencePosted
<1>1. Init => EngineInv /\ NoGap
  <2>1. Init => NoGap
    BY DEF Init, NoGap, Exists
  <2> QED
    BY <2>1, InitTypeInv, InitLockInv, InitFreshInv, InitFormInv, InitOnceInv,
       InitHistoryInv DEF EngineInv
<1>2. EngineInv /\ NoGap /\ [Next]_vars => EngineInv' /\ NoGap'
  BY StepNoGap, StepTypeInv, StepLockInv, StepFreshInv, StepFormInv, StepOnceInv,
     StepHistoryInv DEF EngineInv
<1>3. NoGap => EveryOccurrencePosted
  BY DEF NoGap, Complete, EveryOccurrencePosted
<1> QED
  BY <1>1, <1>2, <1>3, PTL DEF Spec

-----------------------------------------------------------------------------
(* Workers on their own                                                    *)

\* RecurringBacklog is the engine while no request is made, except that its rules
\* exist from the start.
Backlog == INSTANCE RecurringBacklog

\* The days a rule has been posted for lie before the run it waits for.
PostedBehind ==
  \A r \in Rule : \A d \in posted[r] : rules[r].active => d < rules[r].next

BacklogInv == EngineInv /\ NoGap /\ PostedBehind

\* No step writes a posted run again after its row was deleted.
DeletedStay ==
  \A r \in Rule, d \in Day :
    d \in posted[r] /\ generated[r][d] = 0 => generated'[r][d] = 0

\* The actions are those of the engine.
LEMMA BacklogActions ==
  /\ \A w \in Worker : Backlog!WorkerNext(w) => WorkerNext(w)
  /\ Backlog!PassTime => PassTime
  /\ \A r \in Rule, d \in Day : Backlog!DeleteGenerated(r, d) => DeleteGenerated(r, d)
<1> USE DEF Backlog!storeVars, storeVars, Backlog!tables, tables, Backlog!locks, locks,
            Backlog!history, history, Backlog!Rule, Rule, Backlog!Day, Day
<1>1. ASSUME NEW w \in Worker, Backlog!WorkerNext(w)
      PROVE  WorkerNext(w)
  <2>1. Backlog!RunOnce(w) => RunOnce(w)
    BY DEF Backlog!RunOnce, RunOnce
  <2>2. Backlog!EndCycle(w) => EndCycle(w)
    BY DEF Backlog!EndCycle, EndCycle, Backlog!Leave, Leave, Backlog!NoItem, NoItem
  <2>3. \A day : Backlog!NextDue(day) = NextDue(day)
    BY DEF Backlog!NextDue, NextDue, Backlog!Due, Due, Backlog!Exists, Exists,
           Backlog!Lockable, Lockable, Backlog!RuleUnlocked, RuleUnlocked,
           Backlog!Before, Before
  <2>4. \A r, day : Backlog!LockDue(w, r, day) => LockDue(w, r, day)
    BY DEF Backlog!LockDue, LockDue, Backlog!PassedOver, PassedOver, Backlog!Due, Due,
           Backlog!Exists, Exists, Backlog!RuleUnlocked, RuleUnlocked, Backlog!Before, Before
  <2>5. Backlog!GetNextDue(w) => GetNextDue(w)
    BY <2>3, <2>4 DEF Backlog!GetNextDue, GetNextDue
  <2>6. Backlog!NothingDue(w) => NothingDue(w)
    BY <2>2, <2>3 DEF Backlog!NothingDue, NothingDue
  <2>7. Backlog!InsertGeneratedTransaction(w) => InsertGeneratedTransaction(w)
    BY DEF Backlog!InsertGeneratedTransaction, InsertGeneratedTransaction,
           Backlog!InsertsRow, InsertsRow
  <2>8. Backlog!AdvanceSchedule(w) => AdvanceSchedule(w)
    BY DEF Backlog!AdvanceSchedule, AdvanceSchedule
  <2>9. Backlog!ReleaseLocks(w) => ReleaseLocks(w)
    BY DEF Backlog!ReleaseLocks, ReleaseLocks
  <2>10. Backlog!Publish(w) => Publish(w)
    <3>1. \A row : Backlog!NextSchedule(row) = NextSchedule(row)
      BY DEF Backlog!NextSchedule, NextSchedule
    <3> QED
      BY <2>9, <3>1 DEF Backlog!Publish, Publish, Backlog!Exists, Exists
  <2>11. Backlog!Commit(w) => Commit(w)
    BY <2>2, <2>10 DEF Backlog!Commit, Commit, Backlog!Leave, Leave, Backlog!NoItem, NoItem
  <2>12. Backlog!CommitUnknown(w) => CommitUnknown(w)
    BY <2>2, <2>10 DEF Backlog!CommitUnknown, CommitUnknown
  <2>13. Backlog!RollBack(w) => RollBack(w)
    BY <2>2, <2>9 DEF Backlog!RollBack, RollBack
  <2> QED
    BY <1>1, <2>1, <2>5, <2>6, <2>7, <2>8, <2>11, <2>12, <2>13
    DEF Backlog!WorkerNext, WorkerNext
<1>2. Backlog!PassTime => PassTime
  BY DEF Backlog!PassTime, PassTime
<1>3. \A r \in Rule, d \in Day : Backlog!DeleteGenerated(r, d) => DeleteGenerated(r, d)
  BY DEF Backlog!DeleteGenerated, DeleteGenerated
<1> QED
  BY <1>1, <1>2, <1>3

LEMMA BacklogInit ==
  ASSUME Backlog!Init, ServiceInit
  PROVE  BacklogInv
<1>1. /\ rules \in [Rule -> RuleRow] /\ nextId = MaxRule + 1
      /\ \A r \in Rule : WellFormed(rules[r])
      /\ StoreInit /\ WorkerInit
  <2>1. Backlog!FreshRow \subseteq { row \in RuleRow : WellFormed(row) }
    BY StoreAssumption
    DEF Backlog!FreshRow, RuleRow, Backlog!WellFormed, WellFormed
  <2>2. StoreInit /\ WorkerInit
    BY DEF Backlog!Init, Backlog!StoreInit, StoreInit, Backlog!WorkerInit, WorkerInit,
       Backlog!NoItem, NoItem, Backlog!Rule, Rule, Backlog!Day, Day
  <2> QED
    BY <2>1, <2>2 DEF Backlog!Init, Backlog!Rule, Rule
<1>2. TypeInv
  <2>1. StoreTypeOK
    <3>1. origin \in [Rule -> Nat \cup {NoDate}]
      BY <1>1 DEF StoreInit, RuleRow
    <3> QED
      BY <1>1, <3>1, StoreAssumption DEF StoreInit, StoreTypeOK, Rule, Day
  <2>2. WorkerTypeOK /\ ServiceTypeOK
    BY <1>1, StoreAssumption, BatchSizeAssumption, ServiceAssumption
    DEF WorkerInit, WorkerTypeOK, ServiceInit, ServiceTypeOK, Item, Day
  <2>3. ItemDue /\ RowPending
    BY <1>1 DEF WorkerInit, ServiceInit, ItemDue, RowPending, InTx
  <2> QED
    BY <2>1, <2>2, <2>3 DEF TypeInv, TypeOK
<1>3. LockInv
  BY <1>1 DEF StoreInit, WorkerInit, LockInv, LocksMatchTransactions, HeldInTx, InTx
<1>4. FreshInv
  BY <1>1, StoreAssumption
  DEF WorkerInit, ServiceInit, FreshInv, SnapshotFresh, IdsInOrder, PendingIds, Rule
<1>5. FormInv
  BY <1>1 DEF ServiceInit, FormInv, RuleWellFormed, PendingWellFormed
<1>6. OnceInv
  BY <1>1 DEF StoreInit, WorkerInit, OnceInv, NoDuplicateGeneration, InsertFresh
<1>7. HistoryInv /\ PostedBehind
  BY <1>1 DEF StoreInit, WorkerInit, ServiceInit, HistoryInv, DayHasCome, RowsPosted,
     SkippedPosted, NewIdsUnposted, PostedBehind, Rule, Day
<1>8. NoGap
  <2>1. ASSUME NEW r \in Rule, origin[r] # NoDate
        PROVE  Complete(rules[r], origin[r], posted[r])
    <3>1. origin[r] = rules[r].next
      BY <1>1, <2>1 DEF StoreInit
    <3> QED
      BY <1>1, <2>1, <3>1, CompleteAtFirst
  <2> QED
    BY <2>1 DEF NoGap
<1> QED
  BY <1>2, <1>3, <1>4, <1>5, <1>6, <1>7, <1>8 DEF BacklogInv, EngineInv

\* A step of the backlog, as the ledger sees it.
LEMMA BacklogStep ==
  ASSUME EngineInv, Backlog!Next
  PROVE  \/ /\ UNCHANGED <<rules, posted>>
            /\ \A r \in Rule, d \in Day : generated[r][d] = 0 => generated'[r][d] = 0
         \/ \E r \in Rule : Ledger!PostRun(r) /\ rules[r] \in RuleRow
<1>1. ASSUME NEW w \in Worker, WorkerNext(w)
      PROVE  \/ UNCHANGED <<rules, posted, generated>>
             \/ \E r \in Rule : Ledger!PostRun(r) /\ rules[r] \in RuleRow
  <2>1. CASE Commit(w) \/ CommitUnknown(w)
    BY <2>1, PublishPosts DEF Commit, CommitUnknown
  <2>2. CASE ~(Commit(w) \/ CommitUnknown(w))
    BY <1>1, <2>2 DEF WorkerNext, RunOnce, GetNextDue, NothingDue, RollBack,
       InsertGeneratedTransaction, AdvanceSchedule, storeVars, tables, history
  <2> QED
    BY <2>1, <2>2
<1>2. ASSUME PassTime
      PROVE  UNCHANGED <<rules, posted, generated>>
  BY <1>2 DEF PassTime, tables, history
<1>3. ASSUME NEW r \in Rule, NEW d \in Day, DeleteGenerated(r, d)
      PROVE  /\ UNCHANGED <<rules, posted>>
             /\ \A s \in Rule, e \in Day : generated[s][e] = 0 => generated'[s][e] = 0
  <2>1. /\ generated \in [Rule -> [Day -> Nat]] /\ generated[r][d] > 0
        /\ generated' = [generated EXCEPT ![r][d] = @ - 1] /\ UNCHANGED <<rules, posted>>
    BY <1>3 DEF DeleteGenerated, history, EngineInv, TypeInv, TypeOK, StoreTypeOK
  <2> QED
    BY <2>1
<1> QED
  BY <1>1, <1>2, <1>3, BacklogActions
  DEF Backlog!Next, Backlog!Rule, Rule, Backlog!Day, Day

\* A posting is of a later day than those before it, and leaves the rule waiting
\* for a still later one.
LEMMA PostingGoesOn ==
  ASSUME BacklogInv, NEW r \in Rule, Ledger!PostRun(r), rules[r] \in RuleRow
  PROVE  /\ PostedBehind'
         /\ \A s \in Rule : \A d \in posted[s] : generated[s][d] = 0 => generated'[s][d] = 0
<1> DEFINE day == rules[r].next
<1>0. /\ rules \in [Rule -> RuleRow \cup {NoRow}] /\ posted \in [Rule -> SUBSET Day]
      /\ generated \in [Rule -> [Day -> Nat]] /\ today \in Day
  BY DEF BacklogInv, EngineInv, TypeInv, TypeOK, StoreTypeOK
<1>1. /\ day \in Day /\ rules[r].active /\ rules[r].frequency \in Frequency
      /\ rules' = [rules EXCEPT ![r] = Ledger!Advanced(rules[r])]
      /\ \A s \in Rule : posted'[s] \subseteq posted[s] \cup (IF s = r THEN {day} ELSE {})
      /\ \/ generated' = [generated EXCEPT ![r][day] = 1]
         \/ day \in posted[r] /\ generated' = generated
  <2>1. day \in Nat /\ day <= today
    BY DEF Ledger!PostRun, Ledger!Due, RuleRow
  <2>2. day \in Day
    BY <1>0, <2>1, StoreAssumption DEF Day
  <2>3. \/ posted' = [posted EXCEPT ![r] = @ \cup {day}]
        \/ posted' = posted
    BY DEF Ledger!PostRun
  <2> QED
    BY <1>0, <2>2, <2>3 DEF Ledger!PostRun, Ledger!Due, RuleRow
<1>2. \A d \in posted[r] : d < day
  BY <1>1 DEF BacklogInv, PostedBehind
<1>3. Ledger!Advanced(rules[r]).active => day < Ledger!Advanced(rules[r]).next
  BY <1>1, NextRunDateAssumption DEF Ledger!Advanced, RuleRow
<1>4. Ledger!Advanced(rules[r]).active =>
        Ledger!Advanced(rules[r]).next = NextRunDate[rules[r].frequency][day]
  BY <1>1 DEF Ledger!Advanced, RuleRow
<1> HIDE DEF day
<1>5. ASSUME NEW s \in Rule, NEW d \in posted'[s], rules'[s].active
      PROVE  d < rules'[s].next
  <2>1. CASE s # r
    BY <1>0, <1>1, <1>5, <2>1 DEF BacklogInv, PostedBehind
  <2>2. CASE s = r
    <3>1. rules'[s] = Ledger!Advanced(rules[r])
      BY <1>0, <1>1, <2>2
    <3>2. d \in Nat /\ day \in Nat /\ d <= day
      BY <1>0, <1>1, <1>2, <2>2 DEF Day
    <3>3. rules'[s].next \in Nat /\ day < rules'[s].next
      BY <1>1, <1>3, <1>4, <1>5, <3>1, NextRunDateAssumption
    <3> QED
      BY <3>2, <3>3
  <2> QED
    BY <2>1, <2>2
<1>6. ASSUME NEW s \in Rule, NEW d \in posted[s], generated[s][d] = 0
      PROVE  generated'[s][d] = 0
  <2>1. d \in Day /\ (s = r => d # day)
    BY <1>0, <1>1, <1>2 DEF Day
  <2> QED
    BY <1>0, <1>1, <1>6, <2>1
<1> QED
  BY <1>5, <1>6 DEF PostedBehind

LEMMA StepBacklog ==
  ASSUME BacklogInv, ServiceInit, ServiceInit', [Backlog!Next]_(Backlog!vars)
  PROVE  /\ BacklogInv'
         /\ [DeletedStay]_(Backlog!vars)
<1>1. UNCHANGED serviceVars
  BY DEF ServiceInit, serviceVars
<1>2. CASE Backlog!Next
  <2>1. Next
    BY <1>1, <1>2, BacklogActions
    DEF Next, Backlog!Next, Backlog!workerVars, workerVars, Backlog!Rule, Rule,
        Backlog!Day, Day
  <2>2. EngineInv' /\ NoGap'
    BY <2>1, StepTypeInv, StepLockInv, StepFreshInv, StepFormInv, StepOnceInv,
       StepHistoryInv, StepNoGap DEF BacklogInv, EngineInv
  <2>3. PostedBehind' /\ DeletedStay
    <3>1. CASE /\ UNCHANGED <<rules, posted>>
               /\ \A r \in Rule, d \in Day : generated[r][d] = 0 => generated'[r][d] = 0
      BY <3>1 DEF BacklogInv, PostedBehind, DeletedStay
    <3>2. CASE \E r \in Rule : Ledger!PostRun(r) /\ rules[r] \in RuleRow
      BY <3>2, PostingGoesOn DEF DeletedStay
    <3> QED
      BY <1>2, <3>1, <3>2, BacklogStep DEF BacklogInv
  <2> QED
    BY <2>2, <2>3 DEF BacklogInv
<1>3. CASE UNCHANGED Backlog!vars
  <2>1. UNCHANGED vars
    BY <1>1, <1>3
    DEF vars, Backlog!vars, Backlog!storeVars, storeVars, Backlog!tables, tables,
        Backlog!locks, locks, Backlog!history, history, Backlog!workerVars, workerVars
  <2>2. EngineInv' /\ NoGap'
    BY <2>1, StepTypeInv, StepLockInv, StepFreshInv, StepFormInv, StepOnceInv,
       StepHistoryInv, StepNoGap DEF BacklogInv, EngineInv
  <2>3. PostedBehind'
    BY <2>1 DEF vars, storeVars, tables, history, BacklogInv, PostedBehind
  <2> QED
    BY <1>3, <2>2, <2>3 DEF BacklogInv
<1> QED
  BY <1>2, <1>3

LEMMA BacklogInvariant == Backlog!Spec /\ []ServiceInit => []BacklogInv
<1>1. Backlog!Init /\ ServiceInit => BacklogInv
  BY BacklogInit
<1>2. BacklogInv /\ ServiceInit /\ ServiceInit' /\ [Backlog!Next]_(Backlog!vars) => BacklogInv'
  BY StepBacklog
<1> QED
  BY <1>1, <1>2, PTL DEF Backlog!Spec

\* A generated transaction the user has deleted is not generated again, for any
\* number of workers, failures, lost answers and days of downtime: ProcessDue never
\* goes back behind the run a rule waits for.  RecurringBacklog has no requests, so its
\* behaviours are those in which the variables of the API keep their first values.
THEOREM BacklogDeletedStaysDeleted == Backlog!Spec /\ []ServiceInit => DeletedStaysDeleted
<1>1. BacklogInv /\ ServiceInit /\ ServiceInit' /\ [Backlog!Next]_(Backlog!vars) =>
        [DeletedStay]_generated
  BY StepBacklog DEF Backlog!vars, Backlog!storeVars, Backlog!tables
<1> QED
  BY <1>1, BacklogInvariant, PTL DEF Backlog!Spec, DeletedStaysDeleted, DeletedStay

\* The workers leave no gap in the schedule of a rule that was there when they
\* started, as in that of one a request wrote (SpecEveryOccurrencePosted).
THEOREM BacklogEveryOccurrencePosted ==
  Backlog!Spec /\ []ServiceInit => []EveryOccurrencePosted
<1>1. BacklogInv => EveryOccurrencePosted
  BY DEF BacklogInv, NoGap, Complete, EveryOccurrencePosted
<1> QED
  BY <1>1, BacklogInvariant, PTL

\* Nor do their locks outlive a transaction, whichever rules share a category.
THEOREM BacklogLocksMatchTransactions ==
  Backlog!Spec /\ []ServiceInit => []LocksMatchTransactions
<1>1. BacklogInv => LocksMatchTransactions
  BY DEF BacklogInv, EngineInv, LockInv
<1> QED
  BY <1>1, BacklogInvariant, PTL
=============================================================================
