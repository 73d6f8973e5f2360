--------------------------- MODULE RecurringProofs --------------------------
(***************************************************************************)
(* Theorems about RecurringSystem for any number of rules, categories,     *)
(* workers and clients, any calendar whose runs move forward, any batch    *)
(* size and any number of requests.                                        *)
(***************************************************************************)
EXTENDS RecurringSystem, TLAPS

-----------------------------------------------------------------------------
(* Type correctness.  It needs to know that the run a worker is posting    *)
(* was due when its cycle began, or NextRunDate is applied outside its     *)
(* domain.                                                                 *)

ItemDue ==
  \A w \in Worker : InTx(w) =>
    /\ item[w] # NoItem
    /\ item[w].row.active
    /\ item[w].row.next \in Day
    /\ item[w].row.next <= runAt[w]

\* Create and Update have a row when they come to writing it.
RowPending ==
  \A c \in Client : call[c] \in {"insert", "write"} =>
    callRow[c] \in RuleRow /\ callRule[c] \in Rule

TypeInv == TypeOK /\ ItemDue /\ RowPending

\* The next schedule of a due row has the types of its two columns.
LEMMA NextScheduleType ==
  ASSUME NEW row \in RuleRow, row.next \in Day
  PROVE  /\ NextSchedule(row).next \in Nat \cup {NoDate}
         /\ NextSchedule(row).active \in BOOLEAN
  BY NextRunDateAssumption, StoreAssumption DEF NextSchedule, RuleRow

LEMMA NewRowType ==
  ASSUME NEW existing \in RuleRow \cup {NoRow}, NEW input \in RecurringInput
  PROVE  NewRow(existing, input) \in RuleRow
  BY StoreAssumption, NoRowAssumption DEF NewRow, NextRun, RuleRow, RecurringInput

LEMMA ReleaseType ==
  ASSUME NEW w, ReleaseLocks(w), StoreTypeOK
  PROVE  /\ rowLock' \in [Rule -> Worker \cup {NoTx}]
         /\ categoryLock' \in [Category -> Worker \cup {NoTx}]
  BY DEF ReleaseLocks, StoreTypeOK

LEMMA InitTypeInv == Init => TypeInv
  BY StoreAssumption, BatchSizeAssumption, ServiceAssumption, NoRowAssumption DEF Init, StoreInit, WorkerInit, ServiceInit, TypeInv, TypeOK, StoreTypeOK,
         WorkerTypeOK, ServiceTypeOK, ItemDue, RowPending, InTx, Item, Rule, Day

\* What a transaction publishes keeps the tables' types.
LEMMA PublishType ==
  ASSUME TypeInv, NEW w \in Worker, pc[w] = "commit", Publish(w)
  PROVE  StoreTypeOK'
<1> DEFINE r == item[w].id
           row == item[w].row
<1>1. r \in Rule /\ row \in RuleRow /\ row.next \in Day
  BY DEF TypeInv, TypeOK, WorkerTypeOK, ItemDue, InTx, Item
<1>2. rules' \in [Rule -> RuleRow \cup {NoRow}]
  <2>1. CASE ~Exists(r)
    BY <2>1 DEF Publish, TypeInv, TypeOK, StoreTypeOK
  <2>2. CASE Exists(r)
    <3> DEFINE new == [rules[r] EXCEPT !.next = NextSchedule(row).next,
                                       !.active = NextSchedule(row).active]
    <3>1. rules[r] \in RuleRow
      BY <1>1, <2>2 DEF Exists, TypeInv, TypeOK, StoreTypeOK
    <3>2. new \in RuleRow
      BY <1>1, <3>1, NextScheduleType DEF RuleRow
    <3>3. rules' = [rules EXCEPT ![r] = new]
      BY <2>2 DEF Publish
    <3>4. QED
      BY <3>2, <3>3 DEF TypeInv, TypeOK, StoreTypeOK
  <2>3. QED
    BY <2>1, <2>2
<1>3. generated' \in [Rule -> [Day -> Nat]]
  <2>1. CASE ~inserted[w]
    BY <2>1 DEF Publish, TypeInv, TypeOK, StoreTypeOK
  <2>2. CASE inserted[w]
    <3> DEFINE count == [generated[r] EXCEPT ![row.next] = @ + 1]
    <3>1. generated[r] \in [Day -> Nat]
      BY <1>1 DEF TypeInv, TypeOK, StoreTypeOK
    <3>2. count \in [Day -> Nat]
      BY <1>1, <3>1
    <3>3. generated' = [generated EXCEPT ![r] = count]
      BY <2>2 DEF Publish
    <3>4. QED
      BY <3>2, <3>3 DEF TypeInv, TypeOK, StoreTypeOK
  <2>3. QED
    BY <2>1, <2>2
<1>4. posted' \in [Rule -> SUBSET Day]
  BY <1>1 DEF Publish, TypeInv, TypeOK, StoreTypeOK
<1>5. QED
  BY <1>2, <1>3, <1>4, ReleaseType
     DEF Publish, TypeInv, TypeOK, StoreTypeOK

\* A worker that goes on to the next iteration.
LEMMA LeaveType ==
  ASSUME TypeInv, NEW w \in Worker, Leave(w, "select"), UNCHANGED runAt,
         iteration' \in [Worker -> 0..(BatchSize - 1)]
  PROVE  WorkerTypeOK' /\ ItemDue'
<1>1. WorkerTypeOK'
  BY DEF Leave, WorkerTypeOK, Item, TypeInv, TypeOK
<1>2. ItemDue'
  BY DEF Leave, WorkerTypeOK, TypeInv, TypeOK, ItemDue, InTx
<1>3. QED
  BY <1>1, <1>2

\* A worker that returns from ProcessDue is back in its initial state.
LEMMA EndCycleType ==
  ASSUME TypeInv, NEW w \in Worker, EndCycle(w)
  PROVE  WorkerTypeOK' /\ ItemDue'
<1>1. 0 \in 0..(BatchSize - 1) /\ 0 \in Day
  BY StoreAssumption, BatchSizeAssumption DEF Day
<1>2. WorkerTypeOK'
  BY <1>1 DEF EndCycle, Leave, WorkerTypeOK, Item, TypeInv, TypeOK
<1>3. ItemDue'
  BY DEF EndCycle, Leave, WorkerTypeOK, TypeInv, TypeOK, ItemDue, InTx
<1>4. QED
  BY <1>2, <1>3

\* Every step keeps types.
LEMMA StepTypeInv == TypeInv /\ [Next]_vars => TypeInv'
<1> SUFFICES ASSUME TypeInv, [Next]_vars PROVE TypeInv'
  OBVIOUS
<1> USE DEF TypeInv, TypeOK, ItemDue, RowPending, InTx
<1>1. ASSUME NEW w \in Worker, WorkerNext(w), UNCHANGED serviceVars
      PROVE  TypeInv'
  <2>1. ServiceTypeOK' /\ RowPending'
    BY <1>1 DEF serviceVars, ServiceTypeOK
  <2>2. CASE RunOnce(w)
    BY <2>1, <2>2 DEF RunOnce, StoreTypeOK, WorkerTypeOK, storeVars, tables, locks, history
  <2>3. CASE GetNextDue(w)
    <3>1. PICK r \in NextDue(runAt[w]) :
            /\ LockDue(w, r, runAt[w])
            /\ item' = [item EXCEPT ![w] = [id |-> r, row |-> rules[r]]]
      BY <2>3 DEF GetNextDue
    <3>2. /\ r \in Rule /\ rules[r] \in RuleRow
          /\ rules[r].active /\ rules[r].next \in Day /\ rules[r].next <= runAt[w]
      BY <3>1, StoreAssumption, NoRowAssumption DEF NextDue, Due, Exists, StoreTypeOK, WorkerTypeOK, RuleRow, Day
    <3>3. StoreTypeOK'
      BY <2>3, <3>1, <3>2
         DEF GetNextDue, LockDue, StoreTypeOK, tables, history
    <3>4. WorkerTypeOK'
      BY <2>3, <3>1, <3>2 DEF GetNextDue, WorkerTypeOK, Item
    <3>5. ItemDue'
      BY <2>3, <3>1, <3>2, NoRowAssumption DEF GetNextDue, WorkerTypeOK, Item, NoItem
    <3>6. QED
      BY <2>1, <3>3, <3>4, <3>5
  <2>4. CASE NothingDue(w)
    BY <2>1, <2>4, EndCycleType DEF NothingDue, StoreTypeOK,
       storeVars, tables, locks, history
  <2>5. CASE InsertGeneratedTransaction(w)
    BY <2>1, <2>5 DEF InsertGeneratedTransaction, InsertsRow, StoreTypeOK, WorkerTypeOK,
       storeVars, tables, locks, history
  <2>6. CASE AdvanceSchedule(w)
    BY <2>1, <2>6 DEF AdvanceSchedule, StoreTypeOK, WorkerTypeOK,
       storeVars, tables, locks, history
  <2>7. CASE Commit(w)
    <3>1. StoreTypeOK'
      BY <2>7, PublishType DEF Commit
    <3>2. WorkerTypeOK' /\ ItemDue'
      <4>1. CASE iteration[w] + 1 < BatchSize
        <5>1. iteration[w] + 1 \in 0..(BatchSize - 1)
          BY <4>1, BatchSizeAssumption DEF WorkerTypeOK
        <5>2. iteration' = [iteration EXCEPT ![w] = iteration[w] + 1]
          BY <2>7, <4>1 DEF Commit
        <5>3. iteration' \in [Worker -> 0..(BatchSize - 1)]
          BY <5>1, <5>2 DEF WorkerTypeOK
        <5>4. QED
          BY <2>7, <4>1, <5>3, LeaveType DEF Commit
      <4>2. CASE ~(iteration[w] + 1 < BatchSize)
        BY <2>7, <4>2, EndCycleType DEF Commit
      <4>3. QED
        BY <4>1, <4>2
    <3>3. QED
      BY <2>1, <3>1, <3>2
  <2>8. CASE CommitUnknown(w)
    <3>1. StoreTypeOK'
      BY <2>8, PublishType DEF CommitUnknown
    <3>2. WorkerTypeOK' /\ ItemDue'
      BY <2>8, EndCycleType DEF CommitUnknown
    <3>3. QED
      BY <2>1, <3>1, <3>2
  <2>9. CASE RollBack(w)
    <3>1. StoreTypeOK'
      BY <2>9, ReleaseType DEF RollBack, StoreTypeOK, tables, history
    <3>2. WorkerTypeOK' /\ ItemDue'
      BY <2>9, EndCycleType DEF RollBack
    <3>3. QED
      BY <2>1, <3>1, <3>2
  <2>10. QED
    BY <1>1, <2>2, <2>3, <2>4, <2>5, <2>6, <2>7, <2>8, <2>9 DEF WorkerNext
<1>2. ASSUME NEW c \in Client, ServiceNext(c), UNCHANGED workerVars
      PROVE  TypeInv'
  <2>1. WorkerTypeOK' /\ ItemDue'
    BY <1>2 DEF workerVars, WorkerTypeOK
  <2> USE DEF ServiceTypeOK, StoreTypeOK, Accept, Proceed, Finish,
              storeVars, tables, locks, history
  <2>2. ASSUME NEW input \in RecurringInput, Create(c, input)
        PROVE  TypeInv'
    <3>1. /\ NewRow(NoRow, input) \in RuleRow
          /\ NextRun(NoRow, input) \in Nat \cup {NoDate}
      BY NewRowType DEF NewRow, RuleRow
    <3>2. nextId \in Rule /\ nextId + 1 \in 1..(MaxRule + 1)
      BY <2>2, StoreAssumption DEF Create, Rule
    <3>3. StoreTypeOK'
      BY <2>2, <3>2 DEF Create
    <3>4. ServiceTypeOK' /\ RowPending'
      BY <2>2, <3>1, <3>2, ServiceAssumption DEF Create
    <3>5. QED
      BY <2>1, <3>3, <3>4
  <2>3. ASSUME NEW r \in Rule, NEW input \in RecurringInput, UpdateLoad(c, r, input)
        PROVE  TypeInv'
    <3>1. NewRow(rules[r], input) \in RuleRow
      BY NewRowType
    <3>2. ServiceTypeOK' /\ RowPending'
      BY <2>3, <3>1, ServiceAssumption DEF UpdateLoad
    <3>3. StoreTypeOK'
      BY <2>3 DEF UpdateLoad
    <3>4. QED
      BY <2>1, <3>2, <3>3
  <2>4. CASE UpdateWrite(c)
    <3>1. callRow[c] \in RuleRow /\ callRow[c].next \in Nat \cup {NoDate}
      BY <2>4 DEF UpdateWrite, RuleRow
    <3>2. ServiceTypeOK' /\ RowPending'
      BY <2>4 DEF UpdateWrite
    <3>3. /\ rules' \in [Rule -> RuleRow \cup {NoRow}]
          /\ origin' \in [Rule -> Nat \cup {NoDate}]
      <4>1. CASE Exists(callRule[c])
        <5>1. /\ rules' = [rules EXCEPT ![callRule[c]] = callRow[c]]
              /\ origin' = [origin EXCEPT ![callRule[c]] = callRow[c].next]
          BY <2>4, <4>1 DEF UpdateWrite
        <5> QED
          BY <3>1, <5>1
      <4>2. CASE ~Exists(callRule[c])
        BY <2>4, <4>2 DEF UpdateWrite
      <4>3. QED
        BY <4>1, <4>2
    <3>4. StoreTypeOK'
      BY <2>4, <3>3 DEF UpdateWrite
    <3>5. QED
      BY <2>1, <3>2, <3>4
  <2>5. CASE UpdateReread(c)
    BY <2>1, <2>5 DEF UpdateReread
  <2>6. CASE RequestFails(c) \/ Recover(c)
    BY <2>1, <2>6 DEF RequestFails, Recover
  <2>7. CASE InsertRule(c)
    <3>1. callRow[c] \in RuleRow /\ callRow[c].next \in Nat \cup {NoDate}
      BY <2>7 DEF InsertRule, RuleRow
    <3>2. ServiceTypeOK' /\ RowPending'
      BY <2>7 DEF InsertRule
    <3>3. StoreTypeOK'
      BY <2>7, <3>1 DEF InsertRule
    <3> QED
      BY <2>1, <3>2, <3>3
  <2>8. ASSUME NEW r \in Rule, Delete(c, r)
        PROVE  TypeInv'
    BY <2>1, <2>8, ServiceAssumption DEF Delete
  <2>9. CASE DeleteRule(c)
    <3>1. ServiceTypeOK' /\ RowPending'
      BY <2>9 DEF DeleteRule
    <3>2. generated' \in [Rule -> [Day -> Nat]]
      BY <2>9 DEF DeleteRule, DetachGenerated
    <3>3. rules' \in [Rule -> RuleRow \cup {NoRow}]
      BY <2>9 DEF DeleteRule
    <3>4. StoreTypeOK'
      BY <2>9, <3>2, <3>3 DEF DeleteRule
    <3> QED
      BY <2>1, <3>1, <3>4
  <2> QED
    BY <1>2, <2>2, <2>3, <2>4, <2>5, <2>6, <2>7, <2>8, <2>9 DEF ServiceNext
<1>3. ASSUME PassTime, UNCHANGED <<workerVars, serviceVars>>
      PROVE  TypeInv'
  BY <1>3 DEF PassTime, workerVars, serviceVars, StoreTypeOK, WorkerTypeOK, ServiceTypeOK,
     tables, locks, history
<1>4. ASSUME NEW r \in Rule, NEW d \in Day, DeleteGenerated(r, d),
             UNCHANGED <<workerVars, serviceVars>>
      PROVE  TypeInv'
  <2> DEFINE count == [generated[r] EXCEPT ![d] = @ - 1]
  <2>1. generated[r] \in [Day -> Nat] /\ generated[r][d] > 0
    BY <1>4 DEF DeleteGenerated, StoreTypeOK
  <2>2. count \in [Day -> Nat]
    BY <2>1
  <2>3. generated' = [generated EXCEPT ![r] = count]
    BY <1>4 DEF DeleteGenerated
  <2>4. QED
    BY <1>4, <2>2, <2>3 DEF DeleteGenerated, workerVars, serviceVars, StoreTypeOK,
       WorkerTypeOK, ServiceTypeOK, tables, locks, history
<1>5. CASE UNCHANGED vars
  BY <1>5 DEF vars, storeVars, workerVars, serviceVars, StoreTypeOK, WorkerTypeOK,
     ServiceTypeOK, tables, locks, history
<1>6. QED
  BY <1>1, <1>2, <1>3, <1>4, <1>5 DEF Next

\* The recurring engine is type-correct: every column, lock and program counter
\* keeps its type, and the run being posted is one the schedule can follow on.
THEOREM SpecTypeOK == Spec => []TypeOK
<1>1. Init => TypeInv
  BY InitTypeInv
<1>2. TypeInv /\ [Next]_vars => TypeInv'
  BY StepTypeInv
<1>3. TypeInv => TypeOK
  BY DEF TypeInv
<1>4. QED
  BY <1>1, <1>2, <1>3, PTL DEF Spec

-----------------------------------------------------------------------------
(* Locks and what they protect.  Requests and the clock leave the locks    *)
(* and the workers alone, so for the locks only a worker's own steps       *)
(* matter.                                                                 *)

\* A rule is held between its load and the end of the transaction.
HeldInTx == \A w \in Worker : item[w] # NoItem => InTx(w)

LockInv == LocksMatchTransactions /\ HeldInTx

\* What the lock lemmas need of types.
LEMMA LockTypes ==
  ASSUME TypeInv
  PROVE  /\ rowLock \in [Rule -> Worker \cup {NoTx}]
         /\ categoryLock \in [Category -> Worker \cup {NoTx}]
         /\ pc \in [Worker -> {"idle", "select", "insert", "advance", "commit"}]
         /\ item \in [Worker -> Item]
         /\ \A w \in Worker : item[w] # NoItem =>
              item[w].id \in Rule /\ item[w].row.category \in Category
         /\ NoTx \notin Worker
  BY StoreAssumption
  DEF TypeInv, TypeOK, StoreTypeOK, WorkerTypeOK, Item, RuleRow

LEMMA ServiceKeepsLocks ==
  ASSUME NEW c \in Client, ServiceNext(c)
  PROVE  UNCHANGED locks
<1>1. ASSUME NEW input \in RecurringInput, Create(c, input) PROVE UNCHANGED locks
  BY <1>1 DEF Create
<1>2. ASSUME NEW r \in Rule, NEW input \in RecurringInput, UpdateLoad(c, r, input)
      PROVE  UNCHANGED locks
  BY <1>2 DEF UpdateLoad, storeVars
<1>3. ASSUME NEW r \in Rule, Delete(c, r) PROVE UNCHANGED locks
  BY <1>3 DEF Delete, storeVars
<1>4. QED
  BY <1>1, <1>2, <1>3
     DEF ServiceNext, InsertRule, UpdateWrite, UpdateReread, DeleteRule, RequestFails,
         Recover, storeVars

\* A worker that ends its transaction releases everything it held.
LEMMA EndTxLocks ==
  ASSUME TypeInv, LockInv, NEW w \in Worker, NEW at \in {"select", "idle"},
         ReleaseLocks(w), Leave(w, at)
  PROVE  LockInv'
<1> USE LockTypes DEF InTx
<1>1. pc'[w] = at /\ item'[w] = NoItem
  BY DEF Leave
<1>2. \A v \in Worker : v # w => pc'[v] = pc[v] /\ item'[v] = item[v]
  BY DEF Leave
<1>3. ASSUME NEW r \in Rule, rowLock'[r] # NoTx
      PROVE  pc'[rowLock'[r]] \in {"insert", "advance", "commit"}
  <2>1. rowLock'[r] = rowLock[r] /\ rowLock[r] # w /\ rowLock[r] \in Worker
    BY <1>3 DEF ReleaseLocks
  <2>2. pc[rowLock[r]] \in {"insert", "advance", "commit"}
    BY <1>3, <2>1 DEF LockInv, LocksMatchTransactions
  <2>3. QED
    BY <1>2, <2>1, <2>2
<1>4. ASSUME NEW c \in Category, categoryLock'[c] # NoTx
      PROVE  pc'[categoryLock'[c]] \in {"insert", "advance", "commit"}
  <2>1. /\ categoryLock'[c] = categoryLock[c]
        /\ categoryLock[c] # w /\ categoryLock[c] \in Worker
    BY <1>4 DEF ReleaseLocks
  <2>2. pc[categoryLock[c]] \in {"insert", "advance", "commit"}
    BY <1>4, <2>1 DEF LockInv, LocksMatchTransactions
  <2>3. QED
    BY <1>2, <2>1, <2>2
<1>5. ASSUME NEW v \in Worker, pc'[v] \in {"insert", "advance", "commit"}
      PROVE  /\ item'[v] # NoItem
             /\ rowLock'[item'[v].id] = v
             /\ categoryLock'[item'[v].row.category] = v
  <2>1. v # w /\ pc'[v] = pc[v] /\ item'[v] = item[v]
    BY <1>1, <1>2, <1>5
  <2>2. /\ item[v] # NoItem /\ rowLock[item[v].id] = v
        /\ categoryLock[item[v].row.category] = v
    BY <1>5, <2>1 DEF LockInv, LocksMatchTransactions
  <2>3. item[v].id \in Rule /\ item[v].row.category \in Category
    BY <2>2
  <2>4. rowLock'[item[v].id] = v /\ categoryLock'[item[v].row.category] = v
    BY <2>1, <2>2, <2>3 DEF ReleaseLocks
  <2>5. QED
    BY <2>1, <2>2, <2>4
<1>6. ASSUME NEW v \in Worker, item'[v] # NoItem
      PROVE  pc'[v] \in {"insert", "advance", "commit"}
  BY <1>1, <1>2, <1>6 DEF LockInv, HeldInTx
<1>7. QED
  BY <1>3, <1>4, <1>5, <1>6 DEF LockInv, LocksMatchTransactions, HeldInTx

\* The locks GetNextDue takes were free, so no other worker loses one.
LEMMA GetNextDueLocks ==
  ASSUME TypeInv, LockInv, NEW w \in Worker, GetNextDue(w)
  PROVE  LockInv'
<1> USE LockTypes DEF InTx
<1>1. PICK r \in NextDue(runAt[w]) :
        /\ LockDue(w, r, runAt[w])
        /\ item' = [item EXCEPT ![w] = [id |-> r, row |-> rules[r]]]
  BY DEF GetNextDue
<1>2. /\ r \in Rule /\ rules[r] # NoRow
      /\ rowLock[r] = NoTx /\ categoryLock[rules[r].category] = NoTx
  BY DEF NextDue, Due, Exists, Lockable, RuleUnlocked
<1>3. rules[r].category \in Category
  BY <1>2 DEF TypeInv, TypeOK, StoreTypeOK, RuleRow
<1>4. /\ pc[w] = "select" /\ pc'[w] = "insert"
      /\ item'[w] = [id |-> r, row |-> rules[r]]
  BY <1>1 DEF GetNextDue
<1>5. \A v \in Worker : v # w => pc'[v] = pc[v] /\ item'[v] = item[v]
  BY <1>1 DEF GetNextDue
<1>6. rowLock'[r] = w
  BY <1>1, <1>2 DEF LockDue
<1>7. ASSUME NEW s \in Rule
      PROVE  rowLock'[s] = rowLock[s] \/ (rowLock'[s] = w /\ rowLock[s] = NoTx)
  <2>1. s \in PassedOver(r, runAt[w]) => rowLock[s] = NoTx
    BY DEF PassedOver, RuleUnlocked
  <2>2. rowLock'[s] = IF s = r \/ s \in PassedOver(r, runAt[w]) THEN w ELSE rowLock[s]
    BY <1>1 DEF LockDue
  <2>3. QED
    BY <1>2, <2>1, <2>2
<1>8. categoryLock' = [categoryLock EXCEPT ![rules[r].category] = w]
  BY <1>1 DEF LockDue
<1>9. ASSUME NEW s \in Rule, rowLock'[s] # NoTx
      PROVE  pc'[rowLock'[s]] \in {"insert", "advance", "commit"}
  <2>1. CASE rowLock'[s] = w
    BY <1>4, <2>1
  <2>2. CASE rowLock'[s] # w
    <3>1. rowLock'[s] = rowLock[s] /\ rowLock[s] \in Worker
      BY <1>7, <1>9, <2>2
    <3>2. pc[rowLock[s]] \in {"insert", "advance", "commit"}
      BY <1>9, <3>1 DEF LockInv, LocksMatchTransactions
    <3>3. QED
      BY <1>5, <2>2, <3>1, <3>2
  <2>3. QED
    BY <2>1, <2>2
<1>10. ASSUME NEW c \in Category, categoryLock'[c] # NoTx
       PROVE  pc'[categoryLock'[c]] \in {"insert", "advance", "commit"}
  <2>1. CASE c = rules[r].category
    BY <1>3, <1>4, <1>8, <2>1
  <2>2. CASE c # rules[r].category
    <3>1. categoryLock'[c] = categoryLock[c] /\ categoryLock[c] \in Worker
      BY <1>8, <1>10, <2>2
    <3>2. pc[categoryLock[c]] \in {"insert", "advance", "commit"}
      BY <1>10, <3>1 DEF LockInv, LocksMatchTransactions
    <3>3. QED
      BY <1>4, <1>5, <3>1, <3>2
  <2>3. QED
    BY <2>1, <2>2
<1>11. ASSUME NEW v \in Worker, pc'[v] \in {"insert", "advance", "commit"}
       PROVE  /\ item'[v] # NoItem
              /\ rowLock'[item'[v].id] = v
              /\ categoryLock'[item'[v].row.category] = v
  <2>1. CASE v = w
    <3>1. [id |-> r, row |-> rules[r]] # NoItem
      BY <1>2 DEF NoItem, Rule
    <3>2. QED
      BY <1>3, <1>4, <1>6, <1>8, <2>1, <3>1
  <2>2. CASE v # w
    <3>1. pc[v] \in {"insert", "advance", "commit"} /\ item'[v] = item[v]
      BY <1>5, <1>11, <2>2
    <3>2. /\ item[v] # NoItem /\ rowLock[item[v].id] = v
          /\ categoryLock[item[v].row.category] = v
      BY <3>1 DEF LockInv, LocksMatchTransactions
    <3>3. item[v].id \in Rule /\ item[v].row.category \in Category
      BY <3>2
    <3>4. rowLock'[item[v].id] = v
      BY <1>7, <3>2, <3>3
    <3>5. categoryLock'[item[v].row.category] = v
      BY <1>2, <1>8, <3>2, <3>3
    <3>6. QED
      BY <3>1, <3>2, <3>4, <3>5
  <2>3. QED
    BY <2>1, <2>2
<1>12. ASSUME NEW v \in Worker, item'[v] # NoItem
       PROVE  pc'[v] \in {"insert", "advance", "commit"}
  BY <1>4, <1>5, <1>12 DEF LockInv, HeldInTx
<1>13. QED
  BY <1>9, <1>10, <1>11, <1>12 DEF LockInv, LocksMatchTransactions, HeldInTx

\* A step that keeps the locks, the loaded rules and who is in a transaction.
LEMMA SameTxLocks ==
  ASSUME TypeInv, LockInv, UNCHANGED <<locks, item>>,
         \A w \in Worker : InTx(w)' <=> InTx(w)
  PROVE  LockInv'
<1>1. \A r \in Rule : rowLock[r] \in Worker \cup {NoTx}
  BY DEF TypeInv, TypeOK, StoreTypeOK
<1>2. \A c \in Category : categoryLock[c] \in Worker \cup {NoTx}
  BY DEF TypeInv, TypeOK, StoreTypeOK
<1>3. QED
  BY <1>1, <1>2 DEF LockInv, LocksMatchTransactions, HeldInTx, locks

LEMMA StepLockInv == TypeInv /\ LockInv /\ [Next]_vars => LockInv'
<1> SUFFICES ASSUME TypeInv, LockInv, [Next]_vars PROVE LockInv'
  OBVIOUS
<1>1. CASE UNCHANGED <<locks, workerVars>>
  BY <1>1, SameTxLocks DEF workerVars, InTx
<1>2. ASSUME NEW w \in Worker, WorkerNext(w)
      PROVE  LockInv'
  <2>1. CASE GetNextDue(w)
    BY <2>1, GetNextDueLocks
  <2>2. CASE Commit(w)
    <3>1. ReleaseLocks(w) /\ (Leave(w, "select") \/ Leave(w, "idle"))
      BY <2>2 DEF Commit, Publish, EndCycle
    <3>2. QED
      BY <3>1, EndTxLocks
  <2>3. CASE CommitUnknown(w) \/ RollBack(w)
    <3>1. ReleaseLocks(w) /\ Leave(w, "idle")
      BY <2>3 DEF CommitUnknown, RollBack, Publish, EndCycle
    <3>2. QED
      BY <3>1, EndTxLocks
  <2>4. CASE NothingDue(w)
    <3>1. ~InTx(w) /\ item[w] = NoItem
      BY <2>4 DEF NothingDue, InTx, LockInv, HeldInTx
    <3>2. UNCHANGED <<locks, item>>
      BY <2>4, <3>1 DEF NothingDue, EndCycle, Leave, storeVars, TypeInv, TypeOK, WorkerTypeOK
    <3>3. \A v \in Worker : InTx(v)' <=> InTx(v)
      BY <2>4 DEF NothingDue, EndCycle, Leave, InTx, TypeInv, TypeOK, WorkerTypeOK
    <3>4. QED
      BY <3>2, <3>3, SameTxLocks
  <2>5. CASE RunOnce(w) \/ InsertGeneratedTransaction(w) \/ AdvanceSchedule(w)
    <3>1. UNCHANGED <<locks, item>>
      BY <2>5 DEF RunOnce, InsertGeneratedTransaction, AdvanceSchedule, storeVars
    <3>2. \A v \in Worker : InTx(v)' <=> InTx(v)
      BY <2>5 DEF RunOnce, InsertGeneratedTransaction, AdvanceSchedule, InTx,
         TypeInv, TypeOK, WorkerTypeOK
    <3>3. QED
      BY <3>1, <3>2, SameTxLocks
  <2>6. QED
    BY <1>2, <2>1, <2>2, <2>3, <2>4, <2>5 DEF WorkerNext
<1>3. QED
  BY <1>1, <1>2, ServiceKeepsLocks
     DEF Next, vars, storeVars, PassTime, DeleteGenerated

LEMMA InitLockInv == Init => LockInv
  BY DEF Init, StoreInit, WorkerInit, LockInv, LocksMatchTransactions, HeldInTx, InTx

\* No lock outlives its transaction, and a rule that is being posted is locked
\* together with its category: processor.go rolls back or commits on every path.
THEOREM SpecLocksMatchTransactions == Spec => []LocksMatchTransactions
<1>1. Init => TypeInv /\ LockInv
  BY InitTypeInv, InitLockInv
<1>2. TypeInv /\ LockInv /\ [Next]_vars => (TypeInv /\ LockInv)'
  BY StepTypeInv, StepLockInv
<1>3. LockInv => LocksMatchTransactions
  BY DEF LockInv
<1>4. QED
  BY <1>1, <1>2, <1>3, PTL DEF Spec

-----------------------------------------------------------------------------
(* The row lock keeps what a worker read fresh until it commits.           *)

\* Ids beyond the sequence have no row yet.
IdsInOrder == \A r \in Rule : r >= nextId => rules[r] = NoRow

\* Nor has the id a waiting INSERT took, and no two of them took the same: Create
\* never lands on a rule a worker holds.
PendingIds ==
  \A c \in Client : call[c] = "insert" =>
    /\ callRule[c] \in Rule
    /\ callRule[c] < nextId
    /\ rules[callRule[c]] = NoRow
    /\ \A d \in Client : call[d] = "insert" /\ callRule[d] = callRule[c] => d = c

FreshInv == SnapshotFresh /\ IdsInOrder /\ PendingIds

\* Requests touch only rules that no worker holds.
LEMMA ServiceWritesUnlocked ==
  ASSUME TypeInv, FreshInv, NEW c \in Client, ServiceNext(c),
         NEW r \in Rule, Exists(r), rowLock[r] # NoTx
  PROVE  rules'[r] = rules[r]
<1> USE DEF TypeInv, TypeOK, StoreTypeOK
<1>1. ASSUME NEW input \in RecurringInput, Create(c, input) PROVE rules'[r] = rules[r]
  BY <1>1 DEF Create
<1>2. ASSUME NEW s \in Rule, NEW input \in RecurringInput, UpdateLoad(c, s, input)
      PROVE  rules'[r] = rules[r]
  BY <1>2 DEF UpdateLoad, storeVars, tables
<1>3. CASE InsertRule(c)
  <2>1. rules' = [rules EXCEPT ![callRule[c]] = callRow[c]]
    BY <1>3 DEF InsertRule
  <2>2. rules[callRule[c]] = NoRow
    BY <1>3 DEF InsertRule, FreshInv, PendingIds
  <2> QED
    BY <2>1, <2>2 DEF Exists
<1>4. CASE UpdateWrite(c)
  BY <1>4 DEF UpdateWrite, CanWriteRule, RuleUnlocked
<1>5. ASSUME NEW s \in Rule, Delete(c, s) PROVE rules'[r] = rules[r]
  BY <1>5 DEF Delete, storeVars, tables
<1>6. CASE DeleteRule(c)
  BY <1>6 DEF DeleteRule, RuleUnlocked
<1>7. CASE UpdateReread(c) \/ RequestFails(c) \/ Recover(c)
  BY <1>7 DEF UpdateReread, RequestFails, Recover, storeVars, tables
<1> QED
  BY <1>1, <1>2, <1>3, <1>4, <1>5, <1>6, <1>7 DEF ServiceNext

\* What a step that gives no rule to an id without one keeps of the ids.
LEMMA SameIds ==
  ASSUME TypeInv, FreshInv, nextId' = nextId, NEW c \in Client, NEW at, NEW q, NEW row,
         Proceed(c, at, q, row), at # "insert",
         \A r \in Rule : rules[r] = NoRow => rules'[r] = NoRow
  PROVE  IdsInOrder' /\ PendingIds'
<1>1. IdsInOrder'
  BY DEF FreshInv, IdsInOrder
<1>2. \A d \in Client : call'[d] = "insert" =>
        d # c /\ call[d] = "insert" /\ callRule'[d] = callRule[d]
  BY DEF Proceed, TypeInv, TypeOK, ServiceTypeOK
<1>3. PendingIds'
  BY <1>2 DEF FreshInv, PendingIds
<1> QED
  BY <1>1, <1>3

\* Requests never fill an id beyond the sequence, nor one another INSERT took.
LEMMA ServiceKeepsIds ==
  ASSUME TypeInv, FreshInv, NEW c \in Client, ServiceNext(c)
  PROVE  IdsInOrder' /\ PendingIds'
<1>0. /\ rules \in [Rule -> RuleRow \cup {NoRow}] /\ nextId \in Nat
      /\ call \in [Client -> {"idle", "insert", "write", "reread", "delete", "panic"}]
      /\ callRule \in [Client -> Rule \cup {0}]
  BY DEF TypeInv, TypeOK, StoreTypeOK, ServiceTypeOK
<1>1. ASSUME NEW input \in RecurringInput, Create(c, input)
      PROVE  IdsInOrder' /\ PendingIds'
  <2>1. /\ nextId \in Rule /\ nextId' = nextId + 1 /\ rules' = rules
        /\ call' = [call EXCEPT ![c] = "insert"]
        /\ callRule' = [callRule EXCEPT ![c] = nextId]
    BY <1>1 DEF Create, Proceed
  <2>2. IdsInOrder'
    BY <1>0, <2>1 DEF FreshInv, IdsInOrder, Rule
  <2>3. rules[nextId] = NoRow
    BY <1>0, <2>1 DEF FreshInv, IdsInOrder
  <2>4. \A d \in Client : d # c /\ call'[d] = "insert" =>
          /\ callRule'[d] = callRule[d] /\ call[d] = "insert"
          /\ callRule[d] \in Rule /\ callRule[d] < nextId /\ rules[callRule[d]] = NoRow
          /\ \A e \in Client : call[e] = "insert" /\ callRule[e] = callRule[d] => e = d
    BY <1>0, <2>1 DEF FreshInv, PendingIds
  <2>5. callRule'[c] = nextId /\ call'[c] = "insert"
    BY <1>0, <2>1
  <2>6. ASSUME NEW d \in Client, call'[d] = "insert"
        PROVE  /\ callRule'[d] \in Rule /\ callRule'[d] < nextId'
               /\ rules'[callRule'[d]] = NoRow
    <3>1. CASE d = c
      BY <1>0, <2>1, <2>3, <2>5, <3>1
    <3>2. CASE d # c
      BY <1>0, <2>1, <2>4, <2>6, <3>2 DEF Rule
    <3> QED
      BY <3>1, <3>2
  <2>7. ASSUME NEW d \in Client, call'[d] = "insert",
               NEW e \in Client, call'[e] = "insert", callRule'[e] = callRule'[d]
        PROVE  e = d
    <3>1. \A f \in Client : f # c /\ call'[f] = "insert" => callRule'[f] # nextId
      BY <1>0, <2>4 DEF Rule
    <3> QED
      BY <2>4, <2>5, <2>7, <3>1
  <2>8. PendingIds'
    BY <2>6, <2>7 DEF PendingIds
  <2> QED
    BY <2>2, <2>8
<1>2. ASSUME NEW s \in Rule, NEW input \in RecurringInput, UpdateLoad(c, s, input)
      PROVE  IdsInOrder' /\ PendingIds'
  <2>1. UNCHANGED <<rules, nextId>>
    BY <1>2 DEF UpdateLoad, storeVars, tables
  <2>2. Proceed(c, "write", s, NewRow(rules[s], input))
    BY <1>2 DEF UpdateLoad
  <2> QED
    BY <2>1, <2>2, SameIds
<1>3. CASE InsertRule(c)
  <2>1. /\ call[c] = "insert" /\ nextId' = nextId
        /\ rules' = [rules EXCEPT ![callRule[c]] = callRow[c]]
        /\ call' = [call EXCEPT ![c] = "idle"]
        /\ callRule' = [callRule EXCEPT ![c] = 0]
    BY <1>3 DEF InsertRule, Finish, Proceed
  <2>2. callRule[c] \in Rule /\ callRule[c] < nextId
    BY <2>1 DEF FreshInv, PendingIds
  <2>3. IdsInOrder'
    BY <1>0, <2>1, <2>2 DEF FreshInv, IdsInOrder, Rule
  <2>4. \A d \in Client : call'[d] = "insert" =>
          d # c /\ call[d] = "insert" /\ callRule'[d] = callRule[d]
    BY <1>0, <2>1
  <2>5. \A d \in Client : call'[d] = "insert" => callRule[d] # callRule[c]
    BY <2>1, <2>4 DEF FreshInv, PendingIds
  <2>6. PendingIds'
    BY <1>0, <2>1, <2>4, <2>5 DEF FreshInv, PendingIds
  <2> QED
    BY <2>3, <2>6
<1>4. CASE UpdateWrite(c)
  <2>1. nextId' = nextId /\ (Proceed(c, "reread", callRule[c], NoRow) \/ Finish(c, "idle"))
    BY <1>4 DEF UpdateWrite
  <2>2. \A r \in Rule : rules[r] = NoRow => rules'[r] = NoRow
    BY <1>0, <1>4 DEF UpdateWrite, Exists
  <2> QED
    BY <2>1, <2>2, SameIds DEF Finish
<1>5. ASSUME NEW s \in Rule, Delete(c, s)
      PROVE  IdsInOrder' /\ PendingIds'
  <2>1. UNCHANGED <<rules, nextId>> /\ Proceed(c, "delete", s, NoRow)
    BY <1>5 DEF Delete, storeVars, tables
  <2> QED
    BY <2>1, SameIds
<1>6. CASE DeleteRule(c)
  <2>1. nextId' = nextId /\ Finish(c, "idle")
    BY <1>6 DEF DeleteRule
  <2>2. \A r \in Rule : rules[r] = NoRow => rules'[r] = NoRow
    BY <1>0, <1>6 DEF DeleteRule
  <2> QED
    BY <2>1, <2>2, SameIds DEF Finish
<1>7. CASE UpdateReread(c) \/ RequestFails(c) \/ Recover(c)
  <2>1. UNCHANGED <<rules, nextId>> /\ (Finish(c, "idle") \/ Finish(c, "panic"))
    BY <1>7 DEF UpdateReread, RequestFails, Recover, storeVars, tables
  <2> QED
    BY <2>1, SameIds DEF Finish
<1> QED
  BY <1>1, <1>2, <1>3, <1>4, <1>5, <1>6, <1>7 DEF ServiceNext

\* What a worker publishes touches its own rule only, which no other one holds.
LEMMA PublishFresh ==
  ASSUME TypeInv, LockInv, FreshInv, NEW w \in Worker, pc[w] = "commit",
         Publish(w), NEW at \in {"select", "idle"}, Leave(w, at), UNCHANGED serviceVars
  PROVE  FreshInv'
<1> USE LockTypes
<1>1. /\ item[w] # NoItem /\ item[w].id \in Rule /\ rowLock[item[w].id] = w
  BY DEF LockInv, LocksMatchTransactions, InTx
<1>2. rules[item[w].id] = item[w].row /\ item[w].row # NoRow
  BY <1>1, NoRowAssumption DEF FreshInv, SnapshotFresh, Item
<1>3. /\ rules \in [Rule -> RuleRow \cup {NoRow}] /\ nextId' = nextId
      /\ \A s \in Rule : s # item[w].id => rules'[s] = rules[s]
  BY <1>1 DEF Publish, TypeInv, TypeOK, StoreTypeOK
<1>4. ASSUME NEW v \in Worker, item'[v] # NoItem
      PROVE  rules'[item'[v].id] = item'[v].row
  <2>1. v # w /\ item'[v] = item[v]
    BY <1>4 DEF Leave
  <2>2. item[v].id \in Rule /\ rules[item[v].id] = item[v].row
    BY <1>4, <2>1 DEF FreshInv, SnapshotFresh
  <2>3. rowLock[item[v].id] = v
    BY <1>4, <2>1 DEF LockInv, HeldInTx, LocksMatchTransactions
  <2>4. item[v].id # item[w].id
    BY <1>1, <2>1, <2>3
  <2>5. QED
    BY <1>3, <2>1, <2>2, <2>4
<1>5. IdsInOrder'
  <2>1. ~(item[w].id >= nextId)
    BY <1>1, <1>2 DEF FreshInv, IdsInOrder
  <2>2. QED
    BY <1>3, <2>1 DEF FreshInv, IdsInOrder
<1>6. PendingIds'
  <2>1. \A c \in Client : call[c] = "insert" => callRule[c] # item[w].id
    BY <1>2 DEF FreshInv, PendingIds
  <2> QED
    BY <1>3, <2>1 DEF FreshInv, PendingIds, serviceVars
<1>7. QED
  BY <1>4, <1>5, <1>6 DEF FreshInv, SnapshotFresh

LEMMA StepFreshInv == TypeInv /\ LockInv /\ FreshInv /\ [Next]_vars => FreshInv'
<1> SUFFICES ASSUME TypeInv, LockInv, FreshInv, [Next]_vars PROVE FreshInv'
  OBVIOUS
<1> USE LockTypes
<1>1. CASE UNCHANGED <<rules, nextId, item, serviceVars>>
  BY <1>1 DEF FreshInv, SnapshotFresh, IdsInOrder, PendingIds, serviceVars
<1>2. ASSUME NEW w \in Worker, WorkerNext(w), UNCHANGED serviceVars
      PROVE  FreshInv'
  <2>1. CASE GetNextDue(w)
    <3>1. PICK r \in Rule : /\ item' = [item EXCEPT ![w] = [id |-> r, row |-> rules[r]]]
      BY <2>1 DEF GetNextDue, NextDue
    <3>2. UNCHANGED <<rules, nextId>>
      BY <2>1 DEF GetNextDue, tables
    <3>3. ASSUME NEW v \in Worker, item'[v] # NoItem
          PROVE  rules[item'[v].id] = item'[v].row
      BY <3>1, <3>3 DEF FreshInv, SnapshotFresh
    <3>4. QED
      BY <1>2, <3>2, <3>3
         DEF FreshInv, SnapshotFresh, IdsInOrder, PendingIds, serviceVars
  <2>2. CASE Commit(w)
    <3>1. pc[w] = "commit" /\ Publish(w) /\ (Leave(w, "select") \/ Leave(w, "idle"))
      BY <2>2 DEF Commit, EndCycle
    <3>2. QED
      BY <1>2, <3>1, PublishFresh
  <2>3. CASE CommitUnknown(w)
    <3>1. pc[w] = "commit" /\ Publish(w) /\ Leave(w, "idle")
      BY <2>3 DEF CommitUnknown, EndCycle
    <3>2. QED
      BY <1>2, <3>1, PublishFresh
  <2>4. CASE RollBack(w) \/ NothingDue(w)
    <3>1. UNCHANGED <<rules, nextId>> /\ Leave(w, "idle")
      BY <2>4 DEF RollBack, NothingDue, EndCycle, storeVars, tables
    <3>2. \A v \in Worker : item'[v] # NoItem => item'[v] = item[v]
      BY <3>1 DEF Leave
    <3>3. QED
      BY <1>2, <3>1, <3>2
         DEF FreshInv, SnapshotFresh, IdsInOrder, PendingIds, serviceVars
  <2>5. CASE RunOnce(w) \/ InsertGeneratedTransaction(w) \/ AdvanceSchedule(w)
    BY <1>1, <1>2, <2>5
       DEF RunOnce, InsertGeneratedTransaction, AdvanceSchedule, storeVars, tables
  <2>6. QED
    BY <1>2, <2>1, <2>2, <2>3, <2>4, <2>5 DEF WorkerNext
<1>3. ASSUME NEW c \in Client, ServiceNext(c), UNCHANGED workerVars
      PROVE  FreshInv'
  <2>1. ASSUME NEW w \in Worker, item'[w] # NoItem
        PROVE  rules'[item'[w].id] = item'[w].row
    <3>1. item'[w] = item[w] /\ item[w].id \in Rule /\ item[w].row # NoRow
      BY <1>3, <2>1, NoRowAssumption DEF workerVars, Item
    <3>2. rules[item[w].id] = item[w].row
      BY <2>1, <3>1 DEF FreshInv, SnapshotFresh
    <3>3. rowLock[item[w].id] = w
      BY <2>1, <3>1 DEF LockInv, HeldInTx, LocksMatchTransactions
    <3>4. QED
      BY <1>3, <3>1, <3>2, <3>3, ServiceWritesUnlocked DEF Exists
  <2>2. IdsInOrder' /\ PendingIds'
    BY <1>3, ServiceKeepsIds
  <2>3. QED
    BY <2>1, <2>2 DEF FreshInv, SnapshotFresh
<1>4. QED
  BY <1>1, <1>2, <1>3
     DEF Next, vars, storeVars, workerVars, tables, PassTime, DeleteGenerated

LEMMA InitFreshInv == Init => FreshInv
  BY DEF Init, WorkerInit, ServiceInit, FreshInv, SnapshotFresh, IdsInOrder, PendingIds, Rule

\* Until a worker commits, the rule it read is the rule in the database: the
\* FOR UPDATE of GetNextDueForUpdate is enough for nextSchedule to be right.
THEOREM SpecSnapshotFresh == Spec => []SnapshotFresh
<1>1. Init => TypeInv /\ LockInv /\ FreshInv
  BY InitTypeInv, InitLockInv, InitFreshInv
<1>2. TypeInv /\ LockInv /\ FreshInv /\ [Next]_vars => (TypeInv /\ LockInv /\ FreshInv)'
  BY StepTypeInv, StepLockInv, StepFreshInv
<1>3. FreshInv => SnapshotFresh
  BY DEF FreshInv
<1>4. QED
  BY <1>1, <1>2, <1>3, PTL DEF Spec

-----------------------------------------------------------------------------
(* Well-formed rules                                                       *)

\* The row a request is about to write is well-formed, however old its read is.
PendingWellFormed ==
  \A c \in Client : call[c] \in {"insert", "write"} => WellFormed(callRow[c])

FormInv == RuleWellFormed /\ PendingWellFormed

\* validateRecurringInput lets only well-formed rows through.
LEMMA NewRowWellFormed ==
  ASSUME NEW existing \in RuleRow \cup {NoRow}, NEW input \in RecurringInput, Accepted(existing, input)
  PROVE  WellFormed(NewRow(existing, input))
<1> DEFINE row == NewRow(existing, input)
<1> USE StoreAssumption DEF Accepted, DatesValid, RecurringInput
<1>1. row.active <=> row.next # NoDate
  BY DEF NewRow
<1>2. ASSUME row.active
      PROVE  /\ row.start <= row.next
             /\ row.end # NoDate => row.next <= row.end
  <2>1. /\ input.active
        /\ row.start = input.start /\ row.end = input.end
        /\ row.next = NextRun(existing, input) /\ row.next # NoDate
    BY <1>2 DEF NewRow, NextRun
  <2>2. input.start \in Nat
    OBVIOUS
  <2>3. CASE existing = NoRow \/ existing.next = NoDate
    BY <2>1, <2>2, <2>3 DEF NextRun
  <2>4. CASE ~(existing = NoRow \/ existing.next = NoDate)
    <3>1. row.next = existing.next
      BY <2>1, <2>4 DEF NextRun
    <3>2. input.start <= existing.next
      BY <2>1, <2>4 DEF StartAllowed
    <3>3. existing.next \in Nat
      BY <2>4 DEF RuleRow
    <3>4. ASSUME input.end # NoDate PROVE existing.next <= input.end
      <4>1. input.end \in Nat
        BY <3>4
      <4>2. ~(existing.next > input.end)
        BY <2>1, <2>4, <3>4 DEF NextRun
      <4>3. QED
        BY <3>3, <4>1, <4>2
    <3>5. QED
      BY <2>1, <3>1, <3>2, <3>4
  <2>5. QED
    BY <2>3, <2>4
<1>3. QED
  BY <1>1, <1>2 DEF WellFormed

LEMMA PublishWellFormed ==
  ASSUME TypeInv, LockInv, FreshInv, RuleWellFormed,
         NEW w \in Worker, pc[w] = "commit", Publish(w)
  PROVE  RuleWellFormed'
<1> DEFINE id == item[w].id
           row == item[w].row
           after == [row EXCEPT !.next = NextSchedule(row).next,
                                !.active = NextSchedule(row).active]
<1>1. /\ id \in Rule /\ row \in RuleRow
      /\ row.active /\ row.next \in Day
  BY DEF TypeInv, TypeOK, WorkerTypeOK, ItemDue, InTx, Item
<1>2. rules[id] = row /\ Exists(id)
  BY <1>1, NoRowAssumption DEF FreshInv, SnapshotFresh, TypeInv, ItemDue, InTx, Exists
<1>3. row.start <= row.next
  BY <1>1, <1>2 DEF RuleWellFormed, WellFormed
<1>4. WellFormed(after)
  <2>1. /\ NextRunDate[row.frequency][row.next] \in Nat
        /\ NextRunDate[row.frequency][row.next] > row.next
    BY <1>1, NextRunDateAssumption DEF RuleRow
  <2>2. row.start \in Nat /\ row.end \in Nat \cup {NoDate} /\ row.next \in Nat
    BY <1>1 DEF RuleRow, Day
  <2>3. /\ after.start = row.start /\ after.end = row.end
        /\ after.next = NextSchedule(row).next /\ after.active = NextSchedule(row).active
    BY <1>1 DEF RuleRow
  <2>4. QED
    BY <1>3, <2>1, <2>2, <2>3, StoreAssumption DEF WellFormed, NextSchedule
<1>5. rules' = [rules EXCEPT ![id] = after]
  BY <1>2 DEF Publish
<1>6. rules \in [Rule -> RuleRow \cup {NoRow}]
  BY DEF TypeInv, TypeOK, StoreTypeOK
<1>7. QED
  BY <1>1, <1>4, <1>5, <1>6 DEF RuleWellFormed, Exists

LEMMA StepFormInv == TypeInv /\ LockInv /\ FreshInv /\ FormInv /\ [Next]_vars => FormInv'
<1> SUFFICES ASSUME TypeInv, LockInv, FreshInv, FormInv, [Next]_vars PROVE FormInv'
  OBVIOUS
<1>1. CASE UNCHANGED <<rules, call, callRow>>
  BY <1>1 DEF FormInv, RuleWellFormed, PendingWellFormed, Exists
<1>2. ASSUME NEW w \in Worker, WorkerNext(w), UNCHANGED serviceVars
      PROVE  FormInv'
  <2>1. CASE Commit(w) \/ CommitUnknown(w)
    BY <1>2, <2>1, PublishWellFormed
       DEF Commit, CommitUnknown, serviceVars, FormInv, PendingWellFormed
  <2>2. CASE ~(Commit(w) \/ CommitUnknown(w))
    <3>1. UNCHANGED rules
      BY <1>2, <2>2 DEF WorkerNext, RunOnce, GetNextDue, NothingDue, RollBack,
         InsertGeneratedTransaction, AdvanceSchedule, storeVars, tables
    <3>2. QED
      BY <1>1, <1>2, <3>1 DEF serviceVars
  <2>3. QED
    BY <2>1, <2>2
<1>3. ASSUME NEW c \in Client, ServiceNext(c)
      PROVE  FormInv'
  <2> USE DEF FormInv, RuleWellFormed, PendingWellFormed, Exists,
              TypeInv, TypeOK, StoreTypeOK, ServiceTypeOK, Proceed, Finish,
              storeVars, tables
  <2>1. ASSUME NEW input \in RecurringInput, Create(c, input)
        PROVE  FormInv'
    <3>1. WellFormed(NewRow(NoRow, input))
      BY <2>1, NewRowWellFormed DEF Create
    <3>2. QED
      BY <2>1, <3>1 DEF Create
  <2>2. ASSUME NEW r \in Rule, NEW input \in RecurringInput, UpdateLoad(c, r, input)
        PROVE  FormInv'
    <3>1. WellFormed(NewRow(rules[r], input))
      BY <2>2, NewRowWellFormed DEF UpdateLoad
    <3>2. QED
      BY <2>2, <3>1 DEF UpdateLoad
  <2>3. CASE UpdateWrite(c)
    <3>1. WellFormed(callRow[c])
      BY <2>3 DEF UpdateWrite
    <3>2. QED
      BY <2>3, <3>1 DEF UpdateWrite
  <2>4. CASE InsertRule(c)
    <3>1. WellFormed(callRow[c])
      BY <2>4 DEF InsertRule
    <3>2. QED
      BY <2>4, <3>1 DEF InsertRule
  <2>5. ASSUME NEW r \in Rule, Delete(c, r)
        PROVE  FormInv'
    BY <2>5 DEF Delete
  <2>6. CASE DeleteRule(c)
    BY <2>6 DEF DeleteRule
  <2>7. CASE UpdateReread(c) \/ RequestFails(c) \/ Recover(c)
    BY <2>7 DEF UpdateReread, RequestFails, Recover
  <2> QED
    BY <1>3, <2>1, <2>2, <2>3, <2>4, <2>5, <2>6, <2>7 DEF ServiceNext
<1>4. QED
  BY <1>1, <1>2, <1>3
     DEF Next, vars, storeVars, serviceVars, tables, PassTime, DeleteGenerated

LEMMA InitFormInv == Init => FormInv
  BY DEF Init, ServiceInit, FormInv, RuleWellFormed, PendingWellFormed, Exists

\* However requests and workers interleave, a rule is either scheduled inside
\* start_date..end_date or stopped.  An Update may write a row derived from an
\* outdated read (service/recurring.go:126-154), but never an inconsistent one.
THEOREM SpecRuleWellFormed == Spec => []RuleWellFormed
<1> DEFINE IInv == TypeInv /\ LockInv /\ FreshInv /\ FormInv
<1>1. Init => IInv
  BY InitTypeInv, InitLockInv, InitFreshInv, InitFormInv
<1>2. IInv /\ [Next]_vars => IInv'
  BY StepTypeInv, StepLockInv, StepFreshInv, StepFormInv
<1>3. IInv => RuleWellFormed
  BY DEF FormInv
<1>4. QED
  BY <1>1, <1>2, <1>3, PTL DEF Spec

-----------------------------------------------------------------------------
(* No run is generated twice                                               *)

\* A row a transaction has inserted and not committed is not there yet: only
\* the worker that holds the rule inserts rows for it.
InsertFresh ==
  \A w \in Worker : inserted[w] =>
    /\ InTx(w)
    /\ generated[item[w].id][item[w].row.next] = 0

OnceInv == NoDuplicateGeneration /\ InsertFresh

\* A step that adds no generated row and starts no insert.
LEMMA FewerGenerated ==
  ASSUME TypeInv, OnceInv,
         \A r \in Rule, d \in Day :
           generated'[r][d] \in Nat /\ generated'[r][d] <= generated[r][d],
         \A w \in Worker : inserted'[w] =>
           inserted[w] /\ pc'[w] = pc[w] /\ item'[w] = item[w]
  PROVE  OnceInv'
<1>1. ASSUME NEW r \in Rule, NEW d \in Day
      PROVE  generated[r][d] \in Nat /\ generated[r][d] <= 1 /\ generated'[r][d] <= 1
  <2>1. generated[r][d] \in Nat /\ generated[r][d] <= 1
    BY DEF TypeInv, TypeOK, StoreTypeOK, OnceInv, NoDuplicateGeneration
  <2>2. QED
    BY <2>1
<1>2. ASSUME NEW w \in Worker, inserted'[w]
      PROVE  /\ pc'[w] \in {"insert", "advance", "commit"}
             /\ generated'[item'[w].id][item'[w].row.next] = 0
  <2>1. /\ inserted[w] /\ pc'[w] = pc[w] /\ item'[w] = item[w]
    BY <1>2
  <2>2. /\ pc[w] \in {"insert", "advance", "commit"}
        /\ generated[item[w].id][item[w].row.next] = 0
    BY <2>1 DEF OnceInv, InsertFresh, InTx
  <2>3. item[w].id \in Rule /\ item[w].row.next \in Day
    BY <2>2 DEF TypeInv, ItemDue, InTx, TypeOK, WorkerTypeOK, Item
  <2>4. QED
    BY <2>1, <2>2, <2>3
<1>3. QED
  BY <1>1, <1>2 DEF OnceInv, NoDuplicateGeneration, InsertFresh, InTx

\* A commit adds at most the one row its worker found missing.
LEMMA PublishOnce ==
  ASSUME TypeInv, LockInv, OnceInv, NEW w \in Worker, pc[w] = "commit",
         Publish(w), NEW at \in {"select", "idle"}, Leave(w, at)
  PROVE  OnceInv'
<1> DEFINE id == item[w].id
           d0 == item[w].row.next
<1> USE LockTypes
<1>1. id \in Rule /\ d0 \in Day /\ rowLock[id] = w /\ item[w] # NoItem
  BY DEF TypeInv, ItemDue, InTx, TypeOK, WorkerTypeOK, Item, LockInv, LocksMatchTransactions
<1>2. inserted \in [Worker -> BOOLEAN] /\ inserted' = [inserted EXCEPT ![w] = FALSE]
  BY DEF TypeInv, TypeOK, WorkerTypeOK, Leave
<1>3. \A v \in Worker : v # w => pc'[v] = pc[v] /\ item'[v] = item[v]
  BY DEF Leave
<1>4. CASE ~inserted[w]
  <2>1. UNCHANGED generated
    BY <1>4 DEF Publish
  <2>2. \A v \in Worker : inserted'[v] =>
          inserted[v] /\ pc'[v] = pc[v] /\ item'[v] = item[v]
    BY <1>2, <1>3
  <2>3. \A r \in Rule, d \in Day :
          generated'[r][d] \in Nat /\ generated'[r][d] <= generated[r][d]
    BY <2>1 DEF TypeInv, TypeOK, StoreTypeOK
  <2>4. QED
    BY <2>2, <2>3, FewerGenerated
<1>5. CASE inserted[w]
  <2>1. generated[id][d0] = 0
    BY <1>5 DEF OnceInv, InsertFresh
  <2>2. generated \in [Rule -> [Day -> Nat]]
    BY DEF TypeInv, TypeOK, StoreTypeOK
  <2>3. generated' = [generated EXCEPT ![id][d0] = 1]
    BY <1>1, <1>5, <2>1, <2>2 DEF Publish
  <2>4. NoDuplicateGeneration'
    BY <1>1, <2>2, <2>3 DEF OnceInv, NoDuplicateGeneration
  <2>5. ASSUME NEW v \in Worker, inserted'[v]
        PROVE  /\ pc'[v] \in {"insert", "advance", "commit"}
               /\ generated'[item'[v].id][item'[v].row.next] = 0
    <3>1. v # w /\ inserted[v] /\ pc'[v] = pc[v] /\ item'[v] = item[v]
      BY <1>2, <1>3, <2>5
    <3>2. /\ pc[v] \in {"insert", "advance", "commit"}
          /\ generated[item[v].id][item[v].row.next] = 0
      BY <3>1 DEF OnceInv, InsertFresh, InTx
    <3>3. item[v].id \in Rule /\ item[v].row.next \in Day /\ rowLock[item[v].id] = v
      BY <3>2 DEF TypeInv, ItemDue, InTx, TypeOK, WorkerTypeOK, Item, LockInv,
         LocksMatchTransactions
    <3>4. item[v].id # id
      BY <1>1, <3>1, <3>3
    <3>5. QED
      BY <2>2, <2>3, <3>1, <3>2, <3>3, <3>4
  <2>6. QED
    BY <2>4, <2>5 DEF OnceInv, InsertFresh, InTx
<1>6. QED
  BY <1>4, <1>5

LEMMA StepOnceInv == TypeInv /\ LockInv /\ OnceInv /\ [Next]_vars => OnceInv'
<1> SUFFICES ASSUME TypeInv, LockInv, OnceInv, [Next]_vars PROVE OnceInv'
  OBVIOUS
<1>1. /\ generated \in [Rule -> [Day -> Nat]]
      /\ pc \in [Worker -> {"idle", "select", "insert", "advance", "commit"}]
      /\ item \in [Worker -> Item]
      /\ inserted \in [Worker -> BOOLEAN]
  BY DEF TypeInv, TypeOK, StoreTypeOK, WorkerTypeOK
<1>2. CASE /\ UNCHANGED generated
           /\ \A w \in Worker : inserted'[w] =>
                inserted[w] /\ pc'[w] = pc[w] /\ item'[w] = item[w]
  BY <1>1, <1>2, FewerGenerated
<1>3. CASE UNCHANGED <<generated, workerVars>>
  BY <1>2, <1>3 DEF workerVars
<1>4. ASSUME NEW w \in Worker, WorkerNext(w)
      PROVE  OnceInv'
  <2>1. CASE RunOnce(w) \/ GetNextDue(w)
    <3>1. pc[w] \in {"idle", "select"} /\ UNCHANGED <<generated, inserted>>
      BY <2>1 DEF RunOnce, GetNextDue, storeVars, tables
    <3>2. ~inserted[w]
      BY <3>1 DEF OnceInv, InsertFresh, InTx
    <3>3. \A v \in Worker : v # w => pc'[v] = pc[v] /\ item'[v] = item[v]
      BY <2>1, <1>1 DEF RunOnce, GetNextDue
    <3>4. QED
      BY <1>2, <3>1, <3>2, <3>3
  <2>2. CASE NothingDue(w) \/ RollBack(w)
    <3>1. UNCHANGED generated /\ Leave(w, "idle")
      BY <2>2 DEF NothingDue, RollBack, EndCycle, storeVars, tables
    <3>2. QED
      BY <1>1, <1>2, <3>1 DEF Leave
  <2>3. CASE InsertGeneratedTransaction(w)
    <3>1. NoDuplicateGeneration'
      BY <2>3 DEF InsertGeneratedTransaction, storeVars, tables, OnceInv,
         NoDuplicateGeneration
    <3>2. ASSUME NEW v \in Worker, inserted'[v]
          PROVE  /\ pc'[v] \in {"insert", "advance", "commit"}
                 /\ generated[item[v].id][item[v].row.next] = 0
      <4>1. CASE v = w
        BY <1>1, <2>3, <3>2, <4>1 DEF InsertGeneratedTransaction, InsertsRow
      <4>2. CASE v # w
        BY <1>1, <2>3, <3>2, <4>2
           DEF InsertGeneratedTransaction, OnceInv, InsertFresh, InTx
      <4>3. QED
        BY <4>1, <4>2
    <3>3. UNCHANGED <<generated, item>>
      BY <2>3 DEF InsertGeneratedTransaction, storeVars, tables
    <3>4. QED
      BY <3>1, <3>2, <3>3 DEF OnceInv, InsertFresh, InTx
  <2>4. CASE AdvanceSchedule(w)
    BY <1>1, <2>4
       DEF AdvanceSchedule, storeVars, tables, OnceInv, NoDuplicateGeneration,
           InsertFresh, InTx
  <2>5. CASE Commit(w) \/ CommitUnknown(w)
    <3>1. pc[w] = "commit" /\ Publish(w) /\ (Leave(w, "select") \/ Leave(w, "idle"))
      BY <2>5 DEF Commit, CommitUnknown, EndCycle
    <3>2. QED
      BY <3>1, PublishOnce
  <2>6. QED
    BY <1>4, <2>1, <2>2, <2>3, <2>4, <2>5 DEF WorkerNext
<1>5. ASSUME NEW c \in Client, ServiceNext(c), UNCHANGED workerVars
      PROVE  OnceInv'
  <2>1. CASE DeleteRule(c)
    <3>1. \A s \in Rule, d \in Day :
            generated'[s][d] \in Nat /\ generated'[s][d] <= generated[s][d]
      BY <1>1, <2>1 DEF DeleteRule, DetachGenerated
    <3>2. QED
      BY <1>5, <3>1, FewerGenerated DEF workerVars
  <2>2. CASE ~DeleteRule(c)
    <3>1. ASSUME NEW input \in RecurringInput, Create(c, input)
          PROVE  UNCHANGED generated
      BY <3>1 DEF Create
    <3>2. ASSUME NEW r \in Rule, NEW input \in RecurringInput, UpdateLoad(c, r, input)
          PROVE  UNCHANGED generated
      BY <3>2 DEF UpdateLoad, storeVars, tables
    <3>3. UNCHANGED generated
      BY <1>5, <2>2, <3>1, <3>2
         DEF ServiceNext, InsertRule, UpdateWrite, UpdateReread, Delete, RequestFails,
             Recover, storeVars, tables
    <3>4. QED
      BY <1>3, <1>5, <3>3
  <2>3. QED
    BY <2>1, <2>2
<1>6. ASSUME NEW r \in Rule, NEW d \in Day, DeleteGenerated(r, d), UNCHANGED workerVars
      PROVE  OnceInv'
  <2>1. generated[r][d] > 0 /\ generated' = [generated EXCEPT ![r][d] = @ - 1]
    BY <1>6 DEF DeleteGenerated
  <2>2. ASSUME NEW s \in Rule, NEW e \in Day
        PROVE  generated'[s][e] \in Nat /\ generated'[s][e] <= generated[s][e]
    <3>1. generated[s][e] \in Nat /\ generated[r][d] \in Nat
      BY <1>1
    <3>2. generated'[s][e] = IF s = r /\ e = d THEN generated[r][d] - 1 ELSE generated[s][e]
      BY <1>1, <2>1
    <3>3. QED
      BY <2>1, <3>1, <3>2
  <2>3. QED
    BY <1>6, <2>2, FewerGenerated DEF workerVars
<1>7. QED
  BY <1>3, <1>4, <1>5, <1>6
     DEF Next, vars, storeVars, tables, PassTime

LEMMA InitOnceInv == Init => OnceInv
  BY DEF Init, StoreInit, WorkerInit, OnceInv, NoDuplicateGeneration, InsertFresh

\* README.md:213: for every rule and date there is at most one generated
\* transaction, whichever workers post it, retry it or die over it, and however
\* often the user moves the rule back to that date.
THEOREM SpecNoDuplicateGeneration == Spec => []NoDuplicateGeneration
<1> DEFINE IInv == TypeInv /\ LockInv /\ OnceInv
<1>1. Init => IInv
  BY InitTypeInv, InitLockInv, InitOnceInv
<1>2. IInv /\ [Next]_vars => IInv'
  BY StepTypeInv, StepLockInv, StepOnceInv
<1>3. IInv => NoDuplicateGeneration
  BY DEF OnceInv
<1>4. QED
  BY <1>1, <1>2, <1>3, PTL DEF Spec
=============================================================================
