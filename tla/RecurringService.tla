-------------------------- MODULE RecurringService --------------------------
(***************************************************************************)
(* The API's operations on rules (service/recurring.go, handler/           *)
(* recurring.go).  Requests run concurrently, each statement is a          *)
(* transaction of its own that may wait for a worker's locks, and Update   *)
(* is three of them: load and validate, write the whole row, read it back. *)
(***************************************************************************)
EXTENDS RecurringStore

CONSTANTS
  Client,                     \* requests in flight
  MaxCalls,                   \* bound: how many requests are ever made
  MaxRecurringPast,           \* maxRecurringPastYears, in days
  MaxRecurringFuture          \* maxRecurringFutureYears, in days

ASSUME ServiceAssumption ==
  MaxCalls \in Nat /\ MaxRecurringPast \in Nat /\ MaxRecurringFuture \in Nat

VARIABLES
  call,         \* where each client's request is: "idle", the statement it makes
                \* next ("insert", "write", "reread", "delete"), or "panic" while
                \* the Recover middleware unwinds the handler
  callRule,     \* the rule the request is about
  callRow,      \* the row the request is about to insert or write
  calls         \* requests made so far that changed or may change a row

serviceVars == <<call, callRule, callRow, calls>>

ServiceTypeOK ==
  /\ call \in [Client -> {"idle", "insert", "write", "reread", "delete", "panic"}]
  /\ callRule \in [Client -> Rule \cup {0}]
  /\ callRow \in [Client -> RuleRow \cup {NoRow}]
  /\ calls \in 0..MaxCalls

ServiceInit ==
  /\ call = [c \in Client |-> "idle"]
  /\ callRule = [c \in Client |-> 0]
  /\ callRow = [c \in Client |-> NoRow]
  /\ calls = 0

-----------------------------------------------------------------------------
(* validateRecurringInput                                                  *)

RecurringInput ==
  [ category  : Category,
    frequency : Frequency,
    start     : InputDate,
    end       : InputDate \cup {NoDate},
    active    : BOOLEAN ]

\* The date rules.  They come first, so they also bind a request that only
\* pauses a rule.
DatesValid(input) ==
  /\ input.start >= today - MaxRecurringPast
  /\ input.end # NoDate => /\ input.end >= input.start
                           /\ input.end <= input.start + MaxRecurringFuture

\* An active rule keeps its next_run_date, so start_date may not move past it.
StartAllowed(existing, input) ==
  input.active /\ existing # NoRow /\ existing.next # NoDate =>
    input.start <= existing.next

\* Variant with a bug: a kept next_run_date is not compared with end_date.
NextRun_PastEnd(existing, input) ==
  IF ~input.active THEN NoDate
  ELSE IF existing = NoRow \/ existing.next = NoDate THEN input.start
  ELSE existing.next

\* The run the rule waits for: none for a paused rule; the one it waited for
\* when it was scheduled already; else, for a new, resumed or finished rule,
\* its start_date again.
NextRun(existing, input) ==
  IF ~input.active THEN NoDate
  ELSE IF existing = NoRow \/ existing.next = NoDate THEN input.start
  ELSE IF input.end # NoDate /\ existing.next > input.end THEN NoDate
  ELSE existing.next

Accepted(existing, input) ==
  DatesValid(input) /\ StartAllowed(existing, input)

\* The row Create inserts and Update writes.
NewRow(existing, input) ==
  [ category  |-> input.category,
    frequency |-> input.frequency,
    start     |-> input.start,
    end       |-> input.end,
    next      |-> NextRun(existing, input),
    active    |-> NextRun(existing, input) # NoDate ]

-----------------------------------------------------------------------------
(* Requests.  One that is refused (validation_error, not_found) changes    *)
(* nothing, so only the accepted ones are actions.                         *)

\* A new request takes the client's turn.
Accept(c) ==
  /\ call[c] = "idle"
  /\ calls < MaxCalls
  /\ calls' = calls + 1

\* The request moves on to its next statement, or is over.
Proceed(c, at, r, row) ==
  /\ call' = [call EXCEPT ![c] = at]
  /\ callRule' = [callRule EXCEPT ![c] = r]
  /\ callRow' = [callRow EXCEPT ![c] = row]

Finish(c, at) == Proceed(c, at, 0, NoRow)

\* Create, first part: validateRecurringInput, and the INSERT takes the next id.
Create(c, input) ==
  /\ Accept(c)
  /\ Accepted(NoRow, input)
  /\ nextId \in Rule
  /\ nextId' = nextId + 1
  /\ Proceed(c, "insert", nextId, NewRow(NoRow, input))
  /\ UNCHANGED <<rules, generated, locks, today, history>>

\* Create, second part: the row is there once the INSERT's foreign key check has
\* found the category's row unlocked.
InsertRule(c) ==
  LET r == callRule[c] IN
  /\ call[c] = "insert"
  /\ categoryLock[callRow[c].category] = NoTx
  /\ rules' = [rules EXCEPT ![r] = callRow[c]]
  /\ origin' = [origin EXCEPT ![r] = callRow[c].next]
  /\ Finish(c, "idle")
  /\ UNCHANGED <<calls, nextId, generated, locks, today, posted>>

\* Update, first part: GetByIDForUser and validateRecurringInput.
UpdateLoad(c, r, input) ==
  /\ Accept(c)
  /\ Exists(r)
  /\ Accepted(rules[r], input)
  /\ Proceed(c, "write", r, NewRow(rules[r], input))
  /\ UNCHANGED storeVars

\* Update, second part: UPDATE ... WHERE id AND user_id sets every column from
\* the row derived from the first part's read.  No row: an internal error.
UpdateWrite(c) ==
  LET r == callRule[c] IN
  /\ call[c] = "write"
  /\ CanWriteRule(r, callRow[c].category)
  /\ IF Exists(r)
       THEN /\ rules' = [rules EXCEPT ![r] = callRow[c]]
            /\ origin' = [origin EXCEPT ![r] = callRow[c].next]
            /\ Proceed(c, "reread", r, NoRow)
       ELSE /\ Finish(c, "idle")
            /\ UNCHANGED <<rules, origin>>
  /\ UNCHANGED <<calls, nextId, generated, locks, today, posted>>

\* Update, last part: GetByIDForUser again.  For a rule deleted in between it
\* returns (nil, nil), which Update hands to the handler as a success, and the
\* handler reads item.ID.
UpdateReread(c) ==
  /\ call[c] = "reread"
  /\ Finish(c, IF Exists(callRule[c]) THEN "idle" ELSE "panic")
  /\ UNCHANGED <<calls, storeVars>>

\* A statement fails: an internal error.  The id an INSERT took is lost.
RequestFails(c) ==
  /\ call[c] \in {"insert", "write", "reread", "delete"}
  /\ Finish(c, "idle")
  /\ UNCHANGED <<calls, storeVars>>

\* Recover answers 500 for the handler.
Recover(c) ==
  /\ call[c] = "panic"
  /\ Finish(c, "idle")
  /\ UNCHANGED <<calls, storeVars>>

\* Delete, first part: the request for a rule that is there.
Delete(c, r) ==
  /\ Accept(c)
  /\ Exists(r)
  /\ Proceed(c, "delete", r, NoRow)
  /\ UNCHANGED storeVars

\* Delete, second part: the DELETE waits while the row is locked.  No row left:
\* not_found.
DeleteRule(c) ==
  LET r == callRule[c] IN
  /\ call[c] = "delete"
  /\ RuleUnlocked(r)
  /\ IF Exists(r)
       THEN rules' = [rules EXCEPT ![r] = NoRow] /\ DetachGenerated(r)
       ELSE UNCHANGED <<rules, generated>>
  /\ Finish(c, "idle")
  /\ UNCHANGED <<calls, nextId, locks, today, history>>

ServiceNext(c) ==
  \/ \E input \in RecurringInput : Create(c, input)
  \/ InsertRule(c)
  \/ \E r \in Rule, input \in RecurringInput : UpdateLoad(c, r, input)
  \/ UpdateWrite(c)
  \/ UpdateReread(c)
  \/ \E r \in Rule : Delete(c, r)
  \/ DeleteRule(c)
  \/ RequestFails(c)
  \/ Recover(c)

-----------------------------------------------------------------------------
(* Properties                                                              *)

\* service/recurring.go:132 answers "recurring transaction not found" for a
\* missing rule: no request for one ends in a nil dereference.
NoPanic == \A c \in Client : call[c] # "panic"
=============================================================================
