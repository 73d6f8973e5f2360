--------------------------- MODULE LedgerRequests ---------------------------
(***************************************************************************)
(* Requests in flight.  A handler is a chain of statements; between two of *)
(* them any other request, the worker or the clock may move.  A request    *)
(* that is refused by its first statement changes nothing and is not an    *)
(* action.                                                                 *)
(***************************************************************************)
EXTENDS LedgerStore

CONSTANTS
  Request,        \* slots: a client that waits for each reply, one call at a time
  MaxCalls        \* bound: calls ever accepted

ASSUME RequestAssumption == MaxCalls \in Nat /\ NoRow \notin Request

VARIABLES
  at,             \* the statement the request makes next; "idle" between calls
  who,            \* its user (the id the JWT middleware put in the context)
  target,         \* the id of the row it is about
  input,          \* its validated input
  memo,           \* the number an earlier statement of it returned
  calls           \* calls accepted so far

requestVars == <<at, who, target, input, memo, calls>>

RequestInit ==
  /\ at = [q \in Request |-> "idle"]
  /\ who = [q \in Request |-> NoRow]
  /\ target = [q \in Request |-> 0]
  /\ input = [q \in Request |-> NoRow]
  /\ memo = [q \in Request |-> 0]
  /\ calls = 0

\* The handler's entry: UserIDFromContext, parse, call the service.
Accept(q) ==
  /\ at[q] = "idle"
  /\ calls < MaxCalls
  /\ calls' = calls + 1

Become(q, step, user, id, data, number) ==
  /\ at' = [at EXCEPT ![q] = step]
  /\ who' = [who EXCEPT ![q] = user]
  /\ target' = [target EXCEPT ![q] = id]
  /\ input' = [input EXCEPT ![q] = data]
  /\ memo' = [memo EXCEPT ![q] = number]

\* A new call whose first statement is behind it.
Begin(q, step, user, id, data, number) ==
  Accept(q) /\ Become(q, step, user, id, data, number)

\* A call that is one statement: accepted and answered in a step.
AtOnce(q) == Accept(q) /\ UNCHANGED <<at, who, target, input, memo>>

\* On to the next statement.
Proceed(q, step) == at' = [at EXCEPT ![q] = step] /\ UNCHANGED <<who, target, input, memo, calls>>

\* The reply is sent.
Finish(q) == Become(q, "idle", NoRow, 0, NoRow, 0) /\ UNCHANGED calls

\* A call whose row is written, read back for the reply.
ReadBack(q, step, id) == Become(q, step, who[q], id, NoRow, 0) /\ UNCHANGED calls
=============================================================================
