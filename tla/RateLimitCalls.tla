--------------------------- MODULE RateLimitCalls ---------------------------
(***************************************************************************)
(* The limiter under concurrent calls: each reads the clock, and takes the *)
(* mutex whenever it is scheduled.                                         *)
(***************************************************************************)
EXTENDS RateLimit, FiniteSetsExt

CONSTANTS
  Caller,
  MaxCalls,       \* bound: calls ever made
  NoCall

Pending == [key : Key, stamp : 0..LastTick, granted : BOOLEAN]

ASSUME CallsAssumption == MaxCalls \in Nat /\ NoCall \notin Pending

VARIABLES
  now,
  call,           \* a caller's key and stamp, NoCall between calls
  calls,
  (* History, not in the program: *)
  grants,         \* the stamps granted since the key's last reset, in order
  lag             \* the longest a call took from its clock to the mutex

vars == <<hits, now, call, calls, grants, lag>>

TypeOK ==
  /\ LimitTypeOK
  /\ now \in 0..LastTick /\ lag \in 0..now
  /\ call \in [Caller -> Pending \cup {NoCall}]
  /\ calls \in 0..MaxCalls
  /\ grants \in [Key -> Seq(0..LastTick)]

Init ==
  /\ LimitInit
  /\ now = 0 /\ calls = 0 /\ lag = 0
  /\ call = [c \in Caller |-> NoCall]
  /\ grants = [k \in Key |-> << >>]

\* enforceAuthRateLimit reads the clock.
ReadClock(c, k) ==
  /\ call[c] = NoCall /\ calls < MaxCalls
  /\ call' = [call EXCEPT ![c] = [key |-> k, stamp |-> now, granted |-> FALSE]]
  /\ calls' = calls + 1
  /\ UNCHANGED <<hits, now, grants, lag>>

\* allow, under the mutex.
Enter(c) ==
  LET k == call[c].key
      t == call[c].stamp
  IN
  /\ call[c] # NoCall /\ ~call[c].granted
  /\ Allow(k, t)
  /\ IF Granted(hits[k], t)
       THEN /\ call' = [call EXCEPT ![c].granted = TRUE]
            /\ grants' = [grants EXCEPT ![k] = Append(@, t)]
       ELSE call' = [call EXCEPT ![c] = NoCall] /\ UNCHANGED grants
  /\ lag' = Max({lag, now - t})
  /\ UNCHANGED <<now, calls>>

\* The granted call succeeds, and clears its key, or does not.
Succeed(c) ==
  /\ call[c] # NoCall /\ call[c].granted
  /\ Reset(call[c].key)
  /\ grants' = [grants EXCEPT ![call[c].key] = << >>]
  /\ call' = [call EXCEPT ![c] = NoCall]
  /\ UNCHANGED <<now, calls, lag>>

GiveUp(c) ==
  /\ call[c] # NoCall /\ call[c].granted
  /\ call' = [call EXCEPT ![c] = NoCall]
  /\ UNCHANGED <<hits, now, calls, grants, lag>>

Tick ==
  /\ now < LastTick
  /\ now' = now + 1
  /\ UNCHANGED <<hits, call, calls, grants, lag>>

Next ==
  \/ \E c \in Caller : (\E k \in Key : ReadClock(c, k)) \/ Enter(c) \/ Succeed(c) \/ GiveUp(c)
  \/ Tick

Spec == Init /\ [][Next]_vars

-----------------------------------------------------------------------------

\* How many events of a sequence are after one stamp and not after another.
Between(events, after, until) ==
  Cardinality({ i \in 1..Len(events) : after < events[i] /\ events[i] <= until })

\* No key is granted more than Limit calls in any stretch of Window minus the
\* longest lag: pruning for a late stamp never forgets what an earlier stamp,
\* arriving later, should still have been counted against.  With lag 0 this is
\* the sliding window itself.
WindowRespected ==
  \A k \in Key : \A start \in -1..LastTick :
    Between(grants[k], start, start + (Window - lag)) <= Limit

\* A client that waits one second longer than it is told, while nobody uses its
\* key, is granted: the first event, which the advice is computed from, need not
\* be the oldest, and the advice is cut to whole seconds.
RetrySuffices ==
  \A k \in Key : \A t \in 0..LastTick :
    ~Granted(hits[k], t) =>
      Granted(hits[k], t + (RetryAfterSeconds(hits[k], t) + 1) * Second)
=============================================================================
