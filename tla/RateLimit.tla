------------------------------ MODULE RateLimit -----------------------------
(***************************************************************************)
(* handler/rate_limit.go: the sliding window that login and registration   *)
(* share.  A call reads the clock before it takes the mutex, so the stamps *)
(* of one key need not arrive in order.                                    *)
(***************************************************************************)
EXTENDS Integers, Sequences

CONSTANTS
  Key,
  Window, Limit,  \* authLimiter: 5 minutes, 5
  Second,         \* ticks in a second
  LastTick        \* bound: the clock stops here

ASSUME LimitAssumption ==
  /\ Window \in Nat \ {0} /\ Limit \in Nat \ {0}
  /\ Second \in Nat \ {0} /\ LastTick \in Nat

VARIABLE
  hits            \* the limiter's map; a missing key is <<>>

LimitTypeOK ==
  /\ DOMAIN hits = Key
  /\ \A k \in Key : hits[k] \in Seq(0..LastTick) /\ Len(hits[k]) <= Limit

LimitInit == hits = [k \in Key |-> << >>]

\* Variant with a bug: a window that starts over instead of sliding.
Kept_StartsOver(events, t) ==
  IF events # << >> /\ events[1] <= t - Window THEN << >> ELSE events

\* The events inside the window of a call stamped t: allow's loop.
Kept(events, t) ==
  LET kept[i \in 0..Len(events)] ==
        IF i = 0 THEN << >>
        ELSE IF events[i] > t - Window THEN Append(kept[i - 1], events[i])
        ELSE kept[i - 1]
  IN  kept[Len(events)]

\* Variant with a bug: one too many.
Granted_OneMore(events, t) == Len(Kept(events, t)) <= Limit

Granted(events, t) == Len(Kept(events, t)) < Limit

\* Variant with a bug: the time already waited, not the time left.
RetryAfter_Elapsed(events, t) == t - Head(Kept(events, t))

\* What a refused call is told to wait, cut to whole seconds by the handler.
RetryAfter(events, t) ==
  LET left == Window - (t - Head(Kept(events, t)))
  IN  IF left < 0 THEN 0 ELSE left

RetryAfterSeconds(events, t) == RetryAfter(events, t) \div Second

EventsAfter(events, t) ==
  IF Granted(events, t) THEN Append(Kept(events, t), t) ELSE Kept(events, t)

\* allow.
Allow(k, t) == hits' = [hits EXCEPT ![k] = EventsAfter(@, t)]

\* reset: what a successful call leaves of its keys.
Reset(k) == hits' = [hits EXCEPT ![k] = << >>]

\* The process restarts: the map is in memory only.
ForgetHits == hits' = [k \in Key |-> << >>]
=============================================================================
