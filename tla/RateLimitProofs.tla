--------------------------- MODULE RateLimitProofs --------------------------
(***************************************************************************)
(* The limiter keeps its promise for any number of keys, callers and calls,*)
(* any window and limit, however late the calls take the mutex.            *)
(***************************************************************************)
EXTENDS RateLimitCalls, DataLemmas

-----------------------------------------------------------------------------
(* allow                                                                   *)

LEMMA BetweenIs ==
  ASSUME NEW events, NEW after, NEW until
  PROVE  Between(events, after, until) = Count(events, after, until)
BY DEF Between, Count, Among

\* What stays of a key's events at a call stamped t.
LEMMA KeptKeeps ==
  ASSUME NEW events \in Seq(0..LastTick), NEW t \in Int
  PROVE  /\ Kept(events, t) \in Seq(0..LastTick)
         /\ Len(Kept(events, t)) <= Len(events)
         /\ \A j \in 1..Len(Kept(events, t)) : Kept(events, t)[j] > t - Window
         /\ Len(Kept(events, t)) = Len(events) => Kept(events, t) = events
         /\ \A after, until \in Int : after >= t - Window =>
              Count(Kept(events, t), after, until) = Count(events, after, until)
<1>1. Window \in Int /\ t - Window \in Int
  BY LimitAssumption
<1>2. Kept(events, t) = Later(events, t - Window)
  BY DEF Kept, Later
<1>3. 0..LastTick \in SUBSET Int
  BY LimitAssumption
<1> QED
  BY <1>1, <1>2, <1>3, LaterKeeps

LEMMA EventsAfterTyped ==
  ASSUME NEW events \in Seq(0..LastTick), Len(events) <= Limit, NEW t \in 0..LastTick
  PROVE  /\ EventsAfter(events, t) \in Seq(0..LastTick)
         /\ Len(EventsAfter(events, t)) <= Limit
<1>1. /\ Kept(events, t) \in Seq(0..LastTick) /\ Len(Kept(events, t)) <= Len(events)
      /\ t \in Int /\ Limit \in Nat
  BY LimitAssumption, KeptKeeps
<1>2. CASE Granted(events, t)
  <2>1. Len(Kept(events, t)) < Limit
    BY <1>2 DEF Granted
  <2> QED
    BY <1>1, <1>2, <2>1 DEF EventsAfter
<1>3. CASE ~Granted(events, t)
  BY <1>1, <1>3 DEF EventsAfter
<1> QED
  BY <1>2, <1>3

-----------------------------------------------------------------------------
(* Types                                                                   *)

\* A pending call was stamped in the past.
StampsPast == \A c \in Caller : call[c] # NoCall => call[c].stamp <= now

TypeInv == TypeOK /\ StampsPast

LEMMA LongerLag ==
  ASSUME NEW a \in Int, NEW b \in Int
  PROVE  Max({a, b}) \in {a, b} /\ Max({a, b}) >= a /\ Max({a, b}) >= b
<1>1. \E x \in {a, b} : \A y \in {a, b} : x >= y
  OBVIOUS
<1> QED
  BY <1>1 DEF Max

LEMMA InitTyped == Init => TypeInv
<1> SUFFICES ASSUME Init
             PROVE  TypeInv
  OBVIOUS
<1>1. LimitTypeOK
  BY LimitAssumption DEF Init, LimitInit, LimitTypeOK
<1> QED
  BY <1>1, LimitAssumption, CallsAssumption DEF Init, TypeInv, TypeOK, StampsPast

\* allow leaves one key's events typed and the others alone.
LEMMA AllowTyped ==
  ASSUME LimitTypeOK, NEW k \in Key, NEW t \in 0..LastTick, Allow(k, t)
  PROVE  /\ LimitTypeOK'
         /\ \A j \in Key : hits'[j] = IF j = k THEN EventsAfter(hits[k], t) ELSE hits[j]
<1>1. \A j \in Key : hits'[j] = IF j = k THEN EventsAfter(hits[k], t) ELSE hits[j]
  BY DEF Allow, LimitTypeOK
<1>2. DOMAIN hits' = Key
  BY DEF Allow, LimitTypeOK
<1>3. hits[k] \in Seq(0..LastTick) /\ Len(hits[k]) <= Limit
  BY DEF LimitTypeOK
<1>4. EventsAfter(hits[k], t) \in Seq(0..LastTick) /\ Len(EventsAfter(hits[k], t)) <= Limit
  BY <1>3, EventsAfterTyped
<1> QED
  BY <1>1, <1>2, <1>4 DEF LimitTypeOK

LEMMA ResetTyped ==
  ASSUME LimitTypeOK, NEW k \in Key, Reset(k)
  PROVE  /\ LimitTypeOK'
         /\ \A j \in Key : hits'[j] = IF j = k THEN << >> ELSE hits[j]
<1>1. \A j \in Key : hits'[j] = IF j = k THEN << >> ELSE hits[j]
  BY DEF Reset, LimitTypeOK
<1>2. DOMAIN hits' = Key
  BY DEF Reset, LimitTypeOK
<1>3. << >> \in Seq(0..LastTick) /\ Len(<< >>) = 0 /\ Limit \in Nat
  BY LimitAssumption
<1>4. ASSUME NEW j \in Key
      PROVE  hits'[j] \in Seq(0..LastTick) /\ Len(hits'[j]) <= Limit
  <2>1. CASE j = k
    <3>1. hits'[j] = << >>
      BY <1>1, <2>1
    <3> QED
      BY <1>3, <3>1
  <2>2. CASE j # k
    BY <1>1, <2>2 DEF LimitTypeOK
  <2> QED
    BY <2>1, <2>2
<1> QED
  BY <1>1, <1>2, <1>4 DEF LimitTypeOK

LEMMA PendingIs ==
  ASSUME TypeInv, NEW c \in Caller, call[c] # NoCall
  PROVE  /\ call[c] \in Pending
         /\ call[c].key \in Key /\ call[c].stamp \in 0..LastTick /\ call[c].stamp <= now
<1>1. call[c] \in Pending
  BY DEF TypeInv, TypeOK
<1> QED
  BY <1>1 DEF TypeInv, StampsPast, Pending

LEMMA StepTyped ==
  ASSUME TypeInv, [Next]_vars
  PROVE  TypeInv'
<1>0. /\ LastTick \in Nat /\ MaxCalls \in Nat /\ now \in Nat /\ lag \in Nat
      /\ NoCall \notin Pending
  BY LimitAssumption, CallsAssumption DEF TypeInv, TypeOK
<1>1. ASSUME NEW c \in Caller, NEW k \in Key, ReadClock(c, k)
      PROVE  TypeInv'
  <2>1. [key |-> k, stamp |-> now, granted |-> FALSE] \in Pending
    BY DEF Pending, TypeInv, TypeOK
  <2>2. LimitTypeOK'
    BY <1>1 DEF ReadClock, TypeInv, TypeOK, LimitTypeOK
  <2> QED
    BY <1>0, <1>1, <2>1, <2>2 DEF ReadClock, TypeInv, TypeOK, StampsPast
<1>2. ASSUME NEW c \in Caller, Enter(c)
      PROVE  TypeInv'
  <2> DEFINE k == call[c].key
             t == call[c].stamp
  <2>1. call[c] \in Pending /\ k \in Key /\ t \in 0..LastTick /\ t <= now
    BY <1>2, PendingIs DEF Enter
  <2>2. LimitTypeOK'
    BY <1>2, <2>1, AllowTyped DEF Enter, TypeInv, TypeOK
  <2>3. now' = now /\ calls' = calls /\ lag' \in 0..now'
    <3>1. lag' = Max({lag, now - t}) /\ now' = now /\ calls' = calls
      BY <1>2 DEF Enter
    <3>2. now - t \in Int /\ 0 <= now - t /\ now - t <= now
      BY <1>0, <2>1
    <3>3. Max({lag, now - t}) \in {lag, now - t}
      <4>1. PICK age \in Int : age = now - t
        BY <3>2
      <4>2. lag \in Int
        BY <1>0
      <4>3. Max({lag, age}) \in {lag, age}
        BY <4>2, LongerLag
      <4> QED
        BY <4>1, <4>3
    <3> QED
      BY <3>1, <3>2, <3>3 DEF TypeInv, TypeOK
  <2>4. CASE Granted(hits[k], t)
    <3>1. /\ call' = [call EXCEPT ![c].granted = TRUE]
          /\ grants' = [grants EXCEPT ![k] = Append(@, t)]
      BY <1>2, <2>4 DEF Enter
    <3>2. grants' \in [Key -> Seq(0..LastTick)]
      BY <2>1, <3>1 DEF TypeInv, TypeOK
    <3>3. /\ [call[c] EXCEPT !.granted = TRUE] \in Pending
          /\ [call[c] EXCEPT !.granted = TRUE].stamp = t
      BY <2>1 DEF Pending
    <3> QED
      BY <1>0, <2>1, <2>2, <2>3, <3>1, <3>2, <3>3 DEF TypeInv, TypeOK, StampsPast
  <2>5. CASE ~Granted(hits[k], t)
    <3>1. call' = [call EXCEPT ![c] = NoCall] /\ grants' = grants
      BY <1>2, <2>5 DEF Enter
    <3> QED
      BY <1>0, <2>2, <2>3, <3>1 DEF TypeInv, TypeOK, StampsPast
  <2> QED
    BY <2>4, <2>5
<1>3. ASSUME NEW c \in Caller, Succeed(c)
      PROVE  TypeInv'
  <2>1. call[c].key \in Key
    BY <1>3, PendingIs DEF Succeed
  <2>2. LimitTypeOK'
    BY <1>3, <2>1, ResetTyped DEF Succeed, TypeInv, TypeOK
  <2>3. grants' \in [Key -> Seq(0..LastTick)]
    BY <1>3, <2>1 DEF Succeed, TypeInv, TypeOK
  <2> QED
    BY <1>3, <2>2, <2>3 DEF Succeed, TypeInv, TypeOK, StampsPast
<1>4. ASSUME NEW c \in Caller, GiveUp(c)
      PROVE  TypeInv'
  BY <1>4 DEF GiveUp, TypeInv, TypeOK, StampsPast, LimitTypeOK
<1>5. CASE Tick
  <2>1. now' \in 0..LastTick /\ now' = now + 1
    BY <1>0, <1>5 DEF Tick
  <2>2. \A c \in Caller : call[c] # NoCall => call[c].stamp <= now'
    BY <1>0, <2>1, PendingIs
  <2>3. lag \in 0..now'
    BY <1>0, <2>1 DEF TypeInv, TypeOK
  <2> QED
    BY <1>5, <2>1, <2>2, <2>3 DEF Tick, TypeInv, TypeOK, StampsPast, LimitTypeOK
<1>6. CASE UNCHANGED vars
  BY <1>6 DEF vars, TypeInv, TypeOK, StampsPast, LimitTypeOK
<1> QED
  BY <1>1, <1>2, <1>3, <1>4, <1>5, <1>6 DEF Next

LEMMA TypeInvariant == Spec => []TypeInv
<1> QED
  BY InitTyped, StepTyped, PTL DEF Spec

\* Type correctness, whatever the limit: no key ever holds more than Limit events.
THEOREM SpecTypeOK == Spec => []TypeOK
<1>1. TypeInv => TypeOK
  BY DEF TypeInv
<1> QED
  BY <1>1, TypeInvariant, PTL

-----------------------------------------------------------------------------
(* The window                                                              *)

\* Pruning forgets no grant of the last Window ticks, as the clock has it now.
Remembered ==
  \A k \in Key : \A after, until \in Int : after >= now - Window =>
    Count(grants[k], after, until) <= Count(hits[k], after, until)

WindowKept ==
  \A k \in Key : \A start \in Int :
    Count(grants[k], start, start + (Window - lag)) <= Limit

WindowInv == Remembered /\ WindowKept

LEMMA EmptyCount ==
  ASSUME NEW after, NEW until
  PROVE  Count(<< >>, after, until) = 0
<1>1. Among(<< >>, after, until) = {}
  BY DEF Among
<1> QED
  BY <1>1, FS_EmptySet DEF Count

\* What the variables are.
LEMMA Types ==
  ASSUME TypeInv
  PROVE  /\ Window \in Nat /\ Limit \in Nat /\ LastTick \in Nat
         /\ now \in Nat /\ lag \in Nat
         /\ 0..LastTick \in SUBSET Int
         /\ \A k \in Key : grants[k] \in Seq(0..LastTick) /\ hits[k] \in Seq(0..LastTick)
BY LimitAssumption DEF TypeInv, TypeOK, LimitTypeOK

LEMMA StampIs ==
  ASSUME NEW events \in Seq(0..LastTick), NEW i \in 1..Len(events)
  PROVE  events[i] \in 0..LastTick
<1>1. 0..LastTick \in SUBSET Int
  BY LimitAssumption
<1> QED
  BY <1>1, EventIs

LEMMA GrantCounts ==
  ASSUME NEW events \in Seq(0..LastTick), NEW t \in 0..LastTick,
         NEW after \in Int, NEW until \in Int
  PROVE  Count(Append(events, t), after, until) =
           IF after < t /\ t <= until THEN Count(events, after, until) + 1
                                     ELSE Count(events, after, until)
<1>1. 0..LastTick \in SUBSET Int
  BY LimitAssumption
<1> QED
  BY <1>1, CountAppend

\* A call is granted because fewer than Limit events are in the window it sees,
\* and these are all that any window it could overfill has been granted.
LEMMA GrantFits ==
  ASSUME TypeInv, Remembered, NEW k \in Key, NEW t \in 0..LastTick, t <= now,
         Granted(hits[k], t), NEW longest \in Int, longest >= now - t,
         NEW start \in Int, start < t, t <= start + (Window - longest)
  PROVE  Count(grants[k], start, start + (Window - longest)) < Limit
<1> DEFINE until == start + (Window - longest)
<1>1. start >= now - Window /\ start >= t - Window /\ until \in Int
  BY Types
<1>2. Count(grants[k], start, until) <= Count(hits[k], start, until)
  BY <1>1 DEF Remembered
<1>3. Count(Kept(hits[k], t), start, until) = Count(hits[k], start, until)
  BY <1>1, Types, KeptKeeps
<1>4. Kept(hits[k], t) \in Seq(0..LastTick)
  BY Types, KeptKeeps
<1>5. /\ Count(Kept(hits[k], t), start, until) <= Len(Kept(hits[k], t))
      /\ Count(Kept(hits[k], t), start, until) \in Nat
  BY <1>1, <1>4, Types, CountIs
<1>6. Len(Kept(hits[k], t)) < Limit /\ Len(Kept(hits[k], t)) \in Nat
  BY <1>4 DEF Granted
<1>7. Count(grants[k], start, until) \in Nat
  BY <1>1, Types, CountIs
<1> QED
  BY <1>2, <1>3, <1>5, <1>6, <1>7, Types

LEMMA EnterKeepsWindow ==
  ASSUME TypeInv, WindowInv, NEW c \in Caller, Enter(c)
  PROVE  WindowInv'
<1>1. /\ call[c] \in Pending /\ call[c].key \in Key
      /\ call[c].stamp \in 0..LastTick /\ call[c].stamp <= now
  BY PendingIs DEF Enter
<1>2. PICK k \in Key, t \in 0..LastTick : k = call[c].key /\ t = call[c].stamp
  BY <1>1
<1>3. PICK age \in Int : age = now - t /\ age >= 0 /\ t \in Int
  BY <1>1, <1>2, Types
<1>4. /\ Allow(k, t) /\ lag' = Max({lag, age}) /\ now' = now
      /\ IF Granted(hits[k], t) THEN grants' = [grants EXCEPT ![k] = Append(@, t)]
                               ELSE grants' = grants
  BY <1>2, <1>3 DEF Enter
<1>5. lag' \in Int /\ lag' >= lag /\ lag' >= age
  <2>1. lag \in Int
    BY Types
  <2>2. /\ Max({lag, age}) \in {lag, age} /\ Max({lag, age}) >= lag
        /\ Max({lag, age}) >= age
    BY <1>3, <2>1, LongerLag
  <2> QED
    BY <1>3, <1>4, <2>1, <2>2
<1>6. \A j \in Key : hits'[j] = IF j = k THEN EventsAfter(hits[k], t) ELSE hits[j]
  BY <1>4, AllowTyped DEF TypeInv, TypeOK
<1>7. \A j \in Key :
        grants'[j] = IF j = k /\ Granted(hits[k], t) THEN Append(grants[k], t) ELSE grants[j]
  BY <1>4 DEF TypeInv, TypeOK
<1>8. \A after, until \in Int : after >= t - Window =>
        Count(Kept(hits[k], t), after, until) = Count(hits[k], after, until)
  BY <1>3, Types, KeptKeeps
<1>9. Kept(hits[k], t) \in Seq(0..LastTick)
  BY <1>3, Types, KeptKeeps
<1>10. Remembered'
  <2> SUFFICES ASSUME NEW j \in Key, NEW after \in Int, NEW until \in Int,
                      after >= now - Window
               PROVE  Count(grants'[j], after, until) <= Count(hits'[j], after, until)
    BY <1>4 DEF Remembered
  <2>1. Count(grants[j], after, until) <= Count(hits[j], after, until)
    BY DEF WindowInv, Remembered
  <2>2. CASE j # k
    BY <1>6, <1>7, <2>1, <2>2
  <2>3. CASE j = k /\ ~Granted(hits[k], t)
    <3>1. hits'[j] = Kept(hits[k], t) /\ grants'[j] = grants[k]
      BY <1>6, <1>7, <2>3 DEF EventsAfter
    <3>2. after >= t - Window
      BY <1>3, Types
    <3> QED
      BY <1>8, <2>1, <2>3, <3>1, <3>2
  <2>4. CASE j = k /\ Granted(hits[k], t)
    <3>1. hits'[j] = Append(Kept(hits[k], t), t) /\ grants'[j] = Append(grants[k], t)
      BY <1>6, <1>7, <2>4 DEF EventsAfter
    <3>2. after >= t - Window
      BY <1>3, Types
    <3>3. Count(Kept(hits[k], t), after, until) = Count(hits[k], after, until)
      BY <1>8, <3>2
    <3>4. Count(hits'[j], after, until) =
            IF after < t /\ t <= until THEN Count(hits[k], after, until) + 1
                                      ELSE Count(hits[k], after, until)
      BY <1>9, <3>1, <3>3, GrantCounts
    <3>5. Count(grants'[j], after, until) =
            IF after < t /\ t <= until THEN Count(grants[k], after, until) + 1
                                      ELSE Count(grants[k], after, until)
      <4>1. grants[k] \in Seq(0..LastTick)
        BY Types
      <4> QED
        BY <3>1, <4>1, GrantCounts
    <3>6. Count(grants[k], after, until) \in Nat /\ Count(hits[k], after, until) \in Nat
      BY Types, CountIs
    <3> QED
      BY <2>1, <2>4, <3>4, <3>5, <3>6
  <2> QED
    BY <2>2, <2>3, <2>4
<1>11. WindowKept'
  <2> SUFFICES ASSUME NEW j \in Key, NEW start \in Int
               PROVE  Count(grants'[j], start, start + (Window - lag')) <= Limit
    BY DEF WindowKept
  <2>1. PICK until \in Int : until = start + (Window - lag') /\ until <= start + (Window - lag)
    <3>1. /\ Window - lag' \in Int /\ Window - lag \in Int
          /\ Window - lag' <= Window - lag
      BY <1>5, Types
    <3>2. \A short, long \in Int : short <= long =>
            \E until \in Int : until = start + short /\ until <= start + long
      OBVIOUS
    <3> QED
      BY <3>1, <3>2
  <2>2. Count(grants[j], start, until) <= Limit /\ Count(grants[j], start, until) \in Nat
    <3>1. Count(grants[j], start, start + (Window - lag)) <= Limit
      BY DEF WindowInv, WindowKept
    <3>2. start + (Window - lag) \in Int
      BY Types
    <3>3. Count(grants[j], start, until) <= Count(grants[j], start, start + (Window - lag))
      BY <2>1, <3>2, Types, CountShrinks
    <3>4. /\ Count(grants[j], start, until) \in Nat
          /\ Count(grants[j], start, start + (Window - lag)) \in Nat
      BY <3>2, Types, CountIs
    <3> QED
      BY <3>1, <3>3, <3>4, Types
  <2>3. CASE ~(j = k /\ Granted(hits[k], t) /\ start < t /\ t <= until)
    <3>1. CASE j = k /\ Granted(hits[k], t)
      <4>1. grants'[j] = Append(grants[k], t)
        BY <1>7, <3>1
      <4>2. Count(grants'[j], start, until) = Count(grants[k], start, until)
        BY <2>3, <3>1, <4>1, Types, GrantCounts
      <4> QED
        BY <2>1, <2>2, <3>1, <4>2
    <3>2. CASE ~(j = k /\ Granted(hits[k], t))
      BY <1>7, <2>1, <2>2, <3>2
    <3> QED
      BY <3>1, <3>2
  <2>4. CASE j = k /\ Granted(hits[k], t) /\ start < t /\ t <= until
    <3>1. Count(grants[k], start, until) < Limit
      <4>1. t <= now /\ lag' >= now - t
        BY <1>1, <1>2, <1>3, <1>5
      <4>2. PICK longest \in Int : longest = lag'
        BY <1>5
      <4> QED
        BY <2>1, <2>4, <4>1, <4>2, GrantFits DEF WindowInv
    <3>2. grants'[j] = Append(grants[k], t)
      BY <1>7, <2>4
    <3>3. Count(grants'[j], start, until) = Count(grants[k], start, until) + 1
      BY <2>4, <3>2, Types, GrantCounts
    <3> QED
      BY <2>1, <2>2, <2>4, <3>1, <3>3, Types
  <2> QED
    BY <2>3, <2>4
<1> QED
  BY <1>10, <1>11 DEF WindowInv

LEMMA StepKeepsWindow ==
  ASSUME TypeInv, WindowInv, [Next]_vars
  PROVE  WindowInv'
<1>1. ASSUME NEW c \in Caller, Enter(c)
      PROVE  WindowInv'
  BY <1>1, EnterKeepsWindow
<1>2. ASSUME NEW c \in Caller, Succeed(c)
      PROVE  WindowInv'
  <2>1. PICK k \in Key : Reset(k) /\ grants' = [grants EXCEPT ![k] = << >>]
    BY <1>2, PendingIs DEF Succeed
  <2>2. UNCHANGED <<now, lag>>
    BY <1>2 DEF Succeed
  <2>3. \A j \in Key : /\ hits'[j] = IF j = k THEN << >> ELSE hits[j]
                       /\ grants'[j] = IF j = k THEN << >> ELSE grants[j]
    BY <2>1, ResetTyped DEF TypeInv, TypeOK
  <2>4. Remembered'
    <3> SUFFICES ASSUME NEW j \in Key, NEW after \in Int, NEW until \in Int,
                        after >= now - Window
                 PROVE  Count(grants'[j], after, until) <= Count(hits'[j], after, until)
      BY <2>2 DEF Remembered
    <3>1. CASE j = k
      <4>1. grants'[j] = << >> /\ hits'[j] = << >>
        BY <2>3, <3>1
      <4>2. Count(grants'[j], after, until) = 0 /\ Count(hits'[j], after, until) = 0
        BY <4>1, EmptyCount
      <4> QED
        BY <4>2
    <3>2. CASE j # k
      BY <2>3, <3>2 DEF WindowInv, Remembered
    <3> QED
      BY <3>1, <3>2
  <2>5. WindowKept'
    <3> SUFFICES ASSUME NEW j \in Key, NEW start \in Int
                 PROVE  Count(grants'[j], start, start + (Window - lag)) <= Limit
      BY <2>2 DEF WindowKept
    <3>1. CASE j = k
      <4>1. grants'[j] = << >>
        BY <2>3, <3>1
      <4>2. Count(grants'[j], start, start + (Window - lag)) = 0
        BY <4>1, EmptyCount
      <4> QED
        BY <4>2, Types
    <3>2. CASE j # k
      BY <2>3, <3>2 DEF WindowInv, WindowKept
    <3> QED
      BY <3>1, <3>2
  <2> QED
    BY <2>4, <2>5 DEF WindowInv
<1>3. CASE Tick
  <2>1. now' = now + 1 /\ UNCHANGED <<hits, grants, lag>>
    BY <1>3 DEF Tick
  <2>2. \A after \in Int : after >= now' - Window => after >= now - Window
    BY <2>1, Types
  <2> QED
    BY <2>1, <2>2 DEF WindowInv, Remembered, WindowKept
<1>4. ASSUME \/ UNCHANGED vars
             \/ \E c \in Caller : GiveUp(c) \/ \E k \in Key : ReadClock(c, k)
      PROVE  WindowInv'
  <2>1. UNCHANGED <<hits, now, grants, lag>>
    BY <1>4 DEF vars, GiveUp, ReadClock
  <2> QED
    BY <2>1 DEF WindowInv, Remembered, WindowKept
<1> QED
  BY <1>1, <1>2, <1>3, <1>4 DEF Next

LEMMA InitWindow == Init => WindowInv
<1> SUFFICES ASSUME Init
             PROVE  WindowInv
  OBVIOUS
<1>1. \A k \in Key : grants[k] = << >> /\ hits[k] = << >>
  BY DEF Init, LimitInit
<1>2. \A k \in Key, after, until \in Int :
        Count(grants[k], after, until) = 0 /\ Count(hits[k], after, until) = 0
  BY <1>1, EmptyCount
<1>3. /\ Window \in Nat /\ Limit \in Nat /\ lag = 0
      /\ \A start \in Int : start + (Window - lag) \in Int
  BY LimitAssumption DEF Init
<1> QED
  BY <1>2, <1>3 DEF WindowInv, Remembered, WindowKept

\* No key is granted more than Limit calls in any stretch of Window less the
\* longest time a call took from its clock to the mutex: whatever the callers,
\* the orders in which they take the mutex, and the clock.
THEOREM SpecWindowRespected == Spec => []WindowRespected
<1>1. TypeInv /\ WindowInv => WindowRespected
  <2> SUFFICES ASSUME TypeInv, WindowInv, NEW k \in Key, NEW start \in -1..LastTick
               PROVE  Between(grants[k], start, start + (Window - lag)) <= Limit
    BY DEF WindowRespected
  <2>1. start \in Int
    BY Types
  <2> QED
    BY <2>1, BetweenIs DEF WindowInv, WindowKept
<1> QED
  BY <1>1, TypeInvariant, InitWindow, StepKeepsWindow, PTL DEF Spec

-----------------------------------------------------------------------------
(* The advice                                                              *)

\* A refused call that waits a second longer than it is told is granted, unless
\* its key is used meanwhile: the limiter is full, so all its events were kept,
\* and the advice outlives the first of them although it is cut to seconds.
THEOREM SpecRetrySuffices == Spec => []RetrySuffices
<1>1. TypeInv => RetrySuffices
  <2> SUFFICES ASSUME TypeInv, NEW k \in Key, NEW t \in 0..LastTick, ~Granted(hits[k], t)
               PROVE  Granted(hits[k], t + (RetryAfterSeconds(hits[k], t) + 1) * Second)
    BY DEF RetrySuffices
  <2> DEFINE wait == (RetryAfterSeconds(hits[k], t) + 1) * Second
  <2>1. /\ Limit \in Nat /\ Limit > 0 /\ Window \in Nat /\ Second \in Nat /\ Second > 0
        /\ t \in Nat
    BY LimitAssumption
  <2>2. hits[k] \in Seq(0..LastTick) /\ Len(hits[k]) <= Limit
    BY DEF TypeInv, TypeOK, LimitTypeOK
  <2>3. Kept(hits[k], t) = hits[k] /\ Len(hits[k]) = Limit
    <3>1. /\ Kept(hits[k], t) \in Seq(0..LastTick)
          /\ Len(Kept(hits[k], t)) <= Len(hits[k])
          /\ Len(Kept(hits[k], t)) = Len(hits[k]) => Kept(hits[k], t) = hits[k]
      BY <2>1, <2>2, KeptKeeps
    <3>2. ~(Len(Kept(hits[k], t)) < Limit)
      BY DEF Granted
    <3> QED
      BY <2>1, <2>2, <3>1, <3>2
  <2>4. PICK first \in Nat : first = hits[k][1]
    <3>1. 1 \in 1..Len(hits[k])
      BY <2>1, <2>3
    <3>2. hits[k][1] \in 0..LastTick
      BY <2>2, <3>1, StampIs
    <3> QED
      BY <3>2
  <2>5. wait \in Nat /\ wait > Window - (t - first)
    <3> DEFINE left == Window - (t - first)
               shown == IF left < 0 THEN 0 ELSE left
    <3>1. RetryAfter(hits[k], t) = shown
      BY <2>1, <2>2, <2>3, <2>4 DEF RetryAfter
    <3>2. shown \in Nat /\ shown >= left /\ left \in Int
      BY <2>1
    <3> HIDE DEF shown
    <3>3. \A n, d \in Nat : d > 0 =>
            /\ ((n \div d) + 1) * d \in Nat
            /\ ((n \div d) + 1) * d > n
      OBVIOUS
    <3>4. wait = ((shown \div Second) + 1) * Second
      BY <3>1 DEF RetryAfterSeconds
    <3> HIDE DEF wait
    <3>5. wait \in Nat /\ wait > shown
      BY <2>1, <3>2, <3>3, <3>4
    <3> QED
      BY <3>2, <3>5
  <2> HIDE DEF wait
  <2>6. t + wait \in Int /\ ~(first > (t + wait) - Window)
    BY <2>1, <2>4, <2>5
  <2>7. /\ Kept(hits[k], t + wait) \in Seq(0..LastTick)
        /\ Len(Kept(hits[k], t + wait)) <= Len(hits[k])
        /\ \A j \in 1..Len(Kept(hits[k], t + wait)) :
             Kept(hits[k], t + wait)[j] > (t + wait) - Window
        /\ Len(Kept(hits[k], t + wait)) = Len(hits[k]) => Kept(hits[k], t + wait) = hits[k]
    BY <2>2, <2>6, KeptKeeps
  <2>8. Len(Kept(hits[k], t + wait)) # Limit
    <3> SUFFICES ASSUME Len(Kept(hits[k], t + wait)) = Limit
                 PROVE  FALSE
      OBVIOUS
    <3>1. Kept(hits[k], t + wait) = hits[k] /\ 1 \in 1..Len(Kept(hits[k], t + wait))
      BY <2>1, <2>3, <2>7
    <3>2. hits[k][1] > (t + wait) - Window
      BY <2>7, <3>1
    <3> QED
      BY <2>4, <2>6, <3>2
  <2>9. Granted(hits[k], t + wait)
    BY <2>1, <2>3, <2>7, <2>8 DEF Granted
  <2> QED
    BY <2>9 DEF wait
<1> QED
  BY <1>1, TypeInvariant, PTL
=============================================================================
