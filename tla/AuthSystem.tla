----------------------------- MODULE AuthSystem -----------------------------
(***************************************************************************)
(* handler/auth.go: registration and login behind the rate limiter, any    *)
(* number of requests at a time, with failing statements and restarts.     *)
(***************************************************************************)
EXTENDS Accounts, FiniteSets

CONSTANTS
  Request,        \* requests in flight
  Ip,             \* clients' addresses
  Window, Limit, LastTick,  \* as in RateLimit
  MaxCalls        \* bound: calls ever received

Kind == {"register", "login"}
Call == [kind : Kind, ip : Ip, spelling : Spelling, password : Password]
IpKey(call) == <<call.kind, "ip", call.ip>>
EmailKey(call) == <<call.kind, "email", Normal(call.spelling)>>
Key == (Kind \X {"ip"} \X Ip) \cup (Kind \X {"email"} \X { Normal(s) : s \in Spelling })

VARIABLES
  now,
  hits,           \* of RateLimit
  at,             \* the statement a request makes next
  call,           \* its body and its client
  stamp,          \* the limiter's time for it
  admitted,       \* the limiter's answer for its address
  outcome,        \* what it will answer, "none" while undecided
  calls           \* calls received so far

requestVars == <<at, call, stamp, admitted, outcome, calls>>
vars == <<accountVars, now, hits, requestVars>>

Limiter == INSTANCE RateLimit WITH Second <- Tick

ASSUME AuthAssumption ==
  /\ MaxCalls \in Nat /\ None \notin Call
  /\ Window \in Nat \ {0} /\ Limit \in Nat \ {0} /\ LastTick \in Nat

Outcome == {"none", "created", "email_exists", "token", "invalid_credentials",
            "rate_limited", "validation_error", "error"}

Step == {"idle", "limit_ip", "limit_email", "service", "insert", "issue",
         "reset_ip", "reset_email", "reply"}

TypeOK ==
  /\ Limiter!LimitTypeOK
  /\ users \in Seq([email : WellFormed, password : Acceptable])
  /\ tokens \subseteq [user : 1..Len(users), exp : Nat, told : Nat, asked : WellFormed]
  /\ now \in 0..LastTick
  /\ at \in [Request -> Step]
  /\ call \in [Request -> Call \cup {None}]
  /\ stamp \in [Request -> 0..LastTick]
  /\ admitted \in [Request -> BOOLEAN]
  /\ outcome \in [Request -> Outcome]
  /\ \A q \in Request : (call[q] = None) <=> (at[q] = "idle")

Idle ==
  /\ at = [q \in Request |-> "idle"]
  /\ call = [q \in Request |-> None]
  /\ stamp = [q \in Request |-> 0]
  /\ admitted = [q \in Request |-> FALSE]
  /\ outcome = [q \in Request |-> "none"]

Init ==
  /\ AccountsInit
  /\ now = 0
  /\ Limiter!LimitInit
  /\ Idle
  /\ calls = 0

GoTo(q, step) == at' = [at EXCEPT ![q] = step]

\* The handler knows what it will answer.
Decide(q, step, decision) == GoTo(q, step) /\ outcome' = [outcome EXCEPT ![q] = decision]

-----------------------------------------------------------------------------
(* enforceAuthRateLimit                                                    *)

\* Bind, then read the clock, once for both keys.
Receive(q) ==
  /\ at[q] = "idle" /\ calls < MaxCalls
  /\ \E c \in Call : call' = [call EXCEPT ![q] = c]
  /\ stamp' = [stamp EXCEPT ![q] = now]
  /\ calls' = calls + 1
  /\ GoTo(q, "limit_ip")
  /\ UNCHANGED <<accountVars, now, hits, admitted, outcome>>

LimitIp(q) ==
  /\ at[q] = "limit_ip"
  /\ Limiter!Allow(IpKey(call[q]), stamp[q])
  /\ admitted' = [admitted EXCEPT ![q] = Limiter!Granted(hits[IpKey(call[q])], stamp[q])]
  /\ GoTo(q, "limit_email")
  /\ UNCHANGED <<accountVars, now, call, stamp, outcome, calls>>

\* Counted against the email even if the address has been refused.
LimitEmail(q) ==
  LET key == EmailKey(call[q]) IN
  /\ at[q] = "limit_email"
  /\ Limiter!Allow(key, stamp[q])
  /\ IF admitted[q] /\ Limiter!Granted(hits[key], stamp[q])
       THEN GoTo(q, "service") /\ UNCHANGED outcome
       ELSE Decide(q, "reply", "rate_limited")
  /\ UNCHANGED <<accountVars, now, call, stamp, admitted, calls>>

-----------------------------------------------------------------------------
(* AuthService, with the email normalised                                  *)

Email(q) == Normal(call[q].spelling)

Refuse(q) ==
  /\ at[q] = "service"
  /\ ~Valid(call[q].kind, Email(q), call[q].password)
  /\ Decide(q, "reply", "validation_error")
  /\ UNCHANGED <<accountVars, now, hits, call, stamp, admitted, calls>>

\* Register up to HashPassword: the address looks free, or it does not.
RegisterLookup(q) ==
  /\ at[q] = "service" /\ call[q].kind = "register"
  /\ Valid("register", Email(q), call[q].password)
  /\ IF Named(Email(q)) = {} THEN GoTo(q, "insert") /\ UNCHANGED outcome
                             ELSE Decide(q, "reply", "email_exists")
  /\ UNCHANGED <<accountVars, now, hits, call, stamp, admitted, calls>>

\* The INSERT.  A row that is in although the statement failed answers "error".
RegisterInsert(q) ==
  /\ at[q] = "insert"
  /\ IF EmailFree(Email(q))
       THEN /\ CreateUser(Email(q), call[q].password)
            /\ Decide(q, "reset_ip", "created") \/ Decide(q, "reply", "error")
       ELSE Decide(q, "reply", "email_exists") /\ UNCHANGED accountVars
  /\ UNCHANGED <<now, hits, call, stamp, admitted, calls>>

\* Login: GetByEmail and ComparePassword against what it returned.
LoginLookup(q) ==
  /\ at[q] = "service" /\ call[q].kind = "login"
  /\ Valid("login", Email(q), call[q].password)
  /\ IF \E id \in Named(Email(q)) : users[id].password = call[q].password
       THEN GoTo(q, "issue") /\ UNCHANGED outcome
       ELSE Decide(q, "reply", "invalid_credentials")
  /\ UNCHANGED <<accountVars, now, hits, call, stamp, admitted, calls>>

LoginIssue(q) ==
  /\ at[q] = "issue"
  /\ \E id \in Named(Email(q)) : Generate(id, Email(q), now)
  /\ Decide(q, "reset_ip", "token")
  /\ UNCHANGED <<now, hits, call, stamp, admitted, calls>>

\* A lookup, the hash, an INSERT or the signing of a token fails.
Fail(q) ==
  /\ at[q] \in {"service", "insert", "issue"}
  /\ Valid(call[q].kind, Email(q), call[q].password)
  /\ Decide(q, "reply", "error")
  /\ UNCHANGED <<accountVars, now, hits, call, stamp, admitted, calls>>

-----------------------------------------------------------------------------
(* resetAuthRateLimit after a success, and the reply                       *)

ResetIp(q) ==
  /\ at[q] = "reset_ip"
  /\ Limiter!Reset(IpKey(call[q]))
  /\ GoTo(q, "reset_email")
  /\ UNCHANGED <<accountVars, now, call, stamp, admitted, outcome, calls>>

ResetEmail(q) ==
  /\ at[q] = "reset_email"
  /\ Limiter!Reset(EmailKey(call[q]))
  /\ GoTo(q, "reply")
  /\ UNCHANGED <<accountVars, now, call, stamp, admitted, outcome, calls>>

Reply(q) ==
  /\ at[q] = "reply"
  /\ GoTo(q, "idle")
  /\ call' = [call EXCEPT ![q] = None]
  /\ stamp' = [stamp EXCEPT ![q] = 0]
  /\ admitted' = [admitted EXCEPT ![q] = FALSE]
  /\ outcome' = [outcome EXCEPT ![q] = "none"]
  /\ UNCHANGED <<accountVars, now, hits, calls>>

-----------------------------------------------------------------------------

\* The process dies and comes back: the table and the tokens are what is left.
Restart ==
  /\ \E q \in Request : at[q] # "idle"
  /\ Limiter!ForgetHits
  /\ at' = [q \in Request |-> "idle"]
  /\ call' = [q \in Request |-> None]
  /\ stamp' = [q \in Request |-> 0]
  /\ admitted' = [q \in Request |-> FALSE]
  /\ outcome' = [q \in Request |-> "none"]
  /\ UNCHANGED <<accountVars, now, calls>>

PassTime ==
  /\ now < LastTick
  /\ now' = now + 1
  /\ UNCHANGED <<accountVars, hits, requestVars>>

Next ==
  \/ \E q \in Request :
       \/ Receive(q) \/ LimitIp(q) \/ LimitEmail(q)
       \/ Refuse(q) \/ RegisterLookup(q) \/ RegisterInsert(q)
       \/ LoginLookup(q) \/ LoginIssue(q) \/ Fail(q)
       \/ ResetIp(q) \/ ResetEmail(q) \/ Reply(q)
  \/ Restart
  \/ PassTime

Spec == Init /\ [][Next]_vars

-----------------------------------------------------------------------------

\* Registration and login implement Registry: two statements and a unique index
\* open an account in one step, and what a call answers was true of the accounts
\* at one moment between its arrival and its reply.
Registered == INSTANCE Registry WITH
  Asker   <- Request,
  Address <- { Normal(s) : s \in Spelling },
  Secret  <- Password,
  account <- [a \in { Normal(s) : s \in Spelling } |->
                IF Named(a) = {} THEN None
                ELSE users[CHOOSE id \in Named(a) : TRUE].password],
  ask     <- [q \in Request |->
                IF call[q] = None THEN None
                ELSE [kind |-> call[q].kind, address |-> Email(q), secret |-> call[q].password]],
  answer  <- outcome

ASSUME RegistryNoneAssumption == None \notin Password \cup Registered!Ask

ImplementsRegistry == Registered!RegistrySpec
=============================================================================
