----------------------------- MODULE AuthProofs -----------------------------
(***************************************************************************)
(* Registration and login implement Registry, and tokens are honest: for   *)
(* any number of requests, addresses and accounts, whatever the limiter    *)
(* answers.                                                                *)
(***************************************************************************)
EXTENDS AuthSystem, DataLemmas, TLAPS

Address == { Normal(s) : s \in Spelling }

-----------------------------------------------------------------------------
(* The users table                                                         *)

UserRow == [email : Address, password : Password]

UsersInv ==
  /\ users \in Seq(UserRow)
  /\ \A i, j \in 1..Len(users) : users[i].email = users[j].email => i = j

\* What the table says of an address.
AccountOf(a) ==
  IF Named(a) = {} THEN None ELSE users[CHOOSE id \in Named(a) : TRUE].password

LEMMA AccountIs ==
  ASSUME UsersInv, NEW a
  PROVE  /\ Named(a) = {} => AccountOf(a) = None
         /\ \A id \in Named(a) : AccountOf(a) = users[id].password /\ Named(a) = {id}
         /\ Named(a) # {} => AccountOf(a) \in Password
<1>1. \A id \in Named(a) : id \in 1..Len(users) /\ users[id].email = a
  BY DEF Named
<1>2. ASSUME NEW id \in Named(a)
      PROVE  Named(a) = {id}
  BY <1>1 DEF UsersInv
<1>3. ASSUME NEW id \in Named(a)
      PROVE  AccountOf(a) = users[id].password
  <2>1. (CHOOSE x \in Named(a) : TRUE) \in Named(a)
    BY <1>3
  <2>2. (CHOOSE x \in Named(a) : TRUE) = id
    BY <1>2, <2>1
  <2> QED
    BY <2>2 DEF AccountOf
<1>4. ASSUME NEW id \in Named(a)
      PROVE  users[id].password \in Password
  <2>1. \A i \in 1..Len(users) : users[i] \in UserRow
    BY DEF UsersInv
  <2>2. id \in 1..Len(users)
    BY <1>1, <1>4
  <2>3. users[id] \in UserRow
    BY <2>1, <2>2
  <2> QED
    BY <2>3 DEF UserRow
<1> QED
  BY <1>2, <1>3, <1>4 DEF AccountOf

\* The INSERT of an address that has no row.
LEMMA Created ==
  ASSUME UsersInv, NEW e \in Address, NEW p \in Password, Named(e) = {},
         users' = Append(users, [email |-> e, password |-> p])
  PROVE  /\ UsersInv'
         /\ \A a : a # e => Named(a)' = Named(a) /\ AccountOf(a)' = AccountOf(a)
         /\ Named(e)' = {Len(users) + 1} /\ AccountOf(e)' = p
<1>1. Len(users) \in Nat
  BY DEF UsersInv
<1>2. /\ users' \in Seq(UserRow)
      /\ Len(users') = Len(users) + 1
      /\ \A i \in 1..Len(users) : users'[i] = users[i]
      /\ users'[Len(users) + 1] = [email |-> e, password |-> p]
  <2>1. [email |-> e, password |-> p] \in UserRow
    BY DEF UserRow
  <2> QED
    BY <2>1 DEF UsersInv
<1>3. \A i \in 1..Len(users) : users[i].email # e
  BY DEF Named
<1>4. UsersInv'
  <2> SUFFICES ASSUME NEW i \in 1..Len(users'), NEW j \in 1..Len(users'),
                      users'[i].email = users'[j].email
               PROVE  i = j
    BY <1>2 DEF UsersInv
  <2>1. /\ i \in 1..Len(users) \/ i = Len(users) + 1
        /\ j \in 1..Len(users) \/ j = Len(users) + 1
    BY <1>1, <1>2
  <2> QED
    BY <1>2, <1>3, <2>1 DEF UsersInv
<1>5. ASSUME NEW a, a # e
      PROVE  Named(a)' = Named(a) /\ AccountOf(a)' = AccountOf(a)
  <2>1. \A i \in 1..Len(users') : users'[i].email = a <=> i \in 1..Len(users) /\ users[i].email = a
    BY <1>1, <1>2, <1>5
  <2>2. Named(a)' = Named(a)
    BY <1>1, <1>2, <2>1 DEF Named
  <2>3. CASE Named(a) = {}
    BY <2>2, <2>3 DEF AccountOf
  <2>4. CASE Named(a) # {}
    <3>1. PICK id \in Named(a) : TRUE
      BY <2>4
    <3>2. Named(a) = {id} /\ AccountOf(a) = users[id].password
      BY <3>1, AccountIs
    <3>3. Named(a)' = {id}
      BY <2>2, <3>2
    <3>4. (CHOOSE x \in Named(a)' : TRUE) = id
      BY <3>3
    <3>5. AccountOf(a)' = users'[id].password
      BY <3>3, <3>4 DEF AccountOf
    <3>6. users'[id] = users[id]
      BY <1>2, <3>1 DEF Named
    <3> QED
      BY <2>2, <3>2, <3>5, <3>6
  <2> QED
    BY <2>2, <2>3, <2>4
<1>6. Named(e)' = {Len(users) + 1}
  BY <1>1, <1>2, <1>3 DEF Named
<1>7. AccountOf(e)' = p
  BY <1>2, <1>6 DEF AccountOf
<1> QED
  BY <1>4, <1>5, <1>6, <1>7

-----------------------------------------------------------------------------
(* Requests                                                                *)

\* Until the service has answered nothing is decided; from then on it is.  Only a
\* registration gets to the INSERT, only a login to the token.
Handled(step, body, decision) ==
  /\ step \in Step
  /\ (body = None) <=> (step = "idle")
  /\ step # "idle" => body \in Call
  /\ decision = "none" <=> step \in {"idle", "limit_ip", "limit_email", "service", "insert", "issue"}
  /\ step = "insert" => body.kind = "register"
  /\ step = "issue" => body.kind = "login"

RequestsInv ==
  /\ at = [q \in Request |-> at[q]]
  /\ call = [q \in Request |-> call[q]]
  /\ outcome = [q \in Request |-> outcome[q]]
  /\ DOMAIN at = Request /\ DOMAIN call = Request /\ DOMAIN outcome = Request
  /\ \A q \in Request : Handled(at[q], call[q], outcome[q])

RegistryInv == UsersInv /\ RequestsInv

\* A login that has compared its password may still get its token: accounts stay.
IssueInv ==
  \A q \in Request :
    at[q] = "issue" => \E id \in Named(Email(q)) : users[id].password = call[q].password

\* One request moves.
LEMMA MoveHandled ==
  ASSUME RequestsInv, NEW q \in Request, NEW step, NEW body, NEW decision,
         at' = [at EXCEPT ![q] = step], call' = [call EXCEPT ![q] = body],
         outcome' = [outcome EXCEPT ![q] = decision],
         Handled(step, body, decision)
  PROVE  RequestsInv'
<1>1. \A r \in Request : /\ at'[r] = IF r = q THEN step ELSE at[r]
                         /\ call'[r] = IF r = q THEN body ELSE call[r]
                         /\ outcome'[r] = IF r = q THEN decision ELSE outcome[r]
  BY DEF RequestsInv
<1>2. \A r \in Request : Handled(at'[r], call'[r], outcome'[r])
  BY <1>1, Zenon DEF RequestsInv
<1>3. /\ at' = [r \in Request |-> at'[r]] /\ call' = [r \in Request |-> call'[r]]
      /\ outcome' = [r \in Request |-> outcome'[r]]
      /\ DOMAIN at' = Request /\ DOMAIN call' = Request /\ DOMAIN outcome' = Request
  BY DEF RequestsInv
<1> QED
  BY <1>2, <1>3 DEF RequestsInv, Handled

\* The call stays.
LEMMA DecideHandled ==
  ASSUME RequestsInv, NEW q \in Request, NEW step, NEW decision,
         Decide(q, step, decision), UNCHANGED call,
         Handled(step, call[q], decision)
  PROVE  RequestsInv'
<1>1. call' = [call EXCEPT ![q] = call[q]]
  BY DEF RequestsInv
<1> QED
  BY <1>1, MoveHandled DEF Decide, GoTo

\* The call and the decision stay.
LEMMA GoToHandled ==
  ASSUME RequestsInv, NEW q \in Request, NEW step, GoTo(q, step), UNCHANGED <<call, outcome>>,
         Handled(step, call[q], outcome[q])
  PROVE  RequestsInv'
<1>1. outcome' = [outcome EXCEPT ![q] = outcome[q]]
  BY DEF RequestsInv
<1> QED
  BY <1>1, DecideHandled DEF Decide

LEMMA EmailIsAddress ==
  ASSUME RequestsInv, NEW q \in Request, at[q] # "idle"
  PROVE  /\ call[q] \in Call /\ call[q] # None
         /\ call[q].kind \in Kind /\ Email(q) \in Address /\ call[q].password \in Password
BY DEF RequestsInv, Handled, Call, Email, Address

-----------------------------------------------------------------------------
(* As a registry                                                           *)

\* The account table and the calls, as Registry sees them.
AccountMap == [a \in { Normal(s) : s \in Spelling } |->
                IF Named(a) = {} THEN None
                ELSE users[CHOOSE id \in Named(a) : TRUE].password]

AskMap == [q \in Request |->
             IF call[q] = None THEN None
             ELSE [kind |-> call[q].kind, address |-> Email(q), secret |-> call[q].password]]

LEMMA Maps ==
  /\ \A a \in Address : AccountMap[a] = AccountOf(a) /\ AccountMap'[a] = AccountOf(a)'
  /\ users' = users => AccountMap' = AccountMap
  /\ call' = call => AskMap' = AskMap
  /\ \A q \in Request :
       AskMap[q] = IF call[q] = None THEN None
                   ELSE [kind |-> call[q].kind, address |-> Email(q), secret |-> call[q].password]
<1>1. \A a \in Address : AccountMap[a] = AccountOf(a) /\ AccountMap'[a] = AccountOf(a)'
  BY DEF AccountMap, AccountOf, Address
<1>2. users' = users => AccountMap' = AccountMap
  BY DEF AccountMap, Named
<1>3. call' = call => AskMap' = AskMap
  BY DEF AskMap, Email
<1>4. \A q \in Request :
       AskMap[q] = IF call[q] = None THEN None
                   ELSE [kind |-> call[q].kind, address |-> Email(q), secret |-> call[q].password]
  BY DEF AskMap
<1> QED
  BY <1>1, <1>2, <1>3, <1>4

\* A request that has been received is asked.
LEMMA Asked ==
  ASSUME RequestsInv, NEW q \in Request, at[q] # "idle"
  PROVE  /\ AskMap[q] # None
         /\ AskMap[q].kind = call[q].kind /\ AskMap[q].address = Email(q)
         /\ AskMap[q].secret = call[q].password
<1>1. AskMap[q] = [kind |-> call[q].kind, address |-> Email(q), secret |-> call[q].password]
  BY EmailIsAddress, Maps
<1>2. AskMap[q] \in Registered!Ask
  BY <1>1, EmailIsAddress DEF Registered!Ask, Kind, Address
<1> QED
  BY <1>1, <1>2, RegistryNoneAssumption

\* A step that leaves the table, the calls and what is decided.
LEMMA Undecided ==
  ASSUME UNCHANGED <<users, call, outcome>>
  PROVE  UNCHANGED Registered!registryVars
BY Maps DEF Registered!registryVars, AccountMap, AskMap

\* A call that is declined, by the limiter, the validation or a failure.
LEMMA Declined ==
  ASSUME RegistryInv, NEW q \in Request, NEW step,
         NEW decision \in {"rate_limited", "validation_error", "error"},
         at[q] # "idle", outcome[q] = "none", UNCHANGED <<users, call>>,
         Decide(q, step, decision)
  PROVE  Registered!RegistryNext
<1>1. AskMap[q] # None
  BY Asked DEF RegistryInv
<1>2. outcome' = [outcome EXCEPT ![q] = decision]
  BY DEF Decide
<1>3. Registered!Decline(q)
  BY <1>1, <1>2, Maps DEF Registered!Decline, Registered!Decide, AskMap, AccountMap
<1> QED
  BY <1>3 DEF Registered!RegistryNext

\* Each action keeps the invariant and is one step of the registry, or none.
Refines == RegistryInv' /\ [Registered!RegistryNext]_(Registered!registryVars)

LEMMA StutterRefines ==
  ASSUME RegistryInv, UNCHANGED <<users, call, outcome>>, RequestsInv'
  PROVE  Refines
<1>1. UsersInv'
  BY DEF RegistryInv, UsersInv
<1> QED
  BY <1>1, Undecided DEF Refines, RegistryInv

LEMMA DeclineRefines ==
  ASSUME RegistryInv, NEW q \in Request, NEW decision \in {"rate_limited", "validation_error", "error"},
         at[q] \notin {"idle", "reset_ip", "reset_email", "reply"},
         UNCHANGED <<users, call>>, Decide(q, "reply", decision)
  PROVE  Refines
<1>1. at[q] # "idle" /\ outcome[q] = "none"
  BY DEF RegistryInv, RequestsInv, Handled, Step
<1>2. Handled("reply", call[q], decision)
  BY <1>1 DEF RegistryInv, RequestsInv, Handled, Step
<1>3. RequestsInv'
  BY <1>2, DecideHandled DEF RegistryInv
<1>4. UsersInv'
  BY DEF RegistryInv, UsersInv
<1> QED
  BY <1>1, <1>3, <1>4, Declined DEF Refines, RegistryInv

LEMMA LimiterRefines ==
  ASSUME RegistryInv, NEW q \in Request,
         Receive(q) \/ LimitIp(q) \/ LimitEmail(q) \/ ResetIp(q) \/ ResetEmail(q) \/ Reply(q)
  PROVE  Refines
<1>0. RequestsInv /\ UsersInv
  BY DEF RegistryInv
<1>1. CASE Receive(q)
  <2>1. PICK c \in Call : call' = [call EXCEPT ![q] = c]
    BY <1>1 DEF Receive
  <2>2. /\ at[q] = "idle" /\ GoTo(q, "limit_ip") /\ users' = users /\ outcome' = outcome
    BY <1>1 DEF Receive, accountVars
  <2>3. call[q] = None /\ outcome[q] = "none"
    BY <1>0, <2>2 DEF RequestsInv, Handled
  <2>4. Handled("limit_ip", c, "none")
    BY AuthAssumption DEF Handled, Step
  <2>5. outcome' = [outcome EXCEPT ![q] = "none"]
    BY <1>0, <2>2, <2>3 DEF RequestsInv
  <2>6. RequestsInv'
    BY <1>0, <2>1, <2>2, <2>4, <2>5, MoveHandled DEF GoTo
  <2>7. UsersInv'
    BY <1>0, <2>2 DEF UsersInv
  <2> DEFINE asked == [kind |-> c.kind, address |-> Normal(c.spelling), secret |-> c.password]
  <2>8. asked \in Registered!Ask
    BY DEF Call, Kind, Registered!Ask
  <2>9. c # None
    BY AuthAssumption
  <2>10. \A r \in Request : call'[r] = IF r = q THEN c ELSE call[r]
    BY <1>0, <2>1 DEF RequestsInv
  <2>11. AskMap' = [AskMap EXCEPT ![q] = asked]
    BY <2>9, <2>10 DEF AskMap, Email
  <2>12. AskMap[q] = None
    BY <2>3, Maps
  <2>13. Registered!Put(q)
    BY <2>2, <2>8, <2>11, <2>12, Maps DEF Registered!Put, AskMap, AccountMap
  <2>14. Registered!RegistryNext
    BY <2>13 DEF Registered!RegistryNext
  <2> QED
    BY <2>6, <2>7, <2>14 DEF Refines, RegistryInv
<1>2. CASE LimitIp(q)
  <2>1. at[q] = "limit_ip" /\ GoTo(q, "limit_email") /\ UNCHANGED <<users, call, outcome>>
    BY <1>2 DEF LimitIp, accountVars
  <2>2. Handled("limit_email", call[q], outcome[q])
    BY <1>0, <2>1 DEF RequestsInv, Handled, Step
  <2> QED
    BY <1>0, <2>1, <2>2, GoToHandled, StutterRefines
<1>3. CASE LimitEmail(q)
  <2>1. at[q] = "limit_email" /\ UNCHANGED <<users, call>>
    BY <1>3 DEF LimitEmail, accountVars
  <2>2. CASE GoTo(q, "service") /\ UNCHANGED outcome
    <3>1. Handled("service", call[q], outcome[q])
      BY <1>0, <2>1 DEF RequestsInv, Handled, Step
    <3> QED
      BY <1>0, <2>1, <2>2, <3>1, GoToHandled, StutterRefines
  <2>3. CASE Decide(q, "reply", "rate_limited")
    BY <2>1, <2>3, DeclineRefines
  <2> QED
    BY <1>3, <2>2, <2>3 DEF LimitEmail
<1>4. CASE ResetIp(q) \/ ResetEmail(q)
  <2>1. /\ at[q] \in {"reset_ip", "reset_email"} /\ UNCHANGED <<users, call, outcome>>
        /\ GoTo(q, "reset_email") \/ GoTo(q, "reply")
    BY <1>4 DEF ResetIp, ResetEmail, accountVars
  <2>2. Handled("reset_email", call[q], outcome[q]) /\ Handled("reply", call[q], outcome[q])
    BY <1>0, <2>1 DEF RequestsInv, Handled, Step
  <2> QED
    BY <1>0, <2>1, <2>2, GoToHandled, StutterRefines
<1>5. CASE Reply(q)
  <2>1. /\ at[q] = "reply" /\ GoTo(q, "idle") /\ users' = users
        /\ call' = [call EXCEPT ![q] = None] /\ outcome' = [outcome EXCEPT ![q] = "none"]
    BY <1>5 DEF Reply, accountVars
  <2>2. Handled("idle", None, "none")
    BY DEF Handled, Step
  <2>3. RequestsInv'
    BY <1>0, <2>1, <2>2, MoveHandled DEF GoTo
  <2>4. UsersInv'
    BY <1>0, <2>1 DEF UsersInv
  <2>5. outcome[q] # "none"
    BY <1>0, <2>1 DEF RequestsInv, Handled
  <2>6. \A r \in Request : call'[r] = IF r = q THEN None ELSE call[r]
    BY <1>0, <2>1 DEF RequestsInv
  <2>7. AskMap' = [AskMap EXCEPT ![q] = None]
    BY <2>6 DEF AskMap, Email
  <2>8. Registered!Reply(q)
    BY <2>1, <2>5, <2>7, Maps DEF Registered!Reply, AskMap, AccountMap
  <2>9. Registered!RegistryNext
    BY <2>8 DEF Registered!RegistryNext
  <2> QED
    BY <2>3, <2>4, <2>9 DEF Refines, RegistryInv
<1> QED
  BY <1>1, <1>2, <1>3, <1>4, <1>5

LEMMA RegisterRefines ==
  ASSUME RegistryInv, NEW q \in Request, RegisterLookup(q) \/ RegisterInsert(q)
  PROVE  Refines
<1>0. RequestsInv /\ UsersInv
  BY DEF RegistryInv
<1>1. PICK e \in Address : e = Email(q)
  BY <1>0, EmailIsAddress DEF RegisterLookup, RegisterInsert
<1>2. /\ at[q] \in {"service", "insert"} /\ call' = call
      /\ call[q].kind = "register"
  BY <1>0 DEF RegisterLookup, RegisterInsert, RequestsInv, Handled
<1>3. /\ outcome[q] = "none" /\ AskMap[q] # None /\ AskMap[q].kind = "register"
      /\ AskMap[q].address = e /\ AskMap[q].secret = call[q].password
      /\ call[q].password \in Password
  BY <1>0, <1>1, <1>2, Asked, EmailIsAddress DEF RequestsInv, Handled
<1>4. ASSUME Named(e) # {}, users' = users, Decide(q, "reply", "email_exists")
      PROVE  Refines
  <2>1. Handled("reply", call[q], "email_exists")
    BY <1>0, <1>2 DEF RequestsInv, Handled, Step
  <2>2. RequestsInv' /\ UsersInv'
    BY <1>0, <1>2, <1>4, <2>1, DecideHandled DEF UsersInv
  <2>3. AccountMap[e] # None
    BY <1>0, <1>4, AccountIs, Maps, RegistryNoneAssumption
  <2>4. outcome' = [outcome EXCEPT ![q] = "email_exists"]
    BY <1>4 DEF Decide
  <2>5. Registered!Occupied(q)
    BY <1>2, <1>3, <1>4, <2>3, <2>4, Maps
    DEF Registered!Occupied, Registered!Waiting, Registered!Decide, AskMap, AccountMap
  <2>6. Registered!RegistryNext
    BY <2>5 DEF Registered!RegistryNext
  <2> QED
    BY <2>2, <2>6 DEF Refines, RegistryInv
<1>5. CASE RegisterLookup(q)
  <2>1. CASE Named(e) = {}
    <3>1. GoTo(q, "insert") /\ UNCHANGED <<users, call, outcome>>
      BY <1>1, <1>5, <2>1 DEF RegisterLookup, accountVars
    <3>2. Handled("insert", call[q], outcome[q])
      BY <1>0, <1>2, <1>3 DEF RequestsInv, Handled, Step
    <3> QED
      BY <1>0, <3>1, <3>2, GoToHandled, StutterRefines
  <2>2. CASE Named(e) # {}
    BY <1>1, <1>4, <1>5, <2>2 DEF RegisterLookup, accountVars
  <2> QED
    BY <2>1, <2>2
<1>6. CASE RegisterInsert(q)
  <2>1. CASE Named(e) = {}
    <3> DEFINE p == call[q].password
    <3>1. /\ users' = Append(users, [email |-> e, password |-> p])
          /\ Decide(q, "reset_ip", "created") \/ Decide(q, "reply", "error")
      BY <1>1, <1>6, <2>1 DEF RegisterInsert, EmailFree, CreateUser
    <3>2. /\ UsersInv'
          /\ \A a : a # e => AccountOf(a)' = AccountOf(a)
          /\ AccountOf(e)' = p
      BY <1>0, <1>3, <2>1, <3>1, Created
    <3>3. Handled("reset_ip", call[q], "created") /\ Handled("reply", call[q], "error")
      BY <1>0, <1>2 DEF RequestsInv, Handled, Step
    <3>4. RequestsInv'
      BY <1>0, <1>2, <3>1, <3>3, DecideHandled
    <3>5. AccountMap[e] = None
      BY <1>0, <2>1, AccountIs, Maps
    <3>6. \A a \in Address : AccountMap'[a] = IF a = e THEN p ELSE AccountMap[a]
      BY <3>2, Maps
    <3>7. AccountMap' = [AccountMap EXCEPT ![e] = p]
      BY <3>6 DEF AccountMap, Address
    <3>8. \/ outcome' = [outcome EXCEPT ![q] = "created"]
          \/ outcome' = [outcome EXCEPT ![q] = "error"]
      BY <3>1 DEF Decide
    <3>9. Registered!Open(q)
      BY <1>2, <1>3, <3>5, <3>7, <3>8, Maps
      DEF Registered!Open, Registered!Waiting, Registered!Decide, AskMap, AccountMap
    <3>10. Registered!RegistryNext
      BY <3>9 DEF Registered!RegistryNext
    <3> QED
      BY <3>2, <3>4, <3>10 DEF Refines, RegistryInv
  <2>2. CASE Named(e) # {}
    BY <1>1, <1>4, <1>6, <2>2 DEF RegisterInsert, EmailFree, accountVars
  <2> QED
    BY <2>1, <2>2
<1> QED
  BY <1>5, <1>6

LEMMA LoginRefines ==
  ASSUME RegistryInv, IssueInv, NEW q \in Request, LoginLookup(q) \/ LoginIssue(q)
  PROVE  Refines
<1>0. RequestsInv /\ UsersInv
  BY DEF RegistryInv
<1>1. CASE LoginLookup(q)
  <2>1. PICK e \in Address : e = Email(q)
    BY <1>0, <1>1, EmailIsAddress DEF LoginLookup
  <2>2. /\ at[q] = "service" /\ call' = call /\ users' = users /\ call[q].kind = "login"
    BY <1>1 DEF LoginLookup, accountVars
  <2>3. /\ outcome[q] = "none" /\ AskMap[q] # None /\ AskMap[q].kind = "login"
        /\ AskMap[q].address = e /\ AskMap[q].secret = call[q].password
        /\ call[q].password \in Password
    BY <1>0, <2>1, <2>2, Asked, EmailIsAddress DEF RequestsInv, Handled
  <2>4. UsersInv'
    BY <1>0, <2>2 DEF UsersInv
  <2>5. CASE \E id \in Named(e) : users[id].password = call[q].password
    <3>1. GoTo(q, "issue") /\ UNCHANGED <<users, call, outcome>>
      BY <1>1, <2>1, <2>2, <2>5 DEF LoginLookup
    <3>2. Handled("issue", call[q], outcome[q])
      BY <1>0, <2>2 DEF RequestsInv, Handled, Step
    <3> QED
      BY <1>0, <3>1, <3>2, GoToHandled, StutterRefines
  <2>6. CASE ~\E id \in Named(e) : users[id].password = call[q].password
    <3>1. Decide(q, "reply", "invalid_credentials")
      BY <1>1, <2>1, <2>6 DEF LoginLookup
    <3>2. Handled("reply", call[q], "invalid_credentials")
      BY <1>0, <2>2 DEF RequestsInv, Handled, Step
    <3>3. RequestsInv'
      BY <1>0, <2>2, <3>1, <3>2, DecideHandled
    <3>4. AccountMap[e] # call[q].password
      <4>1. CASE Named(e) = {}
        BY <1>0, <2>3, <4>1, AccountIs, Maps, RegistryNoneAssumption
      <4>2. CASE Named(e) # {}
        <5>1. PICK id \in Named(e) : TRUE
          BY <4>2
        <5> QED
          BY <1>0, <2>6, <5>1, AccountIs, Maps
      <4> QED
        BY <4>1, <4>2
    <3>5. outcome' = [outcome EXCEPT ![q] = "invalid_credentials"]
      BY <3>1 DEF Decide
    <3>6. Registered!Deny(q)
      BY <2>2, <2>3, <3>4, <3>5, Maps
      DEF Registered!Deny, Registered!Waiting, Registered!Decide, AskMap, AccountMap
    <3>7. Registered!RegistryNext
      BY <3>6 DEF Registered!RegistryNext
    <3> QED
      BY <2>4, <3>3, <3>7 DEF Refines, RegistryInv
  <2> QED
    BY <2>5, <2>6
<1>2. CASE LoginIssue(q)
  <2>1. at[q] = "issue" /\ Decide(q, "reset_ip", "token") /\ UNCHANGED <<users, call>>
    BY <1>2 DEF LoginIssue, Generate
  <2>2. PICK e \in Address : e = Email(q)
    BY <1>0, <2>1, EmailIsAddress
  <2>3. /\ outcome[q] = "none" /\ AskMap[q] # None /\ AskMap[q].kind = "login"
        /\ AskMap[q].address = e /\ AskMap[q].secret = call[q].password
        /\ call[q].password \in Password
    BY <1>0, <2>1, <2>2, Asked, EmailIsAddress DEF RequestsInv, Handled
  <2>4. Handled("reset_ip", call[q], "token")
    BY <1>0, <2>1 DEF RequestsInv, Handled, Step
  <2>5. RequestsInv' /\ UsersInv'
    BY <1>0, <2>1, <2>4, DecideHandled DEF UsersInv
  <2>6. AccountMap[e] = call[q].password
    BY <1>0, <2>1, <2>2, AccountIs, Maps DEF IssueInv
  <2>7. outcome' = [outcome EXCEPT ![q] = "token"]
    BY <2>1 DEF Decide
  <2>8. Registered!Admit(q)
    BY <2>1, <2>3, <2>6, <2>7, Maps
    DEF Registered!Admit, Registered!Waiting, Registered!Decide, AskMap, AccountMap
  <2>9. Registered!RegistryNext
    BY <2>8 DEF Registered!RegistryNext
  <2> QED
    BY <2>5, <2>9 DEF Refines, RegistryInv
<1> QED
  BY <1>1, <1>2

LEMMA StepRefines ==
  ASSUME RegistryInv, IssueInv, [Next]_vars
  PROVE  Refines
<1>0. RequestsInv /\ UsersInv
  BY DEF RegistryInv
<1>1. ASSUME NEW q \in Request, Refuse(q) \/ Fail(q)
      PROVE  Refines
  BY <1>1, DeclineRefines DEF Refuse, Fail, accountVars
<1>2. CASE Restart
  <2>1. /\ at' = [q \in Request |-> "idle"] /\ call' = [q \in Request |-> None]
        /\ outcome' = [q \in Request |-> "none"] /\ users' = users
    BY <1>2 DEF Restart, accountVars
  <2>2. Handled("idle", None, "none")
    BY DEF Handled, Step
  <2>3. RequestsInv' /\ UsersInv'
    BY <1>0, <2>1, <2>2 DEF RequestsInv, UsersInv
  <2>4. AskMap' = [q \in Request |-> None]
    BY <2>1 DEF AskMap
  <2>5. Registered!Interrupt
    BY <2>1, <2>4, Maps DEF Registered!Interrupt, AskMap, AccountMap
  <2>6. Registered!RegistryNext
    BY <2>5 DEF Registered!RegistryNext
  <2> QED
    BY <2>3, <2>6 DEF Refines, RegistryInv
<1>3. CASE PassTime \/ UNCHANGED vars
  <2>1. UNCHANGED <<users, call, outcome, at>>
    BY <1>3 DEF PassTime, vars, accountVars, requestVars
  <2>2. RequestsInv'
    BY <1>0, <2>1 DEF RequestsInv, Handled
  <2> QED
    BY <2>1, <2>2, StutterRefines
<1> QED
  BY <1>1, <1>2, <1>3, LimiterRefines, RegisterRefines, LoginRefines DEF Next

LEMMA InitRefines == Init => RegistryInv /\ Registered!RegistryInit
<1> SUFFICES ASSUME Init PROVE RegistryInv /\ Registered!RegistryInit
  OBVIOUS
<1>1. users = << >> /\ Len(users) = 0 /\ users \in Seq(UserRow)
  BY DEF Init, AccountsInit
<1>2. UsersInv
  BY <1>1 DEF UsersInv
<1>3. Handled("idle", None, "none")
  BY DEF Handled, Step
<1>4. RequestsInv
  BY <1>3 DEF Init, Idle, RequestsInv
<1>5. \A a : Named(a) = {}
  BY <1>1 DEF Named
<1>6. AccountMap = [a \in Address |-> None] /\ AskMap = [q \in Request |-> None]
  BY <1>5 DEF Init, Idle, AccountMap, AskMap, Address
<1>7. Registered!RegistryInit
  BY <1>6 DEF Registered!RegistryInit, Init, Idle, AccountMap, AskMap, Address
<1> QED
  BY <1>2, <1>4, <1>7 DEF RegistryInv

\* Accounts only come, so a password that fitted still fits when the token is made.
LEMMA StepKeepsIssue ==
  ASSUME RegistryInv, IssueInv, [Next]_vars
  PROVE  IssueInv'
<1>0. RequestsInv /\ UsersInv /\ DOMAIN at = Request /\ DOMAIN call = Request
  BY DEF RegistryInv, RequestsInv
<1>1. ASSUME users' = users,
             \A q \in Request : at'[q] = "issue" => at[q] = "issue" /\ call'[q] = call[q]
      PROVE  IssueInv'
  BY <1>1 DEF IssueInv, Named, Email
<1>2. ASSUME NEW q \in Request, NEW step, step # "issue", GoTo(q, step), UNCHANGED call
      PROVE  \A r \in Request : at'[r] = "issue" => at[r] = "issue" /\ call'[r] = call[r]
  BY <1>0, <1>2 DEF GoTo
<1>3. ASSUME NEW q \in Request, LoginLookup(q)
      PROVE  IssueInv'
  <2>1. UNCHANGED <<users, call>>
    BY <1>3 DEF LoginLookup, accountVars
  <2>2. CASE \E id \in Named(Email(q)) : users[id].password = call[q].password
    <3>1. GoTo(q, "issue")
      BY <1>3, <2>2 DEF LoginLookup
    <3>2. \A r \in Request : r # q => at'[r] = at[r]
      BY <1>0, <3>1 DEF GoTo
    <3> QED
      BY <2>1, <2>2, <3>2 DEF IssueInv, Named, Email
  <2>3. CASE ~\E id \in Named(Email(q)) : users[id].password = call[q].password
    BY <1>1, <1>2, <1>3, <2>1, <2>3 DEF LoginLookup, Decide
  <2> QED
    BY <2>2, <2>3
<1>4. ASSUME NEW q \in Request, RegisterInsert(q)
      PROVE  IssueInv'
  <2>1. /\ \E step \in {"reset_ip", "reply"} : GoTo(q, step)
        /\ UNCHANGED call
        /\ users' = users \/ users' = Append(users, [email |-> Email(q), password |-> call[q].password])
    BY <1>4 DEF RegisterInsert, Decide, CreateUser, accountVars
  <2>2. \A r \in Request : at'[r] = "issue" => at[r] = "issue" /\ call'[r] = call[r]
    BY <1>2, <2>1
  <2>3. \A id \in 1..Len(users) : id \in 1..Len(users') /\ users'[id] = users[id]
    BY <1>0, <2>1 DEF UsersInv
  <2>4. ASSUME NEW r \in Request, at'[r] = "issue"
        PROVE  \E id \in Named(Email(r))' : users'[id].password = call'[r].password
    <3>1. PICK id \in Named(Email(r)) : users[id].password = call[r].password
      BY <2>2, <2>4 DEF IssueInv
    <3>2. id \in 1..Len(users) /\ users[id].email = Email(r)
      BY <3>1 DEF Named
    <3>3. Email(r)' = Email(r)
      BY <2>2, <2>4 DEF Email
    <3>4. id \in Named(Email(r))'
      BY <2>3, <3>2, <3>3 DEF Named
    <3> QED
      BY <2>2, <2>3, <2>4, <3>1, <3>2, <3>4
  <2> QED
    BY <2>4 DEF IssueInv
<1>5. ASSUME NEW q \in Request,
             \/ LimitIp(q) \/ LimitEmail(q) \/ Refuse(q) \/ RegisterLookup(q)
             \/ LoginIssue(q) \/ Fail(q) \/ ResetIp(q) \/ ResetEmail(q)
      PROVE  IssueInv'
  <2>1. /\ UNCHANGED <<users, call>>
        /\ \E step \in Step \ {"issue"} : GoTo(q, step)
    BY <1>5 DEF LimitIp, LimitEmail, Refuse, RegisterLookup, LoginIssue, Generate, Fail,
                ResetIp, ResetEmail, Decide, accountVars, Step
  <2> QED
    BY <1>1, <1>2, <2>1
<1>6. ASSUME NEW q \in Request, Receive(q) \/ Reply(q)
      PROVE  IssueInv'
  <2>1. /\ users' = users
        /\ GoTo(q, "limit_ip") \/ GoTo(q, "idle")
        /\ \E body : call' = [call EXCEPT ![q] = body]
    BY <1>6 DEF Receive, Reply, accountVars
  <2>2. \A r \in Request : at'[r] = "issue" => at[r] = "issue" /\ call'[r] = call[r]
    BY <1>0, <2>1 DEF GoTo
  <2> QED
    BY <1>1, <2>1, <2>2
<1>7. CASE Restart \/ PassTime \/ UNCHANGED vars
  BY <1>1, <1>7 DEF Restart, PassTime, vars, accountVars, requestVars
<1> QED
  BY <1>3, <1>4, <1>5, <1>6, <1>7 DEF Next

LEMMA RegistryInvariant == Spec => [](RegistryInv /\ IssueInv)
<1>1. RegistryInv /\ IssueInv /\ [Next]_vars => RegistryInv' /\ IssueInv'
  BY StepRefines, StepKeepsIssue DEF Refines
<1>2. Init => IssueInv
  BY DEF Init, Idle, IssueInv
<1> QED
  BY <1>1, <1>2, InitRefines, PTL DEF Spec

\* Registration and login implement Registry: for any number of requests, however
\* lookups, INSERTs, failures and restarts interleave and whatever the limiter
\* answers, an account is opened in one step at a free address, never changes, and
\* each answer was true of the accounts at one moment of its call.
THEOREM SpecImplementsRegistry == Spec => ImplementsRegistry
<1>1. RegistryInv /\ IssueInv /\ [Next]_vars
        => [Registered!RegistryNext]_(Registered!registryVars)
  BY StepRefines DEF Refines
<1>2. Init => Registered!RegistryInit
  BY InitRefines
<1> QED
  BY <1>1, <1>2, RegistryInvariant, PTL DEF Spec, ImplementsRegistry, Registered!RegistrySpec

-----------------------------------------------------------------------------
(* Tokens                                                                  *)

\* What TokensHonest needs of the two dates of a token, beside its account.
TokenInv ==
  /\ now \in Nat
  /\ \A token \in tokens :
       /\ Named(token.asked) = {token.user}
       /\ token.exp \in Int /\ token.told \in Nat
       /\ token.exp <= token.told /\ token.told < token.exp + Tick

\* Cutting to whole seconds takes less than a second.
LEMMA ClaimCut ==
  ASSUME NEW t \in Nat
  PROVE  /\ ExpiryClaim(t) \in Int
         /\ ExpiryClaim(t) <= t + Ttl /\ t + Ttl < ExpiryClaim(t) + Tick
<1>1. Ttl \in Nat /\ Tick \in Nat /\ Tick > 0
  BY AccountsAssumption
<1>2. t + Ttl \in Nat
  BY <1>1
<1>3. \A n, k \in Nat : k > 0 =>
        /\ (n \div k) * k \in Int
        /\ (n \div k) * k <= n /\ n < ((n \div k) * k) + k
  OBVIOUS
<1> QED
  BY <1>1, <1>2, <1>3 DEF ExpiryClaim

LEMMA StepKeepsTokens ==
  ASSUME RegistryInv, TokenInv, [Next]_vars
  PROVE  TokenInv'
<1>0. RequestsInv /\ UsersInv /\ now \in Nat /\ Tick \in Nat
  BY AccountsAssumption DEF RegistryInv, TokenInv
<1>1. ASSUME UNCHANGED <<users, tokens>>, now' \in Nat
      PROVE  TokenInv'
  BY <1>1 DEF TokenInv, Named
<1>2. ASSUME NEW q \in Request, LoginIssue(q)
      PROVE  TokenInv'
  <2>1. PICK id \in Named(Email(q)) :
          /\ tokens' = tokens \cup
               { [user |-> id, exp |-> ExpiryClaim(now), told |-> now + Ttl, asked |-> Email(q)] }
          /\ users' = users /\ now' = now
    BY <1>2 DEF LoginIssue, Generate
  <2>2. Named(Email(q)) = {id}
    BY <1>0, AccountIs
  <2>3. /\ ExpiryClaim(now) \in Int /\ now + Ttl \in Nat
        /\ ExpiryClaim(now) <= now + Ttl /\ now + Ttl < ExpiryClaim(now) + Tick
    BY <1>0, ClaimCut, AccountsAssumption
  <2>4. \A a : Named(a)' = Named(a)
    BY <2>1 DEF Named
  <2> QED
    BY <1>0, <2>1, <2>2, <2>3, <2>4 DEF TokenInv
<1>3. ASSUME NEW q \in Request, RegisterInsert(q)
      PROVE  TokenInv'
  <2>1. CASE EmailFree(Email(q))
    <3>1. PICK e \in Address, p \in Password : e = Email(q) /\ p = call[q].password
      BY <1>0, <1>3, EmailIsAddress DEF RegisterInsert
    <3>2. /\ Named(e) = {} /\ users' = Append(users, [email |-> e, password |-> p])
          /\ tokens' = tokens /\ now' = now
      BY <1>3, <2>1, <3>1 DEF RegisterInsert, EmailFree, CreateUser
    <3>3. \A a : a # e => Named(a)' = Named(a)
      BY <1>0, <3>2, Created
    <3>4. \A token \in tokens : Named(token.asked)' = Named(token.asked)
      BY <3>2, <3>3 DEF TokenInv
    <3> QED
      BY <1>0, <3>2, <3>4 DEF TokenInv
  <2>2. CASE ~EmailFree(Email(q))
    BY <1>0, <1>1, <1>3, <2>2 DEF RegisterInsert, accountVars
  <2> QED
    BY <2>1, <2>2
<1>4. ASSUME NEW q \in Request,
             \/ Receive(q) \/ LimitIp(q) \/ LimitEmail(q) \/ Refuse(q) \/ RegisterLookup(q)
             \/ LoginLookup(q) \/ Fail(q) \/ ResetIp(q) \/ ResetEmail(q) \/ Reply(q)
      PROVE  TokenInv'
  <2>1. UNCHANGED <<accountVars, now>>
    BY <1>4 DEF Receive, LimitIp, LimitEmail, Refuse, RegisterLookup, LoginLookup, Fail,
                ResetIp, ResetEmail, Reply
  <2> QED
    BY <1>0, <1>1, <2>1 DEF accountVars
<1>5. CASE Restart \/ PassTime \/ UNCHANGED vars
  <2>1. UNCHANGED <<users, tokens>> /\ now' \in Nat
    BY <1>0, <1>5 DEF Restart, PassTime, vars, accountVars
  <2> QED
    BY <1>1, <2>1
<1> QED
  BY <1>2, <1>3, <1>4, <1>5 DEF Next

\* A token works for the account that was asked for, never after the reply's
\* expires_at and up to the last second before it, whatever the lifetime and
\* however many registrations go on: the unique index keeps an address one
\* account's, and the JWT's whole seconds cut less than a second off.
THEOREM SpecTokensHonest == Spec => []TokensHonest
<1>1. Init => TokenInv
  BY DEF Init, AccountsInit, TokenInv
<1>2. TokenInv => TokensHonest
  <2> SUFFICES ASSUME TokenInv, NEW token \in tokens, NEW t \in 0..(token.told + Tick)
               PROVE  /\ Named(token.asked) = {token.user}
                      /\ Accepts(token, t) => t < token.told
                      /\ t + Tick <= token.told => Accepts(token, t)
    BY DEF TokensHonest, TokenInv
  <2>1. /\ Named(token.asked) = {token.user}
        /\ token.exp \in Int /\ token.told \in Nat /\ Tick \in Nat /\ t \in Int
        /\ token.exp <= token.told /\ token.told < token.exp + Tick
    BY AccountsAssumption DEF TokenInv
  <2> QED
    BY <2>1 DEF Accepts
<1> QED
  BY <1>1, <1>2, StepKeepsTokens, RegistryInvariant, PTL DEF Spec

-----------------------------------------------------------------------------
(* Types                                                                   *)

\* What a request that is at a statement carries: the table and the tokens are
\* written from the body that was checked, statements before.
Carries(step, body, mark, flag, decision) ==
  /\ step \in Step /\ body \in Call \cup {None}
  /\ mark \in 0..LastTick /\ flag \in BOOLEAN /\ decision \in Outcome
  /\ (body = None) <=> (step = "idle")
  /\ step \in {"insert", "issue"} => Normal(body.spelling) \in WellFormed
  /\ step = "insert" => body.password \in Acceptable

RequestsTyped ==
  /\ at = [q \in Request |-> at[q]] /\ call = [q \in Request |-> call[q]]
  /\ stamp = [q \in Request |-> stamp[q]] /\ admitted = [q \in Request |-> admitted[q]]
  /\ outcome = [q \in Request |-> outcome[q]]
  /\ \A q \in Request : Carries(at[q], call[q], stamp[q], admitted[q], outcome[q])

HitsTyped ==
  /\ DOMAIN hits = Key
  /\ \A k \in Key : hits[k] \in Seq(0..LastTick) /\ Len(hits[k]) <= Limit

TablesTyped ==
  /\ users \in Seq([email : WellFormed, password : Acceptable])
  /\ tokens \subseteq [user : 1..Len(users), exp : Nat, told : Nat, asked : WellFormed]
  /\ now \in 0..LastTick

TypeInv == HitsTyped /\ TablesTyped /\ RequestsTyped

LEMMA MoveTyped ==
  ASSUME RequestsTyped, NEW q \in Request,
         NEW step, NEW body, NEW mark, NEW flag, NEW decision,
         at' = [at EXCEPT ![q] = step], call' = [call EXCEPT ![q] = body],
         stamp' = [stamp EXCEPT ![q] = mark], admitted' = [admitted EXCEPT ![q] = flag],
         outcome' = [outcome EXCEPT ![q] = decision],
         Carries(step, body, mark, flag, decision)
  PROVE  RequestsTyped'
<1>1. \A r \in Request : /\ at'[r] = IF r = q THEN step ELSE at[r]
                         /\ call'[r] = IF r = q THEN body ELSE call[r]
                         /\ stamp'[r] = IF r = q THEN mark ELSE stamp[r]
                         /\ admitted'[r] = IF r = q THEN flag ELSE admitted[r]
                         /\ outcome'[r] = IF r = q THEN decision ELSE outcome[r]
  BY DEF RequestsTyped
<1>2. \A r \in Request : Carries(at'[r], call'[r], stamp'[r], admitted'[r], outcome'[r])
  BY <1>1, Zenon DEF RequestsTyped
<1>3. /\ at' = [r \in Request |-> at'[r]] /\ call' = [r \in Request |-> call'[r]]
      /\ stamp' = [r \in Request |-> stamp'[r]] /\ admitted' = [r \in Request |-> admitted'[r]]
      /\ outcome' = [r \in Request |-> outcome'[r]]
  BY DEF RequestsTyped
<1> QED
  BY <1>2, <1>3 DEF RequestsTyped, Carries

\* Nothing but the place of a request and its answer changes.
LEMMA DecideTyped ==
  ASSUME RequestsTyped, NEW q \in Request, NEW step, NEW decision,
         Decide(q, step, decision), UNCHANGED <<call, stamp, admitted>>,
         Carries(step, call[q], stamp[q], admitted[q], decision)
  PROVE  RequestsTyped'
<1>1. /\ call' = [call EXCEPT ![q] = call[q]] /\ stamp' = [stamp EXCEPT ![q] = stamp[q]]
      /\ admitted' = [admitted EXCEPT ![q] = admitted[q]]
  BY DEF RequestsTyped
<1>2. at' = [at EXCEPT ![q] = step] /\ outcome' = [outcome EXCEPT ![q] = decision]
  BY DEF Decide, GoTo
<1> HIDE DEF RequestsTyped
<1> QED
  BY <1>1, <1>2, MoveTyped

LEMMA GoToTyped ==
  ASSUME RequestsTyped, NEW q \in Request, NEW step, GoTo(q, step),
         UNCHANGED <<call, stamp, admitted, outcome>>,
         Carries(step, call[q], stamp[q], admitted[q], outcome[q])
  PROVE  RequestsTyped'
<1>1. outcome' = [outcome EXCEPT ![q] = outcome[q]]
  BY DEF RequestsTyped
<1> QED
  BY <1>1, DecideTyped DEF Decide

LEMMA KeysAre ==
  ASSUME NEW body \in Call
  PROVE  IpKey(body) \in Key /\ EmailKey(body) \in Key
BY DEF Call, IpKey, EmailKey, Key, Kind

\* What the limiter keeps of one key.
LEMMA EventsTyped ==
  ASSUME NEW events \in Seq(0..LastTick), Len(events) <= Limit, NEW t \in 0..LastTick
  PROVE  /\ Limiter!EventsAfter(events, t) \in Seq(0..LastTick)
         /\ Len(Limiter!EventsAfter(events, t)) <= Limit
         /\ Limiter!Granted(events, t) \in BOOLEAN
<1>1. /\ t \in Int /\ Window \in Int /\ t - Window \in Int /\ Limit \in Nat
      /\ 0..LastTick \in SUBSET Int
  BY AuthAssumption
<1>2. Limiter!Kept(events, t) = Later(events, t - Window)
  BY DEF Limiter!Kept, Later
<1> DEFINE kept == Limiter!Kept(events, t)
<1>3. kept \in Seq(0..LastTick) /\ Len(kept) <= Len(events)
  BY <1>1, <1>2, LaterKeeps
<1>4. Limiter!Granted(events, t) <=> Len(kept) < Limit
  BY DEF Limiter!Granted
<1>5. Limiter!EventsAfter(events, t) = IF Limiter!Granted(events, t) THEN Append(kept, t) ELSE kept
  BY DEF Limiter!EventsAfter
<1>6. Limiter!Granted(events, t) \in BOOLEAN
  BY DEF Limiter!Granted
<1> HIDE DEF kept
<1>7. CASE Limiter!Granted(events, t)
  <2>1. Len(kept) < Limit
    BY <1>4, <1>7
  <2>2. Limiter!EventsAfter(events, t) = Append(kept, t)
    BY <1>5, <1>7
  <2> QED
    BY <1>1, <1>3, <1>6, <2>1, <2>2
<1>8. CASE ~Limiter!Granted(events, t)
  <2>1. Limiter!EventsAfter(events, t) = kept
    BY <1>5, <1>8
  <2>2. Len(events) \in Nat /\ Len(kept) \in Nat
    BY <1>3
  <2> QED
    BY <1>1, <1>3, <1>6, <2>1, <2>2
<1> QED
  BY <1>7, <1>8

LEMMA LimiterTyped ==
  ASSUME HitsTyped, NEW k \in Key, NEW t \in 0..LastTick
  PROVE  /\ Limiter!Allow(k, t) => HitsTyped'
         /\ Limiter!Reset(k) => HitsTyped'
         /\ Limiter!ForgetHits => HitsTyped'
         /\ Limiter!Granted(hits[k], t) \in BOOLEAN
<1>1. /\ Limiter!EventsAfter(hits[k], t) \in Seq(0..LastTick)
      /\ Len(Limiter!EventsAfter(hits[k], t)) <= Limit
      /\ Limiter!Granted(hits[k], t) \in BOOLEAN
  BY EventsTyped DEF HitsTyped
<1>2. Limiter!Allow(k, t) => HitsTyped'
  BY <1>1 DEF HitsTyped, Limiter!Allow
<1>3. << >> \in Seq(0..LastTick) /\ Len(<< >>) <= Limit
  BY AuthAssumption
<1>4. Limiter!Reset(k) => HitsTyped'
  BY <1>3 DEF HitsTyped, Limiter!Reset
<1>5. Limiter!ForgetHits => HitsTyped'
  BY <1>3 DEF HitsTyped, Limiter!ForgetHits
<1> QED
  BY <1>1, <1>2, <1>4, <1>5

LEMMA RegisterTyped ==
  ASSUME TypeInv, NEW q \in Request, RegisterInsert(q), EmailFree(Email(q))
  PROVE  TablesTyped'
<1> DEFINE row == [email |-> Email(q), password |-> call[q].password]
           Row == [email : WellFormed, password : Acceptable]
<1>1. at[q] = "insert" /\ users' = Append(users, row) /\ UNCHANGED <<tokens, now>>
  BY DEF RegisterInsert, CreateUser
<1>2. Email(q) \in WellFormed /\ call[q].password \in Acceptable
  BY <1>1 DEF TypeInv, RequestsTyped, Carries, Email
<1>3. row \in Row /\ users \in Seq(Row) /\ Len(users) \in Nat
  BY <1>2 DEF TypeInv, TablesTyped
<1>4. users' \in Seq(Row) /\ Len(users') = Len(users) + 1
  BY <1>1, <1>3
<1>5. 1..Len(users) \subseteq 1..Len(users')
  BY <1>3, <1>4
<1>6. tokens' \subseteq [user : 1..Len(users'), exp : Nat, told : Nat, asked : WellFormed]
  <2>1. \A token \in tokens : token \in [user : 1..Len(users), exp : Nat, told : Nat, asked : WellFormed]
    BY DEF TypeInv, TablesTyped
  <2>2. tokens' = tokens
    BY <1>1
  <2> QED
    BY <1>5, <2>1, <2>2
<1> QED
  BY <1>1, <1>4, <1>6 DEF TypeInv, TablesTyped

LEMMA IssueTyped ==
  ASSUME TypeInv, NEW q \in Request, LoginIssue(q)
  PROVE  TablesTyped'
<1>1. PICK id \in Named(Email(q)) :
        /\ tokens' = tokens \cup
             { [user |-> id, exp |-> ExpiryClaim(now), told |-> now + Ttl, asked |-> Email(q)] }
        /\ users' = users
  BY DEF LoginIssue, Generate
<1>2. at[q] = "issue" /\ now' = now
  BY DEF LoginIssue
<1>3. Email(q) \in WellFormed
  BY <1>2 DEF TypeInv, RequestsTyped, Carries, Email
<1>4. id \in 1..Len(users)
  BY DEF Named
<1>5. now \in Nat /\ Ttl \in Nat /\ Tick \in Nat /\ Tick > 0 /\ now + Ttl \in Nat
  BY AccountsAssumption, AuthAssumption DEF TypeInv, TablesTyped
<1>6. \A n, k \in Nat : k > 0 => n \div k \in Nat /\ (n \div k) * k \in Nat
  <2>1. \A n, k \in Nat : k > 0 => n \div k \in Nat
    OBVIOUS
  <2>2. \A n, k \in Nat : n * k \in Nat
    OBVIOUS
  <2> QED
    BY <2>1, <2>2
<1>7. ExpiryClaim(now) \in Nat
  BY <1>5, <1>6 DEF ExpiryClaim
<1> QED
  BY <1>1, <1>2, <1>3, <1>4, <1>5, <1>7 DEF TypeInv, TablesTyped

LEMMA StepKeepsTypes ==
  ASSUME TypeInv, [Next]_vars
  PROVE  TypeInv'
<1>0. HitsTyped /\ TablesTyped /\ RequestsTyped
  BY DEF TypeInv
<1>1. UNCHANGED <<users, tokens, now>> => TablesTyped'
  BY <1>0 DEF TablesTyped
<1>2. UNCHANGED hits => HitsTyped'
  BY <1>0 DEF HitsTyped
<1>3. ASSUME NEW q \in Request
      PROVE  /\ Carries(at[q], call[q], stamp[q], admitted[q], outcome[q])
             /\ at[q] # "idle" => call[q] \in Call /\ IpKey(call[q]) \in Key /\ EmailKey(call[q]) \in Key
             /\ stamp[q] \in 0..LastTick
  BY <1>0, KeysAre DEF RequestsTyped, Carries
<1>4. ASSUME NEW q \in Request, Receive(q)
      PROVE  TypeInv'
  <2>1. PICK c \in Call : call' = [call EXCEPT ![q] = c]
    BY <1>4 DEF Receive
  <2>2. /\ at' = [at EXCEPT ![q] = "limit_ip"] /\ stamp' = [stamp EXCEPT ![q] = now]
        /\ UNCHANGED <<users, tokens, now, hits, admitted, outcome>>
    BY <1>4 DEF Receive, GoTo, accountVars
  <2>3. admitted' = [admitted EXCEPT ![q] = admitted[q]] /\ outcome' = [outcome EXCEPT ![q] = outcome[q]]
    BY <1>0, <2>2 DEF RequestsTyped
  <2>4. Carries("limit_ip", c, now, admitted[q], outcome[q])
    BY <1>0, <1>3, AuthAssumption DEF Carries, Step, TablesTyped
  <2>5. RequestsTyped'
    <3>1. PICK mark, flag, decision : mark = now /\ flag = admitted[q] /\ decision = outcome[q]
      OBVIOUS
    <3>2. /\ Carries("limit_ip", c, mark, flag, decision)
          /\ stamp' = [stamp EXCEPT ![q] = mark] /\ admitted' = [admitted EXCEPT ![q] = flag]
          /\ outcome' = [outcome EXCEPT ![q] = decision]
          /\ at' = [at EXCEPT ![q] = "limit_ip"]
      BY <2>2, <2>3, <2>4, <3>1
    <3> QED
      BY <1>0, <2>1, <3>2, MoveTyped
  <2> QED
    BY <1>1, <1>2, <2>2, <2>5 DEF TypeInv
<1>5. ASSUME NEW q \in Request, LimitIp(q)
      PROVE  TypeInv'
  <2> DEFINE answer == Limiter!Granted(hits[IpKey(call[q])], stamp[q])
  <2>1. /\ at[q] = "limit_ip" /\ at' = [at EXCEPT ![q] = "limit_email"]
        /\ Limiter!Allow(IpKey(call[q]), stamp[q])
        /\ admitted' = [admitted EXCEPT ![q] = answer]
        /\ UNCHANGED <<users, tokens, now, call, stamp, outcome>>
    BY <1>5 DEF LimitIp, GoTo, accountVars
  <2>2. HitsTyped' /\ answer \in BOOLEAN
    BY <1>0, <1>3, <2>1, LimiterTyped
  <2> HIDE DEF answer
  <2>3. /\ call' = [call EXCEPT ![q] = call[q]] /\ stamp' = [stamp EXCEPT ![q] = stamp[q]]
        /\ outcome' = [outcome EXCEPT ![q] = outcome[q]]
    BY <1>0, <2>1 DEF RequestsTyped
  <2>4. Carries("limit_email", call[q], stamp[q], answer, outcome[q])
    BY <1>3, <2>1, <2>2 DEF Carries, Step
  <2>5. RequestsTyped'
    <3>1. PICK body, mark, flag, decision :
            body = call[q] /\ mark = stamp[q] /\ flag = answer /\ decision = outcome[q]
      OBVIOUS
    <3>2. /\ Carries("limit_email", body, mark, flag, decision)
          /\ at' = [at EXCEPT ![q] = "limit_email"] /\ call' = [call EXCEPT ![q] = body]
          /\ stamp' = [stamp EXCEPT ![q] = mark] /\ admitted' = [admitted EXCEPT ![q] = flag]
          /\ outcome' = [outcome EXCEPT ![q] = decision]
      BY <2>1, <2>3, <2>4, <3>1
    <3> QED
      BY <1>0, <3>2, MoveTyped
  <2> QED
    BY <1>1, <2>1, <2>2, <2>5 DEF TypeInv
<1>6. ASSUME NEW q \in Request, LimitEmail(q)
      PROVE  TypeInv'
  <2>1. /\ at[q] = "limit_email" /\ Limiter!Allow(EmailKey(call[q]), stamp[q])
        /\ UNCHANGED <<users, tokens, now, call, stamp, admitted>>
        /\ (GoTo(q, "service") /\ UNCHANGED outcome) \/ Decide(q, "reply", "rate_limited")
    BY <1>6 DEF LimitEmail, accountVars
  <2>2. HitsTyped'
    BY <1>0, <1>3, <2>1, LimiterTyped
  <2>3. /\ Carries("service", call[q], stamp[q], admitted[q], outcome[q])
        /\ Carries("reply", call[q], stamp[q], admitted[q], "rate_limited")
    BY <1>3, <2>1 DEF Carries, Step, Outcome
  <2>4. RequestsTyped'
    BY <1>0, <2>1, <2>3, GoToTyped, DecideTyped
  <2> QED
    BY <1>1, <2>1, <2>2, <2>4 DEF TypeInv
<1>7. ASSUME NEW q \in Request, Refuse(q) \/ RegisterLookup(q) \/ LoginLookup(q) \/ Fail(q)
      PROVE  TypeInv'
  <2>1. /\ at[q] \in {"service", "insert", "issue"} /\ UNCHANGED <<hits, users, tokens, now, call, stamp, admitted>>
        /\ \/ GoTo(q, "insert") /\ UNCHANGED outcome /\ Valid("register", Email(q), call[q].password)
           \/ GoTo(q, "issue") /\ UNCHANGED outcome /\ Valid("login", Email(q), call[q].password)
           \/ \E decision \in Outcome : Decide(q, "reply", decision)
    BY <1>7 DEF Refuse, RegisterLookup, LoginLookup, Fail, accountVars, Outcome
  <2>2. CASE GoTo(q, "insert") /\ UNCHANGED outcome /\ Valid("register", Email(q), call[q].password)
    <3>1. Carries("insert", call[q], stamp[q], admitted[q], outcome[q])
      BY <1>3, <2>1, <2>2 DEF Carries, Step, Valid, Email
    <3> QED
      BY <1>0, <1>1, <1>2, <2>1, <2>2, <3>1, GoToTyped DEF TypeInv
  <2>3. CASE GoTo(q, "issue") /\ UNCHANGED outcome /\ Valid("login", Email(q), call[q].password)
    <3>1. Carries("issue", call[q], stamp[q], admitted[q], outcome[q])
      BY <1>3, <2>1, <2>3 DEF Carries, Step, Valid, Email
    <3> QED
      BY <1>0, <1>1, <1>2, <2>1, <2>3, <3>1, GoToTyped DEF TypeInv
  <2>4. ASSUME NEW decision \in Outcome, Decide(q, "reply", decision)
        PROVE  TypeInv'
    <3>1. Carries("reply", call[q], stamp[q], admitted[q], decision)
      BY <1>3, <2>1 DEF Carries, Step
    <3> QED
      BY <1>0, <1>1, <1>2, <2>1, <2>4, <3>1, DecideTyped DEF TypeInv
  <2> QED
    BY <2>1, <2>2, <2>3, <2>4
<1>8. ASSUME NEW q \in Request, RegisterInsert(q)
      PROVE  TypeInv'
  <2>1. TablesTyped'
    BY <1>1, <1>8, RegisterTyped DEF RegisterInsert, accountVars
  <2>2. /\ at[q] = "insert" /\ UNCHANGED <<hits, now, call, stamp, admitted>>
        /\ \/ Decide(q, "reset_ip", "created") \/ Decide(q, "reply", "error")
           \/ Decide(q, "reply", "email_exists")
    BY <1>8 DEF RegisterInsert
  <2>3. /\ Carries("reset_ip", call[q], stamp[q], admitted[q], "created")
        /\ Carries("reply", call[q], stamp[q], admitted[q], "error")
        /\ Carries("reply", call[q], stamp[q], admitted[q], "email_exists")
    BY <1>3, <2>2 DEF Carries, Step, Outcome
  <2>4. RequestsTyped'
    BY <1>0, <2>2, <2>3, DecideTyped
  <2> QED
    BY <1>2, <2>1, <2>2, <2>4 DEF TypeInv
<1>9. ASSUME NEW q \in Request, LoginIssue(q)
      PROVE  TypeInv'
  <2>1. TablesTyped'
    BY <1>9, IssueTyped
  <2>2. /\ at[q] = "issue" /\ Decide(q, "reset_ip", "token")
        /\ UNCHANGED <<hits, call, stamp, admitted>>
    BY <1>9 DEF LoginIssue
  <2>3. Carries("reset_ip", call[q], stamp[q], admitted[q], "token")
    BY <1>3, <2>2 DEF Carries, Step, Outcome
  <2> QED
    BY <1>0, <1>2, <2>1, <2>2, <2>3, DecideTyped DEF TypeInv
<1>10. ASSUME NEW q \in Request, ResetIp(q) \/ ResetEmail(q)
       PROVE  TypeInv'
  <2>1. /\ at[q] \in {"reset_ip", "reset_email"}
        /\ UNCHANGED <<users, tokens, now, call, stamp, admitted, outcome>>
        /\ GoTo(q, "reset_email") \/ GoTo(q, "reply")
        /\ Limiter!Reset(IpKey(call[q])) \/ Limiter!Reset(EmailKey(call[q]))
    BY <1>10 DEF ResetIp, ResetEmail, accountVars
  <2>2. HitsTyped'
    BY <1>0, <1>3, <2>1, LimiterTyped
  <2>3. /\ Carries("reset_email", call[q], stamp[q], admitted[q], outcome[q])
        /\ Carries("reply", call[q], stamp[q], admitted[q], outcome[q])
    BY <1>3, <2>1 DEF Carries, Step
  <2> QED
    BY <1>0, <1>1, <2>1, <2>2, <2>3, GoToTyped DEF TypeInv
<1>11. Carries("idle", None, 0, FALSE, "none")
  BY AuthAssumption DEF Carries, Step, Outcome
<1>12. ASSUME NEW q \in Request, Reply(q)
       PROVE  TypeInv'
  <2>1. /\ at' = [at EXCEPT ![q] = "idle"] /\ call' = [call EXCEPT ![q] = None]
        /\ stamp' = [stamp EXCEPT ![q] = 0] /\ admitted' = [admitted EXCEPT ![q] = FALSE]
        /\ outcome' = [outcome EXCEPT ![q] = "none"] /\ UNCHANGED <<users, tokens, now, hits>>
    BY <1>12 DEF Reply, GoTo, accountVars
  <2>2. RequestsTyped'
    BY <1>0, <1>11, <2>1, MoveTyped
  <2> QED
    BY <1>1, <1>2, <2>1, <2>2 DEF TypeInv
<1>13. CASE Restart
  <2>1. /\ at' = [q \in Request |-> "idle"] /\ call' = [q \in Request |-> None]
        /\ stamp' = [q \in Request |-> 0] /\ admitted' = [q \in Request |-> FALSE]
        /\ outcome' = [q \in Request |-> "none"] /\ UNCHANGED <<users, tokens, now>>
        /\ Limiter!ForgetHits
    BY <1>13 DEF Restart, accountVars
  <2>2. RequestsTyped'
    BY <1>11, <2>1 DEF RequestsTyped, Carries
  <2>3. HitsTyped'
    BY <2>1, AuthAssumption DEF HitsTyped, Limiter!ForgetHits
  <2> QED
    BY <1>1, <2>1, <2>2, <2>3 DEF TypeInv
<1>14. CASE PassTime
  <2>1. now < LastTick /\ now' = now + 1 /\ UNCHANGED <<users, tokens, hits, at, call, stamp, admitted, outcome>>
    BY <1>14 DEF PassTime, accountVars, requestVars
  <2>2. TablesTyped' /\ RequestsTyped'
    BY <1>0, <2>1, AuthAssumption DEF TablesTyped, RequestsTyped
  <2> QED
    BY <1>2, <2>1, <2>2 DEF TypeInv
<1>15. CASE UNCHANGED vars
  <2>1. UNCHANGED <<users, tokens, now, hits, at, call, stamp, admitted, outcome>>
    BY <1>15 DEF vars, accountVars, requestVars
  <2>2. RequestsTyped'
    BY <1>0, <2>1 DEF RequestsTyped
  <2> QED
    BY <1>1, <1>2, <2>1, <2>2 DEF TypeInv
<1> QED
  BY <1>4, <1>5, <1>6, <1>7, <1>8, <1>9, <1>10, <1>12, <1>13, <1>14, <1>15 DEF Next

\* Type correctness, for any number of requests, addresses, keys and calls: no key
\* keeps more stamps than the limit, what is inserted has passed the address check
\* and the password policy, and each token names a row of the table.
THEOREM SpecTypeOK == Spec => []TypeOK
<1>1. Init => TypeInv
  <2> SUFFICES ASSUME Init PROVE TypeInv
    OBVIOUS
  <2>1. HitsTyped
    BY AuthAssumption DEF Init, Limiter!LimitInit, HitsTyped
  <2>2. TablesTyped
    BY AuthAssumption DEF Init, AccountsInit, TablesTyped
  <2>3. Carries("idle", None, 0, FALSE, "none")
    BY AuthAssumption DEF Carries, Step, Outcome
  <2>4. RequestsTyped
    BY <2>3 DEF Init, Idle, RequestsTyped, Carries
  <2> QED
    BY <2>1, <2>2, <2>4 DEF TypeInv
<1>2. TypeInv => TypeOK
  <2> SUFFICES ASSUME TypeInv PROVE TypeOK
    OBVIOUS
  <2>1. Limiter!LimitTypeOK
    BY DEF TypeInv, HitsTyped, Limiter!LimitTypeOK
  <2>2. \A q \in Request : Carries(at[q], call[q], stamp[q], admitted[q], outcome[q])
    BY DEF TypeInv, RequestsTyped
  <2>3. /\ at \in [Request -> Step] /\ call \in [Request -> Call \cup {None}]
        /\ stamp \in [Request -> 0..LastTick] /\ admitted \in [Request -> BOOLEAN]
        /\ outcome \in [Request -> Outcome]
        /\ \A q \in Request : (call[q] = None) <=> (at[q] = "idle")
    BY <2>2 DEF TypeInv, RequestsTyped, Carries
  <2> QED
    BY <2>1, <2>3 DEF TypeInv, TablesTyped, TypeOK
<1> QED
  BY <1>1, <1>2, StepKeepsTypes, PTL DEF Spec
=============================================================================
