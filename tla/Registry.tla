------------------------------ MODULE Registry ------------------------------
(***************************************************************************)
(* What registration and login promise: each call is decided in one step,  *)
(* against accounts that are opened once, never change, and outlive the    *)
(* process.  Only a call answered "error" may leave its effect unsaid.     *)
(***************************************************************************)
CONSTANTS Asker, Address, Secret, None

VARIABLES
  account,        \* [Address -> its secret, or None]
  ask,            \* [Asker -> [kind, address, secret], or None]
  answer          \* [Asker -> the decision, "none" until there is one]

registryVars == <<account, ask, answer>>

Ask == [kind : {"register", "login"}, address : Address, secret : Secret]

RegistryInit ==
  /\ account = [a \in Address |-> None]
  /\ ask = [q \in Asker |-> None]
  /\ answer = [q \in Asker |-> "none"]

Put(q) ==
  /\ ask[q] = None
  /\ \E call \in Ask : ask' = [ask EXCEPT ![q] = call]
  /\ UNCHANGED <<account, answer>>

Waiting(q, kind) == ask[q] # None /\ ask[q].kind = kind /\ answer[q] = "none"

Decide(q, decision) == answer' = [answer EXCEPT ![q] = decision] /\ UNCHANGED ask

Open(q) ==
  /\ Waiting(q, "register") /\ account[ask[q].address] = None
  /\ account' = [account EXCEPT ![ask[q].address] = ask[q].secret]
  /\ Decide(q, "created") \/ Decide(q, "error")

Occupied(q) ==
  /\ Waiting(q, "register") /\ account[ask[q].address] # None
  /\ Decide(q, "email_exists")
  /\ UNCHANGED account

Admit(q) ==
  /\ Waiting(q, "login") /\ account[ask[q].address] = ask[q].secret
  /\ Decide(q, "token")
  /\ UNCHANGED account

Deny(q) ==
  /\ Waiting(q, "login") /\ account[ask[q].address] # ask[q].secret
  /\ Decide(q, "invalid_credentials")
  /\ UNCHANGED account

Decline(q) ==
  /\ ask[q] # None /\ answer[q] = "none"
  /\ \E decision \in {"rate_limited", "validation_error", "error"} : Decide(q, decision)
  /\ UNCHANGED account

Reply(q) ==
  /\ answer[q] # "none"
  /\ ask' = [ask EXCEPT ![q] = None]
  /\ answer' = [answer EXCEPT ![q] = "none"]
  /\ UNCHANGED account

\* A restart leaves every call without a reply, decided or not.
Interrupt ==
  /\ ask' = [q \in Asker |-> None]
  /\ answer' = [q \in Asker |-> "none"]
  /\ UNCHANGED account

RegistryNext ==
  \/ \E q \in Asker :
       Put(q) \/ Open(q) \/ Occupied(q) \/ Admit(q) \/ Deny(q) \/ Decline(q) \/ Reply(q)
  \/ Interrupt

RegistrySpec == RegistryInit /\ [][RegistryNext]_registryVars
=============================================================================
