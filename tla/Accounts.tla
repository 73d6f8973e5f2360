------------------------------ MODULE Accounts ------------------------------
(***************************************************************************)
(* service/auth.go over repository/user.go and pkg/auth/jwt.go: the users  *)
(* table and the tokens issued.  Hashing and signing are library code: a   *)
(* hash is its password, a token its claims.                               *)
(***************************************************************************)
EXTENDS Integers, Sequences

CONSTANTS
  Spelling,       \* addresses as clients write them
  Normal(_),      \* ToLower(TrimSpace(...)) of a spelling
  WellFormed,     \* the normal spellings validateEmailForAuth lets through
  Password,
  Acceptable,     \* the passwords validatePasswordPolicy lets through
  Ttl,            \* a token's lifetime in ticks
  Tick,           \* ticks in a second, the precision of a token's dates
  None

ASSUME AccountsAssumption ==
  /\ \A s \in Spelling : Normal(s) \in Spelling /\ Normal(Normal(s)) = Normal(s)
  /\ WellFormed \subseteq { s \in Spelling : Normal(s) = s }
  /\ Acceptable \subseteq Password
  /\ Ttl \in Nat /\ Tick \in Nat \ {0}

VARIABLES
  users,          \* the table, in the order of its ids
  tokens          \* tokens issued, with the expires_at the reply told

accountVars == <<users, tokens>>

AccountsInit == users = << >> /\ tokens = {}

\* GetByEmail: a user's id, or none.
Named(email) == { id \in 1..Len(users) : users[id].email = email }

\* Variant with a bug: the policy is applied where passwords are used, not where
\* they are chosen.
Valid_PolicyOnLogin(kind, email, password) ==
  /\ email \in WellFormed
  /\ kind = "login" => password \in Acceptable

\* validateEmailForAuth and, to register, validatePasswordPolicy.
Valid(kind, email, password) ==
  /\ email \in WellFormed
  /\ kind = "register" => password \in Acceptable

\* Variant with a bug: no unique index on users.email.
EmailFree_NoIndex(email) == TRUE

\* UNIQUE (email).
EmailFree(email) == Named(email) = {}

\* UserRepository.Create.
CreateUser(email, password) ==
  /\ users' = Append(users, [email |-> email, password |-> password])
  /\ UNCHANGED tokens

\* Variant with a bug: the claim is rounded up to a second.
ExpiryClaim_RoundedUp(t) == ((t + Ttl + Tick - 1) \div Tick) * Tick

\* jwt.NewNumericDate cuts to whole seconds.
ExpiryClaim(t) == ((t + Ttl) \div Tick) * Tick

\* TokenManager.Generate at time t.
Generate(id, email, t) ==
  /\ tokens' = tokens \cup
       { [user |-> id, exp |-> ExpiryClaim(t), told |-> t + Ttl, asked |-> email] }
  /\ UNCHANGED users

\* TokenManager.Parse, by the JWT middleware.
Accepts(token, t) == t < token.exp

-----------------------------------------------------------------------------

\* A token works for the account that was asked for, never after the reply's
\* expires_at, and up to the last second before it.
TokensHonest ==
  \A token \in tokens :
    /\ Named(token.asked) = {token.user}
    /\ \A t \in 0..(token.told + Tick) :
         /\ Accepts(token, t) => t < token.told
         /\ t + Tick <= token.told => Accepts(token, t)
=============================================================================
