------------------------------- MODULE Amounts ------------------------------
(***************************************************************************)
(* An amount on its way from a request body to a row: money.ParseDecimal,  *)
(* then validateAmountBounds.  Integers have Width bits, like the int64 of *)
(* the code; nothing but the size of the example hangs on their number.    *)
(***************************************************************************)
EXTENDS Integers, Sequences

CONSTANTS
  Width,          \* bits of an integer: 64
  MaxAmountCents, \* the largest amount supported, here in proportion to Width
  Whole,          \* what may be written before the point: values, signed or not
  Garbage,        \* something ParseInt refuses
  Minus, Plus     \* the signs ParseInt takes

Digit == 0..9
Fraction == UNION { [1..n -> Digit \cup {Minus, Plus}] : n \in 0..2 }

\* An optional minus, digits, and at most two characters after the point.  A
\* second point or a third character is an error like any other.
Written == [minus : BOOLEAN, whole : Whole \cup {Garbage}, fraction : Fraction \cup {Garbage}]

\* What a decimal number that is written so denotes, in cents; a sign anywhere but
\* in front denotes nothing.
WellFormed(w) ==
  /\ w.whole # Garbage /\ w.whole >= 0
  /\ w.fraction # Garbage /\ \A i \in DOMAIN w.fraction : w.fraction[i] \in Digit

Hundredths(f) ==
  CASE f = << >> -> 0
    [] Len(f) = 1 -> 10 * f[1]
    [] OTHER -> (10 * f[1]) + f[2]

Denoted(w) == (IF w.minus THEN -1 ELSE 1) * ((100 * w.whole) + Hundredths(w.fraction))

-----------------------------------------------------------------------------

\* Two's complement: what is left of n in Width bits.
Wrap(n) == ((n + 2^(Width - 1)) % 2^Width) - 2^(Width - 1)

\* strconv.ParseInt of the fraction, padded to two characters: it takes a sign too.
Padded(f) == IF Len(f) = 1 THEN Append(f, 0) ELSE f

FractionParses(f) == f = << >> \/ Padded(f)[2] \in Digit

FractionValue(f) ==
  LET p == Padded(f) IN
  CASE f = << >> -> 0
    [] p # << >> /\ p[1] = Minus -> -p[2]
    [] p # << >> /\ p[1] = Plus -> p[2]
    [] OTHER -> (10 * p[1]) + p[2]

Parses(w) == w.whole # Garbage /\ w.fraction # Garbage /\ FractionParses(w.fraction)

ParseDecimal(w) ==
  Wrap((IF w.minus THEN -1 ELSE 1) * Wrap(Wrap(w.whole * 100) + FractionValue(w.fraction)))

\* validateAmountBounds.
WithinBounds(cents) == 0 < cents /\ cents <= MaxAmountCents

VARIABLES
  written,        \* the amount in the request
  stage,          \* how far it has come
  cents           \* what it was parsed to

vars == <<written, stage, cents>>

Init == written \in Written /\ stage = "received" /\ cents = 0

\* parseAmount, in the handler.
ParseAmount ==
  /\ stage = "received"
  /\ IF Parses(written) THEN stage' = "parsed" /\ cents' = ParseDecimal(written)
                        ELSE stage' = "refused" /\ UNCHANGED cents
  /\ UNCHANGED written

\* The service's validation, before any statement.
ValidateAmount ==
  /\ stage = "parsed"
  /\ stage' = IF WithinBounds(cents) THEN "accepted" ELSE "refused"
  /\ UNCHANGED <<written, cents>>

Next == ParseAmount \/ ValidateAmount

Spec == Init /\ [][Next]_vars

-----------------------------------------------------------------------------

\* service/validation.go:54: no amount above the maximum is accepted, whatever is
\* written in the request.
MaximumRespected ==
  stage = "accepted" /\ WellFormed(written) => Denoted(written) <= MaxAmountCents
=============================================================================
