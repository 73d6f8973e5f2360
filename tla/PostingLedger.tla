---------------------------- MODULE PostingLedger ---------------------------
(***************************************************************************)
(* What the recurring engine promises, with no workers, transactions,      *)
(* locks or requests in sight: a rule waits for one run; when that day has *)
(* come the run is posted and the rule waits for the next one, in a single *)
(* step; and whoever edits a rule leaves a well-formed rule behind.        *)
(***************************************************************************)
EXTENDS RecurringStore

ledgerVars == <<rules, generated, posted, today>>

\* The rule after the run it waits for.
Advanced(row) ==
  LET next == NextRunDate[row.frequency][row.next]
  IN  IF row.end = NoDate \/ next <= row.end
        THEN [row EXCEPT !.next = next]
        ELSE [row EXCEPT !.next = NoDate, !.active = FALSE]

\* The run is in the ledger from this step on.  It is written once: if a rule
\* was moved back and its run is there already, the rule just moves on (the row
\* may have been there and been deleted while the worker was at it).
PostRun(r) ==
  LET d == rules[r].next IN
  /\ Due(r, today)
  /\ rules' = [rules EXCEPT ![r] = Advanced(rules[r])]
  /\ \/ /\ generated[r][d] = 0
        /\ generated' = [generated EXCEPT ![r][d] = 1]
        /\ posted' = [posted EXCEPT ![r] = @ \cup {d}]
     \/ /\ d \in posted[r]
        /\ UNCHANGED <<generated, posted>>
  /\ UNCHANGED today

\* Someone chooses the whole row of r, and chooses a well-formed one.
ChooseRow(r) ==
  /\ rules' = [rules EXCEPT ![r] = rules'[r]]
  /\ rules'[r] \in RuleRow
  /\ WellFormed(rules'[r])

EditRule(r) ==
  /\ Exists(r)
  /\ ChooseRow(r)
  /\ UNCHANGED <<generated, posted, today>>

AddRule(r) ==
  /\ ~Exists(r)
  /\ posted[r] = {}
  /\ ChooseRow(r)
  /\ UNCHANGED <<generated, posted, today>>

RemoveRule(r) ==
  /\ Exists(r)
  /\ rules' = [rules EXCEPT ![r] = NoRow]
  /\ DetachGenerated(r)
  /\ UNCHANGED <<posted, today>>

ErasePosting(r, d) ==
  /\ generated[r][d] = 1
  /\ generated' = [generated EXCEPT ![r][d] = 0]
  /\ UNCHANGED <<rules, posted, today>>

LedgerTick ==
  /\ today' > today
  /\ UNCHANGED <<rules, generated, posted>>

LedgerInit ==
  /\ \A r \in Rule : Exists(r) => rules[r] \in RuleRow /\ WellFormed(rules[r])
  /\ generated = [r \in Rule |-> [d \in Day |-> 0]]
  /\ posted = [r \in Rule |-> {}]

LedgerNext ==
  \/ \E r \in Rule : PostRun(r) \/ EditRule(r) \/ AddRule(r) \/ RemoveRule(r)
  \/ \E r \in Rule, d \in Day : ErasePosting(r, d)
  \/ LedgerTick

LedgerSpec == LedgerInit /\ [][LedgerNext]_ledgerVars
=============================================================================
