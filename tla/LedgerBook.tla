----------------------------- MODULE LedgerBook -----------------------------
(***************************************************************************)
(* What the API promises about everything that refers to a category, with  *)
(* no requests, statements or tables in sight.  An entry (a transaction, a *)
(* budget or a rule) belongs to the owner of its category and was entered  *)
(* under a type that category has had; a category outlives its entries;    *)
(* a fixed entry (one the worker generated) changes no more; and an entry  *)
(* that is erased never comes back.                                        *)
(***************************************************************************)
CONSTANTS Owner, Heading, Kind, Entry, Nothing

VARIABLES
  owner,          \* [Heading -> Owner, or Nothing while it is not in the book]
  kinds,          \* [Heading -> the kinds it has had]
  entries,        \* [Entry -> row, or Nothing]
  spent           \* entries that have been in the book

bookVars == <<owner, kinds, entries, spent>>

EntryRow == [owner : Owner, heading : Heading, kind : Kind, fixed : BOOLEAN]

\* An entry may be written: its heading is in the book, with its owner, and has
\* been of its kind.
Enterable(row) ==
  /\ row \in EntryRow
  /\ owner[row.heading] = row.owner
  /\ row.kind \in kinds[row.heading]

BookInit ==
  /\ owner = [h \in Heading |-> Nothing]
  /\ kinds = [h \in Heading |-> {}]
  /\ entries = [e \in Entry |-> Nothing]
  /\ spent = {}

OpenHeading(h) ==
  /\ owner[h] = Nothing /\ kinds[h] = {}
  /\ \E o \in Owner : owner' = [owner EXCEPT ![h] = o]
  /\ \E k \in Kind : kinds' = [kinds EXCEPT ![h] = {k}]
  /\ UNCHANGED <<entries, spent>>

\* The heading changes its kind, whatever is entered under it.
RetypeHeading(h) ==
  /\ owner[h] # Nothing
  /\ \E k \in Kind : kinds' = [kinds EXCEPT ![h] = @ \cup {k}]
  /\ UNCHANGED <<owner, entries, spent>>

CloseHeading(h) ==
  /\ owner[h] # Nothing
  /\ \A e \in Entry : entries[e] # Nothing => entries[e].heading # h
  /\ owner' = [owner EXCEPT ![h] = Nothing]
  /\ UNCHANGED <<kinds, entries, spent>>

Enter(e) ==
  /\ e \notin spent
  /\ Enterable(entries'[e])
  /\ entries' = [entries EXCEPT ![e] = entries'[e]]
  /\ spent' = spent \cup {e}
  /\ UNCHANGED <<owner, kinds>>

Amend(e) ==
  /\ entries[e] # Nothing /\ ~entries[e].fixed
  /\ Enterable(entries'[e]) /\ ~entries'[e].fixed
  /\ entries'[e].owner = entries[e].owner
  /\ entries' = [entries EXCEPT ![e] = entries'[e]]
  /\ UNCHANGED <<owner, kinds, spent>>

Erase(e) ==
  /\ entries[e] # Nothing
  /\ entries' = [entries EXCEPT ![e] = Nothing]
  /\ UNCHANGED <<owner, kinds, spent>>

BookNext ==
  \/ \E h \in Heading : OpenHeading(h) \/ RetypeHeading(h) \/ CloseHeading(h)
  \/ \E e \in Entry : Enter(e) \/ Amend(e) \/ Erase(e)

BookSpec == BookInit /\ [][BookNext]_bookVars
=============================================================================
