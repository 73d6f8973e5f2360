-------------------------- MODULE MCRecurringSystem -------------------------
(* RecurringSystem on small instances: the schedule function and symmetry. *)
EXTENDS RecurringSystem, TLC

\* schedule.NextRunDate on day numbers, with a week of two days: both steps fit
\* in a short horizon (Calendar has the real dates).
MCFrequency == {"daily", "weekly"}
MCNextRunDate ==
  [f \in Frequency |-> [d \in Day |-> IF f = "daily" THEN d + 1 ELSE d + 2]]

\* Workers, clients and categories are interchangeable.
MCSymmetry ==
  Permutations(Worker) \cup Permutations(Client) \cup Permutations(Category)
=============================================================================
