------------------------- MODULE MCRecurringBacklog -------------------------
(* RecurringBacklog on small instances: the schedule function and symmetry. *)
EXTENDS RecurringBacklog, TLC

\* schedule.NextRunDate on day numbers, with a week of two days: both steps fit
\* in a short horizon (Calendar has the real dates).
MCFrequency == {"daily", "weekly"}
MCNextRunDate ==
  [f \in MCFrequency |-> [d \in Day |-> IF f = "daily" THEN d + 1 ELSE d + 2]]

MCSymmetry == Permutations(Worker) \cup Permutations(Category)
=============================================================================
