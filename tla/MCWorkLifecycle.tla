--------------------------- MODULE MCWorkLifecycle ---------------------------
(* Instances of WorkLifecycle for TLC. *)
EXTENDS WorkLifecycle, TLC

CONSTANTS t1, r1, r2, r3, r4

MCTasks == {t1}
MCRunIds == {r1, r2, r3, r4}

\* Immediate work, once-only work, recurring work without and with a budget.
MCTriggers ==
  {[kind |-> "immediate", maxRuns |-> None],
   [kind |-> "scheduled_once", maxRuns |-> None],
   [kind |-> "recurring", maxRuns |-> None],
   [kind |-> "recurring", maxRuns |-> 2]}

\* Only work with a budget of two runs.
MCBoundedTriggers == {[kind |-> "recurring", maxRuns |-> 2]}

RunSymmetry == Permutations(MCRunIds)
=============================================================================
