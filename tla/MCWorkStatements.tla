-------------------------- MODULE MCWorkStatements --------------------------
(* Instances of WorkStatements for TLC. *)
EXTENDS WorkStatements

CONSTANTS t1, controlPlane, operator

MCTasks == {t1}
MCRunIds == 1 .. 3
MCControlPlane == {controlPlane}
MCCallers == {controlPlane, operator}

MCTriggers ==
  {[kind |-> "immediate", maxRuns |-> None],
   [kind |-> "scheduled_once", maxRuns |-> None],
   [kind |-> "recurring", maxRuns |-> 2]}
MCRecurring ==
  {[kind |-> "recurring", maxRuns |-> 1], [kind |-> "recurring", maxRuns |-> 2]}
MCImmediate == {[kind |-> "immediate", maxRuns |-> None]}
=============================================================================
