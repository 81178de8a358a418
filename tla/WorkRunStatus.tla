---------------------------- MODULE WorkRunStatus ----------------------------
(* The status of a WorkRun (src/src/work/domain.ts) and the moves           *)
(* WorkService.moveWorkRun allows, shared by the modules that move runs.    *)

TerminalRun == {"done", "failed", "canceled"}
ActiveRun == {"queued", "in_progress", "blocked"}

\* allowedRunTransitions: <<from, to>>.
RunTransitions ==
  {<<"queued", "in_progress">>, <<"queued", "canceled">>}
    \cup ({"in_progress"} \X {"blocked", "done", "failed", "canceled"})
    \cup ({"blocked"} \X {"blocked", "in_progress", "done", "failed", "canceled"})
=============================================================================
