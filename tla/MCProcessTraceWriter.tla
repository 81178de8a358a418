------------------------ MODULE MCProcessTraceWriter ------------------------
(* Instances of ProcessTraceWriter for TLC. *)
EXTENDS ProcessTraceWriter

CONSTANTS r1, r2

MCRuns == {r1, r2}
MCOneRun == {r1}
=============================================================================
