----------------------------- MODULE MCAccessStore -----------------------------
(* Instances of AccessStore for TLC.                                       *)
EXTENDS AccessStore, TLC

CONSTANTS nora, iris, room, run, c1, c2

MCMembers == {nora, iris}
MCOneMember == {nora}
MCRooms == {room}
MCRuns == {run}
MCNoRun == {}
MCOneCaller == {c1}
MCCallers == {c1, c2}
MCApprovalIds == 1 .. 3
MCTwoApprovals == 1 .. 2
MCGrantIds == 1 .. 2
MCOneGrant == 1 .. 1

MCSymmetry == Permutations(MCCallers)
================================================================================
