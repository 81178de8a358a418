---------------------------- MODULE MCWorkDispatch ----------------------------
(* Instances of WorkDispatch for TLC. *)
EXTENDS WorkDispatch

CONSTANTS member, controlPlane, reply1, reply2, operator1, operator2

MCMembers == {member}
MCAssignee == [r \in Runs |-> member]
MCReplies == {reply1, reply2}
MCNoReplies == {}
MCNoOperator == {}
MCOperator == {operator1}
MCOperators == {operator1, operator2}
=============================================================================
