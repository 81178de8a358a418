--------------------------- MODULE MCChatTopicChain ---------------------------
(* Instances of ChatTopicChain for TLC. *)
EXTENDS ChatTopicChain, TLC

CONSTANTS m1, m2, nora, iris

MCMessages == {m1, m2}
MCOneMessage == {m1}
MCMembers == {nora, iris}

\* The code treats the members alike, and the messages.
MCSymmetry == Permutations(Members) \cup Permutations(Messages)
=============================================================================
