---------------------------- MODULE MCTopicFiles ----------------------------
(* Instances of TopicFiles for TLC. *)
EXTENDS TopicFiles, TLC

CONSTANTS p1, p2, m1, m2

MCProcs == {p1, p2}
MCMsgs  == {m1, m2}

Symmetry == Permutations(MCProcs) \cup Permutations(MCMsgs)

=============================================================================
