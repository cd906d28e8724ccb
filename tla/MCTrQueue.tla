----------------------------- MODULE MCTrQueue -----------------------------
(* Instances of TrQueue for TLC: a few messages, each stored once, which    *)
(* bounds the topic, the backup and the queue.                              *)
EXTENDS TrQueue, TLC

CONSTANTS m1, m2, m3, m4

MCMsgs3   == {m1, m2, m3}
MCMsgs4   == {m1, m2, m3, m4}
MCKeyless == {m3}

Symmetry4 == Permutations(MCMsgs4)

=============================================================================
