---------------------------- MODULE MCTimeRanger ----------------------------
(* Instances of TimeRanger for TLC. *)
EXTENDS TimeRanger, TLC

CONSTANTS p1, p2, m1, m2, d1, d2

MCProcs == {p1, p2}
MCMsgs  == {m1, m2}
MCDays  == {d1, d2}

Symmetry == Permutations(MCProcs) \cup Permutations(MCMsgs) \cup Permutations(MCDays)

=============================================================================
