------------------------------- MODULE MCTrMsg ------------------------------
(* Every way to load a list with room for all, one or two instances.        *)
EXTENDS TrMsg, TLC

CONSTANTS x, y, a, b

MCConds == [max : 0..2, byTm : BOOLEAN, backward : BOOLEAN]

MsgSymmetry == Permutations({x, y}) \union Permutations({a, b})
=============================================================================
