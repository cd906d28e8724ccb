------------------------------ MODULE MCLists ------------------------------
(***************************************************************************)
(* Both list libraries: a behaviour is of DlList (two lists and four       *)
(* items) or of RcList (two iters, three resources and four instances).    *)
(***************************************************************************)
EXTENDS DlList, RcList, TLC

CONSTANTS l1, l2, i1, i2, i3, i4, a, b, c

VARIABLE library    \* the one that is used

MCInit == Init /\ RcInit /\ library \in {"dl_list", "rc_list"}

MCNext ==
    /\ UNCHANGED library
    /\ \/ library = "dl_list" /\ Next /\ UNCHANGED rcvars
       \/ library = "rc_list" /\ RcNext /\ UNCHANGED vars

MCSpec == MCInit /\ [][MCNext]_<<vars, rcvars, library>>

\* The lists, the items and the resources are alike.
Alike == Permutations({i1, i2, i3, i4}) \union Permutations({a, b, c})
=============================================================================
