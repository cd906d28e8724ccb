---------------------------- MODULE MCTopicLists ----------------------------
(***************************************************************************)
(* Instances of TopicLists and of MatchRecord for TLC.  A behaviour is of   *)
(* the lists that are open, or is one walk: every topic of up to three     *)
(* rows, with each kind of condition.                                      *)
(***************************************************************************)
EXTENDS TopicLists, MatchRecord, TLC

CONSTANTS l1, l2, l3

VARIABLE library    \* "lists" or "walk"

MCLists == {l1, l2, l3}
MCWants == (l1 :> {"a", "b"}) @@ (l2 :> {"a", "b"}) @@ (l3 :> {"a"})

MCRows == [t : 1 .. 2, key : 0 .. 1, flags : {{}}, deleted : BOOLEAN]
MCTopics == UNION {[1 .. n -> MCRows] : n \in 0 .. 3}

Flagged == UNION {[1 .. n -> [t : {1}, key : {1}, flags : SUBSET {"a", "b"},
                              deleted : BOOLEAN]] : n \in 0 .. 2}

NoCond == [backward |-> FALSE, key |-> {0, 1}, from_rowid |-> {}, to_rowid |-> {},
           from_t |-> {}, to_t |-> {}, user_flag |-> {}, not_user_flag |-> {},
           mask_set |-> {}, mask_notset |-> {}, notkey |-> {}]

Opt(S) == {{}} \cup {{x} : x \in S}

\* A range of rowids, or of times, of all records or of those with a key.
MCConds ==
    {[NoCond EXCEPT !.backward = d, !.key = k, !.from_rowid = a, !.to_rowid = b] :
        d \in BOOLEAN, k \in {{1}, {0, 1}}, a, b \in Opt(-2 .. 4)}
    \cup {[NoCond EXCEPT !.backward = d, !.from_t = a, !.to_t = b] :
        d \in BOOLEAN, a, b \in Opt(-2 .. 3)}
    \cup {[NoCond EXCEPT !.notkey = {1}]}

\* Conditions on the user flags.
MCFlagConds ==
    {[NoCond EXCEPT !.backward = d, !.user_flag = u, !.not_user_flag = n,
                    !.mask_set = s, !.mask_notset = c] :
        d \in BOOLEAN, u, n \in Opt({{}, {"a"}}), s, c \in SUBSET {"a", "b"}}

MCWalks == (MCTopics \X MCConds) \cup (Flagged \X MCFlagConds)

NoWalk == /\ topic = <<>> /\ cond = NoCond /\ known = 0 /\ find = FALSE
          /\ cur = 0 /\ out = <<>> /\ phase = "done"

MCInit ==
    /\ Init
    /\ \/ library = "lists" /\ NoWalk
       \/ library = "walk" /\ WalkInit

MCNext ==
    /\ UNCHANGED library
    /\ \/ library = "lists" /\ Next /\ UNCHANGED wvars
       \/ library = "walk" /\ WalkNext /\ UNCHANGED vars

MCSpec == MCInit /\ [][MCNext]_<<vars, wvars, library>>

=============================================================================
