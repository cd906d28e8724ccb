-------------------------- MODULE PersistentQueue --------------------------
(***************************************************************************)
(* What a persistent queue promises to the process that uses it, with no   *)
(* word on files, rows or first_rowid.  A message is pending from the      *)
(* moment it is put until it is acknowledged, whatever happens to the      *)
(* process in between; a process that recovers the queue sees exactly the  *)
(* pending messages.  TrQueue implements it.                               *)
(***************************************************************************)

CONSTANT Msgs       \* the messages

VARIABLES
    pend,           \* messages that a recovery must deliver
    view,           \* messages the running process iterates over
    mode            \* "closed", "recovered" (view was filled with the pending
                    \* messages) or "browsing" (with whatever it asked for)

vars == <<pend, view, mode>>

TypeOK ==
    /\ pend \subseteq Msgs
    /\ view \subseteq Msgs
    /\ mode \in {"closed", "recovered", "browsing"}

Init ==
    /\ pend = {}
    /\ view = {}
    /\ mode = "closed"

\* A message is put: from now on it is pending.
Put(m) ==
    /\ mode # "closed"
    /\ m \notin pend \cup view
    /\ pend' = pend \cup {m}
    /\ view' = view \cup {m}
    /\ UNCHANGED mode

\* A message is done with: it is neither pending nor iterated over.
Ack(m) ==
    /\ mode # "closed"
    /\ m \in view
    /\ pend' = pend \ {m}
    /\ view' = view \ {m}
    /\ UNCHANGED mode

\* The pending mark of a message is changed, the iteration keeps it.
Mark(m, set) ==
    /\ mode # "closed"
    /\ m \in view
    /\ pend' = IF set THEN pend \cup {m} ELSE pend \ {m}
    /\ UNCHANGED <<view, mode>>

\* The process closes the queue or dies: only the pending set survives.
Stop ==
    /\ view' = {}
    /\ mode' = "closed"
    /\ UNCHANGED pend

\* The next process finds every pending message and no other.
Recover ==
    /\ mode = "closed"
    /\ view' = pend
    /\ mode' = "recovered"
    /\ UNCHANGED pend

\* A process may also look at stored messages, pending or not.
Browse ==
    /\ mode = "closed"
    /\ view' \in SUBSET Msgs
    /\ mode' = "browsing"
    /\ UNCHANGED pend

Next ==
    \/ \E m \in Msgs : Put(m) \/ Ack(m) \/ Mark(m, TRUE) \/ Mark(m, FALSE)
    \/ Stop
    \/ Recover
    \/ Browse

Spec == Init /\ [][Next]_vars

=============================================================================
