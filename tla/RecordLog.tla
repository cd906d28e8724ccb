----------------------------- MODULE RecordLog -----------------------------
(***************************************************************************)
(* What a TimeRanger topic promises: a log of records.  A record, once it  *)
(* is in the log, keeps its place and its content; the only change is that *)
(* it may be erased.  An acknowledged record is in the log.                *)
(***************************************************************************)
EXTENDS Naturals, Sequences

CONSTANT Msgs       \* the contents of records

VARIABLES
    log,            \* rowid -> [msg, erased]
    acked           \* contents whose append was reported as done

vars == <<log, acked>>

Entry == [msg : Msgs, erased : BOOLEAN]

TypeOK == log \in Seq(Entry) /\ acked \subseteq Msgs

Init == log = <<>> /\ acked = {}

\* A new record at the end of the log, acknowledged or not (the writer may die
\* before it reports).
AppendRecord(m) ==
    /\ log' = Append(log, [msg |-> m, erased |-> FALSE])
    /\ acked' \in {acked, acked \cup {m}}

\* The content of a record goes, its place stays.
Erase(r) ==
    /\ log' = [log EXCEPT ![r].erased = TRUE]
    /\ UNCHANGED acked

Next ==
    \/ \E m \in Msgs : AppendRecord(m)
    \/ \E r \in DOMAIN log : Erase(r)

Spec == Init /\ [][Next]_vars

=============================================================================
