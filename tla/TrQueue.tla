------------------------------ MODULE TrQueue ------------------------------
(***************************************************************************)
(* The persistent queue of 31_tr_queue.c over one TimeRanger topic: the    *)
(* files that survive a crash (the index topic_idx.md, topic_var.json, the *)
(* backup directory), the queue a process holds in memory, and the calls   *)
(* of the trq_ interface, cut into steps wherever a crash in between       *)
(* leaves the disk in a state of its own.                                  *)
(*                                                                         *)
(* One row of topic_idx.md is [msg, pend]: the message it carries and its  *)
(* TRQ_MSG_PENDING bit.  Rowids are the positions of idx, from 1.  The     *)
(* record store below (content before metadata, __last_rowid__) is the     *)
(* subject of TimeRanger; here an append is one step and __last_rowid__ is *)
(* Len(idx).                                                               *)
(***************************************************************************)
EXTENDS Naturals, Sequences, SequencesExt

CONSTANTS
    Msgs,           \* the messages; one record each while they are stored
    Keyless,        \* messages that lack the string pkey of the topic
    BackupSize,     \* backup_queue_size given to trq_open, 0 for no backup
    Roles,          \* how processes open the database: "master", "reader"
    Liberties       \* what callers or the environment may do beyond the
                    \* discipline under which the queue keeps its promises:
                    \*   "crash_in_backup" die between the re-creation of the
                    \*       topic and the reset of first_rowid
                    \*   "backup_pending"  check the backup of a queue that
                    \*       still has messages, or before loading it
                    \*   "revive"          set PENDING on a row before
                    \*       first_rowid (obtained with trq_load_all)
                    \*   "load_again"      call trq_load on a queue that is
                    \*       loaded, or trq_append on one that is not
                    \*   "reader_append", "reader_backup"  call trq_append or
                    \*       trq_check_backup without being the master

AllLiberties == {"crash_in_backup", "backup_pending", "revive", "load_again",
                 "reader_append", "reader_backup"}

ASSUME TrQueueAssumption ==
    /\ Keyless \subseteq Msgs
    /\ BackupSize \in Nat
    /\ Roles \subseteq {"master", "reader"}
    /\ Liberties \subseteq AllLiberties

VARIABLES
    \* --- disk
    dir,            \* TRUE iff the directory of the topic exists
    idx,            \* rows of topic_idx.md
    var,            \* topic_var.json; NoVar also when absent or torn
    bak,            \* rows of <topic>.bak/topic_idx.md
    \* --- memory of the process that uses the queue
    role,           \* "master" or "reader"
    topic,          \* variables of the opened topic (as in topic_var.json)
    q,              \* dl_q_msg, in list order: rowid and message
    mode,           \* what filled q: "none", "pending" (trq_load), "all"
    \* --- where the running call is
    pc,
    after,          \* where to go when topic_var.json is written
    cond,           \* match_cond of the load in progress
    cursor,         \* next rowid of the load
    found           \* static first_rowid of the load callback

disk   == <<dir, idx, var, bak>>
memory == <<role, topic, q, mode>>
load   == <<cond, cursor, found>>
vars   == <<dir, idx, var, bak, role, topic, q, mode, pc, after, cond, cursor,
            found>>

NoVar  == [first |-> 0, bsize |-> 0]
NoCond == [pending |-> FALSE, to |-> 0, keys |-> {}]

Row    == [msg : Msgs, pend : BOOLEAN]
Item   == [rowid : Nat, msg : Msgs]
Var    == [first : Nat, bsize : Nat]

Steps == {"closed", "open", "loading", "ready", "saving", "bk_remove",
          "bk_rename", "bk_create", "bk_zero", "notopic"}

RowMsgs(rows) == {rows[r].msg : r \in DOMAIN rows}
QMsgs         == {q[i].msg : i \in DOMAIN q}
Pending       == {r \in DOMAIN idx : idx[r].pend}

\* A message that is about to be put: nothing knows it yet.
Fresh(m) == m \notin RowMsgs(idx) \cup RowMsgs(bak) \cup QMsgs

-----------------------------------------------------------------------------
Init ==
    /\ dir = FALSE /\ idx = <<>> /\ var = NoVar /\ bak = <<>>
    /\ role = "reader" /\ topic = NoVar /\ q = <<>> /\ mode = "none"
    /\ pc = "closed" /\ after = "closed"
    /\ cond = NoCond /\ cursor = 1 /\ found = 0

\* tranger_write_topic_var: the topic in memory takes the new variables, and
\* save_json_to_file truncates the file before it writes it.
StartWriteVar(v, next) ==
    /\ topic' = v
    /\ var' = NoVar
    /\ pc' = "saving"
    /\ after' = next

\* trq_set_first_rowid: only a master writes.
SetFirstRowid(n, next) ==
    IF role = "master"
    THEN StartWriteVar([topic EXCEPT !.first = n], next)
    ELSE pc' = next /\ UNCHANGED <<topic, var, after>>

\* The write that completes topic_var.json.
EndWriteVar ==
    /\ pc = "saving"
    /\ var' = topic
    /\ pc' = after
    /\ UNCHANGED <<dir, idx, bak, memory, after, load>>

-----------------------------------------------------------------------------
\* trq_open: a master creates the topic if there is none (tranger_create_topic)
\* and stores backup_queue_size; a reader needs an existing topic.
Open(r) ==
    /\ pc = "closed"
    /\ r = "reader" => dir
    /\ role' = r
    /\ dir' = TRUE
    /\ IF r = "master" /\ BackupSize > 0
       THEN StartWriteVar([var EXCEPT !.bsize = BackupSize], "open")
       ELSE topic' = var /\ pc' = "open" /\ UNCHANGED <<var, after>>
    /\ UNCHANGED <<idx, bak, q, mode, load>>

\* Mutant: the walk starts after the stored first_rowid.
BugLoadAfter ==
    /\ pc = "open"
    /\ cond' = [pending |-> TRUE, to |-> 0, keys |-> Msgs]
    /\ cursor' = topic.first + 1
    /\ found' = 0
    /\ pc' = "loading"
    /\ UNCHANGED <<disk, memory, after>>

\* trq_load: the walk starts at the stored first_rowid if the topic reaches it.
Load ==
    /\ pc = "open" \/ (pc = "ready" /\ "load_again" \in Liberties)
    /\ cond' = [pending |-> TRUE, to |-> 0, keys |-> Msgs]
    /\ cursor' = IF topic.first \in 1 .. Len(idx) THEN topic.first ELSE 1
    /\ found' = 0
    /\ pc' = "loading"
    /\ UNCHANGED <<disk, memory, after>>

\* trq_load_all with optional bounds (0 is no bound) and an optional key.
LoadAll(from, to, keys) ==
    /\ pc = "open"
    /\ cond' = [pending |-> FALSE, to |-> to, keys |-> keys]
    /\ cursor' = IF from = 0 THEN 1 ELSE from
    /\ pc' = "loading"
    /\ UNCHANGED <<disk, memory, after, found>>

\* tranger_match_record, as far as the conditions of the two loads go.
Matches(row) ==
    /\ row.msg \in cond.keys
    /\ cond.pending => row.pend

AtEnd == cursor > Len(idx) \/ (cond.to > 0 /\ cursor > cond.to)

\* Mutant: the new message goes to the head of the list.
BugEnqueue(rowid, m) == <<[rowid |-> rowid, msg |-> m]>> \o q

\* new_msg: a message at the tail of dl_q_msg.
Enqueue(rowid, m) == Append(q, [rowid |-> rowid, msg |-> m])

\* Mutant: the last pending rowid is remembered instead of the first.
BugFirstFound(rowid) == rowid

\* load_record_callback remembers the first rowid it is given.
FirstFound(rowid) == IF found = 0 THEN rowid ELSE found

\* One turn of the loop of tranger_open_list with load_record_callback.
LoadRecord ==
    /\ pc = "loading"
    /\ ~AtEnd
    /\ cursor' = cursor + 1
    /\ IF Matches(idx[cursor])
       THEN /\ q' = Enqueue(cursor, idx[cursor].msg)
            /\ found' = FirstFound(cursor)
       ELSE UNCHANGED <<q, found>>
    /\ UNCHANGED <<disk, role, topic, mode, pc, after, cond>>

\* The end of trq_load stores the first pending rowid, or the last rowid when
\* nothing is pending; the end of trq_load_all stores nothing.
LoadEnd ==
    /\ pc = "loading"
    /\ AtEnd
    /\ mode' = IF cond.pending THEN "pending" ELSE "all"
    /\ LET first == IF found = 0 THEN Len(idx) ELSE found
       IN  IF cond.pending /\ first > 0
           THEN SetFirstRowid(first, "ready")
           ELSE pc' = "ready" /\ UNCHANGED <<topic, var, after>>
    /\ cond' = NoCond
    /\ cursor' = 1
    /\ UNCHANGED <<dir, idx, bak, role, q, found>>

-----------------------------------------------------------------------------
\* Mutant: the message is queued with the rowid that was the last one.
BugAppendMsg(m, rowid) ==
    /\ pc = "ready"
    /\ Fresh(m)
    /\ role = "master"
    /\ rowid = Len(idx)
    /\ idx' = Append(idx, [msg |-> m, pend |-> TRUE])
    /\ q' = Enqueue(rowid, m)
    /\ UNCHANGED <<dir, var, bak, role, topic, mode, pc, after, load>>

\* trq_append.  The result of tranger_append_record is not looked at: a message
\* without the key is refused after the rowid was assigned, and a reader is
\* refused before anything was assigned to md_record (any rowid).
AppendMsg(m, rowid) ==
    /\ pc = "ready" \/ (pc = "open" /\ "load_again" \in Liberties)
    /\ Fresh(m)
    /\ \/ /\ role = "master"
          /\ rowid = Len(idx) + 1
          /\ idx' = IF m \in Keyless THEN idx
                    ELSE Append(idx, [msg |-> m, pend |-> TRUE])
       \/ /\ role = "reader"
          /\ "reader_append" \in Liberties
          /\ UNCHANGED idx
    /\ q' = Enqueue(rowid, m)
    /\ UNCHANGED <<dir, var, bak, role, topic, mode, pc, after, load>>

\* tranger_set_user_flag with TRQ_MSG_PENDING: nothing happens to a rowid that
\* the topic does not have.
Flagged(rowid, set) ==
    IF rowid \in DOMAIN idx THEN [idx EXCEPT ![rowid].pend = set] ELSE idx

\* trq_set_hard_flag(msg, TRQ_MSG_PENDING, set).  (A reader's write fails on its
\* read-only descriptor and ends the process: that is Stop.)
SetHardFlag(i, set) ==
    /\ pc = "ready"
    /\ role = "master"
    /\ set => q[i].rowid >= topic.first \/ "revive" \in Liberties
    /\ idx' = Flagged(q[i].rowid, set)
    /\ UNCHANGED <<dir, var, bak, memory, pc, after, load>>

\* Mutant: the message leaves the list but its flag stays.
BugUnload(i) ==
    /\ pc = "ready"
    /\ role = "master"
    /\ q' = RemoveAt(q, i)
    /\ UNCHANGED <<disk, role, topic, mode, pc, after, load>>

\* trq_unload_msg: the flag is reset on disk, the message leaves the list.
Unload(i) ==
    /\ pc = "ready"
    /\ role = "master"
    /\ idx' = Flagged(q[i].rowid, FALSE)
    /\ q' = RemoveAt(q, i)
    /\ UNCHANGED <<dir, var, bak, role, topic, mode, pc, after, load>>

-----------------------------------------------------------------------------
\* Mutant: the backup is made with messages in the queue.
BugCheckBackup ==
    /\ pc = "ready"
    /\ mode = "pending"
    /\ role = "master"
    /\ topic.bsize > 0
    /\ Len(idx) > topic.bsize
    /\ SetFirstRowid(Len(idx), "bk_remove")
    /\ UNCHANGED <<dir, idx, bak, role, q, mode, load>>

\* trq_check_backup when the topic has outgrown backup_queue_size.
CheckBackup ==
    /\ \/ pc = "ready" /\ mode = "pending" /\ q = <<>>
       \/ pc \in {"open", "ready"} /\ "backup_pending" \in Liberties
    /\ role = "reader" => "reader_backup" \in Liberties
    /\ topic.bsize > 0
    /\ Len(idx) > topic.bsize
    /\ SetFirstRowid(Len(idx), "bk_remove")
    /\ UNCHANGED <<dir, idx, bak, role, q, mode, load>>

\* Mutant: only an existing backup lets the move go on.
BugBackupRemove ==
    /\ pc = "bk_remove"
    /\ bak # <<>>
    /\ bak' = <<>>
    /\ pc' = "bk_rename"
    /\ UNCHANGED <<dir, idx, var, memory, after, load>>

\* tranger_backup_topic: the previous backup is deleted ...
BackupRemove ==
    /\ pc = "bk_remove"
    /\ bak' = <<>>
    /\ pc' = "bk_rename"
    /\ UNCHANGED <<dir, idx, var, memory, after, load>>

\* ... the directory of the topic becomes the backup; a reader cannot create
\* the topic again and is left without one ...
BackupRename ==
    /\ pc = "bk_rename"
    /\ bak' = idx
    /\ idx' = <<>>
    /\ var' = NoVar
    /\ dir' = FALSE
    /\ pc' = IF role = "master" THEN "bk_create" ELSE "notopic"
    /\ UNCHANGED <<memory, after, load>>

\* ... tranger_create_topic makes an empty topic with the variables of the old
\* one, first_rowid included ...
BackupCreate ==
    /\ pc = "bk_create"
    /\ dir' = TRUE
    /\ StartWriteVar(topic, "bk_zero")
    /\ UNCHANGED <<idx, bak, role, q, mode, load>>

\* ... and trq_check_backup resets first_rowid.
BackupZero ==
    /\ pc = "bk_zero"
    /\ SetFirstRowid(0, IF mode = "none" THEN "open" ELSE "ready")
    /\ UNCHANGED <<dir, idx, bak, role, q, mode, load>>

-----------------------------------------------------------------------------
\* trq_close and tranger_shutdown, or the death of the process at any step.
Stop ==
    /\ pc # "closed"
    /\ pc = "bk_zero" => "crash_in_backup" \in Liberties
    /\ role' = "reader" /\ topic' = NoVar /\ q' = <<>> /\ mode' = "none"
    /\ pc' = "closed" /\ after' = "closed"
    /\ cond' = NoCond /\ cursor' = 1 /\ found' = 0
    /\ UNCHANGED disk

\* What the process does on its own once a call has begun.
Internal ==
    \/ EndWriteVar
    \/ LoadRecord
    \/ LoadEnd
    \/ BackupRemove
    \/ BackupRename
    \/ BackupCreate
    \/ BackupZero

Next ==
    \/ \E r \in Roles : Open(r)
    \/ Load
    \/ \E from, to \in 0 .. Len(idx) + 1, keys \in SUBSET RowMsgs(idx) :
           LoadAll(from, to, keys)
    \/ \E m \in Msgs, rowid \in 0 .. Len(idx) + 1 : AppendMsg(m, rowid)
    \/ \E i \in DOMAIN q : Unload(i) \/ SetHardFlag(i, TRUE) \/ SetHardFlag(i, FALSE)
    \/ CheckBackup
    \/ Stop
    \/ Internal

Spec == Init /\ [][Next]_vars

\* A call runs straight to its end: the library has no yield points.
FairSpec == Spec /\ WF_vars(Internal)

-----------------------------------------------------------------------------
\* Types.
TypeOK ==
    /\ dir \in BOOLEAN /\ idx \in Seq(Row) /\ var \in Var /\ bak \in Seq(Row)
    /\ role \in {"master", "reader"} /\ topic \in Var /\ q \in Seq(Item)
    /\ mode \in {"none", "pending", "all"}
    /\ pc \in Steps /\ after \in Steps
    /\ cond \in [pending : BOOLEAN, to : Nat, keys : SUBSET Msgs]
    /\ cursor \in Nat \ {0} /\ found \in Nat

\* "Load pending messages": whatever crashes, reopenings and backups came
\* before, a queue filled by trq_load iterates over every row whose PENDING bit
\* is set on disk.
NoPendingLost ==
    mode = "pending" /\ pc = "ready" =>
        \A r \in Pending : \E i \in DOMAIN q : q[i].rowid = r

\* The rowid a queued message carries is the row of that very message, so that
\* trq_unload_msg and trq_set_hard_flag never change the flag of another one.
OwnRow ==
    pc = "ready" =>
        \A i \in DOMAIN q : /\ q[i].rowid \in DOMAIN idx
                            /\ idx[q[i].rowid].msg = q[i].msg

\* The iterator goes through the messages in the order they were appended, none
\* of them twice.
InOrder == \A i, j \in DOMAIN q : i < j => q[i].rowid < q[j].rowid

\* The first_rowid kept in topic_var.json (where the next trq_load starts) never
\* passes a pending row, at any point where the process may die.
FirstRowidSound == \A r \in Pending : var.first <= r

\* A backup takes no pending message away: no process ever loads <topic>.bak.
BackupKeepsPending == \A r \in DOMAIN bak : ~bak[r].pend

\* "Los no master, abren la base de datos solo en modo lectura": a process that
\* did not open the database as the master leaves the disk as it is.
ReadOnlyReader ==
    [][role = "reader" /\ role' = "reader" => UNCHANGED disk]_vars

\* A call that has begun comes to its end, or the process dies.
Settles == pc \notin {"closed", "open", "ready"} ~> pc \in {"closed", "open", "ready"}

\* The queue refines what a persistent queue promises.  The iteration counts
\* from the end of the load on.
PQ == INSTANCE PersistentQueue WITH
          pend <- {idx[r].msg : r \in Pending},
          view <- IF mode = "none" THEN {} ELSE QMsgs,
          mode <- CASE mode = "none"    -> "closed"
                    [] mode = "pending" -> "recovered"
                    [] mode = "all"     -> "browsing"

PersistentQueueSpec == PQ!Spec

-----------------------------------------------------------------------------
(***************************************************************************)
(* The inductive invariant, under the discipline (no liberty taken).  Its  *)
(* parts say what holds at each step of a call.                            *)
(***************************************************************************)

\* The step the running call will be at once topic_var.json is written.
At(step) == pc = step \/ (pc = "saving" /\ after = step)

\* The variables in memory and on disk are the same except during a write, and
\* neither bounds out a pending row nor points beyond the topic.  The variables
\* of the old topic outlive its rows while the backup is made.
BoundOK(v) == /\ \A r \in Pending : v.first <= r
              /\ v.first <= Len(idx) \/ At("bk_create") \/ At("bk_zero")
VarInv == /\ BoundOK(var)
          /\ pc # "closed" => BoundOK(topic)
          /\ pc \in {"open", "loading", "ready"} => topic = var
          /\ pc \in {"saving", "bk_create"} => var = NoVar

\* A backup begins with a loaded, empty queue, hence with nothing pending.
InBackup == \E s \in {"bk_remove", "bk_rename", "bk_create", "bk_zero"} : At(s)
BackupInv ==
    /\ InBackup => role = "master" /\ q = <<>> /\ mode = "pending" /\ Pending = {}
    /\ At("bk_create") \/ At("bk_zero") => idx = <<>>
    /\ pc # "notopic"
    /\ BackupKeepsPending

\* What q holds, loaded or being loaded.
QInv ==
    /\ \A i \in DOMAIN q : /\ q[i].rowid \in DOMAIN idx
                           /\ idx[q[i].rowid].msg = q[i].msg
    /\ InOrder
    /\ mode = "pending" => \A r \in Pending : \E i \in DOMAIN q : q[i].rowid = r
    /\ mode # "none" <=> At("ready") \/ InBackup
    /\ At("open") \/ At("closed") => q = <<>>
    /\ pc = "saving" => after \in {"open", "ready", "bk_remove", "bk_zero"}

\* The walk has delivered every pending row before the cursor, and found is the
\* first of them.
LoadInv ==
    pc = "loading" =>
        /\ \A i \in DOMAIN q : q[i].rowid < cursor
        /\ cond.pending =>
              /\ cond.to = 0 /\ cond.keys = Msgs
              /\ \A r \in Pending : r < cursor => \E i \in DOMAIN q : q[i].rowid = r
              /\ found = 0 => \A r \in Pending : r >= cursor
              /\ found > 0 => found \in DOMAIN idx /\ \A r \in Pending : found <= r

IInv == TypeOK /\ VarInv /\ BackupInv /\ QInv /\ LoadInv

=============================================================================
