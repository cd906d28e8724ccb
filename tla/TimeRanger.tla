----------------------------- MODULE TimeRanger -----------------------------
(***************************************************************************)
(* The record store of 30_timeranger.c: one topic, its index topic_idx.md  *)
(* and its content files (one for each day), written by the process that   *)
(* holds the lock of __timeranger__.json and read by any other.            *)
(*                                                                         *)
(* A write() is one step that may be cut short.  What a process does       *)
(* between two writes, or between reading metadata and reading content, is *)
(* interleaved with the steps of the others, and may be the last thing it  *)
(* does.  The content of one record is one cell of a content file, its     *)
(* __offset__ the position of that cell.                                   *)
(***************************************************************************)
EXTENDS Naturals, Sequences, FiniteSets

CONSTANTS
    Procs,          \* processes that open the database
    Msgs,           \* contents of records, each appended once
    Days,           \* content files: the values of __t__ that differ in name
    UserFlags,      \* bits of the user flag
    NoProc,         \* nobody holds the lock
    ExitOnCritical, \* on_critical_error has LOG_OPT_EXIT_ZERO (the default)
    Shorts          \* bound: how many writes may be cut short

ASSUME TimeRangerAssumption ==
    /\ NoProc \notin Procs
    /\ "mark1" \notin UserFlags
    /\ ExitOnCritical \in BOOLEAN
    /\ Shorts \in Nat
    /\ \A m \in Msgs : m \notin {"blank", "torn"}

VARIABLES
    \* --- disk
    md,             \* the whole records of topic_idx.md
    tail,           \* TRUE iff a partial record follows them
    cells,          \* Days -> content file
    lock,           \* who holds the flock of __timeranger__.json
    \* --- memory of each process
    role,           \* "none" (not running), "master", "reader"
    last,           \* __last_rowid__ of the topic it has open
    pc,             \* "idle" or what its call does next
    rec,            \* the md_record its call works with
    \* --- history
    acked,          \* contents whose append returned 0
    gone,           \* contents whose deletion was begun
    shorts          \* writes cut short so far

disk == <<md, tail, cells>>
hist == <<acked, gone, shorts>>
vars == <<md, tail, cells, lock, role, last, pc, rec, acked, gone, shorts>>

Cell   == Msgs \cup {"blank", "torn"}
MdRow  == [rowid : Nat, msg : Msgs, day : Days, off : Nat, deleted : BOOLEAN,
           flags : SUBSET (UserFlags \cup {"mark1"})]
NoRec  == [rowid |-> 0]

Fresh(m) == /\ \A d \in Days : \A i \in DOMAIN cells[d] : cells[d][i] # m
            /\ m \notin gone

Running(p) == role[p] # "none"
Master(p)  == role[p] = "master"

Init ==
    /\ md = <<>> /\ tail = FALSE /\ cells = [d \in Days |-> <<>>] /\ lock = NoProc
    /\ role = [p \in Procs |-> "none"]
    /\ last = [p \in Procs |-> 0]
    /\ pc = [p \in Procs |-> "idle"]
    /\ rec = [p \in Procs |-> NoRec]
    /\ acked = {} /\ gone = {} /\ shorts = 0

-----------------------------------------------------------------------------
(* Processes come and go *)

\* tranger_startup and tranger_open_topic: the lock makes a master of one of the
\* processes that ask for it; for another one not getting it is a critical error,
\* or else it goes on as a reader.  The last rowid is the size of the index in
\* whole records.
Start(p, wanted) ==
    /\ role[p] = "none"
    /\ \/ /\ wanted = "master" /\ lock = NoProc
          /\ role' = [role EXCEPT ![p] = "master"] /\ lock' = p
       \/ /\ wanted = "reader" \/ (lock # NoProc /\ ~ExitOnCritical)
          /\ role' = [role EXCEPT ![p] = "reader"] /\ UNCHANGED lock
    /\ last' = [last EXCEPT ![p] = Len(md)]
    /\ UNCHANGED <<disk, pc, rec, hist>>

\* Everything a process has is in its memory, and the kernel frees its lock.
Gone(p) ==
    /\ role' = [role EXCEPT ![p] = "none"]
    /\ lock' = IF lock = p THEN NoProc ELSE lock
    /\ last' = [last EXCEPT ![p] = 0]
    /\ pc' = [pc EXCEPT ![p] = "idle"]
    /\ rec' = [rec EXCEPT ![p] = NoRec]

\* tranger_shutdown, or the death of the process wherever it is.
Stop(p) ==
    /\ Running(p)
    /\ Gone(p)
    /\ UNCHANGED <<disk, hist>>

\* The call of p is over.
Return(p) ==
    /\ pc' = [pc EXCEPT ![p] = "idle"]
    /\ rec' = [rec EXCEPT ![p] = NoRec]
    /\ UNCHANGED <<lock, role>>

-----------------------------------------------------------------------------
(* tranger_append_record *)

\* A write of n bytes is cut short: no space, a signal, an I/O error.
CutShort ==
    /\ shorts < Shorts
    /\ shorts' = shorts + 1

\* Mutant: the offset is counted in records of the topic, not of the file.
BugAppendContent(p, m, d) ==
    /\ Master(p) /\ pc[p] = "idle" /\ Fresh(m)
    /\ cells' = [cells EXCEPT ![d] = Append(@, m)]
    /\ rec' = [rec EXCEPT ![p] =
                  [rowid |-> last[p] + 1, msg |-> m, day |-> d,
                   off |-> last[p] + 1, deleted |-> FALSE, flags |-> {}]]
    /\ pc' = [pc EXCEPT ![p] = "md"]
    /\ UNCHANGED <<md, tail, lock, role, last, hist>>

\* The content goes first, at the end of the file of its day.
AppendContent(p, m, d) ==
    /\ Master(p) /\ pc[p] = "idle" /\ Fresh(m)
    /\ cells' = [cells EXCEPT ![d] = Append(@, m)]
    /\ rec' = [rec EXCEPT ![p] =
                  [rowid |-> last[p] + 1, msg |-> m, day |-> d,
                   off |-> Len(cells[d]) + 1, deleted |-> FALSE, flags |-> {}]]
    /\ pc' = [pc EXCEPT ![p] = "md"]
    /\ UNCHANGED <<md, tail, lock, role, last, hist>>

\* The content is cut short: log_critical ends the process, or the call fails.
AppendContentShort(p, d) ==
    /\ Master(p) /\ pc[p] = "idle"
    /\ CutShort
    /\ \/ cells' = [cells EXCEPT ![d] = Append(@, "torn")]
       \/ UNCHANGED cells
    /\ IF ExitOnCritical THEN Gone(p) ELSE Return(p) /\ UNCHANGED last
    /\ UNCHANGED <<md, tail, acked, gone>>

\* new_record_md_to_file refuses an index that does not end where the next
\* record starts.
IndexFits(p) == Len(md) = rec[p].rowid - 1 /\ ~tail

\* Mutant: the record is not counted.
BugAcknowledge(p) ==
    /\ acked' = acked \cup {rec[p].msg}
    /\ Return(p)
    /\ UNCHANGED last

\* The result of new_record_md_to_file is not looked at: the call counts the
\* record and returns 0.
Acknowledge(p) ==
    /\ last' = [last EXCEPT ![p] = rec[p].rowid]
    /\ acked' = acked \cup {rec[p].msg}
    /\ Return(p)

\* Mutant: the metadata go where the descriptor stands, not to the end.
BugAppendMd(p) ==
    /\ pc[p] = "md"
    /\ IndexFits(p)
    /\ md' = IF md = <<>> THEN <<rec[p]>> ELSE [md EXCEPT ![1] = rec[p]]
    /\ Acknowledge(p)
    /\ UNCHANGED <<tail, cells, gone, shorts>>

\* Then the metadata, at the end of the index.
AppendMd(p) ==
    /\ pc[p] = "md"
    /\ IndexFits(p)
    /\ md' = Append(md, rec[p])
    /\ Acknowledge(p)
    /\ UNCHANGED <<tail, cells, gone, shorts>>

\* Mutant: the append is reported before the process ends.
BugAppendMdFails(p) ==
    /\ pc[p] = "md"
    /\ \/ ~IndexFits(p) /\ UNCHANGED <<tail, shorts>>
       \/ IndexFits(p) /\ CutShort /\ tail' \in BOOLEAN
    /\ Gone(p)
    /\ acked' = acked \cup {rec[p].msg}
    /\ UNCHANGED <<md, cells, gone>>

\* The metadata cannot be written, or only a part of it can.
AppendMdFails(p) ==
    /\ pc[p] = "md"
    /\ \/ ~IndexFits(p) /\ UNCHANGED <<tail, shorts>>
       \/ IndexFits(p) /\ CutShort /\ tail' \in BOOLEAN
    /\ IF ExitOnCritical THEN Gone(p) /\ UNCHANGED acked ELSE Acknowledge(p)
    /\ UNCHANGED <<md, cells, gone>>

-----------------------------------------------------------------------------
(* Changes of a record in place *)

\* _get_md_record_for_wr: the rows a writer reaches.
Reachable(p, r) == r \in 1 .. last[p] /\ r \in DOMAIN md

\* tranger_delete_record blanks the content ...
DeleteBlank(p, r) ==
    /\ Master(p) /\ pc[p] = "idle" /\ Reachable(p, r)
    /\ cells' = [cells EXCEPT ![md[r].day][md[r].off] = "blank"]
    /\ gone' = gone \cup {md[r].msg}
    /\ rec' = [rec EXCEPT ![p] = md[r]]
    /\ pc' = [pc EXCEPT ![p] = "mark"]
    /\ UNCHANGED <<md, tail, lock, role, last, acked, shorts>>

\* (or fails to, which is only logged: the content is as it was, or its first
\* bytes are blank, which is how an empty record reads)
DeleteBlankFails(p, r) ==
    /\ Master(p) /\ pc[p] = "idle" /\ Reachable(p, r)
    /\ CutShort
    /\ \/ cells' = [cells EXCEPT ![md[r].day][md[r].off] = "blank"]
       \/ UNCHANGED cells
    /\ gone' = gone \cup {md[r].msg}
    /\ UNCHANGED <<md, tail, lock, role, last, pc, rec, acked>>

\* Mutant: the record is written back one position too far.
BugDeleteMark(p) ==
    /\ pc[p] = "mark"
    /\ md' = [md EXCEPT ![rec[p].rowid + 1] = [rec[p] EXCEPT !.deleted = TRUE]]
    /\ Return(p)
    /\ UNCHANGED <<tail, cells, last, hist>>

\* ... and then marks the record as deleted.
DeleteMark(p) ==
    /\ pc[p] = "mark"
    /\ md' = [md EXCEPT ![rec[p].rowid] = [rec[p] EXCEPT !.deleted = TRUE]]
    /\ Return(p)
    /\ UNCHANGED <<tail, cells, last, hist>>

\* tranger_set_user_flag, tranger_write_user_flag and tranger_write_mark1: the
\* record is read, one of its flag words changed, and written back.
WriteFlags(p, r, flags) ==
    /\ Master(p) /\ pc[p] = "idle" /\ Reachable(p, r)
    /\ md' = [md EXCEPT ![r].flags = flags]
    /\ UNCHANGED <<tail, cells, lock, role, last, pc, rec, hist>>

SetUserFlag(p, r, mask, set) ==
    WriteFlags(p, r, IF set THEN md[r].flags \cup mask ELSE md[r].flags \ mask)

WriteUserFlag(p, r, flag) ==
    WriteFlags(p, r, flag \cup (md[r].flags \cap {"mark1"}))

WriteMark1(p, r, set) ==
    WriteFlags(p, r, IF set THEN md[r].flags \cup {"mark1"} ELSE md[r].flags \ {"mark1"})

-----------------------------------------------------------------------------
(* Reads *)

\* tranger_get_record: a master stays within its last rowid, a reader tries
\* beyond and so learns of new records.
GetRecord(p, r) ==
    /\ Running(p) /\ pc[p] = "idle"
    /\ r \in DOMAIN md
    /\ Master(p) => r <= last[p]
    /\ rec' = [rec EXCEPT ![p] = md[r]]
    /\ last' = [last EXCEPT ![p] = IF @ < r THEN r ELSE @]
    /\ pc' = [pc EXCEPT ![p] = "read"]
    /\ UNCHANGED <<disk, lock, role, hist>>

\* A reader that reaches a partial record takes it for a critical error.
GetRecordPartial(p) ==
    /\ role[p] = "reader" /\ pc[p] = "idle"
    /\ tail
    /\ ExitOnCritical
    /\ Gone(p)
    /\ UNCHANGED <<disk, hist>>

\* Mutant: the content is read without going to its offset.
BugContents(p) == IF rec[p].deleted THEN {} ELSE {cells[rec[p].day][1]}

\* What tranger_read_record_content may return: nothing for a record whose
\* metadata said that it is deleted, else what stands at its offset or, as it is
\* read through a FILE, what the buffer of the FILE still holds of it.
Contents(p) ==
    IF rec[p].deleted THEN {} ELSE {cells[rec[p].day][rec[p].off], rec[p].msg}

\* The content is read with the metadata that were read before.
ReadContent(p) ==
    /\ pc[p] = "read"
    /\ Return(p)
    /\ UNCHANGED <<disk, last, hist>>

-----------------------------------------------------------------------------
Next ==
    \E p \in Procs :
        \/ Start(p, "master") \/ Start(p, "reader")
        \/ Stop(p)
        \/ \E m \in Msgs, d \in Days : AppendContent(p, m, d)
        \/ \E d \in Days : AppendContentShort(p, d)
        \/ AppendMd(p)
        \/ AppendMdFails(p)
        \/ \E r \in DOMAIN md :
              \/ DeleteBlank(p, r)
              \/ DeleteBlankFails(p, r)
              \/ \E mask \in SUBSET UserFlags : \/ SetUserFlag(p, r, mask, TRUE)
                                                \/ SetUserFlag(p, r, mask, FALSE)
                                                \/ WriteUserFlag(p, r, mask)
              \/ WriteMark1(p, r, TRUE) \/ WriteMark1(p, r, FALSE)
              \/ GetRecord(p, r)
        \/ DeleteMark(p)
        \/ GetRecordPartial(p)
        \/ ReadContent(p)

Spec == Init /\ [][Next]_vars

-----------------------------------------------------------------------------
\* Types.
TypeOK ==
    /\ md \in Seq(MdRow) /\ tail \in BOOLEAN /\ cells \in [Days -> Seq(Cell)]
    /\ lock \in Procs \cup {NoProc}
    /\ role \in [Procs -> {"none", "master", "reader"}]
    /\ last \in [Procs -> Nat]
    /\ pc \in [Procs -> {"idle", "md", "mark", "read"}]
    /\ rec \in [Procs -> MdRow \cup {NoRec}]
    /\ \A p \in Procs : pc[p] # "idle" => rec[p] \in MdRow
    /\ acked \subseteq Msgs /\ gone \subseteq Msgs /\ shorts \in Nat

CellOf(r) == cells[md[r].day][md[r].off]

\* Every index record stands at its rowid and points at its own content, whole
\* until its deletion is begun and blank once it is marked as deleted, whatever
\* was cut short or left half done before it.
ContentIsOwn ==
    \A r \in DOMAIN md :
        /\ md[r].rowid = r
        /\ md[r].off \in DOMAIN cells[md[r].day]
        /\ CellOf(r) = md[r].msg \/ (CellOf(r) = "blank" /\ md[r].msg \in gone)
        /\ md[r].deleted => CellOf(r) = "blank"

\* "Un único proceso master abre con permiso exclusivo para escribir": hence the
\* __last_rowid__ that a running master keeps in memory, which gives the rowid and
\* the place of the next record, is the number of records on disk.
MasterKnowsEnd == \A p \in Procs : Master(p) => last[p] = Len(md)

\* A record whose append returned 0 is in the index, with its content as long as
\* nobody deletes it.
Durable ==
    \A m \in acked : \E r \in DOMAIN md :
        /\ md[r].msg = m
        /\ m \notin gone => CellOf(r) = m

\* What tranger_read_record_content returns, to the master or to a reader that
\* races it, is the content of the record that was asked for, or the blank of one
\* whose deletion was begun: never a part of it or another one's.
ReadsTrue ==
    \A p \in Procs : pc[p] = "read" =>
        \A c \in Contents(p) : c = rec[p].msg \/ (c = "blank" /\ rec[p].msg \in gone)

\* A record never leaves its place nor changes what it points at, and a deleted
\* one does not come back.
RowsKeep ==
    [][\A r \in DOMAIN md :
          /\ r \in DOMAIN md'
          /\ md'[r].msg = md[r].msg /\ md'[r].day = md[r].day /\ md'[r].off = md[r].off
          /\ md[r].deleted => md'[r].deleted]_vars

\* The topic refines the log it promises.
RL == INSTANCE RecordLog WITH
          log <- [r \in DOMAIN md |-> [msg |-> md[r].msg, erased |-> CellOf(r) # md[r].msg]]

RecordLogSpec == RL!Spec

-----------------------------------------------------------------------------
(***************************************************************************)
(* The inductive invariant when critical errors end the process.           *)
(***************************************************************************)

\* The lock has one holder, the only master, and only a master writes.
LockInv ==
    \A p \in Procs : /\ Master(p) <=> lock = p
                     /\ pc[p] \in {"md", "mark"} => Master(p)
                     /\ ~Running(p) => pc[p] = "idle"

\* The record in the hands of a process that is about to append its metadata ...
AppendInv(p) ==
    pc[p] = "md" =>
        /\ rec[p].rowid = last[p] + 1 /\ ~rec[p].deleted
        /\ rec[p].off \in DOMAIN cells[rec[p].day]
        /\ cells[rec[p].day][rec[p].off] = rec[p].msg

\* ... that is deleting it, or reading it: its row still is what was read ...
HoldInv(p) ==
    pc[p] \in {"mark", "read"} =>
        /\ rec[p].rowid \in DOMAIN md
        /\ rec[p].msg = md[rec[p].rowid].msg
        /\ rec[p].day = md[rec[p].rowid].day
        /\ rec[p].off = md[rec[p].rowid].off

\* ... and its content is blank before it is marked.
MarkInv(p) ==
    pc[p] = "mark" => /\ cells[rec[p].day][rec[p].off] = "blank"
                      /\ rec[p].msg \in gone

RecInv == \A p \in Procs : AppendInv(p) /\ HoldInv(p) /\ MarkInv(p)

IInv == TypeOK /\ LockInv /\ RecInv /\ ContentIsOwn /\ MasterKnowsEnd /\ Durable

=============================================================================
