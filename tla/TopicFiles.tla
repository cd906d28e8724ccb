----------------------------- MODULE TopicFiles -----------------------------
(***************************************************************************)
(* The files of a TimeRanger database and of one topic, as 30_timeranger.c *)
(* makes, upgrades, moves and removes them: __timeranger__.json and, in    *)
(* the directory of the topic, topic_idx.md, topic_desc.json,              *)
(* topic_cols.json and topic_var.json, and the backup <topic>.bak.         *)
(*                                                                         *)
(* A call is the list of the file operations it still has to do; each one  *)
(* is a step, and a json file is written in two, truncated and then        *)
(* filled.  A process may die at any of them.  Critical errors end the     *)
(* process (on_critical_error by default).                                 *)
(*                                                                         *)
(* A directory has a number of its own, which it keeps when it is renamed: *)
(* descriptors follow the directory, names do not.  The records of a topic *)
(* are the subject of TimeRanger; here they are a set.                     *)
(***************************************************************************)
EXTENDS Naturals, Sequences, FiniteSets, Functions

CONSTANTS
    Procs,          \* processes that open the database
    Msgs,           \* records, each appended once
    Versions,       \* topic_version of the callers, 0 when they give none
    MaxGens,        \* bound: directories made for the topic
    NoProc,         \* nobody holds the lock
    Liberties       \* beyond the discipline under which the files stay sound:
                    \*   "fragile"   die where the next process cannot repair
                    \*   "downgrade" create with a version older than another
                    \*   "reader_version" create with a version as a reader
                    \*   "reader_removes" backup or delete as a reader

ASSUME TopicFilesAssumption ==
    /\ NoProc \notin Procs
    /\ Versions \subseteq Nat
    /\ MaxGens \in Nat
    /\ Liberties \subseteq {"fragile", "downgrade", "reader_version", "reader_removes"}

VARIABLES
    \* --- disk
    db,             \* __timeranger__.json: "none", "torn" or "ok"
    dbro,           \* it has been made read-only
    lock,           \* who holds its flock
    dir, bak,       \* the directory of the topic and its backup
    rows,           \* number of a directory -> its records
    gens,           \* directories made so far
    \* --- memory of each process
    role,           \* "none", "starting", "master", "reader"
    todo,           \* file operations its call has still to do
    want,           \* versions its call writes in var and cols
    mem,            \* the topic it has open
    \* --- history
    asked,          \* highest version asked for this topic
    acked,          \* records appended
    gone            \* records deleted with their topic or their backup

disk == <<db, dbro, dir, bak, rows, gens>>
hist == <<asked, acked, gone>>
vars == <<db, dbro, lock, dir, bak, rows, gens, role, todo, want, mem, asked, acked, gone>>

None   == [st |-> "none", v |-> 0]
Torn   == [st |-> "torn", v |-> 0]
Ok(n)  == [st |-> "ok", v |-> n]
File   == [st : {"none", "torn", "ok"}, v : Nat]

Dir    == [gen : Nat, idx : BOOLEAN, data : BOOLEAN, desc : File, cols : File, var : File]
NoDir  == [gen |-> 0, idx |-> FALSE, data |-> FALSE, desc |-> None, cols |-> None, var |-> None]

\* An open topic: the directory its index descriptor and its content file belong
\* to, and what was read of its variables and columns.
Topic  == [gen : Nat, file : Nat, var : File, cols : File]
Closed == [gen |-> 0, file |-> 0, var |-> None, cols |-> None]

\* load_variable_json: a file that is missing or bad has no version.
Version(f) == IF f.st = "ok" THEN f.v ELSE 0

Up(p)   == role[p] \in {"master", "reader"}
Idle(p) == Up(p) /\ todo[p] = <<>>
IsOpen(p) == mem[p].gen # 0

Write(f) == <<<<"cut", f>>, <<"put", f>>>>

Init ==
    /\ db = "none" /\ dbro = FALSE /\ lock = NoProc
    /\ dir = NoDir /\ bak = NoDir
    /\ rows = [g \in 1 .. MaxGens |-> {}] /\ gens = 0
    /\ role = [p \in Procs |-> "none"]
    /\ todo = [p \in Procs |-> <<>>]
    /\ want = [p \in Procs |-> [var |-> 0, cols |-> 0]]
    /\ mem = [p \in Procs |-> Closed]
    /\ asked = 0 /\ acked = {} /\ gone = {}

-----------------------------------------------------------------------------
(* Processes come and go *)

Gone(p) ==
    /\ role' = [role EXCEPT ![p] = "none"]
    /\ lock' = IF lock = p THEN NoProc ELSE lock
    /\ todo' = [todo EXCEPT ![p] = <<>>]
    /\ want' = [want EXCEPT ![p] = [var |-> 0, cols |-> 0]]
    /\ mem' = [mem EXCEPT ![p] = Closed]

\* tranger_startup: a master makes a database that is not there; then, or if it
\* is there, it asks for the lock.  A reader only reads the file.
Startup(p, wanted) ==
    /\ role[p] = "none"
    /\ \/ /\ wanted = "master"
          /\ role' = [role EXCEPT ![p] = "starting"]
          /\ todo' = [todo EXCEPT ![p] =
                IF db = "none" THEN Write("db") \o <<<<"chmod", "db">>, <<"lock", "db">>>>
                ELSE <<<<"lock", "db">>>>]
       \/ /\ wanted = "reader" /\ db = "ok"
          /\ role' = [role EXCEPT ![p] = "reader"]
          /\ UNCHANGED todo
    /\ UNCHANGED <<disk, lock, want, mem, hist>>

\* Where a death leaves what tranger_create_topic does not repair: a directory
\* that was being made or removed, or a part of the columns.
Fragile(p) ==
    LET ops == Range(todo[p]) IN
    \/ <<"make", "data">> \in ops /\ <<"make", "dir">> \notin ops
    \/ todo[p] # <<>> /\ Head(todo[p]) \in {<<"put", "cols">>, <<"rmdir", "dir">>}

\* tranger_shutdown, or the death of the process where it is.
Stop(p) ==
    /\ role[p] # "none"
    /\ Fragile(p) => "fragile" \in Liberties
    /\ Gone(p)
    /\ UNCHANGED <<disk, hist>>

-----------------------------------------------------------------------------
(* Calls *)

\* Mutant: the description is the last file.
BugCreateSteps == <<<<"make", "dir">>, <<"make", "idx">>, <<"make", "data">>>>
                  \o Write("cols") \o Write("var") \o Write("desc") \o <<<<"open", "dir">>>>

\* tranger_create_topic, when there is no directory.
CreateSteps == <<<<"make", "dir">>, <<"make", "idx">>>>
               \o Write("desc") \o Write("cols") \o Write("var")
               \o <<<<"make", "data">>, <<"open", "dir">>>>

\* Mutant: the columns of the old version stay.
BugUpgradeSteps == <<<<"rm", "var">>>>

\* ... and when the directory has an older version.
UpgradeSteps == <<<<"rm", "cols">>, <<"rm", "var">>>>

Need == <<<<"need", "var">>, <<"need", "cols">>, <<"open", "dir">>>>

\* tranger_create_topic.
CreateTopic(p, v) ==
    /\ Idle(p)
    /\ v >= asked \/ role[p] = "reader" \/ "downgrade" \in Liberties
    /\ role[p] = "reader" => v = 0 \/ "reader_version" \in Liberties
    /\ \/ /\ dir = NoDir /\ role[p] = "master"
          /\ todo' = [todo EXCEPT ![p] = CreateSteps]
       \/ /\ dir # NoDir /\ v > Version(dir.var)
          /\ todo' = [todo EXCEPT ![p] = UpgradeSteps \o Need]
       \/ /\ dir # NoDir /\ v <= Version(dir.var)
          /\ todo' = [todo EXCEPT ![p] = Need]
    /\ want' = [want EXCEPT ![p] = [var |-> v, cols |-> v]]
    /\ asked' = IF v > asked THEN v ELSE asked
    /\ UNCHANGED <<disk, lock, role, mem, acked, gone>>

\* tranger_close_topic.
CloseTopic(p) ==
    /\ Idle(p) /\ IsOpen(p)
    /\ mem' = [mem EXCEPT ![p] = Closed]
    /\ UNCHANGED <<disk, lock, role, todo, want, hist>>

\* tranger_delete_topic opens the topic, closes it and removes its directory; it
\* does not ask who is the master.
DeleteTopic(p) ==
    /\ Idle(p) /\ dir # NoDir
    /\ role[p] = "reader" => "reader_removes" \in Liberties
    /\ todo' = [todo EXCEPT ![p] = <<<<"open", "dir">>, <<"close", "dir">>,
                                     <<"empty", "dir">>, <<"rmdir", "dir">>>>]
    /\ UNCHANGED <<disk, lock, role, want, mem, hist>>

\* Mutant: the topic stays open while its directory moves.
BugBackupTopic(p, overwrite) ==
    /\ Idle(p) /\ IsOpen(p)
    /\ role[p] = "master"
    /\ dir # NoDir /\ (bak = NoDir \/ overwrite)
    /\ todo' = [todo EXCEPT ![p] =
          (IF bak = NoDir THEN <<>> ELSE <<<<"empty", "bak">>, <<"rmdir", "bak">>>>)
          \o <<<<"move", "dir">>>>]
    /\ UNCHANGED <<disk, lock, role, want, mem, hist>>

\* tranger_backup_topic (its caller has the topic open) closes the topic; it leaves
\* a backup that it may not overwrite; else the directory becomes the backup.  It
\* does not ask who is the master either.
BackupTopic(p, overwrite) ==
    /\ Idle(p) /\ IsOpen(p)
    /\ role[p] = "reader" => "reader_removes" \in Liberties
    /\ mem' = [mem EXCEPT ![p] = Closed]
    /\ IF dir = NoDir \/ (bak # NoDir /\ ~overwrite)
       THEN UNCHANGED todo
       ELSE todo' = [todo EXCEPT ![p] =
              (IF bak = NoDir THEN <<>> ELSE <<<<"empty", "bak">>, <<"rmdir", "bak">>>>)
              \o <<<<"move", "dir">>>>]
    /\ UNCHANGED <<disk, lock, role, want, hist>>

\* tranger_append_record: the record goes where the descriptors point.  (Without a
\* data directory the process ends: that is Stop.)
AppendRecord(p, m) ==
    /\ Idle(p) /\ role[p] = "master" /\ IsOpen(p)
    /\ m \notin acked
    /\ mem[p].gen = dir.gen => dir.data
    /\ rows' = [rows EXCEPT ![mem[p].gen] = @ \cup {m}]
    /\ mem' = [mem EXCEPT ![p].file = mem[p].gen]
    /\ acked' = acked \cup {m}
    /\ UNCHANGED <<db, dbro, dir, bak, gens, lock, role, todo, want, asked, gone>>

\* tranger_get_record and tranger_read_record_content: the metadata come from the
\* descriptor, the content from a file that is opened by its name, once.
ReadRecord(p) ==
    /\ Idle(p) /\ IsOpen(p) /\ rows[mem[p].gen] # {}
    /\ mem[p].file = 0 /\ dir # NoDir /\ rows[dir.gen] # {}
    /\ mem' = [mem EXCEPT ![p].file = dir.gen]
    /\ UNCHANGED <<disk, lock, role, todo, want, hist>>

-----------------------------------------------------------------------------
(* File operations *)

\* The next operation of p is op, and it is done.
Op(p, op) ==
    /\ todo[p] # <<>> /\ Head(todo[p]) = op
    /\ todo' = [todo EXCEPT ![p] = Tail(@)]

\* Nobody opens a read-only file to write.
DbWritable == ~dbro

\* save_json_to_file("__timeranger__.json").
CutDb(p) ==
    /\ IF DbWritable
       THEN /\ Op(p, <<"cut", "db">>)
            /\ db' = "torn"
            /\ UNCHANGED <<lock, role, want, mem>>
       ELSE /\ todo[p] # <<>> /\ Head(todo[p]) = <<"cut", "db">>
            /\ Gone(p)
            /\ UNCHANGED db
    /\ UNCHANGED <<dbro, dir, bak, rows, gens, hist>>

PutDb(p) ==
    /\ Op(p, <<"put", "db">>)
    /\ db' = "ok"
    /\ UNCHANGED <<dbro, dir, bak, rows, gens, lock, role, want, mem, hist>>

ChmodDb(p) ==
    /\ Op(p, <<"chmod", "db">>)
    /\ dbro' = TRUE
    /\ UNCHANGED <<db, dir, bak, rows, gens, lock, role, want, mem, hist>>

\* load_persistent_json, exclusive: the lock, and then the file.
LockDb(p) ==
    /\ todo[p] # <<>> /\ Head(todo[p]) = <<"lock", "db">>
    /\ IF lock = NoProc /\ db = "ok"
       THEN /\ Op(p, <<"lock", "db">>)
            /\ lock' = p
            /\ role' = [role EXCEPT ![p] = "master"]
            /\ UNCHANGED <<want, mem>>
       ELSE Gone(p)
    /\ UNCHANGED <<disk, hist>>

MakeDir(p) ==
    /\ Op(p, <<"make", "dir">>)
    /\ gens < MaxGens
    /\ gens' = gens + 1
    /\ dir' = [NoDir EXCEPT !.gen = gens + 1]
    /\ UNCHANGED <<db, dbro, bak, rows, lock, role, want, mem, hist>>

MakeIn(p, f) ==
    /\ Op(p, <<"make", f>>)
    /\ dir' = [dir EXCEPT ![f] = TRUE]
    /\ UNCHANGED <<db, dbro, bak, rows, gens, lock, role, want, mem, hist>>

\* What a call writes in a file.
Value(p, f) == Ok(IF f = "desc" THEN 0 ELSE want[p][f])

\* save_json_to_file opens the file with O_TRUNC; tranger_write_topic_var and
\* tranger_write_topic_cols have put the new value in the open topic before.
CutFile(p, f) ==
    /\ Op(p, <<"cut", f>>)
    /\ dir' = [dir EXCEPT ![f] = Torn]
    /\ mem' = IF f # "desc" /\ IsOpen(p) THEN [mem EXCEPT ![p][f] = Value(p, f)] ELSE mem
    /\ UNCHANGED <<db, dbro, bak, rows, gens, lock, role, want, hist>>

PutFile(p, f) ==
    /\ Op(p, <<"put", f>>)
    /\ dir' = [dir EXCEPT ![f] = Value(p, f)]
    /\ UNCHANGED <<db, dbro, bak, rows, gens, lock, role, want, mem, hist>>

\* file_remove: the files of an older version.
RemoveFile(p, f) ==
    /\ Op(p, <<"rm", f>>)
    /\ dir' = IF dir = NoDir THEN dir ELSE [dir EXCEPT ![f] = None]
    /\ UNCHANGED <<db, dbro, bak, rows, gens, lock, role, want, mem, hist>>

\* A file that is missing is written, by a master.
NeedFile(p, f) ==
    /\ todo[p] # <<>> /\ Head(todo[p]) = <<"need", f>>
    /\ todo' = [todo EXCEPT ![p] =
          (IF dir # NoDir /\ dir[f].st = "none" /\ role[p] = "master" THEN Write(f) ELSE <<>>)
          \o Tail(@)]
    /\ UNCHANGED <<disk, lock, role, want, mem, hist>>

\* tranger_open_topic: an open topic is open; no directory, no topic; without its
\* description the process ends.
OpenTopic(p) ==
    /\ todo[p] # <<>> /\ Head(todo[p]) = <<"open", "dir">>
    /\ \/ /\ IsOpen(p)
          /\ todo' = [todo EXCEPT ![p] = Tail(@)]
          /\ UNCHANGED <<lock, role, want, mem>>
       \/ /\ ~IsOpen(p) /\ dir = NoDir
          /\ todo' = [todo EXCEPT ![p] = <<>>]
          /\ UNCHANGED <<lock, role, want, mem>>
       \/ /\ ~IsOpen(p) /\ dir # NoDir /\ dir.desc.st # "ok"
          /\ Gone(p)
       \/ /\ ~IsOpen(p) /\ dir # NoDir /\ dir.desc.st = "ok"
          /\ mem' = [mem EXCEPT ![p].var = dir.var]
          /\ todo' = [todo EXCEPT ![p] = <<<<"open", "cols">>>> \o Tail(@)]
          /\ UNCHANGED <<lock, role, want>>
    /\ UNCHANGED <<disk, hist>>

\* ... then the columns, and the index, without which the process ends too.
OpenCols(p) ==
    /\ todo[p] # <<>> /\ Head(todo[p]) = <<"open", "cols">>
    /\ IF dir.idx
       THEN /\ Op(p, <<"open", "cols">>)
            /\ mem' = [mem EXCEPT ![p].cols = dir.cols, ![p].gen = dir.gen]
            /\ UNCHANGED <<lock, role, want>>
       ELSE Gone(p)
    /\ UNCHANGED <<disk, hist>>

CloseIt(p) ==
    /\ Op(p, <<"close", "dir">>)
    /\ mem' = [mem EXCEPT ![p] = Closed]
    /\ UNCHANGED <<disk, lock, role, want, hist>>

\* rmrdir: the files first, the description among them ...
Emptied(d) == [NoDir EXCEPT !.gen = d.gen]
RowsOf(d)  == IF d.gen = 0 THEN {} ELSE rows[d.gen]

EmptyDir(p) ==
    /\ Op(p, <<"empty", "dir">>)
    /\ dir' = Emptied(dir)
    /\ gone' = gone \cup RowsOf(dir)
    /\ UNCHANGED <<db, dbro, bak, rows, gens, lock, role, want, mem, asked, acked>>

\* Mutant: the topic is emptied in place of its backup.
BugEmptyBak(p) ==
    /\ Op(p, <<"empty", "bak">>)
    /\ dir' = Emptied(dir)
    /\ UNCHANGED <<db, dbro, bak, rows, gens, lock, role, want, mem, asked, acked, gone>>

EmptyBak(p) ==
    /\ Op(p, <<"empty", "bak">>)
    /\ bak' = Emptied(bak)
    /\ gone' = gone \cup RowsOf(bak)
    /\ UNCHANGED <<db, dbro, dir, rows, gens, lock, role, want, mem, asked, acked>>

\* ... and then the directory.
RmDir(p) ==
    /\ Op(p, <<"rmdir", "dir">>)
    /\ dir' = NoDir
    /\ asked' = 0
    /\ UNCHANGED <<db, dbro, bak, rows, gens, lock, role, want, mem, acked, gone>>

RmBak(p) ==
    /\ Op(p, <<"rmdir", "bak">>)
    /\ bak' = NoDir
    /\ UNCHANGED <<db, dbro, dir, rows, gens, lock, role, want, mem, hist>>

\* tranger_backup_topic loads the files of the topic, renames its directory, and
\* calls tranger_create_topic with the variables and columns of the old one.
MoveDir(p) ==
    /\ todo[p] # <<>> /\ Head(todo[p]) = <<"move", "dir">>
    /\ IF dir.desc.st = "ok"
       THEN /\ bak' = dir
            /\ dir' = NoDir
            /\ want' = [want EXCEPT ![p] = [var |-> Version(dir.var), cols |-> Version(dir.cols)]]
            /\ todo' = [todo EXCEPT ![p] = IF role[p] = "master" THEN CreateSteps ELSE <<>>]
       ELSE /\ todo' = [todo EXCEPT ![p] = <<>>]
            /\ UNCHANGED <<bak, dir, want>>
    /\ UNCHANGED <<db, dbro, rows, gens, lock, role, mem, hist>>

-----------------------------------------------------------------------------
Next ==
    \E p \in Procs :
        \/ Startup(p, "master") \/ Startup(p, "reader")
        \/ Stop(p)
        \/ \E v \in Versions : CreateTopic(p, v)
        \/ CloseTopic(p)
        \/ DeleteTopic(p)
        \/ BackupTopic(p, TRUE) \/ BackupTopic(p, FALSE)
        \/ \E m \in Msgs : AppendRecord(p, m)
        \/ ReadRecord(p)
        \/ CutDb(p) \/ PutDb(p) \/ ChmodDb(p) \/ LockDb(p)
        \/ MakeDir(p) \/ MakeIn(p, "idx") \/ MakeIn(p, "data")
        \/ \E f \in {"desc", "cols", "var"} : CutFile(p, f) \/ PutFile(p, f)
        \/ \E f \in {"cols", "var"} : RemoveFile(p, f) \/ NeedFile(p, f)
        \/ OpenTopic(p) \/ OpenCols(p) \/ CloseIt(p)
        \/ EmptyDir(p) \/ EmptyBak(p) \/ RmDir(p) \/ RmBak(p)
        \/ MoveDir(p)

Spec == Init /\ [][Next]_vars

-----------------------------------------------------------------------------
Operation ==
    {"lock", "chmod", "cut", "put", "make", "need", "rm", "open", "close", "empty",
     "rmdir", "move"}
    \X {"db", "dir", "bak", "idx", "data", "desc", "cols", "var"}

\* Types.
TypeOK ==
    /\ db \in {"none", "torn", "ok"} /\ dbro \in BOOLEAN /\ lock \in Procs \cup {NoProc}
    /\ dir \in Dir /\ bak \in Dir /\ gens \in 0 .. MaxGens
    /\ rows \in [1 .. MaxGens -> SUBSET Msgs]
    /\ role \in [Procs -> {"none", "starting", "master", "reader"}]
    /\ todo \in [Procs -> Seq(Operation)]
    /\ want \in [Procs -> [var : Nat, cols : Nat]]
    /\ mem \in [Procs -> Topic]
    /\ asked \in Nat /\ acked \subseteq Msgs /\ gone \subseteq Msgs

\* "HACK IDEMPOTENT function": between two calls, wherever a process died before
\* (a Fragile place is a liberty), a directory has all that tranger_create_topic does not write again.
Repairable ==
    (\A p \in Procs : role[p] = "master" => todo[p] = <<>>) /\ dir # NoDir =>
        dir.idx /\ dir.data /\ dir.desc.st = "ok" /\ dir.cols.st # "torn"

\* When tranger_create_topic has returned to a master, memory and disk agree, the
\* columns are those of the version of the variables, and that is the version
\* asked for or a later one, whatever upgrade was cut before.
ColsOfVersion ==
    \A p \in Procs : role[p] = "master" /\ Idle(p) /\ IsOpen(p) =>
        /\ mem[p].var = dir.var /\ mem[p].cols = dir.cols
        /\ dir.cols = Ok(Version(dir.var))
        /\ Version(dir.var) >= want[p].var

\* tranger_create_topic, called again after any cut, leaves a topic that is whole and
\* of one version.
SurvivesCuts == Repairable /\ ColsOfVersion

\* A master that has the topic open has its descriptors in the directory of the
\* topic, never in the one that has become its backup.
OwnFiles ==
    \A p \in Procs : role[p] = "master" /\ Idle(p) /\ IsOpen(p) =>
        mem[p].gen = dir.gen /\ mem[p].file \in {0, dir.gen}

\* Every record is in the topic or in its backup until somebody deletes the one
\* or lets the other be overwritten.
NothingLost == acked \subseteq RowsOf(dir) \cup RowsOf(bak) \cup gone

\* The content a process reads is of the directory its metadata are from.
ReadOneTopic == \A p \in Procs : IsOpen(p) => mem[p].file \in {0, mem[p].gen}

=============================================================================
