----------------------------- MODULE Rotatory -----------------------------
(***************************************************************************)
(* 03_rotatory.c: a log whose file takes its name from the date, and goes  *)
(* to <name>.OLD when it is too long.  A message is written in pieces, its *)
(* priority, its text and its newline, each by a call of _rotatory of its  *)
(* own, between which the date may change.  One log of one process, which  *)
(* may die; what stdio holds is then lost.  Pieces are numbered as they    *)
(* are written.                                                            *)
(***************************************************************************)
EXTENDS Integers, Sequences, SequencesExt, FiniteSets

CONSTANTS
    MaxDay,         \* the last date, from 0 on: a bound of the model
    FileNames,      \* the file names that the mask gives, one after the other
    MaxSize,        \* pieces in a file that is not yet too long
    MaxPieces,      \* pieces written in a behaviour, at most: a bound of the model
    StatvfsEach,    \* MAX_COUNTER_STATVFS
    Faults          \* calls of the system that fail: "rename", "open", "write"

Absent == <<0>>     \* no such file

VARIABLES
    day,
    disk,           \* what is on disk: files and, of each, its .OLD
    hr,             \* the log: running, path, flog, counter, full
    buffered,       \* pieces that stdio holds
    part,           \* pieces of the message that are still to be written
    written,        \* how many pieces fwrite took
    since           \* name -> the pieces that went to the file since it began, and
                    \* whether its .OLD has a part of them

lvars == <<day, disk, hr, buffered, part, written, since>>

Files == ToSet(FileNames)
NameOf(d) == FileNames[(d % Len(FileNames)) + 1]

ASSUME RotatoryAssumption ==
    /\ FileNames \in Seq(Files) /\ FileNames # <<>>
    /\ MaxSize \in Nat /\ StatvfsEach \in Nat \ {0}

Begun == [pieces |-> <<>>, old |-> FALSE]

LogInit ==
    /\ day = 0
    /\ disk = [now |-> [n \in Files |-> Absent], old |-> [n \in Files |-> Absent]]
    /\ hr = [running |-> FALSE, path |-> NameOf(0), open |-> FALSE, counter |-> 0, full |-> FALSE]
    /\ buffered = <<>> /\ part = <<>> /\ written = 0
    /\ since = [n \in Files |-> Begun]

\* fflush, to a file that is there or was removed.
Flushed == IF disk.now[hr.path] = Absent THEN disk.now
           ELSE [disk.now EXCEPT ![hr.path] = @ \o buffered]

-----------------------------------------------------------------------------
(* The life of the log *)

\* rotatory_open: the file of today, which goes on if it is there.  That the disk was
\* full is a static of the process.
OpenLog ==
    LET n == NameOf(day) IN
    /\ ~hr.running
    /\ hr' = [running |-> TRUE, path |-> n, open |-> TRUE, counter |-> 0, full |-> hr.full]
    /\ disk' = [disk EXCEPT !.now[n] = IF @ = Absent THEN <<>> ELSE @]
    /\ UNCHANGED <<day, buffered, part, written, since>>

\* rotatory_close, between two messages.
CloseLog ==
    /\ hr.running /\ part = <<>>
    /\ disk' = [disk EXCEPT !.now = Flushed]
    /\ buffered' = <<>>
    /\ hr' = [hr EXCEPT !.running = FALSE, !.open = FALSE]
    /\ UNCHANGED <<day, part, written, since>>

\* rotatory_flush, or stdio whose buffer is full.
Flush ==
    /\ buffered # <<>>
    /\ disk' = [disk EXCEPT !.now = Flushed]
    /\ buffered' = <<>>
    /\ UNCHANGED <<day, hr, part, written, since>>

\* rotatory_trunk
Trunk ==
    /\ hr.open /\ part = <<>>
    /\ disk' = [disk EXCEPT !.now[hr.path] = <<>>]
    /\ buffered' = <<>>
    /\ since' = [since EXCEPT ![hr.path] = Begun]
    /\ UNCHANGED <<day, hr, part, written>>

-----------------------------------------------------------------------------
(* rotatory_write *)

\* A message: its header, which an audit message has not, its text and a newline.
Write == \E n \in {2, 3} :
    /\ hr.running /\ part = <<>> /\ written + n <= MaxPieces
    /\ part' = [i \in 1 .. n |-> i]
    /\ UNCHANGED <<day, disk, hr, buffered, written, since>>

\* The state of _rotatory between its parts.
Now == [disk |-> disk, hr |-> hr, buffered |-> buffered, since |-> since]

\* The file is closed, when it is open.
Closed(s) == IF ~s.hr.open THEN s
             ELSE [s EXCEPT !.disk.now = Flushed, !.hr.open = FALSE, !.buffered = <<>>]

\* Mutant: a file does not take the place of the .OLD of before.
BugRolled(s) ==
    LET c == Closed(s)  p == hr.path IN
    IF c.disk.old[p] # Absent THEN c
    ELSE [c EXCEPT !.disk.old[p] = c.disk.now[p], !.disk.now[p] = Absent, !.since[p].old = TRUE]

\* A file that is too long goes to its .OLD, in the place of the one before; when it
\* cannot be renamed it stays, and is then truncated.
Rolled(s) ==
    LET c == Closed(s)  p == hr.path IN
    IF "rename" \in Faults THEN [c EXCEPT !.disk.old[p] = Absent, !.since[p].old = FALSE]
    ELSE [c EXCEPT !.disk.old[p] = c.disk.now[p], !.disk.now[p] = Absent, !.since[p].old = TRUE]

\* What of a file on disk counts: what stdio holds does not.
TooLong == hr.open /\ disk.now[hr.path] # Absent /\ Len(disk.now[hr.path]) > MaxSize

\* _get_rotatory_filename: the date gives another name, or the file is not there.
ChangeFile == NameOf(day) # hr.path \/ disk.now[hr.path] = Absent

\* The file of today is made, or emptied.  What it had is of no use any more, unless
\* it has just gone to its .OLD.
Changed(s) ==
    LET n == NameOf(day)
        c == [Closed(s) EXCEPT !.hr.path = n]
    IN  {[c EXCEPT !.disk.now[n] = <<>>, !.hr.open = TRUE,
                   !.since[n] = IF TooLong /\ n = hr.path THEN @ ELSE Begun]}
        \cup IF "open" \in Faults THEN {c} ELSE {}

\* The file as _rotatory writes in it.
Ready ==
    LET s == IF TooLong THEN Rolled(Now) ELSE Now
    IN  IF TooLong \/ ChangeFile THEN Changed(s) ELSE {s}

Became(s) == disk' = s.disk /\ hr' = s.hr /\ buffered' = s.buffered /\ since' = s.since

\* _rotatory.  When the disk is full, or has been once, nothing is written; a write
\* that fails closes the file.
Piece ==
    /\ part # <<>> /\ part' = Tail(part)
    /\ UNCHANGED day
    /\ \/ hr.full /\ UNCHANGED <<disk, hr, buffered, since, written>>
       \/ /\ ~hr.full
          /\ \E s \in Ready :
                LET p == s.hr.path
                    c == (s.hr.counter + 1) % StatvfsEach
                IN
                \/ /\ ~s.hr.open
                   /\ Became(IF TooLong \/ ChangeFile THEN s ELSE [s EXCEPT !.hr.counter = c])
                   /\ UNCHANGED written
                \/ /\ s.hr.open /\ c = 0
                   /\ Became([s EXCEPT !.hr.counter = c, !.hr.full = TRUE, !.buffered = <<>>,
                                       !.disk.now[p] = @ \o s.buffered])
                   /\ UNCHANGED written
                \/ /\ s.hr.open
                   /\ written' = written + 1
                   /\ Became([s EXCEPT !.hr.counter = c, !.buffered = Append(@, written'),
                                       !.since[p].pieces = Append(@, written')])
                \/ /\ s.hr.open /\ "write" \in Faults
                   /\ Became([s EXCEPT !.hr.counter = c, !.hr.open = FALSE, !.buffered = <<>>,
                                       !.disk.now[p] = @ \o s.buffered])
                   /\ UNCHANGED written

-----------------------------------------------------------------------------
(* The world *)

Tick == day < MaxDay /\ day' = day + 1 /\ UNCHANGED <<disk, hr, buffered, part, written, since>>

\* Someone removes a file, not one that is to go to its .OLD: what stdio holds for it
\* goes with it.
RemoveFile == \E n \in Files :
    /\ disk.now[n] # Absent /\ ~(n = hr.path /\ TooLong)
    /\ disk' = [disk EXCEPT !.now[n] = Absent]
    /\ buffered' = IF n = hr.path THEN <<>> ELSE buffered
    /\ since' = [since EXCEPT ![n] = Begun]
    /\ UNCHANGED <<day, hr, part, written>>

\* The process dies: what stdio holds is lost.
Die ==
    /\ hr.running
    /\ hr' = [hr EXCEPT !.running = FALSE, !.open = FALSE, !.full = FALSE]
    /\ buffered' = <<>> /\ part' = <<>>
    /\ since' = [since EXCEPT ![hr.path].pieces = SubSeq(@, 1, Len(@) - Len(buffered))]
    /\ UNCHANGED <<day, disk, written>>

LogNext == OpenLog \/ CloseLog \/ Flush \/ Trunk \/ Write \/ Piece \/ Tick \/ RemoveFile \/ Die

LogSpec == LogInit /\ [][LogNext]_lvars

-----------------------------------------------------------------------------

\* What is left of the pieces of a file.
Kept(n) ==
    (IF since[n].old THEN disk.old[n] ELSE <<>>)
    \o (IF disk.now[n] = Absent THEN <<>> ELSE disk.now[n])
    \o (IF n = hr.path THEN buffered ELSE <<>>)

\* 03_rotatory.c: of every file, the last pieces that went to it are there, in their order and
\* without a gap: all of them, or more than a file too long has.
KeepsRecent == \A n \in Files :
    /\ IsSuffix(Kept(n), since[n].pieces)
    /\ Len(Kept(n)) < Len(since[n].pieces) => Len(Kept(n)) > MaxSize

=============================================================================
