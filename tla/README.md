# ghelpers in TLA+

A verification development of `ghelpers`, the C library of the gobj ecosystem.
Paths below are those of the repository; file names alone are in `src/src/`.

The library is single-threaded but for its memory manager: a call runs straight
from its beginning to its end on the thread that makes it, and there is no
scheduler in it. What makes it hard is what survives it and what shares it: a
database on flat files that one process writes and others read, with no lock but
one; a process that may die between any two system calls; state kept twice, in a
file and in memory, or on both sides of a link; callbacks that call the library
again; and memory, buffers and references that many callers hold.

## 1. The system

### 1.1 Components

| Component | State | Operations | Where it is hard |
|---|---|---|---|
| **TimeRanger, record store** (`30_timeranger.c`) | `topic_idx.md` (one metadata record of a fixed size a row), content files by date, the lock on `__timeranger__.json`, `__last_rowid__` in the memory of each process | startup, append, delete, user flags, mark1, get record, read content | two files written one after the other; short writes; a reader that races the writer; results that nobody looks at |
| **TimeRanger, files of a topic** (same file, `13_json_helper.c`, `02_dirs.c`) | the directory of the topic with five entries, its `.bak`, `__timeranger__.json`; the open topic in memory | startup, create and upgrade a topic, open, close, delete, back up, write variables and columns | crashes in the middle of a sequence of file operations; descriptors that follow a renamed directory; who may write |
| **TimeRanger, walks and match conditions** (same file) | the position of a walk, `__last_rowid__` of a reader | open list, find record, first/last/next/prev record, match record | bounds that count back from the end, conditions that end the walk, deleted records, readers behind the writer |
| **TimeRanger, live lists** (same file) | the array of open lists of a topic | open list (load), append (delivery), close list | callbacks that append, open or close while a list is walked; a callback that refuses |
| **Persistent queue** (`31_tr_queue.c`) | the PENDING bit of each row, `first_rowid` and `backup_queue_size` in `topic_var.json`, the list of messages in memory | open, load, load all, append, set flag, unload, check backup, close | `first_rowid` is a cache of "no pending row before"; backup in four steps |
| **Tree database** (`31_tr_treedb.c`) | nodes in memory by id and by secondary keys, links kept on both sides, a topic for each kind of node, a schema file | open (load), create, update, delete, clean, link, unlink, snaps, queries | memory must be what a load gives; both sides of a link; what of a column is saved |
| **Messages** (`31_tr_msg.c`), **message database** (`31_tr_msg2db.c`) | instances of each key and the active one; messages by two keys | open list, append, data tree; open, append | forward and backward loads must agree with what was appended |
| **Dictionary and JSON helpers** (`14_kw.c`, `13_json_helper.c`) | none of their own | access by path, records in lists and dicts, comparison, sets, sorts, gbuffers in dicts | dozens of functions over one structure, who owns what, types that do not fit |
| **Memory manager** (`11_gbmem.c`) | superblocks, free lists, memory in use | malloc, free, realloc, startup, shutdown | pieces given for smaller sizes; a realloc between two locks |
| **Lists** (`02_dl_list.c`, `12_rc_list.c`) | pointers, counters; instances of resources and their twins | insert, delete, flush, walks with callbacks | links on two sides; what a callback may free |
| **Growing buffers** (`20_gbuffer.c`) | memory up to a limit, then a file with one place for reads and writes; reference count | append, get, find, printf, base64, copies, JSON streams | the passage from memory to file; a window on a file |
| **Log rotation** (`03_rotatory.c`), **logger** (`10_glogger.c`) | the open file; handlers and counters | write, change of file, roll; log | dates that change between two pieces; handlers that log, add and delete |
| **Statistics** (`20_stats_*.c`) | values of the current range, partial values on disk, files by period | add, save, close; read | names that are used again; crashes; upgrades |
| **Circular FIFO** (`12_circular_fifo.c`), **grow buffers** (`11_growbuffer.c`) | | | no caller in the repository |
| **JSON configuration, strings, time, urls, files, processes, output** | almost none | conversions and system calls | not in a model checker's reach or interest |
| Vendored code (`00_*`, `21_termbox`) | | | not modelled |

### 1.2 How they interact

* The queue, the tree database and the message modules are clients of TimeRanger
  in the same process. They call it (`tranger_append_record`,
  `tranger_set_user_flag`, `tranger_backup_topic`...) and are called back for each
  record of a list, while it is loaded and then at every append.
* Processes meet on the disk only. The `flock` of `__timeranger__.json` makes one
  of them the master; the others read the same files with no coordination.
* A critical error ends the process when `on_critical_error` says so, which is
  the default (`10_glogger.c` 1149-1158).
* Records, filters, schemas and links are JSON values that the functions of kw and
  of the JSON helpers read and change; gbuffers travel in them as integers.
* The logger writes to handlers; a rotatory file is one of them. `gbmem` gives the
  memory of everything.

### 1.3 What should hold

* *Record store.* Every index record points at its own whole content. A record
  whose append was reported stays. A read that races a deletion returns the
  content or the blank, never another record's. `__last_rowid__` of the master is
  the size of the index.
* *Files of a topic.* Wherever a process dies (but while it makes or removes a directory
  or writes the columns), the next one can create and open the topic; its columns are those of its version; no descriptor of the master is
  left in the backup; no record is lost.
* *Walks.* What is delivered is what meets the conditions, in order, all of it.
* *Live lists.* Each matching record reaches each open list once, in order.
* *Queue.* A load finds every pending message, whatever crashes and backups came
  before; each message carries its own row; an acknowledged one does not return.
* *Tree database.* The memory is what a load would give; both sides of a link
  agree, and so do the answers from either side; a snap keeps its nodes, but for those
  deleted with force; a link
  that can be made is taken back by a load; a node that was loaded is saved as it is.
* *Messages.* What a list or an index keeps is what the messages say, whatever the
  direction it was loaded in.
* *Dicts.* A dict of dicts is a map from paths; a list of records and a dict of them
  are one store; comparison does not depend on order; references are counted.
* *Libraries below.* No block of memory is shared or lost; pointers are the sequence
  a list stands for; a gbuffer is a stream of bytes; a log and a statistics file say
  what was written; each handler gets each message once.

The hazards behind these, with the line where each one bites, are in
`PROJECT.json`, and with them the findings: what the code does and a comment, a
header or the code around it says otherwise.

## 2. The modules

| Module | Models | Composes |
|---|---|---|
| `PersistentQueue` | what a persistent queue promises, with no word on files | |
| `TrQueue` | `31_tr_queue.c` over one topic, with a process that may die at any step | implements `PersistentQueue` |
| `RecordLog` | what a topic promises: a log whose entries stay and may be erased | |
| `TimeRanger` | records of one topic: master, readers, short writes, deaths | implements `RecordLog` |
| `TopicFiles` | files of a database and of one topic, one file operation a step | |
| `MatchRecord` | a walk through a topic under a match condition | in `MCTopicLists` |
| `TopicLists` | the open lists of a topic, and callbacks that call the library again | in `MCTopicLists` |
| `LinkedTree` | what treedb promises: nodes with links to nodes that are there | |
| `TreeDb` | `31_tr_treedb.c`: nodes, indices, links, loads, snaps, over the rows of its topics | implements `LinkedTree` |
| `TreeQuery` | what treedb answers about the tree of `TreeDb` | extends `TreeDb` |
| `TreeCols` | one column of a node, with every type, flag and value: record, memory, load | in `MCTreeData` |
| `TreeSchema` | which schema is opened, which topics are made, which hooks are parsed | in `MCTreeData` |
| `TrMsg` | `31_tr_msg.c` and `31_tr_msg2db.c`: two memories of one topic of messages | |
| `JsonValue` | JSON values as jansson has them | extended by the next four |
| `FlatDict`, `Kw` | what the functions on paths promise; those of `14_kw.c` | `Kw` implements `FlatDict` |
| `KwCompare` | when two values are the same | in `MCTreeData` |
| `KwRecords` | the same calls on a list and on a dict of records | in `MCTreeData` |
| `JsonHelper` | lists, sets, sorts, records from descriptions, reference counts | in `MCTreeData` |
| `KwOwners` | kws with gbuffers in them, and who has references of both | in `MCTreeData` |
| `GbMem` | `11_gbmem.c`, by block, with threads | |
| `DlList` | `02_dl_list.c`, pointer by pointer | in `MCLists` |
| `RcList` | `12_rc_list.c` over the sequences that `DlList` proves its lists to be | in `MCLists` |
| `ByteStream`, `GBuffer` | what a gbuffer promises; `20_gbuffer.c` | `GBuffer` implements `ByteStream` |
| `JsonStream` | the stream parsers of `20_gbuffer.c` | in `MCSupport` |
| `Rotatory`, `Logger`, `Stats` | `03_rotatory.c`, `10_glogger.c`, `20_stats_*.c` | in `MCSupport` |
| `*_proofs` | proofs about the module they are named after, its refinement included; those of `RcList` are in `DlList_proofs`, of `MatchRecord` in `TopicLists_proofs`, of `GbMem`, `KwOwners`, `Logger` and `Rotatory` in `Support_proofs` | |
| `MC*` | values of the constants for TLC | |

The layers abstract each other. `TimeRanger` splits an append into the write of the
content and that of the metadata; `TrQueue`, `TopicFiles`, `TreeDb` and `TrMsg` take it
as one step, which is what `RecordLog` allows. `TopicFiles` splits a creation, a backup
and the write of a json file into file operations; `TrQueue` has the steps of a backup
that leave different disks and, like `TopicFiles`, the truncation of `topic_var.json`
before it is written. `TreeDb` takes columns to hold what they are given and hooks to
be parsed as the schema says; `TreeCols` and `TreeSchema` are about that. `MC` modules
that hold several models (`MCTopicLists`, `MCTreeData`, `MCLists`, `MCSupport`) choose one
in the initial state, in the variable `library`: no step is of two of them.

### 2.1 TrQueue

| Variable | In the code |
|---|---|
| `dir`, `idx`, `var`, `bak` | the directory of the topic; the rows of `topic_idx.md` (message and PENDING bit); `first_rowid` and `backup_queue_size` in `topic_var.json`; the rows of the backup |
| `role`, `topic`, `q`, `mode` | `tranger->master`; the variables of the open topic; `dl_q_msg`; which load filled it |
| `pc`, `after` | where the running call is, and where it goes when `topic_var.json` is written |
| `cond`, `cursor`, `found` | the match condition of the load, its position, and the static `first_rowid` of the callback |

One action for each function of the interface, and a step for each point inside
it after which the disk is different: `StartWriteVar`/`EndWriteVar` (a json file
is truncated, then written), `LoadRecord`/`LoadEnd`, and `BackupRemove`,
`BackupRename`, `BackupCreate`, `BackupZero`. `Stop` is `trq_close` or a death at
any of those points.

### 2.2 TimeRanger

`md` and `tail` are the whole records of `topic_idx.md` and whether a partial one
follows; `cells` the content files, one for each value of the file-name mask, a
record's content one cell; `lock` the holder of the flock. Each process has a
`role`, its `__last_rowid__` (`last`), the step of its call (`pc`) and the
`md_record` it works with (`rec`). A `write()` is one step that may be cut short.
`AppendContent`, `AppendMd` are the two writes of `tranger_append_record`;
`DeleteBlank`, `DeleteMark` those of `tranger_delete_record`; `GetRecord`,
`ReadContent` the two reads of a record, between which the master may do anything.

### 2.3 TopicFiles

A call is the sequence of file operations it still has to do (`todo`); each is
taken off and done by one action, and the process may die before any of them.
`dir` and `bak` are directories with their five entries, each json file with its
state (absent, torn, whole) and version, and a number that a rename keeps; `mem` is
the open topic of a process: the directory of its descriptors, and the variables
and columns it has read.

### 2.4 MatchRecord and TopicLists

One behaviour of `MatchRecord` is one walk: `tranger_open_list`'s loop, or
`tranger_find_record`'s (`find`), over a topic that does not change. `Checks` is
`tranger_match_record`: its conditions in the order of the code, each with whether its
failure ends the walk. `Wanted` is the reference: what it is for a record to meet the
conditions, each bound counted from the last record there is and in numbers that do not
wrap; `Ahead` is the order of the walk. `known` is `__last_rowid__`, which a reader may
have less of than there is.

In `TopicLists`, `lists` is the array `topic->lists`. The calls in progress are a stack
of frames: the loop of `tranger_open_list` at a row (`load`), the loop of
`tranger_append_record` at a place of the array (`deliver`), and a `callback`, from
which `OpenList`, `CloseList` and `AppendRecord` may be called again. `Return`,
`BreakLoad` and `BreakAppend` are what a callback's return value does. `got` is what
the callback of each list was given, `owed` what it should have been given. A walk
is a forward one and a match condition the set of kinds a list wants: `MatchRecord`
says what they are.

### 2.5 TreeDb and LinkedTree

`log` has the rows of each topic: an image of a node, the tag of the snap it was
saved with, and mark1. `snaps` are the nodes of `__snaps__`. A node in memory is an
object of the `heap`, since hooks and secondary indices go on holding one that the
primary index (`prim`) no longer has; `sec` is the index by `pkey2s`. In an object, `up`
is what its fkeys name and `down` what its hooks hold. `Open` is a load: `LoadRow` walks
the rows backward, as `load_id_callback` does, a mark hides the rows before it, and
`load_all_links` rebuilds `down` from `up`. `ShootSnap` saves and flags one node a step;
`ActivateSnap` and `ActivateEnd` are the two saves of an activation; a process may die
between any of these (`Close` is a close or a death).

An index or a hook is walked by the code in an order (`load_all_links`, removals from an
array); `InOrder`, which lists a set by an order of it, and `Taken`, a sequence without
some of its places, stand for those walks, so that what they make is an expression and
not a recursion. The constants are constrained (`TreeDbAssumption`) as a schema and
JSON are: an fkey belongs to one hook; a hook has one name in its topic, one type and
one fkey in each child topic; two children of one dict hook have two ids (`DictIdsApart`:
the dict is keyed by the id alone); `Nil` is none of the things it stands for the lack of
(`NilIsNoNode`).

`LinkedTree` has only nodes with a value and parents. Its state is `Tree` of `TreeDb`:
the nodes and fkeys in memory while the main line is open (`MainOf`), and what a load
with no snap would give while it is not. `IsTree` says that every step of treedb changes
one node at most, and in one of the four ways of a tree.

### 2.6 TreeQuery, TreeCols, TreeSchema

`TreeQuery` adds no state: its operators are the queries (`treedb_get_node`,
`treedb_list_nodes` with each kind of filter, `treedb_list_parents`,
`treedb_node_childs`, `treedb_node_jtree`, `treedb_list_instances`...), evaluated in every
tree that can be built, cycles included. The depth of those that do not stop at
a cycle is bounded.

`TreeCols` follows one column through `record2tranger`, `set_tranger_field_value`,
`set_volatil_field_value`, the load and `treedb_clean_node`: `stored` is its field in the
last record, `node` in memory. Every type and every flag that changes what is done
is tried with a value of each type.

`TreeSchema` is `treedb_open_db` and the topics around it: the schema of the file or of
the caller, by version; `parse_schema` and `parse_hooks` with the errors that are only
logged (`wrong`); `fkeys`, what each fkey remembers of the hook that was parsed last;
and `descs`, the references of the static `topic_cols_desc`.

### 2.7 TrMsg

`rows` is the topic, a message named by its rowid. `list` is a list of `31_tr_msg.c` with
its conditions: the instances of each key and the active one, which `Receive`
(`load_record_callback`) changes for each record of a load or an append: the same code
in either direction, and that is the question. A load (`OpenList`, then a `LoadRecord` for
each record) is not interleaved with other calls, and `read` counts what it has done; `at`,
the size of the topic when it began, tells what a backward load has left. `data` is the hook that
`trmsg_data_tree` adds to messages. `index` is that of `31_tr_msg2db.c`.

### 2.8 Kw, FlatDict, KwCompare, KwRecords, JsonHelper

A value is a type and a content. `Kw` has one dict, and one call a step: what a
set, get, delete or append by path does with every shape of dict and path, what it
returns, and whether it says an error. `FlatDict` sees a map from paths to leaves; `Flat`
is the mapping. A call that changes nothing ends the behaviour, and `done` says so.

`KwCompare` compares two values, one pair a behaviour, by each function that compares.
`KwRecords` makes the same call on a list and on a dict of id records, and on a list
kept in the order of a field. `JsonHelper` has one list and its calls, and, for each
initial value, the records and the counts that are made of descriptions.

### 2.9 KwOwners

`obj` is each kw with its references, its keys and the gbuffer it has; `buf` the
references of each gbuffer; `hand` those that callers were given. Each function of kw
that takes, gives or copies a kw is an action that changes both counts as the code
does: `kw_incref` and `kw_decref` go through the binary fields, `json_incref` does not.
`Owners` is who should have a reference of a gbuffer: each reference of each kw it is in.

### 2.10 GbMem

Memory is numbered by superblock and block. `pool[n]` is the free list of pieces of n
blocks, `avail` and `amtAvail` the rest of the current superblock, `used` the pieces in
use. `Malloc` is a choice between the cases of `_mem_malloc`, in its order: a free
piece of the size, the current superblock, a new one, a free piece of a larger size.
`ReallocTake` and `ReallocFree` are the two locked parts of `_mem_realloc`; `moving` is a
thread between them.

### 2.11 DlList and RcList

`DlList` has `head`, `tail`, `size`, `prev`, `next` and `owner` as the code has them, and
`order`, the sequence that each list stands for, which each function changes in the
way it promises; `flushing` is a `dl_flush` whose free function may change any list.
`RcList` takes the lists to be sequences. An instance is in the list of an iter
or of the children of a resource (`list`) and its twin in `inner`; `walk` is a walk in
progress with its frames, whose callback may destroy what the code lets it. A frame has
what the variables of a loop hold. Every loop reads its next item before the callback
and before it goes into the children of the current one; most do not look at the current
one again, so their frame is already at the next. Only from bottom to top does a loop hold
both while it is in the children, the current item to call it back and the next to go on
(`next_i`, `next`). `OnlyCurrent` is the comment of the loops, "This let destroy the
current item, but NOT more ones": a callback takes nothing that a loop of the walk holds,
its own or one around it. It is asked of the caller, for the code does not look: if a
child's callback deletes a resource that is also the next item of the list above, the walk
goes on from a freed instance (`destroy_more`). `Family`,
what a deletion takes with a resource, is the smallest set closed under children, and
`Keep` is a list without some instances, by the places that are left: definitions one
can prove about. A behaviour of `MCLists` is of one of the two libraries.

### 2.12 GBuffer, ByteStream, JsonStream

A gbuffer is a record with the fields of `GBUFFER`; its bytes are numbered as they are
put, so a byte that is lost, repeated or read twice is seen. `SetWritting` is
`_set_writting`, which moves the one place of the file between reads and writes.
`ByteStream` has, of each gbuffer, its bytes and how many of them were read; `answer`
is what the last read gave. It says nothing of `max_disk_size`, which a printf in a
file passes (`gbuf_append` does not). Lines, searches, strings and base64 are of a
gbuffer in memory: the code reads them from the window, whatever a file holds.
`JsonStream` reads a file character by character and cuts it at the
braces that close, as both `stream_json_filename_parser` functions do.

### 2.13 Rotatory, Logger, Stats

`Rotatory` writes the pieces of a message (priority, text, newline) one by one; between
two of them the date may change, the file may be too long, the disk full, a call fail,
and the process die with what stdio holds (`buffered`). `since` is a history: what went
to each file since it began.

`Logger` has a walk over the handlers in progress (`walk`), from which a write function
may log (ignored: `inside`), add handlers and delete others. The functions that log
differ in priority, counter and way of walking: `AllFunctions` is their table. `Unnamed`
is the list without the handlers of a name, by the places that are left.

`Stats` has one variable and its metrics: values of the range in memory
(`variable`), at the last save (`partial`), in files (`stored`) and in a FILE that is not
flushed (`opened`). Masks are names used again after a cycle. `AddValue` is
`wstats_add_value`, with the change of range and of file; a reader is `MetricsRead`.

### 2.14 Discipline and liberties

The code trusts its callers in several places. Each model states the discipline
under which the code keeps its promises, and a constant (`Liberties`, `Quirks`, in
`RcList` `Callers`, in `Rotatory` `Faults`) gives up one part of it at a time; with any
of them TLC finds a property, such as the one in the last column, violated. The
passing runs take none, a violation run exactly one. They are the map of what a change
of the code would have to repair before a caller may do more.

| Module | Liberty | What it allows | Breaks |
|---|---|---|---|
| TrQueue | `crash_in_backup` | death between the re-creation of the topic and the reset of `first_rowid` | `NoPendingLost` |
| | `backup_pending` | `trq_check_backup` on a queue with messages or not loaded | `BackupKeepsPending` |
| | `revive` | PENDING set again on a row before `first_rowid` | `NoPendingLost` |
| | `load_again` | `trq_load` twice, or `trq_append` before it | `InOrder` |
| | `reader_append`, `reader_backup` | these calls by a process that is not the master | `OwnRow`, `ReadOnlyReader` |
| | `Keyless # {}` | messages without the key of the topic | `OwnRow` |
| TimeRanger | `ExitOnCritical = FALSE` | critical errors only logged | `Durable` |
| TopicFiles | `fragile` | death while a directory is made or removed, or between the truncation and the write of the columns | `SurvivesCuts` |
| | `downgrade` | a caller with an older `topic_version` than another | `SurvivesCuts` |
| | `reader_version`, `reader_removes` | a reader that gives a newer version, or deletes or backs up | `SurvivesCuts` |
| MatchRecord | `unsorted` | `__t__` that does not grow along the topic | `FoundIsExpected` |
| | `far` | a negative bound before the first record, or a backward walk from beyond the last | `FoundIsExpected` |
| | `deleted` | a walk asked to start at a deleted record, or relative to a deleted last one | `FoundIsExpected` |
| | `stale` | a negative bound or a backward walk for a reader that is behind | `FoundIsExpected` |
| | `notkey` | the condition `notkey`, which reads `key` | `FoundIsExpected` |
| TopicLists | `append_in_load` | a callback that appends while a list is loaded | `ListsServed` |
| | `open_in_append` | ... that opens a list in an append | `ListsServed` |
| | `append_in_append` | ... that appends in an append that has other lists to go to | `ListsServed` |
| | `close_in_append` | ... that closes a list the append has passed, with others to go to | `ListsServed` |
| | `negative_in_append` | ... that returns a negative value, with others to go to | `ListsServed` |
| | `backup` | `tranger_backup_topic` with lists open | `ListsServed` |
| TreeDb | `relink` | link a string fkey that has a parent, or a child that a dict hook has | `LinksAgree` |
| | `unlink_other` | unlink what is not linked | `LinksAgree` |
| | `force_children` | delete with force a node that has children | `LoadGivesMemory` |
| | `instances` | create an id again with another secondary key | `LoadGivesMemory` |
| | `rekey` | update the secondary key | `LoadGivesMemory` |
| | `bad_value` | update with a value of another type | `LoadGivesMemory` |
| | `bad_autolink` | autolink to a parent that is not there | `LoadGivesMemory` |
| | `save_fails` | an append that fails | `LoadGivesMemory` |
| | `write_in_snap` | write while a snap is loaded | `LoadGivesMemory` |
| | `delete_shot` | delete a node that this session shot | `SnapHasNodes` |
| TrMsg | `reject` | `match_fields`, or the callback of the list, rejects a message | `KeepsLastGiven` |
| | `tree_again` | `trmsg_data_tree` twice for one active message | `TreeShowsEachOnce` |
| | `empty_key2` | append a message with an empty pkey2 | `IndexIsLoad` |
| DlList | `move` | `dl_move` with lists that have items | `Linked` |
| | `foreign` | insert before or after an item of another list | `Linked` |
| RcList | `free_parent`, `keep_parent`, `two_parents` | free a resource that has children, keep a child without its parent, give it a second one | `ResourcesSound` |
| | `destroy_on` | a callback that destroys the current resource and goes on, from top to bottom | `ResourcesSound` |
| | `destroy_more` | a callback that destroys, with the current one, what a loop of the walk holds: its next item, or from bottom to top the current or the next item of a loop around it | `ResourcesSound` |
| GBuffer | `printf_disk`, `printf_full`, `printf_fail` | a printf that does not fit in what there is | `StreamSpec` |
| | `get_beyond`, `rd_file`, `wr_file` | a get of more than there is, or places moved, in a file | `StreamSpec` |
| | `binary` | null bytes (`Nuls`) in what is read as a string | `StreamSpec` |
| KwOwners | `clone`, `copy`, `delete` | clones, copies and deletions of keys of a kw with a gbuffer in it | `OwnersCount` |
| Rotatory | `rename` in `Faults` | a rename that fails | `KeepsRecent` |

`GbMem` needs no liberty: its threads call `malloc`, `free` and `realloc` at any time, on
pieces that are theirs.

## 3. What is checked

| Run | Bounds | Shows |
|---|---|---|
| `TrQueue` | 3 messages, a backup above 1 row, masters and readers in turn | the queue's invariants, that a call settles, and the refinement of `PersistentQueue` |
| `TrQueue_backup_crash` | 4 messages | violation of `NoPendingLost` by a death at `31_tr_queue.c:701` |
| `TimeRanger` | 2 processes, 2 messages, 2 content files, 1 user flag, 1 short write | the store's invariants, that rows keep their place, and the refinement of `RecordLog` |
| `TopicFiles` | 2 processes, 2 records, versions 0 to 2, 2 directories | `SurvivesCuts`: a creation after any cut leaves a whole topic of one version; `OwnFiles`; `NothingLost` |
| `TopicFiles_backup_read` | a reader during a backup | violation of `ReadOneTopic` |
| `TopicLists` | 3 lists, one of which wants 1 of 2 kinds, 3 records, 4 openings, 5 calls in progress; walks over every topic of up to 3 rows with two times, two keys, deleted or not, under every range of rowids from -2 to 4, of times from -2 to 3, and topics of 2 rows with two flag bits under every flag condition | `ListsServed`: every open list was given each matching record, once and in order, when the library is at rest; `FoundIsExpected`: a walk delivers exactly what it should |
| `TreeDb` | 2 departments and a user, 5 rows in all, a snap, two secondary keys, a bad value | links agree, a load gives the memory, a snap keeps its nodes, the refinement of `LinkedTree` |
| `TreeData` | see below | columns, queries, schemas, dicts, kws, stores and lists |
| `TrMsg` | 4 messages of 2 keys, 2 secondary keys and 3 times; lists of all, 1 or 2 instances, each order and direction | the active message and the instances kept are the last ones given, the tree shows each once, the index is what a load gives |
| `GbMem` | 2 threads, pieces of up to 3 blocks, 2 superblocks of 4, sizes 0, 8, 40 and 41 with blocks of 16 | no memory is shared or lost |
| `Lists` | 2 lists and 4 items; 2 iters, 3 resources and 4 instances | pointers, twins, parents, walks |
| `Support` | see below | gbuffers, JSON streams, logs, the logger, statistics |

`TreeData`, of each model: schemas of 3 versions in 5 calls; every column of 9 types,
12 sets of flags and 3 defaults with 17 values in 5 calls; trees of 3 departments and a
user in 8 rows; dicts of 3 calls, up to 5 deep, with 4 paths; 2 kws and 2 gbuffers; pairs
of some 60 records; stores of 3 records; lists of 4 of 9 items. `Support`: 2 gbuffers of 2
to 4 bytes in memory and 0 or 7 in a file, 6 calls of up to 3 bytes; files of 6 of 5
characters; a log of 3 days in 2 file names, 1 piece a file, 5 pieces; 3 handlers and 2
messages; a variable of 2 metrics, 3 values in 5 units of time, an upgrade and a crash.

*Why the bounds are enough.* A queue needs three messages for one to be pending
before, at and after `first_rowid`, and one of them to be left when a backup is
made above one row; the counter-example for a stale `first_rowid` needs a fourth.
In the record store an interaction is between one writer and one reader, or
between a record and its neighbour in the same or in another content file: two of
each. For files, two processes give every race that three would, as one lock and
one directory are all they share; two directories are the topic and its backup; 0,
1 and 2 are no version, an old and a new one. A walk of three rows has a first, a
last and one between them that may be deleted or may end the walk. Three lists are
one that is called, one before it and one behind it; five calls in progress are an
append, its callback, a call made by that, its callback, and one call more; a list
is opened a second time, behind those that stayed. A tree of two departments has
chains, cycles of two, and a child with two parents; its five rows let the snap keep
nodes that are saved or deleted afterwards; three departments and eight rows, with no
snap, are there for cycles and chains of three in the queries. Four messages are one
more than a key needs to have an active one, one before it and one that goes. Pieces
of one to three blocks in superblocks of four leave rests of each size, and two
superblocks are one that is used up and one that is not. Four items in two lists make a
first, a last and one between them with one in the other list. A gbuffer of
2, 4 and 7 bytes grows, goes to its file and fills it within six calls; each
statistics file is used again within five units of time. `Msgs`, `MaxRows`, `MaxCalls`,
`MaxKwCalls`, `MaxSteps`, `MaxGens`, `Shorts`, `MaxPieces`, `MaxAdds` and the other
`Max` constants bound counters that the code does not bound.

`W`, the width of the integers of a record, is 16 in the run: only that a negative
sum becomes larger than every rowid and every time matters, and `far` is the
liberty under which it happens.

*Deadlock.* It is checked in `TrQueue`, `TimeRanger`, `TopicFiles` and `TrMsg`, which can
always start or stop a process or close a list. The models that count the calls of a
behaviour, and those whose behaviours end (walks, conversions, comparisons), stop at
the bound. No code modelled here waits for anything but the locks of `gbmem`, of
which there is one.

*Fairness.* Only `Settles` needs any: weak fairness of `Internal`, the steps that a
call takes once it has begun. The library has no yield points: a call that has begun
runs to its end unless the process dies, and `Stop` is not fair. Nothing says that a
process is started or a call is made.

*Mutants.* Each property of a passing run has, beside the definition it depends on, a
`Bug...` definition: the same code with a bug it might have (a dropped guard, a bound
off by one, a count that is not reset). With it in the place of the right one TLC finds
the property violated in that run.

## 4. What is proved

Every safety property of the runs `TrQueue`, `TimeRanger`, `TopicFiles`, `TopicLists`,
`TrMsg`, `TreeDb` and `GbMem`, `Linked` of `DlList`, `ResourcesSound` of `RcList`,
`OwnersCount` of `KwOwners`, `Delivered` of `Logger` and `KeepsRecent` of `Rotatory` are
proved for every value of the constants: any number of messages, processes, lists, nodes,
links, snaps, threads, files or calls in progress, and any topic and match condition.
Each `*_proofs` module has the inductive invariant (`IInv`), a lemma for each action, and
the theorems that follow; action properties and refinements rest on the invariants.
Where a discipline is assumed (`Liberties = {}`), it is that of the passing run: the
liberties are those of 2.14, with any of which TLC finds the property violated.

* `TypeCorrect`, of `TrQueue` and `TimeRanger`, with no assumption but those of the
  module: types hold also when liberties are taken or critical errors do not end the
  process.
* `TrQueue`: under `Discipline` (`Liberties = {}` and `Keyless = {}`), `IInv` is
  inductive (`Invariance`), and from it follow `NothingPendingIsLost`,
  `QueueMatchesTopic`, `QueueIsInOrder`, `FilesKeepPending` and `BackupHoldsNoPending`.
  `NoPendingLost` is not inductive: it speaks of a loaded queue, and what makes a load
  right is that the stored `first_rowid` passes no pending row (`VarInv`), that every
  pending row before the cursor is already queued and `found` is the first of them
  (`LoadInv`), that the messages queued are their rows (`QInv`), and that a backup begins
  with nothing pending (`BackupInv`). The length of the topic enters because the
  variables of the old topic outlive its rows during a backup.
  `ReadersOnlyRead` adds that only a master is ever in a write of `topic_var.json`.
  `QueueIsPersistent` is the refinement of `PersistentQueue`: `trq_append` is `Put`,
  `trq_unload_msg` `Ack`, `trq_set_hard_flag` `Mark`, the end of a load `Recover` or
  `Browse`, and every other step is not seen, the four of a backup and a crash in the
  middle of a write among them. It needs that a message is stored once (`Distinct`:
  else an acknowledged message would still be pending by another row) and that a
  recovery queues pending rows only (`OnlyPending`).
* `TimeRanger`: when critical errors end the process (`ExitOnCritical`), `IInv` is
  inductive (`Invariance`), and from it follow `IndexIsTrue`, `AcknowledgedIsDurable`,
  `LastRowidIsExact` and `ReadsAreTrue`. `ContentIsOwn` alone does not hold by itself
  through an append: one needs that the only master is the holder of the lock
  (`LockInv`), that the record in its hands is the one whose content it has just written
  at that place, and that a record that somebody has read is still the row it was read
  from (`RecInv`).
  `RowsAreKept` follows step by step. `StoreIsLog` is the refinement of `RecordLog`:
  the write of the metadata is `AppendRecord`, the blank of a content `Erase`, and
  nothing else is seen. For a blank to erase one entry and not two, no two rows may
  point at the same content (`RecordsAreApart`), nor a row at the content of an append
  in progress.
* `TopicFiles`: under `Discipline`, `CutsSurvived` (`SurvivesCuts`), `FilesOwned`
  (`OwnFiles`), `RecordsKept` (`NothingLost`), and `OneWriter`: no step changes a file of
  the topic but one of the process that holds the lock before and after it. None of the
  first three is inductive, since each speaks of processes at rest. `IInv` names every
  point of a call by what is still to be done from there (`ToIdx`, `ToPutVar`,
  `ReputVar`...), says what files, backup and memory are at each, and that what a death
  leaves there (`Sane`, or nothing) is where a later creation may begin: columns that are
  there are of the version of the variables, and no version is above the one asked for.
  Records and descriptors need less: which directories may still have a record, and that
  the master at rest has read the directory that is there.
* `TopicLists`: under `Discipline`, `EveryRecordOnce` (`ListsServed`), for callbacks one
  within the other to any depth. `ListsServed` is about a library at rest. What holds in
  every state is `Served`: a list is owed exactly what it was given and what the loops in
  progress will still bring (`Brings`), and the first are before the second in the topic.
  It needs that one append at a time has lists left to go to, that nobody appends during a
  load or loads during an append, and that no list is loaded twice at a time (`StackInv`):
  what the liberties give up, one by one.
* `MatchRecord` (in `TopicLists_proofs`): `WalksFindAll` (`FoundIsExpected`), with
  `Quirks = {}`, for topics of any length and any condition but `notkey`, forward and
  backward, of `tranger_open_list` and `tranger_find_record`. What is assumed of the
  constants (`MatchRecordAssumption`) is that rowids and times fit in their integers and
  that a condition has each bound once or not at all; what is assumed of a walk
  (`WalkSound`) are the conditions of `Sane`, each of which stops being needed for
  something that TLC shows to go wrong without it (2.14).
  `FoundIsExpected` is not inductive while the walk goes on: `WalkInv` says that what is
  wanted and was passed has been delivered, and of a walk that has ended that nothing
  wanted is left. Four lemmas carry it: what matches is what is wanted
  (`MatchIsWanted`, where a bound that counts from the end does not wrap: `BoundIs`), the
  walk starts where nothing wanted is before (`FirstIs`), it skips nothing alive
  (`FollowingIs`), and a condition that ends it is met by nothing behind, since times
  grow with rowids (`NoneBehind`).
* `TrMsg`: under `Discipline`, `LastGivenKept` (`KeepsLastGiven`), `TreeSound`
  (`TreeShowsEachOnce`) and `IndexSound` (`IndexIsLoad`), for any limit of instances and any
  number of records, in the middle of a load too. `KeepsNewest` is inductive once it is
  said of an abstract order of instances (`Kept`), which is transitive and has the message
  that comes behind all others unless the list is ordered by time; `StillKept` is the
  step of `load_record_callback` over it: make room, insert, and still what was lost is
  before what is kept. The tree needs that instances in order are not repeated
  (`NoneTwice`), so that taking the active one out of them leaves each other one once; a
  load, that no message has a tree before it ends (`LoadInv`).
* `TreeDb`: under `Disciplined`, `RestartGivesMemory` (`LoadGivesMemory`) and
  `SnapsKeepNodes` (`SnapHasNodes`), for any topics, hooks, secondary keys and snaps, and
  with deaths anywhere. Both are about what loads would find, so the argument is about
  `Rows(k, s)`, the rows of a node that a load with the tag `s` meets before a mark. The log
  changes in three ways: a row more (a create, a save), a mark on the last row (a delete)
  and a tag on the last row (a shoot); `RowsMore`, `RowsMarked` and `RowsTagged` say what
  each does to every `Rows(k, s)`, and each operation is shown to be one of the three.
  Neither property is inductive. `MemoryLoaded` says of a node in memory not only that its
  row is its last but that its tag, which a save inherits, is still on a row of it: else a
  save could put back in a snap a node that the snap does not have. `TagsGiven` says that
  the tag of the next snap is on no row. `Shooting` says how far a snap is with each node:
  the row that is about to be tagged is the one its save wrote, and the tag that it takes
  away from that row is also on an earlier one, which an older snap keeps.
  What an operation does to the hooks of other objects does not matter here (`HeapBut`).
* `TreeDb`, links: under `Disciplined`, `LinksStayAgreed` (`LinksAgree`), for hooks that are
  dicts or lists, fkeys that are strings or lists, and any number of child topics of a
  hook. `LInv`, inductive together with `IInv` (`LinksInvariance`), has three parts. In
  memory, `Linkage`: a hook holds objects of the index by id and no others
  (`HooksHold`), a string fkey or a ref to a dict hook is there once (`RefsFew`), and
  both sides count the same (`SidesAgree`). But the hooks are not saved, and the next
  load makes them from fkeys that were written at different moments: so `RowsFew` says
  of every row that its refs are few, and `Anchored` of the last row of each node that it
  names no parent that has no rows. `Anchored` follows from `Linkage` while the main line
  is open and must be kept by itself while the process is down or has a snap loaded.
  `RowsFew` is about all the rows, since a load with a snap goes back to an old one.
  `LoadLinks` is what a load makes of them; `LinkedKeepsLinks`, `UnlinkedKeepsLinks` and the
  like say what each operation does to a `Linkage`; `FreedIsAlone`, that a node that can be
  deleted has no child in the index that names it.
* `TreeDb`, refinement: `TreeIsLinked` (`IsTree`) is the refinement of `LinkedTree`. A create
  is `Add`; an update or a save `Change` or `Relink`; a delete is `Remove`, and that no node
  names what it removes is `Linkage` again. Opening, closing, deaths and snaps are not
  seen, since what the memory has is what a load gives (`MainIsLoaded`). `NoLinkDangles`
  says the same of the disk alone: no fkey names a parent that a load would not find.
* `GbMem` (in `Support_proofs`, with the three that follow): for any size of blocks, pieces and superblocks and any number of threads,
  `NoBlockIsShared` (`MemoryIsOwn`) and `NoBlockIsLost` (`NothingLeaks`). `MemoryIsOwn` is
  close to inductive: what it adds to "pieces in use are apart" is that free pieces are
  apart from each other and from those, that the rest of the superblock is its end, and
  that a thread in the middle of a realloc holds both of its pieces (`MovesApart`). It
  rests on one fact of arithmetic on blocks, that a piece cut from the rest leaves a rest
  that is apart from it, and on the leftover of a superblock becoming a free piece of its
  size before the next superblock is asked for.
* `KwOwners`: `OwnersStayCounted` (`OwnersCount`), with `Liberties = {}`, for any kws, keys
  and gbuffers. `KwoInv`, inductive (`KwoInvariance`), is the count itself beside what the
  guards need of the types: the references of a gbuffer are those that callers have and the
  pairs of a kw and one of its references. Lemmas say what that set of pairs is after a kw
  is made, gets or loses a reference, is freed or gives its gbuffer away; the case of a
  duplicate is where a copy of some keys only would lose one.
* `Logger`: `MessagesAreDelivered` (`Delivered`), with no assumption, for any handlers, any
  messages and any calls of a write function. The property is about the end of a walk;
  `LoggerInv`, inductive (`LoggerInvariance`), is about the middle: the handler that has
  the message is in the list, the ids of the list grow (`InOrder`), and of those before
  that handler all that take the message have had it. A deletion keeps the order
  (`UnnamedIs`), an addition is behind every walk, and the next handler leaves out none
  that takes the message (`NextTakerIs`).
* `Rotatory`: `RecentAreKept` (`KeepsRecent`), for any file names, size limit, number of days
  and faults of `open` and `write`; a rename that fails is the fault that it excludes, and
  with it the log of the day is lost (a finding). The property speaks of suffixes, which
  say nothing of what becomes of them. `RotatoryInv`, inductive (`RotatoryInvariance`),
  says instead that what went to a file is what is gone, followed by its .OLD, the file
  and what stdio holds (`Tells`), that something is gone only if the .OLD was too long,
  and that stdio holds nothing for a file that is closed or removed. `_rotatory` is then
  a chain of states that keep it (`ClosedKeeps`, `RolledKeeps`, `ChangedKeeps`, `ReadyKeeps`,
  and the three ways in which a write ends), and a death takes away exactly what stdio
  held (`LostTells`).
* `DlList`: `PointersAreTheSequence` (`Linked`), for any number of lists and items, under
  no liberty: head, tail, size, owner and both pointers of each item are those of
  `order`. Sequences without duplicates are what the induction needs: lemmas say what
  `RemoveAt`, `InsertAt` and the neighbours of an item are in one. `FlushEndsWell` is
  that `dl_flush` never ends in its abort.
* `RcList` (in `DlList_proofs`): `ResourcesStaySound` (`ResourcesSound`), with
  `Callers = {}`, for any iters and resources, trees of any depth and walks one within
  the other. `RcInv`, inductive (`RcInvariance`), adds that a resource is at most once a
  child (`OneParent`: else `rc_remove_child` would leave one behind) and that nothing
  hangs from itself (`NoCycle`), which an `rc_add_child` keeps only if the parent does not
  hang from the child. Every deletion is one case (`Deleted`): instances that go with
  their twins, where what is freed has no instance left and what loses its parent is
  nobody's child (`MayGo`). For the walks, `LoopInv` says that what each loop holds, from
  bottom to top the next item too that it read before the children, is in its list with
  its resource (`LoopOf`), and that the list of each loop is of
  a child in the list of the loop around it; then the loops of a walk never go over the
  children of anything below the current one (`NotBelow`), so that whatever its callback
  takes with it, "but NOT more ones", none of them is read again (`LoopsStay`).

*Only model-checked.* `Settles` (liveness); `WalksSound` of `RcList`, whose order of a
walk is defined by recursion on the tree; the data of treedb and of dicts (`TreeData`, but
for `OwnersCount`); in `Support`, the gbuffers, the stream parsers and the statistics
(`StreamSpec`, `FilesTell`); every violation. Liveness and ENABLED are out of the prover's reach, as is
induction over data, which is what the queries of `TreeQuery`, the conversions of
`TreeCols` and the order of a walk would need. `GBuffer`, `JsonHelper`, `KwCompare` and
`KwRecords` are written with RECURSIVE operators, for which there is no proof backend.

## 5. Not modelled, and limits

*Store, queue, lists.*

* Topics without files (`sf_no_md_disk`, `sf_no_disk`), keys of records beyond having
  one, `__t__` and `__tm__` beyond the file they select and their order. The bytes of a
  record: one cell, whole, blank or torn; the write of the metadata and its overwriting
  in place are single writes.
* Soft marks, ack timers and retries of a queue: fields the caller reads and writes.
* Permissions are assumed to hold: a read-only file is not written (the processes
  are not root). In `TopicFiles` critical errors end the process, as by default, and
  topics are opened with `tranger_create_topic`, as every caller in `src/` does.
* A partial record at the end of `topic_idx.md` is never repaired by the code. The
  model has it (`tail`): from then on appends are refused.
* In `MatchRecord` the topic does not change during the walk, `rkey` is a set of keys
  like `key`, and `filter`, which the header names and no code reads, is left out.
* In `TopicLists`, a list that is closed within its own load (the loop would go on with
  freed memory), and `list.data`: a record without callback, or with one that returns 1,
  is kept there by the library.

*Tree database.*

* `treedb_delete_instance`: its own comment says that nobody uses it, and no discipline
  of its callers was found under which a load would give the memory again.
* Callbacks of the tree (`treedb_set_callback`), traces, several treedbs over one
  TimeRanger, and a treedb that readers share.
* A primary and a secondary index hold one object while a node is created, and two after
  a load: the model has both, and its properties speak of the primary one.
* A dict hook has its children by id alone, `id_in_fkeys` does not look at the topic of a
  reference, and nothing stops a cycle of links: the hooks of the runs have one child
  topic each, and the depth of `treedb_node_jtree` is bounded.
* A death in the middle of `treedb_shoot_snap` leaves a snap with some of its nodes;
  `SnapHasNodes` is about those that were finished.
* Topics of a schema without an id or a primary key are skipped by the code and left out.
* A schema may be wrong and its tree opened, since errors are only logged: `LinksReload` is
  about those without errors.

*Dicts and JSON.*

* Parsing and printing of JSON, numbers beyond small ones, reals; `kw_content_size`,
  `kw_has_word` and `kw_match_simple` but for what treedb asks of it (`TreeQuery`); the
  printing of differences; `split_string` and `extract_keys`; code between `#ifdef PEPE`.
* `Kw` has one default for each kind of get. `KwCompare` leaves out lists that mix
  records with and without ids in different orders.
* `KwOwners`: the gbuffers of dicts within dicts, which the code never releases. A
  `kw_deserialize` gives back the serialized dict once: the second time is a finding.

*Libraries.*

* gbuffer: `gbuf_utf8_to_unicode`. A growth that stops at "MAXIMUM SPACE REACHED" although
  what is asked for would fit, and a file that a printf takes beyond `max_disk_size`, are
  in the model and no property forbids them. `11_growbuffer.c` and `12_circular_fifo.c`:
  nothing in the repository calls them, and the FIFO overwrites its own beginning with
  each text that does not wrap (a finding).
* rc_list: `rc_add_iter` of an iter to itself, which does not end.
* Rotatory: the pieces of one message may go to two files, and those written while the
  file cannot be opened are dropped without a word; both happen in the model and no
  property forbids them. Several logs at once, but for the static that they share.
* Logger: texts, backtraces, options of `log_debug_bf`, the UDP client.
* Statistics: groups, `fopen` and `unlink` that fail, ids that contain one another, gaps
  longer than a cycle of names, a record cut in the middle by a crash, and two
  writers: the lock of the file is taken to hold.
* gbmem: what callers write in their pieces; the trace of what was not freed.
* Configuration, strings, times, urls, directories, processes and output: conversions
  and system calls, with no state that would be worth a model.

## 6. What is left

In the order of what would add most:

1. Proofs: `WalksSound` of `RcList`, by a well-founded induction on what hangs from a
   resource. `LoadGivesMemory` under some of the liberties, where part of it still holds.
2. Several topics of a treedb under two processes, with a reader that loads while the
   master writes.
3. A load with a complex match condition and callbacks, `MatchRecord` and `TopicLists` in
   one.
4. The groups of statistics, and gbuffers in nested dicts once the code releases them.
