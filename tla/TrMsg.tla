------------------------------- MODULE TrMsg --------------------------------
(***************************************************************************)
(* Two memories of one TimeRanger topic of messages.                       *)
(*                                                                         *)
(* 31_tr_msg.c: a list of messages by key, each with its instances and its *)
(* active one, loaded forward or backward and then fed by every append.    *)
(* 31_tr_msg2db.c: an index by id and pkey2 that keeps the last message of *)
(* each pair, loaded at start and written by msg2db_append_message.        *)
(*                                                                         *)
(* A message is named by its rowid; a load goes record by record, and no   *)
(* other call comes in between, since no callback of these files calls the *)
(* library (TopicLists models those that do).                              *)
(***************************************************************************)
EXTENDS Integers, Sequences, FiniteSets, SequencesExt

CONSTANTS
    Ids,            \* primary keys of messages
    Key2s,          \* values of pkey2
    Empty,          \* an empty pkey2
    Tms,            \* times of messages (__tm__): a set of numbers
    Conds,          \* [max, byTm, backward]: match_cond of lists
    Nil,
    MaxRows,        \* messages of the topic
    Liberties       \* what callers may do beyond the discipline:
                    \*   "reject"      match_fields, or the callback of the
                    \*                 list, rejects a message
                    \*   "tree_again"  trmsg_data_tree twice for one active
                    \*   "empty_key2"  append a message with an empty pkey2

ASSUME TrMsgAssumption ==
    /\ Tms \subseteq Nat
    /\ \A c \in Conds : c.max \in Nat /\ {c.byTm, c.backward} \subseteq BOOLEAN
    /\ Empty \notin Key2s
    /\ Nil \notin Ids \union Key2s \union {Empty}
    /\ MaxRows \in Nat
    /\ Liberties \subseteq {"reject", "tree_again", "empty_key2"}

VARIABLES
    rows,           \* the topic: [id, k2, tm, fits]; fits is what the second
                    \* level filter says of it
    list,           \* the tr_msg list: [cond, at, read, messages], or Nil;
                    \* `read` counts the messages it was given, and `at` is
                    \* the size of the topic when it was opened (a history)
    data,           \* of each message, the `data` hook of trmsg_data_tree
    index           \* the msg2db index, or Nil

vars == <<rows, list, data, index>>

May(liberty) == liberty \in Liberties

\* The loop of tranger_open_list is on its way.
Loading == list # Nil /\ list.read < Len(rows)

---------------------------------------------------------------------------
(* tr_msg: load_record_callback.                                           *)

NoMessage == [instances |-> <<>>, active |-> 0]

MessageOf(messages, id) == IF id \in DOMAIN messages THEN messages[id]
                           ELSE NoMessage

\* Mutant: the newest one goes, not the first.
BugMakeRoom(cond, s) == IF cond.max > 0 /\ Len(s) >= cond.max THEN Front(s)
                        ELSE s

\* max_key_instances: the first instance goes when the list is full.
MakeRoom(cond, s) == IF cond.max > 0 /\ Len(s) >= cond.max THEN Tail(s) ELSE s

\* order_by_tm: behind the last one that is not later.
Insert(cond, s, r) ==
    LET before == {i \in DOMAIN s : rows'[s[i]].tm <= rows'[r].tm}
    IN  InsertAt(s, IF cond.byTm THEN 1 + Max({0} \union before) ELSE Len(s) + 1, r)

\* Mutant: a late message does not become the active one.
BugReceive(messages, cond, r) ==
    LET id == rows'[r].id
        m  == MessageOf(messages, id)
        s  == Insert(cond, MakeRoom(cond, m.instances), r)
    IN  [k \in DOMAIN messages \union {id} |->
            IF k # id THEN messages[k]
            ELSE IF ~rows'[r].fits THEN m
            ELSE [instances |-> s, active |-> IF cond.byTm THEN Last(s) ELSE r]]

\* A message that the filter rejects leaves its key, with no instances.
Receive(messages, cond, r) ==
    LET id == rows'[r].id
        m  == MessageOf(messages, id)
    IN  [k \in DOMAIN messages \union {id} |->
            IF k # id THEN messages[k]
            ELSE IF ~rows'[r].fits THEN m
            ELSE [instances |-> Insert(cond, MakeRoom(cond, m.instances), r),
                  active    |-> r]]

---------------------------------------------------------------------------
(* msg2db.                                                                 *)

EmptyIndex == [id \in Ids |-> [k2 \in Key2s \union {Empty} |-> 0]]

\* Mutant: the first message of a pair stays.
BugLoadIndex ==
    [id \in Ids |-> [k2 \in Key2s \union {Empty} |->
        LET same == {r \in DOMAIN rows : rows[r].id = id /\ rows[r].k2 = k2}
        IN  IF same = {} \/ k2 = Empty THEN 0
            ELSE CHOOSE r \in same : \A q \in same : r <= q]]

\* load_record_callback of msg2db, over the whole topic: the last message of
\* a pair stays, and one with an empty pkey2 is refused.
LoadIndex ==
    [id \in Ids |-> [k2 \in Key2s \union {Empty} |->
        LET same == {r \in DOMAIN rows : rows[r].id = id /\ rows[r].k2 = k2}
        IN  IF same = {} \/ k2 = Empty THEN 0
            ELSE CHOOSE r \in same : \A q \in same : q <= r]]

---------------------------------------------------------------------------
Init == rows = <<>> /\ list = Nil /\ data = <<>> /\ index = Nil

Stored(id, k2, tm, fits) ==
    /\ ~Loading
    /\ Len(rows) < MaxRows
    /\ k2 # Empty \/ May("empty_key2")
    /\ fits \/ May("reject")
    /\ rows' = Append(rows, [id |-> id, k2 |-> k2, tm |-> tm, fits |-> fits])
    /\ data' = Append(data, <<>>)

\* An append delivers the message to the list that is open.
Delivered(r) == list' = IF list = Nil THEN Nil
                        ELSE [list EXCEPT !.read = r, !.messages =
                                 Receive(@, list.cond, r)]

\* trmsg_add_instance: another user of the topic; msg2db is not told.
AddInstance(id, k2, tm, fits) ==
    /\ index = Nil
    /\ Stored(id, k2, tm, fits)
    /\ Delivered(Len(rows'))
    /\ UNCHANGED index

\* msg2db_append_message.
AppendMessage(id, k2, tm, fits) ==
    /\ index # Nil
    /\ Stored(id, k2, tm, fits)
    /\ Delivered(Len(rows'))
    /\ index' = [index EXCEPT ![id][k2] = Len(rows')]

OpenList(cond) ==
    /\ list = Nil
    /\ UNCHANGED <<rows, index>>
    /\ data' = [r \in DOMAIN rows |-> <<>>]
    /\ list' = [cond |-> cond, at |-> Len(rows), read |-> 0, messages |-> <<>>]

\* The loop of tranger_open_list, over the whole topic.
LoadRecord ==
    /\ Loading
    /\ UNCHANGED <<rows, data, index>>
    /\ LET r == IF list.cond.backward THEN list.at - list.read ELSE list.read + 1
       IN  list' = [list EXCEPT !.read = @ + 1, !.messages = Receive(@, list.cond, r)]

CloseList ==
    /\ ~Loading
    /\ list # Nil
    /\ list' = Nil
    /\ data' = [r \in DOMAIN rows |-> <<>>]
    /\ UNCHANGED <<rows, index>>

\* Mutant: the active one is not left out.
BugOthers(m) == m.instances

\* The instances below the active one: all but the first with its rowid.
Others(m) == RemoveFirst(m.instances, m.active)

\* trmsg_data_tree adds the instances to the `data` of the active message
\* itself, which it shares with the list.
DataTree ==
    LET actives == {id \in DOMAIN list.messages :
                       list.messages[id].active # 0}
    IN  /\ ~Loading
        /\ list # Nil
        /\ \A id \in actives :
              data[list.messages[id].active] = <<>> \/ May("tree_again")
        /\ data' = [r \in DOMAIN data |->
              IF \E id \in actives : list.messages[id].active = r
              THEN data[r] \o Others(list.messages[rows[r].id]) ELSE data[r]]
        /\ UNCHANGED <<rows, list, index>>

\* msg2db_open_db and msg2db_close_db, or a death of the process.
OpenDb ==
    /\ ~Loading
    /\ index = Nil
    /\ index' = LoadIndex
    /\ UNCHANGED <<rows, list, data>>

CloseDb ==
    /\ ~Loading
    /\ index # Nil
    /\ index' = Nil
    /\ UNCHANGED <<rows, list, data>>

Next ==
    \/ \E id \in Ids, k2 \in Key2s \union {Empty}, tm \in Tms,
          fits \in BOOLEAN : \/ AddInstance(id, k2, tm, fits)
                             \/ AppendMessage(id, k2, tm, fits)
    \/ \E cond \in Conds : OpenList(cond)
    \/ LoadRecord
    \/ CloseList
    \/ DataTree
    \/ OpenDb
    \/ CloseDb

Spec == Init /\ [][Next]_vars

---------------------------------------------------------------------------
(* What must hold.                                                         *)

Row     == [id : Ids, k2 : Key2s \union {Empty}, tm : Tms, fits : BOOLEAN]
Message == [instances : Seq(Nat), active : Nat]

TypeOK ==
    /\ rows \in Seq(Row) /\ Len(rows) <= MaxRows
    /\ data \in Seq(Seq(Nat)) /\ Len(data) = Len(rows)
    /\ list # Nil =>
          /\ list = [cond |-> list.cond, at |-> list.at, read |-> list.read,
                     messages |-> list.messages]
          /\ list.cond \in Conds /\ {list.at, list.read} \subseteq 0..Len(rows)
          /\ DOMAIN list.messages \subseteq Ids
          /\ list.messages \in [DOMAIN list.messages -> Message]
    /\ index # Nil => index \in [Ids -> [Key2s \union {Empty} -> Nat]]

\* The turn in which a message comes to the list, and those of a key that have come.
Turn(r)   == IF list.cond.backward /\ r <= list.at THEN list.at + 1 - r ELSE r
Given(id) == {r \in DOMAIN rows :
                 rows[r].id = id /\ rows[r].fits /\ Turn(r) <= list.read}

\* The order of instances.
Before(r, q) ==
    IF list.cond.byTm /\ rows[r].tm # rows[q].tm THEN rows[r].tm < rows[q].tm
    ELSE Turn(r) < Turn(q)

\* Every key that the list shows has an active message: the last one given,
\* which is one of its instances (max_key_instances may remove the one that
\* was active).
ActiveIsLast == list # Nil => \A id \in DOMAIN list.messages :
    LET m == list.messages[id]
    IN  /\ m.active \in Given(id) \intersect ToSet(m.instances)
        /\ \A r \in Given(id) : Turn(r) <= Turn(m.active)

\* What max_key_instances keeps: the last ones given or, with order_by_tm, the
\* latest ones but one, for the last one given is kept whatever its time.
\* They are in the order asked for.
KeepsNewest == list # Nil => \A id \in Ids :
    LET s    == MessageOf(list.messages, id).instances
        lost == Given(id) \ ToSet(s)
    IN  /\ ToSet(s) \subseteq Given(id)
        /\ \A i, j \in DOMAIN s : i < j => Before(s[i], s[j])
        /\ list.cond.max > 0 => Len(s) <= list.cond.max
        /\ lost # {} => list.cond.max > 0 /\ Len(s) = list.cond.max
        /\ \A r \in lost : \A i \in DOMAIN s :
              ~list.cond.byTm \/ i > 1 => Before(r, s[i])

\* With any limit, order and direction of a list, what it keeps of a key is the last
\* messages given.
KeepsLastGiven == ActiveIsLast /\ KeepsNewest

\* The tree of an active message shows each other instance once.
TreeShowsEachOnce == list # Nil => \A id \in DOMAIN list.messages :
    LET m == list.messages[id]
    IN  m.active # 0 =>
          \/ data[m.active] = <<>>
          \/ /\ m.active \notin ToSet(data[m.active])
             /\ \A r \in ToSet(m.instances) \ {m.active} :
                   Cardinality({i \in DOMAIN data[m.active] :
                                   data[m.active][i] = r}) = 1

\* The index of msg2db is what a restart would load.
IndexIsLoad == index # Nil => index = LoadIndex

=============================================================================
