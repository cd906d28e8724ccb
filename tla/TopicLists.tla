----------------------------- MODULE TopicLists -----------------------------
(***************************************************************************)
(* The open lists of a topic of 30_timeranger.c: tranger_open_list walks   *)
(* the records for a new list, tranger_append_record takes each new one to *)
(* the lists that are open, and both call the list's callback, which may   *)
(* itself append, open or close: the calls in progress are a stack.        *)
(*                                                                         *)
(* One process, the master (a reader's lists are only loaded).  How a walk *)
(* goes on and what its conditions mean is the subject of MatchRecord:     *)
(* here it goes forward, and a list wants some kinds of records.  A list   *)
(* is never closed within its own load, which would use freed memory.      *)
(***************************************************************************)
EXTENDS Naturals, Sequences, FiniteSets, SequencesExt

CONSTANTS
    Lists,          \* the lists; each may be opened, closed and opened again
    Kinds,          \* kinds of records
    Wants,          \* list -> the kinds that meet its match_cond
    NoList,         \* where a walk over the lists ends
    MaxRows,        \* bound: records appended
    MaxCalls,       \* bound: calls in progress, one within the other
    MaxOpens,       \* bound: how often lists are opened
    Liberties       \* what is done beyond the discipline under which a list
                    \* gets each record once and in order:
                    \*   "append_in_load"  a callback appends during a load
                    \*   "open_in_append"  ... or opens during an append
                    \*   "append_in_append", "close_in_append",
                    \*   "negative_in_append"  ... or does these while an
                    \*       append has other lists to go to
                    \*   "backup"  the topic is backed up with lists open

ASSUME TopicListsAssumption ==
    /\ NoList \notin Lists
    /\ Wants \in [Lists -> SUBSET Kinds]
    /\ {MaxRows, MaxCalls, MaxOpens} \subseteq Nat
    /\ Liberties \subseteq {"append_in_load", "open_in_append", "append_in_append",
                            "close_in_append", "negative_in_append", "backup"}

VARIABLES
    rows,           \* the records of the topic: their kinds
    lists,          \* topic->lists, in the order of the array
    stack,          \* calls in progress, the running one last
    opens,          \* opens so far
    \* --- history
    held,           \* the lists that the program has opened and not closed
    got,            \* list -> rowids its callback was given since it was opened
    owed            \* list -> rowids it should have been given

vars == <<rows, lists, stack, opens, held, got, owed>>

\* The loop of tranger_open_list, about to take the row at; that of
\* tranger_append_record, about to take it to the list number idx; a callback.
Frame       == [op : {"load", "deliver", "callback"}, list : Lists \cup {NoList},
                at : Nat, idx : Nat]
Load(l)     == [op |-> "load", list |-> l, at |-> 1, idx |-> 0]
Deliver(r)  == [op |-> "deliver", list |-> NoList, at |-> r, idx |-> 1]
Callback(l) == [op |-> "callback", list |-> l, at |-> 0, idx |-> 0]

Running(op) == stack # <<>> /\ Last(stack).op = op
InCallback  == Running("callback")
Caller      == stack[Len(stack) - 1]

InProgress(op) == {stack[i] : i \in {i \in DOMAIN stack : stack[i].op = op}}

\* An append in progress has lists to go to from number n on.
Behind(n) == \E f \in InProgress("deliver") : f.idx <= n

\* The library is called by the program or by a callback, which must not do it
\* where it breaks a rule.
Calls == stack = <<>> \/ (InCallback /\ Len(stack) < MaxCalls)
Allowed(rule, broken) == broken => rule \in Liberties

Matching(l, rs) == {r \in DOMAIN rs : rs[r] \in Wants[l]}

Init ==
    /\ rows = <<>> /\ lists = <<>> /\ stack = <<>> /\ opens = 0 /\ held = {}
    /\ got = [l \in Lists |-> <<>>] /\ owed = [l \in Lists |-> {}]

-----------------------------------------------------------------------------
(* Calls *)

\* tranger_open_list: the list joins the topic first, and is loaded then.
OpenList(l) ==
    /\ Calls
    /\ Allowed("open_in_append", InProgress("deliver") # {})
    /\ l \notin held /\ opens < MaxOpens
    /\ lists' = Append(lists, l)
    /\ stack' = IF rows = <<>> THEN stack ELSE Append(stack, Load(l))
    /\ opens' = opens + 1
    /\ held' = held \cup {l}
    /\ got' = [got EXCEPT ![l] = <<>>]
    /\ owed' = [owed EXCEPT ![l] = Matching(l, rows)]
    /\ UNCHANGED rows

\* json_array_find_idx
Place(l) == CHOOSE i \in DOMAIN lists : lists[i] = l

\* tranger_close_list (of a list that a backup has not freed): the lists behind it
\* move up.
CloseList(l) ==
    /\ Calls
    /\ Contains(lists, l)
    /\ \A f \in InProgress("load") : f.list # l
    /\ Allowed("close_in_append", \E f \in InProgress("deliver") :
                                     Place(l) < f.idx /\ f.idx <= Len(lists))
    /\ lists' = RemoveAt(lists, Place(l))
    /\ held' = held \ {l}
    /\ UNCHANGED <<rows, stack, opens, got, owed>>

\* Mutant: the loop over the lists starts at the second one.
BugFirstList(r) == [Deliver(r) EXCEPT !.idx = 2]

\* Mutant: the record before is delivered again.
BugLastRow(r) == Deliver(IF r > 1 THEN r - 1 ELSE r)

\* The loop over the lists starts at the first one.
FirstList(r) == Deliver(r)

\* tranger_append_record: the record is stored, and then goes to the lists.
AppendRecord(k) ==
    /\ Calls
    /\ Allowed("append_in_load", InProgress("load") # {})
    /\ Allowed("append_in_append", Behind(Len(lists)))
    /\ Len(rows) < MaxRows
    /\ rows' = Append(rows, k)
    /\ stack' = Append(stack, FirstList(Len(rows')))
    /\ owed' = [l \in Lists |-> IF l \in held /\ k \in Wants[l]
                                THEN owed[l] \cup {Len(rows')} ELSE owed[l]]
    /\ UNCHANGED <<lists, opens, held, got>>

\* tranger_backup_topic closes the topic and makes another one: the lists go with
\* the old one.
Backup ==
    /\ stack = <<>>
    /\ Allowed("backup", lists # <<>>)
    /\ rows' = <<>> /\ lists' = <<>>
    /\ got' = [l \in Lists |-> <<>>] /\ owed' = [l \in Lists |-> {}]
    /\ UNCHANGED <<stack, opens, held>>

-----------------------------------------------------------------------------
(* The loops and the callbacks *)

\* One turn of a loop: the row at goes to the callback of l if l wants it, and next
\* is what the loop will do then.
Turn(l, at, next) ==
    IF rows[at] \in Wants[l]
    THEN /\ got' = [got EXCEPT ![l] = Append(@, at)]
         /\ stack' = Front(stack) \o <<next, Callback(l)>>
    ELSE /\ stack' = Append(Front(stack), next)
         /\ UNCHANGED got

\* The end of a loop, or the return of a callback.
Pop(n) == stack' = SubSeq(stack, 1, Len(stack) - n)

\* The loop of tranger_open_list goes on as long as there are records, those
\* appended meanwhile among them.
LoadRecord ==
    /\ Running("load")
    /\ LET f == Last(stack) IN
        IF f.at \in DOMAIN rows THEN Turn(f.list, f.at, [f EXCEPT !.at = @ + 1])
        ELSE Pop(1) /\ UNCHANGED got
    /\ UNCHANGED <<rows, lists, opens, held, owed>>

\* The loop of tranger_append_record goes over the array as it is now.
DeliverRecord ==
    /\ Running("deliver")
    /\ LET f == Last(stack) IN
        IF f.idx \in DOMAIN lists THEN Turn(lists[f.idx], f.at, [f EXCEPT !.idx = @ + 1])
        ELSE Pop(1) /\ UNCHANGED got
    /\ UNCHANGED <<rows, lists, opens, held, owed>>

\* The callback returns 0 or 1.
Return ==
    /\ InCallback
    /\ Pop(1)
    /\ UNCHANGED <<rows, lists, opens, held, got, owed>>

\* "-1 break the load": the list wants no more of its load ...
BreakLoad ==
    /\ InCallback /\ Caller.op = "load"
    /\ Pop(2)
    /\ owed' = [owed EXCEPT ![Caller.list] = @ \cap ToSet(got[Caller.list])]
    /\ UNCHANGED <<rows, lists, opens, held, got>>

\* ... but in an append it ends the delivery to the lists behind.
BreakAppend ==
    /\ InCallback /\ Caller.op = "deliver"
    /\ Allowed("negative_in_append", Caller.idx <= Len(lists))
    /\ Pop(2)
    /\ UNCHANGED <<rows, lists, opens, held, got, owed>>

Next ==
    \/ \E l \in Lists : OpenList(l) \/ CloseList(l)
    \/ \E k \in Kinds : AppendRecord(k)
    \/ Backup
    \/ LoadRecord \/ DeliverRecord
    \/ Return \/ BreakLoad \/ BreakAppend

Spec == Init /\ [][Next]_vars

-----------------------------------------------------------------------------
\* Types.
TypeOK ==
    /\ rows \in Seq(Kinds) /\ lists \in Seq(Lists) /\ stack \in Seq(Frame)
    /\ opens \in 0 .. MaxOpens /\ held \subseteq Lists
    /\ got \in [Lists -> Seq(Nat)] /\ owed \in [Lists -> SUBSET Nat]

\* "When the list is open, before return, all records will be sent to callback.
\* While the list is not closed, TimeRanger will be send new matched records to
\* callback": when no call is in progress, an open list has been given every
\* record it should, and no other.
Complete ==
    stack = <<>> => \A l \in held : ToSet(got[l]) = owed[l]

\* A list is given its records in the order of the topic, none of them twice,
\* those of its load and those that are appended, whatever calls are in progress.
InOrder ==
    \A l \in held : \A i, j \in DOMAIN got[l] : i < j => got[l][i] < got[l][j]

\* What tranger_open_list promises: every record, once, in order.
ListsServed == Complete /\ InOrder

=============================================================================
