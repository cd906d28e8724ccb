------------------------------- MODULE TreeDb -------------------------------
(***************************************************************************)
(* The tree database of 31_tr_treedb.c.  A node is a record of a TimeRanger *)
(* topic: every save appends its new image, and a load walks the topic     *)
(* backward, so the first image it meets of an id is the last one saved.   *)
(* A deletion marks the last row of the node.  A link is kept on two       *)
(* sides: the child's fkey names the parent and is saved; the parent's     *)
(* hook holds the child, and lives in memory only, to be rebuilt from the  *)
(* fkeys by a load.                                                        *)
(*                                                                         *)
(* Nodes in memory are objects (pointers, in the code): a hook goes on     *)
(* holding an object that is no longer in an index.  An object is named by *)
(* its key, the row it was born with, and whether a secondary index made   *)
(* it.  A ref `topic^id^hook` in an fkey is the parent's id: a hook is     *)
(* linked to one fkey of a child topic, which has no other hook.  A hook   *)
(* may have children of several topics; the ids that a dict hook is keyed  *)
(* by are not shared by two of them.                                       *)
(***************************************************************************)
EXTENDS Integers, Sequences, FiniteSets, FiniteSetsExt, SequencesExt

CONSTANTS
    Keys,           \* the nodes there may be: <<topic, id>>
    Hooks,          \* [parent, hook, dict, child, fkey, kind]: a hook of the
                    \* topic `parent`, a dict or a list, linked to the fkey of
                    \* the topic `child`, whose kind is "string" or "list"
    Keyed,          \* the topics with a secondary key (pkey2s)
    Key2s,          \* values of the secondary key
    Vals,           \* values of the other fields of a node
    Bad,            \* a value that record2tranger refuses
    Names,          \* names of snaps
    Nil,
    MaxRows,        \* rows of all the topics
    Liberties       \* what callers may do beyond the discipline:
                    \*   "relink"       link a string fkey that has a parent,
                    \*                  or a child that a dict hook has
                    \*   "unlink_other" unlink what is not linked
                    \*   "force_children" delete with force a node that has
                    \*                  children
                    \*   "instances"    create an id again, with another
                    \*                  secondary key
                    \*   "rekey"        update the secondary key
                    \*   "bad_value"    update with a value of another type
                    \*   "bad_autolink" autolink to a parent that is not there
                    \*   "save_fails"   (the record store) an append fails
                    \*   "write_in_snap" write while a snap is loaded
                    \*   "delete_shot"  delete a node that this session shot

AllLiberties == {"relink", "unlink_other", "force_children",
                 "instances", "rekey", "bad_value", "bad_autolink",
                 "save_fails", "write_in_snap", "delete_shot"}

TopicOf(k) == k[1]
IdOf(k)    == k[2]
Topics     == {TopicOf(k) : k \in Keys}
Ids        == {IdOf(k) : k \in Keys}

UpHooks(t) == {h \in Hooks : h.child = t}

\* No two nodes may be children of one dict hook under the same key.
DictIdsApart == \A g, h \in Hooks : \A c, d \in Keys :
    /\ g.parent = h.parent /\ g.hook = h.hook /\ g.dict
    /\ TopicOf(c) = g.child /\ TopicOf(d) = h.child /\ IdOf(c) = IdOf(d)
    => c = d

\* Nil is neither an image nor a node of the tree.
NilIsNoNode ==
    /\ \A t \in Topics : Nil \notin
          [val : Vals, k2 : Key2s \union {Nil}, up : [UpHooks(t) -> Seq(Ids)]]
    /\ Nil \notin [value : Vals \X (Key2s \union {Nil}), parents : SUBSET (Hooks \X Keys)]

ASSUME TreeDbAssumption ==
    /\ Keyed \subseteq Topics
    /\ \A h \in Hooks : {h.parent, h.child} \subseteq Topics
    /\ \A g, h \in Hooks :
          g.child = h.child /\ g.fkey = h.fkey => g = h
    /\ \A g, h \in Hooks : g.parent = h.parent /\ g.hook = h.hook =>
          g.dict = h.dict /\ (g.child = h.child => g = h)
    /\ DictIdsApart
    /\ IsFiniteSet(Keys)
    /\ \A k \in Keys : k = <<TopicOf(k), IdOf(k)>>
    /\ IsFiniteSet(Names)
    /\ Nil \notin Keys \union Vals \union Key2s \union {Bad}
    /\ Nil \notin [tag : Nat, active : BOOLEAN] \union
                  [key : Keys, row : Nat, second : BOOLEAN]
    /\ NilIsNoNode
    /\ Bad \notin Vals
    /\ MaxRows \in Nat
    /\ Liberties \subseteq AllLiberties

VARIABLES
    \* --- disk
    log,            \* the rows of each topic
    snaps,          \* the nodes of __snaps__: [tag, active], or Nil
    \* --- memory
    open,           \* TRUE iff a process has the treedb open
    tag,            \* activated_snap_tag: the snap that was loaded, or 0
    heap,           \* the objects
    prim,           \* the index by id of each topic
    sec,            \* the index by id and secondary key
    \* --- the call that is running
    pc,             \* "idle", "shoot" (shoot_snap), "activate" (activate_snap)
    arg,            \* the snap it is about
    todo,           \* shoot: the nodes still to save and tag
    \* --- history
    shot            \* the nodes that each finished snap was given to

disk   == <<log, snaps>>
memory == <<open, tag, heap, prim, sec>>
call   == <<pc, arg, todo>>
vars   == <<log, snaps, open, tag, heap, prim, sec, pc, arg, todo, shot>>

May(liberty) == liberty \in Liberties

---------------------------------------------------------------------------
(* Rows, and what a load makes of them.                                    *)

DownHooks(t) == {h.hook : h \in {g \in Hooks : g.parent = t}}
HooksOf(t)   == {h \in Hooks : h.parent = t}
Count(s, x)  == Cardinality({i \in DOMAIN s : s[i] = x})

\* The members of a set one after another: before is a strict order of them.
InOrder(S, before) ==
    [n \in 1..Cardinality(S) |->
        CHOOSE x \in S : Cardinality({y \in S : <<y, x>> \in before}) = n - 1]

\* A sequence without the first m of some of its positions.
Taken(s, places, m) ==
    LET out  == {i \in places : Cardinality({j \in places : j <= i}) <= m}
        left == DOMAIN s \ out
        at   == InOrder(left, {e \in left \X left : e[1] < e[2]})
    IN  [n \in DOMAIN at |-> s[at[n]]]

\* The hook that a topic has by that name for the nodes of another.
HooksTo(t, name, child) ==
    {h \in HooksOf(t) : h.hook = name /\ h.child = child}
HookTo(t, name, child) == CHOOSE h \in HooksTo(t, name, child) : TRUE

NoUp(t)   == [h \in UpHooks(t) |-> <<>>]
NoDown(t) == [n \in DownHooks(t) |-> <<>>]

Image(n)  == [val |-> n.val, k2 |-> n.k2, up |-> n.up]

\* The record that tranger appends for a node: fkeys and other fields, never
\* hooks; the tag is the user_flag of its metadata.
RowOf(k, n) == [id |-> IdOf(k), val |-> n.val, k2 |-> n.k2, up |-> n.up,
                tag |-> n.tag, mark |-> FALSE]

\* Mutant: a mark hides the rows before it from every snap, whatever its own.
BugRows(k, s) ==
    LET all  == {r \in DOMAIN log[TopicOf(k)] : log[TopicOf(k)][r].id = IdOf(k)}
        seen == {r \in all : s # 0 => log[TopicOf(k)][r].tag = s}
    IN  {r \in seen : \A m \in all : m < r \/ ~log[TopicOf(k)][m].mark}

\* The rows of an id that a backward load, with match_cond user_flag = s, meets
\* before one that is marked.
Rows(k, s) ==
    LET seen == {r \in DOMAIN log[TopicOf(k)] :
                    /\ log[TopicOf(k)][r].id = IdOf(k)
                    /\ s # 0 => log[TopicOf(k)][r].tag = s}
    IN  {r \in seen : \A m \in seen : m < r \/ ~log[TopicOf(k)][m].mark}

LastOf(rows) == IF rows = {} THEN 0 ELSE Max(rows)

\* The row that becomes the node in the index by id: 0 when there is none.
LoadRow(k, s) == LastOf(Rows(k, s))

\* The same for the index by secondary key, whose list has no user_flag.
LoadRow2(k, k2) == LastOf({r \in Rows(k, 0) : log[TopicOf(k)][r].k2 = k2})

LoadImage(k, s) == LET r == LoadRow(k, s)
                   IN  IF r = 0 THEN Nil ELSE Image(log[TopicOf(k)][r])

Obj(k, r, second) == [key |-> k, row |-> r, second |-> second]

\* An object made by _md2json and set_missing_values: its hooks are empty.
Fresh(k, r) == LET w == log[TopicOf(k)][r]
               IN  [val |-> w.val, k2 |-> w.k2, up |-> w.up,
                    down |-> NoDown(TopicOf(k)), row |-> r, tag |-> w.tag]

LoadPrim(s) == [k \in Keys |-> IF LoadRow(k, s) = 0 THEN Nil
                               ELSE Obj(k, LoadRow(k, s), FALSE)]
LoadSec == [k \in {j \in Keys : TopicOf(j) \in Keyed} |->
               [k2 \in Key2s |-> IF LoadRow2(k, k2) = 0 THEN Nil
                                 ELSE Obj(k, LoadRow2(k, k2), TRUE)]]

Objects(p, s) == ({p[k] : k \in DOMAIN p}
                    \union UNION {{s[k][k2] : k2 \in Key2s} : k \in DOMAIN s})
                 \ {Nil}

\* The order of the topics in the schema.
TopicAt == CHOOSE f \in [Topics -> 1..Cardinality(Topics)] : IsInjective(f)

\* The refs of a node just loaded to the node k: each makes an item in the
\* hook, or the first one when it is a dict.
RefsTo(p, c, k, name) ==
    LET h  == HookTo(TopicOf(k), name, TopicOf(c))
        up == log[TopicOf(c)][p[c].row].up[h]
    IN  IF HooksTo(TopicOf(k), name, TopicOf(c)) = {} THEN {}
        ELSE {i \in DOMAIN up : /\ up[i] = IdOf(k)
                                /\ h.dict => \A j \in 1..(i - 1) : up[j] # IdOf(k)}

\* load_all_links: every node of the index by id, in the order of the topics
\* and of the index, is put in the hooks of the parents that its fkeys name.
Earlier(p, a, b) ==
    LET at(x) == TopicAt[TopicOf(x[1])]
        r(x)  == p[x[1]].row
    IN  \/ at(a) < at(b)
        \/ at(a) = at(b) /\ r(a) > r(b)
        \/ at(a) = at(b) /\ r(a) = r(b) /\ a[2] < b[2]

ChildrenOf(p, k, name) ==
    LET items == UNION {{c} \X RefsTo(p, c, k, name) : c \in {j \in Keys : p[j] # Nil}}
        order == InOrder(items, {e \in items \X items : Earlier(p, e[1], e[2])})
    IN  [n \in DOMAIN order |-> p[order[n][1]]]

LoadHeap(p, s) ==
    [o \in Objects(p, s) |->
        IF o.second THEN Fresh(o.key, o.row)
        ELSE [Fresh(o.key, o.row) EXCEPT !.down =
                [n \in DownHooks(TopicOf(o.key)) |->
                    ChildrenOf(p, o.key, n)]]]

\* The tag of the activated snap: treedb_get_activated_snap_tag.
ActiveTag == LET on == {n \in Names : snaps[n] # Nil /\ snaps[n].active}
             IN  IF on = {} THEN 0 ELSE Max({snaps[n].tag : n \in on})

---------------------------------------------------------------------------
(* Links, on both sides.                                                   *)

\* What json_array_append and json_object_set do to a hook: the key of a dict
\* is the id of the child.
HookAdd(h, s, o) ==
    IF h.dict /\ \E i \in DOMAIN s : IdOf(s[i].key) = IdOf(o.key)
    THEN [i \in DOMAIN s |-> IF IdOf(s[i].key) = IdOf(o.key) THEN o ELSE s[i]]
    ELSE Append(s, o)

\* What json_array_remove and json_object_del do, called m times.
HookDel(h, s, o, m) ==
    LET places == {i \in DOMAIN s : IF h.dict THEN IdOf(s[i].key) = IdOf(o.key)
                                    ELSE s[i] = o}
    IN  Taken(s, places, m)

\* Mutant: all the refs to the parent go, not one of them.
BugUpDel(h, s, id) == IF h.kind = "string" THEN <<>>
                      ELSE SelectSeq(s, LAMBDA x : x # id)

UpAdd(h, s, id) == IF h.kind = "string" THEN <<id>> ELSE Append(s, id)
UpDel(h, s, id) ==
    IF h.kind = "string" THEN <<>>
    ELSE Taken(s, {i \in DOMAIN s : s[i] = id}, 1)

\* _link_nodes and _unlink_nodes, on the objects of a heap.
Linked(hp, h, p, c) ==
    [hp EXCEPT ![p].down[h.hook] = HookAdd(h, @, c),
               ![c].up[h]        = UpAdd(h, @, IdOf(p.key))]

Unlinked(hp, h, p, c) ==
    [hp EXCEPT ![p].down[h.hook] = HookDel(h, @, c, 1),
               ![c].up[h]        = UpDel(h, @, IdOf(p.key))]

\* What _link_nodes takes for granted: a string fkey is empty, and a dict hook
\* has no child of that id.
LinkGuard(hp, h, p, c) ==
    /\ p # c
    /\ \/ May("relink")
       \/ /\ h.kind = "string" => hp[c].up[h] = <<>>
          /\ h.dict => \A o \in ToSet(hp[p].down[h.hook]) :
                           IdOf(o.key) # IdOf(c.key)

\* treedb_clean_node: each ref is unlinked from the parent it names or, when
\* there is no such node, removed.  None is left: no node is its own parent.
Cleaned(hp, o) ==
    LET t == TopicOf(o.key)
        hook(x, n) == HookTo(TopicOf(x.key), n, t)
        down(x) ==
            [n \in DOMAIN hp[x].down |->
                IF x = prim[x.key] /\ HooksTo(TopicOf(x.key), n, t) # {}
                THEN HookDel(hook(x, n), hp[x].down[n], o,
                             Count(hp[o].up[hook(x, n)], IdOf(x.key)))
                ELSE hp[x].down[n]]
    IN  [x \in DOMAIN hp |-> [hp[x] EXCEPT !.down = down(x), !.up = IF x = o THEN NoUp(t) ELSE @]]

\* The children that delete with force unlinks: the array of the hook itself
\* is walked while its items are removed, so every second one is skipped.
Unhooked(hp, o) ==
    LET childs(acc, name) ==
            LET s == acc[o].down[name]
            IN  IF \E h \in HooksOf(TopicOf(o.key)) : h.hook = name /\ h.dict
                THEN s ELSE [i \in 1..((Len(s) + 1) \div 2) |-> s[2 * i - 1]]
        hookOf(name, c) == HookTo(TopicOf(o.key), name, TopicOf(c.key))
        drop(name, acc) == FoldLeft(
            LAMBDA a, c : Unlinked(a, hookOf(name, c), o, c),
            acc, childs(acc, name))
    IN  FoldSet(drop, hp, DownHooks(TopicOf(o.key)))

\* Mutant: only a hook with several children counts.
BugHasDown(hp, o) == \E n \in DownHooks(TopicOf(o.key)) : Len(hp[o].down[n]) > 1

HasDown(hp, o) == \E n \in DownHooks(TopicOf(o.key)) : hp[o].down[n] # <<>>
HasUp(hp, o)   == \E h \in UpHooks(TopicOf(o.key)) : hp[o].up[h] # <<>>

\* What the hooks of some objects hold, and the hooks of what they hold.
Held(hp, objects) ==
    LET next(O) == O \union UNION {UNION {ToSet(hp[o].down[n]) : n \in DOMAIN hp[o].down} : o \in O}
        reach[n \in 0..Cardinality(DOMAIN hp)] ==
            IF n = 0 THEN objects ELSE next(reach[n - 1])
    IN  reach[Cardinality(DOMAIN hp)]

\* An object lives while an index or a hook of a living object holds it.
Living(hp, p, s) == Restrict(hp, Objects(p, s) \union Held(hp, Objects(p, s)))

---------------------------------------------------------------------------
(* The operations.                                                         *)

Work   == open /\ pc = "idle" /\ (tag = 0 \/ May("write_in_snap"))
Room   == MapThenSumSet(LAMBDA t : Len(log[t]), Topics) < MaxRows
Fails  == IF May("save_fails") THEN BOOLEAN ELSE {FALSE}

\* treedb_save_node on an object: record2tranger and the append may fail, and
\* the callers go on as if they had not.  The row has the tag of the node.
Save(hp, o, fails) ==
    LET k  == o.key
        ok == ~fails /\ hp[o].val # Bad
        r  == Len(log[TopicOf(k)]) + 1
        n  == IF ok THEN [hp[o] EXCEPT !.row = r] ELSE hp[o]
    IN  /\ Room
        /\ heap' = Living([hp EXCEPT ![o] = n], prim, sec)
        /\ log' = IF ok
                  THEN [log EXCEPT ![TopicOf(k)] = Append(@, RowOf(k, n))]
                  ELSE log

\* treedb_open_db: the snaps first, then the topics with the tag of the
\* active one, then the links.
Open ==
    /\ ~open
    /\ open' = TRUE
    /\ tag' = ActiveTag
    /\ prim' = LoadPrim(ActiveTag)
    /\ sec' = LoadSec
    /\ heap' = LoadHeap(prim', sec')
    /\ UNCHANGED <<disk, call, shot>>

\* treedb_close_db, or the death of the process, at any point.
Close ==
    /\ open
    /\ open' = FALSE
    /\ tag' = 0
    /\ prim' = [k \in Keys |-> Nil]
    /\ sec' = [k \in DOMAIN sec |-> [k2 \in Key2s |-> Nil]]
    /\ heap' = <<>>
    /\ pc' = "idle" /\ arg' = Nil /\ todo' = {}
    /\ UNCHANGED <<disk, shot>>

\* treedb_create_node.  A new instance of an id that is there already takes
\* the fkeys of the primary node, and is put in the hooks of its parents.
NewInstance(k, k2) == TopicOf(k) \in Keyed /\ sec[k][k2] = Nil
MayCreate(k, k2) ==
    /\ IF TopicOf(k) \in Keyed THEN k2 \in Key2s ELSE k2 = Nil
    /\ prim[k] = Nil \/ (NewInstance(k, k2) /\ May("instances"))

InheritLinks(k) == IF prim[k] = Nil THEN NoUp(TopicOf(k)) ELSE heap[prim[k]].up

NewNode(k, v, k2) ==
    [val |-> v, k2 |-> k2, up |-> InheritLinks(k), down |-> NoDown(TopicOf(k)),
     row |-> Len(log[TopicOf(k)]) + 1, tag |-> 0]

\* The object and its links, in the hooks of its parents.
WithNode(o, node) ==
    LET t == TopicOf(o.key)
        hook(x, n) == HookTo(TopicOf(x.key), n, t)
        refs(x, n) == IF x = prim[x.key] /\ HooksTo(TopicOf(x.key), n, t) # {}
                      THEN Count(node.up[hook(x, n)], IdOf(x.key)) ELSE 0
        down(x) ==
            [n \in DOMAIN heap[x].down |->
                IF refs(x, n) = 0 THEN heap[x].down[n]
                ELSE IF hook(x, n).dict THEN HookAdd(hook(x, n), heap[x].down[n], o)
                ELSE heap[x].down[n] \o [i \in 1..refs(x, n) |-> o]]
    IN  [x \in DOMAIN heap \union {o} |->
            IF x = o THEN node ELSE [heap[x] EXCEPT !.down = down(x)]]

CreateNode(k, v, k2) ==
    LET t     == TopicOf(k)
        newId == prim[k] = Nil
        node  == NewNode(k, v, k2)
        o     == Obj(k, node.row, ~newId)
    IN  /\ Work /\ Room
        /\ MayCreate(k, k2)
        /\ \E fails \in Fails :
              IF fails THEN UNCHANGED <<log, heap, prim, sec>>
              ELSE /\ log' = [log EXCEPT ![t] = Append(@, RowOf(k, node))]
                   /\ prim' = IF newId THEN [prim EXCEPT ![k] = o] ELSE prim
                   /\ sec' = IF NewInstance(k, k2) THEN [sec EXCEPT ![k][k2] = o] ELSE sec
                   /\ heap' = Living(WithNode(o, node), prim', sec')
        /\ UNCHANGED <<snaps, open, tag, call, shot>>

\* treedb_update_node: the fields change in memory first, and the result of
\* the save is not looked at.  The indexes are not.
UpdateNode(k, v, k2) ==
    LET o == prim[k]
    IN  /\ Work /\ o # Nil
        /\ v # Bad \/ May("bad_value")
        /\ IF TopicOf(k) \in Keyed
           THEN k2 = heap[o].k2 \/ (k2 \in Key2s /\ May("rekey"))
           ELSE k2 = Nil
        /\ \E fails \in Fails :
              Save([heap EXCEPT ![o].val = v, ![o].k2 = k2], o, fails)
        /\ UNCHANGED <<snaps, open, tag, prim, sec, call, shot>>

\* treedb_delete_node: a node with a tag is not deleted without force.
MayDelete(k, force) ==
    /\ force => ~HasDown(heap, prim[k]) \/ May("force_children")
    /\ ~force => /\ heap[prim[k]].tag = 0
                 /\ log[TopicOf(k)][heap[prim[k]].row].tag = 0 \/ May("delete_shot")

\* Its children, and then its parents; nothing of what force unlinks is saved.
Freed(o, force) == IF force /\ HasDown(heap, o) THEN Unhooked(heap, o) ELSE heap
NoLinks(o, force) == ~HasDown(Freed(o, force), o) /\ (force \/ ~HasUp(Freed(o, force), o))

DeleteNode(k, force) ==
    LET o   == prim[k]
        t   == TopicOf(k)
        row == heap[o].row
    IN  /\ Work /\ o # Nil
        /\ MayDelete(k, force)
        /\ IF NoLinks(o, force)
           THEN /\ log' = [log EXCEPT ![t][row].mark = TRUE]
                /\ prim' = [prim EXCEPT ![k] = Nil]
                /\ sec' = IF t \in Keyed
                          THEN [sec EXCEPT ![k] = [k2 \in Key2s |-> Nil]]
                          ELSE sec
                /\ shot' = [s \in DOMAIN shot |->
                              IF force /\ s = log[t][row].tag /\ shot[s] # Nil
                              THEN shot[s] \ {k} ELSE shot[s]]
           ELSE UNCHANGED <<log, prim, sec, shot>>
        /\ heap' = LET freed == Freed(o, force)
                   IN  Living(IF force THEN Cleaned(freed, o) ELSE freed, prim', sec')
        /\ UNCHANGED <<snaps, open, tag, call>>

\* treedb_link_nodes and treedb_unlink_nodes change both sides, and save the
\* child.
LinkNodes(h, p, c) ==
    LET po == prim[p]
        co == prim[c]
    IN  /\ Work /\ po # Nil /\ co # Nil
        /\ LinkGuard(heap, h, po, co)
        /\ \E fails \in Fails : Save(Linked(heap, h, po, co), co, fails)
        /\ UNCHANGED <<snaps, open, tag, prim, sec, call, shot>>

\* What _unlink_nodes takes for granted: that they are linked.
UnlinkGuard(h, p, co) ==
    /\ p # co.key
    /\ Count(heap[co].up[h], IdOf(p)) > 0 \/ May("unlink_other")

\* Mutant: the parent is saved, and not the child.
BugUnlinkNodes(h, p, c) ==
    LET po == prim[p]
        co == prim[c]
    IN  /\ Work /\ po # Nil /\ co # Nil
        /\ UnlinkGuard(h, p, co)
        /\ \E fails \in Fails : Save(Unlinked(heap, h, po, co), po, fails)
        /\ UNCHANGED <<snaps, open, tag, prim, sec, call, shot>>

UnlinkNodes(h, p, c) ==
    LET po == prim[p]
        co == prim[c]
    IN  /\ Work /\ po # Nil /\ co # Nil
        /\ UnlinkGuard(h, p, co)
        /\ \E fails \in Fails : Save(Unlinked(heap, h, po, co), co, fails)
        /\ UNCHANGED <<snaps, open, tag, prim, sec, call, shot>>

\* treedb_clean_node with save: saved only if there was a ref.
CleanNode(k) ==
    LET o == prim[k]
    IN  /\ Work /\ o # Nil /\ HasUp(heap, o)
        /\ \E fails \in Fails : Save(Cleaned(heap, o), o, fails)
        /\ UNCHANGED <<snaps, open, tag, prim, sec, call, shot>>

\* One ref of treedb_autolink: it stops at the first parent that is not there
\* or refuses the link.
There(p) == p \in Keys /\ prim[p] # Nil
LinkNext(before, h, p, o) ==
    IF before.ok /\ There(p) /\ prim[p] # o
    THEN [ok |-> TRUE, hp |-> Linked(before.hp, h, prim[p], o)]
    ELSE [ok |-> FALSE, hp |-> before.hp]

\* treedb_autolink with save, to two parents: stopped, the node is not saved.
Autolink(k, h, p, q) ==
    LET o      == prim[k]
        first  == LinkNext([ok |-> TRUE, hp |-> heap], h, p, o)
        second == LinkNext(first, h, q, o)
    IN  /\ Work /\ o # Nil
        /\ \/ May("bad_autolink")
           \/ /\ There(p) /\ LinkGuard(heap, h, prim[p], o)
              /\ There(q) /\ LinkGuard(first.hp, h, prim[q], o)
        /\ IF second.ok
           THEN \E fails \in Fails : Save(second.hp, o, fails)
           ELSE heap' = second.hp /\ UNCHANGED log
        /\ UNCHANGED <<snaps, open, tag, prim, sec, call, shot>>

NextTag == 1 + Cardinality({n \in Names : snaps[n] # Nil})

\* treedb_shoot_snap: the snap gets its own node, then every node of the tree
\* is saved and the new row is given the tag of the snap, one by one.
ShootSnap(name) ==
    /\ Work
    /\ snaps[name] = Nil
    /\ snaps' = [snaps EXCEPT ![name] = [tag |-> NextTag, active |-> FALSE]]
    /\ pc' = "shoot" /\ arg' = name
    /\ todo' = {k \in Keys : prim[k] # Nil} \X {"save", "flag"}
    /\ UNCHANGED <<log, memory, shot>>

ShootSave(k) ==
    /\ pc = "shoot" /\ <<k, "save">> \in todo
    /\ \A j \in Keys : <<j, "flag">> \in todo => <<j, "save">> \in todo
    /\ \E fails \in Fails : Save(heap, prim[k], fails)
    /\ todo' = todo \ {<<k, "save">>}
    /\ UNCHANGED <<snaps, open, tag, prim, sec, pc, arg, shot>>

ShootFlag(k) ==
    /\ pc = "shoot" /\ <<k, "flag">> \in todo /\ <<k, "save">> \notin todo
    /\ log' = [log EXCEPT ![TopicOf(k)][heap[prim[k]].row].tag = snaps[arg].tag]
    /\ todo' = todo \ {<<k, "flag">>}
    /\ UNCHANGED <<snaps, memory, pc, arg, shot>>

ShootEnd ==
    /\ pc = "shoot" /\ todo = {}
    /\ shot' = [shot EXCEPT ![snaps[arg].tag] = {k \in Keys : prim[k] # Nil}]
    /\ pc' = "idle" /\ arg' = Nil
    /\ UNCHANGED <<disk, memory, todo>>

\* treedb_activate_snap: the active snap is saved as inactive, then the new
\* one as active ("__clear__": none).  The tree in memory does not change.
ActivateSnap(name) ==
    /\ open /\ pc = "idle"
    /\ name # Nil => snaps[name] # Nil /\ ~snaps[name].active
    /\ snaps' = [n \in Names |-> IF snaps[n] = Nil THEN Nil
                                 ELSE [snaps[n] EXCEPT !.active = FALSE]]
    /\ IF name = Nil THEN UNCHANGED <<pc, arg>>
       ELSE pc' = "activate" /\ arg' = name
    /\ UNCHANGED <<log, memory, todo, shot>>

ActivateEnd ==
    /\ pc = "activate"
    /\ snaps' = [snaps EXCEPT ![arg].active = TRUE]
    /\ pc' = "idle" /\ arg' = Nil
    /\ UNCHANGED <<log, memory, todo, shot>>

---------------------------------------------------------------------------
Init ==
    /\ log = [t \in Topics |-> <<>>]
    /\ snaps = [n \in Names |-> Nil]
    /\ open = FALSE /\ tag = 0 /\ heap = <<>>
    /\ prim = [k \in Keys |-> Nil]
    /\ sec = [k \in {j \in Keys : TopicOf(j) \in Keyed} |->
                 [k2 \in Key2s |-> Nil]]
    /\ pc = "idle" /\ arg = Nil /\ todo = {}
    /\ shot = [s \in 1..Cardinality(Names) |-> Nil]

ParentIds(h) == {IdOf(k) : k \in {j \in Keys : TopicOf(j) = h.parent}}

NodeOp == \E k \in Keys :
    \/ \E v \in Vals, k2 \in Key2s \union {Nil} : CreateNode(k, v, k2)
    \/ \E v \in Vals \union {Bad}, k2 \in Key2s \union {Nil} :
          UpdateNode(k, v, k2)
    \/ \E force \in BOOLEAN : DeleteNode(k, force)
    \/ CleanNode(k)

LinkOp == \E h \in Hooks, c \in Keys :
    /\ TopicOf(c) = h.child
    /\ \/ \E id \in ParentIds(h) : \/ LinkNodes(h, <<h.parent, id>>, c)
                                   \/ UnlinkNodes(h, <<h.parent, id>>, c)
       \/ \E a, b \in ParentIds(h) : Autolink(c, h, <<h.parent, a>>, <<h.parent, b>>)

SnapOp == \/ \E n \in Names : ShootSnap(n)
          \/ \E k \in Keys : ShootSave(k) \/ ShootFlag(k)
          \/ ShootEnd
          \/ \E n \in Names \union {Nil} : ActivateSnap(n)
          \/ ActivateEnd

Next == Open \/ Close \/ NodeOp \/ LinkOp \/ SnapOp

Spec == Init /\ [][Next]_vars

---------------------------------------------------------------------------
(* What must hold.                                                         *)

TypeOK ==
    /\ \A t \in Topics : \A r \in DOMAIN log[t] :
          log[t][r].mark \in BOOLEAN /\ log[t][r].tag \in DOMAIN shot \union {0}
    /\ \A k \in Keys : prim[k] # Nil => prim[k] \in DOMAIN heap
    /\ \A o \in DOMAIN heap : /\ DOMAIN heap[o].up = UpHooks(TopicOf(o.key))
                              /\ heap[o].row \in DOMAIN log[TopicOf(o.key)]
    /\ pc \in {"idle", "shoot", "activate"}
    /\ Cardinality({n \in Names : snaps[n] # Nil /\ snaps[n].active}) <= 1

\* Both sides of a link agree: a node names a parent in an fkey as many times
\* as that parent holds it in the hook, and a parent that is not in the tree
\* is named only in the tree of a snap (_link_nodes and _unlink_nodes change
\* both sides; load_all_links rebuilds one from the other).
LinksAgree ==
    open => \A c \in Keys : prim[c] # Nil =>
        \A h \in UpHooks(TopicOf(c)) : \A id \in ParentIds(h) :
            LET p == prim[<<h.parent, id>>]
                n == Count(heap[prim[c]].up[h], id)
            IN  IF p = Nil THEN n = 0 \/ tag # 0
                ELSE Count(heap[p].down[h.hook], prim[c]) = n

\* The memory is what a restart would load: killed at any point between two
\* calls, the process finds the nodes and links it had (the order of a load is
\* backward, a mark hides the rows before it, and a secondary index applies
\* the same rule by its own key).
LoadGivesMemory ==
    open /\ pc = "idle" => \A k \in Keys :
        /\ LoadImage(k, tag) = IF prim[k] = Nil THEN Nil
                               ELSE Image(heap[prim[k]])
        /\ tag = 0 /\ TopicOf(k) \in Keyed => \A k2 \in Key2s :
              (LoadRow2(k, k2) = 0) <=> (sec[k][k2] = Nil)

\* A finished snap keeps its nodes, whatever is saved or created again later, but
\* for those that a deletion with force takes from it: activating it loads them
\* all, and no other (saves inherit the tag of a node that was loaded with one,
\* and a deletion marks one row).
SnapHasNodes == \A s \in DOMAIN shot :
    shot[s] # Nil => {k \in Keys : LoadRow(k, s) # 0} = shot[s]

\* The main line: in memory while it is open, on disk otherwise.
MainOf(k) == IF ~open \/ tag # 0 THEN LoadImage(k, 0)
             ELSE IF prim[k] = Nil THEN Nil ELSE Image(heap[prim[k]])

\* The parents that an image names, each with the hook.
FkeyRefs(n, t) == {link \in UpHooks(t) \X Keys :
                  /\ TopicOf(link[2]) = link[1].parent
                  /\ Count(n.up[link[1]], IdOf(link[2])) > 0}

\* The node of the tree that an image is.
NodeOf(n, t) == IF n = Nil THEN Nil
                ELSE [value |-> <<n.val, n.k2>>, parents |-> FkeyRefs(n, t)]

\* The tree is a LinkedTree: opening, closing, the death of the process,
\* shooting and activating snaps do not change it, and every other operation
\* changes one node, its links to nodes that are there, or removes one that
\* nothing is linked to.
Tree == INSTANCE LinkedTree WITH
    Nodes <- Keys, tree <- [k \in Keys |-> NodeOf(MainOf(k), TopicOf(k))]
IsTree == Tree!Spec

=============================================================================
