------------------------------ MODULE TreeQuery ------------------------------
(***************************************************************************)
(* What 31_tr_treedb.c answers about the tree of TreeDb: nodes by their id  *)
(* or by filters, the parents that an fkey names, the children that a hook  *)
(* holds, all those below them, as a list or as a tree, and the view of a  *)
(* node.  Parents are answered from the child's side of a link, children   *)
(* from the parent's side.                                                 *)
(*                                                                         *)
(* A filter of a link is [op, ids]: "is" an id (a string), "any" of some   *)
(* (a list), or "all" of them (a dict).  A filter of fields is a function  *)
(* from some of "id", "val" and "k2".                                      *)
(***************************************************************************)
EXTENDS TreeDb

-----------------------------------------------------------------------------
(* Filters *)

\* kwid_match_nid and kwid_match_id: no ids, or none in the list, let all pass.
MatchId(ids, id) == ids = {} \/ id \in ids

\* match_fkey and match_hook, with the ids of the filter that are in the column.
Passes(filter, held) ==
    CASE filter.op = "any" -> filter.ids = {} \/ held # {}
      [] OTHER             -> held = filter.ids

\* Mutant: only the first one counts.
BugIdInFkeys(refs, id) == refs # <<>> /\ Head(refs) = id

\* id_in_fkeys: of <topic>^<id>^<hook> only the id is looked at.
IdInFkeys(refs, id) == id \in ToSet(refs)

IdsOf(s) == {IdOf(o.key) : o \in ToSet(s)}

Field(o, name) == CASE name = "id"  -> IdOf(o.key)
                    [] name = "val" -> heap[o].val
                    [] name = "k2"  -> heap[o].k2

\* kw_match_simple, and cmp_two_simple_json of each field.
MatchSimple(o, fields) == \A name \in DOMAIN fields : Field(o, name) = fields[name]

\* match_node_simple.  A hook without children passes every filter of its ids.
MatchNode(o, filter) ==
    /\ MatchSimple(o, filter.fields)
    /\ \A h \in DOMAIN filter.fkeys :
          Passes(filter.fkeys[h], {id \in filter.fkeys[h].ids : IdInFkeys(heap[o].up[h], id)})
    /\ \A n \in DOMAIN filter.hooks :
          Passes(filter.hooks[n], {id \in filter.hooks[n].ids : MatchId(IdsOf(heap[o].down[n]), id)})

Only(x, y) == [z \in {x} |-> y]
NoFilter == [fields |-> <<>>, fkeys |-> <<>>, hooks |-> <<>>]

-----------------------------------------------------------------------------
(* Nodes *)

\* treedb_get_node and treedb_get_instance
GetNode(t, id) == IF <<t, id>> \in Keys THEN prim[<<t, id>>] ELSE Nil
GetInstance(t, id, k2) == IF <<t, id>> \in DOMAIN sec THEN sec[<<t, id>>][k2] ELSE Nil

Found(objects, ids, filter) ==
    {o \in objects \ {Nil} : MatchId(ids, IdOf(o.key)) /\ MatchNode(o, filter)}

\* treedb_list_nodes and treedb_list_instances
ListNodes(t, ids, filter) ==
    Found({prim[k] : k \in {j \in Keys : TopicOf(j) = t}}, ids, filter)
ListInstances(t, ids, filter) ==
    Found(UNION {Range(sec[k]) : k \in {j \in DOMAIN sec : TopicOf(j) = t}}, ids, filter)

-----------------------------------------------------------------------------
(* Parents and children *)

\* treedb_parent_refs
ParentRefs(o, h) ==
    [i \in DOMAIN heap[o].up[h] |-> [topic |-> h.parent, id |-> heap[o].up[h][i], hook |-> h.hook]]

\* treedb_list_parents: a parent that is not there is left out.
ListParents(o, h) ==
    LET refs == ParentRefs(o, h)
    IN  SelectSeq([i \in DOMAIN refs |-> GetNode(refs[i].topic, refs[i].id)],
                  LAMBDA p : p # Nil)

\* _list_childs: none, and an error, of a node that has no such hook.
ListChilds(o, hook) == IF hook \in DOMAIN heap[o].down THEN heap[o].down[hook] ELSE <<>>

Chosen(o, hook, fields) == SelectSeq(ListChilds(o, hook), LAMBDA c : MatchSimple(c, fields))

\* add_tree_childs, recursive: each child is followed by those below it.  The code
\* does not stop at a node that is below itself: depth is a bound of the model.
TreeChilds(o, hook, fields, depth) ==
    LET under[x \in DOMAIN heap, n \in 0 .. depth] ==
            LET childs == Chosen(x, hook, fields) IN
            FlattenSeq([i \in DOMAIN childs |->
                <<childs[i]>> \o (IF n = 0 THEN <<>> ELSE under[childs[i], n - 1])])
    IN  under[o, depth]

\* treedb_node_childs
NodeChilds(o, hook, fields, recursive) ==
    IF recursive THEN TreeChilds(o, hook, fields, Cardinality(Keys))
    ELSE Chosen(o, hook, fields)

\* node_collapsed_view with the default options, or with "size": each link is shown
\* as the topic and id of its other end.
Shown(o)       == [topic |-> TopicOf(o.key), id |-> IdOf(o.key)]
ShownChilds(o, hook, size) ==
    LET childs == ListChilds(o, hook)
    IN  IF size THEN <<Len(childs)>> ELSE [i \in DOMAIN childs |-> Shown(childs[i])]
ViewOf(o, size) ==
    [val    |-> heap[o].val, k2 |-> heap[o].k2,
     fkeys  |-> [h \in DOMAIN heap[o].up |-> ParentRefs(o, h)],
     childs |-> [n \in DOMAIN heap[o].down |-> ShownChilds(o, n, size)]]

\* create_jchild: the view of a node with the path to it; under another name the
\* hook begins empty.
Jchild(o, hook, rename, path) ==
    LET view == ViewOf(o, FALSE)
    IN  [path |-> path,
         view |-> IF rename THEN [view EXCEPT !.childs = [n \in DOMAIN @ \ {hook} |-> @[n]]]
                  ELSE view]

\* treedb_node_jtree: its nodes, those below a node after it.  Unless the hook is given
\* another name, the trees below a node follow what its view has in the hook.
Jtree(o, hook, rename, fields) ==
    LET tree[x \in DOMAIN heap, path \in Seq(Ids)] ==
            LET childs == Chosen(x, hook, fields)
                here   == Append(path, IdOf(x.key))
            IN  <<Jchild(x, hook, rename, here)>>
                    \o FlattenSeq([i \in DOMAIN childs |-> tree[childs[i], here]])
    IN  tree[o, <<>>]

-----------------------------------------------------------------------------
(* Trees to ask about *)

\* A process opens the tree, creates nodes, and links and unlinks them.
QueryNext ==
    \/ Open
    \/ \E k \in Keys, v \in Vals, k2 \in Key2s \cup {Nil} : CreateNode(k, v, k2)
    \/ \E h \in Hooks, c \in Keys, id \in Ids :
          /\ TopicOf(c) = h.child /\ id \in ParentIds(h)
          /\ LinkNodes(h, <<h.parent, id>>, c) \/ UnlinkNodes(h, <<h.parent, id>>, c)

-----------------------------------------------------------------------------
(* Properties *)

\* The nodes below p, by what their fkeys name.
Below(p, h) ==
    LET nodes == ListNodes(h.child, {}, NoFilter)
        up(S) == S \cup {c \in nodes : ToSet(ListParents(c, h)) \cap (S \cup {p}) # {}}
        reach[n \in 0 .. Cardinality(Keys)] == IF n = 0 THEN {} ELSE up(reach[n - 1])
    IN  reach[Cardinality(Keys)]

NoCycle(p, h) == \A x \in Below(p, h) \cup {p} : x \notin Below(x, h)

\* Each id of the path is named by an fkey of the next one.
IsChain(path, h) == \A i \in 1 .. Len(path) - 1 :
    path[i] \in ToSet(heap[GetNode(h.child, path[i + 1])].up[h])

\* The answers from both sides of a link agree, in every tree that calls can build:
\* list_parents, node_childs, and list_nodes with a filter by fkey; one by hook also
\* answers with the nodes that have no children; every node below p, and no other, is
\* in its recursive children and in its jtree, at the end of a chain of links; and the
\* instances are of the nodes there are.
QueriesAgree == open /\ pc = "idle" /\ tag = 0 =>
    /\ \A h \in Hooks : \A p \in ListNodes(h.parent, {}, NoFilter) :
        LET childs == NodeChilds(p, h.hook, <<>>, FALSE)
            is(o)  == [op |-> "is", ids |-> {IdOf(o.key)}]
        IN
        /\ \A c \in ListNodes(h.child, {}, NoFilter) :
            /\ Count(childs, c) = Count(ListParents(c, h), p)
            /\ (p \in ListNodes(h.parent, {}, [NoFilter EXCEPT
                        !.hooks = Only(h.hook, is(c))])) = (c \in ToSet(childs) \/ childs = <<>>)
        /\ NoCycle(p, h) =>
            LET paths == {n.path : n \in ToSet(Jtree(p, h.hook, TRUE, <<>>))}
            IN  /\ ToSet(NodeChilds(p, h.hook, <<>>, TRUE)) = Below(p, h)
                /\ {Last(path) : path \in paths} = IdsOf(SetToSeq(Below(p, h))) \cup {IdOf(p.key)}
                /\ \A path \in paths : path[1] = IdOf(p.key) /\ IsChain(path, h)
    /\ \A h \in Hooks, op \in {"any", "all"}, ids \in SUBSET Ids :
        ListNodes(h.child, {}, [NoFilter EXCEPT !.fkeys = Only(h, [op |-> op, ids |-> ids])]) =
            {c \in ListNodes(h.child, {}, NoFilter) :
                LET parents == IdsOf(ListParents(c, h))
                IN  IF op = "any" THEN ids = {} \/ ids \cap parents # {}
                    ELSE ids \subseteq parents}
    /\ \A t \in Keyed :
        {IdOf(o.key) : o \in ListInstances(t, {}, NoFilter)}
            = {IdOf(o.key) : o \in ListNodes(t, {}, NoFilter)}

=============================================================================
