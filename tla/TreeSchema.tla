----------------------------- MODULE TreeSchema -----------------------------
(***************************************************************************)
(* 31_tr_treedb.c, the schema of a tree: which schema a process opens, the  *)
(* one it is given or the one saved before, the topics it makes, the       *)
(* columns it checks, and the hooks it parses, which tell each fkey the    *)
(* hook whose references a load takes back.                                *)
(*                                                                         *)
(* Nothing of this stops the opening: a wrong schema is only written in    *)
(* the log.  `wrong` counts those errors.                                  *)
(***************************************************************************)
EXTENDS Integers, Sequences, FiniteSets, SequencesExt

CONSTANTS
    Schemas,        \* [version, topics]: topics, a sequence of [name, version,
                    \* cols]; cols, a sequence of [id, type, flags, hook,
                    \* attrs]; hook, the field of each child topic; attrs, the
                    \* type of the other attributes of the column
    MaxCalls        \* calls of a behaviour, at most: a bound of the model

VARIABLES
    file,           \* the schema saved in the file: a set of one, or empty
    made,           \* the topics on disk: name -> topic
    topics,         \* those that tranger has open, in the order of opening
    fkeys,          \* the <<topic, hook>> parsed last for a topic and column
    opened,         \* TRUE iff the tree is open
    tree, asked,    \* its topics, and those of them that its schema named
    descs,          \* references of topic_cols_desc; Freed, after the last one
    wrong,          \* errors told by the opening
    calls

scvars == <<file, made, topics, fkeys, opened, tree, asked, descs, wrong, calls>>

Freed == -1
NamesOf(ts) == {ts[i].name : i \in DOMAIN ts}
TopicNamed(ts, name) == ts[CHOOSE i \in DOMAIN ts : ts[i].name = name]
IsCol(ts, name, id) ==
    name \in NamesOf(ts) /\ \E c \in ToSet(TopicNamed(ts, name).cols) : c.id = id
ColOf(ts, name, id) ==
    CHOOSE c \in ToSet(TopicNamed(ts, name).cols) : c.id = id

-----------------------------------------------------------------------------
(* Checks *)

\* _treedb_create_topic_cols_desc: the other attributes are blobs.
TypeOfAttr(a) ==
    CASE a \in {"header", "placeholder", "description"} -> "string"
      [] a = "fillspace" -> "integer"
      [] OTHER -> "blob"

KnownTypes == {"string", "integer", "object", "dict", "array", "list", "real",
               "boolean", "blob", "number"}
KnownFlags == {"persistent", "required", "notnull", "wild", "inherit", "readable",
               "writable", "fkey", "hook", "enum", "now", "rowid", "time", "template"}

\* check_desc_field, with each attribute of a column
ColErrors(c) ==
    (IF "header" \in DOMAIN c.attrs THEN 0 ELSE 1)
    + Cardinality({a \in DOMAIN c.attrs :
            TypeOfAttr(a) # "blob" /\ c.attrs[a] # TypeOfAttr(a)})
    + (IF c.type \in KnownTypes THEN 0 ELSE 1)
    + Cardinality(c.flags \ KnownFlags)

\* parse_schema_cols
ColsErrors(cols) == FoldLeft(LAMBDA n, c : n + ColErrors(c), 0, cols)

\* The links of the hooks, in the order of parse_hooks.
LinksOf(ts) ==
    LET of(t, c) == {[topic |-> t.name, hook |-> c.id, child |-> x, field |-> c.hook[x]] :
                        x \in IF "hook" \in c.flags THEN DOMAIN c.hook ELSE {}}
    IN  FlattenSeq([i \in DOMAIN ts |-> FlattenSeq(
            [j \in DOMAIN ts[i].cols |-> SetToSeq(of(ts[i], ts[i].cols[j]))])])

\* Mutant: the flag of the field is not looked at.
BugLinkErrors(ts, link) ==
    IF link.child \notin NamesOf(ts) THEN 1
    ELSE IF ~IsCol(ts, link.child, link.field) THEN 2
    ELSE 0

LinkErrors(ts, link) ==
    IF link.child \notin NamesOf(ts) THEN 1
    ELSE IF ~IsCol(ts, link.child, link.field) THEN 2
    ELSE IF "fkey" \notin ColOf(ts, link.child, link.field).flags THEN 1
    ELSE 0

\* parse_hooks: the fkey is given the hook; one that has another hook is given this
\* one all the same.
Parsed(ts, was) ==
    FoldLeft(LAMBDA m, link :
                IF LinkErrors(ts, link) > 0 THEN m
                ELSE [x \in {<<link.child, link.field>>} |-> <<link.topic, link.hook>>] @@ m,
             was, LinksOf(ts))

HookErrors(ts) ==
    LET cols == FlattenSeq([i \in DOMAIN ts |-> ts[i].cols])
        of(c) == IF "hook" \in c.flags THEN (IF c.hook = <<>> THEN 1 ELSE 0)
                 ELSE Cardinality(DOMAIN c.attrs \cap {"link", "reverse"})
    IN  FoldLeft(LAMBDA n, c : n + of(c), 0, cols)
        + FoldLeft(LAMBDA n, link : n + LinkErrors(ts, link), 0, LinksOf(ts))

-----------------------------------------------------------------------------
(* Calls *)

SchemaInit ==
    /\ file = {} /\ made = <<>>
    /\ topics = <<>> /\ fkeys = <<>>
    /\ opened = FALSE /\ tree = {} /\ asked = {}
    /\ descs = 0 /\ wrong = 0 /\ calls = 0

\* treedb_open_db, the schema: with "persistent" that of the file, unless the new one
\* is of a later version.
Chosen(s, persistent) ==
    IF persistent /\ \E f \in file : s.version <= f.version THEN CHOOSE f \in file : TRUE
    ELSE s

\* tranger_create_topic, on disk: it is as it was unless it is of a later version.
MadeOf(t, on) ==
    IF t.name \in DOMAIN on /\ t.version <= on[t.name].version THEN on[t.name] ELSE t

\* tranger_create_topic: what is open stays as it was opened.
Made(ts) == [n \in NamesOf(ts) |-> MadeOf(TopicNamed(ts, n), made)] @@ made
OpenedOf(ts, on) ==
    topics \o [i \in DOMAIN SelectSeq(ts, LAMBDA t : t.name \notin NamesOf(topics)) |->
        on[SelectSeq(ts, LAMBDA t : t.name \notin NamesOf(topics))[i].name]]

\* treedb_open_db.  Of a tree that is open the schema may be saved, and
\* topic_cols_desc gets a reference that nobody gives back.
OpenDb == \E s \in Schemas, persistent \in BOOLEAN :
    LET used == Chosen(s, persistent)
        on   == Made(used.topics)
        ts   == OpenedOf(used.topics, on)
    IN
    /\ descs # Freed
    /\ file' = IF persistent THEN {used} ELSE file
    /\ descs' = descs + 1
    /\ IF opened THEN UNCHANGED <<made, topics, fkeys, opened, tree, asked, wrong>>
       ELSE /\ opened' = TRUE
            /\ made' = on /\ topics' = ts
            /\ tree' = NamesOf(used.topics) /\ asked' = tree'
            /\ fkeys' = Parsed(ts, fkeys)
            /\ wrong' = HookErrors(ts)
                    + FoldLeft(LAMBDA n, t : n + ColsErrors(TopicNamed(ts, t.name).cols), 0, used.topics)

\* treedb_create_topic, of a tree that is open: no hooks are parsed.
CreateTopic == \E s \in Schemas : \E t \in ToSet(s.topics) :
    LET on == Made(<<t>>)
        ts == OpenedOf(<<t>>, on)
    IN
    /\ opened /\ t.name \notin tree
    /\ made' = on /\ topics' = ts
    /\ tree' = tree \cup {t.name}
    /\ wrong' = wrong + ColsErrors(TopicNamed(ts, t.name).cols)
    /\ UNCHANGED <<file, fkeys, opened, asked, descs>>

\* treedb_close_topic: tranger has it open as before.
CloseTopic == \E name \in tree :
    /\ opened
    /\ tree' = tree \ {name}
    /\ UNCHANGED <<file, made, topics, fkeys, opened, asked, descs, wrong>>

\* treedb_delete_topic
DeleteTopic == \E name \in tree :
    /\ opened
    /\ tree' = tree \ {name} /\ asked' = asked \ {name}
    /\ made' = [n \in DOMAIN made \ {name} |-> made[n]]
    /\ topics' = SelectSeq(topics, LAMBDA t : t.name # name)
    /\ fkeys' = [x \in {y \in DOMAIN fkeys : y[1] # name} |-> fkeys[x]]
    /\ UNCHANGED <<file, opened, descs, wrong>>

\* treedb_close_db: topic_cols_desc is not forgotten when it is freed.
CloseDb ==
    /\ opened
    /\ opened' = FALSE /\ tree' = {} /\ asked' = {}
    /\ descs' = IF descs = 1 THEN Freed ELSE descs - 1
    /\ UNCHANGED <<file, made, topics, fkeys, wrong>>

\* Another process, which has nothing open.
Restart ==
    /\ topics # <<>>
    /\ topics' = <<>> /\ fkeys' = <<>>
    /\ opened' = FALSE /\ tree' = {} /\ asked' = {}
    /\ descs' = 0 /\ wrong' = 0
    /\ UNCHANGED <<file, made>>

SchemaNext ==
    /\ calls < MaxCalls /\ calls' = calls + 1
    /\ OpenDb \/ CreateTopic \/ CloseTopic \/ DeleteTopic \/ CloseDb \/ Restart

-----------------------------------------------------------------------------
(* Properties *)

\* What a node has in the column, when it is created.
JsonOf(c) ==
    CASE c.type \in {"list", "array"}  -> "array"
      [] c.type \in {"dict", "object"} -> "object"
      [] c.type = "string"             -> "string"
      [] OTHER                         -> "other"

\* The checks of _link_nodes on the columns of a parent and a child.
CanLink(p, h, c) ==
    LET hook == ColOf(topics, p, h) IN
    /\ IsCol(topics, p, h) /\ c \in DOMAIN hook.hook
    /\ IsCol(topics, c, hook.hook[c])
    /\ JsonOf(hook) \in {"array", "object"}
    /\ LET field == ColOf(topics, c, hook.hook[c])
       IN  \/ JsonOf(field) \in {"array", "object"}
           \/ JsonOf(field) = "string" /\ "hook" \notin field.flags

\* load_links and is_fkey_registered: the reference of a link is taken by a load.
Taken(p, h, c, field) ==
    /\ "fkey" \in ColOf(topics, c, field).flags
    /\ <<c, field>> \in DOMAIN fkeys /\ fkeys[<<c, field>>] = <<p, h>>

\* Two hooks that name one fkey, which parse_hooks means to refuse and does not.
Shared == \E i, j \in DOMAIN LinksOf(topics) :
    /\ i # j
    /\ LinksOf(topics)[i].child = LinksOf(topics)[j].child
    /\ LinksOf(topics)[i].field = LinksOf(topics)[j].field

\* Whatever link treedb_link_nodes lets a process make between topics of its schema, a
\* load of that schema takes back, when its opening told no error and no fkey is of
\* two hooks: with a schema of the file or a new one, topics of another version, and
\* topics closed, deleted and created between.
LinksReload ==
    opened /\ wrong = 0 /\ ~Shared =>
        \A p, c \in tree \cap asked : \A x \in ToSet(TopicNamed(topics, p).cols) :
            CanLink(p, x.id, c) => Taken(p, x.id, c, x.hook[c])

=============================================================================
