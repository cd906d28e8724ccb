----------------------------- MODULE MCTreeData -----------------------------
(***************************************************************************)
(* The data of treedb, and the dicts that all data are: a behaviour is of  *)
(* a schema that is opened, of a column of a node, with each description   *)
(* and each value, of a tree that is asked about; or of a dict and its     *)
(* paths, of kws and the gbuffers in them, of two values that are          *)
(* compared, of stores of records, of lists.                              *)
(***************************************************************************)
EXTENDS TreeCols, KwOwners, TLC

CONSTANTS d1, d2, d3,
    Schemas, MaxCalls,
    Keys, Hooks, Keyed, Key2s, Vals, Bad, Names, Nil, MaxRows,
    Paths, Given, Segments, MaxDepth, MaxKwCalls,
    Records, Simples,
    RecordIds, News, MaxRecords,
    ListItems, TextOrder, DescFields, CountTrees, MaxItems

VARIABLES
    log, snaps, open, tag, heap, prim, sec, pc, arg, todo, shot,
    file, made, topics, fkeys, opened, tree, asked, descs, wrong, calls,
    kw, call, done,
    pair,
    rlist, rdict, olist, given,
    ilist,
    library         \* "schema", "columns", "tree", "paths", "owners", "pairs", "stores" or "lists"

tvars == <<log, snaps, open, tag, heap, prim, sec, pc, arg, todo, shot>>
scvars == <<file, made, topics, fkeys, opened, tree, asked, descs, wrong, calls>>

kwvars == <<kw, call, done>>
rvars == <<rlist, rdict, olist, given>>

Q == INSTANCE TreeQuery
S == INSTANCE TreeSchema
K == INSTANCE Kw
C == INSTANCE KwCompare
R == INSTANCE KwRecords
H == INSTANCE JsonHelper

\* Departments with the hooks users and departments, and users with the fkey; topics
\* of later versions with another field, a hook of another type or on a field that is
\* no fkey; and a topic with a link to nowhere and a column that is wrong.
Header == [header |-> "string"]
Field(id)  == [id |-> id, type |-> "string", flags |-> {"persistent"}, hook |-> <<>>,
               attrs |-> Header]
Fkey(id, type) == [Field(id) EXCEPT !.type = type, !.flags = {"fkey"}]
Hook(id, type, hook) ==
    [id |-> id, type |-> type, flags |-> {"hook"}, hook |-> hook, attrs |-> Header]
Untyped(id) ==
    [Field(id) EXCEPT !.type = "text", !.attrs = [fillspace |-> "string", link |-> "string"]]

Departments(v, type, field) ==
    [name |-> "departments", version |-> v,
     cols |-> <<Hook("users", type, [users |-> field]),
                Hook("departments", "list", [departments |-> "parents"]),
                Fkey("parents", "list")>>]
Users(v, col1) == [name |-> "users", version |-> v, cols |-> <<col1>>]
Roles ==
    [name |-> "roles", version |-> 1,
     cols |-> <<Hook("users", "list", [users |-> "department", persons |-> "x"]),
                Untyped("x")>>]

MCSchemas ==
    {[version |-> 1, topics |-> <<Departments(1, "dict", "department"),
                                  Users(1, Fkey("department", "string"))>>],
     [version |-> 1, topics |-> <<Roles, Users(1, Fkey("department", "string"))>>],
     [version |-> 2, topics |-> <<Departments(2, "list", "place"), Users(1, Fkey("place", "array"))>>],
     [version |-> 2, topics |-> <<Departments(2, "list", "place"), Users(2, Fkey("place", "array"))>>],
     [version |-> 3, topics |-> <<Users(3, Field("place")), Departments(2, "integer", "place")>>],
     [version |-> 3, topics |-> <<Users(3, Field("place")), Departments(2, "list", "place")>>]}

\* Every type that a column may have, with the flags that change what is done.
MCColumns ==
    {c \in [type : {"string", "integer", "object", "dict", "array", "list", "real",
                    "boolean", "blob"},
            flags : {{}, {"persistent"}, {"hook"}, {"fkey"}, {"fkey", "hook"},
                     {"required"}, {"enum", "persistent"}, {"persistent", "wild"},
                     {"persistent", "notnull"}, {"persistent", "required"},
                     {"persistent", "now"}, {"persistent", "template"}},
            default : {Absent, Str("w"), <<"integer", 7>>}] :
        c.flags # {"required"} \/ c.type # "blob"}

MCRefs == {"r1", "r2"}

\* A value of each type, the texts that stand for one of another type, and those
\* with references, right or not.
MCValues ==
    {Null, <<"boolean", TRUE>>, <<"integer", 3>>, <<"real", 3>>,
     Str(""), Str("w"), Str("7"), Str("r1"), Str("[]"), Str("{}"),
     EmptyList, <<"array", <<Str("r1"), <<"link", "r2">>>>>>, <<"array", <<Str("w")>>>>,
     <<"array", <<Str("")>>>>,
     EmptyDict, <<"object", <<"r1">>>>, <<"object", <<"r1", "r2">>>>}

\* Departments have users (a dict hook, a string fkey) and departments (a list
\* hook, a list fkey).
MCHooks ==
    {[parent |-> "departments", hook |-> "users", dict |-> TRUE,
      child |-> "users", fkey |-> "department_id", kind |-> "string"],
     [parent |-> "departments", hook |-> "departments", dict |-> FALSE,
      child |-> "departments", fkey |-> "departments", kind |-> "list"]}

MCKeys  == ({"departments"} \X {d1, d2, d3}) \cup {<<"users", "u1">>}
MCKeyed == {"users"}

MCPaths == {<<"b">>, <<"a", "b">>, <<"a", "", "b">>, <<"b", "0", "a">>}
MCGiven == {<<"object", [b |-> Null]>>, <<"array", <<<<"object", [a |-> <<"integer", 2>>]>>>>>>}

\* Records and items of lists, alike or not, with private keys and metadata.
Record(id, x) == <<"object", [id |-> Str(id), x |-> x]>>
One == <<"integer", 1>>
Flat == {Record(i, x) : i \in {"a", "b"}, x \in {One, Str("1")}}
         \cup {<<"object", [id |-> Str("a"), x |-> One, __m |-> One]>>,
               <<"object", [id |-> Str("a"), _p |-> One]>>}
Items == Flat \cup {One, Str("1"), <<"object", [x |-> One]>>}
MCRecords ==
    Flat
    \cup {<<"array", items>> : items \in {<<>>} \cup (Items \X Items)}
    \cup {<<"array", items>> : items \in
            {<<Record("a", One), Record("b", l), Record("c", Null)>> : l \in {Null, EmptyList}}
            \cup {<<Record("c", Null), Record("b", l), Record("a", One)>> : l \in {Null, EmptyList}}}
    \cup {Record("a", x) : x \in {<<"array", <<Record("a", One), Record("b", One)>>>>,
                                  <<"array", <<Record("b", One), Record("a", Str("1"))>>>>,
                                  Record("a", One)}}
MCSimples == {One, <<"integer", 0>>, <<"integer", 2>>, Str(""), Str("1"), Str("a"), Null,
              <<"boolean", TRUE>>, <<"boolean", FALSE>>}

\* Records with records below them, of their own ids and of others.
Node(id, n, kids) ==
    <<"object", [id |-> Str(id), n |-> <<"integer", n>>, kids |-> <<"array", kids>>]>>
MCNews == {Node("a", 1, <<>>), Node("b", 2, <<Node("a", 2, <<>>), Node("c", 1, <<>>)>>),
           Node("c", 1, <<Node("c", 3, <<>>)>>)}

\* Items of lists, integers and not, with ranges, and with two items that are none; the
\* rows of descriptions; trees with counts that are right and wrong.
Num(n) == <<"integer", n>>
MCListItems ==
    {Num(2), Num(10), Str("2"), Str("a"), <<"boolean", TRUE>>} \cup
    {<<"array", s>> : s \in {<<Num(1), Num(3)>>, <<Num(3), Num(1)>>, <<Str("a")>>, <<Str("a"), Num(2)>>}}
MCTextOrder == <<"0", "1", "10", "2", "3", "a">>
MCDescFields ==
    [name : {"", "n", "m"}, type : {"str", "int", "real", "bool", "null", "dict", "list", "blob", ""},
     defaults : {"7"}]
    \cup [name : {"n", "m"}, type : {"integer", "boolean"}, defaults : {"010", "x10"}]
Leaf(kind, refs) == [kind |-> kind, refs |-> refs, items |-> <<>>]
MCCountTrees ==
    {[kind |-> "array", refs |-> r,
      items |-> <<Leaf("string", s), Leaf("constant", -1),
                  [kind |-> "object", refs |-> s, items |-> <<Leaf("integer", t)>>]>>] :
        r, s, t \in 0 .. 3}

\* The names of departments are interchangeable.
Alike == Permutations({d1, d2, d3})

\* The column of the other behaviours.
AnyColumn == [type |-> "string", flags |-> {}, default |-> Absent]
NoPair == [of |-> "nothing"]

MCInit ==
    /\ ColInit /\ Q!Init /\ S!SchemaInit
    /\ K!KwInit /\ KwoInit /\ R!RecInit /\ H!HelperInit
    /\ \/ library = "columns" /\ pair = NoPair
       \/ library = "pairs" /\ col = AnyColumn /\ C!CmpInit
       \/ /\ library \in {"tree", "schema", "paths", "owners", "stores", "lists"}
          /\ col = AnyColumn /\ pair = NoPair

MCNext ==
    /\ UNCHANGED <<library, pair>>
    /\ \/ library = "columns" /\ ColNext /\ UNCHANGED <<scvars, tvars, kwvars, kwovars, rvars, ilist>>
       \/ library = "schema" /\ S!SchemaNext /\ UNCHANGED <<cvars, tvars, kwvars, kwovars, rvars, ilist>>
       \/ library = "tree" /\ Q!QueryNext /\ UNCHANGED <<cvars, scvars, kwvars, kwovars, rvars, ilist>>
       \/ library = "paths" /\ K!KwNext /\ UNCHANGED <<cvars, scvars, tvars, kwovars, rvars, ilist>>
       \/ library = "owners" /\ KwoNext /\ UNCHANGED <<cvars, scvars, tvars, kwvars, rvars, ilist>>
       \/ library = "stores" /\ R!RecNext /\ UNCHANGED <<cvars, scvars, tvars, kwvars, kwovars, ilist>>
       \/ library = "lists" /\ H!HelperNext /\ UNCHANGED <<cvars, scvars, tvars, kwvars, kwovars, rvars>>

MCSpec == MCInit /\ [][MCNext]_<<cvars, tvars, scvars, kwvars, kwovars, rvars, ilist, pair, library>>

\* 31_tr_treedb.c: what the topic has of a column is sound, and a node that was
\* loaded is saved as it is.
ColumnsSound == library = "columns" => StoredSound /\ SaveOfLoadedIsSame

\* 31_tr_treedb.c: what is asked from the child's side of the links and from the
\* parent's side agrees.
QueriesAgree == library = "tree" => Q!QueriesAgree

\* 31_tr_treedb.c: every link that a process can make, a load takes back.
LinksReload == library = "schema" => S!LinksReload

\* 14_kw.c, the functions on paths: a dict of dicts is a map from paths to leaves.
IsFlatDict == K!IsFlatDict

\* 14_kw.c: a list of records and a dict of them are one store, and two values are the
\* same in any order of their lists.  13_json_helper.c: a list is searched, sorted and
\* expanded to what its items say.
StoresAgree ==
    CASE library = "stores" -> R!StoresAgree
      [] library = "pairs"  -> C!ComparesAlike
      [] library = "lists"  -> H!HelpersSound
      [] OTHER              -> TRUE

=============================================================================
