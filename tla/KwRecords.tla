----------------------------- MODULE KwRecords -----------------------------
(***************************************************************************)
(* 14_kw.c, stores of id records: a list of records, or a dict with the    *)
(* records by their id.  The same calls are made on one of each; a third   *)
(* list has its records in the order of their field n.  A record may have  *)
(* records below it, in the list of its field kids.                        *)
(***************************************************************************)
EXTENDS JsonValue

CONSTANTS
    RecordIds,            \* of records
    News,           \* the records that callers give, with an id each
    MaxRecords      \* of a store: a bound of the model

VARIABLES
    rlist, rdict, olist,    \* the stores: the content of an array, of an object, of an array
    given                   \* kwjr_get: what the two stores answered

rvars == <<rlist, rdict, olist, given>>

-----------------------------------------------------------------------------
(* Reading *)

WithId(items, id) == {i \in DOMAIN items : IdOf(items[i]) = id}

\* The item with an id: the first, or the last with "backward".
Position(items, id, backward) ==
    CHOOSE i \in WithId(items, id) :
        \A j \in WithId(items, id) : IF backward THEN j <= i ELSE i <= j
RecordAt(items, id, backward) ==
    IF WithId(items, id) = {} THEN Absent ELSE items[Position(items, id, backward)]

\* _kwid_get, kwid_get: over dicts by key, over lists by id; a simple value ends the way.
IdGet(v, path, backward) ==
    LET step(x, segment) ==
            CASE IsDict(x) -> Key(x, segment)
              [] IsList(x) -> RecordAt(x[2], segment, backward)
              [] OTHER     -> x
    IN  FoldLeft(step, v, path)

\* kwid_new_list: the id of a dict's record is its key.
NewList(v) ==
    IF IsList(v) THEN Range(v[2])
    ELSE {IF IsDict(v[2][k]) THEN WithKey(v[2][k], "id", Str(k)) ELSE v[2][k] : k \in DictKeys(v)}

\* kwid_new_dict: of two records with one id, the last.
NewDict(v) ==
    IF IsDict(v) THEN v[2]
    ELSE [id \in {IdOf(x) : x \in Range(v[2])} \ {""} |-> RecordAt(v[2], id, TRUE)]

\* kwid_get_id_records
IdRecords(v) ==
    IF IsList(v) THEN {x \in Range(v[2]) : IdOf(x) # ""}
    ELSE {v[2][k] : k \in {k \in DictKeys(v) : IdOf(v[2][k]) = k}}
         \cup UNION {{x \in Range(v[2][k][2]) : IdOf(x) # ""} : k \in {k \in DictKeys(v) : IsList(v[2][k])}}

\* The match function of the caller: the record has the keys of the filter.
Match(x, filter) == \A k \in DictKeys(filter) : Key(x, k) = filter[2][k]

\* kw_collect: the records that match; of a dict, itself.
Collect(v, filter) == {x \in IF IsList(v) THEN Range(v[2]) ELSE {v} : Match(x, filter)}

\* kw_select and kw_select2: only some of their keys.
Select(v, keys, filter) ==
    {Dict([k \in DictKeys(x) \cap keys |-> x[2][k]]) : x \in Collect(v, filter)}

\* kwid_collect: those with one of the ids.
CollectIds(v, ids, filter) ==
    IF IsList(v) THEN {x \in Range(v[2]) : IdOf(x) \in ids /\ Match(x, filter)}
    ELSE {v[2][k] : k \in {k \in DictKeys(v) \cap ids : Match(v[2][k], filter)}}

-----------------------------------------------------------------------------
(* Trees *)

RECURSIVE TreeCollect(_), TreeSelect(_, _, _), WalkChilds(_), Navigate(_, _, _)

\* _tree_collect, kwid_new_list_tree_collect: the id records of every level.
TreeCollect(v) ==
    CASE IsList(v) -> FlattenSeq([i \in DOMAIN v[2] |-> IF IsDict(v[2][i]) THEN TreeCollect(v[2][i]) ELSE <<>>])
      [] IsDict(v) ->
            (IF IdOf(v) # "" THEN <<v>> ELSE <<>>)
            \o FlattenSeq([i \in 1 .. Cardinality(DictKeys(v)) |-> TreeCollect(v[2][SetToSeq(DictKeys(v))[i]])])
      [] OTHER -> <<>>

\* kwid_new_dict_tree_collect: of two records with one id, the last.
TreeDict(v) == NewDict(List(TreeCollect(v)))

\* _tree_select, kwid_tree_select: the fields of the id records that match, over a hook.
TreeSelect(v, hook, fields) ==
    CASE IsList(v) -> FlattenSeq([i \in DOMAIN v[2] |-> IF IsDict(v[2][i]) THEN TreeSelect(v[2][i], hook, fields) ELSE <<>>])
      [] IsDict(v) /\ IdOf(v) = "" ->
            LET keys == SetToSeq({k \in DictKeys(v) : IdOf(v[2][k]) = k})
            IN  FlattenSeq([i \in DOMAIN keys |-> TreeSelect(v[2][keys[i]], hook, fields)])
      [] IsDict(v) /\ IdOf(v) # "" ->
            LET part == [k \in DictKeys(v) \cap fields |-> v[2][k]]
            IN  (IF DOMAIN part # {} THEN <<Dict(part)>> ELSE <<>>) \o TreeSelect(Key(v, hook), hook, fields)
      [] OTHER -> <<>>

\* _kwid_walk_childs, kwid_walk_childs: a node before its children.
WalkChilds(node) ==
    LET kids == Key(node, "kids")
    IN  <<node>> \o (IF IsList(kids) THEN FlattenSeq([i \in DOMAIN kids[2] |-> WalkChilds(kids[2][i])])
                     ELSE <<>>)

\* _kw_navigate, kw_get_propagated_key_values: a key of every dict, by the path to it;
\* over lists, only those with an id.
Navigate(v, path, key) ==
    CASE IsDict(v) ->
            {<<Append(path, key), v[2][k]>> : k \in DictKeys(v) \cap {key}}
            \cup UNION {Navigate(v[2][k], Append(path, k), key) : k \in {k \in DictKeys(v) : ~IsSimple(v[2][k])}}
      [] IsList(v) ->
            UNION {Navigate(x, Append(path, IdOf(x)), key) : x \in {x \in Range(v[2]) : IdOf(x) # ""}}
      [] OTHER -> {}

\* kw_set_key_value: over dicts by key, over lists by id, the first; there must be a way.
RECURSIVE SetKeyValue(_, _, _)
SetKeyValue(v, path, x) ==
    IF Len(path) = 1 THEN IF IsDict(v) THEN WithKey(v, path[1], x) ELSE v
    ELSE LET y == IdGet(v, <<path[1]>>, FALSE)
             i == Position(v[2], path[1], FALSE)
         IN  IF y = Absent THEN v
             ELSE CASE IsDict(v) -> WithKey(v, path[1], SetKeyValue(y, Tail(path), x))
                    [] IsList(v) -> List([v[2] EXCEPT ![i] = SetKeyValue(y, Tail(path), x)])
                    [] OTHER     -> v

\* kw_put_propagated_key_values
PutPropagated(v, values) ==
    FoldSet(LAMBDA value, w : SetKeyValue(w, value[1], value[2]), v, values)

-----------------------------------------------------------------------------
(* What is too big to show *)

Mark(path, size) == Dict("__collapsed__" :> Dict([path |-> <<"path", path>>, size |-> Num(size)]))
SizeOf(v) == IF IsDict(v) THEN Cardinality(DictKeys(v)) ELSE IF IsList(v) THEN Len(v[2]) ELSE 1

\* collapse, kw_collapse: a limit of 0 is none; a list in a list is left as it is.
RECURSIVE Collapse(_, _, _, _)
Collapse(v, path, lists, dicts) ==
    LET items(x, at) == [i \in DOMAIN x |->
            IF IsDict(x[i]) THEN Collapse(x[i], Append(at, ToString(i - 1)), lists, dicts) ELSE x[i]]
        of(x, at) ==
            CASE IsDict(x) -> IF dicts > 0 /\ SizeOf(x) > dicts THEN Mark(at, SizeOf(x))
                              ELSE Collapse(x, at, lists, dicts)
              [] IsList(x) -> IF lists > 0 /\ SizeOf(x) > lists THEN List(<<Mark(at, SizeOf(x))>>)
                              ELSE List(items(x[2], at))
              [] OTHER     -> x
    IN  Dict([k \in DictKeys(v) |-> of(v[2][k], Append(path, k))])

-----------------------------------------------------------------------------
(* Calls *)

RecInit == rlist = <<>> /\ rdict = <<>> /\ olist = <<>> /\ given = <<Absent, Absent>>

\* kwjr_get with "create": the record that is new is the default, with what the caller
\* gives, whose id is the one that is asked.
JrCreate == \E r \in News, backward \in BOOLEAN :
    LET id == IdOf(r) IN
    /\ Len(rlist) < MaxRecords
    /\ rlist' = IF WithId(rlist, id) = {} THEN Append(rlist, r) ELSE rlist
    /\ rdict' = IF id \in DOMAIN rdict THEN rdict ELSE (id :> r) @@ rdict
    /\ given' = <<IF WithId(rlist, id) = {} THEN r ELSE RecordAt(rlist, id, backward),
                  IF id \in DOMAIN rdict THEN rdict[id] ELSE r>>
    /\ UNCHANGED olist

\* Mutant: the item after the one that was found is taken.
BugTaken(items, id, backward) ==
    LET i == Position(items, id, backward) IN RemoveAt(items, IF i < Len(items) THEN i + 1 ELSE i)

\* The list without the item that was found.
Taken(items, id, backward) == RemoveAt(items, Position(items, id, backward))

\* kwjr_get, and with "extract"
JrGet == \E id \in RecordIds, extract \in BOOLEAN, backward \in BOOLEAN :
    /\ given' = <<RecordAt(rlist, id, backward), Key(Dict(rdict), id)>>
    /\ rlist' = IF extract /\ WithId(rlist, id) # {} THEN Taken(rlist, id, backward) ELSE rlist
    /\ rdict' = IF extract THEN [k \in DOMAIN rdict \ {id} |-> rdict[k]] ELSE rdict
    /\ UNCHANGED olist

\* kw_insert_ordered_record: behind those whose field is not greater.
InsertOrdered == \E r \in News :
    LET n(x) == Key(x, "n")[2]
        upto == {i \in DOMAIN olist : n(olist[i]) <= n(r)}
        at   == IF upto = {} THEN 0 ELSE CHOOSE i \in upto : \A j \in upto : j <= i
    IN  /\ Len(olist) < MaxRecords
        /\ olist' = InsertAt(olist, at + 1, r)
        /\ UNCHANGED <<rlist, rdict, given>>

\* kw_pop, of a string, a list or a dict of keys, on the dict; on the list, one by one.
Pop == \E ids \in SUBSET RecordIds :
    /\ rdict' = [k \in DOMAIN rdict \ ids |-> rdict[k]]
    /\ rlist' = SelectSeq(rlist, LAMBDA x : IdOf(x) \notin ids)
    /\ UNCHANGED <<olist, given>>

RecNext == JrCreate \/ JrGet \/ InsertOrdered \/ Pop

-----------------------------------------------------------------------------
(* Properties *)

Lst == List(rlist)
Dct == Dict(rdict)

\* What any reader has of a store that is a list is what it has of one that is a dict.
SameRecords ==
    /\ given[1] = given[2]
    /\ NewDict(Lst) = rdict /\ NewList(Dct) = NewList(Lst) /\ IdRecords(Dct) = IdRecords(Lst)
    /\ \A id \in RecordIds, backward \in BOOLEAN :
          IdGet(Lst, <<id>>, backward) = IdGet(Dct, <<id>>, backward)
    /\ LET Is1 == Dict("n" :> Num(1)) IN
       /\ \A ids \in SUBSET RecordIds : CollectIds(Lst, ids, Is1) = CollectIds(Dct, ids, Is1)
       /\ Collect(Lst, Is1) = CollectIds(Dct, RecordIds, Is1)
       /\ Select(Lst, {"id"}, Is1) = {Dict("id" :> Str(id)) :
                id \in {id \in DOMAIN rdict : Match(rdict[id], Is1)}}

\* The records below, by each way to them: all those of every level, those over the
\* hook, and the walk over the children.
SameTrees ==
    LET all == TreeCollect(Lst) IN
    /\ all = FlattenSeq([i \in DOMAIN rlist |-> WalkChilds(rlist[i])])
    /\ TreeSelect(Lst, "kids", {"id"}) = [i \in DOMAIN all |-> Dict("id" :> Key(all[i], "id"))]
    /\ ToSet(TreeCollect(Dct)) = ToSet(all)
    /\ DOMAIN TreeDict(Lst) = DOMAIN TreeDict(Dct)

\* A key of every record, saved by its path, is restored in a copy that has lost it.
Blank(r) == [r EXCEPT ![2] = [k \in DOMAIN r[2] |->
    IF k = "n" THEN Num(9)
    ELSE IF k = "kids" THEN List([i \in DOMAIN r[2][k][2] |-> WithKey(r[2][k][2][i], "n", Num(9))])
    ELSE r[2][k]]]
Restores ==
    /\ PutPropagated(List([i \in DOMAIN rlist |-> Blank(rlist[i])]), Navigate(Lst, <<>>, "n")) = Lst
    /\ PutPropagated(Dict([k \in DOMAIN rdict |-> Blank(rdict[k])]), Navigate(Dct, <<>>, "n")) = Dct

\* What is shown has nothing too big below it, and each mark tells where what it stands
\* for is, and its size.
RECURSIVE Shown(_)
Shown(v) ==
    {v} \cup (CASE IsDict(v) -> UNION {Shown(v[2][k]) : k \in DictKeys(v)}
                [] IsList(v) -> UNION {Shown(x) : x \in Range(v[2])}
                [] OTHER     -> {})
MarksTrue ==
    \A lists \in 0 .. 2, dicts \in 0 .. 1 : LET whole == Dict([list |-> Lst, dict |-> Dct]) IN
        \A x \in Shown(Collapse(whole, <<>>, lists, dicts)) \ {Collapse(whole, <<>>, lists, dicts)} :
            IF "__collapsed__" \in DictKeys(x) THEN
                LET mark == x[2]["__collapsed__"][2]
                    was  == Walk(whole, mark.path[2])
                    most == IF IsList(was) THEN lists ELSE dicts
                IN  Num(SizeOf(was)) = mark.size /\ most > 0 /\ SizeOf(was) > most
            ELSE IsList(x) /\ lists > 0 => SizeOf(x) <= lists

\* Records put in order are in order.
InOrderOfN == \A i, j \in DOMAIN olist : i < j => Key(olist[i], "n")[2] <= Key(olist[j], "n")[2]

\* 14_kw.c: a list of id records and a dict of them are one store.
StoresAgree == SameRecords /\ SameTrees /\ Restores /\ MarksTrue /\ InOrderOfN

=============================================================================
