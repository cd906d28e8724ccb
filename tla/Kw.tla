--------------------------------- MODULE Kw ---------------------------------
(***************************************************************************)
(* 14_kw.c, the functions on paths: a JSON dict that callers read and      *)
(* write with paths like a`b`c.  Reads walk over dicts and lists, writes   *)
(* over dicts only, and make the dicts that are missing.  No value is in   *)
(* two places.                                                             *)
(***************************************************************************)
EXTENDS JsonValue

CONSTANTS
    Paths,          \* those that callers use
    Given,          \* the values that callers give
    Segments,       \* the keys of subdicts that callers use
    MaxDepth,       \* of a dict: a bound of the model
    MaxKwCalls      \* calls of a behaviour, at most: a bound of the model

VARIABLES
    kw,             \* the dict
    call,           \* the last call: [op, path, flag, given, answer]
    done            \* calls

kwvars == <<kw, call, done>>

-----------------------------------------------------------------------------
(* Paths *)

\* _kw_find_path, kw_find_path
Find(v, path) == Walk(v, path)

\* Nothing but dicts, or nothing, on the way.
Passable(v, path) == \A i \in 0 .. Len(path) - 1 :
    LET x == Find(v, SubSeq(path, 1, i)) IN IsDict(x) \/ x = Absent

\* v with x at the path, and the dicts that are missing on the way.
With(v, path, x) ==
    LET at(i) == LET y == Find(v, SubSeq(path, 1, i)) IN IF y = Absent THEN EmptyDict ELSE y
        built[i \in 0 .. Len(path)] ==
            IF i = Len(path) THEN x ELSE WithKey(at(i), path[i + 1], built[i + 1])
    IN  built[0]

Without(v, path) ==
    LET rest == WithoutKey(Find(v, Front(path)), Last(path))
    IN  IF Len(path) = 1 THEN rest ELSE With(v, Front(path), rest)

\* Mutant: an empty segment is a key like any other.
BugSegmentsOf(path) == path

\* kw_set_dict_value skips the empty segments, but the last one.
SegmentsOf(path) == Append(SelectSeq(Front(path), LAMBDA s : s # ""), Last(path))

\* kw_set_dict_value: the value is freed when it is refused.
CanSet(v, path) == Passable(v, SegmentsOf(path))
SetAt(v, path, x) == IF CanSet(v, path) THEN With(v, SegmentsOf(path), x) ELSE v

\* kw_delete: 0 when the way goes through what is not a dict.
CanDelete(v, path) == Passable(v, path) /\ IsDict(Find(v, Front(path)))
DeleteAt(v, path) ==
    IF CanDelete(v, path) /\ Find(v, path) # Absent THEN Without(v, path) ELSE v
DeleteResult(v, path) ==
    IF CanDelete(v, path) /\ Find(v, path) = Absent THEN Num(-1) ELSE Num(0)

-----------------------------------------------------------------------------
(* Conversions of kw_get_int and kw_get_bool with KW_WILD_NUMBER *)

Numeral(s) == IF s = "1" THEN 1 ELSE 0
AsInt(v) ==
    CASE Is(v, "integer") -> v[2]
      [] Is(v, "boolean") -> IF v[2] THEN 1 ELSE 0
      [] Is(v, "string")  -> Numeral(v[2])
      [] OTHER            -> 0

\* The types that a kind of get takes.
Takes(kind, v) ==
    CASE kind = "dict" -> IsDict(v)
      [] kind = "list" -> IsList(v)
      [] kind = "int"  -> Is(v, "integer")
      [] kind = "str"  -> Is(v, "string")
      [] OTHER         -> TRUE

\* The default that callers give.
Default(kind) ==
    CASE kind = "dict" -> EmptyDict
      [] kind = "list" -> EmptyList
      [] kind = "int"  -> Num(7)
      [] kind = "str"  -> Str("1")
      [] OTHER         -> Null

-----------------------------------------------------------------------------
(* Calls *)

KwInit == kw = EmptyDict /\ call = [op |-> "none"] /\ done = 0

Called(op, path, flag, given, answer) ==
    call' = [op |-> op, path |-> path, flag |-> flag, given |-> given, answer |-> answer]

\* kw_set_dict_value
SetDictValue == \E path \in Paths, x \in Given :
    /\ kw' = SetAt(kw, path, x)
    /\ Called("set", path, "", x, IF CanSet(kw, path) THEN Num(0) ELSE Num(-1))

\* kw_set_subdict_value, and _kw_search_dict with KW_CREATE: an empty segment counts.
\* Below what is not a dict the code uses a dict that it has freed; it is not called
\* there.
SetSubdictValue == \E path \in Paths, key \in Segments, x \in Given :
    LET whole == Append(path, key)
        can   == Passable(kw, whole)
    IN  /\ Passable(kw, path)
        /\ kw' = IF can THEN With(kw, whole, x) ELSE kw
        /\ Called("set_sub", whole, "", x, IF can THEN Num(0) ELSE Num(-1))

\* kw_get_dict, kw_get_list, kw_get_int, kw_get_str and kw_get_dict_value.  A default
\* that cannot be put where it is asked is freed and answered: it is not asked.
Get == \E path \in Paths, kind \in {"dict", "list", "int", "str", "any"},
          flag \in {"", "create", "extract", "wild"} :
    LET v == Find(kw, path)
        x == Default(kind)
        gone == v # Absent /\ flag = "extract" /\ kind # "str" /\ Takes(kind, v)
        new  == v = Absent /\ flag = "create"
    IN
    /\ flag = "wild" => kind = "int"
    /\ new => CanSet(kw, path)
    /\ kw' = IF new THEN SetAt(kw, path, x) ELSE IF gone THEN DeleteAt(kw, path) ELSE kw
    /\ Called("get", path, flag, x,
              IF v = Absent THEN x
              ELSE IF Takes(kind, v) THEN Told(v)
              ELSE IF flag = "wild" THEN Num(AsInt(v)) ELSE x)

\* kw_delete
Delete == \E path \in Paths :
    /\ kw' = DeleteAt(kw, path)
    /\ Called("delete", path, "", Absent, DeleteResult(kw, path))

\* kw_delete_subkey
DeleteSubkey == \E path \in Paths, key \in Segments :
    LET in == Find(kw, path)
        is == IsDict(in) /\ Key(in, key) # Absent /\ Passable(kw, path)
    IN  /\ IsDict(in) => Passable(kw, path)
        /\ kw' = IF is THEN Without(kw, Append(path, key)) ELSE kw
        /\ Called("delete", Append(path, key), "", Absent, IF is THEN Num(0) ELSE Num(-1))

\* kw_list_append, where the dict of the list is: without it the code appends to a list
\* of the root whose key is the whole path.
ListAppend == \E path \in Paths, x \in Given :
    LET was == Find(kw, path)
        can == was = Absent \/ IsList(was)
    IN  /\ Passable(kw, path) /\ IsDict(Find(kw, Front(path)))
        /\ ~IsList(x)
        /\ kw' = IF ~can THEN kw
                 ELSE With(kw, path, List(IF was = Absent THEN <<x>> ELSE Append(was[2], x)))
        /\ Called("append", path, "", x, IF can THEN Num(0) ELSE Num(-1))

\* After a call that changes nothing the dict is as it was: it ends the behaviour.
KwNext ==
    /\ done < MaxKwCalls
    /\ SetDictValue \/ SetSubdictValue \/ Get \/ Delete \/ DeleteSubkey \/ ListAppend
    /\ done' = IF kw' = kw THEN MaxKwCalls ELSE done + 1

-----------------------------------------------------------------------------
(* Properties *)

LeavesOfKw == [p \in {q \in PathsIn(kw, MaxDepth) : IsLeaf(Find(kw, q))} |-> Find(kw, p)]

Flat == INSTANCE FlatDict WITH leaves <- LeavesOfKw

\* Sets, gets, deletions and appends by path, in any order and with any flag, are those
\* of a map from paths to leaves: what is put is found, what is not on the path stays,
\* and what the calls answer is what is there.
IsFlatDict == Flat!Spec

=============================================================================
