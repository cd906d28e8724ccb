----------------------------- MODULE JsonValue -----------------------------
(***************************************************************************)
(* JSON values as jansson has them, for the models of 14_kw.c: a type and  *)
(* a content; of an "object", a function from keys; of an "array", a       *)
(* sequence.  Absent is the NULL that a search answers with.               *)
(***************************************************************************)
EXTENDS Integers, Sequences, FiniteSets, SequencesExt, TLC

Absent == <<"absent", 0>>
Null == <<"null", 0>>
Num(n) == <<"integer", n>>
Str(s) == <<"string", s>>
Bool(b) == <<"boolean", b>>
Dict(f) == <<"object", f>>
List(s) == <<"array", s>>
EmptyDict == Dict(<<>>)
EmptyList == List(<<>>)

Is(v, type) == v[1] = type
IsDict(v) == Is(v, "object")
IsList(v) == Is(v, "array")
IsSimple(v) == v # Absent /\ ~IsDict(v) /\ ~IsList(v)

\* json_object_get
Key(v, key) == IF IsDict(v) /\ key \in DOMAIN v[2] THEN v[2][key] ELSE Absent

\* json_object_set_new, json_object_del
WithKey(v, key, x) == Dict((key :> x) @@ v[2])
WithoutKey(v, key) == Dict([k \in DOMAIN v[2] \ {key} |-> v[2][k]])

\* json_array_get
Item(v, i) == IF IsList(v) /\ i < Len(v[2]) THEN v[2][i + 1] ELSE Absent

\* The id of an id record: a string.
IdOf(v) == LET id == Key(v, "id") IN IF Is(id, "string") THEN id[2] ELSE ""

\* atoi, of the segments there are.
Index(segment) == CASE segment = "1" -> 1 [] segment = "2" -> 2 [] OTHER -> 0

\* A step of _kw_find_path, over dicts and lists.
Inside(v, segment) == IF IsList(v) THEN Item(v, Index(segment)) ELSE Key(v, segment)
Walk(v, path) ==
    LET at[i \in 0 .. Len(path)] == IF i = 0 THEN v ELSE Inside(at[i - 1], path[i])
    IN  at[Len(path)]

\* The paths through the dicts of v, up to a depth.
DictKeys(v) == IF IsDict(v) THEN DOMAIN v[2] ELSE {}
PathsIn(v, depth) ==
    LET paths[n \in 0 .. depth] ==
            IF n = 0 THEN {<<>>}
            ELSE UNION {{Append(p, k) : k \in DictKeys(Walk(v, p))} : p \in paths[n - 1]}
    IN  UNION {paths[n] : n \in 0 .. depth}

\* A leaf: a simple value, a list, or a dict that is empty.
IsLeaf(v) == v # Absent /\ (IsDict(v) => v = EmptyDict)

\* A dict that has keys, told without them.
Some == <<"dict", 0>>
Told(v) == IF IsDict(v) /\ v # EmptyDict THEN Some ELSE v

=============================================================================
