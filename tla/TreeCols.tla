------------------------------ MODULE TreeCols ------------------------------
(***************************************************************************)
(* 31_tr_treedb.c, the columns of a topic: what of the value that a caller *)
(* gives to a column of a node goes to the record of the topic, what the   *)
(* node has in memory, and what it has when it is loaded again.            *)
(*                                                                         *)
(* A JSON value is a type and a content.  A string is empty, a word, a     *)
(* number, the text of a list or of a dict, or a reference to a parent,    *)
(* <topic>^<id>^<hook>.  An object is the sequence of its keys; the one    *)
(* with id, topic_name and hook_name is a "link".                          *)
(***************************************************************************)
EXTENDS Integers, Sequences, FiniteSets, SequencesExt

CONSTANTS
    Columns,        \* descriptions of columns: type, flags and default
    Values,         \* what callers give to a column
    Refs,           \* the references to parents
    MaxSteps        \* calls of a behaviour, at most: a bound of the model

VARIABLES
    col,            \* the column
    stored,         \* its field in the last record of the node
    node,           \* its field in the node in memory
    phase,          \* "none", "there", or "closed": on disk only
    steps

cvars == <<col, stored, node, phase, steps>>

Absent == <<"absent", 0>>
Null == <<"null", 0>>
Str(s) == <<"string", s>>
EmptyList == <<"array", <<>>>>
EmptyDict == <<"object", <<>>>>

Is(v, t) == v[1] = t
Has(flag) == flag \in col.flags
Saved == Has("persistent") \/ Has("hook") \/ Has("fkey")

-----------------------------------------------------------------------------
(* Conversions of 14_kw.c and of 13_json_helper.c *)

Digits == 0 .. 9
NumberIn(s) == IF \E n \in Digits : ToString(n) = s THEN CHOOSE n \in Digits : ToString(n) = s ELSE 0

\* jn2integer, jn2real
AsNumber(v) ==
    CASE v[1] \in {"real", "integer"} -> v[2]
      [] Is(v, "string")  -> NumberIn(v[2])
      [] Is(v, "boolean") -> IF v[2] THEN 1 ELSE 0
      [] OTHER            -> 0

\* jn2string
AsString(v) ==
    CASE Is(v, "string")  -> v[2]
      [] Is(v, "integer") -> ToString(v[2])
      [] Is(v, "real")    -> ToString(v[2]) \o ".0"
      [] Is(v, "boolean") -> IF v[2] THEN "1" ELSE "0"
      [] OTHER            -> ""

\* jn2bool: a string is true unless it is empty.
AsBool(v) ==
    CASE v[1] \in {"real", "integer"} -> v[2] # 0
      [] Is(v, "string")  -> v[2] # ""
      [] Is(v, "boolean") -> v[2]
      [] OTHER            -> FALSE

\* legalstring2json
JsonIn(s) == CASE s = "[]" -> EmptyList [] s = "{}" -> EmptyDict [] OTHER -> Absent

-----------------------------------------------------------------------------
(* A value for the topic *)

Ok(v) == [ok |-> TRUE, value |-> v]
Refused == [ok |-> FALSE, value |-> Absent]

IsRef(s) == s \in Refs

\* Mutant: an empty string is taken as a reference, a wrong one.
BugRefsIn(v) ==
    CASE Is(v, "array")  -> [i \in DOMAIN v[2] |-> IF Is(v[2][i], "object") THEN "" ELSE v[2][i][2]]
      [] Is(v, "object") -> v[2]
      [] OTHER           -> <<v[2]>>

\* The references of a value, the wrong ones with them; an empty string is none.
RefsIn(v) ==
    CASE Is(v, "array")  -> LET some == SelectSeq(v[2], LAMBDA i : i[1] \in {"string", "object", "link"} /\ i # Str(""))
                            IN  [i \in DOMAIN some |-> IF Is(some[i], "object") THEN "" ELSE some[i][2]]
      [] Is(v, "object") -> v[2]
      [] OTHER           -> IF v = Str("") THEN <<>> ELSE <<v[2]>>

\* filtra_fkeys: the value is refused when one reference is wrong.
Filtered(type, v) ==
    LET refs == RefsIn(v) IN
    IF v[1] \notin {"array", "object", "string"} \/ \E i \in DOMAIN refs : ~IsRef(refs[i]) THEN Refused
    ELSE CASE type \in {"list", "array"}  -> Ok(<<"array", [i \in DOMAIN refs |-> Str(refs[i])]>>)
           [] type \in {"dict", "object"} -> Ok(<<"object", SetToSeq(ToSet(refs))>>)
           [] OTHER -> IF Len(refs) > 1 THEN Refused
                       ELSE Ok(Str(IF refs = <<>> THEN "" ELSE refs[1]))

EmptyOf(type) ==
    CASE type \in {"list", "array"}  -> EmptyList
      [] type \in {"dict", "object"} -> EmptyDict
      [] type = "string"             -> Str("")
      [] type \in {"integer", "real"} -> <<type, 0>>
      [] type = "boolean"            -> <<type, FALSE>>
      [] OTHER                       -> Absent

\* A list or a dict is kept, also from its text.
Container(v, t, empty) ==
    IF Is(v, t) THEN v
    ELSE IF Is(v, "string") /\ Is(JsonIn(v[2]), t) THEN JsonIn(v[2])
    ELSE empty

Text(v) ==
    IF v = Absent THEN Ok(Str(""))
    ELSE IF Is(v, "string") THEN Ok(v)
    ELSE IF Has("wild") THEN Ok(Str(AsString(v)))
    ELSE Refused

\* set_tranger_field_value of a plain column, by its type.  What cannot be a number
\* is converted all the same.
Plain(type, v) ==
    CASE type \in {"list", "array"}  -> Ok(Container(v, "array", EmptyList))
      [] type \in {"dict", "object"} -> Ok(Container(v, "object", EmptyDict))
      [] type = "blob"               -> Ok(v)
      [] type = "string"             -> Text(v)
      [] type \in {"integer", "real"} ->
            Ok(IF type = "integer" /\ Has("now") THEN <<"integer", steps + 1>>
               ELSE IF Is(v, type) THEN v
               ELSE <<type, AsNumber(v)>>)
      [] type = "boolean"            -> Ok(<<"boolean", AsBool(v)>>)
      [] OTHER                       -> Refused

\* set_tranger_field_value: Ok with Absent when the column is not of the topic.
ToTranger(v, create) ==
    LET type == col.type
        kind == IF Has("hook") THEN "hook"
                ELSE IF Has("fkey") THEN "fkey"
                ELSE IF Has("enum") THEN "enum"
                ELSE IF Has("template") THEN "template"
                ELSE "plain"
    IN
    IF Has("required") /\ v = Absent THEN Refused
    ELSE IF ~Saved THEN Ok(Absent)
    ELSE IF v = Null /\ kind \in {"template", "plain"} THEN
            IF Has("notnull") THEN Refused ELSE Ok(Null)
    ELSE IF kind \in {"hook", "fkey"} /\ type \notin {"dict", "object", "string", "list", "array"} THEN Refused
    ELSE CASE kind = "hook" -> Ok(EmptyOf(type))
           [] kind = "fkey" -> IF create \/ v = Absent THEN Ok(EmptyOf(type)) ELSE Filtered(type, v)
           [] kind = "enum" -> IF type \in {"string", "list", "array"} THEN Plain(type, v) ELSE Refused
           [] kind = "template" -> Plain("dict", v)
           [] OTHER -> Plain(type, v)

-----------------------------------------------------------------------------
(* A value for the memory *)

\* set_volatil_field_value, of the value that is there.
Volatile(v, was) ==
    LET type == col.type IN
    CASE type \in {"enum", "list", "array"} -> IF Is(v, "array") THEN v ELSE EmptyList
      [] type \in {"dict", "object"}  -> IF Is(v, "object") THEN v ELSE EmptyDict
      [] type = "string"  -> IF v = Absent THEN Str("") ELSE Str(AsString(v))
      [] type \in {"integer", "real"} -> IF Is(v, type) THEN v ELSE <<type, AsNumber(v)>>
      [] type = "boolean" -> <<type, AsBool(v)>>
      [] type = "blob"    -> IF v = Absent THEN was ELSE v
      [] OTHER            -> was

OrDefault(v) == IF v = Absent THEN col.default ELSE v

\* set_volatil_values, of a node that was just created.
Created(v, row) == IF Saved THEN row ELSE Volatile(OrDefault(v), row)

\* set_missing_values, of a record that was just loaded.
Loaded(row) ==
    IF Has("hook") \/ Has("fkey") \/ row # Absent THEN row ELSE Volatile(col.default, row)

-----------------------------------------------------------------------------
(* The life of a node *)

ColInit ==
    /\ col \in Columns
    /\ stored = Absent /\ node = Absent
    /\ phase = "none" /\ steps = 0

Step == steps < MaxSteps /\ steps' = steps + 1 /\ UNCHANGED col

\* treedb_create_node
CreateCol == \E v \in Values \cup {Absent} :
    LET r == ToTranger(OrDefault(v), TRUE) IN
    /\ phase = "none" /\ r.ok
    /\ stored' = r.value
    /\ node' = Created(v, r.value)
    /\ phase' = "there"

\* treedb_save_node: nothing is written when the value is refused.
SaveCol ==
    LET r == ToTranger(node, FALSE) IN
    /\ phase = "there"
    /\ stored' = IF r.ok THEN r.value ELSE stored
    /\ UNCHANGED <<node, phase>>

\* treedb_update_node, which keeps the value in memory as it was given, and when it
\* could not be saved too.
UpdateCol == \E v \in Values, save \in BOOLEAN :
    LET r == ToTranger(v, FALSE) IN
    /\ phase = "there" /\ ~Has("hook") /\ ~Has("fkey")
    /\ node' = v
    /\ stored' = IF save /\ r.ok THEN r.value ELSE stored
    /\ UNCHANGED phase

\* A link puts a reference in the column of the child, and saves it.
LinkCol == \E ref \in Refs :
    LET linked == CASE Is(node, "array")  -> <<"array", Append(node[2], Str(ref))>>
                    [] Is(node, "object") -> <<"object", SetToSeq(ToSet(node[2]) \cup {ref})>>
                    [] OTHER              -> Str(ref)
        r == ToTranger(linked, FALSE)
    IN  /\ phase = "there" /\ Has("fkey") /\ ~Has("hook")
        /\ node' = linked
        /\ stored' = IF r.ok THEN r.value ELSE stored
        /\ UNCHANGED phase

CloseCol == phase = "there" /\ phase' = "closed" /\ node' = Absent /\ UNCHANGED stored

\* load_id_callback
LoadCol == phase = "closed" /\ phase' = "there" /\ node' = Loaded(stored) /\ UNCHANGED stored

ColNext == Step /\ (CreateCol \/ SaveCol \/ UpdateCol \/ LinkCol \/ CloseCol \/ LoadCol)

-----------------------------------------------------------------------------
(* Properties *)

TypesOf(type) ==
    CASE type \in {"list", "array"}  -> "array"
      [] type \in {"dict", "object"} -> "object"
      [] OTHER                       -> type

\* What the topic has of a column is of its type, or null where it may be, with no
\* child in a hook and with nothing but references in an fkey.
StoredSound == phase # "none" =>
    /\ ~Saved => stored = Absent
    /\ Saved /\ col.type # "blob" =>
        \/ Is(stored, IF Has("template") /\ ~Has("enum") THEN "object" ELSE TypesOf(col.type))
        \/ stored = Null /\ ~Has("notnull") /\ ~Has("fkey")
    /\ Has("hook") => stored = EmptyOf(col.type)
    /\ Has("fkey") => \A i \in DOMAIN RefsIn(stored) : RefsIn(stored)[i] \in Refs

\* A node that is as its record is loaded can be saved, and its record does not
\* change: closing and opening the tree changes nothing.
SaveOfLoadedIsSame ==
    phase = "there" /\ node = Loaded(stored) /\ ~Has("now") =>
        ToTranger(node, FALSE) = Ok(stored)

=============================================================================
