----------------------------- MODULE JsonHelper -----------------------------
(***************************************************************************)
(* 13_json_helper.c: lists of integers and strings, records made from a    *)
(* description, and the check of reference counts.                         *)
(***************************************************************************)
EXTENDS JsonValue

CONSTANTS
    ListItems,      \* what callers put in a list
    TextOrder,      \* the texts there are, in the order of strcmp
    DescFields,     \* [name, type, defaults], the rows of descriptions
    CountTrees,     \* values with their counts: [kind, refs, items]
    MaxItems        \* of a list: a bound of the model

VARIABLE ilist      \* the content of a list

IntOf(v) == IF Is(v, "integer") THEN v[2] ELSE 0

-----------------------------------------------------------------------------
(* Searches *)

\* The index, from 0, of the first of the places where the item is.
FirstPlace(places) == IF places = {} THEN -1 ELSE Min(places) - 1

ListFind(s, v) == FirstPlace({i \in DOMAIN s : s[i] = v})
ListStrIndex(s, text) == FirstPlace({i \in DOMAIN s : Is(s[i], "string") /\ s[i][2] = text})
ListIntIndex(s, n) == FirstPlace({i \in DOMAIN s : Is(s[i], "integer") /\ s[i][2] = n})
StrInList(s, text) == \E x \in Range(s) : x = Str(text)
IntInJnList(n, s) == \E x \in Range(s) : IntOf(x) > 0 /\ IntOf(x) = n

\* json_list_str, json_list_int: 0 when there is no such item, or one of another type.
ListStr(s, i) == IF i < Len(s) /\ Is(s[i + 1], "string") THEN s[i + 1][2] ELSE 0
ListInt(s, i) == IF i < Len(s) THEN IntOf(s[i + 1]) ELSE 0

\* A C array that ends with 0: what is no integer, or 0, is -1.
ListToC(s) == [i \in DOMAIN s |-> IF IntOf(s[i]) = 0 THEN -1 ELSE IntOf(s[i])]
IntInList(n, c) == n \in Range(c)

-----------------------------------------------------------------------------
(* Sets and ranges *)

\* Two items, the first not greater: what is no integer counts as 0.
IsRange(s) == Len(s) = 2 /\ IntOf(s[1]) <= IntOf(s[2])
RangeList(s) == [i \in 1 .. IntOf(s[2]) - IntOf(s[1]) + 1 |-> Num(IntOf(s[1]) + i - 1)]

ListUpdate(s, other, asSet) ==
    FoldLeft(LAMBDA r, v : IF asSet /\ ListFind(r, v) >= 0 THEN r ELSE Append(r, v), s, other)

ListsRangeToSet(s) ==
    LET add(r, v) ==
            CASE Is(v, "integer") -> ListUpdate(r, <<v>>, TRUE)
              [] IsList(v) -> ListUpdate(r, IF IsRange(v[2]) THEN RangeList(v[2]) ELSE v[2], TRUE)
              [] OTHER -> r
    IN  FoldLeft(add, <<>>, s)

ExpandIntegerList(v) ==
    CASE IsList(v) -> ListsRangeToSet(v[2]) [] Is(v, "integer") -> <<v>> [] OTHER -> <<>>

-----------------------------------------------------------------------------
(* Sorts *)

\* simplejson2str and json2number, of the texts there are: those of letters are 0.
TextOf(v) == IF Is(v, "string") THEN v[2] ELSE ToString(v[2])
NumberOf(v) ==
    IF Is(v, "integer") THEN v[2]
    ELSE IF \E n \in 0 .. 20 : ToString(n) = v[2] THEN CHOOSE n \in 0 .. 20 : ToString(n) = v[2] ELSE 0

\* Of other values simplejson2str has no text, and the comparison reads it.
Sortable(s) == \A x \in Range(s) : x[1] \in {"integer", "string"}

PlaceOf(v) == CHOOSE i \in DOMAIN TextOrder : TextOrder[i] = TextOf(v)

\* _sort_json_list: qsort with compare_by_number, or with compare_by_string.
SortList(s, By) ==
    LET at == SetToSortSeq(DOMAIN s, LAMBDA i, j : By[i] < By[j] \/ (By[i] = By[j] /\ i < j))
    IN  [i \in DOMAIN s |-> s[at[i]]]
ByNumber(s) == [i \in DOMAIN s |-> NumberOf(s[i])]
ByString(s) == [i \in DOMAIN s |-> PlaceOf(s[i])]

-----------------------------------------------------------------------------
(* Records *)

\* strtoul, with the base that the first character says: of x10, nothing.
IntDefault(text) == CASE text = "7" -> 7 [] text = "010" -> 8 [] OTHER -> 0
BoolDefault(text) == text \in {"true", "7"}

ValueOf(field) ==
    LET type == field.type  text == field.defaults IN
    CASE type \in {"str", "string"}   -> Str(text)
      [] type \in {"int", "integer"}  -> Num(IntDefault(text))
      [] type = "real"                -> <<"real", IntDefault(text)>>
      [] type \in {"bool", "boolean"} -> Bool(BoolDefault(text))
      [] type = "null"                -> Null
      [] type \in {"object", "dict"}  -> EmptyDict
      [] type \in {"array", "list"}   -> EmptyList
      [] OTHER                        -> Absent

\* create_json_record: the rows before one without a name or a type; a type that is not
\* known has no value.
CreateJsonRecord(desc) ==
    LET bad  == {i \in DOMAIN desc : desc[i].name = "" \/ desc[i].type = ""}
        rows == SubSeq(desc, 1, IF bad = {} THEN Len(desc) ELSE (CHOOSE i \in bad : \A j \in bad : i <= j) - 1)
    IN  FoldLeft(LAMBDA r, f : IF ValueOf(f) = Absent THEN r ELSE WithKey(r, f.name, ValueOf(f)),
                 EmptyDict, rows)

\* json_record_to_schema
SchemaType(type) ==
    CASE type = "int" -> "integer" [] type = "str" -> "string" [] type = "bool" -> "boolean"
      [] OTHER -> type
RecordToSchema(desc) == [i \in DOMAIN desc |-> [id |-> desc[i].name, type |-> SchemaType(desc[i].type)]]

-----------------------------------------------------------------------------
(* Counts *)

\* json_check_refcounts: one less for each value whose count is wrong, over every way
\* to it; true, false and null have no count.
BadCount(v, max) == v.kind # "constant" /\ (v.refs <= 0 \/ (max > 0 /\ v.refs > max))
RECURSIVE CheckRefcounts(_, _)
CheckRefcounts(v, max) ==
    LET below == [i \in DOMAIN v.items |-> CheckRefcounts(v.items[i], max)]
    IN  FoldLeft(LAMBDA n, x : n + x, IF BadCount(v, max) THEN -1 ELSE 0, below)

-----------------------------------------------------------------------------
(* A list that callers make *)

HelperInit == ilist = <<>>

AppendItem == \E v \in ListItems :
    /\ Len(ilist) < MaxItems
    /\ ilist' = Append(ilist, v)

UpdateItems == \E v \in ListItems, asSet \in BOOLEAN :
    /\ IsList(v) /\ Len(ilist) + Len(v[2]) <= MaxItems
    /\ ilist' = ListUpdate(ilist, v[2], asSet)

ExpandItems == ilist' = ExpandIntegerList(List(ilist))

SortItems ==
    /\ Sortable(ilist)
    /\ \E by \in {ByNumber(ilist), ByString(ilist)} : ilist' = SortList(ilist, by)

HelperNext == AppendItem \/ UpdateItems \/ ExpandItems \/ SortItems

-----------------------------------------------------------------------------
(* Properties *)

IsIntegers(s) == \A x \in Range(s) : Is(x, "integer")

\* A set of integers is what its items say, each once, and again the same.
SetsAreExpanded ==
    LET set == ListsRangeToSet(ilist)
        says(x) == IF IsList(x) THEN IF IsRange(x[2]) THEN {Num(n) : n \in x[2][1][2] .. x[2][2][2]}
                                     ELSE Range(x[2])
                   ELSE IF Is(x, "integer") THEN {x} ELSE {}
    IN  (\A x \in Range(ilist) : IsList(x) => IsIntegers(x[2])) =>
        /\ Range(set) = UNION {says(x) : x \in Range(ilist)}
        /\ \A i, j \in DOMAIN set : set[i] = set[j] => i = j
        /\ ListsRangeToSet(set) = set

\* The searches of JSON lists and those of C arrays find the same.
SearchesAgree ==
    /\ \A i \in DOMAIN TextOrder : LET text == TextOrder[i] IN
          /\ StrInList(ilist, text) <=> ListStrIndex(ilist, text) >= 0
          /\ StrInList(ilist, text) => ListStr(ilist, ListStrIndex(ilist, text)) = text
    /\ \A n \in 1 .. 10 :
          /\ IntInJnList(n, ilist) <=> IntInList(n, ListToC(ilist))
          /\ IntInJnList(n, ilist) <=> ListIntIndex(ilist, n) >= 0
          /\ IntInJnList(n, ilist) => ListInt(ilist, ListIntIndex(ilist, n)) = n

\* A sort has the same items, in the order of their numbers or texts.
SortsInOrder ==
    Sortable(ilist) =>
        \A by \in {"number", "string"} :
            LET key(s) == IF by = "number" THEN ByNumber(s) ELSE ByString(s)
                sorted == SortList(ilist, key(ilist))
            IN  /\ \A i, j \in DOMAIN sorted : i < j => key(sorted)[i] <= key(sorted)[j]
                /\ \A x \in Range(ilist) \cup Range(sorted) :
                      Cardinality({i \in DOMAIN ilist : ilist[i] = x})
                      = Cardinality({i \in DOMAIN sorted : sorted[i] = x})

\* A record has a value of the type that the schema of its description says.
RecordsFit == \A f, g \in DescFields :
    LET record == CreateJsonRecord(<<f, g>>)
        schema == RecordToSchema(<<f, g>>)
        alias  == ("dict" :> "object") @@ ("list" :> "array")
    IN  f.name # g.name /\ (\A x \in {f, g} : x.name # "" /\ ValueOf(x) # Absent) =>
        /\ DOMAIN record[2] = {schema[i].id : i \in DOMAIN schema}
        /\ \A i \in DOMAIN schema : LET type == schema[i].type IN
              record[2][schema[i].id][1] = IF type \in DOMAIN alias THEN alias[type] ELSE type

\* The check tells the number of wrong counts of a tree.
RECURSIVE Below(_)
Below(v) == <<v>> \o FlattenSeq([i \in DOMAIN v.items |-> Below(v.items[i])])
CountsTold == \A v \in CountTrees, max \in 0 .. 2 :
    CheckRefcounts(v, max) = -Len(SelectSeq(Below(v), LAMBDA x : BadCount(x, max)))

HelpersSound ==
    /\ SetsAreExpanded /\ SearchesAgree /\ SortsInOrder
    /\ ilist = <<>> => RecordsFit /\ CountsTold

=============================================================================
