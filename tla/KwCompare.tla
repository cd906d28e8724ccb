----------------------------- MODULE KwCompare -----------------------------
(***************************************************************************)
(* 14_kw.c, when are two JSON values the same: simple values, whatever     *)
(* their types; records, with or without their private keys and metadata;  *)
(* lists of records, in any order.                                         *)
(***************************************************************************)
EXTENDS JsonValue

CONSTANTS
    Records,        \* values that are compared
    Simples         \* simple ones

VARIABLE
    pair            \* the values of a comparison, and what it leaves out

Underscores(key) == IF key = "_p" THEN 1 ELSE IF key = "__m" THEN 2 ELSE 0

-----------------------------------------------------------------------------
(* Simple values *)

\* jn2integer and jn2real, of the strings there are.
NumberOf(v) ==
    CASE v[1] \in {"integer", "real"} -> v[2]
      [] Is(v, "string")  -> IF v[2] = "1" THEN 1 ELSE 0
      [] Is(v, "boolean") -> IF v[2] THEN 1 ELSE 0
      [] OTHER            -> 0

\* jn2string
TextOf(v) ==
    CASE Is(v, "string")  -> v[2]
      [] Is(v, "integer") -> ToString(v[2])
      [] Is(v, "boolean") -> IF v[2] THEN "1" ELSE "0"
      [] OTHER            -> ""

IsNumeric(v) == v[1] \in {"integer", "real", "boolean"}

\* cmp_two_simple_json: 0 when they are equal, of what is not simple too.
CmpSimple(v, w) ==
    IF \E x \in {v, w} : IsDict(x) \/ IsList(x) THEN 0
    ELSE IF IsNumeric(v) \/ IsNumeric(w) THEN
        IF NumberOf(v) = NumberOf(w) THEN 0 ELSE IF NumberOf(v) > NumberOf(w) THEN 1 ELSE -1
    ELSE IF TextOf(v) = TextOf(w) THEN 0 ELSE 1

-----------------------------------------------------------------------------
(* Records *)

\* kw_delete_private_keys, kw_delete_metadata_keys
Stripped(v, out) ==
    IF IsDict(v) THEN Dict([k \in {k \in DictKeys(v) : Underscores(k) \notin out} |-> v[2][k]]) ELSE v

\* kwid_find_record_in_list: -1 at an item that is no id record, 0 when there is none.
FindRecord(items, id) ==
    LET at == {i \in DOMAIN items : IdOf(items[i]) \in {id, ""}}
        i  == CHOOSE i \in at : \A j \in at : i <= j
    IN  IF at = {} THEN 0 ELSE IF IdOf(items[i]) = id THEN i - 1 ELSE -1

\* kw_find_json_in_list, kw_find_str_in_list, kw_is_identical
FindItem(items, v) ==
    LET at == {i \in DOMAIN items : items[i] = v}
    IN  IF at = {} THEN -1 ELSE (CHOOSE i \in at : \A j \in at : i <= j) - 1

RECURSIVE CompareRecords(_, _, _), CompareItems(_, _, _)

\* An item of a list, once it matched.
Used(items, i) == IF i < Len(items) THEN RemoveAt(items, i + 1) ELSE items

\* kwid_compare_lists, item by item: the id records with that of the same id, the other
\* items with one that is identical.
CompareItems(items, expected, out) ==
    IF items = <<>> THEN expected = <<>>
    ELSE LET v == Head(items)
             i == IF IdOf(v) # "" THEN FindRecord(expected, IdOf(v)) ELSE FindItem(expected, v)
         IN  /\ i >= 0
             /\ IdOf(v) # "" => CompareRecords(v, Item(List(expected), i), out)
             /\ CompareItems(Tail(items), Used(expected, i), out)

\* kwid_compare_records, and kwid_compare_lists with two lists: out are the numbers of
\* underscores of the keys that do not count.
CompareRecords(v, w, out) ==
    CASE IsList(v) /\ IsList(w) -> CompareItems(v[2], w[2], out)
      [] IsDict(v) /\ IsDict(w) ->
            LET r == Stripped(v, out)
                e == Stripped(w, out)
            IN  /\ DictKeys(r) = DictKeys(e)
                /\ \A k \in DictKeys(r) :
                      IF IsSimple(r[2][k]) THEN CmpSimple(r[2][k], e[2][k]) = 0
                      ELSE CompareRecords(r[2][k], e[2][k], out)
      [] OTHER -> FALSE

-----------------------------------------------------------------------------
(* Comparisons *)

CmpInit ==
    \/ pair \in [of : {"records"}, left : Records, right : Records, out : SUBSET {1, 2}]
    \/ pair \in [of : {"simples"}, left : Simples, right : Simples, out : {{}}]

-----------------------------------------------------------------------------
(* Properties *)

\* What two values have to be to be the same, in whatever order a list has its items.
RECURSIVE Alike(_, _, _)
Alike(v, w, out) ==
    CASE IsList(v) /\ IsList(w) ->
            /\ Len(v[2]) = Len(w[2])
            /\ \E p \in Permutations(DOMAIN v[2]) : \A i \in DOMAIN v[2] :
                  LET x == v[2][i]
                      y == w[2][p[i]]
                  IN  IF IdOf(x) # "" THEN Alike(x, y, out) ELSE x = y
      [] IsDict(v) /\ IsDict(w) ->
            LET r == Stripped(v, out)
                e == Stripped(w, out)
            IN  DictKeys(r) = DictKeys(e) /\ \A k \in DictKeys(r) : Alike(r[2][k], e[2][k], out)
      [] IsSimple(v) -> CmpSimple(v, w) = 0
      [] OTHER -> FALSE

\* An id is of one record of a list.
RECURSIVE OneOfEach(_)
OneOfEach(v) ==
    CASE IsList(v) ->
            /\ \A i, j \in DOMAIN v[2] :
                  i # j => IdOf(v[2][i]) = "" \/ IdOf(v[2][i]) # IdOf(v[2][j])
            /\ \A i \in DOMAIN v[2] : OneOfEach(v[2][i])
      [] IsDict(v) -> \A k \in DictKeys(v) : OneOfEach(v[2][k])
      [] OTHER -> TRUE

\* Lists with id records before the other items, if there are any.
RECURSIVE RecordsOnly(_)
RecordsOnly(v) ==
    CASE IsList(v) ->
            /\ (\A i \in DOMAIN v[2] : IdOf(v[2][i]) = "") \/ (\A i \in DOMAIN v[2] : IdOf(v[2][i]) # "")
            /\ \A i \in DOMAIN v[2] : RecordsOnly(v[2][i])
      [] IsDict(v) -> \A k \in DictKeys(v) : RecordsOnly(v[2][k])
      [] OTHER -> TRUE

\* The comparison of records answers whether they are the same in any order of their
\* lists, from either side, and of simple values from either side too.
ComparesAlike ==
    LET v == pair.left
        w == pair.right
    IN  /\ pair.of = "records" /\ OneOfEach(v) /\ OneOfEach(w) /\ RecordsOnly(v) /\ RecordsOnly(w) =>
              /\ CompareRecords(v, w, pair.out) = Alike(v, w, pair.out)
              /\ CompareRecords(v, v, pair.out)
        /\ pair.of = "simples" =>
              /\ (CmpSimple(v, w) = 0) = (CmpSimple(w, v) = 0)
              /\ CmpSimple(v, v) = 0

=============================================================================
