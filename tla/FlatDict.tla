------------------------------ MODULE FlatDict ------------------------------
(***************************************************************************)
(* What the functions of 14_kw.c on paths promise: a dict of dicts is a    *)
(* map from paths to leaves.  A leaf is a simple value, a list, or a dict  *)
(* that is empty.                                                          *)
(*                                                                         *)
(* A JSON value is a type and a content: of an "object", a function from   *)
(* keys; of an "array", a sequence.  A path is a sequence of segments.     *)
(***************************************************************************)
EXTENDS JsonValue

CONSTANTS
    MaxDepth        \* of a dict: a bound of the model

VARIABLES
    leaves,         \* path -> leaf
    call            \* the last call: [op, path, flag, given, answer]

-----------------------------------------------------------------------------

Under(f, path) == {q \in DOMAIN f : IsPrefix(path, q)}
Above(f, path) == {q \in DOMAIN f : IsStrictPrefix(q, path)}

\* The leaves of a value that is put at a path.
LeavesOf(v, path) ==
    LET below == {q \in PathsIn(v, MaxDepth) : IsLeaf(Walk(v, q))}
    IN  [q \in {path \o r : r \in below} |-> Walk(v, SubSeq(q, Len(path) + 1, Len(q)))]

\* Below a leaf that is a list there are its items.
At(f, path) ==
    IF path \in DOMAIN f THEN f[path]
    ELSE IF Under(f, path) # {} THEN Some
    ELSE IF Above(f, path) = {} THEN Absent
    ELSE LET top == CHOOSE q \in Above(f, path) : TRUE
         IN  Told(Walk(f[top], SubSeq(path, Len(top) + 1, Len(path))))

\* What is on the way to a path are dicts; what was at the path goes away.
Open(f, path) == \A q \in Above(f, path) : f[q] = EmptyDict
Put(f, path, v) ==
    LeavesOf(v, path) @@ [q \in DOMAIN f \ (Under(f, path) \cup Above(f, path)) |-> f[q]]

\* A dict that loses its last key is there still.
Cut(f, path) ==
    LET left  == DOMAIN f \ Under(f, path)
        alone == \A q \in left : ~IsPrefix(Front(path), q)
    IN  [q \in left \cup (IF alone THEN {Front(path)} ELSE {}) |->
            IF q \in left THEN f[q] ELSE EmptyDict]

\* Segments that are empty do not count, but the last one.
Norm(path) == Append(SelectSeq(Front(path), LAMBDA s : s # ""), Last(path))

Puts(f, path, v) == Open(f, path) /\ leaves' = Put(f, path, v)

SetOk(f)   == call'.op = "set" /\ call'.answer = Num(0) /\ Puts(f, Norm(call'.path), call'.given)
SubOk(f)   == call'.op = "set_sub" /\ call'.answer = Num(0) /\ Puts(f, call'.path, call'.given)
Refused(f) ==
    call'.op \in {"set", "set_sub", "append", "delete"} /\ call'.answer = Num(-1) /\ leaves' = f
Deleted(f) ==
    /\ call'.op = "delete" /\ call'.answer = Num(0)
    /\ leaves' = IF Under(f, call'.path) # {} THEN Cut(f, call'.path) ELSE f
Grown(f) ==
    /\ call'.op = "append" /\ call'.answer = Num(0)
    /\ LET was == At(f, call'.path)
       IN  /\ was = Absent \/ IsList(was)
           /\ Puts(f, call'.path, List(IF was = Absent THEN <<call'.given>>
                                       ELSE Append(was[2], call'.given)))

\* A get answers what is there, as it is, or the default when it is not of the type
\* asked, or it as a number.  With "extract" it takes what is there; with "create" it
\* puts the default where there is nothing.
Got(f) ==
    /\ call'.op = "get"
    /\ LET was == At(f, call'.path) IN
       \/ was = Absent /\ call'.answer = call'.given
            /\ IF call'.flag = "create" THEN Puts(f, Norm(call'.path), call'.given)
               ELSE leaves' = f
       \/ was # Absent /\ call'.answer \in {was, call'.given} /\ leaves' = f
       \/ was # Absent /\ call'.flag = "wild" /\ Is(call'.answer, "integer") /\ leaves' = f
       \/ was # Absent /\ call'.flag = "extract" /\ call'.answer = was
            /\ leaves' = Cut(f, call'.path)

Init == leaves = (<<>> :> EmptyDict) /\ call = [op |-> "none"]
Next == LET f == leaves IN
    SetOk(f) \/ SubOk(f) \/ Refused(f) \/ Deleted(f) \/ Grown(f) \/ Got(f)
Spec == Init /\ [][Next]_<<leaves, call>>

=============================================================================
