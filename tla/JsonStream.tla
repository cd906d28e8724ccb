----------------------------- MODULE JsonStream -----------------------------
(***************************************************************************)
(* The stream parsers of 20_gbuffer.c: a file of JSON texts, one behind    *)
(* the other with anything in between, is cut at the braces that close     *)
(* each one.                                                               *)
(***************************************************************************)
EXTENDS Integers, Sequences, FiniteSets

CONSTANTS
    Marks,          \* characters of the file: "{", "}", "[", "]" and others
    MaxRead         \* characters of a file, at most: a bound of the model

VARIABLES
    lists,          \* TRUE in stream_json_filename_parser2: texts may be lists
    read,           \* the characters read so far
    begin,          \* the mark that began the text, "" while it is waited for
    indent,         \* brace_indent
    text,           \* the gbuffer
    cuts            \* the texts given to gbuf2json

svars == <<lists, read, begin, indent, text, cuts>>

StreamInit == lists \in BOOLEAN /\ read = <<>> /\ begin = "" /\ indent = 0 /\ text = <<>> /\ cuts = <<>>

Begins == IF lists THEN {"{", "["} ELSE {"{"}
End(m) == IF m = "{" THEN "}" ELSE "]"

Opens(c) == IF c = begin THEN 1 ELSE IF c = End(begin) THEN -1 ELSE 0

\* One turn of the loop: the text begins at a brace, and ends at the one that
\* closes it.  The parsers see no strings.
ReadChar(c) ==
    /\ Len(read) < MaxRead
    /\ read' = Append(read, c)
    /\ UNCHANGED lists
    /\ \/ begin = "" /\ c \notin Begins /\ UNCHANGED <<begin, indent, text, cuts>>
       \/ begin = "" /\ c \in Begins
          /\ begin' = c /\ indent' = 1 /\ text' = <<c>> /\ UNCHANGED cuts
       \/ /\ begin # ""
          /\ indent' = indent + Opens(c)
          /\ text' = Append(text, c)
          /\ IF indent' = 0
             THEN cuts' = Append(cuts, text') /\ begin' = ""
             ELSE UNCHANGED <<cuts, begin>>

StreamNext == \E c \in Marks : ReadChar(c)

-----------------------------------------------------------------------------

\* How deep in braces of the kind of its first character a piece ends.
Depth(i, j) ==
    LET of(c) == {k \in i .. j : read[k] = c} IN
    Cardinality(of(read[i])) - Cardinality(of(End(read[i])))

\* A text: from a brace to the first place where as many close as open.
IsText(i, j) ==
    /\ read[i] \in Begins /\ i < j
    /\ Depth(i, j) = 0 /\ \A k \in i .. j - 1 : Depth(i, k) > 0

\* The outermost texts of what was read, each after the end of the one before.
TextsOf ==
    LET next[i \in 1 .. Len(read) + 1] ==
            LET froms == {j \in i .. Len(read) : read[j] \in Begins} IN
            IF froms = {} THEN <<>>
            ELSE LET f    == CHOOSE j \in froms : \A k \in froms : j <= k
                     ends == {j \in f .. Len(read) : IsText(f, j)}
                 IN  IF ends = {} THEN <<>>
                     ELSE LET e == CHOOSE j \in ends : TRUE
                          IN  <<SubSeq(read, f, e)>> \o next[e + 1]
    IN  next[1]

\* Every text of the file is given once, whole and in its order.
StreamSound == cuts = TextsOf

=============================================================================
