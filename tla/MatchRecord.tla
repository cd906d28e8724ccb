---------------------------- MODULE MatchRecord ----------------------------
(***************************************************************************)
(* How 30_timeranger.c finds records: the walk of tranger_open_list and    *)
(* tranger_find_record through a topic, forward or backward, and the match *)
(* conditions that may also end it.  One behaviour is one walk over one    *)
(* topic with one match_cond; no record is added or deleted meanwhile      *)
(* (TopicLists and TimeRanger do that).                                    *)
(*                                                                         *)
(* __t__ and __tm__ are compared by the same code; "t" stands for both.    *)
(***************************************************************************)
EXTENDS Integers, Sequences, SequencesExt

CONSTANTS
    Walks,          \* pairs of a topic, a sequence of rows, and a match_cond
    W,              \* integers of a record wrap at W (2^64 in the code)
    Quirks          \* what goes beyond the conditions and topics for which the
                    \* walk finds what it should:
                    \*   "unsorted"  t does not grow along the topic
                    \*   "far"       a negative bound reaches before the first
                    \*               record, or a backward walk is asked to
                    \*               start after the last one
                    \*   "deleted"   the walk is asked to start at a record
                    \*               that is deleted
                    \*   "stale"     a negative bound, for a reader that does
                    \*               not know the last record yet
                    \*   "notkey"    the condition notkey

\* A row of topic_idx.md: __t__, the key, the user flags, sf_deleted_record.
Row  == [t : Nat, key : Nat, flags : SUBSET {"a", "b"}, deleted : BOOLEAN]

\* Rowids and times fit in their integers.
IsTopic(t) == t \in Seq(Row) /\ Len(t) < W /\ \A r \in DOMAIN t : t[r].t < W

\* A condition that is not given is {}.
IsBound(bound) == bound \subseteq Int /\ \A a, b \in bound : a = b
IsCond(c) == /\ c.backward \in BOOLEAN
             /\ IsBound(c.from_rowid) /\ IsBound(c.to_rowid)
             /\ IsBound(c.from_t) /\ IsBound(c.to_t)

WalksAreTyped == \A w \in Walks : IsTopic(w[1]) /\ IsCond(w[2])

ASSUME MatchRecordAssumption ==
    /\ W \in Nat \ {0}
    /\ Quirks \subseteq {"unsorted", "far", "deleted", "stale", "notkey"}
    /\ WalksAreTyped

VARIABLES
    topic,          \* the rows
    cond,           \* match_cond
    known,          \* __last_rowid__ of the process: a reader's may be old
    find,           \* TRUE in tranger_find_record: the first match ends it
    cur,            \* rowid in md_record, 0 when the walk is over
    out,            \* rowids delivered
    phase           \* "start", "walk", "done"

wvars == <<topic, cond, known, find, cur, out, phase>>

-----------------------------------------------------------------------------
(* tranger_match_record *)

Live(r) == r \in DOMAIN topic /\ ~topic[r].deleted

\* tranger_last_record: the last record this process knows, or the one before it
\* that is not deleted; 0 if there is none.
LastRecord(n) ==
    LET live == {r \in 1 .. n : Live(r)} IN IF live = {} THEN 0 ELSE Max(live)

\* The fields of no record are 0.
Field(r, f) == IF f = "rowid" \/ r = 0 THEN r ELSE topic[r].t

\* Mutant: the bound of the last ones is one of them.
BugBefore(r, f, from, n) ==
    IF from >= 0 THEN Field(r, f) < from
    ELSE Field(r, f) < (Field(LastRecord(n), f) + from) % W

\* from_rowid, from_t, from_tm: a negative bound counts back from the last record,
\* in unsigned integers.
Before(r, f, from, n) ==
    IF from >= 0 THEN Field(r, f) < from
    ELSE Field(r, f) <= (Field(LastRecord(n), f) + from) % W

\* to_rowid, to_t, to_tm.
After(r, f, to, n) ==
    IF to >= 0 THEN Field(r, f) > to
    ELSE Field(r, f) > (Field(LastRecord(n), f) + to) % W

\* The condition notkey reads "key": the key that the condition key asks for, or 0
\* if it asks for none, is the one that does not match.  (With string keys and no
\* condition key nothing matches.)
NotKey(r, c) == topic[r].key \in IF Cardinality(c.key) = 1 THEN c.key ELSE {0}

\* The conditions in the order of the code: whether each one fails, and whether
\* its failure ends the walk.
Checks(r, c, n) == <<
    [fails |-> topic[r].key \notin c.key, ends |-> FALSE],
    [fails |-> \E b \in c.from_rowid : Before(r, "rowid", b, n), ends |-> c.backward],
    [fails |-> \E b \in c.to_rowid : After(r, "rowid", b, n), ends |-> ~c.backward],
    [fails |-> \E b \in c.from_t : Before(r, "t", b, n), ends |-> c.backward],
    [fails |-> \E b \in c.to_t : After(r, "t", b, n), ends |-> ~c.backward],
    [fails |-> \E f \in c.user_flag : topic[r].flags # f, ends |-> FALSE],
    [fails |-> \E f \in c.not_user_flag : topic[r].flags = f, ends |-> FALSE],
    [fails |-> ~(c.mask_set \subseteq topic[r].flags), ends |-> FALSE],
    [fails |-> c.mask_notset \cap topic[r].flags # {}, ends |-> FALSE],
    [fails |-> c.notkey # {} /\ NotKey(r, c), ends |-> FALSE] >>

\* The first condition that fails decides; 0 if the record matches.
Failing(r, n) == SelectInSeq(Checks(r, cond, n), LAMBDA check : check.fails)

\* *end, after tranger_match_record.
Ends(r, n) == Failing(r, n) > 0 /\ Checks(r, cond, n)[Failing(r, n)].ends

-----------------------------------------------------------------------------
(* The walk *)

\* tranger_next_record and tranger_prev_record skip deleted records.
NextLive(r) == LET s == {x \in r + 1 .. Len(topic) : Live(x)} IN IF s = {} THEN 0 ELSE Min(s)
PrevLive(r) == LET s == {x \in 1 .. r - 1 : Live(x)} IN IF s = {} THEN 0 ELSE Max(s)

\* tranger_get_record, as the start of a walk: deleted or not.
GetRecord(r) == IF r \in DOMAIN topic THEN r ELSE 0

\* The rowid at which tranger_open_list starts for the bounds it is given: at it,
\* or back from the last record.  None: at the end of the topic the walk comes from.
Asked(bounds) ==
    IF find THEN {}
    ELSE {b \in bounds : b > 0} \cup {known + b : b \in {x \in bounds : x < 0 /\ known + x > 0}}

\* tranger_first_record and tranger_last_record.
FirstOf == NextLive(0)
LastOf  == LastRecord(known)

\* A reader learns the last rowid by reading beyond it: after a walk forward to r,
\* or through the deleted records at the end when there is no r.
Learn(r) == IF r = 0 THEN Len(topic) ELSE Max({known, r})

Start ==
    /\ phase = "start"
    /\ LET asked == Asked(IF cond.backward THEN cond.to_rowid ELSE cond.from_rowid)
           first == IF asked # {} THEN GetRecord(CHOOSE b \in asked : TRUE)
                    ELSE IF cond.backward THEN LastOf
                    ELSE FirstOf
       IN  /\ cur' = first
           /\ known' = IF asked # {} \/ cond.backward THEN Max({known, first}) ELSE Learn(first)
           /\ phase' = IF first = 0 THEN "done" ELSE "walk"
    /\ UNCHANGED <<topic, cond, find, out>>

\* One turn of the loop.
Step ==
    /\ phase = "walk"
    /\ LET matches == Failing(cur, known) = 0
           over    == Ends(cur, known) \/ (find /\ matches)
           next    == IF over THEN 0
                      ELSE IF cond.backward THEN PrevLive(cur)
                      ELSE NextLive(cur)
       IN  /\ out' = IF matches THEN Append(out, cur) ELSE out
           /\ cur' = next
           /\ known' = IF over \/ cond.backward THEN known ELSE Learn(next)
           /\ phase' = IF next = 0 THEN "done" ELSE "walk"
    /\ UNCHANGED <<topic, cond, find>>

-----------------------------------------------------------------------------
(* What a walk should find *)

Meets(r, f, from, to) ==
    LET last == Field(LastRecord(Len(topic)), f) IN
    /\ \A b \in from : IF b >= 0 THEN Field(r, f) >= b ELSE Field(r, f) > last + b
    /\ \A b \in to : IF b >= 0 THEN Field(r, f) <= b ELSE Field(r, f) <= last + b

Wanted(r) ==
    /\ Live(r)
    /\ topic[r].key \in cond.key
    /\ topic[r].key \notin cond.notkey
    /\ Meets(r, "rowid", cond.from_rowid, cond.to_rowid)
    /\ Meets(r, "t", cond.from_t, cond.to_t)
    /\ \A f \in cond.user_flag : topic[r].flags = f
    /\ \A f \in cond.not_user_flag : topic[r].flags # f
    /\ \A b \in cond.mask_set : b \in topic[r].flags
    /\ \A b \in cond.mask_notset : b \notin topic[r].flags

\* x is met before y.
Ahead(x, y) == IF cond.backward THEN x > y ELSE x < y

-----------------------------------------------------------------------------
(* The topics and conditions for which it does *)

Sorted == \A i, j \in DOMAIN topic : i < j => topic[i].t <= topic[j].t

Near ==
    LET last == LastRecord(Len(topic)) IN
    topic # <<>> =>
        /\ \A b \in cond.from_rowid \cup cond.to_rowid : last + b >= 0
        /\ \A b \in cond.from_t \cup cond.to_t : Field(last, "t") + b >= 0
        /\ cond.backward => \A b \in cond.to_rowid : b <= Len(topic)

StartsLive ==
    /\ \A b \in IF cond.backward THEN cond.to_rowid ELSE cond.from_rowid :
          b > 0 => GetRecord(b) = 0 \/ Live(b)
    /\ \A b \in cond.from_rowid \cup cond.to_rowid : b < 0 =>
          Live(Len(topic)) /\ (known + b > 0 => Live(known + b))

UpToDate ==
    \/ known = Len(topic)
    \/ /\ ~cond.backward
       /\ \A b \in UNION {cond.from_rowid, cond.to_rowid, cond.from_t, cond.to_t} : b >= 0

Sane ==
    /\ Sorted \/ "unsorted" \in Quirks
    /\ Near \/ "far" \in Quirks
    /\ StartsLive \/ "deleted" \in Quirks
    /\ UpToDate \/ "stale" \in Quirks
    /\ cond.notkey = {} \/ "notkey" \in Quirks

WalkInit ==
    /\ \E w \in Walks : topic = w[1] /\ cond = w[2]
    /\ find \in BOOLEAN
    /\ known \in 0 .. Len(topic)
    /\ Sane
    /\ cur = 0 /\ out = <<>> /\ phase = "start"

WalkNext == Start \/ Step

WalkSpec == WalkInit /\ [][WalkNext]_wvars

-----------------------------------------------------------------------------
\* Types.
WalkTypeOK ==
    /\ topic \in Seq(Row) /\ known \in 0 .. Len(topic) /\ find \in BOOLEAN
    /\ cur \in 0 .. Len(topic) /\ out \in Seq(Nat)
    /\ phase \in {"start", "walk", "done"}

\* "Walk in topic through records, and callback with the matched record found":
\* at every moment of the walk what was delivered is the beginning of what meets
\* the conditions, in the order of the walk, and at its end it is all of it (the
\* first of it for tranger_find_record); no condition ends the walk too early.
FoundIsExpected ==
    LET wanted == {r \in DOMAIN topic : Wanted(r)}
        found  == ToSet(out)
    IN  /\ found \subseteq wanted
        /\ \A i, j \in DOMAIN out : i < j => Ahead(out[i], out[j])
        /\ \A r \in wanted, x \in found : Ahead(r, x) => r \in found
        /\ phase = "done" => found = wanted \/ (find /\ found # {})
        /\ find => Len(out) <= 1

=============================================================================
