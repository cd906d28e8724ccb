------------------------- MODULE TopicLists_proofs -------------------------
(***************************************************************************)
(* Proofs about TopicLists, for any number of lists, kinds of records, rows *)
(* and calls one within the other, under the discipline: callbacks take    *)
(* none of the liberties.                                                  *)
(*                                                                         *)
(* The inductive invariant says which records the loops in progress are    *)
(* still to bring to a list: with those that it has been given they are    *)
(* the ones it is owed.                                                    *)
(*                                                                         *)
(* At the end, proofs about MatchRecord, for every topic and condition.    *)
(***************************************************************************)
EXTENDS TopicLists, MatchRecord, SequenceTheorems, FiniteSetTheorems,
        WellFoundedInduction, NaturalsInduction, TLAPS

Discipline == Liberties = {}

-----------------------------------------------------------------------------
(* The inductive invariant *)

\* The loop number i will bring the record r to l.
Brings(i, l, r) ==
    \/ stack[i].op = "load" /\ stack[i].list = l /\ r >= stack[i].at
    \/ /\ stack[i].op = "deliver" /\ r = stack[i].at
       /\ \E j \in DOMAIN lists : j >= stack[i].idx /\ lists[j] = l

Pending(l, r) == r \in Matching(l, rows) /\ \E i \in DOMAIN stack : Brings(i, l, r)

Given(l, r) == \E j \in DOMAIN got[l] : got[l][j] = r

\* A list has been given, in order, what it is owed and no loop will still bring;
\* the rest comes later in the topic.
Served(l) ==
    /\ \A i, j \in DOMAIN got[l] : i < j => got[l][i] < got[l][j]
    /\ \A r \in owed[l] : r \in Matching(l, rows)
    /\ \A r \in Nat : r \in owed[l] <=> Given(l, r) \/ Pending(l, r)
    /\ \A r, s \in Nat : Given(l, r) /\ Pending(l, s) => r < s

\* The topic has the lists that the program holds, each once.
HeldInv ==
    /\ \A l \in held : \E i \in DOMAIN lists : lists[i] = l
    /\ \A i \in DOMAIN lists : lists[i] \in held
    /\ \A i, j \in DOMAIN lists : lists[i] = lists[j] => i = j

\* An append in progress that has lists to go to.
Active(i) == stack[i].op = "deliver" /\ stack[i].idx \in DOMAIN lists

LoopInv(i) ==
    /\ stack[i].op = "load" => /\ stack[i].list \in held
                               /\ stack[i].at \in 1 .. Len(rows) + 1
    /\ stack[i].op = "deliver" => stack[i].idx # 0
    /\ Active(i) => rows # <<>> /\ stack[i].at = Len(rows)

\* Nobody loads in an append nor appends in a load; a list is loaded once at a time,
\* and one append at a time has lists to go to.
StackInv ==
    /\ \A i \in DOMAIN stack : LoopInv(i)
    /\ stack # <<>> => stack[1].op # "callback"
    /\ \A i, j \in DOMAIN stack : stack[i].op = "load" => stack[j].op # "deliver"
    /\ \A i, j \in DOMAIN stack :
          stack[i].op = "load" /\ stack[j].op = "load" /\ stack[i].list = stack[j].list => i = j
    /\ \A i, j \in DOMAIN stack : Active(i) /\ Active(j) => i = j

IInv == TypeOK /\ HeldInv /\ StackInv /\ \A l \in held : Served(l)

-----------------------------------------------------------------------------
(* Sequences *)

LEMMA Seqs ==
    ASSUME TypeOK
    PROVE  /\ Len(stack) \in Nat /\ DOMAIN stack = 1 .. Len(stack)
           /\ \A i \in DOMAIN stack : stack[i] \in Frame
           /\ Len(rows) \in Nat /\ DOMAIN rows = 1 .. Len(rows)
           /\ Len(lists) \in Nat /\ DOMAIN lists = 1 .. Len(lists)
           /\ \A i \in DOMAIN lists : lists[i] \in Lists
           /\ \A l \in Lists : /\ got[l] \in Seq(Nat) /\ Len(got[l]) \in Nat
                               /\ DOMAIN got[l] = 1 .. Len(got[l])
           /\ stack # <<>> => Len(stack) \in DOMAIN stack /\ Last(stack) = stack[Len(stack)]
BY DEF TypeOK, Last

LEMMA Frames ==
    ASSUME NEW f \in Frame
    PROVE  f.op \in {"load", "deliver", "callback"} /\ f.at \in Nat /\ f.idx \in Nat
BY DEF Frame

LEMMA Prefix ==
    ASSUME NEW S, NEW s \in Seq(S), NEW n \in Nat, n <= Len(s)
    PROVE  /\ SubSeq(s, 1, n) \in Seq(S) /\ Len(SubSeq(s, 1, n)) = n
           /\ \A i \in 1 .. n : SubSeq(s, 1, n)[i] = s[i]
<1>1. \A i \in 1 .. n : i \in 1 .. Len(s) /\ s[i] \in S
  OBVIOUS
<1> QED
  BY <1>1

\* u is s, of length m, and then t, of length n.
Joint(u, s, t, m, n) == /\ DOMAIN u = 1 .. m + n /\ Len(u) = m + n
                        /\ \A i \in 1 .. m : u[i] = s[i]
                        /\ \A i \in 1 .. n : u[m + i] = t[i]

LEMMA Joined ==
    ASSUME NEW S, NEW s \in Seq(S), NEW t \in Seq(S)
    PROVE  s \o t \in Seq(S) /\ Joint(s \o t, s, t, Len(s), Len(t))
<1> DEFINE u == s \o t
           m == Len(s)
           n == Len(t)
<1>1. /\ u \in Seq(S) /\ Len(u) = m + n /\ m \in Nat /\ n \in Nat
      /\ \A i \in 1 .. m + n : u[i] = IF i <= m THEN s[i] ELSE t[i - m]
  BY ConcatProperties
<1>2. \A i \in 1 .. m : i \in 1 .. m + n /\ i <= m
  BY <1>1
<1>3. \A i \in 1 .. n : m + i \in 1 .. m + n /\ ~(m + i <= m) /\ (m + i) - m = i
  BY <1>1
<1>4. DOMAIN u = 1 .. Len(u)
  BY <1>1
<1> QED
  BY <1>1, <1>2, <1>3, <1>4 DEF Joint

LEMMA Pushed ==
    ASSUME TypeOK, NEW f \in Frame, stack' = Append(stack, f)
    PROVE  /\ stack' \in Seq(Frame) /\ DOMAIN stack' = 1 .. Len(stack) + 1
           /\ \A i \in DOMAIN stack : stack'[i] = stack[i]
           /\ stack'[Len(stack) + 1] = f
BY DEF TypeOK

LEMMA Popped ==
    ASSUME TypeOK, NEW n \in 1 .. Len(stack), Pop(n)
    PROVE  /\ stack' \in Seq(Frame) /\ DOMAIN stack' = 1 .. Len(stack) - n
           /\ \A i \in DOMAIN stack' : i \in DOMAIN stack /\ stack'[i] = stack[i]
<1>1. stack \in Seq(Frame) /\ stack' = SubSeq(stack, 1, Len(stack) - n)
  BY DEF TypeOK, Pop
<1>2. /\ Len(stack) - n \in Nat /\ Len(stack) - n <= Len(stack)
      /\ \A i \in 1 .. Len(stack) - n : i \in 1 .. Len(stack) /\ stack[i] \in Frame
  BY <1>1
<1>3. Len(stack') = Len(stack) - n /\ \A i \in 1 .. Len(stack) - n : stack'[i] = stack[i]
  BY <1>1, <1>2
<1> QED
  BY <1>1, <1>2, <1>3

LEMMA FrontOf ==
    ASSUME TypeOK, stack # <<>>
    PROVE  /\ Front(stack) \in Seq(Frame) /\ Len(Front(stack)) = Len(stack) - 1
           /\ \A i \in 1 .. Len(stack) - 1 : Front(stack)[i] = stack[i]
<1>1. /\ Front(stack) = SubSeq(stack, 1, Len(stack) - 1) /\ stack \in Seq(Frame)
      /\ Len(stack) - 1 \in Nat /\ Len(stack) - 1 <= Len(stack)
  BY DEF TypeOK, Front
<1>2. PICK s, n : s = stack /\ n = Len(stack) - 1
  OBVIOUS
<1>3. /\ SubSeq(s, 1, n) \in Seq(Frame) /\ Len(SubSeq(s, 1, n)) = n
      /\ \A i \in 1 .. n : SubSeq(s, 1, n)[i] = s[i]
  BY <1>1, <1>2, Prefix
<1> QED
  BY <1>1, <1>2, <1>3

LEMMA Turned ==
    ASSUME TypeOK, stack # <<>>, NEW l \in Lists, NEW at \in Nat, NEW next \in Frame,
           Turn(l, at, next)
    PROVE  /\ stack' \in Seq(Frame)
           /\ \A i \in DOMAIN stack : /\ i \in DOMAIN stack'
                                      /\ stack'[i] = IF i = Len(stack) THEN next ELSE stack[i]
           /\ \A i \in DOMAIN stack' : i \in DOMAIN stack \/ stack'[i] = Callback(l)
           /\ got' = [got EXCEPT ![l] = IF rows[at] \in Wants[l] THEN Append(@, at) ELSE @]
<1> DEFINE top == Len(stack)
           front == Front(stack)
<1>1. /\ top \in Nat \ {0} /\ DOMAIN stack = 1 .. top
      /\ front \in Seq(Frame) /\ Len(front) = top - 1
      /\ \A i \in 1 .. top - 1 : front[i] = stack[i]
  <2>1. Len(stack) \in Nat /\ DOMAIN stack = 1 .. Len(stack) /\ Len(stack) # 0
    BY DEF TypeOK
  <2> QED
    BY <2>1, FrontOf
<1>2. Callback(l) \in Frame
  BY DEF Callback, Frame
<1>3. CASE rows[at] \in Wants[l]
  <2>1. /\ stack' = front \o <<next, Callback(l)>>
        /\ got' = [got EXCEPT ![l] = Append(@, at)]
    BY <1>3 DEF Turn
  <2> HIDE DEF front, top
  <2>2. /\ stack' \in Seq(Frame) /\ DOMAIN stack' = 1 .. top + 1
        /\ \A i \in 1 .. top - 1 : stack'[i] = stack[i]
        /\ stack'[top] = next /\ stack'[top + 1] = Callback(l)
    <3> DEFINE two == <<next, Callback(l)>>
    <3>1. two \in Seq(Frame) /\ Len(two) = 2 /\ two[1] = next /\ two[2] = Callback(l)
      BY <1>2
    <3>2. stack' = front \o two
      BY <2>1
    <3> HIDE DEF two
    <3>3. /\ stack' \in Seq(Frame) /\ DOMAIN stack' = 1 .. top - 1 + 2
          /\ \A i \in 1 .. top - 1 : stack'[i] = front[i]
          /\ \A i \in 1 .. 2 : stack'[top - 1 + i] = two[i]
      <4>1. front \o two \in Seq(Frame) /\ Joint(front \o two, front, two, Len(front), Len(two))
        BY <1>1, <3>1, Joined
      <4>2. stack' \in Seq(Frame) /\ Joint(stack', front, two, top - 1, 2)
        BY <1>1, <3>1, <3>2, <4>1
      <4> QED
        BY <4>2 DEF Joint
    <3>4. top - 1 + 2 = top + 1 /\ top - 1 + 1 = top /\ 1 \in 1 .. 2 /\ 2 \in 1 .. 2
      BY <1>1
    <3>5. stack'[top - 1 + 1] = two[1] /\ stack'[top - 1 + 2] = two[2]
      BY <3>3, <3>4
    <3> QED
      BY <1>1, <3>1, <3>3, <3>4, <3>5
  <2>3. \A i \in 1 .. top + 1 : i \in 1 .. top - 1 \/ i = top \/ i = top + 1
    BY <1>1
  <2> QED
    <3>1. \A i \in DOMAIN stack' : i \in DOMAIN stack \/ stack'[i] = Callback(l)
      BY <1>1, <2>2, <2>3
    <3>2. \A i \in DOMAIN stack : /\ i \in DOMAIN stack'
                                  /\ stack'[i] = IF i = top THEN next ELSE stack[i]
      BY <1>1, <2>2, <2>3
    <3>3. got' = [got EXCEPT ![l] = IF rows[at] \in Wants[l] THEN Append(@, at) ELSE @]
      BY <1>3, <2>1
    <3> QED
      BY <2>2, <3>1, <3>2, <3>3 DEF top
<1>4. CASE rows[at] \notin Wants[l]
  <2>1. stack' = Append(front, next) /\ got' = got
    BY <1>4 DEF Turn
  <2> HIDE DEF front, top
  <2>2. /\ stack' \in Seq(Frame) /\ DOMAIN stack' = 1 .. top
        /\ \A i \in 1 .. top - 1 : stack'[i] = stack[i]
        /\ stack'[top] = next
    BY <1>1, <2>1
  <2>3. \A i \in 1 .. top : i \in 1 .. top - 1 \/ i = top
    BY <1>1
  <2>4. got' = [got EXCEPT ![l] = got[l]]
    BY <2>1 DEF TypeOK
  <2> QED
    BY <1>1, <1>4, <2>2, <2>3, <2>4 DEF top
<1> QED
  BY <1>3, <1>4

LEMMA Removed ==
    ASSUME TypeOK, HeldInv, NEW l \in held, lists' = RemoveAt(lists, Place(l))
    PROVE  /\ Place(l) \in DOMAIN lists /\ lists[Place(l)] = l
           /\ lists' \in Seq(Lists) /\ Len(lists') = Len(lists) - 1
           /\ \A i \in DOMAIN lists' : lists'[i] = IF i < Place(l) THEN lists[i] ELSE lists[i + 1]
<1> DEFINE n == Place(l)
<1>1. n \in DOMAIN lists /\ lists[n] = l
  BY DEF HeldInv, Place
<1> HIDE DEF n
<1>2. /\ lists \in Seq(Lists) /\ n \in 1 .. Len(lists) /\ Len(lists) \in Nat
      /\ lists' = SubSeq(lists, 1, n - 1) \o SubSeq(lists, n + 1, Len(lists))
  BY <1>1 DEF TypeOK, RemoveAt, n
<1> DEFINE a == SubSeq(lists, 1, n - 1)
           b == SubSeq(lists, n + 1, Len(lists))
<1>3. /\ a \in Seq(Lists) /\ Len(a) = n - 1
      /\ \A i \in 1 .. n - 1 : a[i] = lists[i]
  BY <1>2
<1>4. /\ b \in Seq(Lists) /\ Len(b) = Len(lists) - n
      /\ \A i \in 1 .. Len(lists) - n : b[i] = lists[n + i]
  BY <1>2
<1> HIDE DEF a, b
<1>5. /\ lists' \in Seq(Lists) /\ Len(lists') = n - 1 + (Len(lists) - n)
      /\ \A i \in 1 .. n - 1 : lists'[i] = a[i]
      /\ \A i \in 1 .. Len(lists) - n : lists'[n - 1 + i] = b[i]
  <2>1. lists' = a \o b
    BY <1>2 DEF a, b
  <2>2. a \o b \in Seq(Lists) /\ Joint(a \o b, a, b, Len(a), Len(b))
    BY <1>3, <1>4, Joined
  <2>3. lists' \in Seq(Lists) /\ Joint(lists', a, b, n - 1, Len(lists) - n)
    BY <1>3, <1>4, <2>1, <2>2
  <2> QED
    BY <2>3 DEF Joint
<1>6. n - 1 + (Len(lists) - n) = Len(lists) - 1
  BY <1>2
<1>7. \A i \in 1 .. Len(lists) - 1 : lists'[i] = IF i < n THEN lists[i] ELSE lists[i + 1]
  <2> SUFFICES ASSUME NEW i \in 1 .. Len(lists) - 1
               PROVE  lists'[i] = IF i < n THEN lists[i] ELSE lists[i + 1]
    OBVIOUS
  <2>1. CASE i < n
    <3>1. i \in 1 .. n - 1
      BY <1>2, <2>1
    <3> QED
      BY <1>3, <1>5, <2>1, <3>1
  <2>2. CASE ~(i < n)
    <3>1. /\ i - (n - 1) \in 1 .. Len(lists) - n /\ n + (i - (n - 1)) = i + 1
          /\ n - 1 + (i - (n - 1)) = i
      BY <1>2, <2>2
    <3>2. lists'[n - 1 + (i - (n - 1))] = b[i - (n - 1)]
      BY <1>5, <3>1
    <3>3. b[i - (n - 1)] = lists[n + (i - (n - 1))]
      BY <1>4, <3>1
    <3> QED
      BY <2>2, <3>1, <3>2, <3>3
  <2> QED
    BY <2>1, <2>2
<1>8. DOMAIN lists' = 1 .. Len(lists) - 1
  BY <1>5, <1>6
<1> QED
  BY <1>1, <1>5, <1>6, <1>7, <1>8 DEF n

-----------------------------------------------------------------------------
(* Types *)

\* A callback is called by a loop.
LEMMA CallerBelow ==
    ASSUME TypeOK, StackInv, InCallback
    PROVE  /\ 1 \in 1 .. Len(stack) /\ 2 \in 1 .. Len(stack)
           /\ Len(stack) - 1 \in DOMAIN stack /\ stack[Len(stack)].op = "callback"
<1>1. stack # <<>> /\ stack[Len(stack)].op = "callback" /\ stack[1].op # "callback"
  BY DEF InCallback, Running, StackInv, Last
<1>2. Len(stack) \in Nat /\ DOMAIN stack = 1 .. Len(stack) /\ Len(stack) # 0 /\ Len(stack) # 1
  BY <1>1 DEF TypeOK
<1>3. \A n \in Nat : n # 0 /\ n # 1 => 1 \in 1 .. n /\ 2 \in 1 .. n /\ n - 1 \in 1 .. n
  OBVIOUS
<1> QED
  BY <1>1, <1>2, <1>3

LEMMA StepTypes ==
    ASSUME IInv, [Next]_vars
    PROVE  TypeOK'
<1>1. TypeOK /\ HeldInv /\ StackInv
  BY DEF IInv
<1>2. /\ rows \in Seq(Kinds) /\ lists \in Seq(Lists) /\ stack \in Seq(Frame)
      /\ opens \in 0 .. MaxOpens /\ held \subseteq Lists
      /\ got \in [Lists -> Seq(Nat)] /\ owed \in [Lists -> SUBSET Nat]
  BY <1>1 DEF TypeOK
<1>3. ASSUME NEW l \in Lists, OpenList(l)
      PROVE  TypeOK'
  <2>1. Load(l) \in Frame
    BY DEF Load, Frame
  <2>2. stack' \in Seq(Frame) /\ lists' \in Seq(Lists)
    BY <1>2, <1>3, <2>1 DEF OpenList
  <2>3. opens' \in 0 .. MaxOpens
    BY <1>2, <1>3, TopicListsAssumption DEF OpenList
  <2>4. Matching(l, rows) \subseteq Nat
    BY <1>2 DEF Matching
  <2>5. got' \in [Lists -> Seq(Nat)] /\ owed' \in [Lists -> SUBSET Nat]
    BY <1>2, <1>3, <2>4 DEF OpenList
  <2> QED
    BY <1>2, <1>3, <2>2, <2>3, <2>5 DEF OpenList, TypeOK
<1>4. ASSUME NEW l \in Lists, CloseList(l)
      PROVE  TypeOK'
  <2>1. l \in held
    BY <1>1, <1>2, <1>4 DEF CloseList, Contains, HeldInv
  <2>2. lists' \in Seq(Lists)
    BY <1>1, <1>4, <2>1, Removed DEF CloseList
  <2> QED
    BY <1>2, <1>4, <2>2 DEF CloseList, TypeOK
<1>5. ASSUME NEW k \in Kinds, AppendRecord(k)
      PROVE  TypeOK'
  <2>1. rows' \in Seq(Kinds) /\ Len(rows') \in Nat
    BY <1>2, <1>5 DEF AppendRecord
  <2>2. FirstList(Len(rows')) \in Frame
    BY <2>1 DEF FirstList, Deliver, Frame
  <2>3. stack' \in Seq(Frame)
    BY <1>2, <1>5, <2>2 DEF AppendRecord
  <2>4. owed' \in [Lists -> SUBSET Nat]
    BY <1>2, <1>5, <2>1 DEF AppendRecord
  <2> QED
    BY <1>2, <1>5, <2>1, <2>3, <2>4 DEF AppendRecord, TypeOK
<1>6. CASE Backup
  BY <1>2, <1>6 DEF Backup, TypeOK
<1>7. CASE LoadRecord \/ DeliverRecord
  <2>1. /\ stack # <<>> /\ Last(stack) \in Frame /\ Last(stack).at \in Nat /\ Last(stack).idx \in Nat
        /\ Last(stack).op \in {"load", "deliver"} /\ Len(stack) \in DOMAIN stack
        /\ Last(stack) = stack[Len(stack)]
    BY <1>1, <1>7, Seqs, Frames DEF LoadRecord, DeliverRecord, Running
  <2>2. CASE Pop(1) /\ got' = got
    <3>1. 1 \in 1 .. Len(stack)
      BY <1>2, <2>1
    <3>2. stack' \in Seq(Frame)
      BY <1>1, <2>2, <3>1, Popped
    <3> QED
      BY <1>2, <1>7, <2>2, <3>2 DEF LoadRecord, DeliverRecord, TypeOK
  <2>3. CASE ~(Pop(1) /\ got' = got)
    <3>1. PICK l \in Lists, at \in Nat, next \in Frame : Turn(l, at, next)
      <4>1. CASE LoadRecord
        <5> DEFINE f == Last(stack)
                   next == [f EXCEPT !.at = @ + 1]
        <5>1. f.list \in Lists /\ Turn(f.list, f.at, next)
          BY <1>1, <1>2, <2>1, <2>3, <4>1 DEF LoadRecord, Running, StackInv, LoopInv
        <5>2. next \in Frame
          BY <2>1 DEF Frame
        <5> QED
          BY <2>1, <5>1, <5>2
      <4>2. CASE DeliverRecord
        <5> DEFINE f == Last(stack)
                   next == [f EXCEPT !.idx = @ + 1]
        <5>1. lists[f.idx] \in Lists /\ Turn(lists[f.idx], f.at, next)
          BY <1>2, <2>1, <2>3, <4>2 DEF DeliverRecord
        <5>2. next \in Frame
          BY <2>1 DEF Frame
        <5> QED
          BY <2>1, <5>1, <5>2
      <4> QED
        BY <1>7, <4>1, <4>2
    <3>2. /\ stack' \in Seq(Frame)
          /\ got' = [got EXCEPT ![l] = IF rows[at] \in Wants[l] THEN Append(@, at) ELSE @]
      BY <1>1, <2>1, <3>1, Turned
    <3>3. got' \in [Lists -> Seq(Nat)]
      <4>1. got[l] \in Seq(Nat) /\ Append(got[l], at) \in Seq(Nat)
        BY <1>2
      <4> QED
        BY <1>2, <3>2, <4>1
    <3> QED
      BY <1>2, <1>7, <3>2, <3>3 DEF LoadRecord, DeliverRecord, TypeOK
  <2> QED
    BY <2>2, <2>3
<1>8. CASE Return \/ BreakLoad \/ BreakAppend
  <2>1. 1 \in 1 .. Len(stack) /\ 2 \in 1 .. Len(stack)
    BY <1>1, <1>8, CallerBelow DEF Return, BreakLoad, BreakAppend
  <2>2. stack' \in Seq(Frame)
    BY <1>1, <1>8, <2>1, Popped DEF Return, BreakLoad, BreakAppend
  <2>3. owed' \in [Lists -> SUBSET Nat]
    BY <1>2, <1>8 DEF Return, BreakLoad, BreakAppend
  <2> QED
    BY <1>2, <1>8, <2>2, <2>3 DEF Return, BreakLoad, BreakAppend, TypeOK
<1>9. CASE UNCHANGED vars
  BY <1>2, <1>9 DEF vars, TypeOK
<1> QED
  BY <1>3, <1>4, <1>5, <1>6, <1>7, <1>8, <1>9 DEF Next

-----------------------------------------------------------------------------
(* The stack *)

\* The loops stay, or come to an end.
LEMMA StackSteady ==
    ASSUME StackInv, \A i \in DOMAIN stack' : LoopInv(i)', 1 \in DOMAIN stack' => 1 \in DOMAIN stack,
           \A i \in DOMAIN stack' :
              \/ i # 1 /\ stack'[i].op = "callback"
              \/ /\ i \in DOMAIN stack /\ stack'[i].op = stack[i].op
                 /\ stack'[i].list = stack[i].list /\ (Active(i)' => Active(i)),
           stack' # <<>> => 1 \in DOMAIN stack'
    PROVE  StackInv'
<1>1. \A i \in DOMAIN stack' : Active(i)' => stack'[i].op = "deliver"
  BY DEF Active
<1>2. stack' # <<>> => stack'[1].op # "callback"
  <2> SUFFICES ASSUME stack' # <<>>
               PROVE  stack'[1].op # "callback"
    OBVIOUS
  <2>1. 1 \in DOMAIN stack /\ stack'[1].op = stack[1].op
    OBVIOUS
  <2>2. stack # <<>>
    BY <2>1
  <2> QED
    BY <2>1, <2>2 DEF StackInv
<1>3. \A i, j \in DOMAIN stack' : stack'[i].op = "load" => stack'[j].op # "deliver"
  BY DEF StackInv
<1>4. \A i, j \in DOMAIN stack' :
        stack'[i].op = "load" /\ stack'[j].op = "load" /\ stack'[i].list = stack'[j].list => i = j
  BY DEF StackInv
<1>5. \A i, j \in DOMAIN stack' : Active(i)' /\ Active(j)' => i = j
  BY <1>1 DEF StackInv
<1> QED
  BY <1>2, <1>3, <1>4, <1>5 DEF StackInv

LEMMA PoppedStack ==
    ASSUME TypeOK, StackInv, NEW n \in 1 .. Len(stack), Pop(n), UNCHANGED <<rows, lists, held>>
    PROVE  StackInv'
<1>1. /\ stack' \in Seq(Frame)
      /\ \A i \in DOMAIN stack' : i \in DOMAIN stack /\ stack'[i] = stack[i]
  BY Popped
<1>2. \A i \in DOMAIN stack' : LoopInv(i)' /\ (Active(i)' => Active(i))
  BY <1>1 DEF StackInv, LoopInv, Active
<1>3. stack' # <<>> => 1 \in DOMAIN stack'
  BY <1>1
<1> QED
  BY <1>1, <1>2, <1>3, StackSteady

LEMMA TurnedStack ==
    ASSUME TypeOK, StackInv, stack # <<>>, NEW l \in Lists, NEW at \in Nat, NEW next \in Frame,
           Turn(l, at, next), UNCHANGED <<rows, lists, held>>,
           next.op = Last(stack).op, next.list = Last(stack).list,
           next.op = "load" => next.at \in 1 .. Len(rows) + 1,
           next.op = "deliver" => next.idx # 0 /\ next.at = Last(stack).at,
           next.op = "deliver" /\ next.idx \in DOMAIN lists => Last(stack).idx \in DOMAIN lists
    PROVE  StackInv'
<1> DEFINE top == Len(stack)
<1>1. /\ stack' \in Seq(Frame)
      /\ \A i \in DOMAIN stack : i \in DOMAIN stack' /\ stack'[i] = IF i = top THEN next ELSE stack[i]
      /\ \A i \in DOMAIN stack' : i \in DOMAIN stack \/ stack'[i] = Callback(l)
  BY Turned
<1>2. top \in DOMAIN stack /\ 1 \in DOMAIN stack /\ Last(stack) = stack[top]
  <2>1. top \in DOMAIN stack /\ DOMAIN stack = 1 .. top /\ Last(stack) = stack[top]
    BY Seqs
  <2> QED
    BY <2>1
<1>3. Callback(l).op = "callback"
  BY DEF Callback
<1> HIDE DEF top
<1>4. \A i \in DOMAIN stack' : LoopInv(i)'
  <2> TAKE i \in DOMAIN stack'
  <2>1. CASE i \in DOMAIN stack /\ i # top
    BY <1>1, <2>1 DEF StackInv, LoopInv, Active
  <2>2. CASE i = top
    <3>1. LoopInv(top) /\ stack'[top] = next
      BY <1>1, <1>2 DEF StackInv
    <3> QED
      BY <1>2, <2>2, <3>1 DEF LoopInv, Active
  <2>3. CASE i \notin DOMAIN stack
    BY <1>1, <1>3, <2>3 DEF LoopInv, Active
  <2> QED
    BY <2>1, <2>2, <2>3
<1>5. \A i \in DOMAIN stack : Active(i)' => Active(i)
  <2> TAKE i \in DOMAIN stack
  <2>1. CASE i # top
    BY <1>1, <2>1 DEF Active
  <2>2. CASE i = top
    BY <1>1, <1>2, <2>2 DEF Active
  <2> QED
    BY <2>1, <2>2
<1>6. \A i \in DOMAIN stack : stack'[i].op = stack[i].op /\ stack'[i].list = stack[i].list
  BY <1>1, <1>2
<1>7. \A i \in DOMAIN stack' : i \notin DOMAIN stack => i # 1 /\ stack'[i].op = "callback"
  BY <1>1, <1>2, <1>3
<1>8. stack' # <<>> => 1 \in DOMAIN stack'
  BY <1>1, <1>2
<1> QED
  BY <1>2, <1>4, <1>5, <1>6, <1>7, <1>8, StackSteady

-----------------------------------------------------------------------------
(* What the lists are given *)

\* Nothing of a list changes.
LEMMA SameServed ==
    ASSUME NEW l \in Lists, Served(l), rows' = rows, got'[l] = got[l], owed'[l] = owed[l],
           \A r \in Nat : Pending(l, r)' <=> Pending(l, r)
    PROVE  Served(l)'
<1>1. \A r \in Nat : Given(l, r)' <=> Given(l, r)
  BY DEF Given
<1>2. Matching(l, rows)' = Matching(l, rows)
  BY DEF Matching
<1> QED
  BY <1>1, <1>2 DEF Served

\* Frames that are gone and bring nothing to l are not missed.
LEMMA PoppedPending ==
    ASSUME TypeOK, NEW n \in 1 .. Len(stack), Pop(n), UNCHANGED <<rows, lists>>, NEW l,
           \A i \in DOMAIN stack : \A r \in Matching(l, rows) :
              i > Len(stack) - n => ~Brings(i, l, r)
    PROVE  \A r \in Nat : Pending(l, r)' <=> Pending(l, r)
<1>1. /\ DOMAIN stack' = 1 .. Len(stack) - n
      /\ \A i \in DOMAIN stack' : i \in DOMAIN stack /\ stack'[i] = stack[i]
  BY Popped
<1>2. \A i \in DOMAIN stack' : \A r : Brings(i, l, r)' <=> Brings(i, l, r)
  BY <1>1 DEF Brings
<1>3. Matching(l, rows)' = Matching(l, rows)
  BY DEF Matching
<1>4. \A i \in DOMAIN stack : i > Len(stack) - n \/ i \in DOMAIN stack'
  BY <1>1, Seqs
<1> QED
  BY <1>1, <1>2, <1>3, <1>4 DEF Pending

\* One loop at a time brings records to a list.
LEMMA OneLoop ==
    ASSUME TypeOK, StackInv, NEW l, NEW r, NEW s, NEW i \in DOMAIN stack, NEW j \in DOMAIN stack,
           Brings(i, l, r), Brings(j, l, s)
    PROVE  i = j
<1>1. ASSUME NEW n \in DOMAIN stack, stack[n].op = "deliver", NEW t, Brings(n, l, t)
      PROVE  Active(n)
  <2>1. stack[n].idx # 0 /\ stack[n].idx \in Nat
    BY <1>1, Seqs, Frames DEF StackInv, LoopInv
  <2>2. PICK m \in DOMAIN lists : m >= stack[n].idx
    BY <1>1 DEF Brings
  <2>3. DOMAIN lists = 1 .. Len(lists) /\ Len(lists) \in Nat
    BY Seqs
  <2>4. stack[n].idx \in DOMAIN lists
    BY <2>1, <2>2, <2>3
  <2> QED
    BY <1>1, <2>4 DEF Active
<1>2. CASE stack[i].op = "deliver" /\ stack[j].op = "deliver"
  BY <1>1, <1>2 DEF StackInv
<1>3. CASE stack[i].op = "load" /\ stack[j].op = "load"
  BY <1>3 DEF StackInv, Brings
<1>4. CASE stack[i].op # stack[j].op
  BY <1>4 DEF StackInv, Brings
<1> QED
  BY <1>2, <1>3, <1>4 DEF Brings

\* A turn of a loop takes the row at to l: then it is given, if l wants it, and no
\* longer to be brought.
LEMMA TurnedServed ==
    ASSUME IInv, stack # <<>>, NEW top, top = Len(stack),
           NEW l \in held, NEW at \in DOMAIN rows, NEW next \in Frame,
           Turn(l, at, next), UNCHANGED <<rows, lists, held, owed>>,
           Brings(top, l, at),
           \A r \in Nat : Brings(top, l, r) => r >= at,
           \A k \in held : \A r \in Nat :
              Brings(top, k, r)' <=> Brings(top, k, r) /\ ~(k = l /\ r = at),
           NEW k \in held
    PROVE  Served(k)'
<1>1. /\ TypeOK /\ HeldInv /\ StackInv /\ Served(k) /\ l \in Lists /\ k \in Lists /\ at \in Nat
      /\ top \in DOMAIN stack
  BY Seqs DEF IInv, TypeOK
<1>2. /\ \A i \in DOMAIN stack : i \in DOMAIN stack' /\ stack'[i] = IF i = top THEN next ELSE stack[i]
      /\ \A i \in DOMAIN stack' : i \in DOMAIN stack \/ stack'[i] = Callback(l)
      /\ got' = [got EXCEPT ![l] = IF rows[at] \in Wants[l] THEN Append(@, at) ELSE @]
  BY <1>1, Turned
<1>3. Matching(k, rows)' = Matching(k, rows) /\ \A r \in Matching(k, rows) : r \in Nat
  BY <1>1, Seqs DEF Matching
<1>4. \A r \in Nat : Pending(k, r)' <=> Pending(k, r) /\ ~(k = l /\ r = at)
  <2> TAKE r \in Nat
  <2>1. \A i \in DOMAIN stack : i # top => (Brings(i, k, r)' <=> Brings(i, k, r))
    BY <1>2 DEF Brings
  <2>2. \A i \in DOMAIN stack' : i \notin DOMAIN stack => ~Brings(i, k, r)'
    BY <1>2 DEF Brings, Callback
  <2>3. k = l => \A i \in DOMAIN stack : i # top => ~Brings(i, k, r)
    BY <1>1, OneLoop
  <2>4. Brings(top, k, r)' <=> Brings(top, k, r) /\ ~(k = l /\ r = at)
    OBVIOUS
  <2>5. ASSUME Pending(k, r)'
        PROVE  Pending(k, r) /\ ~(k = l /\ r = at)
    <3>1. PICK i \in DOMAIN stack' : Brings(i, k, r)'
      BY <2>5 DEF Pending
    <3>2. i \in DOMAIN stack /\ Brings(i, k, r) /\ ~(k = l /\ r = at)
      BY <2>1, <2>2, <2>3, <2>4, <3>1
    <3> QED
      BY <1>3, <2>5, <3>2 DEF Pending
  <2>6. ASSUME Pending(k, r), ~(k = l /\ r = at)
        PROVE  Pending(k, r)'
    <3>1. PICK i \in DOMAIN stack : Brings(i, k, r)
      BY <2>6 DEF Pending
    <3>2. i \in DOMAIN stack' /\ Brings(i, k, r)'
      BY <1>2, <2>1, <2>4, <2>6, <3>1
    <3> QED
      BY <1>3, <2>6, <3>2 DEF Pending
  <2> QED
    BY <2>5, <2>6
<1>5. CASE k # l \/ rows[at] \notin Wants[l]
  <2>1. got'[k] = got[k]
    BY <1>1, <1>2, <1>5 DEF TypeOK
  <2>2. k = l => ~Pending(k, at)
    BY <1>5 DEF Pending, Matching
  <2>3. \A r \in Nat : Pending(k, r)' <=> Pending(k, r)
    BY <1>4, <2>2
  <2> QED
    BY <1>1, <2>1, <2>3, SameServed
<1>6. CASE k = l /\ rows[at] \in Wants[l]
  <2>1. /\ got[k] \in Seq(Nat) /\ Len(got[k]) \in Nat /\ DOMAIN got[k] = 1 .. Len(got[k])
        /\ got'[k] = Append(got[k], at)
    BY <1>1, <1>2, <1>6 DEF TypeOK
  <2> DEFINE n == Len(got[k])
  <2>2. /\ DOMAIN got'[k] = 1 .. n + 1 /\ got'[k][n + 1] = at
        /\ \A i \in DOMAIN got[k] : got'[k][i] = got[k][i]
    BY <1>1, <2>1
  <2>3. Pending(k, at)
    BY <1>1, <1>6 DEF Pending, Matching
  <2>4. \A i \in DOMAIN got[k] : got[k][i] \in Nat /\ Given(k, got[k][i])
    BY <2>1 DEF Given
  <2>5. \A i \in DOMAIN got[k] : got[k][i] < at
    BY <1>1, <2>3, <2>4 DEF Served
  <2>6. \A i \in 1 .. n + 1 : i = n + 1 \/ i \in DOMAIN got[k]
    BY <2>1
  <2>7. \A r \in Nat : Given(k, r)' <=> Given(k, r) \/ r = at
    BY <2>1, <2>2, <2>6 DEF Given
  <2>8. \A i, j \in DOMAIN got'[k] : i < j => got'[k][i] < got'[k][j]
    <3> SUFFICES ASSUME NEW i \in DOMAIN got'[k], NEW j \in DOMAIN got'[k], i < j
                 PROVE  got'[k][i] < got'[k][j]
      OBVIOUS
    <3>1. i \in DOMAIN got[k] /\ (j = n + 1 \/ j \in DOMAIN got[k])
      BY <2>1, <2>2
    <3>2. CASE j = n + 1
      BY <2>2, <2>5, <3>1, <3>2
    <3>3. CASE j \in DOMAIN got[k]
      BY <1>1, <2>2, <3>1, <3>3 DEF Served
    <3> QED
      BY <3>1, <3>2, <3>3
  <2>9. \A r \in Nat : Pending(k, r)' => at < r
    <3> SUFFICES ASSUME NEW r \in Nat, Pending(k, r)'
                 PROVE  at < r
      OBVIOUS
    <3>1. Pending(k, r) /\ r # at
      BY <1>4, <1>6
    <3>2. PICK i \in DOMAIN stack : Brings(i, k, r)
      BY <3>1 DEF Pending
    <3>3. i = top
      BY <1>1, <1>6, <3>2, OneLoop
    <3>4. r >= at
      BY <1>6, <3>2, <3>3
    <3> QED
      BY <1>1, <3>1, <3>4
  <2>10. \A r \in Nat : r \in owed'[k] <=> Given(k, r)' \/ Pending(k, r)'
    BY <1>1, <1>4, <1>6, <2>3, <2>7 DEF Served
  <2>11. \A r, s \in Nat : Given(k, r)' /\ Pending(k, s)' => r < s
    BY <1>1, <1>4, <2>7, <2>9 DEF Served
  <2>12. \A r \in owed'[k] : r \in Matching(k, rows)'
    BY <1>1, <1>3 DEF Served
  <2> QED
    BY <2>8, <2>10, <2>11, <2>12 DEF Served
<1> QED
  BY <1>5, <1>6

-----------------------------------------------------------------------------
(* Steps *)

LEMMA OpenStep ==
    ASSUME Discipline, IInv, NEW l \in Lists, OpenList(l)
    PROVE  HeldInv' /\ StackInv' /\ \A k \in held' : Served(k)'
<1>1. /\ TypeOK /\ HeldInv /\ StackInv /\ l \notin held /\ held' = held \cup {l}
      /\ lists' = Append(lists, l) /\ rows' = rows
      /\ \A i \in DOMAIN stack : stack[i].op # "deliver"
  BY DEF IInv, OpenList, Discipline, Allowed, InProgress
<1>2. /\ DOMAIN lists' = 1 .. Len(lists) + 1 /\ lists'[Len(lists) + 1] = l
      /\ \A i \in DOMAIN lists : i \in DOMAIN lists' /\ lists'[i] = lists[i]
      /\ \A i \in DOMAIN lists' : i \in DOMAIN lists \/ i = Len(lists) + 1
      /\ Len(lists) + 1 \in DOMAIN lists'
  BY <1>1 DEF TypeOK
<1>3. HeldInv'
  BY <1>1, <1>2 DEF HeldInv
<1>4. /\ Matching(l, rows)' = Matching(l, rows)
      /\ \A k, r : r \in Matching(k, rows) => r \in Nat /\ r >= 1
  BY <1>1, Seqs DEF Matching
<1>5. /\ got'[l] = <<>> /\ owed'[l] = Matching(l, rows)
      /\ \A k \in held : got'[k] = got[k] /\ owed'[k] = owed[k]
  BY <1>1 DEF OpenList, TypeOK
<1>6. \A i \in DOMAIN stack, r \in Nat : ~Brings(i, l, r)
  BY <1>1 DEF Brings, StackInv, LoopInv
<1>7. CASE rows = <<>>
  <2>1. stack' = stack
    BY <1>7 DEF OpenList
  <2>2. StackInv'
    BY <1>1, <2>1 DEF StackInv, LoopInv, Active
  <2>3. \A k \in held : \A r \in Nat : Pending(k, r)' <=> Pending(k, r)
    BY <1>1, <2>1 DEF Pending, Brings, Matching
  <2>4. \A k \in held : Served(k)'
    BY <1>1, <1>5, <2>3, SameServed DEF IInv, TypeOK
  <2>5. Matching(l, rows) = {}
    BY <1>7 DEF Matching
  <2>6. Served(l)'
    BY <1>1, <1>4, <1>5, <2>5 DEF Served, Given, Pending
  <2> QED
    BY <1>1, <1>3, <2>2, <2>4, <2>6
<1>8. CASE rows # <<>>
  <2>0. PICK top : top = Len(stack) + 1
    OBVIOUS
  <2>1. /\ DOMAIN stack' = 1 .. top /\ top \in DOMAIN stack' /\ top \notin DOMAIN stack
        /\ \A i \in DOMAIN stack : i \in DOMAIN stack' /\ stack'[i] = stack[i]
        /\ stack'[top] = Load(l)
        /\ \A i \in DOMAIN stack' : i \in DOMAIN stack \/ i = top
        /\ 1 \in DOMAIN stack \/ top = 1
    <3>1. Load(l) \in Frame /\ stack' = Append(stack, Load(l))
      BY <1>8 DEF Load, Frame, OpenList
    <3>2. /\ DOMAIN stack' = 1 .. top /\ stack'[top] = Load(l)
          /\ \A i \in DOMAIN stack : stack'[i] = stack[i]
      BY <1>1, <2>0, <3>1, Pushed
    <3>3. DOMAIN stack = 1 .. Len(stack) /\ Len(stack) \in Nat
      BY <1>1, Seqs
    <3> QED
      BY <2>0, <3>2, <3>3
  <2>2. Load(l).op = "load" /\ Load(l).list = l /\ Load(l).at = 1
    BY DEF Load
  <2>3. StackInv'
    <3>1. \A i \in DOMAIN stack' : LoopInv(i)'
      <4>1. 1 \in 1 .. Len(rows) + 1
        BY <1>1, Seqs
      <4> QED
        BY <1>1, <2>1, <2>2, <4>1 DEF StackInv, LoopInv, Active
    <3>2. \A i \in DOMAIN stack : stack[i].op = "load" => stack[i].list # l
      BY <1>1 DEF StackInv, LoopInv
    <3>3. \A i \in DOMAIN stack' : stack'[i].op # "deliver" /\ ~Active(i)'
      BY <1>1, <2>1, <2>2 DEF Active
    <3>4. stack' # <<>> => stack'[1].op # "callback"
      <4>1. 1 \in DOMAIN stack => stack # <<>>
        OBVIOUS
      <4> QED
        BY <1>1, <2>1, <2>2, <4>1 DEF StackInv
    <3>5. \A i, j \in DOMAIN stack' :
            stack'[i].op = "load" /\ stack'[j].op = "load" /\ stack'[i].list = stack'[j].list
               => i = j
      BY <1>1, <2>1, <2>2, <3>2 DEF StackInv
    <3> QED
      BY <3>1, <3>3, <3>4, <3>5 DEF StackInv
  <2>4. \A k \in held : \A r \in Nat : Pending(k, r)' <=> Pending(k, r)
    <3> TAKE k \in held, r \in Nat
    <3>1. \A i \in DOMAIN stack : Brings(i, k, r)' <=> Brings(i, k, r)
      BY <1>1, <2>1 DEF Brings
    <3>2. ~Brings(top, k, r)'
      BY <1>1, <2>1, <2>2 DEF Brings
    <3>3. Matching(k, rows)' = Matching(k, rows)
      BY <1>1 DEF Matching
    <3> QED
      BY <2>1, <3>1, <3>2, <3>3 DEF Pending
  <2>5. \A k \in held : Served(k)'
    BY <1>1, <1>5, <2>4, SameServed DEF IInv, TypeOK
  <2>6. \A r \in Nat : Pending(l, r)' <=> r \in Matching(l, rows)
    <3>1. \A r \in Matching(l, rows) : Brings(top, l, r)'
      BY <1>4, <2>1, <2>2 DEF Brings
    <3> QED
      BY <1>4, <2>1, <3>1 DEF Pending
  <2>7. Served(l)'
    <3>1. \A r : ~Given(l, r)'
      BY <1>5 DEF Given
    <3> QED
      BY <1>4, <1>5, <2>6, <3>1 DEF Served
  <2> QED
    BY <1>1, <1>3, <2>3, <2>5, <2>7
<1> QED
  BY <1>7, <1>8

LEMMA CloseStep ==
    ASSUME Discipline, IInv, NEW l \in Lists, CloseList(l)
    PROVE  HeldInv' /\ StackInv' /\ \A k \in held' : Served(k)'
<1> DEFINE n == Place(l)
<1>1. /\ TypeOK /\ HeldInv /\ StackInv /\ held' = held \ {l} /\ l \in held
      /\ UNCHANGED <<rows, stack, got, owed>>
      /\ lists' = RemoveAt(lists, n)
      /\ \A i \in DOMAIN stack : stack[i].op = "load" => stack[i].list # l
      /\ \A i \in DOMAIN stack : stack[i].op = "deliver" =>
            ~(n < stack[i].idx /\ stack[i].idx <= Len(lists))
  BY DEF IInv, CloseList, Discipline, Allowed, InProgress, Contains, HeldInv
<1>2. /\ n \in DOMAIN lists /\ lists[n] = l /\ Len(lists') = Len(lists) - 1
      /\ lists' \in Seq(Lists)
      /\ \A i \in DOMAIN lists' : lists'[i] = IF i < n THEN lists[i] ELSE lists[i + 1]
  BY <1>1, Removed
<1>3. /\ Len(lists) \in Nat /\ DOMAIN lists = 1 .. Len(lists) /\ DOMAIN lists' = 1 .. Len(lists) - 1
  BY <1>1, <1>2, Seqs
<1> HIDE DEF n
<1>4. /\ \A i \in DOMAIN lists : i < n => i \in DOMAIN lists' /\ lists'[i] = lists[i]
      /\ \A i \in DOMAIN lists : i > n => i - 1 \in DOMAIN lists' /\ lists'[i - 1] = lists[i]
      /\ \A i \in DOMAIN lists' : /\ i < n => i \in DOMAIN lists /\ lists'[i] = lists[i]
                                  /\ i >= n => /\ i + 1 \in DOMAIN lists /\ i + 1 > n
                                               /\ lists'[i] = lists[i + 1]
  <2>1. \A i \in DOMAIN lists : i < n => i \in DOMAIN lists'
    BY <1>2, <1>3
  <2>2. \A i \in DOMAIN lists : i > n => /\ i - 1 \in DOMAIN lists' /\ ~(i - 1 < n)
                                         /\ (i - 1) + 1 = i
    BY <1>2, <1>3
  <2>3. \A i \in DOMAIN lists' : /\ i \in Nat /\ i < n => i \in DOMAIN lists
                                 /\ i >= n => i + 1 \in DOMAIN lists /\ i + 1 > n /\ ~(i < n)
    BY <1>2, <1>3
  <2> QED
    BY <1>2, <2>1, <2>2, <2>3
<1>5. \A i \in DOMAIN lists' : lists'[i] # l /\ lists'[i] \in held
  BY <1>1, <1>2, <1>3, <1>4 DEF HeldInv
<1>6. HeldInv'
  <2>1. ASSUME NEW k \in held'
        PROVE  \E i \in DOMAIN lists' : lists'[i] = k
    <3>1. PICK i \in DOMAIN lists : lists[i] = k
      BY <1>1, <2>1 DEF HeldInv
    <3>2. i # n
      BY <1>1, <1>2, <2>1, <3>1
    <3>3. i < n \/ i > n
      BY <1>2, <1>3, <3>2
    <3> QED
      BY <1>4, <3>1, <3>3
  <2>2. ASSUME NEW i \in DOMAIN lists', NEW j \in DOMAIN lists', lists'[i] = lists'[j]
        PROVE  i = j
    <3>1. i \in Nat /\ j \in Nat /\ n \in Nat
      BY <1>2, <1>3
    <3>2. CASE i < n /\ j < n
      BY <1>1, <1>4, <2>2, <3>2 DEF HeldInv
    <3>3. CASE i >= n /\ j >= n
      <4>1. lists[i + 1] = lists[j + 1] /\ i + 1 \in DOMAIN lists /\ j + 1 \in DOMAIN lists
        BY <1>4, <2>2, <3>3
      <4>2. i + 1 = j + 1
        BY <1>1, <4>1 DEF HeldInv
      <4> QED
        BY <3>1, <4>2
    <3>4. CASE i < n /\ j >= n
      <4>1. lists[i] = lists[j + 1] /\ i \in DOMAIN lists /\ j + 1 \in DOMAIN lists
        BY <1>4, <2>2, <3>4
      <4>2. i = j + 1
        BY <1>1, <4>1 DEF HeldInv
      <4> QED
        BY <3>1, <3>4, <4>2
    <3>5. CASE i >= n /\ j < n
      <4>1. lists[i + 1] = lists[j] /\ i + 1 \in DOMAIN lists /\ j \in DOMAIN lists
        BY <1>4, <2>2, <3>5
      <4>2. i + 1 = j
        BY <1>1, <4>1 DEF HeldInv
      <4> QED
        BY <3>1, <3>5, <4>2
    <3> QED
      BY <3>1, <3>2, <3>3, <3>4, <3>5
  <2> QED
    BY <1>1, <1>5, <2>1, <2>2 DEF HeldInv
<1>7. /\ \A i \in DOMAIN stack : stack[i].idx \in Nat
      /\ \A i \in DOMAIN stack : Active(i)' => Active(i)
  BY <1>1, <1>3, Seqs, Frames DEF Active
<1>8. StackInv'
  <2>1. \A i \in DOMAIN stack : LoopInv(i)'
    BY <1>1, <1>7 DEF StackInv, LoopInv
  <2>2. stack' # <<>> => 1 \in DOMAIN stack'
    BY <1>1, Seqs
  <2> QED
    BY <1>1, <1>7, <2>1, <2>2, StackSteady
<1>9. ASSUME NEW k \in held', NEW r \in Nat
      PROVE  Pending(k, r)' <=> Pending(k, r)
  <2>1. k # l /\ k \in held /\ Matching(k, rows)' = Matching(k, rows)
    BY <1>1, <1>9 DEF Matching
  <2>2. ASSUME NEW i \in DOMAIN stack
        PROVE  Brings(i, k, r)' <=> Brings(i, k, r)
    <3>1. CASE stack[i].op # "deliver"
      BY <1>1, <3>1 DEF Brings
    <3>2. CASE stack[i].op = "deliver"
      <4> DEFINE idx == stack[i].idx
      <4>1. idx \in Nat /\ (idx <= n \/ idx > Len(lists)) /\ n \in Nat
        BY <1>1, <1>2, <1>3, <1>7, <3>2
      <4> HIDE DEF idx
      <4>2. (\E j \in DOMAIN lists : j >= idx /\ lists[j] = k)
              => \E j \in DOMAIN lists' : j >= idx /\ lists'[j] = k
        <5> SUFFICES ASSUME NEW j \in DOMAIN lists, j >= idx, lists[j] = k
                     PROVE  \E m \in DOMAIN lists' : m >= idx /\ lists'[m] = k
          OBVIOUS
        <5>1. j # n /\ j \in Nat /\ j <= Len(lists)
          BY <1>2, <1>3, <2>1
        <5>2. CASE j < n
          BY <1>4, <5>2
        <5>3. CASE j > n
          <6>1. j - 1 >= idx
            BY <1>3, <4>1, <5>1, <5>3
          <6> QED
            BY <1>4, <5>3, <6>1
        <5> QED
          BY <4>1, <5>1, <5>2, <5>3
      <4>3. (\E j \in DOMAIN lists' : j >= idx /\ lists'[j] = k)
              => \E j \in DOMAIN lists : j >= idx /\ lists[j] = k
        <5> SUFFICES ASSUME NEW j \in DOMAIN lists', j >= idx, lists'[j] = k
                     PROVE  \E m \in DOMAIN lists : m >= idx /\ lists[m] = k
          OBVIOUS
        <5>1. j \in Nat
          BY <1>3
        <5>2. CASE j < n
          BY <1>4, <5>2
        <5>3. CASE j >= n
          <6>1. j + 1 >= idx
            BY <4>1, <5>1
          <6> QED
            BY <1>4, <5>3, <6>1
        <5> QED
          BY <4>1, <5>1, <5>2, <5>3
      <4> QED
        BY <1>1, <3>2, <4>2, <4>3 DEF Brings, idx
    <3> QED
      BY <3>1, <3>2
  <2> QED
    BY <1>1, <2>1, <2>2 DEF Pending
<1>10. ASSUME NEW k \in held'
       PROVE  Served(k)'
  <2>1. k \in held /\ k \in Lists /\ Served(k)
    BY <1>1, <1>10 DEF IInv, TypeOK
  <2> QED
    BY <1>1, <1>9, <1>10, <2>1, SameServed
<1> QED
  BY <1>6, <1>8, <1>10

LEMMA AppendStep ==
    ASSUME Discipline, IInv, NEW k \in Kinds, AppendRecord(k)
    PROVE  HeldInv' /\ StackInv' /\ \A l \in held' : Served(l)'
<1> DEFINE n == Len(rows)
<1>1. /\ TypeOK /\ HeldInv /\ StackInv /\ UNCHANGED <<lists, held, got>>
      /\ rows' = Append(rows, k)
      /\ \A i \in DOMAIN stack : stack[i].op # "load"
      /\ \A i \in DOMAIN stack : stack[i].op = "deliver" => ~(stack[i].idx <= Len(lists))
  BY DEF IInv, AppendRecord, Discipline, Allowed, InProgress, Behind
<1>2. /\ n \in Nat /\ DOMAIN rows = 1 .. n /\ DOMAIN rows' = 1 .. n + 1 /\ Len(rows') = n + 1
      /\ rows'[n + 1] = k /\ rows' # <<>>
      /\ \A r \in DOMAIN rows : r \in DOMAIN rows' /\ rows'[r] = rows[r]
  BY <1>1 DEF TypeOK
<1> HIDE DEF n
<1>3. \A i \in DOMAIN stack : \A l, r : ~Brings(i, l, r) /\ ~Active(i)
  BY <1>1, Seqs, Frames DEF Brings, Active
<1>4. PICK top : top = Len(stack) + 1
  OBVIOUS
<1>5. /\ \A i \in DOMAIN stack : i \in DOMAIN stack' /\ stack'[i] = stack[i]
      /\ top \in DOMAIN stack' /\ stack'[top] = Deliver(n + 1) /\ top \notin DOMAIN stack
      /\ \A i \in DOMAIN stack' : i \in DOMAIN stack \/ i = top
      /\ 1 \in DOMAIN stack \/ top = 1
  <2>1. Deliver(n + 1) \in Frame /\ stack' = Append(stack, Deliver(n + 1))
    BY <1>2 DEF Deliver, Frame, AppendRecord, FirstList
  <2>2. /\ DOMAIN stack' = 1 .. top /\ stack'[top] = Deliver(n + 1)
        /\ \A i \in DOMAIN stack : stack'[i] = stack[i]
    BY <1>1, <1>4, <2>1, Pushed
  <2>3. DOMAIN stack = 1 .. Len(stack) /\ Len(stack) \in Nat
    BY <1>1, Seqs
  <2> QED
    BY <1>4, <2>2, <2>3
<1>6. Deliver(n + 1).op = "deliver" /\ Deliver(n + 1).at = n + 1 /\ Deliver(n + 1).idx = 1
  BY DEF Deliver
<1>7. HeldInv'
  BY <1>1 DEF HeldInv
<1>8. StackInv'
  <2>1. \A i \in DOMAIN stack : ~Active(i)'
    BY <1>1, <1>3, <1>5 DEF Active
  <2>2. \A i \in DOMAIN stack' : LoopInv(i)'
    <3> TAKE i \in DOMAIN stack'
    <3>1. CASE i \in DOMAIN stack
      BY <1>1, <1>5, <2>1, <3>1 DEF StackInv, LoopInv
    <3>2. CASE i = top
      BY <1>2, <1>5, <1>6, <3>2 DEF LoopInv
    <3> QED
      BY <1>5, <3>1, <3>2
  <2>3. stack'[1].op # "callback"
    <3>1. 1 \in DOMAIN stack => stack # <<>>
      OBVIOUS
    <3> QED
      BY <1>1, <1>5, <1>6, <3>1 DEF StackInv
  <2>4. \A i \in DOMAIN stack' : stack'[i].op # "load"
    BY <1>1, <1>5, <1>6
  <2>5. \A i, j \in DOMAIN stack' : Active(i)' /\ Active(j)' => i = j
    BY <1>5, <2>1
  <2> QED
    BY <2>2, <2>3, <2>4, <2>5 DEF StackInv
<1>9. ASSUME NEW l \in held
      PROVE  Served(l)'
  <2>1. l \in Lists /\ Served(l) /\ owed[l] \in SUBSET Nat
    BY <1>1, <1>9 DEF IInv, TypeOK
  <2>2. \A r : ~Pending(l, r)
    BY <1>3 DEF Pending
  <2>3. \A r \in Nat : r \in Matching(l, rows)' <=> r \in Matching(l, rows) \/ (r = n + 1 /\ k \in Wants[l])
    <3>1. \A r \in DOMAIN rows' : r \in DOMAIN rows \/ r = n + 1
      BY <1>2
    <3>2. n + 1 \in DOMAIN rows'
      BY <1>2
    <3> QED
      BY <1>1, <1>2, <3>1, <3>2 DEF Matching
  <2>4. \A r \in Nat : Pending(l, r)' <=> r = n + 1 /\ k \in Wants[l]
    <3>1. \A i \in DOMAIN stack : \A r : ~Brings(i, l, r)'
      <4> SUFFICES ASSUME NEW i \in DOMAIN stack, NEW r
                   PROVE  ~Brings(i, l, r)'
        OBVIOUS
      <4>1. stack'[i] = stack[i] /\ lists' = lists
        BY <1>1, <1>5
      <4>2. Brings(i, l, r)' <=> Brings(i, l, r)
        BY <4>1 DEF Brings
      <4> QED
        BY <1>3, <4>2
    <3>2. \A r \in Nat : Brings(top, l, r)' <=> r = n + 1
      <4>1. \E j \in DOMAIN lists : j >= 1 /\ lists[j] = l
        BY <1>1, <1>9, Seqs DEF HeldInv
      <4> QED
        BY <1>1, <1>5, <1>6, <4>1 DEF Brings
    <3>3. \A r \in Nat : r \in Matching(l, rows) => r # n + 1
      BY <1>2 DEF Matching
    <3>4. n + 1 \in Nat
      BY <1>2
    <3> QED
      BY <1>5, <2>3, <3>1, <3>2, <3>3, <3>4 DEF Pending
  <2>5. \A r \in Nat : Given(l, r)' <=> Given(l, r)
    BY <1>1 DEF Given
  <2>6. \A r \in Nat : r \in owed'[l] <=> r \in owed[l] \/ (r = n + 1 /\ k \in Wants[l])
    BY <1>2, <1>9, <2>1 DEF AppendRecord
  <2>7. \A r \in owed'[l] : r \in Matching(l, rows)'
    <3>1. owed'[l] \subseteq Nat
      BY <1>2, <1>9, <2>1 DEF AppendRecord
    <3> QED
      BY <2>1, <2>3, <2>6, <3>1 DEF Served
  <2>8. \A r \in Nat : r \in owed'[l] <=> Given(l, r)' \/ Pending(l, r)'
    BY <2>1, <2>2, <2>4, <2>5, <2>6 DEF Served
  <2>9. \A r, s \in Nat : Given(l, r)' /\ Pending(l, s)' => r < s
    <3>1. \A r \in Nat : Given(l, r) => r < n + 1
      BY <1>2, <2>1 DEF Served, Matching
    <3> QED
      BY <2>4, <2>5, <3>1
  <2>10. \A i, j \in DOMAIN got'[l] : i < j => got'[l][i] < got'[l][j]
    BY <1>1, <2>1 DEF Served
  <2> QED
    BY <2>7, <2>8, <2>9, <2>10 DEF Served
<1> QED
  BY <1>1, <1>7, <1>8, <1>9

LEMMA BackupStep ==
    ASSUME Discipline, IInv, Backup
    PROVE  HeldInv' /\ StackInv' /\ \A l \in held' : Served(l)'
<1>1. held' = {} /\ lists' = <<>> /\ stack' = <<>>
  BY DEF IInv, HeldInv, Backup, Discipline, Allowed
<1> QED
  BY <1>1 DEF HeldInv, StackInv

\* The end of a loop that has nothing to bring, or the return of a callback.
LEMMA PopStep ==
    ASSUME IInv, NEW n \in 1 .. Len(stack), Pop(n), UNCHANGED <<rows, lists, held, got, owed>>,
           \A l \in held : \A i \in DOMAIN stack : \A r \in Matching(l, rows) :
              i > Len(stack) - n => ~Brings(i, l, r)
    PROVE  HeldInv' /\ StackInv' /\ \A l \in held' : Served(l)'
<1>1. TypeOK /\ HeldInv /\ StackInv /\ \A l \in held : Served(l) /\ l \in Lists
  BY DEF IInv, TypeOK
<1>2. HeldInv'
  BY <1>1 DEF HeldInv
<1>3. StackInv'
  BY <1>1, PoppedStack
<1>4. ASSUME NEW l \in held
      PROVE  Served(l)'
  <2>1. \A r \in Nat : Pending(l, r)' <=> Pending(l, r)
    BY <1>1, <1>4, PoppedPending
  <2> QED
    BY <1>1, <1>4, <2>1, SameServed
<1> QED
  BY <1>2, <1>3, <1>4

\* A delivery that is past the last list brings nothing.
LEMMA Past ==
    ASSUME TypeOK, NEW i \in DOMAIN stack, stack[i].op = "deliver", stack[i].idx # 0,
           stack[i].idx \notin DOMAIN lists
    PROVE  \A l, r : ~Brings(i, l, r)
<1>1. stack[i].idx \in Nat /\ Len(lists) \in Nat /\ DOMAIN lists = 1 .. Len(lists)
  BY Seqs, Frames
<1>2. \A j \in DOMAIN lists : ~(j >= stack[i].idx)
  BY <1>1
<1> QED
  BY <1>2 DEF Brings

LEMMA ReturnStep ==
    ASSUME IInv, Return
    PROVE  HeldInv' /\ StackInv' /\ \A l \in held' : Served(l)'
<1>1. /\ TypeOK /\ StackInv /\ InCallback /\ Pop(1) /\ UNCHANGED <<rows, lists, held, got, owed>>
  BY DEF IInv, Return
<1>2. 1 \in 1 .. Len(stack) /\ stack[Len(stack)].op = "callback"
  BY <1>1, CallerBelow
<1>3. \A i \in DOMAIN stack : i > Len(stack) - 1 => i = Len(stack)
  BY <1>1, Seqs
<1> QED
  BY <1>1, <1>2, <1>3, PopStep DEF Brings

LEMMA BreakAppendStep ==
    ASSUME Discipline, IInv, BreakAppend
    PROVE  HeldInv' /\ StackInv' /\ \A l \in held' : Served(l)'
<1>1. /\ TypeOK /\ StackInv /\ InCallback /\ Pop(2) /\ UNCHANGED <<rows, lists, held, got, owed>>
      /\ Caller.op = "deliver" /\ ~(Caller.idx <= Len(lists))
  BY DEF IInv, BreakAppend, Discipline, Allowed
<1>2. /\ 2 \in 1 .. Len(stack) /\ stack[Len(stack)].op = "callback"
      /\ Len(stack) - 1 \in DOMAIN stack /\ Caller = stack[Len(stack) - 1]
  BY <1>1, CallerBelow DEF Caller
<1>3. \A i \in DOMAIN stack : i > Len(stack) - 2 => i = Len(stack) \/ i = Len(stack) - 1
  BY <1>1, Seqs
<1>4. \A l, r : ~Brings(Len(stack) - 1, l, r)
  <2>1. Caller.idx \notin DOMAIN lists /\ Caller.idx # 0
    BY <1>1, <1>2, Seqs DEF StackInv, LoopInv
  <2> QED
    BY <1>1, <1>2, <2>1, Past
<1>5. \A l, r : ~Brings(Len(stack), l, r)
  BY <1>2 DEF Brings
<1> QED
  BY <1>1, <1>2, <1>3, <1>4, <1>5, PopStep

LEMMA LoadStep ==
    ASSUME IInv, LoadRecord
    PROVE  HeldInv' /\ StackInv' /\ \A k \in held' : Served(k)'
<1> DEFINE f == Last(stack)
           l == f.list
           at == f.at
<1>1. /\ TypeOK /\ HeldInv /\ StackInv /\ stack # <<>> /\ f.op = "load"
      /\ UNCHANGED <<rows, lists, opens, held, owed>>
  BY DEF IInv, LoadRecord, Running
<1>2. PICK top : top = Len(stack)
  OBVIOUS
<1>3. /\ top \in DOMAIN stack /\ f = stack[top] /\ f \in Frame
      /\ l \in held /\ l \in Lists /\ at \in Nat /\ at \in 1 .. Len(rows) + 1
      /\ DOMAIN rows = 1 .. Len(rows) /\ Len(rows) \in Nat
  <2>1. top \in DOMAIN stack /\ f = stack[top] /\ f \in Frame
    BY <1>1, <1>2, Seqs
  <2> HIDE DEF f
  <2>2. f.list \in held /\ f.at \in 1 .. Len(rows) + 1
    BY <1>1, <2>1 DEF StackInv, LoopInv
  <2> QED
    BY <1>1, <2>1, <2>2, Seqs DEF TypeOK
<1>4. CASE at \in DOMAIN rows
  <2> DEFINE next == [f EXCEPT !.at = at + 1]
  <2>1. Turn(l, at, next)
    BY <1>4 DEF LoadRecord
  <2>2. /\ next \in Frame /\ next.op = "load" /\ next.list = l /\ next.at = at + 1
        /\ next.at \in 1 .. Len(rows) + 1
    <3> HIDE DEF f
    <3>1. /\ next \in Frame /\ next.op = "load" /\ next.list = f.list /\ next.at = at + 1
      BY <1>1, <1>3 DEF Frame
    <3> QED
      BY <1>3, <1>4, <3>1
  <2> HIDE DEF next
  <2>3. StackInv'
    BY <1>1, <1>3, <2>1, <2>2, TurnedStack
  <2>4. stack'[top] = next
    BY <1>1, <1>2, <1>3, <2>1, <2>2, Turned
  <2>5. /\ Brings(top, l, at) /\ \A r \in Nat : Brings(top, l, r) => r >= at
    BY <1>1, <1>3 DEF Brings
  <2>6. \A k \in held : \A r \in Nat : Brings(top, k, r)' <=> Brings(top, k, r) /\ ~(k = l /\ r = at)
    <3> TAKE k \in held, r \in Nat
    <3>1. Brings(top, k, r)' <=> k = l /\ r >= at + 1
      BY <2>2, <2>4 DEF Brings
    <3>2. Brings(top, k, r) <=> k = l /\ r >= at
      BY <1>1, <1>3 DEF Brings
    <3>3. r >= at + 1 <=> r >= at /\ r # at
      BY <1>3
    <3> QED
      BY <3>1, <3>2, <3>3
  <2> HIDE DEF f, l, at
  <2>7. ASSUME NEW k \in held
        PROVE  Served(k)'
    <3>1. /\ IInv /\ stack # <<>> /\ UNCHANGED <<rows, lists, held, owed>>
          /\ l \in held /\ at \in DOMAIN rows /\ next \in Frame
      BY <1>1, <1>3, <1>4, <2>2
    <3> QED
      BY <1>2, <2>1, <2>5, <2>6, <3>1, TurnedServed
  <2> QED
    BY <1>1, <2>3, <2>7 DEF HeldInv
<1>5. CASE at \notin DOMAIN rows
  <2>1. Pop(1) /\ got' = got
    BY <1>5 DEF LoadRecord
  <2>2. 1 \in 1 .. Len(stack) /\ \A i \in DOMAIN stack : i > Len(stack) - 1 => i = top
    BY <1>1, <1>2, <1>3, Seqs
  <2>3. \A k \in held : \A r \in Matching(k, rows) : ~Brings(top, k, r)
    <3>1. \A r \in DOMAIN rows : ~(r >= at)
      BY <1>3, <1>5
    <3> QED
      BY <1>1, <1>3, <3>1 DEF Brings, Matching
  <2> QED
    BY <1>1, <2>1, <2>2, <2>3, PopStep
<1> QED
  BY <1>4, <1>5

LEMMA DeliverStep ==
    ASSUME IInv, DeliverRecord
    PROVE  HeldInv' /\ StackInv' /\ \A k \in held' : Served(k)'
<1> DEFINE f == Last(stack)
           idx == f.idx
           l == lists[idx]
           at == f.at
<1>1. /\ TypeOK /\ HeldInv /\ StackInv /\ stack # <<>> /\ f.op = "deliver"
      /\ UNCHANGED <<rows, lists, opens, held, owed>>
  BY DEF IInv, DeliverRecord, Running
<1>2. PICK top : top = Len(stack)
  OBVIOUS
<1>3. /\ top \in DOMAIN stack /\ f = stack[top] /\ f \in Frame
      /\ idx \in Nat /\ idx # 0 /\ at \in Nat
      /\ DOMAIN rows = 1 .. Len(rows) /\ Len(rows) \in Nat
      /\ DOMAIN lists = 1 .. Len(lists) /\ Len(lists) \in Nat
  <2>1. top \in DOMAIN stack /\ f = stack[top] /\ f \in Frame
    BY <1>1, <1>2, Seqs
  <2> HIDE DEF f
  <2> QED
    BY <1>1, <2>1, Seqs, Frames DEF StackInv, LoopInv
<1>4. CASE idx \in DOMAIN lists
  <2> DEFINE next == [f EXCEPT !.idx = idx + 1]
  <2>1. Turn(l, at, next)
    BY <1>4 DEF DeliverRecord
  <2>2. /\ next \in Frame /\ next.op = "deliver" /\ next.list = f.list /\ next.at = at
        /\ next.idx = idx + 1 /\ next.idx # 0
    <3> HIDE DEF f
    <3> QED
      BY <1>1, <1>3 DEF Frame
  <2> HIDE DEF next
  <2>3. l \in held /\ l \in Lists /\ at \in DOMAIN rows
    <3>1. Active(top)
      BY <1>1, <1>3, <1>4 DEF Active
    <3>2. rows # <<>> /\ at = Len(rows)
      BY <1>1, <1>3, <3>1 DEF StackInv, LoopInv
    <3>3. rows # <<>> => Len(rows) \in DOMAIN rows
      BY <1>1 DEF TypeOK
    <3> QED
      BY <1>1, <1>4, <3>2, <3>3 DEF HeldInv, TypeOK
  <2>4. StackInv'
    <3> HIDE DEF f
    <3>1. next.op = Last(stack).op /\ next.list = Last(stack).list /\ next.at = Last(stack).at
      BY <1>1, <2>2 DEF f
    <3>2. Last(stack).idx \in DOMAIN lists
      BY <1>4 DEF f
    <3> QED
      BY <1>1, <1>3, <2>1, <2>2, <2>3, <3>1, <3>2, TurnedStack
  <2>5. stack'[top] = next
    BY <1>1, <1>2, <1>3, <2>1, <2>2, <2>3, Turned
  <2>6. /\ Brings(top, l, at) /\ \A r \in Nat : Brings(top, l, r) => r >= at
    <3> HIDE DEF f
    <3>1. Brings(top, l, at)
      BY <1>1, <1>3, <1>4 DEF Brings
    <3>2. \A r \in Nat : Brings(top, l, r) => r = at
      BY <1>1, <1>3 DEF Brings
    <3> QED
      BY <1>3, <3>1, <3>2
  <2>7. \A k \in held : \A r \in Nat : Brings(top, k, r)' <=> Brings(top, k, r) /\ ~(k = l /\ r = at)
    <3> TAKE k \in held, r \in Nat
    <3>1. Brings(top, k, r)' <=> r = at /\ \E j \in DOMAIN lists : j >= idx + 1 /\ lists[j] = k
      BY <1>1, <2>2, <2>5 DEF Brings
    <3> HIDE DEF f
    <3>2. Brings(top, k, r) <=> r = at /\ \E j \in DOMAIN lists : j >= idx /\ lists[j] = k
      BY <1>1, <1>3 DEF Brings
    <3>3. \A j \in DOMAIN lists : lists[j] = l => j = idx
      BY <1>1, <1>4 DEF HeldInv
    <3>4. \A j \in DOMAIN lists : j >= idx + 1 <=> j >= idx /\ j # idx
      BY <1>3
    <3>5. (\E j \in DOMAIN lists : j >= idx + 1 /\ lists[j] = k)
            <=> k # l /\ \E j \in DOMAIN lists : j >= idx /\ lists[j] = k
      BY <3>3, <3>4
    <3> QED
      BY <3>1, <3>2, <3>5
  <2> HIDE DEF f, l
  <2>8. \A k \in held : Served(k)'
    BY <1>1, <1>2, <2>1, <2>2, <2>3, <2>6, <2>7, TurnedServed
  <2> QED
    BY <1>1, <2>4, <2>8 DEF HeldInv
<1>5. CASE idx \notin DOMAIN lists
  <2>1. Pop(1) /\ got' = got
    BY <1>5 DEF DeliverRecord
  <2>2. 1 \in 1 .. Len(stack) /\ \A i \in DOMAIN stack : i > Len(stack) - 1 => i = top
    BY <1>1, <1>2, <1>3, Seqs
  <2>3. \A k, r : ~Brings(top, k, r)
    BY <1>1, <1>3, <1>5, Past
  <2> QED
    BY <1>1, <2>1, <2>2, <2>3, PopStep
<1> QED
  BY <1>4, <1>5

\* A load that is broken off: what its list has not been given, it is not owed.
LEMMA BreakLoadStep ==
    ASSUME IInv, BreakLoad
    PROVE  HeldInv' /\ StackInv' /\ \A k \in held' : Served(k)'
<1>1. PICK m, l : m = Len(stack) - 1 /\ l = Caller.list
  OBVIOUS
<1>2. /\ TypeOK /\ HeldInv /\ StackInv /\ InCallback /\ Caller.op = "load" /\ Pop(2)
      /\ UNCHANGED <<rows, lists, opens, held, got>>
      /\ owed' = [owed EXCEPT ![l] = @ \cap ToSet(got[l])]
  BY <1>1 DEF IInv, BreakLoad
<1>3. /\ m \in DOMAIN stack /\ Caller = stack[m] /\ 2 \in 1 .. Len(stack)
      /\ stack[Len(stack)].op = "callback"
      /\ l \in held /\ l \in Lists
  <2>1. /\ m \in DOMAIN stack /\ Caller = stack[m] /\ 2 \in 1 .. Len(stack)
        /\ stack[Len(stack)].op = "callback"
    BY <1>1, <1>2, CallerBelow DEF Caller
  <2> QED
    BY <1>1, <1>2, <2>1 DEF StackInv, LoopInv, TypeOK
<1>4. \A i \in DOMAIN stack : i > Len(stack) - 2 => i = m \/ i = Len(stack)
  BY <1>1, <1>2, Seqs
<1>5. HeldInv'
  BY <1>2 DEF HeldInv
<1>6. StackInv'
  BY <1>2, <1>3, PoppedStack
<1>7. ASSUME NEW k \in held, k # l
      PROVE  Served(k)'
  <2>1. \A r : ~Brings(m, k, r) /\ ~Brings(Len(stack), k, r)
    BY <1>1, <1>2, <1>3, <1>7 DEF Brings
  <2>2. \A r \in Nat : Pending(k, r)' <=> Pending(k, r)
    BY <1>2, <1>3, <1>4, <2>1, PoppedPending
  <2>3. k \in Lists /\ Served(k) /\ got'[k] = got[k] /\ owed'[k] = owed[k]
    BY <1>2, <1>7 DEF IInv, TypeOK
  <2> QED
    BY <1>2, <2>2, <2>3, SameServed
<1>8. Served(l)'
  <2>1. /\ \A i \in DOMAIN stack' : i \in DOMAIN stack /\ stack'[i] = stack[i]
        /\ m \notin DOMAIN stack'
    <3>1. /\ DOMAIN stack' = 1 .. Len(stack) - 2
          /\ \A i \in DOMAIN stack' : i \in DOMAIN stack /\ stack'[i] = stack[i]
      BY <1>2, <1>3, Popped
    <3>2. m \notin 1 .. Len(stack) - 2
      BY <1>1, <1>2, Seqs
    <3> QED
      BY <3>1, <3>2
  <2>2. Brings(m, l, stack[m].at)
    <3>1. stack[m].at \in Nat
      BY <1>2, <1>3, Seqs, Frames
    <3> QED
      BY <1>1, <1>2, <1>3, <3>1 DEF Brings
  <2>3. \A r : ~Pending(l, r)'
    <3> SUFFICES ASSUME NEW r, Pending(l, r)'
                 PROVE  FALSE
      OBVIOUS
    <3>1. PICK i \in DOMAIN stack' : Brings(i, l, r)'
      BY DEF Pending
    <3>2. i \in DOMAIN stack /\ Brings(i, l, r)
      BY <1>2, <2>1, <3>1 DEF Brings
    <3>3. i = m
      BY <1>2, <1>3, <2>2, <3>2, OneLoop
    <3> QED
      BY <2>1, <3>1, <3>3
  <2>4. Served(l) /\ got'[l] = got[l] /\ Matching(l, rows)' = Matching(l, rows)
    BY <1>2, <1>3 DEF IInv, Matching
  <2>5. \A r \in Nat : Given(l, r)' <=> Given(l, r)
    BY <1>2 DEF Given
  <2>6. \A r : r \in owed'[l] <=> r \in owed[l] /\ Given(l, r)
    BY <1>2, <1>3 DEF TypeOK, Given, ToSet
  <2> QED
    BY <2>3, <2>4, <2>5, <2>6 DEF Served
<1> QED
  BY <1>2, <1>5, <1>6, <1>7, <1>8

-----------------------------------------------------------------------------
(* The specification *)

LEMMA InitIInv == Init => IInv
<1> SUFFICES ASSUME Init
             PROVE  IInv
  OBVIOUS
<1>1. TypeOK
  BY TopicListsAssumption DEF Init, TypeOK
<1>2. HeldInv /\ StackInv /\ held = {}
  BY DEF Init, HeldInv, StackInv
<1> QED
  BY <1>1, <1>2 DEF IInv

LEMMA StepIInv ==
    ASSUME Discipline, IInv, [Next]_vars
    PROVE  IInv'
<1>1. TypeOK'
  BY StepTypes
<1>2. HeldInv' /\ StackInv' /\ \A l \in held' : Served(l)'
  <2>1. ASSUME NEW l \in Lists, OpenList(l) \/ CloseList(l)
        PROVE  HeldInv' /\ StackInv' /\ \A k \in held' : Served(k)'
    BY <2>1, OpenStep, CloseStep
  <2>2. ASSUME NEW k \in Kinds, AppendRecord(k)
        PROVE  HeldInv' /\ StackInv' /\ \A l \in held' : Served(l)'
    BY <2>2, AppendStep
  <2>3. CASE Backup
    BY <2>3, BackupStep
  <2>4. CASE LoadRecord
    BY <2>4, LoadStep
  <2>5. CASE DeliverRecord
    BY <2>5, DeliverStep
  <2>6. CASE Return
    BY <2>6, ReturnStep
  <2>7. CASE BreakLoad
    BY <2>7, BreakLoadStep
  <2>8. CASE BreakAppend
    BY <2>8, BreakAppendStep
  <2>9. CASE UNCHANGED vars
    <3>1. UNCHANGED <<rows, lists, stack, held, got, owed>>
      BY <2>9 DEF vars
    <3>2. HeldInv' /\ StackInv'
      BY <3>1 DEF IInv, HeldInv, StackInv, LoopInv, Active
    <3>3. \A l \in held' : Served(l)'
      BY <3>1 DEF IInv, Served, Given, Pending, Brings, Matching
    <3> QED
      BY <3>2, <3>3
  <2> QED
    BY <2>1, <2>2, <2>3, <2>4, <2>5, <2>6, <2>7, <2>8, <2>9 DEF Next
<1> QED
  BY <1>1, <1>2 DEF IInv

\* When no call is in progress nothing is pending.
LEMMA Sound ==
    ASSUME IInv
    PROVE  ListsServed
<1>1. InOrder
  BY DEF IInv, Served, InOrder
<1>2. ASSUME stack = <<>>, NEW l \in held
      PROVE  ToSet(got[l]) = owed[l]
  <2>1. Served(l) /\ got[l] \in Seq(Nat) /\ owed[l] \subseteq Nat
    BY <1>2 DEF IInv, TypeOK
  <2>2. \A r : ~Pending(l, r)
    BY <1>2 DEF Pending
  <2>3. \A r : r \in ToSet(got[l]) <=> Given(l, r)
    BY DEF ToSet, Given
  <2>4. \A r \in ToSet(got[l]) : r \in Nat
    BY <2>1, <2>3 DEF Given
  <2> QED
    BY <2>1, <2>2, <2>3, <2>4 DEF Served
<1> QED
  BY <1>1, <1>2 DEF ListsServed, Complete

-----------------------------------------------------------------------------
(* Theorems *)

\* What a list has been given and what the loops in progress will still bring to
\* it, which comes later in the topic, is what tranger_open_list and
\* tranger_append_record owe it, wherever in the calls one is.
THEOREM Invariance ==
    ASSUME Discipline
    PROVE  Spec => []IInv
<1>1. Init => IInv
  BY InitIInv
<1>2. IInv /\ [Next]_vars => IInv'
  BY StepIInv
<1> QED
  BY <1>1, <1>2, PTL DEF Spec

\* Records, lists and calls in progress stay what they are.
THEOREM TypeCorrect ==
    ASSUME Discipline
    PROVE  Spec => []TypeOK
<1>1. IInv => TypeOK
  BY DEF IInv
<1> QED
  BY <1>1, Invariance, PTL

\* With callbacks that keep the discipline each list is given every record that it
\* wants, once and in the order of the topic: those that its load finds and those
\* that are appended while it is open.
THEOREM EveryRecordOnce ==
    ASSUME Discipline
    PROVE  Spec => []ListsServed
<1>1. IInv => ListsServed
  BY Sound
<1> QED
  BY <1>1, Invariance, PTL

-----------------------------------------------------------------------------
(* Walks under a match condition *)

\* A set of numbers that has one has a least.
LEMMA LeastOf ==
    ASSUME NEW B \in SUBSET Nat, B # {}
    PROVE  \E m \in B : \A b \in B : m <= b
<1> DEFINE R == OpToRel(<, Nat)
<1>1. IsWellFoundedOn(R, Nat)
  BY NatLessThanWellFounded
<1>2. \E x \in B : \A y \in B : ~(<<y, x>> \in R)
  <2> HIDE DEF R
  <2> QED
    BY <1>1, WFMin
<1>3. PICK m \in B : \A y \in B : ~(y < m)
  BY <1>2 DEF OpToRel
<1>4. \A y \in B : y \in Nat /\ m \in Nat
  OBVIOUS
<1>5. \A y \in B : m <= y
  BY <1>3, <1>4
<1> QED
  BY <1>5

\* Min and Max of what has one.
LEMMA MinIs ==
    ASSUME NEW B \in SUBSET Nat, B # {}
    PROVE  Min(B) \in B /\ \A b \in B : Min(B) <= b
<1>1. \E m \in B : \A b \in B : m <= b
  BY LeastOf
<1> QED
  BY <1>1 DEF Min

LEMMA MaxIs ==
    ASSUME NEW n \in Nat, NEW B \in SUBSET (0 .. n), B # {}
    PROVE  Max(B) \in B /\ \A b \in B : Max(B) >= b
<1> DEFINE C == {c \in 0 .. n : n - c \in B}
<1>1. C \in SUBSET Nat /\ C # {}
  <2>1. PICK b \in B : TRUE
    OBVIOUS
  <2>2. n - b \in 0 .. n /\ n - (n - b) = b
    OBVIOUS
  <2> QED
    BY <2>1, <2>2
<1>2. PICK c \in C : \A x \in C : c <= x
  <2> HIDE DEF C
  <2> QED
    BY <1>1, LeastOf
<1>3. n - c \in B /\ c \in 0 .. n
  OBVIOUS
<1>4. \A b \in B : n - c >= b
  <2> SUFFICES ASSUME NEW b \in B
               PROVE  n - c >= b
    OBVIOUS
  <2>1. b \in 0 .. n /\ n - b \in 0 .. n /\ n - (n - b) = b
    OBVIOUS
  <2>2. n - b \in C
    BY <2>1
  <2>3. c <= n - b
    BY <1>2, <2>2
  <2> QED
    BY <1>3, <2>1, <2>3
<1>5. \E m \in B : \A b \in B : m >= b
  BY <1>3, <1>4
<1> QED
  BY <1>5 DEF Max

LEMMA MaxOfTwo ==
    ASSUME NEW a \in Nat, NEW b \in Nat
    PROVE  Max({a, b}) = IF a >= b THEN a ELSE b
<1>1. \A x \in {a, b} : (\A y \in {a, b} : x >= y) => x = IF a >= b THEN a ELSE b
  OBVIOUS
<1>2. (IF a >= b THEN a ELSE b) \in {a, b} /\ \A y \in {a, b} : (IF a >= b THEN a ELSE b) >= y
  OBVIOUS
<1> QED
  BY <1>1, <1>2 DEF Max

\* A small number does not wrap.
LEMMA NoWrap ==
    ASSUME NEW x \in Nat, NEW w \in Nat, x < w
    PROVE  x % w = x
OBVIOUS

-----------------------------------------------------------------------------
(* The records of a topic *)

\* The walk is one that the conditions of Sane allow.
WalkSound ==
    /\ IsTopic(topic) /\ IsCond(cond) /\ Sorted /\ Near /\ StartsLive /\ UpToDate
    /\ cond.notkey = {} /\ known \in 0 .. Len(topic) /\ find \in BOOLEAN

\* tranger_last_record, tranger_next_record and tranger_prev_record.
LEMMA LastIs ==
    ASSUME topic \in Seq(Row), NEW n \in 0 .. Len(topic)
    PROVE  /\ LastRecord(n) \in 0 .. n
           /\ LastRecord(n) = 0 => \A r \in 1 .. n : ~Live(r)
           /\ LastRecord(n) # 0 => Live(LastRecord(n)) /\ \A r \in 1 .. n : Live(r) => r <= LastRecord(n)
<1> DEFINE S == {r \in 1 .. n : Live(r)}
<1>1. S # {} => Max(S) \in S /\ \A r \in S : Max(S) >= r
  <2> n \in Nat /\ S \in SUBSET (0 .. n)
    OBVIOUS
  <2> HIDE DEF S
  <2> QED
    BY MaxIs
<1>2. LastRecord(n) = IF S = {} THEN 0 ELSE Max(S)
  BY DEF LastRecord
<1> QED
  BY <1>1, <1>2

LEMMA NextIs ==
    ASSUME topic \in Seq(Row), NEW r \in 0 .. Len(topic)
    PROVE  /\ NextLive(r) \in 0 .. Len(topic)
           /\ NextLive(r) = 0 => \A x \in DOMAIN topic : x > r => ~Live(x)
           /\ NextLive(r) # 0 => /\ Live(NextLive(r)) /\ NextLive(r) > r
                                 /\ \A x \in DOMAIN topic : x > r /\ Live(x) => NextLive(r) <= x
<1> DEFINE S == {x \in r + 1 .. Len(topic) : Live(x)}
<1>1. S # {} => Min(S) \in S /\ \A x \in S : Min(S) <= x
  <2> S \in SUBSET Nat
    OBVIOUS
  <2> HIDE DEF S
  <2> QED
    BY MinIs
<1>2. NextLive(r) = IF S = {} THEN 0 ELSE Min(S)
  BY DEF NextLive
<1>3. \A x \in DOMAIN topic : x > r <=> x \in r + 1 .. Len(topic)
  OBVIOUS
<1> QED
  BY <1>1, <1>2, <1>3

LEMMA PrevIs ==
    ASSUME topic \in Seq(Row), NEW r \in 1 .. Len(topic)
    PROVE  /\ PrevLive(r) \in 0 .. Len(topic)
           /\ PrevLive(r) = 0 => \A x \in DOMAIN topic : x < r => ~Live(x)
           /\ PrevLive(r) # 0 => /\ Live(PrevLive(r)) /\ PrevLive(r) < r
                                 /\ \A x \in DOMAIN topic : x < r /\ Live(x) => PrevLive(r) >= x
<1> DEFINE S == {x \in 1 .. r - 1 : Live(x)}
<1>1. S # {} => Max(S) \in S /\ \A x \in S : Max(S) >= x
  <2> r \in Nat /\ S \in SUBSET (0 .. r)
    OBVIOUS
  <2> HIDE DEF S
  <2> QED
    BY MaxIs
<1>2. PrevLive(r) = IF S = {} THEN 0 ELSE Max(S)
  BY DEF PrevLive
<1>3. \A x \in DOMAIN topic : x < r <=> x \in 1 .. r - 1
  OBVIOUS
<1> QED
  BY <1>1, <1>2, <1>3
-----------------------------------------------------------------------------
(* The conditions *)

\* The first check that fails.
LEMMA FailingIs ==
    ASSUME NEW r, NEW n
    PROVE  /\ Failing(r, n) = 0 <=> \A i \in 1 .. 10 : ~Checks(r, cond, n)[i].fails
           /\ Failing(r, n) \in 0 .. 10
           /\ Failing(r, n) # 0 => Checks(r, cond, n)[Failing(r, n)].fails
<1> DEFINE I == {i \in 1 .. Len(Checks(r, cond, n)) : Checks(r, cond, n)[i].fails}
<1>1. Len(Checks(r, cond, n)) = 10
  BY DEF Checks
<1>2. Failing(r, n) = IF I # {} THEN Min(I) ELSE 0
  BY DEF Failing, SelectInSeq
<1>3. I # {} => Min(I) \in I
  <2> I \in SUBSET Nat
    BY <1>1
  <2> HIDE DEF I
  <2> QED
    BY MinIs
<1> QED
  BY <1>1, <1>2, <1>3

\* A bound on rowids or times, as it was meant.
From(r, f, b) == LET last == Field(LastRecord(Len(topic)), f)
                 IN  IF b >= 0 THEN Field(r, f) >= b ELSE Field(r, f) > last + b
To(r, f, b) == LET last == Field(LastRecord(Len(topic)), f)
               IN  IF b >= 0 THEN Field(r, f) <= b ELSE Field(r, f) <= last + b

Froms(f) == IF f = "rowid" THEN cond.from_rowid ELSE cond.from_t
Tos(f)   == IF f = "rowid" THEN cond.to_rowid ELSE cond.to_t

LEMMA FieldIs ==
    ASSUME MatchRecordAssumption, WalkSound, NEW f \in {"rowid", "t"}, NEW r \in 0 .. Len(topic)
    PROVE  /\ Field(r, f) \in Nat /\ Field(r, f) < W
           /\ f = "rowid" => Field(r, f) = r
           /\ f = "t" /\ r # 0 => Field(r, f) = topic[r].t
<1>1. topic \in Seq(Row) /\ Len(topic) < W /\ (\A x \in DOMAIN topic : topic[x].t < W) /\ W \in Nat \ {0}
  BY DEF WalkSound, IsTopic, MatchRecordAssumption
<1>2. r # 0 => topic[r].t \in Nat /\ topic[r].t < W
  <2> SUFFICES ASSUME r # 0
               PROVE  topic[r].t \in Nat /\ topic[r].t < W
    OBVIOUS
  <2>1. r \in DOMAIN topic
    BY <1>1
  <2>2. topic[r] \in Row
    BY <1>1, <2>1
  <2> QED
    BY <1>1, <2>1, <2>2 DEF Row
<1> QED
  BY <1>1, <1>2 DEF Field

\* A negative bound is for who knows the last record, and does not wrap.
LEMMA BoundIs ==
    ASSUME MatchRecordAssumption, WalkSound, topic # <<>>, NEW f \in {"rowid", "t"}, NEW b,
           b \in Froms(f) \/ b \in Tos(f)
    PROVE  /\ b \in Int
           /\ b < 0 => LET last == Field(LastRecord(Len(topic)), f)
                       IN  /\ known = Len(topic) /\ last \in Nat
                           /\ last + b \in Nat /\ (last + b) % W = last + b
<1>1. b \in Int
  BY DEF WalkSound, IsCond, IsBound, Froms, Tos
<1>2. ASSUME b < 0
      PROVE  LET last == Field(LastRecord(Len(topic)), f)
             IN  /\ known = Len(topic) /\ last \in Nat
                 /\ last + b \in Nat /\ (last + b) % W = last + b
  <2>1. PICK r : r = LastRecord(Len(topic))
    OBVIOUS
  <2>2. topic \in Seq(Row)
    BY DEF WalkSound, IsTopic
  <2>3. r \in 0 .. Len(topic)
    BY <2>1, <2>2, LastIs
  <2>4. PICK last : last = Field(r, f)
    OBVIOUS
  <2>5. last \in Nat /\ last < W /\ W \in Nat
    BY <2>3, <2>4, FieldIs DEF MatchRecordAssumption
  <2>6. last + b >= 0
    <3>1. f = "rowid" => last = r
      BY <2>3, <2>4, FieldIs
    <3>2. CASE f = "rowid"
      BY <2>1, <3>1, <3>2 DEF WalkSound, Near, Froms, Tos
    <3>3. CASE f = "t"
      BY <2>1, <2>4, <3>3 DEF WalkSound, Near, Froms, Tos
    <3> QED
      BY <3>2, <3>3
  <2>7. known = Len(topic)
    <3>1. b \in UNION {cond.from_rowid, cond.to_rowid, cond.from_t, cond.to_t}
      BY DEF Froms, Tos
    <3>2. ~(b >= 0)
      BY <1>1, <1>2
    <3> QED
      BY <3>1, <3>2 DEF WalkSound, UpToDate
  <2>8. last + b \in Nat /\ last + b < W
    BY <1>1, <1>2, <2>5, <2>6
  <2>9. (last + b) % W = last + b
    BY <2>5, <2>8, NoWrap
  <2> QED
    BY <2>1, <2>4, <2>5, <2>7, <2>8, <2>9
<1> QED
  BY <1>1, <1>2

LEMMA BeforeIs ==
    ASSUME MatchRecordAssumption, WalkSound, NEW f \in {"rowid", "t"}, NEW r \in DOMAIN topic
    PROVE  /\ (\E b \in Froms(f) : Before(r, f, b, known)) <=> ~(\A b \in Froms(f) : From(r, f, b))
           /\ (\E b \in Tos(f) : After(r, f, b, known)) <=> ~(\A b \in Tos(f) : To(r, f, b))
<1>1. topic # <<>> /\ r \in 0 .. Len(topic)
  BY DEF WalkSound, IsTopic
<1>2. PICK v : v = Field(r, f)
  OBVIOUS
<1>3. v \in Nat
  BY <1>1, <1>2, FieldIs
<1>4. ASSUME NEW b \in Froms(f)
      PROVE  Before(r, f, b, known) <=> ~From(r, f, b)
  <2>1. CASE b >= 0
    BY <1>1, <1>2, <1>3, <2>1, BoundIs DEF Before, From
  <2>2. CASE ~(b >= 0)
    <3>1. b \in Int /\ b < 0
      BY <1>1, <2>2, BoundIs
    <3>2. PICK last : last = Field(LastRecord(Len(topic)), f)
      OBVIOUS
    <3>3. known = Len(topic) /\ last \in Nat /\ last + b \in Nat /\ (last + b) % W = last + b
      BY <1>1, <3>1, <3>2, BoundIs
    <3>4. PICK m : m = last + b
      OBVIOUS
    <3>5. Before(r, f, b, known) <=> v <= m
      BY <1>2, <2>2, <3>2, <3>3, <3>4 DEF Before
    <3>6. From(r, f, b) <=> v > m
      BY <1>2, <2>2, <3>2, <3>4 DEF From
    <3>7. m \in Nat
      BY <3>3, <3>4
    <3> QED
      BY <1>3, <3>5, <3>6, <3>7
  <2> QED
    BY <2>1, <2>2
<1>5. ASSUME NEW b \in Tos(f)
      PROVE  After(r, f, b, known) <=> ~To(r, f, b)
  <2>1. CASE b >= 0
    BY <1>1, <1>2, <1>3, <2>1, BoundIs DEF After, To
  <2>2. CASE ~(b >= 0)
    <3>1. b \in Int /\ b < 0
      BY <1>1, <2>2, BoundIs
    <3>2. PICK last : last = Field(LastRecord(Len(topic)), f)
      OBVIOUS
    <3>3. known = Len(topic) /\ last \in Nat /\ last + b \in Nat /\ (last + b) % W = last + b
      BY <1>1, <3>1, <3>2, BoundIs
    <3>4. PICK m : m = last + b
      OBVIOUS
    <3>5. After(r, f, b, known) <=> v > m
      BY <1>2, <2>2, <3>2, <3>3, <3>4 DEF After
    <3>6. To(r, f, b) <=> v <= m
      BY <1>2, <2>2, <3>2, <3>4 DEF To
    <3>7. m \in Nat
      BY <3>3, <3>4
    <3> QED
      BY <1>3, <3>5, <3>6, <3>7
  <2> QED
    BY <2>1, <2>2
<1> QED
  BY <1>4, <1>5

\* tranger_match_record: what matches is what is wanted.
LEMMA MatchIsWanted ==
    ASSUME MatchRecordAssumption, WalkSound, NEW r, Live(r)
    PROVE  Failing(r, known) = 0 <=> Wanted(r)
<1>1. r \in DOMAIN topic
  BY DEF Live
<1> DEFINE c == Checks(r, cond, known)
<1>2. c[2].fails <=> ~(\A b \in cond.from_rowid : From(r, "rowid", b))
  BY <1>1, BeforeIs DEF Checks, Froms
<1>3. c[3].fails <=> ~(\A b \in cond.to_rowid : To(r, "rowid", b))
  BY <1>1, BeforeIs DEF Checks, Tos
<1>4. c[4].fails <=> ~(\A b \in cond.from_t : From(r, "t", b))
  BY <1>1, BeforeIs DEF Checks, Froms
<1>5. c[5].fails <=> ~(\A b \in cond.to_t : To(r, "t", b))
  BY <1>1, BeforeIs DEF Checks, Tos
<1>6. ~c[2].fails /\ ~c[3].fails <=> Meets(r, "rowid", cond.from_rowid, cond.to_rowid)
  BY <1>2, <1>3 DEF Meets, From, To
<1>7. ~c[4].fails /\ ~c[5].fails <=> Meets(r, "t", cond.from_t, cond.to_t)
  BY <1>4, <1>5 DEF Meets, From, To
<1>8. ~c[1].fails <=> topic[r].key \in cond.key
  BY DEF Checks
<1>9. ~c[6].fails <=> \A f \in cond.user_flag : topic[r].flags = f
  BY DEF Checks
<1>10. ~c[7].fails <=> \A f \in cond.not_user_flag : topic[r].flags # f
  BY DEF Checks
<1>11. ~c[8].fails <=> \A b \in cond.mask_set : b \in topic[r].flags
  BY DEF Checks
<1>12. ~c[9].fails <=> \A b \in cond.mask_notset : b \notin topic[r].flags
  BY DEF Checks
<1>13. ~c[10].fails /\ topic[r].key \notin cond.notkey
  BY DEF Checks, WalkSound
<1>14. (\A i \in 1 .. 10 : ~c[i].fails) <=>
          /\ ~c[1].fails /\ ~c[2].fails /\ ~c[3].fails /\ ~c[4].fails /\ ~c[5].fails
          /\ ~c[6].fails /\ ~c[7].fails /\ ~c[8].fails /\ ~c[9].fails /\ ~c[10].fails
  <2> HIDE DEF c
  <2>1. \A i \in 1 .. 10 : i = 1 \/ i = 2 \/ i = 3 \/ i = 4 \/ i = 5 \/ i = 6 \/ i = 7 \/ i = 8 \/ i = 9 \/ i = 10
    OBVIOUS
  <2> QED
    BY <2>1
<1>15. Failing(r, known) = 0 <=> \A i \in 1 .. 10 : ~c[i].fails
  BY FailingIs
<1> HIDE DEF c
<1> QED
  BY <1>6, <1>7, <1>8, <1>9, <1>10, <1>11, <1>12, <1>13, <1>14, <1>15 DEF Wanted
\* A condition that ends the walk is not met by what comes behind.
LEMMA NoneBehind ==
    ASSUME MatchRecordAssumption, WalkSound, NEW r, Live(r), Ends(r, known),
           NEW x, Live(x), x = r \/ Ahead(r, x)
    PROVE  ~Wanted(x)
<1> DEFINE c == Checks(r, cond, known)
<1>1. r \in DOMAIN topic /\ x \in DOMAIN topic /\ topic \in Seq(Row) /\ cond.backward \in BOOLEAN
  BY DEF Live, WalkSound, IsTopic, IsCond
<1>2. PICK i : i = Failing(r, known)
  OBVIOUS
<1>3. i \in 1 .. 10 /\ c[i].fails /\ c[i].ends
  <2>1. i \in 0 .. 10 /\ i # 0
    BY <1>2, FailingIs DEF Ends
  <2> QED
    BY <1>2, <2>1, FailingIs DEF Ends
<1>4. \/ c[2].fails /\ cond.backward
      \/ c[3].fails /\ ~cond.backward
      \/ c[4].fails /\ cond.backward
      \/ c[5].fails /\ ~cond.backward
  <2>1. /\ ~c[1].ends /\ ~c[6].ends /\ ~c[7].ends /\ ~c[8].ends /\ ~c[9].ends /\ ~c[10].ends
        /\ c[2].ends = cond.backward /\ c[3].ends = ~cond.backward
        /\ c[4].ends = cond.backward /\ c[5].ends = ~cond.backward
    BY DEF Checks
  <2>2. i = 1 \/ i = 2 \/ i = 3 \/ i = 4 \/ i = 5 \/ i = 6 \/ i = 7 \/ i = 8 \/ i = 9 \/ i = 10
    BY <1>3
  <2> HIDE DEF c
  <2> QED
    BY <1>3, <2>1, <2>2
<1>5. /\ cond.backward => x <= r /\ topic[x].t <= topic[r].t
      /\ ~cond.backward => x >= r /\ topic[x].t >= topic[r].t
  <2>1. topic[x].t \in Nat /\ topic[r].t \in Nat
    <3>1. topic[x] \in Row /\ topic[r] \in Row
      BY <1>1
    <3> QED
      BY <3>1 DEF Row
  <2>2. \A a, b \in DOMAIN topic : a < b => topic[a].t <= topic[b].t
    BY DEF WalkSound, Sorted
  <2>3. x \in Nat /\ r \in Nat
    BY <1>1
  <2> QED
    BY <1>1, <2>1, <2>2, <2>3 DEF Ahead
<1>6. \A f \in {"rowid", "t"} :
         /\ Field(x, f) \in Nat /\ Field(r, f) \in Nat
         /\ cond.backward => Field(x, f) <= Field(r, f)
         /\ ~cond.backward => Field(x, f) >= Field(r, f)
  <2>1. x \in 0 .. Len(topic) /\ r \in 0 .. Len(topic) /\ x # 0 /\ r # 0
    BY <1>1
  <2> QED
    BY <1>5, <2>1, FieldIs
<1>7. \A f \in {"rowid", "t"} : \A b : b \in Froms(f) \/ b \in Tos(f) =>
         LET last == Field(LastRecord(Len(topic)), f)
         IN  b \in Int /\ (b < 0 => last + b \in Nat)
  <2>1. topic # <<>>
    BY <1>1
  <2> QED
    BY <2>1, BoundIs
<1>8. ASSUME NEW f \in {"rowid", "t"}, cond.backward, \A b \in Froms(f) : From(x, f, b)
      PROVE  \A b \in Froms(f) : From(r, f, b)
  <2> SUFFICES ASSUME NEW b \in Froms(f), From(x, f, b)
               PROVE  From(r, f, b)
    BY <1>8
  <2>1. PICK last : last = Field(LastRecord(Len(topic)), f)
    OBVIOUS
  <2>2. b \in Int /\ (b < 0 => last + b \in Nat)
    BY <1>7, <2>1
  <2>3. Field(x, f) \in Nat /\ Field(r, f) \in Nat /\ Field(x, f) <= Field(r, f)
    BY <1>6, <1>8
  <2> QED
    BY <2>1, <2>2, <2>3 DEF From
<1>9. ASSUME NEW f \in {"rowid", "t"}, ~cond.backward, \A b \in Tos(f) : To(x, f, b)
      PROVE  \A b \in Tos(f) : To(r, f, b)
  <2> SUFFICES ASSUME NEW b \in Tos(f), To(x, f, b)
               PROVE  To(r, f, b)
    BY <1>9
  <2>1. PICK last : last = Field(LastRecord(Len(topic)), f)
    OBVIOUS
  <2>2. b \in Int /\ (b < 0 => last + b \in Nat)
    BY <1>7, <2>1
  <2>3. Field(x, f) \in Nat /\ Field(r, f) \in Nat /\ Field(x, f) >= Field(r, f)
    BY <1>6, <1>9
  <2> QED
    BY <2>1, <2>2, <2>3 DEF To
<1>10. Wanted(x) => /\ \A b \in Froms("rowid") : From(x, "rowid", b)
                    /\ \A b \in Tos("rowid") : To(x, "rowid", b)
                    /\ \A b \in Froms("t") : From(x, "t", b)
                    /\ \A b \in Tos("t") : To(x, "t", b)
  BY DEF Wanted, Meets, From, To, Froms, Tos
<1>11. /\ c[2].fails <=> ~(\A b \in Froms("rowid") : From(r, "rowid", b))
       /\ c[3].fails <=> ~(\A b \in Tos("rowid") : To(r, "rowid", b))
       /\ c[4].fails <=> ~(\A b \in Froms("t") : From(r, "t", b))
       /\ c[5].fails <=> ~(\A b \in Tos("t") : To(r, "t", b))
  BY <1>1, BeforeIs DEF Checks, Froms, Tos
<1> HIDE DEF c
<1> QED
  BY <1>4, <1>8, <1>9, <1>10, <1>11

-----------------------------------------------------------------------------
(* The walk *)

\* What is wanted and was passed has been given, and nothing else, in order.
WalkInv ==
    /\ WalkSound
    /\ out \in Seq(DOMAIN topic)
    /\ \A i \in DOMAIN out : Wanted(out[i])
    /\ \A i, j \in DOMAIN out : i < j => Ahead(out[i], out[j])
    /\ phase \in {"start", "walk", "done"}
    /\ phase = "start" => out = <<>>
    /\ phase = "walk" =>
          /\ Live(cur)
          /\ \A i \in DOMAIN out : Ahead(out[i], cur)
          /\ \A r \in DOMAIN topic : Wanted(r) /\ Ahead(r, cur) => r \in ToSet(out)
          /\ find => out = <<>>
    /\ phase = "done" =>
          \/ \A r \in DOMAIN topic : Wanted(r) => r \in ToSet(out)
          \/ find /\ Len(out) = 1
    /\ find => Len(out) <= 1
    /\ \A r \in DOMAIN topic, i \in DOMAIN out : Wanted(r) /\ Ahead(r, out[i]) => r \in ToSet(out)

\* What a step does not change.
Same == UNCHANGED <<topic, cond, find>>

LEMMA SameWalk ==
    ASSUME WalkSound, Same, known' \in known .. Len(topic)
    PROVE  /\ WalkSound'
           /\ \A r : Wanted(r)' <=> Wanted(r)
           /\ \A r : Live(r)' <=> Live(r)
           /\ \A x, y : Ahead(x, y)' <=> Ahead(x, y)
<1>1. /\ IsTopic(topic)' <=> IsTopic(topic)
      /\ IsCond(cond)' <=> IsCond(cond)
      /\ Sorted' <=> Sorted
      /\ \A n, m : n = m => LastRecord(n)' = LastRecord(m)
      /\ \A r : Live(r)' <=> Live(r)
      /\ \A x, y : Ahead(x, y)' <=> Ahead(x, y)
  BY DEF Same, IsTopic, IsCond, Sorted, LastRecord, Live, Ahead
<1>2. \A n, f : Field(n, f)' = Field(n, f)
  BY DEF Same, Field
<1>3. Near' <=> Near
  BY <1>1, <1>2 DEF Same, Near
<1>4. \A r : Wanted(r)' <=> Wanted(r)
  BY <1>1, <1>2 DEF Same, Wanted, Meets
<1>5. known' \in 0 .. Len(topic)' /\ (known = Len(topic) => known' = Len(topic)')
  BY DEF Same, WalkSound
<1>6. UpToDate'
  BY <1>5 DEF WalkSound, UpToDate, Same
<1>7. StartsLive'
  <2>1. \A r : GetRecord(r)' = GetRecord(r)
    BY DEF Same, GetRecord
  <2>2. ASSUME NEW b \in cond.from_rowid \cup cond.to_rowid, b < 0
        PROVE  known' = known
    <3>1. b \in UNION {cond.from_rowid, cond.to_rowid, cond.from_t, cond.to_t} /\ b \in Int
      BY <2>2 DEF WalkSound, IsCond, IsBound
    <3>2. ~(b >= 0)
      BY <2>2, <3>1
    <3>3. known = Len(topic)
      BY <3>1, <3>2 DEF WalkSound, UpToDate
    <3> QED
      BY <1>5, <3>3 DEF Same
  <2> QED
    BY <1>1, <2>1, <2>2 DEF Same, WalkSound, StartsLive
<1> QED
  BY <1>1, <1>3, <1>4, <1>5, <1>6, <1>7 DEF WalkSound, Same
\* The bounds of a walk that is asked to start somewhere, and where it starts.
Bounds == IF cond.backward THEN cond.to_rowid ELSE cond.from_rowid
First  == LET asked == Asked(Bounds)
          IN  IF asked # {} THEN GetRecord(CHOOSE b \in asked : TRUE)
              ELSE IF cond.backward THEN LastOf
              ELSE FirstOf

\* A walk starts at a record, and nothing that is wanted is before it.
StartsAt(first) ==
    /\ first \in 0 .. Len(topic)
    /\ first = 0 => \A r \in DOMAIN topic : ~Wanted(r)
    /\ first # 0 => Live(first) /\ \A r \in DOMAIN topic : Wanted(r) => ~Ahead(r, first)

\* tranger_open_list, asked for a rowid.
LEMMA AskedAt ==
    ASSUME MatchRecordAssumption, WalkSound, NEW a \in Asked(Bounds)
    PROVE  StartsAt(GetRecord(a))
<1>1. topic \in Seq(Row) /\ Len(topic) \in Nat /\ DOMAIN topic = 1 .. Len(topic) /\ cond.backward \in BOOLEAN
  BY DEF WalkSound, IsTopic, IsCond
<1>2. PICK b \in Bounds : (b > 0 /\ a = b) \/ (b < 0 /\ known + b > 0 /\ a = known + b)
  BY DEF Asked
<1>3. b \in Int /\ (cond.backward => b \in Tos("rowid")) /\ (~cond.backward => b \in Froms("rowid"))
  BY <1>1 DEF Bounds, Tos, Froms, WalkSound, IsCond, IsBound
<1>4. \A r \in DOMAIN topic : Wanted(r) =>
         /\ cond.backward => To(r, "rowid", b)
         /\ ~cond.backward => From(r, "rowid", b)
  BY <1>3 DEF Wanted, Meets, Tos, Froms, To, From
<1>5. \A r : Field(r, "rowid") = r
  BY DEF Field
<1>6. b \in cond.from_rowid \cup cond.to_rowid
  BY <1>3 DEF Tos, Froms
<1>7. CASE b > 0 /\ a = b
  <2>1. GetRecord(a) = 0 \/ Live(a)
    BY <1>1, <1>7 DEF WalkSound, StartsLive, Bounds
  <2>2. \A r \in DOMAIN topic : Wanted(r) => (cond.backward => r <= a) /\ (~cond.backward => r >= a)
    BY <1>3, <1>4, <1>5, <1>7 DEF To, From
  <2>3. CASE a \in DOMAIN topic
    <3>1. GetRecord(a) = a /\ a # 0 /\ a \in 0 .. Len(topic)
      BY <1>1, <2>3 DEF GetRecord
    <3>2. \A r \in DOMAIN topic : Wanted(r) => ~Ahead(r, a)
      BY <1>1, <2>2, <3>1 DEF Ahead
    <3> QED
      BY <2>1, <3>1, <3>2 DEF StartsAt
  <2>4. CASE a \notin DOMAIN topic
    <3>1. GetRecord(a) = 0
      BY <2>4 DEF GetRecord
    <3>2. a > Len(topic)
      BY <1>1, <1>3, <1>7, <2>4
    <3>3. ASSUME NEW r \in DOMAIN topic, Wanted(r)
          PROVE  FALSE
      <4>1. topic # <<>> /\ r \in Nat /\ r <= Len(topic)
        BY <1>1, <3>3
      <4>2. CASE cond.backward
        <5>1. b <= Len(topic)
          BY <1>3, <4>1, <4>2 DEF WalkSound, Near, Tos
        <5> QED
          BY <1>1, <1>3, <1>7, <3>2, <5>1
      <4>3. CASE ~cond.backward
        <5>1. r >= a
          BY <2>2, <3>3, <4>3
        <5> QED
          BY <1>1, <1>3, <1>7, <3>2, <4>1, <5>1
      <4> QED
        BY <4>2, <4>3
    <3> QED
      BY <1>1, <3>1, <3>3 DEF StartsAt
  <2> QED
    BY <2>3, <2>4
<1>8. CASE b < 0 /\ known + b > 0 /\ a = known + b
  <2>1. Live(Len(topic)) /\ Live(a)
    BY <1>6, <1>8 DEF WalkSound, StartsLive
  <2>2. topic # <<>>
    BY <1>1, <2>1 DEF Live
  <2>3. known = Len(topic)
    BY <1>3, <1>8, <2>2, BoundIs
  <2>4. LastRecord(Len(topic)) = Len(topic)
    <3>1. PICK n : n = LastRecord(Len(topic))
      OBVIOUS
    <3>2. /\ n \in 0 .. Len(topic)
          /\ n = 0 => \A r \in 1 .. Len(topic) : ~Live(r)
          /\ n # 0 => \A r \in 1 .. Len(topic) : Live(r) => r <= n
      BY <1>1, <3>1, LastIs
    <3>3. Len(topic) \in 1 .. Len(topic)
      BY <1>1, <2>1 DEF Live
    <3> QED
      BY <1>1, <2>1, <3>1, <3>2, <3>3
  <2>5. \A r \in DOMAIN topic : Wanted(r) => (cond.backward => r <= a) /\ (~cond.backward => r > a)
    <3>1. ~(b >= 0)
      BY <1>3, <1>8
    <3> QED
      BY <1>4, <1>5, <1>8, <2>3, <2>4, <3>1 DEF To, From
  <2>6. GetRecord(a) = a /\ a \in DOMAIN topic /\ a # 0 /\ a \in 0 .. Len(topic)
    BY <1>1, <2>1 DEF GetRecord, Live
  <2>7. \A r \in DOMAIN topic : Wanted(r) => ~Ahead(r, a)
    BY <1>1, <2>5, <2>6 DEF Ahead
  <2> QED
    BY <2>1, <2>6, <2>7 DEF StartsAt
<1> QED
  BY <1>2, <1>7, <1>8

LEMMA FirstIs ==
    ASSUME MatchRecordAssumption, WalkSound
    PROVE  StartsAt(First)
<1>1. topic \in Seq(Row) /\ Len(topic) \in Nat /\ DOMAIN topic = 1 .. Len(topic) /\ cond.backward \in BOOLEAN
  BY DEF WalkSound, IsTopic, IsCond
<1>2. \A r \in DOMAIN topic : Wanted(r) => Live(r)
  BY DEF Wanted
<1>3. CASE Asked(Bounds) # {}
  <2>1. PICK a : a = CHOOSE b \in Asked(Bounds) : TRUE
    OBVIOUS
  <2>2. a \in Asked(Bounds)
    BY <1>3, <2>1
  <2>3. First = IF Asked(Bounds) # {} THEN GetRecord(a)
                ELSE IF cond.backward THEN LastOf
                ELSE FirstOf
    BY <2>1 DEF First
  <2>4. First = GetRecord(a)
    BY <1>3, <2>3
  <2> QED
    BY <2>2, <2>4, AskedAt
<1>4. CASE Asked(Bounds) = {} /\ cond.backward
  <2>1. First = LastRecord(known) /\ known = Len(topic)
    BY <1>4 DEF First, LastOf, WalkSound, UpToDate
  <2>2. PICK n : n = LastRecord(Len(topic))
    OBVIOUS
  <2>3. /\ n \in 0 .. Len(topic)
        /\ n = 0 => \A r \in 1 .. Len(topic) : ~Live(r)
        /\ n # 0 => Live(n) /\ \A r \in 1 .. Len(topic) : Live(r) => r <= n
    BY <1>1, <2>2, LastIs
  <2> QED
    BY <1>1, <1>2, <1>4, <2>1, <2>2, <2>3 DEF StartsAt, Ahead
<1>5. CASE Asked(Bounds) = {} /\ ~cond.backward
  <2>1. First = NextLive(0)
    BY <1>5 DEF First, FirstOf
  <2>2. PICK n : n = NextLive(0)
    OBVIOUS
  <2>3. /\ n \in 0 .. Len(topic)
        /\ n = 0 => \A x \in DOMAIN topic : x > 0 => ~Live(x)
        /\ n # 0 => Live(n) /\ \A x \in DOMAIN topic : x > 0 /\ Live(x) => n <= x
    BY <1>1, <2>2, NextIs
  <2> QED
    BY <1>1, <1>2, <1>5, <2>1, <2>2, <2>3 DEF StartsAt, Ahead
<1> QED
  BY <1>1, <1>3, <1>4, <1>5

\* What a reader knows of the topic grows.
LEMMA Learns ==
    ASSUME WalkSound, NEW r \in 0 .. Len(topic)
    PROVE  /\ Learn(r) \in known .. Len(topic)
           /\ Max({known, r}) \in known .. Len(topic)
<1>1. known \in Nat /\ r \in Nat /\ Len(topic) \in Nat /\ known <= Len(topic) /\ r <= Len(topic)
  BY DEF WalkSound, IsTopic
<1>2. Max({known, r}) = IF known >= r THEN known ELSE r
  BY <1>1, MaxOfTwo
<1> QED
  BY <1>1, <1>2 DEF Learn

\* Where the walk goes from a record.
Following(r) == IF cond.backward THEN PrevLive(r) ELSE NextLive(r)

LEMMA FollowingIs ==
    ASSUME WalkSound, NEW r, Live(r)
    PROVE  /\ Following(r) \in 0 .. Len(topic)
           /\ Following(r) = 0 => \A x \in DOMAIN topic : Live(x) => x = r \/ Ahead(x, r)
           /\ Following(r) # 0 =>
                 /\ Live(Following(r)) /\ Ahead(r, Following(r))
                 /\ \A x \in DOMAIN topic : Live(x) /\ Ahead(x, Following(r)) => x = r \/ Ahead(x, r)
<1>1. topic \in Seq(Row) /\ r \in 1 .. Len(topic) /\ r \in 0 .. Len(topic) /\ DOMAIN topic = 1 .. Len(topic)
  BY DEF WalkSound, IsTopic, Live
<1>2. cond.backward \in BOOLEAN
  BY DEF WalkSound, IsCond
<1>3. CASE cond.backward
  <2>1. PICK n : n = PrevLive(r)
    OBVIOUS
  <2>2. /\ n \in 0 .. Len(topic)
        /\ n = 0 => \A x \in DOMAIN topic : x < r => ~Live(x)
        /\ n # 0 => Live(n) /\ n < r /\ \A x \in DOMAIN topic : x < r /\ Live(x) => n >= x
    BY <1>1, <2>1, PrevIs
  <2> QED
    BY <1>1, <1>3, <2>1, <2>2 DEF Following, Ahead
<1>4. CASE ~cond.backward
  <2>1. PICK n : n = NextLive(r)
    OBVIOUS
  <2>2. /\ n \in 0 .. Len(topic)
        /\ n = 0 => \A x \in DOMAIN topic : x > r => ~Live(x)
        /\ n # 0 => Live(n) /\ n > r /\ \A x \in DOMAIN topic : x > r /\ Live(x) => n <= x
    BY <1>1, <2>1, NextIs
  <2> QED
    BY <1>1, <1>4, <2>1, <2>2 DEF Following, Ahead
<1> QED
  BY <1>2, <1>3, <1>4

\* Records in the order of the walk.
LEMMA WalkOrder ==
    ASSUME WalkSound
    PROVE  \A x, y, z \in DOMAIN topic :
              /\ Ahead(x, y) /\ Ahead(y, z) => Ahead(x, z)
              /\ x = y \/ Ahead(x, y) \/ Ahead(y, x)
              /\ ~Ahead(x, x) /\ ~(Ahead(x, y) /\ Ahead(y, x))
<1>1. DOMAIN topic \in SUBSET Nat /\ cond.backward \in BOOLEAN
  BY DEF WalkSound, IsTopic, IsCond
<1> QED
  BY <1>1 DEF Ahead

\* The start of tranger_open_list and of tranger_find_record.
LEMMA StartKeepsWalk ==
    ASSUME MatchRecordAssumption, WalkInv, Start
    PROVE  WalkInv'
<1>1. WalkSound /\ Len(topic) \in Nat /\ DOMAIN topic = 1 .. Len(topic) /\ out = <<>>
  BY DEF WalkInv, WalkSound, IsTopic, Start
<1>2. Same /\ out' = out /\ topic' = topic
  BY DEF Start, Same
<1>3. cur' = First /\ phase' = IF First = 0 THEN "done" ELSE "walk"
  BY DEF Start, First, Bounds
<1>4. StartsAt(First)
  BY <1>1, FirstIs
<1>5. PICK first : first = First
  OBVIOUS
<1>6. /\ first \in 0 .. Len(topic)
      /\ first = 0 => \A r \in DOMAIN topic : ~Wanted(r)
      /\ first # 0 => Live(first) /\ \A r \in DOMAIN topic : Wanted(r) => ~Ahead(r, first)
  BY <1>4, <1>5 DEF StartsAt
<1>7. known' \in known .. Len(topic)
  <2>1. known' = Max({known, first}) \/ known' = Learn(first)
    BY <1>5 DEF Start, First, Bounds
  <2> QED
    BY <1>1, <1>6, <2>1, Learns
<1>8. /\ WalkSound'
      /\ \A r : Wanted(r)' <=> Wanted(r)
      /\ \A r : Live(r)' <=> Live(r)
      /\ \A x, y : Ahead(x, y)' <=> Ahead(x, y)
  BY <1>1, <1>2, <1>7, SameWalk
<1>9. out' = <<>> /\ DOMAIN out' = {} /\ Len(out') = 0 /\ out' \in Seq(DOMAIN topic)
  BY <1>1, <1>2
<1>10. cur' = first /\ phase' = IF first = 0 THEN "done" ELSE "walk"
  BY <1>3, <1>5
<1>11. phase' = "walk" => first # 0
  BY <1>10
<1>12. phase' = "done" => first = 0
  BY <1>10
<1>13. Live(cur)' <=> Live(first)
  BY <1>8, <1>10 DEF Live
<1>14. \A r : Ahead(r, cur)' <=> Ahead(r, first)
  BY <1>2, <1>10 DEF Same, Ahead
<1>15. phase' \in {"walk", "done"}
  BY <1>10
<1> QED
  BY <1>2, <1>6, <1>8, <1>9, <1>11, <1>12, <1>13, <1>14, <1>15 DEF WalkInv

\* Appending to a sequence.
LEMMA Appended ==
    ASSUME NEW S, NEW s \in Seq(S), NEW x \in S
    PROVE  /\ Append(s, x) \in Seq(S) /\ Len(Append(s, x)) = Len(s) + 1
           /\ DOMAIN Append(s, x) = DOMAIN s \cup {Len(s) + 1}
           /\ \A i \in DOMAIN s : Append(s, x)[i] = s[i] /\ i # Len(s) + 1 /\ i < Len(s) + 1
           /\ Append(s, x)[Len(s) + 1] = x
           /\ ToSet(Append(s, x)) = ToSet(s) \cup {x}
<1>1. /\ Append(s, x) \in Seq(S) /\ Len(Append(s, x)) = Len(s) + 1
      /\ DOMAIN Append(s, x) = DOMAIN s \cup {Len(s) + 1}
      /\ \A i \in DOMAIN s : Append(s, x)[i] = s[i] /\ i # Len(s) + 1 /\ i < Len(s) + 1
      /\ Append(s, x)[Len(s) + 1] = x
  OBVIOUS
<1>2. \A y : y \in ToSet(Append(s, x)) <=> y \in ToSet(s) \/ y = x
  BY <1>1 DEF ToSet
<1> QED
  BY <1>1, <1>2

\* One turn of the loop.
LEMMA StepKeepsWalk ==
    ASSUME MatchRecordAssumption, WalkInv, Step
    PROVE  WalkInv'
<1> DEFINE matches == Failing(cur, known) = 0
           over    == Ends(cur, known) \/ (find /\ matches)
           next    == IF over THEN 0 ELSE Following(cur)
<1>1. WalkSound /\ Len(topic) \in Nat /\ DOMAIN topic = 1 .. Len(topic)
  BY DEF WalkInv, WalkSound, IsTopic
<1>2. phase = "walk" /\ Live(cur) /\ cur \in DOMAIN topic
  BY DEF Step, WalkInv, Live
<1>3. Same /\ topic' = topic /\ find' = find
  BY DEF Step, Same
<1>4. /\ out' = IF matches THEN Append(out, cur) ELSE out
      /\ cur' = next
      /\ known' = IF over \/ cond.backward THEN known ELSE Learn(next)
      /\ phase' = IF next = 0 THEN "done" ELSE "walk"
  <2>1. next = IF over THEN 0 ELSE IF cond.backward THEN PrevLive(cur) ELSE NextLive(cur)
    BY DEF Following
  <2> QED
    BY <2>1 DEF Step
<1>5. PICK to : to = next
  OBVIOUS
<1>6. /\ Following(cur) \in 0 .. Len(topic)
      /\ Following(cur) = 0 => \A x \in DOMAIN topic : Live(x) => x = cur \/ Ahead(x, cur)
      /\ Following(cur) # 0 =>
            /\ Live(Following(cur)) /\ Ahead(cur, Following(cur))
            /\ \A x \in DOMAIN topic : Live(x) /\ Ahead(x, Following(cur)) => x = cur \/ Ahead(x, cur)
  BY <1>1, <1>2, FollowingIs
<1>7. /\ to \in 0 .. Len(topic)
      /\ to # 0 => ~over /\ Live(to) /\ Ahead(cur, to) /\ to \in DOMAIN topic
      /\ to # 0 => \A x \in DOMAIN topic : Live(x) /\ Ahead(x, to) => x = cur \/ Ahead(x, cur)
      /\ to = 0 => over \/ \A x \in DOMAIN topic : Live(x) => x = cur \/ Ahead(x, cur)
  <2> HIDE DEF over
  <2> QED
    BY <1>1, <1>5, <1>6 DEF Live
<1>8. matches <=> Wanted(cur)
  BY <1>1, <1>2, MatchIsWanted
<1>9. Ends(cur, known) => \A x \in DOMAIN topic : Wanted(x) => ~(x = cur) /\ ~Ahead(cur, x)
  <2> SUFFICES ASSUME Ends(cur, known), NEW x \in DOMAIN topic, Wanted(x), x = cur \/ Ahead(cur, x)
               PROVE  FALSE
    OBVIOUS
  <2>1. Live(x)
    BY DEF Wanted
  <2> QED
    BY <1>1, <1>2, <2>1, NoneBehind
<1>10. known' \in known .. Len(topic)
  <2>1. known' = known \/ known' = Learn(to)
    <3> HIDE DEF next, over
    <3> QED
      BY <1>4, <1>5
  <2>2. known \in known .. Len(topic)
    BY <1>1 DEF WalkSound
  <2> QED
    BY <1>1, <1>7, <2>1, <2>2, Learns
<1>11. /\ WalkSound'
       /\ \A r : Wanted(r)' <=> Wanted(r)
       /\ \A r : Live(r)' <=> Live(r)
       /\ \A x, y : Ahead(x, y)' <=> Ahead(x, y)
  BY <1>1, <1>3, <1>10, SameWalk
<1>12. cur' = to /\ phase' = IF to = 0 THEN "done" ELSE "walk"
  <2> HIDE DEF next
  <2> QED
    BY <1>4, <1>5
<1>13. out' = IF Wanted(cur) THEN Append(out, cur) ELSE out
  BY <1>4, <1>8
<1>14. /\ out \in Seq(DOMAIN topic)
       /\ \A i \in DOMAIN out : Wanted(out[i]) /\ Ahead(out[i], cur) /\ out[i] \in DOMAIN topic
       /\ \A i, j \in DOMAIN out : i < j => Ahead(out[i], out[j])
       /\ \A r \in DOMAIN topic : Wanted(r) /\ Ahead(r, cur) => r \in ToSet(out)
       /\ \A r \in DOMAIN topic, i \in DOMAIN out : Wanted(r) /\ Ahead(r, out[i]) => r \in ToSet(out)
       /\ find => out = <<>>
  BY <1>2 DEF WalkInv
<1>15. \A x, y, z \in DOMAIN topic :
          /\ Ahead(x, y) /\ Ahead(y, z) => Ahead(x, z)
          /\ x = y \/ Ahead(x, y) \/ Ahead(y, x)
          /\ ~Ahead(x, x) /\ ~(Ahead(x, y) /\ Ahead(y, x))
  BY <1>1, WalkOrder
\* What was given, with the record of this turn.
<1>16. /\ out' \in Seq(DOMAIN topic)
       /\ \A i \in DOMAIN out' : out'[i] \in DOMAIN topic /\ Wanted(out'[i]) /\ (Ahead(out'[i], cur) \/ out'[i] = cur)
       /\ \A i, j \in DOMAIN out' : i < j => Ahead(out'[i], out'[j])
       /\ \A r \in DOMAIN topic : Wanted(r) /\ (Ahead(r, cur) \/ r = cur) => r \in ToSet(out')
       /\ \A r \in DOMAIN topic, i \in DOMAIN out' : Wanted(r) /\ Ahead(r, out'[i]) => r \in ToSet(out')
       /\ find => Len(out') <= 1
       /\ find /\ Wanted(cur) => Len(out') = 1
       /\ find /\ ~Wanted(cur) => out' = <<>>
  <2>1. CASE ~Wanted(cur)
    BY <1>13, <1>14, <2>1
  <2>2. CASE Wanted(cur)
    <3>1. /\ out' \in Seq(DOMAIN topic) /\ Len(out') = Len(out) + 1
          /\ DOMAIN out' = DOMAIN out \cup {Len(out) + 1}
          /\ \A i \in DOMAIN out : out'[i] = out[i] /\ i # Len(out) + 1 /\ i < Len(out) + 1
          /\ out'[Len(out) + 1] = cur
          /\ ToSet(out') = ToSet(out) \cup {cur}
      BY <1>2, <1>13, <1>14, <2>2, Appended
    <3>2. \A i \in DOMAIN out' : out'[i] \in DOMAIN topic /\ Wanted(out'[i]) /\ (Ahead(out'[i], cur) \/ out'[i] = cur)
      BY <1>2, <1>14, <2>2, <3>1
    <3>3. \A i, j \in DOMAIN out' : i < j => Ahead(out'[i], out'[j])
      <4> SUFFICES ASSUME NEW i \in DOMAIN out', NEW j \in DOMAIN out', i < j
                   PROVE  Ahead(out'[i], out'[j])
        OBVIOUS
      <4>1. i \in Nat /\ j \in Nat /\ Len(out) \in Nat
        BY <1>14, <3>1
      <4>2. i \in DOMAIN out
        BY <3>1, <4>1
      <4> QED
        BY <1>14, <3>1, <4>2
    <3>4. \A r \in DOMAIN topic : Wanted(r) /\ (Ahead(r, cur) \/ r = cur) => r \in ToSet(out')
      BY <1>14, <3>1
    <3>5. \A r \in DOMAIN topic, i \in DOMAIN out' : Wanted(r) /\ Ahead(r, out'[i]) => r \in ToSet(out')
      BY <1>14, <3>1
    <3>6. find => Len(out') = 1
      BY <1>14, <3>1
    <3> QED
      BY <2>2, <3>1, <3>2, <3>3, <3>4, <3>5, <3>6
  <2> QED
    BY <2>1, <2>2
\* Where the walk is now.
<1>17. ASSUME to # 0
       PROVE  /\ \A i \in DOMAIN out' : Ahead(out'[i], to)
              /\ \A r \in DOMAIN topic : Wanted(r) /\ Ahead(r, to) => r \in ToSet(out')
              /\ find => out' = <<>>
  <2>1. ~over /\ Live(to) /\ Ahead(cur, to) /\ to \in DOMAIN topic
    BY <1>7, <1>17
  <2>2. find => ~Wanted(cur)
    BY <1>8, <2>1
  <2>3. \A i \in DOMAIN out' : Ahead(out'[i], to)
    BY <1>2, <1>15, <1>16, <2>1
  <2>4. \A r \in DOMAIN topic : Wanted(r) => Live(r)
    BY DEF Wanted
  <2>5. \A r \in DOMAIN topic : Wanted(r) /\ Ahead(r, to) => r \in ToSet(out')
    BY <1>7, <1>16, <1>17, <2>4
  <2> QED
    BY <1>16, <2>2, <2>3, <2>5
<1>18. ASSUME to = 0
       PROVE  (\A r \in DOMAIN topic : Wanted(r) => r \in ToSet(out')) \/ (find /\ Len(out') = 1)
  <2>1. \A r \in DOMAIN topic : Wanted(r) => Live(r)
    BY DEF Wanted
  <2>2. CASE find /\ matches
    BY <1>8, <1>16, <2>2
  <2>3. CASE Ends(cur, known)
    BY <1>2, <1>9, <1>15, <1>16, <2>3
  <2>4. CASE ~over
    <3> HIDE DEF over
    <3> QED
      BY <1>7, <1>16, <1>18, <2>1, <2>4
  <2> QED
    BY <2>2, <2>3, <2>4
<1>19. /\ phase' = "walk" => to # 0
       /\ phase' = "done" => to = 0
       /\ phase' \in {"walk", "done"}
  BY <1>12
<1>20. (Live(cur)' <=> Live(to)) /\ \A r : Ahead(r, cur)' <=> Ahead(r, to)
  BY <1>3, <1>12 DEF Same, Ahead, Live
<1> HIDE DEF matches, over, next
<1> QED
  BY <1>3, <1>7, <1>11, <1>16, <1>17, <1>18, <1>19, <1>20 DEF WalkInv

LEMMA WalkInitially ==
    ASSUME MatchRecordAssumption, Quirks = {}, WalkInit
    PROVE  WalkInv
<1>1. WalkSound
  BY DEF MatchRecordAssumption, WalkInit, WalksAreTyped, WalkSound, Sane
<1>2. out = <<>> /\ DOMAIN out = {} /\ Len(out) = 0 /\ out \in Seq(DOMAIN topic) /\ phase = "start"
  BY DEF WalkInit
<1> QED
  BY <1>1, <1>2 DEF WalkInv

LEMMA WalkFinds ==
    ASSUME WalkInv
    PROVE  FoundIsExpected
<1> DEFINE wanted == {r \in DOMAIN topic : Wanted(r)}
           found  == ToSet(out)
<1>1. \A x : x \in found <=> \E i \in DOMAIN out : x = out[i]
  BY DEF ToSet
<1>2. found \subseteq wanted
  BY <1>1 DEF WalkInv, Wanted, Live
<1>3. \A r \in wanted, x \in found : Ahead(r, x) => r \in found
  BY <1>1 DEF WalkInv
<1>4. phase = "done" => found = wanted \/ (find /\ found # {})
  <2>1. Len(out) = 1 => 1 \in DOMAIN out
    BY DEF WalkInv
  <2>2. Len(out) = 1 => found # {}
    BY <1>1, <2>1
  <2> QED
    BY <1>2, <2>2 DEF WalkInv
<1> QED
  BY <1>2, <1>3, <1>4 DEF FoundIsExpected, WalkInv

\* A walk under Sane is at every moment as WalkInv says.
THEOREM WalkInvariance ==
    ASSUME Quirks = {}
    PROVE  WalkSpec => []WalkInv
<1>1. WalkInit => WalkInv
  BY MatchRecordAssumption, WalkInitially
<1>2. WalkInv /\ [WalkNext]_wvars => WalkInv'
  <2> SUFFICES ASSUME WalkInv, [WalkNext]_wvars
               PROVE  WalkInv'
    OBVIOUS
  <2>1. CASE Start
    BY <2>1, MatchRecordAssumption, StartKeepsWalk
  <2>2. CASE Step
    BY <2>2, MatchRecordAssumption, StepKeepsWalk
  <2>3. CASE UNCHANGED wvars
    <3>1. known' \in known .. Len(topic) /\ Same
      BY <2>3 DEF WalkInv, WalkSound, IsTopic, wvars, Same
    <3>2. /\ WalkSound'
          /\ \A r : Wanted(r)' <=> Wanted(r)
          /\ \A r : Live(r)' <=> Live(r)
          /\ \A x, y : Ahead(x, y)' <=> Ahead(x, y)
      BY <3>1, SameWalk DEF WalkInv
    <3>3. (Live(cur)' <=> Live(cur)) /\ \A r : Ahead(r, cur)' <=> Ahead(r, cur)
      BY <2>3 DEF wvars, Live, Ahead
    <3> QED
      BY <2>3, <3>2, <3>3 DEF WalkInv, wvars
  <2> QED
    BY <2>1, <2>2, <2>3 DEF WalkNext
<1> QED
  BY <1>1, <1>2, PTL DEF WalkSpec

\* "Walk in topic through records, and callback with the matched record found":
\* tranger_open_list delivers the records that meet its conditions, all of them and
\* in the order of the walk, and tranger_find_record the first of them, for every
\* topic whose times grow and every condition whose bounds are in the topic.
THEOREM WalksFindAll ==
    ASSUME Quirks = {}
    PROVE  WalkSpec => []FoundIsExpected
<1>1. WalkInv => FoundIsExpected
  BY WalkFinds
<1>2. WalkSpec => []WalkInv
  BY WalkInvariance
<1> QED
  BY <1>1, <1>2, PTL

=============================================================================
