-------------------------- MODULE TrQueue_proofs --------------------------
(***************************************************************************)
(* Proofs about TrQueue, for every set of messages, every backup size and  *)
(* any mix of masters and readers, under the discipline: callers take none *)
(* of the liberties and every message carries the key of the topic.  The   *)
(* last of them is that the queue implements PersistentQueue.              *)
(***************************************************************************)
EXTENDS TrQueue, TLAPS

Discipline == Liberties = {} /\ Keyless = {}

-----------------------------------------------------------------------------
(* Sequences *)

\* What RemoveAt of SequencesExt leaves.
LEMMA RemoveAtProps ==
    ASSUME NEW S, NEW s \in Seq(S), NEW i \in DOMAIN s
    PROVE  /\ RemoveAt(s, i) \in Seq(S)
           /\ Len(RemoveAt(s, i)) = Len(s) - 1
           /\ \A j \in 1 .. Len(s) - 1 :
                RemoveAt(s, i)[j] = IF j < i THEN s[j] ELSE s[j + 1]
<1> DEFINE a == SubSeq(s, 1, i - 1)
           b == SubSeq(s, i + 1, Len(s))
<1>1. i \in 1 .. Len(s) /\ Len(s) \in Nat
  OBVIOUS
<1>2. a \in Seq(S) /\ Len(a) = i - 1 /\ \A j \in 1 .. i - 1 : a[j] = s[j]
  BY <1>1
<1>3. b \in Seq(S) /\ Len(b) = Len(s) - i /\ \A j \in 1 .. Len(s) - i : b[j] = s[j + i]
  BY <1>1
<1>4. RemoveAt(s, i) = a \o b
  BY DEF RemoveAt
<1> HIDE DEF a, b
<1> QED
  BY <1>1, <1>2, <1>3, <1>4

\* What a change of the pending flag of one row leaves.
LEMMA FlaggedProps ==
    ASSUME idx \in Seq(Row), NEW rowid \in Nat, NEW set \in BOOLEAN
    PROVE  /\ Flagged(rowid, set) \in Seq(Row)
           /\ Len(Flagged(rowid, set)) = Len(idx)
           /\ DOMAIN Flagged(rowid, set) = DOMAIN idx
           /\ \A r \in DOMAIN idx :
                /\ Flagged(rowid, set)[r].msg = idx[r].msg
                /\ Flagged(rowid, set)[r].pend = IF r = rowid THEN set ELSE idx[r].pend
<1>1. CASE rowid \notin DOMAIN idx
  BY <1>1 DEF Flagged
<1>2. CASE rowid \in DOMAIN idx
  <2> DEFINE row == [idx[rowid] EXCEPT !.pend = set]
  <2>1. idx[rowid] \in Row
    BY <1>2
  <2>2. row \in Row /\ row.msg = idx[rowid].msg /\ row.pend = set
    BY <2>1 DEF Row
  <2>3. Flagged(rowid, set) = [idx EXCEPT ![rowid] = row]
    BY <1>2 DEF Flagged
  <2> HIDE DEF row
  <2> QED
    BY <1>2, <2>2, <2>3
<1> QED
  BY <1>1, <1>2

-----------------------------------------------------------------------------
(* Type correctness *)

LEMMA InitTyping == Init => TypeOK
<1> SUFFICES ASSUME Init PROVE TypeOK
  OBVIOUS
<1>1. <<>> \in Seq(Row) /\ <<>> \in Seq(Item)
  OBVIOUS
<1>2. NoVar \in Var /\ "closed" \in Steps
  BY DEF NoVar, Var, Steps
<1>3. NoCond \in [pending : BOOLEAN, to : Nat, keys : SUBSET Msgs]
  BY DEF NoCond
<1>4. 1 \in Nat \ {0} /\ 0 \in Nat
  OBVIOUS
<1> QED
  BY <1>1, <1>2, <1>3, <1>4 DEF Init, TypeOK

\* Members of the two sequences, without looking into the sequences.
LEMMA Members ==
    ASSUME TypeOK
    PROVE  /\ \A r \in DOMAIN idx : idx[r].msg \in Msgs /\ idx[r].pend \in BOOLEAN
           /\ \A i \in DOMAIN q : q[i].rowid \in Nat /\ q[i].msg \in Msgs
           /\ NoVar \in Var
<1>1. ASSUME NEW r \in DOMAIN idx PROVE idx[r] \in Row
  BY DEF TypeOK
<1>2. ASSUME NEW i \in DOMAIN q PROVE q[i] \in Item
  BY DEF TypeOK
<1>3. NoVar \in Var
  BY DEF NoVar, Var
<1> QED
  BY <1>1, <1>2, <1>3 DEF Row, Item

\* The two helpers that begin a write of topic_var.json, typed.
LEMMA StartWriteTyping ==
    ASSUME TypeOK, NEW v \in Var, NEW next \in Steps, StartWriteVar(v, next)
    PROVE  topic' \in Var /\ var' \in Var /\ pc' \in Steps /\ after' \in Steps
BY Members DEF StartWriteVar, Steps

LEMMA SetFirstTyping ==
    ASSUME TypeOK, NEW n \in Nat, NEW next \in Steps, SetFirstRowid(n, next)
    PROVE  topic' \in Var /\ var' \in Var /\ pc' \in Steps /\ after' \in Steps
<1>1. [topic EXCEPT !.first = n] \in Var
  BY DEF TypeOK, Var
<1> QED
  BY <1>1, StartWriteTyping DEF TypeOK, SetFirstRowid

LEMMA StepTyping == TypeOK /\ [Next]_vars => TypeOK'
<1> SUFFICES ASSUME TypeOK, [Next]_vars PROVE TypeOK'
  OBVIOUS
<1> USE TrQueueAssumption
<1>1. ASSUME NEW r \in Roles, Open(r) PROVE TypeOK'
  <2>1. [var EXCEPT !.bsize = BackupSize] \in Var /\ "open" \in Steps
    BY DEF TypeOK, Var, Steps
  <2>2. topic' \in Var /\ var' \in Var /\ pc' \in Steps /\ after' \in Steps
    BY <1>1, <2>1, StartWriteTyping DEF Open, TypeOK
  <2> QED
    BY <1>1, <2>2 DEF Open, TypeOK, load
<1>2. CASE Load
  <2>1. cursor' \in Nat \ {0}
    BY <1>2 DEF Load, TypeOK
  <2> QED
    BY <1>2, <2>1 DEF Load, TypeOK, disk, memory, Steps
<1>3. ASSUME NEW from \in 0 .. Len(idx) + 1, NEW to \in 0 .. Len(idx) + 1,
             NEW keys \in SUBSET RowMsgs(idx), LoadAll(from, to, keys)
      PROVE  TypeOK'
  <2>1. RowMsgs(idx) \subseteq Msgs
    BY Members DEF RowMsgs
  <2> QED
    BY <1>3, <2>1 DEF LoadAll, TypeOK, disk, memory, Steps
<1>4. ASSUME NEW m \in Msgs, NEW rowid \in 0 .. Len(idx) + 1, AppendMsg(m, rowid)
      PROVE  TypeOK'
  <2>1. [msg |-> m, pend |-> TRUE] \in Row /\ [rowid |-> rowid, msg |-> m] \in Item
    BY DEF Row, Item
  <2>2. idx' \in Seq(Row) /\ q' \in Seq(Item)
    <3> DEFINE row == [msg |-> m, pend |-> TRUE]
               item == [rowid |-> rowid, msg |-> m]
    <3>1. /\ idx' = idx \/ idx' = Append(idx, row)
          /\ q' = Append(q, item)
      BY <1>4 DEF AppendMsg, Enqueue
    <3>2. row \in Row /\ item \in Item
      BY <2>1
    <3>3. idx \in Seq(Row) /\ q \in Seq(Item)
      BY DEF TypeOK
    <3> HIDE DEF row, item
    <3> QED
      BY <3>1, <3>2, <3>3
  <2> QED
    BY <1>4, <2>2 DEF AppendMsg, TypeOK, load
<1>5. ASSUME NEW i \in DOMAIN q, Unload(i) PROVE TypeOK'
  <2>1. q[i].rowid \in Nat
    BY Members
  <2>2. idx' \in Seq(Row) /\ q' \in Seq(Item)
    BY <1>5, <2>1, FlaggedProps, RemoveAtProps DEF Unload, TypeOK
  <2> QED
    BY <1>5, <2>2 DEF Unload, TypeOK, load
<1>6. ASSUME NEW i \in DOMAIN q, NEW set \in BOOLEAN, SetHardFlag(i, set) PROVE TypeOK'
  <2>1. q[i].rowid \in Nat
    BY Members
  <2>2. idx' \in Seq(Row)
    BY <1>6, <2>1, FlaggedProps DEF SetHardFlag, TypeOK
  <2> QED
    BY <1>6, <2>2 DEF SetHardFlag, TypeOK, memory, load
<1>7. CASE CheckBackup
  <2>1. topic' \in Var /\ var' \in Var /\ pc' \in Steps /\ after' \in Steps
    BY <1>7, SetFirstTyping DEF CheckBackup, TypeOK, Steps
  <2> QED
    BY <1>7, <2>1 DEF CheckBackup, TypeOK, load
<1>8. CASE Stop
  BY <1>8 DEF Stop, TypeOK, disk, NoVar, NoCond, Var, Steps
<1>9. CASE EndWriteVar
  BY <1>9 DEF EndWriteVar, TypeOK, memory, load
<1>10. CASE LoadRecord
  <2>1. cursor \in DOMAIN idx => [rowid |-> cursor, msg |-> idx[cursor].msg] \in Item
    BY Members DEF Item, TypeOK
  <2>2. cursor' \in Nat \ {0}
    BY <1>10 DEF LoadRecord, TypeOK
  <2>3. q' \in Seq(Item) /\ found' \in Nat
    <3> DEFINE item == [rowid |-> cursor, msg |-> idx[cursor].msg]
    <3>1. /\ q' = q \/ (cursor \in DOMAIN idx /\ q' = Append(q, item))
          /\ found' = found \/ found' = cursor
      <4>1. cursor \in DOMAIN idx
        BY <1>10 DEF LoadRecord, TypeOK, AtEnd
      <4> QED
        BY <1>10, <4>1 DEF LoadRecord, Enqueue, FirstFound
    <3>2. cursor \in DOMAIN idx => item \in Item
      BY <2>1
    <3>3. q \in Seq(Item) /\ cursor \in Nat /\ found \in Nat
      BY DEF TypeOK
    <3> HIDE DEF item
    <3> QED
      BY <3>1, <3>2, <3>3
  <2> QED
    BY <1>10, <2>2, <2>3 DEF LoadRecord, TypeOK, disk
<1>11. CASE LoadEnd
  <2> DEFINE first == IF found = 0 THEN Len(idx) ELSE found
  <2>1. first \in Nat /\ "ready" \in Steps
    BY DEF TypeOK, Steps
  <2>2. topic' \in Var /\ var' \in Var /\ pc' \in Steps /\ after' \in Steps
    <3>1. CASE cond.pending /\ first > 0
      <4>1. SetFirstRowid(first, "ready")
        BY <1>11, <3>1 DEF LoadEnd
      <4> HIDE DEF first
      <4> QED
        BY <2>1, <4>1, SetFirstTyping
    <3>2. CASE ~(cond.pending /\ first > 0)
      BY <1>11, <2>1, <3>2 DEF LoadEnd, TypeOK
    <3> QED
      BY <3>1, <3>2
  <2> QED
    BY <1>11, <2>2 DEF LoadEnd, TypeOK, NoCond
<1>12. CASE BackupRemove
  BY <1>12 DEF BackupRemove, TypeOK, memory, load, Steps
<1>13. CASE BackupRename
  <2>1. <<>> \in Seq(Row) /\ "bk_create" \in Steps /\ "notopic" \in Steps
    BY DEF Steps
  <2> QED
    BY <1>13, <2>1, Members DEF BackupRename, TypeOK, memory, load
<1>14. CASE BackupCreate
  BY <1>14, StartWriteTyping DEF BackupCreate, TypeOK, load, Steps
<1>15. CASE BackupZero
  <2>1. topic' \in Var /\ var' \in Var /\ pc' \in Steps /\ after' \in Steps
    BY <1>15, SetFirstTyping DEF BackupZero, TypeOK, Steps
  <2> QED
    BY <1>15, <2>1 DEF BackupZero, TypeOK, load
<1>16. CASE UNCHANGED vars
  BY <1>16 DEF vars, TypeOK
<1> QED
  BY <1>1, <1>2, <1>3, <1>4, <1>5, <1>6, <1>7, <1>8, <1>9, <1>10, <1>11, <1>12,
     <1>13, <1>14, <1>15, <1>16 DEF Next, Internal

\* Every variable keeps its type, whatever liberties are taken.
THEOREM TypeCorrect == Spec => []TypeOK
<1> QED
  BY InitTyping, StepTyping, PTL DEF Spec

-----------------------------------------------------------------------------
(* The inductive invariant *)

LEMMA InitIInv == Init => VarInv /\ BackupInv /\ QInv /\ LoadInv
BY DEF Init, VarInv, BackupInv, QInv, LoadInv, BoundOK, At, InBackup, Pending,
       BackupKeepsPending, InOrder, NoVar

LEMMA OpenKeeps ==
    ASSUME Discipline, IInv, TypeOK', NEW r \in Roles, Open(r)
    PROVE  VarInv' /\ BackupInv' /\ QInv' /\ LoadInv'
<1> USE DEF IInv, At, InBackup, Pending, Discipline
<1>1. VarInv'
  BY DEF TypeOK, Var, VarInv, BackupInv, QInv, LoadInv, BoundOK, Open, StartWriteVar, load, NoVar
<1>2. BackupInv'
  BY DEF TypeOK, VarInv, BackupInv, QInv, LoadInv, BackupKeepsPending, Open, StartWriteVar, load, NoVar
<1>3. QInv'
  BY DEF TypeOK, BackupInv, QInv, LoadInv, InOrder, Open, StartWriteVar, load, NoVar
<1>4. LoadInv'
  BY DEF TypeOK, VarInv, BoundOK, BackupInv, QInv, LoadInv, Open, StartWriteVar, load, NoVar
<1> QED
  BY <1>1, <1>2, <1>3, <1>4

LEMMA LoadKeeps ==
    ASSUME Discipline, IInv, TypeOK', Load
    PROVE  VarInv' /\ BackupInv' /\ QInv' /\ LoadInv'
<1> USE DEF IInv, At, InBackup, Pending, Discipline
<1>1. VarInv'
  BY DEF TypeOK, Var, VarInv, BackupInv, QInv, LoadInv, BoundOK, Load, disk, memory
<1>2. BackupInv'
  BY DEF TypeOK, VarInv, BackupInv, QInv, LoadInv, BackupKeepsPending, Load, disk, memory
<1>3. QInv'
  BY DEF TypeOK, BackupInv, QInv, LoadInv, InOrder, Load, disk, memory
<1>4. LoadInv'
  BY DEF TypeOK, VarInv, BoundOK, BackupInv, QInv, LoadInv, Load, disk, memory
<1> QED
  BY <1>1, <1>2, <1>3, <1>4

LEMMA LoadAllKeeps ==
    ASSUME Discipline, IInv, TypeOK', NEW from \in Nat, NEW to \in Nat, NEW keys, LoadAll(from, to, keys)
    PROVE  VarInv' /\ BackupInv' /\ QInv' /\ LoadInv'
<1> USE DEF IInv, At, InBackup, Pending, Discipline
<1>1. VarInv'
  BY DEF TypeOK, Var, VarInv, BackupInv, QInv, LoadInv, BoundOK, LoadAll, disk, memory
<1>2. BackupInv'
  BY DEF TypeOK, VarInv, BackupInv, QInv, LoadInv, BackupKeepsPending, LoadAll, disk, memory
<1>3. QInv'
  BY DEF TypeOK, BackupInv, QInv, LoadInv, InOrder, LoadAll, disk, memory
<1>4. LoadInv'
  BY DEF TypeOK, VarInv, BoundOK, BackupInv, QInv, LoadInv, LoadAll, disk, memory
<1> QED
  BY <1>1, <1>2, <1>3, <1>4

LEMMA CheckBackupKeeps ==
    ASSUME Discipline, IInv, TypeOK', CheckBackup
    PROVE  VarInv' /\ BackupInv' /\ QInv' /\ LoadInv'
<1> USE DEF IInv, At, InBackup, Pending, Discipline
<1>1. VarInv'
  BY DEF TypeOK, Var, VarInv, BackupInv, QInv, LoadInv, BoundOK, CheckBackup, SetFirstRowid, StartWriteVar, load, NoVar
<1>2. BackupInv'
  BY DEF TypeOK, VarInv, BackupInv, QInv, LoadInv, BackupKeepsPending, CheckBackup, SetFirstRowid, StartWriteVar, load, NoVar
<1>3. QInv'
  BY DEF TypeOK, BackupInv, QInv, LoadInv, InOrder, CheckBackup, SetFirstRowid, StartWriteVar, load, NoVar
<1>4. LoadInv'
  BY DEF TypeOK, VarInv, BoundOK, BackupInv, QInv, LoadInv, CheckBackup, SetFirstRowid, StartWriteVar, load, NoVar
<1> QED
  BY <1>1, <1>2, <1>3, <1>4

LEMMA StopKeeps ==
    ASSUME Discipline, IInv, TypeOK', Stop
    PROVE  VarInv' /\ BackupInv' /\ QInv' /\ LoadInv'
<1> USE DEF IInv, At, InBackup, Pending, Discipline
<1>1. VarInv'
  BY DEF TypeOK, Var, VarInv, BackupInv, QInv, LoadInv, BoundOK, Stop, disk, NoVar
<1>2. BackupInv'
  BY DEF TypeOK, VarInv, BackupInv, QInv, LoadInv, BackupKeepsPending, Stop, disk, NoVar
<1>3. QInv'
  BY DEF TypeOK, BackupInv, QInv, LoadInv, InOrder, Stop, disk, NoVar
<1>4. LoadInv'
  BY DEF TypeOK, VarInv, BoundOK, BackupInv, QInv, LoadInv, Stop, disk, NoVar
<1> QED
  BY <1>1, <1>2, <1>3, <1>4

LEMMA EndWriteVarKeeps ==
    ASSUME Discipline, IInv, TypeOK', EndWriteVar
    PROVE  VarInv' /\ BackupInv' /\ QInv' /\ LoadInv'
<1> USE DEF IInv, At, InBackup, Pending, Discipline
<1>1. VarInv'
  BY DEF TypeOK, Var, VarInv, BackupInv, QInv, LoadInv, BoundOK, EndWriteVar, memory, load
<1>2. BackupInv'
  BY DEF TypeOK, VarInv, BackupInv, QInv, LoadInv, BackupKeepsPending, EndWriteVar, memory, load
<1>3. QInv'
  BY DEF TypeOK, BackupInv, QInv, LoadInv, InOrder, EndWriteVar, memory, load
<1>4. LoadInv'
  BY DEF TypeOK, VarInv, BoundOK, BackupInv, QInv, LoadInv, EndWriteVar, memory, load
<1> QED
  BY <1>1, <1>2, <1>3, <1>4

LEMMA LoadEndKeeps ==
    ASSUME Discipline, IInv, TypeOK', LoadEnd
    PROVE  VarInv' /\ BackupInv' /\ QInv' /\ LoadInv'
<1> USE DEF IInv, At, InBackup, Pending, Discipline
<1>1. VarInv'
  BY DEF TypeOK, Var, VarInv, BackupInv, QInv, LoadInv, BoundOK, LoadEnd, SetFirstRowid, StartWriteVar, NoVar, AtEnd
<1>2. BackupInv'
  BY DEF TypeOK, VarInv, BackupInv, QInv, LoadInv, BackupKeepsPending, LoadEnd, SetFirstRowid, StartWriteVar, NoVar, AtEnd
<1>3. QInv'
  <2>1. /\ pc' \in {"ready", "saving"}
        /\ pc' = "saving" => after' = "ready"
        /\ mode' = IF cond.pending THEN "pending" ELSE "all"
        /\ UNCHANGED <<idx, q>>
    BY DEF LoadEnd, SetFirstRowid, StartWriteVar
  <2>2. cond.pending => \A r \in DOMAIN idx : r < cursor
    BY DEF LoadEnd, AtEnd, LoadInv, TypeOK
  <2>3. mode' = "pending" => \A r \in Pending : \E i \in DOMAIN q : q[i].rowid = r
    BY <2>1, <2>2 DEF LoadEnd, LoadInv
  <2> QED
    BY <2>1, <2>3 DEF QInv, InOrder
<1>4. LoadInv'
  BY DEF TypeOK, VarInv, BoundOK, BackupInv, QInv, LoadInv, LoadEnd, SetFirstRowid, StartWriteVar, NoVar, AtEnd
<1> QED
  BY <1>1, <1>2, <1>3, <1>4

LEMMA BackupRemoveKeeps ==
    ASSUME Discipline, IInv, TypeOK', BackupRemove
    PROVE  VarInv' /\ BackupInv' /\ QInv' /\ LoadInv'
<1> USE DEF IInv, At, InBackup, Pending, Discipline
<1>1. VarInv'
  BY DEF TypeOK, Var, VarInv, BackupInv, QInv, LoadInv, BoundOK, BackupRemove, memory, load
<1>2. BackupInv'
  BY DEF TypeOK, VarInv, BackupInv, QInv, LoadInv, BackupKeepsPending, BackupRemove, memory, load
<1>3. QInv'
  BY DEF TypeOK, BackupInv, QInv, LoadInv, InOrder, BackupRemove, memory, load
<1>4. LoadInv'
  BY DEF TypeOK, VarInv, BoundOK, BackupInv, QInv, LoadInv, BackupRemove, memory, load
<1> QED
  BY <1>1, <1>2, <1>3, <1>4

LEMMA BackupRenameKeeps ==
    ASSUME Discipline, IInv, TypeOK', BackupRename
    PROVE  VarInv' /\ BackupInv' /\ QInv' /\ LoadInv'
<1> USE DEF IInv, At, InBackup, Pending, Discipline
<1>1. VarInv'
  BY DEF TypeOK, Var, VarInv, BackupInv, QInv, LoadInv, BoundOK, BackupRename, memory, load, NoVar
<1>2. BackupInv'
  BY DEF TypeOK, VarInv, BackupInv, QInv, LoadInv, BackupKeepsPending, BackupRename, memory, load, NoVar
<1>3. QInv'
  BY DEF TypeOK, BackupInv, QInv, LoadInv, InOrder, BackupRename, memory, load, NoVar
<1>4. LoadInv'
  BY DEF TypeOK, VarInv, BoundOK, BackupInv, QInv, LoadInv, BackupRename, memory, load, NoVar
<1> QED
  BY <1>1, <1>2, <1>3, <1>4

LEMMA BackupCreateKeeps ==
    ASSUME Discipline, IInv, TypeOK', BackupCreate
    PROVE  VarInv' /\ BackupInv' /\ QInv' /\ LoadInv'
<1> USE DEF IInv, At, InBackup, Pending, Discipline
<1>1. VarInv'
  BY DEF TypeOK, Var, VarInv, BackupInv, QInv, LoadInv, BoundOK, BackupCreate, StartWriteVar, load, NoVar
<1>2. BackupInv'
  BY DEF TypeOK, VarInv, BackupInv, QInv, LoadInv, BackupKeepsPending, BackupCreate, StartWriteVar, load, NoVar
<1>3. QInv'
  BY DEF TypeOK, BackupInv, QInv, LoadInv, InOrder, BackupCreate, StartWriteVar, load, NoVar
<1>4. LoadInv'
  BY DEF TypeOK, VarInv, BoundOK, BackupInv, QInv, LoadInv, BackupCreate, StartWriteVar, load, NoVar
<1> QED
  BY <1>1, <1>2, <1>3, <1>4

LEMMA BackupZeroKeeps ==
    ASSUME Discipline, IInv, TypeOK', BackupZero
    PROVE  VarInv' /\ BackupInv' /\ QInv' /\ LoadInv'
<1> USE DEF IInv, At, InBackup, Pending, Discipline
<1>1. VarInv'
  BY DEF TypeOK, Var, VarInv, BackupInv, QInv, LoadInv, BoundOK, BackupZero, SetFirstRowid, StartWriteVar, load, NoVar
<1>2. BackupInv'
  BY DEF TypeOK, VarInv, BackupInv, QInv, LoadInv, BackupKeepsPending, BackupZero, SetFirstRowid, StartWriteVar, load, NoVar
<1>3. QInv'
  BY DEF TypeOK, BackupInv, QInv, LoadInv, InOrder, BackupZero, SetFirstRowid, StartWriteVar, load, NoVar
<1>4. LoadInv'
  BY DEF TypeOK, VarInv, BoundOK, BackupInv, QInv, LoadInv, BackupZero, SetFirstRowid, StartWriteVar, load, NoVar
<1> QED
  BY <1>1, <1>2, <1>3, <1>4

LEMMA LoadRecordKeeps ==
    ASSUME Discipline, IInv, TypeOK', LoadRecord
    PROVE  VarInv' /\ BackupInv' /\ QInv' /\ LoadInv'
<1> USE DEF IInv, At, InBackup, Pending, Discipline
<1> DEFINE item == [rowid |-> cursor, msg |-> idx[cursor].msg]
<1>1. cursor \in DOMAIN idx /\ cursor \in Nat /\ cursor' = cursor + 1
  BY DEF LoadRecord, AtEnd, TypeOK
<1>2. /\ UNCHANGED <<idx, bak, var, topic, role, mode, pc, after, cond>>
      /\ pc = "loading"
  BY DEF LoadRecord, disk
<1>3. VarInv' /\ BackupInv'
  BY <1>2 DEF VarInv, BoundOK, BackupInv, BackupKeepsPending
<1>4. CASE Matches(idx[cursor])
  <2>1. q' = Append(q, item) /\ found' = IF found = 0 THEN cursor ELSE found
    BY <1>4 DEF LoadRecord, Enqueue, FirstFound
  <2>2. item.rowid = cursor /\ item.msg = idx[cursor].msg
    OBVIOUS
  <2>3. /\ Len(q') = Len(q) + 1 /\ q'[Len(q) + 1] = item
        /\ \A i \in 1 .. Len(q) : q'[i] = q[i]
        /\ q \in Seq(Item) /\ q' \in Seq(Item)
    BY <2>1 DEF TypeOK
  <2> HIDE DEF item
  <2> /\ Len(q) \in Nat /\ DOMAIN q = 1 .. Len(q) /\ DOMAIN q' = 1 .. Len(q) + 1
    BY <2>3
  <2>4. \A i \in DOMAIN q : /\ q[i].rowid \in DOMAIN idx
                            /\ idx[q[i].rowid].msg = q[i].msg
                            /\ q[i].rowid < cursor
    BY <1>2 DEF QInv, LoadInv
  <2>5. \A i \in DOMAIN q' : /\ q'[i].rowid \in DOMAIN idx
                             /\ idx[q'[i].rowid].msg = q'[i].msg
    BY <1>1, <2>2, <2>3, <2>4
  <2>6. InOrder'
    BY <1>1, <2>2, <2>3, <2>4 DEF QInv, InOrder
  <2>7. QInv'
    BY <1>2, <2>5, <2>6 DEF QInv, BackupInv
  <2>8. \A i \in DOMAIN q' : q'[i].rowid < cursor'
    <3>1. \A i \in DOMAIN q : q[i].rowid \in Nat
      BY Members
    <3> QED
      BY <1>1, <2>2, <2>3, <2>4, <3>1
  <2>9. ASSUME cond.pending, NEW r \in Pending, r < cursor'
        PROVE  \E i \in DOMAIN q' : q'[i].rowid = r
    <3>1. r < cursor \/ r = cursor
      BY <1>1, <2>9 DEF TypeOK
    <3>2. CASE r < cursor
      <4>1. PICK i \in DOMAIN q : q[i].rowid = r
        BY <1>2, <2>9, <3>2 DEF LoadInv
      <4> QED
        BY <2>3, <4>1
    <3>3. CASE r = cursor
      BY <2>2, <2>3, <3>3
    <3> QED
      BY <3>1, <3>2, <3>3
  <2>10. cond.pending => found' \in DOMAIN idx /\ found' > 0 /\ \A r \in Pending : found' <= r
    BY <1>1, <1>2, <2>1 DEF LoadInv, TypeOK
  <2> QED
    BY <1>2, <1>3, <2>7, <2>8, <2>9, <2>10 DEF LoadInv
<1>5. CASE ~Matches(idx[cursor])
  <2>1. q' = q /\ found' = found
    BY <1>5 DEF LoadRecord
  <2>2. cond.pending => ~idx[cursor].pend
    BY <1>1, <1>2, <1>5, Members DEF Matches, LoadInv
  <2>3. QInv'
    BY <1>1, <1>2, <2>1 DEF QInv, InOrder
  <2>4. LoadInv'
    <3>1. \A i \in DOMAIN q : q[i].rowid \in Nat /\ q[i].rowid < cursor
      BY <1>2, Members DEF LoadInv
    <3>2. \A i \in DOMAIN q' : q'[i].rowid < cursor'
      BY <1>1, <2>1, <3>1
    <3>3. cond.pending => \A r \in Pending : r # cursor
      BY <2>2
    <3>4. \A r \in Pending : r \in Nat
      BY DEF TypeOK
    <3> QED
      BY <1>1, <1>2, <2>1, <3>2, <3>3, <3>4 DEF LoadInv
  <2> QED
    BY <1>3, <2>3, <2>4
<1> QED
  BY <1>4, <1>5

LEMMA AppendMsgKeeps ==
    ASSUME Discipline, IInv, TypeOK', NEW m \in Msgs, NEW rowid \in Nat,
           AppendMsg(m, rowid)
    PROVE  VarInv' /\ BackupInv' /\ QInv' /\ LoadInv'
<1> USE DEF IInv, At, InBackup, Pending, Discipline
<1> DEFINE row  == [msg |-> m, pend |-> TRUE]
           item == [rowid |-> rowid, msg |-> m]
<1>1. /\ UNCHANGED <<bak, var, topic, role, mode, pc, after>>
      /\ pc = "ready" /\ rowid = Len(idx) + 1
      /\ idx' = Append(idx, row) /\ q' = Append(q, item)
  BY DEF AppendMsg, Enqueue
<1>2. row.msg = m /\ row.pend = TRUE /\ item.rowid = rowid /\ item.msg = m
  OBVIOUS
<1>3. /\ Len(q') = Len(q) + 1 /\ q'[Len(q) + 1] = item
      /\ \A i \in 1 .. Len(q) : q'[i] = q[i]
      /\ q \in Seq(Item) /\ q' \in Seq(Item)
  BY <1>1 DEF TypeOK
<1>4. /\ Len(idx') = Len(idx) + 1 /\ idx'[Len(idx) + 1] = row
      /\ \A r \in 1 .. Len(idx) : idx'[r] = idx[r]
      /\ idx \in Seq(Row) /\ idx' \in Seq(Row)
  BY <1>1 DEF TypeOK
<1> HIDE DEF row, item
<1>5. VarInv'
  BY <1>1, <1>2, <1>4 DEF VarInv, BoundOK, TypeOK, Var
<1>6. BackupInv'
  BY <1>1 DEF BackupInv, BackupKeepsPending
<1>7. QInv'
  <2> /\ Len(q) \in Nat /\ DOMAIN q = 1 .. Len(q) /\ DOMAIN q' = 1 .. Len(q) + 1
      /\ Len(idx) \in Nat /\ DOMAIN idx = 1 .. Len(idx)
      /\ DOMAIN idx' = 1 .. Len(idx) + 1
    BY <1>3, <1>4
  <2>1. \A i \in DOMAIN q : q[i].rowid \in DOMAIN idx /\ idx[q[i].rowid].msg = q[i].msg
    BY <1>1 DEF QInv
  <2>2. \A i \in DOMAIN q' : /\ q'[i].rowid \in DOMAIN idx'
                             /\ idx'[q'[i].rowid].msg = q'[i].msg
    BY <1>1, <1>2, <1>3, <1>4, <2>1
  <2>3. InOrder'
    BY <1>1, <1>2, <1>3, <2>1 DEF QInv, InOrder
  <2>4. mode = "pending" =>
            \A r \in DOMAIN idx' : idx'[r].pend => \E i \in DOMAIN q' : q'[i].rowid = r
    <3> SUFFICES ASSUME mode = "pending", NEW r \in DOMAIN idx', idx'[r].pend
                 PROVE  \E i \in DOMAIN q' : q'[i].rowid = r
      OBVIOUS
    <3>1. CASE r \in DOMAIN idx
      <4>1. PICK i \in DOMAIN q : q[i].rowid = r
        BY <1>1, <1>4, <3>1 DEF QInv
      <4> QED
        BY <1>3, <4>1
    <3>2. CASE r = Len(idx) + 1
      BY <1>1, <1>2, <1>3, <3>2
    <3> QED
      BY <3>1, <3>2
  <2> QED
    BY <1>1, <2>2, <2>3, <2>4 DEF QInv
<1>8. LoadInv'
  BY <1>1 DEF LoadInv
<1> QED
  BY <1>5, <1>6, <1>7, <1>8

LEMMA SetHardFlagKeeps ==
    ASSUME Discipline, IInv, TypeOK', NEW i \in DOMAIN q, NEW set \in BOOLEAN,
           SetHardFlag(i, set)
    PROVE  VarInv' /\ BackupInv' /\ QInv' /\ LoadInv'
<1> USE DEF IInv, At, InBackup, Pending, Discipline
<1>1. /\ UNCHANGED <<bak, var, topic, role, q, mode, pc, after>>
      /\ pc = "ready" /\ (set => q[i].rowid >= topic.first)
      /\ idx' = Flagged(q[i].rowid, set)
  BY DEF SetHardFlag, memory
<1>2. q[i].rowid \in Nat /\ idx \in Seq(Row)
  BY Members DEF TypeOK
<1>3. /\ Len(idx') = Len(idx) /\ DOMAIN idx' = DOMAIN idx
      /\ \A r \in DOMAIN idx :
           /\ idx'[r].msg = idx[r].msg
           /\ idx'[r].pend = IF r = q[i].rowid THEN set ELSE idx[r].pend
  BY <1>1, <1>2, FlaggedProps
<1>4. VarInv'
  BY <1>1, <1>3 DEF VarInv, BoundOK
<1>5. BackupInv'
  BY <1>1 DEF BackupInv, BackupKeepsPending
<1>6. QInv'
  BY <1>1, <1>3 DEF QInv, InOrder
<1>7. LoadInv'
  BY <1>1 DEF LoadInv
<1> QED
  BY <1>4, <1>5, <1>6, <1>7

LEMMA UnloadKeeps ==
    ASSUME Discipline, IInv, TypeOK', NEW i \in DOMAIN q, Unload(i)
    PROVE  VarInv' /\ BackupInv' /\ QInv' /\ LoadInv'
<1> USE DEF IInv, At, InBackup, Pending, Discipline
<1>1. /\ UNCHANGED <<bak, var, topic, role, mode, pc, after>>
      /\ pc = "ready"
      /\ idx' = Flagged(q[i].rowid, FALSE) /\ q' = RemoveAt(q, i)
  BY DEF Unload
<1>2. q[i].rowid \in Nat /\ idx \in Seq(Row) /\ q \in Seq(Item)
  BY Members DEF TypeOK
<1>3. /\ Len(idx') = Len(idx) /\ DOMAIN idx' = DOMAIN idx
      /\ \A r \in DOMAIN idx :
           /\ idx'[r].msg = idx[r].msg
           /\ idx'[r].pend = IF r = q[i].rowid THEN FALSE ELSE idx[r].pend
  BY <1>1, <1>2, FlaggedProps
<1>4. /\ q' \in Seq(Item) /\ Len(q') = Len(q) - 1
      /\ \A j \in 1 .. Len(q) - 1 : q'[j] = IF j < i THEN q[j] ELSE q[j + 1]
  BY <1>1, <1>2, RemoveAtProps
<1>5. VarInv'
  BY <1>1, <1>3 DEF VarInv, BoundOK
<1>6. BackupInv'
  BY <1>1 DEF BackupInv, BackupKeepsPending
<1>7. QInv'
  <2> i \in 1 .. Len(q) /\ Len(q) \in Nat /\ DOMAIN q = 1 .. Len(q)
      /\ DOMAIN q' = 1 .. Len(q) - 1
    BY <1>2, <1>4
  <2>1. ASSUME NEW j \in DOMAIN q'
        PROVE  \E k \in DOMAIN q : q'[j] = q[k]
    <3>1. CASE j < i
      BY <1>4, <3>1
    <3>2. CASE ~(j < i)
      <4>1. j + 1 \in DOMAIN q /\ q'[j] = q[j + 1]
        BY <1>4, <3>2
      <4> QED
        BY <4>1
    <3> QED
      BY <3>1, <3>2
  <2>2. \A j, k \in DOMAIN q' : j < k => q'[j].rowid < q'[k].rowid
    <3> SUFFICES ASSUME NEW j \in DOMAIN q', NEW k \in DOMAIN q', j < k
                 PROVE  q'[j].rowid < q'[k].rowid
      OBVIOUS
    <3> DEFINE old(x) == IF x < i THEN x ELSE x + 1
    <3>1. /\ old(j) \in DOMAIN q /\ old(k) \in DOMAIN q /\ old(j) < old(k)
          /\ q'[j] = q[old(j)] /\ q'[k] = q[old(k)]
      BY <1>4
    <3> HIDE DEF old
    <3> QED
      BY <3>1 DEF QInv, InOrder
  <2>3. ASSUME NEW k \in DOMAIN q, k # i
        PROVE  \E j \in DOMAIN q' : q'[j] = q[k]
    <3>1. CASE k < i
      BY <1>2, <1>4, <2>3, <3>1
    <3>2. CASE k > i
      <4>1. k - 1 \in DOMAIN q' /\ q'[k - 1] = q[k]
        BY <1>2, <1>4, <3>2
      <4> QED
        BY <4>1
    <3> QED
      BY <1>2, <2>3, <3>1, <3>2
  <2>4. mode = "pending" =>
            \A r \in DOMAIN idx' : idx'[r].pend => \E j \in DOMAIN q' : q'[j].rowid = r
    <3> SUFFICES ASSUME mode = "pending", NEW r \in DOMAIN idx', idx'[r].pend
                 PROVE  \E j \in DOMAIN q' : q'[j].rowid = r
      OBVIOUS
    <3>1. r \in Pending /\ r # q[i].rowid
      BY <1>3
    <3>2. PICK k \in DOMAIN q : q[k].rowid = r
      BY <3>1 DEF QInv
    <3> QED
      BY <2>3, <3>1, <3>2
  <2>5. \A j \in DOMAIN q' : /\ q'[j].rowid \in DOMAIN idx'
                             /\ idx'[q'[j].rowid].msg = q'[j].msg
    <3>1. \A k \in DOMAIN q : q[k].rowid \in DOMAIN idx /\ idx[q[k].rowid].msg = q[k].msg
      BY DEF QInv
    <3>2. \A k \in DOMAIN q : q[k].rowid \in DOMAIN idx' /\ idx'[q[k].rowid].msg = q[k].msg
      BY <1>3, <3>1
    <3> QED
      BY <2>1, <3>2
  <2> QED
    BY <1>1, <2>2, <2>4, <2>5 DEF QInv, InOrder
<1>8. LoadInv'
  BY <1>1 DEF LoadInv
<1> QED
  BY <1>5, <1>6, <1>7, <1>8

LEMMA StepIInv == Discipline /\ IInv /\ [Next]_vars => IInv'
<1> SUFFICES ASSUME Discipline, IInv, [Next]_vars PROVE IInv'
  OBVIOUS
<1>1. TypeOK'
  BY StepTyping DEF IInv
<1>2. CASE UNCHANGED vars
  BY <1>2, <1>1 DEF vars, IInv, VarInv, BackupInv, QInv, LoadInv, BoundOK, At, InBackup,
               Pending, BackupKeepsPending, InOrder
<1>3. CASE Next
  <2> USE <1>1 DEF IInv
  <2>1. Len(idx) \in Nat
    BY DEF TypeOK
  <2>2. ASSUME NEW m \in Msgs, NEW rowid \in 0 .. Len(idx) + 1, AppendMsg(m, rowid)
        PROVE  IInv'
    BY <2>1, <2>2, AppendMsgKeeps
  <2>3. ASSUME NEW from \in 0 .. Len(idx) + 1, NEW to \in 0 .. Len(idx) + 1, NEW keys,
               LoadAll(from, to, keys)
        PROVE  IInv'
    BY <2>1, <2>3, LoadAllKeeps
  <2> HIDE DEF IInv
  <2>4. CASE \E i \in DOMAIN q : Unload(i) \/ SetHardFlag(i, TRUE) \/ SetHardFlag(i, FALSE)
    BY <2>4, UnloadKeeps, SetHardFlagKeeps DEF IInv
  <2>5. CASE Internal
    BY <2>5, EndWriteVarKeeps, LoadRecordKeeps, LoadEndKeeps, BackupRemoveKeeps,
       BackupRenameKeeps, BackupCreateKeeps, BackupZeroKeeps DEF Internal, IInv
  <2>6. CASE \E r \in Roles : Open(r)
    BY <2>6, OpenKeeps DEF IInv
  <2>7. CASE Load \/ CheckBackup \/ Stop
    BY <2>7, LoadKeeps, CheckBackupKeeps, StopKeeps DEF IInv
  <2> QED
    BY <1>3, <2>2, <2>3, <2>4, <2>5, <2>6, <2>7 DEF Next
<1> QED
  BY <1>2, <1>3

\* Under the discipline the strengthening IInv holds in every state.
THEOREM Invariance ==
    ASSUME Discipline
    PROVE  Spec => []IInv
<1>1. Init => IInv
  BY InitTyping, InitIInv DEF IInv
<1>2. IInv /\ [Next]_vars => IInv'
  BY StepIInv
<1> QED
  BY <1>1, <1>2, PTL DEF Spec

\* A queue filled by trq_load iterates over every pending row.
THEOREM NothingPendingIsLost ==
    ASSUME Discipline
    PROVE  Spec => []NoPendingLost
<1>1. IInv => NoPendingLost
  BY DEF IInv, QInv, NoPendingLost
<1> QED
  BY <1>1, Invariance, PTL

\* A queued message carries the row that trq_append or trq_load gave it.
THEOREM QueueMatchesTopic ==
    ASSUME Discipline
    PROVE  Spec => []OwnRow
<1>1. IInv => OwnRow
  BY DEF IInv, QInv, OwnRow
<1> QED
  BY <1>1, Invariance, PTL

\* The queue keeps the order of the topic without repetition: no row is iterated,
\* nor unloaded, twice.
THEOREM QueueIsInOrder ==
    ASSUME Discipline
    PROVE  Spec => []InOrder
<1>1. IInv => InOrder
  BY DEF IInv, QInv
<1> QED
  BY <1>1, Invariance, PTL

\* At every point where the process may die, the first_rowid on disk excludes
\* no pending row.
THEOREM FilesKeepPending ==
    ASSUME Discipline
    PROVE  Spec => []FirstRowidSound
<1>1. IInv => FirstRowidSound
  BY DEF IInv, VarInv, BoundOK, FirstRowidSound
<1> QED
  BY <1>1, Invariance, PTL

\* The backup directory, which nothing loads, holds no pending row.
THEOREM BackupHoldsNoPending ==
    ASSUME Discipline
    PROVE  Spec => []BackupKeepsPending
<1>1. IInv => BackupKeepsPending
  BY DEF IInv, BackupInv
<1> QED
  BY <1>1, Invariance, PTL

-----------------------------------------------------------------------------
(* The steps *)

\* The actions, one after the other.
LEMMA Actions ==
    ASSUME Discipline, [Next]_vars
    PROVE  \/ UNCHANGED vars \/ Load \/ CheckBackup \/ Stop
           \/ \E r \in Roles : Open(r)
           \/ \E from, to \in 0 .. Len(idx) + 1, keys \in SUBSET RowMsgs(idx) :
                 LoadAll(from, to, keys)
           \/ \E m \in Msgs, rowid \in 0 .. Len(idx) + 1 : AppendMsg(m, rowid)
           \/ \E i \in DOMAIN q : Unload(i)
           \/ \E i \in DOMAIN q, set \in BOOLEAN : SetHardFlag(i, set)
           \/ EndWriteVar \/ LoadRecord \/ LoadEnd \/ BackupRemove
           \/ BackupRename \/ BackupCreate \/ BackupZero
BY DEF Next, Internal

-----------------------------------------------------------------------------
(* Readers *)

\* topic_var.json is written by masters.
WriterInv == pc = "saving" => role = "master"

LEMMA StepWriter ==
    ASSUME Discipline, IInv, WriterInv, [Next]_vars
    PROVE  WriterInv'
<1>1. At("bk_create") \/ At("bk_zero") => role = "master"
  BY DEF IInv, BackupInv, InBackup
<1>2. CASE UNCHANGED vars
  BY <1>2 DEF vars, WriterInv
<1>3. CASE Load \/ Stop
  BY <1>3 DEF Load, Stop, WriterInv
<1>4. CASE CheckBackup
  BY <1>4 DEF CheckBackup, SetFirstRowid, StartWriteVar, WriterInv
<1>5. CASE \E r \in Roles : Open(r)
  BY <1>5 DEF Open, StartWriteVar, WriterInv
<1>6. CASE \E from, to \in 0 .. Len(idx) + 1, keys \in SUBSET RowMsgs(idx) :
              LoadAll(from, to, keys)
  BY <1>6 DEF LoadAll, WriterInv
<1>7. CASE \E m \in Msgs, rowid \in 0 .. Len(idx) + 1 : AppendMsg(m, rowid)
  BY <1>7 DEF AppendMsg, WriterInv
<1>8. CASE \/ \E i \in DOMAIN q : Unload(i)
           \/ \E i \in DOMAIN q, set \in BOOLEAN : SetHardFlag(i, set)
  BY <1>8 DEF Unload, SetHardFlag, WriterInv, memory
<1>9. CASE EndWriteVar \/ LoadRecord \/ LoadEnd
  BY <1>9 DEF EndWriteVar, LoadRecord, LoadEnd, SetFirstRowid, StartWriteVar, WriterInv,
              memory, IInv, QInv
<1>10. CASE BackupRemove \/ BackupRename \/ BackupCreate \/ BackupZero
  BY <1>1, <1>10 DEF BackupRemove, BackupRename, BackupCreate, BackupZero, SetFirstRowid,
                     StartWriteVar, WriterInv, At, memory
<1> QED
  BY <1>2, <1>3, <1>4, <1>5, <1>6, <1>7, <1>8, <1>9, <1>10, Actions

LEMMA StepByReader ==
    ASSUME Discipline, IInv, WriterInv, [Next]_vars, role = "reader", role' = "reader"
    PROVE  UNCHANGED disk
<1> USE DEF disk
<1>1. pc \notin {"saving", "bk_remove", "bk_rename", "bk_create", "bk_zero"}
  BY DEF WriterInv, IInv, BackupInv, InBackup, At
<1>2. CASE UNCHANGED vars
  BY <1>2 DEF vars
<1>3. CASE Load \/ Stop \/ CheckBackup
  BY <1>3 DEF Load, Stop, CheckBackup, SetFirstRowid, Discipline
<1>4. CASE \E r \in Roles : Open(r)
  BY <1>4 DEF Open, IInv, TypeOK
<1>5. CASE \E from, to \in 0 .. Len(idx) + 1, keys \in SUBSET RowMsgs(idx) :
              LoadAll(from, to, keys)
  BY <1>5 DEF LoadAll
<1>6. CASE \E m \in Msgs, rowid \in 0 .. Len(idx) + 1 : AppendMsg(m, rowid)
  BY <1>6 DEF AppendMsg, Discipline
<1>7. CASE \/ \E i \in DOMAIN q : Unload(i)
           \/ \E i \in DOMAIN q, set \in BOOLEAN : SetHardFlag(i, set)
  BY <1>7 DEF Unload, SetHardFlag
<1>8. CASE LoadRecord \/ LoadEnd
  BY <1>8 DEF LoadRecord, LoadEnd, SetFirstRowid
<1>9. CASE EndWriteVar \/ BackupRemove \/ BackupRename \/ BackupCreate \/ BackupZero
  BY <1>1, <1>9 DEF EndWriteVar, BackupRemove, BackupRename, BackupCreate, BackupZero
<1> QED
  BY <1>2, <1>3, <1>4, <1>5, <1>6, <1>7, <1>8, <1>9, Actions

\* A process that did not open the database as the master leaves the disk as it
\* is, whatever it calls.
THEOREM ReadersOnlyRead ==
    ASSUME Discipline
    PROVE  Spec => ReadOnlyReader
<1>1. Init => WriterInv
  BY DEF Init, WriterInv
<1>2. IInv /\ WriterInv /\ [Next]_vars => WriterInv'
  BY StepWriter
<1>3. IInv /\ WriterInv /\ [Next]_vars =>
         [role = "reader" /\ role' = "reader" => UNCHANGED disk]_vars
  BY StepByReader
<1> QED
  BY <1>1, <1>2, <1>3, Invariance, PTL DEF Spec, ReadOnlyReader

-----------------------------------------------------------------------------
(* What the refinement needs beyond IInv *)

\* A message is stored once.
Distinct == \A r, s \in DOMAIN idx : idx[r].msg = idx[s].msg => r = s

\* A recovery queues pending rows only.
OnlyPending == pc = "loading" /\ cond.pending => \A i \in DOMAIN q : q[i].rowid \in Pending

LEMMA StepDistinct ==
    ASSUME Discipline, IInv, Distinct, [Next]_vars
    PROVE  Distinct'
<1>1. TypeOK /\ idx \in Seq(Row)
  BY DEF IInv, TypeOK
<1>2. ASSUME NEW m \in Msgs, NEW rowid \in 0 .. Len(idx) + 1, AppendMsg(m, rowid)
      PROVE  Distinct'
  <2> DEFINE row == [msg |-> m, pend |-> TRUE]
  <2>1. idx' = idx \/ idx' = Append(idx, row)
    BY <1>2 DEF AppendMsg
  <2>2. row \in Row /\ row.msg = m
    BY DEF Row
  <2>3. \A r \in DOMAIN idx : idx[r].msg # m
    BY <1>2 DEF AppendMsg, Fresh, RowMsgs
  <2> HIDE DEF row
  <2>4. CASE idx' = Append(idx, row)
    <3>1. /\ DOMAIN idx' = 1 .. Len(idx) + 1 /\ idx'[Len(idx) + 1] = row
          /\ \A r \in DOMAIN idx : idx'[r] = idx[r]
          /\ \A r \in DOMAIN idx' : r \in DOMAIN idx \/ r = Len(idx) + 1
      BY <1>1, <2>2, <2>4
    <3> QED
      BY <2>2, <2>3, <3>1 DEF Distinct
  <2> QED
    BY <2>1, <2>4 DEF Distinct
<1>3. ASSUME NEW i \in DOMAIN q, NEW set \in BOOLEAN, Unload(i) \/ SetHardFlag(i, set)
      PROVE  Distinct'
  <2>. PICK n \in Nat : n = q[i].rowid
    BY <1>1, Members
  <2>1. PICK b \in BOOLEAN : idx' = Flagged(n, b)
    BY <1>3 DEF Unload, SetHardFlag
  <2>2. DOMAIN idx' = DOMAIN idx /\ \A r \in DOMAIN idx : idx'[r].msg = idx[r].msg
    BY <1>1, <2>1, FlaggedProps
  <2> QED
    BY <2>2 DEF Distinct
<1>4. CASE idx' = idx \/ idx' = <<>>
  BY <1>4 DEF Distinct
<1>5. CASE \/ UNCHANGED vars \/ Load \/ CheckBackup \/ Stop
           \/ \E r \in Roles : Open(r)
           \/ \E from, to \in 0 .. Len(idx) + 1, keys \in SUBSET RowMsgs(idx) :
                 LoadAll(from, to, keys)
  BY <1>4, <1>5 DEF vars, Load, CheckBackup, Stop, Open, LoadAll, disk
<1>6. CASE EndWriteVar \/ LoadRecord \/ LoadEnd \/ BackupRemove \/ BackupRename
             \/ BackupCreate \/ BackupZero
  BY <1>4, <1>6 DEF EndWriteVar, LoadRecord, LoadEnd, BackupRemove, BackupRename,
                    BackupCreate, BackupZero, disk
<1> QED
  BY <1>2, <1>3, <1>5, <1>6, Actions

LEMMA StepOnlyPending ==
    ASSUME Discipline, IInv, OnlyPending, [Next]_vars
    PROVE  OnlyPending'
<1>1. CASE pc' # "loading"
  BY <1>1 DEF OnlyPending
<1>2. CASE LoadRecord
  <2>1. /\ cursor \in DOMAIN idx /\ idx' = idx /\ cond' = cond /\ pc = "loading"
        /\ q \in Seq(Item) /\ cursor \in Nat /\ idx[cursor].msg \in Msgs
    BY <1>2, Members DEF LoadRecord, AtEnd, IInv, TypeOK, disk
  <2>2. CASE Matches(idx[cursor])
    <3> DEFINE item == [rowid |-> cursor, msg |-> idx[cursor].msg]
    <3>1. q' = Append(q, item)
      BY <1>2, <2>2 DEF LoadRecord, Enqueue
    <3>2. item \in Item /\ item.rowid = cursor
      BY <2>1 DEF Item
    <3> HIDE DEF item
    <3>3. \A i \in DOMAIN q' : q'[i].rowid = cursor \/ (i \in DOMAIN q /\ q'[i] = q[i])
      BY <2>1, <3>1, <3>2
    <3> QED
      BY <2>1, <2>2, <3>3 DEF OnlyPending, Pending, Matches
  <2>3. CASE ~Matches(idx[cursor])
    BY <1>2, <2>1, <2>3 DEF LoadRecord, OnlyPending, Pending
  <2> QED
    BY <2>2, <2>3
<1>3. CASE Load
  <2>1. q = <<>> /\ q' = q
    BY <1>3 DEF Load, Discipline, IInv, QInv, At, memory
  <2> QED
    BY <2>1 DEF OnlyPending
<1>4. CASE \E from, to \in 0 .. Len(idx) + 1, keys \in SUBSET RowMsgs(idx) :
              LoadAll(from, to, keys)
  BY <1>4 DEF LoadAll, OnlyPending
<1>5. CASE UNCHANGED vars
  BY <1>5 DEF vars, OnlyPending, Pending
<1>6. CASE CheckBackup \/ Stop \/ LoadEnd \/ (\E r \in Roles : Open(r))
  BY <1>1, <1>6 DEF CheckBackup, Stop, LoadEnd, Open, SetFirstRowid, StartWriteVar
<1>7. CASE BackupRemove \/ BackupRename \/ BackupCreate \/ BackupZero
  BY <1>1, <1>7 DEF BackupRemove, BackupRename, BackupCreate, BackupZero, SetFirstRowid,
                    StartWriteVar
<1>8. CASE EndWriteVar
  BY <1>1, <1>8 DEF EndWriteVar, IInv, QInv
<1>9. CASE \/ \E m \in Msgs, rowid \in 0 .. Len(idx) + 1 : AppendMsg(m, rowid)
           \/ \E i \in DOMAIN q : Unload(i)
           \/ \E i \in DOMAIN q, set \in BOOLEAN : SetHardFlag(i, set)
  BY <1>1, <1>9 DEF AppendMsg, Unload, SetHardFlag, Discipline
<1> QED
  BY <1>2, <1>3, <1>4, <1>5, <1>6, <1>7, <1>8, <1>9, Actions

-----------------------------------------------------------------------------
(* Each step of the queue is a step of the abstract one *)

\* The variables of PersistentQueue, as PQ has them.
PendMsgs == {idx[r].msg : r \in Pending}
View     == IF mode = "none" THEN {} ELSE QMsgs

\* Steps that change none of them are not seen.
LEMMA Unseen ==
    ASSUME PendMsgs' = PendMsgs, View' = View, mode' = mode
    PROVE  UNCHANGED PQ!vars
BY DEF PQ!vars, PendMsgs, View, Pending, QMsgs

LEMMA UnseenSame ==
    ASSUME idx' = idx, mode' = mode, q' = q \/ mode = "none"
    PROVE  UNCHANGED PQ!vars
<1>1. PendMsgs' = PendMsgs /\ View' = View
  BY DEF PendMsgs, View, Pending, QMsgs
<1> QED
  BY <1>1, Unseen

LEMMA StopIsStop ==
    ASSUME Stop
    PROVE  PQ!Next
<1>1. idx' = idx /\ mode' = "none"
  BY DEF Stop, disk
<1>2. PQ!Stop
  BY <1>1 DEF PQ!Stop, Pending
<1> QED
  BY <1>2 DEF PQ!Next

LEMMA LoadEndIsRecoverOrBrowse ==
    ASSUME IInv, OnlyPending, LoadEnd
    PROVE  PQ!Next
<1>1. /\ pc = "loading" /\ mode = "none" /\ idx' = idx /\ q' = q
      /\ mode' = IF cond.pending THEN "pending" ELSE "all"
      /\ cursor > Len(idx) \/ (cond.to > 0 /\ cursor > cond.to)
  BY DEF LoadEnd, AtEnd, IInv, QInv, At, InBackup
<1>2. CASE cond.pending
  <2>1. \A r \in Pending : \E i \in DOMAIN q : q[i].rowid = r
    <3>1. cursor > Len(idx) /\ Len(idx) \in Nat /\ cursor \in Nat
      BY <1>1, <1>2 DEF IInv, LoadInv, TypeOK
    <3>2. \A r \in Pending : r < cursor
      BY <3>1 DEF Pending, IInv, TypeOK
    <3> QED
      BY <1>1, <1>2, <3>2 DEF IInv, LoadInv
  <2>2. \A i \in DOMAIN q : q[i].rowid \in Pending /\ idx[q[i].rowid].msg = q[i].msg
    BY <1>1, <1>2 DEF OnlyPending, IInv, QInv
  <2>3. QMsgs' = PendMsgs
    BY <1>1, <2>1, <2>2 DEF QMsgs, PendMsgs
  <2>4. PQ!Recover
    BY <1>1, <1>2, <2>3 DEF PQ!Recover, PendMsgs, Pending
  <2> QED
    BY <2>4 DEF PQ!Next
<1>3. CASE ~cond.pending
  <2>1. QMsgs' \subseteq Msgs
    BY <1>1, Members DEF QMsgs, IInv
  <2>2. PQ!Browse
    BY <1>1, <1>3, <2>1 DEF PQ!Browse, Pending
  <2> QED
    BY <2>2 DEF PQ!Next
<1> QED
  BY <1>2, <1>3

LEMMA AppendMsgIsPut ==
    ASSUME Discipline, IInv, NEW m \in Msgs, NEW rowid \in 0 .. Len(idx) + 1,
           AppendMsg(m, rowid)
    PROVE  PQ!Next
<1> DEFINE row  == [msg |-> m, pend |-> TRUE]
           item == [rowid |-> rowid, msg |-> m]
<1>1. /\ idx' = Append(idx, row) /\ q' = Append(q, item) /\ mode' = mode /\ mode # "none"
      /\ idx \in Seq(Row) /\ q \in Seq(Item) /\ Fresh(m)
  BY DEF AppendMsg, Enqueue, Discipline, IInv, TypeOK, QInv, At
<1>2. row \in Row /\ row.msg = m /\ row.pend
  BY DEF Row
<1>3. rowid \in Nat
  BY <1>1
<1>4. item \in Item /\ item.msg = m
  BY <1>3 DEF Item
<1> HIDE DEF row, item
<1>5. PendMsgs' = PendMsgs \cup {m}
  <2>1. /\ DOMAIN idx' = DOMAIN idx \cup {Len(idx) + 1} /\ idx'[Len(idx) + 1] = row
        /\ \A r \in DOMAIN idx : idx'[r] = idx[r]
    BY <1>1, <1>2
  <2> QED
    BY <1>2, <2>1 DEF PendMsgs, Pending
<1>6. QMsgs' = QMsgs \cup {m}
  <2>1. /\ DOMAIN q' = DOMAIN q \cup {Len(q) + 1} /\ q'[Len(q) + 1] = item
        /\ \A i \in DOMAIN q : q'[i] = q[i]
    BY <1>1, <1>4
  <2> QED
    BY <1>4, <2>1 DEF QMsgs
<1>7. m \notin PendMsgs \cup QMsgs
  BY <1>1 DEF Fresh, PendMsgs, RowMsgs, Pending
<1>8. PQ!Put(m)
  <2>1. mode \in {"pending", "all"}
    BY <1>1 DEF IInv, TypeOK
  <2> QED
    BY <1>1, <2>1, <1>5, <1>6, <1>7 DEF PQ!Put, PendMsgs
<1> QED
  BY <1>8 DEF PQ!Next

\* A change of the flag of a queued message changes what is pending by it.
LEMMA FlaggedPend ==
    ASSUME IInv, Distinct, NEW i \in DOMAIN q, NEW set \in BOOLEAN,
           idx' = Flagged(q[i].rowid, set)
    PROVE  PendMsgs' = IF set THEN PendMsgs \cup {q[i].msg} ELSE PendMsgs \ {q[i].msg}
<1>. PICK n \in Nat : n = q[i].rowid
  BY Members DEF IInv
<1>1. /\ DOMAIN idx' = DOMAIN idx
      /\ \A r \in DOMAIN idx : /\ idx'[r].msg = idx[r].msg
                               /\ idx'[r].pend = IF r = n THEN set ELSE idx[r].pend
  BY FlaggedProps DEF IInv, TypeOK
<1>2. n \in DOMAIN idx /\ idx[n].msg = q[i].msg
  BY DEF IInv, QInv
<1>3. \A r \in DOMAIN idx : idx[r].msg = q[i].msg => r = n
  BY <1>2 DEF Distinct
<1> QED
  BY <1>1, <1>2, <1>3 DEF PendMsgs, Pending

LEMMA SetHardFlagIsMark ==
    ASSUME Discipline, IInv, Distinct, NEW i \in DOMAIN q, NEW set \in BOOLEAN,
           SetHardFlag(i, set)
    PROVE  PQ!Next
<1> DEFINE m == q[i].msg
<1>1. q' = q /\ mode' = mode /\ mode # "none" /\ m \in Msgs
  BY Members DEF SetHardFlag, memory, IInv, QInv, At
<1>2. PendMsgs' = IF set THEN PendMsgs \cup {m} ELSE PendMsgs \ {m}
  BY FlaggedPend DEF SetHardFlag
<1>3. m \in QMsgs
  BY DEF QMsgs
<1> HIDE DEF m
<1>4. PQ!Mark(m, set)
  <2>1. mode \in {"pending", "all"}
    BY <1>1 DEF IInv, TypeOK
  <2> QED
    BY <1>1, <2>1, <1>2, <1>3 DEF PQ!Mark, PendMsgs, QMsgs
<1> QED
  BY <1>1, <1>4 DEF PQ!Next

LEMMA UnloadIsAck ==
    ASSUME Discipline, IInv, Distinct, NEW i \in DOMAIN q, Unload(i)
    PROVE  PQ!Next
<1>. PICK m \in Msgs : m = q[i].msg
  BY Members DEF IInv
<1>1. /\ q' = RemoveAt(q, i) /\ mode' = mode /\ mode # "none"
      /\ idx' = Flagged(q[i].rowid, FALSE) /\ q \in Seq(Item)
  BY DEF Unload, IInv, TypeOK, QInv, At
<1>2. PendMsgs' = PendMsgs \ {m}
  BY <1>1, FlaggedPend
<1>3. m \in QMsgs
  BY DEF QMsgs
<1>4. \A j \in DOMAIN q : q[j].msg = m => j = i
  <2> SUFFICES ASSUME NEW j \in DOMAIN q, q[j].msg = m PROVE j = i
    OBVIOUS
  <2>1. q[j].rowid = q[i].rowid
    BY DEF IInv, QInv, Distinct
  <2>2. i \in Nat /\ j \in Nat /\ q[i].rowid \in Nat
    BY <1>1, Members DEF IInv
  <2>3. ~(i < j) /\ ~(j < i)
    BY <2>1, <2>2 DEF IInv, QInv, InOrder
  <2> QED
    BY <2>2, <2>3
<1>5. QMsgs' = QMsgs \ {m}
  <2>1. /\ Len(q') = Len(q) - 1 /\ q' \in Seq(Item) /\ Len(q) \in Nat /\ i \in 1 .. Len(q)
        /\ \A j \in 1 .. Len(q) - 1 : q'[j] = IF j < i THEN q[j] ELSE q[j + 1]
    BY <1>1, RemoveAtProps
  <2>2. DOMAIN q' = 1 .. Len(q) - 1 /\ DOMAIN q = 1 .. Len(q)
    BY <1>1, <2>1
  <2>3. ASSUME NEW x \in QMsgs' PROVE x \in QMsgs \ {m}
    <3>1. PICK j \in DOMAIN q' : x = q'[j].msg
      BY <2>3 DEF QMsgs
    <3>2. PICK k \in DOMAIN q : k # i /\ q'[j] = q[k]
      <4>1. CASE j < i
        BY <2>1, <2>2, <4>1
      <4>2. CASE ~(j < i)
        <5>1. j + 1 \in DOMAIN q /\ j + 1 # i /\ q'[j] = q[j + 1]
          BY <2>1, <2>2, <4>2
        <5> QED
          BY <5>1
      <4> QED
        BY <4>1, <4>2
    <3> QED
      BY <1>4, <3>1, <3>2 DEF QMsgs
  <2>4. ASSUME NEW x \in QMsgs \ {m} PROVE x \in QMsgs'
    <3>1. PICK k \in DOMAIN q : x = q[k].msg /\ k # i
      BY <2>4 DEF QMsgs
    <3>2. PICK j \in DOMAIN q' : q'[j] = q[k]
      <4>1. CASE k < i
        BY <2>1, <2>2, <4>1
      <4>2. CASE k > i
        <5>1. k - 1 \in DOMAIN q' /\ q'[k - 1] = q[k]
          BY <2>1, <2>2, <4>2
        <5> QED
          BY <5>1
      <4> QED
        BY <2>1, <2>2, <3>1, <4>1, <4>2
    <3> QED
      BY <3>1, <3>2 DEF QMsgs
  <2> QED
    BY <2>3, <2>4
<1>6. PQ!Ack(m)
  <2>1. mode \in {"pending", "all"}
    BY <1>1 DEF IInv, TypeOK
  <2> QED
    BY <1>1, <2>1, <1>2, <1>3, <1>5 DEF PQ!Ack, PendMsgs
<1> QED
  BY <1>6 DEF PQ!Next

LEMMA StepRefines ==
    ASSUME Discipline, IInv, Distinct, OnlyPending, [Next]_vars
    PROVE  [PQ!Next]_(PQ!vars)
<1>1. CASE UNCHANGED vars
  BY <1>1, UnseenSame DEF vars
<1>2. CASE Load \/ CheckBackup
  BY <1>2, UnseenSame DEF Load, CheckBackup, disk, memory
<1>3. CASE Stop
  BY <1>3, StopIsStop
<1>4. CASE \E r \in Roles : Open(r)
  BY <1>4, UnseenSame DEF Open
<1>5. CASE \E from, to \in 0 .. Len(idx) + 1, keys \in SUBSET RowMsgs(idx) :
              LoadAll(from, to, keys)
  BY <1>5, UnseenSame DEF LoadAll, disk, memory
<1>6. CASE \E m \in Msgs, rowid \in 0 .. Len(idx) + 1 : AppendMsg(m, rowid)
  BY <1>6, AppendMsgIsPut
<1>7. CASE \E i \in DOMAIN q : Unload(i)
  BY <1>7, UnloadIsAck
<1>8. CASE \E i \in DOMAIN q, set \in BOOLEAN : SetHardFlag(i, set)
  BY <1>8, SetHardFlagIsMark
<1>9. CASE LoadRecord
  <2>1. mode = "none"
    BY <1>9 DEF LoadRecord, IInv, QInv, At, InBackup
  <2> QED
    BY <1>9, <2>1, UnseenSame DEF LoadRecord, disk
<1>10. CASE LoadEnd
  BY <1>10, LoadEndIsRecoverOrBrowse
<1>11. CASE EndWriteVar \/ BackupRemove \/ BackupCreate \/ BackupZero
  BY <1>11, UnseenSame DEF EndWriteVar, BackupRemove, BackupCreate, BackupZero, memory
<1>12. CASE BackupRename
  <2>1. Pending = {} /\ idx' = <<>> /\ q' = q /\ mode' = mode
    BY <1>12 DEF BackupRename, IInv, BackupInv, InBackup, At, memory
  <2>2. PendMsgs' = PendMsgs /\ View' = View
    BY <2>1 DEF PendMsgs, View, Pending, QMsgs
  <2> QED
    BY <2>1, <2>2, Unseen
<1> QED
  BY <1>1, <1>2, <1>3, <1>4, <1>5, <1>6, <1>7, <1>8, <1>9, <1>10, <1>11, <1>12, Actions

\* The queue is the persistent queue it promises to be: a message put is pending
\* until it is acknowledged, through any crash and backup, and a recovery delivers
\* the pending messages and no other.
THEOREM QueueIsPersistent ==
    ASSUME Discipline
    PROVE  Spec => PersistentQueueSpec
<1>1. Init => PQ!Init /\ Distinct /\ OnlyPending
  BY DEF Init, PQ!Init, Distinct, OnlyPending, Pending
<1>2. IInv /\ Distinct /\ OnlyPending /\ [Next]_vars => Distinct' /\ OnlyPending'
  BY StepDistinct, StepOnlyPending
<1>3. IInv /\ Distinct /\ OnlyPending /\ [Next]_vars => [PQ!Next]_(PQ!vars)
  BY StepRefines
<1> QED
  BY <1>1, <1>2, <1>3, Invariance, PTL DEF Spec, PersistentQueueSpec, PQ!Spec

=============================================================================
