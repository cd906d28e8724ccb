------------------------- MODULE TimeRanger_proofs -------------------------
(***************************************************************************)
(* Proofs about TimeRanger, for every set of processes, contents, days and *)
(* flags and any number of writes cut short.  Types hold in any case; the  *)
(* rest when a critical error ends the process, as it does by default.  The *)
(* last of them is that the store implements RecordLog.                    *)
(***************************************************************************)
EXTENDS TimeRanger, TLAPS

-----------------------------------------------------------------------------
(* Sequences *)

\* A cell of a content file changed in place.
LEMMA CellChange ==
    ASSUME TypeOK, NEW d \in Days, NEW o \in DOMAIN cells[d], NEW c \in Cell
    PROVE  LET new == [cells EXCEPT ![d][o] = c]
           IN  /\ new \in [Days -> Seq(Cell)]
               /\ \A e \in Days : DOMAIN new[e] = DOMAIN cells[e]
               /\ \A e \in Days : \A i \in DOMAIN cells[e] :
                     new[e][i] = IF e = d /\ i = o THEN c ELSE cells[e][i]
<1> DEFINE f   == [cells[d] EXCEPT ![o] = c]
           new == [cells EXCEPT ![d] = f]
<1>1. cells \in [Days -> Seq(Cell)] /\ cells[d] \in Seq(Cell)
  BY DEF TypeOK
<1>2. /\ f \in Seq(Cell) /\ DOMAIN f = DOMAIN cells[d]
      /\ \A i \in DOMAIN cells[d] : f[i] = IF i = o THEN c ELSE cells[d][i]
  BY <1>1
<1>3. [cells EXCEPT ![d][o] = c] = new
  OBVIOUS
<1> HIDE DEF f
<1>4. new \in [Days -> Seq(Cell)]
  BY <1>1, <1>2
<1>5. \A e \in Days : new[e] = IF e = d THEN f ELSE cells[e]
  BY <1>1
<1> QED
  BY <1>2, <1>3, <1>4, <1>5

\* A cell added to a content file.
LEMMA CellAdded ==
    ASSUME TypeOK, NEW d \in Days, NEW c \in Cell
    PROVE  LET new == [cells EXCEPT ![d] = Append(@, c)]
           IN  /\ new \in [Days -> Seq(Cell)]
               /\ new[d][Len(cells[d]) + 1] = c
               /\ Len(cells[d]) + 1 \in DOMAIN new[d]
               /\ \A e \in Days : \A i \in DOMAIN cells[e] :
                     i \in DOMAIN new[e] /\ new[e][i] = cells[e][i]
<1> DEFINE f   == Append(cells[d], c)
           new == [cells EXCEPT ![d] = f]
<1>1. cells \in [Days -> Seq(Cell)] /\ cells[d] \in Seq(Cell)
  BY DEF TypeOK
<1>2. /\ f \in Seq(Cell) /\ f[Len(cells[d]) + 1] = c
      /\ Len(cells[d]) + 1 \in DOMAIN f
      /\ \A i \in DOMAIN cells[d] : i \in DOMAIN f /\ f[i] = cells[d][i]
  BY <1>1
<1> HIDE DEF f
<1>3. new \in [Days -> Seq(Cell)]
  BY <1>1, <1>2
<1>4. \A e \in Days : new[e] = IF e = d THEN f ELSE cells[e]
  BY <1>1
<1>5. [cells EXCEPT ![d] = Append(@, c)] = new
  BY DEF f
<1> QED
  BY <1>2, <1>3, <1>4, <1>5

\* A row of the index changed in place.
LEMMA RowChange ==
    ASSUME TypeOK, NEW r \in DOMAIN md, NEW row \in MdRow
    PROVE  LET new == [md EXCEPT ![r] = row]
           IN  /\ new \in Seq(MdRow) /\ Len(new) = Len(md) /\ DOMAIN new = DOMAIN md
               /\ \A i \in DOMAIN md : new[i] = IF i = r THEN row ELSE md[i]
BY DEF TypeOK

\* A row added to the index.
LEMMA RowAdded ==
    ASSUME TypeOK, NEW row \in MdRow
    PROVE  LET new == Append(md, row)
           IN  /\ new \in Seq(MdRow) /\ Len(new) = Len(md) + 1
               /\ DOMAIN new = 1 .. Len(md) + 1 /\ new[Len(md) + 1] = row
               /\ \A i \in DOMAIN md : new[i] = md[i]
BY DEF TypeOK

\* The fields of a row.
LEMMA Fields ==
    ASSUME TypeOK, NEW r \in DOMAIN md
    PROVE  /\ r \in Nat \ {0} /\ r <= Len(md) /\ Len(md) \in Nat
           /\ md[r] \in MdRow /\ md[r].msg \in Msgs /\ md[r].day \in Days
           /\ md[r].off \in Nat /\ md[r].rowid \in Nat /\ md[r].deleted \in BOOLEAN
           /\ md[r].flags \subseteq UserFlags \cup {"mark1"}
<1>1. md[r] \in MdRow /\ r \in Nat \ {0} /\ r <= Len(md) /\ Len(md) \in Nat
  BY DEF TypeOK
<1> QED
  BY <1>1 DEF MdRow

-----------------------------------------------------------------------------
(* Types *)

\* What the end of a process, or of a call, leaves in its memory.
LEMMA GoneTyping ==
    ASSUME TypeOK, NEW p \in Procs, Gone(p)
    PROVE  /\ lock' \in Procs \cup {NoProc} /\ last' \in [Procs -> Nat]
           /\ role' \in [Procs -> {"none", "master", "reader"}]
           /\ pc' \in [Procs -> {"idle", "md", "mark", "read"}]
           /\ rec' \in [Procs -> MdRow \cup {NoRec}]
           /\ \A x \in Procs : pc'[x] # "idle" => rec'[x] \in MdRow
BY DEF TypeOK, Gone

LEMMA ReturnTyping ==
    ASSUME TypeOK, NEW p \in Procs, Return(p)
    PROVE  /\ lock' \in Procs \cup {NoProc}
           /\ role' \in [Procs -> {"none", "master", "reader"}]
           /\ pc' \in [Procs -> {"idle", "md", "mark", "read"}]
           /\ rec' \in [Procs -> MdRow \cup {NoRec}]
           /\ \A x \in Procs : pc'[x] # "idle" => rec'[x] \in MdRow
BY DEF TypeOK, Return

LEMMA AcknowledgeTyping ==
    ASSUME TypeOK, NEW p \in Procs, pc[p] # "idle", Acknowledge(p)
    PROVE  /\ acked' \subseteq Msgs /\ last' \in [Procs -> Nat]
<1>1. rec[p].msg \in Msgs /\ rec[p].rowid \in Nat
  BY DEF TypeOK, MdRow
<1> QED
  BY <1>1 DEF TypeOK, Acknowledge

LEMMA WriteFlagsTyping ==
    ASSUME TypeOK, NEW p \in Procs, NEW r \in DOMAIN md,
           NEW flags \in SUBSET (UserFlags \cup {"mark1"}), WriteFlags(p, r, flags)
    PROVE  TypeOK'
<1> DEFINE row == [md[r] EXCEPT !.flags = flags]
<1>1. row \in MdRow
  BY Fields DEF MdRow
<1>2. md' = [md EXCEPT ![r] = row]
  BY DEF WriteFlags
<1> HIDE DEF row
<1>3. md' \in Seq(MdRow)
  BY <1>1, <1>2, RowChange
<1> QED
  BY <1>3 DEF WriteFlags, TypeOK, hist

\* A cell set in place keeps the types, whether or not the file has it.
LEMMA CellSetTyping ==
    ASSUME TypeOK, NEW d \in Days, NEW o \in Nat, NEW c \in Cell
    PROVE  [cells EXCEPT ![d][o] = c] \in [Days -> Seq(Cell)]
<1>1. CASE o \in DOMAIN cells[d]
  BY <1>1, CellChange
<1>2. CASE o \notin DOMAIN cells[d]
  <2>1. [cells[d] EXCEPT ![o] = c] = cells[d]
    BY <1>2 DEF TypeOK
  <2> QED
    BY <2>1 DEF TypeOK
<1> QED
  BY <1>1, <1>2

LEMMA InitTyping == Init => TypeOK
<1> SUFFICES ASSUME Init PROVE TypeOK
  OBVIOUS
<1>1. md \in Seq(MdRow) /\ cells \in [Days -> Seq(Cell)]
  BY DEF Init
<1>2. rec \in [Procs -> MdRow \cup {NoRec}]
  BY DEF Init
<1>3. pc \in [Procs -> {"idle", "md", "mark", "read"}] /\ \A p \in Procs : pc[p] = "idle"
  BY DEF Init
<1>4. last \in [Procs -> Nat] /\ role \in [Procs -> {"none", "master", "reader"}]
  BY DEF Init
<1> QED
  BY <1>1, <1>2, <1>3, <1>4 DEF Init, TypeOK

LEMMA StepTyping == TypeOK /\ [Next]_vars => TypeOK'
<1> SUFFICES ASSUME TypeOK, [Next]_vars PROVE TypeOK'
  OBVIOUS
<1>1. CASE UNCHANGED vars
  BY <1>1 DEF vars, TypeOK
<1>2. ASSUME NEW p \in Procs, NEW wanted \in {"master", "reader"}, Start(p, wanted)
      PROVE  TypeOK'
  BY <1>2 DEF Start, TypeOK, disk, hist
<1>3. ASSUME NEW p \in Procs, Stop(p) PROVE TypeOK'
  BY <1>3, GoneTyping DEF Stop, TypeOK, disk, hist
<1>4. ASSUME NEW p \in Procs, NEW m \in Msgs, NEW d \in Days, AppendContent(p, m, d)
      PROVE  TypeOK'
  <2> DEFINE row == [rowid |-> last[p] + 1, msg |-> m, day |-> d,
                     off |-> Len(cells[d]) + 1, deleted |-> FALSE, flags |-> {}]
  <2>1. row \in MdRow
    BY DEF TypeOK, MdRow
  <2>2. cells' \in [Days -> Seq(Cell)]
    BY <1>4, CellAdded DEF AppendContent, Cell
  <2>3. rec' = [rec EXCEPT ![p] = row]
    BY <1>4 DEF AppendContent
  <2> HIDE DEF row
  <2> QED
    BY <1>4, <2>1, <2>2, <2>3 DEF AppendContent, TypeOK, hist
<1>5. ASSUME NEW p \in Procs, NEW d \in Days, AppendContentShort(p, d)
      PROVE  TypeOK'
  <2>1. cells' \in [Days -> Seq(Cell)]
    <3>1. "torn" \in Cell
      BY DEF Cell
    <3>2. [cells EXCEPT ![d] = Append(@, "torn")] \in [Days -> Seq(Cell)]
      BY <3>1, CellAdded
    <3> QED
      BY <1>5, <3>2 DEF AppendContentShort, TypeOK
  <2>2. shorts' \in Nat
    BY <1>5 DEF AppendContentShort, CutShort, TypeOK
  <2>3. Gone(p) \/ (Return(p) /\ UNCHANGED last)
    BY <1>5 DEF AppendContentShort
  <2> QED
    BY <1>5, <2>1, <2>2, <2>3, GoneTyping, ReturnTyping DEF AppendContentShort, TypeOK
<1>6. ASSUME NEW p \in Procs, AppendMd(p) PROVE TypeOK'
  <2>1. md' \in Seq(MdRow)
    BY <1>6, RowAdded DEF AppendMd, TypeOK
  <2> QED
    BY <1>6, <2>1, AcknowledgeTyping, ReturnTyping DEF AppendMd, Acknowledge, TypeOK
<1>7. ASSUME NEW p \in Procs, AppendMdFails(p) PROVE TypeOK'
  <2>1. tail' \in BOOLEAN /\ shorts' \in Nat
    BY <1>7 DEF AppendMdFails, CutShort, TypeOK
  <2>2. (Gone(p) /\ UNCHANGED acked) \/ Acknowledge(p)
    BY <1>7 DEF AppendMdFails
  <2>3. CASE Gone(p) /\ UNCHANGED acked
    BY <1>7, <2>1, <2>3, GoneTyping DEF AppendMdFails, TypeOK
  <2>4. CASE Acknowledge(p)
    BY <1>7, <2>1, <2>4, AcknowledgeTyping, ReturnTyping
       DEF AppendMdFails, Acknowledge, TypeOK
  <2> QED
    BY <2>2, <2>3, <2>4
<1>8. ASSUME NEW p \in Procs, NEW r \in DOMAIN md,
             DeleteBlank(p, r) \/ DeleteBlankFails(p, r)
      PROVE  TypeOK'
  <2>1. cells' \in [Days -> Seq(Cell)]
    <3>1. "blank" \in Cell /\ md[r].day \in Days /\ md[r].off \in Nat
      BY Fields DEF Cell
    <3>2. [cells EXCEPT ![md[r].day][md[r].off] = "blank"] \in [Days -> Seq(Cell)]
      BY <3>1, CellSetTyping
    <3> QED
      BY <1>8, <3>2 DEF DeleteBlank, DeleteBlankFails, TypeOK
  <2>2. gone' \subseteq Msgs /\ shorts' \in Nat
    <3>1. md[r].msg \in Msgs
      BY Fields
    <3>2. gone \subseteq Msgs /\ shorts \in Nat
      BY DEF TypeOK
    <3> QED
      BY <1>8, <3>1, <3>2 DEF DeleteBlank, DeleteBlankFails, CutShort
  <2>3. md[r] \in MdRow
    BY Fields
  <2> QED
    BY <1>8, <2>1, <2>2, <2>3 DEF DeleteBlank, DeleteBlankFails, TypeOK
<1>9. ASSUME NEW p \in Procs, DeleteMark(p) PROVE TypeOK'
  <2> DEFINE row == [rec[p] EXCEPT !.deleted = TRUE]
             n   == rec[p].rowid
  <2>1. row \in MdRow /\ n \in Nat
    BY <1>9 DEF DeleteMark, TypeOK, MdRow
  <2>2. md' = [md EXCEPT ![n] = row]
    BY <1>9 DEF DeleteMark
  <2> HIDE DEF row, n
  <2>3. n \in DOMAIN md => md' \in Seq(MdRow)
    BY <2>1, <2>2, RowChange
  <2>4. n \notin DOMAIN md => md' = md
    BY <2>2 DEF TypeOK
  <2>5. md' \in Seq(MdRow)
    BY <2>3, <2>4 DEF TypeOK
  <2> QED
    BY <1>9, <2>5, ReturnTyping DEF DeleteMark, TypeOK, hist
<1>10. ASSUME NEW p \in Procs, NEW r \in DOMAIN md, NEW mask \in SUBSET UserFlags,
              \/ SetUserFlag(p, r, mask, TRUE) \/ SetUserFlag(p, r, mask, FALSE)
              \/ WriteUserFlag(p, r, mask)
              \/ WriteMark1(p, r, TRUE) \/ WriteMark1(p, r, FALSE)
       PROVE  TypeOK'
  <2>1. md[r].flags \subseteq UserFlags \cup {"mark1"}
    BY Fields
  <2>2. PICK flags \in SUBSET (UserFlags \cup {"mark1"}) : WriteFlags(p, r, flags)
    BY <1>10, <2>1 DEF SetUserFlag, WriteUserFlag, WriteMark1
  <2> QED
    BY <2>2, WriteFlagsTyping
<1>11. ASSUME NEW p \in Procs, NEW r \in DOMAIN md, GetRecord(p, r) PROVE TypeOK'
  <2>1. md[r] \in MdRow /\ r \in Nat
    BY Fields
  <2> QED
    BY <1>11, <2>1 DEF GetRecord, TypeOK, disk, hist
<1>12. ASSUME NEW p \in Procs, GetRecordPartial(p) PROVE TypeOK'
  BY <1>12, GoneTyping DEF GetRecordPartial, TypeOK, disk, hist
<1>13. ASSUME NEW p \in Procs, ReadContent(p) PROVE TypeOK'
  BY <1>13, ReturnTyping DEF ReadContent, TypeOK, disk, hist
<1>14. CASE Next
  <2>1. PICK p \in Procs :
           \/ Start(p, "master") \/ Start(p, "reader") \/ Stop(p)
           \/ \E m \in Msgs, d \in Days : AppendContent(p, m, d)
           \/ \E d \in Days : AppendContentShort(p, d)
           \/ AppendMd(p) \/ AppendMdFails(p)
           \/ \E r \in DOMAIN md :
                 \/ DeleteBlank(p, r) \/ DeleteBlankFails(p, r)
                 \/ \E mask \in SUBSET UserFlags :
                       \/ SetUserFlag(p, r, mask, TRUE) \/ SetUserFlag(p, r, mask, FALSE)
                       \/ WriteUserFlag(p, r, mask)
                 \/ WriteMark1(p, r, TRUE) \/ WriteMark1(p, r, FALSE)
                 \/ GetRecord(p, r)
           \/ DeleteMark(p) \/ GetRecordPartial(p) \/ ReadContent(p)
    BY <1>14 DEF Next
  <2>2. {} \in SUBSET UserFlags
    OBVIOUS
  <2> QED
    BY <2>1, <2>2, <1>2, <1>3, <1>4, <1>5, <1>6, <1>7, <1>8, <1>9, <1>10, <1>11,
       <1>12, <1>13
<1> QED
  BY <1>1, <1>14

\* Types are right in every state, also when critical errors let the process go on.
THEOREM TypeCorrect == Spec => []TypeOK
<1> QED
  BY InitTyping, StepTyping, PTL DEF Spec

-----------------------------------------------------------------------------
(* The invariant, when a critical error ends the process *)

LEMMA InitIInv == Init => LockInv /\ RecInv /\ ContentIsOwn /\ MasterKnowsEnd /\ Durable
BY TimeRangerAssumption
   DEF Init, LockInv, RecInv, AppendInv, HoldInv, MarkInv, ContentIsOwn, MasterKnowsEnd,
       Durable, Master, Running

\* The record store does not change when a process starts, ends or reads.
LEMMA DiskUnchanged ==
    ASSUME ContentIsOwn, Durable, UNCHANGED <<md, cells, acked, gone>>
    PROVE  ContentIsOwn' /\ Durable'
BY DEF ContentIsOwn, Durable, CellOf

\* The content files only grow.
CellsGrow == \A e \in Days : \A i \in DOMAIN cells[e] :
                i \in DOMAIN cells'[e] /\ cells'[e][i] = cells[e][i]

\* Rows keep their place and what they point at.
RowsStay == \A r \in DOMAIN md :
                /\ r \in DOMAIN md'
                /\ md'[r].msg = md[r].msg /\ md'[r].day = md[r].day /\ md'[r].off = md[r].off

\* A process that takes no part in a step.
Bystander(x) == pc'[x] = pc[x] /\ rec'[x] = rec[x] /\ last'[x] = last[x]

\* A record is still held when rows stay, and still blank when no content
\* comes back.
LEMMA BystanderKeeps ==
    ASSUME IInv, NEW x \in Procs, Bystander(x), RowsStay, gone \subseteq gone', CellsGrow
    PROVE  AppendInv(x)' /\ HoldInv(x)' /\ MarkInv(x)'
<1> USE DEF Bystander
<1>1. HoldInv(x) /\ AppendInv(x) /\ MarkInv(x)
  BY DEF IInv, RecInv
<1>2. HoldInv(x)'
  BY <1>1 DEF HoldInv, RowsStay
<1>3. CASE pc[x] = "idle"
  BY <1>2, <1>3 DEF AppendInv, MarkInv
<1>4. CASE pc[x] # "idle"
  <2>1. rec[x] \in MdRow
    BY <1>4 DEF IInv, TypeOK
  <2>2. rec[x].day \in Days
    BY <2>1 DEF MdRow
  <2>3. AppendInv(x)'
    BY <1>1, <2>2 DEF AppendInv, CellsGrow
  <2>4. pc[x] = "mark" => rec[x].off \in DOMAIN cells[rec[x].day]
    <3>1. \A r \in DOMAIN md : md[r].off \in DOMAIN cells[md[r].day]
      BY DEF IInv, ContentIsOwn
    <3> QED
      BY <1>1, <3>1 DEF HoldInv
  <2>5. MarkInv(x)'
    BY <1>1, <2>2, <2>4 DEF MarkInv, CellsGrow
  <2> QED
    BY <1>2, <2>3, <2>5
<1> QED
  BY <1>3, <1>4

\* A process that ends leaves the others as they are, and the lock free if it
\* had it.
LEMMA GoneKeeps ==
    ASSUME IInv, NEW p \in Procs, Gone(p), UNCHANGED <<md, gone>>, CellsGrow
    PROVE  LockInv' /\ RecInv' /\ MasterKnowsEnd'
<1> USE DEF IInv, TypeOK
<1>1. /\ role'[p] = "none" /\ pc'[p] = "idle"
      /\ \A x \in Procs \ {p} : role'[x] = role[x] /\ Bystander(x)
  BY DEF Gone, Bystander
<1>2. lock' = IF lock = p THEN NoProc ELSE lock
  BY DEF Gone
<1>3. LockInv'
  BY <1>1, <1>2, TimeRangerAssumption DEF LockInv, Master, Running, Bystander
<1>4. MasterKnowsEnd'
  BY <1>1 DEF MasterKnowsEnd, Master, Bystander
<1>5. RowsStay
  BY DEF RowsStay
<1>6. \A x \in Procs \ {p} : AppendInv(x)' /\ HoldInv(x)' /\ MarkInv(x)'
  BY <1>1, <1>5, BystanderKeeps
<1>7. AppendInv(p)' /\ HoldInv(p)' /\ MarkInv(p)'
  BY <1>1 DEF AppendInv, HoldInv, MarkInv
<1> QED
  BY <1>3, <1>4, <1>6, <1>7 DEF RecInv

LEMMA StartKeeps ==
    ASSUME IInv, NEW p \in Procs, NEW wanted \in {"master", "reader"}, Start(p, wanted)
    PROVE  LockInv' /\ RecInv' /\ ContentIsOwn' /\ MasterKnowsEnd' /\ Durable'
<1> USE DEF IInv, TypeOK
<1>1. /\ pc' = pc /\ rec' = rec /\ md' = md /\ cells' = cells /\ gone' = gone
      /\ acked' = acked /\ role[p] = "none" /\ pc[p] = "idle"
  BY DEF Start, disk, hist, LockInv, Running
<1>2. /\ \A x \in Procs \ {p} : role'[x] = role[x] /\ last'[x] = last[x]
      /\ last'[p] = Len(md)
  BY DEF Start
<1>3. \/ lock = NoProc /\ role'[p] = "master" /\ lock' = p
      \/ role'[p] = "reader" /\ lock' = lock
  BY DEF Start
<1>4. LockInv'
  BY <1>1, <1>2, <1>3, TimeRangerAssumption DEF LockInv, Master, Running
<1>5. MasterKnowsEnd'
  BY <1>1, <1>2 DEF MasterKnowsEnd, Master
<1>6. RecInv'
  BY <1>1, <1>2 DEF RecInv, AppendInv, HoldInv, MarkInv
<1> QED
  BY <1>1, <1>4, <1>5, <1>6, DiskUnchanged

LEMMA GetRecordKeeps ==
    ASSUME IInv, NEW p \in Procs, NEW r \in DOMAIN md, GetRecord(p, r)
    PROVE  LockInv' /\ RecInv' /\ ContentIsOwn' /\ MasterKnowsEnd' /\ Durable'
<1> USE DEF IInv, TypeOK
<1>1. /\ role' = role /\ lock' = lock /\ md' = md /\ cells' = cells /\ gone' = gone
      /\ acked' = acked
  BY DEF GetRecord, disk, hist
<1>2. /\ \A x \in Procs \ {p} : Bystander(x)
      /\ pc'[p] = "read" /\ rec'[p] = md[r]
      /\ role[p] # "none" /\ (Master(p) => r <= last[p])
      /\ last'[p] = IF last[p] < r THEN r ELSE last[p]
  BY DEF GetRecord, Running, Bystander
<1>3. LockInv'
  BY <1>1, <1>2 DEF LockInv, Master, Running, Bystander
<1>4. MasterKnowsEnd'
  BY <1>1, <1>2, Fields DEF MasterKnowsEnd, Master, Bystander
<1>5. CellsGrow /\ RowsStay
  BY <1>1 DEF CellsGrow, RowsStay
<1>6. \A x \in Procs \ {p} : AppendInv(x)' /\ HoldInv(x)' /\ MarkInv(x)'
  BY <1>1, <1>2, <1>5, BystanderKeeps
<1>7. AppendInv(p)' /\ HoldInv(p)' /\ MarkInv(p)'
  BY <1>1, <1>2 DEF AppendInv, HoldInv, MarkInv, ContentIsOwn
<1> QED
  BY <1>1, <1>3, <1>4, <1>6, <1>7, DiskUnchanged DEF RecInv

LEMMA ReadContentKeeps ==
    ASSUME IInv, NEW p \in Procs, ReadContent(p)
    PROVE  LockInv' /\ RecInv' /\ ContentIsOwn' /\ MasterKnowsEnd' /\ Durable'
<1> USE DEF IInv, TypeOK
<1>1. /\ role' = role /\ lock' = lock /\ md' = md /\ cells' = cells /\ gone' = gone
      /\ acked' = acked /\ last' = last
  BY DEF ReadContent, Return, disk, hist
<1>2. /\ \A x \in Procs \ {p} : pc'[x] = pc[x] /\ rec'[x] = rec[x]
      /\ pc'[p] = "idle"
  BY DEF ReadContent, Return
<1>3. LockInv'
  BY <1>1, <1>2 DEF LockInv, Master, Running
<1>4. MasterKnowsEnd'
  BY <1>1 DEF MasterKnowsEnd, Master
<1>5. RecInv'
  BY <1>1, <1>2 DEF RecInv, AppendInv, HoldInv, MarkInv
<1> QED
  BY <1>1, <1>3, <1>4, <1>5, DiskUnchanged

\* Files that grow do not disturb what the index points at.
LEMMA CellsGrowKeep ==
    ASSUME IInv, CellsGrow, UNCHANGED <<md, acked, gone>>
    PROVE  ContentIsOwn' /\ Durable'
<1>1. \A r \in DOMAIN md : /\ md[r].off \in DOMAIN cells'[md[r].day]
                           /\ cells'[md[r].day][md[r].off] = CellOf(r)
  BY Fields DEF IInv, ContentIsOwn, CellsGrow, CellOf
<1>2. \A r \in DOMAIN md : CellOf(r)' = CellOf(r)
  BY <1>1 DEF CellOf
<1>3. ContentIsOwn'
  BY <1>1, <1>2 DEF IInv, ContentIsOwn
<1>4. Durable'
  BY <1>2 DEF IInv, Durable
<1> QED
  BY <1>3, <1>4

LEMMA AppendContentKeeps ==
    ASSUME IInv, NEW p \in Procs, NEW m \in Msgs, NEW d \in Days, AppendContent(p, m, d)
    PROVE  LockInv' /\ RecInv' /\ ContentIsOwn' /\ MasterKnowsEnd' /\ Durable'
<1> USE DEF IInv
<1> DEFINE row == [rowid |-> last[p] + 1, msg |-> m, day |-> d,
                   off |-> Len(cells[d]) + 1, deleted |-> FALSE, flags |-> {}]
<1>1. /\ role' = role /\ lock' = lock /\ md' = md /\ gone' = gone /\ acked' = acked
      /\ last' = last /\ Master(p)
      /\ cells' = [cells EXCEPT ![d] = Append(@, m)]
  BY DEF AppendContent, hist
<1>2. /\ \A x \in Procs \ {p} : Bystander(x)
      /\ pc'[p] = "md" /\ rec'[p] = row
  BY DEF AppendContent, Bystander, TypeOK
<1>3. CellsGrow /\ cells'[d][Len(cells[d]) + 1] = m /\ Len(cells[d]) + 1 \in DOMAIN cells'[d]
  <2>1. m \in Cell
    BY DEF Cell
  <2> QED
    BY <1>1, <2>1, CellAdded DEF CellsGrow
<1>4. LockInv'
  BY <1>1, <1>2 DEF LockInv, Master, Running, Bystander
<1>5. MasterKnowsEnd'
  BY <1>1 DEF MasterKnowsEnd, Master
<1>6. RowsStay
  BY <1>1 DEF RowsStay
<1>7. \A x \in Procs \ {p} : AppendInv(x)' /\ HoldInv(x)' /\ MarkInv(x)'
  BY <1>1, <1>2, <1>3, <1>6, BystanderKeeps
<1>8. AppendInv(p)' /\ HoldInv(p)' /\ MarkInv(p)'
  BY <1>1, <1>2, <1>3 DEF AppendInv, HoldInv, MarkInv
<1> QED
  BY <1>1, <1>3, <1>4, <1>5, <1>7, <1>8, CellsGrowKeep DEF RecInv

LEMMA AppendContentShortKeeps ==
    ASSUME ExitOnCritical, IInv, NEW p \in Procs, NEW d \in Days, AppendContentShort(p, d)
    PROVE  LockInv' /\ RecInv' /\ ContentIsOwn' /\ MasterKnowsEnd' /\ Durable'
<1>1. Gone(p) /\ UNCHANGED <<md, gone, acked>>
  BY DEF AppendContentShort
<1>2. CellsGrow
  <2>1. "torn" \in Cell
    BY DEF Cell
  <2>2. cells' = cells \/ cells' = [cells EXCEPT ![d] = Append(@, "torn")]
    BY DEF AppendContentShort
  <2> QED
    BY <2>1, <2>2, CellAdded DEF CellsGrow, IInv
<1> QED
  BY <1>1, <1>2, GoneKeeps, CellsGrowKeep

LEMMA AppendMdKeeps ==
    ASSUME IInv, NEW p \in Procs, AppendMd(p)
    PROVE  LockInv' /\ RecInv' /\ ContentIsOwn' /\ MasterKnowsEnd' /\ Durable'
<1> USE DEF IInv
<1>1. /\ role' = role /\ lock' = lock /\ cells' = cells /\ gone' = gone
      /\ acked' = acked \cup {rec[p].msg} /\ pc[p] = "md" /\ md' = Append(md, rec[p])
      /\ Len(md) = rec[p].rowid - 1
  BY DEF AppendMd, Acknowledge, Return, IndexFits
<1>2. /\ \A x \in Procs \ {p} : Bystander(x)
      /\ pc'[p] = "idle" /\ last'[p] = rec[p].rowid
  BY DEF AppendMd, Acknowledge, Return, Bystander, TypeOK
<1>3. /\ rec[p] \in MdRow /\ rec[p].rowid \in Nat /\ rec[p].day \in Days
      /\ rec[p].deleted \in BOOLEAN
  BY <1>1 DEF TypeOK, MdRow
<1>4. /\ Len(md') = Len(md) + 1 /\ DOMAIN md' = 1 .. Len(md) + 1
      /\ md'[Len(md) + 1] = rec[p] /\ Len(md) \in Nat
      /\ \A r \in DOMAIN md : md'[r] = md[r]
      /\ \A r \in DOMAIN md' : r \in DOMAIN md \/ r = Len(md) + 1
  BY <1>1, <1>3, RowAdded DEF TypeOK
<1>5. Master(p) /\ AppendInv(p)
  BY <1>1 DEF LockInv, RecInv
<1>6. LockInv'
  BY <1>1, <1>2 DEF LockInv, Master, Running, Bystander
<1>7. MasterKnowsEnd'
  <2>1. \A x \in Procs : Master(x) => x = p
    BY <1>5 DEF LockInv
  <2> QED
    BY <1>1, <1>2, <1>3, <1>4, <2>1 DEF MasterKnowsEnd, Master
<1>8. RowsStay /\ CellsGrow
  BY <1>1, <1>4 DEF RowsStay, CellsGrow
<1>9. \A x \in Procs \ {p} : AppendInv(x)' /\ HoldInv(x)' /\ MarkInv(x)'
  BY <1>1, <1>2, <1>8, BystanderKeeps
<1>10. AppendInv(p)' /\ HoldInv(p)' /\ MarkInv(p)'
  BY <1>2 DEF AppendInv, HoldInv, MarkInv
<1>. PICK n \in Nat : n = Len(md) + 1
  BY <1>4
<1>11. /\ \A r \in DOMAIN md : CellOf(r)' = CellOf(r)
       /\ cells'[rec[p].day][rec[p].off] = rec[p].msg
       /\ rec[p].off \in DOMAIN cells'[rec[p].day]
       /\ CellOf(n)' = rec[p].msg
  <2>1. \A r \in DOMAIN md : CellOf(r)' = CellOf(r)
    BY <1>1, <1>4 DEF CellOf
  <2>2. /\ cells[rec[p].day][rec[p].off] = rec[p].msg
        /\ rec[p].off \in DOMAIN cells[rec[p].day]
    BY <1>1, <1>5 DEF AppendInv
  <2>3. CellOf(n)' = rec[p].msg
    BY <1>1, <1>4, <2>2 DEF CellOf
  <2> QED
    BY <1>1, <2>1, <2>2, <2>3
<1>12. ContentIsOwn'
  <2> SUFFICES ASSUME NEW r \in DOMAIN md'
               PROVE  /\ md'[r].rowid = r
                      /\ md'[r].off \in DOMAIN cells'[md'[r].day]
                      /\ \/ CellOf(r)' = md'[r].msg
                         \/ CellOf(r)' = "blank" /\ md'[r].msg \in gone'
                      /\ md'[r].deleted => CellOf(r)' = "blank"
    BY DEF ContentIsOwn
  <2>1. CASE r \in DOMAIN md
    BY <1>1, <1>4, <1>11, <2>1 DEF ContentIsOwn
  <2>2. CASE r = n
    <3>1. md'[r] = rec[p] /\ rec[p].rowid = r /\ ~rec[p].deleted
      BY <1>1, <1>3, <1>4, <1>5, <2>2 DEF AppendInv
    <3>2. CellOf(r)' = rec[p].msg
      BY <1>11, <2>2
    <3> QED
      BY <1>11, <3>1, <3>2
  <2> QED
    BY <1>4, <2>1, <2>2
<1>13. Durable'
  <2> SUFFICES ASSUME NEW m \in acked'
               PROVE  \E r \in DOMAIN md' : /\ md'[r].msg = m
                                            /\ m \notin gone' => CellOf(r)' = m
    BY DEF Durable
  <2>1. CASE m \in acked
    <3>1. PICK r \in DOMAIN md : md[r].msg = m /\ (m \notin gone => CellOf(r) = m)
      <4> HIDE DEF IInv
      <4>1. Durable
        BY DEF IInv
      <4> QED
        BY <2>1, <4>1 DEF Durable
    <3>2. r \in DOMAIN md' /\ md'[r].msg = m /\ (m \notin gone' => CellOf(r)' = m)
      BY <1>1, <1>4, <1>8, <1>11, <3>1 DEF RowsStay
    <3> QED
      BY <3>2
  <2>2. CASE m = rec[p].msg
    <3>1. n \in DOMAIN md' /\ md'[n].msg = m /\ CellOf(n)' = m
      BY <1>4, <1>11, <2>2
    <3> QED
      BY <3>1
  <2> QED
    BY <1>1, <2>1, <2>2
<1> QED
  BY <1>6, <1>7, <1>9, <1>10, <1>12, <1>13 DEF RecInv

LEMMA AppendMdFailsKeeps ==
    ASSUME ExitOnCritical, IInv, NEW p \in Procs, AppendMdFails(p)
    PROVE  LockInv' /\ RecInv' /\ ContentIsOwn' /\ MasterKnowsEnd' /\ Durable'
<1>1. Gone(p) /\ UNCHANGED <<md, cells, gone, acked>>
  BY DEF AppendMdFails
<1>2. CellsGrow
  BY <1>1 DEF CellsGrow
<1> QED
  BY <1>1, <1>2, GoneKeeps, CellsGrowKeep

\* The blank of a content that is being deleted.
LEMMA DeleteBlankKeeps ==
    ASSUME IInv, NEW p \in Procs, NEW r \in DOMAIN md,
           DeleteBlank(p, r) \/ DeleteBlankFails(p, r)
    PROVE  LockInv' /\ RecInv' /\ ContentIsOwn' /\ MasterKnowsEnd' /\ Durable'
<1> DEFINE d == md[r].day
           o == md[r].off
<1>1. /\ TypeOK /\ LockInv /\ RecInv /\ ContentIsOwn /\ MasterKnowsEnd /\ Durable
      /\ d \in Days /\ o \in DOMAIN cells[d]
  BY Fields DEF IInv, ContentIsOwn
<1>2. /\ role' = role /\ lock' = lock /\ last' = last /\ md' = md /\ acked' = acked
      /\ gone' = gone \cup {md[r].msg} /\ Master(p) /\ pc[p] = "idle"
      /\ cells' = cells \/ cells' = [cells EXCEPT ![d][o] = "blank"]
  BY DEF DeleteBlank, DeleteBlankFails
<1>3. /\ \A e \in Days : DOMAIN cells'[e] = DOMAIN cells[e]
      /\ \A e \in Days : \A i \in DOMAIN cells[e] :
            \/ cells'[e][i] = cells[e][i]
            \/ e = d /\ i = o /\ cells'[e][i] = "blank"
  <2>1. "blank" \in Cell
    BY DEF Cell
  <2>2. CASE cells' = cells
    BY <2>2
  <2>3. CASE cells' = [cells EXCEPT ![d][o] = "blank"]
    <3> HIDE DEF d, o
    <3> QED
      BY <1>1, <2>1, <2>3, CellChange
  <2> QED
    BY <1>2, <2>2, <2>3
<1>4. \/ pc' = pc /\ rec' = rec
      \/ /\ pc' = [pc EXCEPT ![p] = "mark"] /\ rec' = [rec EXCEPT ![p] = md[r]]
         /\ cells'[d][o] = "blank"
  <2>1. CASE DeleteBlank(p, r)
    <3>1. "blank" \in Cell
      BY DEF Cell
    <3>2. cells' = [cells EXCEPT ![d][o] = "blank"]
      BY <2>1 DEF DeleteBlank
    <3>3. cells'[d][o] = "blank"
      <4> HIDE DEF d, o
      <4> QED
        BY <1>1, <3>1, <3>2, CellChange
    <3> QED
      BY <2>1, <3>3 DEF DeleteBlank
  <2>2. CASE DeleteBlankFails(p, r)
    BY <2>2 DEF DeleteBlankFails
  <2> QED
    BY <2>1, <2>2
<1> HIDE DEF d, o
<1>5. \A x \in Procs \ {p} : pc'[x] = pc[x] /\ rec'[x] = rec[x]
  BY <1>4, <1>1 DEF TypeOK
<1>6. LockInv'
  BY <1>1, <1>2, <1>4, <1>5 DEF LockInv, Master, Running, TypeOK
<1>7. MasterKnowsEnd'
  BY <1>1, <1>2 DEF MasterKnowsEnd, Master
<1>8. \A x \in Procs \ {p} : pc[x] \notin {"md", "mark"}
  BY <1>1, <1>2 DEF LockInv
<1>9. \A x \in Procs \ {p} : AppendInv(x)' /\ HoldInv(x)' /\ MarkInv(x)'
  BY <1>1, <1>2, <1>5, <1>8 DEF RecInv, AppendInv, HoldInv, MarkInv
<1>10. AppendInv(p)' /\ HoldInv(p)' /\ MarkInv(p)'
  <2>1. CASE pc' = pc /\ rec' = rec
    BY <1>2, <2>1 DEF AppendInv, HoldInv, MarkInv
  <2>2. CASE /\ pc' = [pc EXCEPT ![p] = "mark"] /\ rec' = [rec EXCEPT ![p] = md[r]]
             /\ cells'[d][o] = "blank"
    <3>1. pc'[p] = "mark" /\ rec'[p] = md[r] /\ md[r].rowid = r
      BY <1>1, <2>2 DEF TypeOK, ContentIsOwn
    <3> QED
      BY <1>2, <2>2, <3>1 DEF AppendInv, HoldInv, MarkInv, d, o
  <2> QED
    BY <1>4, <2>1, <2>2
<1>11. \A s \in DOMAIN md : /\ md[s].off \in DOMAIN cells'[md[s].day]
                            /\ \/ CellOf(s)' = CellOf(s)
                               \/ CellOf(s)' = "blank" /\ md[s].msg \in gone'
  <2> SUFFICES ASSUME NEW s \in DOMAIN md
               PROVE  /\ md[s].off \in DOMAIN cells'[md[s].day]
                      /\ \/ CellOf(s)' = CellOf(s)
                         \/ CellOf(s)' = "blank" /\ md[s].msg \in gone'
    OBVIOUS
  <2>1. md[s].day \in Days /\ md[s].off \in DOMAIN cells[md[s].day]
    BY <1>1, Fields DEF ContentIsOwn
  <2>2. CASE md[s].day = d /\ md[s].off = o
    <3>1. CellOf(s) = CellOf(r)
      BY <2>2 DEF CellOf, d, o
    <3>2. md[s].msg = md[r].msg \/ md[s].msg \in gone
      <4>1. md[s].msg \in Msgs /\ md[r].msg \in Msgs
        BY <1>1, Fields
      <4> QED
        BY <1>1, <3>1, <4>1, TimeRangerAssumption DEF ContentIsOwn
    <3> QED
      BY <1>2, <1>3, <2>1, <2>2, <3>2 DEF CellOf
  <2>3. CASE ~(md[s].day = d /\ md[s].off = o)
    BY <1>2, <1>3, <2>1, <2>3 DEF CellOf
  <2> QED
    BY <2>2, <2>3
<1>12. ContentIsOwn'
  BY <1>1, <1>2, <1>11 DEF ContentIsOwn
<1>13. Durable'
  BY <1>1, <1>2, <1>11, Fields, TimeRangerAssumption DEF Durable
<1> QED
  BY <1>6, <1>7, <1>9, <1>10, <1>12, <1>13 DEF RecInv

LEMMA DeleteMarkKeeps ==
    ASSUME IInv, NEW p \in Procs, DeleteMark(p)
    PROVE  LockInv' /\ RecInv' /\ ContentIsOwn' /\ MasterKnowsEnd' /\ Durable'
<1> DEFINE row == [rec[p] EXCEPT !.deleted = TRUE]
           n   == rec[p].rowid
<1>1. /\ TypeOK /\ LockInv /\ RecInv /\ ContentIsOwn /\ MasterKnowsEnd /\ Durable
      /\ AppendInv(p) /\ HoldInv(p) /\ MarkInv(p) /\ pc[p] = "mark"
  BY DEF IInv, RecInv, DeleteMark
<1>2. /\ rec[p] \in MdRow /\ n \in DOMAIN md
      /\ row \in MdRow /\ row.rowid = n /\ row.msg = md[n].msg /\ row.day = md[n].day
      /\ row.off = md[n].off
  BY <1>1 DEF TypeOK, MdRow, HoldInv
<1>3. /\ role' = role /\ lock' = lock /\ last' = last /\ cells' = cells /\ acked' = acked
      /\ gone' = gone /\ md' = [md EXCEPT ![n] = row] /\ pc'[p] = "idle"
      /\ \A x \in Procs \ {p} : Bystander(x)
  BY <1>1 DEF DeleteMark, Return, hist, Bystander, TypeOK
<1> HIDE DEF row, n
<1>4. /\ Len(md') = Len(md) /\ DOMAIN md' = DOMAIN md
      /\ \A r \in DOMAIN md : md'[r] = IF r = n THEN row ELSE md[r]
  BY <1>1, <1>2, <1>3, RowChange
<1>5. md[n].rowid = n
  BY <1>1, <1>2 DEF ContentIsOwn
<1>6. \A r \in DOMAIN md : /\ md'[r].rowid = r /\ md'[r].msg = md[r].msg
                           /\ md'[r].day = md[r].day /\ md'[r].off = md[r].off
                           /\ md'[r].deleted => r = n \/ md[r].deleted
  BY <1>1, <1>2, <1>4 DEF ContentIsOwn
<1>7. RowsStay /\ CellsGrow
  BY <1>3, <1>4, <1>6 DEF RowsStay, CellsGrow
<1>8. \A x \in Procs \ {p} : AppendInv(x)' /\ HoldInv(x)' /\ MarkInv(x)'
  BY <1>3, <1>7, BystanderKeeps
<1>9. AppendInv(p)' /\ HoldInv(p)' /\ MarkInv(p)'
  BY <1>3 DEF AppendInv, HoldInv, MarkInv
<1>10. LockInv'
  BY <1>1, <1>3 DEF LockInv, Master, Running, Bystander
<1>11. MasterKnowsEnd'
  BY <1>1, <1>3, <1>4 DEF MasterKnowsEnd, Master
<1>12. /\ \A r \in DOMAIN md : CellOf(r)' = CellOf(r)
       /\ CellOf(n) = "blank"
  BY <1>1, <1>2, <1>3, <1>6 DEF CellOf, MarkInv, row
<1>13. ContentIsOwn'
  BY <1>1, <1>3, <1>4, <1>6, <1>12 DEF ContentIsOwn
<1>14. Durable'
  BY <1>1, <1>3, <1>4, <1>6, <1>12 DEF Durable
<1> QED
  BY <1>8, <1>9, <1>10, <1>11, <1>13, <1>14 DEF RecInv

LEMMA WriteFlagsKeeps ==
    ASSUME IInv, NEW p \in Procs, NEW n \in DOMAIN md,
           NEW flags \in SUBSET (UserFlags \cup {"mark1"}), WriteFlags(p, n, flags)
    PROVE  LockInv' /\ RecInv' /\ ContentIsOwn' /\ MasterKnowsEnd' /\ Durable'
<1> DEFINE row == [md[n] EXCEPT !.flags = flags]
<1>1. /\ TypeOK /\ LockInv /\ RecInv /\ ContentIsOwn /\ MasterKnowsEnd /\ Durable
  BY DEF IInv
<1>2. /\ row \in MdRow /\ row.rowid = md[n].rowid /\ row.msg = md[n].msg
      /\ row.day = md[n].day /\ row.off = md[n].off /\ row.deleted = md[n].deleted
  BY <1>1, Fields DEF MdRow
<1>3. /\ role' = role /\ lock' = lock /\ last' = last /\ cells' = cells /\ acked' = acked
      /\ gone' = gone /\ md' = [md EXCEPT ![n] = row] /\ pc' = pc /\ rec' = rec
  BY DEF WriteFlags, hist
<1> HIDE DEF row
<1>4. /\ Len(md') = Len(md) /\ DOMAIN md' = DOMAIN md
      /\ \A r \in DOMAIN md : md'[r] = IF r = n THEN row ELSE md[r]
  BY <1>1, <1>2, <1>3, RowChange
<1>5. \A r \in DOMAIN md : /\ md'[r].rowid = md[r].rowid /\ md'[r].msg = md[r].msg
                           /\ md'[r].day = md[r].day /\ md'[r].off = md[r].off
                           /\ md'[r].deleted = md[r].deleted
  BY <1>2, <1>4
<1>6. RowsStay /\ CellsGrow /\ \A x \in Procs : Bystander(x)
  BY <1>3, <1>4, <1>5 DEF RowsStay, CellsGrow, Bystander
<1>7. RecInv'
  BY <1>3, <1>6, BystanderKeeps DEF RecInv
<1>8. LockInv'
  BY <1>1, <1>3 DEF LockInv, Master, Running
<1>9. MasterKnowsEnd'
  BY <1>1, <1>3, <1>4 DEF MasterKnowsEnd, Master
<1>10. \A r \in DOMAIN md : CellOf(r)' = CellOf(r)
  BY <1>3, <1>5 DEF CellOf
<1>11. ContentIsOwn'
  BY <1>1, <1>3, <1>4, <1>5, <1>10 DEF ContentIsOwn
<1>12. Durable'
  BY <1>1, <1>3, <1>4, <1>5, <1>10 DEF Durable
<1> QED
  BY <1>7, <1>8, <1>9, <1>11, <1>12

LEMMA StepIInv == ExitOnCritical /\ IInv /\ [Next]_vars => IInv'
<1> SUFFICES ASSUME ExitOnCritical, IInv, [Next]_vars PROVE IInv'
  OBVIOUS
<1> DEFINE Kept == LockInv /\ RecInv /\ ContentIsOwn /\ MasterKnowsEnd /\ Durable
<1>1. TypeOK'
  BY StepTyping DEF IInv
<1>2. SUFFICES Kept'
  BY <1>1 DEF IInv
<1>3. CASE UNCHANGED vars
  BY <1>3 DEF vars, IInv, LockInv, RecInv, AppendInv, HoldInv, MarkInv, ContentIsOwn,
              MasterKnowsEnd, Durable, CellOf, Master, Running
<1>4. ASSUME NEW p \in Procs, Stop(p) \/ GetRecordPartial(p) PROVE Kept'
  <2>1. Gone(p) /\ UNCHANGED <<md, cells, gone, acked>>
    BY <1>4 DEF Stop, GetRecordPartial, disk, hist
  <2>2. CellsGrow
    BY <2>1 DEF CellsGrow
  <2> QED
    BY <2>1, <2>2, GoneKeeps, CellsGrowKeep
<1>5. ASSUME NEW p \in Procs, NEW r \in DOMAIN md, NEW mask \in SUBSET UserFlags,
             \/ SetUserFlag(p, r, mask, TRUE) \/ SetUserFlag(p, r, mask, FALSE)
             \/ WriteUserFlag(p, r, mask)
             \/ WriteMark1(p, r, TRUE) \/ WriteMark1(p, r, FALSE)
      PROVE  Kept'
  <2>1. md[r].flags \subseteq UserFlags \cup {"mark1"}
    BY Fields DEF IInv
  <2>2. PICK flags \in SUBSET (UserFlags \cup {"mark1"}) : WriteFlags(p, r, flags)
    BY <1>5, <2>1 DEF SetUserFlag, WriteUserFlag, WriteMark1
  <2> QED
    BY <2>2, WriteFlagsKeeps
<1>6. CASE Next
  <2>1. PICK p \in Procs :
           \/ Start(p, "master") \/ Start(p, "reader") \/ Stop(p)
           \/ \E m \in Msgs, d \in Days : AppendContent(p, m, d)
           \/ \E d \in Days : AppendContentShort(p, d)
           \/ AppendMd(p) \/ AppendMdFails(p)
           \/ \E r \in DOMAIN md :
                 \/ DeleteBlank(p, r) \/ DeleteBlankFails(p, r)
                 \/ \E mask \in SUBSET UserFlags :
                       \/ SetUserFlag(p, r, mask, TRUE) \/ SetUserFlag(p, r, mask, FALSE)
                       \/ WriteUserFlag(p, r, mask)
                 \/ WriteMark1(p, r, TRUE) \/ WriteMark1(p, r, FALSE)
                 \/ GetRecord(p, r)
           \/ DeleteMark(p) \/ GetRecordPartial(p) \/ ReadContent(p)
    BY <1>6 DEF Next
  <2>2. {} \in SUBSET UserFlags
    OBVIOUS
  <2> HIDE DEF Kept
  <2>3. CASE \/ Stop(p) \/ GetRecordPartial(p)
    BY <2>3, <1>4
  <2>4. CASE Start(p, "master") \/ Start(p, "reader")
    BY <2>4, StartKeeps DEF Kept
  <2>5. CASE \E m \in Msgs, d \in Days : AppendContent(p, m, d)
    BY <2>5, AppendContentKeeps DEF Kept
  <2>6. CASE \E d \in Days : AppendContentShort(p, d)
    BY <2>6, AppendContentShortKeeps DEF Kept
  <2>7. CASE AppendMd(p) \/ AppendMdFails(p)
    BY <2>7, AppendMdKeeps, AppendMdFailsKeeps DEF Kept
  <2>8. CASE \E r \in DOMAIN md : DeleteBlank(p, r) \/ DeleteBlankFails(p, r)
    BY <2>8, DeleteBlankKeeps DEF Kept
  <2>9. CASE \E r \in DOMAIN md : GetRecord(p, r)
    BY <2>9, GetRecordKeeps DEF Kept
  <2>10. CASE DeleteMark(p) \/ ReadContent(p)
    BY <2>10, DeleteMarkKeeps, ReadContentKeeps DEF Kept
  <2> QED
    BY <2>1, <2>2, <2>3, <2>4, <2>5, <2>6, <2>7, <2>8, <2>9, <2>10, <1>5
<1> QED
  BY <1>3, <1>6

\* When critical errors end the process, the strengthening IInv holds in every
\* state.
THEOREM Invariance ==
    ASSUME ExitOnCritical
    PROVE  Spec => []IInv
<1>1. Init => IInv
  BY InitTyping, InitIInv DEF IInv
<1>2. IInv /\ [Next]_vars => IInv'
  BY StepIInv
<1> QED
  BY <1>1, <1>2, PTL DEF Spec

\* What the index says of a record is true of its content, whatever was cut
\* short or left half done.
THEOREM IndexIsTrue ==
    ASSUME ExitOnCritical
    PROVE  Spec => []ContentIsOwn
<1>1. IInv => ContentIsOwn
  BY DEF IInv
<1> QED
  BY <1>1, Invariance, PTL

\* A record whose append returned 0 survives every crash and every short write.
THEOREM AcknowledgedIsDurable ==
    ASSUME ExitOnCritical
    PROVE  Spec => []Durable
<1>1. IInv => Durable
  BY DEF IInv
<1> QED
  BY <1>1, Invariance, PTL

\* The master, whose last rowid places the next record, never loses count.
THEOREM LastRowidIsExact ==
    ASSUME ExitOnCritical
    PROVE  Spec => []MasterKnowsEnd
<1>1. IInv => MasterKnowsEnd
  BY DEF IInv
<1> QED
  BY <1>1, Invariance, PTL

\* A read that races a deletion returns the content, or the blank, of the record
\* that was asked for.
THEOREM ReadsAreTrue ==
    ASSUME ExitOnCritical
    PROVE  Spec => []ReadsTrue
<1>1. IInv => ReadsTrue
  <2> SUFFICES ASSUME IInv, NEW p \in Procs, pc[p] = "read", NEW c \in Contents(p)
               PROVE  c = rec[p].msg \/ (c = "blank" /\ rec[p].msg \in gone)
    BY DEF ReadsTrue
  <2>1. HoldInv(p) /\ ContentIsOwn
    BY DEF IInv, RecInv
  <2>2. c = CellOf(rec[p].rowid) \/ c = rec[p].msg
    BY <2>1 DEF Contents, HoldInv, CellOf
  <2> QED
    BY <2>1, <2>2 DEF HoldInv, ContentIsOwn
<1> QED
  BY <1>1, Invariance, PTL

-----------------------------------------------------------------------------
(* Rows keep their place *)

\* Deleted rows do not come back.
DeletedStay == \A r \in DOMAIN md : md[r].deleted => md'[r].deleted

\* Whatever a step does, rows stay, and so do the deleted ones.
LEMMA StepRows ==
    ASSUME ExitOnCritical, IInv, [Next]_vars
    PROVE  RowsStay /\ DeletedStay
<1>1. CASE md' = md
  BY <1>1 DEF RowsStay, DeletedStay
<1>2. ASSUME NEW p \in Procs, AppendMd(p) PROVE RowsStay /\ DeletedStay
  <2>1. pc[p] = "md" /\ md' = Append(md, rec[p])
    BY <1>2 DEF AppendMd
  <2>2. rec[p] \in MdRow
    BY <2>1 DEF IInv, TypeOK
  <2>3. \A r \in DOMAIN md : r \in DOMAIN md' /\ md'[r] = md[r]
    BY <2>1, <2>2, RowAdded DEF IInv, TypeOK
  <2> QED
    BY <2>3 DEF RowsStay, DeletedStay
<1>3. ASSUME NEW p \in Procs, DeleteMark(p) PROVE RowsStay /\ DeletedStay
  <2> DEFINE row == [rec[p] EXCEPT !.deleted = TRUE]
             n   == rec[p].rowid
  <2>1. pc[p] = "mark" /\ md' = [md EXCEPT ![n] = row]
    BY <1>3 DEF DeleteMark
  <2>2. /\ row \in MdRow /\ row.deleted /\ row.msg = rec[p].msg /\ row.day = rec[p].day
        /\ row.off = rec[p].off
    BY <2>1 DEF IInv, TypeOK, MdRow
  <2>3. /\ n \in DOMAIN md /\ rec[p].msg = md[n].msg /\ rec[p].day = md[n].day
        /\ rec[p].off = md[n].off
    BY <2>1 DEF IInv, RecInv, HoldInv
  <2> HIDE DEF row, n
  <2>4. \A r \in DOMAIN md : r \in DOMAIN md' /\ md'[r] = IF r = n THEN row ELSE md[r]
    BY <2>1, <2>2, <2>3, RowChange DEF IInv
  <2> QED
    BY <2>2, <2>3, <2>4 DEF RowsStay, DeletedStay
<1>4. ASSUME NEW p \in Procs, NEW n \in DOMAIN md, NEW flags, WriteFlags(p, n, flags)
      PROVE  RowsStay /\ DeletedStay
  <2>1. md' = [md EXCEPT ![n] = [md[n] EXCEPT !.flags = flags]]
    BY <1>4 DEF WriteFlags
  <2> DEFINE row == [md[n] EXCEPT !.flags = flags]
  <2>2. /\ row.msg = md[n].msg /\ row.day = md[n].day /\ row.off = md[n].off
        /\ row.deleted = md[n].deleted
    BY Fields DEF IInv, MdRow
  <2>3. DOMAIN md' = DOMAIN md /\ \A r \in DOMAIN md : md'[r] = IF r = n THEN row ELSE md[r]
    BY <2>1 DEF IInv, TypeOK
  <2> HIDE DEF row
  <2> QED
    BY <2>2, <2>3 DEF RowsStay, DeletedStay
<1>5. CASE Next
  <2> DEFINE Flagging(p, r) ==
           \E mask \in SUBSET UserFlags :
              \/ SetUserFlag(p, r, mask, TRUE) \/ SetUserFlag(p, r, mask, FALSE)
              \/ WriteUserFlag(p, r, mask) \/ WriteMark1(p, r, TRUE) \/ WriteMark1(p, r, FALSE)
  <2>1. PICK p \in Procs :
           \/ Start(p, "master") \/ Start(p, "reader") \/ Stop(p)
           \/ \E m \in Msgs, d \in Days : AppendContent(p, m, d)
           \/ \E d \in Days : AppendContentShort(p, d)
           \/ AppendMd(p) \/ AppendMdFails(p)
           \/ \E r \in DOMAIN md : \/ DeleteBlank(p, r) \/ DeleteBlankFails(p, r)
                                   \/ Flagging(p, r) \/ GetRecord(p, r)
           \/ DeleteMark(p) \/ GetRecordPartial(p) \/ ReadContent(p)
    BY <1>5 DEF Next
  <2>2. ASSUME NEW r \in DOMAIN md, Flagging(p, r)
        PROVE  \E flags : WriteFlags(p, r, flags)
    BY <2>2 DEF SetUserFlag, WriteUserFlag, WriteMark1
  <2> HIDE DEF Flagging
  <2>3. CASE Start(p, "master") \/ Start(p, "reader") \/ Stop(p)
    BY <2>3, <1>1 DEF Start, Stop, disk
  <2>4. CASE \E m \in Msgs, d \in Days : AppendContent(p, m, d)
    BY <2>4, <1>1 DEF AppendContent
  <2>5. CASE \E d \in Days : AppendContentShort(p, d)
    BY <2>5, <1>1 DEF AppendContentShort
  <2>6. CASE AppendMdFails(p) \/ GetRecordPartial(p) \/ ReadContent(p)
    BY <2>6, <1>1 DEF AppendMdFails, GetRecordPartial, ReadContent, disk
  <2>7. CASE \E r \in DOMAIN md : DeleteBlank(p, r) \/ DeleteBlankFails(p, r) \/ GetRecord(p, r)
    BY <2>7, <1>1 DEF DeleteBlank, DeleteBlankFails, GetRecord, disk
  <2> QED
    BY <2>1, <2>2, <2>3, <2>4, <2>5, <2>6, <2>7, <1>2, <1>3, <1>4
<1>6. CASE UNCHANGED vars
  BY <1>6, <1>1 DEF vars
<1> QED
  BY <1>5, <1>6

\* A record never leaves its place nor changes what it points at, and a deleted
\* one does not come back.
THEOREM RowsAreKept ==
    ASSUME ExitOnCritical
    PROVE  Spec => RowsKeep
<1>1. IInv /\ [Next]_vars =>
         [\A r \in DOMAIN md :
            /\ r \in DOMAIN md'
            /\ md'[r].msg = md[r].msg /\ md'[r].day = md[r].day /\ md'[r].off = md[r].off
            /\ md[r].deleted => md'[r].deleted]_vars
  BY StepRows DEF RowsStay, DeletedStay
<1> QED
  BY <1>1, Invariance, PTL DEF Spec, RowsKeep

-----------------------------------------------------------------------------
(* Records have each their own content *)

SamePlace(a, b) == a.day = b.day /\ a.off = b.off

\* No two rows point at the same content, and none points at the content whose
\* metadata are still to be written.
Apart ==
    /\ \A r, s \in DOMAIN md : SamePlace(md[r], md[s]) => r = s
    /\ \A p \in Procs : pc[p] = "md" => \A r \in DOMAIN md : ~SamePlace(md[r], rec[p])

\* The rows are the same but for their flags and marks.
SameRows == RowsStay /\ DOMAIN md' = DOMAIN md

LEMMA SameRowsApart ==
    ASSUME Apart, SameRows,
           \A p \in Procs : pc'[p] = "md" => pc[p] = "md" /\ rec'[p] = rec[p]
    PROVE  Apart'
BY DEF Apart, SameRows, RowsStay, SamePlace

LEMMA AppendContentApart ==
    ASSUME IInv, Apart, NEW p \in Procs, NEW m \in Msgs, NEW d \in Days,
           AppendContent(p, m, d)
    PROVE  Apart'
<1>1. /\ md' = md /\ rec'[p].day = d /\ rec'[p].off = Len(cells[d]) + 1
      /\ \A x \in Procs \ {p} : pc'[x] = pc[x] /\ rec'[x] = rec[x]
  BY DEF AppendContent, IInv, TypeOK
<1>2. \A r \in DOMAIN md : md[r].day = d => md[r].off # Len(cells[d]) + 1
  <2>1. Len(cells[d]) + 1 \notin DOMAIN cells[d]
    BY DEF IInv, TypeOK
  <2> QED
    BY <2>1 DEF IInv, ContentIsOwn
<1> QED
  BY <1>1, <1>2 DEF Apart, SamePlace

LEMMA AppendMdApart ==
    ASSUME IInv, Apart, NEW p \in Procs, AppendMd(p)
    PROVE  Apart'
<1>1. /\ pc[p] = "md" /\ md' = Append(md, rec[p]) /\ pc'[p] = "idle"
      /\ \A x \in Procs \ {p} : pc'[x] = pc[x]
  BY DEF AppendMd, Acknowledge, Return, IInv, TypeOK
<1>2. rec[p] \in MdRow
  BY <1>1 DEF IInv, TypeOK
<1>3. /\ DOMAIN md' = 1 .. Len(md) + 1 /\ md'[Len(md) + 1] = rec[p]
      /\ \A r \in DOMAIN md : md'[r] = md[r]
      /\ DOMAIN md = 1 .. Len(md) /\ Len(md) \in Nat
  BY <1>1, <1>2, RowAdded DEF IInv, TypeOK
<1>4. \A r \in DOMAIN md : ~SamePlace(md[r], rec[p])
  BY <1>1 DEF Apart
<1>5. \A r, s \in DOMAIN md' : SamePlace(md'[r], md'[s]) => r = s
  <2>1. \A r \in DOMAIN md' : r \in DOMAIN md \/ r = Len(md) + 1
    BY <1>3
  <2>2. \A r, s \in DOMAIN md : SamePlace(md[r], md[s]) => r = s
    BY DEF Apart
  <2> QED
    BY <1>3, <1>4, <2>1, <2>2 DEF SamePlace
<1>6. \A x \in Procs : pc'[x] # "md"
  <2>1. \A x \in Procs : pc[x] = "md" => x = p
    BY <1>1 DEF IInv, LockInv
  <2> QED
    BY <1>1, <2>1
<1> QED
  BY <1>5, <1>6 DEF Apart

-----------------------------------------------------------------------------
(* Each step of the store is a step of the log *)

\* The log of the store, as RL has it.
Log == [r \in DOMAIN md |-> [msg |-> md[r].msg, erased |-> CellOf(r) # md[r].msg]]

\* Steps that leave rows and contents alone are not seen.
LEMMA Unseen ==
    ASSUME SameRows, acked' = acked, \A r \in DOMAIN md : CellOf(r)' = CellOf(r)
    PROVE  UNCHANGED RL!vars
<1>1. Log' = Log
  BY DEF Log, SameRows, RowsStay
<1> QED
  BY <1>1 DEF Log, RL!vars

LEMMA AppendMdIsAppendRecord ==
    ASSUME IInv, NEW p \in Procs, AppendMd(p)
    PROVE  RL!Next
<1>. PICK n \in Nat, m \in Msgs : n = Len(md) + 1 /\ m = rec[p].msg
  <2>1. rec[p] \in MdRow
    BY DEF AppendMd, IInv, TypeOK
  <2>2. rec[p].msg \in Msgs /\ Len(md) + 1 \in Nat
    BY <2>1 DEF MdRow, IInv, TypeOK
  <2> QED
    BY <2>2
<1>1. /\ pc[p] = "md" /\ md' = Append(md, rec[p]) /\ cells' = cells
      /\ acked' = acked \cup {m}
  BY DEF AppendMd, Acknowledge
<1>2. rec[p] \in MdRow /\ m \in Msgs
  BY <1>1 DEF IInv, TypeOK, MdRow
<1>3. /\ DOMAIN md' = 1 .. n /\ md'[n] = rec[p] /\ \A r \in DOMAIN md : md'[r] = md[r]
      /\ DOMAIN md = 1 .. Len(md) /\ Len(md) \in Nat /\ md' \in Seq(MdRow) /\ Len(md') = n
  BY <1>1, <1>2, RowAdded DEF IInv, TypeOK
<1>4. /\ CellOf(n)' = m
      /\ \A r \in DOMAIN md : CellOf(r)' = CellOf(r)
  <2>1. cells[rec[p].day][rec[p].off] = m
    BY <1>1 DEF IInv, RecInv, AppendInv
  <2> QED
    BY <1>1, <1>3, <2>1 DEF CellOf
<1>5. Log' = Append(Log, [msg |-> m, erased |-> FALSE])
  <2> DEFINE e == [msg |-> m, erased |-> FALSE]
  <2>1. Log \in Seq([msg : Msgs, erased : BOOLEAN]) /\ Len(Log) = Len(md)
    BY <1>3, Fields DEF Log, IInv
  <2>2. e \in [msg : Msgs, erased : BOOLEAN]
    BY <1>2
  <2>3. Append(Log, e) = [r \in 1 .. n |-> IF r = n THEN e ELSE Log[r]]
    BY <1>3, <2>1, <2>2
  <2>4. \A r \in 1 .. n : r # n => r \in DOMAIN md
    BY <1>3
  <2>5. Log' = [r \in 1 .. n |-> [msg |-> md'[r].msg, erased |-> CellOf(r)' # md'[r].msg]]
    BY <1>3 DEF Log
  <2>6. \A r \in 1 .. n : Log'[r] = IF r = n THEN e ELSE Log[r]
    <3> SUFFICES ASSUME NEW r \in 1 .. n PROVE Log'[r] = IF r = n THEN e ELSE Log[r]
      OBVIOUS
    <3>1. Log'[r] = [msg |-> md'[r].msg, erased |-> CellOf(r)' # md'[r].msg]
      BY <2>5
    <3>2. CASE r = n
      BY <1>1, <1>3, <1>4, <3>1, <3>2
    <3>3. CASE r # n
      BY <1>3, <1>4, <2>4, <3>1, <3>3 DEF Log
    <3> QED
      BY <3>2, <3>3
  <2> QED
    BY <2>3, <2>5, <2>6
<1>6. RL!AppendRecord(m)
  BY <1>1, <1>5 DEF RL!AppendRecord, Log
<1> QED
  BY <1>2, <1>6 DEF RL!Next

LEMMA DeleteBlankIsErase ==
    ASSUME IInv, Apart, NEW p \in Procs, NEW n \in DOMAIN md,
           DeleteBlank(p, n) \/ DeleteBlankFails(p, n)
    PROVE  [RL!Next]_(RL!vars)
<1> DEFINE d == md[n].day
           o == md[n].off
<1>1. /\ md' = md /\ acked' = acked
      /\ cells' = cells \/ cells' = [cells EXCEPT ![d][o] = "blank"]
  BY DEF DeleteBlank, DeleteBlankFails
<1>2. SameRows
  BY <1>1 DEF SameRows, RowsStay
<1>3. CASE cells' = cells
  BY <1>1, <1>2, <1>3, Unseen DEF CellOf
<1>4. CASE cells' = [cells EXCEPT ![d][o] = "blank"]
  <2>1. "blank" \in Cell /\ d \in Days /\ o \in DOMAIN cells[d]
    BY Fields DEF Cell, IInv, ContentIsOwn
  <2>2. \A e \in Days : \A i \in DOMAIN cells[e] :
           cells'[e][i] = IF e = d /\ i = o THEN "blank" ELSE cells[e][i]
    <3> HIDE DEF d, o
    <3> QED
      BY <1>4, <2>1, CellChange DEF IInv
  <2>3. \A r \in DOMAIN md : CellOf(r)' = IF r = n THEN "blank" ELSE CellOf(r)
    <3> SUFFICES ASSUME NEW r \in DOMAIN md
                 PROVE  CellOf(r)' = IF r = n THEN "blank" ELSE CellOf(r)
      OBVIOUS
    <3>1. md[r].day \in Days /\ md[r].off \in DOMAIN cells[md[r].day]
      BY Fields DEF IInv, ContentIsOwn
    <3>2. md[r].day = d /\ md[r].off = o => r = n
      BY DEF Apart, SamePlace
    <3> QED
      BY <1>1, <2>2, <3>1, <3>2 DEF CellOf
  <2>4. "blank" # md[n].msg
    BY Fields, TimeRangerAssumption DEF IInv
  <2>5. Log' = [Log EXCEPT ![n].erased = TRUE]
    BY <1>1, <2>3, <2>4 DEF Log
  <2>6. n \in DOMAIN Log
    BY DEF Log
  <2>7. RL!Erase(n)
    BY <1>1, <2>5 DEF RL!Erase, Log
  <2> QED
    BY <2>6, <2>7 DEF RL!Next, Log
<1> QED
  BY <1>1, <1>3, <1>4

LEMMA DeleteMarkUnseen ==
    ASSUME ExitOnCritical, IInv, NEW p \in Procs, DeleteMark(p)
    PROVE  SameRows /\ UNCHANGED RL!vars
<1>1. /\ UNCHANGED <<cells, acked>> /\ DOMAIN md' = DOMAIN md
      /\ pc'[p] = "idle" /\ \A x \in Procs \ {p} : pc'[x] = pc[x] /\ rec'[x] = rec[x]
  BY DEF DeleteMark, Return, hist, IInv, TypeOK
<1>2. RowsStay
  BY StepRows DEF Next
<1>3. \A r \in DOMAIN md : CellOf(r)' = CellOf(r)
  BY <1>1, <1>2 DEF RowsStay, CellOf
<1> QED
  BY <1>1, <1>2, <1>3, Unseen DEF SameRows

LEMMA WriteFlagsUnseen ==
    ASSUME IInv, NEW p \in Procs, NEW n \in DOMAIN md, NEW flags, WriteFlags(p, n, flags),
           RowsStay
    PROVE  SameRows /\ UNCHANGED RL!vars
<1>1. UNCHANGED <<cells, acked>> /\ DOMAIN md' = DOMAIN md
  BY DEF WriteFlags, hist, IInv, TypeOK
<1>2. \A r \in DOMAIN md : CellOf(r)' = CellOf(r)
  BY <1>1 DEF RowsStay, CellOf
<1> QED
  BY <1>1, <1>2, Unseen DEF SameRows

\* Content files that only grow are not seen.
LEMMA GrowingUnseen ==
    ASSUME IInv, CellsGrow, UNCHANGED <<md, acked>>
    PROVE  SameRows /\ UNCHANGED RL!vars
<1>1. \A r \in DOMAIN md : CellOf(r)' = CellOf(r)
  BY Fields DEF IInv, ContentIsOwn, CellsGrow, CellOf
<1> QED
  BY <1>1, Unseen DEF SameRows, RowsStay

LEMMA AppendGrows ==
    ASSUME IInv, NEW p \in Procs, NEW d \in Days,
           (\E m \in Msgs : AppendContent(p, m, d)) \/ AppendContentShort(p, d)
    PROVE  CellsGrow
<1>1. \/ cells' = cells
      \/ \E c \in Cell : cells' = [cells EXCEPT ![d] = Append(@, c)]
  BY DEF AppendContent, AppendContentShort, Cell
<1> QED
  BY <1>1, CellAdded DEF CellsGrow, IInv

LEMMA StepRefines ==
    ASSUME ExitOnCritical, IInv, Apart, [Next]_vars
    PROVE  Apart' /\ [RL!Next]_(RL!vars)
<1> DEFINE Goal == Apart' /\ [RL!Next]_(RL!vars)
           Flagging(p, r) ==
              \E mask \in SUBSET UserFlags :
                 \/ SetUserFlag(p, r, mask, TRUE) \/ SetUserFlag(p, r, mask, FALSE)
                 \/ WriteUserFlag(p, r, mask) \/ WriteMark1(p, r, TRUE) \/ WriteMark1(p, r, FALSE)
<1> SUFFICES Goal
  OBVIOUS
<1>1. RowsStay
  BY StepRows
<1>2. ASSUME SameRows, UNCHANGED RL!vars,
             \A p \in Procs : pc'[p] = "md" => pc[p] = "md" /\ rec'[p] = rec[p]
      PROVE  Goal
  BY <1>2, SameRowsApart
<1>3. CASE UNCHANGED vars
  <2>1. CellsGrow
    BY <1>3 DEF vars, CellsGrow
  <2> QED
    BY <1>2, <1>3, <2>1, GrowingUnseen DEF vars
<1>4. ASSUME NEW p \in Procs, NEW r \in DOMAIN md, Flagging(p, r)
      PROVE  Goal
  <2>1. PICK flags : WriteFlags(p, r, flags)
    BY <1>4 DEF SetUserFlag, WriteUserFlag, WriteMark1
  <2>2. pc' = pc /\ rec' = rec
    BY <2>1 DEF WriteFlags
  <2> QED
    BY <1>1, <1>2, <2>1, <2>2, WriteFlagsUnseen
<1>5. ASSUME NEW p \in Procs, DeleteMark(p)
      PROVE  Goal
  <2>1. pc'[p] = "idle" /\ \A x \in Procs \ {p} : pc'[x] = pc[x] /\ rec'[x] = rec[x]
    BY <1>5 DEF DeleteMark, Return, IInv, TypeOK
  <2> QED
    BY <1>2, <1>5, <2>1, DeleteMarkUnseen
<1>6. ASSUME NEW p \in Procs, NEW r \in DOMAIN md,
             DeleteBlank(p, r) \/ DeleteBlankFails(p, r)
      PROVE  Goal
  <2>1. SameRows
    BY <1>1, <1>6 DEF DeleteBlank, DeleteBlankFails, SameRows
  <2>2. \A x \in Procs : pc'[x] = "md" => pc[x] = "md" /\ rec'[x] = rec[x]
    BY <1>6 DEF DeleteBlank, DeleteBlankFails, IInv, TypeOK
  <2> QED
    BY <1>6, <2>1, <2>2, SameRowsApart, DeleteBlankIsErase
<1>7. ASSUME NEW p \in Procs, AppendMd(p)
      PROVE  Goal
  BY <1>7, AppendMdApart, AppendMdIsAppendRecord
<1>8. ASSUME NEW p \in Procs, NEW m \in Msgs, NEW d \in Days, AppendContent(p, m, d)
      PROVE  Goal
  <2>1. CellsGrow
    BY <1>8, AppendGrows
  <2> QED
    BY <1>8, <2>1, AppendContentApart, GrowingUnseen DEF AppendContent, hist
<1>9. ASSUME NEW p \in Procs, Gone(p), CellsGrow, UNCHANGED <<md, acked>>
      PROVE  Goal
  <2>1. \A x \in Procs : pc'[x] = "md" => pc[x] = "md" /\ rec'[x] = rec[x]
    BY <1>9 DEF Gone, IInv, TypeOK
  <2> QED
    BY <1>2, <1>9, <2>1, GrowingUnseen
<1>10. ASSUME NEW p \in Procs,
              \/ \E r \in DOMAIN md : GetRecord(p, r)
              \/ ReadContent(p) \/ Start(p, "master") \/ Start(p, "reader")
       PROVE  Goal
  <2>1. CellsGrow /\ UNCHANGED <<md, acked>>
    BY <1>10 DEF GetRecord, ReadContent, Start, disk, hist, CellsGrow
  <2>2. \A x \in Procs : pc'[x] = "md" => pc[x] = "md" /\ rec'[x] = rec[x]
    BY <1>10 DEF GetRecord, ReadContent, Return, Start, IInv, TypeOK
  <2> QED
    BY <1>2, <2>1, <2>2, GrowingUnseen
<1>11. ASSUME NEW p \in Procs,
              \/ Stop(p) \/ AppendMdFails(p) \/ GetRecordPartial(p)
              \/ \E d \in Days : AppendContentShort(p, d)
       PROVE  Goal
  <2>1. Gone(p) /\ UNCHANGED <<md, acked>>
    BY <1>11 DEF Stop, AppendMdFails, GetRecordPartial, AppendContentShort, disk, hist
  <2>2. CellsGrow
    <3>1. CASE cells' = cells
      BY <3>1 DEF CellsGrow
    <3>2. CASE \E d \in Days : AppendContentShort(p, d)
      BY <3>2, AppendGrows
    <3> QED
      BY <1>11, <3>1, <3>2 DEF Stop, AppendMdFails, GetRecordPartial, disk
  <2> QED
    BY <1>9, <2>1, <2>2
<1>12. CASE Next
  <2>1. PICK p \in Procs :
           \/ Start(p, "master") \/ Start(p, "reader") \/ Stop(p)
           \/ \E m \in Msgs, d \in Days : AppendContent(p, m, d)
           \/ \E d \in Days : AppendContentShort(p, d)
           \/ AppendMd(p) \/ AppendMdFails(p)
           \/ \E r \in DOMAIN md : \/ DeleteBlank(p, r) \/ DeleteBlankFails(p, r)
                                   \/ Flagging(p, r) \/ GetRecord(p, r)
           \/ DeleteMark(p) \/ GetRecordPartial(p) \/ ReadContent(p)
    BY <1>12 DEF Next
  <2> HIDE DEF Goal, Flagging
  <2>2. CASE \/ Stop(p) \/ AppendMdFails(p) \/ GetRecordPartial(p)
             \/ \E d \in Days : AppendContentShort(p, d)
    BY <2>2, <1>11
  <2>3. CASE \/ \E r \in DOMAIN md : GetRecord(p, r)
             \/ ReadContent(p) \/ Start(p, "master") \/ Start(p, "reader")
    BY <2>3, <1>10
  <2> QED
    BY <2>1, <2>2, <2>3, <1>4, <1>5, <1>6, <1>7, <1>8
<1> QED
  BY <1>3, <1>12

\* No two records have the same content, and none has that of a record whose
\* append has not come to its metadata.
THEOREM RecordsAreApart ==
    ASSUME ExitOnCritical
    PROVE  Spec => []Apart
<1>1. Init => Apart
  BY DEF Init, Apart
<1>2. IInv /\ Apart /\ [Next]_vars => Apart'
  BY StepRefines
<1> QED
  BY <1>1, <1>2, Invariance, PTL DEF Spec

\* The store is the log it promises to be: every step of any process, its death
\* among them, adds a record at the end, erases one, or is not seen.
THEOREM StoreIsLog ==
    ASSUME ExitOnCritical
    PROVE  Spec => RecordLogSpec
<1>1. Init => RL!Init
  BY DEF Init, RL!Init
<1>2. IInv /\ Apart /\ [Next]_vars => [RL!Next]_(RL!vars)
  BY StepRefines
<1> QED
  BY <1>1, <1>2, Invariance, RecordsAreApart, PTL DEF Spec, RecordLogSpec, RL!Spec

=============================================================================
