------------------------- MODULE TopicFiles_proofs -------------------------
(***************************************************************************)
(* Proofs about TopicFiles, for any number of processes, records, versions *)
(* and directories, under the discipline: callers take none of the         *)
(* liberties.                                                              *)
(*                                                                         *)
(* The inductive invariant says, for each point of a call of the master,   *)
(* what the files and the memory are: what a death there leaves behind is  *)
(* then a directory that the next call repairs.                            *)
(***************************************************************************)
EXTENDS TopicFiles, TLAPS

Discipline == Liberties = {}

-----------------------------------------------------------------------------
(* The points of a call: what it has still to do. *)

Then(op, rest) == <<op>> \o rest

\* tranger_startup of a master.
ToLock  == Then(<<"lock", "db">>, <<>>)
ToChmod == Then(<<"chmod", "db">>, ToLock)
ToPutDb == Then(<<"put", "db">>, ToChmod)
ToCutDb == Then(<<"cut", "db">>, ToPutDb)

\* tranger_open_topic
ToOpenCols == Then(<<"open", "cols">>, <<>>)
ToOpen     == Then(<<"open", "dir">>, <<>>)

\* tranger_create_topic, of a new directory
ToData    == Then(<<"make", "data">>, ToOpen)
ToPutVar  == Then(<<"put", "var">>, ToData)
ToCutVar  == Then(<<"cut", "var">>, ToPutVar)
ToPutCols == Then(<<"put", "cols">>, ToCutVar)
ToCutCols == Then(<<"cut", "cols">>, ToPutCols)
ToPutDesc == Then(<<"put", "desc">>, ToCutCols)
ToCutDesc == Then(<<"cut", "desc">>, ToPutDesc)
ToIdx     == Then(<<"make", "idx">>, ToCutDesc)
ToDir     == Then(<<"make", "dir">>, ToIdx)

\* ... and of one that is there
ReputCols  == Then(<<"put", "cols">>, ToOpen)
RecutCols  == Then(<<"cut", "cols">>, ReputCols)
ToNeedCols == Then(<<"need", "cols">>, ToOpen)
ReputVar   == Then(<<"put", "var">>, ToNeedCols)
RecutVar   == Then(<<"cut", "var">>, ReputVar)
ToNeedVar  == Then(<<"need", "var">>, ToNeedCols)
ToRmVar    == Then(<<"rm", "var">>, ToNeedVar)
ToRmCols   == Then(<<"rm", "cols">>, ToRmVar)

\* tranger_delete_topic
ToRmDir     == Then(<<"rmdir", "dir">>, <<>>)
ToEmpty     == Then(<<"empty", "dir">>, ToRmDir)
ToClose     == Then(<<"close", "dir">>, ToEmpty)
ToOpenCols2 == Then(<<"open", "cols">>, ToClose)
ToOpen2     == Then(<<"open", "dir">>, ToClose)

\* tranger_backup_topic
ToMove     == Then(<<"move", "dir">>, <<>>)
ToRmBak    == Then(<<"rmdir", "bak">>, ToMove)
ToEmptyBak == Then(<<"empty", "bak">>, ToRmBak)

-----------------------------------------------------------------------------
(* The inductive invariant *)

V == Version(dir.var)

\* Nothing but files that tranger_create_topic writes again is missing.
Whole == dir.gen # 0 /\ dir.idx /\ dir.data /\ dir.desc.st = "ok"

\* What a death may leave: a directory that can be repaired, whose columns, when they
\* are there, are those of the version of the variables.
Sane == /\ Whole
        /\ dir.cols.st # "torn"
        /\ dir.cols.st = "ok" => dir.cols = Ok(V)
        /\ V <= asked

Resting == dir = NoDir \/ Sane

SameVar(p)  == IsOpen(p) => mem[p].var = dir.var
SameCols(p) == IsOpen(p) => mem[p].cols = dir.cols
Made(p)     == dir.cols = Ok(V) /\ V >= want[p].var
Wanted(p)   == want[p].var = want[p].cols /\ want[p].var <= asked

\* The columns that an upgrade would write are already there.
ColsAsWanted(p) == dir.cols.st = "ok" => dir.cols = Ok(want[p].cols) /\ SameCols(p)

At(p, point, what) == todo[p] = point /\ what

\* The idle master, and tranger_open_topic.
Settled(p) ==
    \/ At(p, <<>>, Resting /\ (IsOpen(p) => SameVar(p) /\ SameCols(p) /\ Made(p)))
    \/ At(p, ToOpen, Sane /\ Made(p) /\ SameVar(p) /\ SameCols(p))
    \/ At(p, ToOpenCols, Sane /\ Made(p) /\ ~IsOpen(p) /\ mem[p].var = dir.var)

\* tranger_create_topic makes a directory.
Creating(p) ==
    /\ ~IsOpen(p) /\ Wanted(p)
    /\ \/ At(p, ToDir, dir = NoDir)
       \/ At(p, ToIdx, dir.gen # 0)
       \/ At(p, ToCutDesc, dir.gen # 0 /\ dir.idx)
       \/ At(p, ToPutDesc, dir.gen # 0 /\ dir.idx)
       \/ /\ dir.gen # 0 /\ dir.idx /\ dir.desc.st = "ok"
          /\ \/ todo[p] \in {ToCutCols, ToPutCols}
             \/ /\ dir.cols = Ok(want[p].cols)
                /\ \/ todo[p] \in {ToCutVar, ToPutVar}
                   \/ At(p, ToData, dir.var = Ok(want[p].var))

\* tranger_create_topic goes over one that is there.
Upgrading(p) ==
    /\ Wanted(p)
    /\ \/ At(p, ToRmCols, Sane)
       \/ At(p, ToRmVar, Whole /\ dir.cols.st = "none" /\ V <= asked)
       \/ At(p, ToNeedVar, /\ Sane /\ ColsAsWanted(p)
                           /\ dir.var.st # "none" => V = want[p].var /\ SameVar(p))
       \/ At(p, RecutVar, Sane /\ dir.var.st = "none" /\ ColsAsWanted(p))
       \/ At(p, ReputVar, /\ Sane /\ dir.var.st = "torn" /\ ColsAsWanted(p)
                          /\ IsOpen(p) => mem[p].var = Ok(want[p].var))
       \/ At(p, ToNeedCols, /\ Sane /\ V = want[p].cols /\ SameVar(p)
                            /\ dir.cols.st # "none" => SameCols(p))
       \/ At(p, RecutCols, Sane /\ V = want[p].cols /\ SameVar(p))
       \/ At(p, ReputCols, /\ Whole /\ V = want[p].cols /\ SameVar(p)
                           /\ IsOpen(p) => mem[p].cols = Ok(want[p].cols))

Deleting(p) ==
    \/ At(p, ToOpen2, Sane)
    \/ At(p, ToOpenCols2, Sane /\ ~IsOpen(p))
    \/ At(p, ToClose, Sane)
    \/ At(p, ToEmpty, Sane /\ ~IsOpen(p))
    \/ At(p, ToRmDir, RowsOf(dir) \subseteq gone /\ ~IsOpen(p))

BackingUp(p) ==
    /\ ~IsOpen(p) /\ Sane /\ dir.cols = Ok(V)
    /\ \/ todo[p] = ToEmptyBak
       \/ todo[p] \in {ToRmBak, ToMove} /\ RowsOf(bak) \subseteq gone

\* What the master has open is the directory of the topic.
OwnDir(p) == mem[p].gen \in {0, dir.gen} /\ mem[p].file \in {0, mem[p].gen}

MasterInv(p) ==
    /\ lock = p
    /\ OwnDir(p)
    /\ Settled(p) \/ Creating(p) \/ Upgrading(p) \/ Deleting(p) \/ BackingUp(p)

\* A reader changes no file, nor does a process that has not the lock yet.
OtherInv(p) ==
    /\ role[p] = "none" => todo[p] = <<>> /\ mem[p] = Closed
    /\ role[p] = "starting" => /\ todo[p] \in {ToCutDb, ToPutDb, ToChmod, ToLock}
                               /\ mem[p] = Closed
    /\ role[p] = "reader" => /\ todo[p] \in {<<>>, ToNeedVar, ToNeedCols, ToOpen, ToOpenCols}
                             /\ mem[p].gen \in 0 .. gens

DirsInv == /\ dir = NoDir \/ dir.gen \in 1 .. gens
           /\ bak = NoDir \/ bak.gen \in 1 .. gens

IInv == /\ TypeOK
        /\ DirsInv
        /\ NothingLost
        /\ \A p \in Procs : OtherInv(p)
        /\ \A p \in Procs : role[p] = "master" => MasterInv(p)
        /\ (\A p \in Procs : role[p] # "master") => Resting

-----------------------------------------------------------------------------
(* What is still to do *)

LEMMA ThenProps ==
    ASSUME NEW op \in Operation, NEW rest \in Seq(Operation)
    PROVE  /\ Then(op, rest) \in Seq(Operation)
           /\ Then(op, rest) # <<>>
           /\ Head(Then(op, rest)) = op
           /\ Tail(Then(op, rest)) = rest
           /\ Range(Then(op, rest)) = {op} \cup Range(rest)
<1> DEFINE t == Then(op, rest)
<1>1. /\ t \in Seq(Operation) /\ Len(t) = Len(rest) + 1
      /\ t[1] = op /\ \A i \in 1 .. Len(rest) : t[i + 1] = rest[i]
  BY DEF Then
<1>2. t # <<>> /\ Head(t) = op
  BY <1>1
<1>3. Tail(t) = rest
  <2>1. Tail(t) \in Seq(Operation) /\ Len(Tail(t)) = Len(rest)
    BY <1>1
  <2>2. \A i \in 1 .. Len(rest) : Tail(t)[i] = rest[i]
    BY <1>1
  <2> QED
    BY <2>1, <2>2
<1>4. Range(t) = {op} \cup Range(rest)
  <2>1. DOMAIN t = 1 .. Len(rest) + 1 /\ DOMAIN rest = 1 .. Len(rest) /\ Len(rest) \in Nat
    BY <1>1
  <2>2. \A i \in 1 .. Len(rest) + 1 : i = 1 \/ i - 1 \in 1 .. Len(rest)
    BY <2>1
  <2>3. \A i \in 1 .. Len(rest) : i + 1 \in 1 .. Len(rest) + 1 /\ 1 \in 1 .. Len(rest) + 1
    BY <2>1
  <2>4. \A i \in DOMAIN t : t[i] \in {op} \cup Range(rest)
    <3> TAKE i \in DOMAIN t
    <3>1. CASE i = 1
      BY <1>1, <3>1
    <3>2. CASE i - 1 \in 1 .. Len(rest)
      <4>1. t[(i - 1) + 1] = rest[i - 1] /\ (i - 1) + 1 = i
        BY <1>1, <2>1, <3>2
      <4> QED
        BY <2>1, <3>2, <4>1 DEF Range
    <3> QED
      BY <2>1, <2>2, <3>1, <3>2
  <2>5. op \in Range(t)
    BY <1>1, <2>1, <2>3 DEF Range
  <2>6. \A i \in DOMAIN rest : rest[i] \in Range(t)
    BY <1>1, <2>1, <2>3 DEF Range
  <2> HIDE DEF t
  <2> QED
    BY <2>4, <2>5, <2>6 DEF Range
<1> QED
  BY <1>1, <1>2, <1>3, <1>4

\* A point, the operation that comes first and the point behind it.
Point(t, op, rest) == /\ t \in Seq(Operation) /\ t # <<>>
                      /\ Head(t) = op /\ Tail(t) = rest
                      /\ Range(t) = {op} \cup Range(rest)

LEMMA PointOf ==
    ASSUME NEW op \in Operation, NEW rest \in Seq(Operation)
    PROVE  Point(Then(op, rest), op, rest) /\ Then(op, rest) \in Seq(Operation)
BY ThenProps DEF Point

LEMMA StartupPoints ==
    /\ Point(ToLock, <<"lock", "db">>, <<>>) /\ ToLock \in Seq(Operation)
    /\ Point(ToChmod, <<"chmod", "db">>, ToLock) /\ ToChmod \in Seq(Operation)
    /\ Point(ToPutDb, <<"put", "db">>, ToChmod) /\ ToPutDb \in Seq(Operation)
    /\ Point(ToCutDb, <<"cut", "db">>, ToPutDb) /\ ToCutDb \in Seq(Operation)
<1>0. <<>> \in Seq(Operation)
  OBVIOUS
<1>1. Point(ToLock, <<"lock", "db">>, <<>>) /\ ToLock \in Seq(Operation)
  BY <1>0, PointOf DEF ToLock, Operation
<1>2. Point(ToChmod, <<"chmod", "db">>, ToLock) /\ ToChmod \in Seq(Operation)
  BY <1>1, PointOf DEF ToChmod, Operation
<1>3. Point(ToPutDb, <<"put", "db">>, ToChmod) /\ ToPutDb \in Seq(Operation)
  BY <1>2, PointOf DEF ToPutDb, Operation
<1>4. Point(ToCutDb, <<"cut", "db">>, ToPutDb) /\ ToCutDb \in Seq(Operation)
  BY <1>3, PointOf DEF ToCutDb, Operation
<1> QED
  BY <1>1, <1>2, <1>3, <1>4

LEMMA OpenPoints ==
    /\ Point(ToOpen, <<"open", "dir">>, <<>>) /\ ToOpen \in Seq(Operation)
    /\ Point(ToOpenCols, <<"open", "cols">>, <<>>) /\ ToOpenCols \in Seq(Operation)
<1>0. <<>> \in Seq(Operation)
  OBVIOUS
<1>1. Point(ToOpen, <<"open", "dir">>, <<>>) /\ ToOpen \in Seq(Operation)
  BY <1>0, PointOf DEF ToOpen, Operation
<1>2. Point(ToOpenCols, <<"open", "cols">>, <<>>) /\ ToOpenCols \in Seq(Operation)
  BY <1>0, PointOf DEF ToOpenCols, Operation
<1> QED
  BY <1>1, <1>2

LEMMA CreatePoints ==
    /\ Point(ToData, <<"make", "data">>, ToOpen) /\ ToData \in Seq(Operation)
    /\ Point(ToPutVar, <<"put", "var">>, ToData) /\ ToPutVar \in Seq(Operation)
    /\ Point(ToCutVar, <<"cut", "var">>, ToPutVar) /\ ToCutVar \in Seq(Operation)
    /\ Point(ToPutCols, <<"put", "cols">>, ToCutVar) /\ ToPutCols \in Seq(Operation)
    /\ Point(ToCutCols, <<"cut", "cols">>, ToPutCols) /\ ToCutCols \in Seq(Operation)
    /\ Point(ToPutDesc, <<"put", "desc">>, ToCutCols) /\ ToPutDesc \in Seq(Operation)
    /\ Point(ToCutDesc, <<"cut", "desc">>, ToPutDesc) /\ ToCutDesc \in Seq(Operation)
    /\ Point(ToIdx, <<"make", "idx">>, ToCutDesc) /\ ToIdx \in Seq(Operation)
    /\ Point(ToDir, <<"make", "dir">>, ToIdx) /\ ToDir \in Seq(Operation)
<1>1. Point(ToData, <<"make", "data">>, ToOpen) /\ ToData \in Seq(Operation)
  BY OpenPoints, PointOf DEF ToData, Operation
<1>2. Point(ToPutVar, <<"put", "var">>, ToData) /\ ToPutVar \in Seq(Operation)
  BY <1>1, PointOf DEF ToPutVar, Operation
<1>3. Point(ToCutVar, <<"cut", "var">>, ToPutVar) /\ ToCutVar \in Seq(Operation)
  BY <1>2, PointOf DEF ToCutVar, Operation
<1>4. Point(ToPutCols, <<"put", "cols">>, ToCutVar) /\ ToPutCols \in Seq(Operation)
  BY <1>3, PointOf DEF ToPutCols, Operation
<1>5. Point(ToCutCols, <<"cut", "cols">>, ToPutCols) /\ ToCutCols \in Seq(Operation)
  BY <1>4, PointOf DEF ToCutCols, Operation
<1>6. Point(ToPutDesc, <<"put", "desc">>, ToCutCols) /\ ToPutDesc \in Seq(Operation)
  BY <1>5, PointOf DEF ToPutDesc, Operation
<1>7. Point(ToCutDesc, <<"cut", "desc">>, ToPutDesc) /\ ToCutDesc \in Seq(Operation)
  BY <1>6, PointOf DEF ToCutDesc, Operation
<1>8. Point(ToIdx, <<"make", "idx">>, ToCutDesc) /\ ToIdx \in Seq(Operation)
  BY <1>7, PointOf DEF ToIdx, Operation
<1>9. Point(ToDir, <<"make", "dir">>, ToIdx) /\ ToDir \in Seq(Operation)
  BY <1>8, PointOf DEF ToDir, Operation
<1> QED
  BY <1>1, <1>2, <1>3, <1>4, <1>5, <1>6, <1>7, <1>8, <1>9

LEMMA UpgradePoints ==
    /\ Point(ReputCols, <<"put", "cols">>, ToOpen) /\ ReputCols \in Seq(Operation)
    /\ Point(RecutCols, <<"cut", "cols">>, ReputCols) /\ RecutCols \in Seq(Operation)
    /\ Point(ToNeedCols, <<"need", "cols">>, ToOpen) /\ ToNeedCols \in Seq(Operation)
    /\ Point(ReputVar, <<"put", "var">>, ToNeedCols) /\ ReputVar \in Seq(Operation)
    /\ Point(RecutVar, <<"cut", "var">>, ReputVar) /\ RecutVar \in Seq(Operation)
    /\ Point(ToNeedVar, <<"need", "var">>, ToNeedCols) /\ ToNeedVar \in Seq(Operation)
    /\ Point(ToRmVar, <<"rm", "var">>, ToNeedVar) /\ ToRmVar \in Seq(Operation)
    /\ Point(ToRmCols, <<"rm", "cols">>, ToRmVar) /\ ToRmCols \in Seq(Operation)
<1>1. Point(ReputCols, <<"put", "cols">>, ToOpen) /\ ReputCols \in Seq(Operation)
  BY OpenPoints, PointOf DEF ReputCols, Operation
<1>2. Point(RecutCols, <<"cut", "cols">>, ReputCols) /\ RecutCols \in Seq(Operation)
  BY <1>1, PointOf DEF RecutCols, Operation
<1>3. Point(ToNeedCols, <<"need", "cols">>, ToOpen) /\ ToNeedCols \in Seq(Operation)
  BY OpenPoints, PointOf DEF ToNeedCols, Operation
<1>4. Point(ReputVar, <<"put", "var">>, ToNeedCols) /\ ReputVar \in Seq(Operation)
  BY <1>3, PointOf DEF ReputVar, Operation
<1>5. Point(RecutVar, <<"cut", "var">>, ReputVar) /\ RecutVar \in Seq(Operation)
  BY <1>4, PointOf DEF RecutVar, Operation
<1>6. Point(ToNeedVar, <<"need", "var">>, ToNeedCols) /\ ToNeedVar \in Seq(Operation)
  BY <1>3, PointOf DEF ToNeedVar, Operation
<1>7. Point(ToRmVar, <<"rm", "var">>, ToNeedVar) /\ ToRmVar \in Seq(Operation)
  BY <1>6, PointOf DEF ToRmVar, Operation
<1>8. Point(ToRmCols, <<"rm", "cols">>, ToRmVar) /\ ToRmCols \in Seq(Operation)
  BY <1>7, PointOf DEF ToRmCols, Operation
<1> QED
  BY <1>1, <1>2, <1>3, <1>4, <1>5, <1>6, <1>7, <1>8

LEMMA DeletePoints ==
    /\ Point(ToRmDir, <<"rmdir", "dir">>, <<>>) /\ ToRmDir \in Seq(Operation)
    /\ Point(ToEmpty, <<"empty", "dir">>, ToRmDir) /\ ToEmpty \in Seq(Operation)
    /\ Point(ToClose, <<"close", "dir">>, ToEmpty) /\ ToClose \in Seq(Operation)
    /\ Point(ToOpenCols2, <<"open", "cols">>, ToClose) /\ ToOpenCols2 \in Seq(Operation)
    /\ Point(ToOpen2, <<"open", "dir">>, ToClose) /\ ToOpen2 \in Seq(Operation)
<1>0. <<>> \in Seq(Operation)
  OBVIOUS
<1>1. Point(ToRmDir, <<"rmdir", "dir">>, <<>>) /\ ToRmDir \in Seq(Operation)
  BY <1>0, PointOf DEF ToRmDir, Operation
<1>2. Point(ToEmpty, <<"empty", "dir">>, ToRmDir) /\ ToEmpty \in Seq(Operation)
  BY <1>1, PointOf DEF ToEmpty, Operation
<1>3. Point(ToClose, <<"close", "dir">>, ToEmpty) /\ ToClose \in Seq(Operation)
  BY <1>2, PointOf DEF ToClose, Operation
<1>4. Point(ToOpenCols2, <<"open", "cols">>, ToClose) /\ ToOpenCols2 \in Seq(Operation)
  BY <1>3, PointOf DEF ToOpenCols2, Operation
<1>5. Point(ToOpen2, <<"open", "dir">>, ToClose) /\ ToOpen2 \in Seq(Operation)
  BY <1>3, PointOf DEF ToOpen2, Operation
<1> QED
  BY <1>1, <1>2, <1>3, <1>4, <1>5

LEMMA BackupPoints ==
    /\ Point(ToMove, <<"move", "dir">>, <<>>) /\ ToMove \in Seq(Operation)
    /\ Point(ToRmBak, <<"rmdir", "bak">>, ToMove) /\ ToRmBak \in Seq(Operation)
    /\ Point(ToEmptyBak, <<"empty", "bak">>, ToRmBak) /\ ToEmptyBak \in Seq(Operation)
<1>0. <<>> \in Seq(Operation)
  OBVIOUS
<1>1. Point(ToMove, <<"move", "dir">>, <<>>) /\ ToMove \in Seq(Operation)
  BY <1>0, PointOf DEF ToMove, Operation
<1>2. Point(ToRmBak, <<"rmdir", "bak">>, ToMove) /\ ToRmBak \in Seq(Operation)
  BY <1>1, PointOf DEF ToRmBak, Operation
<1>3. Point(ToEmptyBak, <<"empty", "bak">>, ToRmBak) /\ ToEmptyBak \in Seq(Operation)
  BY <1>2, PointOf DEF ToEmptyBak, Operation
<1> QED
  BY <1>1, <1>2, <1>3

-----------------------------------------------------------------------------
(* The lists that the calls start with are points. *)

LEMMA CallsArePoints ==
    /\ Write("db") \o <<<<"chmod", "db">>, <<"lock", "db">>>> = ToCutDb
    /\ <<<<"lock", "db">>>> = ToLock
    /\ CreateSteps = ToDir
    /\ Need = ToNeedVar
    /\ UpgradeSteps \o Need = ToRmCols
    /\ <<<<"open", "dir">>, <<"close", "dir">>, <<"empty", "dir">>, <<"rmdir", "dir">>>> = ToOpen2
    /\ <<>> \o <<<<"move", "dir">>>> = ToMove
    /\ <<<<"empty", "bak">>, <<"rmdir", "bak">>>> \o <<<<"move", "dir">>>> = ToEmptyBak
<1>1. Write("db") \o <<<<"chmod", "db">>, <<"lock", "db">>>> = ToCutDb
  BY DEF Write, Then, ToCutDb, ToPutDb, ToChmod, ToLock
<1>2. <<<<"lock", "db">>>> = ToLock
  BY DEF Then, ToLock
<1>3. CreateSteps = ToDir
  BY DEF CreateSteps, Write, Then, ToDir, ToIdx, ToCutDesc, ToPutDesc, ToCutCols, ToPutCols,
         ToCutVar, ToPutVar, ToData, ToOpen
<1>4. Need = ToNeedVar
  BY DEF Need, Then, ToNeedVar, ToNeedCols, ToOpen
<1>5. UpgradeSteps \o Need = ToRmCols
  BY DEF UpgradeSteps, Need, Then, ToRmCols, ToRmVar, ToNeedVar, ToNeedCols, ToOpen
<1>6. <<<<"open", "dir">>, <<"close", "dir">>, <<"empty", "dir">>, <<"rmdir", "dir">>>> = ToOpen2
  BY DEF Then, ToOpen2, ToClose, ToEmpty, ToRmDir
<1>7. <<>> \o <<<<"move", "dir">>>> = ToMove
  BY DEF Then, ToMove
<1>8. <<<<"empty", "bak">>, <<"rmdir", "bak">>>> \o <<<<"move", "dir">>>> = ToEmptyBak
  BY DEF Then, ToEmptyBak, ToRmBak, ToMove
<1> QED
  BY <1>1, <1>2, <1>3, <1>4, <1>5, <1>6, <1>7, <1>8

LEMMA NeedsArePoints ==
    /\ Write("var") \o ToNeedCols = RecutVar
    /\ Write("cols") \o ToOpen = RecutCols
    /\ <<>> \o ToNeedCols = ToNeedCols
    /\ <<>> \o ToOpen = ToOpen
    /\ <<<<"open", "cols">>>> \o <<>> = ToOpenCols
    /\ <<<<"open", "cols">>>> \o ToClose = ToOpenCols2
<1>1. Write("var") \o ToNeedCols = RecutVar
  BY DEF Write, Then, RecutVar, ReputVar, ToNeedCols, ToOpen
<1>2. Write("cols") \o ToOpen = RecutCols
  BY DEF Write, Then, RecutCols, ReputCols, ToOpen
<1>3. <<>> \o ToNeedCols = ToNeedCols /\ <<>> \o ToOpen = ToOpen
  BY DEF Then, ToNeedCols, ToOpen
<1>4. <<<<"open", "cols">>>> \o <<>> = ToOpenCols
  BY DEF Then, ToOpenCols
<1>5. <<<<"open", "cols">>>> \o ToClose = ToOpenCols2
  BY DEF Then, ToOpenCols2
<1> QED
  BY <1>1, <1>2, <1>3, <1>4, <1>5

-----------------------------------------------------------------------------
(* Types *)

LEMMA WriteTyped == \A f \in {"db", "desc", "cols", "var"} : Write(f) \in Seq(Operation)
BY DEF Write, Operation

LEMMA TodoTyped ==
    ASSUME TypeOK, NEW p \in Procs, todo[p] # <<>>
    PROVE  Tail(todo[p]) \in Seq(Operation) /\ Head(todo[p]) \in Operation
<1>1. todo[p] \in Seq(Operation)
  BY DEF TypeOK
<1> QED
  BY <1>1

LEMMA RowsTyped ==
    ASSUME TypeOK, DirsInv
    PROVE  RowsOf(dir) \subseteq Msgs /\ RowsOf(bak) \subseteq Msgs
BY TopicFilesAssumption DEF TypeOK, DirsInv, RowsOf, NoDir, None

LEMMA GensTyped == TypeOK => gens \in Nat
BY TopicFilesAssumption DEF TypeOK

LEMMA FileTypes ==
    /\ None \in File /\ Torn \in File /\ NoDir \in Dir /\ Closed \in Topic
    /\ \A n \in Nat : Ok(n) \in File
    /\ \A d \in Dir : Emptied(d) \in Dir
    /\ \A f \in File : Version(f) \in Nat
<1>1. None \in File /\ Torn \in File /\ \A n \in Nat : Ok(n) \in File
  BY DEF None, Torn, Ok, File
<1>2. NoDir \in Dir /\ Closed \in Topic
  BY <1>1 DEF NoDir, Dir, Closed, Topic
<1>3. \A d \in Dir : Emptied(d) \in Dir
  BY <1>1 DEF Emptied, NoDir, Dir
<1>4. \A f \in File : Version(f) \in Nat
  BY DEF Version, File
<1> QED
  BY <1>1, <1>2, <1>3, <1>4

LEMMA GoneTyped ==
    ASSUME TypeOK, NEW p \in Procs, Gone(p)
    PROVE  /\ lock' \in Procs \cup {NoProc}
           /\ role' \in [Procs -> {"none", "starting", "master", "reader"}]
           /\ todo' \in [Procs -> Seq(Operation)]
           /\ want' \in [Procs -> [var : Nat, cols : Nat]]
           /\ mem' \in [Procs -> Topic]
<1>1. <<>> \in Seq(Operation)
  OBVIOUS
<1> QED
  BY <1>1, FileTypes DEF TypeOK, Gone

LEMMA OpTyped ==
    ASSUME TypeOK, NEW p \in Procs, NEW op, Op(p, op)
    PROVE  todo' \in [Procs -> Seq(Operation)]
BY TodoTyped DEF TypeOK, Op

LEMMA CallTypes ==
    ASSUME TypeOK, NEW p \in Procs,
           \/ Startup(p, "master") \/ Startup(p, "reader") \/ Stop(p)
           \/ \E v \in Versions : CreateTopic(p, v)
           \/ CloseTopic(p) \/ DeleteTopic(p)
           \/ BackupTopic(p, TRUE) \/ BackupTopic(p, FALSE)
    PROVE  TypeOK'
<1>1. CASE Startup(p, "master") \/ Startup(p, "reader")
  <2>1. role' \in [Procs -> {"none", "starting", "master", "reader"}]
    BY <1>1 DEF TypeOK, Startup
  <2>2. todo' \in [Procs -> Seq(Operation)]
    BY <1>1, CallsArePoints, StartupPoints DEF TypeOK, Startup
  <2> QED
    BY <1>1, <2>1, <2>2 DEF TypeOK, Startup, disk, hist
<1>2. CASE Stop(p)
  BY <1>2, GoneTyped DEF TypeOK, Stop, disk, hist
<1>3. ASSUME NEW v \in Versions, CreateTopic(p, v)
      PROVE  TypeOK'
  <2>1. v \in Nat
    BY TopicFilesAssumption
  <2>2. todo' \in [Procs -> Seq(Operation)]
    BY <1>3, CallsArePoints, CreatePoints, UpgradePoints DEF TypeOK, CreateTopic
  <2> QED
    BY <1>3, <2>1, <2>2 DEF TypeOK, CreateTopic, disk
<1>4. CASE CloseTopic(p)
  BY <1>4, FileTypes DEF TypeOK, CloseTopic, disk, hist
<1>5. CASE DeleteTopic(p)
  <2>1. todo' \in [Procs -> Seq(Operation)]
    BY <1>5, CallsArePoints, DeletePoints DEF TypeOK, DeleteTopic
  <2> QED
    BY <1>5, <2>1 DEF TypeOK, DeleteTopic, disk, hist
<1>6. CASE BackupTopic(p, TRUE) \/ BackupTopic(p, FALSE)
  <2>1. todo' \in [Procs -> Seq(Operation)]
    BY <1>6, CallsArePoints, BackupPoints DEF TypeOK, BackupTopic
  <2> QED
    BY <1>6, <2>1, FileTypes DEF TypeOK, BackupTopic, disk, hist
<1> QED
  BY <1>1, <1>2, <1>3, <1>4, <1>5, <1>6

LEMMA RecordTypes ==
    ASSUME TypeOK, NEW p \in Procs,
           ReadRecord(p) \/ \E m \in Msgs : AppendRecord(p, m)
    PROVE  TypeOK'
<1>1. CASE ReadRecord(p)
  BY <1>1 DEF TypeOK, ReadRecord, disk, hist, Topic, Dir
<1>2. ASSUME NEW m \in Msgs, AppendRecord(p, m)
      PROVE  TypeOK'
  <2>1. mem' \in [Procs -> Topic]
    <3>1. mem[p] \in Topic /\ mem[p].gen \in Nat
      BY DEF TypeOK, Topic
    <3>2. [mem[p] EXCEPT !.file = mem[p].gen] \in Topic
      BY <3>1 DEF Topic
    <3>3. mem' = [mem EXCEPT ![p] = [mem[p] EXCEPT !.file = mem[p].gen]]
      BY <1>2 DEF AppendRecord
    <3> QED
      BY <3>2, <3>3 DEF TypeOK
  <2>2. rows' \in [1 .. MaxGens -> SUBSET Msgs] /\ acked' \subseteq Msgs
    BY <1>2 DEF TypeOK, AppendRecord
  <2> QED
    BY <1>2, <2>1, <2>2 DEF TypeOK, AppendRecord
<1> QED
  BY <1>1, <1>2

LEMMA DbTypes ==
    ASSUME TypeOK, NEW p \in Procs, CutDb(p) \/ PutDb(p) \/ ChmodDb(p) \/ LockDb(p)
    PROVE  TypeOK'
<1>1. CASE CutDb(p)
  BY <1>1, OpTyped, GoneTyped DEF TypeOK, CutDb, hist
<1>2. CASE PutDb(p)
  BY <1>2, OpTyped DEF TypeOK, PutDb, hist
<1>3. CASE ChmodDb(p)
  BY <1>3, OpTyped DEF TypeOK, ChmodDb, hist
<1>4. CASE LockDb(p)
  BY <1>4, OpTyped, GoneTyped DEF TypeOK, LockDb, disk, hist
<1> QED
  BY <1>1, <1>2, <1>3, <1>4

LEMMA FileStepTypes ==
    ASSUME TypeOK, NEW p \in Procs,
           \/ MakeDir(p) \/ MakeIn(p, "idx") \/ MakeIn(p, "data")
           \/ \E f \in {"desc", "cols", "var"} : CutFile(p, f) \/ PutFile(p, f)
           \/ \E f \in {"cols", "var"} : RemoveFile(p, f) \/ NeedFile(p, f)
    PROVE  TypeOK'
<1>1. CASE MakeDir(p)
  <2>1. gens' \in 0 .. MaxGens /\ gens + 1 \in Nat
    BY <1>1, TopicFilesAssumption DEF TypeOK, MakeDir
  <2>2. [NoDir EXCEPT !.gen = gens + 1] \in Dir
    BY <2>1, FileTypes DEF Dir
  <2>3. dir' \in Dir
    BY <1>1, <2>2 DEF MakeDir
  <2> QED
    BY <1>1, <2>1, <2>3, OpTyped DEF TypeOK, MakeDir, hist
<1>2. CASE MakeIn(p, "idx") \/ MakeIn(p, "data")
  <2>1. dir' \in Dir
    BY <1>2 DEF TypeOK, MakeIn, Dir
  <2> QED
    BY <1>2, <2>1, OpTyped DEF TypeOK, MakeIn, hist
<1>3. ASSUME NEW f \in {"desc", "cols", "var"}, CutFile(p, f) \/ PutFile(p, f)
      PROVE  TypeOK'
  <2>1. Value(p, f) \in File
    <3>1. want[p] \in [var : Nat, cols : Nat]
      BY DEF TypeOK
    <3> QED
      BY <3>1, FileTypes DEF Value
  <2>2. dir' \in Dir
    BY <1>3, <2>1, FileTypes DEF TypeOK, CutFile, PutFile, Dir
  <2>3. mem' \in [Procs -> Topic]
    <3>1. mem[p] \in Topic
      BY DEF TypeOK
    <3>2. f # "desc" => [mem[p] EXCEPT ![f] = Value(p, f)] \in Topic
      BY <2>1, <3>1 DEF Topic
    <3>3. \/ mem' = mem
          \/ f # "desc" /\ mem' = [mem EXCEPT ![p] = [mem[p] EXCEPT ![f] = Value(p, f)]]
      BY <1>3 DEF CutFile, PutFile
    <3> QED
      BY <3>2, <3>3 DEF TypeOK
  <2>4. CASE CutFile(p, f)
    BY <2>4, <2>2, <2>3, OpTyped DEF TypeOK, CutFile, hist
  <2>5. CASE PutFile(p, f)
    BY <2>5, <2>2, <2>3, OpTyped DEF TypeOK, PutFile, hist
  <2> QED
    BY <1>3, <2>4, <2>5
<1>4. ASSUME NEW f \in {"cols", "var"}, RemoveFile(p, f)
      PROVE  TypeOK'
  <2>1. dir' \in Dir
    BY <1>4, FileTypes DEF TypeOK, RemoveFile, Dir
  <2> QED
    BY <1>4, <2>1, OpTyped DEF TypeOK, RemoveFile, hist
<1>5. ASSUME NEW f \in {"cols", "var"}, NeedFile(p, f)
      PROVE  TypeOK'
  <2>1. Tail(todo[p]) \in Seq(Operation) /\ Write(f) \in Seq(Operation) /\ <<>> \in Seq(Operation)
    BY <1>5, TodoTyped, WriteTyped DEF NeedFile
  <2>2. todo' \in [Procs -> Seq(Operation)]
    BY <1>5, <2>1 DEF TypeOK, NeedFile
  <2> QED
    BY <1>5, <2>2 DEF TypeOK, NeedFile, disk, hist
<1> QED
  BY <1>1, <1>2, <1>3, <1>4, <1>5

LEMMA TopicStepTypes ==
    ASSUME TypeOK, DirsInv, NEW p \in Procs,
           \/ OpenTopic(p) \/ OpenCols(p) \/ CloseIt(p)
           \/ EmptyDir(p) \/ EmptyBak(p) \/ RmDir(p) \/ RmBak(p) \/ MoveDir(p)
    PROVE  TypeOK'
<1>1. CASE OpenTopic(p)
  <2>1. CASE Gone(p)
    BY <1>1, <2>1, GoneTyped DEF TypeOK, OpenTopic, disk, hist
  <2>2. CASE ~Gone(p)
    <3>1. /\ Tail(todo[p]) \in Seq(Operation) /\ <<>> \in Seq(Operation)
          /\ <<<<"open", "cols">>>> \in Seq(Operation)
      BY <1>1, TodoTyped, OpenPoints, NeedsArePoints DEF OpenTopic, Operation
    <3>2. todo' \in [Procs -> Seq(Operation)]
      <4>1. <<<<"open", "cols">>>> \o Tail(todo[p]) \in Seq(Operation)
        BY <3>1
      <4> QED
        BY <1>1, <2>2, <3>1, <4>1 DEF TypeOK, OpenTopic
    <3>3. mem' \in [Procs -> Topic]
      <4>1. mem[p] \in Topic /\ dir.var \in File
        BY DEF TypeOK, Dir
      <4>2. [mem[p] EXCEPT !.var = dir.var] \in Topic
        BY <4>1 DEF Topic
      <4>3. mem' = mem \/ mem' = [mem EXCEPT ![p] = [mem[p] EXCEPT !.var = dir.var]]
        BY <1>1, <2>2 DEF OpenTopic
      <4> QED
        BY <4>2, <4>3 DEF TypeOK
    <3> QED
      BY <1>1, <2>2, <3>2, <3>3 DEF TypeOK, OpenTopic, disk, hist
  <2> QED
    BY <2>1, <2>2
<1>2. CASE OpenCols(p)
  <2>1. CASE dir.idx
    <3>1. mem' \in [Procs -> Topic]
      <4>1. mem[p] \in Topic /\ dir.cols \in File /\ dir.gen \in Nat
        BY DEF TypeOK, Dir
      <4>2. [mem[p] EXCEPT !.cols = dir.cols, !.gen = dir.gen] \in Topic
        BY <4>1 DEF Topic
      <4>3. mem' = [mem EXCEPT ![p] = [mem[p] EXCEPT !.cols = dir.cols, !.gen = dir.gen]]
        BY <1>2, <2>1 DEF OpenCols, TypeOK
      <4> QED
        BY <4>2, <4>3 DEF TypeOK
    <3> QED
      BY <1>2, <2>1, <3>1, OpTyped DEF TypeOK, OpenCols, disk, hist
  <2>2. CASE ~dir.idx
    BY <1>2, <2>2, GoneTyped DEF TypeOK, OpenCols, disk, hist
  <2> QED
    BY <2>1, <2>2
<1>3. CASE CloseIt(p)
  BY <1>3, OpTyped, FileTypes DEF TypeOK, CloseIt, disk, hist
<1>4. CASE EmptyDir(p)
  BY <1>4, OpTyped, FileTypes, RowsTyped DEF TypeOK, EmptyDir
<1>5. CASE EmptyBak(p)
  BY <1>5, OpTyped, FileTypes, RowsTyped DEF TypeOK, EmptyBak
<1>6. CASE RmDir(p)
  BY <1>6, OpTyped, FileTypes DEF TypeOK, RmDir
<1>7. CASE RmBak(p)
  BY <1>7, OpTyped, FileTypes DEF TypeOK, RmBak, hist
<1>8. CASE MoveDir(p)
  <2>1. <<>> \in Seq(Operation) /\ CreateSteps \in Seq(Operation)
    BY CallsArePoints, CreatePoints
  <2>2. Version(dir.var) \in Nat /\ Version(dir.cols) \in Nat
    BY FileTypes DEF TypeOK, Dir
  <2>3. todo' \in [Procs -> Seq(Operation)] /\ want' \in [Procs -> [var : Nat, cols : Nat]]
    <3>1. [var |-> Version(dir.var), cols |-> Version(dir.cols)] \in [var : Nat, cols : Nat]
      BY <2>2
    <3>2. (IF role[p] = "master" THEN CreateSteps ELSE <<>>) \in Seq(Operation)
      BY <2>1
    <3>3. todo' \in [Procs -> Seq(Operation)]
      BY <1>8, <2>1, <3>2 DEF TypeOK, MoveDir
    <3>4. want' \in [Procs -> [var : Nat, cols : Nat]]
      BY <1>8, <3>1 DEF TypeOK, MoveDir
    <3> QED
      BY <3>3, <3>4
  <2>4. dir' \in Dir /\ bak' \in Dir
    BY <1>8, FileTypes DEF TypeOK, MoveDir
  <2> QED
    BY <1>8, <2>3, <2>4 DEF TypeOK, MoveDir, hist
<1> QED
  BY <1>1, <1>2, <1>3, <1>4, <1>5, <1>6, <1>7, <1>8

LEMMA StepTypes ==
    ASSUME TypeOK, DirsInv, [Next]_vars
    PROVE  TypeOK'
<1>1. CASE Next
  BY <1>1, CallTypes, RecordTypes, DbTypes, FileStepTypes, TopicStepTypes DEF Next
<1>2. CASE UNCHANGED vars
  BY <1>2 DEF TypeOK, vars
<1> QED
  BY <1>1, <1>2

-----------------------------------------------------------------------------
(* Steps of the processes that are not the master *)

\* A step of p is of no other process.
Alone(p) ==
    /\ \A q \in Procs \ {p} : /\ role'[q] = role[q] /\ todo'[q] = todo[q]
                              /\ want'[q] = want[q] /\ mem'[q] = mem[q]
    /\ gens' \in Nat /\ gens' >= gens

\* ... that changes nothing of the topic either.
Quiet(p) ==
    /\ Alone(p)
    /\ UNCHANGED <<dir, bak, rows, gens, asked, acked, gone>>
    /\ lock' = lock \/ (lock = p /\ lock' = NoProc)
    /\ role'[p] # "master"
    /\ OtherInv(p)'

LEMMA OthersKeep ==
    ASSUME TypeOK, NEW p \in Procs, Alone(p), NEW q \in Procs, q # p, OtherInv(q)
    PROVE  OtherInv(q)'
BY DEF TypeOK, Alone, OtherInv

LEMMA OneMaster ==
    ASSUME IInv, NEW p \in Procs, NEW q \in Procs, role[p] = "master", role[q] = "master"
    PROVE  p = q
BY DEF IInv, MasterInv

LEMMA SameMaster ==
    ASSUME NEW q, MasterInv(q), UNCHANGED <<dir, bak, rows, asked, gone, lock>>,
           todo'[q] = todo[q], want'[q] = want[q], mem'[q] = mem[q]
    PROVE  MasterInv(q)'
<1>1. Sane' = Sane /\ Resting' = Resting /\ Whole' = Whole /\ V' = V
  BY DEF Sane, Resting, Whole, V
<1>2. IsOpen(q)' = IsOpen(q)
  BY DEF IsOpen
<1>3. /\ SameVar(q)' = SameVar(q) /\ SameCols(q)' = SameCols(q) /\ Made(q)' = Made(q)
      /\ Wanted(q)' = Wanted(q) /\ OwnDir(q)' = OwnDir(q)
  BY <1>1, <1>2 DEF SameVar, SameCols, Made, Wanted, OwnDir
<1>4. ColsAsWanted(q)' = ColsAsWanted(q)
  BY <1>3 DEF ColsAsWanted
<1>5. RowsOf(dir)' = RowsOf(dir) /\ RowsOf(bak)' = RowsOf(bak)
  BY DEF RowsOf
<1>6. Settled(q) => Settled(q)'
  BY <1>1, <1>2, <1>3 DEF Settled, At
<1>7. Creating(q) => Creating(q)'
  BY <1>2, <1>3 DEF Creating, At
<1>8. Upgrading(q) => Upgrading(q)'
  BY <1>1, <1>2, <1>3, <1>4 DEF Upgrading, At
<1>9. Deleting(q) => Deleting(q)'
  BY <1>1, <1>2, <1>5 DEF Deleting, At
<1>10. BackingUp(q) => BackingUp(q)'
  BY <1>1, <1>2, <1>5 DEF BackingUp
<1> QED
  BY <1>3, <1>6, <1>7, <1>8, <1>9, <1>10 DEF MasterInv

LEMMA QuietKeeps ==
    ASSUME IInv, NEW p \in Procs, role[p] # "master", Quiet(p), TypeOK'
    PROVE  IInv'
<1>1. DirsInv' /\ NothingLost' /\ Resting' = Resting
  BY DEF IInv, DirsInv, NothingLost, RowsOf, Resting, Sane, Whole, V, Quiet
<1>2. ASSUME NEW q \in Procs
      PROVE  OtherInv(q)'
  BY <1>2, OthersKeep DEF IInv, Quiet
<1>3. ASSUME NEW q \in Procs, role'[q] = "master"
      PROVE  MasterInv(q)' /\ role[q] = "master"
  <2>1. q # p /\ role[q] = "master" /\ MasterInv(q)
    BY <1>3 DEF IInv, Quiet, Alone
  <2>2. lock' = lock
    BY <2>1 DEF MasterInv, Quiet
  <2> QED
    BY <2>1, <2>2, SameMaster DEF Quiet, Alone
<1>4. (\A q \in Procs : role'[q] # "master") => \A q \in Procs : role[q] # "master"
  BY DEF Quiet, Alone
<1> QED
  BY <1>1, <1>2, <1>3, <1>4 DEF IInv

\* What a process that is not the master may do next.
LEMMA OtherHead ==
    ASSUME IInv, NEW p \in Procs, role[p] # "master", todo[p] # <<>>
    PROVE  \/ /\ role[p] = "starting"
              /\ \/ Head(todo[p]) = <<"cut", "db">> /\ Tail(todo[p]) = ToPutDb
                 \/ Head(todo[p]) = <<"put", "db">> /\ Tail(todo[p]) = ToChmod
                 \/ Head(todo[p]) = <<"chmod", "db">> /\ Tail(todo[p]) = ToLock
                 \/ Head(todo[p]) = <<"lock", "db">> /\ Tail(todo[p]) = <<>>
           \/ /\ role[p] = "reader"
              /\ \/ Head(todo[p]) = <<"need", "var">> /\ Tail(todo[p]) = ToNeedCols
                 \/ Head(todo[p]) = <<"need", "cols">> /\ Tail(todo[p]) = ToOpen
                 \/ Head(todo[p]) = <<"open", "dir">> /\ Tail(todo[p]) = <<>>
                 \/ Head(todo[p]) = <<"open", "cols">> /\ Tail(todo[p]) = <<>>
<1>1. role[p] \in {"none", "starting", "master", "reader"} /\ OtherInv(p)
  BY DEF IInv, TypeOK
<1> QED
  BY <1>1, StartupPoints, UpgradePoints, OpenPoints DEF OtherInv, Point

LEMMA GoneQuiet ==
    ASSUME TypeOK, NEW p \in Procs, Gone(p), UNCHANGED <<dir, bak, rows, gens, hist>>
    PROVE  Quiet(p)
BY DEF TypeOK, Gone, Quiet, Alone, OtherInv, hist

LEMMA OtherCalls ==
    ASSUME Discipline, IInv, NEW p \in Procs, role[p] # "master",
           \/ Startup(p, "master") \/ Startup(p, "reader") \/ Stop(p)
           \/ \E v \in Versions : CreateTopic(p, v)
           \/ CloseTopic(p) \/ DeleteTopic(p)
           \/ BackupTopic(p, TRUE) \/ BackupTopic(p, FALSE)
           \/ ReadRecord(p) \/ \E m \in Msgs : AppendRecord(p, m)
    PROVE  Quiet(p)
<1>1. TypeOK /\ OtherInv(p) /\ gens \in Nat
  BY GensTyped DEF IInv
<1>2. CASE Startup(p, "master") \/ Startup(p, "reader")
  <2>1. Alone(p) /\ UNCHANGED <<dir, bak, rows, gens, asked, acked, gone, lock, mem>>
    BY <1>1, <1>2 DEF Startup, disk, hist, Alone, TypeOK
  <2>2. \/ role'[p] = "starting" /\ todo'[p] \in {ToCutDb, ToLock}
        \/ role'[p] = "reader" /\ todo'[p] = todo[p]
    BY <1>1, <1>2, CallsArePoints DEF Startup, TypeOK
  <2>3. todo[p] = <<>> /\ mem[p] = Closed
    BY <1>1, <1>2 DEF Startup, OtherInv
  <2> QED
    BY <1>1, <2>1, <2>2, <2>3 DEF Quiet, OtherInv, Closed
<1>3. CASE Stop(p)
  BY <1>1, <1>3, GoneQuiet DEF Stop, disk
<1>4. ASSUME NEW v \in Versions, CreateTopic(p, v)
      PROVE  Quiet(p)
  <2>1. role[p] = "reader" /\ v = 0 /\ dir # NoDir
    BY <1>4 DEF Discipline, CreateTopic, Idle, Up
  <2>2. asked \in Nat /\ Version(dir.var) \in Nat
    BY <1>1, FileTypes DEF TypeOK, Dir
  <2>3. asked' = asked /\ todo' = [todo EXCEPT ![p] = ToNeedVar]
    BY <1>4, <2>1, <2>2, CallsArePoints DEF CreateTopic
  <2> QED
    BY <1>1, <1>4, <2>1, <2>3 DEF CreateTopic, Quiet, Alone, OtherInv, TypeOK, disk
<1>5. CASE CloseTopic(p)
  BY <1>1, <1>5 DEF CloseTopic, Idle, Up, Quiet, Alone, OtherInv, TypeOK, disk, hist, Closed
<1>6. CASE DeleteTopic(p) \/ BackupTopic(p, TRUE) \/ BackupTopic(p, FALSE)
  BY <1>6 DEF Discipline, DeleteTopic, BackupTopic, Idle, Up
<1>7. CASE ReadRecord(p)
  <2>1. mem'[p].gen = mem[p].gen
    BY <1>1, <1>7 DEF ReadRecord, TypeOK, Topic
  <2> QED
    BY <1>1, <1>7, <2>1 DEF ReadRecord, Idle, Up, Quiet, Alone, OtherInv, TypeOK, disk, hist
<1>8. CASE \E m \in Msgs : AppendRecord(p, m)
  BY <1>8 DEF AppendRecord
<1> QED
  BY <1>2, <1>3, <1>4, <1>5, <1>6, <1>7, <1>8

LEMMA OtherFiles ==
    ASSUME IInv, NEW p \in Procs, role[p] # "master",
           \/ CutDb(p) \/ PutDb(p) \/ ChmodDb(p)
           \/ MakeDir(p) \/ MakeIn(p, "idx") \/ MakeIn(p, "data")
           \/ \E f \in {"desc", "cols", "var"} : CutFile(p, f) \/ PutFile(p, f)
           \/ \E f \in {"cols", "var"} : RemoveFile(p, f) \/ NeedFile(p, f)
           \/ OpenTopic(p) \/ OpenCols(p) \/ CloseIt(p)
           \/ EmptyDir(p) \/ EmptyBak(p) \/ RmDir(p) \/ RmBak(p) \/ MoveDir(p)
    PROVE  Quiet(p)
<1>1. TypeOK /\ OtherInv(p) /\ gens \in Nat /\ dir.gen \in 0 .. gens
  BY DEF IInv, TypeOK, DirsInv, NoDir
<1>2. CASE CutDb(p) \/ PutDb(p) \/ ChmodDb(p)
  <2>1. CASE Gone(p)
    BY <1>1, <1>2, <2>1, GoneQuiet DEF CutDb, PutDb, ChmodDb
  <2>2. CASE ~Gone(p)
    <3>1. role[p] = "starting" /\ todo'[p] \in {ToPutDb, ToChmod, ToLock}
      <4>1. /\ todo[p] # <<>> /\ todo' = [todo EXCEPT ![p] = Tail(todo[p])]
            /\ Head(todo[p]) \in {<<"cut", "db">>, <<"put", "db">>, <<"chmod", "db">>}
        BY <1>2, <2>2 DEF CutDb, PutDb, ChmodDb, Op
      <4>2. role[p] = "starting" /\ Tail(todo[p]) \in {ToPutDb, ToChmod, ToLock}
        BY <4>1, OtherHead
      <4> QED
        BY <1>1, <4>1, <4>2 DEF TypeOK
    <3> QED
      BY <1>1, <1>2, <2>2, <3>1
         DEF CutDb, PutDb, ChmodDb, Op, Quiet, Alone, OtherInv, TypeOK, hist
  <2> QED
    BY <2>1, <2>2
<1>3. ASSUME NEW f \in {"cols", "var"}, NeedFile(p, f)
      PROVE  Quiet(p)
  <2>1. todo[p] # <<>> /\ Head(todo[p]) \in {<<"need", "var">>, <<"need", "cols">>}
    BY <1>3 DEF NeedFile
  <2>2. role[p] = "reader" /\ Tail(todo[p]) \in {ToNeedCols, ToOpen}
    BY <2>1, OtherHead
  <2>3. todo' = [todo EXCEPT ![p] = <<>> \o Tail(todo[p])]
    BY <1>3, <2>2 DEF NeedFile
  <2>4. todo'[p] \in {ToNeedCols, ToOpen}
    BY <1>1, <2>2, <2>3, NeedsArePoints DEF TypeOK
  <2> QED
    BY <1>1, <1>3, <2>2, <2>4 DEF NeedFile, Quiet, Alone, OtherInv, TypeOK, disk, hist
<1>4. CASE OpenTopic(p)
  <2>1. CASE Gone(p)
    BY <1>1, <1>4, <2>1, GoneQuiet DEF OpenTopic, disk
  <2>2. CASE ~Gone(p)
    <3>1. role[p] = "reader" /\ todo'[p] \in {<<>>, ToOpenCols}
      <4>1. todo[p] # <<>> /\ Head(todo[p]) = <<"open", "dir">>
        BY <1>4 DEF OpenTopic
      <4>2. role[p] = "reader" /\ Tail(todo[p]) = <<>>
        BY <4>1, OtherHead
      <4> QED
        BY <1>1, <1>4, <2>2, <4>2, NeedsArePoints DEF OpenTopic, TypeOK
    <3>2. mem'[p].gen = mem[p].gen
      BY <1>1, <1>4, <2>2 DEF OpenTopic, TypeOK, Topic
    <3> QED
      BY <1>1, <1>4, <2>2, <3>1, <3>2
         DEF OpenTopic, Quiet, Alone, OtherInv, TypeOK, disk, hist
  <2> QED
    BY <2>1, <2>2
<1>5. CASE OpenCols(p)
  <2>1. CASE ~dir.idx
    BY <1>1, <1>5, <2>1, GoneQuiet DEF OpenCols, disk
  <2>2. CASE dir.idx
    <3>1. role[p] = "reader" /\ todo'[p] = <<>>
      <4>1. /\ todo[p] # <<>> /\ Head(todo[p]) = <<"open", "cols">>
            /\ todo' = [todo EXCEPT ![p] = Tail(todo[p])]
        BY <1>5, <2>2 DEF OpenCols, Op
      <4>2. role[p] = "reader" /\ Tail(todo[p]) = <<>>
        BY <4>1, OtherHead
      <4> QED
        BY <1>1, <4>1, <4>2 DEF TypeOK
    <3>2. mem'[p].gen = dir.gen
      BY <1>1, <1>5, <2>2 DEF OpenCols, TypeOK, Topic
    <3> QED
      BY <1>1, <1>5, <2>2, <3>1, <3>2
         DEF OpenCols, Op, Quiet, Alone, OtherInv, TypeOK, disk, hist
  <2> QED
    BY <2>1, <2>2
<1>6. CASE MakeDir(p) \/ MakeIn(p, "idx") \/ MakeIn(p, "data")
  BY <1>6, OtherHead DEF MakeDir, MakeIn, Op
<1>7. CASE \/ \E f \in {"desc", "cols", "var"} : CutFile(p, f) \/ PutFile(p, f)
           \/ \E f \in {"cols", "var"} : RemoveFile(p, f)
  BY <1>7, OtherHead DEF CutFile, PutFile, RemoveFile, Op
<1>8. CASE \/ CloseIt(p) \/ EmptyDir(p) \/ EmptyBak(p) \/ RmDir(p) \/ RmBak(p) \/ MoveDir(p)
  BY <1>8, OtherHead DEF CloseIt, EmptyDir, EmptyBak, RmDir, RmBak, MoveDir, Op
<1> QED
  BY <1>2, <1>3, <1>4, <1>5, <1>6, <1>7, <1>8

\* Whoever gets the lock finds a directory that can be repaired.
LEMMA NewMaster ==
    ASSUME IInv, NEW p \in Procs, role[p] # "master", LockDb(p), TypeOK'
    PROVE  IInv'
<1>1. TypeOK /\ OtherInv(p) /\ gens \in Nat
  BY GensTyped DEF IInv
<1>2. CASE Gone(p)
  BY <1>1, <1>2, GoneQuiet, QuietKeeps DEF LockDb, disk
<1>3. CASE ~Gone(p)
  <2>1. /\ lock = NoProc /\ lock' = p /\ role[p] = "starting" /\ Tail(todo[p]) = <<>>
        /\ todo' = [todo EXCEPT ![p] = <<>>] /\ role' = [role EXCEPT ![p] = "master"]
        /\ UNCHANGED <<dir, bak, rows, gens, asked, acked, gone, want, mem>>
    BY <1>3, OtherHead DEF LockDb, Op, disk, hist
  <2>2. \A q \in Procs : role[q] # "master"
    BY <2>1, TopicFilesAssumption DEF IInv, MasterInv
  <2>3. Resting' /\ DirsInv' /\ NothingLost'
    BY <2>1, <2>2 DEF IInv, Resting, Sane, Whole, V, DirsInv, NothingLost, RowsOf
  <2>4. todo'[p] = <<>> /\ role'[p] = "master" /\ mem'[p] = Closed
    BY <1>1, <2>1 DEF TypeOK, OtherInv
  <2>5. MasterInv(p)'
    BY <2>1, <2>3, <2>4 DEF MasterInv, OwnDir, Settled, At, IsOpen, Closed
  <2>6. Alone(p)
    BY <1>1, <2>1 DEF Alone, TypeOK
  <2>7. \A q \in Procs : OtherInv(q)'
    BY <1>1, <2>4, <2>6, OthersKeep DEF IInv, OtherInv
  <2>8. \A q \in Procs : role'[q] = "master" => q = p
    BY <2>2, <2>6 DEF Alone
  <2> QED
    BY <2>3, <2>4, <2>5, <2>7, <2>8 DEF IInv
<1> QED
  BY <1>2, <1>3


-----------------------------------------------------------------------------
(* Steps of the master *)

\* What a step of the master has to leave.
Masters(p) == Alone(p) /\ role'[p] = "master" /\ DirsInv' /\ NothingLost' /\ MasterInv(p)'

LEMMA MasterKeeps ==
    ASSUME IInv, NEW p \in Procs, role[p] = "master", Masters(p), TypeOK'
    PROVE  IInv'
<1>1. ASSUME NEW q \in Procs
      PROVE  OtherInv(q)'
  <2>1. CASE q = p
    BY <2>1 DEF Masters, OtherInv
  <2>2. CASE q # p
    BY <2>2, OthersKeep DEF IInv, Masters
  <2> QED
    BY <2>1, <2>2
<1>2. ASSUME NEW q \in Procs, role'[q] = "master"
      PROVE  q = p
  BY <1>2, OneMaster DEF Masters, Alone
<1> QED
  BY <1>1, <1>2 DEF IInv, Masters

LEMMA MasterGone ==
    ASSUME IInv, NEW p \in Procs, role[p] = "master", Gone(p), Resting, TypeOK',
           UNCHANGED <<dir, bak, rows, gens, hist>>
    PROVE  IInv'
<1>1. TypeOK /\ gens \in Nat
  BY GensTyped DEF IInv
<1>2. Alone(p) /\ role'[p] = "none" /\ OtherInv(p)'
  BY <1>1 DEF Gone, Alone, OtherInv, TypeOK
<1>3. Resting' /\ DirsInv' /\ NothingLost'
  BY DEF IInv, Resting, Sane, Whole, V, DirsInv, NothingLost, RowsOf, hist
<1>4. \A q \in Procs : OtherInv(q)'
  BY <1>1, <1>2, OthersKeep DEF IInv
<1>5. \A q \in Procs : role'[q] # "master"
  BY <1>2, OneMaster DEF Alone
<1> QED
  BY <1>3, <1>4, <1>5 DEF IInv

LEMMA Opened ==
    ASSUME IInv, NEW p \in Procs, role[p] = "master"
    PROVE  /\ TypeOK /\ DirsInv /\ NothingLost /\ MasterInv(p) /\ gens \in Nat
           /\ dir.gen \in Nat /\ dir.gen <= gens /\ V \in Nat /\ asked \in Nat
           /\ dir.cols \in File /\ dir.var \in File /\ NoDir.gen = 0
           /\ mem[p] \in Topic /\ want[p] \in [var : Nat, cols : Nat]
           /\ IsOpen(p) => dir # NoDir
<1>1. TypeOK /\ DirsInv /\ NothingLost /\ MasterInv(p) /\ gens \in Nat
  BY GensTyped DEF IInv
<1>2. /\ dir \in Dir /\ asked \in Nat /\ mem[p] \in Topic
      /\ want[p] \in [var : Nat, cols : Nat]
  BY <1>1 DEF TypeOK
<1>3. dir.gen \in Nat /\ dir.cols \in File /\ dir.var \in File /\ V \in Nat
  BY <1>2, FileTypes DEF Dir, V
<1>4. NoDir.gen = 0 /\ dir.gen <= gens
  BY <1>1, <1>3 DEF DirsInv, NoDir
<1>5. IsOpen(p) => dir # NoDir
  BY <1>1, <1>4 DEF MasterInv, OwnDir, IsOpen
<1> QED
  BY <1>1, <1>2, <1>3, <1>4, <1>5

\* The idle master.
LEMMA IdleMaster ==
    ASSUME IInv, NEW p \in Procs, role[p] = "master", todo[p] = <<>>
    PROVE  /\ Resting
           /\ IsOpen(p) => SameVar(p) /\ SameCols(p) /\ Made(p) /\ Sane
<1>1. MasterInv(p) /\ (IsOpen(p) => dir # NoDir)
  BY Opened
<1>2. Settled(p)
  BY <1>1, CreatePoints, UpgradePoints, DeletePoints, BackupPoints
     DEF MasterInv, Creating, Upgrading, Deleting, BackingUp, At, Point
<1> QED
  BY <1>1, <1>2, OpenPoints DEF Settled, At, Point, Resting


\* What the master does next, and what holds there.
Ahead(p, op, rest, what) == Head(todo[p]) = op /\ Tail(todo[p]) = rest /\ what

LEMMA SettledHead ==
    ASSUME NEW p, Settled(p), todo[p] # <<>>
    PROVE  /\ Sane /\ Made(p)
           /\ \/ Ahead(p, <<"open", "dir">>, <<>>, SameVar(p) /\ SameCols(p))
              \/ Ahead(p, <<"open", "cols">>, <<>>, ~IsOpen(p) /\ mem[p].var = dir.var)
BY OpenPoints DEF Settled, At, Point, Ahead

LEMMA CreatingHead ==
    ASSUME NEW p, Creating(p)
    PROVE  /\ ~IsOpen(p) /\ Wanted(p)
           /\ \/ Ahead(p, <<"make", "dir">>, ToIdx, dir = NoDir)
              \/ Ahead(p, <<"make", "idx">>, ToCutDesc, dir.gen # 0)
              \/ /\ dir.gen # 0 /\ dir.idx
                 /\ \/ Ahead(p, <<"cut", "desc">>, ToPutDesc, TRUE)
                    \/ Ahead(p, <<"put", "desc">>, ToCutCols, TRUE)
                    \/ Ahead(p, <<"cut", "cols">>, ToPutCols, dir.desc.st = "ok")
                    \/ Ahead(p, <<"put", "cols">>, ToCutVar, dir.desc.st = "ok")
                    \/ /\ dir.desc.st = "ok" /\ dir.cols = Ok(want[p].cols)
                       /\ \/ Ahead(p, <<"cut", "var">>, ToPutVar, TRUE)
                          \/ Ahead(p, <<"put", "var">>, ToData, TRUE)
                          \/ Ahead(p, <<"make", "data">>, ToOpen, dir.var = Ok(want[p].var))
BY CreatePoints DEF Creating, At, Point, Ahead

LEMMA UpgradingHead ==
    ASSUME NEW p, Upgrading(p)
    PROVE  /\ Wanted(p)
           /\ \/ Ahead(p, <<"rm", "cols">>, ToRmVar, Sane)
              \/ Ahead(p, <<"rm", "var">>, ToNeedVar, Whole /\ dir.cols.st = "none" /\ V <= asked)
              \/ Ahead(p, <<"need", "var">>, ToNeedCols,
                       /\ Sane /\ ColsAsWanted(p)
                       /\ dir.var.st # "none" => V = want[p].var /\ SameVar(p))
              \/ Ahead(p, <<"cut", "var">>, ReputVar,
                       Sane /\ dir.var.st = "none" /\ ColsAsWanted(p))
              \/ Ahead(p, <<"put", "var">>, ToNeedCols,
                       /\ Sane /\ dir.var.st = "torn" /\ ColsAsWanted(p)
                       /\ IsOpen(p) => mem[p].var = Ok(want[p].var))
              \/ Ahead(p, <<"need", "cols">>, ToOpen,
                       /\ Sane /\ V = want[p].cols /\ SameVar(p)
                       /\ dir.cols.st # "none" => SameCols(p))
              \/ Ahead(p, <<"cut", "cols">>, ReputCols, Sane /\ V = want[p].cols /\ SameVar(p))
              \/ Ahead(p, <<"put", "cols">>, ToOpen,
                       /\ Whole /\ V = want[p].cols /\ SameVar(p)
                       /\ IsOpen(p) => mem[p].cols = Ok(want[p].cols))
BY UpgradePoints DEF Upgrading, At, Point, Ahead

LEMMA DeletingHead ==
    ASSUME NEW p, Deleting(p)
    PROVE  \/ Ahead(p, <<"open", "dir">>, ToClose, Sane)
           \/ Ahead(p, <<"open", "cols">>, ToClose, Sane /\ ~IsOpen(p))
           \/ Ahead(p, <<"close", "dir">>, ToEmpty, Sane)
           \/ Ahead(p, <<"empty", "dir">>, ToRmDir, Sane /\ ~IsOpen(p))
           \/ Ahead(p, <<"rmdir", "dir">>, <<>>, RowsOf(dir) \subseteq gone /\ ~IsOpen(p))
BY DeletePoints DEF Deleting, At, Point, Ahead

LEMMA BackingUpHead ==
    ASSUME NEW p, BackingUp(p)
    PROVE  /\ ~IsOpen(p) /\ Sane /\ dir.cols = Ok(V)
           /\ \/ Ahead(p, <<"empty", "bak">>, ToRmBak, TRUE)
              \/ Ahead(p, <<"rmdir", "bak">>, ToMove, RowsOf(bak) \subseteq gone)
              \/ Ahead(p, <<"move", "dir">>, <<>>, RowsOf(bak) \subseteq gone)
BY BackupPoints DEF BackingUp, At, Point, Ahead

LEMMA MakeHeads ==
    ASSUME NEW p, MasterInv(p), todo[p] # <<>>
    PROVE  /\ Head(todo[p]) = <<"make", "dir">> =>
                 Tail(todo[p]) = ToIdx /\ dir = NoDir /\ ~IsOpen(p) /\ Wanted(p)
           /\ Head(todo[p]) = <<"make", "idx">> =>
                 Tail(todo[p]) = ToCutDesc /\ dir.gen # 0 /\ ~IsOpen(p) /\ Wanted(p)
           /\ Head(todo[p]) = <<"make", "data">> =>
                 /\ Tail(todo[p]) = ToOpen /\ dir.gen # 0 /\ dir.idx /\ dir.desc.st = "ok"
                 /\ dir.cols = Ok(want[p].cols) /\ dir.var = Ok(want[p].var)
                 /\ ~IsOpen(p) /\ Wanted(p)
BY SettledHead, CreatingHead, UpgradingHead, DeletingHead, BackingUpHead DEF MasterInv, Ahead

LEMMA CutHeads ==
    ASSUME NEW p, MasterInv(p), todo[p] # <<>>
    PROVE  /\ Head(todo[p]) = <<"cut", "desc">> =>
                 /\ Tail(todo[p]) = ToPutDesc /\ dir.gen # 0 /\ dir.idx
                 /\ ~IsOpen(p) /\ Wanted(p)
           /\ Head(todo[p]) = <<"cut", "cols">> =>
                 /\ Wanted(p)
                 /\ \/ /\ Tail(todo[p]) = ToPutCols /\ dir.gen # 0 /\ dir.idx
                       /\ dir.desc.st = "ok" /\ ~IsOpen(p)
                    \/ Tail(todo[p]) = ReputCols /\ Sane /\ V = want[p].cols /\ SameVar(p)
           /\ Head(todo[p]) = <<"cut", "var">> =>
                 /\ Wanted(p)
                 /\ \/ /\ Tail(todo[p]) = ToPutVar /\ dir.gen # 0 /\ dir.idx
                       /\ dir.desc.st = "ok" /\ dir.cols = Ok(want[p].cols) /\ ~IsOpen(p)
                    \/ /\ Tail(todo[p]) = ReputVar
                       /\ Sane /\ dir.var.st = "none" /\ ColsAsWanted(p)
BY SettledHead, CreatingHead, UpgradingHead, DeletingHead, BackingUpHead DEF MasterInv, Ahead

LEMMA PutHeads ==
    ASSUME NEW p, MasterInv(p), todo[p] # <<>>
    PROVE  /\ Head(todo[p]) = <<"put", "desc">> =>
                 /\ Tail(todo[p]) = ToCutCols /\ dir.gen # 0 /\ dir.idx
                 /\ ~IsOpen(p) /\ Wanted(p)
           /\ Head(todo[p]) = <<"put", "cols">> =>
                 /\ Wanted(p)
                 /\ \/ /\ Tail(todo[p]) = ToCutVar /\ dir.gen # 0 /\ dir.idx
                       /\ dir.desc.st = "ok" /\ ~IsOpen(p)
                    \/ /\ Tail(todo[p]) = ToOpen /\ Whole /\ V = want[p].cols /\ SameVar(p)
                       /\ IsOpen(p) => mem[p].cols = Ok(want[p].cols)
           /\ Head(todo[p]) = <<"put", "var">> =>
                 /\ Wanted(p)
                 /\ \/ /\ Tail(todo[p]) = ToData /\ dir.gen # 0 /\ dir.idx
                       /\ dir.desc.st = "ok" /\ dir.cols = Ok(want[p].cols) /\ ~IsOpen(p)
                    \/ /\ Tail(todo[p]) = ToNeedCols
                       /\ Sane /\ dir.var.st = "torn" /\ ColsAsWanted(p)
                       /\ IsOpen(p) => mem[p].var = Ok(want[p].var)
BY SettledHead, CreatingHead, UpgradingHead, DeletingHead, BackingUpHead DEF MasterInv, Ahead

LEMMA UpgradeHeads ==
    ASSUME NEW p, MasterInv(p), todo[p] # <<>>
    PROVE  /\ Head(todo[p]) = <<"rm", "cols">> => Tail(todo[p]) = ToRmVar /\ Sane /\ Wanted(p)
           /\ Head(todo[p]) = <<"rm", "var">> =>
                 /\ Tail(todo[p]) = ToNeedVar /\ Wanted(p)
                 /\ Whole /\ dir.cols.st = "none" /\ V <= asked
           /\ Head(todo[p]) = <<"need", "var">> =>
                 /\ Tail(todo[p]) = ToNeedCols /\ Wanted(p) /\ Sane /\ ColsAsWanted(p)
                 /\ dir.var.st # "none" => V = want[p].var /\ SameVar(p)
           /\ Head(todo[p]) = <<"need", "cols">> =>
                 /\ Tail(todo[p]) = ToOpen /\ Wanted(p)
                 /\ Sane /\ V = want[p].cols /\ SameVar(p)
                 /\ dir.cols.st # "none" => SameCols(p)
BY SettledHead, CreatingHead, UpgradingHead, DeletingHead, BackingUpHead DEF MasterInv, Ahead

LEMMA OpenHeads ==
    ASSUME NEW p, MasterInv(p), todo[p] # <<>>
    PROVE  /\ Head(todo[p]) = <<"open", "dir">> =>
                 /\ Sane
                 /\ \/ Tail(todo[p]) = <<>> /\ Made(p) /\ SameVar(p) /\ SameCols(p)
                    \/ Tail(todo[p]) = ToClose
           /\ Head(todo[p]) = <<"open", "cols">> =>
                 /\ Sane /\ ~IsOpen(p)
                 /\ \/ Tail(todo[p]) = <<>> /\ Made(p) /\ mem[p].var = dir.var
                    \/ Tail(todo[p]) = ToClose
           /\ Head(todo[p]) = <<"close", "dir">> => Tail(todo[p]) = ToEmpty /\ Sane
BY SettledHead, CreatingHead, UpgradingHead, DeletingHead, BackingUpHead DEF MasterInv, Ahead

LEMMA RemoveHeads ==
    ASSUME NEW p, MasterInv(p), todo[p] # <<>>
    PROVE  /\ Head(todo[p]) = <<"empty", "dir">> => Tail(todo[p]) = ToRmDir /\ Sane /\ ~IsOpen(p)
           /\ Head(todo[p]) = <<"rmdir", "dir">> =>
                 Tail(todo[p]) = <<>> /\ RowsOf(dir) \subseteq gone /\ ~IsOpen(p)
           /\ Head(todo[p]) = <<"empty", "bak">> =>
                 Tail(todo[p]) = ToRmBak /\ ~IsOpen(p) /\ Sane /\ dir.cols = Ok(V)
           /\ Head(todo[p]) = <<"rmdir", "bak">> =>
                 /\ Tail(todo[p]) = ToMove /\ ~IsOpen(p) /\ Sane /\ dir.cols = Ok(V)
                 /\ RowsOf(bak) \subseteq gone
           /\ Head(todo[p]) = <<"move", "dir">> =>
                 /\ Tail(todo[p]) = <<>> /\ ~IsOpen(p) /\ Sane /\ dir.cols = Ok(V)
                 /\ RowsOf(bak) \subseteq gone
           /\ Head(todo[p]) \notin {<<"cut", "db">>, <<"put", "db">>, <<"chmod", "db">>,
                                    <<"lock", "db">>}
BY SettledHead, CreatingHead, UpgradingHead, DeletingHead, BackingUpHead DEF MasterInv, Ahead

LEMMA MasterCalls ==
    ASSUME Discipline, IInv, NEW p \in Procs, role[p] = "master",
           \/ \E v \in Versions : CreateTopic(p, v)
           \/ CloseTopic(p) \/ DeleteTopic(p)
           \/ BackupTopic(p, TRUE) \/ BackupTopic(p, FALSE)
    PROVE  Masters(p)
<1> USE Opened
<1>1. /\ TypeOK /\ lock = p /\ OwnDir(p)
      /\ todo[p] = <<>> => Resting
      /\ todo[p] = <<>> => (IsOpen(p) => SameVar(p) /\ SameCols(p) /\ Made(p) /\ Sane)
  BY IdleMaster DEF MasterInv
<1>2. ASSUME NEW v \in Versions, CreateTopic(p, v)
      PROVE  Masters(p)
  <2>1. v \in Nat /\ v >= asked
    BY <1>2, TopicFilesAssumption DEF CreateTopic, Discipline
  <2>2. /\ Alone(p) /\ role'[p] = "master" /\ asked' = v /\ want'[p] = [var |-> v, cols |-> v]
        /\ UNCHANGED <<dir, bak, rows, gens, lock, mem, acked, gone>>
    BY <1>1, <1>2, <2>1 DEF CreateTopic, Alone, TypeOK, disk
  <2>3. DirsInv' /\ NothingLost'
    BY <2>2 DEF DirsInv, NothingLost, RowsOf
  <2>4. IsOpen(p)' = IsOpen(p) /\ OwnDir(p)' /\ Wanted(p)' /\ lock' = p
    BY <1>1, <2>1, <2>2 DEF IsOpen, OwnDir, Wanted
  <2>5. todo[p] = <<>> /\ Resting
    BY <1>1, <1>2 DEF CreateTopic, Idle
  <2>6. CASE dir = NoDir
    <3>1. todo'[p] = ToDir
      BY <1>1, <1>2, <2>6, CallsArePoints DEF CreateTopic, TypeOK
    <3>2. Creating(p)'
      BY <1>1, <2>2, <2>4, <2>6, <3>1 DEF Creating, At
    <3> QED
      BY <2>2, <2>3, <2>4, <3>2 DEF Masters, MasterInv
  <2>7. CASE dir # NoDir
    <3>1. Sane' /\ Sane
      BY <2>1, <2>2, <2>5, <2>7 DEF Resting, Sane, Whole, V
    <3>2. CASE v > V
      <4>1. todo'[p] = ToRmCols
        <5>1. todo' = [todo EXCEPT ![p] = UpgradeSteps \o Need]
          BY <1>2, <2>1, <2>7, <3>2 DEF CreateTopic, V
        <5> QED
          BY <1>1, <5>1, CallsArePoints DEF TypeOK
      <4>2. Upgrading(p)'
        BY <2>4, <3>1, <4>1 DEF Upgrading, At
      <4> QED
        BY <2>2, <2>3, <2>4, <4>2 DEF Masters, MasterInv
    <3>3. CASE v <= V
      <4>1. todo'[p] = ToNeedVar
        <5>1. todo' = [todo EXCEPT ![p] = Need]
          BY <1>2, <2>1, <2>7, <3>3 DEF CreateTopic, V
        <5> QED
          BY <1>1, <5>1, CallsArePoints DEF TypeOK
      <4>2. V = v /\ V' = V
        BY <2>1, <2>2, <3>1, <3>3 DEF Sane, V
      <4>3. ColsAsWanted(p)' /\ (dir.var.st # "none" => V = want[p].var /\ SameVar(p))'
        BY <1>1, <2>2, <2>4, <2>5, <3>1, <4>2 DEF ColsAsWanted, Sane, SameVar, SameCols
      <4>4. Upgrading(p)'
        BY <2>4, <3>1, <4>1, <4>3 DEF Upgrading, At
      <4> QED
        BY <2>2, <2>3, <2>4, <4>4 DEF Masters, MasterInv
    <3> QED
      BY <2>1, <3>2, <3>3
  <2> QED
    BY <2>6, <2>7
<1>3. CASE CloseTopic(p)
  <2>1. /\ Alone(p) /\ role'[p] = "master" /\ todo'[p] = <<>> /\ mem'[p] = Closed
        /\ UNCHANGED <<dir, bak, rows, gens, lock, asked, acked, gone>>
    BY <1>1, <1>3 DEF CloseTopic, Idle, Alone, TypeOK, disk, hist
  <2>2. DirsInv' /\ NothingLost' /\ Resting' /\ ~IsOpen(p)' /\ OwnDir(p)'
    BY <1>1, <1>3, <2>1 DEF CloseTopic, Idle, DirsInv, NothingLost, RowsOf, Resting, Sane, Whole,
                            V, IsOpen, OwnDir, Closed
  <2> QED
    BY <1>1, <2>1, <2>2 DEF Masters, MasterInv, Settled, At
<1>4. CASE DeleteTopic(p)
  <2>1. /\ Alone(p) /\ role'[p] = "master" /\ todo'[p] = ToOpen2 /\ mem'[p] = mem[p]
        /\ UNCHANGED <<dir, bak, rows, gens, lock, asked, acked, gone>>
    BY <1>1, <1>4, CallsArePoints DEF DeleteTopic, Alone, TypeOK, disk, hist
  <2>2. DirsInv' /\ NothingLost' /\ Sane' /\ OwnDir(p)'
    BY <1>1, <1>4, <2>1 DEF DeleteTopic, Idle, DirsInv, NothingLost, RowsOf, Resting, Sane, Whole,
                            V, OwnDir
  <2> QED
    BY <1>1, <2>1, <2>2 DEF Masters, MasterInv, Deleting, At
<1>5. CASE BackupTopic(p, TRUE) \/ BackupTopic(p, FALSE)
  <2>1. /\ Alone(p) /\ role'[p] = "master" /\ mem'[p] = Closed
        /\ UNCHANGED <<dir, bak, rows, gens, lock, asked, acked, gone, want>>
    BY <1>1, <1>5 DEF BackupTopic, Alone, TypeOK, disk, hist
  <2>2. /\ DirsInv' /\ NothingLost' /\ ~IsOpen(p)' /\ OwnDir(p)'
        /\ Sane' = Sane /\ Resting' /\ V' = V
    BY <1>1, <1>5, <2>1 DEF BackupTopic, Idle, DirsInv, NothingLost, RowsOf, Resting, Sane, Whole,
                            V, IsOpen, OwnDir, Closed
  <2>3. \/ todo'[p] = <<>>
        \/ todo'[p] = ToMove /\ bak = NoDir
        \/ todo'[p] = ToEmptyBak
    BY <1>1, <1>5, CallsArePoints DEF BackupTopic, Idle, TypeOK
  <2>4. Sane' /\ (dir.cols = Ok(V))'
    BY <1>1, <1>5, <2>1, <2>2 DEF BackupTopic, Idle, Made
  <2>5. bak = NoDir => (RowsOf(bak) \subseteq gone)'
    BY <2>1 DEF RowsOf
  <2>6. Settled(p)' \/ BackingUp(p)'
    BY <2>2, <2>3, <2>4, <2>5 DEF Settled, BackingUp, At
  <2> QED
    BY <1>1, <2>1, <2>2, <2>6 DEF Masters, MasterInv
<1> QED
  BY <1>2, <1>3, <1>4, <1>5

LEMMA MasterRecords ==
    ASSUME IInv, NEW p \in Procs, role[p] = "master",
           ReadRecord(p) \/ \E m \in Msgs : AppendRecord(p, m)
    PROVE  Masters(p)
<1> USE Opened
<1>1. /\ TypeOK /\ lock = p /\ OwnDir(p) /\ todo[p] = <<>> /\ IsOpen(p)
      /\ SameVar(p) /\ SameCols(p) /\ Made(p) /\ Sane
  BY IdleMaster DEF MasterInv, ReadRecord, AppendRecord, Idle
<1>2. mem[p].gen = dir.gen /\ dir.gen # 0 /\ dir # NoDir /\ dir.gen \in 1 .. MaxGens
  <2>1. mem[p].gen = dir.gen /\ dir.gen # 0 /\ dir # NoDir
    BY <1>1 DEF OwnDir, IsOpen
  <2>2. dir.gen \in 1 .. gens /\ gens \in 0 .. MaxGens
    BY <1>1, <2>1 DEF DirsInv, TypeOK
  <2> QED
    BY <2>1, <2>2, TopicFilesAssumption
<1>3. /\ Alone(p) /\ role'[p] = "master" /\ todo'[p] = <<>>
      /\ UNCHANGED <<dir, bak, gens, lock, asked, gone, want>>
  BY <1>1 DEF ReadRecord, AppendRecord, Alone, TypeOK, disk, hist
<1>4. /\ mem'[p].gen = mem[p].gen /\ mem'[p].var = mem[p].var /\ mem'[p].cols = mem[p].cols
      /\ mem'[p].file = dir.gen
  BY <1>1, <1>2 DEF ReadRecord, AppendRecord, TypeOK, Topic
<1>5. DirsInv' /\ Resting' /\ OwnDir(p)' /\ SameVar(p)' /\ SameCols(p)' /\ Made(p)'
  BY <1>1, <1>2, <1>3, <1>4
     DEF DirsInv, Resting, Sane, Whole, V, OwnDir, IsOpen, SameVar, SameCols, Made
<1>6. NothingLost'
  <2>1. CASE ReadRecord(p)
    BY <2>1 DEF ReadRecord, disk, hist, NothingLost, RowsOf
  <2>2. ASSUME NEW m \in Msgs, AppendRecord(p, m)
        PROVE  NothingLost'
    <3>1. /\ rows' = [rows EXCEPT ![dir.gen] = rows[dir.gen] \cup {m}] /\ acked' = acked \cup {m}
          /\ UNCHANGED <<dir, bak, gone>>
      BY <1>2, <2>2 DEF AppendRecord
    <3>2. m \in RowsOf(dir)' /\ RowsOf(dir) \subseteq RowsOf(dir)'
      BY <1>1, <1>2, <3>1 DEF TypeOK, RowsOf
    <3>3. RowsOf(bak) \subseteq RowsOf(bak)'
      BY <1>1, <1>2, <3>1 DEF TypeOK, RowsOf, DirsInv, NoDir
    <3> QED
      BY <3>1, <3>2, <3>3 DEF NothingLost
  <2> QED
    BY <2>1, <2>2
<1> QED
  BY <1>1, <1>3, <1>5, <1>6 DEF Masters, MasterInv, Settled, At

LEMMA MasterMakes ==
    ASSUME IInv, NEW p \in Procs, role[p] = "master",
           MakeDir(p) \/ MakeIn(p, "idx") \/ MakeIn(p, "data")
    PROVE  Masters(p)
<1> USE Opened
<1>1. TypeOK /\ lock = p /\ todo[p] # <<>>
  BY DEF MasterInv, MakeDir, MakeIn, Op
<1>2. CASE MakeDir(p)
  <2>1. Tail(todo[p]) = ToIdx /\ dir = NoDir /\ ~IsOpen(p) /\ Wanted(p)
    BY <1>1, <1>2, MakeHeads DEF MakeDir, Op
  <2>2. /\ Alone(p) /\ role'[p] = "master" /\ todo'[p] = ToIdx /\ gens' = gens + 1
        /\ dir'.gen = gens + 1
        /\ UNCHANGED <<bak, rows, lock, asked, acked, gone, want, mem>>
    BY <1>1, <1>2, <2>1 DEF MakeDir, Op, Alone, TypeOK, hist, NoDir
  <2>3. DirsInv'
    BY <2>2 DEF DirsInv
  <2>4. NothingLost'
    BY <2>1, <2>2 DEF NothingLost, RowsOf
  <2>5. Creating(p)' /\ OwnDir(p)'
    BY <2>1, <2>2 DEF Creating, At, OwnDir, IsOpen, Wanted, MasterInv
  <2> QED
    BY <1>1, <2>2, <2>3, <2>4, <2>5 DEF Masters, MasterInv
<1>3. CASE MakeIn(p, "idx")
  <2>1. Tail(todo[p]) = ToCutDesc /\ dir.gen # 0 /\ ~IsOpen(p) /\ Wanted(p)
    BY <1>1, <1>3, MakeHeads DEF MakeIn, Op
  <2>2. /\ Alone(p) /\ role'[p] = "master" /\ todo'[p] = ToCutDesc
        /\ dir'.gen = dir.gen /\ dir'.idx
        /\ UNCHANGED <<bak, rows, gens, lock, asked, acked, gone, want, mem>>
    BY <1>1, <1>3, <2>1 DEF MakeIn, Op, Alone, TypeOK, hist, Dir
  <2>3. DirsInv' /\ NothingLost'
    BY <2>1, <2>2 DEF DirsInv, NothingLost, RowsOf
  <2>4. Creating(p)' /\ OwnDir(p)'
    BY <2>1, <2>2 DEF Creating, At, OwnDir, IsOpen, Wanted, MasterInv
  <2> QED
    BY <1>1, <2>2, <2>3, <2>4 DEF Masters, MasterInv
<1>4. CASE MakeIn(p, "data")
  <2>1. /\ Tail(todo[p]) = ToOpen /\ dir.gen # 0 /\ dir.idx /\ dir.desc.st = "ok"
        /\ dir.cols = Ok(want[p].cols) /\ dir.var = Ok(want[p].var)
        /\ ~IsOpen(p) /\ Wanted(p)
    BY <1>1, <1>4, MakeHeads DEF MakeIn, Op
  <2>2. /\ Alone(p) /\ role'[p] = "master" /\ todo'[p] = ToOpen
        /\ dir'.gen = dir.gen /\ dir'.idx = dir.idx /\ dir'.data /\ dir'.desc = dir.desc
        /\ dir'.cols = dir.cols /\ dir'.var = dir.var
        /\ UNCHANGED <<bak, rows, gens, lock, asked, acked, gone, want, mem>>
    <3>1. /\ dir' = [dir EXCEPT !["data"] = TRUE]
          /\ UNCHANGED <<bak, rows, gens, lock, role, asked, acked, gone, want, mem>>
      BY <1>4 DEF MakeIn, hist
    <3>2. /\ dir'.gen = dir.gen /\ dir'.idx = dir.idx /\ dir'.data /\ dir'.desc = dir.desc
          /\ dir'.cols = dir.cols /\ dir'.var = dir.var
      BY <1>1, <3>1 DEF TypeOK, Dir
    <3>3. Alone(p) /\ todo'[p] = ToOpen
      BY <1>1, <1>4, <2>1, <3>1 DEF MakeIn, Op, Alone, TypeOK
    <3> QED
      BY <3>1, <3>2, <3>3
  <2>3. DirsInv' /\ NothingLost'
    BY <2>1, <2>2 DEF DirsInv, NothingLost, RowsOf
  <2>4. Sane' /\ Made(p)' /\ ~IsOpen(p)' /\ OwnDir(p)'
    BY <2>1, <2>2
       DEF Sane, Whole, V, Version, Ok, Made, OwnDir, IsOpen, Wanted, MasterInv
  <2> QED
    BY <1>1, <2>2, <2>3, <2>4 DEF Masters, MasterInv, Settled, At, SameVar, SameCols
<1> QED
  BY <1>2, <1>3, <1>4

LEMMA OpAlone ==
    ASSUME TypeOK, NEW p \in Procs, NEW op, Op(p, op), UNCHANGED <<role, want>>,
           gens' \in Nat, gens' >= gens, \A q \in Procs \ {p} : mem'[q] = mem[q]
    PROVE  Alone(p) /\ todo'[p] = Tail(todo[p])
BY DEF TypeOK, Op, Alone

LEMMA MasterCuts ==
    ASSUME IInv, NEW p \in Procs, role[p] = "master",
           NEW f \in {"desc", "cols", "var"}, CutFile(p, f)
    PROVE  Masters(p)
<1> USE Opened
<1>1. TypeOK /\ lock = p /\ OwnDir(p) /\ todo[p] # <<>> /\ Head(todo[p]) = <<"cut", f>>
  BY DEF MasterInv, CutFile, Op
<1>2. /\ UNCHANGED <<bak, rows, gens, lock, role, asked, acked, gone, want>>
      /\ dir' = [dir EXCEPT ![f] = Torn]
      /\ mem' = IF f # "desc" /\ IsOpen(p) THEN [mem EXCEPT ![p][f] = Value(p, f)] ELSE mem
  BY DEF CutFile, hist
<1>3. \A q \in Procs \ {p} : mem'[q] = mem[q]
  BY <1>1, <1>2 DEF TypeOK
<1>4. Alone(p) /\ todo'[p] = Tail(todo[p])
  BY <1>1, <1>2, <1>3, OpAlone DEF CutFile
<1>5. /\ dir'.gen = dir.gen /\ dir'.idx = dir.idx /\ dir'.data = dir.data
      /\ f # "desc" => dir'.desc = dir.desc
      /\ f = "cols" => dir'.cols = Torn /\ dir'.var = dir.var
      /\ f = "var" => dir'.cols = dir.cols /\ dir'.var = Torn
  BY <1>1, <1>2 DEF TypeOK, Dir
<1>6. /\ mem'[p].gen = mem[p].gen /\ mem'[p].file = mem[p].file
      /\ f # "cols" \/ ~IsOpen(p) => mem'[p].cols = mem[p].cols
      /\ f # "var" \/ ~IsOpen(p) => mem'[p].var = mem[p].var
      /\ f # "desc" /\ IsOpen(p) => mem'[p][f] = Value(p, f)
  BY <1>1, <1>2 DEF TypeOK, Topic
<1>7. DirsInv' /\ NothingLost' /\ OwnDir(p)' /\ IsOpen(p)' = IsOpen(p) /\ Wanted(p)' = Wanted(p)
  <2>1. dir = NoDir => dir'.gen = 0
    BY <1>5
  <2>2. DirsInv'
    <3>1. todo[p] # <<>> => dir.gen # 0
      BY <1>1, CutHeads DEF Sane, Whole
    <3> QED
      BY <1>1, <1>2, <1>5, <3>1 DEF DirsInv
  <2> QED
    BY <1>1, <1>2, <1>5, <1>6, <2>2 DEF NothingLost, RowsOf, OwnDir, IsOpen, Wanted
<1>8. CASE f = "desc"
  <2>1. /\ Tail(todo[p]) = ToPutDesc /\ dir.gen # 0 /\ dir.idx /\ ~IsOpen(p) /\ Wanted(p)
    BY <1>1, <1>8, CutHeads
  <2>2. Creating(p)'
    BY <1>4, <1>5, <1>7, <2>1 DEF Creating, At
  <2> QED
    BY <1>1, <1>2, <1>4, <1>7, <2>2 DEF Masters, MasterInv
<1>9. CASE f = "cols"
  <2>1. /\ Wanted(p)
        /\ \/ /\ Tail(todo[p]) = ToPutCols /\ dir.gen # 0 /\ dir.idx
              /\ dir.desc.st = "ok" /\ ~IsOpen(p)
           \/ Tail(todo[p]) = ReputCols /\ Sane /\ V = want[p].cols /\ SameVar(p)
    BY <1>1, <1>9, CutHeads
  <2>2. CASE ~IsOpen(p) /\ Tail(todo[p]) = ToPutCols /\ dir.gen # 0 /\ dir.idx /\ dir.desc.st = "ok"
    <3>1. Creating(p)'
      BY <1>4, <1>5, <1>7, <1>9, <2>1, <2>2 DEF Creating, At
    <3> QED
      BY <1>1, <1>2, <1>4, <1>7, <3>1 DEF Masters, MasterInv
  <2>3. CASE Tail(todo[p]) = ReputCols /\ Sane /\ V = want[p].cols /\ SameVar(p)
    <3>1. Whole' /\ (V = want[p].cols)' /\ SameVar(p)'
      BY <1>2, <1>5, <1>6, <1>7, <1>9, <2>3 DEF Sane, Whole, V, SameVar
    <3>2. IsOpen(p)' => (mem[p].cols = Ok(want[p].cols))'
      BY <1>2, <1>6, <1>7, <1>9 DEF Value
    <3>3. Upgrading(p)'
      BY <1>4, <1>7, <2>1, <2>3, <3>1, <3>2 DEF Upgrading, At
    <3> QED
      BY <1>1, <1>2, <1>4, <1>7, <3>3 DEF Masters, MasterInv
  <2> QED
    BY <2>1, <2>2, <2>3
<1>10. CASE f = "var"
  <2>1. /\ Wanted(p)
        /\ \/ /\ Tail(todo[p]) = ToPutVar /\ dir.gen # 0 /\ dir.idx
              /\ dir.desc.st = "ok" /\ dir.cols = Ok(want[p].cols) /\ ~IsOpen(p)
           \/ Tail(todo[p]) = ReputVar /\ Sane /\ dir.var.st = "none" /\ ColsAsWanted(p)
    BY <1>1, <1>10, CutHeads
  <2>2. CASE /\ Tail(todo[p]) = ToPutVar /\ dir.gen # 0 /\ dir.idx
             /\ dir.desc.st = "ok" /\ dir.cols = Ok(want[p].cols) /\ ~IsOpen(p)
    <3>1. Creating(p)'
      BY <1>2, <1>4, <1>5, <1>7, <1>10, <2>1, <2>2 DEF Creating, At
    <3> QED
      BY <1>1, <1>2, <1>4, <1>7, <3>1 DEF Masters, MasterInv
  <2>3. CASE Tail(todo[p]) = ReputVar /\ Sane /\ dir.var.st = "none" /\ ColsAsWanted(p)
    <3>1. V' = 0 /\ V = 0 /\ dir'.var.st = "torn"
      BY <1>5, <1>10, <2>3 DEF V, Version, Torn
    <3>2. Sane' /\ ColsAsWanted(p)'
      BY <1>2, <1>5, <1>6, <1>7, <1>10, <2>3, <3>1 DEF Sane, Whole, ColsAsWanted, SameCols
    <3>3. IsOpen(p)' => (mem[p].var = Ok(want[p].var))'
      BY <1>2, <1>6, <1>7, <1>10 DEF Value
    <3>4. Upgrading(p)'
      BY <1>4, <1>7, <2>1, <2>3, <3>1, <3>2, <3>3 DEF Upgrading, At
    <3> QED
      BY <1>1, <1>2, <1>4, <1>7, <3>4 DEF Masters, MasterInv
  <2> QED
    BY <2>1, <2>2, <2>3
<1> QED
  BY <1>8, <1>9, <1>10

LEMMA MasterPuts ==
    ASSUME IInv, NEW p \in Procs, role[p] = "master",
           NEW f \in {"desc", "cols", "var"}, PutFile(p, f)
    PROVE  Masters(p)
<1> USE Opened
<1>1. TypeOK /\ lock = p /\ OwnDir(p) /\ todo[p] # <<>> /\ Head(todo[p]) = <<"put", f>>
  BY DEF MasterInv, PutFile, Op
<1>2. /\ UNCHANGED <<bak, rows, gens, lock, role, asked, acked, gone, want, mem>>
      /\ dir' = [dir EXCEPT ![f] = Value(p, f)]
  BY DEF PutFile, hist
<1>3. Alone(p) /\ todo'[p] = Tail(todo[p])
  BY <1>1, <1>2, OpAlone DEF PutFile
<1>4. /\ dir'.gen = dir.gen /\ dir'.idx = dir.idx /\ dir'.data = dir.data
      /\ f = "desc" => dir'.desc = Ok(0)
      /\ f # "desc" => dir'.desc = dir.desc
      /\ f = "cols" => dir'.cols = Ok(want[p].cols) /\ dir'.var = dir.var
      /\ f = "var" => dir'.cols = dir.cols /\ dir'.var = Ok(want[p].var)
  BY <1>1, <1>2 DEF TypeOK, Dir, Value
<1>5. dir.gen # 0
  BY <1>1, PutHeads DEF Sane, Whole
<1>6. DirsInv' /\ NothingLost' /\ OwnDir(p)' /\ IsOpen(p)' = IsOpen(p) /\ Wanted(p)' = Wanted(p)
  BY <1>1, <1>2, <1>4, <1>5 DEF DirsInv, NothingLost, RowsOf, OwnDir, IsOpen, Wanted
<1>7. CASE f = "desc"
  <2>1. Tail(todo[p]) = ToCutCols /\ dir.idx /\ ~IsOpen(p) /\ Wanted(p)
    BY <1>1, <1>7, PutHeads
  <2>2. Creating(p)'
    BY <1>3, <1>4, <1>5, <1>6, <1>7, <2>1 DEF Creating, At, Ok
  <2> QED
    BY <1>1, <1>2, <1>3, <1>6, <2>2 DEF Masters, MasterInv
<1>8. CASE f = "cols"
  <2>1. /\ Wanted(p)
        /\ \/ Tail(todo[p]) = ToCutVar /\ dir.idx /\ dir.desc.st = "ok" /\ ~IsOpen(p)
           \/ /\ Tail(todo[p]) = ToOpen /\ Whole /\ V = want[p].cols /\ SameVar(p)
              /\ IsOpen(p) => mem[p].cols = Ok(want[p].cols)
    BY <1>1, <1>8, PutHeads
  <2>2. CASE Tail(todo[p]) = ToCutVar /\ dir.idx /\ dir.desc.st = "ok" /\ ~IsOpen(p)
    <3>1. Creating(p)'
      BY <1>2, <1>3, <1>4, <1>5, <1>6, <1>8, <2>1, <2>2 DEF Creating, At
    <3> QED
      BY <1>1, <1>2, <1>3, <1>6, <3>1 DEF Masters, MasterInv
  <2>3. CASE /\ Tail(todo[p]) = ToOpen /\ Whole /\ V = want[p].cols /\ SameVar(p)
             /\ IsOpen(p) => mem[p].cols = Ok(want[p].cols)
    <3>1. V' = V /\ dir'.cols = Ok(V) /\ V = want[p].var
      BY <1>4, <1>8, <2>1, <2>3 DEF V, Wanted
    <3>2. Sane' /\ Made(p)' /\ SameVar(p)' /\ SameCols(p)'
      BY <1>2, <1>4, <1>6, <1>8, <2>1, <2>3, <3>1
         DEF Sane, Whole, Made, Wanted, SameVar, SameCols, Ok
    <3>3. Settled(p)'
      BY <1>3, <2>3, <3>2 DEF Settled, At
    <3> QED
      BY <1>1, <1>2, <1>3, <1>6, <3>3 DEF Masters, MasterInv
  <2> QED
    BY <2>1, <2>2, <2>3
<1>9. CASE f = "var"
  <2>1. /\ Wanted(p)
        /\ \/ /\ Tail(todo[p]) = ToData /\ dir.idx
              /\ dir.desc.st = "ok" /\ dir.cols = Ok(want[p].cols) /\ ~IsOpen(p)
           \/ /\ Tail(todo[p]) = ToNeedCols
              /\ Sane /\ dir.var.st = "torn" /\ ColsAsWanted(p)
              /\ IsOpen(p) => mem[p].var = Ok(want[p].var)
    BY <1>1, <1>9, PutHeads
  <2>2. CASE /\ Tail(todo[p]) = ToData /\ dir.idx
             /\ dir.desc.st = "ok" /\ dir.cols = Ok(want[p].cols) /\ ~IsOpen(p)
    <3>1. Creating(p)'
      BY <1>2, <1>3, <1>4, <1>5, <1>6, <1>9, <2>1, <2>2 DEF Creating, At
    <3> QED
      BY <1>1, <1>2, <1>3, <1>6, <3>1 DEF Masters, MasterInv
  <2>3. CASE /\ Tail(todo[p]) = ToNeedCols
             /\ Sane /\ dir.var.st = "torn" /\ ColsAsWanted(p)
             /\ IsOpen(p) => mem[p].var = Ok(want[p].var)
    <3>1. V' = want[p].var /\ V' = want[p].cols /\ V' <= asked
      BY <1>4, <1>9, <2>1 DEF V, Version, Ok, Wanted
    <3>2. Sane' /\ SameVar(p)' /\ (dir.cols.st # "none" => SameCols(p))'
      <4>1. dir.cols.st # "none" => dir.cols.st = "ok"
        BY <2>3 DEF File, Sane
      <4>2. dir.cols.st # "none" => SameCols(p)'
        BY <1>2, <1>4, <1>6, <1>9, <2>3, <4>1 DEF ColsAsWanted, SameCols
      <4> QED
        BY <1>2, <1>4, <1>6, <1>9, <2>3, <3>1, <4>2 DEF Sane, Whole, SameVar, ColsAsWanted
    <3>3. Upgrading(p)'
      BY <1>2, <1>3, <1>6, <2>1, <2>3, <3>1, <3>2 DEF Upgrading, At
    <3> QED
      BY <1>1, <1>2, <1>3, <1>6, <3>3 DEF Masters, MasterInv
  <2> QED
    BY <2>1, <2>2, <2>3
<1> QED
  BY <1>7, <1>8, <1>9

LEMMA MasterUpgrades ==
    ASSUME IInv, NEW p \in Procs, role[p] = "master",
           NEW f \in {"cols", "var"}, RemoveFile(p, f) \/ NeedFile(p, f)
    PROVE  Masters(p)
<1> USE Opened
<1>1. TypeOK /\ lock = p /\ OwnDir(p) /\ todo[p] # <<>>
  BY DEF MasterInv, RemoveFile, NeedFile, Op
<1>2. CASE RemoveFile(p, f)
  <2>1. Head(todo[p]) = <<"rm", f>>
    BY <1>2 DEF RemoveFile, Op
  <2>2. Whole /\ Wanted(p) /\ V <= asked
    BY <1>1, <2>1, UpgradeHeads DEF Sane
  <2>3. /\ UNCHANGED <<bak, rows, gens, lock, role, asked, acked, gone, want, mem>>
        /\ dir' = [dir EXCEPT ![f] = None]
    BY <1>2, <2>2 DEF RemoveFile, hist, Whole
  <2>4. Alone(p) /\ todo'[p] = Tail(todo[p])
    BY <1>1, <1>2, <2>3, OpAlone DEF RemoveFile
  <2>5. /\ dir'.gen = dir.gen /\ dir'.idx = dir.idx /\ dir'.data = dir.data /\ dir'.desc = dir.desc
        /\ f = "cols" => dir'.cols = None /\ dir'.var = dir.var
        /\ f = "var" => dir'.cols = dir.cols /\ dir'.var = None
    BY <1>1, <2>3 DEF TypeOK, Dir
  <2>6. DirsInv' /\ NothingLost' /\ OwnDir(p)' /\ IsOpen(p)' = IsOpen(p) /\ Wanted(p)' /\ Whole'
    BY <1>1, <2>2, <2>3, <2>5 DEF DirsInv, NothingLost, RowsOf, OwnDir, IsOpen, Wanted, Whole
  <2>7. CASE f = "cols"
    <3>1. Tail(todo[p]) = ToRmVar
      BY <1>1, <2>1, <2>7, UpgradeHeads
    <3>2. dir'.cols.st = "none" /\ V' = V
      BY <2>5, <2>7 DEF None, V
    <3>3. Upgrading(p)'
      BY <2>2, <2>3, <2>4, <2>6, <3>1, <3>2 DEF Upgrading, At
    <3> QED
      BY <1>1, <2>3, <2>4, <2>6, <3>3 DEF Masters, MasterInv
  <2>8. CASE f = "var"
    <3>1. Tail(todo[p]) = ToNeedVar /\ dir.cols.st = "none"
      BY <1>1, <2>1, <2>8, UpgradeHeads
    <3>2. dir'.cols.st = "none" /\ dir'.var.st = "none" /\ V' = 0
      BY <2>5, <2>8, <3>1 DEF None, V, Version
    <3>3. Sane' /\ ColsAsWanted(p)'
      BY <2>3, <2>6, <3>2 DEF Sane, ColsAsWanted
    <3>4. Upgrading(p)'
      BY <2>4, <2>6, <3>1, <3>2, <3>3 DEF Upgrading, At
    <3> QED
      BY <1>1, <2>3, <2>4, <2>6, <3>4 DEF Masters, MasterInv
  <2> QED
    BY <2>7, <2>8
<1>3. CASE NeedFile(p, f)
  <2>1. Head(todo[p]) = <<"need", f>>
    BY <1>3 DEF NeedFile
  <2>2. Sane /\ Wanted(p)
    BY <1>1, <2>1, UpgradeHeads
  <2>3. /\ UNCHANGED <<dir, bak, rows, gens, lock, role, asked, acked, gone, want, mem>>
        /\ todo' = [todo EXCEPT ![p] = (IF dir[f].st = "none" THEN Write(f) ELSE <<>>)
                                       \o Tail(todo[p])]
    BY <1>3, <2>2 DEF NeedFile, disk, hist, Sane, Whole
  <2>4. Alone(p)
    BY <1>1, <2>3 DEF Alone, TypeOK
  <2>5. DirsInv' /\ NothingLost' /\ OwnDir(p)' /\ IsOpen(p)' = IsOpen(p) /\ Wanted(p)'
    BY <1>1, <2>2, <2>3 DEF DirsInv, NothingLost, RowsOf, OwnDir, IsOpen, Wanted
  <2>6. /\ Sane' /\ V' = V /\ ColsAsWanted(p)' = ColsAsWanted(p) /\ Made(p)' = Made(p)
        /\ SameVar(p)' = SameVar(p) /\ SameCols(p)' = SameCols(p)
    BY <2>2, <2>3 DEF Sane, Whole, V, ColsAsWanted, Made, SameVar, SameCols, IsOpen
  <2>7. CASE f = "var"
    <3>1. /\ Tail(todo[p]) = ToNeedCols /\ ColsAsWanted(p)
          /\ dir.var.st # "none" => V = want[p].var /\ SameVar(p)
      BY <1>1, <2>1, <2>7, UpgradeHeads
    <3>2. CASE dir.var.st = "none"
      <4>1. todo'[p] = RecutVar
        BY <1>1, <2>3, <2>7, <3>1, <3>2, NeedsArePoints DEF TypeOK
      <4>2. Upgrading(p)'
        BY <2>3, <2>5, <2>6, <3>1, <3>2, <4>1 DEF Upgrading, At
      <4> QED
        BY <1>1, <2>3, <2>4, <2>5, <4>2 DEF Masters, MasterInv
    <3>3. CASE dir.var.st # "none"
      <4>1. todo'[p] = ToNeedCols
        BY <1>1, <2>3, <2>7, <3>1, <3>3, NeedsArePoints DEF TypeOK
      <4>2. dir.cols.st # "none" => SameCols(p)
        BY <2>2, <3>1 DEF ColsAsWanted, Sane, File
      <4>3. V = want[p].cols
        BY <2>2, <3>1, <3>3 DEF Wanted
      <4>4. Upgrading(p)'
        BY <2>3, <2>5, <2>6, <3>1, <3>3, <4>1, <4>2, <4>3 DEF Upgrading, At
      <4> QED
        BY <1>1, <2>3, <2>4, <2>5, <4>4 DEF Masters, MasterInv
    <3> QED
      BY <3>2, <3>3
  <2>8. CASE f = "cols"
    <3>1. /\ Tail(todo[p]) = ToOpen /\ V = want[p].cols /\ SameVar(p)
          /\ dir.cols.st # "none" => SameCols(p)
      BY <1>1, <2>1, <2>8, UpgradeHeads
    <3>2. CASE dir.cols.st = "none"
      <4>1. todo'[p] = RecutCols
        BY <1>1, <2>3, <2>8, <3>1, <3>2, NeedsArePoints DEF TypeOK
      <4>2. Upgrading(p)'
        BY <2>3, <2>5, <2>6, <3>1, <4>1 DEF Upgrading, At
      <4> QED
        BY <1>1, <2>3, <2>4, <2>5, <4>2 DEF Masters, MasterInv
    <3>3. CASE dir.cols.st # "none"
      <4>1. todo'[p] = ToOpen
        BY <1>1, <2>3, <2>8, <3>1, <3>3, NeedsArePoints DEF TypeOK
      <4>2. Made(p)
        BY <2>2, <3>1, <3>3 DEF Made, Sane, File, Wanted
      <4>3. Settled(p)'
        BY <2>6, <3>1, <3>3, <4>1, <4>2 DEF Settled, At
      <4> QED
        BY <1>1, <2>3, <2>4, <2>5, <4>3 DEF Masters, MasterInv
    <3> QED
      BY <3>2, <3>3
  <2> QED
    BY <2>7, <2>8
<1> QED
  BY <1>2, <1>3

LEMMA MasterOpens ==
    ASSUME IInv, NEW p \in Procs, role[p] = "master",
           OpenTopic(p) \/ OpenCols(p) \/ CloseIt(p)
    PROVE  Masters(p)
<1> USE Opened
<1>1. TypeOK /\ lock = p /\ OwnDir(p) /\ todo[p] # <<>>
  BY DEF MasterInv, OpenTopic, OpenCols, CloseIt, Op
<1>2. UNCHANGED <<dir, bak, rows, gens, asked, acked, gone>>
  BY DEF OpenTopic, OpenCols, CloseIt, disk, hist
<1>3. DirsInv' /\ NothingLost' /\ Sane' = Sane /\ V' = V
  BY <1>1, <1>2 DEF DirsInv, NothingLost, RowsOf, Sane, Whole, V
<1>4. CASE OpenTopic(p)
  <2>1. /\ Sane
        /\ \/ Tail(todo[p]) = <<>> /\ Made(p) /\ SameVar(p) /\ SameCols(p)
           \/ Tail(todo[p]) = ToClose
    BY <1>1, <1>4, OpenHeads DEF OpenTopic
  <2>2. dir # NoDir /\ dir.desc.st = "ok"
    BY <2>1 DEF Sane, Whole
  <2>3. CASE IsOpen(p)
    <3>1. /\ Alone(p) /\ role'[p] = "master" /\ todo'[p] = Tail(todo[p])
          /\ UNCHANGED <<lock, want, mem>>
      BY <1>1, <1>2, <1>4, <2>2, <2>3 DEF OpenTopic, Alone, TypeOK
    <3>2. /\ Made(p)' = Made(p) /\ SameVar(p)' = SameVar(p) /\ SameCols(p)' = SameCols(p)
          /\ OwnDir(p)'
      BY <1>1, <1>2, <1>3, <3>1 DEF Made, SameVar, SameCols, IsOpen, OwnDir
    <3>3. Settled(p)' \/ Deleting(p)'
      BY <1>3, <2>1, <3>1, <3>2 DEF Settled, Deleting, At, Resting
    <3> QED
      BY <1>1, <1>3, <3>1, <3>2, <3>3 DEF Masters, MasterInv
  <2>4. CASE ~IsOpen(p)
    <3>1. /\ mem' = [mem EXCEPT ![p].var = dir.var] /\ UNCHANGED <<lock, role, want>>
          /\ todo' = [todo EXCEPT ![p] = <<<<"open", "cols">>>> \o Tail(todo[p])]
      BY <1>4, <2>2, <2>4 DEF OpenTopic
    <3>2. Alone(p) /\ role'[p] = "master"
      BY <1>1, <1>2, <3>1 DEF Alone, TypeOK
    <3>3. /\ mem'[p].var = dir.var /\ mem'[p].gen = mem[p].gen /\ mem'[p].file = mem[p].file
      BY <1>1, <3>1 DEF TypeOK, Topic
    <3>4. Made(p)' = Made(p) /\ ~IsOpen(p)' /\ OwnDir(p)'
      BY <1>1, <1>2, <1>3, <2>4, <3>1, <3>3 DEF Made, IsOpen, OwnDir
    <3>5. \/ todo'[p] = ToOpenCols /\ Made(p)
          \/ todo'[p] = ToOpenCols2
      BY <1>1, <2>1, <3>1, NeedsArePoints DEF TypeOK
    <3>6. Settled(p)' \/ Deleting(p)'
      BY <1>2, <1>3, <2>1, <3>3, <3>4, <3>5 DEF Settled, Deleting, At
    <3> QED
      BY <1>1, <1>3, <3>1, <3>2, <3>4, <3>6 DEF Masters, MasterInv
  <2> QED
    BY <2>3, <2>4
<1>5. CASE OpenCols(p)
  <2>1. /\ Sane /\ ~IsOpen(p)
        /\ \/ Tail(todo[p]) = <<>> /\ Made(p) /\ mem[p].var = dir.var
           \/ Tail(todo[p]) = ToClose
    BY <1>1, <1>5, OpenHeads DEF OpenCols, Op, Gone
  <2>2. /\ mem' = [mem EXCEPT ![p].cols = dir.cols, ![p].gen = dir.gen]
        /\ Op(p, <<"open", "cols">>) /\ UNCHANGED <<lock, role, want>>
    BY <1>5, <2>1 DEF OpenCols, Sane, Whole
  <2>3. /\ mem'[p].cols = dir.cols /\ mem'[p].gen = dir.gen
        /\ mem'[p].var = mem[p].var /\ mem'[p].file = mem[p].file
        /\ \A q \in Procs \ {p} : mem'[q] = mem[q]
    BY <1>1, <2>2 DEF TypeOK, Topic
  <2>4. Alone(p) /\ todo'[p] = Tail(todo[p])
    <3>1. Op(p, <<"open", "cols">>) /\ UNCHANGED <<role, want, gens>>
      BY <1>2, <2>2
    <3>2. \A q \in Procs \ {p} : mem'[q] = mem[q]
      BY <2>3
    <3> QED
      BY <1>1, <3>1, <3>2, OpAlone
  <2>5. Made(p)' = Made(p) /\ OwnDir(p)' /\ SameCols(p)'
    BY <1>1, <1>2, <1>3, <2>1, <2>2, <2>3 DEF Made, IsOpen, OwnDir, SameCols
  <2>6. mem[p].var = dir.var => SameVar(p)'
    BY <1>2, <2>3 DEF SameVar
  <2>7. Settled(p)' \/ Deleting(p)'
    BY <1>3, <2>1, <2>4, <2>5, <2>6 DEF Settled, Deleting, At, Resting
  <2> QED
    BY <1>1, <1>3, <2>2, <2>4, <2>5, <2>7 DEF Masters, MasterInv
<1>6. CASE CloseIt(p)
  <2>1. Tail(todo[p]) = ToEmpty /\ Sane
    BY <1>1, <1>6, OpenHeads DEF CloseIt, Op
  <2>2. /\ mem' = [mem EXCEPT ![p] = Closed] /\ Op(p, <<"close", "dir">>)
        /\ UNCHANGED <<lock, role, want>>
    BY <1>6 DEF CloseIt
  <2>3. mem'[p] = Closed /\ \A q \in Procs \ {p} : mem'[q] = mem[q]
    BY <1>1, <2>2 DEF TypeOK
  <2>4. Alone(p) /\ todo'[p] = Tail(todo[p])
    BY <1>1, <1>2, <2>2, <2>3, OpAlone
  <2>5. ~IsOpen(p)' /\ OwnDir(p)'
    BY <1>2, <2>3 DEF IsOpen, OwnDir, Closed
  <2> QED
    BY <1>1, <1>3, <2>1, <2>2, <2>4, <2>5 DEF Masters, MasterInv, Deleting, At
<1> QED
  BY <1>4, <1>5, <1>6

LEMMA MasterRemoves ==
    ASSUME IInv, NEW p \in Procs, role[p] = "master",
           EmptyDir(p) \/ EmptyBak(p) \/ RmDir(p) \/ RmBak(p)
    PROVE  Masters(p)
<1> USE Opened
<1>1. TypeOK /\ lock = p /\ OwnDir(p) /\ todo[p] # <<>>
  BY DEF MasterInv, EmptyDir, EmptyBak, RmDir, RmBak, Op
<1>2. UNCHANGED <<rows, gens, lock, role, want, mem, acked>>
  BY DEF EmptyDir, EmptyBak, RmDir, RmBak, hist
<1>3. Alone(p) /\ todo'[p] = Tail(todo[p])
  <2>1. PICK op : Op(p, op)
    BY DEF EmptyDir, EmptyBak, RmDir, RmBak
  <2> QED
    BY <1>1, <1>2, <2>1, OpAlone
<1>4. ~IsOpen(p) /\ OwnDir(p)' /\ ~IsOpen(p)'
  <2>1. ~IsOpen(p)
    BY <1>1, RemoveHeads DEF EmptyDir, EmptyBak, RmDir, RmBak, Op
  <2> QED
    BY <1>1, <1>2, <2>1 DEF OwnDir, IsOpen
<1>5. \A d : Emptied(d).gen = d.gen
  BY DEF Emptied, NoDir
<1>6. CASE EmptyDir(p)
  <2>1. /\ Tail(todo[p]) = ToRmDir /\ Sane
        /\ bak' = bak /\ dir'.gen = dir.gen /\ gone' = gone \cup RowsOf(dir)
    BY <1>1, <1>5, <1>6, RemoveHeads DEF EmptyDir, Op
  <2>2. RowsOf(dir)' = RowsOf(dir) /\ RowsOf(bak)' = RowsOf(bak)
    BY <1>2, <2>1 DEF RowsOf
  <2>3. DirsInv' /\ NothingLost' /\ (RowsOf(dir) \subseteq gone)'
    BY <1>1, <1>2, <2>1, <2>2 DEF DirsInv, NothingLost, Sane, Whole
  <2> QED
    BY <1>1, <1>2, <1>3, <1>4, <2>1, <2>3 DEF Masters, MasterInv, Deleting, At
<1>7. CASE RmDir(p)
  <2>1. /\ Tail(todo[p]) = <<>> /\ RowsOf(dir) \subseteq gone
        /\ bak' = bak /\ dir' = NoDir /\ gone' = gone
    BY <1>1, <1>7, RemoveHeads DEF RmDir, Op
  <2>2. DirsInv' /\ NothingLost'
    BY <1>1, <1>2, <2>1 DEF DirsInv, NothingLost, RowsOf
  <2> QED
    BY <1>1, <1>2, <1>3, <1>4, <2>1, <2>2 DEF Masters, MasterInv, Settled, At, Resting
<1>8. CASE EmptyBak(p)
  <2>1. /\ Tail(todo[p]) = ToRmBak /\ Sane /\ dir.cols = Ok(V)
        /\ dir' = dir /\ bak'.gen = bak.gen /\ gone' = gone \cup RowsOf(bak) /\ asked' = asked
    BY <1>1, <1>5, <1>8, RemoveHeads DEF EmptyBak, Op
  <2>2. RowsOf(dir)' = RowsOf(dir) /\ RowsOf(bak)' = RowsOf(bak)
    BY <1>2, <2>1 DEF RowsOf
  <2>3. bak' = Emptied(bak)
    BY <1>8 DEF EmptyBak
  <2>4. DirsInv'
    BY <1>1, <1>2, <2>1, <2>3 DEF DirsInv, Emptied, NoDir
  <2>5. NothingLost' /\ (RowsOf(bak) \subseteq gone)' /\ Sane' /\ (dir.cols = Ok(V))'
    BY <1>1, <1>2, <2>1, <2>2 DEF NothingLost, Sane, Whole, V
  <2>6. BackingUp(p)'
    BY <1>3, <1>4, <2>1, <2>5 DEF BackingUp
  <2> QED
    BY <1>1, <1>2, <1>3, <1>4, <2>4, <2>5, <2>6 DEF Masters, MasterInv
<1>9. CASE RmBak(p)
  <2>1. /\ Tail(todo[p]) = ToMove /\ Sane /\ dir.cols = Ok(V) /\ RowsOf(bak) \subseteq gone
        /\ dir' = dir /\ bak' = NoDir /\ gone' = gone /\ asked' = asked
    BY <1>1, <1>9, RemoveHeads DEF RmBak, Op, hist
  <2>2. DirsInv' /\ NothingLost' /\ (RowsOf(bak) \subseteq gone)' /\ Sane' /\ (dir.cols = Ok(V))'
    BY <1>1, <1>2, <2>1 DEF DirsInv, NothingLost, RowsOf, Sane, Whole, V
  <2>3. BackingUp(p)'
    BY <1>3, <1>4, <2>1, <2>2 DEF BackingUp
  <2> QED
    BY <1>1, <1>2, <1>3, <1>4, <2>2, <2>3 DEF Masters, MasterInv
<1> QED
  BY <1>6, <1>7, <1>8, <1>9

LEMMA MasterMoves ==
    ASSUME IInv, NEW p \in Procs, role[p] = "master", MoveDir(p)
    PROVE  Masters(p)
<1> USE Opened
<1>1. /\ TypeOK /\ lock = p /\ OwnDir(p) /\ ~IsOpen(p) /\ Sane /\ dir.cols = Ok(V)
      /\ RowsOf(bak) \subseteq gone
  BY RemoveHeads DEF MasterInv, MoveDir
<1>2. /\ bak' = dir /\ dir' = NoDir /\ todo' = [todo EXCEPT ![p] = ToDir]
      /\ want' = [want EXCEPT ![p] = [var |-> V, cols |-> Version(dir.cols)]]
      /\ UNCHANGED <<rows, gens, lock, role, mem, asked, acked, gone>>
  BY <1>1, CallsArePoints DEF MoveDir, Sane, Whole, V, hist
<1>3. Version(dir.cols) = V
  BY <1>1 DEF Version, Ok
<1>4. Alone(p) /\ todo'[p] = ToDir /\ want'[p] = [var |-> V, cols |-> V] /\ role'[p] = "master"
  BY <1>1, <1>2, <1>3 DEF Alone, TypeOK
<1>5. DirsInv' /\ NothingLost'
  BY <1>1, <1>2 DEF DirsInv, NothingLost, RowsOf, Sane, Whole
<1>6. Creating(p)' /\ OwnDir(p)'
  BY <1>1, <1>2, <1>4 DEF Creating, At, Wanted, Sane, IsOpen, OwnDir
<1> QED
  BY <1>1, <1>2, <1>4, <1>5, <1>6 DEF Masters, MasterInv

\* A master that dies out of the fragile points leaves a directory that can be repaired.
LEMMA SoundDeath ==
    ASSUME IInv, NEW p \in Procs, role[p] = "master", ~Fragile(p)
    PROVE  Resting
<1> DEFINE ops == Range(todo[p])
<1>1. MasterInv(p)
  BY Opened
<1>2. CASE todo[p] = <<>>
  BY <1>2, IdleMaster
<1>3. CASE todo[p] # <<>>
  <2>1. CASE Creating(p)
    <3>1. todo[p] \in {ToDir, ToIdx, ToCutDesc, ToPutDesc, ToCutCols, ToPutCols, ToCutVar,
                       ToPutVar, ToData}
      BY <2>1 DEF Creating, At
    <3>2. <<"make", "data">> \in ops /\ (<<"make", "dir">> \in ops => todo[p] = ToDir)
      <4>1. Range(ToOpen) = {<<"open", "dir">>}
        BY OpenPoints DEF Point, Range
      <4>2. /\ <<"make", "data">> \in Range(ToData) /\ <<"make", "dir">> \notin Range(ToData)
        BY <4>1, CreatePoints DEF Point
      <4>3. /\ <<"make", "data">> \in Range(ToPutVar) /\ <<"make", "dir">> \notin Range(ToPutVar)
            /\ <<"make", "data">> \in Range(ToCutVar) /\ <<"make", "dir">> \notin Range(ToCutVar)
        BY <4>2, CreatePoints DEF Point
      <4>4. /\ <<"make", "data">> \in Range(ToPutCols) /\ <<"make", "dir">> \notin Range(ToPutCols)
            /\ <<"make", "data">> \in Range(ToCutCols) /\ <<"make", "dir">> \notin Range(ToCutCols)
        BY <4>3, CreatePoints DEF Point
      <4>5. /\ <<"make", "data">> \in Range(ToPutDesc) /\ <<"make", "dir">> \notin Range(ToPutDesc)
            /\ <<"make", "data">> \in Range(ToCutDesc) /\ <<"make", "dir">> \notin Range(ToCutDesc)
        BY <4>4, CreatePoints DEF Point
      <4>6. /\ <<"make", "data">> \in Range(ToIdx) /\ <<"make", "dir">> \notin Range(ToIdx)
            /\ <<"make", "data">> \in Range(ToDir)
        BY <4>5, CreatePoints DEF Point
      <4> QED
        BY <3>1, <4>2, <4>3, <4>4, <4>5, <4>6
    <3>3. Head(todo[p]) = <<"make", "dir">>
      BY <3>2, CreatePoints DEF Fragile, Point
    <3> QED
      BY <1>1, <1>3, <3>3, MakeHeads DEF Resting
  <2>2. CASE Settled(p)
    BY <1>3, <2>2, SettledHead DEF Resting
  <2>3. CASE Upgrading(p)
    <3>1. Head(todo[p]) # <<"put", "cols">>
      BY <1>3 DEF Fragile
    <3>2. \/ Sane
          \/ Head(todo[p]) = <<"rm", "var">> /\ Whole /\ dir.cols.st = "none" /\ V <= asked
      BY <2>3, <3>1, UpgradingHead DEF Ahead
    <3> QED
      BY <3>2 DEF Resting, Sane
  <2>4. CASE Deleting(p)
    <3>1. Head(todo[p]) # <<"rmdir", "dir">>
      BY <1>3 DEF Fragile
    <3> QED
      BY <2>4, <3>1, DeletingHead DEF Ahead, Resting
  <2>5. CASE BackingUp(p)
    BY <2>5, BackingUpHead DEF Resting
  <2> QED
    BY <1>1, <2>1, <2>2, <2>3, <2>4, <2>5 DEF MasterInv
<1> QED
  BY <1>2, <1>3

-----------------------------------------------------------------------------
(* The invariant *)

LEMMA InitIInv == Init => IInv
<1> SUFFICES ASSUME Init
             PROVE  IInv
  OBVIOUS
<1>1. TypeOK
  <2>1. <<>> \in Seq(Operation) /\ gens \in 0 .. MaxGens
    BY TopicFilesAssumption DEF Init
  <2> QED
    BY <2>1, FileTypes DEF Init, TypeOK
<1>2. DirsInv /\ NothingLost /\ Resting
  BY DEF Init, DirsInv, NothingLost, Resting
<1>3. \A p \in Procs : role[p] = "none" /\ OtherInv(p)
  BY DEF Init, OtherInv
<1> QED
  BY <1>1, <1>2, <1>3 DEF IInv

\* A step is of a process that is not the master, of the master, or the death of
\* the master.
LEMMA WhoseStep ==
    ASSUME Discipline, IInv, Next
    PROVE  \E p \in Procs :
              \/ role[p] # "master" /\ (Quiet(p) \/ LockDb(p))
              \/ role[p] = "master" /\ Masters(p)
              \/ /\ role[p] = "master" /\ Resting /\ Gone(p)
                 /\ UNCHANGED <<dir, bak, rows, gens, hist>>
<1>1. PICK p \in Procs :
        \/ Startup(p, "master") \/ Startup(p, "reader") \/ Stop(p)
        \/ \E v \in Versions : CreateTopic(p, v)
        \/ CloseTopic(p) \/ DeleteTopic(p)
        \/ BackupTopic(p, TRUE) \/ BackupTopic(p, FALSE)
        \/ ReadRecord(p) \/ \E m \in Msgs : AppendRecord(p, m)
        \/ CutDb(p) \/ PutDb(p) \/ ChmodDb(p) \/ LockDb(p)
        \/ MakeDir(p) \/ MakeIn(p, "idx") \/ MakeIn(p, "data")
        \/ \E f \in {"desc", "cols", "var"} : CutFile(p, f) \/ PutFile(p, f)
        \/ \E f \in {"cols", "var"} : RemoveFile(p, f) \/ NeedFile(p, f)
        \/ OpenTopic(p) \/ OpenCols(p) \/ CloseIt(p)
        \/ EmptyDir(p) \/ EmptyBak(p) \/ RmDir(p) \/ RmBak(p) \/ MoveDir(p)
  BY DEF Next
<1>2. CASE role[p] # "master"
  <2>1. Quiet(p) \/ LockDb(p)
    BY <1>1, <1>2, OtherCalls, OtherFiles
  <2> QED
    BY <1>2, <2>1
<1>3. CASE role[p] = "master" /\ Stop(p)
  <2>1. ~Fragile(p) /\ Gone(p) /\ UNCHANGED <<dir, bak, rows, gens, hist>>
    BY <1>3 DEF Stop, Discipline, disk
  <2> QED
    BY <1>3, <2>1, SoundDeath
<1>4. CASE role[p] = "master" /\ ~Stop(p)
  <2>1. MasterInv(p)
    BY <1>4, Opened
  <2>2. ~(\/ Startup(p, "master") \/ Startup(p, "reader")
          \/ CutDb(p) \/ PutDb(p) \/ ChmodDb(p) \/ LockDb(p))
    BY <1>4, <2>1, RemoveHeads DEF Startup, CutDb, PutDb, ChmodDb, LockDb, Op
  <2>3. Masters(p)
    BY <1>1, <1>4, <2>2, MasterCalls, MasterRecords, MasterMakes, MasterCuts, MasterPuts,
       MasterUpgrades, MasterOpens, MasterRemoves, MasterMoves
  <2> QED
    BY <1>4, <2>3
<1> QED
  BY <1>2, <1>3, <1>4

LEMMA StepIInv ==
    ASSUME Discipline, IInv, [Next]_vars
    PROVE  IInv'
<1>1. TypeOK'
  BY StepTypes DEF IInv
<1>2. CASE Next
  BY <1>1, <1>2, WhoseStep, QuietKeeps, NewMaster, MasterKeeps, MasterGone
<1>3. CASE UNCHANGED vars
  <2>1. DirsInv' /\ NothingLost' /\ Resting' = Resting
    BY <1>3 DEF IInv, vars, DirsInv, NothingLost, RowsOf, Resting, Sane, Whole, V
  <2>2. \A q \in Procs : OtherInv(q)'
    BY <1>3 DEF IInv, vars, OtherInv
  <2>3. ASSUME NEW q \in Procs, role'[q] = "master"
        PROVE  MasterInv(q)'
    BY <1>3, <2>3, SameMaster DEF IInv, vars
  <2>4. (\A q \in Procs : role'[q] # "master") => Resting'
    BY <1>3, <2>1 DEF IInv, vars
  <2> QED
    BY <1>1, <2>1, <2>2, <2>3, <2>4 DEF IInv
<1> QED
  BY <1>2, <1>3

-----------------------------------------------------------------------------
(* Theorems *)

LEMMA Sound ==
    ASSUME IInv
    PROVE  TypeOK /\ SurvivesCuts /\ OwnFiles /\ NothingLost
<1>1. TypeOK /\ NothingLost
  BY DEF IInv
<1>2. ASSUME NEW p \in Procs, role[p] = "master", Idle(p), IsOpen(p)
      PROVE  /\ SameVar(p) /\ SameCols(p) /\ Made(p) /\ OwnDir(p)
  BY <1>2, IdleMaster, Opened DEF Idle, MasterInv
<1>3. OwnFiles
  BY <1>2 DEF OwnFiles, OwnDir, IsOpen
<1>4. ColsOfVersion
  BY <1>2 DEF ColsOfVersion, SameVar, SameCols, Made, V
<1>5. Repairable
  <2> SUFFICES ASSUME \A p \in Procs : role[p] = "master" => todo[p] = <<>>, dir # NoDir
               PROVE  dir.idx /\ dir.data /\ dir.desc.st = "ok" /\ dir.cols.st # "torn"
    BY DEF Repairable
  <2>1. Resting
    BY IdleMaster DEF IInv
  <2> QED
    BY <2>1 DEF Resting, Sane, Whole
<1> QED
  BY <1>1, <1>3, <1>4, <1>5 DEF SurvivesCuts

\* What every reachable state of the files satisfies, whatever processes come, go and
\* die out of the fragile points.
THEOREM Invariance == ASSUME Discipline PROVE Spec => []IInv
<1>1. Init => IInv
  BY InitIInv
<1>2. IInv /\ [Next]_vars => IInv'
  BY StepIInv
<1> QED
  BY <1>1, <1>2, PTL DEF Spec

\* The variables keep their types.
THEOREM TypeCorrect == ASSUME Discipline PROVE Spec => []TypeOK
<1>1. IInv => TypeOK
  BY Sound
<1> QED
  BY <1>1, Invariance, PTL

\* tranger_create_topic, called again after a death in any call (out of the fragile
\* points), gives the master a topic that is whole, with memory and disk in agreement
\* and the columns of the version of the variables.
THEOREM CutsSurvived == ASSUME Discipline PROVE Spec => []SurvivesCuts
<1>1. IInv => SurvivesCuts
  BY Sound
<1> QED
  BY <1>1, Invariance, PTL

\* A master never appends through the descriptors of a directory that has become the
\* backup.
THEOREM FilesOwned == ASSUME Discipline PROVE Spec => []OwnFiles
<1>1. IInv => OwnFiles
  BY Sound
<1> QED
  BY <1>1, Invariance, PTL

\* No create, upgrade, backup or death loses a record: it is in the topic or in its
\* backup, unless somebody removed the one or let the other be overwritten.
THEOREM RecordsKept == ASSUME Discipline PROVE Spec => []NothingLost
<1>1. IInv => NothingLost
  BY Sound
<1> QED
  BY <1>1, Invariance, PTL

Holds(p) == role[p] = "master" /\ lock = p

\* The files of the topic change by the hand of the process that holds the lock, and
\* it holds it still: neither a reader nor a second master touches them.
OnlyHolder == (dir' # dir \/ bak' # bak \/ rows' # rows) => \E p \in Procs : Holds(p) /\ Holds(p)'

\* No step of a reader, or of a process that waits for the lock, changes the topic.
THEOREM OneWriter == ASSUME Discipline PROVE Spec => [][OnlyHolder]_vars
<1>1. IInv /\ [Next]_vars => [OnlyHolder]_vars
  <2> SUFFICES ASSUME IInv, Next
               PROVE  OnlyHolder
    OBVIOUS
  <2>1. PICK p \in Procs :
          \/ role[p] # "master" /\ (Quiet(p) \/ LockDb(p))
          \/ role[p] = "master" /\ Masters(p)
          \/ UNCHANGED <<dir, bak, rows, gens, hist>>
    BY WhoseStep
  <2>2. CASE Quiet(p) \/ LockDb(p) \/ UNCHANGED <<dir, bak, rows, gens, hist>>
    BY <2>2 DEF OnlyHolder, Quiet, LockDb, disk
  <2>3. CASE role[p] = "master" /\ Masters(p)
    BY <2>3, Opened DEF OnlyHolder, Holds, Masters, MasterInv
  <2> QED
    BY <2>1, <2>2, <2>3
<1> QED
  BY <1>1, Invariance, PTL DEF Spec

=============================================================================
