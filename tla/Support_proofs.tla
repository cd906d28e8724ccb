--------------------------- MODULE Support_proofs --------------------------
(***************************************************************************)
(* Proofs about the libraries under the database.  GbMem, for every size   *)
(* of blocks, pieces and superblocks and any number of threads: no block   *)
(* belongs to two pieces, and none is lost.  KwOwners, for any kws and     *)
(* gbuffers: a gbuffer is freed with the last of its owners and not before.*)
(* Logger, for any handlers and messages: a message goes to each handler   *)
(* that takes it, whatever the write functions add and delete.  Rotatory,  *)
(* for any names, limits and days: what is left of a file is the end of    *)
(* what went to it.                                                        *)
(***************************************************************************)
EXTENDS GbMem, KwOwners, Logger, Rotatory, SequenceTheorems, FiniteSetTheorems,
        FunctionTheorems, TLAPS

-----------------------------------------------------------------------------
(* GbMem *)


Rest == <<pool, avail, amtAvail, countSb, used>>

\* The types of the state of the superblocks.
PieceTypes ==
    /\ pool \in [1..PoolSize -> Seq(Address)]
    /\ avail \in Address /\ amtAvail \in 0..Chunk /\ countSb \in 0..MaxSb
    /\ DOMAIN used \subseteq Address
    /\ \A a \in DOMAIN used : used[a] \in [blocks : 1..PoolSize, size : Nat]

PieceInv == /\ PieceTypes /\ RestIsEnd /\ AllInside
            /\ UsedApart /\ UsedFreeApart /\ FreeApart /\ Large
            /\ NothingLeaks

-----------------------------------------------------------------------------
(* Sizes *)

\* What stands behind a piece put in front of a free list.
LEMMA Shifted ==
    ASSUME NEW S, NEW e \in S, NEW s \in Seq(S), NEW i \in 1 .. Len(s)
    PROVE  (<<e>> \o s)[i + 1] = s[i]
<1>1. <<e>> \in Seq(S) /\ Len(<<e>>) = 1 /\ i + 1 > 1 /\ (i + 1) - 1 = i /\ i + 1 \in 1 .. Len(s) + 1
  OBVIOUS
<1> QED
  BY <1>1

\* The blocks of a size hold it with its header, and no smaller number does.
LEMMA BlocksHold ==
    ASSUME NEW size \in Nat, Fits(size)
    PROVE  /\ Blocks(size) \in 1..PoolSize
           /\ size + Header <= Blocks(size) * BlockSize
<1> DEFINE x == size + Header
           n == (x + BlockSize - 1) \div BlockSize
<1>1. BlockSize \in Nat \ {0} /\ Header \in Nat \ {0} /\ PoolSize \in Nat \ {0}
  BY GbMemAssumption
<1>2. x \in Nat \ {0} /\ x <= PoolSize * BlockSize
  BY <1>1 DEF Fits
<1>3. Blocks(size) = n
  BY DEF Blocks
<1> HIDE DEF x
<1>4. n \in Int /\ n * BlockSize <= x + BlockSize - 1 /\ x + BlockSize - 1 < (n + 1) * BlockSize
  BY <1>1, <1>2
<1> HIDE DEF n
<1>5. x <= n * BlockSize
  BY <1>1, <1>2, <1>4
<1>6. 0 < n
  BY <1>1, <1>2, <1>4, <1>5
<1>7. n * BlockSize < (PoolSize + 1) * BlockSize
  BY <1>1, <1>2, <1>4
<1>8. n < PoolSize + 1
  BY <1>1, <1>4, <1>7
<1> QED
  BY <1>1, <1>3, <1>4, <1>5, <1>6, <1>8 DEF x

-----------------------------------------------------------------------------
(* The steps of gbmem_malloc *)

\* A free piece becomes one in use.
LEMMA TakeFromKeeps ==
    ASSUME PieceInv, NEW k \in 1..PoolSize, NEW size \in Nat, NEW a,
           size + Header <= k * BlockSize, TakeFrom(k, size, a)
    PROVE  PieceInv' /\ a \notin DOMAIN used
<1> DEFINE l == Len(pool[k])
<1>1. /\ pool[k] \in Seq(Address) /\ l \in Nat /\ l > 0 /\ a = pool[k][1]
      /\ a \in Address /\ 1 \in DOMAIN pool[k]
  BY DEF PieceInv, PieceTypes, TakeFrom
<1>2. /\ pool' \in [1..PoolSize -> Seq(Address)]
      /\ \A n \in 1..PoolSize : n # k => pool'[n] = pool[n]
      /\ DOMAIN pool'[k] = 1..(l - 1)
      /\ \A i \in 1..(l - 1) : pool'[k][i] = pool[k][i + 1] /\ i + 1 \in DOMAIN pool[k]
  BY <1>1 DEF PieceInv, PieceTypes, TakeFrom
<1>3. \A n \in 1..PoolSize : \A i \in DOMAIN pool'[n] :
        \E j \in DOMAIN pool[n] : /\ pool'[n][i] = pool[n][j]
                                  /\ j = IF n = k THEN i + 1 ELSE i
  BY <1>1, <1>2
<1>4. a \notin DOMAIN used
  <2>1. SUFFICES ASSUME a \in DOMAIN used PROVE FALSE
    OBVIOUS
  <2>2. Apart(a, used[a].blocks, a, k)
    BY <1>1, <2>1 DEF PieceInv, UsedFreeApart
  <2>4. used[a].blocks \in 1..PoolSize
    BY <2>1 DEF PieceInv, PieceTypes
  <2>5. a[2] \in Nat
    BY <1>1, GbMemAssumption DEF Address
  <2>6. k \in Nat /\ k > 0
    BY GbMemAssumption
  <2>3. used[a].blocks > 0 /\ used[a].blocks \in Nat
    BY <2>4, GbMemAssumption
  <2> QED
    BY <2>2, <2>3, <2>5, <2>6 DEF Apart
<1>5. /\ DOMAIN used' = DOMAIN used \union {a}
      /\ used'[a] = [blocks |-> k, size |-> size]
      /\ \A b \in DOMAIN used : used'[b] = used[b]
  BY <1>4 DEF TakeFrom, Has
<1>6. UNCHANGED <<avail, amtAvail, countSb>>
  BY DEF TakeFrom
<1>7. PieceTypes'
  BY <1>1, <1>2, <1>5, <1>6 DEF PieceInv, PieceTypes
<1>8. RestIsEnd'
  BY <1>6 DEF PieceInv, RestIsEnd
<1>9. AllInside'
  BY <1>1, <1>3, <1>5, <1>6 DEF PieceInv, AllInside, Inside
<1>10. \A b \in DOMAIN used : Apart(b, used[b].blocks, a, k) /\ Apart(a, k, b, used[b].blocks)
  BY <1>1 DEF PieceInv, UsedFreeApart, Apart
<1>11. UsedApart'
  BY <1>5, <1>10 DEF PieceInv, UsedApart
<1>12. \A n \in 1..PoolSize : \A i \in DOMAIN pool'[n] : Apart(a, k, pool'[n][i], n)
  <2>1. SUFFICES ASSUME NEW n \in 1..PoolSize, NEW i \in DOMAIN pool'[n]
                 PROVE  Apart(a, k, pool'[n][i], n)
    OBVIOUS
  <2>2. PICK j \in DOMAIN pool[n] : /\ pool'[n][i] = pool[n][j]
                                    /\ j = IF n = k THEN i + 1 ELSE i
    BY <1>3
  <2>3. n # k \/ j # 1
    BY <1>2, <2>2
  <2> QED
    BY <1>1, <2>2, <2>3 DEF PieceInv, FreeApart
<1>13. UsedFreeApart'
  BY <1>3, <1>5, <1>12 DEF PieceInv, UsedFreeApart
<1>14. FreeApart'
  <2>1. SUFFICES ASSUME NEW n \in 1..PoolSize, NEW m \in 1..PoolSize,
                        NEW i \in DOMAIN pool'[n], NEW j \in DOMAIN pool'[m],
                        n # m \/ i # j
                 PROVE  Apart(pool'[n][i], n, pool'[m][j], m)
    BY DEF FreeApart
  <2>2. PICK p \in DOMAIN pool[n] : /\ pool'[n][i] = pool[n][p]
                                    /\ p = IF n = k THEN i + 1 ELSE i
    BY <1>3
  <2>3. PICK q \in DOMAIN pool[m] : /\ pool'[m][j] = pool[m][q]
                                    /\ q = IF m = k THEN j + 1 ELSE j
    BY <1>3
  <2>4. n # m \/ p # q
    BY <2>1, <2>2, <2>3, <1>2
  <2> QED
    BY <2>2, <2>3, <2>4 DEF PieceInv, FreeApart
<1>15. Large'
  BY <1>5 DEF PieceInv, Large
<1>16. NothingLeaks'
  <2>1. SUFFICES ASSUME NEW block \in (1..countSb) \X (0..(Chunk - 1)),
                        ~ InPiece(block, avail, amtAvail),
                        ~ \E b \in DOMAIN used' : InPiece(block, b, used'[b].blocks)
                 PROVE  \E n \in 1..PoolSize : \E i \in DOMAIN pool'[n] :
                            InPiece(block, pool'[n][i], n)
    BY <1>6 DEF NothingLeaks
  <2>2. /\ ~ InPiece(block, a, k)
        /\ ~ \E b \in DOMAIN used : InPiece(block, b, used[b].blocks)
    BY <1>5, <2>1
  <2>3. PICK n \in 1..PoolSize : \E i \in DOMAIN pool[n] : InPiece(block, pool[n][i], n)
    BY <2>1, <2>2 DEF PieceInv, NothingLeaks
  <2>6. PICK i \in DOMAIN pool[n] : InPiece(block, pool[n][i], n)
    BY <2>3
  <2>4. CASE n # k
    BY <1>2, <2>6, <2>4
  <2>5. CASE n = k
    <3>1. i # 1 /\ i \in 1..l
      BY <1>1, <2>2, <2>6, <2>5
    <3>2. i - 1 \in DOMAIN pool'[k] /\ pool'[k][i - 1] = pool[k][i]
      <4>1. i - 1 \in 1..(l - 1) /\ (i - 1) + 1 = i
        BY <1>1, <3>1
      <4> QED
        BY <1>1, <1>2, <4>1
    <3> QED
      BY <2>6, <2>5, <3>2
  <2> QED
    BY <2>4, <2>5
<1> QED
  BY <1>4, <1>7, <1>8, <1>9, <1>11, <1>13, <1>14, <1>15, <1>16 DEF PieceInv

\* A new piece is cut from the current superblock.
LEMMA FromAvailKeeps ==
    ASSUME PieceInv, NEW k \in 1..PoolSize, NEW size \in Nat, NEW a,
           size + Header <= k * BlockSize, FromAvail(k, size, a)
    PROVE  PieceInv' /\ a \notin DOMAIN used
<1>1. /\ avail \in Address /\ amtAvail \in 0..Chunk /\ countSb \in 0..MaxSb
      /\ Chunk \in Nat /\ k \in Nat /\ k > 0 /\ k <= amtAvail /\ a = avail
      /\ avail' = <<avail[1], avail[2] + k>> /\ amtAvail' = amtAvail - k
      /\ pool' = pool /\ countSb' = countSb /\ MaxSb \in Nat
      /\ avail[1] \in 1..MaxSb /\ avail[2] \in 0..Chunk
  BY GbMemAssumption DEF PieceInv, PieceTypes, FromAvail, Address
<1>2. countSb # 0 /\ a[1] = countSb /\ a[2] + amtAvail = Chunk
  BY <1>1 DEF PieceInv, RestIsEnd
<1>3. a \notin DOMAIN used
  <2>1. SUFFICES ASSUME a \in DOMAIN used PROVE FALSE
    OBVIOUS
  <2>2. a[2] + used[a].blocks <= a[2] /\ used[a].blocks \in 1..PoolSize
    BY <1>1, <1>2, <2>1 DEF PieceInv, PieceTypes, AllInside, Inside
  <2> QED
    BY <1>1, <2>2, GbMemAssumption
<1>4. /\ DOMAIN used' = DOMAIN used \union {a}
      /\ used'[a] = [blocks |-> k, size |-> size]
      /\ \A b \in DOMAIN used : used'[b] = used[b]
  BY <1>3 DEF FromAvail, Has
<1>5. PieceTypes'
  <2>1. avail' \in Address /\ amtAvail' \in 0..Chunk
    BY <1>1, <1>2 DEF Address
  <2> QED
    BY <1>1, <1>4, <2>1 DEF PieceInv, PieceTypes
<1>6. RestIsEnd'
  BY <1>1, <1>2 DEF RestIsEnd
<1>7. \A b \in Address, n \in 1..PoolSize : Inside(b, n) => Apart(a, k, b, n) /\ Apart(b, n, a, k)
  <2>1. SUFFICES ASSUME NEW b \in Address, NEW n \in 1..PoolSize, Inside(b, n)
                 PROVE  Apart(a, k, b, n) /\ Apart(b, n, a, k)
    OBVIOUS
  <2>2. b[1] = a[1] => b[2] + n <= a[2]
    BY <1>1, <1>2, <2>1 DEF Inside
  <2> QED
    BY <2>2 DEF Apart
<1>8. \A b \in Address, n \in 1..PoolSize : Inside(b, n) => Inside(b, n)'
  <2>1. SUFFICES ASSUME NEW b \in Address, NEW n \in 1..PoolSize, Inside(b, n)
                 PROVE  Inside(b, n)'
    OBVIOUS
  <2>2. b[2] \in Nat /\ n \in Nat /\ b[1] \in Nat
    BY GbMemAssumption DEF Address
  <2> QED
    BY <1>1, <1>2, <2>1, <2>2 DEF Inside
<1>9. Inside(a, k)'
  BY <1>1, <1>2 DEF Inside
<1>10. \A n \in 1..PoolSize : \A i \in DOMAIN pool[n] : pool[n][i] \in Address
  BY DEF PieceInv, PieceTypes
<1>11. \A b \in DOMAIN used : b \in Address /\ used[b].blocks \in 1..PoolSize
  BY DEF PieceInv, PieceTypes
<1>12. AllInside'
  BY <1>1, <1>4, <1>8, <1>9, <1>10, <1>11 DEF PieceInv, AllInside
<1>13. UsedApart'
  BY <1>4, <1>7, <1>11 DEF PieceInv, UsedApart, AllInside
<1>14. UsedFreeApart'
  BY <1>1, <1>4, <1>7, <1>10 DEF PieceInv, UsedFreeApart, AllInside
<1>15. FreeApart'
  BY <1>1 DEF PieceInv, FreeApart
<1>16. Large'
  BY <1>4 DEF PieceInv, Large
<1>17. NothingLeaks'
  <2>1. SUFFICES ASSUME NEW block \in (1..countSb) \X (0..(Chunk - 1)),
                        ~ \E b \in DOMAIN used' : InPiece(block, b, used'[b].blocks),
                        ~ \E n \in 1..PoolSize : \E i \in DOMAIN pool[n] :
                              InPiece(block, pool[n][i], n)
                 PROVE  InPiece(block, avail', amtAvail')
    BY <1>1 DEF NothingLeaks
  <2>2. /\ ~ InPiece(block, a, k)
        /\ ~ \E b \in DOMAIN used : InPiece(block, b, used[b].blocks)
    BY <1>4, <2>1
  <2>3. InPiece(block, avail, amtAvail)
    BY <2>1, <2>2 DEF PieceInv, NothingLeaks
  <2> QED
    BY <1>1, <1>2, <2>2, <2>3 DEF InPiece
<1> QED
  BY <1>3, <1>5, <1>6, <1>12, <1>13, <1>14, <1>15, <1>16, <1>17 DEF PieceInv

\* What is left of the current superblock becomes a free piece, and the piece
\* is cut from a new one.
LEMMA FromNewKeeps ==
    ASSUME PieceInv, NEW k \in 1..PoolSize, NEW size \in Nat, NEW a,
           size + Header <= k * BlockSize, FromNew(k, size, a)
    PROVE  PieceInv' /\ a \notin DOMAIN used
<1>0. PICK m \in 0..Chunk, r \in Address : m = amtAvail /\ r = avail
  BY DEF PieceInv, PieceTypes
<1>a. /\ countSb < MaxSb /\ pool' = KeepRest /\ countSb' = countSb + 1
      /\ a = <<countSb + 1, 0>> /\ avail' = <<countSb + 1, k>> /\ amtAvail' = Chunk - k
      /\ amtAvail < k /\ k \in Nat /\ k > 0 /\ k <= Chunk
  BY GbMemAssumption DEF PieceInv, PieceTypes, FromNew
<1>1. /\ r \in Address /\ m \in Nat /\ m <= Chunk /\ countSb \in 0..MaxSb
      /\ Chunk \in Nat /\ MaxSb \in Nat /\ PoolSize \in Nat
      /\ r[1] \in 1..MaxSb /\ r[2] \in 0..Chunk
      /\ pool \in [1..PoolSize -> Seq(Address)]
  BY <1>0, GbMemAssumption, SMTT(30) DEF PieceInv, PieceTypes, Address
<1>2. m # 0 => r[1] = countSb /\ r[2] + m = Chunk /\ m \in 1..PoolSize
  BY <1>0, <1>a, <1>1 DEF PieceInv, RestIsEnd
<1>3. /\ pool' \in [1..PoolSize -> Seq(Address)]
      /\ \A n \in 1..PoolSize : \A i \in DOMAIN pool'[n] :
            \/ /\ n = m /\ m # 0 /\ i = 1 /\ pool'[n][i] = r
            \/ \E j \in DOMAIN pool[n] : /\ pool'[n][i] = pool[n][j]
                                         /\ j = IF n = m THEN i - 1 ELSE i
  <2>1. CASE m = 0
    <3>1. pool' = pool
      BY <1>0, <1>a, <2>1 DEF KeepRest
    <3> QED
      BY <1>1, <2>1, <3>1
  <2>2. CASE m # 0
    <3> DEFINE s == <<r>> \o pool[m]
    <3>1. pool[m] \in Seq(Address) /\ <<r>> \in Seq(Address)
      BY <1>1, <1>2, <2>2
    <3>2. /\ s \in Seq(Address) /\ DOMAIN s = 1..(Len(pool[m]) + 1) /\ s[1] = r
          /\ \A i \in 1..(Len(pool[m]) + 1) : i # 1 =>
                s[i] = pool[m][i - 1] /\ i - 1 \in DOMAIN pool[m]
      BY <3>1
    <3>3. pool' = [pool EXCEPT ![m] = s]
      BY <1>0, <1>a, <2>2 DEF KeepRest
    <3> HIDE DEF s
    <3>4. pool'[m] = s /\ \A n \in 1..PoolSize : n # m => pool'[n] = pool[n]
      BY <1>1, <1>2, <2>2, <3>3
    <3>5. pool' \in [1..PoolSize -> Seq(Address)]
      BY <1>1, <3>2, <3>3
    <3> QED
      BY <2>2, <3>2, <3>4, <3>5
  <2> QED
    BY <2>1, <2>2
<1>4. \A b \in Address, n \in 1..PoolSize : Inside(b, n) =>
         /\ Inside(b, n)'
         /\ m # 0 => Apart(r, m, b, n) /\ Apart(b, n, r, m)
  <2>1. SUFFICES ASSUME NEW b \in Address, NEW n \in 1..PoolSize, Inside(b, n)
                 PROVE  /\ Inside(b, n)'
                        /\ m # 0 => Apart(r, m, b, n) /\ Apart(b, n, r, m)
    OBVIOUS
  <2>2. b[2] \in Nat /\ n \in Nat /\ b[1] \in Nat
    BY GbMemAssumption DEF Address
  <2>3. Inside(b, n)'
    BY <1>1, <1>a, <2>1, <2>2, SMTT(30) DEF Inside
  <2>4. m # 0 /\ b[1] = r[1] => b[2] + n <= r[2]
    BY <1>0, <1>a, <1>1, <1>2, <2>1 DEF Inside
  <2> QED
    BY <2>3, <2>4 DEF Apart
<1>5. m # 0 => Inside(r, m)'
  BY <1>1, <1>a, <1>2, SMTT(30) DEF Inside
<1>6. \A n \in 1..PoolSize : \A i \in DOMAIN pool[n] : pool[n][i] \in Address /\ Inside(pool[n][i], n)
  BY DEF PieceInv, PieceTypes, AllInside
<1>7. \A b \in DOMAIN used : b \in Address /\ used[b].blocks \in 1..PoolSize /\ Inside(b, used[b].blocks)
  BY DEF PieceInv, PieceTypes, AllInside
<1>b. a \in Address /\ a[1] = countSb + 1 /\ a[2] = 0 /\ a \notin DOMAIN used
  BY <1>1, <1>a, <1>7 DEF Address, Inside
<1>c. /\ DOMAIN used' = DOMAIN used \union {a}
      /\ used'[a] = [blocks |-> k, size |-> size]
      /\ \A b \in DOMAIN used : used'[b] = used[b]
  BY <1>b DEF FromNew, Has
<1>d. \A b \in Address, n \in 1..PoolSize : b[1] <= countSb =>
         Apart(a, k, b, n) /\ Apart(b, n, a, k)
  BY <1>1, <1>b DEF Apart, Address
<1>e. Inside(a, k)'
  BY <1>1, <1>a, <1>b DEF Inside
<1>8. PieceTypes'
  <2>1. avail' \in Address /\ amtAvail' \in 0..Chunk /\ countSb' \in 0..MaxSb
    BY <1>1, <1>a DEF Address
  <2> QED
    BY <1>3, <1>b, <1>c, <2>1 DEF PieceInv, PieceTypes
<1>9. RestIsEnd'
  BY <1>1, <1>a DEF RestIsEnd
<1>10. AllInside'
  BY <1>3, <1>4, <1>5, <1>6, <1>7, <1>c, <1>e DEF AllInside
<1>11. UsedApart'
  BY <1>7, <1>c, <1>d DEF PieceInv, UsedApart, Inside
<1>12. UsedFreeApart'
  <2>1. SUFFICES ASSUME NEW b \in DOMAIN used', NEW n \in 1..PoolSize, NEW i \in DOMAIN pool'[n]
                 PROVE  Apart(b, used'[b].blocks, pool'[n][i], n)
    BY DEF UsedFreeApart
  <2>2. \/ n = m /\ m # 0 /\ pool'[n][i] = r
        \/ \E j \in DOMAIN pool[n] : pool'[n][i] = pool[n][j]
    BY <1>3
  <2>3. CASE b = a
    <3>1. PICK f : f = pool'[n][i]
      OBVIOUS
    <3>2. f \in Address /\ f[1] <= countSb
      BY <1>1, <1>2, <1>6, <2>2, <3>1, SMTT(30) DEF Inside
    <3> QED
      BY <1>c, <1>d, <2>3, <3>1, <3>2
  <2>4. CASE b \in DOMAIN used
    BY <1>4, <1>7, <1>c, <2>2, <2>4 DEF PieceInv, UsedFreeApart
  <2> QED
    BY <1>c, <2>3, <2>4
<1>13. FreeApart'
  <2>1. SUFFICES ASSUME NEW n \in 1..PoolSize, NEW o \in 1..PoolSize,
                        NEW i \in DOMAIN pool'[n], NEW j \in DOMAIN pool'[o],
                        n # o \/ i # j
                 PROVE  Apart(pool'[n][i], n, pool'[o][j], o)
    BY DEF FreeApart
  <2>2. CASE n = m /\ i = 1 /\ m # 0 /\ pool'[n][i] = r
    <3>1. PICK q \in DOMAIN pool[o] : pool'[o][j] = pool[o][q]
      BY <1>3, <2>1, <2>2
    <3> QED
      BY <1>4, <1>6, <2>2, <3>1
  <2>3. CASE o = m /\ j = 1 /\ m # 0 /\ pool'[o][j] = r
    <3>1. PICK p \in DOMAIN pool[n] : pool'[n][i] = pool[n][p]
      BY <1>3, <2>1, <2>3
    <3> QED
      BY <1>4, <1>6, <2>3, <3>1
  <2>4. CASE /\ ~ (n = m /\ i = 1 /\ m # 0 /\ pool'[n][i] = r)
             /\ ~ (o = m /\ j = 1 /\ m # 0 /\ pool'[o][j] = r)
    <3>1. PICK p \in DOMAIN pool[n] : /\ pool'[n][i] = pool[n][p]
                                      /\ p = IF n = m THEN i - 1 ELSE i
      BY <1>3, <2>4
    <3>2. PICK q \in DOMAIN pool[o] : /\ pool'[o][j] = pool[o][q]
                                      /\ q = IF o = m THEN j - 1 ELSE j
      BY <1>3, <2>4
    <3>3. DOMAIN pool'[n] \subseteq Nat /\ DOMAIN pool'[o] \subseteq Nat
      BY <1>3
    <3>4. n # o \/ p # q
      BY <2>1, <3>1, <3>2, <3>3
    <3> QED
      BY <3>1, <3>2, <3>4 DEF PieceInv, FreeApart
  <2> QED
    BY <2>2, <2>3, <2>4
<1>14. Large'
  BY <1>c DEF PieceInv, Large
<1>15. NothingLeaks'
  <2>1. SUFFICES ASSUME NEW block \in (1..countSb') \X (0..(Chunk - 1)),
                        ~ InPiece(block, avail', amtAvail'),
                        ~ \E b \in DOMAIN used' : InPiece(block, b, used'[b].blocks)
                 PROVE  \E n \in 1..PoolSize : \E i \in DOMAIN pool'[n] :
                            InPiece(block, pool'[n][i], n)
    BY DEF NothingLeaks
  <2>5. /\ ~ InPiece(block, a, k)
        /\ ~ \E b \in DOMAIN used : InPiece(block, b, used[b].blocks)
    BY <1>c, <2>1
  <2>2. block \in (1..countSb) \X (0..(Chunk - 1))
    BY <1>1, <1>a, <1>b, <2>1, <2>5 DEF InPiece
  <2>3. CASE InPiece(block, r, m)
    <3>1. m # 0 /\ m \in 1..PoolSize
      BY <1>1, <1>2, <2>2, <2>3 DEF InPiece
    <3>2. 1 \in DOMAIN pool'[m] /\ pool'[m][1] = r
      BY <1>0, <1>a, <1>1, <3>1 DEF KeepRest
    <3> QED
      BY <2>3, <3>1, <3>2
  <2>4. CASE ~ InPiece(block, r, m)
    <3>1. PICK n \in 1..PoolSize : \E i \in DOMAIN pool[n] : InPiece(block, pool[n][i], n)
      BY <1>0, <2>2, <2>4, <2>5 DEF PieceInv, NothingLeaks
    <3>2. PICK i \in DOMAIN pool[n] : InPiece(block, pool[n][i], n)
      BY <3>1
    <3>3. \E j \in DOMAIN pool'[n] : pool'[n][j] = pool[n][i]
      <4>1. CASE n # m \/ m = 0
        <5>1. pool'[n] = pool[n]
          BY <1>0, <1>a, <1>1, <4>1 DEF KeepRest
        <5> QED
          BY <5>1
      <4>2. CASE n = m /\ m # 0
        <5>1. pool'[n] = <<r>> \o pool[n] /\ pool[n] \in Seq(Address)
          BY <1>0, <1>a, <1>1, <4>2 DEF KeepRest
        <5>2. /\ Len(pool'[n]) = Len(pool[n]) + 1 /\ DOMAIN pool'[n] = 1..(Len(pool[n]) + 1)
              /\ i \in 1..Len(pool[n])
          BY <1>1, <3>2, <5>1, SMTT(60)
        <5>4. i + 1 \in DOMAIN pool'[n]
          BY <5>2
        <5>5. pool[n] \in Seq(Address) /\ r \in Address
          BY <1>1
        <5>6. (<<r>> \o pool[n])[i + 1] = pool[n][i]
          <6>1. PICK e, s : e = r /\ s = pool[n]
            OBVIOUS
          <6>2. e \in Address /\ s \in Seq(Address) /\ i \in 1 .. Len(s)
            BY <5>2, <5>5, <6>1
          <6>3. (<<e>> \o s)[i + 1] = s[i]
            BY <6>2, Shifted
          <6> QED
            BY <6>1, <6>3
        <5>3. i + 1 \in DOMAIN pool'[n] /\ pool'[n][i + 1] = pool[n][i]
          BY <5>1, <5>4, <5>6
        <5> QED
          BY <5>3
      <4> QED
        BY <4>1, <4>2
    <3> QED
      BY <3>2, <3>3
  <2> QED
    BY <2>3, <2>4
<1> QED
  BY <1>b, <1>8, <1>9, <1>10, <1>11, <1>12, <1>13, <1>14, <1>15 DEF PieceInv

\* A piece in use becomes a free one.
LEMMA ReleaseKeeps ==
    ASSUME PieceInv, NEW a \in DOMAIN used, Release(a)
    PROVE  PieceInv' /\ DOMAIN used' = DOMAIN used \ {a}
<1>1. PICK k \in 1..PoolSize : k = used[a].blocks
  BY DEF PieceInv, PieceTypes
<1>2. a \in Address /\ pool[k] \in Seq(Address) /\ k \in Nat
  BY GbMemAssumption DEF PieceInv, PieceTypes
<1> DEFINE s == <<a>> \o pool[k]
<1>3. /\ s \in Seq(Address) /\ DOMAIN s = 1..(Len(pool[k]) + 1) /\ s[1] = a
      /\ \A i \in 1..(Len(pool[k]) + 1) : i # 1 =>
            s[i] = pool[k][i - 1] /\ i - 1 \in DOMAIN pool[k]
      /\ \A i \in DOMAIN pool[k] : i + 1 \in DOMAIN s /\ s[i + 1] = pool[k][i]
  <2>1. <<a>> \in Seq(Address) /\ Len(<<a>>) = 1
    BY <1>2
  <2> QED
    BY <1>2, <2>1
<1>4. pool' = [pool EXCEPT ![k] = s]
  BY <1>1 DEF Release
<1> HIDE DEF s
<1>5. /\ pool' \in [1..PoolSize -> Seq(Address)] /\ pool'[k] = s
      /\ \A n \in 1..PoolSize : n # k => pool'[n] = pool[n]
  BY <1>3, <1>4 DEF PieceInv, PieceTypes
<1>6. \A n \in 1..PoolSize : \A i \in DOMAIN pool'[n] :
         \/ n = k /\ i = 1 /\ pool'[n][i] = a
         \/ \E j \in DOMAIN pool[n] : /\ pool'[n][i] = pool[n][j]
                                      /\ j = IF n = k THEN i - 1 ELSE i
  BY <1>3, <1>5
<1>7. /\ DOMAIN used' = DOMAIN used \ {a}
      /\ \A b \in DOMAIN used' : used'[b] = used[b]
      /\ UNCHANGED <<avail, amtAvail, countSb>>
  BY DEF Release, Without
<1>8. PieceTypes'
  BY <1>5, <1>7 DEF PieceInv, PieceTypes
<1>9. RestIsEnd'
  BY <1>7 DEF PieceInv, RestIsEnd
<1>10. AllInside'
  BY <1>1, <1>6, <1>7 DEF PieceInv, AllInside, Inside
<1>11. UsedApart'
  BY <1>7 DEF PieceInv, UsedApart
<1>12. UsedFreeApart'
  BY <1>1, <1>6, <1>7 DEF PieceInv, UsedFreeApart, UsedApart
<1>13. FreeApart'
  <2>0. \A n \in 1..PoolSize : \A i \in DOMAIN pool[n] :
           Apart(a, k, pool[n][i], n) /\ Apart(pool[n][i], n, a, k)
    BY <1>1 DEF PieceInv, UsedFreeApart, Apart
  <2>1. SUFFICES ASSUME NEW n \in 1..PoolSize, NEW o \in 1..PoolSize,
                        NEW i \in DOMAIN pool'[n], NEW j \in DOMAIN pool'[o],
                        n # o \/ i # j
                 PROVE  Apart(pool'[n][i], n, pool'[o][j], o)
    BY DEF FreeApart
  <2>2. CASE n = k /\ i = 1 /\ pool'[n][i] = a
    <3>1. PICK q \in DOMAIN pool[o] : pool'[o][j] = pool[o][q]
      BY <1>6, <2>1, <2>2
    <3> QED
      BY <2>0, <2>2, <3>1
  <2>3. CASE o = k /\ j = 1 /\ pool'[o][j] = a
    <3>1. PICK p \in DOMAIN pool[n] : pool'[n][i] = pool[n][p]
      BY <1>6, <2>1, <2>3
    <3> QED
      BY <2>0, <2>3, <3>1
  <2>4. CASE /\ ~ (n = k /\ i = 1 /\ pool'[n][i] = a)
             /\ ~ (o = k /\ j = 1 /\ pool'[o][j] = a)
    <3>1. PICK p \in DOMAIN pool[n] : /\ pool'[n][i] = pool[n][p]
                                      /\ p = IF n = k THEN i - 1 ELSE i
      BY <1>6, <2>4
    <3>2. PICK q \in DOMAIN pool[o] : /\ pool'[o][j] = pool[o][q]
                                      /\ q = IF o = k THEN j - 1 ELSE j
      BY <1>6, <2>4
    <3>3. DOMAIN pool'[n] \subseteq Nat /\ DOMAIN pool'[o] \subseteq Nat
      BY <1>5
    <3>4. n # o \/ p # q
      BY <2>1, <3>1, <3>2, <3>3
    <3> QED
      BY <3>1, <3>2, <3>4 DEF PieceInv, FreeApart
  <2> QED
    BY <2>2, <2>3, <2>4
<1>14. Large'
  BY <1>7 DEF PieceInv, Large
<1>15. NothingLeaks'
  <2>1. SUFFICES ASSUME NEW block \in (1..countSb) \X (0..(Chunk - 1)),
                        ~ InPiece(block, avail, amtAvail),
                        ~ \E b \in DOMAIN used' : InPiece(block, b, used'[b].blocks)
                 PROVE  \E n \in 1..PoolSize : \E i \in DOMAIN pool'[n] :
                            InPiece(block, pool'[n][i], n)
    BY <1>7 DEF NothingLeaks
  <2>2. CASE InPiece(block, a, k)
    <3>1. 1 \in DOMAIN pool'[k] /\ pool'[k][1] = a
      BY <1>2, <1>3, <1>5
    <3> QED
      BY <2>2, <3>1
  <2>3. CASE ~ InPiece(block, a, k)
    <3>1. PICK n \in 1..PoolSize : \E i \in DOMAIN pool[n] : InPiece(block, pool[n][i], n)
      BY <1>1, <1>7, <2>1, <2>3 DEF PieceInv, NothingLeaks
    <3>2. PICK i \in DOMAIN pool[n] : InPiece(block, pool[n][i], n)
      BY <3>1
    <3>3. \E j \in DOMAIN pool'[n] : pool'[n][j] = pool[n][i]
      <4>1. CASE n = k
        BY <1>3, <1>5, <4>1
      <4>2. CASE n # k
        BY <1>3, <1>5, <4>2
      <4> QED
        BY <4>1, <4>2
    <3> QED
      BY <3>2, <3>3
  <2> QED
    BY <2>2, <2>3
<1> QED
  BY <1>7, <1>8, <1>9, <1>10, <1>11, <1>12, <1>13, <1>14, <1>15 DEF PieceInv

\* Whatever way gbmem_malloc finds a piece.
LEMMA GiveKeeps ==
    ASSUME PieceInv, NEW size \in Nat, Fits(size), NEW a, Give(size, a)
    PROVE  /\ PieceInv' /\ a \notin DOMAIN used
           /\ DOMAIN used' = DOMAIN used \union {a}
<1> DEFINE n == Blocks(size)
<1>1. n \in 1..PoolSize /\ size + Header <= n * BlockSize
  BY BlocksHold
<1>2. CASE TakeFrom(n, size, a)
  BY <1>1, <1>2, TakeFromKeeps DEF TakeFrom, Has
<1>3. CASE FromAvail(n, size, a)
  BY <1>1, <1>3, FromAvailKeeps DEF FromAvail, Has
<1>4. CASE FromNew(n, size, a)
  BY <1>1, <1>4, FromNewKeeps DEF FromNew, Has
<1>5. CASE FromUpper(n, size, a)
  <2>1. PICK k \in n..PoolSize : TakeFrom(k, size, a)
    BY <1>5 DEF FromUpper
  <2>2. /\ k \in 1..PoolSize /\ n \in Nat /\ k \in Nat /\ n <= k
        /\ BlockSize \in Nat /\ size + Header \in Nat
    BY <1>1, GbMemAssumption
  <2> HIDE DEF n
  <2>3. n * BlockSize <= k * BlockSize /\ n * BlockSize \in Nat /\ k * BlockSize \in Nat
    BY <2>2
  <2>4. size + Header <= k * BlockSize
    BY <1>1, <2>2, <2>3
  <2> QED
    BY <2>1, <2>2, <2>4, TakeFromKeeps DEF TakeFrom, Has
<1> QED
  BY <1>2, <1>3, <1>4, <1>5 DEF Give

-----------------------------------------------------------------------------
(* The invariant *)

IInv == /\ TypeOK /\ MemoryIsOwn /\ NothingLeaks
        /\ mode = "system" => DOMAIN used = {}

Others == /\ MovesApart
          /\ mode \in {"system", "segments", "aborted"}
          /\ cur \in Int
          /\ DOMAIN system \subseteq SystemSlots
          /\ \A slot \in DOMAIN system : system[slot] \in Nat
          /\ moving \in [Threads -> [from : Address, to : Address] \union {Nil}]
          /\ mode = "system" => DOMAIN used = {}

\* The pieces, and what threads move, are as they should.
LEMMA IInvParts == IInv <=> PieceInv /\ Others
BY DEF IInv, TypeOK, MemoryIsOwn, PieceInv, PieceTypes, Others

\* Nothing is in use, and the current superblock is whole or there is none.
Empty == /\ pool = [n \in 1..PoolSize |-> <<>>]
         /\ avail = <<1, 0>> /\ DOMAIN used = {}
         /\ \/ amtAvail = 0 /\ countSb = 0
            \/ amtAvail = Chunk /\ countSb = 1

LEMMA EmptyPieces == Empty => PieceInv
<1> SUFFICES ASSUME Empty PROVE PieceInv
  OBVIOUS
<1> USE DEF Empty
<1>1. PieceTypes
  BY GbMemAssumption DEF PieceTypes, Address
<1>2. DOMAIN used = {} /\ \A n \in 1..PoolSize : DOMAIN pool[n] = {}
  OBVIOUS
<1>3. AllInside /\ UsedApart /\ UsedFreeApart /\ FreeApart /\ Large
  BY <1>2 DEF AllInside, UsedApart, UsedFreeApart, FreeApart, Large
<1>4. RestIsEnd
  BY GbMemAssumption DEF RestIsEnd
<1>5. NothingLeaks
  BY GbMemAssumption DEF NothingLeaks, InPiece
<1> QED
  BY <1>1, <1>3, <1>4, <1>5 DEF PieceInv

\* A step that leaves the pieces alone.
LEMMA SamePieces ==
    ASSUME PieceInv, UNCHANGED pieces
    PROVE  PieceInv'
BY DEF PieceInv, PieceTypes, RestIsEnd, AllInside, Inside, UsedApart, UsedFreeApart,
       FreeApart, Large, NothingLeaks, pieces

\* Startup and shutdown.
LEMMA EmptyKeeps ==
    ASSUME IInv, Startup \/ Shutdown
    PROVE  IInv'
<1>1. Empty'
  BY IInvParts DEF Startup, Shutdown, Empty, Others
<1>2. PieceInv'
  BY <1>1, EmptyPieces, PTL
<1>3. Others'
  BY IInvParts DEF Startup, Shutdown, Others, MovesApart, systemVars
<1> QED
  BY <1>2, <1>3, IInvParts, PTL

\* gbmem_malloc, gbmem_free and gbmem_realloc with superblocks.
LEMMA SegmentsKeep ==
    ASSUME IInv, mode = "segments", UNCHANGED systemVars,
           NEW a, NEW size, NEW t,
           \/ size \in Sizes /\ Malloc(size)
           \/ size \in Sizes /\ Abort(size)
           \/ a \in DOMAIN used /\ Free(a)
           \/ t \in Threads /\ a \in DOMAIN used /\ size \in Sizes /\ ReallocTake(t, a, size)
           \/ t \in Threads /\ ReallocFree(t)
    PROVE  IInv'
<1> USE DEF systemVars
<1>1. PieceInv /\ Others /\ Sizes \subseteq Nat
  BY IInvParts, GbMemAssumption
<1>2. SUFFICES PieceInv' /\ Others'
  BY IInvParts, PTL
<1>3. CASE size \in Sizes /\ Malloc(size)
  <2>1. PICK b \in Address : Give(size, b)
    BY <1>3 DEF Malloc
  <2>2. PieceInv' /\ DOMAIN used' = DOMAIN used \union {b}
    BY <1>1, <1>3, <2>1, GiveKeeps DEF Malloc
  <2>3. UNCHANGED <<mode, moving>>
    BY <1>3 DEF Malloc
  <2> QED
    BY <1>1, <2>2, <2>3 DEF Others, MovesApart
<1>4. CASE size \in Sizes /\ Abort(size)
  <2>1. PieceInv'
    BY <1>1, <1>4, SamePieces DEF Abort
  <2> QED
    BY <1>1, <1>4, <2>1 DEF Others, MovesApart, Abort, pieces
<1>5. CASE a \in DOMAIN used /\ Free(a)
  <2>1. a \in DOMAIN used \ Moved /\ Release(a) /\ UNCHANGED <<mode, moving>>
    BY <1>5 DEF Free
  <2>2. PieceInv' /\ DOMAIN used' = DOMAIN used \ {a}
    BY <1>1, <2>1, ReleaseKeeps
  <2>3. \A u \in Threads : moving[u] # Nil => a # moving[u].from /\ a # moving[u].to
    BY <2>1 DEF Moved
  <2> QED
    BY <1>1, <2>1, <2>2, <2>3 DEF Others, MovesApart
<1>6. CASE t \in Threads /\ a \in DOMAIN used /\ size \in Sizes /\ ReallocTake(t, a, size)
  <2>1. PICK b \in Address : Give(size, b) /\ moving' = [moving EXCEPT ![t] = [from |-> a, to |-> b]]
    BY <1>6 DEF ReallocTake
  <2>2. PieceInv' /\ b \notin DOMAIN used /\ DOMAIN used' = DOMAIN used \union {b}
    BY <1>1, <1>6, <2>1, GiveKeeps DEF ReallocTake
  <2>3. mode' = mode /\ moving[t] = Nil /\ a \in DOMAIN used \ Moved
    BY <1>6 DEF ReallocTake
  <2>4. a \in Address /\ a # b
    BY <1>1, <2>2, <2>3 DEF PieceInv, PieceTypes
  <2>5. /\ t \in Threads /\ moving'[t] = [from |-> a, to |-> b]
        /\ \A u \in Threads : u # t => moving'[u] = moving[u]
        /\ moving' \in [Threads -> [from : Address, to : Address] \union {Nil}]
    BY <1>1, <1>6, <2>1, <2>4 DEF Others
  <2>6. \A u \in Threads : u # t /\ moving[u] # Nil =>
           {moving[u].from, moving[u].to} \intersect {a, b} = {}
    BY <1>1, <2>2, <2>3 DEF Others, MovesApart, Moved
  <2>7. MovesApart'
    <3>1. ASSUME NEW u \in Threads, moving'[u] # Nil
          PROVE  /\ {moving'[u].from, moving'[u].to} \subseteq DOMAIN used'
                 /\ moving'[u].from # moving'[u].to
      <4>1. CASE u = t
        BY <2>2, <2>3, <2>4, <2>5, <4>1
      <4>2. CASE u # t
        BY <1>1, <2>2, <2>5, <3>1, <4>2 DEF Others, MovesApart
      <4> QED
        BY <4>1, <4>2
    <3>2. ASSUME NEW u \in Threads, NEW v \in Threads, u # v, moving'[u] # Nil, moving'[v] # Nil
          PROVE  {moving'[u].from, moving'[u].to} \intersect {moving'[v].from, moving'[v].to} = {}
      <4>1. CASE u = t
        BY <2>5, <2>6, <3>2, <4>1
      <4>2. CASE v = t
        BY <2>5, <2>6, <3>2, <4>2
      <4>3. CASE u # t /\ v # t
        BY <1>1, <2>5, <3>2, <4>3 DEF Others, MovesApart
      <4> QED
        BY <4>1, <4>2, <4>3
    <3> QED
      BY <3>1, <3>2 DEF MovesApart
  <2> QED
    BY <1>1, <2>2, <2>3, <2>5, <2>7 DEF Others
<1>7. CASE t \in Threads /\ ReallocFree(t)
  <2>1. /\ moving[t] # Nil /\ Release(moving[t].from) /\ mode' = mode
        /\ moving' = [moving EXCEPT ![t] = Nil]
    BY <1>7 DEF ReallocFree
  <2>2. moving[t].from \in DOMAIN used
    BY <1>1, <1>7, <2>1 DEF Others, MovesApart
  <2>3. PieceInv' /\ DOMAIN used' = DOMAIN used \ {moving[t].from}
    BY <1>1, <2>1, <2>2, ReleaseKeeps
  <2>4. /\ t \in Threads /\ moving'[t] = Nil
        /\ \A u \in Threads : u # t => moving'[u] = moving[u]
        /\ moving' \in [Threads -> [from : Address, to : Address] \union {Nil}]
    BY <1>1, <1>7, <2>1 DEF Others
  <2>5. MovesApart'
    <3>1. MovesApart
      BY <1>1 DEF Others
    <3>2. ASSUME NEW u \in Threads, moving'[u] # Nil
          PROVE  u # t /\ moving'[u] = moving[u] /\ {moving[u].from, moving[u].to} \subseteq DOMAIN used'
                 /\ moving[u].from # moving[u].to
      <4>1. u # t /\ moving'[u] = moving[u] /\ moving[u] # Nil
        BY <2>4, <3>2
      <4>2. /\ {moving[u].from, moving[u].to} \subseteq DOMAIN used
            /\ moving[u].from # moving[u].to
            /\ {moving[u].from, moving[u].to} \cap {moving[t].from, moving[t].to} = {}
        BY <2>1, <3>1, <4>1 DEF MovesApart
      <4> QED
        BY <2>3, <4>1, <4>2
    <3> QED
      BY <3>1, <3>2 DEF MovesApart
  <2> QED
    BY <1>1, <2>1, <2>3, <2>4, <2>5 DEF Others
<1> QED
  BY <1>3, <1>4, <1>5, <1>6, <1>7

\* The same calls without superblocks.
LEMMA SystemFreeKeeps ==
    ASSUME IInv, NEW slot \in SystemSlots, SystemFree(slot)
    PROVE  IInv'
<1>1. PieceInv /\ Others
  BY IInvParts
<1>2. SUFFICES PieceInv' /\ Others'
  BY IInvParts, PTL
<1>3. UNCHANGED pieces /\ moving' = moving /\ mode' = mode
  BY DEF SystemFree
<1>4. PieceInv' /\ MovesApart' /\ used' = used
  BY <1>1, <1>3, SamePieces DEF Others, MovesApart, pieces
<1> QED
  BY <1>1, <1>3, <1>4 DEF Others, SystemFree, Without

LEMMA SystemKeeps ==
    ASSUME IInv, NEW slot \in SystemSlots, NEW size \in Sizes,
           \/ SystemMalloc(slot, size)
           \/ SystemRealloc(slot, size)
    PROVE  IInv'
<1>1. PieceInv /\ Others /\ size + SystemHeader \in Nat
  BY IInvParts, GbMemAssumption
<1>2. SUFFICES PieceInv' /\ Others'
  BY IInvParts, PTL
<1>3. UNCHANGED pieces /\ moving' = moving
  BY DEF SystemMalloc, SystemRealloc
<1>4. PieceInv' /\ MovesApart' /\ used' = used
  BY <1>1, <1>3, SamePieces DEF Others, MovesApart, pieces
<1>5. mode = "system" /\ mode' \in {"system", "aborted"}
  BY DEF SystemMalloc, SystemRealloc, SystemTakes
<1>6. /\ cur' \in Int /\ DOMAIN system' \subseteq SystemSlots
      /\ \A s \in DOMAIN system' : system'[s] \in Nat
  <2>2. CASE SystemMalloc(slot, size)
    <3>1. SystemTakes(size + SystemHeader, slot, size)
      BY <2>2 DEF SystemMalloc
    <3> QED
      BY <1>1, <3>1 DEF Others, SystemTakes, Has
  <2>3. CASE SystemRealloc(slot, size)
    <3>1. SystemTakes(size + SystemHeader - system[slot], slot, size) /\ slot \in DOMAIN system
      BY <2>3 DEF SystemRealloc
    <3>2. system[slot] \in Nat /\ cur \in Int
      BY <1>1, <3>1 DEF Others
    <3>3. cur' = cur + (size + SystemHeader - system[slot])
      BY <3>1 DEF SystemTakes
    <3>4. cur' \in Int
      BY <1>1, <3>2, <3>3
    <3>5. system' = system \/ system' = Has(system, slot, size + SystemHeader)
      BY <3>1 DEF SystemTakes
    <3> QED
      BY <1>1, <3>4, <3>5 DEF Others, Has
  <2> QED
    BY <2>2, <2>3
<1> QED
  BY <1>1, <1>3, <1>4, <1>5, <1>6 DEF Others

LEMMA InitIInv == Init => IInv
<1> SUFFICES ASSUME Init PROVE IInv
  OBVIOUS
<1>1. PieceInv
  BY EmptyPieces DEF Init, Empty
<1>2. Others
  BY DEF Init, Others, MovesApart
<1> QED
  BY <1>1, <1>2, IInvParts

LEMMA StepIInv == IInv /\ [Next]_vars => IInv'
<1> SUFFICES ASSUME IInv, [Next]_vars PROVE IInv'
  OBVIOUS
<1>1. CASE UNCHANGED vars
  <2>1. PieceInv' /\ Others'
    BY <1>1, IInvParts, SamePieces DEF vars, pieces, Others, MovesApart
  <2> QED
    BY <2>1, IInvParts, PTL
<1>2. CASE Startup \/ Shutdown
  BY <1>2, EmptyKeeps
<1>3. ASSUME NEW size \in Sizes, Malloc(size) \/ Abort(size)
      PROVE  IInv'
  BY <1>3, SegmentsKeep DEF Malloc, Abort
<1>4. ASSUME NEW a \in DOMAIN used, Free(a)
      PROVE  IInv'
  BY <1>4, SegmentsKeep DEF Free
<1>5. ASSUME NEW t \in Threads, NEW a \in DOMAIN used, NEW size \in Sizes, ReallocTake(t, a, size)
      PROVE  IInv'
  BY <1>5, SegmentsKeep DEF ReallocTake
<1>6. ASSUME NEW t \in Threads, ReallocFree(t)
      PROVE  IInv'
  BY <1>6, SegmentsKeep DEF ReallocFree
<1>7. ASSUME NEW slot \in SystemSlots, NEW size \in Sizes,
             SystemMalloc(slot, size) \/ SystemRealloc(slot, size)
      PROVE  IInv'
  BY <1>7, SystemKeeps
<1>8. ASSUME NEW slot \in SystemSlots, SystemFree(slot)
      PROVE  IInv'
  BY <1>8, SystemFreeKeeps
<1> QED
  BY <1>1, <1>2, <1>3, <1>4, <1>5, <1>6, <1>7, <1>8 DEF Next

\* The strengthening of the invariants of the runs holds in every state.
THEOREM Invariance == Spec => []IInv
BY InitIInv, StepIInv, PTL DEF Spec

\* No block belongs to two pieces, and a piece in use has room for its size.
THEOREM NoBlockIsShared == Spec => []MemoryIsOwn
<1>1. IInv => MemoryIsOwn
  BY DEF IInv
<1> QED
  BY <1>1, Invariance, PTL

\* Every block asked of the system is in a piece or in the current superblock.
THEOREM NoBlockIsLost == Spec => []NothingLeaks
<1>1. IInv => NothingLeaks
  BY DEF IInv
<1> QED
  BY <1>1, Invariance, PTL

-----------------------------------------------------------------------------
(* The references of kws *)

\* KwOwners!Owners, of any kws: a pair for each reference that has the gbuffer b.
RefsOf(o, b) == {p \in Kws \X Nat : /\ o[p[1]] # Nobody /\ o[p[1]].bin = b
                                 /\ p[2] \in 1 .. o[p[1]].refs}

Objects == [Kws -> KwRecord \union {Nobody}]

\* The references f of gbuffers are those of the kws o and those that callers have, h.
Balanced(o, f, h) ==
    /\ o \in Objects /\ f \in [Bufs -> Int] /\ h \in [Bufs -> Nat]
    /\ \A b \in Bufs : IsFiniteSet(RefsOf(o, b)) /\ f[b] = h[b] + Cardinality(RefsOf(o, b))

KwoInv == Balanced(obj, buf, hand)

LEMMA RefsIs ==
    ASSUME NEW o \in Objects, NEW b, NEW k, NEW n
    PROVE  <<k, n>> \in RefsOf(o, b) <=> /\ k \in Kws /\ n \in Nat /\ o[k] # Nobody /\ o[k].bin = b
                                      /\ n \in 1 .. o[k].refs
  BY DEF RefsOf

LEMMA KwIs ==
    ASSUME NEW o \in Objects, NEW k \in Kws, o[k] # Nobody
    PROVE  /\ o[k] \in KwRecord /\ o[k].refs \in Nat \ {0}
           /\ o[k].keys \in SUBSET KeyNames /\ o[k].bin \in Bufs \union {Nobody}
<1>1. o[k] \in KwRecord
  BY DEF Objects
<1> QED
  BY <1>1 DEF KwRecord

\* A dict of one reference more.
LEMMA PutKeeps ==
    ASSUME KwOwnersAssumption, NEW o, NEW f, NEW h, Balanced(o, f, h), NEW n \in Kws, o[n] = Nobody,
           NEW kw \in KwRecord, kw.refs = 1
    PROVE  Balanced([o EXCEPT ![n] = kw], More(f, kw, 1), h)
<1> DEFINE q == [o EXCEPT ![n] = kw]
           g == More(f, kw, 1)
<1>1. o \in Objects /\ f \in [Bufs -> Int] /\ h \in [Bufs -> Nat]
  BY DEF Balanced
<1>2. q \in Objects /\ q[n] = kw /\ \A k \in Kws : k # n => q[k] = o[k]
  BY <1>1 DEF Objects
<1>3. kw # Nobody /\ kw.bin \in Bufs \union {Nobody}
  BY DEF KwOwnersAssumption, KwRecord
<1>4. g \in [Bufs -> Int] /\ \A b \in Bufs : g[b] = IF kw.bin = b THEN f[b] + 1 ELSE f[b]
  BY <1>1, <1>3 DEF More, KwOwnersAssumption
<1> HIDE DEF q, g
<1>5. ASSUME NEW b \in Bufs
      PROVE  /\ <<n, 1>> \notin RefsOf(o, b)
             /\ RefsOf(q, b) = IF kw.bin = b THEN RefsOf(o, b) \union {<<n, 1>>} ELSE RefsOf(o, b)
  <2>1. <<n, 1>> \notin RefsOf(o, b)
    BY <1>1, RefsIs
  <2>2. \A k, m : <<k, m>> \in RefsOf(q, b) <=> <<k, m>> \in RefsOf(o, b) \/ (kw.bin = b /\ k = n /\ m = 1)
    <3> SUFFICES ASSUME NEW k, NEW m
                 PROVE  <<k, m>> \in RefsOf(q, b) <=>
                            <<k, m>> \in RefsOf(o, b) \/ (kw.bin = b /\ k = n /\ m = 1)
      OBVIOUS
    <3>1. CASE k = n
      <4>1. \A x : x \in 1 .. kw.refs <=> x = 1
        OBVIOUS
      <4>2. <<k, m>> \in RefsOf(q, b) <=> kw.bin = b /\ m = 1
        BY <1>2, <1>3, <3>1, <4>1, RefsIs
      <4>3. <<k, m>> \notin RefsOf(o, b)
        BY <1>1, <3>1, RefsIs
      <4> QED
        BY <3>1, <4>2, <4>3
    <3>2. CASE k # n
      BY <1>1, <1>2, <3>2, RefsIs
    <3> QED
      BY <3>1, <3>2
  <2>3. \A p : p \in RefsOf(q, b) \/ p \in RefsOf(o, b) => p = <<p[1], p[2]>>
    BY DEF RefsOf
  <2>4. \A p : p \in RefsOf(q, b) <=> p \in RefsOf(o, b) \/ (kw.bin = b /\ p = <<n, 1>>)
    <3> TAKE p
    <3>1. CASE p = <<p[1], p[2]>>
      BY <2>2, <3>1
    <3>2. CASE p # <<p[1], p[2]>>
      BY <2>3, <3>2
    <3> QED
      BY <3>1, <3>2
  <2> QED
    BY <2>1, <2>4
<1>6. ASSUME NEW b \in Bufs
      PROVE  IsFiniteSet(RefsOf(q, b)) /\ g[b] = h[b] + Cardinality(RefsOf(q, b))
  <2>1. IsFiniteSet(RefsOf(o, b)) /\ f[b] = h[b] + Cardinality(RefsOf(o, b)) /\ Cardinality(RefsOf(o, b)) \in Nat
    BY FS_CardinalityType DEF Balanced
  <2>2. CASE kw.bin = b
    <3>1. /\ IsFiniteSet(RefsOf(q, b)) /\ Cardinality(RefsOf(q, b)) = Cardinality(RefsOf(o, b)) + 1
      BY <1>5, <2>1, <2>2, FS_AddElement
    <3> QED
      BY <1>1, <1>4, <2>1, <2>2, <3>1
  <2>3. CASE kw.bin # b
    BY <1>4, <1>5, <2>1, <2>3
  <2> QED
    BY <2>2, <2>3
<1>7. Balanced(q, g, h)
  BY <1>1, <1>2, <1>4, <1>6 DEF Balanced
<1> QED
  BY <1>7 DEF q, g

\* kw_decref of a kw: one reference less.
LEMMA LessKeeps ==
    ASSUME KwOwnersAssumption, NEW o, NEW f, NEW h, Balanced(o, f, h), NEW k \in Kws, o[k] # Nobody
    PROVE  Balanced(Less(o, k), More(f, o[k], -1), h)
<1> DEFINE q == Less(o, k)
           g == More(f, o[k], -1)
           r == o[k].refs
<1>1. o \in Objects /\ f \in [Bufs -> Int] /\ h \in [Bufs -> Nat]
  BY DEF Balanced
<1>2. o[k] \in KwRecord /\ r \in Nat \ {0} /\ o[k].bin \in Bufs \union {Nobody}
  BY <1>1, KwIs
<1>3. /\ q \in Objects
      /\ IF r = 1 THEN q[k] = Nobody ELSE q[k] # Nobody /\ q[k].bin = o[k].bin /\ q[k].refs = r - 1
      /\ \A j \in Kws : j # k => q[j] = o[j]
  <2>1. CASE r = 1
    BY <1>1, <2>1 DEF Less, Objects
  <2>2. CASE r # 1
    <3>1. PICK kw : kw = [o[k] EXCEPT !.refs = r - 1]
      OBVIOUS
    <3>2. kw \in KwRecord /\ kw.bin = o[k].bin /\ kw.refs = r - 1
      <4>1. r - 1 \in Nat \ {0}
        BY <1>2, <2>2
      <4> HIDE DEF r
      <4> QED
        BY <1>2, <3>1, <4>1 DEF KwRecord
    <3>3. kw # Nobody
      BY <3>2 DEF KwOwnersAssumption
    <3>4. q = [o EXCEPT ![k] = kw]
      BY <2>2, <3>1 DEF Less
    <3> HIDE DEF q, r
    <3> QED
      BY <1>1, <2>2, <3>2, <3>3, <3>4 DEF Objects
  <2> QED
    BY <2>1, <2>2
<1>4. g \in [Bufs -> Int] /\ \A b \in Bufs : g[b] = IF o[k].bin = b THEN f[b] - 1 ELSE f[b]
  BY <1>1, <1>2 DEF More, KwOwnersAssumption
<1>5. \A m : m \in 1 .. r <=> m = r \/ (r # 1 /\ m \in 1 .. (r - 1))
  BY <1>2
<1> HIDE DEF q, g
<1>6. ASSUME NEW b \in Bufs
      PROVE  RefsOf(q, b) = IF o[k].bin = b THEN RefsOf(o, b) \ {<<k, r>>} ELSE RefsOf(o, b)
  <2>1. ASSUME NEW j, NEW m
        PROVE  <<j, m>> \in RefsOf(q, b) <=> <<j, m>> \in RefsOf(o, b) /\ ~(o[k].bin = b /\ j = k /\ m = r)
    <3>1. CASE j = k
      <4>1. <<j, m>> \in RefsOf(o, b) <=> m \in Nat /\ o[k].bin = b /\ m \in 1 .. r
        BY <1>1, <3>1, RefsIs
      <4>2. <<j, m>> \in RefsOf(q, b) <=> m \in Nat /\ o[k].bin = b /\ r # 1 /\ m \in 1 .. (r - 1)
        BY <1>3, <3>1, RefsIs
      <4>3. m \in 1 .. (r - 1) => m # r
        BY <1>2
      <4> HIDE DEF r
      <4> QED
        BY <1>5, <3>1, <4>1, <4>2, <4>3
    <3>2. CASE j # k
      BY <1>1, <1>3, <3>2, RefsIs
    <3> QED
      BY <3>1, <3>2
  <2>2. \A p : p \in RefsOf(q, b) \/ p \in RefsOf(o, b) => p = <<p[1], p[2]>>
    BY DEF RefsOf
  <2> HIDE DEF r
  <2>3. \A p : p \in RefsOf(q, b) <=> p \in RefsOf(o, b) /\ ~(o[k].bin = b /\ p = <<k, r>>)
    <3> TAKE p
    <3>1. CASE p = <<p[1], p[2]>>
      BY <2>1, <3>1
    <3>2. CASE p # <<p[1], p[2]>>
      BY <2>2, <3>2
    <3> QED
      BY <3>1, <3>2
  <2> QED
    BY <2>3
<1>7. ASSUME NEW b \in Bufs
      PROVE  IsFiniteSet(RefsOf(q, b)) /\ g[b] = h[b] + Cardinality(RefsOf(q, b))
  <2>1. IsFiniteSet(RefsOf(o, b)) /\ f[b] = h[b] + Cardinality(RefsOf(o, b)) /\ Cardinality(RefsOf(o, b)) \in Nat
    BY FS_CardinalityType DEF Balanced
  <2>2. CASE o[k].bin = b
    <3>1. <<k, r>> \in RefsOf(o, b)
      <4>1. r \in 1 .. r
        BY <1>2
      <4> QED
        BY <1>1, <1>2, <2>2, <4>1, RefsIs
    <3>2. /\ IsFiniteSet(RefsOf(q, b)) /\ Cardinality(RefsOf(q, b)) = Cardinality(RefsOf(o, b)) - 1
      <4> HIDE DEF r
      <4> QED
        BY <1>6, <2>1, <2>2, <3>1, FS_RemoveElement
    <3> QED
      BY <1>1, <1>4, <2>1, <2>2, <3>2
  <2>3. CASE o[k].bin # b
    BY <1>4, <1>6, <2>1, <2>3
  <2> QED
    BY <2>2, <2>3
<1>8. Balanced(q, g, h)
  BY <1>1, <1>3, <1>4, <1>7 DEF Balanced
<1> QED
  BY <1>8 DEF q, g

\* kw_incref: one reference more.
LEMMA MoreKeeps ==
    ASSUME KwOwnersAssumption, NEW o, NEW f, NEW h, Balanced(o, f, h), NEW k \in Kws, o[k] # Nobody
    PROVE  Balanced([o EXCEPT ![k].refs = @ + 1], More(f, o[k], 1), h)
<1> DEFINE q == [o EXCEPT ![k].refs = @ + 1]
           g == More(f, o[k], 1)
           r == o[k].refs
<1>1. o \in Objects /\ f \in [Bufs -> Int] /\ h \in [Bufs -> Nat]
  BY DEF Balanced
<1>2. o[k] \in KwRecord /\ r \in Nat \ {0} /\ o[k].bin \in Bufs \union {Nobody}
  BY <1>1, KwIs
<1>3. /\ q \in Objects
      /\ q[k] # Nobody /\ q[k].bin = o[k].bin /\ q[k].refs = r + 1
      /\ \A j \in Kws : j # k => q[j] = o[j]
  <2>1. PICK kw : kw = [o[k] EXCEPT !.refs = r + 1]
    OBVIOUS
  <2>2. kw \in KwRecord /\ kw.bin = o[k].bin /\ kw.refs = r + 1
    <3>1. r + 1 \in Nat \ {0}
      BY <1>2
    <3> HIDE DEF r
    <3> QED
      BY <1>2, <2>1, <3>1 DEF KwRecord
  <2>3. kw # Nobody
    BY <2>2 DEF KwOwnersAssumption
  <2>4. q = [o EXCEPT ![k] = kw]
    BY <2>1
  <2> HIDE DEF q, r
  <2> QED
    BY <1>1, <2>2, <2>3, <2>4 DEF Objects
<1>4. g \in [Bufs -> Int] /\ \A b \in Bufs : g[b] = IF o[k].bin = b THEN f[b] + 1 ELSE f[b]
  BY <1>1, <1>2 DEF More, KwOwnersAssumption
<1>5. \A m : m \in 1 .. (r + 1) <=> m = r + 1 \/ m \in 1 .. r
  BY <1>2
<1> HIDE DEF q, g
<1>6. ASSUME NEW b \in Bufs
      PROVE  /\ <<k, r + 1>> \notin RefsOf(o, b)
             /\ RefsOf(q, b) = IF o[k].bin = b THEN RefsOf(o, b) \union {<<k, r + 1>>} ELSE RefsOf(o, b)
  <2>1. ASSUME NEW j, NEW m
        PROVE  <<j, m>> \in RefsOf(q, b) <=> <<j, m>> \in RefsOf(o, b) \/ (o[k].bin = b /\ j = k /\ m = r + 1)
    <3>1. CASE j = k
      <4>1. <<j, m>> \in RefsOf(o, b) <=> m \in Nat /\ o[k].bin = b /\ m \in 1 .. r
        BY <1>1, <3>1, RefsIs
      <4>2. <<j, m>> \in RefsOf(q, b) <=> m \in Nat /\ o[k].bin = b /\ m \in 1 .. (r + 1)
        BY <1>3, <3>1, RefsIs
      <4>3. r + 1 \in Nat
        BY <1>2
      <4> HIDE DEF r
      <4> QED
        BY <1>5, <3>1, <4>1, <4>2, <4>3
    <3>2. CASE j # k
      BY <1>1, <1>3, <3>2, RefsIs
    <3> QED
      BY <3>1, <3>2
  <2>2. \A p : p \in RefsOf(q, b) \/ p \in RefsOf(o, b) => p = <<p[1], p[2]>>
    BY DEF RefsOf
  <2>3. <<k, r + 1>> \notin RefsOf(o, b)
    <3>1. r + 1 \notin 1 .. r
      BY <1>2
    <3> QED
      BY <1>1, <3>1, RefsIs
  <2> HIDE DEF r
  <2>4. \A p : p \in RefsOf(q, b) <=> p \in RefsOf(o, b) \/ (o[k].bin = b /\ p = <<k, r + 1>>)
    <3> TAKE p
    <3>1. CASE p = <<p[1], p[2]>>
      BY <2>1, <3>1
    <3>2. CASE p # <<p[1], p[2]>>
      BY <2>2, <3>2
    <3> QED
      BY <3>1, <3>2
  <2> QED
    BY <2>3, <2>4
<1>7. ASSUME NEW b \in Bufs
      PROVE  IsFiniteSet(RefsOf(q, b)) /\ g[b] = h[b] + Cardinality(RefsOf(q, b))
  <2>1. IsFiniteSet(RefsOf(o, b)) /\ f[b] = h[b] + Cardinality(RefsOf(o, b)) /\ Cardinality(RefsOf(o, b)) \in Nat
    BY FS_CardinalityType DEF Balanced
  <2>2. CASE o[k].bin = b
    <3>1. /\ IsFiniteSet(RefsOf(q, b)) /\ Cardinality(RefsOf(q, b)) = Cardinality(RefsOf(o, b)) + 1
      <4> HIDE DEF r
      <4> QED
        BY <1>6, <2>1, <2>2, FS_AddElement
    <3> QED
      BY <1>1, <1>4, <2>1, <2>2, <3>1
  <2>3. CASE o[k].bin # b
    BY <1>4, <1>6, <2>1, <2>3
  <2> QED
    BY <2>2, <2>3
<1>8. Balanced(q, g, h)
  BY <1>1, <1>3, <1>4, <1>7 DEF Balanced
<1> QED
  BY <1>8 DEF q, g

\* Other keys, the same gbuffer.
LEMMA KeysKeep ==
    ASSUME KwOwnersAssumption, NEW o, NEW f, NEW h, Balanced(o, f, h), NEW k \in Kws, o[k] # Nobody,
           NEW kw \in KwRecord, kw.refs = o[k].refs, kw.bin = o[k].bin
    PROVE  Balanced([o EXCEPT ![k] = kw], f, h)
<1> DEFINE q == [o EXCEPT ![k] = kw]
<1>1. o \in Objects /\ kw # Nobody
  BY DEF Balanced, KwOwnersAssumption
<1>2. q \in Objects /\ q[k] = kw /\ \A j \in Kws : j # k => q[j] = o[j]
  BY <1>1 DEF Objects
<1> HIDE DEF q
<1>3. \A b, j, m : <<j, m>> \in RefsOf(q, b) <=> <<j, m>> \in RefsOf(o, b)
  <2> TAKE b, j, m
  <2>1. CASE j = k
    BY <1>1, <1>2, <2>1, RefsIs
  <2>2. CASE j # k
    BY <1>1, <1>2, <2>2, RefsIs
  <2> QED
    BY <2>1, <2>2
<1>4. ASSUME NEW b
      PROVE  RefsOf(q, b) = RefsOf(o, b)
  <2>1. \A p : p \in RefsOf(q, b) \/ p \in RefsOf(o, b) => p = <<p[1], p[2]>>
    BY DEF RefsOf
  <2>2. \A p : p \in RefsOf(q, b) <=> p \in RefsOf(o, b)
    <3> TAKE p
    <3>1. CASE p = <<p[1], p[2]>>
      BY <1>3, <3>1
    <3>2. CASE p # <<p[1], p[2]>>
      BY <2>1, <3>2
    <3> QED
      BY <3>1, <3>2
  <2> QED
    BY <2>2
<1>5. Balanced(q, f, h)
  BY <1>2, <1>4 DEF Balanced
<1> QED
  BY <1>5 DEF q

\* References that callers take, or give back.
LEMMA HandKeeps ==
    ASSUME NEW o, NEW f, NEW h, Balanced(o, f, h), NEW g \in [Bufs -> Int], NEW i \in [Bufs -> Nat],
           \A b \in Bufs : g[b] - f[b] = i[b] - h[b]
    PROVE  Balanced(o, g, i)
<1>1. f \in [Bufs -> Int] /\ h \in [Bufs -> Nat] /\ o \in Objects
  BY DEF Balanced
<1>2. ASSUME NEW b \in Bufs
      PROVE  IsFiniteSet(RefsOf(o, b)) /\ g[b] = i[b] + Cardinality(RefsOf(o, b))
  <2>1. /\ IsFiniteSet(RefsOf(o, b)) /\ f[b] = h[b] + Cardinality(RefsOf(o, b))
        /\ Cardinality(RefsOf(o, b)) \in Nat
    BY FS_CardinalityType DEF Balanced
  <2>2. /\ f[b] \in Int /\ h[b] \in Int /\ g[b] \in Int /\ i[b] \in Int
        /\ g[b] - f[b] = i[b] - h[b]
    BY <1>1
  <2> QED
    BY <2>1, <2>2
<1> QED
  BY <1>1, <1>2 DEF Balanced

\* A reference taken and given back.
LEMMA MoreBack ==
    ASSUME KwOwnersAssumption, NEW f \in [Bufs -> Int], NEW kw, NEW other,
           kw.bin \in Bufs \union {Nobody}, other.bin = kw.bin
    PROVE  More(More(f, kw, 1), other, -1) = f /\ More(f, kw, 1) = More(f, other, 1)
<1>1. CASE kw.bin = Nobody
  BY <1>1 DEF More
<1>2. CASE kw.bin \in Bufs
  <2>1. kw.bin # Nobody
    BY <1>2 DEF KwOwnersAssumption
  <2>2. More(f, kw, 1) = [f EXCEPT ![kw.bin] = f[kw.bin] + 1] /\ f[kw.bin] \in Int
    BY <1>2, <2>1 DEF More
  <2>3. (f[kw.bin] + 1) + -1 = f[kw.bin]
    BY <2>2
  <2> QED
    BY <1>2, <2>1, <2>2, <2>3 DEF More
<1> QED
  BY <1>1, <1>2

\* A new kw, and one reference less of the one it was made of.
LEMMA SwapKeeps ==
    ASSUME KwOwnersAssumption, NEW o, NEW f, NEW h, Balanced(o, f, h), NEW n \in Kws, o[n] = Nobody,
           NEW kw \in KwRecord, kw.refs = 1, NEW k \in Kws, o[k] # Nobody
    PROVE  Balanced(Less([o EXCEPT ![n] = kw], k), More(More(f, kw, 1), o[k], -1), h)
<1> DEFINE q == [o EXCEPT ![n] = kw]
           g == More(f, kw, 1)
<1>1. Balanced(q, g, h)
  BY PutKeeps
<1>2. q[k] = o[k]
  BY DEF Balanced, Objects
<1> HIDE DEF q, g
<1>3. Balanced(Less(q, k), More(g, q[k], -1), h)
  BY <1>1, <1>2, LessKeeps
<1> QED
  BY <1>2, <1>3 DEF q, g

\* A part of a kw is a kw of one reference.
LEMMA PartIs ==
    ASSUME NEW o \in Objects, NEW k \in Kws, o[k] # Nobody, NEW keys
    PROVE  /\ Part(o[k], keys) \in KwRecord /\ Part(o[k], keys).refs = 1
           /\ Part(o[k], keys).keys \in SUBSET KeyNames
           /\ Part(o[k], keys).bin = IF Gbuffer \in keys THEN o[k].bin ELSE Nobody
<1>1. /\ o[k].keys \in SUBSET KeyNames /\ o[k].bin \in Bufs \union {Nobody}
  BY KwIs
<1>2. 1 \in Nat \ {0}
  OBVIOUS
<1>3. o[k].keys \cap keys \in SUBSET KeyNames
  BY <1>1
<1>4. (IF Gbuffer \in keys THEN o[k].bin ELSE Nobody) \in Bufs \union {Nobody}
  BY <1>1
<1> QED
  BY <1>2, <1>3, <1>4 DEF Part, KwRecord

\* What has no binary has no references to count.
LEMMA NoneMore ==
    ASSUME NEW f, NEW kw, NEW n, kw.bin = Nobody
    PROVE  More(f, kw, n) = f
  BY DEF More

\* A duplicate has the gbuffer of its kw: no key of it has underscores.
LEMMA DuplicatedIs ==
    ASSUME KwOwnersAssumption, obj \in Objects, NEW k \in Kws, Live(k), NEW underscores \in {0, 1, 2}
    PROVE  /\ Duplicated(obj[k], underscores).kw \in KwRecord
           /\ Duplicated(obj[k], underscores).kw.refs = 1
           /\ Duplicated(obj[k], underscores).kw.keys \in SUBSET KeyNames
           /\ Duplicated(obj[k], underscores).kw.bin = obj[k].bin
           /\ Duplicated(obj[k], underscores).buf = More(buf, obj[k], 1)
<1> DEFINE keys == {key \in KeysOf(obj[k]) : underscores = 0 \/ Underscores(key) # underscores}
<1>1. Gbuffer \in keys <=> obj[k].bin # Nobody
  <2>1. Underscores(Gbuffer) = 0 /\ Gbuffer \notin KeyNames
    BY DEF Underscores, Gbuffer, Serialized, KeyNames
  <2>2. obj[k].keys \in SUBSET KeyNames
    BY KwIs DEF Live
  <2> QED
    BY <2>1, <2>2 DEF KeysOf
<1>2. /\ Duplicated(obj[k], underscores).kw = Part(obj[k], keys)
      /\ Duplicated(obj[k], underscores).buf = More(buf, obj[k], 1)
  BY DEF Duplicated
<1> HIDE DEF keys
<1> QED
  BY <1>1, <1>2, PartIs DEF Live

-----------------------------------------------------------------------------
(* The operations *)

LEMMA NewBufKeeps == ASSUME KwOwnersAssumption, KwoInv, NewBuf PROVE KwoInv'
<1>1. PICK b \in Bufs : /\ buf[b] = 0 /\ buf' = [buf EXCEPT ![b] = 1]
                        /\ hand' = [hand EXCEPT ![b] = 1] /\ obj' = obj
  BY DEF NewBuf
<1>2. hand[b] = 0
  <2>1. /\ IsFiniteSet(RefsOf(obj, b)) /\ buf[b] = hand[b] + Cardinality(RefsOf(obj, b))
        /\ Cardinality(RefsOf(obj, b)) \in Nat /\ hand[b] \in Nat
    BY FS_CardinalityType DEF KwoInv, Balanced
  <2> QED
    BY <1>1, <2>1
<1>3. /\ buf \in [Bufs -> Int] /\ hand \in [Bufs -> Nat]
      /\ buf' \in [Bufs -> Int] /\ hand' \in [Bufs -> Nat]
  BY <1>1 DEF KwoInv, Balanced
<1>4. \A c \in Bufs : buf'[c] - buf[c] = hand'[c] - hand[c]
  BY <1>1, <1>2, <1>3
<1>5. Balanced(obj, buf, hand) => Balanced(obj, buf', hand')
  BY <1>3, <1>4, HandKeeps
<1> QED
  BY <1>1, <1>5 DEF KwoInv

LEMMA DropBufKeeps == ASSUME KwoInv, DropBuf PROVE KwoInv'
<1>1. PICK b \in Bufs : /\ hand[b] > 0 /\ buf' = [buf EXCEPT ![b] = @ - 1]
                        /\ hand' = [hand EXCEPT ![b] = @ - 1] /\ obj' = obj
  BY DEF DropBuf
<1>2. buf \in [Bufs -> Int] /\ hand \in [Bufs -> Nat]
  BY DEF KwoInv, Balanced
<1>3. buf' \in [Bufs -> Int] /\ hand' \in [Bufs -> Nat]
  BY <1>1, <1>2
<1>4. \A c \in Bufs : buf'[c] - buf[c] = hand'[c] - hand[c]
  BY <1>1, <1>2
<1>5. Balanced(obj, buf, hand) => Balanced(obj, buf', hand')
  BY <1>3, <1>4, HandKeeps
<1> QED
  BY <1>1, <1>5 DEF KwoInv

LEMMA PackKeeps == ASSUME KwOwnersAssumption, KwoInv, Pack PROVE KwoInv'
<1>1. PICK k \in Kws, b \in Bufs \union {Nobody}, keys \in SUBSET (KeyNames \ {Serialized}) :
          /\ ~Live(k)
          /\ b # Nobody => hand[b] > 0
          /\ obj' = [obj EXCEPT ![k] = [refs |-> 1, keys |-> keys, bin |-> b]]
          /\ hand' = IF b = Nobody THEN hand ELSE [hand EXCEPT ![b] = @ - 1]
          /\ buf' = buf
  BY DEF Pack
<1>2. PICK kw : kw = [refs |-> 1, keys |-> keys, bin |-> b]
  OBVIOUS
<1>3. kw \in KwRecord /\ kw.refs = 1 /\ kw.bin = b
  BY <1>1, <1>2 DEF KwRecord
<1>4. obj[k] = Nobody
  BY <1>1 DEF Live
<1>5. CASE b = Nobody
  <2>1. Balanced([obj EXCEPT ![k] = kw], More(buf, kw, 1), hand)
    BY <1>3, <1>4, PutKeeps DEF KwoInv
  <2>2. More(buf, kw, 1) = buf
    BY <1>3, <1>5, NoneMore
  <2> QED
    BY <1>1, <1>2, <1>5, <2>1, <2>2 DEF KwoInv
<1>6. CASE b # Nobody
  <2> DEFINE f == [buf EXCEPT ![b] = @ - 1]
             h == [hand EXCEPT ![b] = @ - 1]
  <2>1. /\ b \in Bufs /\ hand[b] > 0 /\ buf \in [Bufs -> Int] /\ hand \in [Bufs -> Nat]
    BY <1>1, <1>6 DEF KwoInv, Balanced
  <2>2. f \in [Bufs -> Int] /\ h \in [Bufs -> Nat] /\ (buf[b] - 1) + 1 = buf[b]
    BY <2>1
  <2>3. Balanced(obj, f, h)
    <3>1. \A c \in Bufs : f[c] - buf[c] = h[c] - hand[c]
      BY <2>1
    <3> HIDE DEF f, h
    <3> QED
      BY <2>2, <3>1, HandKeeps DEF KwoInv
  <2>4. hand' = h
    BY <1>1, <1>6
  <2>5. More(f, kw, 1) = buf
    BY <1>3, <1>6, <2>1, <2>2 DEF More
  <2> HIDE DEF f, h
  <2>6. Balanced([obj EXCEPT ![k] = kw], More(f, kw, 1), h)
    BY <1>3, <1>4, <2>3, PutKeeps
  <2> QED
    BY <1>1, <1>2, <2>4, <2>5, <2>6 DEF KwoInv
<1> QED
  BY <1>5, <1>6

\* The kw without the gbuffer is as if it were new; the caller takes its reference.
LEMMA ExtractKeeps == ASSUME KwOwnersAssumption, KwoInv, Extract PROVE KwoInv'
<1>1. PICK k \in Kws :
          /\ Live(k) /\ HasBin(k) /\ obj[k].refs = 1
          /\ obj' = [obj EXCEPT ![k].bin = Nobody]
          /\ hand' = [hand EXCEPT ![obj[k].bin] = @ + 1] /\ buf' = buf
  BY DEF Extract
<1> DEFINE b == obj[k].bin
           f == More(buf, obj[k], -1)
<1>2. PICK kw : kw = [obj[k] EXCEPT !.bin = Nobody]
  OBVIOUS
<1>3. obj[k] \in KwRecord /\ obj[k] # Nobody /\ b \in Bufs /\ b # Nobody
  BY <1>1, KwIs DEF KwoInv, Balanced, Live, HasBin
<1>4. kw \in KwRecord /\ kw.refs = 1 /\ kw.bin = Nobody
  BY <1>1, <1>2, <1>3 DEF KwRecord
<1>5. Balanced(Less(obj, k), f, hand)
  BY <1>3, LessKeeps DEF KwoInv
<1>6. Less(obj, k) = [obj EXCEPT ![k] = Nobody] /\ obj \in Objects
  BY <1>1 DEF Less, KwoInv, Balanced
<1>7. /\ Less(obj, k)[k] = Nobody
      /\ [Less(obj, k) EXCEPT ![k] = kw] = [obj EXCEPT ![k] = kw]
  BY <1>6 DEF Objects
<1>8. Balanced([obj EXCEPT ![k] = kw], f, hand)
  <2>1. More(f, kw, 1) = f
    BY <1>4, NoneMore
  <2> HIDE DEF f
  <2>2. Balanced([Less(obj, k) EXCEPT ![k] = kw], More(f, kw, 1), hand)
    BY <1>4, <1>5, <1>7, PutKeeps
  <2> QED
    BY <1>7, <2>1, <2>2
<1>9. obj' = [obj EXCEPT ![k] = kw]
  BY <1>1, <1>2
<1>10. /\ f \in [Bufs -> Int] /\ buf \in [Bufs -> Int] /\ hand' \in [Bufs -> Nat]
       /\ \A c \in Bufs : buf[c] - f[c] = hand'[c] - hand[c]
  <2>1. buf \in [Bufs -> Int] /\ hand \in [Bufs -> Nat]
    BY <1>3 DEF KwoInv, Balanced
  <2>2. f = [buf EXCEPT ![b] = buf[b] + -1] /\ (buf[b] + -1) \in Int
    BY <1>3, <2>1 DEF More
  <2>3. hand' = [hand EXCEPT ![b] = hand[b] + 1]
    BY <1>1
  <2> HIDE DEF b, f
  <2>4. f \in [Bufs -> Int] /\ hand' \in [Bufs -> Nat]
    BY <1>3, <2>1, <2>2, <2>3
  <2>5. ASSUME NEW c \in Bufs
        PROVE  buf[c] - f[c] = hand'[c] - hand[c]
    <3>1. buf[c] \in Int /\ hand[c] \in Int
      BY <2>1
    <3>2. CASE c = b
      <4>1. f[c] = buf[c] + -1 /\ hand'[c] = hand[c] + 1
        BY <2>1, <2>2, <2>3, <3>2
      <4> QED
        BY <3>1, <4>1
    <3>3. CASE c # b
      <4>1. f[c] = buf[c] /\ hand'[c] = hand[c]
        BY <2>1, <2>2, <2>3, <3>3
      <4> QED
        BY <3>1, <4>1
    <3> QED
      BY <3>2, <3>3
  <2> QED
    BY <2>1, <2>4, <2>5
<1> HIDE DEF b, f
<1>11. Balanced([obj EXCEPT ![k] = kw], buf, hand')
  BY <1>8, <1>10, HandKeeps
<1> QED
  BY <1>1, <1>9, <1>11 DEF KwoInv

LEMMA IncrefKeeps == ASSUME KwOwnersAssumption, KwoInv, Incref PROVE KwoInv'
<1>1. PICK k \in Kws : /\ Live(k) /\ obj' = [obj EXCEPT ![k].refs = @ + 1]
                       /\ buf' = More(buf, obj[k], 1) /\ hand' = hand
  BY DEF Incref
<1>2. Balanced([obj EXCEPT ![k].refs = @ + 1], More(buf, obj[k], 1), hand)
  BY <1>1, MoreKeeps DEF KwoInv, Live
<1> QED
  BY <1>1, <1>2 DEF KwoInv

LEMMA DecrefKeeps == ASSUME KwOwnersAssumption, KwoInv, Decref PROVE KwoInv'
<1>1. PICK k \in Kws : /\ Live(k) /\ obj' = Less(obj, k)
                       /\ buf' = More(buf, obj[k], -1) /\ hand' = hand
  BY DEF Decref
<1>2. Balanced(Less(obj, k), More(buf, obj[k], -1), hand)
  BY <1>1, LessKeeps DEF KwoInv, Live
<1> QED
  BY <1>1, <1>2 DEF KwoInv

LEMMA DuplicateKeeps == ASSUME KwOwnersAssumption, KwoInv, Duplicate PROVE KwoInv'
<1>1. PICK k \in Kws, n \in Kws :
          /\ Live(k) /\ ~Live(n) /\ hand' = hand
          /\ obj' = [obj EXCEPT ![n] = Duplicated(obj[k], 0).kw] /\ buf' = Duplicated(obj[k], 0).buf
  BY DEF Duplicate
<1>2. obj \in Objects /\ buf \in [Bufs -> Int] /\ obj[k] # Nobody /\ obj[n] = Nobody
  BY <1>1 DEF KwoInv, Balanced, Live
<1>3. PICK kw : kw = Duplicated(obj[k], 0).kw
  OBVIOUS
<1>4. kw \in KwRecord /\ kw.refs = 1 /\ kw.bin = obj[k].bin /\ buf' = More(buf, obj[k], 1)
  BY <1>1, <1>2, <1>3, DuplicatedIs
<1>5. kw.bin \in Bufs \union {Nobody}
  BY <1>2, <1>4, KwIs
<1>6. More(buf, kw, 1) = More(buf, obj[k], 1)
  BY <1>2, <1>4, <1>5, MoreBack
<1>7. Balanced([obj EXCEPT ![n] = kw], More(buf, kw, 1), hand)
  BY <1>2, <1>4, PutKeeps DEF KwoInv
<1> QED
  BY <1>1, <1>3, <1>4, <1>6, <1>7 DEF KwoInv

LEMMA FilterKeeps == ASSUME KwOwnersAssumption, KwoInv, Filter PROVE KwoInv'
<1>1. PICK k \in Kws, n \in Kws, underscores \in {1, 2} :
          /\ Live(k) /\ ~Live(n) /\ hand' = hand
          /\ obj' = Less([obj EXCEPT ![n] = Duplicated(obj[k], underscores).kw], k)
          /\ buf' = More(Duplicated(obj[k], underscores).buf, obj[k], -1)
  BY DEF Filter
<1>2. obj \in Objects /\ buf \in [Bufs -> Int] /\ obj[k] # Nobody /\ obj[n] = Nobody
  BY <1>1 DEF KwoInv, Balanced, Live
<1>3. PICK kw : kw = Duplicated(obj[k], underscores).kw
  OBVIOUS
<1>4. /\ kw \in KwRecord /\ kw.refs = 1 /\ kw.bin = obj[k].bin
      /\ Duplicated(obj[k], underscores).buf = More(buf, obj[k], 1)
  BY <1>1, <1>2, <1>3, DuplicatedIs
<1>5. kw.bin \in Bufs \union {Nobody}
  BY <1>2, <1>4, KwIs
<1>6. More(buf, kw, 1) = More(buf, obj[k], 1)
  BY <1>2, <1>4, <1>5, MoreBack
<1>7. Balanced(Less([obj EXCEPT ![n] = kw], k), More(More(buf, kw, 1), obj[k], -1), hand)
  BY <1>2, <1>4, SwapKeeps DEF KwoInv
<1> QED
  BY <1>1, <1>3, <1>4, <1>6, <1>7 DEF KwoInv

\* What the duplicate took it gives when it is serialized.
LEMMA SerializeKeeps == ASSUME KwOwnersAssumption, KwoInv, Serialize PROVE KwoInv'
<1>1. PICK k \in Kws, n \in Kws : \E dup, is, kw :
          /\ Live(k) /\ ~Live(n) /\ hand' = hand
          /\ dup = Duplicated(obj[k], 0) /\ is \in BOOLEAN
          /\ kw = [dup.kw EXCEPT !.bin = Nobody, !.keys = @ \union (IF is THEN {Serialized} ELSE {})]
          /\ obj' = Less([obj EXCEPT ![n] = kw], k)
          /\ buf' = More(More(dup.buf, dup.kw, -1), obj[k], -1)
  BY DEF Serialize
<1>2. PICK dup, is, kw :
          /\ Live(k) /\ ~Live(n) /\ hand' = hand
          /\ dup = Duplicated(obj[k], 0) /\ is \in BOOLEAN
          /\ kw = [dup.kw EXCEPT !.bin = Nobody, !.keys = @ \union (IF is THEN {Serialized} ELSE {})]
          /\ obj' = Less([obj EXCEPT ![n] = kw], k)
          /\ buf' = More(More(dup.buf, dup.kw, -1), obj[k], -1)
  BY <1>1
<1>3. obj \in Objects /\ buf \in [Bufs -> Int] /\ obj[k] # Nobody /\ obj[n] = Nobody
  BY <1>2 DEF KwoInv, Balanced, Live
<1>4. /\ dup.kw \in KwRecord /\ dup.kw.refs = 1 /\ dup.kw.keys \in SUBSET KeyNames
      /\ dup.kw.bin = obj[k].bin /\ dup.buf = More(buf, obj[k], 1)
  BY <1>2, <1>3, DuplicatedIs
<1>5. kw \in KwRecord /\ kw.refs = 1 /\ kw.bin = Nobody
  <2>1. Serialized \in KeyNames
    BY DEF KeyNames
  <2>2. dup.kw.keys \union (IF is THEN {Serialized} ELSE {}) \in SUBSET KeyNames
    BY <1>4, <2>1
  <2> QED
    BY <1>2, <1>4, <2>2 DEF KwRecord
<1>6. obj[k].bin \in Bufs \union {Nobody}
  BY <1>3, KwIs
<1>7. More(dup.buf, dup.kw, -1) = buf
  BY <1>3, <1>4, <1>6, MoreBack
<1>8. More(buf, kw, 1) = buf
  BY <1>5, NoneMore
<1>9. Balanced(Less([obj EXCEPT ![n] = kw], k), More(More(buf, kw, 1), obj[k], -1), hand)
  BY <1>3, <1>5, SwapKeeps DEF KwoInv
<1> QED
  BY <1>2, <1>7, <1>8, <1>9 DEF KwoInv

LEMMA DeserializeKeeps == ASSUME KwOwnersAssumption, KwoInv, Deserialize PROVE KwoInv'
<1>1. PICK k \in Kws, n \in Kws, b \in Bufs :
          /\ Live(k) /\ ~Live(n) /\ ~HasBin(k) /\ buf[b] = 0 /\ hand' = hand
          /\ obj' = Less([obj EXCEPT ![n] = [refs |-> 1, keys |-> obj[k].keys \ {Serialized}, bin |-> b]], k)
          /\ buf' = [buf EXCEPT ![b] = 1]
  BY DEF Deserialize
<1>2. /\ obj \in Objects /\ obj[k] # Nobody /\ obj[n] = Nobody /\ obj[k].bin = Nobody
      /\ b # Nobody
  BY <1>1 DEF KwoInv, Balanced, Live, HasBin, KwOwnersAssumption
<1>3. PICK kw : kw = [refs |-> 1, keys |-> obj[k].keys \ {Serialized}, bin |-> b]
  OBVIOUS
<1>4. kw \in KwRecord /\ kw.refs = 1 /\ kw.bin = b
  <2>1. obj[k].keys \ {Serialized} \in SUBSET KeyNames
    BY <1>2, KwIs
  <2> QED
    BY <1>3, <2>1 DEF KwRecord
<1>5. More(buf, kw, 1) = [buf EXCEPT ![b] = 1]
  <2>1. buf[b] + 1 = 1
    BY <1>1
  <2>2. More(buf, kw, 1) = [buf EXCEPT ![b] = buf[b] + 1]
    BY <1>2, <1>4 DEF More
  <2> QED
    BY <2>1, <2>2
<1>6. More([buf EXCEPT ![b] = 1], obj[k], -1) = [buf EXCEPT ![b] = 1]
  BY <1>2, NoneMore
<1>7. Balanced(Less([obj EXCEPT ![n] = kw], k), More(More(buf, kw, 1), obj[k], -1), hand)
  BY <1>2, <1>4, SwapKeeps DEF KwoInv
<1> QED
  BY <1>1, <1>3, <1>5, <1>6, <1>7 DEF KwoInv

LEMMA DeleteKeysKeep == ASSUME KwOwnersAssumption, Liberties = {}, KwoInv, DeleteKeys PROVE KwoInv'
<1>1. PICK k, keys :
          /\ k \in Kws
          /\ Live(k) /\ ~(Gbuffer \in keys /\ HasBin(k))
          /\ obj' = [obj EXCEPT ![k].keys = @ \ keys,
                                ![k].bin = IF Gbuffer \in keys THEN Nobody ELSE @]
          /\ buf' = buf /\ hand' = hand
  BY DEF DeleteKeys
<1>2. PICK kw : kw = [obj[k] EXCEPT !.keys = @ \ keys, !.bin = IF Gbuffer \in keys THEN Nobody ELSE @]
  OBVIOUS
<1>3. obj \in Objects /\ obj[k] # Nobody
  BY <1>1 DEF KwoInv, Balanced, Live
<1>4. obj[k] \in KwRecord /\ obj[k].keys \ keys \in SUBSET KeyNames
  BY <1>1, <1>3, KwIs
<1>5. (IF Gbuffer \in keys THEN Nobody ELSE obj[k].bin) = obj[k].bin
  BY <1>1 DEF HasBin
<1>6. kw \in KwRecord /\ kw.refs = obj[k].refs /\ kw.bin = obj[k].bin
  BY <1>2, <1>4, <1>5 DEF KwRecord
<1>7. obj' = [obj EXCEPT ![k] = kw]
  BY <1>1, <1>2, <1>3 DEF Objects
<1>8. Balanced([obj EXCEPT ![k] = kw], buf, hand)
  BY <1>1, <1>3, <1>6, KeysKeep DEF KwoInv
<1> QED
  BY <1>1, <1>7, <1>8 DEF KwoInv

LEMMA OnlyKeysKeep == ASSUME KwOwnersAssumption, Liberties = {}, KwoInv, OnlyKeys PROVE KwoInv'
<1>1. PICK k, n, keys :
          /\ k \in Kws /\ n \in Kws
          /\ Live(k) /\ ~Live(n) /\ ~(Gbuffer \in keys /\ HasBin(k))
          /\ obj' = [obj EXCEPT ![n] = Part(obj[k], keys)]
          /\ buf' = buf /\ hand' = hand
  BY DEF OnlyKeys
<1>2. obj \in Objects /\ obj[k] # Nobody /\ obj[n] = Nobody
  BY <1>1 DEF KwoInv, Balanced, Live
<1>3. PICK kw : kw = Part(obj[k], keys)
  OBVIOUS
<1>4. kw \in KwRecord /\ kw.refs = 1 /\ kw.bin = Nobody
  BY <1>1, <1>2, <1>3, PartIs DEF HasBin
<1>5. Balanced([obj EXCEPT ![n] = kw], More(buf, kw, 1), hand)
  BY <1>1, <1>2, <1>4, PutKeeps DEF KwoInv
<1> QED
  BY <1>1, <1>3, <1>4, <1>5, NoneMore DEF KwoInv

LEMMA UpdateExceptKeeps ==
    ASSUME KwOwnersAssumption, Liberties = {}, KwoInv, UpdateExcept PROVE KwoInv'
<1>1. PICK k, other, keys :
          /\ k \in Kws /\ other \in Kws
          /\ Live(k) /\ Live(other)
          /\ Part(obj[other], keys).bin = Nobody
          /\ obj' = [obj EXCEPT ![k].keys = @ \union Part(obj[other], keys).keys,
                                ![k].bin = IF Part(obj[other], keys).bin = Nobody THEN @
                                           ELSE Part(obj[other], keys).bin]
          /\ buf' = buf /\ hand' = hand
  BY DEF UpdateExcept
<1>2. PICK new : new = Part(obj[other], keys)
  OBVIOUS
<1>3. PICK kw : kw = [obj[k] EXCEPT !.keys = @ \union new.keys]
  OBVIOUS
<1>4. obj \in Objects /\ obj[k] # Nobody /\ obj[other] # Nobody
  BY <1>1 DEF KwoInv, Balanced, Live
<1>5. obj[k] \in KwRecord /\ obj[k].keys \union new.keys \in SUBSET KeyNames
  <2>1. new.keys \in SUBSET KeyNames
    BY <1>1, <1>2, <1>4, PartIs
  <2>2. obj[k] \in KwRecord /\ obj[k].keys \in SUBSET KeyNames
    BY <1>1, <1>4, KwIs
  <2> QED
    BY <2>1, <2>2
<1>6. kw \in KwRecord /\ kw.refs = obj[k].refs /\ kw.bin = obj[k].bin
  BY <1>3, <1>5 DEF KwRecord
<1>7. obj' = [obj EXCEPT ![k] = kw]
  <2>1. obj' = [obj EXCEPT ![k].keys = @ \union new.keys, ![k].bin = @]
    BY <1>1, <1>2
  <2>2. [obj[k] EXCEPT !.keys = @ \union new.keys, !.bin = @] = kw
    BY <1>3, <1>5 DEF KwRecord
  <2> QED
    BY <1>4, <2>1, <2>2 DEF Objects
<1>8. Balanced([obj EXCEPT ![k] = kw], buf, hand)
  BY <1>1, <1>4, <1>6, KeysKeep DEF KwoInv
<1> QED
  BY <1>1, <1>7, <1>8 DEF KwoInv

\* A clone without the gbuffer, and one reference less of the kw it was made of.
LEMMA PartKeeps ==
    ASSUME KwOwnersAssumption, KwoInv, NEW k \in Kws, NEW n \in Kws, Live(k), ~Live(n), NEW some
    PROVE  Part(obj[k], some).bin = Nobody =>
           Balanced(Less([obj EXCEPT ![n] = Part(obj[k], some)], k), More(buf, obj[k], -1), hand)
<1>1. obj \in Objects /\ obj[k] # Nobody /\ obj[n] = Nobody
  BY DEF KwoInv, Balanced, Live
<1>2. PICK kw : kw = Part(obj[k], some)
  OBVIOUS
<1>3. Part(obj[k], some) \in KwRecord /\ Part(obj[k], some).refs = 1
  BY <1>1, PartIs
<1>4. kw.bin = Nobody =>
      Balanced(Less([obj EXCEPT ![n] = kw], k), More(More(buf, kw, 1), obj[k], -1), hand)
  BY <1>1, <1>2, <1>3, SwapKeeps DEF KwoInv
<1> QED
  BY <1>2, <1>4, NoneMore

LEMMA CloneKeeps == ASSUME KwOwnersAssumption, Liberties = {}, KwoInv, Clone PROVE KwoInv'
<1>1. PICK k, n, keys :
          /\ k \in Kws /\ n \in Kws
          /\ Live(k) /\ ~Live(n) /\ Part(obj[k], keys).bin = Nobody
          /\ obj' = Less([obj EXCEPT ![n] = Part(obj[k], keys)], k)
          /\ buf' = More(buf, obj[k], -1) /\ hand' = hand
  BY DEF Clone
<1> QED
  BY <1>1, PartKeeps DEF KwoInv

LEMMA CloneNoneKeeps == ASSUME KwOwnersAssumption, KwoInv, CloneNone PROVE KwoInv'
<1>1. PICK k \in Kws, n \in Kws :
          /\ Live(k) /\ ~Live(n)
          /\ obj' = Less([obj EXCEPT ![n] = Part(obj[k], {})], k)
          /\ buf' = More(buf, obj[k], -1) /\ hand' = hand
  BY DEF CloneNone
<1>2. Part(obj[k], {}).bin = Nobody
  BY DEF Part
<1> QED
  BY <1>1, <1>2, PartKeeps DEF KwoInv

-----------------------------------------------------------------------------
(* The theorems *)

LEMMA KwoInitIs == ASSUME KwOwnersAssumption, KwoInit PROVE KwoInv
<1>1. \A k \in Kws : obj[k] = Nobody
  BY DEF KwoInit
<1>2. obj \in Objects /\ buf \in [Bufs -> Int] /\ hand \in [Bufs -> Nat]
  BY DEF KwoInit, Objects
<1>3. ASSUME NEW b \in Bufs
      PROVE  IsFiniteSet(RefsOf(obj, b)) /\ buf[b] = hand[b] + Cardinality(RefsOf(obj, b))
  <2>1. RefsOf(obj, b) = {}
    BY <1>1 DEF RefsOf
  <2>2. buf[b] = 0 /\ hand[b] = 0
    BY DEF KwoInit
  <2> QED
    BY <2>1, <2>2, FS_EmptySet
<1> QED
  BY <1>2, <1>3 DEF KwoInv, Balanced

\* The invariant of 14_kw.c, of callers that do not delete, copy or clone a kw in parts
\* with its binary: the references of each gbuffer are those of the callers and of the kws.
THEOREM KwoInvariance == ASSUME Liberties = {} PROVE KwoSpec => []KwoInv
<1>1. KwOwnersAssumption
  BY KwOwnersAssumption
<1>2. KwoInit => KwoInv
  BY <1>1, KwoInitIs
<1>3. KwoInv /\ [KwoNext]_kwovars => KwoInv'
  <2> SUFFICES ASSUME KwoInv, [KwoNext]_kwovars PROVE KwoInv'
    OBVIOUS
  <2>1. CASE UNCHANGED kwovars
    BY <2>1 DEF kwovars, KwoInv
  <2>2. CASE NewBuf
    BY <1>1, <2>2, NewBufKeeps
  <2>3. CASE DropBuf
    BY <2>3, DropBufKeeps
  <2>4. CASE Pack
    BY <1>1, <2>4, PackKeeps
  <2>5. CASE Extract
    BY <1>1, <2>5, ExtractKeeps
  <2>6. CASE Incref
    BY <1>1, <2>6, IncrefKeeps
  <2>7. CASE Decref
    BY <1>1, <2>7, DecrefKeeps
  <2>8. CASE Duplicate
    BY <1>1, <2>8, DuplicateKeeps
  <2>9. CASE Filter
    BY <1>1, <2>9, FilterKeeps
  <2>10. CASE Serialize
    BY <1>1, <2>10, SerializeKeeps
  <2>11. CASE Deserialize
    BY <1>1, <2>11, DeserializeKeeps
  <2>12. CASE DeleteKeys
    BY <1>1, <2>12, DeleteKeysKeep
  <2>13. CASE OnlyKeys
    BY <1>1, <2>13, OnlyKeysKeep
  <2>14. CASE UpdateExcept
    BY <1>1, <2>14, UpdateExceptKeeps
  <2>15. CASE Clone
    BY <1>1, <2>15, CloneKeeps
  <2>16. CASE CloneNone
    BY <1>1, <2>16, CloneNoneKeeps
  <2> QED
    BY <2>1, <2>2, <2>3, <2>4, <2>5, <2>6, <2>7, <2>8, <2>9, <2>10, <2>11, <2>12, <2>13,
       <2>14, <2>15, <2>16 DEF KwoNext
<1> QED
  BY <1>2, <1>3, PTL DEF KwoSpec

LEMMA OwnersAre == ASSUME KwoInv, NEW b PROVE Owners(b) = RefsOf(obj, b)
<1>1. \A k \in Kws : Live(k) => obj[k].refs \in Nat
  BY KwIs DEF KwoInv, Balanced, Live
<1>2. \A p : p \in Owners(b) => p \in RefsOf(obj, b)
  <2> TAKE p
  <2> HAVE p \in Owners(b)
  <2>1. PICK k \in Kws : Live(k) /\ obj[k].bin = b /\ p \in {k} \X (1 .. obj[k].refs)
    BY DEF Owners
  <2>2. p[1] = k /\ p[2] \in 1 .. obj[k].refs /\ p = <<p[1], p[2]>> /\ p[2] \in Nat
    BY <1>1, <2>1
  <2> QED
    BY <2>1, <2>2 DEF RefsOf, Live
<1>3. \A p : p \in RefsOf(obj, b) => p \in Owners(b)
  <2> TAKE p
  <2> HAVE p \in RefsOf(obj, b)
  <2>1. /\ p \in Kws \X Nat /\ p = <<p[1], p[2]>> /\ p[1] \in Kws
        /\ Live(p[1]) /\ obj[p[1]].bin = b /\ p[2] \in 1 .. obj[p[1]].refs
    BY DEF RefsOf, Live
  <2>2. p \in {p[1]} \X (1 .. obj[p[1]].refs)
    BY <2>1
  <2>3. p[1] \in {k \in Kws : Live(k) /\ obj[k].bin = b}
    BY <2>1
  <2> QED
    BY <2>2, <2>3 DEF Owners
<1> QED
  BY <1>2, <1>3

\* 14_kw.c, kw_incref, kw_decref, _duplicate_object, kw_serialize, kw_deserialize and
\* KW_EXTRACT: a gbuffer has a reference for each that a caller has and for each reference
\* of each kw it is in, as long as callers do not delete, copy or clone in parts a kw that
\* has it: no kw is left with the address of a gbuffer that was freed, and none is lost.
THEOREM OwnersStayCounted == ASSUME Liberties = {} PROVE KwoSpec => []OwnersCount
<1>1. KwoInv => OwnersCount
  <2> SUFFICES ASSUME KwoInv, NEW b \in Bufs PROVE buf[b] = hand[b] + Cardinality(Owners(b))
    BY DEF OwnersCount
  <2>1. Owners(b) = RefsOf(obj, b)
    BY OwnersAre
  <2> QED
    BY <2>1 DEF KwoInv, Balanced
<1> QED
  BY <1>1, KwoInvariance, PTL

-----------------------------------------------------------------------------
(* Logger *)

Handler == [id : Nat \ {0}, name : Names, takes : Takes]

Increasing(s) == \A i, j \in DOMAIN s : i < j => s[i] < s[j]

\* Handlers are in the list as they were added.
InOrder(list) == \A i, j \in DOMAIN list : i < j => list[i].id < list[j].id

HandlersInv ==
    /\ handlers \in Seq(Handler) /\ born \in Nat
    /\ \A i \in DOMAIN handlers : handlers[i].id <= born
    /\ InOrder(handlers)

\* The handler that has the message is in the list; of those before it, the ones that take
\* the message have had it, once.
WalkInv ==
    /\ \E i \in DOMAIN handlers : handlers[i].id = walk.at
    /\ walk \in [fn : Functions, at : Nat, more : Int, exit : BOOLEAN]
    /\ given.to \in Seq(Nat)
    /\ Times(walk.fn) = 1 =>
          /\ walk.more = 0 /\ Increasing(given.to)
          /\ \A i \in DOMAIN given.to : given.to[i] < walk.at
          /\ \A i \in DOMAIN handlers :
                handlers[i].id < walk.at /\ walk.fn.pri \in handlers[i].takes
                => handlers[i].id \in ToSet(given.to)

LoggerInv == HandlersInv /\ inside \in BOOLEAN /\ (inside => WalkInv)

\* The members of a set of numbers, by how many are before each.
LEMMA Ranks ==
    ASSUME NEW B \in SUBSET Nat, IsFiniteSet(B)
    PROVE  LET c == Cardinality(B)
               Before(n) == Cardinality({m \in B : m < n})
           IN  /\ c \in Nat
               /\ \A k \in 1 .. c : \E n \in B : Before(n) = k - 1
               /\ \A n \in B : Before(n) \in Int /\ Before(n) + 1 \in 1 .. c
               /\ \A m, n \in B : m < n => Before(m) < Before(n)
<1> DEFINE c == Cardinality(B)
           Below(n) == {m \in B : m < n}
           f == [n \in B |-> Cardinality(Below(n))]
           T == 0 .. (c - 1)
<1>1. c \in Nat
  BY FS_CardinalityType
<1>2. \A n \in B : IsFiniteSet(Below(n)) /\ Cardinality(Below(n)) \in Nat
  BY FS_Subset, FS_CardinalityType
<1>3. \A n \in B : Cardinality(Below(n)) < c
  <2> TAKE n \in B
  <2>1. Below(n) # B /\ Below(n) \in SUBSET B
    OBVIOUS
  <2>2. Cardinality(Below(n)) <= c /\ (c = Cardinality(Below(n)) => B = Below(n))
    BY <2>1, FS_Subset
  <2> QED
    BY <1>1, <1>2, <2>1, <2>2
<1>4. f \in [B -> T]
  BY <1>1, <1>2, <1>3
<1>5. \A m, n \in B : m < n => f[m] < f[n]
  <2> SUFFICES ASSUME NEW m \in B, NEW n \in B, m < n
               PROVE  f[m] < f[n]
    OBVIOUS
  <2>1. Below(m) \in SUBSET Below(n) /\ m \in Below(n) /\ m \notin Below(m)
    <3>1. \A x \in B : x < m => x < n
      <4>1. m \in Nat /\ n \in Nat /\ m < n /\ \A x \in B : x \in Nat
        OBVIOUS
      <4> QED
        BY <4>1
    <3>2. m < n /\ ~(m < m)
      <4>1. m \in Nat /\ m < n
        OBVIOUS
      <4> QED
        BY <4>1
    <3> QED
      BY <3>1, <3>2, Zenon
  <2>2. /\ Cardinality(Below(m)) <= Cardinality(Below(n))
        /\ Cardinality(Below(n)) = Cardinality(Below(m)) => Below(n) = Below(m)
    BY <1>2, <2>1, FS_Subset
  <2> HIDE DEF Below
  <2> QED
    BY <1>2, <2>1, <2>2
<1>6. \A m, n \in B : f[m] = f[n] => m = n
  <2> SUFFICES ASSUME NEW m \in B, NEW n \in B, f[m] = f[n]
               PROVE  m = n
    OBVIOUS
  <2>1. f[m] \in Int /\ f[n] \in Int /\ m \in Int /\ n \in Int
    BY <1>4
  <2> HIDE DEF f
  <2>2. ~(f[m] < f[n]) /\ ~(f[n] < f[m])
    BY <2>1
  <2> QED
    BY <1>5, <2>1, <2>2
<1>7. \A k \in T : \E n \in B : f[n] = k
  <2>1. f \in Injection(B, T)
    BY <1>4, <1>6 DEF Injection, IsInjective
  <2>2. IsFiniteSet(T) /\ Cardinality(T) = c
    <3> HIDE DEF c
    <3>1. 0 \in Int /\ c - 1 \in Int
      BY <1>1
    <3>2. /\ IsFiniteSet(0 .. (c - 1))
          /\ Cardinality(0 .. (c - 1)) = IF 0 > c - 1 THEN 0 ELSE (c - 1) - 0 + 1
      BY <3>1, FS_Interval
    <3> QED
      BY <1>1, <3>2
  <2>3. f \in Surjection(B, T)
    BY <2>1, <2>2, FS_Injection
  <2> QED
    BY <2>3 DEF Surjection
<1>8. \A k \in 1 .. c : k - 1 \in T
  BY <1>1
<1>9. \A n \in B : f[n] \in Int /\ f[n] + 1 \in 1 .. c
  BY <1>1, <1>4
<1>10. \A n \in B : f[n] = Cardinality(Below(n))
  OBVIOUS
<1> HIDE DEF f, T
<1> QED
  BY <1>1, <1>5, <1>7, <1>8, <1>9, <1>10

\* A set of numbers that is finite and not empty has a first one.
LEMMA FirstOf ==
    ASSUME NEW B \in SUBSET Nat, IsFiniteSet(B), B # {}
    PROVE  \E n \in B : \A m \in B : n <= m
<1> DEFINE Below(n) == {m \in B : m < n}
<1>1. /\ Cardinality(B) \in Nat
      /\ \A k \in 1 .. Cardinality(B) : \E n \in B : Cardinality(Below(n)) = k - 1
  BY Ranks
<1>2. Cardinality(B) # 0
  BY FS_EmptySet
<1>3. PICK n \in B : Cardinality(Below(n)) = 0
  <2>1. 1 \in 1 .. Cardinality(B)
    BY <1>1, <1>2
  <2>2. PICK n \in B : Cardinality(Below(n)) = 1 - 1
    BY <1>1, <2>1
  <2> QED
    BY <2>2
<1>4. Below(n) = {}
  <2>1. IsFiniteSet(Below(n))
    BY FS_Subset
  <2> HIDE DEF Below
  <2> QED
    BY <1>3, <2>1, FS_EmptySet
<1>5. \A m \in B : ~(m < n)
  BY <1>4
<1>6. n \in Nat /\ \A m \in B : m \in Nat
  OBVIOUS
<1> QED
  BY <1>5, <1>6

\* The list without the handlers of a name: the others, as they were.
LEMMA UnnamedIs ==
    ASSUME HandlersInv, NEW name
    PROVE  /\ Unnamed(name) \in Seq(Handler) /\ InOrder(Unnamed(name))
           /\ \A k \in DOMAIN Unnamed(name) :
                 \E i \in DOMAIN handlers : Unnamed(name)[k] = handlers[i] /\ handlers[i].name # name
           /\ \A i \in DOMAIN handlers : handlers[i].name # name =>
                 \E k \in DOMAIN Unnamed(name) : Unnamed(name)[k] = handlers[i]
<1> DEFINE left == DOMAIN handlers \ Named(name)
           c == Cardinality(left)
           Before(n) == Cardinality({m \in left : m < n})
           At(k) == CHOOSE n \in left : Before(n) = k - 1
           s == Unnamed(name)
<1>1. left \in SUBSET Nat /\ IsFiniteSet(left)
  <2>1. DOMAIN handlers = 1 .. Len(handlers) /\ Len(handlers) \in Nat
    BY DEF HandlersInv
  <2>2. IsFiniteSet(DOMAIN handlers)
    BY <2>1, FS_Interval
  <2> QED
    BY <2>1, <2>2, FS_Subset
<1>2. s = [k \in 1 .. c |-> handlers[At(k)]]
  BY DEF Unnamed
<1>3. \A n \in left : n \in DOMAIN handlers /\ handlers[n] \in Handler /\ handlers[n].name # name
  BY DEF Named, HandlersInv
<1>4. \A n \in DOMAIN handlers : handlers[n].name # name => n \in left
  BY DEF Named
<1> HIDE DEF left
<1>5. /\ c \in Nat
      /\ \A k \in 1 .. c : \E n \in left : Before(n) = k - 1
      /\ \A n \in left : Before(n) \in Int /\ Before(n) + 1 \in 1 .. c
      /\ \A m, n \in left : m < n => Before(m) < Before(n)
  BY <1>1, Ranks
<1> HIDE DEF c, Before
<1>6. \A k \in 1 .. c : At(k) \in left /\ Before(At(k)) = k - 1
  BY <1>5
<1> HIDE DEF At
<1>7. DOMAIN s = 1 .. c /\ \A k \in 1 .. c : s[k] = handlers[At(k)]
  BY <1>2
<1>8. s \in Seq(Handler)
  BY <1>2, <1>3, <1>5, <1>6
<1> HIDE DEF s
<1>9. ASSUME NEW j \in 1 .. c, NEW k \in 1 .. c, j < k
      PROVE  At(j) < At(k)
  <2>1. Before(At(j)) = j - 1 /\ Before(At(k)) = k - 1 /\ At(j) \in left /\ At(k) \in left
    BY <1>6
  <2>2. At(j) \in Nat /\ At(k) \in Nat /\ j \in Nat /\ k \in Nat
    <3>1. \A n \in left : n \in Nat
      BY <1>1
    <3> QED
      BY <2>1, <3>1
  <2>3. ~(At(k) < At(j))
    <3>1. At(k) < At(j) => Before(At(k)) < Before(At(j))
      BY <1>5, <2>1
    <3> QED
      BY <1>9, <2>1, <2>2, <3>1
  <2>4. At(j) # At(k)
    <3>1. j - 1 # k - 1
      BY <1>9, <2>2
    <3> QED
      BY <2>1, <3>1
  <2> QED
    BY <2>2, <2>3, <2>4
<1>10. InOrder(s)
  <2> SUFFICES ASSUME NEW j \in 1 .. c, NEW k \in 1 .. c, j < k
               PROVE  s[j].id < s[k].id
    BY <1>7 DEF InOrder
  <2>1. At(j) < At(k) /\ At(j) \in DOMAIN handlers /\ At(k) \in DOMAIN handlers
    BY <1>3, <1>6, <1>9
  <2> QED
    BY <1>7, <2>1 DEF HandlersInv, InOrder
<1>11. \A k \in DOMAIN s : \E i \in DOMAIN handlers : s[k] = handlers[i] /\ handlers[i].name # name
  BY <1>3, <1>6, <1>7
<1>12. ASSUME NEW i \in DOMAIN handlers, handlers[i].name # name
       PROVE  \E k \in DOMAIN s : s[k] = handlers[i]
  <2>1. i \in left
    BY <1>4, <1>12
  <2>2. PICK k \in 1 .. c : k = Before(i) + 1
    BY <1>5, <2>1
  <2>3. At(k) \in left /\ Before(At(k)) = Before(i)
    <3>1. k - 1 = Before(i)
      BY <1>5, <2>1, <2>2
    <3> QED
      BY <1>6, <3>1
  <2>4. ~(At(k) < i) /\ ~(i < At(k))
    <3>1. Before(i) \in Int
      BY <1>5, <2>1
    <3>2. ~(Before(i) < Before(i))
      BY <3>1
    <3> QED
      BY <1>5, <2>1, <2>3, <3>2
  <2>5. At(k) = i
    <3>1. At(k) \in Nat /\ i \in Nat
      BY <1>1, <2>1, <2>3
    <3> QED
      BY <2>4, <3>1
  <2> QED
    BY <1>7, <2>5
<1> QED
  BY <1>8, <1>10, <1>11, <1>12 DEF s

\* The next handler that takes a priority: there is none, or none is before it.
LEMMA NextTakerIs ==
    ASSUME HandlersInv, NEW p, NEW id,
           id = 0 \/ \E i \in DOMAIN handlers : handlers[i].id = id
    PROVE  \/ /\ NextTaker(p, id) = 0
              /\ \A i \in DOMAIN handlers : id < handlers[i].id => p \notin handlers[i].takes
           \/ \E k \in DOMAIN handlers :
                 /\ handlers[k].id = NextTaker(p, id) /\ handlers[k].id # 0
                 /\ id < handlers[k].id /\ p \in handlers[k].takes
                 /\ \A i \in DOMAIN handlers :
                       id < handlers[i].id /\ handlers[i].id < handlers[k].id
                       => p \notin handlers[i].takes
<1> DEFINE passed == {i \in DOMAIN handlers : \E j \in i .. Len(handlers) : handlers[j].id = id}
           takers == {i \in DOMAIN handlers \ passed : ~Ignores(handlers[i], p)}
           first == CHOOSE i \in takers : \A j \in takers : i <= j
<1>1. /\ DOMAIN handlers = 1 .. Len(handlers) /\ Len(handlers) \in Nat
      /\ \A i \in DOMAIN handlers : handlers[i].id \in Nat \ {0} /\ i \in Nat
  <2>1. DOMAIN handlers = 1 .. Len(handlers) /\ Len(handlers) \in Nat
    BY DEF HandlersInv
  <2>2. \A i \in DOMAIN handlers : handlers[i] \in Handler
    BY DEF HandlersInv
  <2>3. \A h \in Handler : h.id \in Nat \ {0}
    BY DEF Handler
  <2> QED
    BY <2>1, <2>2, <2>3
<1>2. id \in Nat
  BY <1>1
<1>3. \A i, j \in DOMAIN handlers : i < j => handlers[i].id < handlers[j].id
  BY DEF HandlersInv, InOrder
<1>4. ASSUME NEW i \in DOMAIN handlers
      PROVE  i \in passed <=> ~(id < handlers[i].id)
  <2>1. ASSUME i \in passed
        PROVE  ~(id < handlers[i].id)
    <3>1. PICK j \in i .. Len(handlers) : handlers[j].id = id
      BY <2>1
    <3>2. j \in DOMAIN handlers /\ (i < j \/ i = j)
      BY <1>1, <3>1
    <3> QED
      BY <1>1, <1>3, <3>1, <3>2
  <2>2. ASSUME ~(id < handlers[i].id)
        PROVE  i \in passed
    <3>1. handlers[i].id \in Nat \ {0} /\ id # 0
      BY <1>1, <1>2, <2>2
    <3>2. PICK j \in DOMAIN handlers : handlers[j].id = id
      BY <3>1
    <3>3. ~(j < i)
      BY <1>1, <1>2, <1>3, <2>2, <3>1, <3>2
    <3>4. j \in i .. Len(handlers)
      BY <1>1, <3>3
    <3> QED
      BY <3>2, <3>4
  <2> QED
    BY <2>1, <2>2
<1>5. NextTaker(p, id) = IF takers = {} THEN 0 ELSE handlers[first].id
  BY DEF NextTaker
<1>6. \A i : i \in takers <=> i \in DOMAIN handlers /\ id < handlers[i].id /\ p \in handlers[i].takes
  BY <1>4 DEF Ignores
<1> HIDE DEF passed
<1>7. CASE takers = {}
  BY <1>5, <1>6, <1>7
<1>8. CASE takers # {}
  <2>1. takers \in SUBSET Nat /\ IsFiniteSet(takers)
    <3>1. IsFiniteSet(DOMAIN handlers)
      <4>1. DOMAIN handlers = 1 .. Len(handlers) /\ 1 \in Int /\ Len(handlers) \in Int
        BY <1>1
      <4> QED
        BY <4>1, FS_Interval, Zenon
    <3>2. takers \in SUBSET (DOMAIN handlers)
      OBVIOUS
    <3> QED
      BY <1>1, <3>1, <3>2, FS_Subset
  <2>2. \E n \in takers : \A m \in takers : n <= m
    <3> HIDE DEF takers
    <3> QED
      BY <1>8, <2>1, FirstOf
  <2>3. first \in takers /\ \A j \in takers : first <= j
    <3> HIDE DEF takers
    <3> QED
      BY <2>2
  <2> HIDE DEF first, takers
  <2>4. /\ first \in DOMAIN handlers /\ handlers[first].id = NextTaker(p, id)
        /\ id < handlers[first].id /\ p \in handlers[first].takes
    BY <1>5, <1>6, <1>8, <2>3
  <2>5. ASSUME NEW i \in DOMAIN handlers, id < handlers[i].id, handlers[i].id < handlers[first].id,
               p \in handlers[i].takes
        PROVE  FALSE
    <3>1. first <= i
      BY <1>6, <2>3, <2>5
    <3>2. first = i \/ first < i
      BY <1>1, <2>4, <3>1
    <3>3. handlers[first].id <= handlers[i].id
      BY <1>1, <1>3, <2>4, <3>2
    <3> QED
      BY <1>1, <2>4, <2>5, <3>3
  <2> QED
    BY <1>1, <2>4, <2>5
<1> QED
  BY <1>7, <1>8

\* The handlers as they are, and the walk as well.
LEMMA SameWalk ==
    ASSUME LoggerInv, handlers' = handlers, born' = born, inside' = inside, walk' = walk, given' = given
    PROVE  LoggerInv'
  BY DEF LoggerInv, HandlersInv, WalkInv

LEMMA NoHandlers ==
    ASSUME LoggerInv, handlers' = <<>>, born' = born, inside' = FALSE
    PROVE  LoggerInv'
<1>1. handlers' \in Seq(Handler) /\ DOMAIN handlers' = {}
  OBVIOUS
<1> QED
  BY <1>1 DEF LoggerInv, HandlersInv, InOrder

\* A new handler is the last, and no walk has passed it.
LEMMA AddHandlerKeeps == ASSUME LoggerInv, AddHandler PROVE LoggerInv'
<1>1. PICK n \in Names, t \in Takes :
          /\ born' = born + 1
          /\ handlers' = Append(handlers, [id |-> born', name |-> n, takes |-> t])
          /\ inside' = inside /\ walk' = walk /\ given' = given
  BY DEF AddHandler
<1>2. PICK h : h = [id |-> born', name |-> n, takes |-> t]
  OBVIOUS
<1>3. born \in Nat /\ born' \in Nat \ {0} /\ handlers \in Seq(Handler)
  BY <1>1 DEF LoggerInv, HandlersInv
<1>4. h \in Handler /\ h.id = born'
  BY <1>2, <1>3 DEF Handler
<1>5. DOMAIN handlers = 1 .. Len(handlers) /\ Len(handlers) \in Nat
  BY <1>3
<1>6. /\ handlers' \in Seq(Handler) /\ DOMAIN handlers' = 1 .. (Len(handlers) + 1)
      /\ handlers'[Len(handlers) + 1] = h
      /\ \A i \in DOMAIN handlers : handlers'[i] = handlers[i] /\ i \in DOMAIN handlers'
  BY <1>1, <1>2, <1>3, <1>4, <1>5
<1>7. \A i \in DOMAIN handlers' : i \in DOMAIN handlers \/ (handlers'[i] = h /\ i = Len(handlers) + 1)
  BY <1>5, <1>6
<1>8. \A i \in DOMAIN handlers : handlers[i].id \in Nat /\ handlers[i].id <= born
  <2>1. \A i \in DOMAIN handlers : handlers[i] \in Handler
    BY <1>3
  <2>2. \A g \in Handler : g.id \in Nat
    BY DEF Handler
  <2> QED
    BY <2>1, <2>2 DEF LoggerInv, HandlersInv
<1>9. HandlersInv'
  <2>1. \A i \in DOMAIN handlers' : handlers'[i].id <= born'
    BY <1>1, <1>3, <1>4, <1>6, <1>7, <1>8
  <2>2. InOrder(handlers')
    <3> SUFFICES ASSUME NEW i \in DOMAIN handlers', NEW j \in DOMAIN handlers', i < j
                 PROVE  handlers'[i].id < handlers'[j].id
      BY DEF InOrder
    <3>1. i \in DOMAIN handlers
      BY <1>5, <1>6
    <3>2. CASE j \in DOMAIN handlers
      BY <1>6, <3>1, <3>2 DEF LoggerInv, HandlersInv, InOrder
    <3>3. CASE handlers'[j] = h
      <4>1. handlers'[i].id <= born /\ handlers'[i].id \in Nat
        BY <1>6, <1>8, <3>1
      <4>2. handlers'[j].id = born + 1
        BY <1>1, <1>4, <3>3
      <4> QED
        BY <1>3, <4>1, <4>2
    <3> QED
      BY <1>7, <3>2, <3>3
  <2> QED
    BY <1>3, <1>6, <2>1, <2>2 DEF HandlersInv
<1>10. inside => WalkInv'
  <2> SUFFICES ASSUME inside PROVE WalkInv'
    OBVIOUS
  <2>1. WalkInv
    BY DEF LoggerInv
  <2>2. PICK m \in DOMAIN handlers : handlers[m].id = walk.at
    BY <2>1 DEF WalkInv
  <2>3. walk.at <= born /\ walk.at \in Nat
    BY <1>8, <2>2
  <2>4. \E i \in DOMAIN handlers' : handlers'[i].id = walk.at
    BY <1>6, <2>2
  <2>5. \A i \in DOMAIN handlers' : handlers'[i].id < walk.at =>
            i \in DOMAIN handlers /\ handlers'[i] = handlers[i]
    <3> SUFFICES ASSUME NEW i \in DOMAIN handlers', handlers'[i].id < walk.at
                 PROVE  i \in DOMAIN handlers
      BY <1>6
    <3>1. CASE handlers'[i] = h
      BY <1>1, <1>3, <1>4, <2>3, <3>1
    <3> QED
      BY <1>7, <3>1
  <2> QED
    BY <1>1, <2>1, <2>4, <2>5 DEF WalkInv
<1> QED
  BY <1>1, <1>9, <1>10 DEF LoggerInv

LEMMA DelHandlerKeeps == ASSUME LoggerInv, DelHandler PROVE LoggerInv'
<1>1. PICK n \in Names :
          /\ inside => \A i \in Named(n) : handlers[i].id # walk.at
          /\ handlers' = Unnamed(n)
          /\ born' = born /\ inside' = inside /\ walk' = walk /\ given' = given
  BY DEF DelHandler
<1>2. HandlersInv
  BY DEF LoggerInv
<1>3. /\ handlers' \in Seq(Handler) /\ InOrder(handlers')
      /\ \A k \in DOMAIN handlers' :
            \E i \in DOMAIN handlers : handlers'[k] = handlers[i] /\ handlers[i].name # n
      /\ \A i \in DOMAIN handlers : handlers[i].name # n =>
            \E k \in DOMAIN handlers' : handlers'[k] = handlers[i]
  BY <1>1, <1>2, UnnamedIs
<1>4. HandlersInv'
  BY <1>1, <1>2, <1>3 DEF HandlersInv
<1>5. inside => WalkInv'
  <2> SUFFICES ASSUME inside PROVE WalkInv'
    OBVIOUS
  <2>1. WalkInv
    BY DEF LoggerInv
  <2>2. PICK m \in DOMAIN handlers : handlers[m].id = walk.at
    BY <2>1 DEF WalkInv
  <2>3. handlers[m].name # n
    BY <1>1, <2>2 DEF Named
  <2>4. \E i \in DOMAIN handlers' : handlers'[i].id = walk.at
    BY <1>3, <2>2, <2>3
  <2> QED
    BY <1>1, <1>3, <2>1, <2>4 DEF WalkInv
<1> QED
  BY <1>1, <1>4, <1>5 DEF LoggerInv

\* The first handler that takes a message has it before any other.
LEMMA LogKeeps == ASSUME LoggerInv, Log PROVE LoggerInv'
<1>1. PICK f \in Functions, exit \in BOOLEAN :
          LET first == NextTaker(f.pri, 0) IN
          /\ ~inside /\ given' = NotGiven /\ born' = born
          /\ IF started /\ first # 0
             THEN /\ inside' = TRUE /\ handlers' = handlers
                  /\ walk' = [fn |-> f, at |-> first, more |-> Times(f) - 1, exit |-> exit]
             ELSE /\ inside' = inside
                  /\ handlers' = <<>> \/ handlers' = handlers
  BY DEF Log
<1>2. HandlersInv
  BY DEF LoggerInv
<1> DEFINE first == NextTaker(f.pri, 0)
<1>3. CASE started /\ first # 0
  <2>1. /\ inside' = TRUE /\ handlers' = handlers /\ born' = born /\ given' = NotGiven
        /\ walk' = [fn |-> f, at |-> first, more |-> Times(f) - 1, exit |-> exit]
    BY <1>1, <1>3
  <2>2. PICK k \in DOMAIN handlers :
            /\ handlers[k].id = first
            /\ \A i \in DOMAIN handlers : 0 < handlers[i].id /\ handlers[i].id < handlers[k].id
                                          => f.pri \notin handlers[i].takes
    BY <1>2, <1>3, NextTakerIs
  <2>3. \A i \in DOMAIN handlers : handlers[i].id \in Nat \ {0}
    <3>1. \A i \in DOMAIN handlers : handlers[i] \in Handler
      BY <1>2 DEF HandlersInv
    <3>2. \A g \in Handler : g.id \in Nat \ {0}
      BY DEF Handler
    <3> QED
      BY <3>1, <3>2
  <2>4. Times(f) \in Nat
    BY DEF Times
  <2>5. first \in Nat
    BY <2>2, <2>3
  <2> HIDE DEF first
  <2>6. /\ walk'.fn = f /\ walk'.at = first /\ walk'.more = Times(f) - 1
        /\ walk' \in [fn : Functions, at : Nat, more : Int, exit : BOOLEAN]
    BY <2>1, <2>4, <2>5
  <2>7. given'.to = <<>> /\ given'.to \in Seq(Nat) /\ DOMAIN given'.to = {}
    BY <2>1 DEF NotGiven
  <2>8. \A i \in DOMAIN handlers : handlers[i].id < first => f.pri \notin handlers[i].takes
    <3> TAKE i \in DOMAIN handlers
    <3>1. 0 < handlers[i].id
      BY <2>3
    <3> QED
      BY <2>2, <3>1
  <2>9. Increasing(given'.to)
    BY <2>7 DEF Increasing
  <2>10. Times(f) = 1 => Times(f) - 1 = 0
    OBVIOUS
  <2>11. WalkInv'
    BY <2>1, <2>2, <2>6, <2>7, <2>8, <2>9, <2>10 DEF WalkInv
  <2> QED
    BY <1>2, <2>1, <2>11 DEF LoggerInv, HandlersInv
<1>4. CASE ~(started /\ first # 0)
  <2>1. inside' = FALSE /\ born' = born /\ (handlers' = <<>> \/ handlers' = handlers)
    BY <1>1, <1>4 DEF LoggerInv
  <2>2. CASE handlers' = <<>>
    BY <2>1, <2>2, NoHandlers
  <2>3. CASE handlers' = handlers
    BY <1>2, <2>1, <2>3 DEF LoggerInv, HandlersInv
  <2> QED
    BY <2>1, <2>2, <2>3
<1> QED
  BY <1>3, <1>4

\* What a handler that returns leaves: the handlers up to it that take the message have
\* had it, each once.
LEMMA ReturnGives ==
    ASSUME LoggerInv, inside, Times(walk.fn) = 1, given'.to = Append(given.to, walk.at)
    PROVE  /\ given'.to \in Seq(Nat) /\ Increasing(given'.to)
           /\ \A i \in DOMAIN given'.to : given'.to[i] <= walk.at
           /\ \A i \in DOMAIN handlers :
                 ~(walk.at < handlers[i].id) /\ walk.fn.pri \in handlers[i].takes
                 => handlers[i].id \in ToSet(given'.to)
<1> DEFINE s == given.to
           at == walk.at
<1>1. /\ s \in Seq(Nat) /\ at \in Nat /\ Increasing(s) /\ \A i \in DOMAIN s : s[i] < at
      /\ \A i \in DOMAIN handlers :
            handlers[i].id < at /\ walk.fn.pri \in handlers[i].takes => handlers[i].id \in ToSet(s)
  BY DEF LoggerInv, WalkInv
<1>2. PICK q : q = given'.to
  OBVIOUS
<1> HIDE DEF s, at
<1>3. q = Append(s, at)
  BY <1>2 DEF s, at
<1>4. /\ q \in Seq(Nat) /\ DOMAIN s = 1 .. Len(s) /\ Len(s) \in Nat
      /\ DOMAIN q = 1 .. (Len(s) + 1) /\ q[Len(s) + 1] = at
      /\ \A i \in DOMAIN s : q[i] = s[i] /\ i \in DOMAIN q
  BY <1>1, <1>3
<1>5. \A i \in DOMAIN q : i \in DOMAIN s \/ i = Len(s) + 1
  BY <1>4
<1>6. Increasing(q)
  <2> SUFFICES ASSUME NEW i \in DOMAIN q, NEW j \in DOMAIN q, i < j
               PROVE  q[i] < q[j]
    BY DEF Increasing
  <2>1. i \in DOMAIN s
    BY <1>4
  <2>2. CASE j \in DOMAIN s
    BY <1>1, <1>4, <2>1, <2>2 DEF Increasing
  <2>3. CASE j = Len(s) + 1
    BY <1>1, <1>4, <2>1, <2>3
  <2> QED
    BY <1>5, <2>2, <2>3
<1>7. \A i \in DOMAIN q : q[i] <= at
  <2> TAKE i \in DOMAIN q
  <2>1. CASE i \in DOMAIN s
    <3>1. q[i] < at /\ q[i] \in Nat
      BY <1>1, <1>4, <2>1
    <3> QED
      BY <1>1, <3>1
  <2>2. CASE i = Len(s) + 1
    BY <1>1, <1>4, <2>2
  <2> QED
    BY <1>5, <2>1, <2>2
<1>8. ASSUME NEW i \in DOMAIN handlers, ~(at < handlers[i].id), walk.fn.pri \in handlers[i].takes
      PROVE  handlers[i].id \in ToSet(q)
  <2>1. handlers[i].id \in Nat
    <3>1. handlers[i] \in Handler
      BY DEF LoggerInv, HandlersInv
    <3> QED
      BY <3>1 DEF Handler
  <2>2. CASE handlers[i].id < at
    <3>1. PICK n \in DOMAIN s : s[n] = handlers[i].id
      BY <1>1, <1>8, <2>2 DEF ToSet
    <3> QED
      BY <1>4, <3>1 DEF ToSet
  <2>3. CASE handlers[i].id = at
    <3>1. Len(s) + 1 \in DOMAIN q
      BY <1>4
    <3> QED
      BY <1>4, <2>3, <3>1 DEF ToSet
  <2> QED
    BY <1>1, <1>8, <2>1, <2>2, <2>3
<1> QED
  BY <1>2, <1>4, <1>6, <1>7, <1>8 DEF at

\* How the walk goes on when a handler returns.
LEMMA ReturnIs ==
    ASSUME Return
    PROVE  \E owned \in BOOLEAN : \E next, again :
              /\ next = IF owned /\ ~Dumps(walk.fn) THEN 0 ELSE NextTaker(walk.fn.pri, walk.at)
              /\ again = IF next = 0 /\ walk.more > 0 THEN NextTaker(walk.fn.pri, 0) ELSE 0
              /\ inside /\ born' = born
              /\ given' = [to |-> Append(given.to, walk.at), owned |-> owned /\ ~Dumps(walk.fn)]
              /\ IF next # 0
                 THEN walk' = [walk EXCEPT !.at = next] /\ handlers' = handlers /\ inside' = inside
                 ELSE IF again # 0
                 THEN /\ walk' = [walk EXCEPT !.at = again, !.more = @ - 1]
                      /\ handlers' = handlers /\ inside' = inside
                 ELSE inside' = FALSE /\ (handlers' = <<>> \/ handlers' = handlers)
  BY ZenonT(30) DEF Return

LEMMA ReturnKeeps == ASSUME LoggerInv, Return PROVE LoggerInv'
<1>1. PICK owned \in BOOLEAN : \E next, again :
          /\ next = IF owned /\ ~Dumps(walk.fn) THEN 0 ELSE NextTaker(walk.fn.pri, walk.at)
          /\ again = IF next = 0 /\ walk.more > 0 THEN NextTaker(walk.fn.pri, 0) ELSE 0
          /\ inside /\ born' = born
          /\ given' = [to |-> Append(given.to, walk.at), owned |-> owned /\ ~Dumps(walk.fn)]
          /\ IF next # 0
             THEN walk' = [walk EXCEPT !.at = next] /\ handlers' = handlers /\ inside' = inside
             ELSE IF again # 0
             THEN /\ walk' = [walk EXCEPT !.at = again, !.more = @ - 1]
                  /\ handlers' = handlers /\ inside' = inside
             ELSE inside' = FALSE /\ (handlers' = <<>> \/ handlers' = handlers)
  BY ReturnIs
<1>2. PICK next, again :
          /\ next = IF owned /\ ~Dumps(walk.fn) THEN 0 ELSE NextTaker(walk.fn.pri, walk.at)
          /\ again = IF next = 0 /\ walk.more > 0 THEN NextTaker(walk.fn.pri, 0) ELSE 0
          /\ inside /\ born' = born
          /\ given' = [to |-> Append(given.to, walk.at), owned |-> owned /\ ~Dumps(walk.fn)]
          /\ IF next # 0
             THEN walk' = [walk EXCEPT !.at = next] /\ handlers' = handlers /\ inside' = inside
             ELSE IF again # 0
             THEN /\ walk' = [walk EXCEPT !.at = again, !.more = @ - 1]
                  /\ handlers' = handlers /\ inside' = inside
             ELSE inside' = FALSE /\ (handlers' = <<>> \/ handlers' = handlers)
  BY <1>1
<1>3. /\ HandlersInv /\ WalkInv /\ given'.to = Append(given.to, walk.at)
      /\ walk \in [fn : Functions, at : Nat, more : Int, exit : BOOLEAN]
      /\ given.to \in Seq(Nat) /\ \E i \in DOMAIN handlers : handlers[i].id = walk.at
  BY <1>2 DEF LoggerInv, WalkInv
<1>4. walk.at \in Nat /\ given'.to \in Seq(Nat)
  BY <1>3
<1>5. \A i \in DOMAIN handlers : handlers[i].id \in Nat
  <2>1. \A i \in DOMAIN handlers : handlers[i] \in Handler
    BY <1>3 DEF HandlersInv
  <2>2. \A g \in Handler : g.id \in Nat
    BY DEF Handler
  <2> QED
    BY <2>1, <2>2
<1>6. CASE next # 0
  <2>1. /\ next = NextTaker(walk.fn.pri, walk.at) /\ handlers' = handlers /\ inside' = inside
        /\ walk' = [walk EXCEPT !.at = next]
    BY <1>2, <1>6
  <2>2. PICK k \in DOMAIN handlers :
            /\ handlers[k].id = next /\ walk.at < next
            /\ \A i \in DOMAIN handlers : walk.at < handlers[i].id /\ handlers[i].id < next
                                          => walk.fn.pri \notin handlers[i].takes
    BY <1>3, <1>6, <2>1, NextTakerIs
  <2>3. /\ walk'.fn = walk.fn /\ walk'.at = next /\ walk'.more = walk.more
        /\ walk' \in [fn : Functions, at : Nat, more : Int, exit : BOOLEAN]
    BY <1>3, <1>5, <2>1, <2>2
  <2>4. ASSUME Times(walk.fn) = 1
        PROVE  /\ walk'.more = 0 /\ Increasing(given'.to)
               /\ \A i \in DOMAIN given'.to : given'.to[i] < next
               /\ \A i \in DOMAIN handlers :
                     handlers[i].id < next /\ walk.fn.pri \in handlers[i].takes
                     => handlers[i].id \in ToSet(given'.to)
    <3>1. /\ Increasing(given'.to)
          /\ \A i \in DOMAIN given'.to : given'.to[i] <= walk.at
          /\ \A i \in DOMAIN handlers :
                ~(walk.at < handlers[i].id) /\ walk.fn.pri \in handlers[i].takes
                => handlers[i].id \in ToSet(given'.to)
      BY <1>2, <1>3, <2>4, ReturnGives
    <3>2. walk'.more = 0
      BY <1>3, <2>3, <2>4 DEF WalkInv
    <3>3. \A i \in DOMAIN given'.to : given'.to[i] \in Nat
      BY <1>4
    <3>4. \A i \in DOMAIN given'.to : given'.to[i] < next
      BY <1>4, <1>5, <2>2, <3>1, <3>3
    <3> QED
      BY <2>2, <3>1, <3>2, <3>4
  <2>5. WalkInv'
    BY <1>4, <2>1, <2>2, <2>3, <2>4 DEF WalkInv
  <2> QED
    BY <1>2, <1>3, <2>1, <2>5 DEF LoggerInv, HandlersInv
<1>7. CASE next = 0 /\ again # 0
  <2>1. /\ again = NextTaker(walk.fn.pri, 0) /\ walk.more > 0
        /\ walk' = [walk EXCEPT !.at = again, !.more = @ - 1]
        /\ handlers' = handlers /\ inside' = inside
    BY <1>2, <1>7
  <2>2. PICK k \in DOMAIN handlers : handlers[k].id = again
    BY <1>3, <1>7, <2>1, NextTakerIs
  <2>3. /\ walk'.fn = walk.fn /\ walk'.at = again
        /\ walk' \in [fn : Functions, at : Nat, more : Int, exit : BOOLEAN]
    <3>1. again \in Nat
      BY <1>5, <2>2
    <3>2. walk.more - 1 \in Int
      BY <1>3
    <3>3. walk' = [walk EXCEPT !.at = again, !.more = walk.more - 1]
      BY <2>1
    <3> QED
      BY <1>3, <3>1, <3>2, <3>3
  <2>4. Times(walk.fn) # 1
    BY <1>3, <2>1 DEF WalkInv
  <2>5. WalkInv'
    BY <1>4, <2>1, <2>2, <2>3, <2>4 DEF WalkInv
  <2> QED
    BY <1>2, <1>3, <2>1, <2>5 DEF LoggerInv, HandlersInv
<1>8. CASE next = 0 /\ again = 0
  <2>1. inside' = FALSE /\ born' = born /\ (handlers' = <<>> \/ handlers' = handlers)
    BY <1>2, <1>8
  <2>2. CASE handlers' = <<>>
    BY <2>1, <2>2, NoHandlers
  <2>3. CASE handlers' = handlers
    BY <1>3, <2>1, <2>3 DEF LoggerInv, HandlersInv
  <2> QED
    BY <2>1, <2>2, <2>3
<1> QED
  BY <1>6, <1>7, <1>8

\* A walk that ends has given its message to all that it was due to.
LEMMA ReturnDelivers ==
    ASSUME LoggerInv, Return, inside, ~inside', walk.more = 0, Times(walk.fn) = 1
    PROVE  /\ \A i, j \in DOMAIN given'.to : i < j => given'.to[i] < given'.to[j]
           /\ given'.owned \/ Due(walk.fn.pri) \subseteq ToSet(given'.to)
<1>1. PICK owned \in BOOLEAN :
          /\ given' = [to |-> Append(given.to, walk.at), owned |-> owned /\ ~Dumps(walk.fn)]
          /\ (IF owned /\ ~Dumps(walk.fn) THEN 0 ELSE NextTaker(walk.fn.pri, walk.at)) # 0
             => inside' = inside
  BY ReturnIs
<1>2. HandlersInv /\ \E i \in DOMAIN handlers : handlers[i].id = walk.at
  BY DEF LoggerInv, WalkInv
<1>3. given'.to = Append(given.to, walk.at) /\ given'.owned = (owned /\ ~Dumps(walk.fn))
  BY <1>1
<1>4. /\ Increasing(given'.to)
      /\ \A i \in DOMAIN handlers :
            ~(walk.at < handlers[i].id) /\ walk.fn.pri \in handlers[i].takes
            => handlers[i].id \in ToSet(given'.to)
  BY <1>3, ReturnGives
<1>5. ASSUME ~(owned /\ ~Dumps(walk.fn))
      PROVE  Due(walk.fn.pri) \subseteq ToSet(given'.to)
  <2>1. NextTaker(walk.fn.pri, walk.at) = 0
    BY <1>1, <1>5
  <2>2. \A i \in DOMAIN handlers : walk.at < handlers[i].id => walk.fn.pri \notin handlers[i].takes
    BY <1>2, <2>1, NextTakerIs
  <2> QED
    BY <1>4, <2>2 DEF Due
<1> QED
  BY <1>3, <1>4, <1>5 DEF Increasing

\* 10_glogger.c: handlers are in the order in which they were added, and those before the
\* one that has the message have had it, whatever the write functions add and delete.
THEOREM LoggerInvariance == LoggerSpec => []LoggerInv
<1>1. LoggerInit => LoggerInv
  <2> SUFFICES ASSUME LoggerInit PROVE LoggerInv
    OBVIOUS
  <2>1. handlers \in Seq(Handler) /\ DOMAIN handlers = {} /\ born = 0 /\ inside = FALSE
    BY DEF LoggerInit
  <2> QED
    BY <2>1 DEF LoggerInv, HandlersInv, InOrder
<1>2. LoggerInv /\ [LoggerNext]_gvars => LoggerInv'
  <2> SUFFICES ASSUME LoggerInv, [LoggerNext]_gvars PROVE LoggerInv'
    OBVIOUS
  <2>1. CASE UNCHANGED gvars \/ LogStartup \/ LogWithin \/ ClearCounters
    <3>1. /\ handlers' = handlers /\ born' = born /\ inside' = inside /\ walk' = walk
          /\ given' = given
      BY <2>1 DEF gvars, LogStartup, LogWithin, ClearCounters
    <3> QED
      BY <3>1, SameWalk
  <2>2. CASE LogEnd
    BY <2>2, NoHandlers DEF LogEnd, LoggerInv
  <2>3. CASE AddHandler
    BY <2>3, AddHandlerKeeps
  <2>4. CASE DelHandler
    BY <2>4, DelHandlerKeeps
  <2>5. CASE Log
    BY <2>5, LogKeeps
  <2>6. CASE Return
    BY <2>6, ReturnKeeps
  <2> QED
    BY <2>1, <2>2, <2>3, <2>4, <2>5, <2>6 DEF LoggerNext
<1> QED
  BY <1>1, <1>2, PTL DEF LoggerSpec

\* 10_glogger.c, the walk over the handlers: when a message has been written, each handler
\* that takes its priority and is still there got it, once and in the order in which they
\* were added, unless one of them owned it; for any handlers and messages.
THEOREM MessagesAreDelivered == LoggerSpec => Delivered
<1>1. LoggerInv /\ [LoggerNext]_gvars =>
      (inside /\ ~inside' /\ walk.more = 0 /\ Times(walk.fn) = 1 =>
        /\ \A i, j \in DOMAIN given'.to : i < j => given'.to[i] < given'.to[j]
        /\ given'.owned \/ Due(walk.fn.pri) \subseteq ToSet(given'.to))
  <2> SUFFICES ASSUME LoggerInv, [LoggerNext]_gvars, inside, ~inside', walk.more = 0,
                      Times(walk.fn) = 1
               PROVE  /\ \A i, j \in DOMAIN given'.to : i < j => given'.to[i] < given'.to[j]
                      /\ given'.owned \/ Due(walk.fn.pri) \subseteq ToSet(given'.to)
    OBVIOUS
  <2>1. Return
    BY DEF LoggerNext, gvars, LogStartup, LogEnd, AddHandler, DelHandler, Log, LogWithin,
           ClearCounters
  <2> QED
    BY <2>1, ReturnDelivers
<1> QED
  BY <1>1, LoggerInvariance, PTL DEF LoggerSpec, Delivered

-----------------------------------------------------------------------------
(* Rotatory *)

Pos == Nat \ {0}
Texts == Seq(Pos)
Content == Texts \union {Absent}

\* What is left of what went to a file, in the file before, in the file and in stdio, is its
\* end; what is not there any more was before a file that was too long.
Tells(went, old, was, is, held) ==
    /\ old => was # Absent
    /\ \E gone \in Texts :
          /\ went = gone \o ((IF old THEN was ELSE <<>>)
                               \o (IF is = Absent THEN <<>> ELSE is) \o held)
          /\ gone # <<>> => old /\ Len(was) > MaxSize

LogStates ==
    [disk : [now : [Files -> Content], old : [Files -> Content]],
     hr : [running : BOOLEAN, path : Files, open : BOOLEAN, counter : Nat, full : BOOLEAN],
     buffered : Texts,
     since : [Files -> [pieces : Texts, old : BOOLEAN]]]

Held(s, n) == IF n = s.hr.path THEN s.buffered ELSE <<>>

FileTells(s, n) == Tells(s.since[n].pieces, s.since[n].old, s.disk.old[n], s.disk.now[n], Held(s, n))

\* A log whose files tell what went to them; stdio holds nothing for a file that is closed
\* or was removed.
Sound(s) ==
    /\ s \in LogStates
    /\ ~s.hr.open => s.buffered = <<>>
    /\ s.disk.now[s.hr.path] = Absent => s.buffered = <<>>
    /\ \A n \in Files : FileTells(s, n)

RotatoryInv ==
    /\ Sound(Now) /\ day \in Nat /\ written \in Nat
    /\ ~hr.running => ~hr.open
    /\ part # <<>> => hr.running

\* The tuple that stands for a file that is not there is the text of none.
LEMMA AbsentIsNot == /\ \A t \in Texts : t # Absent
                     /\ <<>> \in Texts
                     /\ \A s, t \in Texts : s \o t \in Texts
                     /\ \A t \in Texts : Len(t) \in Nat /\ t \o <<>> = t /\ <<>> \o t = t
<1>1. \A t \in Texts : t # Absent
  <2>1. Absent[1] = 0 /\ Len(Absent) = 1
    BY DEF Absent
  <2> SUFFICES ASSUME NEW t \in Texts, t = Absent PROVE FALSE
    OBVIOUS
  <2>2. t[1] \in Pos
    BY <2>1, ElementOfSeq DEF Texts
  <2> QED
    BY <2>1, <2>2 DEF Pos
<1> QED
  BY <1>1, ConcatEmptySeq DEF Texts

LEMMA ThreeParts ==
    ASSUME NEW a \in Texts, NEW b \in Texts, NEW c \in Texts
    PROVE  (a \o b) \o c = a \o (b \o c)
  BY ConcatAssociative DEF Texts

LEMMA NothingTells ==
    ASSUME NEW was, NEW is \in {<<>>, Absent}
    PROVE  Tells(<<>>, FALSE, was, is, <<>>)
<1>1. <<>> \in Texts /\ <<>> \o <<>> = <<>>
  BY AbsentIsNot
<1> QED
  BY <1>1 DEF Tells

\* fflush
LEMMA FlushTells ==
    ASSUME NEW p \in Texts, NEW o \in BOOLEAN, NEW w \in Content, NEW i \in Texts, NEW h \in Texts,
           Tells(p, o, w, i, h)
    PROVE  Tells(p, o, w, i \o h, <<>>)
<1>1. PICK a \in Texts : a = IF o THEN w ELSE <<>>
  BY AbsentIsNot DEF Tells, Content
<1>2. PICK u \in Texts : /\ p = u \o ((a \o i) \o h)
                         /\ u # <<>> => o /\ Len(w) > MaxSize
  BY <1>1, AbsentIsNot DEF Tells
<1>3. /\ i \o h \in Texts /\ i \o h # Absent /\ a \o (i \o h) \in Texts
      /\ (a \o i) \o h = a \o (i \o h)
      /\ (a \o (i \o h)) \o <<>> = a \o (i \o h)
  BY AbsentIsNot, ThreeParts
<1>4. p = u \o ((a \o (i \o h)) \o <<>>)
  BY <1>2, <1>3
<1> QED
  BY <1>1, <1>2, <1>3, <1>4 DEF Tells

\* A file that was not there is made.
LEMMA MadeTells ==
    ASSUME NEW p, NEW o, NEW w, NEW h, Tells(p, o, w, Absent, h)
    PROVE  Tells(p, o, w, <<>>, h)
<1>1. <<>> # Absent
  BY AbsentIsNot
<1> QED
  BY <1>1 DEF Tells

\* A file that is too long takes the place of the one before.
LEMMA RolledTells ==
    ASSUME NEW p \in Texts, NEW o \in BOOLEAN, NEW w \in Content, NEW i \in Texts,
           Tells(p, o, w, i, <<>>), NEW k \in Texts, i = k, Len(k) > MaxSize, MaxSize \in Nat
    PROVE  Tells(p, TRUE, k, Absent, <<>>)
<1>1. PICK a \in Texts : a = IF o THEN w ELSE <<>>
  BY AbsentIsNot DEF Tells, Content
<1>2. PICK u \in Texts : p = u \o ((a \o k) \o <<>>)
  BY <1>1, AbsentIsNot DEF Tells
<1>3. /\ a \o k \in Texts /\ (a \o k) \o <<>> = a \o k /\ u \o a \in Texts
      /\ (u \o a) \o k = u \o (a \o k)
      /\ (k \o <<>>) \o <<>> = k /\ k # Absent
  BY AbsentIsNot, ThreeParts
<1>4. p = (u \o a) \o ((k \o <<>>) \o <<>>)
  BY <1>2, <1>3
<1> QED
  BY <1>3, <1>4 DEF Tells

\* A piece goes to a file.
LEMMA PieceTells ==
    ASSUME NEW p \in Texts, NEW o \in BOOLEAN, NEW w \in Content, NEW i \in Content, NEW h \in Texts,
           Tells(p, o, w, i, h), NEW e \in Pos
    PROVE  Tells(Append(p, e), o, w, i, Append(h, e))
<1>1. PICK a \in Texts : a = IF o THEN w ELSE <<>>
  BY AbsentIsNot DEF Tells, Content
<1>2. PICK b \in Texts : b = IF i = Absent THEN <<>> ELSE i
  BY AbsentIsNot DEF Content
<1>3. PICK u \in Texts : /\ p = u \o ((a \o b) \o h)
                         /\ u # <<>> => o /\ Len(w) > MaxSize
  BY <1>1, <1>2 DEF Tells
<1>4. <<e>> \in Texts /\ a \o b \in Texts /\ (a \o b) \o h \in Texts
  BY AbsentIsNot DEF Texts
<1>5. Append(p, e) = p \o <<e>> /\ Append(h, e) = h \o <<e>>
  BY AppendIsConcat DEF Texts
<1>6. p \o <<e>> = u \o (((a \o b) \o h) \o <<e>>)
  <2>1. \A c, g \in Texts : (u \o c) \o g = u \o (c \o g)
    BY ThreeParts
  <2> QED
    BY <1>3, <1>4, <2>1
<1>7. ((a \o b) \o h) \o <<e>> = (a \o b) \o (h \o <<e>>)
  <2>1. \A c, g \in Texts : (c \o h) \o g = c \o (h \o g)
    BY ThreeParts
  <2> QED
    BY <1>4, <2>1
<1>8. Append(p, e) = u \o ((a \o b) \o Append(h, e))
  BY <1>5, <1>6, <1>7
<1> QED
  BY <1>1, <1>2, <1>3, <1>8 DEF Tells

\* What stdio held is lost.
LEMMA LostTells ==
    ASSUME NEW p \in Texts, NEW o \in BOOLEAN, NEW w \in Content, NEW i \in Content, NEW h \in Texts,
           Tells(p, o, w, i, h)
    PROVE  /\ SubSeq(p, 1, Len(p) - Len(h)) \in Texts
           /\ Tells(SubSeq(p, 1, Len(p) - Len(h)), o, w, i, <<>>)
<1>1. PICK a \in Texts : a = IF o THEN w ELSE <<>>
  BY AbsentIsNot DEF Tells, Content
<1>2. PICK b \in Texts : b = IF i = Absent THEN <<>> ELSE i
  BY AbsentIsNot DEF Content
<1>3. PICK u \in Texts : /\ p = u \o ((a \o b) \o h)
                         /\ u # <<>> => o /\ Len(w) > MaxSize
  BY <1>1, <1>2 DEF Tells
<1>4. PICK q \in Texts : q = u \o (a \o b)
  BY AbsentIsNot
<1>5. p = q \o h
  <2>1. a \o b \in Texts
    BY AbsentIsNot
  <2>2. \A c \in Texts : (u \o c) \o h = u \o (c \o h)
    BY ThreeParts
  <2> QED
    BY <1>3, <1>4, <2>1, <2>2
<1>6. SubSeq(p, 1, Len(p) - Len(h)) = q
  <2>1. Len(p) = Len(q) + Len(h) /\ Len(q) \in Nat /\ Len(h) \in Nat
    BY <1>5, AbsentIsNot, ConcatProperties DEF Texts
  <2>2. Len(p) - Len(h) = Len(q)
    BY <2>1
  <2>3. CASE q = <<>>
    <3>1. Len(q) = 0
      BY <2>3
    <3>2. SubSeq(p, 1, 0) = <<>>
      BY SubSeqEmpty
    <3> QED
      BY <2>2, <2>3, <3>1, <3>2
  <2>4. CASE q # <<>>
    <3>1. Len(q) \in 1 .. Len(q) /\ 1 \in 1 .. Len(q)
      BY <2>1, <2>4, EmptySeq DEF Texts
    <3>2. SubSeq(q \o h, 1, Len(q)) = SubSeq(q, 1, Len(q))
      BY <3>1, SubSeqOfConcat1 DEF Texts
    <3>3. SubSeq(q, 1, Len(q)) = q
      BY SubSeqFull DEF Texts
    <3> QED
      BY <1>5, <2>2, <3>2, <3>3
  <2> QED
    BY <2>3, <2>4
<1>7. q = u \o ((a \o b) \o <<>>)
  <2>1. a \o b \in Texts
    BY AbsentIsNot
  <2> QED
    BY <1>4, <2>1, AbsentIsNot
<1> QED
  BY <1>1, <1>2, <1>3, <1>6, <1>7 DEF Tells

\* The end of a sequence, as SequencesExt has it.
LEMMA EndIsSuffix ==
    ASSUME NEW u \in Texts, NEW k \in Texts
    PROVE  IsSuffix(k, u \o k)
<1>1. PICK x, y, p : x = Len(u) /\ y = Len(k) /\ p = u \o k
  OBVIOUS
<1>2. /\ x \in Nat /\ y \in Nat /\ Len(p) = x + y /\ p \in Seq(Pos)
      /\ \A i \in 1 .. x + y : p[i] = IF i <= x THEN u[i] ELSE k[i - x]
  <2>1. Len(u) \in Nat /\ Len(k) \in Nat
    BY AbsentIsNot
  <2>2. /\ u \o k \in Seq(Pos) /\ Len(u \o k) = Len(u) + Len(k)
        /\ \A i \in 1 .. Len(u) + Len(k) :
              (u \o k)[i] = IF i <= Len(u) THEN u[i] ELSE k[i - Len(u)]
    BY ConcatProperties DEF Texts
  <2> QED
    BY <1>1, <2>1, <2>2
<1>3. \A n \in 1 .. y : x + n \in 1 .. (x + y) /\ ~(x + n <= x) /\ (x + n) - x = n
  <2>1. x \in Nat /\ y \in Nat
    BY <1>2
  <2> QED
    BY <2>1
<1>4. \A n \in 1 .. y : p[x + n] = k[n]
  <2> TAKE n \in 1 .. y
  <2>1. x + n \in 1 .. x + y /\ ~(x + n <= x) /\ (x + n) - x = n
    BY <1>3
  <2>2. p[x + n] = k[(x + n) - x]
    BY <1>2, <2>1
  <2> QED
    BY <2>1, <2>2
<1>5. \A n \in 1 .. y : /\ n \in 1 .. (x + y) /\ (y - n) + 1 \in 1 .. y
                        /\ ((x + y) - n) + 1 = x + ((y - n) + 1)
  <2>1. x \in Nat /\ y \in Nat
    BY <1>2
  <2> QED
    BY <2>1
<1>6. \A n \in 1 .. (x + y) : ((x + y) - n) + 1 \in 1 .. (x + y)
  <2>1. x \in Nat /\ y \in Nat
    BY <1>2
  <2> QED
    BY <2>1
<1>7. PICK rk, rp : /\ rk = [n \in 1 .. y |-> k[(y - n) + 1]]
                    /\ rp = [n \in 1 .. (x + y) |-> p[((x + y) - n) + 1]]
  OBVIOUS
<1>8. Reverse(k) = rk /\ Reverse(p) = rp
  BY <1>1, <1>2, <1>7 DEF Reverse
<1>9. rk \in Seq(Pos) /\ rp \in Seq(Pos) /\ Len(rk) = y /\ Len(rp) = x + y
  <2>1. \A n \in 1 .. y : k[(y - n) + 1] \in Pos
    BY <1>1, <1>5, ElementOfSeq DEF Texts
  <2>2. \A n \in 1 .. (x + y) : p[((x + y) - n) + 1] \in Pos
    BY <1>2, <1>6, ElementOfSeq
  <2>3. y \in Nat /\ x + y \in Nat
    BY <1>2
  <2>4. rk \in Seq(Pos) /\ Len(rk) = y
    BY <1>7, <2>1, <2>3
  <2>5. PICK z \in Nat : z = x + y
    BY <2>3
  <2>6. rp = [n \in 1 .. z |-> p[(z - n) + 1]] /\ \A n \in 1 .. z : p[(z - n) + 1] \in Pos
    BY <1>7, <2>2, <2>5
  <2>7. rp \in Seq(Pos) /\ Len(rp) = z
    BY <2>6
  <2> QED
    BY <2>4, <2>5, <2>7
<1>10. \A n \in 1 .. y : rk[n] = rp[n] /\ rk[n] \in Pos /\ rp[n] \in Pos
  <2> TAKE n \in 1 .. y
  <2>1. /\ n \in 1 .. (x + y) /\ (y - n) + 1 \in 1 .. y
        /\ ((x + y) - n) + 1 = x + ((y - n) + 1)
    BY <1>5
  <2>2. rk[n] = k[(y - n) + 1] /\ rp[n] = p[((x + y) - n) + 1]
    BY <1>7, <2>1
  <2>3. rk[n] = rp[n]
    BY <1>4, <2>1, <2>2
  <2>4. rk[n] \in Pos
    BY <1>9, ElementOfSeq
  <2> QED
    BY <2>3, <2>4
<1>11. SubSeq(rk, 1, y) = SubSeq(rp, 1, y)
  <2>1. y \in Int /\ 1 \in Int /\ y - 1 + 1 = y /\ (IF 1 <= y THEN y - 1 + 1 ELSE 0) = y
    <3>1. y \in Nat
      BY <1>2
    <3> QED
      BY <3>1
  <2>2. \A n \in 1 .. y : 1 + n - 1 = n
    OBVIOUS
  <2>3. /\ SubSeq(rk, 1, y) \in Seq(Pos) /\ Len(SubSeq(rk, 1, y)) = y
        /\ \A n \in 1 .. y : SubSeq(rk, 1, y)[n] = rk[n]
    <3>1. \A n \in 1 .. y : rk[n] \in Pos
      BY <1>10
    <3> QED
      BY <2>1, <2>2, <3>1, SubSeqProperties
  <2>4. /\ SubSeq(rp, 1, y) \in Seq(Pos) /\ Len(SubSeq(rp, 1, y)) = y
        /\ \A n \in 1 .. y : SubSeq(rp, 1, y)[n] = rp[n]
    <3>1. \A n \in 1 .. y : rp[n] \in Pos
      BY <1>10
    <3> QED
      BY <2>1, <2>2, <3>1, SubSeqProperties
  <2>5. \A n \in 1 .. y : SubSeq(rk, 1, y)[n] = SubSeq(rp, 1, y)[n]
    BY <1>10, <2>3, <2>4
  <2> QED
    BY <2>3, <2>4, <2>5, SeqEqual
<1>12. y <= x + y
  <2>1. x \in Nat /\ y \in Nat
    BY <1>2
  <2> QED
    BY <2>1
<1>13. IsSuffix(k, p) <=> Len(rk) <= Len(rp) /\ SubSeq(rk, 1, Len(rk)) = SubSeq(rp, 1, Len(rk))
  BY <1>8 DEF IsSuffix, IsPrefix
<1> QED
  BY <1>1, <1>9, <1>11, <1>12, <1>13

\* What the property says of a file.
LEMMA TellsEnd ==
    ASSUME NEW p \in Texts, NEW o \in BOOLEAN, NEW w \in Content, NEW i \in Content, NEW h \in Texts,
           Tells(p, o, w, i, h), MaxSize \in Nat, NEW k,
           k = (IF o THEN w ELSE <<>>) \o (IF i = Absent THEN <<>> ELSE i) \o h
    PROVE  IsSuffix(k, p) /\ (Len(k) < Len(p) => Len(k) > MaxSize)
<1>1. PICK a \in Texts : a = IF o THEN w ELSE <<>>
  BY AbsentIsNot DEF Tells, Content
<1>2. PICK b \in Texts : b = IF i = Absent THEN <<>> ELSE i
  BY AbsentIsNot DEF Content
<1>3. PICK u \in Texts : /\ p = u \o ((a \o b) \o h)
                         /\ u # <<>> => o /\ Len(w) > MaxSize
  BY <1>1, <1>2 DEF Tells
<1>4. k = (a \o b) \o h /\ k \in Texts
  <2>1. (a \o b) \o h \in Texts
    BY AbsentIsNot
  <2> QED
    BY <1>1, <1>2, <2>1
<1>5. p = u \o k
  BY <1>3, <1>4
<1>6. IsSuffix(k, p)
  BY <1>4, <1>5, EndIsSuffix
<1>7. ASSUME Len(k) < Len(p)
      PROVE  Len(k) > MaxSize
  <2>1. u # <<>>
    <3>1. CASE u = <<>>
      <4>1. p = k /\ Len(k) \in Nat
        BY <1>4, <1>5, <3>1, AbsentIsNot
      <4>2. Len(k) < Len(k)
        BY <1>7, <4>1, Zenon
      <4>3. PICK z \in Nat : z = Len(k)
        BY <4>1
      <4>4. z < z
        BY <4>2, <4>3, Zenon
      <4>5. FALSE
        BY <4>4
      <4> QED
        BY <4>5
    <3> QED
      BY <3>1
  <2>2. a = w /\ Len(a) > MaxSize /\ Len(a) \in Nat
    BY <1>1, <1>3, <2>1, AbsentIsNot
  <2>3. Len(k) = (Len(a) + Len(b)) + Len(h) /\ Len(b) \in Nat /\ Len(h) \in Nat
    <3>1. a \o b \in Texts /\ Len(a \o b) = Len(a) + Len(b)
      BY AbsentIsNot, ConcatProperties DEF Texts
    <3>2. Len((a \o b) \o h) = Len(a \o b) + Len(h)
      BY <3>1, ConcatProperties DEF Texts
    <3> QED
      BY <1>4, <3>1, <3>2, AbsentIsNot
  <2>4. PICK x, y, z \in Nat : x = Len(a) /\ y = Len(b) /\ z = Len(h)
    BY <2>2, <2>3
  <2>5. x > MaxSize /\ Len(k) = (x + y) + z
    BY <2>2, <2>3, <2>4
  <2>6. (x + y) + z > MaxSize
    BY <2>4, <2>5
  <2> QED
    BY <2>5, <2>6
<1> QED
  BY <1>6, <1>7

-----------------------------------------------------------------------------
(* The operations of a log *)

LEMMA LogStateIs ==
    ASSUME NEW s \in LogStates
    PROVE  /\ s.disk \in [now : [Files -> Content], old : [Files -> Content]]
           /\ s.disk.now \in [Files -> Content] /\ s.disk.old \in [Files -> Content]
           /\ s.hr \in [running : BOOLEAN, path : Files, open : BOOLEAN, counter : Nat, full : BOOLEAN]
           /\ s.hr.running \in BOOLEAN /\ s.hr.path \in Files /\ s.hr.open \in BOOLEAN
           /\ s.hr.counter \in Nat /\ s.hr.full \in BOOLEAN
           /\ s.buffered \in Texts
           /\ s.since \in [Files -> [pieces : Texts, old : BOOLEAN]]
  BY DEF LogStates

\* A state is sound when its parts are, whatever it was made of.
LEMMA SoundIs ==
    ASSUME NEW d \in [now : [Files -> Content], old : [Files -> Content]],
           NEW h \in [running : BOOLEAN, path : Files, open : BOOLEAN, counter : Nat, full : BOOLEAN],
           NEW b \in Texts,
           NEW f \in [Files -> [pieces : Texts, old : BOOLEAN]],
           ~h.open => b = <<>>, d.now[h.path] = Absent => b = <<>>,
           \A n \in Files : Tells(f[n].pieces, f[n].old, d.old[n], d.now[n],
                                  IF n = h.path THEN b ELSE <<>>)
    PROVE  Sound([disk |-> d, hr |-> h, buffered |-> b, since |-> f])
<1> DEFINE s == [disk |-> d, hr |-> h, buffered |-> b, since |-> f]
<1>1. s \in LogStates
  BY DEF LogStates
<1>2. s.disk = d /\ s.hr = h /\ s.buffered = b /\ s.since = f
  OBVIOUS
<1> HIDE DEF s
<1>3. \A n \in Files : FileTells(s, n)
  BY <1>2 DEF FileTells, Held
<1>4. Sound(s)
  BY <1>1, <1>2, <1>3 DEF Sound
<1> QED
  BY <1>4 DEF s

\* fflush: what stdio holds goes to the file, when it is there.
LEMMA FlushedKeeps ==
    ASSUME Sound(Now), NEW h, h.path = hr.path,
           h \in [running : BOOLEAN, path : Files, open : BOOLEAN, counter : Nat, full : BOOLEAN]
    PROVE  /\ Sound([disk |-> [disk EXCEPT !.now = Flushed], hr |-> h, buffered |-> <<>>,
                     since |-> since])
           /\ Flushed \in [Files -> Content]
           /\ \A n \in Files : n # hr.path => Flushed[n] = disk.now[n]
           /\ disk.now[hr.path] # Absent => Flushed[hr.path] = disk.now[hr.path] \o buffered
<1>1. /\ Now.disk = disk /\ Now.hr = hr /\ Now.buffered = buffered /\ Now.since = since
  BY DEF Now
<1>2. /\ disk \in [now : [Files -> Content], old : [Files -> Content]] /\ buffered \in Texts
      /\ disk.now \in [Files -> Content] /\ disk.old \in [Files -> Content] /\ hr.path \in Files
      /\ since \in [Files -> [pieces : Texts, old : BOOLEAN]]
  BY <1>1, LogStateIs DEF Sound
<1>3. \A n \in Files : Tells(since[n].pieces, since[n].old, disk.old[n], disk.now[n],
                             IF n = hr.path THEN buffered ELSE <<>>)
  BY <1>1 DEF Sound, FileTells, Held
<1>4. disk.now[hr.path] = Absent => buffered = <<>>
  BY <1>1 DEF Sound
<1>5. /\ Flushed \in [Files -> Content]
      /\ \A n \in Files : n # hr.path => Flushed[n] = disk.now[n]
      /\ disk.now[hr.path] # Absent => Flushed[hr.path] = disk.now[hr.path] \o buffered
      /\ disk.now[hr.path] = Absent => Flushed = disk.now
  <2>1. CASE disk.now[hr.path] = Absent
    BY <1>2, <2>1 DEF Flushed
  <2>2. CASE disk.now[hr.path] # Absent
    <3>1. disk.now[hr.path] \in Texts
      BY <1>2, <2>2 DEF Content
    <3>2. disk.now[hr.path] \o buffered \in Content
      BY <1>2, <3>1, AbsentIsNot DEF Content
    <3>3. Flushed = [disk.now EXCEPT ![hr.path] = disk.now[hr.path] \o buffered]
      BY <2>2 DEF Flushed
    <3> QED
      BY <1>2, <2>2, <3>2, <3>3
  <2> QED
    BY <2>1, <2>2
<1>6. PICK d : d = [disk EXCEPT !.now = Flushed]
  OBVIOUS
<1>7. /\ d \in [now : [Files -> Content], old : [Files -> Content]]
      /\ d.now = Flushed /\ d.old = disk.old
  BY <1>2, <1>5, <1>6
<1>8. ASSUME NEW n \in Files
      PROVE  Tells(since[n].pieces, since[n].old, d.old[n], d.now[n], <<>>)
  <2>1. /\ since[n].pieces \in Texts /\ since[n].old \in BOOLEAN /\ disk.old[n] \in Content
    BY <1>2
  <2>2. CASE n # hr.path
    BY <1>3, <1>5, <1>7, <2>2
  <2>3. CASE n = hr.path /\ disk.now[n] = Absent
    BY <1>3, <1>4, <1>5, <1>7, <2>3
  <2>4. CASE n = hr.path /\ disk.now[n] # Absent
    <3>1. disk.now[n] \in Texts
      BY <1>2, <2>4 DEF Content
    <3>2. Tells(since[n].pieces, since[n].old, disk.old[n], disk.now[n], buffered)
      BY <1>3, <2>4
    <3>3. Tells(since[n].pieces, since[n].old, disk.old[n], disk.now[n] \o buffered, <<>>)
      BY <1>2, <2>1, <3>1, <3>2, FlushTells
    <3> QED
      BY <1>5, <1>7, <2>4, <3>3
  <2> QED
    BY <2>2, <2>3, <2>4
<1>9. Sound([disk |-> d, hr |-> h, buffered |-> <<>>, since |-> since])
  <2>1. <<>> \in Texts
    BY AbsentIsNot
  <2>2. \A n \in Files : Tells(since[n].pieces, since[n].old, d.old[n], d.now[n],
                               IF n = h.path THEN <<>> ELSE <<>>)
    BY <1>8
  <2> QED
    BY <1>2, <1>7, <2>1, <2>2, SoundIs
<1> QED
  BY <1>5, <1>6, <1>9

\* The state of another log is as sound when it differs in what no file tells.
LEMMA SameFiles ==
    ASSUME NEW s, Sound(s), NEW h, h.path = s.hr.path, ~h.open => s.buffered = <<>>,
           h \in [running : BOOLEAN, path : Files, open : BOOLEAN, counter : Nat, full : BOOLEAN]
    PROVE  Sound([disk |-> s.disk, hr |-> h, buffered |-> s.buffered, since |-> s.since])
<1>1. /\ s.disk \in [now : [Files -> Content], old : [Files -> Content]] /\ s.buffered \in Texts
      /\ s.since \in [Files -> [pieces : Texts, old : BOOLEAN]]
  BY LogStateIs DEF Sound
<1>2. \A n \in Files : Tells(s.since[n].pieces, s.since[n].old, s.disk.old[n], s.disk.now[n],
                             IF n = h.path THEN s.buffered ELSE <<>>)
  BY DEF Sound, FileTells, Held
<1>3. s.disk.now[h.path] = Absent => s.buffered = <<>>
  BY DEF Sound
<1> QED
  BY <1>1, <1>2, <1>3, SoundIs

\* The same for the variables.
LEMMA SoundNow ==
    ASSUME NEW s, Sound(s), disk' = s.disk, hr' = s.hr, buffered' = s.buffered, since' = s.since
    PROVE  Sound(Now)'
<1>1. s \in LogStates
  BY DEF Sound
<1>2. s = [disk |-> s.disk, hr |-> s.hr, buffered |-> s.buffered, since |-> s.since]
  BY <1>1 DEF LogStates
<1>3. Now' = s
  BY <1>2 DEF Now
<1>4. Sound(Now')
  BY <1>3
<1> QED
  BY <1>4 DEF Sound, LogStates, FileTells, Held, Tells, Texts, Content, Pos, Files, Absent

LEMMA NameIs ==
    ASSUME RotatoryAssumption, NEW d \in Nat
    PROVE  NameOf(d) \in Files
<1>1. FileNames \in Seq(Files) /\ Len(FileNames) \in Nat \ {0}
  BY EmptySeq DEF RotatoryAssumption
<1>2. (d % Len(FileNames)) + 1 \in 1 .. Len(FileNames)
  <2>1. PICK l \in Nat \ {0} : l = Len(FileNames)
    BY <1>1
  <2>2. d % l \in 0 .. (l - 1)
    BY <2>1
  <2>3. (d % l) + 1 \in 1 .. l
    BY <2>1, <2>2
  <2> QED
    BY <2>1, <2>3
<1> QED
  BY <1>1, <1>2, ElementOfSeq DEF NameOf

\* What is on disk after one file of today changed.
LEMMA NowIs ==
    ASSUME NEW e \in [now : [Files -> Content], old : [Files -> Content]], NEW n \in Files,
           NEW x \in Content, NEW d, d = [e EXCEPT !.now[n] = x]
    PROVE  /\ d \in [now : [Files -> Content], old : [Files -> Content]]
           /\ d.now[n] = x /\ d.old = e.old
           /\ \A m \in Files : m # n => d.now[m] = e.now[m]
<1>1. PICK dn : dn = [e.now EXCEPT ![n] = x]
  OBVIOUS
<1>2. dn \in [Files -> Content] /\ dn[n] = x /\ \A m \in Files : m # n => dn[m] = e.now[m]
  BY <1>1
<1>3. d = [now |-> dn, old |-> e.old]
  BY <1>1
<1> QED
  BY <1>2, <1>3

\* _rotatory closes the file.
LEMMA ClosedKeeps ==
    ASSUME Sound(Now)
    PROVE  /\ Sound(Closed(Now)) /\ ~Closed(Now).hr.open
           /\ Closed(Now).since = since
           /\ Closed(Now).disk.old = disk.old
           /\ Closed(Now).disk.now = IF hr.open THEN Flushed ELSE disk.now
           /\ Closed(Now).hr.path = hr.path /\ Closed(Now).hr.running = hr.running
<1>1. /\ Now.disk = disk /\ Now.hr = hr /\ Now.buffered = buffered /\ Now.since = since
  BY DEF Now
<1>2. /\ disk \in [now : [Files -> Content], old : [Files -> Content]]
      /\ hr \in [running : BOOLEAN, path : Files, open : BOOLEAN, counter : Nat, full : BOOLEAN]
  BY <1>1, LogStateIs DEF Sound
<1>3. CASE hr.open
  <2>1. PICK h : h = [hr EXCEPT !.open = FALSE]
    OBVIOUS
  <2>2. /\ h \in [running : BOOLEAN, path : Files, open : BOOLEAN, counter : Nat, full : BOOLEAN]
        /\ h.path = hr.path /\ h.running = hr.running /\ ~h.open
    BY <1>2, <2>1
  <2>3. PICK d : d = [disk EXCEPT !.now = Flushed]
    OBVIOUS
  <2>4. d.now = Flushed /\ d.old = disk.old
    BY <1>2, <2>3
  <2>5. Closed(Now) = [disk |-> d, hr |-> h, buffered |-> <<>>, since |-> since]
    BY <1>1, <1>3, <2>1, <2>3 DEF Closed, Now
  <2>6. Sound([disk |-> d, hr |-> h, buffered |-> <<>>, since |-> since])
    BY <2>2, <2>3, FlushedKeeps
  <2> QED
    BY <1>3, <2>2, <2>4, <2>5, <2>6
<1>4. CASE ~hr.open
  BY <1>1, <1>4 DEF Closed
<1> QED
  BY <1>3, <1>4

\* _rotatory: a file that is too long goes to its .OLD.
LEMMA RolledKeeps ==
    ASSUME Sound(Now), TooLong, "rename" \notin Faults, RotatoryAssumption
    PROVE  /\ Sound(Rolled(Now)) /\ ~Rolled(Now).hr.open
           /\ Rolled(Now).hr.path = hr.path /\ Rolled(Now).hr.running = hr.running
           /\ Rolled(Now).disk.now[hr.path] = Absent
<1>1. PICK c : c = Closed(Now)
  OBVIOUS
<1>2. /\ Sound(c) /\ ~c.hr.open /\ c.since = since /\ c.disk.now = Flushed
      /\ c.hr.path = hr.path /\ c.hr.running = hr.running
  BY <1>1, ClosedKeeps DEF TooLong
<1>3. PICK p : p = hr.path
  OBVIOUS
<1>4. /\ c \in LogStates /\ p \in Files /\ c.buffered = <<>>
      /\ c.disk \in [now : [Files -> Content], old : [Files -> Content]]
      /\ c.disk.now \in [Files -> Content] /\ c.disk.old \in [Files -> Content]
      /\ c.hr \in [running : BOOLEAN, path : Files, open : BOOLEAN, counter : Nat, full : BOOLEAN]
      /\ c.since \in [Files -> [pieces : Texts, old : BOOLEAN]]
  BY <1>2, <1>3, LogStateIs DEF Sound
<1>5. \A n \in Files : Tells(c.since[n].pieces, c.since[n].old, c.disk.old[n], c.disk.now[n], <<>>)
  BY <1>2, <1>4 DEF Sound, FileTells, Held
<1>6. c.disk.now[p] \in Texts /\ Len(c.disk.now[p]) > MaxSize /\ MaxSize \in Nat
  <2>1. /\ disk.now[p] \in Texts /\ Len(disk.now[p]) > MaxSize /\ buffered \in Texts
        /\ disk.now[p] # Absent /\ disk.now \in [Files -> Content]
    <3>1. Now \in LogStates /\ Now.disk = disk /\ Now.buffered = buffered
      BY DEF Sound, Now
    <3>2. disk.now \in [Files -> Content] /\ buffered \in Texts
      BY <3>1, LogStateIs
    <3> QED
      BY <1>3, <1>4, <3>2 DEF TooLong, Content
  <2>2. c.disk.now[p] = disk.now[p] \o buffered
    BY <1>2, <1>3, <1>4, <2>1 DEF Flushed
  <2>3. Len(disk.now[p] \o buffered) = Len(disk.now[p]) + Len(buffered)
    BY <2>1, ConcatProperties DEF Texts
  <2>4. PICK x, y \in Nat : x = Len(disk.now[p]) /\ y = Len(buffered)
    BY <2>1, AbsentIsNot
  <2>5. MaxSize \in Nat
    BY DEF RotatoryAssumption
  <2>6. x + y > MaxSize
    BY <2>1, <2>4, <2>5
  <2>7. disk.now[p] \o buffered \in Texts
    BY <2>1, AbsentIsNot
  <2> QED
    BY <2>2, <2>3, <2>4, <2>5, <2>6, <2>7
<1>7. PICK d, f : /\ d = [c.disk EXCEPT !.old[p] = c.disk.now[p], !.now[p] = Absent]
                  /\ f = [c.since EXCEPT ![p].old = TRUE]
  OBVIOUS
<1>8. /\ d \in [now : [Files -> Content], old : [Files -> Content]]
      /\ d.now[p] = Absent /\ d.old[p] = c.disk.now[p]
      /\ \A n \in Files : n # p => d.now[n] = c.disk.now[n] /\ d.old[n] = c.disk.old[n]
  <2>1. Absent \in Content /\ c.disk.now[p] \in Content
    BY <1>6 DEF Content
  <2>2. PICK dn, do : /\ dn = [c.disk.now EXCEPT ![p] = Absent]
                      /\ do = [c.disk.old EXCEPT ![p] = c.disk.now[p]]
    OBVIOUS
  <2>3. /\ dn \in [Files -> Content] /\ do \in [Files -> Content]
        /\ dn[p] = Absent /\ do[p] = c.disk.now[p]
        /\ \A n \in Files : n # p => dn[n] = c.disk.now[n] /\ do[n] = c.disk.old[n]
    BY <1>4, <2>1, <2>2
  <2>4. d = [now |-> dn, old |-> do]
    BY <1>4, <1>7, <2>2
  <2> QED
    BY <2>3, <2>4
<1>9. /\ f \in [Files -> [pieces : Texts, old : BOOLEAN]]
      /\ f[p].pieces = c.since[p].pieces /\ f[p].old
      /\ \A n \in Files : n # p => f[n] = c.since[n]
  BY <1>4, <1>7
<1>10. ASSUME NEW n \in Files
       PROVE  Tells(f[n].pieces, f[n].old, d.old[n], d.now[n], <<>>)
  <2>1. CASE n # p
    BY <1>5, <1>8, <1>9, <2>1
  <2>2. CASE n = p
    <3>1. /\ c.since[p].pieces \in Texts /\ c.since[p].old \in BOOLEAN /\ c.disk.old[p] \in Content
      BY <1>4
    <3>2. Tells(c.since[p].pieces, TRUE, c.disk.now[p], Absent, <<>>)
      BY <1>4, <1>5, <1>6, <3>1, RolledTells
    <3>3. f[p].old = TRUE
      BY <1>4, <1>9
    <3> QED
      BY <1>8, <1>9, <2>2, <3>2, <3>3
  <2> QED
    BY <2>1, <2>2
<1>11. Sound([disk |-> d, hr |-> c.hr, buffered |-> <<>>, since |-> f])
  <2>1. <<>> \in Texts
    BY AbsentIsNot
  <2>2. \A n \in Files : Tells(f[n].pieces, f[n].old, d.old[n], d.now[n],
                               IF n = c.hr.path THEN <<>> ELSE <<>>)
    BY <1>10
  <2> QED
    BY <1>4, <1>8, <1>9, <2>1, <2>2, SoundIs
<1>12. Rolled(Now) = [disk |-> d, hr |-> c.hr, buffered |-> <<>>, since |-> f]
  <2>1. Rolled(Now) = [c EXCEPT !.disk.old[p] = c.disk.now[p], !.disk.now[p] = Absent,
                                !.since[p].old = TRUE]
    BY <1>1, <1>3 DEF Rolled
  <2>2. PICK cd, ch, cs : /\ c = [disk |-> cd, hr |-> ch, buffered |-> <<>>, since |-> cs]
                          /\ cd = c.disk /\ ch = c.hr /\ cs = c.since
    BY <1>4 DEF LogStates
  <2>3. PICK x : x = c.disk.now[p]
    OBVIOUS
  <2>4. PICK cd1, cd2, cs1 :
            /\ cd1 = [cd EXCEPT !.old[p] = x]
            /\ cd2 = [cd1 EXCEPT !.now[p] = Absent]
            /\ cs1 = [cs EXCEPT ![p].old = TRUE]
    OBVIOUS
  <2>5. [c EXCEPT !.disk.old[p] = x]
        = [disk |-> cd1, hr |-> ch, buffered |-> <<>>, since |-> cs]
    BY <2>2, <2>4
  <2>6. PICK c1 : c1 = [disk |-> cd1, hr |-> ch, buffered |-> <<>>, since |-> cs]
    OBVIOUS
  <2>7. [c1 EXCEPT !.disk.now[p] = Absent]
        = [disk |-> cd2, hr |-> ch, buffered |-> <<>>, since |-> cs]
    <3>1. cd2 = [cd1 EXCEPT !.now[p] = Absent]
      BY <2>4
    <3> QED
      BY <2>6, <3>1, SMTT(30)
  <2>8. PICK c2 : c2 = [disk |-> cd2, hr |-> ch, buffered |-> <<>>, since |-> cs]
    OBVIOUS
  <2>9. [c2 EXCEPT !.since[p].old = TRUE]
        = [disk |-> cd2, hr |-> ch, buffered |-> <<>>, since |-> cs1]
    <3>1. PICK r : r = [cs[p] EXCEPT !.old = TRUE]
      OBVIOUS
    <3>2. [c2 EXCEPT !.since[p].old = TRUE] = [c2 EXCEPT !.since = [cs EXCEPT ![p] = r]]
      BY <2>8, <3>1
    <3>3. cs1 = [cs EXCEPT ![p] = r]
      BY <2>4, <3>1
    <3> QED
      BY <2>8, <3>2, <3>3
  <2>10. cd2 = d /\ cs1 = f
    BY <1>7, <2>2, <2>3, <2>4
  <2>11. Rolled(Now) = [disk |-> cd2, hr |-> ch, buffered |-> <<>>, since |-> cs1]
    BY <2>1, <2>3, <2>5, <2>6, <2>7, <2>8, <2>9
  <2> QED
    BY <2>2, <2>10, <2>11
<1> QED
  BY <1>2, <1>3, <1>8, <1>11, <1>12

\* _rotatory: the file of today is made.
LEMMA ChangedKeeps ==
    ASSUME Sound(Now), RotatoryAssumption, day \in Nat, NEW s,
           \/ s = Now /\ ~TooLong
           \/ TooLong /\ Sound(s) /\ ~s.hr.open /\ s.hr.path = hr.path /\ s.hr.running = hr.running
              /\ s.disk.now[hr.path] = Absent,
           NEW t \in Changed(s)
    PROVE  /\ Sound(t) /\ t.hr.running = hr.running
           /\ t.hr.open => t.disk.now[t.hr.path] # Absent
<1>1. PICK c : c = Closed(s)
  OBVIOUS
<1>2. /\ Sound(c) /\ ~c.hr.open /\ c.hr.path = hr.path /\ c.hr.running = hr.running
      /\ TooLong => c.disk.now[hr.path] = Absent
  <2>1. CASE s = Now /\ ~TooLong
    BY <1>1, <2>1, ClosedKeeps
  <2>2. CASE ~(s = Now /\ ~TooLong)
    BY <1>1, <2>2 DEF Closed
  <2> QED
    BY <2>1, <2>2
<1>3. PICK n : n = NameOf(day)
  OBVIOUS
<1>4. n \in Files
  BY <1>3, NameIs
<1>5. /\ c \in LogStates /\ c.buffered = <<>>
      /\ c.disk \in [now : [Files -> Content], old : [Files -> Content]]
      /\ c.disk.now \in [Files -> Content] /\ c.disk.old \in [Files -> Content]
      /\ c.hr \in [running : BOOLEAN, path : Files, open : BOOLEAN, counter : Nat, full : BOOLEAN]
      /\ c.since \in [Files -> [pieces : Texts, old : BOOLEAN]]
  BY <1>2, LogStateIs DEF Sound
<1>6. \A m \in Files : Tells(c.since[m].pieces, c.since[m].old, c.disk.old[m], c.disk.now[m], <<>>)
  BY <1>2, <1>5 DEF Sound, FileTells, Held
<1>7. c = [disk |-> c.disk, hr |-> c.hr, buffered |-> <<>>, since |-> c.since]
  BY <1>5 DEF LogStates
<1>8. PICK h : h = [c.hr EXCEPT !.path = n]
  OBVIOUS
<1>9. /\ h \in [running : BOOLEAN, path : Files, open : BOOLEAN, counter : Nat, full : BOOLEAN]
      /\ h.path = n /\ ~h.open /\ h.running = hr.running
  BY <1>2, <1>4, <1>5, <1>8
<1>10. PICK v : v = [c EXCEPT !.hr.path = n]
  OBVIOUS
<1>11. v = [disk |-> c.disk, hr |-> h, buffered |-> <<>>, since |-> c.since]
  <2>1. PICK cd, ch, cs : /\ c = [disk |-> cd, hr |-> ch, buffered |-> <<>>, since |-> cs]
                          /\ cd = c.disk /\ ch = c.hr /\ cs = c.since
    BY <1>7
  <2>2. h = [ch EXCEPT !.path = n]
    BY <1>8, <2>1
  <2>3. v = [disk |-> cd, hr |-> h, buffered |-> <<>>, since |-> cs]
    BY <1>10, <2>1, <2>2
  <2> QED
    BY <2>1, <2>3
<1>12. CASE t = v
  <2>1. \A m \in Files : Tells(c.since[m].pieces, c.since[m].old, c.disk.old[m], c.disk.now[m],
                               IF m = h.path THEN <<>> ELSE <<>>)
    BY <1>6
  <2>2. <<>> \in Texts
    BY AbsentIsNot
  <2>3. Sound([disk |-> c.disk, hr |-> h, buffered |-> <<>>, since |-> c.since])
    BY <1>5, <1>9, <2>1, <2>2, SoundIs
  <2>4. t.hr = h
    BY <1>11, <1>12
  <2> QED
    BY <1>9, <1>11, <1>12, <2>3, <2>4
<1>13. CASE t # v
  <2>1. PICK j, d, f :
            /\ j = [h EXCEPT !.open = TRUE]
            /\ d = [c.disk EXCEPT !.now[n] = <<>>]
            /\ f = [c.since EXCEPT ![n] = IF TooLong /\ n = hr.path THEN @ ELSE Begun]
    OBVIOUS
  <2>2. t = [disk |-> d, hr |-> j, buffered |-> <<>>, since |-> f]
    <3>1. t = [v EXCEPT !.disk.now[n] = <<>>, !.hr.open = TRUE,
                        !.since[n] = IF TooLong /\ n = s.hr.path THEN @ ELSE Begun]
          \/ t = [v EXCEPT !.disk.now[n] = <<>>, !.hr.open = TRUE,
                        !.since[n] = IF TooLong /\ n = hr.path THEN @ ELSE Begun]
      BY <1>1, <1>3, <1>10, <1>13 DEF Changed
    <3>2. s.hr.path = hr.path
      BY DEF Now
    <3>3. t = [v EXCEPT !.disk.now[n] = <<>>, !.hr.open = TRUE,
                        !.since[n] = IF TooLong /\ n = hr.path THEN @ ELSE Begun]
      BY <3>1, <3>2
    <3> QED
      BY <1>11, <2>1, <3>3
  <2>3. /\ j \in [running : BOOLEAN, path : Files, open : BOOLEAN, counter : Nat, full : BOOLEAN]
        /\ j.path = n /\ j.open /\ j.running = hr.running
    BY <1>9, <2>1
  <2>4. /\ d \in [now : [Files -> Content], old : [Files -> Content]]
        /\ d.now[n] = <<>> /\ d.old = c.disk.old
        /\ \A m \in Files : m # n => d.now[m] = c.disk.now[m]
    BY <1>4, <1>5, <2>1, NowIs, AbsentIsNot DEF Content
  <2>5. /\ f \in [Files -> [pieces : Texts, old : BOOLEAN]]
        /\ f[n] = IF TooLong /\ n = hr.path THEN c.since[n] ELSE Begun
        /\ \A m \in Files : m # n => f[m] = c.since[m]
    <3>1. Begun \in [pieces : Texts, old : BOOLEAN]
      BY AbsentIsNot DEF Begun
    <3> QED
      BY <1>4, <1>5, <2>1, <3>1
  <2>6. ASSUME NEW m \in Files
        PROVE  Tells(f[m].pieces, f[m].old, d.old[m], d.now[m], <<>>)
    <3>1. CASE m # n
      BY <1>6, <2>4, <2>5, <3>1
    <3>2. CASE m = n /\ TooLong /\ n = hr.path
      <4>1. Tells(c.since[n].pieces, c.since[n].old, c.disk.old[n], Absent, <<>>)
        BY <1>2, <1>4, <1>6, <3>2
      <4> QED
        BY <2>4, <2>5, <3>2, <4>1, MadeTells
    <3>3. CASE m = n /\ ~(TooLong /\ n = hr.path)
      <4>1. f[n].pieces = <<>> /\ f[n].old = FALSE
        BY <2>5, <3>3 DEF Begun
      <4> QED
        BY <2>4, <3>3, <4>1, NothingTells
    <3> QED
      BY <3>1, <3>2, <3>3
  <2>7. Sound([disk |-> d, hr |-> j, buffered |-> <<>>, since |-> f])
    <3>1. <<>> \in Texts
      BY AbsentIsNot
    <3>2. \A m \in Files : Tells(f[m].pieces, f[m].old, d.old[m], d.now[m],
                                 IF m = j.path THEN <<>> ELSE <<>>)
      BY <2>6
    <3> QED
      BY <2>3, <2>4, <2>5, <3>1, <3>2, SoundIs
  <2>8. <<>> # Absent
    BY AbsentIsNot
  <2>9. t.disk = d /\ t.hr = j
    BY <2>2
  <2> QED
    BY <2>2, <2>3, <2>4, <2>7, <2>8, <2>9
<1> QED
  BY <1>12, <1>13

\* The file as _rotatory writes in it: it is there when it is open.
LEMMA ReadyKeeps ==
    ASSUME Sound(Now), RotatoryAssumption, "rename" \notin Faults, day \in Nat, NEW s \in Ready
    PROVE  /\ Sound(s) /\ s.hr.running = hr.running
           /\ s.hr.open => s.disk.now[s.hr.path] # Absent
<1>1. CASE TooLong
  <2>1. s \in Changed(Rolled(Now))
    BY <1>1 DEF Ready
  <2>2. /\ Sound(Rolled(Now)) /\ ~Rolled(Now).hr.open
        /\ Rolled(Now).hr.path = hr.path /\ Rolled(Now).hr.running = hr.running
        /\ Rolled(Now).disk.now[hr.path] = Absent
    BY <1>1, RolledKeeps
  <2> QED
    BY <1>1, <2>1, <2>2, ChangedKeeps
<1>2. CASE ~TooLong /\ ChangeFile
  <2>1. s \in Changed(Now)
    BY <1>2 DEF Ready
  <2> QED
    BY <1>2, <2>1, ChangedKeeps
<1>3. CASE ~TooLong /\ ~ChangeFile
  <2>1. s = Now
    BY <1>3 DEF Ready
  <2>2. s.hr = hr /\ s.disk = disk
    BY <2>1 DEF Now
  <2>3. disk.now[hr.path] # Absent
    BY <1>3 DEF ChangeFile
  <2> QED
    BY <2>1, <2>2, <2>3
<1> QED
  BY <1>1, <1>2, <1>3

\* The state that is written in, and the next value of the counter.
LEMMA CounterIs ==
    ASSUME RotatoryAssumption, NEW n \in Nat
    PROVE  (n + 1) % StatvfsEach \in Nat
<1>1. PICK m \in Nat \ {0} : m = StatvfsEach
  BY DEF RotatoryAssumption
<1>2. (n + 1) % m \in 0 .. (m - 1)
  BY <1>1
<1>3. (n + 1) % m \in Nat
  BY <1>1, <1>2
<1> QED
  BY <1>1, <1>3

\* The state after a piece.
Wrote(s, c, full, open, now, held, since0) ==
    [disk |-> [s.disk EXCEPT !.now[s.hr.path] = now],
     hr |-> [s.hr EXCEPT !.counter = c, !.full = full, !.open = open],
     buffered |-> held, since |-> since0]

\* A write that finds the disk full, or fails: what stdio held goes to the file.
LEMMA StoppedKeeps ==
    ASSUME NEW s, Sound(s), s.disk.now[s.hr.path] # Absent, NEW c \in Nat, NEW full \in BOOLEAN,
           NEW open \in BOOLEAN
    PROVE  Sound(Wrote(s, c, full, open, s.disk.now[s.hr.path] \o s.buffered, <<>>, s.since))
<1>1. PICK p : p = s.hr.path
  OBVIOUS
<1>2. /\ s \in LogStates /\ p \in Files /\ s.buffered \in Texts
      /\ s.disk \in [now : [Files -> Content], old : [Files -> Content]]
      /\ s.disk.now \in [Files -> Content] /\ s.disk.old \in [Files -> Content]
      /\ s.hr \in [running : BOOLEAN, path : Files, open : BOOLEAN, counter : Nat, full : BOOLEAN]
      /\ s.since \in [Files -> [pieces : Texts, old : BOOLEAN]]
  BY <1>1, LogStateIs DEF Sound
<1>3. PICK now : now = s.disk.now[p] \o s.buffered
  OBVIOUS
<1>4. s.disk.now[p] \in Texts /\ now \in Texts
  <2>1. s.disk.now[p] \in Texts
    BY <1>1, <1>2 DEF Content
  <2> QED
    BY <1>2, <1>3, <2>1, AbsentIsNot
<1>5. PICK d, h : /\ d = [s.disk EXCEPT !.now[p] = now]
                  /\ h = [s.hr EXCEPT !.counter = c, !.full = full, !.open = open]
  OBVIOUS
<1>6. /\ d \in [now : [Files -> Content], old : [Files -> Content]] /\ d.old = s.disk.old
      /\ d.now[p] = now /\ \A n \in Files : n # p => d.now[n] = s.disk.now[n]
  BY <1>2, <1>4, <1>5, NowIs DEF Content
<1>7. /\ h \in [running : BOOLEAN, path : Files, open : BOOLEAN, counter : Nat, full : BOOLEAN]
      /\ h.path = p
  BY <1>1, <1>2, <1>5
<1>8. ASSUME NEW n \in Files
      PROVE  Tells(s.since[n].pieces, s.since[n].old, d.old[n], d.now[n], <<>>)
  <2>1. /\ Tells(s.since[n].pieces, s.since[n].old, s.disk.old[n], s.disk.now[n],
                 IF n = p THEN s.buffered ELSE <<>>)
    BY <1>1 DEF Sound, FileTells, Held
  <2>2. CASE n # p
    BY <1>6, <2>1, <2>2
  <2>3. CASE n = p
    <3>1. /\ s.since[n].pieces \in Texts /\ s.since[n].old \in BOOLEAN /\ s.disk.old[n] \in Content
      BY <1>2
    <3>2. Tells(s.since[n].pieces, s.since[n].old, s.disk.old[n], s.disk.now[n], s.buffered)
      BY <2>1, <2>3
    <3>3. s.disk.now[n] \in Texts
      BY <1>4, <2>3
    <3>4. Tells(s.since[n].pieces, s.since[n].old, s.disk.old[n], s.disk.now[n] \o s.buffered, <<>>)
      BY <1>2, <3>1, <3>2, <3>3, FlushTells
    <3> QED
      BY <1>3, <1>6, <2>3, <3>4
  <2> QED
    BY <2>2, <2>3
<1>9. Sound([disk |-> d, hr |-> h, buffered |-> <<>>, since |-> s.since])
  <2>1. <<>> \in Texts
    BY AbsentIsNot
  <2>2. \A n \in Files : Tells(s.since[n].pieces, s.since[n].old, d.old[n], d.now[n],
                               IF n = h.path THEN <<>> ELSE <<>>)
    BY <1>8
  <2> QED
    BY <1>2, <1>6, <1>7, <2>1, <2>2, SoundIs
<1> QED
  BY <1>1, <1>3, <1>5, <1>9 DEF Wrote

\* A piece that stdio took.
LEMMA WrittenKeeps ==
    ASSUME NEW s, Sound(s), s.disk.now[s.hr.path] # Absent, s.hr.open, NEW c \in Nat, NEW e \in Pos
    PROVE  Sound([disk |-> s.disk, hr |-> [s.hr EXCEPT !.counter = c],
                  buffered |-> Append(s.buffered, e),
                  since |-> [s.since EXCEPT ![s.hr.path].pieces = Append(@, e)]])
<1>1. PICK p : p = s.hr.path
  OBVIOUS
<1>2. /\ s \in LogStates /\ p \in Files /\ s.buffered \in Texts
      /\ s.disk \in [now : [Files -> Content], old : [Files -> Content]]
      /\ s.disk.now \in [Files -> Content] /\ s.disk.old \in [Files -> Content]
      /\ s.hr \in [running : BOOLEAN, path : Files, open : BOOLEAN, counter : Nat, full : BOOLEAN]
      /\ s.since \in [Files -> [pieces : Texts, old : BOOLEAN]]
  BY <1>1, LogStateIs DEF Sound
<1>3. PICK h, b, f : /\ h = [s.hr EXCEPT !.counter = c]
                     /\ b = Append(s.buffered, e)
                     /\ f = [s.since EXCEPT ![p].pieces = Append(@, e)]
  OBVIOUS
<1>4. /\ h \in [running : BOOLEAN, path : Files, open : BOOLEAN, counter : Nat, full : BOOLEAN]
      /\ h.path = p /\ h.open
  BY <1>1, <1>2, <1>3
<1>5. b \in Texts
  BY <1>2, <1>3, AppendProperties DEF Texts
<1>6. /\ s.since[p].pieces \in Texts /\ s.since[p].old \in BOOLEAN /\ s.disk.old[p] \in Content
      /\ s.disk.now[p] \in Content
  BY <1>2
<1>7. Append(s.since[p].pieces, e) \in Texts
  BY <1>6, AppendProperties DEF Texts
<1>8. /\ f \in [Files -> [pieces : Texts, old : BOOLEAN]]
      /\ f[p].pieces = Append(s.since[p].pieces, e) /\ f[p].old = s.since[p].old
      /\ \A n \in Files : n # p => f[n] = s.since[n]
  <2>1. PICK r : r = [s.since[p] EXCEPT !.pieces = Append(s.since[p].pieces, e)]
    OBVIOUS
  <2>2. s.since[p] \in [pieces : Texts, old : BOOLEAN]
    BY <1>2
  <2>3. /\ r \in [pieces : Texts, old : BOOLEAN]
        /\ r.pieces = Append(s.since[p].pieces, e) /\ r.old = s.since[p].old
    BY <1>7, <2>1, <2>2
  <2>4. f = [s.since EXCEPT ![p] = r]
    BY <1>3, <2>1
  <2> QED
    BY <1>2, <2>3, <2>4
<1>9. ASSUME NEW n \in Files
      PROVE  Tells(f[n].pieces, f[n].old, s.disk.old[n], s.disk.now[n], IF n = h.path THEN b ELSE <<>>)
  <2>1. Tells(s.since[n].pieces, s.since[n].old, s.disk.old[n], s.disk.now[n],
              IF n = p THEN s.buffered ELSE <<>>)
    BY <1>1 DEF Sound, FileTells, Held
  <2>2. CASE n # p
    BY <1>4, <1>8, <2>1, <2>2
  <2>3. CASE n = p
    <3>1. Tells(s.since[p].pieces, s.since[p].old, s.disk.old[p], s.disk.now[p], s.buffered)
      BY <2>1, <2>3
    <3>2. Tells(Append(s.since[p].pieces, e), s.since[p].old, s.disk.old[p], s.disk.now[p], b)
      BY <1>2, <1>3, <1>6, <3>1, PieceTells
    <3> QED
      BY <1>4, <1>8, <2>3, <3>2
  <2> QED
    BY <2>2, <2>3
<1>10. s.disk.now[h.path] # Absent
  BY <1>1, <1>4
<1>11. Sound([disk |-> s.disk, hr |-> h, buffered |-> b, since |-> f])
  BY <1>2, <1>4, <1>5, <1>8, <1>9, <1>10, SoundIs
<1> QED
  BY <1>1, <1>3, <1>11

\* What Piece does, case by case.
LEMMA PieceIs ==
    ASSUME Piece, ~hr.full
    PROVE  day' = day /\ \E s \in Ready : \E c :
              /\ c = (s.hr.counter + 1) % StatvfsEach
              /\ \/ /\ ~s.hr.open /\ (Became(s) \/ Became([s EXCEPT !.hr.counter = c]))
                    /\ written' = written
                 \/ /\ s.hr.open
                    /\ Became([s EXCEPT !.hr.counter = c, !.hr.full = TRUE, !.buffered = <<>>,
                                        !.disk.now[s.hr.path] = @ \o s.buffered])
                    /\ written' = written
                 \/ /\ s.hr.open /\ written' = written + 1
                    /\ Became([s EXCEPT !.hr.counter = c, !.buffered = Append(@, written'),
                                        !.since[s.hr.path].pieces = Append(@, written')])
                 \/ /\ s.hr.open
                    /\ Became([s EXCEPT !.hr.counter = c, !.hr.open = FALSE, !.buffered = <<>>,
                                        !.disk.now[s.hr.path] = @ \o s.buffered])
                    /\ written' = written
<1>1. day' = day
  BY DEF Piece
<1>2. PICK s \in Ready :
        LET p == s.hr.path
            c == (s.hr.counter + 1) % StatvfsEach
        IN
        \/ /\ ~s.hr.open
           /\ Became(IF TooLong \/ ChangeFile THEN s ELSE [s EXCEPT !.hr.counter = c])
           /\ UNCHANGED written
        \/ /\ s.hr.open /\ c = 0
           /\ Became([s EXCEPT !.hr.counter = c, !.hr.full = TRUE, !.buffered = <<>>,
                               !.disk.now[p] = @ \o s.buffered])
           /\ UNCHANGED written
        \/ /\ s.hr.open
           /\ written' = written + 1
           /\ Became([s EXCEPT !.hr.counter = c, !.buffered = Append(@, written'),
                               !.since[p].pieces = Append(@, written')])
        \/ /\ s.hr.open /\ "write" \in Faults
           /\ Became([s EXCEPT !.hr.counter = c, !.hr.open = FALSE, !.buffered = <<>>,
                               !.disk.now[p] = @ \o s.buffered])
           /\ UNCHANGED written
  BY DEF Piece
<1>3. PICK c : c = (s.hr.counter + 1) % StatvfsEach
  OBVIOUS
<1> QED
  BY <1>1, <1>2, <1>3, Zenon

\* A state of a log from its parts.
State(d, h, b, f) == [disk |-> d, hr |-> h, buffered |-> b, since |-> f]

LEMMA BecameSound ==
    ASSUME NEW s, Sound(s), Became(s)
    PROVE  Sound(Now)' /\ hr' = s.hr
  BY SoundNow DEF Became

LEMMA PieceKeeps ==
    ASSUME RotatoryInv, RotatoryAssumption, "rename" \notin Faults, Piece
    PROVE  RotatoryInv'
<1>1. Sound(Now) /\ day \in Nat /\ written \in Nat /\ (~hr.running => ~hr.open)
  BY DEF RotatoryInv
<1>2. CASE hr.full
  <2>1. UNCHANGED <<disk, hr, buffered, since, written, day>> /\ hr.running
    BY <1>2 DEF Piece, RotatoryInv
  <2>2. Sound(Now)'
    BY <1>1, <2>1, SoundNow DEF Now
  <2> QED
    BY <1>1, <2>1, <2>2 DEF RotatoryInv
<1>3. CASE ~hr.full
  <2>1. PICK s \in Ready : \E c :
              /\ c = (s.hr.counter + 1) % StatvfsEach
              /\ \/ /\ ~s.hr.open /\ (Became(s) \/ Became([s EXCEPT !.hr.counter = c]))
                    /\ written' = written
                 \/ /\ s.hr.open
                    /\ Became([s EXCEPT !.hr.counter = c, !.hr.full = TRUE, !.buffered = <<>>,
                                        !.disk.now[s.hr.path] = @ \o s.buffered])
                    /\ written' = written
                 \/ /\ s.hr.open /\ written' = written + 1
                    /\ Became([s EXCEPT !.hr.counter = c, !.buffered = Append(@, written'),
                                        !.since[s.hr.path].pieces = Append(@, written')])
                 \/ /\ s.hr.open
                    /\ Became([s EXCEPT !.hr.counter = c, !.hr.open = FALSE, !.buffered = <<>>,
                                        !.disk.now[s.hr.path] = @ \o s.buffered])
                    /\ written' = written
    BY <1>3, PieceIs
  <2>2. PICK c :
              /\ c = (s.hr.counter + 1) % StatvfsEach
              /\ \/ /\ ~s.hr.open /\ (Became(s) \/ Became([s EXCEPT !.hr.counter = c]))
                    /\ written' = written
                 \/ /\ s.hr.open
                    /\ Became([s EXCEPT !.hr.counter = c, !.hr.full = TRUE, !.buffered = <<>>,
                                        !.disk.now[s.hr.path] = @ \o s.buffered])
                    /\ written' = written
                 \/ /\ s.hr.open /\ written' = written + 1
                    /\ Became([s EXCEPT !.hr.counter = c, !.buffered = Append(@, written'),
                                        !.since[s.hr.path].pieces = Append(@, written')])
                 \/ /\ s.hr.open
                    /\ Became([s EXCEPT !.hr.counter = c, !.hr.open = FALSE, !.buffered = <<>>,
                                        !.disk.now[s.hr.path] = @ \o s.buffered])
                    /\ written' = written
    BY <2>1
  <2>3. /\ Sound(s) /\ s.hr.running = hr.running
        /\ s.hr.open => s.disk.now[s.hr.path] # Absent
    BY <1>1, ReadyKeeps
  <2>4. /\ s \in LogStates
        /\ s.hr \in [running : BOOLEAN, path : Files, open : BOOLEAN, counter : Nat, full : BOOLEAN]
        /\ s.hr.counter \in Nat /\ s.hr.open \in BOOLEAN /\ s.hr.full \in BOOLEAN
    BY <2>3, LogStateIs DEF Sound
  <2>5. c \in Nat
    BY <2>2, <2>4, CounterIs
  <2>6. day' \in Nat
    BY <1>1, <1>3, PieceIs
  <2>7. hr.running
    BY <1>1 DEF Piece, RotatoryInv
  <2>8. PICK sd, sh, sb, ss : /\ s = [disk |-> sd, hr |-> sh, buffered |-> sb, since |-> ss]
                              /\ sd = s.disk /\ sh = s.hr /\ sb = s.buffered /\ ss = s.since
    BY <2>4 DEF LogStates
  <2>9. /\ sh.counter \in Nat /\ sh.path \in Files
        /\ sh \in [running : BOOLEAN, path : Files, open : BOOLEAN, counter : Nat, full : BOOLEAN]
    BY <2>4, <2>8, LogStateIs
  <2>10. CASE ~s.hr.open /\ Became(s) /\ written' = written
    <3>1. Sound(Now)' /\ hr' = s.hr
      BY <2>3, <2>10, BecameSound
    <3> QED
      BY <1>1, <2>3, <2>6, <2>7, <2>10, <3>1 DEF RotatoryInv
  <2>11. CASE ~s.hr.open /\ Became([s EXCEPT !.hr.counter = c]) /\ written' = written
    <3>1. PICK h : h = [sh EXCEPT !.counter = c]
      OBVIOUS
    <3>2. [s EXCEPT !.hr.counter = c] = [disk |-> sd, hr |-> h, buffered |-> sb, since |-> ss]
      BY <2>8, <3>1
    <3>3. /\ h \in [running : BOOLEAN, path : Files, open : BOOLEAN, counter : Nat, full : BOOLEAN]
          /\ h.path = sh.path /\ h.open = sh.open /\ h.running = sh.running
      BY <2>5, <2>9, <3>1
    <3>4. Sound([disk |-> s.disk, hr |-> h, buffered |-> s.buffered, since |-> s.since])
      <4>1. h.path = s.hr.path /\ (~h.open => s.buffered = <<>>)
        BY <2>3, <2>8, <3>3 DEF Sound
      <4> QED
        BY <2>3, <3>3, <4>1, SameFiles
    <3>5. PICK t : t = [disk |-> sd, hr |-> h, buffered |-> sb, since |-> ss]
      OBVIOUS
    <3>6. Sound(t) /\ Became(t) /\ t.hr = h
      BY <2>8, <2>11, <3>2, <3>4, <3>5
    <3>7. Sound(Now)' /\ hr' = h
      BY <3>6, BecameSound
    <3> QED
      BY <1>1, <2>3, <2>6, <2>7, <2>8, <2>11, <3>3, <3>7 DEF RotatoryInv
  <2>12. CASE /\ s.hr.open /\ written' = written + 1
              /\ Became([s EXCEPT !.hr.counter = c, !.buffered = Append(@, written'),
                                  !.since[s.hr.path].pieces = Append(@, written')])
    <3>1. PICK e \in Pos : e = written'
      BY <1>1, <2>12 DEF Pos
    <3>2. PICK h, f : /\ h = [sh EXCEPT !.counter = c]
                      /\ f = [ss EXCEPT ![sh.path].pieces = Append(@, e)]
      OBVIOUS
    <3>3. PICK t : t = [disk |-> sd, hr |-> h, buffered |-> Append(sb, e), since |-> f]
      OBVIOUS
    <3>4. [s EXCEPT !.hr.counter = c, !.buffered = Append(@, written'),
                    !.since[s.hr.path].pieces = Append(@, written')] = t
      <4>1. PICK y, z, q : y = Append(sb, e) /\ z = Append(ss[sh.path].pieces, e) /\ q = sh.path
        OBVIOUS
      <4>2. PICK s1, s2 : s1 = State(sd, h, sb, ss) /\ s2 = State(sd, h, y, ss)
        OBVIOUS
      <4>3. s = State(sd, sh, sb, ss) /\ t = State(sd, h, y, f)
        BY <2>8, <3>3, <4>1 DEF State
      <4>4. [s EXCEPT !.hr.counter = c] = s1
        BY <3>2, <4>2, <4>3 DEF State
      <4>5. [s1 EXCEPT !.buffered = y] = s2
        BY <4>2 DEF State
      <4>6. [ss EXCEPT ![q].pieces = z] = f
        BY <3>2, <4>1
      <4>7. [s2 EXCEPT !.since[q].pieces = z] = t
        <5>1. PICK r : r = [ss[q] EXCEPT !.pieces = z]
          OBVIOUS
        <5>2. [s2 EXCEPT !.since[q].pieces = z] = [s2 EXCEPT !.since = [ss EXCEPT ![q] = r]]
          BY <4>2, <5>1 DEF State
        <5>3. f = [ss EXCEPT ![q] = r]
          BY <4>6, <5>1
        <5> QED
          BY <4>2, <4>3, <5>2, <5>3 DEF State
      <4>8. [s EXCEPT !.hr.counter = c, !.buffered = y, !.since[q].pieces = z] = t
        BY <4>4, <4>5, <4>7
      <4>9. /\ Append(s.buffered, written') = y /\ s.hr.path = q
            /\ Append(s.since[s.hr.path].pieces, written') = z
        BY <2>8, <3>1, <4>1
      <4> QED
        BY <4>8, <4>9
    <3>5. Sound(t)
      BY <2>3, <2>5, <2>8, <2>12, <3>2, <3>3, WrittenKeeps
    <3>6. Sound(Now)' /\ hr' = h
      <4>1. Became(t) /\ t.hr = h
        BY <2>12, <3>3, <3>4
      <4> QED
        BY <3>5, <4>1, BecameSound
    <3>7. h.running = sh.running
      BY <2>9, <3>2
    <3>8. written' \in Nat
      BY <1>1, <2>12
    <3> QED
      BY <2>3, <2>6, <2>7, <2>8, <3>6, <3>7, <3>8 DEF RotatoryInv
  <2>13. ASSUME NEW full \in BOOLEAN, NEW open \in BOOLEAN, s.hr.open,
                Became(Wrote(s, c, full, open, s.disk.now[s.hr.path] \o s.buffered, <<>>, s.since))
         PROVE  Sound(Now)' /\ hr'.running
    <3>1. Sound(Wrote(s, c, full, open, s.disk.now[s.hr.path] \o s.buffered, <<>>, s.since))
      BY <2>3, <2>5, <2>13, StoppedKeeps
    <3>2. PICK t : t = Wrote(s, c, full, open, s.disk.now[s.hr.path] \o s.buffered, <<>>, s.since)
      OBVIOUS
    <3>3. Sound(t) /\ Became(t)
      BY <2>13, <3>1, <3>2
    <3>4. Sound(Now)' /\ hr' = t.hr
      BY <3>3, BecameSound
    <3>5. t.hr = [s.hr EXCEPT !.counter = c, !.full = full, !.open = open]
      BY <3>2 DEF Wrote
    <3> QED
      BY <2>3, <2>4, <2>7, <3>4, <3>5
  <2>14. CASE /\ s.hr.open /\ written' = written
              /\ Became([s EXCEPT !.hr.counter = c, !.hr.full = TRUE, !.buffered = <<>>,
                                  !.disk.now[s.hr.path] = @ \o s.buffered])
    <3>1. PICK x : x = s.disk.now[s.hr.path] \o s.buffered
      OBVIOUS
    <3>2. PICK h, d : /\ h = [sh EXCEPT !.counter = c, !.full = TRUE]
                      /\ d = [sd EXCEPT !.now[sh.path] = x]
      OBVIOUS
    <3>3. [s EXCEPT !.hr.counter = c, !.hr.full = TRUE, !.buffered = <<>>,
                    !.disk.now[s.hr.path] = @ \o s.buffered]
          = [disk |-> d, hr |-> h, buffered |-> <<>>, since |-> ss]
      <4>1. PICK s1, s2, s3, h1, q :
                /\ h1 = [sh EXCEPT !.counter = c] /\ q = sh.path
                /\ s1 = State(sd, h1, sb, ss) /\ s2 = State(sd, h, sb, ss)
                /\ s3 = State(sd, h, <<>>, ss)
        OBVIOUS
      <4>2. s = State(sd, sh, sb, ss)
        BY <2>8 DEF State
      <4>3. [s EXCEPT !.hr.counter = c] = s1
        BY <4>1, <4>2 DEF State
      <4>4. [h1 EXCEPT !.full = TRUE] = h
        BY <3>2, <4>1
      <4>5. [s1 EXCEPT !.hr.full = TRUE] = s2
        BY <4>1, <4>4 DEF State
      <4>6. [s2 EXCEPT !.buffered = <<>>] = s3
        BY <4>1 DEF State
      <4>7. [sd EXCEPT !.now[q] = x] = d
        BY <3>2, <4>1
      <4>8. [s3 EXCEPT !.disk.now[q] = x] = State(d, h, <<>>, ss)
        BY <4>1, <4>7 DEF State
      <4>9. [s EXCEPT !.hr.counter = c, !.hr.full = TRUE, !.buffered = <<>>, !.disk.now[q] = x]
            = State(d, h, <<>>, ss)
        BY <4>3, <4>5, <4>6, <4>8
      <4>10. s.hr.path = q /\ s.disk.now[s.hr.path] \o s.buffered = x
        BY <2>8, <3>1, <4>1
      <4> QED
        BY <4>9, <4>10 DEF State
    <3>4. h = [s.hr EXCEPT !.counter = c, !.full = TRUE, !.open = TRUE]
      BY <2>8, <2>9, <2>14, <3>2
    <3>5. Wrote(s, c, TRUE, TRUE, x, <<>>, s.since)
          = [disk |-> d, hr |-> h, buffered |-> <<>>, since |-> ss]
      BY <2>8, <3>2, <3>4 DEF Wrote
    <3>6. Became(Wrote(s, c, TRUE, TRUE, x, <<>>, s.since))
      BY <2>14, <3>3, <3>5
    <3> QED
      BY <1>1, <2>6, <2>13, <2>14, <3>1, <3>6 DEF RotatoryInv
  <2>15. CASE /\ s.hr.open /\ written' = written
              /\ Became([s EXCEPT !.hr.counter = c, !.hr.open = FALSE, !.buffered = <<>>,
                                  !.disk.now[s.hr.path] = @ \o s.buffered])
    <3>1. PICK x : x = s.disk.now[s.hr.path] \o s.buffered
      OBVIOUS
    <3>2. PICK h, d : /\ h = [sh EXCEPT !.counter = c, !.open = FALSE]
                      /\ d = [sd EXCEPT !.now[sh.path] = x]
      OBVIOUS
    <3>3. [s EXCEPT !.hr.counter = c, !.hr.open = FALSE, !.buffered = <<>>,
                    !.disk.now[s.hr.path] = @ \o s.buffered]
          = [disk |-> d, hr |-> h, buffered |-> <<>>, since |-> ss]
      <4>1. PICK s1, s2, s3, h1, q :
                /\ h1 = [sh EXCEPT !.counter = c] /\ q = sh.path
                /\ s1 = State(sd, h1, sb, ss) /\ s2 = State(sd, h, sb, ss)
                /\ s3 = State(sd, h, <<>>, ss)
        OBVIOUS
      <4>2. s = State(sd, sh, sb, ss)
        BY <2>8 DEF State
      <4>3. [s EXCEPT !.hr.counter = c] = s1
        BY <4>1, <4>2 DEF State
      <4>4. [h1 EXCEPT !.open = FALSE] = h
        BY <3>2, <4>1
      <4>5. [s1 EXCEPT !.hr.open = FALSE] = s2
        BY <4>1, <4>4 DEF State
      <4>6. [s2 EXCEPT !.buffered = <<>>] = s3
        BY <4>1 DEF State
      <4>7. [sd EXCEPT !.now[q] = x] = d
        BY <3>2, <4>1
      <4>8. [s3 EXCEPT !.disk.now[q] = x] = State(d, h, <<>>, ss)
        BY <4>1, <4>7 DEF State
      <4>9. [s EXCEPT !.hr.counter = c, !.hr.open = FALSE, !.buffered = <<>>, !.disk.now[q] = x]
            = State(d, h, <<>>, ss)
        BY <4>3, <4>5, <4>6, <4>8
      <4>10. s.hr.path = q /\ s.disk.now[s.hr.path] \o s.buffered = x
        BY <2>8, <3>1, <4>1
      <4> QED
        BY <4>9, <4>10 DEF State
    <3>4. h = [s.hr EXCEPT !.counter = c, !.full = sh.full, !.open = FALSE]
      BY <2>8, <2>9, <3>2
    <3>5. Wrote(s, c, sh.full, FALSE, x, <<>>, s.since)
          = [disk |-> d, hr |-> h, buffered |-> <<>>, since |-> ss]
      BY <2>8, <3>2, <3>4 DEF Wrote
    <3>6. Became(Wrote(s, c, sh.full, FALSE, x, <<>>, s.since)) /\ sh.full \in BOOLEAN
      BY <2>9, <2>15, <3>3, <3>5
    <3> QED
      BY <1>1, <2>6, <2>13, <2>15, <3>1, <3>6 DEF RotatoryInv
  <2> QED
    BY <2>2, <2>10, <2>11, <2>12, <2>14, <2>15
<1> QED
  BY <1>2, <1>3

\* rotatory_open, rotatory_close and rotatory_flush
LEMMA OpenLogKeeps ==
    ASSUME RotatoryInv, RotatoryAssumption, OpenLog
    PROVE  RotatoryInv'
<1>1. /\ Now.disk = disk /\ Now.hr = hr /\ Now.buffered = buffered /\ Now.since = since
  BY DEF Now
<1>2. /\ disk \in [now : [Files -> Content], old : [Files -> Content]]
      /\ disk.now \in [Files -> Content] /\ disk.old \in [Files -> Content]
      /\ hr.full \in BOOLEAN
      /\ since \in [Files -> [pieces : Texts, old : BOOLEAN]]
  BY <1>1, LogStateIs DEF Sound, RotatoryInv
<1>3. buffered = <<>> /\ day \in Nat
  BY <1>1 DEF OpenLog, RotatoryInv, Sound
<1>4. PICK n : n = NameOf(day)
  OBVIOUS
<1>5. n \in Files
  BY <1>3, <1>4, NameIs
<1>6. PICK x : x = IF disk.now[n] = Absent THEN <<>> ELSE disk.now[n]
  OBVIOUS
<1>7. /\ disk' = [disk EXCEPT !.now[n] = x]
      /\ hr' = [running |-> TRUE, path |-> n, open |-> TRUE, counter |-> 0, full |-> hr.full]
      /\ buffered' = <<>> /\ since' = since /\ day' = day /\ written' = written /\ part' = part
  BY <1>3, <1>4, <1>6 DEF OpenLog
<1>8. x \in Content
  BY <1>2, <1>5, <1>6, AbsentIsNot DEF Content
<1>9. /\ disk' \in [now : [Files -> Content], old : [Files -> Content]]
      /\ disk'.now[n] = x /\ disk'.old = disk.old
      /\ \A m \in Files : m # n => disk'.now[m] = disk.now[m]
  BY <1>2, <1>5, <1>7, <1>8, NowIs
<1>10. ASSUME NEW m \in Files
       PROVE  Tells(since[m].pieces, since[m].old, disk'.old[m], disk'.now[m], <<>>)
  <2>1. Tells(since[m].pieces, since[m].old, disk.old[m], disk.now[m], <<>>)
    BY <1>1, <1>3 DEF RotatoryInv, Sound, FileTells, Held
  <2>2. CASE m = n /\ disk.now[n] = Absent
    BY <1>6, <1>9, <2>1, <2>2, MadeTells
  <2>3. CASE ~(m = n /\ disk.now[n] = Absent)
    BY <1>6, <1>9, <2>1, <2>3
  <2> QED
    BY <2>2, <2>3
<1>11. PICK d, h : d = disk' /\ h = hr'
  OBVIOUS
<1>12. Sound([disk |-> d, hr |-> h, buffered |-> <<>>, since |-> since])
  <2>1. /\ d \in [now : [Files -> Content], old : [Files -> Content]]
        /\ h \in [running : BOOLEAN, path : Files, open : BOOLEAN, counter : Nat, full : BOOLEAN]
        /\ <<>> \in Texts
    BY <1>2, <1>5, <1>7, <1>9, <1>11, AbsentIsNot
  <2>2. \A m \in Files : Tells(since[m].pieces, since[m].old, d.old[m], d.now[m],
                               IF m = h.path THEN <<>> ELSE <<>>)
    BY <1>10, <1>11
  <2> QED
    BY <1>2, <2>1, <2>2, SoundIs
<1>13. Sound(Now)'
  BY <1>7, <1>11, <1>12, SoundNow
<1> QED
  BY <1>7, <1>13 DEF RotatoryInv

LEMMA CloseLogKeeps ==
    ASSUME RotatoryInv, CloseLog
    PROVE  RotatoryInv'
<1>1. hr \in [running : BOOLEAN, path : Files, open : BOOLEAN, counter : Nat, full : BOOLEAN]
  BY LogStateIs DEF Sound, RotatoryInv, Now
<1>2. /\ hr' \in [running : BOOLEAN, path : Files, open : BOOLEAN, counter : Nat, full : BOOLEAN]
      /\ hr'.path = hr.path /\ ~hr'.open /\ ~hr'.running
  BY <1>1 DEF CloseLog
<1>3. PICK h : h = hr'
  OBVIOUS
<1>4. Sound([disk |-> [disk EXCEPT !.now = Flushed], hr |-> h, buffered |-> <<>>, since |-> since])
  BY <1>2, <1>3, FlushedKeeps DEF RotatoryInv
<1>5. Sound(Now)'
  BY <1>3, <1>4, SoundNow DEF CloseLog
<1> QED
  BY <1>2, <1>5 DEF RotatoryInv, CloseLog

LEMMA FlushKeeps ==
    ASSUME RotatoryInv, Flush
    PROVE  RotatoryInv'
<1>1. hr \in [running : BOOLEAN, path : Files, open : BOOLEAN, counter : Nat, full : BOOLEAN]
  BY LogStateIs DEF Sound, RotatoryInv, Now
<1>2. Sound([disk |-> [disk EXCEPT !.now = Flushed], hr |-> hr, buffered |-> <<>>, since |-> since])
  BY <1>1, FlushedKeeps DEF RotatoryInv
<1>3. Sound(Now)'
  BY <1>2, SoundNow DEF Flush
<1> QED
  BY <1>3 DEF RotatoryInv, Flush

\* A file begins again, empty or not there: rotatory_trunk, and someone who removes it.
LEMMA BegunKeeps ==
    ASSUME RotatoryInv, NEW n \in Files, NEW x \in {<<>>, Absent},
           disk' = [disk EXCEPT !.now[n] = x], since' = [since EXCEPT ![n] = Begun],
           buffered' = IF n = hr.path THEN <<>> ELSE buffered, hr' = hr
    PROVE  Sound(Now)'
<1>1. /\ Now.disk = disk /\ Now.hr = hr /\ Now.buffered = buffered /\ Now.since = since
  BY DEF Now
<1>2. /\ disk \in [now : [Files -> Content], old : [Files -> Content]]
      /\ disk.now \in [Files -> Content] /\ disk.old \in [Files -> Content]
      /\ hr \in [running : BOOLEAN, path : Files, open : BOOLEAN, counter : Nat, full : BOOLEAN]
      /\ since \in [Files -> [pieces : Texts, old : BOOLEAN]] /\ buffered \in Texts
  BY <1>1, LogStateIs DEF Sound, RotatoryInv
<1>3. x \in Content
  BY AbsentIsNot DEF Content
<1>4. /\ disk' \in [now : [Files -> Content], old : [Files -> Content]]
      /\ disk'.now[n] = x /\ disk'.old = disk.old
      /\ \A m \in Files : m # n => disk'.now[m] = disk.now[m]
  BY <1>2, <1>3, NowIs
<1>5. /\ since' \in [Files -> [pieces : Texts, old : BOOLEAN]]
      /\ since'[n] = Begun /\ \A m \in Files : m # n => since'[m] = since[m]
  <2>1. Begun \in [pieces : Texts, old : BOOLEAN]
    BY AbsentIsNot DEF Begun
  <2> QED
    BY <1>2, <2>1
<1>6. PICK d, b, f : d = disk' /\ b = buffered' /\ f = since'
  OBVIOUS
<1>7. ASSUME NEW m \in Files
      PROVE  Tells(f[m].pieces, f[m].old, d.old[m], d.now[m], IF m = hr.path THEN b ELSE <<>>)
  <2>1. CASE m = n
    <3>1. f[m].pieces = <<>> /\ f[m].old = FALSE
      BY <1>5, <1>6, <2>1 DEF Begun
    <3>2. (IF m = hr.path THEN b ELSE <<>>) = <<>>
      BY <1>6, <2>1
    <3>3. d.now[m] \in {<<>>, Absent}
      BY <1>4, <1>6, <2>1
    <3>4. Tells(<<>>, FALSE, d.old[m], d.now[m], <<>>)
      BY <3>3, NothingTells
    <3> QED
      BY <3>1, <3>2, <3>4
  <2>2. CASE m # n
    <3>1. Tells(since[m].pieces, since[m].old, disk.old[m], disk.now[m],
                IF m = hr.path THEN buffered ELSE <<>>)
      BY <1>1 DEF RotatoryInv, Sound, FileTells, Held
    <3>2. (IF m = hr.path THEN b ELSE <<>>) = (IF m = hr.path THEN buffered ELSE <<>>)
      BY <1>6, <2>2
    <3> QED
      BY <1>4, <1>5, <1>6, <2>2, <3>1, <3>2
  <2> QED
    BY <2>1, <2>2
<1>8. Sound([disk |-> d, hr |-> hr, buffered |-> b, since |-> f])
  <2>1. b \in Texts
    BY <1>2, <1>6, AbsentIsNot
  <2>2. ~hr.open => b = <<>>
    BY <1>1, <1>6 DEF RotatoryInv, Sound
  <2>3. d.now[hr.path] = Absent => b = <<>>
    <3>1. CASE hr.path = n
      BY <1>6, <3>1
    <3>2. CASE hr.path # n
      BY <1>1, <1>2, <1>4, <1>6, <3>2 DEF RotatoryInv, Sound
    <3> QED
      BY <3>1, <3>2
  <2> QED
    BY <1>2, <1>4, <1>5, <1>6, <1>7, <2>1, <2>2, <2>3, SoundIs
<1> QED
  BY <1>6, <1>8, SoundNow

LEMMA TrunkKeeps ==
    ASSUME RotatoryInv, Trunk
    PROVE  RotatoryInv'
<1>1. hr.path \in Files
  BY LogStateIs DEF Sound, RotatoryInv, Now
<1>2. Sound(Now)'
  BY <1>1, BegunKeeps DEF Trunk
<1> QED
  BY <1>2 DEF RotatoryInv, Trunk

LEMMA RemoveFileKeeps ==
    ASSUME RotatoryInv, RemoveFile
    PROVE  RotatoryInv'
<1>1. Sound(Now)'
  BY BegunKeeps DEF RemoveFile
<1> QED
  BY <1>1 DEF RotatoryInv, RemoveFile

\* The process dies.
LEMMA DieKeeps ==
    ASSUME RotatoryInv, Die
    PROVE  RotatoryInv'
<1>1. /\ Now.disk = disk /\ Now.hr = hr /\ Now.buffered = buffered /\ Now.since = since
  BY DEF Now
<1>2. /\ disk \in [now : [Files -> Content], old : [Files -> Content]]
      /\ disk.now \in [Files -> Content] /\ disk.old \in [Files -> Content]
      /\ hr \in [running : BOOLEAN, path : Files, open : BOOLEAN, counter : Nat, full : BOOLEAN]
      /\ hr.path \in Files
      /\ since \in [Files -> [pieces : Texts, old : BOOLEAN]] /\ buffered \in Texts
  BY <1>1, LogStateIs DEF Sound, RotatoryInv
<1>3. PICK p, x : p = hr.path /\ x = SubSeq(since[p].pieces, 1, Len(since[p].pieces) - Len(buffered))
  OBVIOUS
<1>4. /\ since[p].pieces \in Texts /\ since[p].old \in BOOLEAN
      /\ disk.old[p] \in Content /\ disk.now[p] \in Content
  BY <1>2, <1>3
<1>5. \A m \in Files : Tells(since[m].pieces, since[m].old, disk.old[m], disk.now[m],
                             IF m = p THEN buffered ELSE <<>>)
  BY <1>1, <1>3 DEF RotatoryInv, Sound, FileTells, Held
<1>6. x \in Texts /\ Tells(x, since[p].old, disk.old[p], disk.now[p], <<>>)
  <2>1. Tells(since[p].pieces, since[p].old, disk.old[p], disk.now[p], buffered)
    BY <1>2, <1>3, <1>5
  <2> QED
    BY <1>2, <1>3, <1>4, <2>1, LostTells
<1>7. PICK h, f : h = hr' /\ f = since'
  OBVIOUS
<1>8. /\ h \in [running : BOOLEAN, path : Files, open : BOOLEAN, counter : Nat, full : BOOLEAN]
      /\ h.path = p /\ ~h.open /\ ~h.running
  BY <1>2, <1>3, <1>7 DEF Die
<1>9. /\ f \in [Files -> [pieces : Texts, old : BOOLEAN]]
      /\ f[p].pieces = x /\ f[p].old = since[p].old
      /\ \A m \in Files : m # p => f[m] = since[m]
  <2>1. PICK r : r = [since[p] EXCEPT !.pieces = x]
    OBVIOUS
  <2>2. since[p] \in [pieces : Texts, old : BOOLEAN]
    BY <1>2, <1>3
  <2>3. r \in [pieces : Texts, old : BOOLEAN] /\ r.pieces = x /\ r.old = since[p].old
    BY <1>6, <2>1, <2>2
  <2>4. f = [since EXCEPT ![p] = r]
    BY <1>3, <1>7, <2>1 DEF Die
  <2> QED
    BY <1>2, <1>3, <2>3, <2>4
<1>10. ASSUME NEW m \in Files
       PROVE  Tells(f[m].pieces, f[m].old, disk.old[m], disk.now[m], <<>>)
  <2>1. CASE m = p
    BY <1>6, <1>9, <2>1
  <2>2. CASE m # p
    BY <1>5, <1>9, <2>2
  <2> QED
    BY <2>1, <2>2
<1>11. Sound([disk |-> disk, hr |-> h, buffered |-> <<>>, since |-> f])
  <2>1. <<>> \in Texts
    BY AbsentIsNot
  <2>2. \A m \in Files : Tells(f[m].pieces, f[m].old, disk.old[m], disk.now[m],
                               IF m = h.path THEN <<>> ELSE <<>>)
    BY <1>10
  <2> QED
    BY <1>2, <1>8, <1>9, <2>1, <2>2, SoundIs
<1>12. Sound(Now)'
  BY <1>7, <1>11, SoundNow DEF Die
<1> QED
  BY <1>7, <1>8, <1>12 DEF RotatoryInv, Die

LEMMA RotatoryBegins ==
    ASSUME RotatoryAssumption, LogInit
    PROVE  RotatoryInv
<1>1. PICK d, h, f :
          /\ d = [now |-> [n \in Files |-> Absent], old |-> [n \in Files |-> Absent]]
          /\ h = [running |-> FALSE, path |-> NameOf(0), open |-> FALSE, counter |-> 0, full |-> FALSE]
          /\ f = [n \in Files |-> Begun]
  OBVIOUS
<1>2. NameOf(0) \in Files /\ <<>> \in Texts /\ Absent \in Content
  BY NameIs, AbsentIsNot DEF Content
<1>3. Sound([disk |-> d, hr |-> h, buffered |-> <<>>, since |-> f])
  <2>1. /\ d \in [now : [Files -> Content], old : [Files -> Content]]
        /\ h \in [running : BOOLEAN, path : Files, open : BOOLEAN, counter : Nat, full : BOOLEAN]
    BY <1>1, <1>2
  <2>2. f \in [Files -> [pieces : Texts, old : BOOLEAN]]
    BY <1>1, <1>2 DEF Begun
  <2>3. \A n \in Files : Tells(f[n].pieces, f[n].old, d.old[n], d.now[n],
                               IF n = h.path THEN <<>> ELSE <<>>)
    BY <1>1, NothingTells DEF Begun
  <2> QED
    BY <1>2, <2>1, <2>2, <2>3, SoundIs
<1>4. Now = [disk |-> d, hr |-> h, buffered |-> <<>>, since |-> f]
  BY <1>1 DEF LogInit, Now
<1>5. Sound(Now)
  BY <1>3, <1>4
<1> QED
  BY <1>5 DEF RotatoryInv, LogInit

\* 03_rotatory.c, of a log whose files can be renamed: whatever the date does, whichever
\* call fails besides, whoever removes a file and whenever the process dies, what is
\* left of what went to a file since it began is its end, in its order, and a part of it
\* is not left only when the file before was too long.
THEOREM RotatoryInvariance ==
    ASSUME "rename" \notin Faults
    PROVE  LogSpec => []RotatoryInv
<1>1. LogInit => RotatoryInv
  BY RotatoryAssumption, RotatoryBegins
<1>2. RotatoryInv /\ [LogNext]_lvars => RotatoryInv'
  <2> SUFFICES ASSUME RotatoryInv, [LogNext]_lvars
               PROVE  RotatoryInv'
    OBVIOUS
  <2>1. CASE OpenLog
    BY <2>1, RotatoryAssumption, OpenLogKeeps
  <2>2. CASE CloseLog
    BY <2>2, CloseLogKeeps
  <2>3. CASE Flush
    BY <2>3, FlushKeeps
  <2>4. CASE Trunk
    BY <2>4, TrunkKeeps
  <2>5. CASE Write
    <3>1. UNCHANGED <<day, disk, hr, buffered, written, since>> /\ hr.running
      BY <2>5 DEF Write
    <3>2. Sound(Now)'
      BY <3>1, SoundNow DEF RotatoryInv, Now
    <3> QED
      BY <3>1, <3>2 DEF RotatoryInv
  <2>6. CASE Piece
    BY <2>6, RotatoryAssumption, PieceKeeps
  <2>7. CASE Tick
    <3>1. UNCHANGED <<disk, hr, buffered, part, written, since>> /\ day' = day + 1
      BY <2>7 DEF Tick
    <3>2. Sound(Now)'
      BY <3>1, SoundNow DEF RotatoryInv, Now
    <3> QED
      BY <3>1, <3>2 DEF RotatoryInv
  <2>8. CASE RemoveFile
    BY <2>8, RemoveFileKeeps
  <2>9. CASE Die
    BY <2>9, DieKeeps
  <2>10. CASE UNCHANGED lvars
    <3>1. UNCHANGED <<day, disk, hr, buffered, part, written, since>>
      BY <2>10 DEF lvars
    <3>2. Sound(Now)'
      BY <3>1, SoundNow DEF RotatoryInv, Now
    <3> QED
      BY <3>1, <3>2 DEF RotatoryInv
  <2> QED
    BY <2>1, <2>2, <2>3, <2>4, <2>5, <2>6, <2>7, <2>8, <2>9, <2>10 DEF LogNext
<1> QED
  BY <1>1, <1>2, PTL DEF LogSpec

\* 03_rotatory.c, of a log whose files can be renamed: of every file, the last pieces that
\* went to it are there, in their order and without a gap: all of them, or more than a
\* file too long has.
THEOREM RecentAreKept ==
    ASSUME "rename" \notin Faults
    PROVE  LogSpec => []KeepsRecent
<1>1. RotatoryInv => KeepsRecent
  <2> SUFFICES ASSUME RotatoryInv, NEW n \in Files
               PROVE  /\ IsSuffix(Kept(n), since[n].pieces)
                      /\ Len(Kept(n)) < Len(since[n].pieces) => Len(Kept(n)) > MaxSize
    BY DEF KeepsRecent
  <2>1. /\ Now.disk = disk /\ Now.hr = hr /\ Now.buffered = buffered /\ Now.since = since
    BY DEF Now
  <2>2. /\ disk.now[n] \in Content /\ disk.old[n] \in Content /\ buffered \in Texts
        /\ since[n].pieces \in Texts /\ since[n].old \in BOOLEAN
    BY <2>1, LogStateIs DEF Sound, RotatoryInv
  <2>3. PICK h : h = IF n = hr.path THEN buffered ELSE <<>>
    OBVIOUS
  <2>4. h \in Texts /\ Tells(since[n].pieces, since[n].old, disk.old[n], disk.now[n], h)
    BY <2>1, <2>2, <2>3, AbsentIsNot DEF RotatoryInv, Sound, FileTells, Held
  <2>5. Kept(n) = (IF since[n].old THEN disk.old[n] ELSE <<>>)
                  \o (IF disk.now[n] = Absent THEN <<>> ELSE disk.now[n]) \o h
    BY <2>3 DEF Kept
  <2>6. MaxSize \in Nat
    BY RotatoryAssumption
  <2> QED
    BY <2>2, <2>4, <2>5, <2>6, TellsEnd
<1>2. LogSpec => []RotatoryInv
  BY RotatoryInvariance
<1> QED
  BY <1>1, <1>2, PTL

=============================================================================
