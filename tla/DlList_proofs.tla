--------------------------- MODULE DlList_proofs ---------------------------
(***************************************************************************)
(* Proofs about the list libraries, when callers take no liberties:        *)
(* DlList, for lists of any length: the pointers are the sequences.        *)
(* RcList, for any lists, resources and instances: what refers to what,    *)
(* and no loop of a walk holds what has been freed.                        *)
(***************************************************************************)
EXTENDS DlList, RcList, FiniteSetTheorems, WellFoundedInduction, NaturalsInduction, TLAPS

IInv == TypeOK /\ Linked /\ ~aborted

-----------------------------------------------------------------------------
(* Sequences *)

\* t is s with e at place n.
Inserted(s, n, e, t) ==
    /\ Len(t) = Len(s) + 1
    /\ \A k \in 1..(Len(s) + 1) : /\ k < n => t[k] = s[k]
                                  /\ k = n => t[k] = e
                                  /\ k > n => t[k] = s[k - 1]

\* t is s without its place n.
Removed(s, n, t) ==
    /\ Len(t) = Len(s) - 1
    /\ \A k \in 1..(Len(s) - 1) : /\ k < n => t[k] = s[k]
                                  /\ k >= n => t[k] = s[k + 1]

LEMMA InsertAtProps ==
    ASSUME NEW S, NEW s \in Seq(S), NEW n \in 1..(Len(s) + 1), NEW e \in S
    PROVE  InsertAt(s, n, e) \in Seq(S) /\ Inserted(s, n, e, InsertAt(s, n, e))
<1> DEFINE a == SubSeq(s, 1, n - 1)
           b == SubSeq(s, n, Len(s))
           c == a \o <<e>>
<1>1. n \in Int /\ Len(s) \in Nat /\ 1 <= n /\ n <= Len(s) + 1
  OBVIOUS
<1>2. a \in Seq(S) /\ Len(a) = n - 1 /\ \A k \in 1..(n - 1) : a[k] = s[k]
  BY <1>1
<1>3. b \in Seq(S) /\ Len(b) = Len(s) - n + 1 /\ \A k \in 1..(Len(s) - n + 1) : b[k] = s[k + n - 1]
  BY <1>1
<1>4. InsertAt(s, n, e) = c \o b
  BY DEF InsertAt
<1> HIDE DEF a, b
<1>5. c \in Seq(S) /\ Len(c) = n /\ c[n] = e /\ \A k \in 1..(n - 1) : c[k] = a[k]
  BY <1>1, <1>2
<1> HIDE DEF c
<1>6. c \o b \in Seq(S) /\ Len(c \o b) = Len(s) + 1
  BY <1>1, <1>3, <1>5
<1>7. ASSUME NEW k \in 1..(Len(s) + 1)
      PROVE  /\ k < n => (c \o b)[k] = s[k]
             /\ k = n => (c \o b)[k] = e
             /\ k > n => (c \o b)[k] = s[k - 1]
  <2>1. CASE k < n
    <3>1. (c \o b)[k] = c[k] /\ k \in 1..(n - 1)
      BY <1>1, <1>3, <1>5, <2>1
    <3>2. (c \o b)[k] = s[k]
      BY <1>2, <1>5, <3>1
    <3> QED
      BY <1>1, <2>1, <3>2
  <2>2. CASE k = n
    <3>1. (c \o b)[k] = c[k]
      BY <1>1, <1>3, <1>5, <2>2
    <3>2. (c \o b)[k] = e
      BY <1>5, <2>2, <3>1
    <3> QED
      BY <1>1, <2>2, <3>2
  <2>3. CASE k > n
    <3>1. (c \o b)[k] = b[k - n]
      BY <1>1, <1>3, <1>5, <2>3
    <3>2. k - n \in 1..(Len(s) - n + 1) /\ (k - n) + n - 1 = k - 1
      BY <1>1, <2>3
    <3>3. (c \o b)[k] = s[k - 1]
      BY <1>3, <3>1, <3>2
    <3> QED
      BY <1>1, <2>3, <3>3
  <2> QED
    BY <1>1, <2>1, <2>2, <2>3
<1> QED
  BY <1>4, <1>6, <1>7 DEF Inserted

LEMMA RemoveAtProps ==
    ASSUME NEW S, NEW s \in Seq(S), NEW n \in DOMAIN s
    PROVE  RemoveAt(s, n) \in Seq(S) /\ Removed(s, n, RemoveAt(s, n))
<1> DEFINE a == SubSeq(s, 1, n - 1)
           b == SubSeq(s, n + 1, Len(s))
<1>1. n \in 1..Len(s) /\ Len(s) \in Nat
  OBVIOUS
<1>2. a \in Seq(S) /\ Len(a) = n - 1 /\ \A k \in 1..(n - 1) : a[k] = s[k]
  BY <1>1
<1>3. b \in Seq(S) /\ Len(b) = Len(s) - n /\ \A k \in 1..(Len(s) - n) : b[k] = s[k + n]
  BY <1>1
<1>4. RemoveAt(s, n) = a \o b
  BY DEF RemoveAt
<1> HIDE DEF a, b
<1> QED
  BY <1>1, <1>2, <1>3, <1>4 DEF Removed

-----------------------------------------------------------------------------
(* Insertions *)

\* What an insertion of the item i at the place n of the list l does.
Spliced(l, n, i) ==
    LET s == order[l]
        b == IF n = 1 THEN Null ELSE s[n - 1]
        a == IF n = Len(s) + 1 THEN Null ELSE s[n]
    IN  /\ order' = [order EXCEPT ![l] = order'[l]]
        /\ order'[l] \in Seq(Items) /\ Inserted(s, n, i, order'[l])
        /\ head' = [head EXCEPT ![l] = IF n = 1 THEN i ELSE head[l]]
        /\ tail' = [tail EXCEPT ![l] = IF n = Len(s) + 1 THEN i ELSE tail[l]]
        /\ prev' \in [Items -> Items \union {Null}]
        /\ next' \in [Items -> Items \union {Null}]
        /\ prev'[i] = b /\ next'[i] = a
        /\ \A j \in Items \ {i} : /\ next'[j] = IF j = b THEN i ELSE next[j]
                                  /\ prev'[j] = IF j = a THEN i ELSE prev[j]

LEMMA SplicedKeeps ==
    ASSUME IInv, NEW l \in Lists, NEW i \in Items, NEW n \in 1..(Len(order[l]) + 1),
           Unlinked(i), Spliced(l, n, i), Owned(l, i)
    PROVE  IInv'
<1>a. TypeOK /\ Linked /\ ~aborted /\ order[l] \in Seq(Items)
  BY DEF IInv, TypeOK
<1>b. PICK s \in Seq(Items) : s = order[l]
  BY <1>a
<1>1. /\ TypeOK /\ Linked /\ ~aborted
      /\ s \in Seq(Items) /\ Len(s) \in Nat /\ DOMAIN s = 1..Len(s) /\ n \in Nat
      /\ n \in 1..(Len(s) + 1)
  BY <1>a, <1>b
<1>c. PICK t \in Seq(Items) : t = order'[l] /\ Inserted(s, n, i, t)
  BY <1>b DEF Spliced
<1>d. PICK b \in Items \union {Null} : b = IF n = 1 THEN Null ELSE s[n - 1]
  BY <1>1
<1>e. PICK a \in Items \union {Null} : a = IF n = Len(s) + 1 THEN Null ELSE s[n]
  BY <1>1
<1>f. /\ order' = [order EXCEPT ![l] = t]
      /\ head' = [head EXCEPT ![l] = IF n = 1 THEN i ELSE head[l]]
      /\ tail' = [tail EXCEPT ![l] = IF n = Len(s) + 1 THEN i ELSE tail[l]]
      /\ prev' \in [Items -> Items \union {Null}]
      /\ next' \in [Items -> Items \union {Null}]
      /\ prev'[i] = b /\ next'[i] = a
      /\ \A j \in Items \ {i} : /\ next'[j] = IF j = b THEN i ELSE next[j]
                                /\ prev'[j] = IF j = a THEN i ELSE prev[j]
  BY <1>b, <1>c, <1>d, <1>e DEF Spliced
<1>2. /\ t \in Seq(Items) /\ Len(t) = Len(s) + 1 /\ DOMAIN t = 1..(Len(s) + 1)
      /\ t[n] = i
      /\ \A k \in 1..(Len(s) + 1) : /\ k < n => t[k] = s[k]
                                    /\ k = n => t[k] = i
                                    /\ k > n => t[k] = s[k - 1]
  BY <1>1, <1>c DEF Inserted
<1>3. /\ order' \in [Lists -> Seq(Items)] /\ order'[l] = t
      /\ \A m \in Lists : m # l => order'[m] = order[m]
  BY <1>1, <1>f DEF TypeOK
<1>4. /\ owner' = [owner EXCEPT ![i] = l] /\ size' = [size EXCEPT ![l] = @ + 1]
      /\ flushing' = flushing /\ aborted' = aborted
  BY DEF Owned
<1>5. TypeOK'
  <2>1. head' \in [Lists -> Items \union {Null}] /\ tail' \in [Lists -> Items \union {Null}]
    BY <1>1, <1>f DEF TypeOK
  <2>2. size' \in [Lists -> Int] /\ owner' \in [Items -> Lists \union {Null}]
    BY <1>1, <1>4 DEF TypeOK
  <2> QED
    BY <1>1, <1>3, <1>4, <1>f, <2>1, <2>2 DEF TypeOK
<1>6. EndsAgree'
  <2>1. ASSUME NEW m \in Lists, m # l
        PROVE  head'[m] = FirstOf(order'[m]) /\ tail'[m] = LastOf(order'[m]) /\ size'[m] = Len(order'[m])
    BY <1>1, <1>3, <1>4, <1>f, <2>1 DEF TypeOK, Linked, EndsAgree, FirstOf, LastOf
  <2>2. head'[l] = t[1]
    <3>1. n = 1 \/ (s # <<>> /\ t[1] = s[1])
      BY <1>1, <1>2
    <3> QED
      BY <1>1, <1>2, <1>b, <1>f, <3>1 DEF TypeOK, Linked, EndsAgree, FirstOf
  <2>3. tail'[l] = t[Len(t)]
    <3>1. n = Len(s) + 1 \/ (s # <<>> /\ t[Len(t)] = s[Len(s)])
      BY <1>1, <1>2
    <3> QED
      BY <1>1, <1>2, <1>b, <1>f, <3>1 DEF TypeOK, Linked, EndsAgree, LastOf
  <2>4. size'[l] = Len(t)
    BY <1>1, <1>2, <1>4, <1>b DEF TypeOK, Linked, EndsAgree
  <2> QED
    BY <1>2, <1>3, <2>1, <2>2, <2>3, <2>4 DEF EndsAgree, FirstOf, LastOf
<1>7. \A m \in Lists : \A k \in DOMAIN order[m] : order[m][k] # i /\ order[m][k] \in Items
  <2>1. \A m \in Lists : \A k \in DOMAIN order[m] : owner[order[m][k]] = m /\ order[m][k] \in Items
    BY <1>1 DEF TypeOK, Linked, WalksAgree
  <2>2. owner[i] = Null
    BY DEF Unlinked
  <2> QED
    BY <2>1, <2>2, DlListAssumption
<1>8. \A m \in Lists, o \in Lists : \A k \in DOMAIN order[m], j \in DOMAIN order[o] :
         order[m][k] = order[o][j] => m = o /\ k = j
  <2>1. \A m \in Lists : \A k \in DOMAIN order[m] : owner[order[m][k]] = m
    BY <1>1 DEF Linked, WalksAgree
  <2>2. \A m \in Lists : \A k, j \in DOMAIN order[m] : order[m][k] = order[m][j] => k = j
    BY <1>1 DEF Linked, OwnersAgree
  <2> QED
    BY <2>1, <2>2
<1>9. WalksAgree'
  <2>1. ASSUME NEW m \in Lists, m # l, NEW k \in DOMAIN order[m]
        PROVE  /\ next'[order[m][k]] = next[order[m][k]]
               /\ prev'[order[m][k]] = prev[order[m][k]]
               /\ owner'[order[m][k]] = owner[order[m][k]]
    <3>1. order[m][k] # i /\ order[m][k] \in Items
      BY <1>7, <2>1
    <3>2. \A j \in DOMAIN s : order[m][k] # s[j]
      BY <1>8, <1>b, <2>1
    <3>3. order[m][k] # Null
      BY <3>1, DlListAssumption
    <3>4. order[m][k] # a /\ order[m][k] # b
      BY <1>1, <1>d, <1>e, <3>2, <3>3
    <3>5. owner'[order[m][k]] = owner[order[m][k]]
      BY <1>1, <1>4, <3>1 DEF TypeOK
    <3> QED
      BY <1>f, <3>1, <3>4, <3>5
  <2>2. ASSUME NEW m \in Lists, m # l, NEW k \in DOMAIN order'[m]
        PROVE  /\ next'[order'[m][k]] = IF k = Len(order'[m]) THEN Null ELSE order'[m][k + 1]
               /\ prev'[order'[m][k]] = IF k = 1 THEN Null ELSE order'[m][k - 1]
               /\ owner'[order'[m][k]] = m
    BY <1>1, <1>3, <2>1, <2>2 DEF Linked, WalksAgree
  <2>3. ASSUME NEW k \in 1..(Len(s) + 1)
        PROVE  /\ next'[t[k]] = IF k = Len(s) + 1 THEN Null ELSE t[k + 1]
               /\ prev'[t[k]] = IF k = 1 THEN Null ELSE t[k - 1]
               /\ owner'[t[k]] = l
    <3>1. CASE k = n
      <4>1. k # Len(s) + 1 => t[k + 1] = s[k]
        BY <1>1, <1>2, <3>1
      <4>2. k # 1 => t[k - 1] = s[k - 1]
        BY <1>1, <1>2, <3>1
      <4>3. t[k] = i
        BY <1>2, <3>1
      <4>4. owner'[i] = l
        BY <1>1, <1>4 DEF TypeOK
      <4> QED
        BY <1>d, <1>e, <1>f, <3>1, <4>1, <4>2, <4>3, <4>4
    <3>2. CASE k # n
      <4>1. PICK j \in DOMAIN s : t[k] = s[j] /\ j = IF k < n THEN k ELSE k - 1
        <5>1. CASE k < n
          BY <1>1, <1>2, <2>3, <5>1
        <5>2. CASE k > n
          BY <1>1, <1>2, <2>3, <5>2
        <5> QED
          BY <1>1, <2>3, <3>2, <5>1, <5>2
      <4>2. /\ s[j] \in Items /\ s[j] # i /\ s[j] # Null
            /\ next[s[j]] = IF j = Len(s) THEN Null ELSE s[j + 1]
            /\ prev[s[j]] = IF j = 1 THEN Null ELSE s[j - 1]
            /\ owner[s[j]] = l
        <5>1. s[j] \in Items /\ s[j] # i /\ s[j] # Null
          BY <1>7, <1>b, DlListAssumption
        <5>2. \A m \in Lists : \A q \in DOMAIN order[m] :
                 /\ next[order[m][q]] = IF q = Len(order[m]) THEN Null ELSE order[m][q + 1]
                 /\ prev[order[m][q]] = IF q = 1 THEN Null ELSE order[m][q - 1]
                 /\ owner[order[m][q]] = m
          BY <1>1 DEF Linked, WalksAgree
        <5>3. /\ next[order[l][j]] = IF j = Len(order[l]) THEN Null ELSE order[l][j + 1]
              /\ prev[order[l][j]] = IF j = 1 THEN Null ELSE order[l][j - 1]
              /\ owner[order[l][j]] = l
          BY <1>b, <5>2
        <5> QED
          BY <1>b, <5>1, <5>3
      <4>3. /\ n # 1 => (s[j] = s[n - 1] <=> j = n - 1)
            /\ n # Len(s) + 1 => (s[j] = s[n] <=> j = n)
        BY <1>1, <1>8, <1>b
      <4>4. next'[s[j]] = IF n # 1 /\ j = n - 1 THEN i ELSE next[s[j]]
        BY <1>1, <1>d, <1>e, <1>f, <4>2, <4>3
      <4>5. prev'[s[j]] = IF n # Len(s) + 1 /\ j = n THEN i ELSE prev[s[j]]
        BY <1>1, <1>d, <1>e, <1>f, <4>2, <4>3
      <4>6. owner'[t[k]] = l
        BY <1>1, <1>4, <4>1, <4>2 DEF TypeOK
      <4>7. next'[t[k]] = IF k = Len(s) + 1 THEN Null ELSE t[k + 1]
        <5>1. CASE k < n
          BY <1>1, <1>2, <2>3, <4>1, <4>2, <4>4, <5>1
        <5>2. CASE k > n
          <6>1. j = k - 1 /\ j # n - 1 /\ (j = Len(s) <=> k = Len(s) + 1)
            BY <1>1, <2>3, <4>1, <5>2
          <6>2. next'[t[k]] = IF k = Len(s) + 1 THEN Null ELSE s[j + 1]
            BY <4>1, <4>2, <4>4, <6>1
          <6>3. k # Len(s) + 1 => t[k + 1] = s[j + 1]
            BY <1>1, <1>2, <2>3, <5>2, <6>1
          <6> QED
            BY <6>2, <6>3
        <5> QED
          BY <1>1, <2>3, <3>2, <5>1, <5>2
      <4>8. prev'[t[k]] = IF k = 1 THEN Null ELSE t[k - 1]
        <5>1. CASE k < n
          BY <1>1, <1>2, <2>3, <4>1, <4>2, <4>5, <5>1
        <5>2. CASE k > n
          BY <1>1, <1>2, <2>3, <4>1, <4>2, <4>5, <5>2
        <5> QED
          BY <1>1, <2>3, <3>2, <5>1, <5>2
      <4> QED
        BY <4>6, <4>7, <4>8
    <3> QED
      BY <3>1, <3>2
  <2> QED
    <3>1. ASSUME NEW k \in DOMAIN order'[l]
          PROVE  /\ next'[order'[l][k]] = IF k = Len(order'[l]) THEN Null ELSE order'[l][k + 1]
                 /\ prev'[order'[l][k]] = IF k = 1 THEN Null ELSE order'[l][k - 1]
                 /\ owner'[order'[l][k]] = l
      BY <1>2, <1>3, <2>3
    <3> QED
      BY <2>2, <3>1 DEF WalksAgree
<1>10. OwnersAgree'
  <2>1. ASSUME NEW j \in Items, owner'[j] # Null
        PROVE  \E k \in DOMAIN order'[owner'[j]] : order'[owner'[j]][k] = j
    <3>1. CASE j = i
      BY <1>1, <1>2, <1>3, <1>4, <3>1 DEF TypeOK
    <3>2. CASE j # i
      <4>1. owner'[j] = owner[j] /\ owner[j] # Null
        BY <1>1, <1>4, <2>1, <3>2 DEF TypeOK
      <4>2. PICK k \in DOMAIN order[owner[j]] : order[owner[j]][k] = j
        BY <1>1, <4>1 DEF Linked, OwnersAgree
      <4>3. CASE owner[j] = l
        <5>1. k \in 1..Len(s) /\ s[k] = j
          BY <1>1, <1>b, <4>2, <4>3
        <5>2. PICK q \in 1..(Len(s) + 1) : q = IF k < n THEN k ELSE k + 1
          BY <1>1, <5>1
        <5>3. t[q] = j
          BY <1>1, <1>2, <5>1, <5>2
        <5> QED
          BY <1>2, <1>3, <4>1, <4>3, <5>3
      <4>4. CASE owner[j] # l
        BY <1>1, <1>3, <4>1, <4>2, <4>4 DEF TypeOK
      <4> QED
        BY <4>3, <4>4
    <3> QED
      BY <3>1, <3>2
  <2>2. ASSUME NEW j \in Items, owner'[j] = Null
        PROVE  Unlinked(j)'
    <3>1. j # i /\ owner[j] = Null
      BY <1>1, <1>4, <2>2, DlListAssumption DEF TypeOK
    <3>2. prev[j] = Null /\ next[j] = Null
      BY <1>1, <3>1 DEF Linked, OwnersAgree, Unlinked
    <3>3. \A k \in DOMAIN s : s[k] # j
      BY <1>1, <1>b, <3>1, DlListAssumption DEF Linked, WalksAgree
    <3>4. j # Null
      BY DlListAssumption
    <3> QED
      <4>1. j # a /\ j # b
        BY <1>1, <1>d, <1>e, <3>3, <3>4
      <4> QED
        BY <1>f, <2>2, <3>1, <3>2, <4>1 DEF Unlinked
  <2>3. ASSUME NEW m \in Lists, NEW k \in DOMAIN order'[m], NEW j \in DOMAIN order'[m],
               order'[m][k] = order'[m][j]
        PROVE  k = j
    <3>1. CASE m = l
      <4>1. \A p \in 1..Len(s), q \in 1..Len(s) : s[p] = s[q] => p = q
        BY <1>1, <1>8, <1>b
      <4>2. \A p \in 1..Len(s) : s[p] # i
        BY <1>1, <1>7, <1>b
      <4>3. k \in 1..(Len(s) + 1) /\ j \in 1..(Len(s) + 1) /\ t[k] = t[j]
        BY <1>2, <1>3, <2>3, <3>1
      <4> QED
        <5>1. CASE k = n \/ j = n
          BY <1>1, <1>2, <4>2, <4>3, <5>1
        <5>2. CASE k # n /\ j # n
          <6>1. PICK p \in 1..Len(s) : t[k] = s[p] /\ p = IF k < n THEN k ELSE k - 1
            <7>1. CASE k < n
              BY <1>1, <1>2, <4>3, <7>1
            <7>2. CASE k > n
              BY <1>1, <1>2, <4>3, <7>2
            <7> QED
              BY <1>1, <4>3, <5>2, <7>1, <7>2
          <6>2. PICK q \in 1..Len(s) : t[j] = s[q] /\ q = IF j < n THEN j ELSE j - 1
            <7>1. CASE j < n
              BY <1>1, <1>2, <4>3, <7>1
            <7>2. CASE j > n
              BY <1>1, <1>2, <4>3, <7>2
            <7> QED
              BY <1>1, <4>3, <5>2, <7>1, <7>2
          <6> QED
            <7>1. p = q
              BY <4>1, <4>3, <6>1, <6>2
            <7> QED
              BY <1>1, <4>3, <5>2, <6>1, <6>2, <7>1
        <5> QED
          BY <5>1, <5>2
    <3>2. CASE m # l
      BY <1>3, <1>8, <2>3, <3>2
    <3> QED
      BY <3>1, <3>2
  <2> QED
    BY <2>1, <2>2, <2>3 DEF OwnersAgree
<1> QED
  BY <1>1, <1>4, <1>5, <1>6, <1>9, <1>10 DEF IInv, Linked
-----------------------------------------------------------------------------
(* The functions that insert *)

\* What the pointers say at a place of a list.
LEMMA Neighbours ==
    ASSUME IInv, NEW l \in Lists, NEW k \in DOMAIN order[l]
    PROVE  /\ order[l] \in Seq(Items) /\ order[l][k] \in Items /\ order[l][k] # Null
           /\ next[order[l][k]] = IF k = Len(order[l]) THEN Null ELSE order[l][k + 1]
           /\ prev[order[l][k]] = IF k = 1 THEN Null ELSE order[l][k - 1]
           /\ owner[order[l][k]] = l
<1>1. order[l] \in Seq(Items) /\ order[l][k] \in Items
  BY DEF IInv, TypeOK
<1>2. order[l][k] # Null
  BY <1>1, DlListAssumption
<1>3. /\ next[order[l][k]] = IF k = Len(order[l]) THEN Null ELSE order[l][k + 1]
      /\ prev[order[l][k]] = IF k = 1 THEN Null ELSE order[l][k - 1]
      /\ owner[order[l][k]] = l
  BY DEF IInv, Linked, WalksAgree
<1> QED
  BY <1>1, <1>2, <1>3

LEMMA Ends ==
    ASSUME IInv, NEW l \in Lists
    PROVE  /\ order[l] \in Seq(Items) /\ Len(order[l]) \in Nat
           /\ head[l] = FirstOf(order[l]) /\ tail[l] = LastOf(order[l])
           /\ size[l] = Len(order[l])
           /\ head[l] = Null <=> order[l] = <<>>
           /\ tail[l] = Null <=> order[l] = <<>>
<1>1. order[l] \in Seq(Items) /\ Len(order[l]) \in Nat
  BY DEF IInv, TypeOK
<1>2. head[l] = FirstOf(order[l]) /\ tail[l] = LastOf(order[l]) /\ size[l] = Len(order[l])
  BY DEF IInv, Linked, EndsAgree
<1>3. order[l] # <<>> => /\ order[l][1] \in Items /\ order[l][1] # Null
                         /\ order[l][Len(order[l])] \in Items
                         /\ order[l][Len(order[l])] # Null
  BY <1>1, DlListAssumption
<1> QED
  BY <1>1, <1>2, <1>3 DEF FirstOf, LastOf

LEMMA PlaceIs ==
    ASSUME IInv, NEW l \in Lists, NEW c \in Items, owner[c] = l
    PROVE  /\ Place(l, c) \in DOMAIN order[l] /\ order[l][Place(l, c)] = c
           /\ \A k \in DOMAIN order[l] : order[l][k] = c => k = Place(l, c)
<1>1. l # Null
  BY DlListAssumption
<1>2. \E k \in DOMAIN order[l] : order[l][k] = c
  BY <1>1 DEF IInv, Linked, OwnersAgree
<1>3. Place(l, c) \in DOMAIN order[l] /\ order[l][Place(l, c)] = c
  BY <1>2 DEF Place
<1> QED
  BY <1>3 DEF IInv, Linked, OwnersAgree

LEMMA LastIsSpliced ==
    ASSUME IInv, NEW l \in Lists, NEW i \in Items, Unlinked(i), LinkLast(l, i), Owned(l, i),
           NEW t \in Seq(Items), order' = [order EXCEPT ![l] = t],
           Inserted(order[l], Len(order[l]) + 1, i, t)
    PROVE  IInv'
<1> DEFINE n == Len(order[l]) + 1
<1>1. n \in 1..(Len(order[l]) + 1) /\ Len(order[l]) \in Nat
  BY Ends
<1>2. TypeOK /\ order'[l] = t
  BY DEF IInv, TypeOK
<1>3. tail[l] = IF n = 1 THEN Null ELSE order[l][n - 1]
  BY <1>1, Ends DEF LastOf
<1>4. head' = [head EXCEPT ![l] = IF n = 1 THEN i ELSE head[l]]
  <2>1. tail[l] = Null <=> n = 1
    BY <1>1, Ends
  <2>2. head \in [Lists -> Items \union {Null}]
    BY <1>2 DEF TypeOK
  <2>3. head' = IF tail[l] = Null THEN [head EXCEPT ![l] = i] ELSE head
    BY DEF LinkLast
  <2> HIDE DEF n
  <2> QED
    BY <2>1, <2>2, <2>3
<1>5. /\ tail[l] \in Items \union {Null}
      /\ prev' \in [Items -> Items \union {Null}] /\ next' \in [Items -> Items \union {Null}]
  BY <1>2 DEF LinkLast, TypeOK
<1>6. /\ prev'[i] = tail[l] /\ next'[i] = Null
      /\ \A j \in Items \ {i} : /\ next'[j] = IF j = tail[l] THEN i ELSE next[j]
                                /\ prev'[j] = IF j = Null THEN i ELSE prev[j]
  BY <1>2, DlListAssumption DEF LinkLast, TypeOK
<1>7. tail' = [tail EXCEPT ![l] = i]
  BY DEF LinkLast
<1>8. Spliced(l, n, i)
  BY <1>1, <1>2, <1>3, <1>4, <1>5, <1>6, <1>7 DEF Spliced
<1> QED
  BY <1>1, <1>8, SplicedKeeps

LEMMA FirstIsSpliced ==
    ASSUME IInv, NEW l \in Lists, NEW i \in Items, Unlinked(i), LinkFirst(l, i), Owned(l, i),
           NEW t \in Seq(Items), order' = [order EXCEPT ![l] = t],
           Inserted(order[l], 1, i, t)
    PROVE  IInv'
<1>1. 1 \in 1..(Len(order[l]) + 1) /\ Len(order[l]) \in Nat
  BY Ends
<1>2. TypeOK /\ order'[l] = t
  BY DEF IInv, TypeOK
<1>3. head[l] = IF 1 = Len(order[l]) + 1 THEN Null ELSE order[l][1]
  BY <1>1, Ends DEF FirstOf
<1>4. tail' = [tail EXCEPT ![l] = IF 1 = Len(order[l]) + 1 THEN i ELSE tail[l]]
  <2>1. head[l] = Null <=> 1 = Len(order[l]) + 1
    BY <1>1, Ends
  <2>2. tail \in [Lists -> Items \union {Null}]
    BY <1>2 DEF TypeOK
  <2>3. tail' = IF head[l] = Null THEN [tail EXCEPT ![l] = i] ELSE tail
    BY DEF LinkFirst
  <2> QED
    BY <2>1, <2>2, <2>3
<1>5. /\ head[l] \in Items \union {Null}
      /\ prev' \in [Items -> Items \union {Null}] /\ next' \in [Items -> Items \union {Null}]
  BY <1>2 DEF LinkFirst, TypeOK
<1>6. /\ next'[i] = head[l] /\ prev'[i] = Null
      /\ \A j \in Items \ {i} : /\ next'[j] = IF j = Null THEN i ELSE next[j]
                                /\ prev'[j] = IF j = head[l] THEN i ELSE prev[j]
  BY <1>2, DlListAssumption DEF LinkFirst, TypeOK
<1>7. head' = [head EXCEPT ![l] = i]
  BY DEF LinkFirst
<1>8. Spliced(l, 1, i)
  BY <1>1, <1>2, <1>3, <1>4, <1>5, <1>6, <1>7 DEF Spliced
<1> QED
  BY <1>1, <1>8, SplicedKeeps

\* Between two items of the list.
LEMMA MiddleIsSpliced ==
    ASSUME IInv, NEW l \in Lists, NEW i \in Items, Unlinked(i), Owned(l, i),
           NEW t \in Seq(Items), order' = [order EXCEPT ![l] = t],
           NEW n \in 2..Len(order[l]), Inserted(order[l], n, i, t),
           next' = [next EXCEPT ![order[l][n - 1]] = i, ![i] = order[l][n]],
           prev' = [prev EXCEPT ![i] = order[l][n - 1], ![order[l][n]] = i],
           UNCHANGED <<head, tail>>
    PROVE  IInv'
<1>1. n \in 1..(Len(order[l]) + 1) /\ n \in Int /\ Len(order[l]) \in Nat /\ n # 1 /\ n # Len(order[l]) + 1
      /\ n \in DOMAIN order[l] /\ n - 1 \in DOMAIN order[l]
  BY Ends
<1>2. TypeOK /\ order'[l] = t
  BY DEF IInv, TypeOK
<1>3. PICK b \in Items : b = order[l][n - 1] /\ b # i
  <2>1. order[l][n - 1] \in Items /\ owner[order[l][n - 1]] = l
    BY <1>1, Neighbours
  <2> QED
    BY <2>1, DlListAssumption DEF Unlinked
<1>4. PICK a \in Items : a = order[l][n] /\ a # i
  <2>1. order[l][n] \in Items /\ owner[order[l][n]] = l
    BY <1>1, Neighbours
  <2> QED
    BY <2>1, DlListAssumption DEF Unlinked
<1>5. /\ next' = [next EXCEPT ![b] = i, ![i] = a] /\ prev' = [prev EXCEPT ![i] = b, ![a] = i]
  BY <1>3, <1>4
<1>6. /\ prev' \in [Items -> Items \union {Null}] /\ next' \in [Items -> Items \union {Null}]
      /\ prev'[i] = b /\ next'[i] = a
      /\ \A j \in Items \ {i} : /\ next'[j] = IF j = b THEN i ELSE next[j]
                                /\ prev'[j] = IF j = a THEN i ELSE prev[j]
  BY <1>2, <1>3, <1>4, <1>5 DEF TypeOK
<1>7. head' = [head EXCEPT ![l] = head[l]] /\ tail' = [tail EXCEPT ![l] = tail[l]]
  BY <1>2 DEF TypeOK
<1>8. Spliced(l, n, i)
  BY <1>1, <1>2, <1>3, <1>4, <1>6, <1>7 DEF Spliced
<1> QED
  BY <1>1, <1>8, SplicedKeeps

LEMMA AddKeeps ==
    ASSUME IInv, NEW l \in Lists, NEW i \in Items, Add(l, i)
    PROVE  IInv'
<1>1. order[l] \in Seq(Items) /\ Len(order[l]) \in Nat
  BY Ends
<1>a. Append(order[l], i) \in Seq(Items)
  BY <1>1
<1>2. PICK t \in Seq(Items) : t = Append(order[l], i)
  BY <1>a
<1>3. Inserted(order[l], Len(order[l]) + 1, i, t)
  BY <1>1, <1>2 DEF Inserted
<1> QED
  BY <1>2, <1>3, LastIsSpliced DEF Add

LEMMA InsertKeeps ==
    ASSUME IInv, NEW l \in Lists, NEW i \in Items, Insert(l, i)
    PROVE  IInv'
<1>1. order[l] \in Seq(Items) /\ Len(order[l]) \in Nat
  BY Ends
<1>a. <<i>> \o order[l] \in Seq(Items)
  BY <1>1
<1>2. PICK t \in Seq(Items) : t = <<i>> \o order[l]
  BY <1>a
<1>3. Inserted(order[l], 1, i, t)
  BY <1>1, <1>2 DEF Inserted
<1> QED
  BY <1>2, <1>3, FirstIsSpliced DEF Insert

LEMMA InsertBeforeKeeps ==
    ASSUME IInv, Liberties = {}, NEW l \in Lists, NEW c \in Items \union {Null}, NEW i \in Items,
           InsertBefore(l, c, i)
    PROVE  IInv'
<1>1. order[l] \in Seq(Items) /\ Len(order[l]) \in Nat
  BY Ends
<1>2. c = Null \/ (c \in Items /\ owner[c] = l /\ Mine(l, c))
  BY DEF InsertBefore, MayNext, Mine, May
<1>3. PICK n \in 1..(Len(order[l]) + 1) : n = IF Mine(l, c) THEN Place(l, c) ELSE 1
  <2>1. CASE c = Null
    BY <1>1, <2>1 DEF Mine
  <2>2. CASE c # Null
    BY <1>1, <1>2, <2>2, PlaceIs
  <2> QED
    BY <2>1, <2>2
<1>4. PICK t \in Seq(Items) : t = InsertAt(order[l], n, i) /\ Inserted(order[l], n, i, t)
  BY <1>1, <1>3, InsertAtProps
<1>5. order' = [order EXCEPT ![l] = t] /\ Unlinked(i) /\ Owned(l, i)
  BY <1>3, <1>4 DEF InsertBefore
<1>6. CASE c = Null
  <2>1. n = 1
    BY <1>3, <1>6 DEF Mine
  <2>2. LinkFirst(l, i)
    BY <1>6 DEF InsertBefore
  <2> QED
    BY <1>4, <1>5, <2>1, <2>2, FirstIsSpliced
<1>7. CASE c # Null
  <2>1. n \in DOMAIN order[l] /\ order[l][n] = c
    BY <1>2, <1>3, <1>7, PlaceIs
  <2>2. head[l] # Null
    BY <1>1, <2>1, Ends
  <2>3. prev[c] = IF n = 1 THEN Null ELSE order[l][n - 1]
    BY <2>1, Neighbours
  <2>4. CASE n = 1
    <3>1. LinkFirst(l, i)
      BY <2>3, <2>4 DEF InsertBefore
    <3> QED
      BY <1>4, <1>5, <2>4, <3>1, FirstIsSpliced
  <2>5. CASE n # 1
    <3>1. n \in 2..Len(order[l]) /\ n - 1 \in DOMAIN order[l]
      BY <1>1, <2>1, <2>5
    <3>2. prev[c] = order[l][n - 1] /\ prev[c] # Null
      BY <2>3, <2>5, <3>1, Neighbours
    <3>3. /\ next' = [next EXCEPT ![prev[c]] = i, ![i] = c]
          /\ prev' = [prev EXCEPT ![i] = prev[c], ![c] = i]
          /\ UNCHANGED <<head, tail>>
      BY <1>7, <2>2, <3>2 DEF InsertBefore
    <3> QED
      BY <1>4, <1>5, <2>1, <3>1, <3>2, <3>3, MiddleIsSpliced
  <2> QED
    BY <2>4, <2>5
<1> QED
  BY <1>6, <1>7

LEMMA InsertAfterKeeps ==
    ASSUME IInv, Liberties = {}, NEW l \in Lists, NEW c \in Items \union {Null}, NEW i \in Items,
           InsertAfter(l, c, i)
    PROVE  IInv'
<1>1. order[l] \in Seq(Items) /\ Len(order[l]) \in Nat
  BY Ends
<1>2. c = Null \/ (c \in Items /\ owner[c] = l /\ Mine(l, c))
  BY DEF InsertAfter, MayNext, Mine, May
<1>3. PICK n \in 1..(Len(order[l]) + 1) :
         n = IF Mine(l, c) THEN Place(l, c) + 1 ELSE Len(order[l]) + 1
  <2>1. CASE c = Null
    <3>1. ~Mine(l, c) /\ Len(order[l]) + 1 \in 1..(Len(order[l]) + 1)
      BY <1>1, <2>1 DEF Mine
    <3> QED
      BY <3>1
  <2>2. CASE c # Null
    BY <1>1, <1>2, <2>2, PlaceIs
  <2> QED
    BY <2>1, <2>2
<1>4. PICK t \in Seq(Items) : t = InsertAt(order[l], n, i) /\ Inserted(order[l], n, i, t)
  BY <1>1, <1>3, InsertAtProps
<1>5. order' = [order EXCEPT ![l] = t] /\ Unlinked(i) /\ Owned(l, i)
  BY <1>3, <1>4 DEF InsertAfter
<1>6. CASE c = Null
  <2>1. n = Len(order[l]) + 1
    BY <1>3, <1>6 DEF Mine
  <2>2. LinkLast(l, i)
    BY <1>6 DEF InsertAfter
  <2> QED
    BY <1>4, <1>5, <2>1, <2>2, LastIsSpliced
<1>7. CASE c # Null
  <2>1. n - 1 \in DOMAIN order[l] /\ order[l][n - 1] = c
    BY <1>1, <1>2, <1>3, <1>7, PlaceIs
  <2>2. head[l] # Null
    BY <1>1, <2>1, Ends
  <2>3. next[c] = IF n = Len(order[l]) + 1 THEN Null ELSE order[l][n]
    <3>1. PICK k \in DOMAIN order[l] : k = n - 1 /\ order[l][k] = c
      BY <2>1
    <3>2. next[order[l][k]] = IF k = Len(order[l]) THEN Null ELSE order[l][k + 1]
      BY Neighbours
    <3>3. k + 1 = n /\ (k = Len(order[l]) <=> n = Len(order[l]) + 1)
      BY <1>1, <1>3, <3>1
    <3> QED
      BY <3>1, <3>2, <3>3
  <2>4. CASE n = Len(order[l]) + 1
    <3>1. LinkLast(l, i)
      BY <1>1, <2>3, <2>4 DEF InsertAfter
    <3> QED
      BY <1>4, <1>5, <2>4, <3>1, LastIsSpliced
  <2>5. CASE n # Len(order[l]) + 1
    <3>1. n \in 2..Len(order[l]) /\ n \in DOMAIN order[l] /\ (n - 1) + 1 = n
      BY <1>1, <2>1, <2>5
    <3>2. next[c] = order[l][n] /\ next[c] # Null
      BY <1>1, <2>3, <2>5, <3>1, Neighbours
    <3>3. /\ prev' = [prev EXCEPT ![next[c]] = i, ![i] = c]
          /\ next' = [next EXCEPT ![i] = next[c], ![c] = i]
          /\ UNCHANGED <<head, tail>>
      BY <1>7, <2>2, <3>2 DEF InsertAfter
    <3>4. c \in Items /\ order[l][n] \in Items /\ c # i /\ order[l][n] # i
      <4>1. owner[c] = l /\ owner[order[l][n]] = l /\ c \in Items /\ order[l][n] \in Items
        BY <1>2, <1>7, <3>1, Neighbours
      <4>2. owner[i] = Null /\ l # Null
        BY <1>5, DlListAssumption DEF Unlinked
      <4> QED
        BY <4>1, <4>2
    <3>5. /\ next' = [next EXCEPT ![order[l][n - 1]] = i, ![i] = order[l][n]]
          /\ prev' = [prev EXCEPT ![i] = order[l][n - 1], ![order[l][n]] = i]
      <4>1. next \in [Items -> Items \union {Null}] /\ prev \in [Items -> Items \union {Null}]
        BY DEF IInv, TypeOK
      <4> QED
        BY <2>1, <3>2, <3>3, <3>4, <4>1
    <3> QED
      BY <1>4, <1>5, <3>1, <3>3, <3>5, MiddleIsSpliced
  <2> QED
    BY <2>4, <2>5
<1> QED
  BY <1>6, <1>7
-----------------------------------------------------------------------------
(* Deletions *)

LEMMA UnlinkKeeps ==
    ASSUME IInv, NEW l \in Lists, NEW i \in Items, owner[i] = l, Unlink(l, i),
           flushing' = flushing, aborted' = aborted
    PROVE  IInv'
<1>a. TypeOK /\ Linked /\ ~aborted /\ order[l] \in Seq(Items) /\ l # Null
  BY DlListAssumption DEF IInv, TypeOK
<1>b. PICK s \in Seq(Items) : s = order[l]
  BY <1>a
<1>c. PICK n \in DOMAIN s : n = Place(l, i) /\ s[n] = i
  BY <1>b, PlaceIs
<1>1. /\ TypeOK /\ Linked /\ s \in Seq(Items) /\ Len(s) \in Nat /\ DOMAIN s = 1..Len(s)
      /\ n \in Nat /\ n \in 1..Len(s)
  BY <1>a, <1>b
<1>d. PICK t \in Seq(Items) : t = RemoveAt(s, n) /\ Removed(s, n, t)
  BY <1>1, RemoveAtProps
<1>e. PICK p \in Items \union {Null} : p = prev[i] /\ p = IF n = 1 THEN Null ELSE s[n - 1]
  BY <1>1, <1>b, <1>c, Neighbours DEF TypeOK
<1>f. PICK q \in Items \union {Null} : q = next[i] /\ q = IF n = Len(s) THEN Null ELSE s[n + 1]
  BY <1>1, <1>b, <1>c, Neighbours DEF TypeOK
<1>g. /\ head' = IF p = Null THEN [head EXCEPT ![l] = next[head[l]]] ELSE head
      /\ tail' = IF q = Null THEN [tail EXCEPT ![l] = p] ELSE tail
      /\ prev' = [j \in Items |-> IF j = i THEN Null ELSE IF j = q THEN p ELSE prev[j]]
      /\ next' = [j \in Items |-> IF j = i THEN Null ELSE IF j = p THEN q ELSE next[j]]
      /\ owner' = [owner EXCEPT ![i] = Null]
      /\ size' = [size EXCEPT ![l] = @ - 1]
      /\ order' = [order EXCEPT ![l] = t]
  BY <1>b, <1>c, <1>d, <1>e, <1>f DEF Unlink
<1>2. /\ t \in Seq(Items) /\ Len(t) = Len(s) - 1 /\ DOMAIN t = 1..(Len(s) - 1)
      /\ \A k \in 1..(Len(s) - 1) : /\ k < n => t[k] = s[k]
                                    /\ k >= n => t[k] = s[k + 1]
  BY <1>1, <1>d DEF Removed
<1>3. /\ order' \in [Lists -> Seq(Items)] /\ order'[l] = t
      /\ \A m \in Lists : m # l => order'[m] = order[m]
  BY <1>1, <1>g DEF TypeOK
<1>4. \A m \in Lists : \A k \in DOMAIN order[m] : order[m][k] \in Items /\ order[m][k] # Null
  BY Neighbours
<1>5. \A m \in Lists, o \in Lists : \A k \in DOMAIN order[m], j \in DOMAIN order[o] :
         order[m][k] = order[o][j] => m = o /\ k = j
  <2>1. \A m \in Lists : \A k \in DOMAIN order[m] : owner[order[m][k]] = m
    BY <1>1 DEF Linked, WalksAgree
  <2>2. \A m \in Lists : \A k, j \in DOMAIN order[m] : order[m][k] = order[m][j] => k = j
    BY <1>1 DEF Linked, OwnersAgree
  <2> QED
    BY <2>1, <2>2
\* Where the pointers of the list's items lead.
<1>6. \A k \in DOMAIN s : /\ s[k] \in Items /\ s[k] # Null
                          /\ next[s[k]] = IF k = Len(s) THEN Null ELSE s[k + 1]
                          /\ prev[s[k]] = IF k = 1 THEN Null ELSE s[k - 1]
                          /\ owner[s[k]] = l
  BY <1>b, Neighbours
<1>7. \A k, j \in DOMAIN s : s[k] = s[j] => k = j
  BY <1>5, <1>b
<1>8. /\ n = 1 => p = Null /\ head[l] = i /\ head'[l] = q
      /\ n # 1 => p # Null /\ p = s[n - 1] /\ n - 1 \in DOMAIN s /\ head' = head
  <2>1. CASE n = 1
    <3>1. head[l] = i
      BY <1>1, <1>b, <1>c, <2>1, Ends DEF FirstOf
    <3> QED
      BY <1>1, <1>e, <1>f, <1>g, <2>1, <3>1 DEF TypeOK
  <2>2. CASE n # 1
    <3>1. n - 1 \in DOMAIN s
      BY <1>1, <2>2
    <3> QED
      BY <1>6, <1>e, <1>g, <2>2, <3>1
  <2> QED
    BY <2>1, <2>2
<1>9. /\ n = Len(s) => q = Null /\ tail'[l] = p
      /\ n # Len(s) => q # Null /\ q = s[n + 1] /\ n + 1 \in DOMAIN s /\ tail' = tail
  <2>1. CASE n = Len(s)
    BY <1>1, <1>f, <1>g, <2>1 DEF TypeOK
  <2>2. CASE n # Len(s)
    <3>1. n + 1 \in DOMAIN s
      BY <1>1, <2>2
    <3> QED
      BY <1>6, <1>f, <1>g, <2>2, <3>1
  <2> QED
    BY <2>1, <2>2
<1>10. TypeOK'
  <2>1. head' \in [Lists -> Items \union {Null}] /\ tail' \in [Lists -> Items \union {Null}]
    <3>1. head' = head \/ head' = [head EXCEPT ![l] = q]
      BY <1>8, <1>e, <1>f, <1>g
    <3>2. tail' = tail \/ tail' = [tail EXCEPT ![l] = p]
      BY <1>g
    <3>3. /\ p \in Items \union {Null} /\ q \in Items \union {Null}
          /\ head \in [Lists -> Items \union {Null}] /\ tail \in [Lists -> Items \union {Null}]
      BY <1>1, <1>e, <1>f DEF TypeOK
    <3> QED
      BY <3>1, <3>2, <3>3
  <2>2. size' \in [Lists -> Int] /\ owner' \in [Items -> Lists \union {Null}]
    BY <1>1, <1>g DEF TypeOK
  <2>3. prev' \in [Items -> Items \union {Null}] /\ next' \in [Items -> Items \union {Null}]
    BY <1>1, <1>g DEF TypeOK
  <2> QED
    BY <1>1, <1>3, <2>1, <2>2, <2>3 DEF TypeOK
<1>11. EndsAgree'
  <2>1. ASSUME NEW m \in Lists, m # l
        PROVE  head'[m] = FirstOf(order'[m]) /\ tail'[m] = LastOf(order'[m]) /\ size'[m] = Len(order'[m])
    <3>1. head'[m] = head[m] /\ tail'[m] = tail[m] /\ size'[m] = size[m]
      BY <1>1, <1>g, <2>1 DEF TypeOK
    <3> QED
      BY <1>3, <2>1, <3>1, Ends DEF FirstOf, LastOf
  <2>2. head'[l] = FirstOf(t)
    <3>1. CASE n = 1
      BY <1>1, <1>2, <1>8, <1>9, <3>1 DEF FirstOf
    <3>2. CASE n # 1
      <4>1. head'[l] = s[1]
        BY <1>1, <1>8, <1>b, <3>2, Ends DEF FirstOf
      <4>2. t # <<>> /\ t[1] = s[1]
        BY <1>1, <1>2, <3>2
      <4> QED
        BY <4>1, <4>2 DEF FirstOf
    <3> QED
      BY <3>1, <3>2
  <2>3. tail'[l] = LastOf(t)
    <3>1. CASE n = Len(s)
      <4>1. n = 1 => t = <<>>
        BY <1>1, <1>2, <3>1
      <4>2. n # 1 => t # <<>> /\ t[Len(t)] = s[n - 1]
        BY <1>1, <1>2, <3>1
      <4> QED
        BY <1>8, <1>9, <3>1, <4>1, <4>2 DEF LastOf
    <3>2. CASE n # Len(s)
      <4>1. tail'[l] = s[Len(s)]
        BY <1>1, <1>9, <1>b, <3>2, Ends DEF LastOf
      <4>2. t # <<>> /\ t[Len(t)] = s[Len(s)]
        BY <1>1, <1>2, <3>2
      <4> QED
        BY <4>1, <4>2 DEF LastOf
    <3> QED
      BY <3>1, <3>2
  <2>4. size'[l] = Len(t)
    <3>1. size[l] = Len(s) /\ size'[l] = size[l] - 1
      BY <1>1, <1>b, <1>g, Ends DEF TypeOK
    <3> QED
      BY <1>1, <1>2, <3>1
  <2> QED
    BY <1>3, <2>1, <2>2, <2>3, <2>4 DEF EndsAgree, FirstOf, LastOf
\* The items of a list other than i: only the neighbours change.
<1>12. \A j \in Items : j # i => /\ next'[j] = IF j = p THEN q ELSE next[j]
                                 /\ prev'[j] = IF j = q THEN p ELSE prev[j]
                                 /\ owner'[j] = owner[j]
  BY <1>1, <1>g DEF TypeOK
<1>13. /\ owner'[i] = Null /\ next'[i] = Null /\ prev'[i] = Null
  BY <1>1, <1>g DEF TypeOK
<1>14. WalksAgree'
  <2>1. ASSUME NEW m \in Lists, m # l, NEW k \in DOMAIN order[m]
        PROVE  /\ next'[order[m][k]] = next[order[m][k]]
               /\ prev'[order[m][k]] = prev[order[m][k]]
               /\ owner'[order[m][k]] = owner[order[m][k]]
    <3>1. order[m][k] \in Items /\ order[m][k] # Null
      BY <1>4, <2>1
    <3>2. \A j \in DOMAIN s : order[m][k] # s[j]
      BY <1>5, <1>b, <2>1
    <3>3. order[m][k] # i
      BY <1>c, <3>2
    <3>4. order[m][k] # p /\ order[m][k] # q
      BY <1>8, <1>9, <3>1, <3>2
    <3> QED
      BY <1>12, <3>1, <3>3, <3>4
  <2>2. ASSUME NEW m \in Lists, m # l, NEW k \in DOMAIN order'[m]
        PROVE  /\ next'[order'[m][k]] = IF k = Len(order'[m]) THEN Null ELSE order'[m][k + 1]
               /\ prev'[order'[m][k]] = IF k = 1 THEN Null ELSE order'[m][k - 1]
               /\ owner'[order'[m][k]] = m
    <3>1. order'[m] = order[m] /\ k \in DOMAIN order[m]
      BY <1>3, <2>2
    <3>2. /\ next[order[m][k]] = IF k = Len(order[m]) THEN Null ELSE order[m][k + 1]
          /\ prev[order[m][k]] = IF k = 1 THEN Null ELSE order[m][k - 1]
          /\ owner[order[m][k]] = m
      BY <3>1, Neighbours
    <3>3. /\ next'[order[m][k]] = next[order[m][k]]
          /\ prev'[order[m][k]] = prev[order[m][k]]
          /\ owner'[order[m][k]] = owner[order[m][k]]
      BY <2>1, <2>2, <3>1
    <3> QED
      BY <3>1, <3>2, <3>3
  <2>3. ASSUME NEW k \in 1..(Len(s) - 1)
        PROVE  /\ next'[t[k]] = IF k = Len(s) - 1 THEN Null ELSE t[k + 1]
               /\ prev'[t[k]] = IF k = 1 THEN Null ELSE t[k - 1]
               /\ owner'[t[k]] = l
    <3>1. PICK j \in DOMAIN s : t[k] = s[j] /\ j # n /\ j = IF k < n THEN k ELSE k + 1
      <4>1. CASE k < n
        BY <1>1, <1>2, <2>3, <4>1
      <4>2. CASE k >= n
        <5>1. k + 1 \in DOMAIN s /\ k + 1 # n /\ ~(k < n)
          BY <1>1, <2>3, <4>2
        <5> QED
          BY <1>2, <2>3, <4>2, <5>1
      <4> QED
        BY <1>1, <2>3, <4>1, <4>2
    <3>2. s[j] \in Items /\ s[j] # i
      BY <1>6, <1>7, <1>c, <3>1
    <3>3. /\ s[j] = p <=> (n # 1 /\ j = n - 1)
          /\ s[j] = q <=> (n # Len(s) /\ j = n + 1)
      BY <1>6, <1>7, <1>8, <1>9, <3>1
    <3>4. owner'[t[k]] = l
      <4>1. owner'[s[j]] = owner[s[j]]
        BY <1>12, <3>2
      <4>2. owner[s[j]] = l
        BY <1>6
      <4> QED
        BY <3>1, <4>1, <4>2
    <3>5. next'[s[j]] = IF n # 1 /\ j = n - 1 THEN q
                        ELSE IF j = Len(s) THEN Null ELSE s[j + 1]
      BY <1>6, <1>12, <3>1, <3>2, <3>3
    <3>6. prev'[s[j]] = IF n # Len(s) /\ j = n + 1 THEN p
                        ELSE IF j = 1 THEN Null ELSE s[j - 1]
      BY <1>6, <1>12, <3>1, <3>2, <3>3
    <3>7. next'[t[k]] = IF k = Len(s) - 1 THEN Null ELSE t[k + 1]
      <4>1. CASE k < n - 1
        BY <1>1, <1>2, <2>3, <3>1, <3>5, <4>1
      <4>2. CASE k = n - 1
        BY <1>1, <1>2, <1>9, <2>3, <3>1, <3>5, <4>2
      <4>3. CASE k >= n
        BY <1>1, <1>2, <2>3, <3>1, <3>5, <4>3
      <4> QED
        BY <1>1, <2>3, <4>1, <4>2, <4>3
    <3>8. prev'[t[k]] = IF k = 1 THEN Null ELSE t[k - 1]
      <4>1. CASE k < n
        BY <1>1, <1>2, <2>3, <3>1, <3>6, <4>1
      <4>2. CASE k = n
        BY <1>1, <1>2, <1>8, <2>3, <3>1, <3>6, <4>2
      <4>3. CASE k > n
        BY <1>1, <1>2, <2>3, <3>1, <3>6, <4>3
      <4> QED
        BY <1>1, <2>3, <4>1, <4>2, <4>3
    <3> QED
      BY <3>4, <3>7, <3>8
  <2> QED
    <3>1. ASSUME NEW k \in DOMAIN order'[l]
          PROVE  /\ next'[order'[l][k]] = IF k = Len(order'[l]) THEN Null ELSE order'[l][k + 1]
                 /\ prev'[order'[l][k]] = IF k = 1 THEN Null ELSE order'[l][k - 1]
                 /\ owner'[order'[l][k]] = l
      BY <1>2, <1>3, <2>3
    <3> QED
      BY <2>2, <3>1 DEF WalksAgree
<1>15. OwnersAgree'
  <2>1. ASSUME NEW j \in Items, owner'[j] # Null
        PROVE  \E k \in DOMAIN order'[owner'[j]] : order'[owner'[j]][k] = j
    <3>1. j # i /\ owner'[j] = owner[j] /\ owner[j] # Null
      BY <1>12, <1>13, <2>1
    <3>2. owner[j] \in Lists
      BY <1>1, <3>1 DEF TypeOK
    <3>3. PICK k \in DOMAIN order[owner[j]] : order[owner[j]][k] = j
      BY <1>1, <3>1 DEF Linked, OwnersAgree
    <3>4. CASE owner[j] = l
      <4>1. k \in 1..Len(s) /\ s[k] = j /\ k # n
        BY <1>1, <1>b, <1>c, <3>1, <3>3, <3>4
      <4>2. PICK r \in 1..(Len(s) - 1) : r = IF k < n THEN k ELSE k - 1
        BY <1>1, <4>1
      <4>3. t[r] = j
        <5>1. CASE k < n
          BY <1>1, <1>2, <4>1, <4>2, <5>1
        <5>2. CASE k > n
          <6>1. r = k - 1 /\ r >= n /\ r + 1 = k
            BY <1>1, <4>1, <4>2, <5>2
          <6> QED
            BY <1>2, <4>1, <4>2, <6>1
        <5> QED
          BY <1>1, <4>1, <5>1, <5>2
      <4> QED
        BY <1>2, <1>3, <3>1, <3>4, <4>3
    <3>5. CASE owner[j] # l
      BY <1>3, <3>1, <3>2, <3>3, <3>5
    <3> QED
      BY <3>4, <3>5
  <2>2. ASSUME NEW j \in Items, owner'[j] = Null
        PROVE  Unlinked(j)'
    <3>1. CASE j = i
      BY <1>13, <3>1 DEF Unlinked
    <3>2. CASE j # i
      <4>1. owner[j] = Null
        BY <1>12, <2>2, <3>2
      <4>2. prev[j] = Null /\ next[j] = Null
        BY <1>1, <4>1 DEF Linked, OwnersAgree, Unlinked
      <4>3. \A k \in DOMAIN s : s[k] # j
        BY <1>6, <1>a, <4>1
      <4>4. j # p /\ j # q
        BY <1>8, <1>9, <4>3, DlListAssumption
      <4> QED
        BY <1>12, <2>2, <3>2, <4>2, <4>4 DEF Unlinked
    <3> QED
      BY <3>1, <3>2
  <2>3. ASSUME NEW m \in Lists, NEW k \in DOMAIN order'[m], NEW j \in DOMAIN order'[m],
               order'[m][k] = order'[m][j]
        PROVE  k = j
    <3>1. CASE m = l
      <4>1. k \in 1..(Len(s) - 1) /\ j \in 1..(Len(s) - 1) /\ t[k] = t[j]
        BY <1>2, <1>3, <2>3, <3>1
      <4>2. PICK u \in DOMAIN s : t[k] = s[u] /\ u = IF k < n THEN k ELSE k + 1
        <5>1. CASE k < n
          BY <1>1, <1>2, <4>1, <5>1
        <5>2. CASE k >= n
          <6>1. k + 1 \in DOMAIN s /\ ~(k < n)
            BY <1>1, <4>1, <5>2
          <6> QED
            BY <1>2, <4>1, <5>2, <6>1
        <5> QED
          BY <1>1, <4>1, <5>1, <5>2
      <4>3. PICK v \in DOMAIN s : t[j] = s[v] /\ v = IF j < n THEN j ELSE j + 1
        <5>1. CASE j < n
          BY <1>1, <1>2, <4>1, <5>1
        <5>2. CASE j >= n
          <6>1. j + 1 \in DOMAIN s /\ ~(j < n)
            BY <1>1, <4>1, <5>2
          <6> QED
            BY <1>2, <4>1, <5>2, <6>1
        <5> QED
          BY <1>1, <4>1, <5>1, <5>2
      <4>4. u = v
        BY <1>7, <4>1, <4>2, <4>3
      <4> QED
        BY <1>1, <4>1, <4>2, <4>3, <4>4
    <3>2. CASE m # l
      BY <1>3, <1>5, <2>3, <3>2
    <3> QED
      BY <3>1, <3>2
  <2> QED
    BY <2>1, <2>2, <2>3 DEF OwnersAgree
<1> QED
  BY <1>a, <1>10, <1>11, <1>14, <1>15 DEF IInv, Linked

-----------------------------------------------------------------------------
(* The theorems *)

LEMMA SameLinked ==
    ASSUME Linked, UNCHANGED <<head, tail, size, prev, next, owner, order>>
    PROVE  Linked'
<1>1. EndsAgree'
  BY DEF Linked, EndsAgree
<1>2. WalksAgree'
  BY DEF Linked, WalksAgree
<1>3. OwnersAgree'
  BY DEF Linked, OwnersAgree, Unlinked
<1> QED
  BY <1>1, <1>2, <1>3 DEF Linked

\* dl_move of an empty list to an empty one.
LEMMA MoveKeeps ==
    ASSUME IInv, Liberties = {}, NEW to \in Lists, NEW from \in Lists, Move(to, from)
    PROVE  IInv'
<1>1. head[from] = Null /\ head[to] = Null
  BY DEF Move, May
<1>2. /\ order[from] = <<>> /\ tail[from] = Null /\ size[from] = 0
      /\ order[to] = <<>> /\ tail[to] = Null /\ size[to] = 0
  BY <1>1, Ends
<1>3. head' = head /\ tail' = tail /\ size' = size /\ order' = order
  BY <1>1, <1>2 DEF Move, IInv, TypeOK
<1>4. aborted' = FALSE /\ prev' = prev /\ next' = next /\ owner' = owner /\ flushing' = flushing
  BY <1>1, <1>2 DEF Move, links
<1>5. TypeOK'
  BY <1>3, <1>4 DEF IInv, TypeOK
<1>6. Linked'
  BY <1>3, <1>4, SameLinked DEF IInv
<1> QED
  BY <1>4, <1>5, <1>6 DEF IInv

LEMMA FlushEndKeeps ==
    ASSUME IInv, NEW l \in Lists, FlushEnd(l)
    PROVE  IInv'
<1>1. order[l] = <<>> /\ tail[l] = Null /\ size[l] = 0
  BY Ends DEF FlushEnd
<1>2. aborted' = FALSE /\ flushing' = flushing \ {l} /\ UNCHANGED <<lists, links, order>>
  BY <1>1 DEF FlushEnd
<1>3. /\ head' = head /\ tail' = tail /\ size' = size /\ order' = order
      /\ prev' = prev /\ next' = next /\ owner' = owner
  BY <1>2 DEF lists, links
<1>4. TypeOK'
  BY <1>2, <1>3 DEF IInv, TypeOK
<1>5. Linked'
  BY <1>3, SameLinked DEF IInv
<1> QED
  BY <1>2, <1>4, <1>5 DEF IInv

LEMMA InitHolds == Init => IInv
<1> SUFFICES ASSUME Init PROVE IInv
  OBVIOUS
<1>1. TypeOK /\ ~aborted
  <2>1. <<>> \in Seq(Items)
    OBVIOUS
  <2>2. order \in [Lists -> Seq(Items)]
    BY <2>1 DEF Init
  <2>3. head \in [Lists -> Items \union {Null}] /\ tail \in [Lists -> Items \union {Null}]
    BY DEF Init
  <2>4. /\ prev \in [Items -> Items \union {Null}] /\ next \in [Items -> Items \union {Null}]
        /\ owner \in [Items -> Lists \union {Null}]
    BY DEF Init
  <2>5. size \in [Lists -> Int] /\ flushing \subseteq Lists /\ aborted = FALSE
    BY DEF Init
  <2> QED
    BY <2>2, <2>3, <2>4, <2>5 DEF TypeOK
<1>2. \A l \in Lists : order[l] = <<>> /\ DOMAIN order[l] = {}
  BY DEF Init
<1>3. EndsAgree
  BY <1>2 DEF Init, EndsAgree, FirstOf, LastOf
<1>4. WalksAgree
  BY <1>2 DEF WalksAgree
<1>5. OwnersAgree
  BY <1>2 DEF Init, OwnersAgree, Unlinked
<1> QED
  BY <1>1, <1>3, <1>4, <1>5 DEF IInv, Linked

LEMMA StepKeeps ==
    ASSUME Liberties = {}, IInv, [Next]_vars
    PROVE  IInv'
<1>1. ASSUME NEW l \in Lists, NEW i \in Items, Add(l, i)
      PROVE  IInv'
  BY <1>1, AddKeeps
<1>2. ASSUME NEW l \in Lists, NEW i \in Items, Insert(l, i)
      PROVE  IInv'
  BY <1>2, InsertKeeps
<1>3. ASSUME NEW l \in Lists, NEW c \in Items \union {Null}, NEW i \in Items, InsertBefore(l, c, i)
      PROVE  IInv'
  BY <1>3, InsertBeforeKeeps
<1>4. ASSUME NEW l \in Lists, NEW c \in Items \union {Null}, NEW i \in Items, InsertAfter(l, c, i)
      PROVE  IInv'
  BY <1>4, InsertAfterKeeps
<1>5. ASSUME NEW i \in Items, Delete(i)
      PROVE  IInv'
  <2>1. owner[i] \in Lists
    BY <1>5 DEF Delete, IInv, TypeOK
  <2> QED
    BY <1>5, <2>1, UnlinkKeeps DEF Delete
<1>6. ASSUME NEW l \in Lists, FlushBegin(l)
      PROVE  IInv'
  BY <1>6 DEF FlushBegin, IInv, TypeOK, Linked, EndsAgree, WalksAgree, OwnersAgree, Unlinked, lists, links
<1>7. ASSUME NEW l \in Lists, FlushStep(l)
      PROVE  IInv'
  <2>1. head[l] # Null /\ Unlink(l, head[l]) /\ flushing' = flushing /\ aborted' = aborted
    BY <1>7 DEF FlushStep
  <2>2. order[l] # <<>> /\ order[l] \in Seq(Items) /\ head[l] = order[l][1]
    BY <2>1, Ends DEF FirstOf
  <2>3. head[l] \in Items /\ owner[head[l]] = l
    BY <2>2, Neighbours
  <2> QED
    BY <2>1, <2>3, UnlinkKeeps
<1>8. ASSUME NEW l \in Lists, FlushEnd(l)
      PROVE  IInv'
  BY <1>8, FlushEndKeeps
<1>9. ASSUME NEW to \in Lists, NEW from \in Lists, Move(to, from)
      PROVE  IInv'
  BY <1>9, MoveKeeps
<1>10. CASE UNCHANGED vars
  BY <1>10 DEF vars, IInv, TypeOK, Linked, EndsAgree, WalksAgree, OwnersAgree, Unlinked, lists, links
<1> QED
  BY <1>1, <1>2, <1>3, <1>4, <1>5, <1>6, <1>7, <1>8, <1>9, <1>10 DEF Next

\* 02_dl_list.c: the invariant, when callers respect who owns an item and do
\* not move lists that have items.
THEOREM Invariance ==
    ASSUME Liberties = {}
    PROVE  Spec => []IInv
<1>1. Init => IInv
  BY InitHolds
<1>2. IInv /\ [Next]_vars => IInv'
  BY StepKeeps
<1> QED
  BY <1>1, <1>2, PTL DEF Spec

\* The pointers of every list are the sequence it stands for, whatever the
\* number of lists and items and the calls made.
THEOREM PointersAreTheSequence ==
    ASSUME Liberties = {}
    PROVE  Spec => []Linked
<1>1. IInv => Linked
  BY DEF IInv
<1> QED
  BY <1>1, Invariance, PTL

\* No flush ends in the abort of dl_flush, whatever its free function does.
THEOREM FlushEndsWell ==
    ASSUME Liberties = {}
    PROVE  Spec => []FlushSound
<1>1. IInv => FlushSound
  BY DEF IInv, FlushSound
<1> QED
  BY <1>1, Invariance, PTL

-----------------------------------------------------------------------------
(* Resource lists *)

AllLists == Iters \union Resources

Loop == [of : AllLists, at : Instances \union {None}, it : Resources \union {None},
         does : {"list", "level", "top", "down", "up"},
         next_i : Instances \union {None}, next : Resources \union {None}]

RcTypes ==
    /\ list \in [AllLists -> Seq(Instances)]
    /\ inner \in [Resources -> Seq(Instances)]
    /\ resource \in [Instances -> Resources \union {None}]
    /\ alive \in SUBSET Resources
    /\ parent \in [Resources -> Resources \union {None}]

\* A resource is at most once a child.
OneParent ==
    \A p, q \in Resources : \A i \in ToSet(list[p]), j \in ToSet(list[q]) :
        resource[i] = resource[j] => i = j

\* No resource hangs from itself.
NoCycle == \A p \in Resources : \A c \in Childs(p) : p \notin Family(c)

\* The lists of resources, whatever walks there are.
TreeInv == RcTypes /\ TwinsAgree /\ ParentSound /\ OneParent /\ NoCycle

\* A loop of a walk: what it holds is of the list that it goes over, the current
\* instance and, while it is with the children of that one, the next.
LoopOf(f) ==
    /\ f.at # None => f.at \in ToSet(list[f.of]) /\ resource[f.at] = f.it
    /\ f.next_i # None => f.next_i \in ToSet(list[f.of]) /\ resource[f.next_i] = f.next
    /\ f.of \in Resources => f.of \in alive

\* The list of each loop is of a child in the list of the loop that it is in.
LoopInv(frames) ==
    /\ frames \in Seq(Loop)
    /\ \A n \in DOMAIN frames :
          /\ LoopOf(frames[n])
          /\ n + 1 \in DOMAIN frames => frames[n + 1].of \in Childs(frames[n].of)

WalkTypes ==
    walk \in [on : BOOLEAN, how : Directions, from : AllLists \union {None}, frames : Seq(Loop),
              plain : BOOLEAN, seen : SUBSET Instances, cut : SUBSET Instances]

RcInv ==
    /\ TreeInv /\ WalkTypes /\ LoopInv(walk.frames)
    /\ ~walk.on => walk.frames = <<>>

\* The members of a set of numbers one after another.
LEMMA Places ==
    ASSUME NEW B \in SUBSET Nat, IsFiniteSet(B)
    PROVE  LET c == Cardinality(B)
               Behind(n) == Cardinality({m \in B : m < n})
           IN  /\ c \in Nat
               /\ \A k \in 1 .. c : \E n \in B : Behind(n) = k - 1
               /\ \A n \in B : Behind(n) \in Int /\ Behind(n) + 1 \in 1 .. c
               /\ \A m, n \in B : Behind(m) = Behind(n) => m = n
<1> DEFINE c == Cardinality(B)
           Behind(n) == {m \in B : m < n}
           f == [n \in B |-> Cardinality(Behind(n))]
           T == 0 .. (c - 1)
<1>1. c \in Nat
  BY FS_CardinalityType
<1>2. \A n \in B : IsFiniteSet(Behind(n)) /\ Cardinality(Behind(n)) \in Nat
  BY FS_Subset, FS_CardinalityType
<1>3. \A n \in B : Cardinality(Behind(n)) < c
  <2> TAKE n \in B
  <2>1. Behind(n) # B /\ Behind(n) \in SUBSET B
    BY DEF Behind
  <2>2. Cardinality(Behind(n)) <= c /\ (c = Cardinality(Behind(n)) => B = Behind(n))
    BY <2>1, FS_Subset
  <2> QED
    BY <1>1, <1>2, <2>1, <2>2
<1>4. f \in [B -> T]
  BY <1>1, <1>2, <1>3
<1>5. \A m, n \in B : m < n => f[m] < f[n]
  <2> SUFFICES ASSUME NEW m \in B, NEW n \in B, m < n
               PROVE  f[m] < f[n]
    OBVIOUS
  <2>1. Behind(m) \in SUBSET Behind(n) /\ m \in Behind(n) /\ m \notin Behind(m)
    <3>1. \A x \in B : x < m => x < n
      <4>1. m \in Nat /\ n \in Nat /\ m < n /\ \A x \in B : x \in Nat
        OBVIOUS
      <4> QED
        BY <4>1
    <3>2. m < n /\ ~(m < m)
      <4>1. m \in Nat /\ m < n
        OBVIOUS
      <4> QED
        BY <4>1
    <3> QED
      BY <3>1, <3>2, Zenon
  <2>2. /\ Cardinality(Behind(m)) <= Cardinality(Behind(n))
        /\ Cardinality(Behind(n)) = Cardinality(Behind(m)) => Behind(n) = Behind(m)
    BY <1>2, <2>1, FS_Subset
  <2> HIDE DEF Behind
  <2> QED
    BY <1>2, <2>1, <2>2
<1>6. \A m, n \in B : f[m] = f[n] => m = n
  <2> SUFFICES ASSUME NEW m \in B, NEW n \in B, f[m] = f[n]
               PROVE  m = n
    OBVIOUS
  <2>1. f[m] \in Int /\ f[n] \in Int /\ m \in Int /\ n \in Int
    BY <1>4
  <2> HIDE DEF f
  <2>2. ~(f[m] < f[n]) /\ ~(f[n] < f[m])
    BY <2>1
  <2> QED
    BY <1>5, <2>1, <2>2
<1>7. \A k \in T : \E n \in B : f[n] = k
  <2>1. f \in Injection(B, T)
    BY <1>4, <1>6 DEF Injection, IsInjective
  <2>2. IsFiniteSet(T) /\ Cardinality(T) = c
    <3> HIDE DEF c
    <3>1. 0 \in Int /\ c - 1 \in Int
      BY <1>1
    <3>2. /\ IsFiniteSet(0 .. (c - 1))
          /\ Cardinality(0 .. (c - 1)) = IF 0 > c - 1 THEN 0 ELSE (c - 1) - 0 + 1
      BY <3>1, FS_Interval
    <3> QED
      BY <1>1, <3>2
  <2>3. f \in Surjection(B, T)
    BY <2>1, <2>2, FS_Injection
  <2> QED
    BY <2>3 DEF Surjection
<1>8. \A k \in 1 .. c : k - 1 \in T
  BY <1>1
<1>9. \A n \in B : f[n] \in Int /\ f[n] + 1 \in 1 .. c
  BY <1>1, <1>4
<1>10. \A n \in B : f[n] = Cardinality(Behind(n))
  OBVIOUS
<1> HIDE DEF f, T
<1> QED
  BY <1>1, <1>6, <1>7, <1>8, <1>9, <1>10

\* What Keep leaves: the other instances, each as often.
LEMMA KeepIs ==
    ASSUME NEW S, NEW s \in Seq(S), NEW X
    PROVE  /\ Keep(s, X) \in Seq(S)
           /\ \A x : x \in ToSet(Keep(s, X)) <=> x \in ToSet(s) /\ x \notin X
           /\ (\A n, k \in DOMAIN s : s[n] = s[k] => n = k)
              => \A n, k \in DOMAIN Keep(s, X) : Keep(s, X)[n] = Keep(s, X)[k] => n = k
<1> DEFINE left == {n \in DOMAIN s : s[n] \notin X}
           c == Cardinality(left)
           Behind(n) == Cardinality({m \in left : m < n})
           At(k) == CHOOSE n \in left : Behind(n) = k - 1
<1>1. left \in SUBSET Nat /\ IsFiniteSet(left)
  <2>1. DOMAIN s = 1 .. Len(s) /\ Len(s) \in Nat /\ IsFiniteSet(1 .. Len(s))
    BY FS_Interval
  <2> QED
    BY <2>1, FS_Subset
<1>2. Keep(s, X) = [k \in 1 .. c |-> s[At(k)]]
  BY DEF Keep
<1>3. \A n \in left : n \in DOMAIN s /\ s[n] \in S /\ s[n] \notin X
  OBVIOUS
<1>4. \A x \in ToSet(s) : x \notin X => \E n \in left : x = s[n]
  BY DEF ToSet
<1> HIDE DEF left
<1>5. /\ c \in Nat
      /\ \A k \in 1 .. c : \E n \in left : Behind(n) = k - 1
      /\ \A n \in left : Behind(n) \in Int /\ Behind(n) + 1 \in 1 .. c
      /\ \A m, n \in left : Behind(m) = Behind(n) => m = n
  BY <1>1, Places
<1> HIDE DEF c, Behind
<1>6. \A k \in 1 .. c : At(k) \in left /\ Behind(At(k)) = k - 1
  BY <1>5
<1> HIDE DEF At
<1>7. DOMAIN Keep(s, X) = 1 .. c /\ \A k \in 1 .. c : Keep(s, X)[k] = s[At(k)]
  BY <1>2
<1>8. Keep(s, X) \in Seq(S)
  BY <1>2, <1>3, <1>5, <1>6
<1>9. ASSUME NEW x
      PROVE  x \in ToSet(Keep(s, X)) <=> x \in ToSet(s) /\ x \notin X
  <2>1. ASSUME x \in ToSet(Keep(s, X))
        PROVE  x \in ToSet(s) /\ x \notin X
    <3>1. PICK k \in 1 .. c : x = s[At(k)]
      BY <1>7, <2>1 DEF ToSet
    <3> QED
      BY <1>3, <1>6, <3>1 DEF ToSet
  <2>2. ASSUME x \in ToSet(s), x \notin X
        PROVE  x \in ToSet(Keep(s, X))
    <3>1. PICK n \in left : x = s[n]
      BY <1>4, <2>2
    <3>2. PICK k \in 1 .. c : k = Behind(n) + 1
      BY <1>5
    <3>3. Behind(At(k)) = Behind(n) /\ At(k) \in left
      BY <1>5, <1>6, <3>2
    <3>4. At(k) = n
      BY <1>5, <3>3
    <3> QED
      BY <1>7, <3>1, <3>4 DEF ToSet
  <2> QED
    BY <2>1, <2>2
<1>10. ASSUME \A n, k \in DOMAIN s : s[n] = s[k] => n = k,
              NEW n \in DOMAIN Keep(s, X), NEW k \in DOMAIN Keep(s, X), Keep(s, X)[n] = Keep(s, X)[k]
       PROVE  n = k
  <2>1. n \in 1 .. c /\ k \in 1 .. c /\ s[At(n)] = s[At(k)]
    BY <1>7, <1>10
  <2>2. At(n) = At(k)
    BY <1>3, <1>6, <1>10, <2>1
  <2>3. n - 1 = k - 1
    BY <1>6, <2>1, <2>2
  <2> QED
    BY <1>5, <2>1, <2>3
<1> QED
  BY <1>8, <1>9, <1>10

\* What is in a list is in use, and in no other list.
LEMMA InList ==
    ASSUME RcListAssumption, TreeInv, NEW l \in AllLists, NEW i \in ToSet(list[l])
    PROVE  /\ i \in Instances /\ resource[i] \in Resources /\ resource[i] # None
           /\ resource[i] \in alive /\ resource[i] \in Childs(l) /\ i \in ToSet(inner[resource[i]])
           /\ \A m \in AllLists : i \in ToSet(list[m]) => m = l
<1>1. i \in InUse
  BY DEF TreeInv, TwinsAgree, AllLists
<1>2. i \in Instances /\ resource[i] # None
  BY <1>1 DEF InUse
<1>3. resource[i] \in Resources
  BY <1>2 DEF TreeInv, RcTypes
<1>4. resource[i] \in alive /\ i \in ToSet(inner[resource[i]])
  BY <1>1, <1>2, <1>3 DEF TreeInv, TwinsAgree
<1>5. resource[i] \in Childs(l)
  BY DEF Childs
<1>6. ASSUME NEW m \in AllLists, i \in ToSet(list[m])
      PROVE  m = l
  <2>1. PICK n \in DOMAIN list[l], k \in DOMAIN list[m] : list[l][n] = i /\ list[m][k] = i
    BY <1>6 DEF ToSet
  <2> QED
    BY <2>1 DEF TreeInv, TwinsAgree, AllLists
<1> QED
  BY <1>2, <1>3, <1>4, <1>5, <1>6

\* What is in use is in a list.
LEMMA IsListed ==
    ASSUME RcListAssumption, TreeInv, NEW i \in InUse
    PROVE  /\ i \in Instances /\ resource[i] \in Resources
           /\ ListOf(i) \in AllLists /\ i \in ToSet(list[ListOf(i)])
<1>1. \E l \in AllLists : i \in ToSet(list[l])
  BY DEF TreeInv, TwinsAgree, AllLists
<1>2. ListOf(i) \in AllLists /\ i \in ToSet(list[ListOf(i)])
  BY <1>1 DEF ListOf, AllLists
<1> QED
  BY <1>2, InList

LEMMA ChildIs ==
    ASSUME RcListAssumption, TreeInv, NEW l \in AllLists, NEW r \in Childs(l)
    PROVE  /\ r \in alive /\ r \in Resources
           /\ \E i \in ToSet(list[l]) : resource[i] = r
           /\ l \in Resources => parent[r] = l /\ l \in alive
<1>1. PICK i \in ToSet(list[l]) : resource[i] = r
  BY DEF Childs
<1>2. r \in alive /\ r \in Resources
  BY <1>1, InList
<1>3. l \in Resources => parent[r] = l
  BY <1>2 DEF TreeInv, ParentSound
<1>4. l \in Resources => l \in alive
  <2>1. list[l] # <<>>
    BY <1>1 DEF ToSet
  <2> QED
    BY <2>1 DEF TreeInv, TwinsAgree
<1> QED
  BY <1>1, <1>2, <1>3, <1>4

\* A resource and what hangs from it.
LEMMA FamilyIs ==
    ASSUME RcListAssumption, TreeInv, NEW r \in Resources
    PROVE  /\ Family(r) \in SUBSET Resources /\ r \in Family(r) /\ Whole(Family(r))
           /\ \A rs \in SUBSET Resources : r \in rs /\ Whole(rs) => Family(r) \subseteq rs
<1>1. Family(r) \in SUBSET Resources /\ r \in Family(r)
  BY DEF Family
<1>2. ASSUME NEW p \in Family(r), NEW q \in Childs(p)
      PROVE  q \in Family(r)
  <2>1. p \in AllLists
    BY <1>1 DEF AllLists
  <2>2. q \in Resources
    BY <2>1, ChildIs
  <2>3. ASSUME NEW rs \in SUBSET Resources, r \in rs, Whole(rs)
        PROVE  q \in rs
    BY <2>3 DEF Family, Whole
  <2> QED
    BY <2>2, <2>3 DEF Family
<1>3. Whole(Family(r))
  BY <1>2 DEF Whole
<1>4. \A rs \in SUBSET Resources : r \in rs /\ Whole(rs) => Family(r) \subseteq rs
  BY DEF Family
<1> QED
  BY <1>1, <1>3, <1>4

\* A sequence without members.
LEMMA NoMember ==
    ASSUME NEW S, NEW s \in Seq(S)
    PROVE  ToSet(s) = {} <=> s = <<>>
<1>1. DOMAIN s = 1 .. Len(s) /\ Len(s) \in Nat /\ (s = <<>> <=> Len(s) = 0)
  OBVIOUS
<1>2. DOMAIN s = {} <=> s = <<>>
  <2>1. CASE Len(s) = 0
    BY <1>1, <2>1
  <2>2. CASE Len(s) # 0
    <3>1. 1 \in DOMAIN s
      BY <1>1, <2>2
    <3> QED
      BY <1>1, <2>2, <3>1
  <2> QED
    BY <2>1, <2>2
<1>3. ToSet(s) = {} <=> DOMAIN s = {}
  BY DEF ToSet
<1> QED
  BY <1>2, <1>3

\* A deletion: both twins of the instances X, the resources F, and the parent of
\* the children G.
Deletes(X, F, G) ==
    /\ Without(X, F)
    /\ parent' = [r \in Resources |-> IF r \in G THEN None ELSE parent[r]]

\* It may: what is freed has no instance left, in no list and in its own; what loses
\* its parent is not its child any more; others keep theirs.
MayGo(X, F, G) ==
    /\ \A r \in F : ToSet(inner[r]) \subseteq X /\ ToSet(list[r]) \subseteq X
    /\ \A p \in Resources : \A i \in ToSet(list[p]) :
          /\ resource[i] \in G => i \in X
          /\ resource[i] \notin G => p \notin F /\ i \notin X

LEMMA Deleted ==
    ASSUME RcListAssumption, TreeInv, NEW X \in SUBSET Instances, NEW F \in SUBSET Resources,
           NEW G, Deletes(X, F, G), MayGo(X, F, G)
    PROVE  TreeInv'
<1>1. /\ \A l \in AllLists : list[l] \in Seq(Instances) /\ list'[l] = Keep(list[l], X)
      /\ \A r \in Resources : inner[r] \in Seq(Instances) /\ inner'[r] = Keep(inner[r], X)
      /\ DOMAIN list' = AllLists /\ DOMAIN inner' = Resources
      /\ list' = [l \in AllLists |-> list'[l]] /\ inner' = [r \in Resources |-> inner'[r]]
  BY DEF TreeInv, RcTypes, Deletes, Without, AllLists
<1>2. /\ \A l \in AllLists : list'[l] \in Seq(Instances)
      /\ \A l \in AllLists : \A i : i \in ToSet(list'[l]) <=> i \in ToSet(list[l]) /\ i \notin X
      /\ \A r \in Resources : inner'[r] \in Seq(Instances)
      /\ \A r \in Resources : \A i : i \in ToSet(inner'[r]) <=> i \in ToSet(inner[r]) /\ i \notin X
  BY <1>1, KeepIs
<1>3. /\ \A i \in Instances : resource'[i] = IF i \in X THEN None ELSE resource[i]
      /\ resource' \in [Instances -> Resources \union {None}]
      /\ alive' = alive \ F
      /\ \A r \in Resources : parent'[r] = IF r \in G THEN None ELSE parent[r]
      /\ parent' \in [Resources -> Resources \union {None}]
  BY DEF TreeInv, RcTypes, Deletes, Without
<1>4. RcTypes'
  BY <1>1, <1>2, <1>3 DEF TreeInv, RcTypes
<1>5. InUse' = InUse \ X
  BY <1>3 DEF InUse
<1>6. \A l \in AllLists : /\ Childs(l)' \subseteq Childs(l)
                         /\ \A i \in ToSet(list'[l]) : resource'[i] = resource[i]
  <2> TAKE l \in AllLists
  <2>1. \A i \in ToSet(list'[l]) : i \in ToSet(list[l]) /\ i \notin X /\ i \in Instances
    BY <1>2, InList
  <2>2. \A i \in ToSet(list'[l]) : resource'[i] = resource[i]
    BY <1>3, <2>1
  <2> QED
    BY <2>1, <2>2 DEF Childs
<1>7. TwinsAgree'
  <2>1. ASSUME NEW l \in AllLists, NEW m \in AllLists, NEW n \in DOMAIN list'[l], NEW k \in DOMAIN list'[m],
               list'[l][n] = list'[m][k]
        PROVE  l = m /\ n = k
    <3>1. list'[l][n] \in ToSet(list'[l]) /\ list'[l][n] \in ToSet(list'[m])
      BY <2>1 DEF ToSet
    <3>2. l = m
      <4>1. PICK i : i = list'[l][n]
        OBVIOUS
      <4>2. i \in ToSet(list[l]) /\ i \in ToSet(list[m])
        BY <1>2, <3>1, <2>1, <4>1
      <4> QED
        BY <4>2, InList
    <3>3. \A a, b \in DOMAIN list[l] : list[l][a] = list[l][b] => a = b
      BY DEF TreeInv, TwinsAgree, AllLists
    <3>4. \A a, b \in DOMAIN list'[l] : list'[l][a] = list'[l][b] => a = b
      <4>1. PICK s \in Seq(Instances) : s = list[l]
        BY <1>1
      <4>2. \A a, b \in DOMAIN s : s[a] = s[b] => a = b
        BY <3>3, <4>1
      <4>3. \A a, b \in DOMAIN Keep(s, X) : Keep(s, X)[a] = Keep(s, X)[b] => a = b
        BY <4>2, KeepIs
      <4>4. list'[l] = Keep(s, X)
        BY <1>1, <4>1
      <4> QED
        BY <4>3, <4>4, Zenon
    <3> QED
      BY <2>1, <3>2, <3>4
  <2>2. InUse' = UNION {ToSet(list'[l]) : l \in AllLists}
    <3>1. InUse = UNION {ToSet(list[l]) : l \in AllLists}
      BY DEF TreeInv, TwinsAgree, AllLists
    <3>2. \A i : i \in InUse' <=> \E l \in AllLists : i \in ToSet(list'[l])
      BY <1>2, <1>5, <3>1
    <3> QED
      BY <3>2
  <2>3. ASSUME NEW r \in Resources
        PROVE  /\ ToSet(inner'[r]) = {i \in Instances : resource'[i] = r}
               /\ \A n, k \in DOMAIN inner'[r] : inner'[r][n] = inner'[r][k] => n = k
    <3>1. /\ ToSet(inner[r]) = {i \in Instances : resource[i] = r}
          /\ \A n, k \in DOMAIN inner[r] : inner[r][n] = inner[r][k] => n = k
      BY DEF TreeInv, TwinsAgree
    <3>2. r # None
      BY DEF RcListAssumption
    <3>3. \A i : i \in ToSet(inner'[r]) <=> i \in Instances /\ resource'[i] = r
      BY <1>2, <1>3, <3>1, <3>2
    <3>4. \A n, k \in DOMAIN inner'[r] : inner'[r][n] = inner'[r][k] => n = k
      <4>1. PICK s \in Seq(Instances) : s = inner[r]
        BY <1>1
      <4>2. \A n, k \in DOMAIN s : s[n] = s[k] => n = k
        BY <3>1, <4>1
      <4>3. \A n, k \in DOMAIN Keep(s, X) : Keep(s, X)[n] = Keep(s, X)[k] => n = k
        BY <4>2, KeepIs
      <4>4. inner'[r] = Keep(s, X)
        BY <1>1, <4>1
      <4> QED
        BY <4>3, <4>4, Zenon
    <3> QED
      BY <3>3, <3>4
  <2>4. \A i \in InUse' : resource'[i] \in alive'
    <3> SUFFICES ASSUME NEW i \in InUse'
                 PROVE  resource'[i] \in alive'
      OBVIOUS
    <3>1. i \in InUse /\ i \notin X /\ resource'[i] = resource[i] /\ resource[i] \in alive
      BY <1>3, <1>5 DEF InUse, TreeInv, TwinsAgree
    <3>2. i \in ToSet(inner[resource[i]])
      <4>1. resource[i] \in Resources /\ i \in Instances
        BY <3>1 DEF TreeInv, RcTypes, InUse
      <4> QED
        BY <4>1 DEF TreeInv, TwinsAgree
    <3>3. resource[i] \notin F
      BY <3>1, <3>2 DEF MayGo
    <3> QED
      BY <1>3, <3>1, <3>3
  <2>5. \A r \in Resources \ alive' : list'[r] = <<>>
    <3> SUFFICES ASSUME NEW r \in Resources \ alive'
                 PROVE  list'[r] = <<>>
      OBVIOUS
    <3>1. r \in AllLists
      BY DEF AllLists
    <3>2. ToSet(list'[r]) = {}
      <4>1. CASE r \in F
        BY <1>2, <3>1, <4>1 DEF MayGo
      <4>2. CASE r \notin F
        <5>1. list[r] = <<>>
          BY <1>3, <4>2 DEF TreeInv, TwinsAgree
        <5>2. list[r] \in Seq(Instances)
          BY <1>1, <3>1
        <5>3. ToSet(list[r]) = {}
          BY <5>1, <5>2, NoMember
        <5> QED
          BY <1>2, <3>1, <5>3
      <4> QED
        BY <4>1, <4>2
    <3> QED
      BY <1>2, <3>1, <3>2, NoMember
  <2> QED
    BY <2>1, <2>2, <2>3, <2>4, <2>5 DEF TwinsAgree, AllLists
<1>8. ParentSound'
  <2>1. ASSUME NEW c \in Resources, parent'[c] # None
        PROVE  parent'[c] \in alive' /\ c \in Childs(parent[c])'
    <3>1. c \notin G /\ parent'[c] = parent[c] /\ parent[c] # None
      BY <1>3, <2>1
    <3>2. PICK p \in Resources : p = parent[c]
      BY <3>1 DEF TreeInv, RcTypes
    <3>3. p \in alive /\ c \in Childs(p) /\ p \in AllLists
      BY <3>1, <3>2 DEF TreeInv, ParentSound, AllLists
    <3>4. PICK i \in ToSet(list[p]) : resource[i] = c
      BY <3>3, ChildIs
    <3>5. p \notin F /\ i \notin X
      BY <3>1, <3>4 DEF MayGo
    <3>6. i \in ToSet(list'[p])
      BY <1>2, <3>3, <3>5
    <3>7. c \in {resource'[j] : j \in ToSet(list'[p])}
      BY <1>6, <3>3, <3>4, <3>6
    <3>8. parent'[c] = p /\ p \in alive'
      BY <1>3, <3>1, <3>2, <3>3, <3>5
    <3>9. c \in Childs(parent[c])'
      BY <3>7, <3>8 DEF Childs
    <3> QED
      BY <3>8, <3>9
  <2>2. ASSUME NEW c \in Resources, NEW p \in Resources, c \in Childs(p)'
        PROVE  parent'[c] = p
    <3>1. p \in AllLists
      BY DEF AllLists
    <3>2. PICK i \in ToSet(list'[p]) : resource'[i] = c
      BY <2>2 DEF Childs
    <3>3. i \in ToSet(list[p]) /\ i \notin X /\ resource[i] = c
      BY <1>2, <1>6, <3>1, <3>2
    <3>4. c \notin G
      BY <3>3 DEF MayGo
    <3>5. parent[c] = p
      BY <1>6, <2>2, <3>1 DEF TreeInv, ParentSound
    <3> QED
      BY <1>3, <3>4, <3>5
  <2> QED
    BY <2>1, <2>2 DEF ParentSound
<1>9. OneParent'
  <2>1. \A p \in Resources : \A i \in ToSet(list'[p]) : i \in ToSet(list[p]) /\ resource'[i] = resource[i]
    BY <1>2, <1>6 DEF AllLists
  <2> QED
    BY <2>1 DEF TreeInv, OneParent
<1>10. NoCycle'
  <2> SUFFICES ASSUME NEW p \in Resources, NEW c \in Childs(p)'
               PROVE  p \notin Family(c)'
    BY DEF NoCycle
  <2>1. p \in AllLists /\ c \in Childs(p)
    BY <1>6 DEF AllLists
  <2>2. c \in Resources
    BY <2>1, ChildIs
  <2>3. p \notin Family(c)
    BY <2>1 DEF TreeInv, NoCycle
  <2>4. PICK rs \in SUBSET Resources : c \in rs /\ Whole(rs) /\ p \notin rs
    BY <2>2, <2>3, FamilyIs
  <2>5. Whole(rs)'
    BY <1>6, <2>4 DEF Whole, AllLists
  <2> QED
    BY <2>4, <2>5 DEF Family
<1> QED
  BY <1>4, <1>7, <1>8, <1>9, <1>10 DEF TreeInv

\* A set of numbers that has one has a least.
LEMMA LeastOf ==
    ASSUME NEW B \in SUBSET Nat, B # {}
    PROVE  \E m \in B : \A b \in B : m <= b
<1> DEFINE R == OpToRel(<, Nat)
<1>1. IsWellFoundedOn(R, Nat)
  BY NatLessThanWellFounded
<1>2. \E x \in B : \A y \in B : ~(<<y, x>> \in R)
  <2> HIDE DEF R
  <2> QED
    BY <1>1, WFMin
<1>3. PICK m \in B : \A y \in B : ~(y < m)
  BY <1>2 DEF OpToRel
<1>4. \A y \in B : y \in Nat /\ m \in Nat
  OBVIOUS
<1>5. \A y \in B : m <= y
  BY <1>3, <1>4
<1> QED
  BY <1>5

\* rc_delete_instance and rc_free_iter: instances of iters.
LEMMA IterInstancesGo ==
    ASSUME RcListAssumption, Callers = {}, TreeInv, NEW X \in SUBSET InUse, NEW free \in BOOLEAN,
           MayDelete(X, free)
    PROVE  /\ FreedWith(X, free) \in SUBSET Resources
           /\ MayGo(X, FreedWith(X, free), FreedWith(X, free))
           /\ \A p \in Resources : ToSet(list[p]) \cap X = {}
           /\ \A r \in FreedWith(X, free) : list[r] = <<>>
<1> DEFINE F == FreedWith(X, free)
<1>1. /\ F \in SUBSET Resources
      /\ \A r \in F : ToSet(inner[r]) \subseteq X
  BY DEF FreedWith, TreeInv, RcTypes
<1>2. \A r \in F : list[r] = <<>>
  BY DEF MayDelete, Anyone
<1> HIDE DEF F
<1>3. \A p \in Resources : \A i \in ToSet(list[p]) : i \notin X
  <2> SUFFICES ASSUME NEW p \in Resources, NEW i \in ToSet(list[p]), i \in X
               PROVE  FALSE
    OBVIOUS
  <2>1. ListOf(i) \in Iters
    BY DEF MayDelete, Anyone
  <2>2. ListOf(i) \in AllLists /\ i \in ToSet(list[ListOf(i)]) /\ p \in AllLists
    BY IsListed DEF AllLists
  <2>3. p = ListOf(i)
    BY <2>2, InList
  <2> QED
    BY <2>1, <2>3 DEF RcListAssumption
<1>4. ASSUME NEW p \in Resources, NEW i \in ToSet(list[p])
      PROVE  p \notin F /\ resource[i] \notin F
  <2>1. list[p] # <<>>
    BY <1>4 DEF ToSet
  <2>2. p \in AllLists
    BY DEF AllLists
  <2>3. i \in ToSet(inner[resource[i]])
    BY <2>2, InList
  <2> QED
    BY <1>1, <1>2, <1>3, <2>1, <2>3
<1>5. \A r \in F : ToSet(list[r]) = {}
  BY <1>2 DEF ToSet
<1>6. MayGo(X, F, F)
  BY <1>1, <1>3, <1>4, <1>5 DEF MayGo
<1> QED
  BY <1>1, <1>2, <1>3, <1>6 DEF F

LEMMA DeleteInstanceKeeps ==
    ASSUME RcListAssumption, Callers = {}, TreeInv, NEW i \in InUse, NEW free \in BOOLEAN,
           DeleteInstance(i, free)
    PROVE  TreeInv'
<1> DEFINE F == FreedWith({i}, free)
<1>1. MayDelete({i}, free) /\ Deletes({i}, F, F) /\ {i} \in SUBSET InUse /\ {i} \in SUBSET Instances
  BY DEF DeleteInstance, Deletes, Orphan, InUse
<1>2. MayGo({i}, F, F) /\ F \in SUBSET Resources
  BY <1>1, IterInstancesGo
<1> HIDE DEF F
<1> QED
  BY <1>1, <1>2, Deleted

LEMMA FreeIterKeeps ==
    ASSUME RcListAssumption, Callers = {}, TreeInv, NEW l \in Iters, NEW free \in BOOLEAN,
           FreeIter(l, free)
    PROVE  TreeInv'
<1> DEFINE X == ToSet(list[l])
           F == FreedWith(X, free)
<1>1. l \in AllLists
  BY DEF AllLists
<1>2. X \in SUBSET InUse /\ X \in SUBSET Instances
  BY <1>1, InList DEF InUse
<1>3. MayDelete(X, free) /\ Deletes(X, F, F)
  BY DEF FreeIter, Deletes, Orphan
<1> HIDE DEF X
<1>4. MayGo(X, F, F) /\ F \in SUBSET Resources
  BY <1>2, <1>3, IterInstancesGo
<1> HIDE DEF F
<1> QED
  BY <1>2, <1>3, <1>4, Deleted

\* rc_delete_resource and rc_delete_all_childs: resources with all that hangs from them.
LEMMA DestroyKeeps ==
    ASSUME RcListAssumption, Callers = {}, TreeInv, NEW rs \in SUBSET Resources, Whole(rs),
           NEW free \in BOOLEAN, Destroy(rs, free)
    PROVE  TreeInv'
<1> DEFINE X == InstancesOf(rs)
           F == IF free THEN rs ELSE {}
<1>1. Deletes(X, F, F) /\ F \in SUBSET Resources
  BY DEF Destroy, Deletes, Orphan
<1>2. \A r \in rs : parent[r] # None => free
  BY DEF Destroy, Anyone
<1>3. \A i : i \in X <=> i \in Instances /\ resource[i] \in rs
  <2>1. \A r \in rs : ToSet(inner[r]) = {i \in Instances : resource[i] = r}
    BY DEF TreeInv, TwinsAgree
  <2> QED
    BY <2>1 DEF InstancesOf
<1>4. \A r \in rs : ToSet(inner[r]) \subseteq X
  BY DEF InstancesOf
<1> HIDE DEF X
<1>5. ASSUME NEW p \in Resources, NEW i \in ToSet(list[p])
      PROVE  /\ i \in Instances /\ resource[i] \in Childs(p) /\ resource[i] \in Resources
             /\ parent[resource[i]] = p /\ p # None
             /\ p \in rs => resource[i] \in rs
  <2>1. p \in AllLists
    BY DEF AllLists
  <2>2. i \in Instances /\ resource[i] \in Childs(p) /\ resource[i] \in Resources
    BY <2>1, InList
  <2>3. parent[resource[i]] = p
    BY <2>1, <2>2, ChildIs
  <2> QED
    BY <2>2, <2>3 DEF Whole, RcListAssumption
<1>6. \A r \in F : ToSet(inner[r]) \subseteq X /\ ToSet(list[r]) \subseteq X
  <2> SUFFICES ASSUME NEW r \in F
               PROVE  ToSet(inner[r]) \subseteq X /\ ToSet(list[r]) \subseteq X
    OBVIOUS
  <2>1. r \in rs /\ r \in Resources
    OBVIOUS
  <2>2. \A i \in ToSet(list[r]) : i \in X
    BY <1>3, <1>5, <2>1
  <2> QED
    BY <1>4, <2>1, <2>2
<1>7. ASSUME NEW p \in Resources, NEW i \in ToSet(list[p])
      PROVE  /\ resource[i] \in F => i \in X
             /\ resource[i] \notin F => p \notin F /\ i \notin X
  <2>1. /\ i \in Instances /\ parent[resource[i]] # None
        /\ p \in rs => resource[i] \in rs
    BY <1>5, <1>7
  <2>2. CASE free
    BY <1>3, <2>1, <2>2
  <2>3. CASE ~free
    BY <1>2, <1>3, <2>1, <2>3
  <2> QED
    BY <2>2, <2>3
<1>8. MayGo(X, F, F) /\ X \in SUBSET Instances
  BY <1>3, <1>6, <1>7 DEF MayGo
<1> HIDE DEF F
<1> QED
  BY <1>1, <1>8, Deleted

LEMMA DeleteResourceKeeps ==
    ASSUME RcListAssumption, Callers = {}, TreeInv, NEW r \in Resources, NEW free \in BOOLEAN,
           DeleteResource(r, free)
    PROVE  TreeInv'
<1>1. Family(r) \in SUBSET Resources /\ Whole(Family(r))
  BY FamilyIs
<1> QED
  BY <1>1, DestroyKeeps DEF DeleteResource

LEMMA DeleteAllChildsKeeps ==
    ASSUME RcListAssumption, Callers = {}, TreeInv, NEW r \in Resources, NEW free \in BOOLEAN,
           DeleteAllChilds(r, free)
    PROVE  TreeInv'
<1> DEFINE rs == UNION {Family(c) : c \in Childs(r)}
<1>1. \A c \in Childs(r) : c \in Resources
  BY ChildIs DEF AllLists
<1>2. \A c \in Childs(r) : Family(c) \in SUBSET Resources /\ Whole(Family(c))
  BY <1>1, FamilyIs
<1>3. rs \in SUBSET Resources /\ Whole(rs)
  BY <1>2 DEF Whole
<1>4. Destroy(rs, free)
  BY DEF DeleteAllChilds
<1> HIDE DEF rs
<1> QED
  BY <1>3, <1>4, DestroyKeeps

LEMMA RemoveChildKeeps ==
    ASSUME RcListAssumption, Callers = {}, TreeInv, NEW p \in alive, NEW c \in alive,
           NEW free \in BOOLEAN, RemoveChild(p, c, free)
    PROVE  TreeInv'
<1> DEFINE Of(n) == n \in DOMAIN list[p] /\ resource[list[p][n]] = c
           First(n) == /\ resource[list[p][n]] = c
                       /\ \A m \in 1..(n - 1) : resource[list[p][m]] # c
           i == list[p][CHOOSE n \in DOMAIN list[p] : First(n)]
           F == FreedWith({i}, free)
<1>1. p \in Resources /\ c \in Resources /\ p \in AllLists /\ list[p] \in Seq(Instances)
  BY DEF TreeInv, RcTypes, AllLists
<1>2. c \in Childs(p) /\ \A r \in F : list[r] = <<>>
  BY DEF RemoveChild, Anyone
<1>3. \E n \in DOMAIN list[p] : First(n)
  <2> DEFINE B == {n \in DOMAIN list[p] : Of(n)}
  <2>1. B # {}
    BY <1>2 DEF Childs, ToSet
  <2>2. B \in SUBSET Nat /\ DOMAIN list[p] = 1 .. Len(list[p]) /\ Len(list[p]) \in Nat
    BY <1>1
  <2>3. PICK n \in B : \A m \in B : n <= m
    <3> HIDE DEF B
    <3> QED
      BY <2>1, <2>2, LeastOf
  <2>4. \A m \in 1..(n - 1) : m \in DOMAIN list[p] /\ ~(n <= m)
    BY <2>2
  <2>5. \A m \in 1..(n - 1) : m \notin B
    <3> HIDE DEF B
    <3> QED
      BY <2>3, <2>4
  <2> QED
    BY <2>4, <2>5
<1>4. i \in ToSet(list[p]) /\ resource[i] = c
  <2>1. PICK n \in DOMAIN list[p] : n = (CHOOSE k \in DOMAIN list[p] : First(k)) /\ First(n)
    BY <1>3
  <2> QED
    BY <2>1 DEF ToSet
<1>5. Without({i}, F) /\ parent' = [parent EXCEPT ![c] = None]
  BY DEF RemoveChild
<1>6. F \in SUBSET {c} /\ \A r \in F : ToSet(inner[r]) \subseteq {i}
  <2>1. \A r \in Resources : ToSet(inner[r]) = {j \in Instances : resource[j] = r}
    BY DEF TreeInv, TwinsAgree
  <2> HIDE DEF i
  <2>2. \A r \in F : r \in Resources /\ ToSet(inner[r]) # {} /\ ToSet(inner[r]) \subseteq {i}
    BY DEF FreedWith, TreeInv, RcTypes
  <2>3. \A r \in F : i \in ToSet(inner[r])
    BY <2>2
  <2>4. \A r \in F : r = c
    <3> TAKE r \in F
    <3>1. resource[i] = r
      BY <2>1, <2>2, <2>3
    <3> QED
      BY <1>4, <3>1
  <2> HIDE DEF F
  <2> QED
    BY <2>2, <2>4
<1> HIDE DEF F, i, First
<1>7. Deletes({i}, F, {c})
  BY <1>1, <1>5 DEF Deletes, TreeInv, RcTypes
<1>8. i \in Instances
  BY <1>1, <1>4, InList
<1>9. ASSUME NEW q \in Resources, NEW j \in ToSet(list[q])
      PROVE  /\ resource[j] = c => j = i
             /\ resource[j] # c => q \notin F /\ j # i
  <2>1. resource[j] = c => j = i
    BY <1>1, <1>4, <1>9 DEF TreeInv, OneParent
  <2>2. q \notin F
    BY <1>2, <1>9 DEF ToSet
  <2> QED
    BY <1>4, <2>1, <2>2
<1>10. \A r \in F : ToSet(list[r]) = {}
  BY <1>2 DEF ToSet
<1>11. MayGo({i}, F, {c})
  BY <1>6, <1>9, <1>10 DEF MayGo
<1> QED
  BY <1>1, <1>6, <1>7, <1>8, <1>11, Deleted

\* One sequence after another.
LEMMA Joined ==
    ASSUME NEW S, NEW s \in Seq(S), NEW t \in Seq(S)
    PROVE  /\ s \o t \in Seq(S)
           /\ \A x : x \in ToSet(s \o t) <=> x \in ToSet(s) \/ x \in ToSet(t)
           /\ /\ \A n, k \in DOMAIN s : s[n] = s[k] => n = k
              /\ \A n, k \in DOMAIN t : t[n] = t[k] => n = k
              /\ \A x \in ToSet(s) : x \notin ToSet(t)
              => \A n, k \in DOMAIN (s \o t) : (s \o t)[n] = (s \o t)[k] => n = k
<1> DEFINE u == s \o t
<1>1. /\ Len(s) \in Nat /\ Len(t) \in Nat /\ DOMAIN s = 1 .. Len(s) /\ DOMAIN t = 1 .. Len(t)
      /\ u \in Seq(S) /\ DOMAIN u = 1 .. (Len(s) + Len(t))
  OBVIOUS
<1>2. \A n \in DOMAIN s : n \in DOMAIN u /\ u[n] = s[n]
  OBVIOUS
<1>3. \A n \in DOMAIN t : n + Len(s) \in DOMAIN u /\ u[n + Len(s)] = t[n]
  OBVIOUS
<1>4. \A n \in DOMAIN u : \/ n \in DOMAIN s
                          \/ n \notin DOMAIN s /\ n - Len(s) \in DOMAIN t /\ (n - Len(s)) + Len(s) = n
  BY <1>1
<1>5. \A n \in DOMAIN u : \/ n \in DOMAIN s /\ u[n] = s[n]
                          \/ n \notin DOMAIN s /\ n - Len(s) \in DOMAIN t /\ u[n] = t[n - Len(s)]
  <2> HIDE DEF u
  <2> TAKE n \in DOMAIN u
  <2>1. CASE n \in DOMAIN s
    BY <1>2, <2>1
  <2>2. CASE n \notin DOMAIN s /\ n - Len(s) \in DOMAIN t /\ (n - Len(s)) + Len(s) = n
    <3>1. u[(n - Len(s)) + Len(s)] = t[n - Len(s)]
      BY <1>3, <2>2, Zenon
    <3> QED
      BY <2>2, <3>1, Zenon
  <2> QED
    BY <1>4, <2>1, <2>2
<1> HIDE DEF u
<1>6. ASSUME NEW x
      PROVE  x \in ToSet(u) <=> x \in ToSet(s) \/ x \in ToSet(t)
  <2>1. x \in ToSet(u) => x \in ToSet(s) \/ x \in ToSet(t)
    BY <1>5 DEF ToSet
  <2>2. x \in ToSet(s) => x \in ToSet(u)
    BY <1>2 DEF ToSet
  <2>3. x \in ToSet(t) => x \in ToSet(u)
    BY <1>3 DEF ToSet
  <2> QED
    BY <2>1, <2>2, <2>3
<1>7. ASSUME \A n, k \in DOMAIN s : s[n] = s[k] => n = k,
             \A n, k \in DOMAIN t : t[n] = t[k] => n = k,
             \A x \in ToSet(s) : x \notin ToSet(t),
             NEW n \in DOMAIN u, NEW k \in DOMAIN u, u[n] = u[k]
      PROVE  n = k
  <2>1. \A a \in DOMAIN s, b \in DOMAIN t : s[a] # t[b]
    BY <1>7 DEF ToSet
  <2>2. n \in DOMAIN s <=> k \in DOMAIN s
    BY <1>5, <1>7, <2>1
  <2>3. CASE n \in DOMAIN s
    BY <1>5, <1>7, <2>2, <2>3
  <2>4. CASE n \notin DOMAIN s
    <3>1. n - Len(s) = k - Len(s)
      BY <1>5, <1>7, <2>2, <2>4
    <3>2. n \in Int /\ k \in Int
      BY <1>1
    <3> QED
      BY <1>1, <3>1, <3>2
  <2> QED
    BY <2>3, <2>4
<1> QED
  BY <1>1, <1>6, <1>7 DEF u

LEMMA Single ==
    ASSUME NEW S, NEW e \in S, NEW s \in Seq(S)
    PROVE  /\ <<e>> \in Seq(S) /\ ToSet(<<e>>) = {e} /\ Append(s, e) = s \o <<e>>
           /\ \A n, k \in DOMAIN <<e>> : <<e>>[n] = <<e>>[k] => n = k
<1>1. <<e>> \in Seq(S) /\ Append(s, e) = s \o <<e>>
  OBVIOUS
<1>2. DOMAIN <<e>> = {1} /\ <<e>>[1] = e
  OBVIOUS
<1> QED
  BY <1>1, <1>2 DEF ToSet

\* t is s with the instances N, that were not in it.
NewTo(s, N, t) ==
    /\ t \in Seq(Instances)
    /\ \A i : i \in ToSet(t) <=> i \in ToSet(s) \/ i \in N
    /\ \A n, k \in DOMAIN t : t[n] = t[k] => n = k

\* An instance at one end.
LEMMA NewAtEnd ==
    ASSUME NEW s \in Seq(Instances), NEW i \in Instances, i \notin ToSet(s),
           \A n, k \in DOMAIN s : s[n] = s[k] => n = k
    PROVE  NewTo(s, {i}, Append(s, i)) /\ NewTo(s, {i}, <<i>> \o s)
<1>1. /\ <<i>> \in Seq(Instances) /\ ToSet(<<i>>) = {i} /\ Append(s, i) = s \o <<i>>
      /\ \A n, k \in DOMAIN <<i>> : <<i>>[n] = <<i>>[k] => n = k
  BY Single
<1> DEFINE e == <<i>>
<1> HIDE DEF e
<1>2. /\ e \in Seq(Instances) /\ ToSet(e) = {i} /\ \A n, k \in DOMAIN e : e[n] = e[k] => n = k
  BY <1>1 DEF e
<1>3. NewTo(s, {i}, s \o e)
  <2>1. \A x \in ToSet(s) : x \notin ToSet(e)
    BY <1>2
  <2> QED
    BY <1>2, <2>1, Joined DEF NewTo
<1>4. NewTo(s, {i}, e \o s)
  <2>1. \A x \in ToSet(e) : x \notin ToSet(s)
    BY <1>2
  <2> QED
    BY <1>2, <2>1, Joined DEF NewTo
<1> QED
  BY <1>1, <1>3, <1>4 DEF e

\* The instances N are added to the list l, as t, and to the resources they are of.
Adds(l, N, t) ==
    /\ list' = [list EXCEPT ![l] = t] /\ NewTo(list[l], N, t)
    /\ inner' = [r \in Resources |-> inner'[r]]
    /\ \A r \in Resources : NewTo(inner[r], {i \in N : resource'[i] = r}, inner'[r])
    /\ resource' \in [Instances -> Resources \union {None}]
    /\ \A i \in Instances \ N : resource'[i] = resource[i]
    /\ \A i \in N : resource'[i] \in alive'
    /\ alive \subseteq alive' /\ alive' \in SUBSET Resources
    /\ l \in Resources => l \in alive

LEMMA Added ==
    ASSUME RcListAssumption, TreeInv, NEW l \in AllLists, NEW N \in SUBSET (Instances \ InUse),
           NEW t, Adds(l, N, t)
    PROVE  /\ list' \in [AllLists -> Seq(Instances)] /\ inner' \in [Resources -> Seq(Instances)]
           /\ TwinsAgree'
           /\ \A m \in AllLists : m # l => list'[m] = list[m]
           /\ \A i : i \in ToSet(list'[l]) <=> i \in ToSet(list[l]) \/ i \in N
           /\ \A m \in AllLists : \A i \in ToSet(list[m]) : i \notin N /\ resource'[i] = resource[i]
<1>1. list' \in [AllLists -> Seq(Instances)] /\ inner' \in [Resources -> Seq(Instances)]
  BY DEF TreeInv, RcTypes, Adds, NewTo
<1>2. list'[l] = t /\ \A m \in AllLists : m # l => list'[m] = list[m]
  BY DEF TreeInv, RcTypes, Adds
<1>3. \A i : i \in ToSet(list'[l]) <=> i \in ToSet(list[l]) \/ i \in N
  BY <1>2 DEF Adds, NewTo
<1>4. \A m \in AllLists : \A i \in ToSet(list[m]) :
          i \in Instances /\ i \notin N /\ resource'[i] = resource[i]
  <2> TAKE m \in AllLists
  <2> TAKE i \in ToSet(list[m])
  <2>1. i \in Instances /\ resource[i] # None
    BY InList
  <2>2. i \in InUse
    BY <2>1 DEF InUse
  <2> QED
    BY <2>1, <2>2 DEF Adds
<1>5. \A i : i \in InUse' <=> i \in InUse \/ i \in N
  <2>1. \A i \in N : resource'[i] # None /\ i \in Instances
    BY DEF Adds, RcListAssumption
  <2>2. \A i \in Instances \ N : resource'[i] = resource[i]
    BY DEF Adds
  <2> QED
    BY <2>1, <2>2 DEF InUse
<1>6. ASSUME NEW k \in AllLists, NEW m \in AllLists, NEW a \in DOMAIN list'[k], NEW b \in DOMAIN list'[m],
             list'[k][a] = list'[m][b]
      PROVE  k = m /\ a = b
  <2>1. PICK i : i = list'[k][a]
    OBVIOUS
  <2>2. i \in ToSet(list'[k]) /\ i \in ToSet(list'[m])
    BY <1>6, <2>1 DEF ToSet
  <2>3. \A c, d \in AllLists : i \in ToSet(list[c]) /\ i \in ToSet(list[d]) => c = d
    BY InList
  <2>4. k = m
    BY <1>2, <1>3, <1>4, <2>2, <2>3
  <2>5. CASE k = l
    BY <1>2, <1>6, <2>4, <2>5 DEF Adds, NewTo
  <2>6. CASE k # l
    BY <1>2, <1>6, <2>4, <2>6 DEF TreeInv, TwinsAgree, AllLists
  <2> QED
    BY <2>4, <2>5, <2>6
<1>7. InUse' = UNION {ToSet(list'[m]) : m \in AllLists}
  <2>1. InUse = UNION {ToSet(list[m]) : m \in AllLists}
    BY DEF TreeInv, TwinsAgree, AllLists
  <2>2. \A i : i \in InUse <=> \E m \in AllLists : i \in ToSet(list[m])
    BY <2>1
  <2>3. \A i : i \in InUse' <=> \E m \in AllLists : i \in ToSet(list'[m])
    BY <1>2, <1>3, <1>5, <2>2
  <2> QED
    BY <2>3
<1>8. ASSUME NEW r \in Resources
      PROVE  /\ ToSet(inner'[r]) = {i \in Instances : resource'[i] = r}
             /\ \A n, k \in DOMAIN inner'[r] : inner'[r][n] = inner'[r][k] => n = k
  <2>1. ToSet(inner[r]) = {i \in Instances : resource[i] = r}
    BY DEF TreeInv, TwinsAgree
  <2>2. NewTo(inner[r], {i \in N : resource'[i] = r}, inner'[r])
    BY DEF Adds
  <2>3. r # None
    BY DEF RcListAssumption
  <2>4. \A i \in N : i \in Instances /\ resource[i] = None
    BY DEF InUse
  <2>5. \A i : i \in ToSet(inner'[r]) <=> i \in Instances /\ resource'[i] = r
    BY <2>1, <2>2, <2>3, <2>4 DEF Adds, NewTo
  <2> QED
    BY <2>2, <2>5 DEF NewTo
<1>9. \A i \in InUse' : resource'[i] \in alive'
  <2> TAKE i \in InUse'
  <2>1. CASE i \in N
    BY <2>1 DEF Adds
  <2>2. CASE i \notin N
    <3>1. i \in InUse /\ i \in Instances
      BY <1>5, <2>2 DEF InUse
    <3>2. resource[i] \in alive
      BY <3>1 DEF TreeInv, TwinsAgree
    <3> QED
      BY <2>2, <3>1, <3>2 DEF Adds
  <2> QED
    BY <2>1, <2>2
<1>10. \A r \in Resources \ alive' : list'[r] = <<>>
  <2> TAKE r \in Resources \ alive'
  <2>1. r \notin alive /\ r # l /\ r \in AllLists
    BY DEF Adds, AllLists
  <2> QED
    BY <1>2, <2>1 DEF TreeInv, TwinsAgree
<1>11. TwinsAgree'
  BY <1>6, <1>7, <1>8, <1>9, <1>10 DEF TwinsAgree, AllLists
<1> QED
  BY <1>1, <1>2, <1>3, <1>4, <1>11

\* What an iter has more changes nothing of the tree.
LEMMA AddedToIter ==
    ASSUME RcListAssumption, TreeInv, NEW l \in Iters, NEW N \in SUBSET (Instances \ InUse),
           NEW t, Adds(l, N, t), UNCHANGED parent
    PROVE  TreeInv'
<1>1. l \in AllLists /\ l \notin Resources
  BY DEF AllLists, RcListAssumption
<1>2. /\ list' \in [AllLists -> Seq(Instances)] /\ inner' \in [Resources -> Seq(Instances)]
      /\ TwinsAgree'
      /\ \A m \in AllLists : m # l => list'[m] = list[m]
      /\ \A i : i \in ToSet(list'[l]) <=> i \in ToSet(list[l]) \/ i \in N
      /\ \A m \in AllLists : \A i \in ToSet(list[m]) : i \notin N /\ resource'[i] = resource[i]
  BY <1>1, Added, Zenon
<1>3. \A r \in Resources : /\ r \in AllLists /\ list'[r] = list[r] /\ Childs(r)' = Childs(r)
                           /\ \A i \in ToSet(list[r]) : resource'[i] = resource[i]
  <2> TAKE r \in Resources
  <2>1. r \in AllLists /\ list'[r] = list[r] /\ \A i \in ToSet(list[r]) : resource'[i] = resource[i]
    BY <1>1, <1>2 DEF AllLists
  <2> QED
    BY <2>1 DEF Childs
<1>4. RcTypes'
  BY <1>2 DEF RcTypes, TreeInv, Adds
<1>5. ParentSound'
  <2>1. ASSUME NEW c \in Resources, parent'[c] # None
        PROVE  parent'[c] \in alive' /\ c \in Childs(parent[c])'
    <3>1. parent' = parent
      OBVIOUS
    <3>2. parent[c] \in Resources /\ parent[c] \in alive /\ c \in Childs(parent[c])
      BY <2>1, <3>1 DEF TreeInv, RcTypes, ParentSound
    <3>3. PICK p \in Resources : p = parent[c]
      BY <3>2
    <3>4. c \in Childs(p)' /\ p \in alive' /\ parent'[c] = p
      BY <1>3, <3>1, <3>2, <3>3 DEF Adds
    <3> QED
      BY <3>4 DEF Childs
  <2>2. \A c, p \in Resources : c \in Childs(p)' => parent'[c] = p
    BY <1>3 DEF TreeInv, ParentSound
  <2> QED
    BY <2>1, <2>2 DEF ParentSound
<1>6. OneParent'
  BY <1>3 DEF TreeInv, OneParent
<1>7. NoCycle'
  <2> SUFFICES ASSUME NEW p \in Resources, NEW c \in Childs(p)'
               PROVE  p \notin Family(c)'
    BY DEF NoCycle
  <2>1. c \in Childs(p)
    BY <1>3
  <2>2. c \in Resources
    BY <1>3, <2>1, ChildIs
  <2>3. p \notin Family(c)
    BY <2>1 DEF TreeInv, NoCycle
  <2>4. PICK rs \in SUBSET Resources : c \in rs /\ Whole(rs) /\ p \notin rs
    BY <2>2, <2>3, FamilyIs
  <2>5. Whole(rs)'
    BY <1>3, <2>4 DEF Whole
  <2> QED
    BY <2>4, <2>5 DEF Family
<1> QED
  BY <1>2, <1>4, <1>5, <1>6, <1>7 DEF TreeInv

\* The one instance that an operation takes.
LEMMA FreshIs ==
    ASSUME RcListAssumption, TreeInv, InUse # Instances
    PROVE  /\ Fresh \in Instances /\ Fresh \notin InUse
           /\ \A l \in AllLists : Fresh \notin ToSet(list[l])
           /\ \A r \in Resources : Fresh \notin ToSet(inner[r])
<1>1. InUse \subseteq Instances
  BY DEF InUse
<1>2. Fresh \in Instances /\ Fresh \notin InUse
  BY <1>1 DEF Fresh
<1>3. resource[Fresh] = None
  BY <1>2 DEF InUse
<1>4. \A l \in AllLists : Fresh \notin ToSet(list[l])
  BY <1>3, InList
<1>5. \A r \in Resources : Fresh \notin ToSet(inner[r])
  <2> TAKE r \in Resources
  <2>1. ToSet(inner[r]) = {i \in Instances : resource[i] = r} /\ r # None
    BY DEF TreeInv, TwinsAgree, RcListAssumption
  <2> QED
    BY <1>3, <2>1
<1> QED
  BY <1>2, <1>4, <1>5

\* Both twins of Fresh, for the resource r, in the list l.
LEMMA OneAdded ==
    ASSUME RcListAssumption, TreeInv, InUse # Instances, NEW l \in AllLists, NEW r \in Resources,
           NEW first \in BOOLEAN, Allocate(r), l \in Resources => l \in alive,
           inner' = [inner EXCEPT ![r] = Append(@, Fresh)],
           list' = [list EXCEPT ![l] = IF first THEN <<Fresh>> \o @ ELSE Append(@, Fresh)],
           resource' = [resource EXCEPT ![Fresh] = r]
    PROVE  /\ Adds(l, {Fresh}, IF first THEN <<Fresh>> \o list[l] ELSE Append(list[l], Fresh))
           /\ {Fresh} \in SUBSET (Instances \ InUse)
<1> DEFINE t == IF first THEN <<Fresh>> \o list[l] ELSE Append(list[l], Fresh)
<1>1. /\ Fresh \in Instances /\ Fresh \notin InUse
      /\ Fresh \notin ToSet(list[l])
      /\ \A q \in Resources : Fresh \notin ToSet(inner[q])
  BY FreshIs
<1>2. list[l] \in Seq(Instances) /\ \A n, k \in DOMAIN list[l] : list[l][n] = list[l][k] => n = k
  BY DEF TreeInv, RcTypes, TwinsAgree, AllLists
<1>3. \A q \in Resources : inner[q] \in Seq(Instances)
                           /\ \A n, k \in DOMAIN inner[q] : inner[q][n] = inner[q][k] => n = k
  BY DEF TreeInv, RcTypes, TwinsAgree
<1>4. list' = [list EXCEPT ![l] = t] /\ NewTo(list[l], {Fresh}, t)
  <2>1. list' = [list EXCEPT ![l] = t]
    OBVIOUS
  <2>2. NewTo(list[l], {Fresh}, Append(list[l], Fresh)) /\ NewTo(list[l], {Fresh}, <<Fresh>> \o list[l])
    BY <1>1, <1>2, NewAtEnd
  <2> QED
    BY <2>1, <2>2
<1>5. /\ resource' \in [Instances -> Resources \union {None}] /\ resource'[Fresh] = r
      /\ \A i \in Instances \ {Fresh} : resource'[i] = resource[i]
  BY <1>1 DEF TreeInv, RcTypes
<1>6. \A q \in Resources : inner'[q] = IF q = r THEN Append(inner[q], Fresh) ELSE inner[q]
  BY DEF TreeInv, RcTypes
<1>7. inner' = [q \in Resources |-> inner'[q]]
  BY DEF TreeInv, RcTypes
<1>8. ASSUME NEW q \in Resources
      PROVE  NewTo(inner[q], {i \in {Fresh} : resource'[i] = q}, inner'[q])
  <2>1. CASE q = r
    <3>1. {i \in {Fresh} : resource'[i] = q} = {Fresh}
      BY <1>5, <2>1
    <3>2. NewTo(inner[q], {Fresh}, Append(inner[q], Fresh))
      BY <1>1, <1>3, NewAtEnd
    <3> QED
      BY <1>6, <2>1, <3>1, <3>2
  <2>2. CASE q # r
    <3>1. {i \in {Fresh} : resource'[i] = q} = {}
      BY <1>5, <2>2
    <3>2. NewTo(inner[q], {}, inner[q])
      BY <1>3 DEF NewTo
    <3> QED
      BY <1>6, <2>2, <3>1, <3>2
  <2> QED
    BY <2>1, <2>2
<1>9. alive \subseteq alive' /\ alive' \in SUBSET Resources /\ r \in alive'
  BY DEF Allocate, TreeInv, RcTypes
<1> HIDE DEF t
<1>10. Adds(l, {Fresh}, t)
  BY <1>4, <1>5, <1>7, <1>8, <1>9 DEF Adds
<1> QED
  BY <1>1, <1>10 DEF t

LEMMA AddInstanceKeeps ==
    ASSUME RcListAssumption, TreeInv, NEW l \in Iters, NEW r \in Resources, NEW first \in BOOLEAN,
           AddInstance(l, r, first)
    PROVE  TreeInv'
<1>1. l \in AllLists /\ l \notin Resources
  BY DEF AllLists, RcListAssumption
<1>2. /\ Adds(l, {Fresh}, IF first THEN <<Fresh>> \o list[l] ELSE Append(list[l], Fresh))
      /\ {Fresh} \in SUBSET (Instances \ InUse)
  BY <1>1, OneAdded DEF AddInstance
<1>3. UNCHANGED parent
  BY DEF AddInstance
<1> QED
  BY <1>2, <1>3, AddedToIter

\* The numbers that SetToSeq gives to a finite set.
LEMMA SetInSeq ==
    ASSUME NEW S, IsFiniteSet(S)
    PROVE  /\ SetToSeq(S) \in Seq(S) /\ Len(SetToSeq(S)) = Cardinality(S) /\ Cardinality(S) \in Nat
           /\ \A n, k \in DOMAIN SetToSeq(S) : SetToSeq(S)[n] = SetToSeq(S)[k] => n = k
<1>1. Cardinality(S) \in Nat /\ ExistsBijection(1 .. Cardinality(S), S)
  BY FS_CardinalityType
<1>2. PICK f \in [1 .. Cardinality(S) -> S] : IsInjective(f)
  BY <1>1 DEF ExistsBijection, Bijection, Injection
<1>3. SetToSeq(S) \in [1 .. Cardinality(S) -> S] /\ IsInjective(SetToSeq(S))
  BY <1>2 DEF SetToSeq
<1> QED
  BY <1>1, <1>3 DEF IsInjective

LEMMA AddIterKeeps ==
    ASSUME RcListAssumption, TreeInv, NEW dst \in Iters, NEW src \in Iters \union alive,
           AddIter(dst, src)
    PROVE  TreeInv'
<1> DEFINE room == Instances \ InUse
           n == Len(list[src])
           all == SetToSeq(room)
           new == SubSeq(all, 1, n)
           N == ToSet(new)
<1>1. dst \in AllLists /\ dst \notin Resources /\ src \in AllLists
  BY DEF AllLists, RcListAssumption, TreeInv, RcTypes
<1>2. list[src] \in Seq(Instances) /\ n \in Nat /\ DOMAIN list[src] = 1 .. n
  BY <1>1 DEF TreeInv, RcTypes
<1>3. IsFiniteSet(room) /\ room \in SUBSET Instances
  BY FS_Subset DEF RcListAssumption
<1>4. n <= Cardinality(room)
  BY DEF AddIter
<1> HIDE DEF room
<1>5. /\ all \in Seq(room) /\ Len(all) = Cardinality(room) /\ Cardinality(room) \in Nat
      /\ \A m, k \in DOMAIN all : all[m] = all[k] => m = k
  BY <1>3, SetInSeq
<1> HIDE DEF all, n
<1>6. new \in Seq(room) /\ DOMAIN new = 1 .. n /\ \A k \in 1 .. n : k \in DOMAIN all /\ new[k] = all[k]
  BY <1>2, <1>4, <1>5
<1>7. /\ new \in Seq(Instances) /\ N \in SUBSET room
      /\ \A m, k \in DOMAIN new : new[m] = new[k] => m = k
  <2>1. \A k \in DOMAIN new : new[k] \in room /\ new[k] \in Instances
    BY <1>3, <1>6
  <2>2. new \in [1 .. n -> Instances]
    <3>1. new = [k \in 1 .. n |-> new[k]]
      BY <1>6
    <3> QED
      BY <1>6, <2>1, <3>1
  <2>3. new \in Seq(Instances)
    <3> HIDE DEF new
    <3> QED
      BY <1>2, <2>2
  <2>4. N \in SUBSET room
    BY <2>1 DEF ToSet
  <2> HIDE DEF new
  <2>5. \A m, k \in DOMAIN new : new[m] = new[k] => m = k
    BY <1>5, <1>6
  <2> QED
    BY <2>3, <2>4, <2>5
<1>8. /\ list' = [list EXCEPT ![dst] = @ \o new]
      /\ resource' = [i \in Instances |-> IF i \in N THEN resource[list[src][PlaceOf(i, new)]]
                                          ELSE resource[i]]
      /\ inner' = [r \in Resources |-> inner[r] \o Keep(new, {i \in Instances : resource'[i] # r})]
      /\ alive' = alive /\ parent' = parent
  BY DEF AddIter, n, room, all
<1> HIDE DEF new
<1>9. \A i \in N : PlaceOf(i, new) \in DOMAIN list[src]
  <2> TAKE i \in N
  <2>1. \E m \in DOMAIN new : new[m] = i
    BY DEF ToSet
  <2> QED
    BY <1>2, <1>6, <2>1 DEF PlaceOf
<1>10. \A i \in N : i \in Instances /\ resource'[i] \in alive /\ resource'[i] \in Resources
  <2> TAKE i \in N
  <2>1. list[src][PlaceOf(i, new)] \in ToSet(list[src])
    BY <1>9 DEF ToSet
  <2>2. resource[list[src][PlaceOf(i, new)]] \in alive /\ resource[list[src][PlaceOf(i, new)]] \in Resources
    BY <1>1, <2>1, InList
  <2>3. i \in Instances
    BY <1>3, <1>7
  <2> QED
    BY <1>8, <2>2, <2>3
<1>11. \A i \in N : /\ \A l \in AllLists : i \notin ToSet(list[l])
                    /\ \A r \in Resources : i \notin ToSet(inner[r])
  <2> TAKE i \in N
  <2>1. resource[i] = None
    BY <1>7 DEF room, InUse
  <2>2. \A l \in AllLists : i \notin ToSet(list[l])
    BY <2>1, InList
  <2>3. \A r \in Resources : ToSet(inner[r]) = {j \in Instances : resource[j] = r} /\ r # None
    BY DEF TreeInv, TwinsAgree, RcListAssumption
  <2> QED
    BY <2>1, <2>2, <2>3
<1>12. NewTo(list[dst], N, list[dst] \o new)
  <2>1. list[dst] \in Seq(Instances) /\ \A m, k \in DOMAIN list[dst] : list[dst][m] = list[dst][k] => m = k
    BY <1>1 DEF TreeInv, RcTypes, TwinsAgree, AllLists
  <2>2. \A x \in ToSet(list[dst]) : x \notin ToSet(new)
    BY <1>1, <1>11
  <2> HIDE DEF N
  <2>3. \A x : x \in N <=> x \in ToSet(new)
    BY DEF N
  <2> QED
    BY <1>7, <2>1, <2>2, <2>3, Joined DEF NewTo
<1>13. ASSUME NEW r \in Resources
       PROVE  NewTo(inner[r], {i \in N : resource'[i] = r}, inner'[r])
  <2> DEFINE X == {i \in Instances : resource'[i] # r}
             k == Keep(new, X)
  <2>1. /\ k \in Seq(Instances)
        /\ \A x : x \in ToSet(k) <=> x \in ToSet(new) /\ x \notin X
        /\ \A m, j \in DOMAIN k : k[m] = k[j] => m = j
    <3> HIDE DEF X
    <3> QED
      BY <1>7, KeepIs
  <2>2. \A x : x \in ToSet(k) <=> x \in {i \in N : resource'[i] = r}
    <3> HIDE DEF k
    <3> QED
      BY <1>10, <2>1
  <2>3. inner[r] \in Seq(Instances) /\ \A m, j \in DOMAIN inner[r] : inner[r][m] = inner[r][j] => m = j
    BY DEF TreeInv, RcTypes, TwinsAgree
  <2>4. \A x \in ToSet(inner[r]) : x \notin ToSet(k)
    BY <1>11, <2>2
  <2>5. inner'[r] = inner[r] \o k
    BY <1>8
  <2> HIDE DEF k, N
  <2>6. /\ inner'[r] \in Seq(Instances)
        /\ \A x : x \in ToSet(inner'[r]) <=> x \in ToSet(inner[r]) \/ x \in ToSet(k)
        /\ \A m, j \in DOMAIN inner'[r] : inner'[r][m] = inner'[r][j] => m = j
    <3>1. PICK v : v = inner[r]
      OBVIOUS
    <3>2. /\ v \in Seq(Instances) /\ inner'[r] = v \o k
          /\ \A m, j \in DOMAIN v : v[m] = v[j] => m = j
          /\ \A x \in ToSet(v) : x \notin ToSet(k)
      BY <2>3, <2>4, <2>5, <3>1
    <3>3. /\ v \o k \in Seq(Instances)
          /\ \A x : x \in ToSet(v \o k) <=> x \in ToSet(v) \/ x \in ToSet(k)
          /\ \A m, j \in DOMAIN (v \o k) : (v \o k)[m] = (v \o k)[j] => m = j
      BY <2>1, <3>2, Joined
    <3> QED
      BY <3>1, <3>2, <3>3, Zenon
  <2> QED
    BY <2>2, <2>6 DEF NewTo
<1>14. /\ resource' \in [Instances -> Resources \union {None}]
       /\ \A i \in Instances \ N : resource'[i] = resource[i]
  <2>1. \A i \in Instances \ N : resource'[i] = resource[i]
    BY <1>8
  <2>2. \A i \in Instances : resource'[i] \in Resources \union {None}
    <3> TAKE i \in Instances
    <3>1. CASE i \in N
      BY <1>10, <3>1
    <3>2. CASE i \notin N
      BY <2>1, <3>2 DEF TreeInv, RcTypes
    <3> QED
      BY <3>1, <3>2
  <2>3. resource' = [i \in Instances |-> resource'[i]]
    BY <1>8
  <2> HIDE DEF N
  <2> QED
    BY <2>1, <2>2, <2>3
<1>15. list' = [list EXCEPT ![dst] = list[dst] \o new] /\ inner' = [r \in Resources |-> inner'[r]]
  BY <1>8
<1>16. N \in SUBSET (Instances \ InUse)
  BY <1>7 DEF room
<1> HIDE DEF N
<1>17. Adds(dst, N, list[dst] \o new)
  BY <1>1, <1>8, <1>10, <1>12, <1>13, <1>14, <1>15 DEF Adds, TreeInv, RcTypes
<1> QED
  BY <1>8, <1>16, <1>17, AddedToIter

\* A child is added to a resource: nothing that hangs from the child has the
\* resource below it, and the child was nobody's.
LEMMA AddChildKeeps ==
    ASSUME RcListAssumption, Callers = {}, TreeInv, NEW p \in Resources, NEW c \in Resources,
           AddChild(p, c)
    PROVE  TreeInv'
<1>1. p \in AllLists /\ p \in alive /\ p \notin Family(c) /\ InUse # Instances
  BY DEF AddChild, AllLists
<1>2. parent[c] = None
  <2>1. c \in alive => parent[c] = None
    BY DEF AddChild, Anyone
  <2>2. ASSUME parent[c] # None
        PROVE  c \in alive
    <3>1. parent[c] \in AllLists /\ c \in Childs(parent[c])
      BY <2>2 DEF TreeInv, RcTypes, ParentSound, AllLists
    <3> QED
      BY <3>1, ChildIs
  <2> QED
    BY <2>1, <2>2
<1>3. \A q \in Resources : c \notin Childs(q)
  BY <1>2 DEF TreeInv, ParentSound, RcListAssumption
<1>4. /\ Allocate(c) /\ inner' = [inner EXCEPT ![c] = Append(@, Fresh)]
      /\ list' = [list EXCEPT ![p] = IF FALSE THEN <<Fresh>> \o @ ELSE Append(@, Fresh)]
      /\ resource' = [resource EXCEPT ![Fresh] = c]
      /\ parent' = [parent EXCEPT ![c] = p]
  BY DEF AddChild
<1> DEFINE t == Append(list[p], Fresh)
<1>5. /\ Adds(p, {Fresh}, IF FALSE THEN <<Fresh>> \o list[p] ELSE t) /\ {Fresh} \in SUBSET (Instances \ InUse)
  BY <1>1, <1>4, OneAdded
<1>6. Adds(p, {Fresh}, t)
  BY <1>5
<1> HIDE DEF t
<1>7. /\ list' \in [AllLists -> Seq(Instances)] /\ inner' \in [Resources -> Seq(Instances)]
      /\ TwinsAgree'
      /\ \A m \in AllLists : m # p => list'[m] = list[m]
      /\ \A i : i \in ToSet(list'[p]) <=> i \in ToSet(list[p]) \/ i \in {Fresh}
      /\ \A m \in AllLists : \A i \in ToSet(list[m]) : i \notin {Fresh} /\ resource'[i] = resource[i]
  BY <1>1, <1>5, <1>6, Added, Zenon
<1>8. Fresh \in Instances /\ resource'[Fresh] = c /\ parent' \in [Resources -> Resources \union {None}]
      /\ parent'[c] = p /\ (\A q \in Resources : q # c => parent'[q] = parent[q])
      /\ alive \subseteq alive' /\ alive' \in SUBSET Resources
  BY <1>1, <1>4, <1>6, FreshIs DEF TreeInv, RcTypes, Adds
<1>9. \A q \in Resources : \A i : i \in ToSet(list'[q]) <=>
          i \in ToSet(list[q]) \/ (q = p /\ i = Fresh)
  BY <1>7 DEF AllLists
<1>10. \A q \in Resources : \A i \in ToSet(list[q]) : resource'[i] = resource[i] /\ resource[i] # c
  BY <1>3, <1>7 DEF AllLists, Childs
<1>11. \A q, d : q \in Resources => (d \in Childs(q)' <=> d \in Childs(q) \/ (q = p /\ d = c))
  <2> SUFFICES ASSUME NEW q \in Resources, NEW d
               PROVE  d \in Childs(q)' <=> d \in Childs(q) \/ (q = p /\ d = c)
    OBVIOUS
  <2>1. d \in Childs(q)' => d \in Childs(q) \/ (q = p /\ d = c)
    BY <1>8, <1>9, <1>10 DEF Childs
  <2>2. d \in Childs(q) => d \in Childs(q)'
    <3> SUFFICES ASSUME d \in Childs(q)
                 PROVE  d \in Childs(q)'
      OBVIOUS
    <3>1. PICK i \in ToSet(list[q]) : d = resource[i]
      BY DEF Childs
    <3>2. i \in ToSet(list'[q]) /\ d = resource'[i]
      BY <1>9, <1>10, <3>1
    <3> QED
      BY <3>2 DEF Childs
  <2>3. c \in Childs(p)'
    <3>1. Fresh \in ToSet(list'[p]) /\ resource'[Fresh] = c
      BY <1>8, <1>9
    <3> QED
      BY <3>1 DEF Childs
  <2> QED
    BY <2>1, <2>2, <2>3
<1>12. RcTypes'
  BY <1>6, <1>7, <1>8 DEF RcTypes, TreeInv, Adds
<1>13. ParentSound'
  <2>1. ASSUME NEW d \in Resources, parent'[d] # None
        PROVE  parent'[d] \in alive' /\ d \in Childs(parent[d])'
    <3>1. PICK q \in Resources : q = parent'[d]
      BY <1>8, <2>1
    <3>2. q \in alive' /\ (d \in Childs(q) \/ (q = p /\ d = c))
      <4>1. CASE d = c
        BY <1>1, <1>8, <3>1, <4>1
      <4>2. CASE d # c
        <5>1. parent[d] = q /\ q # None
          BY <1>8, <2>1, <3>1, <4>2
        <5> QED
          BY <1>8, <5>1 DEF TreeInv, ParentSound
      <4> QED
        BY <4>1, <4>2
    <3>3. d \in Childs(q)' /\ q \in alive'
      BY <1>11, <3>2
    <3> QED
      BY <3>1, <3>3 DEF Childs
  <2>2. \A d, q \in Resources : d \in Childs(q)' => parent'[d] = q
    <3> TAKE d, q \in Resources
    <3>1. d \in Childs(q) => parent[d] = q /\ d # c
      BY <1>3 DEF TreeInv, ParentSound
    <3> QED
      BY <1>8, <1>11, <3>1
  <2> QED
    BY <2>1, <2>2 DEF ParentSound
<1>14. OneParent'
  <2> SUFFICES ASSUME NEW q \in Resources, NEW r \in Resources,
                      NEW i \in ToSet(list'[q]), NEW j \in ToSet(list'[r]), resource'[i] = resource'[j]
               PROVE  i = j
    BY DEF OneParent
  <2>1. CASE i \in ToSet(list[q]) /\ j \in ToSet(list[r])
    BY <1>10, <2>1 DEF TreeInv, OneParent
  <2>2. CASE i = Fresh \/ j = Fresh
    BY <1>8, <1>9, <1>10, <2>2
  <2> QED
    BY <1>9, <2>1, <2>2
<1>15. NoCycle'
  <2> SUFFICES ASSUME NEW q \in Resources, NEW d \in Childs(q)'
               PROVE  q \notin Family(d)'
    BY DEF NoCycle
  <2>1. PICK C \in SUBSET Resources : c \in C /\ Whole(C) /\ p \notin C
    BY <1>1, FamilyIs
  <2>3. CASE q = p /\ d = c
    <3>1. Whole(C)'
      BY <2>1, <1>11 DEF Whole
    <3> QED
      BY <2>1, <2>3, <3>1 DEF Family
  <2>4. CASE d \in Childs(q)
    <3>1. d \in Resources
      BY <2>4, ChildIs DEF AllLists
    <3>2. PICK D \in SUBSET Resources :
             /\ d \in D /\ Whole(D) /\ q \notin D
             /\ \A rs \in SUBSET Resources : d \in rs /\ Whole(rs) => D \subseteq rs
      BY <2>4, <3>1, FamilyIs DEF TreeInv, NoCycle
    <3>3. CASE p \notin D
      <4>1. Whole(D)'
        BY <1>11, <3>2, <3>3 DEF Whole
      <4> QED
        BY <3>2, <4>1 DEF Family
    <3>4. CASE p \in D
      <4>1. q \notin C
        <5> SUFFICES ASSUME q \in C
                     PROVE  FALSE
          OBVIOUS
        <5>1. d \in C
          BY <2>1, <2>4 DEF Whole
        <5>2. D \subseteq C
          BY <2>1, <3>2, <5>1
        <5> QED
          BY <2>1, <3>4, <5>2
      <4>2. PICK rs \in SUBSET Resources : rs = C \union D
        OBVIOUS
      <4>3. Whole(rs)'
        BY <1>11, <2>1, <3>2, <4>2 DEF Whole
      <4>4. d \in rs /\ q \notin rs
        BY <3>2, <4>1, <4>2
      <4> QED
        BY <4>3, <4>4 DEF Family
    <3> QED
      BY <3>3, <3>4
  <2> QED
    BY <1>11, <2>3, <2>4
<1> QED
  BY <1>7, <1>12, <1>13, <1>14, <1>15 DEF TreeInv

\* The loops without the innermost one, and with one more.
LEMMA Popped ==
    ASSUME NEW fs, LoopInv(fs), fs # <<>>
    PROVE  /\ Len(fs) \in Nat /\ Len(fs) \in DOMAIN fs
           /\ fs[Len(fs)] \in Loop /\ LoopOf(fs[Len(fs)])
           /\ LoopInv(Front(fs)) /\ Len(Front(fs)) = Len(fs) - 1
           /\ \A n \in DOMAIN Front(fs) : n \in 1 .. (Len(fs) - 1) /\ Front(fs)[n] = fs[n]
           /\ Front(fs) # <<>> => fs[Len(fs)].of \in Childs(Front(fs)[Len(Front(fs))].of)
<1> DEFINE g == Front(fs)
           c == Len(fs)
<1>1. fs \in Seq(Loop) /\ DOMAIN fs = 1 .. c /\ c \in Nat
  BY DEF LoopInv
<1>2. c \in 1 .. c
  <2>1. c # 0
    BY <1>1
  <2> HIDE DEF c
  <2> QED
    BY <1>1, <2>1
<1>3. g \in Seq(Loop) /\ Len(g) = c - 1 /\ DOMAIN g = 1 .. (c - 1) /\ \A n \in 1 .. (c - 1) : g[n] = fs[n]
  BY <1>1, <1>2 DEF Front
<1> HIDE DEF g, c
<1>4. \A n \in 1 .. (c - 1) : n \in DOMAIN fs /\ n + 1 \in DOMAIN fs
  BY <1>1
<1>5. \A n \in DOMAIN fs : /\ LoopOf(fs[n])
                           /\ n + 1 \in DOMAIN fs => fs[n + 1].of \in Childs(fs[n].of)
  BY DEF LoopInv
<1>6. LoopInv(g)
  <2>1. \A n \in DOMAIN g : LoopOf(g[n])
    BY <1>3, <1>4, <1>5
  <2>2. \A n \in DOMAIN g : n + 1 \in DOMAIN g => g[n + 1].of \in Childs(g[n].of)
    BY <1>3, <1>4, <1>5
  <2> QED
    BY <1>3, <2>1, <2>2 DEF LoopInv
<1>7. g # <<>> => fs[c].of \in Childs(g[Len(g)].of)
  <2> SUFFICES ASSUME g # <<>>
               PROVE  fs[c].of \in Childs(g[Len(g)].of)
    OBVIOUS
  <2>1. c - 1 # 0
    BY <1>3
  <2>2. c - 1 \in 1 .. (c - 1) /\ (c - 1) + 1 = c
    BY <1>1, <1>2, <2>1
  <2>3. fs[(c - 1) + 1].of \in Childs(fs[c - 1].of)
    BY <1>4, <1>5, <2>2
  <2> QED
    BY <1>3, <2>2, <2>3
<1>8. fs[c] \in Loop
  BY <1>1, <1>2
<1> QED
  BY <1>1, <1>2, <1>3, <1>5, <1>6, <1>7, <1>8 DEF g, c

LEMMA Pushed ==
    ASSUME NEW fs, LoopInv(fs), NEW f \in Loop, LoopOf(f),
           fs # <<>> => f.of \in Childs(fs[Len(fs)].of)
    PROVE  LoopInv(Append(fs, f)) /\ Append(fs, f) # <<>> /\ Len(Append(fs, f)) = Len(fs) + 1
           /\ Append(fs, f)[Len(fs) + 1] = f
<1> DEFINE g == Append(fs, f)
           c == Len(fs)
<1>1. fs \in Seq(Loop) /\ DOMAIN fs = 1 .. c /\ c \in Nat
  BY DEF LoopInv
<1>2. /\ g \in Seq(Loop) /\ Len(g) = c + 1 /\ DOMAIN g = 1 .. (c + 1) /\ g[c + 1] = f
      /\ \A n \in 1 .. c : g[n] = fs[n]
  BY <1>1
<1>3. \A n \in 1 .. c : LoopOf(fs[n]) /\ (n + 1 \in 1 .. c => fs[n + 1].of \in Childs(fs[n].of))
  BY <1>1 DEF LoopInv
<1>4. c # 0 => fs # <<>>
  BY <1>1
<1> HIDE DEF g, c
<1>5. ASSUME NEW n \in 1 .. (c + 1)
      PROVE  LoopOf(g[n]) /\ (n + 1 \in 1 .. (c + 1) => g[n + 1].of \in Childs(g[n].of))
  <2>1. CASE n = c + 1
    <3>1. n + 1 \notin 1 .. (c + 1)
      BY <1>1, <2>1
    <3> QED
      BY <1>2, <2>1, <3>1
  <2>2. CASE n = c
    <3>1. n \in 1 .. c /\ c # 0
      BY <1>1, <2>2
    <3>2. g[n + 1] = f /\ g[n] = fs[c]
      BY <1>2, <2>2, <3>1
    <3>3. f.of \in Childs(fs[c].of)
      BY <1>4, <3>1 DEF c
    <3> QED
      BY <1>2, <1>3, <2>2, <3>1, <3>2, <3>3
  <2>3. CASE n # c /\ n # c + 1
    <3>1. n \in 1 .. c /\ n + 1 \in 1 .. c
      BY <1>1, <2>3
    <3> QED
      BY <1>2, <1>3, <3>1
  <2> QED
    BY <2>1, <2>2, <2>3
<1>6. LoopInv(g)
  BY <1>2, <1>5 DEF LoopInv
<1>7. g # <<>>
  BY <1>1, <1>2
<1> QED
  BY <1>2, <1>6, <1>7 DEF g, c

\* The innermost loop goes on over its list.
LEMMA Replaced ==
    ASSUME NEW fs, LoopInv(fs), fs # <<>>, NEW f \in Loop, LoopOf(f), f.of = fs[Len(fs)].of
    PROVE  /\ LoopInv(Append(Front(fs), f)) /\ Append(Front(fs), f) # <<>>
           /\ Append(Front(fs), f)[Len(Append(Front(fs), f))] = f
<1>1. /\ LoopInv(Front(fs))
      /\ Front(fs) # <<>> => f.of \in Childs(Front(fs)[Len(Front(fs))].of)
  BY Popped
<1>2. LoopInv(Append(Front(fs), f)) /\ Append(Front(fs), f) # <<>>
      /\ Len(Append(Front(fs), f)) = Len(Front(fs)) + 1
      /\ Append(Front(fs), f)[Len(Front(fs)) + 1] = f
  BY <1>1, Pushed
<1> QED
  BY <1>2

\* The items of a loop: they are in the list.
LEMMA FrameIs ==
    ASSUME RcListAssumption, TreeInv, NEW l \in AllLists, l \in Resources => l \in alive,
           NEW i, i = None \/ i \in ToSet(list[l]),
           NEW does \in {"list", "level", "top", "down", "up"}
    PROVE  FrameOf(l, i, does) \in Loop /\ LoopOf(FrameOf(l, i, does)) /\ FrameOf(l, i, does).of = l
           /\ FrameOf(l, i, does).at = i
<1>1. i # None => i \in Instances /\ resource[i] \in Resources
  BY InList
<1>2. PICK it : it = ResourceOf(i)
  OBVIOUS
<1>3. it \in Resources \union {None} /\ i \in Instances \union {None} /\ (i # None => it = resource[i])
  BY <1>1, <1>2 DEF ResourceOf
<1>4. FrameOf(l, i, does) = [of |-> l, at |-> i, it |-> it, does |-> does, next_i |-> None, next |-> None]
  BY <1>2 DEF FrameOf
<1>5. FrameOf(l, i, does) \in Loop
  BY <1>3, <1>4 DEF Loop
<1> QED
  BY <1>3, <1>4, <1>5 DEF LoopOf

LEMMA StartIs ==
    ASSUME RcListAssumption, TreeInv, NEW l \in AllLists, l \in Resources => l \in alive, NEW how
    PROVE  StartOf(l, how) \in Loop /\ LoopOf(StartOf(l, how)) /\ StartOf(l, how).of = l
<1> DEFINE s == list[l]
           i == IF s = <<>> THEN None ELSE IF Backward(how) THEN s[Len(s)] ELSE s[1]
<1>1. s \in Seq(Instances) /\ DOMAIN s = 1 .. Len(s) /\ Len(s) \in Nat /\ (s # <<>> => Len(s) # 0)
  BY DEF TreeInv, RcTypes
<1>2. i = None \/ i \in ToSet(list[l])
  <2>1. CASE s = <<>>
    BY <2>1
  <2>2. CASE s # <<>>
    <3>1. 1 \in DOMAIN s /\ Len(s) \in DOMAIN s
      <4> HIDE DEF s
      <4> QED
        BY <1>1, <2>2
    <3> QED
      BY <2>2, <3>1 DEF ToSet
  <2> QED
    BY <2>1, <2>2
<1>3. Does(how) \in {"list", "level", "top", "down", "up"}
  BY DEF Does
<1>4. StartOf(l, how) = FrameOf(l, i, Does(how))
  BY DEF StartOf
<1> HIDE DEF i
<1> QED
  BY <1>2, <1>3, <1>4, FrameIs

LEMMA AfterIs ==
    ASSUME NEW l, NEW i
    PROVE  After(l, i) = None \/ After(l, i) \in ToSet(list[l])
  BY DEF After, ToSet

\* Nothing changes but where the walk is.
LEMMA WalkGoes ==
    ASSUME RcInv, UNCHANGED <<list, inner, resource, alive, parent>>, NEW fs, LoopInv(fs), walk'.frames = fs
    PROVE  TreeInv' /\ LoopInv(walk.frames)'
<1>1. TreeInv'
  <2>1. /\ RcTypes' /\ OneParent'
        /\ \A l : Childs(l)' = Childs(l)
        /\ InUse' = InUse
    BY DEF RcInv, TreeInv, RcTypes, OneParent, Childs, InUse
  <2>2. TwinsAgree'
    BY <2>1 DEF RcInv, TreeInv, TwinsAgree
  <2>3. ParentSound'
    BY DEF RcInv, TreeInv, ParentSound, Childs
  <2>4. \A rs : Whole(rs)' <=> Whole(rs)
    BY <2>1 DEF Whole
  <2>5. \A r : Family(r)' = Family(r)
    BY <2>4 DEF Family
  <2>6. NoCycle'
    BY <2>1, <2>5 DEF RcInv, TreeInv, NoCycle
  <2> QED
    BY <2>1, <2>2, <2>3, <2>6 DEF TreeInv
<1>2. \A l : Childs(l)' = Childs(l)
  BY DEF Childs
<1>3. LoopInv(walk.frames)'
  BY <1>2 DEF LoopInv, LoopOf
<1> QED
  BY <1>1, <1>3

LEMMA WalkBeginKeeps ==
    ASSUME RcListAssumption, RcInv, NEW l \in AllLists, NEW how \in Directions, WalkBegin(l, how)
    PROVE  RcInv'
<1>1. l \in Resources => l \in alive
  BY DEF WalkBegin, RcListAssumption
<1>2. StartOf(l, how) \in Loop /\ LoopOf(StartOf(l, how))
  BY <1>1, StartIs DEF RcInv
<1> DEFINE plain == IsInjective(Order(l, how, {}))
<1>3. plain \in BOOLEAN
  BY DEF IsInjective
<1>4. /\ walk' = [on |-> TRUE, how |-> how, from |-> l, frames |-> <<StartOf(l, how)>>,
                  plain |-> plain, seen |-> {}, cut |-> {}]
      /\ UNCHANGED <<list, inner, resource, alive, parent>>
  BY DEF WalkBegin
<1> HIDE DEF plain
<1>5. PICK f \in Loop : f = StartOf(l, how) /\ LoopOf(f)
  BY <1>2
<1>6. LoopInv(<<f>>) /\ <<f>> \in Seq(Loop)
  <2>1. DOMAIN <<f>> = {1} /\ <<f>>[1] = f /\ <<f>> \in Seq(Loop)
    OBVIOUS
  <2>2. \A n \in DOMAIN <<f>> : LoopOf(<<f>>[n]) /\ n + 1 \notin DOMAIN <<f>>
    BY <1>5, <2>1
  <2> QED
    BY <2>1, <2>2 DEF LoopInv
<1>7. walk'.frames = <<f>> /\ walk'.on
  BY <1>4, <1>5
<1>8. TreeInv' /\ LoopInv(walk.frames)'
  BY <1>4, <1>6, <1>7, WalkGoes
<1>9. WalkTypes'
  BY <1>3, <1>4, <1>5, <1>6 DEF WalkTypes, AllLists
<1> QED
  BY <1>7, <1>8, <1>9 DEF RcInv

\* A walk whose loops are other ones.
LEMMA WalkHas ==
    ASSUME WalkTypes, NEW fs \in Seq(Loop), walk' = [walk EXCEPT !.frames = fs]
    PROVE  WalkTypes' /\ walk'.frames = fs /\ walk'.on = walk.on
  BY DEF WalkTypes

LEMMA DoesElse ==
    ASSUME NEW f \in Loop, NEW d \in {"list", "level", "top", "down", "up"}, LoopOf(f)
    PROVE  \E g \in Loop : g = [f EXCEPT !.does = d] /\ g.of = f.of /\ LoopOf(g)
<1> DEFINE g == [f EXCEPT !.does = d]
<1>1. /\ g \in Loop /\ g.of = f.of /\ g.at = f.at /\ g.it = f.it
      /\ g.next_i = f.next_i /\ g.next = f.next
  BY DEF Loop
<1> HIDE DEF g
<1>2. LoopOf(g)
  BY <1>1 DEF LoopOf
<1> QED
  BY <1>1, <1>2 DEF g

\* From the bottom: the loop with the next one read, and the loop at it.
LEMMA LoopHolds ==
    ASSUME RcListAssumption, TreeInv, NEW f \in Loop, LoopOf(f),
           NEW i, i = None \/ i \in ToSet(list[f.of])
    PROVE  \E g \in Loop :
              /\ g = [f EXCEPT !.does = "up", !.next_i = i, !.next = ResourceOf(i)]
              /\ g.of = f.of /\ LoopOf(g)
<1>1. f.of \in AllLists
  BY DEF Loop
<1>2. i # None => i \in Instances /\ resource[i] \in Resources
  BY <1>1, InList
<1>3. PICK r : r = ResourceOf(i)
  OBVIOUS
<1>4. r \in Resources \union {None} /\ i \in Instances \union {None} /\ (i # None => r = resource[i])
  BY <1>2, <1>3 DEF ResourceOf
<1>5. PICK g : g = [f EXCEPT !.does = "up", !.next_i = i, !.next = r]
  OBVIOUS
<1>6. /\ g \in Loop /\ g.of = f.of /\ g.at = f.at /\ g.it = f.it
      /\ g.next_i = i /\ g.next = r
  BY <1>4, <1>5 DEF Loop
<1>7. LoopOf(g)
  BY <1>4, <1>6 DEF LoopOf
<1> QED
  BY <1>3, <1>5, <1>6, <1>7

LEMMA LoopGoesOn ==
    ASSUME NEW f \in Loop, LoopOf(f)
    PROVE  \E g \in Loop :
              /\ g = [f EXCEPT !.at = f.next_i, !.it = f.next, !.does = "down",
                               !.next_i = None, !.next = None]
              /\ g.of = f.of /\ LoopOf(g)
<1>1. PICK g : g = [f EXCEPT !.at = f.next_i, !.it = f.next, !.does = "down",
                             !.next_i = None, !.next = None]
  OBVIOUS
<1>2. /\ g \in Loop /\ g.of = f.of /\ g.at = f.next_i /\ g.it = f.next
      /\ g.next_i = None
  BY <1>1 DEF Loop
<1>3. LoopOf(g)
  BY <1>2 DEF LoopOf
<1> QED
  BY <1>1, <1>2, <1>3

LEMMA LoopEndsKeeps ==
    ASSUME RcListAssumption, RcInv, LoopEnds
    PROVE  RcInv'
<1>1. PICK fs : fs = walk.frames
  OBVIOUS
<1>2. LoopInv(fs) /\ fs # <<>> /\ Top = fs[Len(fs)] /\ walk.on
  BY <1>1 DEF LoopEnds, RcInv, Top
<1>3. LoopInv(Front(fs)) /\ Top \in Loop /\ LoopOf(Top)
  BY <1>2, Popped
<1>4. Top.of \in AllLists /\ (Top.of \in Resources => Top.of \in alive)
  BY <1>3 DEF Loop, LoopOf
<1>5. PICK st \in Loop : st = StartOf(Top.of, walk.how) /\ LoopOf(st) /\ st.of = Top.of
  BY <1>4, StartIs DEF RcInv
<1>6. PICK f \in Loop : f = [st EXCEPT !.does = "level"] /\ f.of = st.of /\ LoopOf(f)
  BY <1>5, DoesElse
<1>7. LoopOf(f) /\ f.of = fs[Len(fs)].of
  BY <1>2, <1>5, <1>6
<1>8. LoopInv(Append(Front(fs), f))
  BY <1>2, <1>7, Replaced
<1>9. PICK gs : gs = (IF ByLevel /\ Top.does = "list" THEN Append(Front(fs), f) ELSE Front(fs))
  OBVIOUS
<1>10. LoopInv(gs) /\ gs \in Seq(Loop)
  BY <1>3, <1>8, <1>9 DEF LoopInv
<1>11. walk' = [walk EXCEPT !.frames = gs] /\ UNCHANGED <<list, inner, resource, alive, parent>>
  <2>1. walk' = [walk EXCEPT !.frames = IF ByLevel /\ Top.does = "list"
                   THEN Append(Front(@), [StartOf(Top.of, walk.how) EXCEPT !.does = "level"])
                   ELSE Front(@)]
    BY DEF LoopEnds, Below
  <2> QED
    BY <1>1, <1>5, <1>6, <1>9, <2>1 DEF LoopEnds
<1>12. WalkTypes' /\ walk'.frames = gs /\ walk'.on
  BY <1>2, <1>10, <1>11, WalkHas DEF RcInv
<1>13. TreeInv' /\ LoopInv(walk.frames)'
  BY <1>10, <1>11, <1>12, WalkGoes
<1> QED
  BY <1>12, <1>13 DEF RcInv

LEMMA DescendKeeps ==
    ASSUME RcListAssumption, RcInv, Descend
    PROVE  RcInv'
<1>1. PICK fs : fs = walk.frames
  OBVIOUS
<1>2. LoopInv(fs) /\ fs # <<>> /\ Top = fs[Len(fs)] /\ walk.on /\ Top.at # None
  BY <1>1 DEF Descend, RcInv, Top
<1>3. LoopInv(Front(fs)) /\ Top \in Loop /\ LoopOf(Top) /\ Front(fs) \in Seq(Loop)
  BY <1>2, Popped DEF LoopInv
<1>4. Top.of \in AllLists /\ (Top.of \in Resources => Top.of \in alive)
  BY <1>3 DEF Loop, LoopOf
<1>5. /\ Top.at \in ToSet(list[Top.of]) /\ Top.it \in Childs(Top.of)
      /\ Top.it \in alive /\ Top.it \in AllLists
  <2>1. Top.at \in ToSet(list[Top.of]) /\ resource[Top.at] = Top.it
    BY <1>2, <1>3 DEF LoopOf
  <2> QED
    BY <1>4, <2>1, InList DEF RcInv, AllLists
<1>6. PICK st \in Loop : st = StartOf(Top.it, walk.how) /\ LoopOf(st) /\ st.of = Top.it
  BY <1>5, StartIs DEF RcInv
<1> DEFINE next_i == After(Top.of, Top.at)
           after == IF Top.does = "level" THEN FrameOf(Top.of, next_i, "level")
                    ELSE [Top EXCEPT !.does = "up", !.next_i = next_i, !.next = ResourceOf(next_i)]
<1>7. after \in Loop /\ LoopOf(after) /\ after.of = Top.of
  <2>1. PICK o : o = Top.of
    OBVIOUS
  <2>2. PICK i : i = After(o, Top.at)
    OBVIOUS
  <2>3. i = None \/ i \in ToSet(list[o])
    BY <2>2, AfterIs
  <2>4. FrameOf(o, i, "level") \in Loop /\ LoopOf(FrameOf(o, i, "level")) /\ FrameOf(o, i, "level").of = o
    BY <1>4, <2>1, <2>3, FrameIs DEF RcInv
  <2>5. PICK f \in Loop : /\ f = [Top EXCEPT !.does = "up", !.next_i = i, !.next = ResourceOf(i)]
                          /\ f.of = Top.of /\ LoopOf(f)
    BY <1>3, <2>1, <2>3, LoopHolds DEF RcInv
  <2> QED
    BY <2>1, <2>2, <2>4, <2>5
<1>8. walk' = [walk EXCEPT !.frames = Front(@) \o <<after, StartOf(Top.it, walk.how)>>]
      /\ UNCHANGED <<list, inner, resource, alive, parent>>
  BY DEF Descend, Below
<1> HIDE DEF after
<1>9. PICK af \in Loop : af = after /\ LoopOf(af) /\ af.of = Top.of
  BY <1>7
<1>10. PICK gs : gs = Append(Front(fs), af)
  OBVIOUS
<1>11. LoopInv(gs) /\ gs # <<>> /\ gs[Len(gs)] = af
  BY <1>2, <1>9, <1>10, Replaced
<1>12. LoopInv(Append(gs, st))
  BY <1>5, <1>6, <1>9, <1>11, Pushed
<1>13. Front(fs) \o <<af, st>> = Append(gs, st)
  BY <1>3, <1>10
<1>14. PICK hs \in Seq(Loop) : hs = Append(gs, st) /\ LoopInv(hs)
  BY <1>12 DEF LoopInv
<1>15. walk' = [walk EXCEPT !.frames = hs]
  BY <1>1, <1>6, <1>8, <1>9, <1>13, <1>14
<1>16. WalkTypes' /\ walk'.frames = hs /\ walk'.on
  BY <1>2, <1>14, <1>15, WalkHas DEF RcInv
<1>17. TreeInv' /\ LoopInv(walk.frames)'
  BY <1>8, <1>14, <1>16, WalkGoes
<1> QED
  BY <1>16, <1>17 DEF RcInv

\* The loops that a deletion leaves alone: none holds what goes.
LEMMA LoopsStay ==
    ASSUME RcListAssumption, TreeInv, NEW X \in SUBSET Instances, NEW F, Without(X, F),
           NEW fs, LoopInv(fs),
           \A n \in DOMAIN fs : fs[n].at \notin X /\ fs[n].next_i \notin X /\ fs[n].of \notin F,
           \A n \in DOMAIN fs : n + 1 \in DOMAIN fs => \A j \in X : resource[j] # fs[n + 1].of
    PROVE  LoopInv(fs)'
<1>1. fs \in Seq(Loop) /\ \A n \in DOMAIN fs : fs[n] \in Loop
  BY DEF LoopInv
<1>2. \A l \in AllLists : list[l] \in Seq(Instances) /\ list'[l] = Keep(list[l], X)
  BY DEF TreeInv, RcTypes, Without, AllLists
<1>3. \A l \in AllLists : \A i : i \in ToSet(list'[l]) <=> i \in ToSet(list[l]) /\ i \notin X
  BY <1>2, KeepIs
<1>4. \A l \in AllLists : \A i \in ToSet(list[l]) :
          i \notin X => resource'[i] = resource[i] /\ i \in ToSet(list'[l])
  <2> TAKE l \in AllLists
  <2> TAKE i \in ToSet(list[l])
  <2>1. i \in Instances
    BY InList
  <2> QED
    BY <1>3, <2>1 DEF Without
<1>5. ASSUME NEW n \in DOMAIN fs
      PROVE  LoopOf(fs[n])'
  <2>1. /\ fs[n].at # None => fs[n].at \in ToSet(list[fs[n].of]) /\ resource[fs[n].at] = fs[n].it
        /\ fs[n].next_i # None =>
              fs[n].next_i \in ToSet(list[fs[n].of]) /\ resource[fs[n].next_i] = fs[n].next
        /\ fs[n].of \in Resources => fs[n].of \in alive
    BY DEF LoopInv, LoopOf
  <2>2. fs[n].of \in AllLists
    BY <1>1 DEF Loop
  <2>3. fs[n].at # None => fs[n].at \in ToSet(list'[fs[n].of]) /\ resource'[fs[n].at] = fs[n].it
    BY <1>4, <2>1, <2>2
  <2>4. fs[n].next_i # None =>
            fs[n].next_i \in ToSet(list'[fs[n].of]) /\ resource'[fs[n].next_i] = fs[n].next
    BY <1>4, <2>1, <2>2
  <2>5. fs[n].of \in Resources => fs[n].of \in alive'
    BY <2>1 DEF Without
  <2> QED
    BY <2>3, <2>4, <2>5 DEF LoopOf
<1>6. ASSUME NEW n \in DOMAIN fs, n + 1 \in DOMAIN fs
      PROVE  fs[n + 1].of \in Childs(fs[n].of)'
  <2>1. PICK l \in AllLists : l = fs[n].of
    BY <1>1 DEF Loop
  <2>2. PICK j \in ToSet(list[l]) : resource[j] = fs[n + 1].of
    BY <1>6, <2>1 DEF LoopInv, Childs
  <2>3. j \notin X
    BY <1>6, <2>2
  <2>4. j \in ToSet(list'[l]) /\ resource'[j] = fs[n + 1].of
    BY <1>4, <2>2, <2>3
  <2> QED
    BY <2>1, <2>4 DEF Childs
<1> QED
  BY <1>1, <1>5, <1>6 DEF LoopInv

\* In a walk nothing is above itself: no loop goes over the children of what
\* hangs from the current one.
LEMMA NotBelow ==
    ASSUME RcListAssumption, TreeInv, NEW fs, LoopInv(fs), fs # <<>>,
           NEW r \in Resources, r \in Childs(fs[Len(fs)].of)
    PROVE  \A n \in DOMAIN fs : fs[n].of \notin Family(r)
<1> DEFINE c == Len(fs)
           B == {k \in 0 .. (c - 1) : fs[c - k].of \in Family(r)}
<1>1. /\ fs \in Seq(Loop) /\ DOMAIN fs = 1 .. c /\ c \in Nat /\ c \in 1 .. c
      /\ \A n \in DOMAIN fs : fs[n].of \in AllLists
  <2>1. fs \in Seq(Loop) /\ DOMAIN fs = 1 .. c /\ c \in Nat /\ c \in DOMAIN fs
    BY Popped DEF LoopInv
  <2>2. \A n \in DOMAIN fs : fs[n] \in Loop
    BY <2>1
  <2> QED
    BY <2>1, <2>2 DEF Loop
<1>2. Whole(Family(r)) /\ Family(r) \in SUBSET Resources
  BY FamilyIs
<1>3. fs[c].of \notin Family(r)
  BY <1>1, <1>2 DEF TreeInv, NoCycle
<1> HIDE DEF c
<1>4. \A n \in DOMAIN fs : n + 1 \in DOMAIN fs /\ fs[n].of \in Family(r) => fs[n + 1].of \in Family(r)
  BY <1>2 DEF LoopInv, Whole
<1>5. B = {}
  <2> SUFFICES ASSUME B # {}
               PROVE  FALSE
    OBVIOUS
  <2>1. B \in SUBSET Nat
    BY <1>1
  <2>2. PICK k \in B : \A b \in B : k <= b
    <3> HIDE DEF B
    <3> QED
      BY <2>1, LeastOf
  <2>3. k \in 0 .. (c - 1) /\ fs[c - k].of \in Family(r)
    OBVIOUS
  <2>4. k # 0
    <3>1. k = 0 => c - k = c
      BY <1>1
    <3> QED
      BY <1>3, <2>3, <3>1
  <2>5. c - k \in 1 .. c /\ (c - k) + 1 \in 1 .. c /\ (c - k) + 1 = c - (k - 1) /\ k - 1 \in 0 .. (c - 1)
    BY <1>1, <2>3, <2>4
  <2>6. fs[c - (k - 1)].of \in Family(r)
    BY <1>1, <1>4, <2>3, <2>5
  <2>7. k - 1 \in B /\ ~(k <= k - 1)
    BY <2>3, <2>5, <2>6
  <2> HIDE DEF B
  <2> QED
    BY <2>2, <2>7
<1>6. ASSUME NEW n \in DOMAIN fs
      PROVE  fs[n].of \notin Family(r)
  <2>1. c - n \in 0 .. (c - 1) /\ c - (c - n) = n
    BY <1>1
  <2> QED
    BY <1>5, <2>1
<1> QED
  BY <1>6

\* What a callback may delete, and the loops: the current one has already been
\* left behind (fs).
LEMMA ActKeeps ==
    ASSUME RcListAssumption, Callers = {}, TreeInv, NEW fs, LoopInv(fs), fs # <<>>,
           NEW o, o = fs[Len(fs)].of, NEW i, i \in ToSet(list[o]), NEW r, r = resource[i],
           NEW act \in {"none", "instance", "resource"}, Acts(act, i, r),
           act # "none" => \A n \in DOMAIN fs : /\ fs[n].at # None => resource'[fs[n].at] # None
                                                /\ fs[n].next_i # None => resource'[fs[n].next_i] # None
    PROVE  TreeInv' /\ LoopInv(fs)'
<1>1. /\ fs[Len(fs)] \in Loop /\ o \in AllLists /\ fs \in Seq(Loop) /\ DOMAIN fs = 1 .. Len(fs)
      /\ Len(fs) \in Nat /\ \A n \in DOMAIN fs : fs[n] \in Loop
  <2>1. fs[Len(fs)] \in Loop /\ fs \in Seq(Loop)
    BY Popped DEF LoopInv
  <2>2. DOMAIN fs = 1 .. Len(fs) /\ Len(fs) \in Nat /\ \A n \in DOMAIN fs : fs[n] \in Loop
    BY <2>1
  <2>3. o \in AllLists
    BY <2>1 DEF Loop
  <2> QED
    BY <2>1, <2>2, <2>3
<1>2. i \in Instances /\ i \in InUse /\ r \in Resources /\ r \in Childs(o)
  BY <1>1, InList DEF InUse
<1>3. CASE act = "none"
  <2>1. UNCHANGED <<list, inner, resource, alive, parent>>
    BY <1>3 DEF Acts
  <2>2. /\ RcTypes' /\ OneParent' /\ InUse' = InUse
        /\ \A l : Childs(l)' = Childs(l)
    BY <2>1 DEF TreeInv, RcTypes, OneParent, Childs, InUse
  <2>3. TwinsAgree'
    BY <2>1, <2>2 DEF TreeInv, TwinsAgree
  <2>4. ParentSound'
    BY <2>1 DEF TreeInv, ParentSound, Childs
  <2>5. \A rs : Whole(rs)' <=> Whole(rs)
    BY <2>2 DEF Whole
  <2>6. \A q : Family(q)' = Family(q)
    BY <2>5 DEF Family
  <2>7. NoCycle'
    BY <2>2, <2>6 DEF TreeInv, NoCycle
  <2>8. LoopInv(fs)'
    BY <2>1, <2>2 DEF LoopInv, LoopOf
  <2> QED
    BY <2>2, <2>3, <2>4, <2>7, <2>8 DEF TreeInv
<1>4. CASE act = "instance"
  <2>1. DeleteInstance(i, TRUE)
    BY <1>4 DEF Acts
  <2>2. TreeInv'
    BY <1>2, <2>1, DeleteInstanceKeeps
  <2> DEFINE F == FreedWith({i}, TRUE)
  <2>3. Without({i}, F) /\ MayDelete({i}, TRUE)
    BY <2>1 DEF DeleteInstance
  <2>4. /\ F \in SUBSET Resources
        /\ \A p \in Resources : ToSet(list[p]) \cap {i} = {}
    BY <1>2, <2>3, IterInstancesGo
  <2> HIDE DEF F
  <2>5. o \notin Resources
    BY <2>4
  <2>6. Len(fs) = 1
    <3> SUFFICES ASSUME Len(fs) # 1
                 PROVE  FALSE
      OBVIOUS
    <3> DEFINE c == Len(fs)
    <3>1. c \in DOMAIN fs
      BY Popped
    <3> HIDE DEF c
    <3>2. c - 1 \in DOMAIN fs /\ (c - 1) + 1 = c
      BY <1>1, <3>1 DEF c
    <3>3. fs[(c - 1) + 1].of \in Childs(fs[c - 1].of)
      BY <3>1, <3>2 DEF LoopInv
    <3>4. fs[c].of \in Childs(fs[c - 1].of) /\ fs[c - 1].of \in AllLists
      BY <1>1, <3>2, <3>3 DEF Loop
    <3>5. fs[c].of \in Resources
      BY <3>4, ChildIs
    <3> QED
      BY <2>5, <3>5 DEF c
  <2>7. \A n \in DOMAIN fs : n = 1
    BY <1>1, <2>6
  <2>8. fs[1].at \notin {i} /\ fs[1].next_i \notin {i} /\ fs[1].of \notin F
    <3>1. fs[1].of \notin F
      BY <2>4, <2>5, <2>6
    <3>2. 1 \in DOMAIN fs
      BY <1>1, <2>6
    <3>3. /\ fs[1].at # None => resource'[fs[1].at] # None
          /\ fs[1].next_i # None => resource'[fs[1].next_i] # None
      BY <1>4, <3>2
    <3>4. resource'[i] = None /\ i # None
      BY <1>2, <2>3 DEF Without, RcListAssumption
    <3> QED
      BY <3>1, <3>3, <3>4
  <2>9. \A n \in DOMAIN fs : n + 1 \notin DOMAIN fs
    BY <2>7
  <2>10. LoopInv(fs)'
    BY <1>2, <2>3, <2>7, <2>8, <2>9, LoopsStay
  <2> QED
    BY <2>2, <2>10
<1>5. CASE act = "resource"
  <2>1. DeleteResource(r, TRUE)
    BY <1>5 DEF Acts
  <2>2. TreeInv'
    BY <1>2, <2>1, DeleteResourceKeeps
  <2>3. PICK X, F : X = InstancesOf(Family(r)) /\ F = Family(r)
    OBVIOUS
  <2>4. Without(X, F)
    BY <2>1, <2>3 DEF DeleteResource, Destroy
  <2>5. F \in SUBSET Resources
    BY <1>2, <2>3, FamilyIs
  <2>6. \A j : j \in X <=> j \in Instances /\ resource[j] \in F
    <3>1. \A q \in Resources : ToSet(inner[q]) = {j \in Instances : resource[j] = q}
      BY DEF TreeInv, TwinsAgree
    <3> QED
      BY <2>3, <2>5, <3>1 DEF InstancesOf
  <2>7. \A n \in DOMAIN fs : fs[n].of \notin F
    BY <1>2, <2>3, NotBelow
  <2>8. ASSUME NEW n \in DOMAIN fs
        PROVE  fs[n].at \notin X /\ fs[n].next_i \notin X
    <3>1. /\ fs[n].at # None => resource'[fs[n].at] # None
          /\ fs[n].next_i # None => resource'[fs[n].next_i] # None
      BY <1>5
    <3>2. \A j \in X : j \in Instances /\ resource'[j] = None /\ j # None
      BY <2>4, <2>6 DEF Without, RcListAssumption
    <3> QED
      BY <3>1, <3>2
  <2>9. \A n \in DOMAIN fs : n + 1 \in DOMAIN fs => \A j \in X : resource[j] # fs[n + 1].of
    BY <2>6, <2>7
  <2>10. X \in SUBSET Instances
    BY <2>6
  <2>11. LoopInv(fs)'
    BY <2>4, <2>7, <2>8, <2>9, <2>10, LoopsStay
  <2> QED
    BY <2>2, <2>11
<1> QED
  BY <1>3, <1>4, <1>5

LEMMA CallBackKeeps ==
    ASSUME RcListAssumption, Callers = {}, RcInv, NEW act \in {"none", "instance", "resource"},
           NEW ret \in -1..1, CallBack(act, ret)
    PROVE  RcInv'
<1>1. PICK fs, i, r, o : fs = walk.frames /\ i = Top.at /\ r = Top.it /\ o = Top.of
  OBVIOUS
<1>2. LoopInv(fs) /\ fs # <<>> /\ Top = fs[Len(fs)] /\ walk.on /\ i # None
  BY <1>1 DEF CallBack, RcInv, Top
<1>3. Top \in Loop /\ LoopOf(Top)
  BY <1>2, Popped
<1>4. /\ o \in AllLists /\ (o \in Resources => o \in alive)
      /\ i \in ToSet(list[o]) /\ r = resource[i] /\ i \in Instances
      /\ Top.does \in {"list", "level", "top", "down", "up"}
  BY <1>1, <1>2, <1>3 DEF Loop, LoopOf
<1>5. r \in Childs(o) /\ r \in alive /\ r \in Resources /\ r \in AllLists
  BY <1>4, InList DEF RcInv, AllLists
<1>6. PICK f \in Loop : f = Onward(i) /\ LoopOf(f) /\ f.of = o
  <2>1. CASE Top.does = "up"
    BY <1>1, <1>3, <2>1, LoopGoesOn DEF Onward
  <2>2. CASE Top.does # "up"
    <3>1. PICK j, d : j = After(o, i) /\ d = Top.does
      OBVIOUS
    <3>2. j = None \/ j \in ToSet(list[o])
      BY <3>1, AfterIs
    <3>3. d \in {"list", "level", "top", "down", "up"}
      BY <1>4, <3>1
    <3>4. FrameOf(o, j, d) \in Loop /\ LoopOf(FrameOf(o, j, d)) /\ FrameOf(o, j, d).of = o
      BY <1>4, <3>2, <3>3, FrameIs DEF RcInv
    <3>5. Onward(i) = FrameOf(o, j, d)
      BY <1>1, <2>2, <3>1 DEF Onward
    <3> QED
      BY <3>4, <3>5
  <2> QED
    BY <2>1, <2>2
<1>7. PICK moved : moved = Append(Front(fs), f)
  OBVIOUS
<1>8. LoopInv(moved) /\ moved # <<>> /\ moved[Len(moved)] = f /\ moved \in Seq(Loop)
  <2>1. LoopInv(moved) /\ moved # <<>> /\ moved[Len(moved)] = f
    BY <1>1, <1>2, <1>6, <1>7, Replaced
  <2> QED
    BY <2>1 DEF LoopInv
<1>9. /\ Acts(act, i, r)
      /\ OnlyCurrent(moved, act)
      /\ Top.does = "top" /\ act # "none" => ret > 0
      /\ walk' = IF ret < 0 THEN Idle
                 ELSE [walk EXCEPT
                         !.seen = @ \union {i},
                         !.cut = IF Top.does = "top" /\ ret > 0 THEN @ \union {i} ELSE @,
                         !.frames = IF Enters(ret) THEN Append(moved, StartOf(r, walk.how)) ELSE moved]
  <2> USE DEF Anyone
  <2>1. Append(Below(walk.frames), Onward(Top.at)) = moved
    BY <1>1, <1>6, <1>7 DEF Below
  <2> QED
    BY <1>1, <2>1 DEF CallBack
<1>10. act # "none" =>
          \A n \in DOMAIN moved : /\ moved[n].at # None => resource'[moved[n].at] # None
                                  /\ moved[n].next_i # None => resource'[moved[n].next_i] # None
  BY <1>9 DEF OnlyCurrent, Anyone
<1>11. TreeInv' /\ LoopInv(moved)'
  BY <1>4, <1>6, <1>8, <1>9, <1>10, ActKeeps DEF RcInv
<1>12. PICK st \in Loop : st = StartOf(r, walk.how) /\ LoopOf(st) /\ st.of = r
  BY <1>5, StartIs DEF RcInv
<1>13. LoopInv(Append(moved, st)) /\ Append(moved, st) \in Seq(Loop)
  <2>1. LoopInv(Append(moved, st))
    BY <1>5, <1>6, <1>8, <1>12, Pushed
  <2> QED
    BY <2>1 DEF LoopInv
<1>14. CASE ret < 0
  <2>1. walk' = Idle
    BY <1>9, <1>14
  <2>2. WalkTypes' /\ walk'.frames = <<>>
    BY <2>1 DEF WalkTypes, Idle, Directions
  <2>3. LoopInv(walk.frames)'
    BY <2>2 DEF LoopInv
  <2> QED
    BY <1>11, <2>2, <2>3 DEF RcInv
<1>15. CASE ~(ret < 0)
  <2>1. PICK gs \in Seq(Loop) : gs = (IF Enters(ret) THEN Append(moved, st) ELSE moved)
    BY <1>8, <1>13
  <2>2. PICK cut : cut = (IF Top.does = "top" /\ ret > 0 THEN walk.cut \union {i} ELSE walk.cut)
    OBVIOUS
  <2>3. walk' = [walk EXCEPT !.seen = walk.seen \union {i}, !.cut = cut, !.frames = gs]
    BY <1>9, <1>12, <1>15, <2>1, <2>2
  <2>4. walk.seen \union {i} \in SUBSET Instances /\ cut \in SUBSET Instances
    BY <1>4, <2>2 DEF RcInv, WalkTypes
  <2>5. WalkTypes' /\ walk'.frames = gs /\ walk'.on
    BY <1>2, <2>3, <2>4 DEF RcInv, WalkTypes
  <2>6. LoopInv(walk.frames)'
    <3>1. CASE Enters(ret)
      <4>1. act = "none"
        BY <1>9, <3>1 DEF Enters
      <4>2. UNCHANGED <<list, inner, resource, alive, parent>>
        BY <1>9, <4>1 DEF Acts
      <4> QED
        BY <1>13, <2>1, <2>5, <3>1, <4>2, WalkGoes
    <3>2. CASE ~Enters(ret)
      BY <1>11, <2>1, <2>5, <3>2 DEF LoopInv
    <3> QED
      BY <3>1, <3>2
  <2> QED
    BY <1>11, <2>5, <2>6 DEF RcInv
<1> QED
  BY <1>14, <1>15

\* Between walks.
LEMMA NoWalk ==
    ASSUME RcInv, ~walk.on, UNCHANGED walk, TreeInv'
    PROVE  RcInv'
<1>1. walk'.frames = <<>> /\ WalkTypes'
  BY DEF RcInv, WalkTypes
<1>2. LoopInv(walk.frames)'
  BY <1>1 DEF LoopInv
<1> QED
  BY <1>1, <1>2 DEF RcInv

LEMMA WalkEndKeeps ==
    ASSUME RcInv, WalkEnd
    PROVE  RcInv'
<1>1. LoopInv(<<>>)
  BY DEF LoopInv
<1>2. walk' = Idle /\ walk'.frames = <<>> /\ UNCHANGED <<list, inner, resource, alive, parent>>
  BY DEF WalkEnd, Idle
<1>3. TreeInv' /\ LoopInv(walk.frames)'
  BY <1>1, <1>2, WalkGoes
<1>4. WalkTypes'
  BY <1>2 DEF WalkTypes, Idle, Directions
<1> QED
  BY <1>2, <1>3, <1>4 DEF RcInv

LEMMA RcStart ==
    ASSUME RcListAssumption, RcInit
    PROVE  RcInv
<1>1. /\ \A l \in AllLists : list[l] = <<>> /\ ToSet(list[l]) = {}
      /\ \A r \in Resources : inner[r] = <<>> /\ ToSet(inner[r]) = {} /\ parent[r] = None /\ r \in AllLists
      /\ \A i \in Instances : resource[i] = None
      /\ alive = {}
  BY DEF RcInit, AllLists, ToSet
<1>2. RcTypes
  BY DEF RcInit, RcTypes, AllLists
<1>3. TwinsAgree
  <2>1. InUse = {}
    BY <1>1 DEF InUse
  <2>2. UNION {ToSet(list[l]) : l \in AllLists} = {}
    BY <1>1
  <2>3. \A r \in Resources : {i \in Instances : resource[i] = r} = {}
    BY <1>1 DEF RcListAssumption
  <2> QED
    BY <1>1, <2>1, <2>2, <2>3 DEF TwinsAgree, AllLists
<1>4. \A r \in Resources : Childs(r) = {}
  BY <1>1 DEF Childs
<1>5. ParentSound /\ OneParent /\ NoCycle
  BY <1>1, <1>4 DEF ParentSound, OneParent, NoCycle
<1>6. WalkTypes /\ walk.frames = <<>>
  BY DEF RcInit, WalkTypes, Idle, Directions
<1>7. LoopInv(walk.frames)
  BY <1>6 DEF LoopInv
<1> QED
  BY <1>2, <1>3, <1>5, <1>6, <1>7 DEF RcInv, TreeInv

LEMMA RcStep ==
    ASSUME RcListAssumption, Callers = {}, RcInv, [RcNext]_rcvars
    PROVE  RcInv'
<1>0. TreeInv /\ alive \in SUBSET Resources
  BY DEF RcInv, TreeInv, RcTypes
<1>1. CASE UNCHANGED rcvars
  <2>1. UNCHANGED <<list, inner, resource, alive, parent>> /\ walk' = walk
    BY <1>1 DEF rcvars
  <2>2. PICK fs : fs = walk.frames
    OBVIOUS
  <2>3. TreeInv' /\ LoopInv(walk.frames)'
    <3>1. LoopInv(fs) /\ walk'.frames = fs
      BY <2>1, <2>2 DEF RcInv
    <3> QED
      BY <2>1, <3>1, WalkGoes
  <2>4. WalkTypes' /\ (~walk'.on => walk'.frames = <<>>)
    BY <2>1 DEF RcInv, WalkTypes
  <2> QED
    BY <2>3, <2>4 DEF RcInv
<1>2. ASSUME ~walk.on, NEW l \in Iters, NEW r \in Resources, NEW first \in BOOLEAN,
             AddInstance(l, r, first)
      PROVE  RcInv'
  BY <1>0, <1>2, AddInstanceKeeps, NoWalk DEF AddInstance
<1>3. ASSUME ~walk.on, NEW dst \in Iters, NEW src \in Iters \union alive, AddIter(dst, src)
      PROVE  RcInv'
  <2>1. UNCHANGED walk
    BY <1>3 DEF AddIter
  <2> QED
    BY <1>0, <1>3, <2>1, AddIterKeeps, NoWalk
<1>4. ASSUME ~walk.on, NEW p \in Resources, NEW c \in Resources, AddChild(p, c)
      PROVE  RcInv'
  <2>1. UNCHANGED walk
    BY <1>4 DEF AddChild
  <2> QED
    BY <1>0, <1>4, <2>1, AddChildKeeps, NoWalk
<1>5. ASSUME ~walk.on, NEW i \in InUse, NEW free \in BOOLEAN, DeleteInstance(i, free), UNCHANGED walk
      PROVE  RcInv'
  BY <1>0, <1>5, DeleteInstanceKeeps, NoWalk
<1>6. ASSUME ~walk.on, NEW l \in Iters, NEW free \in BOOLEAN, FreeIter(l, free), UNCHANGED walk
      PROVE  RcInv'
  BY <1>0, <1>6, FreeIterKeeps, NoWalk
<1>7. ASSUME ~walk.on, NEW r \in alive, NEW free \in BOOLEAN, DeleteResource(r, free), UNCHANGED walk
      PROVE  RcInv'
  BY <1>0, <1>7, DeleteResourceKeeps, NoWalk
<1>8. ASSUME ~walk.on, NEW r \in alive, NEW free \in BOOLEAN, DeleteAllChilds(r, free), UNCHANGED walk
      PROVE  RcInv'
  BY <1>0, <1>8, DeleteAllChildsKeeps, NoWalk
<1>9. ASSUME ~walk.on, NEW p \in alive, NEW c \in alive, NEW free \in BOOLEAN, RemoveChild(p, c, free),
             UNCHANGED walk
      PROVE  RcInv'
  BY <1>0, <1>9, RemoveChildKeeps, NoWalk
<1>10. ASSUME NEW l \in Iters \union Resources, NEW how \in Directions, WalkBegin(l, how)
       PROVE  RcInv'
  BY <1>10, WalkBeginKeeps DEF AllLists
<1>11. ASSUME NEW act \in {"none", "instance", "resource"}, NEW ret \in -1..1, CallBack(act, ret)
       PROVE  RcInv'
  BY <1>11, CallBackKeeps
<1> QED
  BY <1>1, <1>2, <1>3, <1>4, <1>5, <1>6, <1>7, <1>8, <1>9, <1>10, <1>11,
     LoopEndsKeeps, DescendKeeps, WalkEndKeeps DEF RcNext

LEMMA RcInvSound ==
    ASSUME RcListAssumption, RcInv
    PROVE  ResourcesSound
<1>1. \A n \in DOMAIN walk.frames : LoopOf(walk.frames[n])
  BY DEF RcInv, LoopInv
<1>2. WalkSafe
  BY <1>1 DEF WalkSafe, LoopOf
<1> QED
  BY <1>2 DEF RcInv, TreeInv, ResourcesSound

\* 12_rc_list.c, any number of lists, resources and instances, when callers keep to
\* what the library asks of them: the invariant of the resource lists.
THEOREM RcInvariance ==
    ASSUME Callers = {}
    PROVE  RcSpec => []RcInv
<1>1. RcInit => RcInv
  BY RcListAssumption, RcStart
<1>2. RcInv /\ [RcNext]_rcvars => RcInv'
  BY RcListAssumption, RcStep
<1> QED
  BY <1>1, <1>2, PTL DEF RcSpec

\* rc_add_instance, rc_add_iter, rc_add_child, the deletions and the walks of
\* 12_rc_list.c: every instance keeps its twin, every child its parent, and no loop
\* of a walk holds what its callback has freed, however deep the tree and whatever
\* the callback deletes of the current one.
THEOREM ResourcesStaySound ==
    ASSUME Callers = {}
    PROVE  RcSpec => []ResourcesSound
<1>1. RcInv => ResourcesSound
  BY RcListAssumption, RcInvSound
<1> QED
  BY <1>1, RcInvariance, PTL
=============================================================================
