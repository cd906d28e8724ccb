---------------------------- MODULE TrMsg_proofs ----------------------------
(***************************************************************************)
(* Proofs about TrMsg, for any number of messages, keys and times and      *)
(* every limit, order and direction of a list, under the discipline:       *)
(* callers take none of the liberties.                                     *)
(***************************************************************************)
EXTENDS TrMsg, SequenceTheorems, FiniteSetTheorems, WellFoundedInduction, TLAPS

Discipline == Liberties = {}

-----------------------------------------------------------------------------
(* The inductive invariant *)

\* No message is rejected, and every one has a pkey2.
AllFit == \A r \in DOMAIN rows : rows[r].fits /\ rows[r].k2 # Empty

\* A load goes over the whole topic, before any tree is asked for.
LoadInv ==
    Loading => /\ list.at = Len(rows)
               /\ \A r \in DOMAIN data : data[r] = <<>>

IInv ==
    /\ TypeOK /\ AllFit /\ LoadInv
    /\ ActiveIsLast /\ KeepsNewest /\ TreeShowsEachOnce
    /\ IndexIsLoad

-----------------------------------------------------------------------------
(* Sequences *)

\* A finite set of numbers has a greatest one.
LEMMA MaxOf ==
    ASSUME NEW n \in Nat, NEW B \in SUBSET (0 .. n), 0 \in B
    PROVE  Max(B) \in B /\ \A b \in B : b <= Max(B)
<1> DEFINE R == OpToRel(<, Nat)
           T == {m \in Nat : \A b \in B : b <= m}
<1>1. n \in T /\ T \subseteq Nat
  OBVIOUS
<1>2. IsWellFoundedOn(R, Nat)
  BY NatLessThanWellFounded
<1>3. T # {}
  BY <1>1
<1> HIDE DEF T
<1>4. \E x \in T : \A y \in T : ~(<<y, x>> \in R)
  <2> HIDE DEF R
  <2> QED
    BY <1>1, <1>2, <1>3, WFMin
<1>5. PICK m \in T : \A y \in T : ~(y < m)
  BY <1>1, <1>4 DEF OpToRel
<1>6. m \in B
  <2> SUFFICES ASSUME m \notin B
               PROVE  FALSE
    OBVIOUS
  <2>1. m \in Nat /\ m # 0 /\ \A b \in B : b \in Nat /\ b <= m /\ b # m
    BY DEF T
  <2>2. m - 1 \in Nat /\ m - 1 < m /\ \A b \in B : b <= m - 1
    BY <2>1
  <2> QED
    BY <1>5, <2>2 DEF T
<1>7. \A b \in B : b \in Int /\ b <= m
  BY DEF T
<1> QED
  BY <1>6, <1>7 DEF Max

LEMMA SeqOfEach ==
    ASSUME NEW T, NEW n \in Nat, NEW f, f = [i \in 1 .. n |-> f[i]], \A i \in 1 .. n : f[i] \in T
    PROVE  f \in Seq(T) /\ Len(f) = n
<1>1. f \in [1 .. n -> T]
  OBVIOUS
<1> QED
  BY <1>1

\* u is s, of length m, and then t, of length n.
Joint(u, s, t, m, n) == /\ DOMAIN u = 1 .. m + n /\ Len(u) = m + n
                        /\ \A i \in 1 .. m : u[i] = s[i]
                        /\ \A i \in 1 .. n : u[m + i] = t[i]

LEMMA Joined ==
    ASSUME NEW S, NEW s \in Seq(S), NEW t \in Seq(S)
    PROVE  s \o t \in Seq(S) /\ Joint(s \o t, s, t, Len(s), Len(t))
<1> DEFINE u == s \o t
           m == Len(s)
           n == Len(t)
<1>1. /\ u \in Seq(S) /\ Len(u) = m + n /\ m \in Nat /\ n \in Nat
      /\ \A i \in 1 .. m + n : u[i] = IF i <= m THEN s[i] ELSE t[i - m]
  BY ConcatProperties
<1>2. \A i \in 1 .. m : i \in 1 .. m + n /\ i <= m
  BY <1>1
<1>3. \A i \in 1 .. n : m + i \in 1 .. m + n /\ ~(m + i <= m) /\ (m + i) - m = i
  BY <1>1
<1>4. DOMAIN u = 1 .. Len(u)
  BY <1>1
<1> QED
  BY <1>1, <1>2, <1>3, <1>4 DEF Joint

LEMMA Inserted ==
    ASSUME NEW S, NEW s \in Seq(S), NEW p \in 1 .. Len(s) + 1, NEW r \in S
    PROVE  LET u == InsertAt(s, p, r)
           IN  /\ u \in Seq(S) /\ Len(u) = Len(s) + 1 /\ DOMAIN u = 1 .. Len(s) + 1
               /\ u[p] = r
               /\ \A i \in 1 .. p - 1 : u[i] = s[i]
               /\ \A i \in p .. Len(s) : u[i + 1] = s[i]
<1> DEFINE a == SubSeq(s, 1, p - 1)
           b == SubSeq(s, p, Len(s))
           e == <<r>>
           n == Len(s)
           u == InsertAt(s, p, r)
<1>1. n \in Nat /\ p \in 1 .. n + 1 /\ DOMAIN s = 1 .. n /\ \A i \in 1 .. n : s[i] \in S
  OBVIOUS
<1>2. a \in Seq(S) /\ Len(a) = p - 1 /\ \A i \in 1 .. p - 1 : a[i] = s[i]
  <2>1. \A i \in 1 .. p - 1 : i \in 1 .. n
    BY <1>1
  <2> QED
    BY <1>1, <2>1
<1>3. b \in Seq(S) /\ Len(b) = n - p + 1 /\ \A i \in 1 .. n - p + 1 : b[i] = s[p + i - 1]
  <2>1. \A i \in p .. n : i \in 1 .. n
    BY <1>1
  <2> QED
    BY <1>1, <2>1
<1>4. e \in Seq(S) /\ Len(e) = 1 /\ e[1] = r
  OBVIOUS
<1>5. u = (a \o e) \o b
  BY DEF InsertAt
<1> HIDE DEF a, b, e, u
<1>6. a \o e \in Seq(S) /\ Joint(a \o e, a, e, p - 1, 1)
  BY <1>2, <1>4, Joined
<1>7. Len(a \o e) = p /\ (a \o e)[p] = r /\ \A i \in 1 .. p - 1 : (a \o e)[i] = s[i]
  <2>1. p - 1 + 1 = p /\ 1 \in 1 .. 1
    BY <1>1
  <2> QED
    BY <1>2, <1>4, <1>6, <2>1 DEF Joint
<1>8. u \in Seq(S) /\ Joint(u, a \o e, b, p, n - p + 1)
  <2>1. u \in Seq(S) /\ Joint(u, a \o e, b, Len(a \o e), Len(b))
    BY <1>3, <1>5, <1>6, Joined
  <2> QED
    BY <1>3, <1>7, <2>1
<1>9. Len(u) = n + 1 /\ DOMAIN u = 1 .. n + 1
  <2>1. p + (n - p + 1) = n + 1
    BY <1>1
  <2> QED
    BY <1>8, <2>1 DEF Joint
<1>10. u[p] = r /\ \A i \in 1 .. p - 1 : u[i] = s[i]
  <2>1. p \in 1 .. p /\ \A i \in 1 .. p - 1 : i \in 1 .. p
    BY <1>1
  <2> QED
    BY <1>7, <1>8, <2>1 DEF Joint
<1>11. \A i \in p .. n : u[i + 1] = s[i]
  <2> TAKE i \in p .. n
  <2>1. /\ i + 1 - p \in 1 .. n - p + 1 /\ p + (i + 1 - p) = i + 1
        /\ p + (i + 1 - p) - 1 = i
    BY <1>1
  <2>2. u[p + (i + 1 - p)] = b[i + 1 - p]
    BY <1>8, <2>1 DEF Joint
  <2>3. b[i + 1 - p] = s[p + (i + 1 - p) - 1]
    BY <1>3, <2>1
  <2> QED
    BY <2>1, <2>2, <2>3
<1> QED
  BY <1>8, <1>9, <1>10, <1>11 DEF u

LEMMA Room ==
    ASSUME NEW S, NEW s \in Seq(S), NEW cond, cond.max \in Nat
    PROVE  LET t == MakeRoom(cond, s)
           IN  /\ t \in Seq(S) /\ Len(t) \in Nat
               /\ IF cond.max > 0 /\ Len(s) >= cond.max
                  THEN /\ Len(t) = Len(s) - 1 /\ 1 \in DOMAIN s
                       /\ \A i \in DOMAIN t : i + 1 \in DOMAIN s /\ t[i] = s[i + 1]
                  ELSE t = s
<1>1. CASE cond.max > 0 /\ Len(s) >= cond.max
  <2>1. MakeRoom(cond, s) = Tail(s) /\ s # <<>> /\ Len(s) \in Nat \ {0} /\ DOMAIN s = 1 .. Len(s)
    BY <1>1 DEF MakeRoom
  <2>2. Tail(s) \in Seq(S) /\ Len(Tail(s)) = Len(s) - 1
    BY <2>1
  <2>3. \A i \in 1 .. Len(s) - 1 : i + 1 \in 1 .. Len(s) /\ Tail(s)[i] = s[i + 1]
    BY <2>1
  <2>4. DOMAIN Tail(s) = 1 .. Len(s) - 1 /\ 1 \in 1 .. Len(s) /\ Len(s) - 1 \in Nat
    BY <2>1, <2>2
  <2> QED
    BY <1>1, <2>1, <2>2, <2>3, <2>4
<1>2. CASE ~(cond.max > 0 /\ Len(s) >= cond.max)
  BY <1>2 DEF MakeRoom
<1> QED
  BY <1>1, <1>2

-----------------------------------------------------------------------------
(* The instances of a key *)

\* What KeepsNewest says of the instances s of a key that was given some messages,
\* in the order B of instances.
Kept(B, cond, given, s) ==
    /\ ToSet(s) \subseteq given
    /\ \A i, j \in DOMAIN s : i < j => <<s[i], s[j]>> \in B
    /\ cond.max > 0 => Len(s) <= cond.max
    /\ given \ ToSet(s) # {} => cond.max > 0 /\ Len(s) = cond.max
    /\ \A q \in given \ ToSet(s) : \A i \in DOMAIN s :
          ~cond.byTm \/ i > 1 => <<q, s[i]>> \in B

\* A message r that is given last: the first of the instances s makes room for it,
\* which leaves t, and it goes to its place p in the order.
Comes(D, B, cond, given, r, s, t, p) ==
    /\ \A x, y, z \in D : <<x, y>> \in B /\ <<y, z>> \in B => <<x, z>> \in B
    /\ cond.max \in Nat /\ cond.byTm \in BOOLEAN
    /\ given \in SUBSET D /\ r \in D /\ s \in Seq(D) /\ t \in Seq(D)
    /\ Kept(B, cond, given, s) /\ t = MakeRoom(cond, s)
    /\ p \in 1 .. Len(t) + 1
    /\ \A i \in 1 .. p - 1 : <<t[i], r>> \in B
    /\ \A i \in p .. Len(t) : <<r, t[i]>> \in B
    /\ ~cond.byTm => \A q \in given : <<q, r>> \in B

LEMMA StillKept ==
    ASSUME NEW D, NEW B, NEW cond, NEW given, NEW r, NEW s, NEW t, NEW p,
           Comes(D, B, cond, given, r, s, t, p), NEW u, u = InsertAt(t, p, r)
    PROVE  Kept(B, cond, given \cup {r}, u) /\ r \in ToSet(u)
<1> DEFINE n == Len(t)
           full == cond.max > 0 /\ Len(s) >= cond.max
<1> USE DEF Comes
<1>1. /\ n \in Nat /\ DOMAIN t = 1 .. n /\ Len(s) \in Nat /\ DOMAIN s = 1 .. Len(s)
      /\ \A i \in 1 .. n : t[i] \in D
      /\ \A i \in DOMAIN s : s[i] \in D
  OBVIOUS
<1>2. /\ full => /\ n = Len(s) - 1 /\ 1 \in DOMAIN s
                 /\ \A i \in 1 .. n : i + 1 \in DOMAIN s /\ t[i] = s[i + 1]
      /\ ~full => t = s
  BY <1>1, Room
<1>3. /\ u \in Seq(D) /\ Len(u) = n + 1 /\ DOMAIN u = 1 .. n + 1 /\ u[p] = r
      /\ \A i \in 1 .. p - 1 : u[i] = t[i]
      /\ \A i \in p .. n : u[i + 1] = t[i]
  <2>1. t \in Seq(D) /\ r \in D /\ p \in 1 .. Len(t) + 1
    OBVIOUS
  <2> HIDE DEF Comes
  <2> QED
    BY <2>1, Inserted
<1> HIDE DEF full
<1>4. /\ p \in Nat /\ p >= 1 /\ p <= n + 1
      /\ \A i \in 1 .. n + 1 : \/ i \in 1 .. p - 1 /\ i \in 1 .. n
                               \/ i = p
                               \/ i - 1 \in p .. n /\ i - 1 \in 1 .. n /\ (i - 1) + 1 = i
      /\ \A i \in 1 .. n : \/ i \in 1 .. p - 1 /\ i \in 1 .. n + 1
                           \/ i \in p .. n /\ i + 1 \in 1 .. n + 1
      /\ p \in 1 .. n + 1
  BY <1>1
<1> HIDE DEF n
<1>5. \A x : x \in ToSet(u) <=> x = r \/ x \in ToSet(t)
  <2>1. ASSUME NEW i \in 1 .. n + 1
        PROVE  u[i] = r \/ \E j \in 1 .. n : u[i] = t[j]
    <3>1. CASE i \in 1 .. p - 1 /\ i \in 1 .. n
      BY <1>3, <3>1
    <3>2. CASE i - 1 \in p .. n /\ i - 1 \in 1 .. n /\ (i - 1) + 1 = i
      BY <1>3, <3>2 DEF n
    <3> QED
      BY <1>3, <1>4, <3>1, <3>2
  <2>2. ASSUME NEW i \in 1 .. n
        PROVE  \E j \in 1 .. n + 1 : u[j] = t[i]
    <3>1. CASE i \in 1 .. p - 1 /\ i \in 1 .. n + 1
      BY <1>3, <3>1
    <3>2. CASE i \in p .. n /\ i + 1 \in 1 .. n + 1
      BY <1>3, <3>2 DEF n
    <3> QED
      BY <1>4, <3>1, <3>2
  <2>3. r \in ToSet(u)
    BY <1>3, <1>4 DEF ToSet
  <2>4. DOMAIN u = 1 .. n + 1 /\ DOMAIN t = 1 .. n
    BY <1>1, <1>3 DEF n
  <2>5. /\ \A x : x \in ToSet(u) <=> \E i \in 1 .. n + 1 : x = u[i]
        /\ \A x : x \in ToSet(t) <=> \E i \in 1 .. n : x = t[i]
    BY <2>4 DEF ToSet
  <2>6. ASSUME NEW x, x \in ToSet(u)
        PROVE  x = r \/ x \in ToSet(t)
    <3>1. PICK i \in 1 .. n + 1 : x = u[i]
      BY <2>5, <2>6
    <3>2. CASE u[i] # r
      <4>1. PICK j \in 1 .. n : u[i] = t[j]
        BY <2>1, <3>2
      <4> QED
        BY <2>5, <3>1, <4>1
    <3> QED
      BY <3>1, <3>2
  <2>7. ASSUME NEW x, x \in ToSet(t)
        PROVE  x \in ToSet(u)
    <3>1. PICK i \in 1 .. n : x = t[i]
      BY <2>5, <2>7
    <3>2. PICK j \in 1 .. n + 1 : u[j] = t[i]
      BY <2>2
    <3> QED
      BY <2>5, <3>1, <3>2
  <2> QED
    BY <2>3, <2>6, <2>7
<1>6. /\ ToSet(t) \subseteq ToSet(s)
      /\ \A x \in ToSet(s) \ ToSet(t) : full /\ x = s[1]
      /\ \A i, j \in 1 .. n : i < j => <<t[i], t[j]>> \in B
      /\ \A x \in given \ ToSet(t) : \A i \in 1 .. n :
            full => <<x, t[i]>> \in B
  <2>1. CASE full
    <3>1. ToSet(t) \subseteq ToSet(s)
      BY <1>1, <1>2, <2>1 DEF ToSet
    <3>2. \A i \in DOMAIN s : i = 1 \/ (i - 1 \in 1 .. n /\ (i - 1) + 1 = i)
      BY <1>1, <1>2, <2>1
    <3>3. \A x \in ToSet(s) \ ToSet(t) : x = s[1]
      BY <1>1, <1>2, <2>1, <3>2 DEF ToSet
    <3>4. ASSUME NEW i \in 1 .. n, NEW j \in 1 .. n, i < j
          PROVE  <<t[i], t[j]>> \in B
      <4>1. i + 1 < j + 1 /\ i + 1 \in DOMAIN s /\ j + 1 \in DOMAIN s
        BY <1>1, <1>2, <2>1, <3>4
      <4> QED
        BY <1>2, <2>1, <4>1 DEF Kept
    <3>5. ASSUME NEW x \in given \ ToSet(t), NEW i \in 1 .. n
          PROVE  <<x, t[i]>> \in B
      <4>1. i + 1 \in DOMAIN s /\ t[i] = s[i + 1] /\ i + 1 > 1 /\ 1 < i + 1 /\ 1 \in DOMAIN s
        BY <1>1, <1>2, <2>1
      <4>2. CASE x \in ToSet(s)
        BY <3>3, <4>1, <4>2 DEF Kept
      <4>3. CASE x \notin ToSet(s)
        BY <4>1, <4>3 DEF Kept
      <4> QED
        BY <4>2, <4>3
    <3> QED
      BY <2>1, <3>1, <3>3, <3>4, <3>5
  <2>2. CASE ~full
    BY <1>1, <1>2, <2>2 DEF Kept
  <2> QED
    BY <2>1, <2>2
<1>7. \A i, j \in DOMAIN u : i < j => <<u[i], u[j]>> \in B
  <2> SUFFICES ASSUME NEW i \in 1 .. n + 1, NEW j \in 1 .. n + 1, i < j
               PROVE  <<u[i], u[j]>> \in B
    BY <1>3
  <2>0. n \in Nat
    BY <1>1 DEF n
  <2>1. CASE j \in 1 .. p - 1
    <3>1. i \in 1 .. p - 1 /\ i \in 1 .. n /\ j \in 1 .. n
      BY <1>4, <2>0, <2>1
    <3> QED
      BY <1>3, <1>6, <2>1, <3>1
  <2>2. CASE j = p
    <3>1. i \in 1 .. p - 1
      BY <1>4, <2>2
    <3> QED
      BY <1>3, <2>2, <3>1
  <2>3. CASE j - 1 \in p .. n /\ j - 1 \in 1 .. n /\ (j - 1) + 1 = j
    <3>1. u[j] = t[j - 1]
      BY <1>3, <2>3
    <3>2. CASE i \in 1 .. p - 1 /\ i \in 1 .. n
      <4>1. i < j - 1
        BY <2>3, <3>2
      <4> QED
        BY <1>3, <1>6, <2>3, <3>1, <3>2, <4>1
    <3>3. CASE i = p
      BY <1>3, <2>3, <3>1, <3>3 DEF n
    <3>4. CASE i - 1 \in p .. n /\ i - 1 \in 1 .. n /\ (i - 1) + 1 = i
      <4>1. u[i] = t[i - 1]
        BY <1>3, <3>4
      <4>2. i - 1 < j - 1
        BY <2>0
      <4> QED
        BY <1>6, <2>3, <3>1, <3>4, <4>1, <4>2
    <3> QED
      BY <1>4, <3>2, <3>3, <3>4
  <2> QED
    BY <1>4, <2>1, <2>2, <2>3
<1>8. ToSet(u) \subseteq given \cup {r}
  BY <1>5, <1>6 DEF Kept
<1>9. full => Len(u) = cond.max /\ cond.max > 0
  <2>1. full => Len(s) = cond.max /\ cond.max > 0
    BY <1>1 DEF Kept, full
  <2>2. Len(s) \in Nat /\ Len(u) = n + 1 /\ (full => n = Len(s) - 1)
    BY <1>1, <1>2, <1>3 DEF n
  <2> QED
    BY <2>1, <2>2
<1>10. cond.max > 0 => Len(u) <= cond.max
  <2>1. ~full /\ cond.max > 0 => Len(s) + 1 <= cond.max
    BY <1>1 DEF full
  <2>2. Len(u) = n + 1 /\ (~full => n = Len(s))
    BY <1>2, <1>3 DEF n
  <2> QED
    BY <1>9, <2>1, <2>2
<1>11. (given \cup {r}) \ ToSet(u) # {} => full
  <2> SUFFICES ASSUME NEW q \in given, q \notin ToSet(u)
               PROVE  full
    BY <1>5
  <2>1. q \notin ToSet(t)
    BY <1>5
  <2>2. CASE q \in ToSet(s)
    BY <1>6, <2>1, <2>2
  <2>3. CASE q \notin ToSet(s)
    BY <1>1, <2>3 DEF Kept, full
  <2> QED
    BY <2>2, <2>3
<1>12. ASSUME NEW q \in (given \cup {r}) \ ToSet(u), NEW i \in DOMAIN u, ~cond.byTm \/ i > 1
       PROVE  <<q, u[i]>> \in B
  <2>1. q \in given /\ q \notin ToSet(t) /\ full /\ q \in D /\ i \in 1 .. n + 1
    BY <1>3, <1>5, <1>11
  <2>2. \A j \in 1 .. n : <<q, t[j]>> \in B
    BY <1>6, <2>1
  <2>3. CASE i = p
    <3>1. CASE ~cond.byTm
      BY <1>3, <2>1, <2>3, <3>1
    <3>2. CASE i > 1
      <4>1. p - 1 \in 1 .. p - 1 /\ p - 1 \in 1 .. n
        BY <1>1, <1>4, <2>3, <3>2 DEF n
      <4>2. <<q, t[p - 1]>> \in B /\ <<t[p - 1], r>> \in B /\ t[p - 1] \in D
        BY <1>1, <2>2, <4>1 DEF n
      <4> QED
        BY <1>3, <2>1, <2>3, <4>2
    <3> QED
      BY <1>12, <3>1, <3>2
  <2>4. CASE i \in 1 .. p - 1 /\ i \in 1 .. n
    BY <1>3, <2>2, <2>4
  <2>5. CASE i - 1 \in p .. n /\ i - 1 \in 1 .. n /\ (i - 1) + 1 = i
    BY <1>3, <2>2, <2>5
  <2> QED
    BY <1>4, <2>1, <2>3, <2>4, <2>5
<1> QED
  BY <1>5, <1>7, <1>8, <1>9, <1>10, <1>11, <1>12 DEF Kept

\* Instances in order are not repeated.
LEMMA NoneTwice ==
    ASSUME NEW B, \A x : <<x, x>> \notin B, NEW cond, NEW given, NEW S, NEW s \in Seq(S),
           Kept(B, cond, given, s)
    PROVE  \A i, j \in DOMAIN s : s[i] = s[j] => i = j
<1>1. \A i, j \in DOMAIN s : i = j \/ i < j \/ j < i
  OBVIOUS
<1> QED
  BY <1>1 DEF Kept

\* What makes room leaves the order as it is.
LEMMA RestKept ==
    ASSUME NEW B, NEW cond, cond.max \in Nat, NEW given, NEW S, NEW s \in Seq(S),
           Kept(B, cond, given, s), NEW t, t = MakeRoom(cond, s)
    PROVE  /\ t \in Seq(S) /\ \A i \in DOMAIN t : t[i] \in given
           /\ \A i, j \in DOMAIN t : i < j => <<t[i], t[j]>> \in B
<1>1. \A i \in DOMAIN s : s[i] \in given
  BY DEF Kept, ToSet
<1>2. /\ t \in Seq(S) /\ DOMAIN t = 1 .. Len(t)
      /\ \/ t = s
         \/ \A i \in DOMAIN t : i + 1 \in DOMAIN s /\ t[i] = s[i + 1]
  BY Room
<1>3. CASE t = s
  BY <1>1, <1>2, <1>3 DEF Kept
<1>4. CASE \A i \in DOMAIN t : i + 1 \in DOMAIN s /\ t[i] = s[i + 1]
  <2>1. \A i, j \in DOMAIN t : i < j => i + 1 < j + 1
    BY <1>2
  <2> QED
    BY <1>1, <1>2, <1>4, <2>1 DEF Kept
<1> QED
  BY <1>2, <1>3, <1>4

-----------------------------------------------------------------------------
(* A message is given to the list *)

Order == {x \in (DOMAIN rows) \X (DOMAIN rows) :
             \E q, r \in DOMAIN rows : x = <<q, r>> /\ Before(q, r)}

Instances(id) == MessageOf(list.messages, id).instances

LEMMA OrderIs ==
    ASSUME NEW q, NEW r
    PROVE  /\ <<q, r>> \in Order <=> q \in DOMAIN rows /\ r \in DOMAIN rows /\ Before(q, r)
           /\ <<q, r>> \in Order' <=> q \in DOMAIN rows' /\ r \in DOMAIN rows' /\ Before(q, r)'
BY DEF Order

LEMMA KeptNow ==
    ASSUME list # Nil, KeepsNewest, NEW id \in Ids
    PROVE  Kept(Order, list.cond, Given(id), Instances(id))
<1> DEFINE s == Instances(id)
<1>1. Given(id) \subseteq DOMAIN rows /\ \A i \in DOMAIN s : s[i] \in ToSet(s)
  BY DEF Given, ToSet
<1>2. /\ ToSet(s) \subseteq Given(id)
      /\ \A i, j \in DOMAIN s : i < j => Before(s[i], s[j])
      /\ list.cond.max > 0 => Len(s) <= list.cond.max
      /\ Given(id) \ ToSet(s) # {} => list.cond.max > 0 /\ Len(s) = list.cond.max
      /\ \A r \in Given(id) \ ToSet(s) : \A i \in DOMAIN s :
            ~list.cond.byTm \/ i > 1 => Before(r, s[i])
  BY DEF KeepsNewest, Instances
<1> HIDE DEF s
<1> QED
  BY <1>1, <1>2, OrderIs DEF Kept, s

LEMMA KeptThen ==
    ASSUME \A id \in Ids : Kept(Order', list'.cond, Given(id)', Instances(id)')
    PROVE  KeepsNewest'
<1>1. ASSUME NEW id \in Ids, NEW s, s = Instances(id)'
      PROVE  /\ ToSet(s) \subseteq Given(id)'
             /\ \A i, j \in DOMAIN s : i < j => Before(s[i], s[j])'
             /\ list'.cond.max > 0 => Len(s) <= list'.cond.max
             /\ Given(id)' \ ToSet(s) # {} => list'.cond.max > 0 /\ Len(s) = list'.cond.max
             /\ \A r \in Given(id)' \ ToSet(s) : \A i \in DOMAIN s :
                   ~list'.cond.byTm \/ i > 1 => Before(r, s[i])'
  <2>1. Kept(Order', list'.cond, Given(id)', s)
    BY <1>1
  <2> QED
    BY <2>1, OrderIs DEF Kept
<1> QED
  BY <1>1 DEF KeepsNewest, Instances

\* Messages that were there stay, and so do the turns of a list.
Grown == \A q \in DOMAIN rows : q \in DOMAIN rows' /\ rows'[q] = rows[q]
SameWay == list'.cond = list.cond /\ list'.at = list.at

LEMMA OrderMore ==
    ASSUME Grown, SameWay
    PROVE  Order \subseteq Order' /\ \A q : Turn(q)' = Turn(q)
<1>1. \A q : Turn(q)' = Turn(q)
  BY DEF Turn, SameWay
<1>2. \A q, r \in DOMAIN rows : Before(q, r) => Before(q, r)'
  BY <1>1 DEF Before, Grown, SameWay
<1>3. ASSUME NEW x \in Order
      PROVE  x \in Order'
  <2>1. PICK q \in DOMAIN rows, r \in DOMAIN rows : x = <<q, r>>
    BY DEF Order
  <2>2. q \in DOMAIN rows' /\ r \in DOMAIN rows' /\ Before(q, r)'
    BY <1>2, <2>1, OrderIs DEF Grown
  <2> QED
    BY <2>1, <2>2, OrderIs
<1> QED
  BY <1>1, <1>3

LEMMA KeptMore ==
    ASSUME NEW B, NEW C, B \subseteq C, NEW cond, NEW given, NEW s, Kept(B, cond, given, s)
    PROVE  Kept(C, cond, given, s)
BY DEF Kept

\* The turns tell the messages apart.
LEMMA Turns ==
    ASSUME list.at \in Nat, list.cond.backward \in BOOLEAN, NEW q \in Nat, NEW r \in Nat
    PROVE  Turn(q) \in Int /\ (Turn(q) = Turn(r) /\ q # 0 /\ r # 0 => q = r)
BY DEF Turn

\* What a list is given with one more message.
LEMMA GivenMore ==
    ASSUME Grown, SameWay, list.at \in Nat, list.read \in Nat, list.cond.backward \in BOOLEAN,
           rows' \in Seq(Row),
           NEW r \in DOMAIN rows', rows'[r].fits, \A q \in DOMAIN rows' : q \in DOMAIN rows \/ q = r,
           list'.read = list.read + 1, Turn(r) = list.read + 1,
           NEW id \in Ids
    PROVE  /\ Given(id)' = IF rows'[r].id = id THEN Given(id) \cup {r} ELSE Given(id)
           /\ \A q \in Given(id)' : q \in DOMAIN rows' /\ (q # r => Turn(q) < Turn(r) /\ q \in Given(id))
           /\ r \notin Given(id)
<1>1. \A q \in DOMAIN rows' : q \in Nat /\ q # 0
  OBVIOUS
<1>2. \A q : Turn(q)' = Turn(q)
  BY OrderMore
<1>3. ASSUME NEW q \in DOMAIN rows'
      PROVE  Turn(q) \in Int /\ (Turn(q) <= list.read + 1 <=> Turn(q) <= list.read \/ q = r)
  <2>1. Turn(q) \in Int /\ (Turn(q) = Turn(r) => q = r)
    BY <1>1, Turns
  <2> QED
    BY <2>1
<1>4. \A q \in DOMAIN rows' : q # r => q \in DOMAIN rows /\ rows'[q] = rows[q]
  BY DEF Grown
<1>5. \A q : q \in Given(id) => q \in DOMAIN rows' /\ rows'[q] = rows[q] /\ q # r
  BY DEF Given, Grown
<1>6. \A q \in DOMAIN rows' : q # r => (q \in Given(id)' <=> q \in Given(id))
  BY <1>2, <1>3, <1>4 DEF Given
<1>7. r \in Given(id)' <=> rows'[r].id = id
  BY <1>2, <1>3 DEF Given
<1>8. \A q \in Given(id)' : q \in DOMAIN rows'
  BY DEF Given
<1>9. \A q \in Given(id) : Turn(q) < Turn(r)
  BY <1>3, <1>5 DEF Given
<1>10. Given(id)' = IF rows'[r].id = id THEN Given(id) \cup {r} ELSE Given(id)
  <2>1. \A q : q \in Given(id)' <=> q \in Given(id) \/ (q = r /\ rows'[r].id = id)
    BY <1>5, <1>6, <1>7, <1>8
  <2> QED
    BY <2>1
<1> QED
  BY <1>5, <1>6, <1>8, <1>9, <1>10

\* Where order_by_tm puts a message.
LEMMA PlaceOf ==
    ASSUME NEW S, NEW t \in Seq(S), NEW cond, cond.byTm \in BOOLEAN, NEW r
    PROVE  \E p \in 1 .. Len(t) + 1 :
              /\ Insert(cond, t, r) = InsertAt(t, p, r)
              /\ ~cond.byTm => p = Len(t) + 1
              /\ cond.byTm => /\ p > 1 => rows'[t[p - 1]].tm <= rows'[r].tm
                              /\ \A i \in p .. Len(t) : ~(rows'[t[i]].tm <= rows'[r].tm)
<1> DEFINE before == {i \in DOMAIN t : rows'[t[i]].tm <= rows'[r].tm}
           m      == Max({0} \union before)
<1>1. Len(t) \in Nat /\ DOMAIN t = 1 .. Len(t) /\ Len(t) + 1 \in 1 .. Len(t) + 1
  OBVIOUS
<1>2. CASE ~cond.byTm
  BY <1>1, <1>2 DEF Insert
<1>3. CASE cond.byTm
  <2>1. {0} \union before \in SUBSET (0 .. Len(t)) /\ 0 \in {0} \union before
    BY <1>1
  <2> HIDE DEF before
  <2>2. m \in {0} \union before /\ \A b \in {0} \union before : b <= m
    BY <1>1, <2>1, MaxOf
  <2>3. Insert(cond, t, r) = InsertAt(t, 1 + m, r)
    BY <1>3 DEF Insert, before
  <2> HIDE DEF m
  <2>4. m \in 0 .. Len(t)
    BY <2>1, <2>2
  <2>5. 1 + m \in 1 .. Len(t) + 1 /\ (1 + m) - 1 = m /\ (1 + m > 1 => m # 0)
    BY <1>1, <2>4
  <2>6. m # 0 => rows'[t[m]].tm <= rows'[r].tm
    BY <2>2 DEF before
  <2>7. \A i \in 1 + m .. Len(t) : i \in DOMAIN t /\ ~(i <= m)
    BY <1>1, <2>4
  <2>8. \A i \in 1 + m .. Len(t) : ~(rows'[t[i]].tm <= rows'[r].tm)
    BY <2>2, <2>7 DEF before
  <2> QED
    BY <1>3, <2>3, <2>5, <2>6, <2>8
<1> QED
  BY <1>2, <1>3

LEMMA Within ==
    ASSUME NEW S, NEW s \in Seq(S), NEW T, \A i \in DOMAIN s : s[i] \in T
    PROVE  s \in Seq(T)
<1>1. Len(s) \in Nat /\ DOMAIN s = 1 .. Len(s) /\ s = [i \in 1 .. Len(s) |-> s[i]]
  OBVIOUS
<1> QED
  BY <1>1, IsASeq

\* The state that an open list is in.
LEMMA ListTypes ==
    ASSUME TypeOK, list # Nil
    PROVE  /\ list.cond \in Conds /\ list.cond.max \in Nat
           /\ list.cond.byTm \in BOOLEAN /\ list.cond.backward \in BOOLEAN
           /\ list.at \in Nat /\ list.read \in Nat
           /\ DOMAIN list.messages \subseteq Ids
           /\ \A id \in DOMAIN list.messages : list.messages[id] \in Message
           /\ \A id \in Ids : Instances(id) \in Seq(Nat)
<1>1. /\ list.cond \in Conds /\ {list.at, list.read} \subseteq 0 .. Len(rows)
      /\ DOMAIN list.messages \subseteq Ids
      /\ \A id \in DOMAIN list.messages : list.messages[id] \in Message
  BY DEF TypeOK
<1>2. \A id \in Ids : Instances(id) \in Seq(Nat)
  <2>1. \A m \in Message : m.instances \in Seq(Nat)
    BY DEF Message
  <2>2. NoMessage.instances = <<>> /\ <<>> \in Seq(Nat)
    BY DEF NoMessage
  <2> QED
    BY <1>1, <2>1, <2>2 DEF Instances, MessageOf
<1> QED
  BY <1>1, <1>2, TrMsgAssumption

\* The message r is the next one of those that the list is given.
NextGiven(r) ==
    /\ list # Nil /\ Grown /\ SameWay /\ rows' \in Seq(Row)
    /\ r \in DOMAIN rows' /\ rows'[r].fits
    /\ \A q \in DOMAIN rows' : q \in DOMAIN rows \/ q = r
    /\ list'.read = list.read + 1 /\ Turn(r) = list.read + 1
    /\ list'.messages = Receive(list.messages, list.cond, r)

LEMMA RowTypes ==
    ASSUME rows' \in Seq(Row)
    PROVE  \A q \in DOMAIN rows' : /\ q \in Nat /\ q # 0
                                   /\ rows'[q].tm \in Nat /\ rows'[q].id \in Ids
<1> SUFFICES ASSUME NEW q \in DOMAIN rows'
             PROVE  q \in Nat /\ q # 0 /\ rows'[q].tm \in Nat /\ rows'[q].id \in Ids
  OBVIOUS
<1>1. q \in Nat /\ q # 0 /\ rows'[q] \in Row
  OBVIOUS
<1>2. rows'[q].tm \in Tms /\ rows'[q].id \in Ids
  BY <1>1 DEF Row
<1> QED
  BY <1>1, <1>2, TrMsgAssumption

LEMMA OrderSound ==
    ASSUME TypeOK, list # Nil, SameWay, Grown, rows' \in Seq(Row)
    PROVE  \A x, y, z \in DOMAIN rows' :
              <<x, y>> \in Order' /\ <<y, z>> \in Order' => <<x, z>> \in Order'
<1>1. \A q \in DOMAIN rows' : q \in Nat /\ rows'[q].tm \in Nat
  BY RowTypes
<1>2. \A q \in DOMAIN rows' : Turn(q)' \in Int
  BY <1>1, ListTypes, Turns, OrderMore
<1>3. \A x, y, z \in DOMAIN rows' : Before(x, y)' /\ Before(y, z)' => Before(x, z)'
  <2> TAKE x, y, z \in DOMAIN rows'
  <2>1. /\ rows'[x].tm \in Nat /\ rows'[y].tm \in Nat /\ rows'[z].tm \in Nat
        /\ Turn(x)' \in Int /\ Turn(y)' \in Int /\ Turn(z)' \in Int
    BY <1>1, <1>2
  <2> QED
    BY <2>1 DEF Before
<1> QED
  BY <1>3, OrderIs

LEMMA ReceiveStep ==
    ASSUME TypeOK, KeepsNewest, ActiveIsLast, NEW r, NextGiven(r)
    PROVE  /\ DOMAIN list'.messages \subseteq Ids
           /\ list'.messages \in [DOMAIN list'.messages -> Message]
           /\ KeepsNewest' /\ ActiveIsLast'
<1> DEFINE D == DOMAIN rows'
<1>1. PICK id, s, t, u : /\ id = rows'[r].id /\ s = Instances(id)
                         /\ t = MakeRoom(list.cond, s)
                         /\ u = Insert(list.cond, t, r)
  OBVIOUS
<1>2. /\ list # Nil /\ Grown /\ SameWay /\ rows' \in Seq(Row)
      /\ r \in D /\ rows'[r].fits
      /\ \A q \in DOMAIN rows' : q \in DOMAIN rows \/ q = r
      /\ list'.read = list.read + 1 /\ Turn(r) = list.read + 1
  BY DEF NextGiven
<1>3. /\ list.cond \in Conds /\ list.cond.max \in Nat
      /\ list.cond.byTm \in BOOLEAN /\ list.cond.backward \in BOOLEAN
      /\ list.at \in Nat /\ list.read \in Nat
      /\ DOMAIN list.messages \subseteq Ids
      /\ \A k \in DOMAIN list.messages : list.messages[k] \in Message
      /\ \A k \in Ids : Instances(k) \in Seq(Nat)
  BY <1>2, ListTypes
<1>4. id \in Ids /\ r \in Nat /\ \A q \in D : q \in Nat /\ rows'[q].tm \in Nat
  BY <1>1, <1>2, RowTypes
<1>5. list'.messages = [k \in DOMAIN list.messages \union {id} |->
                           IF k # id THEN list.messages[k]
                           ELSE [instances |-> u, active |-> r]]
  BY <1>1, <1>2 DEF NextGiven, Receive, Instances
<1>6. \A k \in Ids : Instances(k)' = IF k = id THEN u ELSE Instances(k)
  BY <1>5 DEF Instances, MessageOf
<1>7. \A q : Turn(q)' = Turn(q)
  BY <1>2, OrderMore
<1>8. \A k \in Ids :
         /\ Given(k)' = IF id = k THEN Given(k) \cup {r} ELSE Given(k)
         /\ \A q \in Given(k)' : q \in D /\ (q # r => Turn(q) < Turn(r) /\ q \in Given(k))
         /\ r \notin Given(k)
  BY <1>1, <1>2, <1>3, GivenMore
<1>9. Kept(Order', list.cond, Given(id), s)
  BY <1>1, <1>2, <1>4, KeptNow, OrderMore, KeptMore
<1>10. /\ s \in Seq(D) /\ t \in Seq(D) /\ Given(id) \in SUBSET D
       /\ \A i \in DOMAIN t : t[i] \in Given(id)
       /\ \A i, j \in DOMAIN t : i < j => <<t[i], t[j]>> \in Order'
  <2>1. Given(id) \in SUBSET D
    BY <1>2 DEF Given, Grown
  <2>2. s \in Seq(Nat) /\ \A i \in DOMAIN s : s[i] \in Given(id)
    BY <1>1, <1>3, <1>4, <1>9 DEF Kept, ToSet
  <2>3. s \in Seq(D)
    BY <2>1, <2>2, Within
  <2>4. PICK O, c, g : O = Order' /\ c = list.cond /\ g = Given(id)
    OBVIOUS
  <2>5. c.max \in Nat /\ Kept(O, c, g, s) /\ t = MakeRoom(c, s)
    BY <1>1, <1>3, <1>9, <2>4
  <2>6. /\ t \in Seq(D) /\ \A i \in DOMAIN t : t[i] \in g
        /\ \A i, j \in DOMAIN t : i < j => <<t[i], t[j]>> \in O
    BY <2>3, <2>5, RestKept
  <2> QED
    BY <2>1, <2>3, <2>4, <2>6
<1>11. PICK p \in 1 .. Len(t) + 1 :
              /\ u = InsertAt(t, p, r)
              /\ ~list.cond.byTm => p = Len(t) + 1
              /\ list.cond.byTm => /\ p > 1 => rows'[t[p - 1]].tm <= rows'[r].tm
                                   /\ \A i \in p .. Len(t) : ~(rows'[t[i]].tm <= rows'[r].tm)
  <2>1. list.cond.byTm \in BOOLEAN /\ t \in Seq(D)
    BY <1>3, <1>10
  <2> QED
    BY <1>1, <2>1, PlaceOf
<1>12. Len(t) \in Nat /\ DOMAIN t = 1 .. Len(t)
  BY <1>10
<1>13. \A q \in Given(id) : Turn(q)' < Turn(r)'
  BY <1>4, <1>7, <1>8
<1>14. ~list.cond.byTm => \A q \in Given(id) : <<q, r>> \in Order'
  BY <1>2, <1>10, <1>13, OrderIs DEF Before, SameWay
<1>15. ASSUME NEW i \in 1 .. p - 1
       PROVE  <<t[i], r>> \in Order'
  <2>1. i \in DOMAIN t /\ t[i] \in Given(id) /\ t[i] \in D
    BY <1>10, <1>12
  <2>2. CASE ~list.cond.byTm
    BY <1>14, <2>1, <2>2
  <2>3. CASE list.cond.byTm
    <3>1. p > 1 /\ p - 1 \in DOMAIN t /\ (i = p - 1 \/ i < p - 1)
      BY <1>12
    <3>2. rows'[t[p - 1]].tm <= rows'[r].tm /\ t[p - 1] \in D
      BY <1>10, <1>11, <2>3, <3>1
    <3>3. rows'[t[i]].tm <= rows'[t[p - 1]].tm
      <4>1. CASE i = p - 1
        BY <1>4, <3>2, <4>1
      <4>2. CASE i < p - 1
        <5>1. Before(t[i], t[p - 1])'
          BY <1>10, <2>1, <3>1, <4>2, OrderIs
        <5> QED
          BY <1>2, <1>4, <2>1, <2>3, <3>2, <5>1 DEF Before, SameWay
      <4> QED
        BY <3>1, <4>1, <4>2
    <3>4. rows'[t[i]].tm <= rows'[r].tm
      BY <1>2, <1>4, <2>1, <3>2, <3>3
    <3>5. Before(t[i], r)'
      BY <1>2, <1>4, <1>13, <2>1, <3>4 DEF Before
    <3> QED
      BY <1>2, <2>1, <3>5, OrderIs
  <2> QED
    BY <1>3, <2>2, <2>3
<1>16. ASSUME NEW i \in p .. Len(t)
       PROVE  <<r, t[i]>> \in Order'
  <2>1. i \in DOMAIN t /\ t[i] \in D
    BY <1>10, <1>12
  <2>2. list.cond.byTm
    BY <1>3, <1>11, <1>12
  <2>3. rows'[r].tm < rows'[t[i]].tm
    BY <1>2, <1>4, <1>11, <2>1, <2>2
  <2>4. Before(r, t[i])'
    BY <1>2, <1>4, <2>1, <2>2, <2>3 DEF Before, SameWay
  <2> QED
    BY <1>2, <2>1, <2>4, OrderIs
<1>17. Kept(Order', list.cond, Given(id) \cup {r}, u) /\ r \in ToSet(u)
  <2>1. \A x, y, z \in D : <<x, y>> \in Order' /\ <<y, z>> \in Order' => <<x, z>> \in Order'
    BY <1>2, OrderSound
  <2>2. r \in D /\ s \in Seq(D) /\ t \in Seq(D) /\ Given(id) \in SUBSET D
    BY <1>2, <1>10
  <2>3. t = MakeRoom(list.cond, s) /\ u = InsertAt(t, p, r) /\ p \in 1 .. Len(t) + 1
    BY <1>1, <1>11
  <2>4. list.cond.max \in Nat /\ list.cond.byTm \in BOOLEAN
    BY <1>3
  <2> HIDE DEF D
  <2>5. Comes(D, Order', list.cond, Given(id), r, s, t, p)
    BY <1>9, <1>14, <1>15, <1>16, <2>1, <2>2, <2>3, <2>4 DEF Comes
  <2> QED
    BY <2>3, <2>5, StillKept
<1>18. KeepsNewest'
  <2>1. ASSUME NEW k \in Ids
        PROVE  Kept(Order', list'.cond, Given(k)', Instances(k)')
    <3>1. list'.cond = list.cond
      BY <1>2 DEF SameWay
    <3>2. CASE k = id
      BY <1>4, <1>6, <1>8, <1>17, <3>1, <3>2
    <3>3. CASE k # id
      <4>1. Kept(Order', list.cond, Given(k), Instances(k))
        BY <1>2, KeptNow, OrderMore, KeptMore
      <4> QED
        BY <1>6, <1>8, <3>1, <3>3, <4>1
    <3> QED
      BY <3>2, <3>3
  <2> QED
    BY <2>1, KeptThen
<1>19. u \in Seq(Nat)
  <2>1. u \in Seq(D)
    BY <1>2, <1>10, <1>11, Inserted
  <2>2. \A i \in DOMAIN u : u[i] \in Nat
    BY <1>4, <2>1
  <2> QED
    BY <2>1, <2>2, Within
<1>20. /\ DOMAIN list'.messages \subseteq Ids
       /\ list'.messages \in [DOMAIN list'.messages -> Message]
  <2>1. [instances |-> u, active |-> r] \in Message
    BY <1>4, <1>19 DEF Message
  <2>2. DOMAIN list'.messages = DOMAIN list.messages \cup {id}
    BY <1>5
  <2>3. \A k \in DOMAIN list'.messages : list'.messages[k] \in Message
    BY <1>3, <1>5, <2>1
  <2> QED
    BY <1>3, <1>4, <1>5, <2>2, <2>3
<1>21. ActiveIsLast'
  <2> SUFFICES ASSUME NEW k \in DOMAIN list'.messages, NEW a, a = list'.messages[k].active
               PROVE  /\ a \in Given(k)' \cap ToSet(list'.messages[k].instances)
                      /\ \A q \in Given(k)' : Turn(q)' <= Turn(a)'
    BY DEF ActiveIsLast, Turn
  <2>1. k \in Ids
    BY <1>20
  <2>2. CASE k = id
    <3>1. list'.messages[k] = [instances |-> u, active |-> r]
      BY <1>5, <2>2
    <3>2. Turn(r)' \in Int /\ \A q \in Given(k)' : Turn(q)' \in Int
      BY <1>3, <1>4, <1>7, <1>8, <2>1, Turns
    <3>4. \A q \in Given(k)' : Turn(q)' <= Turn(r)'
      BY <1>7, <1>8, <2>1, <3>2
    <3>3. r \in Given(k)'
      BY <1>8, <2>1, <2>2
    <3> QED
      BY <1>17, <3>1, <3>3, <3>4
  <2>3. CASE k # id
    <3>1. k \in DOMAIN list.messages /\ list'.messages[k] = list.messages[k] /\ Given(k)' = Given(k)
      BY <1>5, <1>8, <2>1, <2>3
    <3> QED
      BY <1>2, <1>7, <3>1 DEF ActiveIsLast
  <2> QED
    BY <2>2, <2>3
<1> QED
  BY <1>18, <1>20, <1>21

-----------------------------------------------------------------------------
(* The tree and the index *)

\* What trmsg_data_tree puts below the active message.
LEMMA OthersOnce ==
    ASSUME NEW m, m.instances \in Seq(Nat), m.active \in ToSet(m.instances),
           \A i, j \in DOMAIN m.instances : m.instances[i] = m.instances[j] => i = j
    PROVE  /\ Others(m) \in Seq(Nat) /\ m.active \notin ToSet(Others(m))
           /\ \A r \in ToSet(m.instances) \ {m.active} :
                 Cardinality({i \in DOMAIN Others(m) : Others(m)[i] = r}) = 1
<1> DEFINE s == m.instances
           a == m.active
           I == {i \in 1 .. Len(s) : s[i] = a}
           n == Min(I)
           b == SubSeq(s, 1, n - 1)
           c == SubSeq(s, n + 1, Len(s))
           u == Others(m)
<1>1. PICK k \in DOMAIN s : s[k] = a
  BY DEF ToSet
<1>2. Len(s) \in Nat /\ DOMAIN s = 1 .. Len(s)
  OBVIOUS
<1>3. I = {k}
  BY <1>1, <1>2
<1>4. n = k
  <2> HIDE DEF I
  <2>1. k \in I /\ \A y \in I : k <= y /\ y = k
    BY <1>1, <1>2, <1>3
  <2> QED
    BY <2>1 DEF Min
<1>5. u = b \o c
  <2>1. \E i \in 1 .. Len(s) : s[i] = a
    BY <1>1, <1>2
  <2>2. I # {}
    BY <1>3
  <2> QED
    BY <2>1, <2>2 DEF Others, RemoveFirst, SelectInSeq, RemoveAt
<1>6. n \in 1 .. Len(s) /\ s[n] = a
  BY <1>1, <1>2, <1>4
<1> HIDE DEF n
<1>7. b \in Seq(Nat) /\ Len(b) = n - 1 /\ \A i \in 1 .. n - 1 : b[i] = s[i]
  BY <1>2, <1>6
<1>8. c \in Seq(Nat) /\ Len(c) = Len(s) - n /\ \A i \in 1 .. Len(s) - n : c[i] = s[n + i]
  BY <1>2, <1>6
<1> HIDE DEF b, c, u
<1>9. u \in Seq(Nat) /\ Joint(u, b, c, n - 1, Len(s) - n)
  BY <1>5, <1>7, <1>8, Joined
<1>10. /\ DOMAIN u = 1 .. Len(s) - 1
       /\ \A i \in 1 .. Len(s) - 1 : /\ i < n => i \in DOMAIN s /\ u[i] = s[i]
                                     /\ i >= n => i + 1 \in DOMAIN s /\ u[i] = s[i + 1]
  <2>1. n - 1 + (Len(s) - n) = Len(s) - 1
    BY <1>2, <1>6
  <2>2. ASSUME NEW i \in 1 .. Len(s) - 1, i < n
        PROVE  i \in DOMAIN s /\ u[i] = s[i]
    <3>1. i \in 1 .. n - 1 /\ i \in DOMAIN s
      BY <1>2, <1>6, <2>2
    <3> QED
      BY <1>7, <1>9, <3>1 DEF Joint
  <2>3. ASSUME NEW i \in 1 .. Len(s) - 1, i >= n
        PROVE  i + 1 \in DOMAIN s /\ u[i] = s[i + 1]
    <3>0. i + 1 \in DOMAIN s
      BY <1>2
    <3>1. /\ i - (n - 1) \in 1 .. Len(s) - n /\ n - 1 + (i - (n - 1)) = i
          /\ n + (i - (n - 1)) = i + 1
      <4>1. \A L, x, y \in Nat :
               /\ y <= L /\ x >= 1 /\ x <= L - 1 /\ y >= 1 /\ x >= y
               => /\ x - (y - 1) \in 1 .. L - y /\ y - 1 + (x - (y - 1)) = x
                  /\ y + (x - (y - 1)) = x + 1
        OBVIOUS
      <4>2. /\ n \in Nat /\ n <= Len(s) /\ i \in Nat /\ i >= 1 /\ i <= Len(s) - 1
            /\ n >= 1 /\ i >= n /\ Len(s) \in Nat
        BY <1>2, <1>6, <2>3
      <4> QED
        BY <4>1, <4>2
    <3>2. u[n - 1 + (i - (n - 1))] = c[i - (n - 1)]
      BY <1>9, <3>1 DEF Joint
    <3>3. c[i - (n - 1)] = s[n + (i - (n - 1))]
      BY <1>8, <3>1
    <3> QED
      BY <3>0, <3>1, <3>2, <3>3
  <2> QED
    BY <1>9, <2>1, <2>2, <2>3 DEF Joint
<1>11. \A i \in DOMAIN u : u[i] # a
  <2> TAKE i \in DOMAIN u
  <2>1. CASE i < n
    <3>1. i # n /\ i \in DOMAIN s /\ u[i] = s[i]
      BY <1>2, <1>6, <1>10, <2>1
    <3> QED
      BY <1>2, <1>6, <3>1
  <2>2. CASE i >= n
    <3>1. i \in 1 .. Len(s) - 1 /\ n \in Nat /\ n \in 1 .. Len(s)
      BY <1>2, <1>6, <1>10
    <3>2. i + 1 # n
      BY <2>2, <3>1
    <3>3. i + 1 \in DOMAIN s /\ u[i] = s[i + 1]
      BY <1>10, <2>2, <3>1
    <3> QED
      BY <1>2, <1>6, <3>2, <3>3
  <2> QED
    BY <1>2, <1>6, <1>10, <2>1, <2>2
<1>12. ASSUME NEW r \in ToSet(s) \ {a}
       PROVE  Cardinality({i \in DOMAIN u : u[i] = r}) = 1
  <2>1. PICK j \in DOMAIN s : s[j] = r
    BY DEF ToSet
  <2>2. j # n /\ j \in 1 .. Len(s)
    BY <1>2, <1>6, <1>12, <2>1
  <2>3. PICK i \in DOMAIN u : /\ u[i] = r
                              /\ j < n => i = j
                              /\ j > n => i = j - 1
    <3>1. CASE j < n
      <4>1. j \in 1 .. Len(s) - 1
        BY <1>2, <1>6, <2>2, <3>1
      <4> QED
        BY <1>2, <1>6, <1>10, <2>1, <2>2, <3>1, <4>1
    <3>2. CASE j > n
      <4>1. j - 1 \in 1 .. Len(s) - 1 /\ j - 1 >= n /\ (j - 1) + 1 = j
        BY <1>2, <1>6, <2>2, <3>2
      <4> QED
        BY <1>2, <1>6, <1>10, <2>1, <2>2, <3>2, <4>1
    <3> QED
      BY <1>2, <1>6, <2>2, <3>1, <3>2
  <2>4. \A x \in DOMAIN u : u[x] = r => x = i
    <3> SUFFICES ASSUME NEW x \in DOMAIN u, u[x] = r
                 PROVE  x = i
      OBVIOUS
    <3>1. CASE x < n
      <4>1. x = j
        BY <1>10, <2>1, <3>1
      <4> QED
        BY <2>3, <3>1, <4>1
    <3>2. CASE x >= n
      <4>1. x + 1 = j
        BY <1>10, <2>1, <3>2
      <4>2. j > n /\ j - 1 = x
        BY <1>2, <1>6, <1>10, <3>2, <4>1
      <4> QED
        BY <2>3, <4>2
    <3> QED
      BY <1>2, <1>6, <1>10, <3>1, <3>2
  <2>5. {x \in DOMAIN u : u[x] = r} = {i}
    BY <2>3, <2>4
  <2> QED
    BY <2>5, FS_Singleton
<1> QED
  BY <1>9, <1>11, <1>12 DEF u, ToSet

\* The index that a load makes.
LEMMA IndexTypes ==
    ASSUME TypeOK
    PROVE  LoadIndex \in [Ids -> [Key2s \cup {Empty} -> Nat]]
<1> SUFFICES ASSUME NEW id \in Ids, NEW k2 \in Key2s \cup {Empty}
             PROVE  LoadIndex[id][k2] \in Nat
  BY DEF LoadIndex
<1> DEFINE same == {r \in DOMAIN rows : rows[r].id = id /\ rows[r].k2 = k2}
<1>1. LoadIndex[id][k2] = IF same = {} \/ k2 = Empty THEN 0
                          ELSE CHOOSE r \in same : \A q \in same : q <= r
  BY DEF LoadIndex
<1>2. Len(rows) \in Nat /\ DOMAIN rows = 1 .. Len(rows)
  BY DEF TypeOK
<1>3. \A r \in same : r \in 1 .. Len(rows)
  BY <1>2
<1> HIDE DEF same
<1>4. CASE same = {}
  BY <1>1, <1>4
<1>5. CASE same # {}
  <2> DEFINE B == {0} \cup same
             m == Max(B)
  <2>1. B \in SUBSET (0 .. Len(rows)) /\ 0 \in B
    BY <1>2, <1>3
  <2> HIDE DEF B
  <2>2. m \in B /\ \A b \in B : b <= m
    BY <1>2, <2>1, MaxOf
  <2> HIDE DEF m
  <2>3. m # 0
    BY <1>2, <1>3, <1>5, <2>1, <2>2 DEF B
  <2>4. m \in same /\ \A q \in same : q <= m
    BY <2>2, <2>3 DEF B
  <2>5. (CHOOSE r \in same : \A q \in same : q <= r) \in same
    BY <2>4
  <2> QED
    BY <1>1, <1>3, <2>5
<1> QED
  BY <1>4, <1>5

\* A message more, with its pkey2.
LEMMA IndexMore ==
    ASSUME TypeOK, NEW id \in Ids, NEW k2 \in Key2s, NEW row \in Row, row.id = id, row.k2 = k2,
           rows' = Append(rows, row)
    PROVE  LoadIndex' = [LoadIndex EXCEPT ![id][k2] = Len(rows')]
<1> DEFINE n == Len(rows')
           Keys == Key2s \cup {Empty}
           same(a, b) == {r \in DOMAIN rows : rows[r].id = a /\ rows[r].k2 = b}
           same2(a, b) == {r \in DOMAIN rows' : rows'[r].id = a /\ rows'[r].k2 = b}
           value(s, b) == IF s = {} \/ b = Empty THEN 0 ELSE CHOOSE r \in s : \A q \in s : q <= r
<1>1. /\ n = Len(rows) + 1 /\ Len(rows) \in Nat /\ DOMAIN rows = 1 .. Len(rows)
      /\ DOMAIN rows' = 1 .. n /\ rows'[n] = row
      /\ \A r \in DOMAIN rows : r \in DOMAIN rows' /\ rows'[r] = rows[r] /\ r < n
      /\ \A r \in DOMAIN rows' : r \in DOMAIN rows \/ r = n
      /\ n \in DOMAIN rows'
  BY DEF TypeOK
<1>2. LoadIndex = [a \in Ids |-> [b \in Keys |-> value(same(a, b), b)]]
  BY DEF LoadIndex
<1>3. LoadIndex' = [a \in Ids |-> [b \in Keys |-> value(same2(a, b), b)]]
  BY DEF LoadIndex
<1> HIDE DEF n
<1>4. ASSUME NEW a \in Ids, NEW b \in Keys, ~(a = id /\ b = k2)
      PROVE  same2(a, b) = same(a, b)
  BY <1>1, <1>4
<1>5. value(same2(id, k2), k2) = n
  <2> DEFINE s == same2(id, k2)
  <2>1. n \in s /\ \A q \in s : q \in Nat /\ q <= n /\ n \in Nat
    BY <1>1
  <2>2. k2 # Empty
    BY TrMsgAssumption
  <2> HIDE DEF s
  <2>3. \A r \in s : (\A q \in s : q <= r) => r = n
    BY <2>1
  <2>4. (CHOOSE r \in s : \A q \in s : q <= r) = n
    BY <2>1, <2>3
  <2> QED
    BY <2>1, <2>2, <2>4 DEF s
<1> HIDE DEF value, same, same2
<1>6. k2 \in Keys
  OBVIOUS
<1>7. LoadIndex' = [a \in Ids |-> [b \in Keys |-> IF a = id /\ b = k2 THEN n ELSE value(same(a, b), b)]]
  BY <1>3, <1>4, <1>5
<1> QED
  BY <1>2, <1>6, <1>7 DEF n

-----------------------------------------------------------------------------
(* Steps *)

\* What IInv says of a list.
ListInv == LoadInv /\ ActiveIsLast /\ KeepsNewest /\ TreeShowsEachOnce

\* Nothing that the list or the topic has changes but the trees.
LEMMA SameList ==
    ASSUME ActiveIsLast, KeepsNewest, UNCHANGED <<rows, list>>
    PROVE  ActiveIsLast' /\ KeepsNewest'
<1>1. ActiveIsLast'
  BY DEF ActiveIsLast, Given, Turn
<1>2. KeepsNewest'
  BY DEF KeepsNewest, Given, Turn, Before, MessageOf, NoMessage
<1> QED
  BY <1>1, <1>2

\* The index that a load makes of the messages rs.
IndexOf(rs) ==
    [id \in Ids |-> [k2 \in Key2s \cup {Empty} |->
        LET same == {r \in DOMAIN rs : rs[r].id = id /\ rs[r].k2 = k2}
        IN  IF same = {} \/ k2 = Empty THEN 0
            ELSE CHOOSE r \in same : \A q \in same : q <= r]]

\* Nothing that the index has changes.
LEMMA SameIndex ==
    ASSUME IndexIsLoad, rows' = rows, index' \in {index, LoadIndex, Nil}
    PROVE  IndexIsLoad'
<1>1. LoadIndex = IndexOf(rows) /\ LoadIndex' = IndexOf(rows')
  BY DEF LoadIndex, IndexOf
<1> QED
  BY <1>1 DEF IndexIsLoad

\* The active message of a key is one of the topic, of that key.
LEMMA ActiveRow ==
    ASSUME list # Nil, ActiveIsLast, NEW id \in DOMAIN list.messages
    PROVE  /\ list.messages[id].active \in DOMAIN rows
           /\ rows[list.messages[id].active].id = id
           /\ list.messages[id].active \in ToSet(list.messages[id].instances)
BY DEF ActiveIsLast, Given

\* What TreeShowsEachOnce says of the tree d of an active message.
Shown(d, m) ==
    \/ d = <<>>
    \/ /\ m.active \notin ToSet(d)
       /\ \A r \in ToSet(m.instances) \ {m.active} :
             Cardinality({i \in DOMAIN d : d[i] = r}) = 1

LEMMA ShownEach ==
    /\ TreeShowsEachOnce <=>
          (list # Nil => \A id \in DOMAIN list.messages :
              list.messages[id].active # 0 =>
                 Shown(data[list.messages[id].active], list.messages[id]))
    /\ TreeShowsEachOnce' <=>
          (list' # Nil => \A id \in DOMAIN list'.messages :
              list'.messages[id].active # 0 =>
                 Shown(data'[list'.messages[id].active], list'.messages[id]))
BY DEF TreeShowsEachOnce, Shown

\* Nothing that the trees have changes.
LEMMA SameTrees ==
    ASSUME TreeShowsEachOnce, UNCHANGED <<list, data>>
    PROVE  TreeShowsEachOnce'
BY ShownEach

\* A message that the list is given next has no tree, and the trees of others stay.
LEMMA TreesStay ==
    ASSUME TypeOK, ActiveIsLast, TreeShowsEachOnce, NEW r, NextGiven(r),
           data'[r] = <<>>, \A q \in DOMAIN rows : data'[q] = data[q]
    PROVE  TreeShowsEachOnce'
<1>0. PICK id, u : /\ id = rows'[r].id
                   /\ u = Insert(list.cond,
                                 MakeRoom(list.cond, MessageOf(list.messages, id).instances), r)
  OBVIOUS
<1>1. /\ list'.messages = [k \in DOMAIN list.messages \union {id} |->
                             IF k # id THEN list.messages[k]
                             ELSE [instances |-> u, active |-> r]]
  BY <1>0 DEF NextGiven, Receive
<1> SUFFICES ASSUME NEW k \in DOMAIN list'.messages, NEW m, m = list'.messages[k],
                    m.active # 0
             PROVE  Shown(data'[m.active], m)
  BY ShownEach
<1>2. CASE k = id
  BY <1>1, <1>2 DEF Shown
<1>3. CASE k # id
  <2>1. k \in DOMAIN list.messages /\ m = list.messages[k]
    BY <1>1, <1>3
  <2>2. list # Nil
    BY DEF NextGiven
  <2>3. data'[m.active] = data[m.active]
    BY <2>1, <2>2, ActiveRow
  <2> QED
    BY <2>1, <2>2, <2>3, ShownEach
<1> QED
  BY <1>2, <1>3

\* An append takes the message to the list.
LEMMA StoredStep ==
    ASSUME Discipline, IInv, NEW id \in Ids, NEW k2 \in Key2s \cup {Empty}, NEW tm \in Tms,
           NEW fits \in BOOLEAN, Stored(id, k2, tm, fits), Delivered(Len(rows'))
    PROVE  /\ rows' \in Seq(Row) /\ Len(rows') <= MaxRows
           /\ data' \in Seq(Seq(Nat)) /\ Len(data') = Len(rows')
           /\ list' # Nil =>
                 /\ list' = [cond |-> list'.cond, at |-> list'.at, read |-> list'.read,
                             messages |-> list'.messages]
                 /\ list'.cond \in Conds /\ {list'.at, list'.read} \subseteq 0 .. Len(rows')
                 /\ DOMAIN list'.messages \subseteq Ids
                 /\ list'.messages \in [DOMAIN list'.messages -> Message]
           /\ AllFit' /\ ListInv'
           /\ LoadIndex' = [LoadIndex EXCEPT ![id][k2] = Len(rows')]
<1> DEFINE row == [id |-> id, k2 |-> k2, tm |-> tm, fits |-> fits]
<1>1. /\ TypeOK /\ AllFit /\ LoadInv /\ ActiveIsLast /\ KeepsNewest /\ TreeShowsEachOnce
      /\ ~Loading /\ Len(rows) < MaxRows /\ k2 # Empty /\ fits = TRUE
      /\ rows' = Append(rows, row) /\ data' = Append(data, <<>>)
      /\ list' = IF list = Nil THEN Nil
                 ELSE [list EXCEPT !.read = Len(rows'),
                                   !.messages = Receive(@, list.cond, Len(rows'))]
  BY DEF IInv, Stored, Delivered, May, Discipline
<1>2. PICK r : r = Len(rows')
  OBVIOUS
<1>3. row \in Row /\ row.fits = TRUE /\ row.k2 = k2 /\ row.id = id
  BY <1>1 DEF Row
<1> HIDE DEF row
<1>4. /\ rows \in Seq(Row) /\ Len(rows) \in Nat /\ DOMAIN rows = 1 .. Len(rows)
      /\ data \in Seq(Seq(Nat)) /\ Len(data) = Len(rows) /\ DOMAIN data = DOMAIN rows
  BY <1>1 DEF TypeOK
<1>5. /\ rows' \in Seq(Row) /\ r = Len(rows) + 1 /\ rows'[r] = row
      /\ DOMAIN rows' = 1 .. r /\ r \in DOMAIN rows'
      /\ \A q \in DOMAIN rows : q \in DOMAIN rows' /\ rows'[q] = rows[q]
      /\ \A q \in DOMAIN rows' : q \in DOMAIN rows \/ q = r
  BY <1>1, <1>2, <1>3, <1>4
<1>6. /\ data' \in Seq(Seq(Nat)) /\ Len(data') = r /\ data'[r] = <<>>
      /\ \A q \in DOMAIN rows : data'[q] = data[q]
  <2>1. <<>> \in Seq(Nat)
    OBVIOUS
  <2> QED
    BY <1>1, <1>4, <1>5, <2>1
<1>7. r <= MaxRows
  BY <1>1, <1>4, <1>5, TrMsgAssumption
<1>8. AllFit'
  BY <1>1, <1>3, <1>5 DEF AllFit
<1>9. LoadIndex' = [LoadIndex EXCEPT ![id][k2] = Len(rows')]
  <2>1. k2 \in Key2s
    BY <1>1
  <2> QED
    BY <1>1, <1>3, <2>1, IndexMore
<1>10. CASE list = Nil
  <2>1. list' = Nil
    BY <1>1, <1>10
  <2>2. ListInv'
    BY <2>1 DEF ListInv, LoadInv, Loading, ActiveIsLast, KeepsNewest, TreeShowsEachOnce
  <2> QED
    BY <1>2, <1>5, <1>6, <1>7, <1>8, <1>9, <2>1, <2>2
<1>11. CASE list # Nil
  <2>1. /\ list.cond \in Conds /\ list.cond.backward \in BOOLEAN
        /\ list.at \in Nat /\ list.read \in Nat /\ list.at <= Len(rows) /\ list.read = Len(rows)
    <3>1. {list.at, list.read} \subseteq 0 .. Len(rows) /\ ~(list.read < Len(rows))
      BY <1>1, <1>11 DEF TypeOK, Loading
    <3> QED
      BY <1>1, <1>4, <1>11, <3>1, ListTypes
  <2>2. /\ list' = [cond |-> list.cond, at |-> list.at, read |-> r,
                    messages |-> Receive(list.messages, list.cond, r)]
    <3>1. list = [cond |-> list.cond, at |-> list.at, read |-> list.read,
                  messages |-> list.messages]
      BY <1>1, <1>11 DEF TypeOK
    <3>2. list' = [list EXCEPT !.read = r, !.messages = Receive(list.messages, list.cond, r)]
      BY <1>1, <1>2, <1>11
    <3> QED
      BY <3>1, <3>2
  <2>3. /\ list'.cond = list.cond /\ list'.at = list.at /\ list'.read = r
        /\ list'.messages = Receive(list.messages, list.cond, r)
        /\ list' = [cond |-> list'.cond, at |-> list'.at, read |-> list'.read,
                    messages |-> list'.messages]
    BY <2>2
  <2>4. NextGiven(r)
    <3>1. ~(r <= list.at) /\ r = list.read + 1
      BY <1>4, <1>5, <2>1
    <3>2. Turn(r) = list.read + 1
      BY <3>1 DEF Turn
    <3> QED
      BY <1>3, <1>5, <1>11, <2>3, <3>1, <3>2 DEF NextGiven, Grown, SameWay
  <2>5. /\ DOMAIN list'.messages \subseteq Ids
        /\ list'.messages \in [DOMAIN list'.messages -> Message]
        /\ KeepsNewest' /\ ActiveIsLast'
    BY <1>1, <2>4, ReceiveStep
  <2>6. TreeShowsEachOnce'
    BY <1>1, <1>6, <2>4, TreesStay
  <2>7. LoadInv'
    BY <1>2, <1>4, <1>5, <2>3 DEF LoadInv, Loading
  <2>8. list'.cond \in Conds /\ {list'.at, list'.read} \subseteq 0 .. Len(rows')
    BY <1>2, <1>4, <1>5, <2>1, <2>3
  <2> QED
    BY <1>2, <1>5, <1>6, <1>7, <1>8, <1>9, <2>3, <2>5, <2>6, <2>7, <2>8 DEF ListInv
<1> QED
  BY <1>10, <1>11

LEMMA AppendStep ==
    ASSUME Discipline, IInv, NEW id \in Ids, NEW k2 \in Key2s \cup {Empty}, NEW tm \in Tms,
           NEW fits \in BOOLEAN,
           AddInstance(id, k2, tm, fits) \/ AppendMessage(id, k2, tm, fits)
    PROVE  IInv'
<1>1. /\ rows' \in Seq(Row) /\ Len(rows') <= MaxRows
      /\ data' \in Seq(Seq(Nat)) /\ Len(data') = Len(rows')
      /\ list' # Nil =>
            /\ list' = [cond |-> list'.cond, at |-> list'.at, read |-> list'.read,
                        messages |-> list'.messages]
            /\ list'.cond \in Conds /\ {list'.at, list'.read} \subseteq 0 .. Len(rows')
            /\ DOMAIN list'.messages \subseteq Ids
            /\ list'.messages \in [DOMAIN list'.messages -> Message]
      /\ AllFit' /\ ListInv'
      /\ LoadIndex' = [LoadIndex EXCEPT ![id][k2] = Len(rows')]
  <2>1. Stored(id, k2, tm, fits) /\ Delivered(Len(rows'))
    BY DEF AddInstance, AppendMessage
  <2> QED
    BY <2>1, StoredStep
<1>2. IndexIsLoad' /\ (index' # Nil => index' \in [Ids -> [Key2s \cup {Empty} -> Nat]])
  <2>1. CASE index = Nil
    BY <2>1 DEF AddInstance, AppendMessage, IndexIsLoad
  <2>2. CASE index # Nil
    <3>1. index' = [index EXCEPT ![id][k2] = Len(rows')] /\ index = LoadIndex
      BY <2>2 DEF AddInstance, AppendMessage, IInv, IndexIsLoad
    <3>2. index \in [Ids -> [Key2s \cup {Empty} -> Nat]] /\ Len(rows') \in Nat
      <4>1. index \in [Ids -> [Key2s \cup {Empty} -> Nat]]
        BY <2>2 DEF IInv, TypeOK
      <4>2. Len(rows') \in Nat
        BY <1>1
      <4> QED
        BY <4>1, <4>2
    <3>3. index' \in [Ids -> [Key2s \cup {Empty} -> Nat]]
      BY <3>1, <3>2
    <3>4. index' = LoadIndex'
      BY <1>1, <3>1
    <3> QED
      BY <3>3, <3>4 DEF IndexIsLoad
  <2> QED
    BY <2>1, <2>2
<1> QED
  BY <1>1, <1>2 DEF IInv, TypeOK, ListInv

LEMMA OpenListStep ==
    ASSUME IInv, NEW cond \in Conds, OpenList(cond)
    PROVE  IInv'
<1>1. /\ TypeOK /\ AllFit /\ IndexIsLoad /\ rows' = rows /\ index' = index
      /\ data' = [r \in DOMAIN rows |-> <<>>]
      /\ list' = [cond |-> cond, at |-> Len(rows), read |-> 0, messages |-> <<>>]
  BY DEF IInv, OpenList
<1>2. rows \in Seq(Row) /\ Len(rows) \in Nat /\ DOMAIN rows = 1 .. Len(rows)
  BY <1>1 DEF TypeOK
<1>3. /\ data' \in Seq(Seq(Nat)) /\ Len(data') = Len(rows) /\ DOMAIN data' = DOMAIN rows
      /\ \A r \in DOMAIN data' : data'[r] = <<>>
  <2>1. <<>> \in Seq(Nat)
    OBVIOUS
  <2> QED
    BY <1>1, <1>2, <2>1
<1>4. /\ list'.cond = cond /\ list'.at = Len(rows) /\ list'.read = 0 /\ list'.messages = <<>>
      /\ DOMAIN list'.messages = {}
      /\ list' = [cond |-> list'.cond, at |-> list'.at, read |-> list'.read,
                  messages |-> list'.messages]
  BY <1>1
<1>5. TypeOK'
  <2>1. list'.messages \in [DOMAIN list'.messages -> Message]
    BY <1>4
  <2>2. rows' \in Seq(Row) /\ Len(rows') <= MaxRows /\ data' \in Seq(Seq(Nat)) /\ Len(data') = Len(rows')
    BY <1>1, <1>3 DEF TypeOK
  <2>3. {list'.at, list'.read} \subseteq 0 .. Len(rows') /\ list'.cond \in Conds
    BY <1>1, <1>2, <1>4
  <2>4. DOMAIN list'.messages \subseteq Ids
    BY <1>4
  <2>5. index' # Nil => index' \in [Ids -> [Key2s \cup {Empty} -> Nat]]
    BY <1>1 DEF TypeOK
  <2> QED
    BY <1>4, <2>1, <2>2, <2>3, <2>4, <2>5 DEF TypeOK
<1>6. AllFit' /\ LoadInv'
  BY <1>1, <1>3, <1>4 DEF AllFit, LoadInv
<1>7. ActiveIsLast' /\ TreeShowsEachOnce'
  BY <1>4 DEF ActiveIsLast, TreeShowsEachOnce
<1>8. KeepsNewest'
  <2>1. \A id \in Ids : Given(id)' = {}
    <3>1. \A r \in DOMAIN rows : ~(Turn(r)' <= 0)
      BY <1>2, <1>4 DEF Turn
    <3> QED
      BY <1>1, <1>4, <3>1 DEF Given
  <2>2. \A id \in Ids : Instances(id)' = <<>>
    BY <1>4 DEF Instances, MessageOf, NoMessage
  <2>3. cond.max \in Nat
    BY TrMsgAssumption
  <2>4. ToSet(<<>>) = {} /\ Len(<<>>) = 0
    BY DEF ToSet
  <2>5. \A id \in Ids : Kept(Order', list'.cond, Given(id)', Instances(id)')
    BY <1>4, <2>1, <2>2, <2>3, <2>4 DEF Kept
  <2> QED
    BY <2>5, KeptThen
<1>9. IndexIsLoad'
  BY <1>1, SameIndex
<1> QED
  BY <1>5, <1>6, <1>7, <1>8, <1>9 DEF IInv

LEMMA LoadRecordStep ==
    ASSUME IInv, LoadRecord
    PROVE  IInv'
<1>1. PICK r : r = IF list.cond.backward THEN list.at - list.read ELSE list.read + 1
  OBVIOUS
<1>2. /\ TypeOK /\ AllFit /\ LoadInv /\ ActiveIsLast /\ KeepsNewest /\ TreeShowsEachOnce
      /\ IndexIsLoad /\ UNCHANGED <<rows, data, index>>
      /\ list # Nil /\ list.read < Len(rows) /\ list.at = Len(rows)
      /\ \A q \in DOMAIN data : data[q] = <<>>
      /\ list' = [list EXCEPT !.read = @ + 1, !.messages = Receive(@, list.cond, r)]
  BY <1>1 DEF IInv, LoadRecord, LoadInv, Loading
<1>3. /\ rows \in Seq(Row) /\ Len(rows) \in Nat /\ DOMAIN rows = 1 .. Len(rows)
      /\ DOMAIN data = DOMAIN rows
  BY <1>2 DEF TypeOK
<1>4. list.read \in Nat /\ list.cond \in Conds /\ list.cond.backward \in BOOLEAN
  BY <1>2, ListTypes
<1>5. /\ list'.cond = list.cond /\ list'.at = list.at /\ list'.read = list.read + 1
      /\ list'.messages = Receive(list.messages, list.cond, r)
      /\ list' = [cond |-> list'.cond, at |-> list'.at, read |-> list'.read,
                  messages |-> list'.messages]
  <2>1. list = [cond |-> list.cond, at |-> list.at, read |-> list.read,
                messages |-> list.messages]
    BY <1>2 DEF TypeOK
  <2>2. list' = [cond |-> list.cond, at |-> list.at, read |-> list.read + 1,
                 messages |-> Receive(list.messages, list.cond, r)]
    BY <1>2, <2>1
  <2> QED
    BY <2>2
<1>6. r \in DOMAIN rows /\ Turn(r) = list.read + 1
  BY <1>1, <1>2, <1>3, <1>4 DEF Turn
<1>7. NextGiven(r)
  BY <1>2, <1>3, <1>5, <1>6 DEF NextGiven, Grown, SameWay, AllFit
<1>8. /\ DOMAIN list'.messages \subseteq Ids
      /\ list'.messages \in [DOMAIN list'.messages -> Message]
      /\ KeepsNewest' /\ ActiveIsLast'
  BY <1>2, <1>7, ReceiveStep
<1>9. TreeShowsEachOnce'
  BY <1>2, <1>3, <1>6, <1>7, TreesStay
<1>10. {list'.at, list'.read} \subseteq 0 .. Len(rows)
  BY <1>2, <1>3, <1>4, <1>5
<1>11. TypeOK'
  BY <1>2, <1>4, <1>5, <1>8, <1>10 DEF TypeOK
<1>12. AllFit' /\ LoadInv' /\ IndexIsLoad'
  BY <1>2, <1>5, SameIndex DEF AllFit, LoadInv
<1> QED
  BY <1>8, <1>9, <1>11, <1>12 DEF IInv

LEMMA CloseListStep ==
    ASSUME IInv, CloseList
    PROVE  IInv'
<1>1. /\ TypeOK /\ AllFit /\ IndexIsLoad /\ rows' = rows /\ index' = index
      /\ data' = [r \in DOMAIN rows |-> <<>>] /\ list' = Nil
  BY DEF IInv, CloseList
<1>2. data' \in Seq(Seq(Nat)) /\ Len(data') = Len(rows)
  <2>1. Len(rows) \in Nat /\ DOMAIN rows = 1 .. Len(rows) /\ <<>> \in Seq(Nat)
    BY <1>1 DEF TypeOK
  <2> QED
    BY <1>1, <2>1
<1>3. TypeOK'
  BY <1>1, <1>2 DEF TypeOK
<1>4. AllFit' /\ IndexIsLoad'
  BY <1>1, SameIndex DEF AllFit
<1>5. LoadInv' /\ ActiveIsLast' /\ KeepsNewest' /\ TreeShowsEachOnce'
  BY <1>1 DEF LoadInv, Loading, ActiveIsLast, KeepsNewest, TreeShowsEachOnce
<1> QED
  BY <1>3, <1>4, <1>5 DEF IInv

LEMMA DataTreeStep ==
    ASSUME Discipline, IInv, DataTree
    PROVE  IInv'
<1> DEFINE messages == list.messages
           actives == {id \in DOMAIN list.messages : list.messages[id].active # 0}
<1>1. /\ TypeOK /\ AllFit /\ LoadInv /\ ActiveIsLast /\ KeepsNewest /\ IndexIsLoad
      /\ ~Loading /\ list # Nil /\ UNCHANGED <<rows, list, index>>
      /\ \A id \in actives : data[list.messages[id].active] = <<>>
      /\ data' = [r \in DOMAIN data |->
             IF \E id \in actives : list.messages[id].active = r
             THEN data[r] \o Others(list.messages[rows[r].id]) ELSE data[r]]
  BY DEF IInv, DataTree, May, Discipline
<1>2. /\ data \in Seq(Seq(Nat)) /\ Len(data) \in Nat /\ DOMAIN data = 1 .. Len(data)
      /\ Len(data) = Len(rows) /\ DOMAIN data = DOMAIN rows /\ rows \in Seq(Row)
  BY <1>1 DEF TypeOK
<1>3. ASSUME NEW id \in DOMAIN list.messages
      PROVE  /\ Others(list.messages[id]) \in Seq(Nat)
             /\ Shown(Others(list.messages[id]), list.messages[id])
  <2>1. list.messages[id] \in Message /\ id \in Ids
    BY <1>1, ListTypes
  <2>2. PICK m : m = list.messages[id]
    OBVIOUS
  <2>3. /\ m.instances \in Seq(Nat) /\ m.active \in ToSet(m.instances) /\ Instances(id) = m.instances
    BY <1>1, <2>1, <2>2, ActiveRow DEF Message, Instances, MessageOf
  <2>4. Kept(Order, list.cond, Given(id), m.instances)
    BY <1>1, <2>1, <2>3, KeptNow
  <2>5. \A i, j \in DOMAIN m.instances : m.instances[i] = m.instances[j] => i = j
    <3>1. \A i, j \in DOMAIN m.instances :
            i < j => Before(m.instances[i], m.instances[j]) /\ m.instances[i] \in DOMAIN rows
      BY <2>4, OrderIs DEF Kept
    <3>2. \A x \in DOMAIN rows : ~Before(x, x)
      <4>1. \A x \in DOMAIN rows : x \in Nat
        BY <1>2
      <4>2. \A x \in DOMAIN rows : Turn(x) \in Int
        BY <1>1, <4>1, ListTypes, Turns
      <4> QED
        BY <4>2 DEF Before
    <3>3. \A i, j \in DOMAIN m.instances : i = j \/ i < j \/ j < i
      BY <2>3
    <3> QED
      BY <3>1, <3>2, <3>3
  <2>6. Others(m) \in Seq(Nat) /\ Shown(Others(m), m)
    BY <2>3, <2>5, OthersOnce DEF Shown
  <2> QED
    BY <2>2, <2>6
<1>4. ASSUME NEW id \in DOMAIN list.messages, NEW r, r = list.messages[id].active
      PROVE  /\ r \in DOMAIN data /\ data'[r] = Others(list.messages[id]) 
  <2>1. r \in DOMAIN rows /\ rows[r].id = id
    BY <1>1, <1>4, ActiveRow
  <2>2. id \in actives /\ data[r] = <<>>
    <3>1. r # 0
      BY <1>2, <2>1
    <3> QED
      BY <1>1, <1>4, <3>1
  <2>3. data'[r] = <<>> \o Others(list.messages[id])
    BY <1>1, <1>2, <1>4, <2>1, <2>2
  <2>4. \A s \in Seq(Nat) : <<>> \o s = s
    OBVIOUS
  <2> QED
    BY <1>2, <1>3, <2>1, <2>3, <2>4
<1>5. ASSUME NEW r \in DOMAIN data
      PROVE  data'[r] \in Seq(Nat)
  <2>1. CASE \E id \in actives : list.messages[id].active = r
    <3>1. PICK id \in DOMAIN list.messages : r = list.messages[id].active
      BY <2>1
    <3> QED
      BY <1>3, <1>4, <3>1
  <2>2. CASE ~\E id \in actives : list.messages[id].active = r
    BY <1>1, <1>2, <2>2
  <2> QED
    BY <2>1, <2>2
<1>6. data' \in Seq(Seq(Nat)) /\ Len(data') = Len(data)
  <2>1. data' = [r \in 1 .. Len(data) |-> data'[r]]
    <3>1. DOMAIN data' = 1 .. Len(data) /\ data' = [r \in DOMAIN data' |-> data'[r]]
      BY <1>1, <1>2
    <3> QED
      BY <3>1
  <2>2. \A r \in 1 .. Len(data) : data'[r] \in Seq(Nat)
    BY <1>2, <1>5
  <2> QED
    BY <1>2, <2>1, <2>2, SeqOfEach
<1>7. TypeOK'
  BY <1>1, <1>2, <1>6 DEF TypeOK
<1>8. AllFit' /\ LoadInv' /\ IndexIsLoad'
  BY <1>1, SameIndex DEF AllFit, LoadInv, Loading
<1>9. ActiveIsLast' /\ KeepsNewest'
  BY <1>1, SameList
<1>10. TreeShowsEachOnce'
  <2>1. ASSUME NEW id \in DOMAIN list.messages
        PROVE  Shown(data'[list.messages[id].active], list.messages[id])
    BY <1>3, <1>4
  <2> QED
    BY <1>1, <2>1, ShownEach
<1> QED
  BY <1>7, <1>8, <1>9, <1>10 DEF IInv

LEMMA DbStep ==
    ASSUME IInv, OpenDb \/ CloseDb
    PROVE  IInv'
<1>1. /\ TypeOK /\ AllFit /\ LoadInv /\ ActiveIsLast /\ KeepsNewest /\ TreeShowsEachOnce
      /\ UNCHANGED <<rows, list, data>> /\ index' \in {index, LoadIndex, Nil}
      /\ (index' = LoadIndex \/ index' = Nil)
  BY DEF IInv, OpenDb, CloseDb
<1>2. IndexIsLoad'
  BY <1>1, SameIndex DEF IInv
<1>3. TypeOK'
  BY <1>1, IndexTypes DEF TypeOK
<1>4. AllFit' /\ LoadInv' /\ TreeShowsEachOnce'
  BY <1>1, SameTrees DEF AllFit, LoadInv, Loading
<1> QED
  BY <1>1, <1>2, <1>3, <1>4, SameList DEF IInv

-----------------------------------------------------------------------------
(* The specification *)

LEMMA InitIInv == Init => IInv
<1> SUFFICES ASSUME Init
             PROVE  IInv
  OBVIOUS
<1>1. rows = <<>> /\ list = Nil /\ data = <<>> /\ index = Nil
  BY DEF Init
<1>2. TypeOK
  <2>1. rows \in Seq(Row) /\ data \in Seq(Seq(Nat)) /\ Len(rows) = 0 /\ Len(data) = 0
    BY <1>1
  <2> QED
    BY <1>1, <2>1, TrMsgAssumption DEF TypeOK
<1> QED
  BY <1>1, <1>2 DEF IInv, AllFit, LoadInv, Loading, ActiveIsLast, KeepsNewest, TreeShowsEachOnce,
                    IndexIsLoad

LEMMA StepIInv ==
    ASSUME Discipline, IInv, [Next]_vars
    PROVE  IInv'
<1>1. ASSUME NEW id \in Ids, NEW k2 \in Key2s \cup {Empty}, NEW tm \in Tms, NEW fits \in BOOLEAN,
             AddInstance(id, k2, tm, fits) \/ AppendMessage(id, k2, tm, fits)
      PROVE  IInv'
  BY <1>1, AppendStep
<1>2. ASSUME NEW cond \in Conds, OpenList(cond)
      PROVE  IInv'
  BY <1>2, OpenListStep
<1>3. CASE LoadRecord
  BY <1>3, LoadRecordStep
<1>4. CASE CloseList
  BY <1>4, CloseListStep
<1>5. CASE DataTree
  BY <1>5, DataTreeStep
<1>6. CASE OpenDb \/ CloseDb
  BY <1>6, DbStep
<1>7. CASE UNCHANGED vars
  <2>1. UNCHANGED <<rows, list, data, index>>
    BY <1>7 DEF vars
  <2>2. ActiveIsLast' /\ KeepsNewest'
    BY <2>1, SameList DEF IInv
  <2>3. TypeOK' /\ AllFit' /\ LoadInv'
    BY <2>1 DEF IInv, TypeOK, AllFit, LoadInv, Loading
  <2>4. TreeShowsEachOnce' /\ IndexIsLoad'
    BY <2>1, SameTrees, SameIndex DEF IInv
  <2> QED
    BY <2>2, <2>3, <2>4 DEF IInv
<1> QED
  BY <1>1, <1>2, <1>3, <1>4, <1>5, <1>6, <1>7 DEF Next

-----------------------------------------------------------------------------
(* Theorems *)

\* Loads, appends, trees and the index of msg2db keep, together, what each of them
\* promises, in the middle of a load too.
THEOREM Invariance ==
    ASSUME Discipline
    PROVE  Spec => []IInv
<1>1. Init => IInv
  BY InitIInv
<1>2. IInv /\ [Next]_vars => IInv'
  BY StepIInv
<1> QED
  BY <1>1, <1>2, PTL DEF Spec

\* The topic, the list, the trees and the index stay what they are.
THEOREM TypeCorrect ==
    ASSUME Discipline
    PROVE  Spec => []TypeOK
<1>1. IInv => TypeOK
  BY DEF IInv
<1> QED
  BY <1>1, Invariance, PTL

\* load_record_callback: with any limit, order and direction of a list, and any
\* number of messages loaded or appended, what a key has is the last messages given
\* (with order_by_tm the latest ones but one), in the order asked for, and the
\* active one is the last given.
THEOREM LastGivenKept ==
    ASSUME Discipline
    PROVE  Spec => []KeepsLastGiven
<1>1. IInv => KeepsLastGiven
  BY DEF IInv, KeepsLastGiven
<1> QED
  BY <1>1, Invariance, PTL

\* trmsg_data_tree: the tree of an active message has each other instance once.
THEOREM TreeSound ==
    ASSUME Discipline
    PROVE  Spec => []TreeShowsEachOnce
<1>1. IInv => TreeShowsEachOnce
  BY DEF IInv
<1> QED
  BY <1>1, Invariance, PTL

\* msg2db: the index that appends have written is the one that a restart loads.
THEOREM IndexSound ==
    ASSUME Discipline
    PROVE  Spec => []IndexIsLoad
<1>1. IInv => IndexIsLoad
  BY DEF IInv
<1> QED
  BY <1>1, Invariance, PTL

=============================================================================
