--------------------------- MODULE TreeDb_proofs ---------------------------
(***************************************************************************)
(* What TreeDb does is right for any topics, nodes, hooks and snaps, under *)
(* the discipline of its callers (Liberties = {}): the memory is what a    *)
(* load of the disk would give, a finished snap keeps its nodes, both      *)
(* sides of a link agree, and the whole is a LinkedTree.                   *)
(*                                                                         *)
(* The argument is about Rows(k, s), the rows that a load with the tag s   *)
(* meets of a node.  The log changes in three ways: a row more (a create   *)
(* or a save), a mark on the last row (a delete), and a tag on the last    *)
(* row (a shoot).  The lemmas RowsMore, RowsMarked and RowsTagged say what *)
(* each does to every Rows(k, s), and each operation is one of the three.  *)
(*                                                                         *)
(* Links are the second part: what a load makes of the fkeys it reads,     *)
(* and, of each operation, what it does to the hooks and fkeys of a heap   *)
(* (Linkage).  The tree is the third: both parts, seen from LinkedTree.    *)
(***************************************************************************)
EXTENDS TreeDb, TLAPS, SequenceTheorems, FiniteSetTheorems, WellFoundedInduction, NaturalsInduction

Disciplined == Liberties = {}

---------------------------------------------------------------------------
(* The inductive invariant.                                                *)

Key2Set == Key2s \union {Nil}
Ups(t)  == [UpHooks(t) -> Seq(Ids)]

RowSet(t) == [id : Ids, val : Vals, k2 : Key2Set, up : Ups(t), tag : Nat, mark : BOOLEAN]

\* A node, whatever its hooks hold.
IsNode(t, n) ==
    /\ n = [val |-> n.val, k2 |-> n.k2, up |-> n.up, down |-> n.down,
            row |-> n.row, tag |-> n.tag]
    /\ n.val \in Vals /\ n.k2 \in Key2Set /\ n.up \in Ups(t)
    /\ n.row \in Nat /\ n.tag \in Nat

ObjectSet == [key : Keys, row : Nat, second : BOOLEAN]
KeyedKeys == {k \in Keys : TopicOf(k) \in Keyed}
SnapSet   == [tag : Nat, active : BOOLEAN]

LogType == /\ log = [t \in Topics |-> log[t]]
           /\ \A t \in Topics : log[t] \in Seq(RowSet(t))

SnapsType == snaps \in [Names -> {Nil} \union SnapSet]

MemoryType ==
    /\ open \in BOOLEAN /\ tag \in Nat
    /\ prim \in [Keys -> {Nil} \union ObjectSet]
    /\ \A k \in Keys : prim[k] # Nil => prim[k].key = k
    /\ sec \in [KeyedKeys -> [Key2s -> {Nil} \union ObjectSet]]

ShotType == /\ shot = [s \in DOMAIN shot |-> shot[s]]
            /\ DOMAIN shot \subseteq Nat \ {0}

IsLast(r, rows) == r \in rows /\ \A q \in rows : q <= r

\* What a load with the tag s finds of a node: its last row, and in the tree
\* what that row says.
Loaded(k, s) ==
    LET n == heap[prim[k]]
    IN  IF prim[k] = Nil THEN Rows(k, s) = {}
        ELSE /\ prim[k] \in DOMAIN heap
             /\ IsNode(TopicOf(k), n)
             /\ IsLast(n.row, Rows(k, s))
             /\ Image(n) = Image(log[TopicOf(k)][n.row])
             /\ \A g \in Nat \ {0} : n.tag = g => Rows(k, g) # {}

MemoryLoaded == open => \A s \in Nat : tag = s => \A k \in Keys : Loaded(k, s)

SecLoaded ==
    open /\ tag = 0 => \A k \in KeyedKeys : \A k2 \in Key2s :
        sec[k][k2] = Nil <=> \A r \in Rows(k, 0) : log[TopicOf(k)][r].k2 # k2

SnapCount == Cardinality({n \in Names : snaps[n] # Nil})

\* The next tag is of no row and of no snap.
TagsGiven ==
    /\ \A t \in Topics : \A r \in DOMAIN log[t] : log[t][r].tag <= SnapCount
    /\ \A n \in Names : snaps[n] # Nil => snaps[n].tag \in 1 .. SnapCount
    /\ \A s \in DOMAIN shot : s > SnapCount => shot[s] = Nil

SnapsKept == \A s \in DOMAIN shot :
    shot[s] # Nil => {k \in Keys : Rows(k, s) # {}} = shot[s]

Untagged(k, s) == \A r \in DOMAIN log[TopicOf(k)] :
    log[TopicOf(k)][r].id = IdOf(k) => log[TopicOf(k)][r].tag # s

\* Saved to be tagged: the tag of the node is also on a row before its last.
Saved(k) ==
    LET n == heap[prim[k]]
    IN  /\ log[TopicOf(k)][n.row].tag = n.tag
        /\ \A g \in Nat \ {0} : n.tag = g => \E q \in Rows(k, g) : q # n.row

\* A snap that is being shot, and how far it is with each node.
Shooting(s) ==
    /\ open /\ tag = 0
    /\ s \in DOMAIN shot => shot[s] = Nil
    /\ todo \subseteq {k \in Keys : prim[k] # Nil} \X {"save", "flag"}
    /\ \A k \in Keys :
          /\ prim[k] = Nil \/ <<k, "flag">> \in todo => Untagged(k, s)
          /\ prim[k] # Nil /\ <<k, "flag">> \notin todo =>
                <<k, "save">> \notin todo /\ Rows(k, s) # {}
          /\ <<k, "flag">> \in todo /\ <<k, "save">> \notin todo =>
                Saved(k)

InCall ==
    /\ pc \in {"idle", "shoot", "activate"}
    /\ pc # "idle" => arg \in Names /\ snaps[arg] # Nil
    /\ pc = "shoot" => \A s \in Nat : snaps[arg].tag = s => Shooting(s)

TypeInv == LogType /\ SnapsType /\ MemoryType /\ ShotType

IInv == TypeInv /\ MemoryLoaded /\ SecLoaded /\ TagsGiven /\ SnapsKept /\ InCall

---------------------------------------------------------------------------
(* Sets and sequences.                                                     *)

\* A set of numbers that has one has a least.
LEMMA LeastOf ==
    ASSUME NEW B \in SUBSET Nat, B # {}
    PROVE  \E m \in B : \A b \in B : m <= b
<1> DEFINE R == OpToRel(<, Nat)
<1>1. IsWellFoundedOn(R, Nat)
  BY NatLessThanWellFounded
<1>2. \E x \in B : \A y \in B : ~(<<y, x>> \in R)
  <2> HIDE DEF R
  <2> QED
    BY <1>1, WFMin
<1>3. PICK m \in B : \A y \in B : ~(y < m)
  BY <1>2 DEF OpToRel
<1>4. \A y \in B : y \in Nat /\ m \in Nat
  OBVIOUS
<1>5. \A y \in B : m <= y
  BY <1>3, <1>4
<1> QED
  BY <1>5

\* LastOf is the greatest of the rows, or 0.
LEMMA LastOfOne ==
    ASSUME NEW B \in SUBSET Nat, NEW m, IsLast(m, B)
    PROVE  LastOf(B) = m
<1>1. \A x \in B : (\A y \in B : x >= y) => x = m
  BY DEF IsLast
<1>2. m \in B /\ \A y \in B : m >= y
  BY DEF IsLast
<1>3. B # {} /\ Max(B) = m
  BY <1>1, <1>2 DEF Max
<1> QED
  BY <1>3 DEF LastOf

\* LastOf is 0 when there are no rows, and the greatest of them otherwise.
LEMMA LastOfRows ==
    ASSUME NEW n \in Nat, NEW B \in SUBSET (1 .. n)
    PROVE  /\ B = {} => LastOf(B) = 0
           /\ B # {} => LastOf(B) # 0 /\ IsLast(LastOf(B), B)
           /\ LastOf(B) \in Nat
<1> DEFINE T == {m \in Nat : \A b \in B : b <= m}
<1>1. CASE B = {}
  BY <1>1 DEF LastOf
<1>2. CASE B # {}
  <2>1. n \in T /\ T \in SUBSET Nat
    OBVIOUS
  <2>2. PICK m \in T : \A b \in T : m <= b
    <3> HIDE DEF T
    <3> QED
      BY <2>1, LeastOf
  <2>3. m \in B
    <3> SUFFICES ASSUME m \notin B
                 PROVE  FALSE
      OBVIOUS
    <3>1. m \in Nat /\ (\A b \in B : b <= m) /\ \A b \in B : b \in Nat /\ b # 0 /\ b # m
      OBVIOUS
    <3>2. PICK q \in B : TRUE
      BY <1>2
    <3>3. q \in Nat /\ q # 0 /\ q <= m
      BY <3>1
    <3>4. m # 0
      BY <3>1, <3>3
    <3>5. m - 1 \in Nat /\ m - 1 < m /\ \A b \in B : b <= m - 1
      BY <3>1, <3>4
    <3> QED
      BY <2>2, <3>1, <3>5
  <2>4. IsLast(m, B)
    BY <2>3 DEF IsLast
  <2>5. LastOf(B) = m
    BY <2>4, LastOfOne
  <2> QED
    BY <1>2, <2>3, <2>4, <2>5
<1> QED
  BY <1>1, <1>2

\* u is s with x at r.
Put(u, s, r, x) == u = [s EXCEPT ![r] = x]

\* A sequence with one item replaced.
LEMMA OneChanged ==
    ASSUME NEW S, NEW s \in Seq(S), NEW r \in DOMAIN s, NEW x \in S, NEW u, Put(u, s, r, x)
    PROVE  /\ u \in Seq(S) /\ DOMAIN u = DOMAIN s /\ u[r] = x
           /\ \A q \in DOMAIN s : q # r => u[q] = s[q]
BY DEF Put

\* An object of an index lives, as it was.
LEMMA LivingKeeps ==
    ASSUME NEW hp, NEW p, NEW s, NEW k \in DOMAIN p, p[k] # Nil
    PROVE  p[k] \in DOMAIN Living(hp, p, s) /\ Living(hp, p, s)[p[k]] = hp[p[k]]
<1>1. p[k] \in Objects(p, s) \union Held(hp, Objects(p, s))
  BY DEF Objects
<1> QED
  BY <1>1 DEF Living, Restrict

---------------------------------------------------------------------------
(* How many times an item is in a sequence, when items are added or taken, *)
(* and when the members of a set are put in order.                         *)

\* before is a strict order of S.
Orders(before, S) ==
    /\ \A x \in S : <<x, x>> \notin before
    /\ \A x, y, z \in S : <<x, y>> \in before /\ <<y, z>> \in before => <<x, z>> \in before
    /\ \A x, y \in S : x # y => <<x, y>> \in before \/ <<y, x>> \in before

\* f takes each member of T once.
IsBijection(f, S, T) ==
    /\ f \in [S -> T]
    /\ \A x, y \in S : f[x] = f[y] => x = y
    /\ \A t \in T : \E x \in S : f[x] = t

\* InOrder has every member of the set once.
LEMMA InOrderOnce ==
    ASSUME NEW S, IsFiniteSet(S), NEW before, Orders(before, S)
    PROVE  IsBijection(InOrder(S, before), 1 .. Cardinality(S), S)
<1> DEFINE n == Cardinality(S)
           Below(x) == {y \in S : <<y, x>> \in before}
           f == [x \in S |-> Cardinality(Below(x))]
           T == 0 .. (n - 1)
<1>1. n \in Nat
  BY FS_CardinalityType
<1>2. \A x \in S : IsFiniteSet(Below(x)) /\ Cardinality(Below(x)) \in Nat
  BY FS_Subset, FS_CardinalityType
<1>3. \A x \in S : Cardinality(Below(x)) < n
  <2> TAKE x \in S
  <2>1. Below(x) # S /\ Below(x) \in SUBSET S
    BY DEF Orders
  <2>2. Cardinality(Below(x)) <= n /\ (n = Cardinality(Below(x)) => S = Below(x))
    BY <2>1, FS_Subset
  <2> QED
    BY <1>1, <1>2, <2>1, <2>2
<1>4. f \in [S -> T]
  BY <1>1, <1>2, <1>3
<1>5. \A x, y \in S : <<x, y>> \in before => f[x] < f[y]
  <2> SUFFICES ASSUME NEW x \in S, NEW y \in S, <<x, y>> \in before
               PROVE  f[x] < f[y]
    OBVIOUS
  <2>1. Below(x) \in SUBSET Below(y) /\ x \in Below(y) /\ x \notin Below(x)
    BY DEF Orders
  <2>2. /\ Cardinality(Below(x)) <= Cardinality(Below(y))
        /\ Cardinality(Below(y)) = Cardinality(Below(x)) => Below(y) = Below(x)
    BY <1>2, <2>1, FS_Subset
  <2> QED
    BY <1>2, <2>1, <2>2
<1>6. \A x, y \in S : f[x] = f[y] => x = y
  <2> SUFFICES ASSUME NEW x \in S, NEW y \in S, f[x] = f[y]
               PROVE  x = y
    OBVIOUS
  <2>1. f[x] \in Int /\ f[y] \in Int
    BY <1>4
  <2> HIDE DEF f
  <2>2. ~(f[x] < f[y]) /\ ~(f[y] < f[x])
    BY <2>1
  <2> QED
    BY <1>5, <2>2 DEF Orders
<1>7. \A m \in T : \E x \in S : f[x] = m
  <2>1. f \in Injection(S, T)
    BY <1>4, <1>6 DEF Injection, IsInjective
  <2>2. IsFiniteSet(T) /\ Cardinality(T) = n
    BY <1>1, FS_Interval
  <2>3. f \in Surjection(S, T)
    BY <2>1, <2>2, FS_Injection
  <2> QED
    BY <2>3 DEF Surjection
<1> DEFINE s == InOrder(S, before)
<1>8. \A x \in S : f[x] = Cardinality(Below(x))
  OBVIOUS
<1> HIDE DEF f
<1>9. \A m \in 1 .. n : s[m] \in S /\ f[s[m]] = m - 1
  <2> TAKE m \in 1 .. n
  <2>1. m - 1 \in T
    BY <1>1
  <2>2. \E x \in S : Cardinality(Below(x)) = m - 1
    BY <1>7, <1>8, <2>1
  <2>3. s[m] = CHOOSE x \in S : Cardinality(Below(x)) = m - 1
    BY DEF InOrder
  <2>4. s[m] \in S /\ Cardinality(Below(s[m])) = m - 1
    <3> HIDE DEF s
    <3> QED
      BY <2>2, <2>3
  <2> QED
    BY <1>8, <2>4
<1>10. s \in [1 .. n -> S]
  BY <1>9 DEF InOrder
<1> HIDE DEF s
<1>11. \A i, j \in 1 .. n : s[i] = s[j] => i = j
  BY <1>1, <1>9
<1>12. \A x \in S : \E i \in 1 .. n : s[i] = x
  <2> TAKE x \in S
  <2>1. f[x] \in Nat /\ f[x] + 1 \in 1 .. n
    BY <1>1, <1>4
  <2>2. s[f[x] + 1] \in S /\ f[s[f[x] + 1]] = f[x]
    BY <1>9, <2>1
  <2> QED
    BY <1>6, <2>1, <2>2
<1> QED
  BY <1>10, <1>11, <1>12 DEF IsBijection, s

\* As many positions as members.
LEMMA OnceEach ==
    ASSUME NEW S, NEW T, NEW f, IsBijection(f, S, T), NEW B \in SUBSET T, IsFiniteSet(B)
    PROVE  Cardinality({x \in S : f[x] \in B}) = Cardinality(B)
<1> DEFINE A == {x \in S : f[x] \in B}
           g == [x \in A |-> f[x]]
<1>1. g \in [A -> B] /\ \A x, y \in A : g[x] = g[y] => x = y
  BY DEF IsBijection
<1>2. \A t \in B : \E x \in A : g[x] = t
  BY DEF IsBijection
<1>3. g \in Injection(A, B) /\ g \in Surjection(A, B)
  BY <1>1, <1>2 DEF Injection, Surjection, IsInjective
<1>4. Cardinality(A) = Cardinality(B)
  BY <1>3, FS_Injection
<1> QED
  BY <1>4

\* The places of an item are finite in number.
LEMMA CountIsNat ==
    ASSUME NEW S, NEW s \in Seq(S), NEW B \in SUBSET DOMAIN s
    PROVE  IsFiniteSet(B) /\ Cardinality(B) \in Nat
<1>1. DOMAIN s = 1 .. Len(s) /\ Len(s) \in Nat
  OBVIOUS
<1>2. IsFiniteSet(DOMAIN s)
  BY <1>1, FS_Interval
<1> QED
  BY <1>2, FS_Subset, FS_CardinalityType

\* The positions that Taken takes.
TakenOut(places, m) == {i \in places : Cardinality({j \in places : j <= i}) <= m}

\* How many times an item is in the positions that are not taken.
CountLeft(s, out, x) == Cardinality({i \in DOMAIN s \ out : s[i] = x})

\* What Taken leaves: the items of the other positions.
LEMMA TakenLeaves ==
    ASSUME NEW S, NEW s \in Seq(S), NEW places \in SUBSET DOMAIN s, NEW m
    PROVE  LET u == Taken(s, places, m)
           IN  /\ u \in Seq(S)
               /\ \A i \in DOMAIN u : \E j \in DOMAIN s : u[i] = s[j]
               /\ \A x : Count(u, x) = CountLeft(s, TakenOut(places, m), x)
<1> DEFINE out == TakenOut(places, m)
           left == DOMAIN s \ out
           before == {e \in left \X left : e[1] < e[2]}
           at == InOrder(left, before)
           u == [n \in DOMAIN at |-> s[at[n]]]
           N == Cardinality(left)
<1>1. left \in SUBSET DOMAIN s /\ \A i \in left : i \in Nat
  OBVIOUS
<1>2. IsFiniteSet(left) /\ N \in Nat
  BY <1>1, CountIsNat
<1>3. Orders(before, left)
  <2> HIDE DEF left
  <2>1. \A x, y \in left : <<x, y>> \in before <=> x < y
    OBVIOUS
  <2> HIDE DEF before
  <2> QED
    BY <1>1, <2>1 DEF Orders
<1>4. IsBijection(at, 1 .. N, left)
  BY <1>2, <1>3, InOrderOnce
<1>5. Taken(s, places, m) = u
  BY DEF Taken, TakenOut
<1> HIDE DEF at, left
<1>6. DOMAIN at = 1 .. N /\ \A n \in 1 .. N : at[n] \in DOMAIN s
  BY <1>1, <1>4 DEF IsBijection
<1>7. u \in Seq(S)
  <2>1. u \in [1 .. N -> S]
    BY <1>6
  <2> QED
    BY <1>2, <2>1
<1>8. \A i \in DOMAIN u : \E j \in DOMAIN s : u[i] = s[j]
  BY <1>6
<1>9. ASSUME NEW x
      PROVE  Count(u, x) = Cardinality({i \in left : s[i] = x})
  <2> DEFINE B == {i \in left : s[i] = x}
  <2>1. IsFiniteSet(B)
    BY <1>1, CountIsNat
  <2>2. {n \in DOMAIN u : u[n] = x} = {n \in 1 .. N : at[n] \in B}
    BY <1>4, <1>6 DEF IsBijection
  <2>3. B \in SUBSET left
    OBVIOUS
  <2> HIDE DEF B, N
  <2>4. Cardinality({n \in 1 .. N : at[n] \in B}) = Cardinality(B)
    <3> DEFINE D == 1 .. N
    <3>1. IsBijection(at, D, left)
      BY <1>4
    <3> HIDE DEF D
    <3>2. Cardinality({n \in D : at[n] \in B}) = Cardinality(B)
      BY <2>1, <2>3, <3>1, OnceEach
    <3> QED
      BY <3>2 DEF D
  <2> QED
    BY <2>2, <2>4 DEF Count, B
<1> QED
  BY <1>5, <1>7, <1>8, <1>9 DEF left, CountLeft

\* The positions of an item.
PlacesOf(s, x) == {i \in DOMAIN s : s[i] = x}

\* Taken as many times as it is, an item is gone, and the others are as they were.
LEMMA TakenAll ==
    ASSUME NEW S, NEW s \in Seq(S), NEW o
    PROVE  LET u == Taken(s, PlacesOf(s, o), Count(s, o))
           IN  /\ u \in Seq(S)
               /\ \A i \in DOMAIN u : \E j \in DOMAIN s : u[i] = s[j]
               /\ Count(u, o) = 0
               /\ \A x : x # o => Count(u, x) = Count(s, x)
<1> DEFINE P == PlacesOf(s, o)
           m == Count(s, o)
           u == Taken(s, P, m)
<1>1. P \in SUBSET DOMAIN s /\ IsFiniteSet(P) /\ m = Cardinality(P)
  BY CountIsNat DEF PlacesOf, Count
<1>2. TakenOut(P, m) = P
  <2>1. \A i \in P : Cardinality({j \in P : j <= i}) <= Cardinality(P)
    <3> TAKE i \in P
    <3>1. {j \in P : j <= i} \in SUBSET P
      OBVIOUS
    <3> HIDE DEF P
    <3> QED
      BY <1>1, <3>1, FS_Subset
  <2> QED
    BY <1>1, <2>1 DEF TakenOut
<1>3. /\ u \in Seq(S)
      /\ \A i \in DOMAIN u : \E j \in DOMAIN s : u[i] = s[j]
      /\ \A x : Count(u, x) = CountLeft(s, P, x)
  <2> HIDE DEF P, m
  <2>1. /\ u \in Seq(S)
        /\ \A i \in DOMAIN u : \E j \in DOMAIN s : u[i] = s[j]
        /\ \A x : Count(u, x) = CountLeft(s, TakenOut(P, m), x)
    BY <1>1, TakenLeaves
  <2> QED
    BY <1>2, <2>1
<1>4. {i \in DOMAIN s \ P : s[i] = o} = {}
  BY DEF PlacesOf
<1>5. ASSUME NEW x, x # o
      PROVE  {i \in DOMAIN s \ P : s[i] = x} = {i \in DOMAIN s : s[i] = x}
  BY <1>5 DEF PlacesOf
<1> HIDE DEF P, m, u
<1>6. Count(u, o) = 0
  BY <1>3, <1>4, FS_EmptySet DEF CountLeft
<1>7. \A x : x # o => Count(u, x) = Count(s, x)
  BY <1>3, <1>5 DEF Count, CountLeft
<1> QED
  BY <1>3, <1>6, <1>7 DEF u, P, m

\* Taken once, an item that is there is once less.
LEMMA TakenOne ==
    ASSUME NEW S, NEW s \in Seq(S), NEW o, Count(s, o) # 0
    PROVE  LET u == Taken(s, PlacesOf(s, o), 1)
           IN  /\ u \in Seq(S)
               /\ \A i \in DOMAIN u : \E j \in DOMAIN s : u[i] = s[j]
               /\ Count(u, o) = Count(s, o) - 1
               /\ \A x : x # o => Count(u, x) = Count(s, x)
<1> DEFINE P == PlacesOf(s, o)
           u == Taken(s, P, 1)
           upTo(i) == {j \in P : j <= i}
<1>1. P \in SUBSET DOMAIN s /\ IsFiniteSet(P) /\ Count(s, o) = Cardinality(P)
  BY CountIsNat DEF PlacesOf, Count
<1>2. P # {} /\ P \in SUBSET Nat
  <2>1. P \in SUBSET Nat
    BY DEF PlacesOf
  <2> QED
    BY <1>1, <2>1, FS_EmptySet
<1>3. PICK f \in P : \A i \in P : f <= i
  BY <1>2, LeastOf
<1> HIDE DEF P
<1>4. upTo(f) = {f}
  <2>1. \A j \in P : j <= f <=> j = f
    BY <1>2, <1>3
  <2> QED
    BY <1>3, <2>1
<1>5. Cardinality(upTo(f)) = 1
  BY <1>4, FS_Singleton
<1>6. \A i \in P : i # f => Cardinality(upTo(i)) > 1
  <2> SUFFICES ASSUME NEW i \in P, i # f
               PROVE  Cardinality(upTo(i)) > 1
    OBVIOUS
  <2>1. upTo(i) \in SUBSET P /\ {f} \in SUBSET upTo(i) /\ i \in upTo(i)
    BY <1>2, <1>3
  <2> HIDE DEF upTo
  <2>2. IsFiniteSet(upTo(i)) /\ Cardinality(upTo(i)) \in Nat
    BY <1>1, <2>1, FS_Subset, FS_CardinalityType
  <2>3. Cardinality({f}) = 1
    BY FS_Singleton
  <2>4. 1 <= Cardinality(upTo(i)) /\ (Cardinality(upTo(i)) = 1 => upTo(i) = {f})
    BY <2>1, <2>2, <2>3, FS_Subset
  <2> QED
    BY <2>1, <2>2, <2>4
<1>7. TakenOut(P, 1) = {f}
  <2>1. \A i \in P : Cardinality(upTo(i)) \in Nat
    BY <1>1, FS_Subset, FS_CardinalityType
  <2>2. TakenOut(P, 1) = {i \in P : Cardinality(upTo(i)) <= 1}
    BY DEF TakenOut
  <2> HIDE DEF upTo
  <2> QED
    BY <1>3, <1>5, <1>6, <2>1, <2>2
<1>8. /\ u \in Seq(S)
      /\ \A i \in DOMAIN u : \E j \in DOMAIN s : u[i] = s[j]
      /\ \A x : Count(u, x) = CountLeft(s, {f}, x)
  <2>1. P \in SUBSET DOMAIN s
    BY <1>1
  <2> DEFINE m == 1
  <2>2. u = Taken(s, P, m) /\ TakenOut(P, m) = {f}
    BY <1>7
  <2> HIDE DEF u, m
  <2>3. /\ Taken(s, P, m) \in Seq(S)
        /\ \A i \in DOMAIN Taken(s, P, m) : \E j \in DOMAIN s : Taken(s, P, m)[i] = s[j]
        /\ \A x : Count(Taken(s, P, m), x) = CountLeft(s, TakenOut(P, m), x)
    BY <2>1, TakenLeaves
  <2> QED
    BY <2>2, <2>3
<1>9. f \in DOMAIN s /\ s[f] = o
  BY <1>3 DEF P, PlacesOf
<1>10. {i \in DOMAIN s \ {f} : s[i] = o} = P \ {f}
  BY DEF P, PlacesOf
<1>11. ASSUME NEW x, x # o
       PROVE  {i \in DOMAIN s \ {f} : s[i] = x} = {i \in DOMAIN s : s[i] = x}
  BY <1>9, <1>11
<1>12. Cardinality(P \ {f}) = Cardinality(P) - 1
  BY <1>1, <1>3, FS_RemoveElement
<1> HIDE DEF u
<1>13. Count(u, o) = Count(s, o) - 1
  BY <1>1, <1>8, <1>10, <1>12 DEF CountLeft
<1>14. \A x : x # o => Count(u, x) = Count(s, x)
  BY <1>8, <1>11 DEF Count, CountLeft
<1> QED
  BY <1>8, <1>13, <1>14 DEF u, P

\* Appended, an item is once more.
LEMMA CountMore ==
    ASSUME NEW S, NEW s \in Seq(S), NEW o \in S
    PROVE  LET u == Append(s, o)
           IN  Count(u, o) = Count(s, o) + 1 /\ \A x : x # o => Count(u, x) = Count(s, x)
<1> DEFINE u == Append(s, o)
           r == Len(s) + 1
<1>1. /\ DOMAIN u = 1 .. r /\ DOMAIN s = 1 .. Len(s) /\ u[r] = o /\ Len(s) \in Nat
      /\ \A i \in DOMAIN s : u[i] = s[i]
  OBVIOUS
<1>2. PlacesOf(u, o) = PlacesOf(s, o) \union {r} /\ r \notin PlacesOf(s, o)
  <2> HIDE DEF u
  <2> QED
    BY <1>1 DEF PlacesOf
<1>3. \A x : x # o => PlacesOf(u, x) = PlacesOf(s, x)
  <2> HIDE DEF u
  <2> QED
    BY <1>1 DEF PlacesOf
<1>4. IsFiniteSet(PlacesOf(s, o))
  BY CountIsNat DEF PlacesOf
<1>5. Cardinality(PlacesOf(u, o)) = Cardinality(PlacesOf(s, o)) + 1
  BY <1>2, <1>4, FS_AddElement
<1> QED
  BY <1>3, <1>5 DEF Count, PlacesOf

\* A short sequence.
LEMMA CountFew ==
    /\ \A x : Count(<<>>, x) = 0
    /\ \A o : Count(<<o>>, o) = 1 /\ \A x : x # o => Count(<<o>>, x) = 0
<1>1. \A x : Count(<<>>, x) = 0
  BY FS_EmptySet DEF Count
<1>2. \A o : {i \in DOMAIN <<o>> : <<o>>[i] = o} = {1}
  OBVIOUS
<1>3. \A o, x : x # o => {i \in DOMAIN <<o>> : <<o>>[i] = x} = {}
  OBVIOUS
<1>4. \A o : Count(<<o>>, o) = 1
  BY <1>2, FS_Singleton DEF Count
<1>5. \A o, x : x # o => Count(<<o>>, x) = 0
  BY <1>3, FS_EmptySet DEF Count
<1> QED
  BY <1>1, <1>4, <1>5

\* An item is in a sequence when it is counted.
LEMMA CountZero ==
    ASSUME NEW S, NEW s \in Seq(S), NEW x
    PROVE  /\ Count(s, x) \in Nat
           /\ Count(s, x) = 0 <=> \A i \in DOMAIN s : s[i] # x
<1> DEFINE P == {i \in DOMAIN s : s[i] = x}
<1>1. IsFiniteSet(P) /\ Cardinality(P) \in Nat
  BY CountIsNat
<1>2. Cardinality(P) = 0 <=> P = {}
  BY <1>1, FS_EmptySet
<1> QED
  BY <1>1, <1>2 DEF Count

---------------------------------------------------------------------------
(* The rows that a load meets, in the sequence of one topic.               *)

Meets(w, id, s) == w.id = id /\ (s # 0 => w.tag = s)

RowsIn(rows, id, s) ==
    {r \in DOMAIN rows : /\ Meets(rows[r], id, s)
                         /\ \A m \in DOMAIN rows :
                               Meets(rows[m], id, s) => m < r \/ ~rows[m].mark}

\* Rows reads no more of the log than the sequence of the topic.
LEMMA RowsAreIn ==
    ASSUME NEW k, NEW s
    PROVE  Rows(k, s) = RowsIn(log[TopicOf(k)], IdOf(k), s)
BY DEF Rows, RowsIn, Meets

\* A row more, not marked, is met by its own tag and without a tag, and hides none.
LEMMA InMore ==
    ASSUME NEW R, NEW rows \in Seq(R), NEW w \in R, ~w.mark, NEW id, NEW s
    PROVE  RowsIn(Append(rows, w), id, s) =
              RowsIn(rows, id, s) \union (IF Meets(w, id, s) THEN {Len(rows) + 1} ELSE {})
<1> DEFINE more == Append(rows, w)
           n    == Len(rows) + 1
<1>1. /\ Len(rows) \in Nat /\ DOMAIN rows = 1 .. Len(rows)
      /\ DOMAIN more = 1 .. n /\ more[n] = w
      /\ \A r \in 1 .. Len(rows) : more[r] = rows[r]
  OBVIOUS
<1> HIDE DEF more
<1>2. n \in Nat /\ (1 .. n) = (1 .. Len(rows)) \union {n} /\ n \notin 1 .. Len(rows)
      /\ \A r \in 1 .. Len(rows) : r < n /\ ~(n < r)
  BY <1>1
<1> HIDE DEF n
<1>3. ASSUME NEW r \in DOMAIN rows
      PROVE  r \in RowsIn(more, id, s) <=> r \in RowsIn(rows, id, s)
  BY <1>1, <1>2 DEF RowsIn
<1>4. n \in RowsIn(more, id, s) <=> Meets(w, id, s)
  BY <1>1, <1>2 DEF RowsIn
<1>5. /\ RowsIn(more, id, s) \subseteq DOMAIN rows \union {n}
      /\ RowsIn(rows, id, s) \subseteq DOMAIN rows
  BY <1>1, <1>2 DEF RowsIn
<1> QED
  BY <1>1, <1>2, <1>3, <1>4, <1>5 DEF more, n

\* The last row that a load meets without a tag is the last one of the node.
LEMMA LastIsLast ==
    ASSUME NEW R, NEW rows \in Seq(R), NEW id, NEW r, IsLast(r, RowsIn(rows, id, 0))
    PROVE  /\ r \in DOMAIN rows /\ rows[r].id = id /\ ~rows[r].mark
           /\ \A m \in DOMAIN rows : rows[m].id = id => m <= r
<1>1. /\ r \in DOMAIN rows /\ Meets(rows[r], id, 0)
      /\ \A m \in DOMAIN rows : Meets(rows[m], id, 0) => m < r \/ ~rows[m].mark
      /\ \A q \in RowsIn(rows, id, 0) : q <= r
  BY DEF IsLast, RowsIn
<1>2. r \in Nat /\ \A m \in DOMAIN rows : m \in Nat
  BY <1>1
<1>3. ASSUME NEW m \in DOMAIN rows, rows[m].id = id, ~(m <= r)
      PROVE  FALSE
  <2>1. \A q \in DOMAIN rows : Meets(rows[q], id, 0) => q < m \/ ~rows[q].mark
    BY <1>1, <1>2, <1>3
  <2>2. m \in RowsIn(rows, id, 0)
    BY <1>3, <2>1 DEF RowsIn, Meets
  <2> QED
    BY <1>1, <1>3, <2>2
<1> QED
  BY <1>1, <1>2, <1>3 DEF Meets

\* Rows seen by all are seen by the tag that they have.
LEMMA MetByTag ==
    ASSUME NEW rows, NEW id, NEW r \in RowsIn(rows, id, 0), NEW s, rows[r].tag = s
    PROVE  r \in RowsIn(rows, id, s)
BY DEF RowsIn, Meets

\* The changes of one row of a topic.
Marked(less, rows, r)    == less = [rows EXCEPT ![r].mark = TRUE]
Tagged(more, rows, r, n) == more = [rows EXCEPT ![r].tag = n]

NoTag(rows, id, n) == \A m \in DOMAIN rows : rows[m].id = id => rows[m].tag # n

\* A mark on the last row of an id hides all of them from the loads that meet it.
LEMMA InMarked ==
    ASSUME NEW t \in Topics, NEW rows \in Seq(RowSet(t)), NEW id, NEW r,
           IsLast(r, RowsIn(rows, id, 0)),
           NEW less, Marked(less, rows, r), NEW i, NEW s
    PROVE  RowsIn(less, i, s) =
              IF i = id /\ (s = 0 \/ s = rows[r].tag) THEN {} ELSE RowsIn(rows, i, s)
<1>1. /\ r \in DOMAIN rows /\ rows[r].id = id
      /\ \A m \in DOMAIN rows : rows[m].id = id => m <= r
  BY LastIsLast
<1>2. \A m \in DOMAIN rows : m \in Nat /\ rows[m] \in RowSet(t)
  OBVIOUS
<1>3. /\ DOMAIN less = DOMAIN rows
      /\ \A m \in DOMAIN rows : m # r => less[m] = rows[m]
      /\ less[r] = [rows[r] EXCEPT !.mark = TRUE]
  BY <1>1 DEF Marked
<1>4. less[r].mark /\ less[r].id = id /\ less[r].tag = rows[r].tag
  BY <1>1, <1>2, <1>3 DEF RowSet
<1>5. CASE i = id /\ (s = 0 \/ s = rows[r].tag)
  <2>1. Meets(less[r], i, s)
    BY <1>4, <1>5 DEF Meets
  <2>2. \A m \in DOMAIN rows : Meets(less[m], i, s) => ~(r < m)
    BY <1>1, <1>2, <1>3, <1>4, <1>5 DEF Meets
  <2> QED
    BY <1>1, <1>3, <1>4, <1>5, <2>1, <2>2 DEF RowsIn
<1>6. CASE ~(i = id /\ (s = 0 \/ s = rows[r].tag))
  <2>1. ~Meets(less[r], i, s) /\ ~Meets(rows[r], i, s)
    BY <1>1, <1>4, <1>6 DEF Meets
  <2>2. RowsIn(less, i, s) = RowsIn(rows, i, s)
    BY <1>3, <2>1 DEF RowsIn
  <2> QED
    BY <1>6, <2>2
<1> QED
  BY <1>5, <1>6

\* A tag on the last row of an id moves it from its old tag to the new one.
LEMMA InTagged ==
    ASSUME NEW t \in Topics, NEW rows \in Seq(RowSet(t)), NEW id, NEW r,
           IsLast(r, RowsIn(rows, id, 0)), NEW n \in Nat \ {0},
           NoTag(rows, id, n),
           NEW more, Tagged(more, rows, r, n), NEW i, NEW s
    PROVE  RowsIn(more, i, s) =
              IF i # id \/ s = 0 THEN RowsIn(rows, i, s)
              ELSE IF s = n THEN {r} ELSE RowsIn(rows, i, s) \ {r}
<1>1. /\ r \in DOMAIN rows /\ rows[r].id = id /\ ~rows[r].mark
      /\ \A m \in DOMAIN rows : rows[m].id = id => m <= r
  BY LastIsLast
<1>2. \A m \in DOMAIN rows : m \in Nat /\ rows[m] \in RowSet(t)
  OBVIOUS
<1>3. /\ DOMAIN more = DOMAIN rows
      /\ \A m \in DOMAIN rows : m # r => more[m] = rows[m]
      /\ more[r] = [rows[r] EXCEPT !.tag = n]
  BY <1>1 DEF Tagged
<1>4. ~more[r].mark /\ more[r].id = id /\ more[r].tag = n
  BY <1>1, <1>2, <1>3 DEF RowSet
<1>5. CASE i # id \/ s = 0
  <2>1. \A m \in DOMAIN rows : /\ Meets(more[m], i, s) <=> Meets(rows[m], i, s)
                               /\ Meets(rows[m], i, s) => (more[m].mark <=> rows[m].mark)
    BY <1>1, <1>3, <1>4, <1>5 DEF Meets
  <2>2. RowsIn(more, i, s) = RowsIn(rows, i, s)
    BY <1>3, <2>1 DEF RowsIn
  <2> QED
    BY <1>5, <2>2
<1>6. CASE i = id /\ s = n
  <2>1. \A m \in DOMAIN rows : Meets(more[m], i, s) <=> m = r
    BY <1>1, <1>3, <1>4, <1>6 DEF Meets, NoTag
  <2>2. r \in RowsIn(more, i, s)
    BY <1>1, <1>3, <1>4, <2>1 DEF RowsIn
  <2>3. \A q \in RowsIn(more, i, s) : q = r
    BY <1>3, <2>1 DEF RowsIn
  <2> QED
    BY <1>6, <2>2, <2>3
<1>7. CASE i = id /\ s # n /\ s # 0
  <2>1. ~Meets(more[r], i, s)
    BY <1>4, <1>7 DEF Meets
  <2>2. \A m \in DOMAIN rows : m # r => more[m] = rows[m]
    BY <1>3
  <2>3. ASSUME NEW q \in DOMAIN rows
        PROVE  q \in RowsIn(more, i, s) <=> q \in RowsIn(rows, i, s) /\ q # r
    BY <1>1, <1>3, <2>1, <2>2 DEF RowsIn
  <2>4. RowsIn(more, i, s) \subseteq DOMAIN rows /\ RowsIn(rows, i, s) \subseteq DOMAIN rows
    BY <1>3 DEF RowsIn
  <2>5. RowsIn(more, i, s) = RowsIn(rows, i, s) \ {r}
    BY <2>3, <2>4
  <2> QED
    BY <1>7, <2>5
<1> QED
  BY <1>5, <1>6, <1>7

---------------------------------------------------------------------------
(* The three changes of the log.                                           *)

\* A key is its topic and its id.
LEMMA KeyParts ==
    ASSUME TreeDbAssumption, NEW j \in Keys, NEW k \in Keys
    PROVE  /\ TopicOf(k) \in Topics /\ IdOf(k) \in Ids
           /\ TopicOf(j) = TopicOf(k) /\ IdOf(j) = IdOf(k) => j = k
BY DEF TreeDbAssumption, Topics, Ids

\* What is known of a row that Rows has.
LEMMA RowFacts ==
    ASSUME TreeDbAssumption, LogType, NEW k \in Keys, NEW s, NEW r \in Rows(k, s)
    PROVE  /\ r \in DOMAIN log[TopicOf(k)] /\ r \in Nat /\ r # 0
           /\ log[TopicOf(k)][r] \in RowSet(TopicOf(k))
           /\ log[TopicOf(k)][r].id = IdOf(k)
           /\ s # 0 => log[TopicOf(k)][r].tag = s
           /\ s = 0 => r \in Rows(k, log[TopicOf(k)][r].tag)
<1>1. r \in RowsIn(log[TopicOf(k)], IdOf(k), s)
  BY RowsAreIn
<1>2. log[TopicOf(k)] \in Seq(RowSet(TopicOf(k)))
  BY KeyParts DEF LogType
<1>3. /\ r \in DOMAIN log[TopicOf(k)] /\ r \in Nat /\ r # 0
      /\ log[TopicOf(k)][r] \in RowSet(TopicOf(k))
  BY <1>1, <1>2 DEF RowsIn
<1>4. log[TopicOf(k)][r].id = IdOf(k) /\ (s # 0 => log[TopicOf(k)][r].tag = s)
  BY <1>1 DEF RowsIn, Meets
<1>5. s = 0 => r \in Rows(k, log[TopicOf(k)][r].tag)
  BY <1>1, RowsAreIn, MetByTag
<1> QED
  BY <1>3, <1>4, <1>5

\* Row n is w, of the node k, and every other row is as it was.
RowMore(k, w, n) ==
    /\ LogType'
    /\ n \in DOMAIN log'[TopicOf(k)] /\ log'[TopicOf(k)][n] = w
    /\ \A t \in Topics :
          /\ \A r \in DOMAIN log[t] : r \in DOMAIN log'[t] /\ log'[t][r] = log[t][r]
          /\ \A r \in DOMAIN log'[t] : r \in DOMAIN log[t] \/ (t = TopicOf(k) /\ r = n)
    /\ n \in Nat /\ \A r \in DOMAIN log[TopicOf(k)] : r < n
    /\ \A j \in Keys : \A s \in Nat :
          Rows(j, s)' = Rows(j, s) \union (IF j = k /\ (s = 0 \/ s = w.tag) THEN {n} ELSE {})

\* A create or a save: one row more.
LEMMA RowsMore ==
    ASSUME TreeDbAssumption, LogType, NEW k \in Keys,
           NEW w \in RowSet(TopicOf(k)), w.id = IdOf(k), ~w.mark,
           log' = [log EXCEPT ![TopicOf(k)] = Append(@, w)]
    PROVE  RowMore(k, w, Len(log[TopicOf(k)]) + 1)
<1> DEFINE t == TopicOf(k)
           n == Len(log[t]) + 1
<1>1. /\ t \in Topics /\ log[t] \in Seq(RowSet(t))
      /\ log'[t] = Append(log[t], w)
      /\ \A u \in Topics \ {t} : log'[u] = log[u]
      /\ log' = [u \in Topics |-> log'[u]]
  BY KeyParts DEF LogType
<1>2. log'[t] \in Seq(RowSet(t))
  BY <1>1
<1>3. LogType'
  <2>1. \A u \in Topics : log'[u] \in Seq(RowSet(u))
    BY <1>1, <1>2 DEF LogType
  <2> QED
    BY <1>1, <2>1 DEF LogType, RowSet, Ups
<1>4. /\ n \in Nat /\ DOMAIN log'[t] = 1 .. n /\ DOMAIN log[t] = 1 .. Len(log[t])
      /\ log'[t][n] = w /\ \A r \in DOMAIN log[t] : log'[t][r] = log[t][r]
  BY <1>1
<1>5. /\ \A r \in DOMAIN log[t] : r \in DOMAIN log'[t] /\ r < n
      /\ \A r \in DOMAIN log'[t] : r \in DOMAIN log[t] \/ r = n
      /\ n \in DOMAIN log'[t]
  BY <1>1, <1>4
<1>6. ASSUME NEW j \in Keys, NEW s \in Nat
      PROVE  Rows(j, s)' =
                Rows(j, s) \union (IF j = k /\ (s = 0 \/ s = w.tag) THEN {n} ELSE {})
  <2>0. /\ Rows(j, s) = RowsIn(log[TopicOf(j)], IdOf(j), s)
        /\ Rows(j, s)' = RowsIn(log'[TopicOf(j)], IdOf(j), s)
        /\ TopicOf(j) \in Topics
    BY RowsAreIn, KeyParts DEF Rows, RowsIn, Meets
  <2>1. CASE TopicOf(j) # t
    BY <1>1, <2>0, <2>1
  <2>2. CASE TopicOf(j) = t
    <3>1. RowsIn(log'[t], IdOf(j), s) = RowsIn(log[t], IdOf(j), s) \union
                   (IF Meets(w, IdOf(j), s) THEN {n} ELSE {})
      BY <1>1, InMore
    <3>2. Meets(w, IdOf(j), s) <=> j = k /\ (s = 0 \/ s = w.tag)
      BY <2>2, KeyParts DEF Meets
    <3> QED
      BY <2>0, <2>2, <3>1, <3>2
  <2> QED
    BY <2>1, <2>2
<1> HIDE DEF n
<1>7. \A u \in Topics :
          /\ \A r \in DOMAIN log[u] : r \in DOMAIN log'[u] /\ log'[u][r] = log[u][r]
          /\ \A r \in DOMAIN log'[u] : r \in DOMAIN log[u] \/ (u = t /\ r = n)
  BY <1>1, <1>4, <1>5
<1>8. RowMore(k, w, n)
  BY <1>3, <1>4, <1>5, <1>6, <1>7 DEF RowMore
<1> QED
  BY <1>8 DEF n

\* The rows are the same but for the tag and the mark of one.
SameRows(k, r) ==
    /\ LogType'
    /\ \A t \in Topics : DOMAIN log'[t] = DOMAIN log[t]
    /\ \A t \in Topics : \A q \in DOMAIN log[t] :
          /\ Image(log'[t][q]) = Image(log[t][q]) /\ log'[t][q].id = log[t][q].id
          /\ (t = TopicOf(k) /\ q = r) \/ log'[t][q] = log[t][q]

Marks(k, r)   == log' = [log EXCEPT ![TopicOf(k)][r].mark = TRUE]
Tags(k, r, n) == log' = [log EXCEPT ![TopicOf(k)][r].tag = n]

\* A delete: a mark on the last row.
LEMMA RowsMarked ==
    ASSUME TreeDbAssumption, LogType, NEW k \in Keys, NEW r, IsLast(r, Rows(k, 0)),
           Marks(k, r)
    PROVE  /\ SameRows(k, r)
           /\ log'[TopicOf(k)][r].tag = log[TopicOf(k)][r].tag
           /\ \A j \in Keys : \A s \in Nat :
                 Rows(j, s)' = IF j = k /\ (s = 0 \/ s = log[TopicOf(k)][r].tag)
                               THEN {} ELSE Rows(j, s)
<1> DEFINE t == TopicOf(k)
<1> PICK rows : rows = log[t]
  OBVIOUS
<1> PICK less : Marked(less, rows, r)
  BY DEF Marked
<1>1. /\ t \in Topics /\ log[t] \in Seq(RowSet(t))
      /\ log'[t] = [log[t] EXCEPT ![r].mark = TRUE]
      /\ \A u \in Topics \ {t} : log'[u] = log[u]
      /\ log' = [u \in Topics |-> log'[u]]
  BY KeyParts DEF LogType, Marks
<1>2. r \in Rows(k, 0) /\ r \in DOMAIN log[t] /\ log[t][r] \in RowSet(t)
  BY RowFacts DEF IsLast
<1>0. t \in Topics /\ log'[t] = less /\ rows \in Seq(RowSet(t)) /\ r \in DOMAIN rows /\ rows[r] \in RowSet(t)
  BY <1>1, <1>2 DEF Marked
<1>3. /\ log'[t] \in Seq(RowSet(t)) /\ DOMAIN log'[t] = DOMAIN log[t]
      /\ log'[t][r] = [log[t][r] EXCEPT !.mark = TRUE]
      /\ \A q \in DOMAIN log[t] : q # r => log'[t][q] = log[t][q]
  <2>1. PICK x : x = [rows[r] EXCEPT !.mark = TRUE]
    OBVIOUS
  <2>2. x \in RowSet(t)
    BY <1>0, <2>1 DEF RowSet
  <2>3. Put(less, rows, r, x)
    BY <1>0, <2>1 DEF Put, Marked
  <2>4. /\ less \in Seq(RowSet(t)) /\ DOMAIN less = DOMAIN rows /\ less[r] = x
        /\ \A q \in DOMAIN rows : q # r => less[q] = rows[q]
    BY <1>0, <2>2, <2>3, OneChanged
  <2> QED
    BY <1>0, <2>1, <2>4
<1>4. /\ Image(log'[t][r]) = Image(log[t][r]) /\ log'[t][r].id = log[t][r].id
      /\ log'[t][r].tag = log[t][r].tag
  BY <1>2, <1>3 DEF RowSet, Image
<1>5. LogType'
  <2>1. \A u \in Topics : log'[u] \in Seq(RowSet(u))
    BY <1>1, <1>3 DEF LogType
  <2> QED
    BY <1>1, <2>1 DEF LogType, RowSet, Ups
<1>6. SameRows(k, r)
  <2>1. \A u \in Topics : DOMAIN log'[u] = DOMAIN log[u]
    BY <1>1, <1>3
  <2>2. ASSUME NEW u \in Topics, NEW q \in DOMAIN log[u]
        PROVE  /\ Image(log'[u][q]) = Image(log[u][q]) /\ log'[u][q].id = log[u][q].id
               /\ (u = t /\ q = r) \/ log'[u][q] = log[u][q]
    BY <1>1, <1>3, <1>4
  <2> QED
    BY <1>5, <2>1, <2>2 DEF SameRows
<1>7. ASSUME NEW j \in Keys, NEW s \in Nat
      PROVE  Rows(j, s)' = IF j = k /\ (s = 0 \/ s = log[t][r].tag) THEN {} ELSE Rows(j, s)
  <2>0. /\ Rows(j, s) = RowsIn(log[TopicOf(j)], IdOf(j), s)
        /\ Rows(j, s)' = RowsIn(log'[TopicOf(j)], IdOf(j), s)
        /\ TopicOf(j) \in Topics
    BY RowsAreIn, KeyParts DEF Rows, RowsIn, Meets
  <2>1. CASE TopicOf(j) # t
    BY <1>1, <2>0, <2>1
  <2>2. CASE TopicOf(j) = t
    <3>1. IsLast(r, RowsIn(rows, IdOf(k), 0))
      BY RowsAreIn
    <3>2. RowsIn(less, IdOf(j), s) =
             IF IdOf(j) = IdOf(k) /\ (s = 0 \/ s = rows[r].tag) THEN {}
             ELSE RowsIn(rows, IdOf(j), s)
      BY <1>0, <3>1, InMarked
    <3> QED
      BY <1>0, <2>0, <2>2, <3>2, KeyParts
  <2> QED
    BY <2>1, <2>2
<1> QED
  BY <1>4, <1>6, <1>7

\* A shoot: a new tag on the last row.
LEMMA RowsTagged ==
    ASSUME TreeDbAssumption, LogType, NEW k \in Keys, NEW r, IsLast(r, Rows(k, 0)),
           NEW n \in Nat \ {0}, Untagged(k, n),
           Tags(k, r, n)
    PROVE  /\ SameRows(k, r) /\ log'[TopicOf(k)][r].tag = n
           /\ \A j \in Keys : \A s \in Nat :
                 Rows(j, s)' = IF j # k \/ s = 0 THEN Rows(j, s)
                               ELSE IF s = n THEN {r} ELSE Rows(j, s) \ {r}
<1> DEFINE t == TopicOf(k)
<1> PICK rows : rows = log[t]
  OBVIOUS
<1> PICK more : Tagged(more, rows, r, n)
  BY DEF Tagged
<1>1. /\ t \in Topics /\ log[t] \in Seq(RowSet(t))
      /\ log'[t] = [log[t] EXCEPT ![r].tag = n]
      /\ \A u \in Topics \ {t} : log'[u] = log[u]
      /\ log' = [u \in Topics |-> log'[u]]
  BY KeyParts DEF LogType, Tags
<1>2. r \in Rows(k, 0) /\ r \in DOMAIN log[t] /\ log[t][r] \in RowSet(t)
  BY RowFacts DEF IsLast
<1>0. t \in Topics /\ log'[t] = more /\ rows \in Seq(RowSet(t)) /\ r \in DOMAIN rows /\ rows[r] \in RowSet(t)
  BY <1>1, <1>2 DEF Tagged
<1>3. /\ log'[t] \in Seq(RowSet(t)) /\ DOMAIN log'[t] = DOMAIN log[t]
      /\ log'[t][r] = [log[t][r] EXCEPT !.tag = n]
      /\ \A q \in DOMAIN log[t] : q # r => log'[t][q] = log[t][q]
  <2>1. PICK x : x = [rows[r] EXCEPT !.tag = n]
    OBVIOUS
  <2>2. x \in RowSet(t)
    BY <1>0, <2>1 DEF RowSet
  <2>3. Put(more, rows, r, x)
    BY <1>0, <2>1 DEF Put, Tagged
  <2>4. /\ more \in Seq(RowSet(t)) /\ DOMAIN more = DOMAIN rows /\ more[r] = x
        /\ \A q \in DOMAIN rows : q # r => more[q] = rows[q]
    BY <1>0, <2>2, <2>3, OneChanged
  <2> QED
    BY <1>0, <2>1, <2>4
<1>4. /\ Image(log'[t][r]) = Image(log[t][r]) /\ log'[t][r].id = log[t][r].id
      /\ log'[t][r].tag = n
  BY <1>2, <1>3 DEF RowSet, Image
<1>5. LogType'
  <2>1. \A u \in Topics : log'[u] \in Seq(RowSet(u))
    BY <1>1, <1>3 DEF LogType
  <2> QED
    BY <1>1, <2>1 DEF LogType, RowSet, Ups
<1>6. SameRows(k, r)
  <2>1. \A u \in Topics : DOMAIN log'[u] = DOMAIN log[u]
    BY <1>1, <1>3
  <2>2. ASSUME NEW u \in Topics, NEW q \in DOMAIN log[u]
        PROVE  /\ Image(log'[u][q]) = Image(log[u][q]) /\ log'[u][q].id = log[u][q].id
               /\ (u = t /\ q = r) \/ log'[u][q] = log[u][q]
    BY <1>1, <1>3, <1>4
  <2> QED
    BY <1>5, <2>1, <2>2 DEF SameRows
<1>7. ASSUME NEW j \in Keys, NEW s \in Nat
      PROVE  Rows(j, s)' = IF j # k \/ s = 0 THEN Rows(j, s)
                           ELSE IF s = n THEN {r} ELSE Rows(j, s) \ {r}
  <2>0. /\ Rows(j, s) = RowsIn(log[TopicOf(j)], IdOf(j), s)
        /\ Rows(j, s)' = RowsIn(log'[TopicOf(j)], IdOf(j), s)
        /\ TopicOf(j) \in Topics
    BY RowsAreIn, KeyParts DEF Rows, RowsIn, Meets
  <2>1. CASE TopicOf(j) # t
    BY <1>1, <2>0, <2>1
  <2>2. CASE TopicOf(j) = t
    <3>1. IsLast(r, RowsIn(rows, IdOf(k), 0))
      BY RowsAreIn
    <3>2. NoTag(rows, IdOf(k), n)
      BY DEF Untagged, NoTag
    <3>3. RowsIn(more, IdOf(j), s) =
             IF IdOf(j) # IdOf(k) \/ s = 0 THEN RowsIn(rows, IdOf(j), s)
             ELSE IF s = n THEN {r} ELSE RowsIn(rows, IdOf(j), s) \ {r}
      BY <1>0, <3>1, <3>2, InTagged
    <3> QED
      BY <1>0, <2>0, <2>2, <3>3, KeyParts
  <2> QED
    BY <2>1, <2>2
<1> QED
  BY <1>4, <1>6, <1>7

---------------------------------------------------------------------------
(* A node that stays as it is, and one that is written.                    *)

\* The object of a node, but for what its hooks hold.
SameNode(j) == prim[j] # Nil =>
    /\ prim[j] \in DOMAIN heap' /\ IsNode(TopicOf(j), heap'[prim[j]])
    /\ heap'[prim[j]].row = heap[prim[j]].row /\ heap'[prim[j]].tag = heap[prim[j]].tag
    /\ Image(heap'[prim[j]]) = Image(heap[prim[j]])

\* No row of a node is lost for the load with s, nor its last for any.
SameLoad(j, s) ==
    /\ Rows(j, s)' = Rows(j, s)
    /\ \A g \in Nat \ {0} : Rows(j, g) # {} => Rows(j, g)' # {}
    /\ \A r \in DOMAIN log[TopicOf(j)] :
          Image(log'[TopicOf(j)][r]) = Image(log[TopicOf(j)][r])

\* A load of what did not change still gives the node.
LEMMA LoadedStays ==
    ASSUME TreeDbAssumption, LogType, NEW j \in Keys, NEW s \in Nat,
           Loaded(j, s), prim'[j] = prim[j], SameNode(j), SameLoad(j, s)
    PROVE  Loaded(j, s)'
<1>1. CASE prim[j] = Nil
  BY <1>1 DEF Loaded, SameLoad
<1>2. CASE prim[j] # Nil
  <2> DEFINE n == heap[prim[j]]
             m == heap'[prim'[j]]
             t == TopicOf(j)
  <2>1. /\ IsLast(n.row, Rows(j, s)) /\ Image(n) = Image(log[t][n.row])
        /\ \A g \in Nat \ {0} : n.tag = g => Rows(j, g) # {}
    BY <1>2 DEF Loaded
  <2>2. /\ prim'[j] \in DOMAIN heap' /\ IsNode(t, m)
        /\ m.row = n.row /\ m.tag = n.tag /\ Image(m) = Image(n)
    BY <1>2 DEF SameNode
  <2>3. n.row \in DOMAIN log[t]
    BY <2>1, RowFacts DEF IsLast
  <2>4. /\ IsLast(m.row, Rows(j, s)') /\ Image(m) = Image(log'[t][m.row])
        /\ \A g \in Nat \ {0} : m.tag = g => Rows(j, g)' # {}
    BY <2>1, <2>2, <2>3 DEF SameLoad
  <2> QED
    BY <1>2, <2>2, <2>4 DEF Loaded
<1> QED
  BY <1>1, <1>2

\* The node k is now n, and its row is the last of the topic.
Written(k, n) ==
    /\ IsNode(TopicOf(k), n)
    /\ \A g \in Nat \ {0} : n.tag = g => Rows(k, g) # {}
    /\ RowMore(k, RowOf(k, n), n.row)
    /\ prim'[k] # Nil /\ prim'[k] \in DOMAIN heap' /\ heap'[prim'[k]] = n
    /\ \A j \in Keys \ {k} : prim'[j] = prim[j] /\ SameNode(j)

\* The row that is appended for a node says what the node says.
LEMMA RowOfNode ==
    ASSUME TreeDbAssumption, NEW k \in Keys, NEW n, IsNode(TopicOf(k), n)
    PROVE  /\ RowOf(k, n) \in RowSet(TopicOf(k))
           /\ RowOf(k, n).id = IdOf(k) /\ ~RowOf(k, n).mark
           /\ RowOf(k, n).tag = n.tag /\ RowOf(k, n).k2 = n.k2
           /\ Image(RowOf(k, n)) = Image(n)
BY KeyParts DEF RowOf, RowSet, IsNode, Image

\* The snaps can be counted.
LEMMA SnapsCounted ==
    ASSUME TreeDbAssumption
    PROVE  /\ SnapCount \in Nat
           /\ IsFiniteSet({n \in Names : snaps[n] # Nil})
<1>1. {n \in Names : snaps[n] # Nil} \subseteq Names /\ IsFiniteSet(Names)
  BY DEF TreeDbAssumption
<1> QED
  BY <1>1, FS_Subset, FS_CardinalityType DEF SnapCount

\* With the node written, the memory is still what a load gives, and the snaps
\* still have their nodes.
LEMMA WrittenKeeps ==
    ASSUME TreeDbAssumption, TypeInv, MemoryLoaded, TagsGiven, SnapsKept,
           open, tag = 0, UNCHANGED <<snaps, open, tag, shot>>,
           NEW k \in Keys, NEW n, Written(k, n)
    PROVE  LogType' /\ MemoryLoaded' /\ TagsGiven' /\ SnapsKept'
<1> USE DEF TypeInv
<1> DEFINE t == TopicOf(k)
           w == RowOf(k, n)
<1>1. /\ w \in RowSet(t) /\ w.tag = n.tag /\ Image(w) = Image(n) /\ n.tag \in Nat /\ w.id = IdOf(k)
      /\ t \in Topics
  BY RowOfNode, KeyParts DEF Written, IsNode
<1>2. /\ LogType'
      /\ n.row \in DOMAIN log'[t] /\ log'[t][n.row] = w
      /\ n.row \in Nat /\ \A r \in DOMAIN log[t] : r < n.row
  BY DEF Written, RowMore
<1>3. \A u \in Topics :
          /\ \A r \in DOMAIN log[u] : r \in DOMAIN log'[u] /\ log'[u][r] = log[u][r]
          /\ \A r \in DOMAIN log'[u] : r \in DOMAIN log[u] \/ (u = t /\ r = n.row)
  BY DEF Written, RowMore
<1>4. /\ \A j \in Keys : \A s \in Nat : j # k => Rows(j, s)' = Rows(j, s)
      /\ \A s \in Nat : s # 0 /\ s # n.tag => Rows(k, s)' = Rows(k, s)
      /\ Rows(k, 0)' = Rows(k, 0) \union {n.row}
      /\ \A s \in Nat : s = n.tag => Rows(k, s)' = Rows(k, s) \union {n.row}
  <2>2. ASSUME NEW j \in Keys, NEW s \in Nat
        PROVE  IF j = k /\ (s = 0 \/ s = n.tag) THEN Rows(j, s)' = Rows(j, s) \union {n.row}
               ELSE Rows(j, s)' = Rows(j, s)
    <3>1. Rows(j, s)' = Rows(j, s) \union (IF j = k /\ (s = 0 \/ s = w.tag) THEN {n.row} ELSE {})
      BY DEF Written, RowMore
    <3>2. CASE j = k /\ (s = 0 \/ s = n.tag)
      BY <1>1, <3>1, <3>2
    <3>3. CASE ~(j = k /\ (s = 0 \/ s = n.tag))
      <4>1. ~(j = k /\ (s = 0 \/ s = w.tag))
        BY <1>1, <3>3
      <4>2. Rows(j, s)' = Rows(j, s) \union {}
        BY <3>1, <4>1
      <4> QED
        BY <3>3, <4>2
    <3> QED
      BY <3>2, <3>3
  <2> QED
    BY <2>2
<1>5. \A g \in Nat \ {0} : n.tag = g => Rows(k, g) # {}
  BY DEF Written
<1>6. \A j \in Keys : \A s \in Nat \ {0} : (Rows(j, s)' # {}) <=> (Rows(j, s) # {})
  BY <1>1, <1>4, <1>5
<1>7. MemoryLoaded'
  <2> SUFFICES ASSUME NEW j \in Keys
               PROVE  Loaded(j, 0)'
    BY DEF MemoryLoaded
  <2>0. Loaded(j, 0)
    BY DEF MemoryLoaded
  <2>1. CASE j # k
    <3>1. prim'[j] = prim[j] /\ SameNode(j)
      BY <2>1 DEF Written
    <3>2. SameLoad(j, 0)
      BY <1>3, <1>4, <1>6, <2>1, KeyParts DEF SameLoad
    <3> QED
      BY <2>0, <3>1, <3>2, LoadedStays
  <2>2. CASE j = k
    <3>1. /\ prim'[k] # Nil /\ prim'[k] \in DOMAIN heap' /\ heap'[prim'[k]] = n
          /\ IsNode(t, n)
      BY DEF Written
    <3>2. \A q \in Rows(k, 0)' : q <= n.row
      BY <1>2, <1>4, RowFacts
    <3>3. IsLast(n.row, Rows(k, 0)')
      BY <1>4, <3>2 DEF IsLast
    <3>4. \A g \in Nat \ {0} : n.tag = g => Rows(k, g)' # {}
      BY <1>5, <1>6
    <3> QED
      BY <1>1, <1>2, <2>2, <3>1, <3>3, <3>4 DEF Loaded
  <2> QED
    BY <2>1, <2>2
<1>8. SnapCount' = SnapCount
  BY DEF SnapCount
<1>9. TagsGiven'
  <2>1. w.tag <= SnapCount
    <3>1. CASE n.tag = 0
      BY <1>1, <3>1, SnapsCounted
    <3>2. CASE n.tag # 0
      <4>1. PICK r : r \in Rows(k, n.tag)
        BY <1>1, <1>5, <3>2
      <4>2. r \in DOMAIN log[t] /\ log[t][r].tag = n.tag
        BY <3>2, <4>1, RowFacts
      <4> QED
        BY <1>1, <4>2 DEF TagsGiven
    <3> QED
      BY <3>1, <3>2
  <2>2. \A u \in Topics : \A r \in DOMAIN log'[u] : log'[u][r].tag <= SnapCount
    BY <1>2, <1>3, <2>1 DEF TagsGiven
  <2> QED
    BY <1>8, <2>2 DEF TagsGiven
<1>10. SnapsKept'
  <2> SUFFICES ASSUME NEW s \in DOMAIN shot, shot[s] # Nil
               PROVE  {j \in Keys : Rows(j, s)' # {}} = shot[s]
    BY DEF SnapsKept
  <2>1. s \in Nat \ {0}
    BY DEF ShotType
  <2> QED
    BY <1>6, <2>1 DEF SnapsKept
<1> QED
  BY <1>2, <1>7, <1>9, <1>10

---------------------------------------------------------------------------
(* What the operations do to the objects.                                  *)

\* hp is the heap, but for the values and the refs of the node k, and for hooks.
HeapBut(hp, k) == \A j \in Keys : prim[j] # Nil =>
    /\ prim[j] \in DOMAIN hp /\ IsNode(TopicOf(j), hp[prim[j]])
    /\ hp[prim[j]].row = heap[prim[j]].row /\ hp[prim[j]].tag = heap[prim[j]].tag
    /\ TopicOf(j) \in Keyed => hp[prim[j]].k2 = heap[prim[j]].k2
    /\ j # k => Image(hp[prim[j]]) = Image(heap[prim[j]])

\* The heap has every node of the index.
LEMMA HeapItself ==
    ASSUME MemoryLoaded, open, tag = 0, NEW k
    PROVE  HeapBut(heap, k)
<1>1. \A j \in Keys : Loaded(j, 0)
  BY DEF MemoryLoaded
<1> QED
  BY <1>1 DEF HeapBut, Loaded

\* m is n but for its hooks.
ButHooks(t, m, n) == /\ IsNode(t, m) /\ m.row = n.row /\ m.tag = n.tag
                     /\ Image(m) = Image(n)

\* Its hooks are not part of what a load must give.
LEMMA OtherHooks ==
    ASSUME NEW t, NEW n, IsNode(t, n), NEW d
    PROVE  ButHooks(t, [n EXCEPT !.down = d], n)
BY DEF IsNode, ButHooks, Image

\* Nor is one of them.
LEMMA OneHook ==
    ASSUME NEW t, NEW n, IsNode(t, n), NEW x, NEW d
    PROVE  \A m : m = [n EXCEPT !.down[x] = d] => ButHooks(t, m, n)
<1>1. [n EXCEPT !.down[x] = d] = [n EXCEPT !.down = [n.down EXCEPT ![x] = d]]
  OBVIOUS
<1> QED
  BY <1>1, OtherHooks

\* A node with other refs in one fkey is a node.
LEMMA OneRef ==
    ASSUME NEW t, NEW n, IsNode(t, n), NEW h \in UpHooks(t), NEW s \in Seq(Ids)
    PROVE  LET m == [n EXCEPT !.up[h] = s]
           IN  IsNode(t, m) /\ m.row = n.row /\ m.tag = n.tag /\ m.k2 = n.k2
<1> DEFINE u == [n.up EXCEPT ![h] = s]
<1>1. u \in Ups(t)
  BY DEF IsNode, Ups
<1>2. [n EXCEPT !.up[h] = s] = [n EXCEPT !.up = u]
  OBVIOUS
<1> HIDE DEF u
<1> QED
  BY <1>1, <1>2 DEF IsNode

Renewed(m, n, d, u) == m = [n EXCEPT !.down = d, !.up = u]

\* A node with other refs in every fkey is a node.
LEMMA AllRefs ==
    ASSUME NEW t, NEW n, IsNode(t, n), NEW d, NEW u \in Ups(t), NEW m, Renewed(m, n, d, u)
    PROVE  IsNode(t, m) /\ m.row = n.row /\ m.tag = n.tag /\ m.k2 = n.k2
<1>1. m = [val |-> n.val, k2 |-> n.k2, up |-> u, down |-> d, row |-> n.row, tag |-> n.tag]
  BY DEF IsNode, Renewed
<1> QED
  BY <1>1 DEF IsNode

\* hq is hp with a change in the hooks of an object and one in the refs of another.
Moved(hq, hp, p, x, d, c, h, s) == hq = [hp EXCEPT ![p].down[x] = d, ![c].up[h] = s]

\* A link or an unlink changes the child, and only the hooks of the parent.
LEMMA MovedBut ==
    ASSUME MemoryType, NEW k \in Keys, prim[k] # Nil, NEW p \in Keys, prim[p] # Nil, p # k,
           NEW hp, HeapBut(hp, k), NEW x, NEW d, NEW h \in UpHooks(TopicOf(k)), NEW s \in Seq(Ids),
           NEW hq, Moved(hq, hp, prim[p], x, d, prim[k], h, s)
    PROVE  HeapBut(hq, k)
<1> SUFFICES ASSUME NEW j \in Keys, prim[j] # Nil
             PROVE  /\ prim[j] \in DOMAIN hq /\ IsNode(TopicOf(j), hq[prim[j]])
                    /\ hq[prim[j]].row = heap[prim[j]].row /\ hq[prim[j]].tag = heap[prim[j]].tag
                    /\ TopicOf(j) \in Keyed => hq[prim[j]].k2 = heap[prim[j]].k2
                    /\ j # k => Image(hq[prim[j]]) = Image(heap[prim[j]])
  BY DEF HeapBut
<1>1. prim[p] # prim[k] /\ (j # p => prim[j] # prim[p]) /\ (j # k => prim[j] # prim[k])
  BY DEF MemoryType
<1>2. /\ prim[p] \in DOMAIN hp /\ IsNode(TopicOf(p), hp[prim[p]])
      /\ prim[k] \in DOMAIN hp /\ IsNode(TopicOf(k), hp[prim[k]])
      /\ prim[j] \in DOMAIN hp /\ IsNode(TopicOf(j), hp[prim[j]])
      /\ hp[prim[j]].row = heap[prim[j]].row /\ hp[prim[j]].tag = heap[prim[j]].tag
      /\ TopicOf(j) \in Keyed => hp[prim[j]].k2 = heap[prim[j]].k2
      /\ j # k => Image(hp[prim[j]]) = Image(heap[prim[j]])
  BY DEF HeapBut
<1>3. DOMAIN hq = DOMAIN hp
  BY DEF Moved
<1>4. CASE j = p
  <2>1. hq[prim[p]] = [hp[prim[p]] EXCEPT !.down[x] = d]
    BY <1>1, <1>2 DEF Moved
  <2>2. ButHooks(TopicOf(p), hq[prim[p]], hp[prim[p]])
    <3> PICK n : n = hp[prim[p]]
      OBVIOUS
    <3> PICK m : m = hq[prim[p]]
      OBVIOUS
    <3>1. IsNode(TopicOf(p), n) /\ m = [n EXCEPT !.down[x] = d]
      BY <1>2, <2>1
    <3>2. ButHooks(TopicOf(p), m, n)
      BY <3>1, OneHook
    <3> QED
      BY <3>2
  <2> QED
    BY <1>2, <1>3, <1>4, <2>2 DEF ButHooks, Image
<1>5. CASE j = k
  <2>1. hq[prim[k]] = [hp[prim[k]] EXCEPT !.up[h] = s]
    BY <1>1, <1>2 DEF Moved
  <2> QED
    BY <1>2, <1>3, <1>5, <2>1, OneRef
<1>6. CASE j # p /\ j # k
  <2>1. hq[prim[j]] = hp[prim[j]]
    BY <1>1, <1>2, <1>6 DEF Moved
  <2> QED
    BY <1>2, <1>3, <2>1
<1> QED
  BY <1>4, <1>5, <1>6

\* _link_nodes changes nothing else.
LEMMA LinkedBut ==
    ASSUME MemoryType, TreeDbAssumption, NEW k \in Keys, prim[k] # Nil,
           NEW p \in Keys, prim[p] # Nil, prim[p] # prim[k],
           NEW hp, HeapBut(hp, k), NEW h \in UpHooks(TopicOf(k))
    PROVE  HeapBut(Linked(hp, h, prim[p], prim[k]), k)
<1> DEFINE hq == Linked(hp, h, prim[p], prim[k])
           d == HookAdd(h, hp[prim[p]].down[h.hook], prim[k])
           s == UpAdd(h, hp[prim[k]].up[h], IdOf(prim[p].key))
<1>1. prim[p].key = p /\ IdOf(p) \in Ids /\ p # k
  BY KeyParts DEF MemoryType
<1>2. hp[prim[k]].up \in Ups(TopicOf(k)) /\ prim[k] \in DOMAIN hp /\ prim[p] \in DOMAIN hp
  BY DEF HeapBut, IsNode
<1>3. s \in Seq(Ids)
  BY <1>1, <1>2 DEF UpAdd, Ups
<1>4. Moved(hq, hp, prim[p], h.hook, d, prim[k], h, s)
  BY <1>2 DEF Moved, Linked
<1> HIDE DEF hq, d, s
<1>5. HeapBut(hq, k)
  BY <1>1, <1>3, <1>4, MovedBut
<1> QED
  BY <1>5 DEF hq

\* _unlink_nodes changes nothing else.
LEMMA UnlinkedBut ==
    ASSUME MemoryType, TreeDbAssumption, NEW k \in Keys, prim[k] # Nil,
           NEW p \in Keys, prim[p] # Nil, p # k,
           NEW hp, HeapBut(hp, k), NEW h \in UpHooks(TopicOf(k))
    PROVE  HeapBut(Unlinked(hp, h, prim[p], prim[k]), k)
<1> DEFINE hq == Unlinked(hp, h, prim[p], prim[k])
           d == HookDel(h, hp[prim[p]].down[h.hook], prim[k], 1)
           s == UpDel(h, hp[prim[k]].up[h], IdOf(prim[p].key))
<1>2. hp[prim[k]].up \in Ups(TopicOf(k)) /\ prim[k] \in DOMAIN hp /\ prim[p] \in DOMAIN hp
  BY DEF HeapBut, IsNode
<1>3. s \in Seq(Ids)
  <2>1. hp[prim[k]].up[h] \in Seq(Ids)
    BY <1>2 DEF Ups
  <2> QED
    <3> PICK up : up = hp[prim[k]].up[h]
      OBVIOUS
    <3> PICK id : id = IdOf(prim[p].key)
      OBVIOUS
    <3> DEFINE m == 1
               P == {i \in DOMAIN up : up[i] = id}
    <3>1. P \in SUBSET DOMAIN up /\ up \in Seq(Ids)
      BY <2>1
    <3> HIDE DEF P, m
    <3>2. Taken(up, P, m) \in Seq(Ids)
      BY <3>1, TakenLeaves
    <3> QED
      BY <3>2 DEF UpDel, P, m
<1>4. Moved(hq, hp, prim[p], h.hook, d, prim[k], h, s)
  BY <1>2 DEF Moved, Unlinked
<1> HIDE DEF hq, d, s
<1>5. HeapBut(hq, k)
  BY <1>3, <1>4, MovedBut
<1> QED
  BY <1>5 DEF hq

\* treedb_clean_node changes the node, and only the hooks of its parents.
LEMMA CleanedBut ==
    ASSUME MemoryType, NEW k \in Keys, prim[k] # Nil, HeapBut(heap, k)
    PROVE  HeapBut(Cleaned(heap, prim[k]), k)
<1> SUFFICES ASSUME NEW j \in Keys, prim[j] # Nil,
                    NEW hq, hq = Cleaned(heap, prim[k])
             PROVE  /\ prim[j] \in DOMAIN hq /\ IsNode(TopicOf(j), hq[prim[j]])
                    /\ hq[prim[j]].row = heap[prim[j]].row /\ hq[prim[j]].tag = heap[prim[j]].tag
                    /\ TopicOf(j) \in Keyed => hq[prim[j]].k2 = heap[prim[j]].k2
                    /\ j # k => Image(hq[prim[j]]) = Image(heap[prim[j]])
  BY DEF HeapBut
<1>1. prim[j] \in DOMAIN heap /\ IsNode(TopicOf(j), heap[prim[j]])
  BY DEF HeapBut
<1>2. PICK d : /\ prim[j] \in DOMAIN hq
               /\ hq[prim[j]] = [heap[prim[j]] EXCEPT !.down = d,
                     !.up = IF prim[j] = prim[k] THEN NoUp(TopicOf(prim[k].key)) ELSE @]
  BY <1>1 DEF Cleaned
<1>3. prim[k].key = k /\ prim[j].key = j
  BY DEF MemoryType
<1>4. CASE j = k
  <2>1. NoUp(TopicOf(k)) \in Ups(TopicOf(k))
    BY DEF NoUp, Ups
  <2> QED
    <3> PICK n : n = heap[prim[k]]
      OBVIOUS
    <3> PICK u : u = NoUp(TopicOf(k))
      OBVIOUS
    <3> PICK m : m = hq[prim[k]]
      OBVIOUS
    <3>1. Renewed(m, n, d, u) /\ IsNode(TopicOf(k), n) /\ u \in Ups(TopicOf(k))
      BY <1>1, <1>2, <1>3, <1>4, <2>1 DEF Renewed
    <3>2. IsNode(TopicOf(k), m) /\ m.row = n.row /\ m.tag = n.tag /\ m.k2 = n.k2
      BY <3>1, AllRefs
    <3> QED
      BY <1>2, <1>4, <3>2
<1>5. CASE j # k
  <2>1. hq[prim[j]] = [heap[prim[j]] EXCEPT !.down = d]
    BY <1>1, <1>2, <1>3, <1>5 DEF IsNode
  <2>2. ButHooks(TopicOf(j), hq[prim[j]], heap[prim[j]])
    BY <1>1, <2>1, OtherHooks
  <2> QED
    BY <1>2, <1>5, <2>2 DEF ButHooks, Image
<1> QED
  BY <1>4, <1>5

\* Save writes the object that it is given.
LEMMA SaveWrites ==
    ASSUME TreeDbAssumption, Disciplined, TypeInv, MemoryLoaded, open, tag = 0,
           NEW k \in Keys, prim[k] # Nil, NEW hp, HeapBut(hp, k),
           NEW fails \in Fails, Save(hp, prim[k], fails), prim' = prim
    PROVE  \E n : /\ Written(k, n)
                  /\ TopicOf(k) \in Keyed => n.k2 = heap[prim[k]].k2
                  /\ n.tag = heap[prim[k]].tag
                  /\ n.row = Len(log[TopicOf(k)]) + 1
<1> DEFINE o == prim[k]
           t == TopicOf(k)
           r == Len(log[t]) + 1
           n == [hp[o] EXCEPT !.row = r]
           hq == [hp EXCEPT ![o] = n]
<1>1. /\ o.key = k /\ t \in Topics /\ log[t] \in Seq(RowSet(t)) /\ r \in Nat
      /\ \A j \in Keys : prim[j] # Nil => prim[j].key = j
      /\ DOMAIN prim = Keys
  BY KeyParts DEF TypeInv, MemoryType, LogType
<1>2. /\ IsNode(t, hp[o]) /\ o \in DOMAIN hp
      /\ hp[o].tag = heap[o].tag /\ (t \in Keyed => hp[o].k2 = heap[o].k2)
  BY DEF HeapBut
<1>3. fails = FALSE /\ hp[o].val # Bad
  BY <1>2 DEF Disciplined, Fails, May, IsNode, TreeDbAssumption
<1>4. /\ log' = [log EXCEPT ![t] = Append(@, RowOf(k, n))]
      /\ heap' = Living(hq, prim, sec)
  BY <1>1, <1>3 DEF Save
<1>5. IsNode(t, n) /\ n.row = r /\ n.tag = heap[o].tag /\ (t \in Keyed => n.k2 = heap[o].k2)
  BY <1>1, <1>2 DEF IsNode
<1>6. RowMore(k, RowOf(k, n), r)
  BY <1>1, <1>4, <1>5, RowsMore, RowOfNode DEF TypeInv
<1>7. \A j \in Keys : prim[j] # Nil =>
         prim[j] \in DOMAIN heap' /\ heap'[prim[j]] = hq[prim[j]]
  <2> SUFFICES ASSUME NEW j \in Keys, prim[j] # Nil
               PROVE  prim[j] \in DOMAIN heap' /\ heap'[prim[j]] = hq[prim[j]]
    OBVIOUS
  <2> PICK hr : hr = hq
    OBVIOUS
  <2> HIDE DEF hq
  <2>1. prim[j] \in DOMAIN Living(hr, prim, sec) /\ Living(hr, prim, sec)[prim[j]] = hr[prim[j]]
    BY <1>1, LivingKeeps
  <2> QED
    BY <1>4, <2>1
<1>8. hq[o] = n
  BY <1>2
<1>9. ASSUME NEW j \in Keys \ {k}
      PROVE  SameNode(j)
  <2> SUFFICES ASSUME prim[j] # Nil
               PROVE  SameNode(j)
    BY DEF SameNode
  <2>1. prim[j] # o
    BY <1>1
  <2>2. heap'[prim[j]] = hp[prim[j]] /\ prim[j] \in DOMAIN heap'
    BY <1>7, <2>1
  <2> QED
    BY <2>2 DEF SameNode, HeapBut
<1>10. \A g \in Nat \ {0} : n.tag = g => Rows(k, g) # {}
  BY <1>5 DEF MemoryLoaded, Loaded
<1> HIDE DEF n, hq
<1>11. Written(k, n)
  BY <1>5, <1>6, <1>7, <1>8, <1>9, <1>10 DEF Written
<1> QED
  BY <1>5, <1>11

---------------------------------------------------------------------------
(* The operations that save a node.                                        *)

\* A save keeps the secondary key of the node, so no instance appears or goes.
LEMMA SecStays ==
    ASSUME TreeDbAssumption, TypeInv, MemoryLoaded, SecLoaded, open, tag = 0,
           UNCHANGED <<open, tag, sec>>,
           NEW k \in Keys, prim[k] # Nil, NEW n, Written(k, n),
           TopicOf(k) \in Keyed => n.k2 = heap[prim[k]].k2
    PROVE  SecLoaded'
<1> USE DEF TypeInv
<1> SUFFICES ASSUME NEW j \in KeyedKeys, NEW k2 \in Key2s
             PROVE  sec[j][k2] = Nil <=>
                       \A r \in Rows(j, 0)' : log'[TopicOf(j)][r].k2 # k2
  BY DEF SecLoaded
<1> DEFINE t == TopicOf(j)
<1>1. j \in Keys /\ t \in Keyed /\ t \in Topics
  BY KeyParts DEF KeyedKeys
<1>2. sec[j][k2] = Nil <=> \A r \in Rows(j, 0) : log[t][r].k2 # k2
  BY DEF SecLoaded
<1>3. \A r \in Rows(j, 0) : log'[t][r] = log[t][r]
  BY <1>1, RowFacts DEF Written, RowMore
<1>4. CASE j # k
  <2>1. Rows(j, 0)' = Rows(j, 0)
    <3>1. Rows(j, 0)' = Rows(j, 0) \union
             (IF j = k /\ (0 = 0 \/ 0 = RowOf(k, n).tag) THEN {n.row} ELSE {})
      BY <1>1 DEF Written, RowMore
    <3>2. Rows(j, 0)' = Rows(j, 0) \union {}
      BY <1>4, <3>1
    <3> QED
      BY <3>2
  <2> QED
    BY <1>2, <1>3, <2>1
<1>5. CASE j = k
  <2>1. Rows(j, 0)' = Rows(j, 0) \union {n.row}
    BY <1>1, <1>5 DEF Written, RowMore
  <2>2. log'[t][n.row].k2 = n.k2
    BY <1>5, RowOfNode DEF Written, RowMore
  <2>3. Loaded(k, 0)
    BY DEF MemoryLoaded
  <2>4. heap[prim[k]].row \in Rows(k, 0) /\ log[t][heap[prim[k]].row].k2 = n.k2
    BY <1>1, <1>5, <2>3 DEF Loaded, IsLast, Image
  <2> QED
    BY <1>2, <1>3, <1>5, <2>1, <2>2, <2>4
<1> QED
  BY <1>4, <1>5

\* treedb_save_node, on a node that was changed in memory.
LEMMA SaveKeeps ==
    ASSUME TreeDbAssumption, Disciplined, IInv, open, tag = 0,
           UNCHANGED <<snaps, open, tag, prim, sec, shot>>,
           NEW k \in Keys, prim[k] # Nil, NEW hp, HeapBut(hp, k),
           NEW fails \in Fails, Save(hp, prim[k], fails)
    PROVE  TypeInv' /\ MemoryLoaded' /\ SecLoaded' /\ TagsGiven' /\ SnapsKept'
<1>1. PICK n : Written(k, n) /\ (TopicOf(k) \in Keyed => n.k2 = heap[prim[k]].k2)
  BY SaveWrites DEF IInv
<1>2. LogType' /\ MemoryLoaded' /\ TagsGiven' /\ SnapsKept'
  BY <1>1, WrittenKeeps DEF IInv
<1>3. SecLoaded'
  BY <1>1, SecStays DEF IInv
<1>4. SnapsType' /\ MemoryType' /\ ShotType'
  BY DEF IInv, TypeInv, SnapsType, MemoryType, ShotType
<1> QED
  BY <1>2, <1>3, <1>4 DEF TypeInv

\* Under the discipline, operations run one at a time and on the main line.
LEMMA Working ==
    ASSUME Disciplined, Work
    PROVE  open /\ pc = "idle" /\ tag = 0
BY DEF Disciplined, Work, May

\* Nothing is going on.
LEMMA StaysIdle ==
    ASSUME pc = "idle", UNCHANGED call
    PROVE  InCall'
BY DEF InCall, call

\* treedb_update_node.
LEMMA UpdateNodeKeeps ==
    ASSUME TreeDbAssumption, Disciplined, IInv, NEW k \in Keys,
           NEW v \in Vals \union {Bad}, NEW k2 \in Key2s \union {Nil}, UpdateNode(k, v, k2)
    PROVE  IInv'
<1> DEFINE o == prim[k]
           hp == [heap EXCEPT ![o].val = v, ![o].k2 = k2]
<1>1. open /\ pc = "idle" /\ tag = 0 /\ o # Nil
  BY Working DEF UpdateNode
<1>2. v \in Vals /\ (TopicOf(k) \in Keyed => k2 = heap[o].k2)
  BY DEF UpdateNode, Disciplined, May
<1>3. HeapBut(hp, k)
  <2> SUFFICES ASSUME NEW j \in Keys, prim[j] # Nil
               PROVE  /\ prim[j] \in DOMAIN hp /\ IsNode(TopicOf(j), hp[prim[j]])
                      /\ hp[prim[j]].row = heap[prim[j]].row /\ hp[prim[j]].tag = heap[prim[j]].tag
                      /\ TopicOf(j) \in Keyed => hp[prim[j]].k2 = heap[prim[j]].k2
                      /\ j # k => Image(hp[prim[j]]) = Image(heap[prim[j]])
    BY DEF HeapBut
  <2>1. prim[j] \in DOMAIN heap /\ IsNode(TopicOf(j), heap[prim[j]])
    BY <1>1, HeapItself DEF HeapBut, IInv
  <2>2. CASE j = k
    <3>1. hp[o] = [heap[o] EXCEPT !.val = v, !.k2 = k2]
      BY <2>1, <2>2
    <3> PICK m : m = hp[o]
      OBVIOUS
    <3> PICK n : n = heap[o]
      OBVIOUS
    <3>2. m = [val |-> v, k2 |-> k2, up |-> n.up, down |-> n.down, row |-> n.row, tag |-> n.tag]
      BY <2>1, <2>2, <3>1 DEF IsNode
    <3>3. /\ m.val = v /\ m.k2 = k2 /\ m.up = n.up
          /\ m.down = n.down /\ m.row = n.row /\ m.tag = n.tag
      BY <3>2
    <3>4. n.up \in Ups(TopicOf(j)) /\ n.row \in Nat /\ n.tag \in Nat /\ k2 \in Key2Set
      BY <2>1, <2>2 DEF IsNode, Key2Set
    <3>5. IsNode(TopicOf(j), m) /\ m.row = n.row /\ m.tag = n.tag /\ m.k2 = k2
      BY <1>2, <3>2, <3>3, <3>4 DEF IsNode
    <3> QED
      BY <1>2, <2>1, <2>2, <3>5
  <2>3. CASE j # k
    <3>1. prim[j] # o
      BY <1>1, <2>3 DEF IInv, TypeInv, MemoryType
    <3>2. hp[prim[j]] = heap[prim[j]] /\ DOMAIN hp = DOMAIN heap
      BY <2>1, <3>1
    <3> QED
      BY <2>1, <3>2
  <2> QED
    BY <2>2, <2>3
<1>4. PICK fails \in Fails : Save(hp, o, fails)
  BY DEF UpdateNode
<1> HIDE DEF hp
<1>5. TypeInv' /\ MemoryLoaded' /\ SecLoaded' /\ TagsGiven' /\ SnapsKept'
  BY <1>1, <1>3, <1>4, SaveKeeps DEF UpdateNode
<1>6. InCall'
  BY <1>1, StaysIdle DEF UpdateNode
<1> QED
  BY <1>5, <1>6 DEF IInv

\* treedb_link_nodes.
LEMMA LinkNodesKeeps ==
    ASSUME TreeDbAssumption, Disciplined, IInv, NEW h \in Hooks, NEW c \in Keys,
           TopicOf(c) = h.child, NEW p \in Keys, LinkNodes(h, p, c)
    PROVE  IInv'
<1>1. open /\ pc = "idle" /\ tag = 0 /\ prim[p] # Nil /\ prim[c] # Nil /\ prim[p] # prim[c]
  BY Working DEF LinkNodes, LinkGuard
<1>2. HeapBut(heap, c) /\ h \in UpHooks(TopicOf(c))
  BY <1>1, HeapItself DEF IInv, UpHooks
<1>3. PICK hp : hp = Linked(heap, h, prim[p], prim[c])
  OBVIOUS
<1>4. HeapBut(hp, c)
  BY <1>1, <1>2, <1>3, LinkedBut DEF IInv, TypeInv
<1>5. PICK fails \in Fails : Save(hp, prim[c], fails)
  BY <1>3 DEF LinkNodes
<1>6. TypeInv' /\ MemoryLoaded' /\ SecLoaded' /\ TagsGiven' /\ SnapsKept'
  BY <1>1, <1>4, <1>5, SaveKeeps DEF LinkNodes
<1>7. InCall'
  BY <1>1, StaysIdle DEF LinkNodes
<1> QED
  BY <1>6, <1>7 DEF IInv

\* treedb_unlink_nodes.
LEMMA UnlinkNodesKeeps ==
    ASSUME TreeDbAssumption, Disciplined, IInv, NEW h \in Hooks, NEW c \in Keys,
           TopicOf(c) = h.child, NEW p \in Keys, UnlinkNodes(h, p, c)
    PROVE  IInv'
<1>1. open /\ pc = "idle" /\ tag = 0 /\ prim[p] # Nil /\ prim[c] # Nil /\ p # c
  BY Working DEF UnlinkNodes, UnlinkGuard, IInv, TypeInv, MemoryType
<1>2. HeapBut(heap, c) /\ h \in UpHooks(TopicOf(c))
  BY <1>1, HeapItself DEF IInv, UpHooks
<1>3. PICK hp : hp = Unlinked(heap, h, prim[p], prim[c])
  OBVIOUS
<1>4. HeapBut(hp, c)
  BY <1>1, <1>2, <1>3, UnlinkedBut DEF IInv, TypeInv
<1>5. PICK fails \in Fails : Save(hp, prim[c], fails)
  BY <1>3 DEF UnlinkNodes
<1>6. TypeInv' /\ MemoryLoaded' /\ SecLoaded' /\ TagsGiven' /\ SnapsKept'
  BY <1>1, <1>4, <1>5, SaveKeeps DEF UnlinkNodes
<1>7. InCall'
  BY <1>1, StaysIdle DEF UnlinkNodes
<1> QED
  BY <1>6, <1>7 DEF IInv

\* treedb_clean_node with save.
LEMMA CleanNodeKeeps ==
    ASSUME TreeDbAssumption, Disciplined, IInv, NEW k \in Keys, CleanNode(k)
    PROVE  IInv'
<1>1. open /\ pc = "idle" /\ tag = 0 /\ prim[k] # Nil
  BY Working DEF CleanNode
<1>2. PICK hp : hp = Cleaned(heap, prim[k])
  OBVIOUS
<1>3. HeapBut(hp, k)
  BY <1>1, <1>2, HeapItself, CleanedBut DEF IInv, TypeInv
<1>4. PICK fails \in Fails : Save(hp, prim[k], fails)
  BY <1>2 DEF CleanNode
<1>5. TypeInv' /\ MemoryLoaded' /\ SecLoaded' /\ TagsGiven' /\ SnapsKept'
  BY <1>1, <1>3, <1>4, SaveKeeps DEF CleanNode
<1>6. InCall'
  BY <1>1, StaysIdle DEF CleanNode
<1> QED
  BY <1>5, <1>6 DEF IInv

\* treedb_autolink with save.
LEMMA AutolinkKeeps ==
    ASSUME TreeDbAssumption, Disciplined, IInv, NEW h \in Hooks, NEW k \in Keys,
           TopicOf(k) = h.child, NEW p, NEW q, Autolink(k, h, p, q)
    PROVE  IInv'
<1> DEFINE o == prim[k]
           first == LinkNext([ok |-> TRUE, hp |-> heap], h, p, o)
           second == LinkNext(first, h, q, o)
<1>1. open /\ pc = "idle" /\ tag = 0 /\ o # Nil
  BY Working DEF Autolink
<1>2. /\ p \in Keys /\ prim[p] # Nil /\ prim[p] # o
      /\ q \in Keys /\ prim[q] # Nil /\ prim[q] # o
  BY DEF Autolink, Disciplined, May, There, LinkGuard
<1>3. HeapBut(heap, k) /\ h \in UpHooks(TopicOf(k))
  BY <1>1, HeapItself DEF IInv, UpHooks
<1>4. PICK hp : hp = Linked(heap, h, prim[p], o)
  OBVIOUS
<1>5. PICK hq : hq = Linked(hp, h, prim[q], o)
  OBVIOUS
<1>6. HeapBut(hp, k)
  BY <1>1, <1>2, <1>3, <1>4, LinkedBut DEF IInv, TypeInv
<1>7. HeapBut(hq, k)
  BY <1>1, <1>2, <1>3, <1>5, <1>6, LinkedBut DEF IInv, TypeInv
<1>8. first = [ok |-> TRUE, hp |-> hp]
  BY <1>2, <1>4 DEF LinkNext, There
<1>9. second.ok /\ second.hp = hq
  BY <1>2, <1>5, <1>8 DEF LinkNext, There
<1>10. PICK fails \in Fails : Save(hq, o, fails)
  BY <1>9 DEF Autolink
<1>11. TypeInv' /\ MemoryLoaded' /\ SecLoaded' /\ TagsGiven' /\ SnapsKept'
  BY <1>1, <1>7, <1>10, SaveKeeps DEF Autolink
<1>12. InCall'
  BY <1>1, StaysIdle DEF Autolink
<1> QED
  BY <1>11, <1>12 DEF IInv

---------------------------------------------------------------------------
(* Creating and deleting a node.                                           *)

\* A node is put in the index by id, as an object in the hooks of its parents.
Indexes(k, o, n) ==
    /\ prim' = [prim EXCEPT ![k] = o] /\ o # Nil /\ o \in ObjectSet /\ o.key = k
    /\ heap' = Living(WithNode(o, n), prim', sec')

\* What treedb_create_node writes, and what it puts in memory.
LEMMA CreateWrites ==
    ASSUME TreeDbAssumption, Disciplined, IInv, NEW k \in Keys, NEW v \in Vals,
           NEW k2 \in Key2s \union {Nil}, CreateNode(k, v, k2)
    PROVE  /\ Written(k, NewNode(k, v, k2))
           /\ Indexes(k, Obj(k, Len(log[TopicOf(k)]) + 1, FALSE), NewNode(k, v, k2))
<1> DEFINE t == TopicOf(k)
           r == Len(log[t]) + 1
<1>1. PICK n : n = NewNode(k, v, k2)
  OBVIOUS
<1>2. PICK o : o = Obj(k, r, FALSE)
  OBVIOUS
<1>3. open /\ tag = 0 /\ prim[k] = Nil
  BY Working DEF CreateNode, MayCreate, Disciplined, May
<1>4. /\ t \in Topics /\ log[t] \in Seq(RowSet(t)) /\ r \in Nat
      /\ \A j \in Keys : prim[j] # Nil => prim[j].key = j
      /\ DOMAIN prim = Keys
  BY KeyParts DEF IInv, TypeInv, MemoryType, LogType
<1>5. n = [val |-> v, k2 |-> k2, up |-> NoUp(t), down |-> NoDown(t), row |-> r, tag |-> 0]
  BY <1>1, <1>3 DEF NewNode, InheritLinks
<1>6. o # Nil /\ o.key = k /\ o \in ObjectSet
  <2>1. o = [key |-> k, row |-> r, second |-> FALSE]
    BY <1>2 DEF Obj
  <2>2. o \in [key : Keys, row : Nat, second : BOOLEAN]
    BY <1>4, <2>1
  <2>3. Nil \notin [key : Keys, row : Nat, second : BOOLEAN]
    BY DEF TreeDbAssumption
  <2> QED
    BY <2>1, <2>2, <2>3 DEF ObjectSet
<1>7. /\ log' = [log EXCEPT ![t] = Append(@, RowOf(k, n))]
      /\ prim' = [prim EXCEPT ![k] = o]
      /\ heap' = Living(WithNode(o, n), prim', sec')
  <2>1. n.row = r /\ Obj(k, n.row, ~(prim[k] = Nil)) = o
    BY <1>2, <1>3, <1>5
  <2>2. Fails = {FALSE}
    BY DEF Fails, May, Disciplined
  <2> QED
    BY <1>1, <1>3, <2>1, <2>2 DEF CreateNode
<1>8. IsNode(t, n) /\ n.row = r /\ n.tag = 0
  <2>1. NoUp(t) \in Ups(t)
    BY DEF NoUp, Ups
  <2> QED
    BY <1>4, <1>5, <2>1 DEF IsNode, Key2Set
<1>9. RowMore(k, RowOf(k, n), r)
  BY <1>4, <1>7, <1>8, RowsMore, RowOfNode DEF IInv, TypeInv
<1>10. PICK hp : hp = WithNode(o, n)
  OBVIOUS
<1>11. PICK p : p = prim'
  OBVIOUS
<1>12. \A j \in Keys : p[j] # Nil => p[j] \in DOMAIN heap' /\ heap'[p[j]] = hp[p[j]]
  <2> SUFFICES ASSUME NEW j \in Keys, p[j] # Nil
               PROVE  p[j] \in DOMAIN heap' /\ heap'[p[j]] = hp[p[j]]
    OBVIOUS
  <2>1. PICK s : s = sec'
    OBVIOUS
  <2>2. heap' = Living(hp, p, s)
    BY <1>7, <1>10, <1>11, <2>1
  <2>3. DOMAIN p = Keys
    BY <1>4, <1>7, <1>11
  <2>4. p[j] \in DOMAIN Living(hp, p, s) /\ Living(hp, p, s)[p[j]] = hp[p[j]]
    BY <2>3, LivingKeeps
  <2> QED
    BY <2>2, <2>4
<1>13. prim'[k] = o /\ prim'[k] \in DOMAIN heap' /\ heap'[prim'[k]] = n
  <2>1. hp[o] = n
    BY <1>10 DEF WithNode
  <2> QED
    BY <1>4, <1>6, <1>7, <1>11, <1>12, <2>1
<1>14. ASSUME NEW j \in Keys \ {k}
       PROVE  prim'[j] = prim[j] /\ SameNode(j)
  <2>1. prim'[j] = prim[j]
    BY <1>4, <1>7
  <2> SUFFICES ASSUME prim[j] # Nil
               PROVE  SameNode(j)
    BY <2>1 DEF SameNode
  <2>2. prim[j] # o
    BY <1>4, <1>6
  <2>3. prim[j] \in DOMAIN heap /\ IsNode(TopicOf(j), heap[prim[j]])
    BY <1>3, HeapItself DEF IInv, HeapBut
  <2>4. PICK d : hp[prim[j]] = [heap[prim[j]] EXCEPT !.down = d]
    BY <1>10, <2>2, <2>3 DEF WithNode
  <2>5. ButHooks(TopicOf(j), hp[prim[j]], heap[prim[j]])
    BY <2>3, <2>4, OtherHooks
  <2> QED
    BY <1>11, <1>12, <2>1, <2>5 DEF SameNode, ButHooks
<1>15. Written(k, n)
  BY <1>6, <1>8, <1>9, <1>13, <1>14 DEF Written
<1>16. Indexes(k, o, n)
  BY <1>6, <1>7 DEF Indexes
<1> QED
  BY <1>1, <1>2, <1>15, <1>16

\* treedb_create_node: the secondary index gets the same instance as the log.
LEMMA CreateNodeKeeps ==
    ASSUME TreeDbAssumption, Disciplined, IInv, NEW k \in Keys, NEW v \in Vals,
           NEW k2 \in Key2s \union {Nil}, CreateNode(k, v, k2)
    PROVE  IInv'
<1> DEFINE t == TopicOf(k)
           r == Len(log[t]) + 1
<1>1. PICK n : n = NewNode(k, v, k2)
  OBVIOUS
<1>2. PICK o : o = Obj(k, r, FALSE)
  OBVIOUS
<1>3. /\ open /\ tag = 0 /\ pc = "idle" /\ prim[k] = Nil
      /\ t \in Keyed => k2 \in Key2s
      /\ UNCHANGED <<snaps, open, tag, call, shot>>
  BY Working DEF CreateNode, MayCreate, Disciplined, May
<1>4. Written(k, n) /\ prim' = [prim EXCEPT ![k] = o]
  BY <1>1, <1>2, CreateWrites DEF Indexes
<1>5. LogType' /\ MemoryLoaded' /\ TagsGiven' /\ SnapsKept'
  BY <1>3, <1>4, WrittenKeeps DEF IInv
<1>6. r \in Nat /\ n.row = r /\ n.k2 = k2
  <2>1. log[t] \in Seq(RowSet(t))
    BY KeyParts DEF IInv, TypeInv, LogType
  <2> QED
    BY <1>1, <2>1 DEF NewNode
<1>7. o \in ObjectSet /\ o.key = k /\ o # Nil
  <2>1. o = [key |-> k, row |-> r, second |-> FALSE]
    BY <1>2 DEF Obj
  <2>2. o \in ObjectSet
    BY <1>6, <2>1 DEF ObjectSet
  <2> QED
    BY <2>1, <2>2 DEF ObjectSet, TreeDbAssumption
<1>8. t \in Keyed => \A x \in Key2s : sec[k][x] = Nil
  <2>1. Rows(k, 0) = {}
    BY <1>3 DEF IInv, MemoryLoaded, Loaded
  <2> QED
    BY <1>3, <2>1 DEF IInv, SecLoaded, KeyedKeys
<1>9. sec' = IF t \in Keyed THEN [sec EXCEPT ![k][k2] = o] ELSE sec
  <2>1. NewInstance(k, k2) <=> t \in Keyed
    BY <1>3, <1>8 DEF NewInstance
  <2>2. Fails = {FALSE}
    BY DEF Fails, May, Disciplined
  <2>3. NewNode(k, v, k2).row = r /\ Obj(k, NewNode(k, v, k2).row, ~(prim[k] = Nil)) = o
    BY <1>1, <1>2, <1>3, <1>6
  <2> QED
    BY <2>1, <2>2, <2>3 DEF CreateNode
<1>10. /\ sec \in [KeyedKeys -> [Key2s -> {Nil} \union ObjectSet]]
       /\ prim \in [Keys -> {Nil} \union ObjectSet]
       /\ \A j \in Keys : prim[j] # Nil => prim[j].key = j
       /\ t \in Keyed => k \in KeyedKeys
  BY DEF IInv, TypeInv, MemoryType, KeyedKeys
<1>11. sec' \in [KeyedKeys -> [Key2s -> {Nil} \union ObjectSet]]
  BY <1>7, <1>9, <1>10
<1>12. MemoryType'
  <2>1. prim' \in [Keys -> {Nil} \union ObjectSet]
    BY <1>4, <1>7, <1>10
  <2>2. \A j \in Keys : prim'[j] # Nil => prim'[j].key = j
    BY <1>4, <1>7, <1>10
  <2> QED
    BY <1>3, <1>11, <2>1, <2>2 DEF IInv, TypeInv, MemoryType, ObjectSet, KeyedKeys
<1>13. SecLoaded'
  <2> SUFFICES ASSUME NEW j \in KeyedKeys, NEW x \in Key2s
               PROVE  sec'[j][x] = Nil <=>
                         \A q \in Rows(j, 0)' : log'[TopicOf(j)][q].k2 # x
    BY <1>3 DEF SecLoaded, KeyedKeys
  <2>0. j \in Keys /\ TopicOf(j) \in Keyed /\ TopicOf(j) \in Topics
    BY KeyParts DEF KeyedKeys
  <2>1. CASE j = k
    <3>1. Rows(k, 0) = {}
      BY <1>3 DEF IInv, MemoryLoaded, Loaded
    <3>2. Rows(k, 0)' = {r}
      BY <1>4, <1>6, <3>1 DEF Written, RowMore
    <3>3. log'[t][r].k2 = k2
      BY <1>4, <1>6, RowOfNode DEF Written, RowMore
    <3>4. sec'[k][x] = IF x = k2 THEN o ELSE sec[k][x]
      BY <1>9, <1>10, <2>0, <2>1
    <3> QED
      BY <1>7, <1>8, <2>0, <2>1, <3>2, <3>3, <3>4
  <2>2. CASE j # k
    <3>1. Rows(j, 0)' = Rows(j, 0) \union
             (IF j = k /\ (0 = 0 \/ 0 = RowOf(k, n).tag) THEN {n.row} ELSE {})
      BY <1>4, <2>0 DEF Written, RowMore
    <3>2. Rows(j, 0)' = Rows(j, 0) \union {}
      BY <2>2, <3>1
    <3>3. \A q \in Rows(j, 0) : log'[TopicOf(j)][q] = log[TopicOf(j)][q]
      BY <1>4, <2>0, RowFacts DEF Written, RowMore, IInv, TypeInv
    <3>4. sec'[j][x] = sec[j][x]
      BY <1>9, <1>10, <2>2
    <3>5. sec[j][x] = Nil <=> \A q \in Rows(j, 0) : log[TopicOf(j)][q].k2 # x
      BY <1>3 DEF IInv, SecLoaded
    <3> QED
      BY <3>2, <3>3, <3>4, <3>5
  <2> QED
    BY <2>1, <2>2
<1>14. SnapsType' /\ ShotType' /\ InCall'
  BY <1>3, StaysIdle DEF IInv, TypeInv, SnapsType, ShotType
<1> QED
  BY <1>5, <1>12, <1>13, <1>14 DEF IInv, TypeInv

\* The node k, whose last row has the tag g, leaves the indexes and its snap.
Deleted(k, g) ==
    /\ prim[k] # Nil /\ g = log[TopicOf(k)][heap[prim[k]].row].tag
    /\ Marks(k, heap[prim[k]].row)
    /\ prim' = [prim EXCEPT ![k] = Nil]
    /\ sec' = IF TopicOf(k) \in Keyed THEN [sec EXCEPT ![k] = [k2 \in Key2s |-> Nil]] ELSE sec
    /\ shot' = [s \in DOMAIN shot |-> IF s = g /\ shot[s] # Nil THEN shot[s] \ {k} ELSE shot[s]]
    /\ \A j \in Keys \ {k} : SameNode(j)

\* The rows of the node that is deleted are gone for every load that met its
\* last one, and for no other.
LEMMA DeletedKeeps ==
    ASSUME TreeDbAssumption, IInv, open, tag = 0, UNCHANGED <<snaps, open, tag>>,
           NEW k \in Keys, NEW g, Deleted(k, g)
    PROVE  TypeInv' /\ MemoryLoaded' /\ SecLoaded' /\ TagsGiven' /\ SnapsKept'
<1> USE DEF IInv, TypeInv, Deleted
<1> DEFINE t == TopicOf(k)
<1>1. PICK r : r = heap[prim[k]].row
  OBVIOUS
<1>2. IsLast(r, Rows(k, 0))
  BY <1>1 DEF MemoryLoaded, Loaded
<1>3. /\ SameRows(k, r) /\ log'[t][r].tag = g
      /\ \A j \in Keys : \A s \in Nat :
            Rows(j, s)' = IF j = k /\ (s = 0 \/ s = g) THEN {} ELSE Rows(j, s)
  <2>1. Marks(k, r)
    BY <1>1 DEF Marks
  <2>2. g = log[t][r].tag
    BY <1>1
  <2> QED
    BY <1>2, <2>1, <2>2, RowsMarked
<1>4. r \in DOMAIN log[t] /\ g \in Nat /\ t \in Topics
  BY <1>1, <1>2, RowFacts, KeyParts DEF IsLast, RowSet
<1>5. /\ sec \in [KeyedKeys -> [Key2s -> {Nil} \union ObjectSet]]
      /\ prim \in [Keys -> {Nil} \union ObjectSet]
      /\ t \in Keyed => k \in KeyedKeys
  BY DEF MemoryType, KeyedKeys
<1>6. MemoryType'
  <2>1. sec' \in [KeyedKeys -> [Key2s -> {Nil} \union ObjectSet]]
    BY <1>5
  <2>2. prim' \in [Keys -> {Nil} \union ObjectSet]
    BY <1>5
  <2>3. \A j \in Keys : prim'[j] # Nil => prim'[j].key = j
    BY <1>5 DEF MemoryType
  <2> QED
    BY <2>1, <2>2, <2>3 DEF MemoryType, ObjectSet, KeyedKeys
<1>7. TypeInv'
  <2>1. LogType' /\ SnapsType'
    BY <1>3 DEF SameRows, SnapsType
  <2>2. ShotType'
    BY DEF ShotType
  <2> QED
    BY <1>6, <2>1, <2>2
<1>8. MemoryLoaded'
  <2> SUFFICES ASSUME NEW j \in Keys
               PROVE  Loaded(j, 0)'
    BY DEF MemoryLoaded
  <2>1. CASE j = k
    BY <1>3, <1>5, <2>1 DEF Loaded
  <2>2. CASE j # k
    <3>1. Loaded(j, 0) /\ prim'[j] = prim[j] /\ SameNode(j)
      BY <1>5, <2>2 DEF MemoryLoaded
    <3>2. \A s \in Nat : Rows(j, s)' = Rows(j, s)
      BY <1>3, <2>2
    <3>3. SameLoad(j, 0)
      BY <1>3, <3>2, KeyParts DEF SameLoad, SameRows
    <3> QED
      BY <3>1, <3>3, LoadedStays
  <2> QED
    BY <2>1, <2>2
<1>9. SecLoaded'
  <2> SUFFICES ASSUME NEW j \in KeyedKeys, NEW x \in Key2s
               PROVE  sec'[j][x] = Nil <=>
                         \A q \in Rows(j, 0)' : log'[TopicOf(j)][q].k2 # x
    BY DEF SecLoaded, KeyedKeys
  <2>0. j \in Keys /\ TopicOf(j) \in Keyed /\ TopicOf(j) \in Topics
    BY KeyParts DEF KeyedKeys
  <2>1. CASE j = k
    BY <1>3, <1>5, <2>0, <2>1
  <2>2. CASE j # k
    <3>1. Rows(j, 0)' = Rows(j, 0) /\ sec'[j][x] = sec[j][x]
      BY <1>3, <1>5, <2>0, <2>2
    <3>2. \A q \in Rows(j, 0) : log'[TopicOf(j)][q].k2 = log[TopicOf(j)][q].k2
      <4> SUFFICES ASSUME NEW q \in Rows(j, 0)
                   PROVE  log'[TopicOf(j)][q].k2 = log[TopicOf(j)][q].k2
        OBVIOUS
      <4>1. Image(log'[TopicOf(j)][q]) = Image(log[TopicOf(j)][q])
        BY <1>3, <2>0, RowFacts DEF SameRows
      <4> QED
        BY <4>1 DEF Image
    <3>3. sec[j][x] = Nil <=> \A q \in Rows(j, 0) : log[TopicOf(j)][q].k2 # x
      BY DEF SecLoaded
    <3> QED
      BY <3>1, <3>2, <3>3
  <2> QED
    BY <2>1, <2>2
<1>10. TagsGiven'
  <2>1. SnapCount' = SnapCount
    BY DEF SnapCount
  <2>2. \A u \in Topics : \A q \in DOMAIN log'[u] : log'[u][q].tag <= SnapCount
    <3> SUFFICES ASSUME NEW u \in Topics, NEW q \in DOMAIN log'[u]
                 PROVE  log'[u][q].tag = log[u][q].tag /\ q \in DOMAIN log[u]
      BY DEF TagsGiven
    <3> QED
      BY <1>1, <1>3, <1>4 DEF SameRows
  <2>3. \A s \in DOMAIN shot : shot[s] = Nil => shot'[s] = Nil
    OBVIOUS
  <2> QED
    BY <2>1, <2>2, <2>3 DEF TagsGiven
<1>11. SnapsKept'
  <2> SUFFICES ASSUME NEW s \in DOMAIN shot, shot'[s] # Nil
               PROVE  {j \in Keys : Rows(j, s)' # {}} = shot'[s]
    BY DEF SnapsKept
  <2>1. s \in Nat \ {0} /\ shot[s] # Nil /\ {j \in Keys : Rows(j, s) # {}} = shot[s]
    BY DEF ShotType, SnapsKept
  <2>2. CASE s = g
    <3>1. shot'[s] = shot[s] \ {k}
      BY <2>1, <2>2
    <3>2. \A j \in Keys : Rows(j, s)' = IF j = k THEN {} ELSE Rows(j, s)
      BY <1>3, <2>1, <2>2
    <3> QED
      BY <2>1, <3>1, <3>2
  <2>3. CASE s # g
    <3>1. shot'[s] = shot[s]
      BY <2>3
    <3>2. \A j \in Keys : Rows(j, s)' = Rows(j, s)
      BY <1>3, <2>1, <2>3
    <3> QED
      BY <2>1, <3>1, <3>2
  <2> QED
    BY <2>2, <2>3
<1> QED
  BY <1>7, <1>8, <1>9, <1>10, <1>11

\* With the same indexes, the objects are the same but for hooks.
LEMMA LivingSame ==
    ASSUME TypeInv, NEW hp, NEW p, NEW s, heap' = Living(hp, p, s), prim' = p, DOMAIN p = Keys,
           NEW j \in Keys, prim'[j] = prim[j],
           prim[j] # Nil => prim[j] \in DOMAIN heap /\ ButHooks(TopicOf(j), hp[prim[j]], heap[prim[j]])
    PROVE  SameNode(j)
<1> SUFFICES ASSUME prim[j] # Nil
             PROVE  SameNode(j)
  BY DEF SameNode
<1>1. p[j] \in DOMAIN Living(hp, p, s) /\ Living(hp, p, s)[p[j]] = hp[p[j]]
  BY LivingKeeps
<1>2. heap'[prim[j]] = hp[prim[j]] /\ prim[j] \in DOMAIN heap'
  BY <1>1
<1> QED
  BY <1>2 DEF SameNode, ButHooks

\* The snaps speak of the rows only.
LEMMA SnapsStay ==
    ASSUME TagsGiven, SnapsKept, UNCHANGED <<log, snaps, shot>>
    PROVE  TagsGiven' /\ SnapsKept'
<1>1. SnapCount' = SnapCount
  BY DEF SnapCount
<1>2. TagsGiven'
  BY <1>1 DEF TagsGiven
<1>3. SnapsKept'
  BY DEF SnapsKept, Rows
<1> QED
  BY <1>2, <1>3

\* Nothing changes but what hooks hold.
LEMMA NothingSaved ==
    ASSUME TreeDbAssumption, IInv, open, tag = 0, UNCHANGED <<log, snaps, open, tag, prim, sec, shot>>,
           \A j \in Keys : SameNode(j)
    PROVE  TypeInv' /\ MemoryLoaded' /\ SecLoaded' /\ TagsGiven' /\ SnapsKept'
<1> USE DEF IInv, TypeInv
<1>1. TypeInv'
  BY DEF LogType, SnapsType, MemoryType, ShotType
<1>2. \A j \in Keys : \A s \in Nat : Rows(j, s)' = Rows(j, s)
  BY DEF Rows
<1>3. MemoryLoaded'
  <2> SUFFICES ASSUME NEW j \in Keys
               PROVE  Loaded(j, 0)'
    BY DEF MemoryLoaded
  <2>1. Loaded(j, 0) /\ SameLoad(j, 0)
    BY <1>2 DEF MemoryLoaded, SameLoad
  <2> QED
    BY <2>1, LoadedStays
<1>4. SecLoaded'
  BY DEF SecLoaded, Rows
<1>5. TagsGiven' /\ SnapsKept'
  BY SnapsStay
<1> QED
  BY <1>1, <1>3, <1>4, <1>5

\* treedb_delete_node, with force or without, changes no other node; refused, not
\* even that one.
LEMMA DeleteNodeSame ==
    ASSUME TreeDbAssumption, Disciplined, IInv, NEW k \in Keys, NEW force \in BOOLEAN,
           DeleteNode(k, force)
    PROVE  /\ NoLinks(prim[k], force) => prim' = [prim EXCEPT ![k] = Nil]
           /\ ~NoLinks(prim[k], force) => UNCHANGED <<log, prim, sec, shot>> /\ SameNode(k)
           /\ Freed(prim[k], force) = heap
           /\ \A j \in Keys \ {k} : SameNode(j) /\ prim'[j] = prim[j]
<1> DEFINE o == prim[k]
<1>1. open /\ tag = 0 /\ o # Nil
  BY Working DEF DeleteNode
<1>2. HeapBut(heap, k) /\ HeapBut(Cleaned(heap, o), k)
  BY <1>1, HeapItself, CleanedBut DEF IInv, TypeInv
<1>3. Freed(o, force) = heap /\ (force => NoLinks(o, force))
  BY DEF DeleteNode, MayDelete, Freed, NoLinks, Disciplined, May
<1>4. PICK hp : hp = IF force THEN Cleaned(heap, o) ELSE heap
  OBVIOUS
<1>5. heap' = Living(hp, prim', sec') /\ HeapBut(hp, k)
  BY <1>2, <1>3, <1>4 DEF DeleteNode
<1>6. /\ NoLinks(o, force) => prim' = [prim EXCEPT ![k] = Nil]
      /\ ~NoLinks(o, force) => UNCHANGED <<log, prim, sec, shot>> /\ hp = heap
  BY <1>3, <1>4 DEF DeleteNode
<1>7. ASSUME NEW j \in Keys, j # k \/ hp = heap
      PROVE  prim[j] # Nil => /\ prim[j] \in DOMAIN heap
                              /\ ButHooks(TopicOf(j), hp[prim[j]], heap[prim[j]])
  BY <1>2, <1>5, <1>7 DEF HeapBut, ButHooks
<1>8. DOMAIN prim = Keys /\ TypeInv
  BY DEF IInv, TypeInv, MemoryType
<1>9. DOMAIN prim' = Keys /\ \A j \in Keys \ {k} : prim'[j] = prim[j]
  BY <1>6, <1>8
<1>10. ASSUME NEW j \in Keys, j # k \/ hp = heap, prim'[j] = prim[j]
       PROVE  SameNode(j)
  <2>1. PICK p : p = prim'
    OBVIOUS
  <2>2. PICK s : s = sec'
    OBVIOUS
  <2> QED
    BY <1>5, <1>7, <1>8, <1>9, <1>10, <2>1, <2>2, LivingSame
<1> QED
  BY <1>3, <1>6, <1>9, <1>10

\* treedb_delete_node.
LEMMA DeleteNodeKeeps ==
    ASSUME TreeDbAssumption, Disciplined, IInv, NEW k \in Keys, NEW force \in BOOLEAN,
           DeleteNode(k, force)
    PROVE  IInv'
<1> DEFINE t == TopicOf(k)
           o == prim[k]
<1>1. open /\ pc = "idle" /\ tag = 0 /\ o # Nil /\ UNCHANGED <<snaps, open, tag, call>>
  BY Working DEF DeleteNode
<1>2. InCall'
  BY <1>1, StaysIdle
<1>3. CASE NoLinks(o, force)
  <2>1. /\ Marks(k, heap[o].row)
        /\ prim' = [prim EXCEPT ![k] = Nil]
        /\ sec' = IF t \in Keyed THEN [sec EXCEPT ![k] = [k2 \in Key2s |-> Nil]] ELSE sec
    BY <1>3 DEF DeleteNode, Marks
  <2>2. PICK g : g = log[t][heap[o].row].tag
    OBVIOUS
  <2>3. shot' = [s \in DOMAIN shot |->
                    IF s = g /\ shot[s] # Nil THEN shot[s] \ {k} ELSE shot[s]]
    <3>1. shot' = [s \in DOMAIN shot |->
                      IF force /\ s = g /\ shot[s] # Nil THEN shot[s] \ {k} ELSE shot[s]]
      BY <1>3, <2>2 DEF DeleteNode
    <3>2. force \/ g = 0
      BY <2>2 DEF DeleteNode, MayDelete, Disciplined, May
    <3>3. \A s \in DOMAIN shot : s # 0
      BY DEF IInv, TypeInv, ShotType
    <3> QED
      BY <3>1, <3>2, <3>3
  <2>4. TypeInv' /\ MemoryLoaded' /\ SecLoaded' /\ TagsGiven' /\ SnapsKept'
    <3>1. Deleted(k, g)
      BY <1>1, <2>1, <2>2, <2>3, DeleteNodeSame DEF Deleted
    <3> QED
      BY <1>1, <3>1, DeletedKeeps
  <2> QED
    BY <1>2, <2>4 DEF IInv
<1>4. CASE ~NoLinks(o, force)
  <2>1. UNCHANGED <<log, prim, sec, shot>> /\ \A j \in Keys : SameNode(j)
    BY <1>4, DeleteNodeSame
  <2>2. TypeInv' /\ MemoryLoaded' /\ SecLoaded' /\ TagsGiven' /\ SnapsKept'
    BY <1>1, <2>1, NothingSaved
  <2> QED
    BY <1>2, <2>2 DEF IInv
<1> QED
  BY <1>3, <1>4

---------------------------------------------------------------------------
(* Opening and closing.                                                    *)

\* A load makes the node of its last row, if it has rows.
LEMMA LoadsLast ==
    ASSUME TreeDbAssumption, LogType, NEW k \in Keys, NEW s
    PROVE  /\ LoadRow(k, s) \in Nat
           /\ LoadRow(k, s) = 0 <=> Rows(k, s) = {}
           /\ LoadRow(k, s) # 0 => IsLast(LoadRow(k, s), Rows(k, s))
<1>1. PICK n : n = Len(log[TopicOf(k)])
  OBVIOUS
<1>2. PICK rows : rows = Rows(k, s)
  OBVIOUS
<1>3. n \in Nat /\ DOMAIN log[TopicOf(k)] = 1 .. n
  BY <1>1, KeyParts DEF LogType
<1>4. rows \in SUBSET (1 .. n)
  BY <1>2, <1>3 DEF Rows
<1>5. /\ rows = {} => LastOf(rows) = 0
      /\ rows # {} => LastOf(rows) # 0 /\ IsLast(LastOf(rows), rows)
      /\ LastOf(rows) \in Nat
  BY <1>3, <1>4, LastOfRows
<1> QED
  BY <1>2, <1>5 DEF LoadRow

\* And an instance of a secondary key if some row has that key.
LEMMA LoadsLast2 ==
    ASSUME TreeDbAssumption, LogType, NEW k \in Keys, NEW k2
    PROVE  /\ LoadRow2(k, k2) \in Nat
           /\ LoadRow2(k, k2) = 0 <=> \A r \in Rows(k, 0) : log[TopicOf(k)][r].k2 # k2
<1>1. PICK n : n = Len(log[TopicOf(k)])
  OBVIOUS
<1>2. PICK rows : rows = {r \in Rows(k, 0) : log[TopicOf(k)][r].k2 = k2}
  OBVIOUS
<1>3. n \in Nat /\ DOMAIN log[TopicOf(k)] = 1 .. n
  BY <1>1, KeyParts DEF LogType
<1>4. rows \in SUBSET (1 .. n)
  BY <1>2, <1>3 DEF Rows
<1>5. /\ rows = {} => LastOf(rows) = 0
      /\ rows # {} => LastOf(rows) # 0 /\ IsLast(LastOf(rows), rows)
      /\ LastOf(rows) \in Nat
  BY <1>3, <1>4, LastOfRows
<1>6. rows = {} <=> \A r \in Rows(k, 0) : log[TopicOf(k)][r].k2 # k2
  BY <1>2
<1>7. LoadRow2(k, k2) = LastOf(rows)
  BY <1>2 DEF LoadRow2
<1> QED
  BY <1>5, <1>6, <1>7

\* What a load makes is an object.
LEMMA ObjectMade ==
    ASSUME TreeDbAssumption, NEW k \in Keys, NEW r \in Nat
    PROVE  /\ Obj(k, r, FALSE) \in ObjectSet /\ Obj(k, r, TRUE) \in ObjectSet
           /\ Obj(k, r, FALSE) # Nil /\ Obj(k, r, TRUE) # Nil
           /\ Obj(k, r, FALSE).key = k /\ Obj(k, r, FALSE).row = r /\ ~Obj(k, r, FALSE).second
<1>1. \A second \in BOOLEAN : [key |-> k, row |-> r, second |-> second] \in ObjectSet
  BY DEF ObjectSet
<1>2. Obj(k, r, FALSE) \in ObjectSet /\ Obj(k, r, TRUE) \in ObjectSet
  BY <1>1 DEF Obj
<1>3. Nil \notin ObjectSet
  BY DEF ObjectSet, TreeDbAssumption
<1> QED
  BY <1>2, <1>3 DEF Obj

\* treedb_open_db: any tag may be loaded.
LEMMA OpenKeeps ==
    ASSUME TreeDbAssumption, IInv, Open
    PROVE  IInv'
<1> USE DEF IInv, TypeInv
<1>1. PICK s : s = ActiveTag
  OBVIOUS
<1>2. PICK p : p = LoadPrim(s)
  OBVIOUS
<1>3. PICK c : c = LoadSec
  OBVIOUS
<1>4. /\ ~open /\ open' = TRUE /\ tag' = s /\ prim' = p /\ sec' = c
      /\ heap' = LoadHeap(p, c)
      /\ UNCHANGED <<log, snaps, pc, arg, todo, shot>>
  BY <1>1, <1>2, <1>3 DEF Open, disk, call
<1>5. s \in Nat
  <2>1. PICK on : on = {n \in Names : snaps[n] # Nil /\ snaps[n].active}
    OBVIOUS
  <2>2. CASE on = {}
    BY <1>1, <2>1, <2>2 DEF ActiveTag
  <2>3. CASE on # {}
    <3>1. PICK tags : tags = {snaps[n].tag : n \in on}
      OBVIOUS
    <3>2. /\ tags \in SUBSET (1 .. SnapCount) /\ tags # {} /\ SnapCount \in Nat
      <4>1. SnapCount \in Nat
        BY SnapsCounted
      <4>2. \A n \in on : snaps[n].tag \in 1 .. SnapCount
        BY <2>1 DEF TagsGiven
      <4> HIDE DEF IInv, TypeInv
      <4> QED
        BY <2>3, <3>1, <4>1, <4>2
    <3>3. LastOf(tags) \in Nat
      BY <3>2, LastOfRows
    <3>4. s = LastOf(tags)
      BY <1>1, <2>1, <2>3, <3>1, <3>2 DEF ActiveTag, LastOf
    <3> QED
      BY <3>3, <3>4
  <2> QED
    BY <2>2, <2>3
<1>6. \A k \in Keys : p[k] = IF Rows(k, s) = {} THEN Nil ELSE Obj(k, LoadRow(k, s), FALSE)
  BY <1>2, LoadsLast DEF LoadPrim
<1>7. \A k \in KeyedKeys : \A x \in Key2s :
         c[k][x] = IF LoadRow2(k, x) = 0 THEN Nil ELSE Obj(k, LoadRow2(k, x), TRUE)
  BY <1>3 DEF LoadSec, KeyedKeys
<1>8. MemoryType'
  <2>2. ASSUME NEW k \in Keys
        PROVE  p[k] \in {Nil} \union ObjectSet /\ (p[k] # Nil => p[k].key = k)
    <3>1. PICK r : r = LoadRow(k, s)
      OBVIOUS
    <3>2. r \in Nat
      BY <3>1, LoadsLast
    <3>3. p[k] = Nil \/ p[k] = Obj(k, r, FALSE)
      BY <1>6, <3>1
    <3>4. Obj(k, r, FALSE) \in ObjectSet /\ Obj(k, r, FALSE).key = k
      BY <3>2, ObjectMade
    <3> QED
      BY <3>3, <3>4
  <2>1. p \in [Keys -> {Nil} \union ObjectSet]
    BY <1>2, <2>2 DEF LoadPrim
  <2>3. c \in [KeyedKeys -> [Key2s -> {Nil} \union ObjectSet]]
    <3>1. ASSUME NEW k \in KeyedKeys, NEW x \in Key2s
          PROVE  c[k][x] \in {Nil} \union ObjectSet
      <4>1. PICK r : r = LoadRow2(k, x)
        OBVIOUS
      <4>2. k \in Keys
        BY DEF KeyedKeys
      <4>3. r \in Nat
        BY <4>1, <4>2, LoadsLast2
      <4>4. c[k][x] = Nil \/ c[k][x] = Obj(k, r, TRUE)
        BY <1>7, <4>1
      <4>5. Obj(k, r, TRUE) \in ObjectSet
        BY <4>2, <4>3, ObjectMade
      <4> QED
        BY <4>4, <4>5
    <3>2. \A k \in KeyedKeys : c[k] = [x \in Key2s |-> c[k][x]]
      BY <1>3 DEF LoadSec, KeyedKeys
    <3>3. \A k \in KeyedKeys : c[k] \in [Key2s -> {Nil} \union ObjectSet]
      BY <3>1, <3>2
    <3>4. c = [k \in KeyedKeys |-> c[k]]
      BY <1>3 DEF LoadSec, KeyedKeys
    <3> QED
      BY <3>3, <3>4
  <2> QED
    BY <1>4, <1>5, <2>1, <2>2, <2>3 DEF MemoryType, ObjectSet, KeyedKeys
<1>9. TypeInv'
  BY <1>4, <1>8 DEF LogType, SnapsType, ShotType
<1>10. \A k \in Keys : \A g \in Nat : Rows(k, g)' = Rows(k, g)
  BY <1>4 DEF Rows
<1>11. MemoryLoaded'
  <2> SUFFICES ASSUME NEW k \in Keys
               PROVE  Loaded(k, s)'
    BY <1>4 DEF MemoryLoaded
  <2>1. CASE Rows(k, s) = {}
    <3>1. prim'[k] = Nil
      BY <1>4, <1>6, <2>1
    <3> QED
      BY <1>5, <1>10, <2>1, <3>1 DEF Loaded
  <2>2. CASE Rows(k, s) # {}
    <3> DEFINE t == TopicOf(k)
    <3>1. PICK r : r = LoadRow(k, s)
      OBVIOUS
    <3>2. PICK o : o = Obj(k, r, FALSE)
      OBVIOUS
    <3>3. r \in Nat /\ IsLast(r, Rows(k, s))
      BY <2>2, <3>1, LoadsLast
    <3>14. o # Nil /\ o.key = k /\ o.row = r /\ ~o.second
      BY <3>2, <3>3, ObjectMade
    <3>4. prim'[k] = o /\ p[k] = o /\ o # Nil /\ o.key = k /\ o.row = r /\ ~o.second
      BY <1>4, <1>6, <2>2, <3>1, <3>2, <3>14
    <3>5. o \in Objects(p, c)
      BY <1>2, <3>4 DEF Objects, LoadPrim
    <3>6. PICK d : heap'[o] = [Fresh(k, r) EXCEPT !.down = d] /\ o \in DOMAIN heap'
      BY <1>4, <3>4, <3>5 DEF LoadHeap
    <3>7. PICK w : w = log[t][r]
      OBVIOUS
    <3>8. w \in RowSet(t) /\ r \in Rows(k, s)
      BY <3>3, <3>7, RowFacts DEF IsLast
    <3>9. heap'[o] = [val |-> w.val, k2 |-> w.k2, up |-> w.up, down |-> d, row |-> r, tag |-> w.tag]
      BY <3>6, <3>7 DEF Fresh
    <3>10. PICK n : n = heap'[o]
      OBVIOUS
    <3>11. IsNode(t, n) /\ n.row = r /\ n.tag = w.tag /\ Image(n) = Image(w)
      BY <3>3, <3>8, <3>9, <3>10 DEF IsNode, RowSet, Image
    <3>12. \A g \in Nat \ {0} : n.tag = g => Rows(k, g) # {}
      <4> SUFFICES ASSUME NEW g \in Nat \ {0}, w.tag = g
                   PROVE  r \in Rows(k, g)
        BY <3>11
      <4> QED
        BY <3>7, <3>8, RowFacts
    <3> QED
      BY <1>4, <1>5, <1>10, <3>3, <3>4, <3>6, <3>7, <3>10, <3>11, <3>12 DEF Loaded
  <2> QED
    BY <2>1, <2>2
<1>12. SecLoaded'
  <2> SUFFICES ASSUME NEW k \in KeyedKeys, NEW x \in Key2s
               PROVE  c[k][x] = Nil <=> \A r \in Rows(k, 0) : log[TopicOf(k)][r].k2 # x
    BY <1>4, <1>10 DEF SecLoaded, KeyedKeys
  <2>1. k \in Keys
    BY DEF KeyedKeys
  <2>2. PICK r : r = LoadRow2(k, x)
    OBVIOUS
  <2>3. r \in Nat /\ (r = 0 <=> \A q \in Rows(k, 0) : log[TopicOf(k)][q].k2 # x)
    BY <2>1, <2>2, LoadsLast2
  <2>4. c[k][x] = IF r = 0 THEN Nil ELSE Obj(k, r, TRUE)
    BY <1>7, <2>2
  <2>5. Obj(k, r, TRUE) # Nil
    BY <2>1, <2>3, ObjectMade
  <2> QED
    BY <2>3, <2>4, <2>5
<1>13. TagsGiven' /\ SnapsKept'
  BY <1>4, SnapsStay
<1>14. InCall'
  BY <1>4 DEF InCall, Shooting
<1> QED
  BY <1>9, <1>11, <1>12, <1>13, <1>14

\* treedb_close_db, or the death of the process at any point.
LEMMA CloseKeeps ==
    ASSUME TreeDbAssumption, IInv, Close
    PROVE  IInv'
<1> USE DEF IInv, TypeInv
<1>1. /\ open' = FALSE /\ tag' = 0 /\ pc' = "idle"
      /\ prim' = [k \in Keys |-> Nil]
      /\ sec' = [k \in DOMAIN sec |-> [k2 \in Key2s |-> Nil]]
      /\ UNCHANGED <<log, snaps, shot>>
  BY DEF Close, disk
<1>2. TypeInv'
  <2>1. LogType' /\ SnapsType' /\ ShotType'
    BY <1>1 DEF LogType, SnapsType, ShotType
  <2>2. prim' \in [Keys -> {Nil} \union ObjectSet] /\ \A k \in Keys : prim'[k] = Nil
    BY <1>1
  <2>3. sec' \in [KeyedKeys -> [Key2s -> {Nil} \union ObjectSet]]
    BY <1>1 DEF MemoryType
  <2> QED
    BY <1>1, <2>1, <2>2, <2>3 DEF MemoryType, ObjectSet, KeyedKeys
<1>3. MemoryLoaded' /\ SecLoaded' /\ InCall'
  BY <1>1 DEF MemoryLoaded, SecLoaded, InCall
<1>4. TagsGiven' /\ SnapsKept'
  BY <1>1, SnapsStay
<1> QED
  BY <1>2, <1>3, <1>4


---------------------------------------------------------------------------
(* Snaps.                                                                  *)

\* Of the nodes and of the indexes, nothing changes.
LEMMA NodesKept ==
    ASSUME IInv, UNCHANGED <<log, memory>>
    PROVE  LogType' /\ MemoryType' /\ MemoryLoaded' /\ SecLoaded'
<1>1. UNCHANGED <<log, open, tag, heap, prim, sec>>
  BY DEF memory
<1>2. LogType' /\ MemoryType'
  BY <1>1 DEF IInv, TypeInv, LogType, MemoryType
<1>3. \A k \in Keys : \A s \in Nat : Rows(k, s)' = Rows(k, s)
  BY <1>1 DEF Rows
<1>4. \A k \in Keys : \A s \in Nat : Loaded(k, s) => Loaded(k, s)'
  <2> SUFFICES ASSUME NEW k \in Keys, NEW s \in Nat, Loaded(k, s)
               PROVE  Loaded(k, s)'
    OBVIOUS
  <2> QED
    BY <1>1, <1>3 DEF Loaded
<1>5. MemoryLoaded'
  BY <1>1, <1>4 DEF IInv, MemoryLoaded
<1>6. SecLoaded'
  BY <1>1, <1>3 DEF IInv, SecLoaded, KeyedKeys
<1> QED
  BY <1>2, <1>5, <1>6

\* treedb_shoot_snap starts with a tag that no row has.
LEMMA ShootSnapKeeps ==
    ASSUME TreeDbAssumption, Disciplined, IInv, NEW name \in Names, ShootSnap(name)
    PROVE  IInv'
<1> USE DEF IInv, TypeInv
<1>1. /\ open /\ pc = "idle" /\ tag = 0 /\ snaps[name] = Nil
      /\ pc' = "shoot" /\ arg' = name /\ UNCHANGED <<log, memory, shot>>
      /\ open' = open /\ tag' = tag /\ prim' = prim
      /\ todo' = {k \in Keys : prim[k] # Nil} \X {"save", "flag"}
  BY Working DEF ShootSnap, memory
<1>2. PICK s : s = SnapCount + 1
  OBVIOUS
<1>3. PICK new : new = [tag |-> s, active |-> FALSE]
  OBVIOUS
<1>4. s \in Nat /\ s > SnapCount /\ SnapCount \in Nat /\ s \in 1 .. s
  BY <1>2, SnapsCounted
<1>5. new \in SnapSet /\ new # Nil /\ new.tag = s
  <2>1. new \in SnapSet
    BY <1>3, <1>4 DEF SnapSet
  <2>2. Nil \notin SnapSet
    BY DEF SnapSet, TreeDbAssumption
  <2> QED
    BY <1>3, <2>1, <2>2
<1>6. snaps \in [Names -> {Nil} \union SnapSet] /\ snaps' = [snaps EXCEPT ![name] = new]
  <2>1. NextTag = s
    BY <1>2, SnapsCounted DEF NextTag, SnapCount
  <2> QED
    BY <1>3, <2>1 DEF SnapsType, ShootSnap
<1>7. SnapsType'
  BY <1>5, <1>6 DEF SnapsType, SnapSet
<1>8. SnapCount' = s
  <2>1. PICK S : S = {n \in Names : snaps[n] # Nil}
    OBVIOUS
  <2>2. {n \in Names : snaps'[n] # Nil} = S \union {name} /\ name \notin S
    BY <1>1, <1>5, <1>6, <2>1
  <2>3. IsFiniteSet(S) /\ SnapCount = Cardinality(S)
    BY <2>1, SnapsCounted DEF SnapCount
  <2>4. Cardinality(S \union {name}) = Cardinality(S) + 1
    BY <2>2, <2>3, FS_AddElement
  <2> QED
    BY <1>2, <2>2, <2>3, <2>4 DEF SnapCount
<1>9. \A t \in Topics : \A r \in DOMAIN log[t] : log[t][r].tag \in Nat /\ log[t][r].tag <= SnapCount
  <2> SUFFICES ASSUME NEW t \in Topics, NEW r \in DOMAIN log[t]
               PROVE  log[t][r].tag \in Nat /\ log[t][r].tag <= SnapCount
    OBVIOUS
  <2>1. log[t] \in Seq(RowSet(t))
    BY DEF LogType
  <2>2. log[t][r] \in RowSet(t)
    BY <2>1
  <2> QED
    BY <2>2 DEF TagsGiven, RowSet
<1>10. TagsGiven'
  <2>1. \A t \in Topics : \A r \in DOMAIN log'[t] : log'[t][r].tag <= s
    BY <1>1, <1>4, <1>9
  <2>2. \A n \in Names : snaps'[n] # Nil => snaps'[n].tag \in 1 .. s
    BY <1>4, <1>5, <1>6 DEF TagsGiven
  <2>3. \A x \in DOMAIN shot : x > s => shot[x] = Nil
    BY <1>4 DEF TagsGiven, ShotType
  <2> QED
    BY <1>1, <1>8, <2>1, <2>2, <2>3 DEF TagsGiven
<1>11. SnapsKept' /\ ShotType'
  BY <1>1 DEF SnapsKept, Rows, ShotType
<1>12. Shooting(s)'
  <2>1. s \in DOMAIN shot => shot[s] = Nil
    BY <1>4 DEF TagsGiven
  <2>2. ASSUME NEW k \in Keys
        PROVE  Untagged(k, s)'
    <3>1. TopicOf(k) \in Topics
      BY KeyParts
    <3> QED
      BY <1>1, <1>4, <1>9, <3>1 DEF Untagged
  <2>3. \A k \in Keys : prim[k] # Nil => <<k, "flag">> \in todo'
    BY <1>1
  <2>4. \A k \in Keys : <<k, "flag">> \in todo' => <<k, "save">> \in todo'
    BY <1>1
  <2>5. todo' \subseteq {k \in Keys : prim[k] # Nil} \X {"save", "flag"}
    BY <1>1
  <2> QED
    BY <1>1, <2>1, <2>2, <2>3, <2>4, <2>5 DEF Shooting
<1>13. InCall'
  BY <1>1, <1>5, <1>6, <1>12 DEF InCall
<1> QED
  BY <1>1, <1>7, <1>10, <1>11, <1>13, NodesKept

\* The snap that is being shot.
LEMMA InShoot ==
    ASSUME TreeDbAssumption, IInv, pc = "shoot", NEW s, s = snaps[arg].tag
    PROVE  /\ arg \in Names /\ snaps[arg] # Nil
           /\ s \in Nat \ {0} /\ s \in 1 .. SnapCount /\ SnapCount \in Nat /\ Shooting(s)
           /\ open /\ tag = 0
<1>1. arg \in Names /\ snaps[arg] # Nil
  BY DEF IInv, InCall
<1>2. SnapCount \in Nat /\ s \in 1 .. SnapCount
  BY <1>1, SnapsCounted DEF IInv, TagsGiven
<1>3. s \in Nat \ {0}
  BY <1>2
<1>4. Shooting(s)
  BY <1>3 DEF IInv, InCall
<1> QED
  BY <1>1, <1>2, <1>3, <1>4 DEF Shooting

\* The row that a shoot writes has the tag that the node had, not yet the one of
\* the snap.
LEMMA ShootSaveKeeps ==
    ASSUME TreeDbAssumption, Disciplined, IInv, NEW k \in Keys, ShootSave(k)
    PROVE  IInv'
<1> DEFINE t == TopicOf(k)
<1>1. PICK s : s = snaps[arg].tag
  OBVIOUS
<1>2. /\ pc = "shoot" /\ <<k, "save">> \in todo
      /\ \A j \in Keys : <<j, "flag">> \in todo => <<j, "save">> \in todo
      /\ todo' = todo \ {<<k, "save">>}
      /\ UNCHANGED <<snaps, open, tag, prim, sec, pc, arg, shot>>
  BY DEF ShootSave
<1>3. /\ arg \in Names /\ snaps[arg] # Nil /\ s \in Nat \ {0} /\ Shooting(s) /\ open /\ tag = 0
  BY <1>1, <1>2, InShoot
<1>4. prim[k] # Nil /\ <<k, "flag">> \in todo /\ Untagged(k, s)
  BY <1>2, <1>3 DEF Shooting
<1>5. HeapBut(heap, k)
  BY <1>3, HeapItself DEF IInv
<1>6. PICK fails \in Fails : Save(heap, prim[k], fails)
  BY DEF ShootSave
<1>7. TypeInv' /\ MemoryLoaded' /\ SecLoaded' /\ TagsGiven' /\ SnapsKept'
  BY <1>2, <1>3, <1>4, <1>5, <1>6, SaveKeeps
<1>8. PICK n : Written(k, n) /\ n.tag = heap[prim[k]].tag
  BY <1>2, <1>3, <1>4, <1>5, <1>6, SaveWrites DEF IInv
<1>9. PICK w : w = RowOf(k, n)
  OBVIOUS
<1>10. /\ w.id = IdOf(k) /\ w.tag = n.tag
       /\ log'[t][n.row] = w
       /\ \A u \in Topics : \A r \in DOMAIN log'[u] :
             /\ r \in DOMAIN log[u] \/ (u = t /\ r = n.row)
             /\ r \in DOMAIN log[u] => log'[u][r] = log[u][r]
       /\ \A r \in DOMAIN log[t] : r < n.row
       /\ n.row \in Nat /\ n.tag \in Nat /\ heap'[prim[k]] = n
  <2>1. IsNode(t, n) /\ RowMore(k, w, n.row) /\ heap'[prim[k]] = n
    BY <1>2, <1>8, <1>9 DEF Written
  <2> QED
    BY <1>9, <2>1, RowOfNode DEF RowMore, IsNode
<1>11. \A j \in Keys : \A x \in Nat : Rows(j, x) \subseteq Rows(j, x)'
  BY <1>8 DEF Written, RowMore
<1>12. w.tag # s
  <2> SUFFICES ASSUME n.tag = s
               PROVE  FALSE
    BY <1>10
  <2>1. PICK q : q \in Rows(k, s)
    BY <1>3, <1>8 DEF Written
  <2>2. q \in DOMAIN log[t] /\ log[t][q].id = IdOf(k) /\ log[t][q].tag = s
    BY <1>3, <2>1, RowFacts DEF IInv, TypeInv
  <2> QED
    BY <1>4, <2>2 DEF Untagged
<1>13. ASSUME NEW j \in Keys, Untagged(j, s)
       PROVE  Untagged(j, s)'
  <2>1. TopicOf(j) \in Topics
    BY KeyParts
  <2> SUFFICES ASSUME NEW r \in DOMAIN log'[TopicOf(j)], log'[TopicOf(j)][r].id = IdOf(j)
               PROVE  log'[TopicOf(j)][r].tag # s
    BY DEF Untagged
  <2>2. CASE r \in DOMAIN log[TopicOf(j)]
    BY <1>10, <1>13, <2>1, <2>2 DEF Untagged
  <2>3. CASE r \notin DOMAIN log[TopicOf(j)]
    BY <1>10, <1>12, <2>1, <2>3
  <2> QED
    BY <2>2, <2>3
<1>14. Saved(k)'
  <2>1. heap'[prim'[k]] = n /\ log'[t][n.row].tag = n.tag
    BY <1>2, <1>10
  <2>2. ASSUME NEW g \in Nat \ {0}, n.tag = g
        PROVE  \E q \in Rows(k, g)' : q # n.row
    <3>1. PICK q : q \in Rows(k, g)
      BY <1>8, <2>2 DEF Written
    <3>2. q \in DOMAIN log[t] /\ q \in Nat
      BY <3>1, RowFacts DEF IInv, TypeInv
    <3>3. q < n.row
      BY <1>10, <3>2
    <3>4. q # n.row
      BY <1>10, <3>2, <3>3
    <3> QED
      BY <1>11, <3>1, <3>4
  <2> QED
    BY <2>1, <2>2 DEF Saved
<1>15. Shooting(s)'
  <2>1. ASSUME NEW j \in Keys
        PROVE  /\ (prim'[j] = Nil \/ <<j, "flag">> \in todo') => Untagged(j, s)'
               /\ prim'[j] # Nil /\ <<j, "flag">> \notin todo' =>
                     <<j, "save">> \notin todo' /\ Rows(j, s)' # {}
               /\ <<j, "flag">> \in todo' /\ <<j, "save">> \notin todo' => Saved(j)'
    <3>1. <<j, "flag">> \in todo' <=> <<j, "flag">> \in todo
      BY <1>2
    <3>2. <<j, "save">> \in todo' => <<j, "save">> \in todo
      BY <1>2
    <3>3. (prim[j] = Nil \/ <<j, "flag">> \in todo) => Untagged(j, s)'
      BY <1>3, <1>13 DEF Shooting
    <3>4. prim[j] # Nil /\ <<j, "flag">> \notin todo => <<j, "save">> \notin todo /\ Rows(j, s)' # {}
      BY <1>3, <1>11 DEF Shooting
    <3>5. <<j, "flag">> \in todo' /\ <<j, "save">> \notin todo' => j = k
      BY <1>2, <3>1
    <3> QED
      BY <1>2, <1>14, <3>1, <3>2, <3>3, <3>4, <3>5
  <2>2. /\ s \in DOMAIN shot => shot[s] = Nil
        /\ todo \subseteq {j \in Keys : prim[j] # Nil} \X {"save", "flag"}
    BY <1>3 DEF Shooting
  <2>3. /\ open' /\ tag' = 0
        /\ s \in DOMAIN shot' => shot'[s] = Nil
        /\ todo' \subseteq {j \in Keys : prim'[j] # Nil} \X {"save", "flag"}
    BY <1>2, <1>3, <2>2
  <2> QED
    BY <2>1, <2>3 DEF Shooting
<1>16. InCall'
  BY <1>1, <1>2, <1>3, <1>15 DEF InCall
<1> QED
  BY <1>7, <1>16 DEF IInv

\* A node is tagged on the row that its shoot wrote: the tag that it had is
\* also on an earlier row.
LEMMA ShootFlagKeeps ==
    ASSUME TreeDbAssumption, Disciplined, IInv, NEW k \in Keys, ShootFlag(k)
    PROVE  IInv'
<1> USE DEF IInv, TypeInv
<1> DEFINE t == TopicOf(k)
<1>1. PICK s : s = snaps[arg].tag
  OBVIOUS
<1>2. PICK r : r = heap[prim[k]].row
  OBVIOUS
<1>3. /\ pc = "shoot" /\ <<k, "flag">> \in todo /\ <<k, "save">> \notin todo
      /\ Tags(k, r, s) /\ todo' = todo \ {<<k, "flag">>}
      /\ UNCHANGED <<snaps, open, tag, heap, prim, sec, pc, arg, shot>>
  BY <1>1, <1>2 DEF ShootFlag, Tags, memory
<1>4. /\ arg \in Names /\ snaps[arg] # Nil /\ s \in Nat \ {0} /\ s <= SnapCount
      /\ Shooting(s) /\ open /\ tag = 0
  <2>1. /\ arg \in Names /\ snaps[arg] # Nil /\ s \in Nat \ {0} /\ s \in 1 .. SnapCount
        /\ SnapCount \in Nat /\ Shooting(s) /\ open /\ tag = 0
    BY <1>1, <1>3, InShoot
  <2> QED
    BY <2>1
<1>5. prim[k] # Nil /\ Untagged(k, s) /\ Saved(k)
  BY <1>3, <1>4 DEF Shooting
<1>6. \A j \in Keys : Loaded(j, 0)
  BY <1>4 DEF MemoryLoaded
<1>7. IsLast(r, Rows(k, 0))
  BY <1>2, <1>5, <1>6 DEF Loaded
<1>8. /\ SameRows(k, r) /\ log'[t][r].tag = s
      /\ \A j \in Keys : \A x \in Nat :
            Rows(j, x)' = IF j # k \/ x = 0 THEN Rows(j, x)
                          ELSE IF x = s THEN {r} ELSE Rows(j, x) \ {r}
  BY <1>3, <1>4, <1>5, <1>7, RowsTagged
<1>9. r \in DOMAIN log[t] /\ log[t][r].id = IdOf(k) /\ t \in Topics
  BY <1>7, RowFacts, KeyParts DEF IsLast
<1>10. \A j \in Keys : Rows(j, 0)' = Rows(j, 0)
  BY <1>8
<1>11. ASSUME NEW j \in Keys, NEW g \in Nat \ {0}
       PROVE  Rows(j, g) # {} => Rows(j, g)' # {}
  <2>1. CASE j # k
    BY <1>8, <2>1
  <2>2. CASE j = k /\ g = s
    BY <1>8, <2>2
  <2>3. CASE j = k /\ g # s
    <3>1. Rows(k, g)' = Rows(k, g) \ {r}
      BY <1>8, <2>3
    <3> SUFFICES ASSUME r \in Rows(k, g)
                 PROVE  \E q \in Rows(k, g) : q # r
      BY <2>3, <3>1
    <3>2. log[t][r].tag = g
      BY RowFacts
    <3> QED
      BY <1>2, <1>5, <3>2 DEF Saved
  <2> QED
    BY <2>1, <2>2, <2>3
<1>12. ASSUME NEW j \in Keys, NEW g \in Nat \ {0}, g # s
       PROVE  Rows(j, g)' \subseteq Rows(j, g)
  BY <1>8, <1>12
<1>13. \A j \in Keys : \A q \in DOMAIN log[TopicOf(j)] :
          Image(log'[TopicOf(j)][q]) = Image(log[TopicOf(j)][q])
  BY <1>8, KeyParts DEF SameRows
<1>14. TypeInv'
  <2>1. LogType'
    BY <1>8 DEF SameRows
  <2>2. SnapsType' /\ MemoryType' /\ ShotType'
    BY <1>3 DEF SnapsType, MemoryType, ShotType
  <2> QED
    BY <2>1, <2>2
<1>15. MemoryLoaded'
  <2> SUFFICES ASSUME NEW j \in Keys
               PROVE  Loaded(j, 0)'
    BY <1>3, <1>4 DEF MemoryLoaded
  <2>1. SameNode(j)
    BY <1>3, <1>6 DEF SameNode, Loaded
  <2>2. SameLoad(j, 0)
    BY <1>10, <1>11, <1>13 DEF SameLoad
  <2> QED
    BY <1>3, <1>6, <2>1, <2>2, LoadedStays
<1>16. SecLoaded'
  <2> SUFFICES ASSUME NEW j \in KeyedKeys, NEW x \in Key2s
               PROVE  sec[j][x] = Nil <=> \A q \in Rows(j, 0)' : log'[TopicOf(j)][q].k2 # x
    BY <1>3 DEF SecLoaded, KeyedKeys
  <2>0. j \in Keys
    BY DEF KeyedKeys
  <2>1. \A q \in Rows(j, 0) : log'[TopicOf(j)][q].k2 = log[TopicOf(j)][q].k2
    <3> SUFFICES ASSUME NEW q \in Rows(j, 0)
                 PROVE  log'[TopicOf(j)][q].k2 = log[TopicOf(j)][q].k2
      OBVIOUS
    <3>1. Image(log'[TopicOf(j)][q]) = Image(log[TopicOf(j)][q])
      BY <1>13, <2>0, RowFacts
    <3> QED
      BY <3>1 DEF Image
  <2>2. sec[j][x] = Nil <=> \A q \in Rows(j, 0) : log[TopicOf(j)][q].k2 # x
    BY <1>4 DEF SecLoaded
  <2> QED
    BY <1>10, <2>0, <2>1, <2>2
<1>17. TagsGiven'
  <2>1. SnapCount' = SnapCount
    BY <1>3 DEF SnapCount
  <2>2. \A u \in Topics : \A q \in DOMAIN log'[u] : log'[u][q].tag <= SnapCount
    BY <1>4, <1>8, <1>9 DEF SameRows, TagsGiven
  <2> QED
    BY <1>3, <2>1, <2>2 DEF TagsGiven
<1>18. SnapsKept'
  <2> SUFFICES ASSUME NEW x \in DOMAIN shot, shot[x] # Nil
               PROVE  {j \in Keys : Rows(j, x)' # {}} = shot[x]
    BY <1>3 DEF SnapsKept
  <2>1. x \in Nat \ {0} /\ x # s
    BY <1>4 DEF ShotType, Shooting
  <2>2. \A j \in Keys : Rows(j, x)' # {} <=> Rows(j, x) # {}
    BY <1>11, <1>12, <2>1
  <2> QED
    BY <2>2 DEF SnapsKept
<1>19. ASSUME NEW j \in Keys, NEW q \in DOMAIN log[TopicOf(j)], log[TopicOf(j)][q].id = IdOf(j), j # k
       PROVE  log'[TopicOf(j)][q] = log[TopicOf(j)][q]
  <2>1. ~(TopicOf(j) = t /\ q = r)
    BY <1>9, <1>19, KeyParts
  <2> QED
    BY <1>8, <1>19, <2>1, KeyParts DEF SameRows
<1>20. ASSUME NEW j \in Keys, j # k, Untagged(j, s)
       PROVE  Untagged(j, s)'
  <2> SUFFICES ASSUME NEW q \in DOMAIN log'[TopicOf(j)], log'[TopicOf(j)][q].id = IdOf(j)
               PROVE  log'[TopicOf(j)][q].tag # s
    BY DEF Untagged
  <2>1. q \in DOMAIN log[TopicOf(j)] /\ log[TopicOf(j)][q].id = IdOf(j)
    BY <1>8, KeyParts DEF SameRows
  <2> QED
    BY <1>19, <1>20, <2>1 DEF Untagged
<1>21. ASSUME NEW j \in Keys, j # k, prim[j] # Nil, Saved(j)
       PROVE  Saved(j)'
  <2>1. PICK n : n = heap[prim[j]]
    OBVIOUS
  <2>2. heap'[prim'[j]] = n
    BY <1>3, <2>1
  <2>3. n.row \in Rows(j, 0)
    BY <1>6, <1>21, <2>1 DEF Loaded, IsLast
  <2>4. log'[TopicOf(j)][n.row] = log[TopicOf(j)][n.row]
    BY <1>19, <1>21, <2>3, RowFacts
  <2>5. \A g \in Nat : Rows(j, g)' = Rows(j, g)
    BY <1>8, <1>21
  <2> QED
    BY <1>21, <2>1, <2>2, <2>4, <2>5 DEF Saved
<1>22. Shooting(s)'
  <2>1. ASSUME NEW j \in Keys
        PROVE  /\ (prim'[j] = Nil \/ <<j, "flag">> \in todo') => Untagged(j, s)'
               /\ prim'[j] # Nil /\ <<j, "flag">> \notin todo' =>
                     <<j, "save">> \notin todo' /\ Rows(j, s)' # {}
               /\ <<j, "flag">> \in todo' /\ <<j, "save">> \notin todo' => Saved(j)'
    <3>1. CASE j = k
      <4>1. prim'[k] # Nil /\ <<k, "flag">> \notin todo' /\ <<k, "save">> \notin todo'
        BY <1>3, <1>5
      <4>2. Rows(k, s)' # {}
        BY <1>4, <1>8
      <4> QED
        BY <3>1, <4>1, <4>2
    <3>2. CASE j # k
      <4>1. /\ <<j, "flag">> \in todo' <=> <<j, "flag">> \in todo
            /\ <<j, "save">> \in todo' <=> <<j, "save">> \in todo
        BY <1>3, <3>2
      <4>2. /\ (prim[j] = Nil \/ <<j, "flag">> \in todo) => Untagged(j, s)'
            /\ prim[j] # Nil /\ <<j, "flag">> \notin todo =>
                  <<j, "save">> \notin todo /\ Rows(j, s)' # {}
        BY <1>4, <1>11, <1>20, <3>2 DEF Shooting
      <4>3. <<j, "flag">> \in todo => prim[j] # Nil
        BY <1>4 DEF Shooting
      <4>4. <<j, "flag">> \in todo /\ <<j, "save">> \notin todo => Saved(j)'
        BY <1>4, <1>21, <3>2, <4>3 DEF Shooting
      <4> QED
        BY <1>3, <4>1, <4>2, <4>4
    <3> QED
      BY <3>1, <3>2
  <2>2. /\ s \in DOMAIN shot => shot[s] = Nil
        /\ todo \subseteq {j \in Keys : prim[j] # Nil} \X {"save", "flag"}
    BY <1>4 DEF Shooting
  <2>3. /\ open' /\ tag' = 0
        /\ s \in DOMAIN shot' => shot'[s] = Nil
        /\ todo' \subseteq {j \in Keys : prim'[j] # Nil} \X {"save", "flag"}
    BY <1>3, <1>4, <2>2
  <2> QED
    BY <2>1, <2>3 DEF Shooting
<1>23. InCall'
  BY <1>1, <1>3, <1>4, <1>22 DEF InCall
<1> QED
  BY <1>14, <1>15, <1>16, <1>17, <1>18, <1>23

\* The snap ends with the nodes that have its tag.
LEMMA ShootEndKeeps ==
    ASSUME TreeDbAssumption, IInv, ShootEnd
    PROVE  IInv'
<1> USE DEF IInv, TypeInv
<1>1. PICK s : s = snaps[arg].tag
  OBVIOUS
<1>2. /\ pc = "shoot" /\ todo = {} /\ pc' = "idle"
      /\ shot' = [shot EXCEPT ![s] = {k \in Keys : prim[k] # Nil}]
      /\ UNCHANGED <<log, memory>> /\ UNCHANGED snaps
  BY <1>1 DEF ShootEnd, disk
<1>3. s \in Nat \ {0} /\ s \in 1 .. SnapCount /\ SnapCount \in Nat /\ Shooting(s)
  BY <1>1, <1>2, InShoot
<1>4. \A k \in Keys : \A x \in Nat : Rows(k, x)' = Rows(k, x)
  BY <1>2 DEF Rows
<1>5. ASSUME NEW k \in Keys
      PROVE  Rows(k, s) # {} <=> prim[k] # Nil
  <2>1. CASE prim[k] = Nil
    <3>1. Untagged(k, s)
      BY <1>3, <2>1 DEF Shooting
    <3>2. ASSUME NEW q \in Rows(k, s)
          PROVE  FALSE
      <4>1. q \in DOMAIN log[TopicOf(k)] /\ log[TopicOf(k)][q].id = IdOf(k) /\ log[TopicOf(k)][q].tag = s
        BY <1>3, RowFacts
      <4> QED
        BY <3>1, <4>1 DEF Untagged
    <3> QED
      BY <2>1, <3>2
  <2>2. CASE prim[k] # Nil
    BY <1>2, <1>3, <2>2 DEF Shooting
  <2> QED
    BY <2>1, <2>2
<1>6. SnapsKept'
  <2> SUFFICES ASSUME NEW x \in DOMAIN shot, shot'[x] # Nil
               PROVE  {k \in Keys : Rows(k, x) # {}} = shot'[x]
    <3>1. DOMAIN shot' = DOMAIN shot /\ \A x \in DOMAIN shot : x \in Nat
      BY <1>2 DEF ShotType
    <3>2. \A x \in DOMAIN shot : {k \in Keys : Rows(k, x)' # {}} = {k \in Keys : Rows(k, x) # {}}
      BY <1>4, <3>1
    <3> QED
      BY <3>1, <3>2 DEF SnapsKept
  <2>1. CASE x = s
    BY <1>2, <1>5, <2>1
  <2>2. CASE x # s
    BY <1>2, <2>2 DEF SnapsKept
  <2> QED
    BY <2>1, <2>2
<1>7. TagsGiven'
  <2>1. SnapCount' = SnapCount
    BY <1>2 DEF SnapCount
  <2>2. \A x \in DOMAIN shot : x > SnapCount => shot'[x] = Nil
    <3> SUFFICES ASSUME NEW x \in DOMAIN shot, x > SnapCount
                 PROVE  shot'[x] = shot[x]
      BY DEF TagsGiven
    <3>1. x # s
      BY <1>3
    <3> QED
      BY <1>2, <3>1
  <2> QED
    BY <1>2, <2>1, <2>2 DEF TagsGiven
<1>8. SnapsType' /\ ShotType' /\ InCall'
  BY <1>2 DEF SnapsType, ShotType, InCall
<1> QED
  BY <1>2, <1>6, <1>7, <1>8, NodesKept

\* The snaps are the same but for which one is active.
LEMMA ActiveKeeps ==
    ASSUME TreeDbAssumption, IInv, UNCHANGED <<log, memory, shot>>, SnapsType',
           \A n \in Names : /\ snaps'[n] = Nil <=> snaps[n] = Nil
                            /\ snaps[n] # Nil => snaps'[n].tag = snaps[n].tag
    PROVE  TypeInv' /\ MemoryLoaded' /\ SecLoaded' /\ TagsGiven' /\ SnapsKept'
<1>1. UNCHANGED <<log, shot>>
  OBVIOUS
<1>2. LogType' /\ MemoryType' /\ MemoryLoaded' /\ SecLoaded'
  BY NodesKept
<1>3. SnapCount' = SnapCount
  <2>1. {n \in Names : snaps'[n] # Nil} = {n \in Names : snaps[n] # Nil}
    OBVIOUS
  <2> QED
    BY <2>1 DEF SnapCount
<1>4. TagsGiven'
  <2>1. \A t \in Topics : \A r \in DOMAIN log'[t] : log'[t][r].tag <= SnapCount
    BY <1>1 DEF IInv, TagsGiven
  <2>2. \A n \in Names : snaps'[n] # Nil => snaps'[n].tag \in 1 .. SnapCount
    BY DEF IInv, TagsGiven
  <2>3. \A s \in DOMAIN shot : s > SnapCount => shot[s] = Nil
    BY DEF IInv, TagsGiven
  <2> QED
    BY <1>1, <1>3, <2>1, <2>2, <2>3 DEF TagsGiven
<1>5. SnapsKept' /\ ShotType'
  BY <1>1 DEF IInv, TypeInv, SnapsKept, Rows, ShotType
<1> QED
  BY <1>2, <1>4, <1>5 DEF TypeInv

\* A snap with another `active`.
Switched(new, old, active) == new = [old EXCEPT !.active = active]

\* It is a snap with the same tag.
LEMMA SnapSwitched ==
    ASSUME TreeDbAssumption, NEW old \in SnapSet, NEW active, active \in BOOLEAN,
           NEW new, Switched(new, old, active)
    PROVE  new \in SnapSet /\ new # Nil /\ new.tag = old.tag
<1>1. new \in SnapSet /\ new.tag = old.tag
  BY DEF SnapSet, Switched
<1>2. Nil \notin SnapSet
  BY DEF SnapSet, TreeDbAssumption
<1> QED
  BY <1>1, <1>2

\* treedb_activate_snap: the active snap is saved as inactive.
LEMMA ActivateSnapKeeps ==
    ASSUME TreeDbAssumption, IInv, NEW name \in Names \union {Nil}, ActivateSnap(name)
    PROVE  IInv'
<1>1. /\ pc = "idle" /\ UNCHANGED <<log, memory, shot>>
      /\ name # Nil => snaps[name] # Nil
      /\ pc' = "idle" \/ (name # Nil /\ pc' = "activate" /\ arg' = name)
      /\ snaps' = [n \in Names |-> IF snaps[n] = Nil THEN Nil
                                   ELSE [snaps[n] EXCEPT !.active = FALSE]]
  BY DEF ActivateSnap
<1>2. ASSUME NEW n \in Names
      PROVE  /\ snaps'[n] \in {Nil} \union SnapSet
             /\ snaps'[n] = Nil <=> snaps[n] = Nil
             /\ snaps[n] # Nil => snaps'[n].tag = snaps[n].tag
  <2>1. CASE snaps[n] = Nil
    BY <1>1, <2>1
  <2>2. CASE snaps[n] # Nil
    <3>1. PICK old : old = snaps[n]
      OBVIOUS
    <3>2. PICK new : new = snaps'[n]
      OBVIOUS
    <3>3. old \in SnapSet /\ Switched(new, old, FALSE)
      BY <1>1, <2>2, <3>1, <3>2 DEF IInv, TypeInv, SnapsType, Switched
    <3>4. new \in SnapSet /\ new # Nil /\ new.tag = old.tag
      BY <3>3, SnapSwitched
    <3> QED
      BY <2>2, <3>1, <3>2, <3>4
  <2> QED
    BY <2>1, <2>2
<1>3. SnapsType'
  BY <1>1, <1>2 DEF SnapsType, SnapSet
<1>4. InCall'
  BY <1>1, <1>2 DEF InCall
<1> QED
  BY <1>1, <1>2, <1>3, <1>4, ActiveKeeps DEF IInv

\* And the new one as active.
LEMMA ActivateEndKeeps ==
    ASSUME TreeDbAssumption, IInv, ActivateEnd
    PROVE  IInv'
<1>1. PICK a : a = arg
  OBVIOUS
<1>2. PICK old : old = snaps[a]
  OBVIOUS
<1>3. PICK new : Switched(new, old, TRUE)
  BY DEF Switched
<1>4. /\ pc = "activate" /\ pc' = "idle" /\ UNCHANGED <<log, memory, shot>>
      /\ snaps' = [snaps EXCEPT ![a] = new]
  BY <1>1, <1>2, <1>3 DEF ActivateEnd, Switched
<1>5. snaps \in [Names -> {Nil} \union SnapSet] /\ a \in Names /\ old # Nil /\ old \in SnapSet
  BY <1>1, <1>2, <1>4 DEF IInv, TypeInv, SnapsType, InCall
<1>6. new \in SnapSet /\ new # Nil /\ new.tag = old.tag
  BY <1>3, <1>5, SnapSwitched
<1>7. SnapsType'
  BY <1>4, <1>5, <1>6 DEF SnapsType, SnapSet
<1>8. \A n \in Names : /\ snaps'[n] = Nil <=> snaps[n] = Nil
                       /\ snaps[n] # Nil => snaps'[n].tag = snaps[n].tag
  BY <1>2, <1>4, <1>5, <1>6
<1>9. InCall'
  BY <1>4 DEF InCall
<1> QED
  BY <1>4, <1>7, <1>8, <1>9, ActiveKeeps DEF IInv

---------------------------------------------------------------------------
(* Every step.                                                             *)

\* An empty database.
LEMMA InitIInv ==
    ASSUME TreeDbAssumption, Init
    PROVE  IInv
<1>1. TypeInv
  <2>1. LogType
    BY DEF Init, LogType
  <2>2. SnapsType
    BY DEF Init, SnapsType
  <2>3. sec \in [KeyedKeys -> [Key2s -> {Nil} \union ObjectSet]]
    BY DEF Init, KeyedKeys
  <2>4. MemoryType
    BY <2>3 DEF Init, MemoryType
  <2>5. ShotType
    <3>1. Cardinality(Names) \in Nat
      BY FS_CardinalityType DEF TreeDbAssumption
    <3> QED
      BY <3>1 DEF Init, ShotType
  <2> QED
    BY <2>1, <2>2, <2>4, <2>5 DEF TypeInv
<1>2. MemoryLoaded /\ SecLoaded /\ InCall
  BY DEF Init, MemoryLoaded, SecLoaded, InCall
<1>3. TagsGiven /\ SnapsKept
  BY DEF Init, TagsGiven, SnapsKept
<1> QED
  BY <1>1, <1>2, <1>3 DEF IInv

\* A step that changes nothing.
LEMMA StutterIInv ==
    ASSUME IInv, UNCHANGED vars
    PROVE  IInv'
<1>1. UNCHANGED <<log, snaps, open, tag, heap, prim, sec, pc, arg, todo, shot>>
  BY DEF vars
<1>2. LogType' /\ MemoryType' /\ MemoryLoaded' /\ SecLoaded'
  BY <1>1, NodesKept DEF memory
<1>3. TypeInv' /\ TagsGiven' /\ SnapsKept'
  <2>1. SnapsType' /\ ShotType'
    BY <1>1 DEF IInv, TypeInv, SnapsType, ShotType
  <2>2. TagsGiven' /\ SnapsKept'
    BY <1>1, SnapsStay DEF IInv
  <2> QED
    BY <1>2, <2>1, <2>2 DEF TypeInv
<1>4. InCall'
  <2>1. \A s \in Nat : Shooting(s) => Shooting(s)'
    BY <1>1 DEF Shooting, Untagged, Saved, Rows
  <2> QED
    BY <1>1, <2>1 DEF IInv, InCall
<1> QED
  BY <1>2, <1>3, <1>4 DEF IInv

\* Each operation keeps the invariant.
LEMMA StepIInv ==
    ASSUME TreeDbAssumption, Disciplined, IInv, [Next]_vars
    PROVE  IInv'
<1>1. CASE Open
  BY <1>1, OpenKeeps
<1>2. CASE Close
  BY <1>2, CloseKeeps
<1>3. CASE NodeOp
  <2>1. PICK k \in Keys :
           \/ \E v \in Vals, k2 \in Key2s \union {Nil} : CreateNode(k, v, k2)
           \/ \E v \in Vals \union {Bad}, k2 \in Key2s \union {Nil} : UpdateNode(k, v, k2)
           \/ \E force \in BOOLEAN : DeleteNode(k, force)
           \/ CleanNode(k)
    BY <1>3 DEF NodeOp
  <2> QED
    BY <2>1, CreateNodeKeeps, UpdateNodeKeeps, DeleteNodeKeeps, CleanNodeKeeps
<1>4. CASE LinkOp
  <2>1. PICK h \in Hooks, c \in Keys :
           /\ TopicOf(c) = h.child
           /\ \/ \E id \in ParentIds(h) : \/ LinkNodes(h, <<h.parent, id>>, c)
                                          \/ UnlinkNodes(h, <<h.parent, id>>, c)
              \/ \E a, b \in ParentIds(h) : Autolink(c, h, <<h.parent, a>>, <<h.parent, b>>)
    BY <1>4 DEF LinkOp
  <2>2. ASSUME NEW id \in ParentIds(h)
        PROVE  <<h.parent, id>> \in Keys
    <3>1. PICK j \in Keys : TopicOf(j) = h.parent /\ id = IdOf(j)
      BY DEF ParentIds
    <3>2. j = <<TopicOf(j), IdOf(j)>>
      BY DEF TreeDbAssumption
    <3> QED
      BY <3>1, <3>2
  <2>3. CASE \E id \in ParentIds(h) : LinkNodes(h, <<h.parent, id>>, c)
    BY <2>1, <2>2, <2>3, LinkNodesKeeps
  <2>4. CASE \E id \in ParentIds(h) : UnlinkNodes(h, <<h.parent, id>>, c)
    BY <2>1, <2>2, <2>4, UnlinkNodesKeeps
  <2>5. CASE \E a, b \in ParentIds(h) : Autolink(c, h, <<h.parent, a>>, <<h.parent, b>>)
    BY <2>1, <2>5, AutolinkKeeps
  <2> QED
    BY <2>1, <2>3, <2>4, <2>5
<1>5. CASE SnapOp
  <2>1. CASE \E n \in Names : ShootSnap(n)
    BY <2>1, ShootSnapKeeps
  <2>2. CASE \E k \in Keys : ShootSave(k) \/ ShootFlag(k)
    BY <2>2, ShootSaveKeeps, ShootFlagKeeps
  <2>3. CASE ShootEnd
    BY <2>3, ShootEndKeeps
  <2>4. CASE \E n \in Names \union {Nil} : ActivateSnap(n)
    BY <2>4, ActivateSnapKeeps
  <2>5. CASE ActivateEnd
    BY <2>5, ActivateEndKeeps
  <2> QED
    BY <1>5, <2>1, <2>2, <2>3, <2>4, <2>5 DEF SnapOp
<1>6. CASE UNCHANGED vars
  BY <1>6, StutterIInv
<1> QED
  BY <1>1, <1>2, <1>3, <1>4, <1>5, <1>6 DEF Next

---------------------------------------------------------------------------
(* Theorems.                                                               *)

\* Between any two steps of the tree database, in the middle of a snap too, each
\* node in memory is the last row that a load of the topic would meet, and the
\* rows of each finished snap are those of the nodes that it was given to.
THEOREM Invariance ==
    ASSUME Disciplined
    PROVE  Spec => []IInv
<1>1. Init => IInv
  BY InitIInv, TreeDbAssumption
<1>2. IInv /\ [Next]_vars => IInv'
  BY StepIInv, TreeDbAssumption
<1> QED
  BY <1>1, <1>2, PTL DEF Spec

\* treedb_shoot_snap: a finished snap keeps its nodes through any number of
\* saves, deletions, new nodes, restarts and other snaps.
THEOREM SnapsKeepNodes ==
    ASSUME Disciplined
    PROVE  Spec => []SnapHasNodes
<1>1. IInv => SnapHasNodes
  <2> SUFFICES ASSUME IInv, NEW s \in DOMAIN shot, shot[s] # Nil
               PROVE  {k \in Keys : LoadRow(k, s) # 0} = shot[s]
    BY DEF SnapHasNodes
  <2>1. \A k \in Keys : LoadRow(k, s) = 0 <=> Rows(k, s) = {}
    BY LoadsLast, TreeDbAssumption DEF IInv, TypeInv
  <2> QED
    BY <2>1 DEF IInv, SnapsKept
<1> QED
  BY <1>1, Invariance, PTL

\* treedb_open_db: killed between two calls, the process loads the nodes and the
\* fkeys that it had in memory, and its secondary indexes the same instances.
THEOREM RestartGivesMemory ==
    ASSUME Disciplined
    PROVE  Spec => []LoadGivesMemory
<1>1. IInv => LoadGivesMemory
  <2> SUFFICES ASSUME IInv, open, NEW k \in Keys
               PROVE  /\ LoadImage(k, tag) = IF prim[k] = Nil THEN Nil ELSE Image(heap[prim[k]])
                      /\ tag = 0 /\ TopicOf(k) \in Keyed => \A k2 \in Key2s :
                            (LoadRow2(k, k2) = 0) <=> (sec[k][k2] = Nil)
    BY DEF LoadGivesMemory
  <2>1. PICK s : s = tag
    OBVIOUS
  <2>2. s \in Nat /\ Loaded(k, s) /\ LogType
    BY <2>1 DEF IInv, TypeInv, MemoryType, MemoryLoaded
  <2>3. LoadImage(k, s) = IF prim[k] = Nil THEN Nil ELSE Image(heap[prim[k]])
    <3>1. CASE prim[k] = Nil
      <4>1. Rows(k, s) = {}
        BY <2>2, <3>1 DEF Loaded
      <4> QED
        BY <2>2, <3>1, <4>1, LoadsLast, TreeDbAssumption DEF LoadImage
    <3>2. CASE prim[k] # Nil
      <4>1. PICK r : r = heap[prim[k]].row
        OBVIOUS
      <4>2. PICK rows : rows = Rows(k, s)
        OBVIOUS
      <4>3. /\ IsLast(r, rows) /\ Image(heap[prim[k]]) = Image(log[TopicOf(k)][r])
        BY <2>2, <3>2, <4>1, <4>2 DEF Loaded
      <4>4. rows \in SUBSET Nat /\ r # 0
        BY <2>2, <4>2, <4>3, RowFacts, TreeDbAssumption DEF IsLast
      <4>5. LoadRow(k, s) = r
        BY <4>2, <4>3, <4>4, LastOfOne DEF LoadRow
      <4> QED
        BY <3>2, <4>3, <4>4, <4>5 DEF LoadImage
    <3> QED
      BY <3>1, <3>2
  <2>4. ASSUME tag = 0, TopicOf(k) \in Keyed, NEW k2 \in Key2s
        PROVE  (LoadRow2(k, k2) = 0) <=> (sec[k][k2] = Nil)
    <3>1. k \in KeyedKeys
      BY <2>4 DEF KeyedKeys
    <3> QED
      BY <2>2, <2>4, <3>1, LoadsLast2, TreeDbAssumption DEF IInv, SecLoaded
  <2> QED
    BY <2>1, <2>3, <2>4
<1> QED
  BY <1>1, Invariance, PTL


---------------------------------------------------------------------------
(* The links of the objects in an index.                                   *)

\* The hooks of a node hold nodes of the index, its children by that hook.
HooksHold(d, pr, t) ==
    /\ d = [n \in DownHooks(t) |-> d[n]]
    /\ \A n \in DownHooks(t) :
          /\ d[n] \in Seq(ObjectSet)
          /\ \A i \in DOMAIN d[n] : \E c \in Keys :
                pr[c] # Nil /\ d[n][i] = pr[c] /\ HooksTo(t, n, TopicOf(c)) # {}

\* A string names one parent, and no fkey names a dict hook twice.
RefsFew(up, t) == \A h \in UpHooks(t) :
    /\ h.kind = "string" => Len(up[h]) <= 1
    /\ h.dict => \A id \in Ids : Count(up[h], id) <= 1

\* Both sides of the links of a node, as LinksAgree has them.
SidesAgree(hp, pr, tg, c) == \A h \in UpHooks(TopicOf(c)), k \in Keys : TopicOf(k) = h.parent =>
    IF pr[k] = Nil THEN tg = 0 => Count(hp[pr[c]].up[h], IdOf(k)) = 0
    ELSE Count(hp[pr[k]].down[h.hook], pr[c]) = Count(hp[pr[c]].up[h], IdOf(k))

\* The links of the nodes of an index, in a heap.
Linkage(hp, pr, tg) == \A k \in Keys : pr[k] # Nil =>
    /\ hp[pr[k]].up \in Ups(TopicOf(k)) /\ RefsFew(hp[pr[k]].up, TopicOf(k))
    /\ HooksHold(hp[pr[k]].down, pr, TopicOf(k))
    /\ SidesAgree(hp, pr, tg, k)

Indexed(pr) == \A k \in Keys : pr[k] # Nil => pr[k] \in ObjectSet /\ pr[k].key = k

\* hq has the links of hp.
SameLinks(hq, hp, pr) == \A j \in Keys : pr[j] # Nil =>
    hq[pr[j]].up = hp[pr[j]].up /\ hq[pr[j]].down = hp[pr[j]].down

\* What does not touch the links keeps them.
LEMMA LinkageStays ==
    ASSUME NEW hp, NEW hq, NEW pr, NEW tg, Linkage(hp, pr, tg), SameLinks(hq, hp, pr)
    PROVE  Linkage(hq, pr, tg)
<1> SUFFICES ASSUME NEW k \in Keys, pr[k] # Nil
             PROVE  /\ hq[pr[k]].up \in Ups(TopicOf(k)) /\ RefsFew(hq[pr[k]].up, TopicOf(k))
                    /\ HooksHold(hq[pr[k]].down, pr, TopicOf(k))
                    /\ SidesAgree(hq, pr, tg, k)
  BY DEF Linkage
<1>1. /\ hp[pr[k]].up \in Ups(TopicOf(k)) /\ RefsFew(hp[pr[k]].up, TopicOf(k))
      /\ HooksHold(hp[pr[k]].down, pr, TopicOf(k))
      /\ SidesAgree(hp, pr, tg, k)
  BY DEF Linkage
<1>2. hq[pr[k]].up = hp[pr[k]].up /\ hq[pr[k]].down = hp[pr[k]].down
  BY DEF SameLinks
<1>3. SidesAgree(hq, pr, tg, k)
  BY <1>1, <1>2 DEF SidesAgree, SameLinks
<1> QED
  BY <1>1, <1>2, <1>3

\* One fkey of a node and one hook of another are changed.
Relinked(hq, hp, pr, p, n, d, c, h, s) == \A j \in Keys : pr[j] # Nil =>
    /\ hq[pr[j]].up = IF j = c THEN [hp[pr[j]].up EXCEPT ![h] = s] ELSE hp[pr[j]].up
    /\ hq[pr[j]].down = IF j = p THEN [hp[pr[j]].down EXCEPT ![n] = d] ELSE hp[pr[j]].down

\* d and s are changed alike: the hook holds the child as many times as the
\* fkey names the parent, and nothing else is more or less than it was.
ChangedAlike(d, s, down, up, id, o) ==
    /\ Count(d, o) = Count(s, id)
    /\ \A x : x # o => Count(d, x) = Count(down, x)
    /\ \A x : x # id => Count(s, x) = Count(up, x)
    /\ \A i \in DOMAIN d : d[i] = o \/ \E j \in DOMAIN down : d[i] = down[j]

\* A change of both sides of a link keeps the links.
LEMMA RelinkedKeeps ==
    ASSUME TreeDbAssumption, NEW hp, NEW hq, NEW pr, NEW tg, Indexed(pr), Linkage(hp, pr, tg),
           NEW p \in Keys, pr[p] # Nil, NEW c \in Keys, pr[c] # Nil, p # c,
           NEW h \in UpHooks(TopicOf(c)), TopicOf(p) = h.parent,
           NEW d \in Seq(ObjectSet), NEW s \in Seq(Ids),
           Relinked(hq, hp, pr, p, h.hook, d, c, h, s),
           ChangedAlike(d, s, hp[pr[p]].down[h.hook], hp[pr[c]].up[h], IdOf(p), pr[c]),
           h.kind = "string" => Len(s) <= 1,
           h.dict => \A id \in Ids : Count(s, id) <= 1
    PROVE  Linkage(hq, pr, tg)
<1> SUFFICES ASSUME NEW j \in Keys, pr[j] # Nil
             PROVE  /\ hq[pr[j]].up \in Ups(TopicOf(j)) /\ RefsFew(hq[pr[j]].up, TopicOf(j))
                    /\ HooksHold(hq[pr[j]].down, pr, TopicOf(j))
                    /\ SidesAgree(hq, pr, tg, j)
  BY DEF Linkage
<1>1. \A k \in Keys : pr[k] # Nil =>
         /\ hp[pr[k]].up \in Ups(TopicOf(k)) /\ RefsFew(hp[pr[k]].up, TopicOf(k))
         /\ HooksHold(hp[pr[k]].down, pr, TopicOf(k))
         /\ SidesAgree(hp, pr, tg, k)
  BY DEF Linkage
<1>2. \A k \in Keys : pr[k] # Nil =>
         /\ hq[pr[k]].up = IF k = c THEN [hp[pr[k]].up EXCEPT ![h] = s] ELSE hp[pr[k]].up
         /\ hq[pr[k]].down = IF k = p THEN [hp[pr[k]].down EXCEPT ![h.hook] = d] ELSE hp[pr[k]].down
  BY DEF Relinked
<1>3. h \in Hooks /\ h.child = TopicOf(c) /\ h \in HooksTo(TopicOf(p), h.hook, TopicOf(c))
      /\ h.hook \in DownHooks(TopicOf(p))
  BY DEF UpHooks, HooksTo, HooksOf, DownHooks
<1>4. /\ \A k \in Keys : hp[pr[k]].up \in Ups(TopicOf(k)) => DOMAIN hp[pr[k]].up = UpHooks(TopicOf(k))
      /\ DOMAIN hp[pr[p]].down = DownHooks(TopicOf(p))
  BY <1>1 DEF Ups, HooksHold
<1>5. hq[pr[j]].up \in Ups(TopicOf(j))
  <2>1. CASE j # c
    BY <1>1, <1>2, <2>1
  <2>2. CASE j = c
    <3>1. \A u \in Ups(TopicOf(c)) : [u EXCEPT ![h] = s] \in Ups(TopicOf(c))
      BY DEF Ups
    <3> QED
      BY <1>1, <1>2, <2>2, <3>1
  <2> QED
    BY <2>1, <2>2
<1>6. RefsFew(hq[pr[j]].up, TopicOf(j))
  <2>1. CASE j # c
    BY <1>1, <1>2, <2>1
  <2>2. CASE j = c
    <3>1. /\ hq[pr[c]].up[h] = s
          /\ \A g \in UpHooks(TopicOf(c)) : g # h => hq[pr[c]].up[g] = hp[pr[c]].up[g]
      BY <1>1, <1>2, <1>4
    <3> QED
      BY <1>1, <2>2, <3>1 DEF RefsFew
  <2> QED
    BY <2>1, <2>2
<1>7. HooksHold(hq[pr[j]].down, pr, TopicOf(j))
  <2>1. CASE j # p
    BY <1>1, <1>2, <2>1
  <2>2. CASE j = p
    <3> DEFINE b == hp[pr[p]].down
               e == hq[pr[p]].down
               t == TopicOf(p)
    <3>1. HooksHold(b, pr, t)
      BY <1>1
    <3>2. e = [b EXCEPT ![h.hook] = d] /\ DOMAIN b = DownHooks(t)
      BY <1>2, <1>4
    <3>3. \A i \in DOMAIN d : d[i] = pr[c] \/ \E m \in DOMAIN b[h.hook] : d[i] = b[h.hook][m]
      BY DEF ChangedAlike
    <3> HIDE DEF b, e, t
    <3>4. e = [n \in DownHooks(t) |-> e[n]] /\ e[h.hook] = d
      BY <1>3, <3>2 DEF t
    <3>5. \A n \in DownHooks(t) : n # h.hook => e[n] = b[n]
      BY <3>2
    <3>6. \A i \in DOMAIN d : \E k \in Keys :
             pr[k] # Nil /\ d[i] = pr[k] /\ HooksTo(t, h.hook, TopicOf(k)) # {}
      <4>1. HooksTo(t, h.hook, TopicOf(c)) # {} /\ h.hook \in DownHooks(t)
        BY <1>3 DEF t
      <4> TAKE i \in DOMAIN d
      <4>2. CASE d[i] = pr[c]
        BY <4>1, <4>2
      <4>3. CASE \E m \in DOMAIN b[h.hook] : d[i] = b[h.hook][m]
        <5>1. PICK m \in DOMAIN b[h.hook] : d[i] = b[h.hook][m]
          BY <4>3
        <5>2. \A n \in DownHooks(t) : \A m1 \in DOMAIN b[n] : \E k \in Keys :
                 pr[k] # Nil /\ b[n][m1] = pr[k] /\ HooksTo(t, n, TopicOf(k)) # {}
          BY <3>1 DEF HooksHold
        <5> QED
          BY <4>1, <5>1, <5>2
      <4> QED
        BY <3>3, <4>2, <4>3
    <3>7. HooksHold(e, pr, t)
      <4>1. ASSUME NEW n \in DownHooks(t)
            PROVE  /\ e[n] \in Seq(ObjectSet)
                   /\ \A i \in DOMAIN e[n] : \E k \in Keys :
                         pr[k] # Nil /\ e[n][i] = pr[k] /\ HooksTo(t, n, TopicOf(k)) # {}
        <5>1. CASE n = h.hook
          BY <3>4, <3>6, <5>1
        <5>2. CASE n # h.hook
          <6>1. /\ b[n] \in Seq(ObjectSet)
                /\ \A i \in DOMAIN b[n] : \E k \in Keys :
                      pr[k] # Nil /\ b[n][i] = pr[k] /\ HooksTo(t, n, TopicOf(k)) # {}
            BY <3>1 DEF HooksHold
          <6>2. e[n] = b[n]
            BY <3>5, <5>2
          <6> QED
            BY <6>1, <6>2
        <5> QED
          BY <5>1, <5>2
      <4> QED
        BY <3>4, <4>1 DEF HooksHold
    <3> QED
      BY <2>2, <3>7 DEF e, t
  <2> QED
    BY <2>1, <2>2
<1>8. SidesAgree(hq, pr, tg, j)
  <2> SUFFICES ASSUME NEW g \in UpHooks(TopicOf(j)), NEW k \in Keys, TopicOf(k) = g.parent
               PROVE  IF pr[k] = Nil THEN tg = 0 => Count(hq[pr[j]].up[g], IdOf(k)) = 0
                      ELSE Count(hq[pr[k]].down[g.hook], pr[j]) = Count(hq[pr[j]].up[g], IdOf(k))
    BY DEF SidesAgree
  <2>1. IF pr[k] = Nil THEN tg = 0 => Count(hp[pr[j]].up[g], IdOf(k)) = 0
        ELSE Count(hp[pr[k]].down[g.hook], pr[j]) = Count(hp[pr[j]].up[g], IdOf(k))
    BY <1>1 DEF SidesAgree
  <2>2. g \in Hooks /\ g.child = TopicOf(j)
    BY DEF UpHooks
  <2>3. (k # p /\ g = h) => IdOf(k) # IdOf(p)
    BY DEF TreeDbAssumption
  <2>4. j # c => pr[j] # pr[c]
    BY DEF Indexed
  <2>5. /\ Count(d, pr[c]) = Count(s, IdOf(p))
        /\ \A x : x # pr[c] => Count(d, x) = Count(hp[pr[p]].down[h.hook], x)
        /\ \A x : x # IdOf(p) => Count(s, x) = Count(hp[pr[c]].up[h], x)
    BY DEF ChangedAlike
  <2>6. /\ j = c /\ g = h => hq[pr[j]].up[g] = s
        /\ ~(j = c /\ g = h) => hq[pr[j]].up[g] = hp[pr[j]].up[g]
    BY <1>1, <1>2, <1>4
  <2>7. pr[k] # Nil =>
          /\ k = p /\ g.hook = h.hook => hq[pr[k]].down[g.hook] = d
          /\ ~(k = p /\ g.hook = h.hook) => hq[pr[k]].down[g.hook] = hp[pr[k]].down[g.hook]
    <3>1. g.hook \in DownHooks(TopicOf(k))
      BY <2>2 DEF DownHooks
    <3> QED
      BY <1>2, <1>3, <1>4, <3>1
  <2>8. k = p /\ g.hook = h.hook /\ j = c => g = h
    BY <1>3, <2>2 DEF TreeDbAssumption
  <2>9. CASE pr[k] = Nil
    BY <2>1, <2>3, <2>5, <2>6, <2>9
  <2>10. CASE pr[k] # Nil
    BY <2>1, <2>3, <2>4, <2>5, <2>6, <2>7, <2>8, <2>10
  <2> QED
    BY <2>9, <2>10
<1> QED
  BY <1>5, <1>6, <1>7, <1>8

\* A change of one hook and one fkey, seen from the index.
LEMMA MovedLinks ==
    ASSUME Indexed(prim), NEW k \in Keys, prim[k] # Nil, NEW p \in Keys, prim[p] # Nil, p # k,
           NEW hp, HeapBut(hp, k), NEW x, NEW d, NEW h, NEW s,
           NEW hq, Moved(hq, hp, prim[p], x, d, prim[k], h, s)
    PROVE  Relinked(hq, hp, prim, p, x, d, k, h, s)
<1> SUFFICES ASSUME NEW j \in Keys, prim[j] # Nil
             PROVE  /\ hq[prim[j]].up = IF j = k THEN [hp[prim[j]].up EXCEPT ![h] = s]
                                        ELSE hp[prim[j]].up
                    /\ hq[prim[j]].down = IF j = p THEN [hp[prim[j]].down EXCEPT ![x] = d]
                                          ELSE hp[prim[j]].down
  BY DEF Relinked
<1>1. /\ prim[p] # prim[k]
      /\ j # p => prim[j] # prim[p]
      /\ j # k => prim[j] # prim[k]
  BY DEF Indexed
<1>2. /\ prim[j] \in DOMAIN hp /\ prim[p] \in DOMAIN hp /\ prim[k] \in DOMAIN hp
      /\ IsNode(TopicOf(j), hp[prim[j]])
  BY DEF HeapBut
<1>3. \A n : IsNode(TopicOf(j), n) =>
         /\ \A u : LET m == [n EXCEPT !.up[h] = u]
                   IN  m.up = [n.up EXCEPT ![h] = u] /\ m.down = n.down
         /\ \A e : LET m == [n EXCEPT !.down[x] = e]
                   IN  m.down = [n.down EXCEPT ![x] = e] /\ m.up = n.up
  BY DEF IsNode
<1>4. CASE j = p
  <2>1. hq[prim[j]] = [hp[prim[j]] EXCEPT !.down[x] = d]
    BY <1>1, <1>2, <1>4 DEF Moved
  <2> QED
    BY <1>2, <1>3, <1>4, <2>1
<1>5. CASE j = k
  <2>1. hq[prim[j]] = [hp[prim[j]] EXCEPT !.up[h] = s]
    BY <1>1, <1>2, <1>5 DEF Moved
  <2> QED
    BY <1>2, <1>3, <1>5, <2>1
<1>6. CASE j # p /\ j # k
  <2>1. hq[prim[j]] = hp[prim[j]]
    BY <1>1, <1>2, <1>6 DEF Moved
  <2> QED
    BY <1>6, <2>1
<1> QED
  BY <1>4, <1>5, <1>6

\* o is the only item with that id.
OneOfId(s, id, o) == \A i \in DOMAIN s : IdOf(s[i].key) = id => s[i] = o

\* What is known of the two sides of a link.
LEMMA BothSides ==
    ASSUME TreeDbAssumption, Indexed(prim), NEW hp, NEW tg, Linkage(hp, prim, tg),
           NEW k \in Keys, prim[k] # Nil, NEW p \in Keys, prim[p] # Nil,
           NEW h \in UpHooks(TopicOf(k)), TopicOf(p) = h.parent
    PROVE  LET up == hp[prim[k]].up[h]
               b  == hp[prim[p]].down[h.hook]
           IN  /\ up \in Seq(Ids) /\ b \in Seq(ObjectSet)
               /\ Count(b, prim[k]) = Count(up, IdOf(p))
               /\ h.kind = "string" => Len(up) <= 1
               /\ h.dict => \A id \in Ids : Count(up, id) <= 1
               /\ h.dict => OneOfId(b, IdOf(k), prim[k])
<1> DEFINE up == hp[prim[k]].up[h]
           b  == hp[prim[p]].down[h.hook]
<1>1. h \in Hooks /\ h.child = TopicOf(k) /\ h.hook \in DownHooks(TopicOf(p))
  BY DEF UpHooks, DownHooks
<1>2. /\ hp[prim[k]].up \in Ups(TopicOf(k)) /\ RefsFew(hp[prim[k]].up, TopicOf(k))
      /\ HooksHold(hp[prim[p]].down, prim, TopicOf(p))
      /\ SidesAgree(hp, prim, tg, k)
  BY DEF Linkage
<1>3. up \in Seq(Ids)
  BY <1>2 DEF Ups
<1>4. /\ b \in Seq(ObjectSet)
      /\ \A i \in DOMAIN b : \E c \in Keys :
            prim[c] # Nil /\ b[i] = prim[c] /\ HooksTo(TopicOf(p), h.hook, TopicOf(c)) # {}
  BY <1>1, <1>2 DEF HooksHold
<1>5. Count(b, prim[k]) = Count(up, IdOf(p))
  BY <1>2 DEF SidesAgree
<1>6. /\ h.kind = "string" => Len(up) <= 1
      /\ h.dict => \A id \in Ids : Count(up, id) <= 1
  BY <1>2 DEF RefsFew
<1> HIDE DEF b, up
<1>7. ASSUME h.dict, NEW i \in DOMAIN b, IdOf(b[i].key) = IdOf(k)
      PROVE  b[i] = prim[k]
  <2>1. PICK c \in Keys : prim[c] # Nil /\ b[i] = prim[c] /\ HooksTo(TopicOf(p), h.hook, TopicOf(c)) # {}
    BY <1>4
  <2>2. PICK g \in Hooks : g.parent = h.parent /\ g.hook = h.hook /\ g.child = TopicOf(c)
    BY <2>1 DEF HooksTo, HooksOf
  <2>3. IdOf(c) = IdOf(k)
    BY <1>7, <2>1 DEF Indexed
  <2>4. g.dict
    BY <1>1, <1>7, <2>2 DEF TreeDbAssumption
  <2>5. c = k
    BY <1>1, <2>2, <2>3, <2>4 DEF TreeDbAssumption, DictIdsApart
  <2> QED
    BY <2>1, <2>5
<1> QED
  BY <1>3, <1>4, <1>5, <1>6, <1>7 DEF b, up, OneOfId

\* _link_nodes changes both sides.
LEMMA LinkedKeepsLinks ==
    ASSUME TreeDbAssumption, Disciplined, Indexed(prim),
           NEW k \in Keys, prim[k] # Nil, NEW p \in Keys, prim[p] # Nil,
           NEW hp, HeapBut(hp, k), NEW h \in UpHooks(TopicOf(k)), TopicOf(p) = h.parent,
           NEW tg, Linkage(hp, prim, tg), LinkGuard(hp, h, prim[p], prim[k])
    PROVE  Linkage(Linked(hp, h, prim[p], prim[k]), prim, tg)
<1> DEFINE hq == Linked(hp, h, prim[p], prim[k])
           up == hp[prim[k]].up[h]
           b  == hp[prim[p]].down[h.hook]
           d  == Append(b, prim[k])
           s  == Append(up, IdOf(p))
<1>1. prim[p].key = p /\ prim[k].key = k /\ prim[k] \in ObjectSet /\ IdOf(p) \in Ids
  BY KeyParts DEF Indexed
<1>2. /\ up \in Seq(Ids) /\ b \in Seq(ObjectSet)
      /\ Count(b, prim[k]) = Count(up, IdOf(p))
      /\ h.kind = "string" => Len(up) <= 1
      /\ h.dict => \A id \in Ids : Count(up, id) <= 1
  BY BothSides
<1>3. /\ p # k
      /\ h.kind = "string" => up = <<>>
      /\ h.dict => \A i \in DOMAIN b : IdOf(b[i].key) # IdOf(k)
  BY <1>1 DEF LinkGuard, May, Disciplined, ToSet
<1>4. HookAdd(h, b, prim[k]) = d
  BY <1>1, <1>3 DEF HookAdd
<1>5. UpAdd(h, up, IdOf(prim[p].key)) = s
  <2>1. \A x : Append(<<>>, x) = <<x>>
    OBVIOUS
  <2> HIDE DEF up
  <2> QED
    BY <1>1, <1>3, <2>1 DEF UpAdd
<1>6. prim[p] \in DOMAIN hp /\ prim[k] \in DOMAIN hp /\ prim[p] # prim[k]
  BY <1>1, <1>3 DEF HeapBut
<1>7. Moved(hq, hp, prim[p], h.hook, d, prim[k], h, s)
  <2>1. hq = [hp EXCEPT ![prim[p]].down[h.hook] = HookAdd(h, b, prim[k]),
                        ![prim[k]].up[h]        = UpAdd(h, up, IdOf(prim[p].key))]
    BY <1>6 DEF Linked
  <2> QED
    BY <1>4, <1>5, <2>1 DEF Moved
<1> HIDE DEF hq, up, b
<1>8. /\ d \in Seq(ObjectSet) /\ s \in Seq(Ids)
      /\ Count(d, prim[k]) = Count(b, prim[k]) + 1 /\ \A x : x # prim[k] => Count(d, x) = Count(b, x)
      /\ Count(s, IdOf(p)) = Count(up, IdOf(p)) + 1 /\ \A x : x # IdOf(p) => Count(s, x) = Count(up, x)
  BY <1>1, <1>2, CountMore
<1>9. \A i \in DOMAIN d : d[i] = prim[k] \/ \E j \in DOMAIN b : d[i] = b[j]
  BY <1>2
<1>10. h.kind = "string" => Len(s) <= 1
  BY <1>2, <1>3
<1>11. ASSUME h.dict, NEW id \in Ids
       PROVE  Count(s, id) <= 1
  <2>1. \A i \in DOMAIN b : b[i] # prim[k]
    BY <1>1, <1>3, <1>11
  <2>2. Count(b, prim[k]) = 0
    BY <1>2, <2>1, CountZero
  <2> QED
    BY <1>2, <1>8, <1>11, <2>2
<1> HIDE DEF d, s
<1>12. Relinked(hq, hp, prim, p, h.hook, d, k, h, s)
  BY <1>3, <1>7, MovedLinks
<1>13. ChangedAlike(d, s, b, up, IdOf(p), prim[k])
  BY <1>2, <1>8, <1>9 DEF ChangedAlike
<1>14. Linkage(hq, prim, tg)
  BY <1>3, <1>8, <1>10, <1>11, <1>12, <1>13, RelinkedKeeps DEF b, up
<1> QED
  BY <1>14 DEF hq

\* _unlink_nodes changes both sides.
LEMMA UnlinkedKeepsLinks ==
    ASSUME TreeDbAssumption, Disciplined, Indexed(prim),
           NEW k \in Keys, prim[k] # Nil, NEW p \in Keys, prim[p] # Nil, p # k,
           NEW hp, HeapBut(hp, k), NEW h \in UpHooks(TopicOf(k)), TopicOf(p) = h.parent,
           NEW tg, Linkage(hp, prim, tg), Count(hp[prim[k]].up[h], IdOf(p)) > 0
    PROVE  Linkage(Unlinked(hp, h, prim[p], prim[k]), prim, tg)
<1> DEFINE hq == Unlinked(hp, h, prim[p], prim[k])
           up == hp[prim[k]].up[h]
           b  == hp[prim[p]].down[h.hook]
           o  == prim[k]
           id == IdOf(p)
           d  == HookDel(h, b, o, 1)
           s  == UpDel(h, up, id)
<1>1. prim[p].key = p /\ o.key = k /\ o \in ObjectSet /\ id \in Ids
  BY KeyParts DEF Indexed
<1>2. /\ up \in Seq(Ids) /\ b \in Seq(ObjectSet)
      /\ Count(b, o) = Count(up, id)
      /\ h.kind = "string" => Len(up) <= 1
      /\ h.dict => \A x \in Ids : Count(up, x) <= 1
      /\ h.dict => OneOfId(b, IdOf(k), o)
  BY BothSides
<1>3. prim[p] \in DOMAIN hp /\ prim[k] \in DOMAIN hp /\ prim[p] # prim[k]
  BY <1>1 DEF HeapBut
<1>4. Moved(hq, hp, prim[p], h.hook, d, prim[k], h, s)
  BY <1>1, <1>3 DEF Moved, Unlinked
<1> HIDE DEF hq, up, b, o, id
<1>5. Count(up, id) \in Nat /\ Count(up, id) # 0
  BY <1>2, CountZero DEF up, id
<1>6. d = Taken(b, PlacesOf(b, o), 1)
  <2>1. {i \in DOMAIN b : IF h.dict THEN IdOf(b[i].key) = IdOf(o.key) ELSE b[i] = o} = PlacesOf(b, o)
    BY <1>1, <1>2 DEF PlacesOf, OneOfId
  <2> QED
    BY <2>1 DEF HookDel
<1>8. /\ d \in Seq(ObjectSet)
      /\ \A i \in DOMAIN d : \E j \in DOMAIN b : d[i] = b[j]
      /\ Count(d, o) = Count(b, o) - 1 /\ \A x : x # o => Count(d, x) = Count(b, x)
  BY <1>2, <1>5, <1>6, TakenOne
<1>9. /\ s \in Seq(Ids)
      /\ Count(s, id) = Count(up, id) - 1 /\ \A x : x # id => Count(s, x) = Count(up, x)
  <2>1. CASE h.kind = "string"
    <3>1. s = <<>>
      BY <2>1 DEF UpDel
    <3>2. PICK i \in DOMAIN up : up[i] = id
      BY <1>2, <1>5, CountZero
    <3>3. Len(up) = 1 /\ up[1] = id
      <4>1. Len(up) \in Nat /\ Len(up) <= 1 /\ i \in 1 .. Len(up)
        BY <1>2, <2>1
      <4>2. \A n \in Nat : n <= 1 /\ i \in 1 .. n => i = 1 /\ n = 1
        OBVIOUS
      <4>3. i = 1 /\ Len(up) = 1
        BY <4>1, <4>2
      <4> QED
        BY <3>2, <4>3
    <3>4. up = <<id>>
      BY <1>2, <3>3
    <3> QED
      BY <3>1, <3>4, CountFew
  <2>2. CASE h.kind # "string"
    <3>1. s = Taken(up, PlacesOf(up, id), 1)
      BY <2>2 DEF UpDel, PlacesOf
    <3> QED
      BY <1>2, <1>5, <3>1, TakenOne
  <2> QED
    BY <2>1, <2>2
<1>10. h.kind = "string" => Len(s) <= 1
  BY DEF UpDel
<1>11. h.dict => \A x \in Ids : Count(s, x) <= 1
  <2>1. Count(s, id) <= Count(up, id)
    BY <1>5, <1>9
  <2> QED
    BY <1>2, <1>5, <1>9, <2>1
<1> HIDE DEF d, s
<1>12. Relinked(hq, hp, prim, p, h.hook, d, k, h, s)
  BY <1>4, MovedLinks
<1>13. ChangedAlike(d, s, b, up, id, o)
  BY <1>2, <1>8, <1>9 DEF ChangedAlike
<1>14. Linkage(hq, prim, tg)
  BY <1>8, <1>9, <1>10, <1>11, <1>12, <1>13, RelinkedKeeps DEF b, up, id, o
<1> QED
  BY <1>14 DEF hq

\* The hooks of a node without the items that are o.
WithoutItem(e, b, t, o, child) == \A n \in DownHooks(t) :
    /\ e[n] \in Seq(ObjectSet)
    /\ \A i \in DOMAIN e[n] : \E j \in DOMAIN b[n] : e[n][i] = b[n][j]
    /\ \A x : x # o => Count(e[n], x) = Count(b[n], x)
    /\ HooksTo(t, n, child) # {} => Count(e[n], o) = 0

\* A value for each hook.
OfHooks(e, t) == e = [n \in DownHooks(t) |-> e[n]]

\* treedb_clean_node takes a node from the hooks of its parents.
LEMMA CleanedHooks ==
    ASSUME TreeDbAssumption, Indexed(prim), NEW k \in Keys, prim[k] # Nil,
           HeapBut(heap, k), NEW tg, Linkage(heap, prim, tg), NEW j \in Keys, prim[j] # Nil
    PROVE  LET n == Cleaned(heap, prim[k])[prim[j]]
           IN  /\ OfHooks(n.down, TopicOf(j))
               /\ WithoutItem(n.down, heap[prim[j]].down, TopicOf(j), prim[k], TopicOf(k))
               /\ n.up = IF j = k THEN NoUp(TopicOf(k)) ELSE heap[prim[j]].up
<1> DEFINE hq == Cleaned(heap, prim[k])
           o == prim[k]
           x == prim[j]
           t == TopicOf(k)
           u == TopicOf(j)
           b == heap[x].down
           e == [n \in DOMAIN b |->
                    IF x = prim[x.key] /\ HooksTo(TopicOf(x.key), n, TopicOf(o.key)) # {}
                    THEN HookDel(HookTo(TopicOf(x.key), n, TopicOf(o.key)), b[n], o,
                                 Count(heap[o].up[HookTo(TopicOf(x.key), n, TopicOf(o.key))],
                                       IdOf(x.key)))
                    ELSE b[n]]
<1>9. \A h \in UpHooks(TopicOf(k)) : TopicOf(j) = h.parent =>
            /\ heap[prim[j]].down[h.hook] \in Seq(ObjectSet)
            /\ Count(heap[prim[j]].down[h.hook], prim[k]) = Count(heap[prim[k]].up[h], IdOf(j))
            /\ h.dict => OneOfId(heap[prim[j]].down[h.hook], IdOf(k), prim[k])
  <2> HIDE DEF hq, o, x, t, u, b, e
  <2> QED
    BY BothSides
<1>1. /\ o.key = k /\ x.key = j /\ x = prim[x.key] /\ (x = o <=> j = k)
      /\ o \in ObjectSet
  BY DEF Indexed
<1>2. x \in DOMAIN heap /\ IsNode(u, heap[x]) /\ o \in DOMAIN heap
  BY DEF HeapBut
<1>3. HooksHold(b, prim, u) /\ HooksHold(heap[o].down, prim, t)
  BY DEF Linkage
<1>4. DOMAIN b = DownHooks(u)
  BY <1>3 DEF HooksHold
<1>5. hq[x] = [heap[x] EXCEPT !.down = e, !.up = IF x = o THEN NoUp(TopicOf(o.key)) ELSE @]
  BY <1>2 DEF Cleaned
<1>6. hq[x].down = e /\ hq[x].up = IF j = k THEN NoUp(t) ELSE heap[x].up
  <2> PICK r : r = heap[x]
    OBVIOUS
  <2> PICK v : v = IF j = k THEN NoUp(t) ELSE heap[x].up
    OBVIOUS
  <2> HIDE DEF e, hq, x, o
  <2>1. IsNode(u, r) /\ hq[x] = [r EXCEPT !.down = e, !.up = v]
    BY <1>1, <1>2, <1>5
  <2>2. [r EXCEPT !.down = e, !.up = v].down = e /\ [r EXCEPT !.down = e, !.up = v].up = v
    BY <2>1 DEF IsNode
  <2> QED
    BY <2>1, <2>2
<1>7. WithoutItem(e, b, u, o, t)
  <2> SUFFICES ASSUME NEW n \in DownHooks(u)
               PROVE  /\ e[n] \in Seq(ObjectSet)
                      /\ \A i \in DOMAIN e[n] : \E m \in DOMAIN b[n] : e[n][i] = b[n][m]
                      /\ \A y : y # o => Count(e[n], y) = Count(b[n], y)
                      /\ HooksTo(u, n, t) # {} => Count(e[n], o) = 0
    BY DEF WithoutItem
  <2>3. e[n] = IF x = prim[x.key] /\ HooksTo(TopicOf(x.key), n, TopicOf(o.key)) # {}
               THEN HookDel(HookTo(TopicOf(x.key), n, TopicOf(o.key)), b[n], o,
                            Count(heap[o].up[HookTo(TopicOf(x.key), n, TopicOf(o.key))], IdOf(x.key)))
               ELSE b[n]
    BY <1>4
  <2> HIDE DEF e, o, x
  <2>1. CASE HooksTo(u, n, t) = {}
    <3>1. e[n] = b[n] /\ b[n] \in Seq(ObjectSet)
      BY <1>1, <1>3, <2>1, <2>3 DEF HooksHold
    <3> QED
      BY <2>1, <3>1
  <2>2. CASE HooksTo(u, n, t) # {}
    <3> PICK h : h = HookTo(u, n, t)
      OBVIOUS
    <3>1. h \in HooksTo(u, n, t)
      BY <2>2 DEF HookTo
    <3>2. h \in UpHooks(t) /\ u = h.parent /\ h.hook = n
      BY <3>1 DEF HooksTo, HooksOf, UpHooks
    <3> DEFINE s == heap[o].up[h]
    <3>3. e[n] = HookDel(h, b[n], o, Count(s, IdOf(j)))
      BY <1>1, <2>2, <2>3
    <3> HIDE DEF e, b, o, x, s
    <3>4. /\ b[n] \in Seq(ObjectSet) /\ Count(b[n], o) = Count(s, IdOf(j))
          /\ h.dict => OneOfId(b[n], IdOf(k), o)
      BY <1>9, <3>2 DEF b, o, x, s
    <3>5. {i \in DOMAIN b[n] : IF h.dict THEN IdOf(b[n][i].key) = IdOf(o.key) ELSE b[n][i] = o}
            = PlacesOf(b[n], o)
      BY <1>1, <3>4 DEF PlacesOf, OneOfId
    <3>6. e[n] = Taken(b[n], PlacesOf(b[n], o), Count(b[n], o))
      BY <3>3, <3>4, <3>5 DEF HookDel
    <3> QED
      BY <3>4, <3>6, TakenAll
  <2> QED
    BY <2>1, <2>2
<1>8. OfHooks(e, u)
  BY <1>4 DEF OfHooks
<1> QED
  BY <1>6, <1>7, <1>8

\* No refs are few, and name nobody.
LEMMA NoUpNames ==
    ASSUME NEW t
    PROVE  /\ NoUp(t) \in Ups(t) /\ RefsFew(NoUp(t), t)
           /\ \A h \in UpHooks(t) : \A id : Count(NoUp(t)[h], id) = 0
<1>1. \A h \in UpHooks(t) : NoUp(t)[h] = <<>>
  BY DEF NoUp
<1>2. NoUp(t) \in Ups(t)
  BY DEF NoUp, Ups
<1> QED
  BY <1>1, <1>2, CountFew DEF RefsFew

\* treedb_clean_node changes both sides of every link of the node.
LEMMA CleanedKeepsLinks ==
    ASSUME TreeDbAssumption, Indexed(prim), NEW k \in Keys, prim[k] # Nil,
           HeapBut(heap, k), NEW tg, Linkage(heap, prim, tg)
    PROVE  Linkage(Cleaned(heap, prim[k]), prim, tg)
<1> DEFINE hq == Cleaned(heap, prim[k])
           o == prim[k]
<1>1. \A j \in Keys : prim[j] # Nil =>
         /\ OfHooks(hq[prim[j]].down, TopicOf(j))
         /\ WithoutItem(hq[prim[j]].down, heap[prim[j]].down, TopicOf(j), o, TopicOf(k))
  BY CleanedHooks
<1>6. \A j \in Keys : prim[j] # Nil =>
         /\ j = k => hq[prim[j]].up = NoUp(TopicOf(k))
         /\ j # k => hq[prim[j]].up = heap[prim[j]].up
  BY CleanedHooks
<1>2. \A j \in Keys : prim[j] # Nil =>
         /\ heap[prim[j]].up \in Ups(TopicOf(j)) /\ RefsFew(heap[prim[j]].up, TopicOf(j))
         /\ HooksHold(heap[prim[j]].down, prim, TopicOf(j))
         /\ SidesAgree(heap, prim, tg, j)
  BY DEF Linkage
<1> HIDE DEF hq
<1> SUFFICES ASSUME NEW j \in Keys, prim[j] # Nil
             PROVE  /\ hq[prim[j]].up \in Ups(TopicOf(j)) /\ RefsFew(hq[prim[j]].up, TopicOf(j))
                    /\ HooksHold(hq[prim[j]].down, prim, TopicOf(j))
                    /\ SidesAgree(hq, prim, tg, j)
  BY DEF Linkage, hq
<1>3. hq[prim[j]].up \in Ups(TopicOf(j)) /\ RefsFew(hq[prim[j]].up, TopicOf(j))
  BY <1>2, <1>6, NoUpNames
<1>4. HooksHold(hq[prim[j]].down, prim, TopicOf(j))
  <2> DEFINE e == hq[prim[j]].down
             b == heap[prim[j]].down
             t == TopicOf(j)
  <2>1. OfHooks(e, t) /\ WithoutItem(e, b, t, o, TopicOf(k)) /\ HooksHold(b, prim, t)
    BY <1>1, <1>2
  <2> HIDE DEF e, b, t
  <2>2. ASSUME NEW n \in DownHooks(t)
        PROVE  /\ e[n] \in Seq(ObjectSet)
               /\ \A i \in DOMAIN e[n] : \E c \in Keys :
                     prim[c] # Nil /\ e[n][i] = prim[c] /\ HooksTo(t, n, TopicOf(c)) # {}
    <3>1. \A i \in DOMAIN b[n] : \E c \in Keys :
             prim[c] # Nil /\ b[n][i] = prim[c] /\ HooksTo(t, n, TopicOf(c)) # {}
      BY <2>1 DEF HooksHold
    <3>2. e[n] \in Seq(ObjectSet) /\ \A i \in DOMAIN e[n] : \E m \in DOMAIN b[n] : e[n][i] = b[n][m]
      BY <2>1 DEF WithoutItem
    <3> QED
      BY <3>1, <3>2
  <2>3. HooksHold(e, prim, t)
    BY <2>1, <2>2 DEF HooksHold, OfHooks
  <2> QED
    BY <2>3 DEF e, t
<1>5. SidesAgree(hq, prim, tg, j)
  <2> SUFFICES ASSUME NEW h \in UpHooks(TopicOf(j)), NEW p \in Keys, TopicOf(p) = h.parent
               PROVE  IF prim[p] = Nil THEN tg = 0 => Count(hq[prim[j]].up[h], IdOf(p)) = 0
                      ELSE Count(hq[prim[p]].down[h.hook], prim[j]) = Count(hq[prim[j]].up[h], IdOf(p))
    BY DEF SidesAgree
  <2>1. IF prim[p] = Nil THEN tg = 0 => Count(heap[prim[j]].up[h], IdOf(p)) = 0
        ELSE Count(heap[prim[p]].down[h.hook], prim[j]) = Count(heap[prim[j]].up[h], IdOf(p))
    BY <1>2 DEF SidesAgree
  <2>2. h.hook \in DownHooks(TopicOf(p)) /\ HooksTo(TopicOf(p), h.hook, TopicOf(j)) # {}
    BY DEF UpHooks, DownHooks, HooksTo, HooksOf
  <2>3. CASE j = k
    <3>1. Count(hq[prim[j]].up[h], IdOf(p)) = 0
      BY <1>6, <2>3, NoUpNames
    <3>2. prim[p] # Nil => Count(hq[prim[p]].down[h.hook], o) = 0
      BY <1>1, <2>2, <2>3 DEF WithoutItem
    <3> QED
      BY <2>3, <3>1, <3>2
  <2>4. CASE j # k
    <3>1. hq[prim[j]].up = heap[prim[j]].up /\ prim[j] # o
      BY <1>6, <2>4 DEF Indexed
    <3>2. prim[p] # Nil => Count(hq[prim[p]].down[h.hook], prim[j]) = Count(heap[prim[p]].down[h.hook], prim[j])
      <4>1. prim[p] # Nil =>
               WithoutItem(hq[prim[p]].down, heap[prim[p]].down, TopicOf(p), o, TopicOf(k))
        BY <1>1
      <4> QED
        BY <2>2, <3>1, <4>1 DEF WithoutItem
    <3> QED
      BY <2>1, <3>1, <3>2
  <2> QED
    BY <2>3, <2>4
<1> QED
  BY <1>3, <1>4, <1>5

\* Nobody is in the hooks or in the fkeys of the node.
Alone(n, t) ==
    /\ \A name \in DownHooks(t) : \A x : Count(n.down[name], x) = 0
    /\ \A h \in UpHooks(t) : \A id : Count(n.up[h], id) = 0

\* Empty hooks hold nothing.
LEMMA NoDownHolds ==
    ASSUME NEW pr, NEW t
    PROVE  /\ HooksHold(NoDown(t), pr, t)
           /\ \A n \in DownHooks(t) : \A x : Count(NoDown(t)[n], x) = 0
<1>1. \A n \in DownHooks(t) : NoDown(t)[n] = <<>>
  BY DEF NoDown
<1>2. NoDown(t) = [n \in DownHooks(t) |-> NoDown(t)[n]]
  BY DEF NoDown
<1>3. <<>> \in Seq(ObjectSet) /\ DOMAIN <<>> = {}
  OBVIOUS
<1>4. HooksHold(NoDown(t), pr, t)
  BY <1>1, <1>2, <1>3 DEF HooksHold
<1> QED
  BY <1>1, <1>4, CountFew

\* A new node, in no hook and with no refs, keeps the links: the refs to a node
\* that was not there were none.
LEMMA AddedKeepsLinks ==
    ASSUME TreeDbAssumption, NEW hp, NEW hq, NEW pr, Indexed(pr), Linkage(hp, pr, 0),
           NEW k \in Keys, pr[k] = Nil, NEW o \in ObjectSet, o.key = k, o # Nil,
           hq[o].up = NoUp(TopicOf(k)), hq[o].down = NoDown(TopicOf(k)),
           SameLinks(hq, hp, pr),
           NEW q, q[k] = o, \A j \in Keys : j # k => q[j] = pr[j]
    PROVE  Linkage(hq, q, 0)
<1> SUFFICES ASSUME NEW j \in Keys, q[j] # Nil
             PROVE  /\ hq[q[j]].up \in Ups(TopicOf(j)) /\ RefsFew(hq[q[j]].up, TopicOf(j))
                    /\ HooksHold(hq[q[j]].down, q, TopicOf(j))
                    /\ SidesAgree(hq, q, 0, j)
  BY DEF Linkage
<1>1. \A c \in Keys : pr[c] # Nil =>
         /\ hp[pr[c]].up \in Ups(TopicOf(c)) /\ RefsFew(hp[pr[c]].up, TopicOf(c))
         /\ HooksHold(hp[pr[c]].down, pr, TopicOf(c))
         /\ SidesAgree(hp, pr, 0, c)
  BY DEF Linkage
<1>2. \A c \in Keys : c # k /\ q[c] # Nil =>
         hq[q[c]].up = hp[pr[c]].up /\ hq[q[c]].down = hp[pr[c]].down /\ q[c] = pr[c]
  BY DEF SameLinks
<1>3. /\ NoUp(TopicOf(k)) \in Ups(TopicOf(k)) /\ RefsFew(NoUp(TopicOf(k)), TopicOf(k))
      /\ \A h \in UpHooks(TopicOf(k)) : \A id : Count(NoUp(TopicOf(k))[h], id) = 0
  BY NoUpNames
<1>4. /\ HooksHold(NoDown(TopicOf(k)), q, TopicOf(k))
      /\ \A n \in DownHooks(TopicOf(k)) : \A x : Count(NoDown(TopicOf(k))[n], x) = 0
  BY NoDownHolds
<1>5. hq[q[j]].up \in Ups(TopicOf(j)) /\ RefsFew(hq[q[j]].up, TopicOf(j))
  BY <1>1, <1>2, <1>3
<1>6. HooksHold(hq[q[j]].down, q, TopicOf(j))
  <2>1. CASE j = k
    BY <1>4, <2>1
  <2>2. CASE j # k
    <3> PICK d : d = hq[q[j]].down
      OBVIOUS
    <3> PICK t : t = TopicOf(j)
      OBVIOUS
    <3>1. HooksHold(d, pr, t)
      BY <1>1, <1>2, <2>2
    <3>2. \A c \in Keys : pr[c] # Nil => q[c] = pr[c]
      OBVIOUS
    <3>3. HooksHold(d, q, t)
      BY <3>1, <3>2 DEF HooksHold
    <3> QED
      BY <3>3
  <2> QED
    BY <2>1, <2>2
<1>7. SidesAgree(hq, q, 0, j)
  <2> SUFFICES ASSUME NEW h \in UpHooks(TopicOf(j)), NEW p \in Keys, TopicOf(p) = h.parent
               PROVE  IF q[p] = Nil THEN 0 = 0 => Count(hq[q[j]].up[h], IdOf(p)) = 0
                      ELSE Count(hq[q[p]].down[h.hook], q[j]) = Count(hq[q[j]].up[h], IdOf(p))
    BY DEF SidesAgree
  <2>1. h.hook \in DownHooks(TopicOf(p))
    BY DEF UpHooks, DownHooks
  <2>2. CASE j = k
    <3>1. Count(hq[q[j]].up[h], IdOf(p)) = 0
      BY <1>3, <2>2
    <3>2. q[p] # Nil /\ p = k => Count(hq[q[p]].down[h.hook], o) = 0
      BY <1>4, <2>1
    <3>3. ASSUME q[p] # Nil, p # k
          PROVE  Count(hq[q[p]].down[h.hook], o) = 0
      <4> PICK s : s = hq[q[p]].down[h.hook]
        OBVIOUS
      <4> PICK d : d = hq[q[p]].down
        OBVIOUS
      <4>3. HooksHold(d, pr, TopicOf(p)) /\ s = d[h.hook]
        BY <1>1, <1>2, <3>3
      <4>1. /\ s \in Seq(ObjectSet)
            /\ \A i \in DOMAIN s : \E c \in Keys : pr[c] # Nil /\ s[i] = pr[c]
        BY <2>1, <4>3 DEF HooksHold
      <4>2. \A i \in DOMAIN s : s[i] # o
        BY <4>1 DEF Indexed
      <4> QED
        BY <4>1, <4>2, CountZero
    <3> QED
      BY <2>2, <3>1, <3>2, <3>3
  <2>3. CASE j # k
    <3>1. IF pr[p] = Nil THEN 0 = 0 => Count(hp[pr[j]].up[h], IdOf(p)) = 0
          ELSE Count(hp[pr[p]].down[h.hook], pr[j]) = Count(hp[pr[j]].up[h], IdOf(p))
      BY <1>1, <2>3 DEF SidesAgree
    <3>2. hq[q[j]].up = hp[pr[j]].up /\ q[j] = pr[j]
      BY <1>2, <2>3
    <3>3. CASE p = k
      <4>1. Count(hq[q[p]].down[h.hook], q[j]) = 0
        BY <1>4, <2>1, <3>3
      <4> QED
        BY <3>1, <3>2, <3>3, <4>1
    <3>4. CASE p # k
      BY <1>2, <3>1, <3>2, <3>4
    <3> QED
      BY <3>3, <3>4
  <2> QED
    BY <2>2, <2>3
<1> QED
  BY <1>5, <1>6, <1>7

\* A node that goes, alone, keeps the links: nothing names it, nothing holds it.
LEMMA RemovedKeepsLinks ==
    ASSUME TreeDbAssumption, NEW hp, NEW hq, NEW pr, Indexed(pr), Linkage(hp, pr, 0),
           NEW k \in Keys, pr[k] # Nil, Alone(hp[pr[k]], TopicOf(k)),
           NEW q, q[k] = Nil, \A j \in Keys : j # k => q[j] = pr[j],
           SameLinks(hq, hp, q)
    PROVE  Linkage(hq, q, 0)
<1> SUFFICES ASSUME NEW j \in Keys, q[j] # Nil
             PROVE  /\ hq[q[j]].up \in Ups(TopicOf(j)) /\ RefsFew(hq[q[j]].up, TopicOf(j))
                    /\ HooksHold(hq[q[j]].down, q, TopicOf(j))
                    /\ SidesAgree(hq, q, 0, j)
  BY DEF Linkage
<1>1. \A c \in Keys : pr[c] # Nil =>
         /\ hp[pr[c]].up \in Ups(TopicOf(c)) /\ RefsFew(hp[pr[c]].up, TopicOf(c))
         /\ HooksHold(hp[pr[c]].down, pr, TopicOf(c))
         /\ SidesAgree(hp, pr, 0, c)
  BY DEF Linkage
<1>2. \A c \in Keys : q[c] # Nil =>
         /\ c # k /\ pr[c] = q[c] /\ pr[c] # Nil
         /\ hq[q[c]].up = hp[pr[c]].up /\ hq[q[c]].down = hp[pr[c]].down
  BY DEF SameLinks
<1>3. hq[q[j]].up \in Ups(TopicOf(j)) /\ RefsFew(hq[q[j]].up, TopicOf(j))
  BY <1>1, <1>2
<1>4. HooksHold(hq[q[j]].down, q, TopicOf(j))
  <2> PICK d : d = hq[q[j]].down
    OBVIOUS
  <2> PICK t : t = TopicOf(j)
    OBVIOUS
  <2>1. HooksHold(d, pr, t) /\ d = hp[pr[j]].down
    BY <1>1, <1>2
  <2>2. ASSUME NEW n \in DownHooks(t), NEW i \in DOMAIN d[n]
        PROVE  \E c \in Keys : q[c] # Nil /\ d[n][i] = q[c] /\ HooksTo(t, n, TopicOf(c)) # {}
    <3>1. d[n] \in Seq(ObjectSet)
      BY <2>1 DEF HooksHold
    <3>2. PICK c \in Keys : pr[c] # Nil /\ d[n][i] = pr[c] /\ HooksTo(t, n, TopicOf(c)) # {}
      BY <2>1 DEF HooksHold
    <3>3. c # k
      <4> SUFFICES ASSUME c = k
                   PROVE  FALSE
        OBVIOUS
      <4>1. PICK h : h \in HooksTo(t, n, TopicOf(k))
        BY <3>2
      <4>2. h \in UpHooks(TopicOf(k)) /\ TopicOf(j) = h.parent /\ h.hook = n
        BY <4>1 DEF HooksTo, HooksOf, UpHooks
      <4>3. Count(hp[pr[j]].down[h.hook], pr[k]) = Count(hp[pr[k]].up[h], IdOf(j))
        BY <1>1, <1>2, <4>2 DEF SidesAgree
      <4>4. Count(d[n], pr[k]) = 0
        BY <2>1, <4>2, <4>3 DEF Alone
      <4> QED
        BY <3>1, <3>2, <4>4, CountZero
    <3> QED
      BY <3>2, <3>3
  <2>3. HooksHold(d, q, t)
    BY <2>1, <2>2 DEF HooksHold
  <2> QED
    BY <2>3
<1>5. SidesAgree(hq, q, 0, j)
  <2> SUFFICES ASSUME NEW h \in UpHooks(TopicOf(j)), NEW p \in Keys, TopicOf(p) = h.parent
               PROVE  IF q[p] = Nil THEN 0 = 0 => Count(hq[q[j]].up[h], IdOf(p)) = 0
                      ELSE Count(hq[q[p]].down[h.hook], q[j]) = Count(hq[q[j]].up[h], IdOf(p))
    BY DEF SidesAgree
  <2>1. h.hook \in DownHooks(TopicOf(p))
    BY DEF UpHooks, DownHooks
  <2>2. IF pr[p] = Nil THEN 0 = 0 => Count(hp[pr[j]].up[h], IdOf(p)) = 0
        ELSE Count(hp[pr[p]].down[h.hook], pr[j]) = Count(hp[pr[j]].up[h], IdOf(p))
    BY <1>1, <1>2 DEF SidesAgree
  <2>3. CASE p = k
    <3>1. Count(hp[pr[p]].down[h.hook], pr[j]) = 0
      BY <2>1, <2>3 DEF Alone
    <3> QED
      BY <1>2, <2>2, <2>3, <3>1
  <2>4. CASE p # k
    BY <1>2, <2>2, <2>4
  <2> QED
    BY <2>3, <2>4
<1> QED
  BY <1>3, <1>4, <1>5

---------------------------------------------------------------------------
(* The links of a load.                                                    *)

\* Every object of the index is of a row of its node.
Born(p) == \A c \in Keys : p[c] # Nil =>
    /\ p[c] \in ObjectSet /\ p[c].key = c
    /\ p[c].row \in DOMAIN log[TopicOf(c)]
    /\ log[TopicOf(c)][p[c].row].id = IdOf(c)

ItemsOf(p, k, name) == UNION {{c} \X RefsTo(p, c, k, name) : c \in {j \in Keys : p[j] # Nil}}

\* The topics have an order.
LEMMA TopicsHaveOrder ==
    ASSUME TreeDbAssumption
    PROVE  /\ \A t \in Topics : TopicAt[t] \in Nat
           /\ \A t, u \in Topics : TopicAt[t] = TopicAt[u] => t = u
<1>1. IsFiniteSet(Topics)
  <2> DEFINE f == [k \in Keys |-> TopicOf(k)]
  <2>1. f \in Surjection(Keys, Topics)
    BY DEF Surjection, Topics
  <2> HIDE DEF f
  <2> QED
    BY <2>1, FS_Surjection DEF TreeDbAssumption
<1> DEFINE n == Cardinality(Topics)
<1>2. n \in Nat /\ IsFiniteSet(1 .. n) /\ Cardinality(1 .. n) = n
  BY <1>1, FS_CardinalityType, FS_Interval
<1>3. PICK f : f \in Bijection(Topics, 1 .. n)
  BY <1>1, <1>2, FS_SameCardinalityBij DEF ExistsBijection
<1>4. f \in [Topics -> 1 .. n] /\ IsInjective(f)
  BY <1>3 DEF Bijection, Injection
<1>5. TopicAt \in [Topics -> 1 .. n] /\ IsInjective(TopicAt)
  BY <1>4 DEF TopicAt
<1> QED
  BY <1>2, <1>5 DEF IsInjective

\* The union of finite sets is finite.
LEMMA FamilyFinite ==
    ASSUME NEW S, IsFiniteSet(S), NEW f, \A x \in S : IsFiniteSet(f[x])
    PROVE  IsFiniteSet(UNION {f[x] : x \in S})
<1> DEFINE T == {f[x] : x \in S}
           g == [x \in S |-> f[x]]
<1>1. g \in Surjection(S, T)
  BY DEF Surjection
<1>2. \A A \in T : IsFiniteSet(A)
  OBVIOUS
<1> HIDE DEF T, g
<1>3. IsFiniteSet(T)
  BY <1>1, FS_Surjection
<1>4. IsFiniteSet(UNION T)
  BY <1>2, <1>3, FS_UNION
<1> QED
  BY <1>4 DEF T

\* The row of a node that is loaded.
LEMMA BornRow ==
    ASSUME TreeDbAssumption, LogType, NEW p, Born(p), NEW c \in Keys, p[c] # Nil
    PROVE  /\ p[c].row \in Nat /\ log[TopicOf(c)][p[c].row] \in RowSet(TopicOf(c))
           /\ log[TopicOf(c)][p[c].row].up \in Ups(TopicOf(c))
<1>1. log[TopicOf(c)] \in Seq(RowSet(TopicOf(c))) /\ p[c].row \in DOMAIN log[TopicOf(c)]
  BY KeyParts DEF LogType, Born
<1>2. p[c].row \in Nat /\ log[TopicOf(c)][p[c].row] \in RowSet(TopicOf(c))
  BY <1>1
<1> QED
  BY <1>2 DEF RowSet

\* The refs of a node to another are places of an fkey.
LEMMA RefsPlaces ==
    ASSUME TreeDbAssumption, LogType, NEW p, Born(p), NEW c \in Keys, p[c] # Nil,
           NEW k \in Keys, NEW name
    PROVE  RefsTo(p, c, k, name) \in SUBSET Nat /\ IsFiniteSet(RefsTo(p, c, k, name))
<1> DEFINE h  == HookTo(TopicOf(k), name, TopicOf(c))
           up == log[TopicOf(c)][p[c].row].up[h]
           R  == RefsTo(p, c, k, name)
<1>1. CASE HooksTo(TopicOf(k), name, TopicOf(c)) = {}
  BY <1>1, FS_EmptySet DEF RefsTo
<1>2. CASE HooksTo(TopicOf(k), name, TopicOf(c)) # {}
  <2>1. h \in UpHooks(TopicOf(c))
    BY <1>2 DEF HookTo, HooksTo, HooksOf, UpHooks
  <2>2. up \in Seq(Ids)
    BY <2>1, BornRow DEF Ups
  <2>3. R \in SUBSET DOMAIN up
    BY <1>2 DEF RefsTo
  <2> HIDE DEF up, R
  <2>4. R \in SUBSET Nat /\ IsFiniteSet(R)
    BY <2>2, <2>3, CountIsNat
  <2> QED
    BY <2>4 DEF R
<1> QED
  BY <1>1, <1>2

\* load_all_links takes the refs in an order.
LEMMA ItemsInOrder ==
    ASSUME TreeDbAssumption, LogType, NEW p, Born(p), NEW k \in Keys, NEW name
    PROVE  LET items == ItemsOf(p, k, name)
           IN  /\ IsFiniteSet(items)
               /\ Orders({e \in items \X items : Earlier(p, e[1], e[2])}, items)
<1> DEFINE items == ItemsOf(p, k, name)
           C == {j \in Keys : p[j] # Nil}
           f == [c \in C |-> {c} \X RefsTo(p, c, k, name)]
           before == {e \in items \X items : Earlier(p, e[1], e[2])}
<1>1. \A c \in C : RefsTo(p, c, k, name) \in SUBSET Nat /\ IsFiniteSet(RefsTo(p, c, k, name))
  BY RefsPlaces
<1>2. IsFiniteSet(items)
  <2>1. \A c \in C : IsFiniteSet(f[c])
    BY <1>1, FS_Singleton, FS_Product
  <2>2. IsFiniteSet(C)
    BY FS_Subset DEF TreeDbAssumption
  <2>3. {f[c] : c \in C} = {{c} \X RefsTo(p, c, k, name) : c \in C}
    OBVIOUS
  <2> HIDE DEF f, C
  <2>4. IsFiniteSet(UNION {f[c] : c \in C})
    BY <2>1, <2>2, FamilyFinite
  <2> QED
    BY <2>3, <2>4 DEF ItemsOf, C
<1>3. ASSUME NEW x \in items
      PROVE  /\ x[1] \in Keys /\ p[x[1]] # Nil /\ x[2] \in Nat /\ x = <<x[1], x[2]>>
             /\ TopicAt[TopicOf(x[1])] \in Nat /\ p[x[1]].row \in Nat
  <2>1. PICK c \in C : x \in {c} \X RefsTo(p, c, k, name)
    BY DEF ItemsOf
  <2>2. x[1] = c /\ x[2] \in Nat /\ x = <<x[1], x[2]>>
    BY <1>1, <2>1
  <2> QED
    BY <2>2, BornRow, KeyParts, TopicsHaveOrder
<1>4. ASSUME NEW x \in items, NEW y \in items,
             TopicAt[TopicOf(x[1])] = TopicAt[TopicOf(y[1])], p[x[1]].row = p[y[1]].row
      PROVE  x[1] = y[1]
  <2>1. TopicOf(x[1]) = TopicOf(y[1])
    BY <1>3, <1>4, TopicsHaveOrder, KeyParts
  <2>2. IdOf(x[1]) = IdOf(y[1])
    BY <1>3, <1>4, <2>1 DEF Born
  <2> QED
    BY <1>3, <2>1, <2>2, KeyParts
<1> DEFINE at(x) == TopicAt[TopicOf(x[1])]
           r(x)  == p[x[1]].row
<1>5. \A x, y \in items : <<x, y>> \in before <=>
         \/ at(x) < at(y)
         \/ at(x) = at(y) /\ r(x) > r(y)
         \/ at(x) = at(y) /\ r(x) = r(y) /\ x[2] < y[2]
  BY DEF Earlier
<1>6. \A x \in items : at(x) \in Nat /\ r(x) \in Nat /\ x[2] \in Nat
  BY <1>3
<1>7. \A x, y \in items : at(x) = at(y) /\ r(x) = r(y) /\ x[2] = y[2] => x = y
  <2> SUFFICES ASSUME NEW x \in items, NEW y \in items, at(x) = at(y), r(x) = r(y), x[2] = y[2]
               PROVE  x = y
    OBVIOUS
  <2>1. x = <<x[1], x[2]>> /\ y = <<y[1], y[2]>>
    BY <1>3
  <2>2. x[1] = y[1]
    BY <1>4
  <2> QED
    BY <2>1, <2>2
<1> HIDE DEF items, before, at, r
<1>8. Orders(before, items)
  <2>1. \A x \in items : <<x, x>> \notin before
    BY <1>5, <1>6
  <2>2. \A x, y, z \in items : <<x, y>> \in before /\ <<y, z>> \in before => <<x, z>> \in before
    <3> TAKE x, y, z \in items
    <3>1. \A i, j, l \in Nat : i < j /\ j < l => i < l
      OBVIOUS
    <3> QED
      BY <1>5, <1>6, <3>1
  <2>3. \A x, y \in items : x # y => <<x, y>> \in before \/ <<y, x>> \in before
    BY <1>5, <1>6, <1>7
  <2> QED
    BY <2>1, <2>2, <2>3 DEF Orders
<1> QED
  BY <1>2, <1>8 DEF items, before

\* A hook after a load: the children are of the index, each as many times as it
\* has refs to the node.
LEMMA ChildrenCounted ==
    ASSUME TreeDbAssumption, LogType, NEW p, Born(p), NEW k \in Keys, NEW name
    PROVE  LET d == ChildrenOf(p, k, name)
           IN  /\ d \in Seq(ObjectSet)
               /\ \A i \in DOMAIN d : \E c \in Keys :
                     p[c] # Nil /\ d[i] = p[c] /\ HooksTo(TopicOf(k), name, TopicOf(c)) # {}
               /\ \A c \in Keys : p[c] # Nil =>
                     Count(d, p[c]) = Cardinality(RefsTo(p, c, k, name))
<1> DEFINE items == ItemsOf(p, k, name)
           before == {e \in items \X items : Earlier(p, e[1], e[2])}
           order == InOrder(items, before)
           N == Cardinality(items)
           d == [n \in DOMAIN order |-> p[order[n][1]]]
<1>1. IsFiniteSet(items) /\ Orders(before, items) /\ N \in Nat
  BY ItemsInOrder, FS_CardinalityType
<1>2. IsBijection(order, 1 .. N, items)
  BY <1>1, InOrderOnce
<1>3. ChildrenOf(p, k, name) = d
  BY DEF ChildrenOf, ItemsOf
<1>4. \A x \in items : /\ x[1] \in Keys /\ p[x[1]] # Nil /\ x \in {x[1]} \X RefsTo(p, x[1], k, name)
  BY DEF ItemsOf
<1>5. \A c \in Keys : p[c] # Nil => {c} \X RefsTo(p, c, k, name) \in SUBSET items
  BY DEF ItemsOf
<1> HIDE DEF items, before, order
<1>6. /\ DOMAIN order = 1 .. N /\ \A n \in 1 .. N : order[n] \in items
      /\ DOMAIN d = 1 .. N /\ \A n \in 1 .. N : d[n] = p[order[n][1]]
  BY <1>2 DEF IsBijection
<1> HIDE DEF d
<1>7. d \in Seq(ObjectSet)
  <2>1. \A n \in 1 .. N : d[n] \in ObjectSet
    BY <1>4, <1>6 DEF Born
  <2>2. d = [n \in 1 .. N |-> d[n]]
    BY <1>6 DEF d
  <2> QED
    BY <1>1, <2>1, <2>2
<1>8. \A i \in DOMAIN d : \E c \in Keys :
         p[c] # Nil /\ d[i] = p[c] /\ HooksTo(TopicOf(k), name, TopicOf(c)) # {}
  <2> TAKE i \in DOMAIN d
  <2>1. order[i] \in items /\ d[i] = p[order[i][1]]
    BY <1>6
  <2>2. PICK c : c = order[i][1]
    OBVIOUS
  <2>3. c \in Keys /\ p[c] # Nil /\ d[i] = p[c] /\ RefsTo(p, c, k, name) # {}
    BY <1>4, <2>1, <2>2
  <2>4. HooksTo(TopicOf(k), name, TopicOf(c)) # {}
    BY <2>3 DEF RefsTo
  <2> QED
    BY <2>3, <2>4
<1>9. ASSUME NEW c \in Keys, p[c] # Nil
      PROVE  Count(d, p[c]) = Cardinality(RefsTo(p, c, k, name))
  <2> DEFINE R == RefsTo(p, c, k, name)
             B == {c} \X R
             D == 1 .. N
  <2>1. B \in SUBSET items /\ IsFiniteSet(R)
    BY <1>5, <1>9, RefsPlaces
  <2>2. IsFiniteSet(B) /\ Cardinality(B) = Cardinality(R)
    <3>1. IsFiniteSet({c}) /\ Cardinality({c}) = 1 /\ Cardinality(R) \in Nat
      BY <2>1, FS_Singleton, FS_CardinalityType
    <3>2. IsFiniteSet(B) /\ Cardinality(B) = Cardinality({c}) * Cardinality(R)
      BY <2>1, <3>1, FS_Product
    <3>3. \A m \in Nat : 1 * m = m
      OBVIOUS
    <3> HIDE DEF B, R
    <3> QED
      BY <3>1, <3>2, <3>3
  <2>3. \A n \in D : d[n] = p[c] <=> order[n] \in B
    <3> TAKE n \in D
    <3>1. PICK x : x = order[n]
      OBVIOUS
    <3>2. x \in items /\ d[n] = p[x[1]]
      BY <1>6, <3>1
    <3>3. x[1] \in Keys /\ p[x[1]] # Nil /\ x \in {x[1]} \X RefsTo(p, x[1], k, name)
      BY <1>4, <3>2
    <3>4. p[x[1]] = p[c] <=> x[1] = c
      BY <1>9, <3>3 DEF Born
    <3> QED
      BY <3>1, <3>2, <3>3, <3>4
  <2>4. {n \in DOMAIN d : d[n] = p[c]} = {n \in D : order[n] \in B}
    BY <1>6, <2>3
  <2>6. IsBijection(order, D, items) /\ B \in SUBSET items /\ IsFiniteSet(B)
    BY <1>2, <2>1, <2>2
  <2> HIDE DEF B, D
  <2>5. Cardinality({n \in D : order[n] \in B}) = Cardinality(B)
    BY <2>6, OnceEach
  <2> QED
    BY <2>2, <2>4, <2>5 DEF Count
<1> QED
  BY <1>3, <1>7, <1>8, <1>9

\* The refs of every row are few.
RowsFew == \A t \in Topics : \A r \in DOMAIN log[t] : RefsFew(log[t][r].up, t)

\* The last row of a node names no parent that has no rows.
Anchored == \A c, k \in Keys : \A h \in UpHooks(TopicOf(c)) :
    TopicOf(k) = h.parent /\ Rows(k, 0) = {} =>
        \A r \in Rows(c, 0) : IsLast(r, Rows(c, 0)) =>
            Count(log[TopicOf(c)][r].up[h], IdOf(k)) = 0

\* There is one hook for an fkey.
LEMMA OneHookTo ==
    ASSUME TreeDbAssumption, NEW c \in Keys, NEW k \in Keys,
           NEW h \in UpHooks(TopicOf(c)), TopicOf(k) = h.parent
    PROVE  /\ HooksTo(TopicOf(k), h.hook, TopicOf(c)) # {}
           /\ HookTo(TopicOf(k), h.hook, TopicOf(c)) = h
<1>1. h \in HooksTo(TopicOf(k), h.hook, TopicOf(c))
  BY DEF HooksTo, HooksOf, UpHooks
<1>2. \A g \in HooksTo(TopicOf(k), h.hook, TopicOf(c)) : g = h
  BY DEF HooksTo, HooksOf, UpHooks, TreeDbAssumption
<1> QED
  BY <1>1, <1>2 DEF HookTo

\* As many items as refs: a dict hook has the first one only, and there is one.
LEMMA RefsCounted ==
    ASSUME TreeDbAssumption, LogType, RowsFew, NEW p, Born(p), NEW c \in Keys, p[c] # Nil,
           NEW k \in Keys, NEW h \in UpHooks(TopicOf(c)), TopicOf(k) = h.parent
    PROVE  Cardinality(RefsTo(p, c, k, h.hook)) = Count(log[TopicOf(c)][p[c].row].up[h], IdOf(k))
<1> DEFINE up == log[TopicOf(c)][p[c].row].up[h]
           R  == RefsTo(p, c, k, h.hook)
           id == IdOf(k)
           P  == {i \in DOMAIN up : up[i] = id}
<1>1. up \in Seq(Ids) /\ id \in Ids
  BY BornRow, KeyParts DEF Ups
<1>2. h.dict => Count(up, id) <= 1
  BY <1>1, KeyParts DEF RowsFew, RefsFew, Born
<1>3. R = {i \in DOMAIN up : up[i] = id /\ (h.dict => \A j \in 1 .. (i - 1) : up[j] # id)}
  <2>1. PICK g : g = HookTo(TopicOf(k), h.hook, TopicOf(c))
    OBVIOUS
  <2>2. g = h /\ HooksTo(TopicOf(k), h.hook, TopicOf(c)) # {}
    BY <2>1, OneHookTo
  <2> QED
    BY <2>1, <2>2 DEF RefsTo
<1> HIDE DEF up, id
<1>4. P \in SUBSET DOMAIN up /\ IsFiniteSet(P) /\ Cardinality(P) \in Nat
  BY <1>1, CountIsNat
<1>5. ASSUME h.dict, NEW i \in P, NEW j \in 1 .. (i - 1), up[j] = id
      PROVE  FALSE
  <2>1. i \in DOMAIN up /\ DOMAIN up = 1 .. Len(up) /\ Len(up) \in Nat
    BY <1>1
  <2>2. j \in DOMAIN up /\ i # j
    BY <2>1
  <2>3. j \in P /\ {i} \in SUBSET P /\ {i} # P
    BY <1>5, <2>2
  <2> HIDE DEF P
  <2>6. Cardinality({i}) = 1
    BY FS_Singleton
  <2>4. 1 <= Cardinality(P) /\ (Cardinality(P) = 1 => P = {i})
    BY <1>4, <2>3, <2>6, FS_Subset
  <2>5. Cardinality(P) <= 1
    BY <1>2, <1>5 DEF Count, P
  <2> QED
    BY <1>4, <2>3, <2>4, <2>5
<1>6. R = P
  BY <1>3, <1>5
<1> QED
  BY <1>6 DEF Count, up, id

\* hq has what a load makes of the index p.
Made(hq, p) == \A k \in Keys : p[k] # Nil =>
    /\ hq[p[k]].up = log[TopicOf(k)][p[k].row].up
    /\ hq[p[k]].down = [n \in DownHooks(TopicOf(k)) |-> ChildrenOf(p, k, n)]

\* load_all_links makes both sides of the links agree.
LEMMA LoadLinks ==
    ASSUME TreeDbAssumption, LogType, RowsFew, NEW p, Born(p), NEW hq, Made(hq, p), NEW tg,
           \A c, k \in Keys : p[c] # Nil /\ p[k] = Nil /\ tg = 0 =>
              \A h \in UpHooks(TopicOf(c)) : TopicOf(k) = h.parent =>
                  Count(log[TopicOf(c)][p[c].row].up[h], IdOf(k)) = 0
    PROVE  Linkage(hq, p, tg)
<1> SUFFICES ASSUME NEW k \in Keys, p[k] # Nil
             PROVE  /\ hq[p[k]].up \in Ups(TopicOf(k)) /\ RefsFew(hq[p[k]].up, TopicOf(k))
                    /\ HooksHold(hq[p[k]].down, p, TopicOf(k))
                    /\ SidesAgree(hq, p, tg, k)
  BY DEF Linkage
<1>1. hq[p[k]].up \in Ups(TopicOf(k)) /\ RefsFew(hq[p[k]].up, TopicOf(k))
  BY BornRow, KeyParts DEF Made, RowsFew, Born
<1>2. HooksHold(hq[p[k]].down, p, TopicOf(k))
  <2> PICK d : d = hq[p[k]].down
    OBVIOUS
  <2>1. d = [n \in DownHooks(TopicOf(k)) |-> ChildrenOf(p, k, n)]
    BY DEF Made
  <2>2. ASSUME NEW n \in DownHooks(TopicOf(k))
        PROVE  /\ d[n] \in Seq(ObjectSet)
               /\ \A i \in DOMAIN d[n] : \E c \in Keys :
                     p[c] # Nil /\ d[n][i] = p[c] /\ HooksTo(TopicOf(k), n, TopicOf(c)) # {}
    <3> PICK e : e = ChildrenOf(p, k, n)
      OBVIOUS
    <3>1. d[n] = e
      BY <2>1
    <3>2. /\ e \in Seq(ObjectSet)
          /\ \A i \in DOMAIN e : \E c \in Keys :
                p[c] # Nil /\ e[i] = p[c] /\ HooksTo(TopicOf(k), n, TopicOf(c)) # {}
      BY ChildrenCounted
    <3> QED
      BY <3>1, <3>2
  <2>3. d = [n \in DownHooks(TopicOf(k)) |-> d[n]]
    BY <2>1
  <2> QED
    BY <2>2, <2>3 DEF HooksHold
<1>3. SidesAgree(hq, p, tg, k)
  <2> SUFFICES ASSUME NEW h \in UpHooks(TopicOf(k)), NEW j \in Keys, TopicOf(j) = h.parent
               PROVE  IF p[j] = Nil THEN tg = 0 => Count(hq[p[k]].up[h], IdOf(j)) = 0
                      ELSE Count(hq[p[j]].down[h.hook], p[k]) = Count(hq[p[k]].up[h], IdOf(j))
    BY DEF SidesAgree
  <2>1. CASE p[j] = Nil
    <3>1. tg = 0 => Count(log[TopicOf(k)][p[k].row].up[h], IdOf(j)) = 0
      BY <2>1
    <3>2. hq[p[k]].up = log[TopicOf(k)][p[k].row].up
      BY DEF Made
    <3> QED
      BY <2>1, <3>1, <3>2
  <2>2. CASE p[j] # Nil
    <3>1. h.hook \in DownHooks(TopicOf(j))
      BY DEF UpHooks, DownHooks
    <3> PICK d : d = hq[p[j]].down
      OBVIOUS
    <3>5. d = [n \in DownHooks(TopicOf(j)) |-> ChildrenOf(p, j, n)]
      BY <2>2 DEF Made
    <3>2. hq[p[j]].down[h.hook] = ChildrenOf(p, j, h.hook)
      BY <3>1, <3>5
    <3>3. Count(ChildrenOf(p, j, h.hook), p[k]) = Cardinality(RefsTo(p, k, j, h.hook))
      BY ChildrenCounted
    <3>4. Cardinality(RefsTo(p, k, j, h.hook)) = Count(log[TopicOf(k)][p[k].row].up[h], IdOf(j))
      BY RefsCounted
    <3>6. hq[p[k]].up = log[TopicOf(k)][p[k].row].up
      BY DEF Made
    <3> QED
      BY <2>2, <3>2, <3>3, <3>4, <3>6
  <2> QED
    BY <2>1, <2>2
<1> QED
  BY <1>1, <1>2, <1>3

TreeLinked == open => Linkage(heap, prim, tag)

LInv == TreeLinked /\ RowsFew /\ Anchored

\* In memory and on disk, the links are the same.
LEMMA AnchoredInMemory ==
    ASSUME TreeDbAssumption
    PROVE  IInv /\ open /\ tag = 0 /\ TreeLinked => Anchored
<1> SUFFICES ASSUME IInv, open, tag = 0, TreeLinked,
                    NEW c \in Keys, NEW k \in Keys, NEW h \in UpHooks(TopicOf(c)),
                    TopicOf(k) = h.parent, Rows(k, 0) = {},
                    NEW r \in Rows(c, 0), IsLast(r, Rows(c, 0))
             PROVE  Count(log[TopicOf(c)][r].up[h], IdOf(k)) = 0
  BY DEF Anchored
<1>1. Loaded(c, 0) /\ Loaded(k, 0)
  BY DEF IInv, MemoryLoaded
<1>2. prim[k] = Nil /\ prim[c] # Nil
  BY <1>1 DEF Loaded, IsLast
<1>3. PICK n : n = heap[prim[c]]
  OBVIOUS
<1>4. IsLast(n.row, Rows(c, 0)) /\ Image(n) = Image(log[TopicOf(c)][n.row])
  BY <1>1, <1>2, <1>3 DEF Loaded
<1>5. n.row = r
  <2>1. n.row \in Nat /\ r \in Nat
    BY <1>4, RowFacts DEF IInv, TypeInv, IsLast
  <2>2. n.row <= r /\ r <= n.row
    BY <1>4 DEF IsLast
  <2> QED
    BY <2>1, <2>2
<1>6. n.up = log[TopicOf(c)][r].up
  BY <1>4, <1>5 DEF Image
<1>7. SidesAgree(heap, prim, 0, c)
  BY <1>2 DEF TreeLinked, Linkage
<1>8. Count(n.up[h], IdOf(k)) = 0
  BY <1>2, <1>3, <1>7 DEF SidesAgree
<1> QED
  BY <1>6, <1>8

\* The row that is written names few parents, as the node.
LEMMA WrittenFew ==
    ASSUME TreeDbAssumption, LogType, RowsFew, NEW k \in Keys, NEW n, Written(k, n), RefsFew(n.up, TopicOf(k))
    PROVE  RowsFew'
<1>1. PICK w : w = RowOf(k, n)
  OBVIOUS
<1>2. RowMore(k, w, n.row) /\ w.up = n.up
  BY <1>1, RowOfNode DEF Written, RowOf
<1> SUFFICES ASSUME NEW t \in Topics, NEW r \in DOMAIN log'[t]
             PROVE  RefsFew(log'[t][r].up, t)
  BY DEF RowsFew
<1>3. CASE r \in DOMAIN log[t]
  BY <1>2, <1>3 DEF RowMore, RowsFew
<1>4. CASE t = TopicOf(k) /\ r = n.row
  BY <1>2, <1>4 DEF RowMore
<1> QED
  BY <1>2, <1>3, <1>4 DEF RowMore

\* A save leaves the objects as they were given to it, but for a row.
LEMMA SaveLeaves ==
    ASSUME IInv, NEW k \in Keys, prim[k] # Nil, NEW hp, HeapBut(hp, k),
           NEW fails \in Fails, Save(hp, prim[k], fails)
    PROVE  /\ SameLinks(heap', hp, prim)
           /\ heap'[prim[k]].val = hp[prim[k]].val /\ heap'[prim[k]].k2 = hp[prim[k]].k2
<1>1. PICK m : /\ heap' = Living([hp EXCEPT ![prim[k]] = m], prim, sec)
               /\ m = hp[prim[k]] \/ \E r : m = [hp[prim[k]] EXCEPT !.row = r]
  BY DEF Save
<1>2. PICK old : old = hp[prim[k]]
  OBVIOUS
<1>3. m.up = old.up /\ m.down = old.down /\ m.val = old.val /\ m.k2 = old.k2
  <2>1. old = [val |-> old.val, k2 |-> old.k2, up |-> old.up, down |-> old.down, row |-> old.row, tag |-> old.tag]
    BY <1>2 DEF HeapBut, IsNode
  <2> QED
    BY <1>1, <1>2, <2>1
<1>4. PICK hq : hq = [hp EXCEPT ![prim[k]] = m]
  OBVIOUS
<1>5. ASSUME NEW j \in Keys, prim[j] # Nil
      PROVE  heap'[prim[j]] = IF prim[j] = prim[k] THEN m ELSE hp[prim[j]]
  <2>1. j \in DOMAIN prim
    BY DEF IInv, TypeInv, MemoryType
  <2>2. heap' = Living(hq, prim, sec)
    BY <1>1, <1>4
  <2>3. Living(hq, prim, sec)[prim[j]] = hq[prim[j]]
    BY <1>5, <2>1, LivingKeeps
  <2>4. hq[prim[j]] = IF prim[j] = prim[k] THEN m ELSE hp[prim[j]]
    BY <1>4, <1>5 DEF HeapBut
  <2> QED
    BY <2>2, <2>3, <2>4
<1>6. SameLinks(heap', hp, prim)
  BY <1>2, <1>3, <1>5 DEF SameLinks
<1> QED
  BY <1>2, <1>3, <1>5, <1>6

\* A save keeps the links that the memory has.
LEMMA SaveKeepsLinks ==
    ASSUME TreeDbAssumption, Disciplined, IInv, RowsFew, open, tag = 0, UNCHANGED <<open, tag, prim>>,
           NEW k \in Keys, prim[k] # Nil, NEW hp, HeapBut(hp, k), Linkage(hp, prim, 0),
           NEW fails \in Fails, Save(hp, prim[k], fails)
    PROVE  TreeLinked' /\ RowsFew'
<1>1. PICK n : Written(k, n)
  BY SaveWrites DEF IInv
<1>2. Linkage(heap', prim, 0)
  BY SaveLeaves, LinkageStays
<1>3. TreeLinked'
  BY <1>2 DEF TreeLinked
<1>4. RefsFew(n.up, TopicOf(k))
  <2>1. heap'[prim[k]] = n
    BY <1>1 DEF Written
  <2> QED
    BY <1>2, <2>1 DEF Linkage
<1> QED
  BY <1>1, <1>3, <1>4, WrittenFew DEF IInv, TypeInv

---------------------------------------------------------------------------
(* What the operations save.                                               *)

SameValue(m, n) == m.val = n.val /\ m.k2 = n.k2

\* The node k has another value, or other links.
Rewrites(k, hp) ==
    /\ HeapBut(hp, k) /\ Linkage(hp, prim, 0)
    /\ hp[prim[k]].up = heap[prim[k]].up \/ SameValue(hp[prim[k]], heap[prim[k]])

Saves(k) ==
    /\ open /\ tag = 0 /\ prim[k] # Nil /\ UNCHANGED <<open, tag, prim>>
    /\ \E hp : Rewrites(k, hp) /\ \E fails \in Fails : Save(hp, prim[k], fails)

\* Another value in an object.
Updated(m, n, v, k2) == m = [n EXCEPT !.val = v, !.k2 = k2]

\* Its links are the same.
LEMMA UpdatedLinks ==
    ASSUME NEW t, NEW n, IsNode(t, n), NEW v, NEW k2, NEW m, Updated(m, n, v, k2)
    PROVE  /\ m = [val |-> v, k2 |-> k2, up |-> n.up, down |-> n.down, row |-> n.row, tag |-> n.tag]
           /\ m.up = n.up /\ m.down = n.down
<1>1. PICK a, b, u, d, r, g :
         n = [val |-> a, k2 |-> b, up |-> u, down |-> d, row |-> r, tag |-> g]
  BY DEF IsNode
<1>2. n.up = u /\ n.down = d /\ n.row = r /\ n.tag = g
  BY <1>1
<1>3. m = [val |-> v, k2 |-> k2, up |-> u, down |-> d, row |-> r, tag |-> g]
  BY <1>1 DEF Updated
<1> QED
  BY <1>2, <1>3

\* A link or an unlink does not change the value.
LEMMA MovedValue ==
    ASSUME NEW k \in Keys, prim[k] # Nil, NEW p, prim[p] # prim[k],
           NEW hp, HeapBut(hp, k), NEW x, NEW d, NEW h, NEW s,
           NEW hq, Moved(hq, hp, prim[p], x, d, prim[k], h, s)
    PROVE  SameValue(hq[prim[k]], hp[prim[k]])
<1>1. prim[k] \in DOMAIN hp /\ IsNode(TopicOf(k), hp[prim[k]])
  BY DEF HeapBut
<1>2. hq[prim[k]] = [hp[prim[k]] EXCEPT !.up[h] = s]
  BY <1>1 DEF Moved
<1>3. \A n : IsNode(TopicOf(k), n) => SameValue([n EXCEPT !.up[h] = s], n)
  BY DEF IsNode, SameValue
<1> QED
  BY <1>1, <1>2, <1>3

\* _link_nodes, and _unlink_nodes.
LEMMA LinkedValue ==
    ASSUME NEW k \in Keys, prim[k] # Nil, NEW p \in Keys, prim[p] # Nil, prim[p] # prim[k],
           NEW hp, HeapBut(hp, k), NEW h \in UpHooks(TopicOf(k))
    PROVE  SameValue(Linked(hp, h, prim[p], prim[k])[prim[k]], hp[prim[k]])
<1> DEFINE hq == Linked(hp, h, prim[p], prim[k])
           d == HookAdd(h, hp[prim[p]].down[h.hook], prim[k])
           s == UpAdd(h, hp[prim[k]].up[h], IdOf(prim[p].key))
<1>1. hp[prim[k]].up \in Ups(TopicOf(k)) /\ prim[k] \in DOMAIN hp /\ prim[p] \in DOMAIN hp
  BY DEF HeapBut, IsNode
<1>2. Moved(hq, hp, prim[p], h.hook, d, prim[k], h, s)
  BY <1>1 DEF Moved, Linked
<1> HIDE DEF hq, d, s
<1>3. SameValue(hq[prim[k]], hp[prim[k]])
  BY <1>2, MovedValue
<1> QED
  BY <1>3 DEF hq

LEMMA UnlinkedValue ==
    ASSUME NEW k \in Keys, prim[k] # Nil, NEW p \in Keys, prim[p] # Nil, prim[p] # prim[k],
           NEW hp, HeapBut(hp, k), NEW h \in UpHooks(TopicOf(k))
    PROVE  SameValue(Unlinked(hp, h, prim[p], prim[k])[prim[k]], hp[prim[k]])
<1> DEFINE hq == Unlinked(hp, h, prim[p], prim[k])
           d == HookDel(h, hp[prim[p]].down[h.hook], prim[k], 1)
           s == UpDel(h, hp[prim[k]].up[h], IdOf(prim[p].key))
<1>1. hp[prim[k]].up \in Ups(TopicOf(k)) /\ prim[k] \in DOMAIN hp /\ prim[p] \in DOMAIN hp
  BY DEF HeapBut, IsNode
<1>2. Moved(hq, hp, prim[p], h.hook, d, prim[k], h, s)
  BY <1>1 DEF Moved, Unlinked
<1> HIDE DEF hq, d, s
<1>3. SameValue(hq[prim[k]], hp[prim[k]])
  BY <1>2, MovedValue
<1> QED
  BY <1>3 DEF hq

\* The index by id has one object of each node.
LEMMA IndexedNodes ==
    ASSUME IInv
    PROVE  Indexed(prim) /\ MemoryType
BY DEF IInv, TypeInv, MemoryType, Indexed

\* treedb_update_node.
LEMMA UpdateNodeSaves ==
    ASSUME TreeDbAssumption, Disciplined, IInv, TreeLinked, NEW k \in Keys,
           NEW v \in Vals \union {Bad}, NEW k2 \in Key2s \union {Nil}, UpdateNode(k, v, k2)
    PROVE  Saves(k)
<1> DEFINE o == prim[k]
<1>1. open /\ pc = "idle" /\ tag = 0 /\ o # Nil /\ UNCHANGED <<open, tag, prim>>
  BY Working DEF UpdateNode
<1>2. v \in Vals /\ (TopicOf(k) \in Keyed => k2 = heap[o].k2)
  BY DEF UpdateNode, Disciplined, May
<1>3. PICK hp : hp = [heap EXCEPT ![o].val = v, ![o].k2 = k2]
  OBVIOUS
<1>4. HeapBut(heap, k) /\ Indexed(prim) /\ Linkage(heap, prim, 0)
  BY <1>1, HeapItself, IndexedNodes DEF IInv, TreeLinked
<1>5. ASSUME NEW j \in Keys, prim[j] # Nil
      PROVE  /\ prim[j] \in DOMAIN hp /\ IsNode(TopicOf(j), hp[prim[j]])
             /\ hp[prim[j]].row = heap[prim[j]].row /\ hp[prim[j]].tag = heap[prim[j]].tag
             /\ TopicOf(j) \in Keyed => hp[prim[j]].k2 = heap[prim[j]].k2
             /\ j # k => Image(hp[prim[j]]) = Image(heap[prim[j]])
             /\ hp[prim[j]].up = heap[prim[j]].up /\ hp[prim[j]].down = heap[prim[j]].down
  <2>1. prim[j] \in DOMAIN heap /\ IsNode(TopicOf(j), heap[prim[j]])
    BY <1>4, <1>5 DEF HeapBut
  <2>2. CASE j = k
    <3> PICK m : m = hp[o]
      OBVIOUS
    <3> PICK n : n = heap[o]
      OBVIOUS
    <3>1. m = [n EXCEPT !.val = v, !.k2 = k2] /\ o \in DOMAIN hp
      BY <1>3, <2>1, <2>2
    <3>6. IsNode(TopicOf(k), n)
      BY <2>1, <2>2
    <3>2. /\ m = [val |-> v, k2 |-> k2, up |-> n.up, down |-> n.down, row |-> n.row, tag |-> n.tag]
          /\ m.up = n.up /\ m.down = n.down
      <4>1. Updated(m, n, v, k2)
        BY <3>1 DEF Updated
      <4> QED
        BY <3>6, <4>1, UpdatedLinks
    <3>3. /\ m.val = v /\ m.k2 = k2 /\ m.row = n.row /\ m.tag = n.tag
      BY <3>2
    <3>4. n.up \in Ups(TopicOf(j)) /\ n.row \in Nat /\ n.tag \in Nat /\ k2 \in Key2Set
      BY <2>1, <2>2 DEF IsNode, Key2Set
    <3>5. IsNode(TopicOf(j), m)
      BY <1>2, <3>2, <3>3, <3>4 DEF IsNode
    <3> QED
      BY <1>2, <2>2, <3>1, <3>2, <3>3, <3>5
  <2>3. CASE j # k
    <3>1. prim[j] # o
      BY <1>1, <1>4, <1>5, <2>3 DEF Indexed
    <3>2. hp[prim[j]] = heap[prim[j]] /\ DOMAIN hp = DOMAIN heap
      BY <1>3, <2>1, <3>1
    <3> QED
      BY <2>1, <3>2
  <2> QED
    BY <2>2, <2>3
<1>6. HeapBut(hp, k)
  BY <1>5 DEF HeapBut
<1>7. Linkage(hp, prim, 0)
  <2>1. SameLinks(hp, heap, prim)
    BY <1>5 DEF SameLinks
  <2> QED
    BY <1>4, <2>1, LinkageStays
<1>8. \E fails \in Fails : Save(hp, o, fails)
  BY <1>3 DEF UpdateNode
<1>9. hp[o].up = heap[o].up
  BY <1>1, <1>5
<1> QED
  BY <1>1, <1>6, <1>7, <1>8, <1>9 DEF Saves, Rewrites

\* treedb_link_nodes.
LEMMA LinkNodesSaves ==
    ASSUME TreeDbAssumption, Disciplined, IInv, TreeLinked, NEW h \in Hooks, NEW c \in Keys,
           TopicOf(c) = h.child, NEW p \in Keys, TopicOf(p) = h.parent, LinkNodes(h, p, c)
    PROVE  Saves(c)
<1>1. /\ open /\ pc = "idle" /\ tag = 0 /\ prim[p] # Nil /\ prim[c] # Nil
      /\ LinkGuard(heap, h, prim[p], prim[c]) /\ UNCHANGED <<open, tag, prim>>
  BY Working DEF LinkNodes
<1>2. HeapBut(heap, c) /\ h \in UpHooks(TopicOf(c)) /\ Indexed(prim) /\ Linkage(heap, prim, 0)
  BY <1>1, HeapItself, IndexedNodes DEF IInv, UpHooks, TreeLinked
<1>3. PICK hp : hp = Linked(heap, h, prim[p], prim[c])
  OBVIOUS
<1>4. prim[p] # prim[c]
  BY <1>1 DEF LinkGuard
<1>5. HeapBut(hp, c)
  BY <1>1, <1>2, <1>3, <1>4, IndexedNodes, LinkedBut
<1>6. Linkage(hp, prim, 0)
  BY <1>1, <1>2, <1>3, LinkedKeepsLinks
<1>7. SameValue(hp[prim[c]], heap[prim[c]])
  BY <1>1, <1>2, <1>3, <1>4, LinkedValue
<1>8. \E fails \in Fails : Save(hp, prim[c], fails)
  BY <1>3 DEF LinkNodes
<1> QED
  BY <1>1, <1>5, <1>6, <1>7, <1>8 DEF Saves, Rewrites

\* treedb_unlink_nodes.
LEMMA UnlinkNodesSaves ==
    ASSUME TreeDbAssumption, Disciplined, IInv, TreeLinked, NEW h \in Hooks, NEW c \in Keys,
           TopicOf(c) = h.child, NEW p \in Keys, TopicOf(p) = h.parent, UnlinkNodes(h, p, c)
    PROVE  Saves(c)
<1>1. /\ open /\ pc = "idle" /\ tag = 0 /\ prim[p] # Nil /\ prim[c] # Nil
      /\ UnlinkGuard(h, p, prim[c]) /\ UNCHANGED <<open, tag, prim>>
  BY Working DEF UnlinkNodes
<1>2. HeapBut(heap, c) /\ h \in UpHooks(TopicOf(c)) /\ Indexed(prim) /\ Linkage(heap, prim, 0)
  BY <1>1, HeapItself, IndexedNodes DEF IInv, UpHooks, TreeLinked
<1>3. PICK hp : hp = Unlinked(heap, h, prim[p], prim[c])
  OBVIOUS
<1>4. p # c /\ Count(heap[prim[c]].up[h], IdOf(p)) > 0
  BY <1>1, <1>2 DEF UnlinkGuard, Disciplined, May, Indexed
<1>5. HeapBut(hp, c)
  BY <1>1, <1>2, <1>3, <1>4, IndexedNodes, UnlinkedBut
<1>6. Linkage(hp, prim, 0)
  BY <1>1, <1>2, <1>3, <1>4, UnlinkedKeepsLinks
<1>7. SameValue(hp[prim[c]], heap[prim[c]])
  <2>1. prim[p] # prim[c]
    BY <1>1, <1>2, <1>4 DEF Indexed
  <2> QED
    BY <1>1, <1>2, <1>3, <2>1, UnlinkedValue
<1>8. \E fails \in Fails : Save(hp, prim[c], fails)
  BY <1>3 DEF UnlinkNodes
<1> QED
  BY <1>1, <1>5, <1>6, <1>7, <1>8 DEF Saves, Rewrites

\* treedb_clean_node with save.
LEMMA CleanNodeSaves ==
    ASSUME TreeDbAssumption, Disciplined, IInv, TreeLinked, NEW k \in Keys, CleanNode(k)
    PROVE  Saves(k)
<1>1. open /\ pc = "idle" /\ tag = 0 /\ prim[k] # Nil /\ UNCHANGED <<open, tag, prim>>
  BY Working DEF CleanNode
<1>2. HeapBut(heap, k) /\ Indexed(prim) /\ Linkage(heap, prim, 0)
  BY <1>1, HeapItself, IndexedNodes DEF IInv, TreeLinked
<1>3. PICK hp : hp = Cleaned(heap, prim[k])
  OBVIOUS
<1>4. HeapBut(hp, k) /\ Linkage(hp, prim, 0)
  BY <1>1, <1>2, <1>3, IndexedNodes, CleanedBut, CleanedKeepsLinks
<1>5. SameValue(hp[prim[k]], heap[prim[k]])
  <2>1. PICK d, u : hp[prim[k]] = [heap[prim[k]] EXCEPT !.down = d, !.up = u]
    BY <1>1, <1>2, <1>3 DEF Cleaned, HeapBut
  <2>2. \A n : IsNode(TopicOf(k), n) => SameValue([n EXCEPT !.down = d, !.up = u], n)
    BY DEF IsNode, SameValue
  <2> QED
    BY <1>1, <1>2, <2>1, <2>2 DEF HeapBut
<1>6. \E fails \in Fails : Save(hp, prim[k], fails)
  BY <1>3 DEF CleanNode
<1> QED
  BY <1>1, <1>4, <1>5, <1>6 DEF Saves, Rewrites

\* treedb_autolink with save.
LEMMA AutolinkSaves ==
    ASSUME TreeDbAssumption, Disciplined, IInv, TreeLinked, NEW h \in Hooks, NEW k \in Keys,
           TopicOf(k) = h.child, NEW p \in Keys, TopicOf(p) = h.parent,
           NEW q \in Keys, TopicOf(q) = h.parent, Autolink(k, h, p, q)
    PROVE  Saves(k)
<1> DEFINE o == prim[k]
           first == LinkNext([ok |-> TRUE, hp |-> heap], h, p, o)
           second == LinkNext(first, h, q, o)
<1>1. open /\ pc = "idle" /\ tag = 0 /\ o # Nil /\ UNCHANGED <<open, tag, prim>>
  BY Working DEF Autolink
<1>2. HeapBut(heap, k) /\ h \in UpHooks(TopicOf(k)) /\ Indexed(prim) /\ Linkage(heap, prim, 0)
  BY <1>1, HeapItself, IndexedNodes DEF IInv, UpHooks, TreeLinked
<1>3. PICK hp : hp = Linked(heap, h, prim[p], o)
  OBVIOUS
<1>4. PICK hq : hq = Linked(hp, h, prim[q], o)
  OBVIOUS
<1>5. /\ prim[p] # Nil /\ prim[p] # o /\ LinkGuard(heap, h, prim[p], o)
      /\ prim[q] # Nil /\ prim[q] # o
  BY DEF Autolink, Disciplined, May, There, LinkGuard
<1>6. first = [ok |-> TRUE, hp |-> hp]
  BY <1>3, <1>5 DEF LinkNext, There
<1>7. second.ok /\ second.hp = hq /\ LinkGuard(hp, h, prim[q], o)
  <2>1. second.ok /\ second.hp = hq
    BY <1>4, <1>5, <1>6 DEF LinkNext, There
  <2>2. LinkGuard(first.hp, h, prim[q], o)
    BY DEF Autolink, Disciplined, May
  <2> QED
    BY <1>6, <2>1, <2>2
<1>8. HeapBut(hp, k) /\ Linkage(hp, prim, 0)
  <2>1. HeapBut(hp, k)
    BY <1>1, <1>2, <1>3, <1>5, IndexedNodes, LinkedBut
  <2>2. Linkage(hp, prim, 0)
    BY <1>1, <1>2, <1>3, <1>5, LinkedKeepsLinks
  <2> QED
    BY <2>1, <2>2
<1>9. HeapBut(hq, k) /\ Linkage(hq, prim, 0)
  <2>1. HeapBut(hq, k)
    BY <1>1, <1>2, <1>4, <1>5, <1>8, IndexedNodes, LinkedBut
  <2>2. Linkage(hq, prim, 0)
    BY <1>1, <1>2, <1>4, <1>5, <1>7, <1>8, LinkedKeepsLinks
  <2> QED
    BY <2>1, <2>2
<1>10. SameValue(hq[o], heap[o])
  <2>1. SameValue(hp[o], heap[o])
    BY <1>1, <1>2, <1>3, <1>5, LinkedValue
  <2>2. SameValue(hq[o], hp[o])
    BY <1>1, <1>2, <1>4, <1>5, <1>8, LinkedValue
  <2> QED
    BY <2>1, <2>2 DEF SameValue
<1>11. \E fails \in Fails : Save(hq, o, fails)
  BY <1>7 DEF Autolink
<1> QED
  BY <1>1, <1>9, <1>10, <1>11 DEF Saves, Rewrites

\* A save of a snap writes the node as it is.
LEMMA ShootSaveSaves ==
    ASSUME TreeDbAssumption, IInv, TreeLinked, NEW k \in Keys, ShootSave(k)
    PROVE  Saves(k) /\ \E fails \in Fails : Save(heap, prim[k], fails)
<1>1. /\ pc = "shoot" /\ <<k, "save">> \in todo /\ UNCHANGED <<open, tag, prim>>
      /\ \E fails \in Fails : Save(heap, prim[k], fails)
  BY DEF ShootSave
<1>2. PICK s : s = snaps[arg].tag
  OBVIOUS
<1>3. open /\ tag = 0 /\ Shooting(s)
  BY <1>1, <1>2, InShoot
<1>4. prim[k] # Nil
  BY <1>1, <1>3 DEF Shooting
<1>5. HeapBut(heap, k) /\ Linkage(heap, prim, 0)
  BY <1>3, HeapItself DEF IInv, TreeLinked
<1> QED
  BY <1>1, <1>3, <1>4, <1>5 DEF Saves, Rewrites

\* Whatever is saved, the links agree.
LEMMA SavesKeepLinks ==
    ASSUME TreeDbAssumption, Disciplined, IInv, RowsFew, NEW k \in Keys, Saves(k)
    PROVE  TreeLinked' /\ RowsFew'
<1>1. PICK hp : Rewrites(k, hp) /\ \E fails \in Fails : Save(hp, prim[k], fails)
  BY DEF Saves
<1> QED
  BY <1>1, SaveKeepsLinks DEF Saves, Rewrites

\* treedb_create_node puts nothing in the hooks of a node that is there.
LEMMA WithNodeLinks ==
    ASSUME TreeDbAssumption, IInv, TreeLinked, open, tag = 0,
           NEW o, NEW k \in Keys, o.key = k, NEW n, n.up = NoUp(TopicOf(k)),
           NEW j \in Keys, prim[j] # Nil, prim[j] # o
    PROVE  LET m == WithNode(o, n)[prim[j]]
           IN  m.up = heap[prim[j]].up /\ m.down = heap[prim[j]].down
<1> DEFINE t == TopicOf(k)
<1>1. PICK x : x = prim[j]
  OBVIOUS
<1>2. PICK old : old = heap[x]
  OBVIOUS
<1>3. Loaded(j, 0) /\ HooksHold(old.down, prim, TopicOf(j))
  BY <1>1, <1>2 DEF IInv, MemoryLoaded, TreeLinked, Linkage
<1>4. x \in DOMAIN heap /\ IsNode(TopicOf(j), old)
  BY <1>1, <1>2, <1>3 DEF Loaded
<1>5. PICK b : b = old.down
  OBVIOUS
<1>6. b = [name \in DOMAIN b |-> b[name]]
  <2>1. DOMAIN b = DownHooks(TopicOf(j))
    BY <1>3, <1>5 DEF HooksHold
  <2> QED
    BY <1>3, <1>5, <2>1 DEF HooksHold
<1>7. ASSUME NEW name
      PROVE  LET h == HookTo(TopicOf(x.key), name, t)
             IN  (IF x = prim[x.key] /\ HooksTo(TopicOf(x.key), name, t) # {}
                  THEN Count(n.up[h], IdOf(x.key)) ELSE 0) = 0
  <2> DEFINE h == HookTo(TopicOf(x.key), name, t)
  <2> SUFFICES ASSUME HooksTo(TopicOf(x.key), name, t) # {}
               PROVE  Count(n.up[h], IdOf(x.key)) = 0
    OBVIOUS
  <2>1. h \in UpHooks(t)
    BY DEF HookTo, HooksTo, HooksOf, UpHooks
  <2> QED
    BY <2>1, NoUpNames
<1>8. PICK m : m = WithNode(o, n)[x]
  OBVIOUS
<1>9. m = [old EXCEPT !.down = [name \in DOMAIN b |-> b[name]]]
  <2>1. PICK d : d = [name \in DOMAIN b |-> b[name]]
    OBVIOUS
  <2> DEFINE hook(name) == HookTo(TopicOf(x.key), name, t)
             refs(name) == IF x = prim[x.key] /\ HooksTo(TopicOf(x.key), name, t) # {}
                           THEN Count(n.up[hook(name)], IdOf(x.key)) ELSE 0
             e == [name \in DOMAIN b |->
                      IF refs(name) = 0 THEN b[name]
                      ELSE IF hook(name).dict THEN HookAdd(hook(name), b[name], o)
                      ELSE b[name] \o [i \in 1..refs(name) |-> o]]
  <2>3. m = [old EXCEPT !.down = e]
    BY <1>1, <1>2, <1>4, <1>5, <1>8 DEF WithNode
  <2>4. \A name : refs(name) = 0
    BY <1>7
  <2>5. e = d
    <3> HIDE DEF refs, hook
    <3> QED
      BY <2>1, <2>4
  <2>2. m = [old EXCEPT !.down = d]
    <3> HIDE DEF e
    <3> QED
      BY <2>3, <2>5
  <2> QED
    BY <2>1, <2>2
<1>10. m = [old EXCEPT !.down = b]
  BY <1>6, <1>9
<1>11. m.up = old.up /\ m.down = b
  BY <1>4, <1>10 DEF IsNode
<1> QED
  BY <1>1, <1>2, <1>5, <1>8, <1>11

\* treedb_create_node.
LEMMA CreateNodeLinks ==
    ASSUME TreeDbAssumption, Disciplined, IInv, TreeLinked, RowsFew, NEW k \in Keys, NEW v \in Vals,
           NEW k2 \in Key2s \union {Nil}, CreateNode(k, v, k2)
    PROVE  TreeLinked' /\ RowsFew'
<1> DEFINE t == TopicOf(k)
<1>1. PICK n : n = NewNode(k, v, k2)
  OBVIOUS
<1>2. PICK o : o = Obj(k, Len(log[t]) + 1, FALSE)
  OBVIOUS
<1>3. open /\ tag = 0 /\ prim[k] = Nil /\ UNCHANGED <<open, tag>>
  BY Working DEF CreateNode, MayCreate, Disciplined, May
<1>4. /\ Written(k, n) /\ prim' = [prim EXCEPT ![k] = o] /\ o # Nil /\ o \in ObjectSet /\ o.key = k
      /\ heap' = Living(WithNode(o, n), prim', sec')
  <2>1. Written(k, n) /\ Indexes(k, o, n)
    BY <1>1, <1>2, CreateWrites
  <2> QED
    BY <2>1 DEF Indexes
<1>5. n.up = NoUp(t) /\ n.down = NoDown(t)
  BY <1>1, <1>3 DEF NewNode, InheritLinks
<1>6. Indexed(prim) /\ DOMAIN prim = Keys /\ Linkage(heap, prim, 0)
  BY <1>3, IndexedNodes DEF MemoryType, TreeLinked
<1>7. PICK q : q = prim'
  OBVIOUS
<1>8. q[k] = o /\ DOMAIN q = Keys /\ \A j \in Keys : j # k => q[j] = prim[j]
  BY <1>4, <1>6, <1>7
<1>9. heap'[o] = n
  BY <1>4, <1>7, <1>8 DEF Written
<1>10. SameLinks(heap', heap, prim)
  <2> SUFFICES ASSUME NEW j \in Keys, prim[j] # Nil
               PROVE  heap'[prim[j]].up = heap[prim[j]].up /\ heap'[prim[j]].down = heap[prim[j]].down
    BY DEF SameLinks
  <2>1. j # k /\ q[j] = prim[j] /\ prim[j] # o
    BY <1>3, <1>4, <1>6, <1>8 DEF Indexed
  <2>2. heap'[prim[j]] = WithNode(o, n)[prim[j]]
    <3>1. PICK hp : hp = WithNode(o, n)
      OBVIOUS
    <3>2. PICK s : s = sec'
      OBVIOUS
    <3>3. heap' = Living(hp, q, s)
      BY <1>4, <1>7, <3>1, <3>2
    <3>4. Living(hp, q, s)[q[j]] = hp[q[j]]
      BY <1>8, <2>1, LivingKeeps
    <3> QED
      BY <2>1, <3>1, <3>3, <3>4
  <2> QED
    BY <1>3, <1>4, <1>5, <2>1, <2>2, WithNodeLinks
<1>11. Linkage(heap', q, 0)
  BY <1>3, <1>4, <1>5, <1>6, <1>8, <1>9, <1>10, AddedKeepsLinks
<1>12. TreeLinked'
  BY <1>3, <1>7, <1>11 DEF TreeLinked
<1>13. RowsFew'
  <2>1. RefsFew(n.up, t)
    BY <1>5, NoUpNames
  <2> QED
    BY <1>4, <2>1, WrittenFew DEF IInv, TypeInv
<1> QED
  BY <1>12, <1>13

\* What a mark or a tag leaves of the rows.
LEMMA SameRowsFew ==
    ASSUME RowsFew, NEW k, NEW r, SameRows(k, r)
    PROVE  RowsFew'
<1> SUFFICES ASSUME NEW t \in Topics, NEW q \in DOMAIN log'[t]
             PROVE  RefsFew(log'[t][q].up, t)
  BY DEF RowsFew
<1>1. q \in DOMAIN log[t] /\ Image(log'[t][q]) = Image(log[t][q])
  BY DEF SameRows
<1>2. log'[t][q].up = log[t][q].up
  BY <1>1 DEF Image
<1> QED
  BY <1>1, <1>2 DEF RowsFew

\* A node that may be deleted has no links, once it is freed.
LEMMA FreedIsAlone ==
    ASSUME TreeDbAssumption, IInv, TreeLinked, open, tag = 0, NEW k \in Keys, prim[k] # Nil,
           NEW force \in BOOLEAN, ~HasDown(heap, prim[k]), force \/ ~HasUp(heap, prim[k]),
           NEW hp, hp = IF force THEN Cleaned(heap, prim[k]) ELSE heap
    PROVE  Alone(hp[prim[k]], TopicOf(k))
<1> DEFINE t == TopicOf(k)
<1>1. Indexed(prim) /\ HeapBut(heap, k) /\ Linkage(heap, prim, 0) /\ prim[k].key = k
  BY HeapItself, IndexedNodes DEF IInv, TreeLinked, Indexed
<1>2. PICK n : n = heap[prim[k]]
  OBVIOUS
<1>3. \A name \in DownHooks(t) : n.down[name] = <<>>
  BY <1>1, <1>2 DEF HasDown
<1>4. CASE force
  <2>1. PICK m : m = hp[prim[k]]
    OBVIOUS
  <2>2. WithoutItem(m.down, n.down, t, prim[k], t) /\ m.up = NoUp(t)
    <3>1. m = Cleaned(heap, prim[k])[prim[k]]
      BY <1>4, <2>1
    <3> QED
      BY <1>1, <1>2, <3>1, CleanedHooks
  <2>3. ASSUME NEW name \in DownHooks(t), NEW x
        PROVE  Count(m.down[name], x) = 0
    <3>1. PICK e : e = m.down[name]
      OBVIOUS
    <3>2. e \in Seq(ObjectSet) /\ \A i \in DOMAIN e : FALSE
      <4>1. e \in Seq(ObjectSet) /\ \A i \in DOMAIN e : \E j \in DOMAIN n.down[name] : e[i] = n.down[name][j]
        BY <2>2, <3>1 DEF WithoutItem
      <4>2. DOMAIN n.down[name] = {}
        BY <1>3
      <4> QED
        BY <4>1, <4>2
    <3>3. Count(e, x) = 0
      BY <3>2, CountZero
    <3> QED
      BY <3>1, <3>3
  <2> QED
    BY <2>1, <2>2, <2>3, NoUpNames DEF Alone
<1>5. CASE ~force
  <2>1. \A h \in UpHooks(t) : n.up[h] = <<>>
    BY <1>1, <1>2, <1>5 DEF HasUp
  <2>2. hp[prim[k]] = n
    BY <1>2, <1>5
  <2> QED
    BY <1>3, <2>1, <2>2, CountFew DEF Alone
<1> QED
  BY <1>4, <1>5

\* treedb_delete_node, with force or without, done or refused.
LEMMA DeleteNodeLinks ==
    ASSUME TreeDbAssumption, Disciplined, IInv, TreeLinked, RowsFew, NEW k \in Keys,
           NEW force \in BOOLEAN, DeleteNode(k, force)
    PROVE  TreeLinked' /\ RowsFew'
<1> DEFINE o == prim[k]
<1>1. open /\ pc = "idle" /\ tag = 0 /\ o # Nil /\ UNCHANGED <<open, tag>>
  BY Working DEF DeleteNode
<1>2. Freed(o, force) = heap /\ (force => NoLinks(o, force))
  BY DEF DeleteNode, MayDelete, Freed, NoLinks, Disciplined, May
<1>3. PICK hp : hp = IF force THEN Cleaned(heap, o) ELSE heap
  OBVIOUS
<1>4. heap' = Living(hp, prim', sec')
  BY <1>2, <1>3 DEF DeleteNode
<1>5. Indexed(prim) /\ DOMAIN prim = Keys /\ HeapBut(heap, k) /\ Linkage(heap, prim, 0)
  BY <1>1, HeapItself, IndexedNodes DEF IInv, MemoryType, TreeLinked
<1>6. Linkage(hp, prim, 0)
  BY <1>1, <1>3, <1>5, CleanedKeepsLinks
<1>7. PICK q : q = prim'
  OBVIOUS
<1>8. DOMAIN q = Keys => SameLinks(heap', hp, q)
  <2> SUFFICES ASSUME DOMAIN q = Keys, NEW j \in Keys, q[j] # Nil
               PROVE  heap'[q[j]] = hp[q[j]]
    BY DEF SameLinks
  <2>1. PICK s : s = sec'
    OBVIOUS
  <2>2. heap' = Living(hp, q, s)
    BY <1>4, <1>7, <2>1
  <2> QED
    BY <2>2, LivingKeeps
<1>9. CASE NoLinks(o, force)
  <2>1. Marks(k, heap[o].row) /\ prim' = [prim EXCEPT ![k] = Nil]
    BY <1>9 DEF DeleteNode, Marks
  <2>2. q[k] = Nil /\ DOMAIN q = Keys /\ \A j \in Keys : j # k => q[j] = prim[j]
    BY <1>5, <1>7, <2>1
  <2>3. Alone(hp[o], TopicOf(k))
    <3>1. ~HasDown(heap, o) /\ (force \/ ~HasUp(heap, o))
      BY <1>2, <1>9 DEF NoLinks
    <3> QED
      BY <1>1, <1>3, <3>1, FreedIsAlone
  <2>4. Linkage(heap', q, 0)
    BY <1>1, <1>5, <1>6, <1>8, <2>2, <2>3, RemovedKeepsLinks
  <2>5. TreeLinked'
    BY <1>1, <1>7, <2>4 DEF TreeLinked
  <2>6. RowsFew'
    <3>1. PICK r : r = heap[o].row
      OBVIOUS
    <3>2. IsLast(r, Rows(k, 0))
      BY <1>1, <3>1 DEF IInv, MemoryLoaded, Loaded
    <3>3. SameRows(k, r)
      BY <2>1, <3>1, <3>2, RowsMarked DEF IInv, TypeInv
    <3> QED
      BY <3>3, SameRowsFew
  <2> QED
    BY <2>5, <2>6
<1>10. CASE ~NoLinks(o, force)
  <2>1. UNCHANGED <<log, prim>> /\ q = prim /\ hp = heap
    BY <1>2, <1>3, <1>7, <1>10 DEF DeleteNode
  <2>2. Linkage(heap', prim, 0)
    BY <1>5, <1>8, <2>1, LinkageStays
  <2>3. TreeLinked'
    BY <1>1, <2>1, <2>2 DEF TreeLinked
  <2> QED
    BY <2>1, <2>3 DEF RowsFew
<1> QED
  BY <1>9, <1>10

\* treedb_open_db rebuilds the hooks from the fkeys.
LEMMA OpenLinks ==
    ASSUME TreeDbAssumption, IInv, RowsFew, Anchored, Open
    PROVE  TreeLinked'
<1>1. PICK s : s = ActiveTag
  OBVIOUS
<1>2. PICK p : p = LoadPrim(s)
  OBVIOUS
<1>3. PICK c : c = LoadSec
  OBVIOUS
<1>4. /\ open' = TRUE /\ tag' = s /\ prim' = p /\ heap' = LoadHeap(p, c)
  BY <1>1, <1>2, <1>3 DEF Open
<1>5. LogType
  BY DEF IInv, TypeInv
<1>6. ASSUME NEW k \in Keys, p[k] # Nil
      PROVE  /\ p[k] \in ObjectSet /\ p[k].key = k /\ ~p[k].second
             /\ p[k].row \in Rows(k, s) /\ IsLast(p[k].row, Rows(k, s))
  <2>1. PICK r : r = LoadRow(k, s)
    OBVIOUS
  <2>2. p[k] = IF r = 0 THEN Nil ELSE Obj(k, r, FALSE)
    BY <1>2, <2>1 DEF LoadPrim
  <2>3. r \in Nat /\ IsLast(r, Rows(k, s))
    BY <1>5, <1>6, <2>1, <2>2, LoadsLast
  <2>4. PICK o : o = Obj(k, r, FALSE)
    OBVIOUS
  <2>5. o \in ObjectSet /\ o.key = k /\ o.row = r /\ ~o.second
    BY <2>3, <2>4, ObjectMade
  <2>6. p[k] = o
    BY <1>6, <2>2, <2>4
  <2> QED
    BY <2>3, <2>5, <2>6 DEF IsLast
<1>7. Born(p)
  BY <1>5, <1>6, RowFacts DEF Born
<1>8. PICK hq : hq = heap'
  OBVIOUS
<1>9. Made(hq, p)
  <2> SUFFICES ASSUME NEW k \in Keys, p[k] # Nil
               PROVE  /\ hq[p[k]].up = log[TopicOf(k)][p[k].row].up
                      /\ hq[p[k]].down = [n \in DownHooks(TopicOf(k)) |-> ChildrenOf(p, k, n)]
    BY DEF Made
  <2>1. PICK o : o = p[k]
    OBVIOUS
  <2>2. o \in Objects(p, c) /\ o.key = k /\ ~o.second
    BY <1>2, <1>6, <2>1 DEF Objects, LoadPrim
  <2>3. PICK d : d = [n \in DownHooks(TopicOf(k)) |-> ChildrenOf(p, k, n)]
    OBVIOUS
  <2>4. hq[o] = [Fresh(k, o.row) EXCEPT !.down = d]
    BY <1>4, <1>8, <2>2, <2>3 DEF LoadHeap
  <2>5. PICK w : w = log[TopicOf(k)][o.row]
    OBVIOUS
  <2>6. hq[o] = [val |-> w.val, k2 |-> w.k2, up |-> w.up, down |-> d, row |-> o.row, tag |-> w.tag]
    BY <2>4, <2>5 DEF Fresh
  <2>7. hq[o].up = w.up /\ hq[o].down = d
    BY <2>6
  <2> QED
    BY <2>1, <2>3, <2>5, <2>7
<1>10. ASSUME NEW j \in Keys, NEW k \in Keys, p[j] # Nil, p[k] = Nil, s = 0,
              NEW h \in UpHooks(TopicOf(j)), TopicOf(k) = h.parent
       PROVE  Count(log[TopicOf(j)][p[j].row].up[h], IdOf(k)) = 0
  <2>1. IsLast(p[j].row, Rows(j, 0)) /\ p[j].row \in Rows(j, 0)
    BY <1>6, <1>10
  <2>2. Rows(k, 0) = {}
    <3>1. PICK r : r = LoadRow(k, s)
      OBVIOUS
    <3>2. p[k] = IF r = 0 THEN Nil ELSE Obj(k, r, FALSE)
      BY <1>2, <3>1 DEF LoadPrim
    <3>3. r \in Nat /\ (r = 0 <=> Rows(k, s) = {})
      BY <1>5, <3>1, LoadsLast
    <3>4. Obj(k, r, FALSE) # Nil
      BY <3>3, ObjectMade
    <3> QED
      BY <1>10, <3>2, <3>3, <3>4
  <2> QED
    BY <1>10, <2>1, <2>2 DEF Anchored
<1>11. Linkage(hq, p, s)
  BY <1>5, <1>7, <1>9, <1>10, LoadLinks
<1> QED
  BY <1>4, <1>8, <1>11 DEF TreeLinked

---------------------------------------------------------------------------
(* The links, after every step.                                            *)

\* The nodes of the parent's topic.
LEMMA ParentKey ==
    ASSUME TreeDbAssumption, NEW h, NEW id \in ParentIds(h)
    PROVE  /\ <<h.parent, id>> \in Keys
           /\ TopicOf(<<h.parent, id>>) = h.parent /\ IdOf(<<h.parent, id>>) = id
<1>1. PICK j \in Keys : TopicOf(j) = h.parent /\ id = IdOf(j)
  BY DEF ParentIds
<1>2. j = <<TopicOf(j), IdOf(j)>>
  BY DEF TreeDbAssumption
<1> QED
  BY <1>1, <1>2 DEF TopicOf, IdOf

\* Each operation on nodes or links saves one, adds one or removes one.
NodeStep(k) ==
    \/ Saves(k)
    \/ \E v \in Vals, k2 \in Key2s \union {Nil} : CreateNode(k, v, k2)
    \/ \E force \in BOOLEAN : DeleteNode(k, force)

\* It is one of these.
LEMMA NodeSteps ==
    ASSUME TreeDbAssumption, Disciplined, IInv, TreeLinked,
           NodeOp \/ LinkOp \/ \E k \in Keys : ShootSave(k)
    PROVE  \E k \in Keys : NodeStep(k)
<1>1. CASE NodeOp
  <2>1. PICK k \in Keys :
           \/ \E v \in Vals, k2 \in Key2s \union {Nil} : CreateNode(k, v, k2)
           \/ \E v \in Vals \union {Bad}, k2 \in Key2s \union {Nil} : UpdateNode(k, v, k2)
           \/ \E force \in BOOLEAN : DeleteNode(k, force)
           \/ CleanNode(k)
    BY <1>1 DEF NodeOp
  <2> QED
    BY <2>1, UpdateNodeSaves, CleanNodeSaves DEF NodeStep
<1>2. CASE LinkOp
  <2>1. PICK h \in Hooks, c \in Keys :
           /\ TopicOf(c) = h.child
           /\ \/ \E id \in ParentIds(h) : \/ LinkNodes(h, <<h.parent, id>>, c)
                                          \/ UnlinkNodes(h, <<h.parent, id>>, c)
              \/ \E a, b \in ParentIds(h) : Autolink(c, h, <<h.parent, a>>, <<h.parent, b>>)
    BY <1>2 DEF LinkOp
  <2>2. CASE \E id \in ParentIds(h) : LinkNodes(h, <<h.parent, id>>, c)
    <3>1. PICK p : p \in Keys /\ TopicOf(p) = h.parent /\ LinkNodes(h, p, c)
      BY <2>2, ParentKey
    <3> QED
      BY <2>1, <3>1, LinkNodesSaves DEF NodeStep
  <2>3. CASE \E id \in ParentIds(h) : UnlinkNodes(h, <<h.parent, id>>, c)
    <3>1. PICK p : p \in Keys /\ TopicOf(p) = h.parent /\ UnlinkNodes(h, p, c)
      BY <2>3, ParentKey
    <3> QED
      BY <2>1, <3>1, UnlinkNodesSaves DEF NodeStep
  <2>4. CASE \E a, b \in ParentIds(h) : Autolink(c, h, <<h.parent, a>>, <<h.parent, b>>)
    <3>1. PICK p, q : /\ p \in Keys /\ TopicOf(p) = h.parent
                      /\ q \in Keys /\ TopicOf(q) = h.parent /\ Autolink(c, h, p, q)
      BY <2>4, ParentKey
    <3> QED
      BY <2>1, <3>1, AutolinkSaves DEF NodeStep
  <2> QED
    BY <2>1, <2>2, <2>3, <2>4
<1>3. CASE \E k \in Keys : ShootSave(k)
  BY <1>3, ShootSaveSaves DEF NodeStep
<1> QED
  BY <1>1, <1>2, <1>3

\* It keeps the links, on the main line.
LEMMA NodeStepLinks ==
    ASSUME TreeDbAssumption, Disciplined, IInv, TreeLinked, RowsFew, NEW k \in Keys, NodeStep(k)
    PROVE  TreeLinked' /\ RowsFew' /\ open' /\ tag' = 0
<1>1. CASE Saves(k)
  BY <1>1, SavesKeepLinks DEF Saves
<1>2. CASE \E v \in Vals, k2 \in Key2s \union {Nil} : CreateNode(k, v, k2)
  <2>1. open' /\ tag' = 0
    BY <1>2, Working DEF CreateNode
  <2> QED
    BY <1>2, <2>1, CreateNodeLinks
<1>3. CASE \E force \in BOOLEAN : DeleteNode(k, force)
  <2>1. open' /\ tag' = 0
    BY <1>3, Working DEF DeleteNode
  <2> QED
    BY <1>3, <2>1, DeleteNodeLinks
<1> QED
  BY <1>1, <1>2, <1>3 DEF NodeStep

\* The nodes in memory stay, and at most the tag of a row is written.
Quiet == /\ UNCHANGED <<open, tag, heap, prim>>
         /\ UNCHANGED log \/ (open /\ tag = 0 /\ \E k, r : SameRows(k, r))

\* The steps of a snap, but for its saves, are quiet.
LEMMA QuietSteps ==
    ASSUME TreeDbAssumption, Disciplined, IInv,
           \/ \E n \in Names : ShootSnap(n)
           \/ \E k \in Keys : ShootFlag(k)
           \/ ShootEnd
           \/ \E n \in Names \union {Nil} : ActivateSnap(n)
           \/ ActivateEnd
           \/ UNCHANGED vars
    PROVE  Quiet
<1>1. ASSUME NEW k \in Keys, ShootFlag(k)
      PROVE  Quiet
  <2>1. PICK s : s = snaps[arg].tag
    OBVIOUS
  <2>2. PICK r : r = heap[prim[k]].row
    OBVIOUS
  <2>3. /\ pc = "shoot" /\ <<k, "flag">> \in todo /\ <<k, "save">> \notin todo
        /\ Tags(k, r, s) /\ UNCHANGED <<open, tag, heap, prim>>
    BY <1>1, <2>1, <2>2 DEF ShootFlag, Tags, memory
  <2>4. s \in Nat \ {0} /\ Shooting(s) /\ open /\ tag = 0
    BY <2>1, <2>3, InShoot
  <2>5. prim[k] # Nil /\ Untagged(k, s)
    BY <2>3, <2>4 DEF Shooting
  <2>6. IsLast(r, Rows(k, 0))
    BY <2>2, <2>4, <2>5 DEF IInv, MemoryLoaded, Loaded
  <2>7. SameRows(k, r)
    BY <2>3, <2>4, <2>5, <2>6, RowsTagged DEF IInv, TypeInv
  <2> QED
    BY <2>3, <2>4, <2>7 DEF Quiet
<1>2. CASE ~\E k \in Keys : ShootFlag(k)
  BY <1>2 DEF Quiet, ShootSnap, ShootEnd, ActivateSnap, ActivateEnd, vars, memory, disk
<1> QED
  BY <1>1, <1>2

\* As they were, when no row is written.
LEMMA SameLog ==
    ASSUME RowsFew, Anchored, UNCHANGED log
    PROVE  RowsFew' /\ Anchored'
<1>1. \A k \in Keys : Rows(k, 0)' = Rows(k, 0)
  BY DEF Rows
<1> QED
  BY <1>1 DEF RowsFew, Anchored

\* Every step keeps the links, in memory and on disk.
LEMMA StepLinks ==
    ASSUME TreeDbAssumption, Disciplined, IInv, LInv, [Next]_vars
    PROVE  TreeLinked' /\ RowsFew' /\ (Anchored' \/ (open' /\ tag' = 0))
<1> USE DEF LInv
<1>1. CASE Open
  <2>1. UNCHANGED log
    BY <1>1 DEF Open, disk
  <2> QED
    BY <1>1, <2>1, OpenLinks, SameLog
<1>2. CASE Close
  <2>1. UNCHANGED log /\ open' = FALSE
    BY <1>2 DEF Close, disk
  <2> QED
    BY <2>1, SameLog DEF TreeLinked
<1>3. CASE NodeOp \/ LinkOp \/ \E k \in Keys : ShootSave(k)
  BY <1>3, NodeSteps, NodeStepLinks
<1>4. CASE Quiet
  <2>1. TreeLinked'
    BY <1>4 DEF Quiet, TreeLinked
  <2> QED
    BY <1>4, <2>1, SameLog, SameRowsFew DEF Quiet
<1>5. CASE SnapOp \/ UNCHANGED vars
  BY <1>3, <1>4, <1>5, QuietSteps DEF SnapOp
<1> QED
  BY <1>1, <1>2, <1>3, <1>5 DEF Next

\* An empty database.
LEMMA InitLinks ==
    ASSUME TreeDbAssumption, Init
    PROVE  LInv
<1>1. \A t \in Topics : DOMAIN log[t] = {}
  BY DEF Init
<1>2. \A k \in Keys : Rows(k, 0) = {}
  BY <1>1, KeyParts DEF Rows
<1> QED
  BY <1>1, <1>2 DEF Init, LInv, TreeLinked, RowsFew, Anchored

\* Through any number of links, unlinks, deletions, restarts and snaps.
THEOREM LinksInvariance ==
    ASSUME Disciplined
    PROVE  Spec => [](IInv /\ LInv)
<1>1. Init => LInv
  BY InitLinks, TreeDbAssumption
<1>2. IInv /\ open /\ tag = 0 /\ TreeLinked => Anchored
  BY AnchoredInMemory, TreeDbAssumption
<1>3. IInv /\ LInv /\ [Next]_vars =>
         TreeLinked' /\ RowsFew' /\ (Anchored' \/ (open' /\ tag' = 0))
  BY StepLinks, TreeDbAssumption
<1>4. LInv <=> TreeLinked /\ RowsFew /\ Anchored
  BY DEF LInv
<1>5. (open /\ tag = 0)' <=> (open' /\ tag' = 0)
  OBVIOUS
<1> QED
  BY <1>1, <1>2, <1>3, <1>4, <1>5, Invariance, PTL DEF Spec

\* load_all_links, _link_nodes, _unlink_nodes and treedb_clean_node: the two
\* sides of every link agree.
THEOREM LinksStayAgreed ==
    ASSUME Disciplined
    PROVE  Spec => []LinksAgree
<1>1. IInv /\ LInv => LinksAgree
  <2> SUFFICES ASSUME LInv, open, NEW c \in Keys, prim[c] # Nil,
                      NEW h \in UpHooks(TopicOf(c)), NEW id \in ParentIds(h)
               PROVE  LET p == prim[<<h.parent, id>>]
                          n == Count(heap[prim[c]].up[h], id)
                      IN  IF p = Nil THEN n = 0 \/ tag # 0
                          ELSE Count(heap[p].down[h.hook], prim[c]) = n
    BY DEF LinksAgree
  <2>1. PICK k : k = <<h.parent, id>>
    OBVIOUS
  <2>2. k \in Keys /\ TopicOf(k) = h.parent /\ IdOf(k) = id
    BY <2>1, ParentKey, TreeDbAssumption
  <2>3. SidesAgree(heap, prim, tag, c)
    BY DEF LInv, TreeLinked, Linkage
  <2> QED
    BY <2>1, <2>2, <2>3 DEF SidesAgree
<1> QED
  BY <1>1, LinksInvariance, PTL

---------------------------------------------------------------------------
(* The tree.                                                               *)

\* What the memory has of a node.
ImageOf(k) == IF prim[k] = Nil THEN Nil ELSE Image(heap[prim[k]])

\* The main line is what a load without a tag gives.
MainsLoaded == \A k \in Keys : MainOf(k) = LoadImage(k, 0)

LEMMA MainIsLoaded ==
    ASSUME TreeDbAssumption
    PROVE  IInv => MainsLoaded
<1> SUFFICES ASSUME IInv, NEW k \in Keys, open, tag = 0
             PROVE  ImageOf(k) = LoadImage(k, 0)
  BY DEF MainsLoaded, MainOf, ImageOf
<1>1. Loaded(k, 0) /\ LogType
  BY DEF IInv, TypeInv, MemoryLoaded
<1>2. CASE prim[k] = Nil
  <2>1. Rows(k, 0) = {}
    BY <1>1, <1>2 DEF Loaded
  <2> QED
    BY <1>1, <1>2, <2>1, LoadsLast DEF LoadImage, ImageOf
<1>3. CASE prim[k] # Nil
  <2>1. PICK r : r = heap[prim[k]].row
    OBVIOUS
  <2>2. PICK rows : rows = Rows(k, 0)
    OBVIOUS
  <2>3. /\ IsLast(r, rows) /\ Image(heap[prim[k]]) = Image(log[TopicOf(k)][r])
    BY <1>1, <1>3, <2>1, <2>2 DEF Loaded
  <2>4. rows \in SUBSET Nat /\ r # 0
    BY <1>1, <2>2, <2>3, RowFacts DEF IsLast
  <2>5. LoadRow(k, 0) = r
    BY <2>2, <2>3, <2>4, LastOfOne DEF LoadRow
  <2> QED
    BY <1>3, <2>3, <2>4, <2>5 DEF LoadImage, ImageOf
<1> QED
  BY <1>2, <1>3

\* While the main line is open, it is in memory.
LEMMA MainInMemory ==
    ASSUME NEW k
    PROVE  /\ open /\ tag = 0 => MainOf(k) = ImageOf(k)
           /\ open' /\ tag' = 0 => MainOf(k)' = ImageOf(k)'
BY DEF MainOf, ImageOf

\* An image is a node of the tree.
LEMMA ImageIsNode ==
    ASSUME TreeDbAssumption, NEW t \in Topics, NEW n, IsNode(t, n)
    PROVE  /\ Image(n) # Nil /\ NodeOf(Image(n), t) # Nil
           /\ NodeOf(Image(n), t) = [value |-> <<n.val, n.k2>>, parents |-> FkeyRefs(n, t)]
           /\ NodeOf(Image(n), t).value = <<n.val, n.k2>>
           /\ NodeOf(Image(n), t).parents = FkeyRefs(n, t)
<1>1. n.val \in Vals /\ n.k2 \in Key2s \union {Nil} /\ n.up \in [UpHooks(t) -> Seq(Ids)]
  BY DEF IsNode, Key2Set, Ups
<1>2. Image(n) \in [val : Vals, k2 : Key2s \union {Nil}, up : [UpHooks(t) -> Seq(Ids)]]
  BY <1>1 DEF Image
<1>3. Image(n) # Nil
  BY <1>2 DEF TreeDbAssumption, NilIsNoNode
<1>4. PICK refs : refs = FkeyRefs(n, t)
  OBVIOUS
<1>5. FkeyRefs(Image(n), t) = refs /\ refs \in SUBSET (Hooks \X Keys)
  <2>1. Image(n).up = n.up
    BY DEF Image
  <2>2. UpHooks(t) \subseteq Hooks
    BY DEF UpHooks
  <2> QED
    BY <1>4, <2>1, <2>2 DEF FkeyRefs
<1>6. PICK x : x = [value |-> <<n.val, n.k2>>, parents |-> refs]
  OBVIOUS
<1>7. NodeOf(Image(n), t) = x
  BY <1>3, <1>5, <1>6 DEF NodeOf, Image
<1>8. x # Nil
  <2>1. x \in [value : Vals \X (Key2s \union {Nil}), parents : SUBSET (Hooks \X Keys)]
    BY <1>1, <1>5, <1>6
  <2> QED
    BY <2>1 DEF TreeDbAssumption, NilIsNoNode
<1>9. x.value = <<n.val, n.k2>> /\ x.parents = refs
  BY <1>6
<1> QED
  BY <1>3, <1>4, <1>6, <1>7, <1>8, <1>9

\* The tree while the main line is in memory.
InTree(k) == NodeOf(ImageOf(k), TopicOf(k))

\* What it says of a node, and of one that is not there.
NodesInTree == \A k \in Keys :
    /\ InTree(k) = Nil <=> prim[k] = Nil
    /\ prim[k] # Nil => LET n == heap[prim[k]]
                        IN  /\ IsNode(TopicOf(k), n)
                            /\ InTree(k).value = <<n.val, n.k2>>
                            /\ InTree(k).parents = FkeyRefs(n, TopicOf(k))

LEMMA TreeNodes ==
    ASSUME TreeDbAssumption
    PROVE  IInv /\ open /\ tag = 0 => NodesInTree
<1> SUFFICES ASSUME IInv, open, tag = 0, NEW k \in Keys
             PROVE  /\ InTree(k) = Nil <=> prim[k] = Nil
                    /\ prim[k] # Nil =>
                          /\ IsNode(TopicOf(k), heap[prim[k]])
                          /\ InTree(k).value = <<heap[prim[k]].val, heap[prim[k]].k2>>
                          /\ InTree(k).parents = FkeyRefs(heap[prim[k]], TopicOf(k))
  BY DEF NodesInTree
<1>1. CASE prim[k] = Nil
  BY <1>1 DEF InTree, ImageOf, NodeOf
<1>2. CASE prim[k] # Nil
  <2>1. Loaded(k, 0) /\ TopicOf(k) \in Topics
    BY KeyParts DEF IInv, MemoryLoaded
  <2>2. PICK n : n = heap[prim[k]]
    OBVIOUS
  <2>3. IsNode(TopicOf(k), n)
    BY <1>2, <2>1, <2>2 DEF Loaded
  <2>4. InTree(k) = NodeOf(Image(n), TopicOf(k))
    BY <1>2, <2>2 DEF InTree, ImageOf
  <2> QED
    BY <1>2, <2>1, <2>2, <2>3, <2>4, ImageIsNode
<1> QED
  BY <1>1, <1>2

\* The tree before a step, and after it.
Views(old, new) == \A j \in Keys : old[j] = InTree(j) /\ new[j] = InTree(j)'

\* A node that is the same is the same in the tree.
LEMMA SameInTree ==
    ASSUME NEW j \in Keys, SameNode(j), prim'[j] = prim[j]
    PROVE  InTree(j)' = InTree(j)
BY DEF SameNode, InTree, ImageOf

\* What is saved has another value, or other links to nodes that are there.
LEMMA SavesInTree ==
    ASSUME TreeDbAssumption, Disciplined, IInv, TreeLinked', NodesInTree, NodesInTree',
           NEW k \in Keys, Saves(k), NEW old, NEW new, Views(old, new)
    PROVE  Tree!Step(old, new)
<1> DEFINE t == TopicOf(k)
<1>1. PICK hp : Rewrites(k, hp) /\ \E fails \in Fails : Save(hp, prim[k], fails)
  BY DEF Saves
<1>2. open /\ tag = 0 /\ prim[k] # Nil /\ UNCHANGED <<open, tag, prim>> /\ HeapBut(hp, k)
  BY <1>1 DEF Saves, Rewrites
<1>3. \A j \in Keys \ {k} : new[j] = old[j]
  <2>1. \A j \in Keys \ {k} : SameNode(j) /\ prim'[j] = prim[j]
    BY <1>1, <1>2, SaveWrites DEF Written, IInv
  <2> QED
    BY <2>1, SameInTree DEF Views
<1>4. PICK n : n = heap[prim[k]]
  OBVIOUS
<1>5. PICK m : m = heap'[prim[k]]
  OBVIOUS
<1>6. m.up = n.up \/ SameValue(m, n)
  BY <1>1, <1>2, <1>4, <1>5, SaveLeaves DEF Rewrites, SameLinks, SameValue
<1>7. old[k] # Nil /\ old[k].value = <<n.val, n.k2>> /\ old[k].parents = FkeyRefs(n, t)
  BY <1>2, <1>4 DEF NodesInTree, Views
<1>8. new[k] # Nil /\ new[k].value = <<m.val, m.k2>> /\ new[k].parents = FkeyRefs(m, t)
  BY <1>2, <1>5 DEF NodesInTree, Views
<1>9. CASE m.up = n.up
  <2>1. FkeyRefs(m, t) = FkeyRefs(n, t)
    BY <1>9 DEF FkeyRefs
  <2>2. Tree!Change(old, new, k)
    BY <1>7, <1>8, <2>1 DEF Tree!Change
  <2> QED
    BY <1>3, <2>2 DEF Tree!Step
<1>10. CASE SameValue(m, n)
  <2>1. ASSUME NEW link \in FkeyRefs(m, t)
        PROVE  old[link[2]] # Nil
    <3>1. PICK h \in UpHooks(t), p \in Keys :
             link[2] = p /\ TopicOf(p) = h.parent /\ Count(m.up[h], IdOf(p)) > 0
      BY DEF FkeyRefs
    <3>2. SidesAgree(heap', prim, 0, k)
      BY <1>2 DEF TreeLinked, Linkage
    <3>3. prim[p] # Nil
      BY <1>5, <3>1, <3>2 DEF SidesAgree
    <3> QED
      BY <3>1, <3>3 DEF NodesInTree, Views
  <2>2. new[k].value = old[k].value
    BY <1>7, <1>8, <1>10 DEF SameValue
  <2>3. Tree!Relink(old, new, k)
    BY <1>7, <1>8, <2>1, <2>2 DEF Tree!Relink
  <2> QED
    BY <1>3, <2>3 DEF Tree!Step
<1> QED
  BY <1>6, <1>9, <1>10

\* A node that is made has no parents.
LEMMA CreateInTree ==
    ASSUME TreeDbAssumption, Disciplined, IInv, NodesInTree, NodesInTree',
           NEW k \in Keys, NEW v \in Vals, NEW k2 \in Key2s \union {Nil}, CreateNode(k, v, k2),
           NEW old, NEW new, Views(old, new)
    PROVE  Tree!Step(old, new)
<1> DEFINE t == TopicOf(k)
<1>1. PICK n : n = NewNode(k, v, k2)
  OBVIOUS
<1>2. Written(k, n)
  BY <1>1, CreateWrites
<1>3. prim[k] = Nil
  BY DEF CreateNode, MayCreate, Disciplined, May
<1>4. \A j \in Keys \ {k} : new[j] = old[j]
  BY <1>2, SameInTree DEF Written, Views
<1>5. n.up = NoUp(t)
  BY <1>1, <1>3 DEF NewNode, InheritLinks
<1>6. prim'[k] # Nil /\ heap'[prim'[k]] = n
  BY <1>2 DEF Written
<1>7. old[k] = Nil /\ new[k] # Nil /\ new[k].parents = FkeyRefs(n, t)
  BY <1>3, <1>6 DEF NodesInTree, Views
<1>8. FkeyRefs(n, t) = {}
  <2>1. \A h \in UpHooks(t) : \A id : Count(n.up[h], id) = 0
    BY <1>5, NoUpNames
  <2> QED
    BY <2>1 DEF FkeyRefs
<1>9. Tree!Add(old, new, k)
  BY <1>7, <1>8 DEF Tree!Add
<1> QED
  BY <1>4, <1>9 DEF Tree!Step

\* A node that is deleted is nobody's parent.
LEMMA DeleteInTree ==
    ASSUME TreeDbAssumption, Disciplined, IInv, TreeLinked, NodesInTree, NodesInTree',
           NEW k \in Keys, NEW force \in BOOLEAN, DeleteNode(k, force),
           NEW old, NEW new, Views(old, new)
    PROVE  Tree!Step(old, new) \/ \A j \in Keys : new[j] = old[j]
<1> DEFINE o == prim[k]
<1>1. open /\ tag = 0 /\ o # Nil
  BY Working DEF DeleteNode
<1>2. /\ NoLinks(o, force) => prim' = [prim EXCEPT ![k] = Nil]
      /\ ~NoLinks(o, force) => UNCHANGED prim /\ SameNode(k)
      /\ Freed(o, force) = heap
      /\ \A j \in Keys \ {k} : SameNode(j) /\ prim'[j] = prim[j]
  BY DeleteNodeSame
<1>3. \A j \in Keys \ {k} : new[j] = old[j]
  BY <1>2, SameInTree DEF Views
<1>4. CASE ~NoLinks(o, force)
  <2>1. new[k] = old[k]
    BY <1>2, <1>4, SameInTree DEF Views
  <2> QED
    BY <1>3, <2>1
<1>5. CASE NoLinks(o, force)
  <2>1. ~HasDown(heap, o) /\ o.key = k
    BY <1>1, <1>2, <1>5 DEF NoLinks, IInv, TypeInv, MemoryType
  <2>2. new[k] = Nil
    <3>1. k \in DOMAIN prim
      BY DEF IInv, TypeInv, MemoryType
    <3> QED
      BY <1>2, <1>5, <3>1 DEF NodesInTree, Views
  <2>3. ASSUME NEW m \in Keys \ {k}, old[m] # Nil, NEW link \in old[m].parents, link[2] = k
        PROVE  FALSE
    <3>1. prim[m] # Nil
      BY <2>3 DEF NodesInTree, Views
    <3>2. link \in FkeyRefs(heap[prim[m]], TopicOf(m))
      BY <2>3, <3>1 DEF NodesInTree, Views
    <3>3. PICK h \in UpHooks(TopicOf(m)) :
             TopicOf(k) = h.parent /\ Count(heap[prim[m]].up[h], IdOf(k)) > 0
      BY <2>3, <3>2 DEF FkeyRefs
    <3>4. SidesAgree(heap, prim, 0, m)
      BY <1>1, <3>1 DEF TreeLinked, Linkage
    <3>5. Count(heap[o].down[h.hook], prim[m]) > 0
      BY <1>1, <3>3, <3>4 DEF SidesAgree
    <3>6. h.hook \in DownHooks(TopicOf(k))
      BY <3>3 DEF DownHooks, UpHooks
    <3>7. heap[o].down[h.hook] = <<>>
      BY <2>1, <3>6 DEF HasDown
    <3> QED
      BY <3>5, <3>7, CountFew
  <2>4. Tree!Remove(old, new, k)
    BY <2>2, <2>3 DEF Tree!Remove
  <2> QED
    BY <1>3, <2>4 DEF Tree!Step
<1> QED
  BY <1>4, <1>5

TreeNow == [k \in Keys |-> NodeOf(MainOf(k), TopicOf(k))]

\* Opening, closing and dying leave the tree as the rows have it.
LEMMA SameRowsTree ==
    ASSUME MainsLoaded, MainsLoaded', UNCHANGED log
    PROVE  TreeNow' = TreeNow
<1>1. \A k \in Keys : LoadImage(k, 0)' = LoadImage(k, 0)
  BY DEF LoadImage, LoadRow, Rows
<1>2. \A k \in Keys : MainOf(k)' = MainOf(k)
  BY <1>1 DEF MainsLoaded
<1>3. \A k \in Keys : NodeOf(MainOf(k), TopicOf(k))' = NodeOf(MainOf(k), TopicOf(k))
  BY <1>2 DEF NodeOf, FkeyRefs
<1> QED
  BY <1>3 DEF TreeNow

\* The steps of a snap, but for its saves, leave it as the memory has it.
LEMMA QuietTree ==
    ASSUME Quiet
    PROVE  TreeNow' = TreeNow
<1>1. \A k \in Keys : MainOf(k)' = MainOf(k)
  <2>1. CASE UNCHANGED log
    <3>1. \A k \in Keys : LoadImage(k, 0)' = LoadImage(k, 0)
      BY <2>1 DEF LoadImage, LoadRow, Rows
    <3> QED
      BY <3>1 DEF Quiet, MainOf
  <2>2. CASE open /\ tag = 0
    <3>1. \A k \in Keys : ImageOf(k)' = ImageOf(k)
      BY DEF Quiet, ImageOf
    <3> QED
      BY <2>2, <3>1, MainInMemory DEF Quiet
  <2> QED
    BY <2>1, <2>2 DEF Quiet
<1>2. \A k \in Keys : NodeOf(MainOf(k), TopicOf(k))' = NodeOf(MainOf(k), TopicOf(k))
  BY <1>1 DEF NodeOf, FkeyRefs
<1> QED
  BY <1>2 DEF TreeNow

\* The tree while it is open.
LEMMA TreeViews ==
    ASSUME open, tag = 0, open', tag' = 0
    PROVE  \A old, new : old = TreeNow /\ new = TreeNow' =>
              /\ Views(old, new)
              /\ (\A j \in Keys : new[j] = old[j]) => new = old
<1>1. \A k \in Keys : MainOf(k) = ImageOf(k) /\ MainOf(k)' = ImageOf(k)'
  BY MainInMemory
<1>2. \A k \in Keys : TreeNow[k] = InTree(k) /\ TreeNow'[k] = InTree(k)'
  BY <1>1 DEF TreeNow, InTree
<1> QED
  BY <1>2 DEF Views, TreeNow

\* Every step of treedb is one of the tree, or leaves it.
LEMMA StepTree ==
    ASSUME TreeDbAssumption, Disciplined, IInv, LInv, TreeLinked', MainsLoaded, MainsLoaded',
           open /\ tag = 0 => NodesInTree, open' /\ tag' = 0 => NodesInTree', [Next]_vars
    PROVE  Tree!Step(TreeNow, TreeNow') \/ TreeNow' = TreeNow
<1>1. CASE Open \/ Close
  <2>1. UNCHANGED log
    BY <1>1 DEF Open, Close, disk
  <2> QED
    BY <2>1, SameRowsTree
<1>2. CASE NodeOp \/ LinkOp \/ \E k \in Keys : ShootSave(k)
  <2>1. PICK k \in Keys : NodeStep(k)
    BY <1>2, NodeSteps DEF LInv
  <2>2. open /\ tag = 0 /\ open' /\ tag' = 0
    <3>1. open' /\ tag' = 0
      BY <2>1, NodeStepLinks DEF LInv
    <3> QED
      BY <2>1, <3>1, Working DEF NodeStep, Saves, CreateNode, DeleteNode
  <2>3. PICK old : old = TreeNow
    OBVIOUS
  <2>4. PICK new : new = TreeNow'
    OBVIOUS
  <2>5. Views(old, new) /\ ((\A j \in Keys : new[j] = old[j]) => new = old)
    BY <2>2, <2>3, <2>4, TreeViews
  <2>6. Tree!Step(old, new) \/ \A j \in Keys : new[j] = old[j]
    BY <2>1, <2>2, <2>5, SavesInTree, CreateInTree, DeleteInTree DEF NodeStep, LInv
  <2> QED
    BY <2>3, <2>4, <2>5, <2>6
<1>3. CASE Quiet
  BY <1>3, QuietTree
<1>4. CASE SnapOp \/ UNCHANGED vars
  BY <1>2, <1>3, <1>4, QuietSteps DEF SnapOp
<1> QED
  BY <1>1, <1>2, <1>4 DEF Next

\* Nothing is linked to a node that is not there, whatever is opened, closed,
\* killed, shot or activated: treedb is the tree that it promises to be.
THEOREM TreeIsLinked ==
    ASSUME Disciplined
    PROVE  Spec => IsTree
<1>1. Init => Tree!Init
  <2> SUFFICES ASSUME Init, NEW k \in Keys
               PROVE  NodeOf(MainOf(k), TopicOf(k)) = Nil
    BY DEF Tree!Init
  <2>1. Rows(k, 0) = {}
    BY KeyParts, TreeDbAssumption DEF Init, Rows
  <2>2. LoadImage(k, 0) = Nil
    BY <2>1 DEF LoadImage, LoadRow, LastOf
  <2> QED
    BY <2>2 DEF Init, MainOf, NodeOf
<1>2. IInv => MainsLoaded
  BY MainIsLoaded, TreeDbAssumption
<1>3. IInv => (open /\ tag = 0 => NodesInTree)
  BY TreeNodes, TreeDbAssumption
<1>4. LInv => TreeLinked
  BY DEF LInv
<1>5. /\ IInv /\ LInv /\ TreeLinked' /\ MainsLoaded /\ MainsLoaded' /\ [Next]_vars
      /\ (open /\ tag = 0 => NodesInTree) /\ (open /\ tag = 0 => NodesInTree)'
      => [Tree!Next]_TreeNow
  BY StepTree, TreeDbAssumption DEF Tree!Next, TreeNow
<1>6. [Tree!Next]_TreeNow <=> [Tree!Next]_([k \in Keys |-> NodeOf(MainOf(k), TopicOf(k))])
  BY DEF TreeNow
<1> QED
  BY <1>1, <1>2, <1>3, <1>4, <1>5, <1>6, LinksInvariance, PTL DEF Spec, IsTree, Tree!Spec

\* What is loaded of a node that has rows is a node of the tree, with the
\* parents that its last row names.
LEMMA LoadedNode ==
    ASSUME TreeDbAssumption, LogType, NEW k \in Keys, Rows(k, 0) # {}
    PROVE  \E r \in Rows(k, 0) :
              /\ IsLast(r, Rows(k, 0))
              /\ NodeOf(LoadImage(k, 0), TopicOf(k)) # Nil
              /\ NodeOf(LoadImage(k, 0), TopicOf(k)).parents =
                    FkeyRefs(log[TopicOf(k)][r], TopicOf(k))
<1>1. PICK r : r = LoadRow(k, 0)
  OBVIOUS
<1>2. r # 0 /\ IsLast(r, Rows(k, 0)) /\ r \in Rows(k, 0)
  BY <1>1, LoadsLast DEF IsLast
<1>3. PICK w : w = log[TopicOf(k)][r]
  OBVIOUS
<1>4. w \in RowSet(TopicOf(k)) /\ r \in Nat /\ TopicOf(k) \in Topics
  BY <1>2, <1>3, KeyParts DEF LogType, Rows
<1>5. PICK n : n = [val |-> w.val, k2 |-> w.k2, up |-> w.up, down |-> <<>>, row |-> r, tag |-> w.tag]
  OBVIOUS
<1>6. IsNode(TopicOf(k), n) /\ Image(n) = Image(w) /\ n.up = w.up
  BY <1>4, <1>5 DEF IsNode, RowSet, Image
<1>7. LoadImage(k, 0) = Image(n)
  BY <1>1, <1>2, <1>3, <1>6 DEF LoadImage
<1>8. FkeyRefs(n, TopicOf(k)) = FkeyRefs(w, TopicOf(k))
  BY <1>6 DEF FkeyRefs
<1>9. /\ NodeOf(Image(n), TopicOf(k)) # Nil
      /\ NodeOf(Image(n), TopicOf(k)).parents = FkeyRefs(n, TopicOf(k))
  BY <1>4, <1>6, ImageIsNode
<1> QED
  BY <1>2, <1>3, <1>7, <1>8, <1>9

\* load_all_links: whatever was deleted, cleaned or lost in a death, no node on
\* disk names a parent that a load would not find.
THEOREM NoLinkDangles ==
    ASSUME Disciplined
    PROVE  Spec => []Tree!NoDangling
<1>1. IInv /\ LInv => Tree!NoDangling
  <2> SUFFICES ASSUME IInv, LInv, NEW c \in Keys,
                      NodeOf(MainOf(c), TopicOf(c)) # Nil,
                      NEW link \in NodeOf(MainOf(c), TopicOf(c)).parents
               PROVE  link[2] \in Keys /\ NodeOf(MainOf(link[2]), TopicOf(link[2])) # Nil
    BY DEF Tree!NoDangling
  <2>1. LogType /\ Anchored /\ \A k \in Keys : MainOf(k) = LoadImage(k, 0)
    BY MainIsLoaded, TreeDbAssumption DEF IInv, TypeInv, LInv, MainsLoaded
  <2>2. Rows(c, 0) # {}
    BY <2>1, LoadsLast, TreeDbAssumption DEF LoadImage, NodeOf
  <2>3. PICK r \in Rows(c, 0) :
            /\ IsLast(r, Rows(c, 0))
            /\ NodeOf(MainOf(c), TopicOf(c)).parents =
                  FkeyRefs(log[TopicOf(c)][r], TopicOf(c))
    BY <2>1, <2>2, LoadedNode, TreeDbAssumption
  <2>4. PICK h, k : h = link[1] /\ k = link[2]
    OBVIOUS
  <2>5. /\ h \in UpHooks(TopicOf(c)) /\ k \in Keys /\ TopicOf(k) = h.parent
        /\ Count(log[TopicOf(c)][r].up[h], IdOf(k)) > 0
    BY <2>3, <2>4 DEF FkeyRefs
  <2>6. Rows(k, 0) # {}
    BY <2>1, <2>3, <2>5 DEF Anchored
  <2>7. NodeOf(MainOf(k), TopicOf(k)) # Nil
    BY <2>1, <2>5, <2>6, LoadedNode, TreeDbAssumption
  <2> QED
    BY <2>4, <2>5, <2>7
<1> QED
  BY <1>1, LinksInvariance, PTL
=============================================================================
