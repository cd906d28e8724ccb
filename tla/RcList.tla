------------------------------- MODULE RcList -------------------------------
(***************************************************************************)
(* 12_rc_list.c: resources that are in several lists at once, each with    *)
(* the list of its children, and the walks of them that call back.         *)
(*                                                                         *)
(* An instance is a pair of items: one in a list (an iter, or the children *)
(* of a resource), its twin in dl_instances of the resource.  The lists    *)
(* are the sequences that DlList proves their pointers to be.              *)
(***************************************************************************)
EXTENDS Integers, Sequences, FiniteSets, SequencesExt

CONSTANTS
    Iters,          \* lists of instances that the program keeps
    Resources,
    Instances,      \* as many as may be at once: the bound of the model
    None,
    Callers         \* what callers do against the discipline of the library:
                    \*   "free_parent"  free, with its last instance, a resource
                    \*                  that has children
                    \*   "keep_parent"  take a child out of its parent without
                    \*                  rc_remove_child, and keep it
                    \*   "two_parents"  give a child a second parent
                    \*   "destroy_on"   destroy the current one in a walk from
                    \*                  top to bottom and return 0
                    \*   "destroy_more" destroy, with the current one, what a loop
                    \*                  of the walk is still going to read

ASSUME RcListAssumption ==
    /\ Iters \intersect Resources = {} /\ None \notin Iters \union Resources \union Instances
    /\ IsFiniteSet(Instances)
    /\ Callers \subseteq {"free_parent", "keep_parent", "two_parents", "destroy_on", "destroy_more"}

VARIABLES
    list,       \* the instances of each iter, and of the children of each resource
    inner,      \* dl_instances of each resource
    resource,   \* the resource of each instance
    alive,      \* resources that are allocated
    parent,     \* __parent__
    walk        \* the walk in progress, with what it has called back (seen), what
                \* it was told to leave aside (cut) and whether every instance was
                \* in one place when it began (plain)

rcvars == <<list, inner, resource, alive, parent, walk>>

Anyone(caller) == caller \in Callers

\* How the walks go.
Directions == {"first2last", "last2first", "top2bottom", "bottom2top",
               "level_first2last", "level_last2first"}

Backward(how) == how \in {"last2first", "bottom2top", "level_last2first"}

Idle == [on |-> FALSE, how |-> "first2last", from |-> None, frames |-> <<>>,
         plain |-> TRUE, seen |-> {}, cut |-> {}]

RcInit ==
    /\ list = [l \in Iters \union Resources |-> <<>>]
    /\ inner = [r \in Resources |-> <<>>]
    /\ resource = [i \in Instances |-> None]
    /\ alive = {} /\ parent = [r \in Resources |-> None]
    /\ walk = Idle

InUse == {i \in Instances : resource[i] # None}
Fresh == CHOOSE i \in Instances \ InUse : TRUE

PlaceOf(i, s) == CHOOSE n \in DOMAIN s : s[n] = i

Childs(r) == {resource[i] : i \in ToSet(list[r])}

\* Resources with all that hangs from them.
Whole(rs) == \A r \in rs : Childs(r) \subseteq rs

\* A resource and what hangs from it.
Family(r) == {q \in Resources : \A rs \in SUBSET Resources : r \in rs /\ Whole(rs) => q \in rs}

\* A sequence without some instances.
Keep(s, instances) ==
    LET left  == {n \in DOMAIN s : s[n] \notin instances}
        At(k) == CHOOSE n \in left : Cardinality({m \in left : m < n}) = k - 1
    IN  [k \in 1 .. Cardinality(left) |-> s[At(k)]]

---------------------------------------------------------------------------
(* Adding.                                                                 *)

\* A resource that is new comes from gbmem_malloc, zeroed.
Allocate(r) == IF r \in alive THEN UNCHANGED alive ELSE alive' = alive \union {r}

\* rc_add_instance, rc_insert_instance: both twins, the inner one at the end.
AddInstance(l, r, first) ==
    /\ InUse # Instances
    /\ Allocate(r)
    /\ inner' = [inner EXCEPT ![r] = Append(@, Fresh)]
    /\ list' = [list EXCEPT ![l] = IF first THEN <<Fresh>> \o @ ELSE Append(@, Fresh)]
    /\ resource' = [resource EXCEPT ![Fresh] = r]
    /\ UNCHANGED <<parent, walk>>

\* rc_add_iter.  (With itself it would never end.)
AddIter(dst, src) ==
    LET n == Len(list[src])
        new == SubSeq(SetToSeq(Instances \ InUse), 1, n)
    IN  /\ dst # src /\ n > 0 /\ n <= Cardinality(Instances \ InUse)
        /\ list' = [list EXCEPT ![dst] = @ \o new]
        /\ resource' = [i \in Instances |->
                           IF i \in ToSet(new) THEN resource[list[src][PlaceOf(i, new)]]
                           ELSE resource[i]]
        /\ inner' = [r \in Resources |->
                        inner[r] \o Keep(new, {i \in Instances : resource'[i] # r})]
        /\ UNCHANGED <<alive, parent, walk>>

\* rc_add_child.  That the child has a parent is logged, no more.
AddChild(p, c) ==
    /\ InUse # Instances
    /\ p \in alive
    /\ p \notin Family(c)                   \* a cycle has no end to delete it
    /\ c \in alive /\ parent[c] # None => Anyone("two_parents")
    /\ Allocate(c)
    /\ inner' = [inner EXCEPT ![c] = Append(@, Fresh)]
    /\ list' = [list EXCEPT ![p] = Append(@, Fresh)]
    /\ resource' = [resource EXCEPT ![Fresh] = c]
    /\ parent' = [parent EXCEPT ![c] = p]
    /\ UNCHANGED walk

---------------------------------------------------------------------------
(* Deleting.                                                               *)

\* What is left when both twins of some instances are deleted and some
\* resources are freed.
Without(instances, freed) ==
    /\ list' = [l \in Iters \union Resources |-> Keep(list[l], instances)]
    /\ inner' = [r \in Resources |-> Keep(inner[r], instances)]
    /\ resource' = [i \in Instances |-> IF i \in instances THEN None ELSE resource[i]]
    /\ alive' = alive \ freed

\* rc_delete_instance, with a function to free the resource or without it: the
\* resource goes with its last instance.
FreedWith(instances, free) ==
    IF free THEN {r \in alive : ToSet(inner[r]) # {} /\ ToSet(inner[r]) \subseteq instances} ELSE {}

\* The list of an instance.
ListOf(i) == CHOOSE l \in Iters \union Resources : i \in ToSet(list[l])

MayDelete(instances, free) ==
    /\ \A r \in FreedWith(instances, free) : list[r] = <<>> \/ Anyone("free_parent")
    /\ \A i \in instances : ListOf(i) \in Iters \/ Anyone("keep_parent")

\* The parent of what is freed is gone with it.
Orphan(freed) == parent' = [r \in Resources |-> IF r \in freed THEN None ELSE parent[r]]

DeleteInstance(i, free) ==
    LET freed == FreedWith({i}, free)
    IN  /\ MayDelete({i}, free)
        /\ Without({i}, freed) /\ Orphan(freed)

\* rc_free_iter, rc_free_iter2: one instance after another.
FreeIter(l, free) ==
    LET freed == FreedWith(ToSet(list[l]), free)
    IN  /\ list[l] # <<>>
        /\ MayDelete(ToSet(list[l]), free)
        /\ Without(ToSet(list[l]), freed) /\ Orphan(freed)

InstancesOf(rs) == UNION {ToSet(inner[r]) : r \in rs}

\* rc_delete_resource: first its children, then its instances in every list.
Destroy(rs, free) ==
    /\ \A r \in rs : parent[r] # None => free \/ Anyone("keep_parent")
    /\ Without(InstancesOf(rs), IF free THEN rs ELSE {})
    /\ Orphan(IF free THEN rs ELSE {})

DeleteResource(r, free) == Destroy(Family(r), free)

\* rc_delete_all_childs.
DeleteAllChilds(r, free) ==
    /\ list[r] # <<>>
    /\ Destroy(UNION {Family(c) : c \in Childs(r)}, free)

\* Mutant: __parent__ stays.
BugRemoveChild(p, c, free) ==
    LET i == list[p][CHOOSE n \in DOMAIN list[p] : resource[list[p][n]] = c]
        freed == FreedWith({i}, free)
    IN  /\ c \in Childs(p) /\ parent[c] = p
        /\ \A r \in freed : list[r] = <<>> \/ Anyone("free_parent")
        /\ Without({i}, freed)
        /\ UNCHANGED parent

\* rc_remove_child: the first instance of the child, if this is its parent.
RemoveChild(p, c, free) ==
    LET i == list[p][CHOOSE n \in DOMAIN list[p] :
                        /\ resource[list[p][n]] = c
                        /\ \A m \in 1..(n - 1) : resource[list[p][m]] # c]
        freed == FreedWith({i}, free)
    IN  /\ c \in Childs(p) /\ parent[c] = p
        /\ \A r \in freed : list[r] = <<>> \/ Anyone("free_parent")
        /\ Without({i}, freed)
        /\ parent' = [parent EXCEPT ![c] = None]

---------------------------------------------------------------------------
(* Walking.  A frame is a loop in progress, with what its variables hold:  *)
(* the list it goes over, the current instance with its resource, and what *)
(* it does with it:                                                        *)
(*   "list"  call back          "level"  walk its children by level        *)
(*   "top"   call back, then walk its children                             *)
(*   "down"  walk its children, then ("up") call back                      *)
(* The next instance and its resource are read before any of this.  Where  *)
(* the current one is not looked at again, the frame is already at the     *)
(* next; a loop that is "up" holds both, in next_i and next.               *)

\* dl_next or dl_prev.
After(l, i) ==
    LET s == list[l]
        n == PlaceOf(i, s) + (IF Backward(walk.how) THEN -1 ELSE 1)
    IN  IF n \in DOMAIN s THEN s[n] ELSE None

\* rc_get_resource, which gives nothing for nothing.
ResourceOf(i) == IF i = None THEN None ELSE resource[i]

FrameOf(l, i, does) ==
    [of |-> l, at |-> i, it |-> ResourceOf(i), does |-> does, next_i |-> None, next |-> None]

\* What a walk does first with the items of a list.
Does(how) == CASE how = "top2bottom" -> "top"
               [] how = "bottom2top" -> "down"
               [] OTHER -> "list"

StartOf(l, how) ==
    LET s == list[l]
    IN  FrameOf(l, IF s = <<>> THEN None ELSE IF Backward(how) THEN s[Len(s)] ELSE s[1],
                Does(how))

\* The instances in the order of a walk: what the loops stand for.
Order(l, how, cut) ==
    LET OrderOf[m \in Iters \union Resources, depth \in 0..Cardinality(Resources)] ==
            LET s == IF Backward(how) THEN Reverse(list[m]) ELSE list[m]
                Under(i) == IF i \in cut \/ depth = 0 THEN <<>> ELSE OrderOf[resource[i], depth - 1]
                All(F(_)) == FlattenSeq([n \in DOMAIN s |-> F(s[n])])
                TopFirst(i) == <<i>> \o Under(i)
                TopLast(i) == Append(Under(i), i)
            IN  CASE how = "top2bottom" -> All(TopFirst)
                  [] how = "bottom2top" -> All(TopLast)
                  [] how \in {"first2last", "last2first"} -> s
                  [] OTHER -> s \o All(Under)
    IN  OrderOf[l, Cardinality(Resources)]

\* rc_walk_by_list, rc_walk_by_tree and their forms for the children of a resource.
WalkBegin(l, how) ==
    /\ ~walk.on
    /\ l \in Iters \union alive
    /\ walk' = [on |-> TRUE, how |-> how, from |-> l, frames |-> <<StartOf(l, how)>>,
                plain |-> IsInjective(Order(l, how, {})), seen |-> {}, cut |-> {}]
    /\ UNCHANGED <<list, inner, resource, alive, parent>>

Top == walk.frames[Len(walk.frames)]
Below(frames) == Front(frames)

ByLevel == walk.how \in {"level_first2last", "level_last2first"}

\* A loop is over.  By level, the children come now; else it is of the caller again.
LoopEnds ==
    /\ walk.on /\ walk.frames # <<>> /\ Top.at = None
    /\ walk' = [walk EXCEPT !.frames =
                   IF ByLevel /\ Top.does = "list"
                   THEN Append(Below(@), [StartOf(Top.of, walk.how) EXCEPT !.does = "level"])
                   ELSE Below(@)]
    /\ UNCHANGED <<list, inner, resource, alive, parent>>

\* The children of the current one, before it or instead of it: the next one has
\* been read.
Descend ==
    /\ walk.on /\ walk.frames # <<>> /\ Top.at # None /\ Top.does \in {"down", "level"}
    /\ LET next_i == After(Top.of, Top.at)
           after == IF Top.does = "level" THEN FrameOf(Top.of, next_i, "level")
                    ELSE [Top EXCEPT !.does = "up", !.next_i = next_i, !.next = ResourceOf(next_i)]
       IN  walk' = [walk EXCEPT !.frames = Below(@) \o <<after, StartOf(Top.it, walk.how)>>]
    /\ UNCHANGED <<list, inner, resource, alive, parent>>

\* What the callback does to the current one: nothing, or one of the deletions.
Acts(act, i, r) ==
    CASE act = "none"     -> UNCHANGED <<list, inner, resource, alive, parent>>
      [] act = "instance" -> DeleteInstance(i, TRUE)
      [] act = "resource" -> DeleteResource(r, TRUE)

\* "This let destroy the current item, but NOT more ones": of what the loops still
\* hold, nothing is destroyed.
OnlyCurrent(loops, act) ==
    act # "none" /\ ~Anyone("destroy_more") =>
        \A n \in DOMAIN loops : /\ loops[n].at # None => resource'[loops[n].at] # None
                                /\ loops[n].next_i # None => resource'[loops[n].next_i] # None

\* Mutant: the item after it is read after the callback.
BugOnward(i) ==
    FrameOf(Top.of, IF i \in ToSet(list'[Top.of]) THEN After(Top.of, i) ELSE None,
            IF Top.does = "up" THEN "down" ELSE Top.does)

\* The loop at the item after it, that was read before the callback: or, from the
\* bottom, before the children were walked.
Onward(i) ==
    IF Top.does = "up"
    THEN [Top EXCEPT !.at = Top.next_i, !.it = Top.next, !.does = "down",
                     !.next_i = None, !.next = None]
    ELSE FrameOf(Top.of, After(Top.of, i), Top.does)

\* A walk from the top goes into the children when the callback returns 0.
Enters(ret) == Top.does = "top" /\ ret = 0

\* One call of the callback.  It returns -1, 0 or 1.
CallBack(act, ret) ==
    /\ walk.on /\ walk.frames # <<>> /\ Top.at # None /\ Top.does \in {"list", "top", "up"}
    /\ LET i == Top.at
           r == Top.it
           moved == Append(Below(walk.frames), Onward(i))
       IN  /\ Acts(act, i, r)
           /\ OnlyCurrent(moved, act)
           /\ Top.does = "top" /\ act # "none" => ret > 0 \/ Anyone("destroy_on")
           /\ walk' =
                 IF ret < 0 THEN Idle
                 ELSE [walk EXCEPT
                         !.seen = @ \union {i},
                         !.cut = IF Top.does = "top" /\ ret > 0 THEN @ \union {i} ELSE @,
                         !.frames = IF Enters(ret)
                                    THEN Append(moved, StartOf(r, walk.how)) ELSE moved]

WalkEnd ==
    /\ walk.on /\ walk.frames = <<>>
    /\ walk' = Idle
    /\ UNCHANGED <<list, inner, resource, alive, parent>>

RcNext ==
    \/ /\ ~walk.on
       /\ \/ \E l \in Iters, r \in Resources, first \in BOOLEAN : AddInstance(l, r, first)
          \/ \E dst \in Iters, src \in Iters \union alive : AddIter(dst, src)
          \/ \E p, c \in Resources : AddChild(p, c)
          \/ \E i \in InUse, free \in BOOLEAN : DeleteInstance(i, free) /\ UNCHANGED walk
          \/ \E l \in Iters, free \in BOOLEAN : FreeIter(l, free) /\ UNCHANGED walk
          \/ \E r \in alive, free \in BOOLEAN : DeleteResource(r, free) /\ UNCHANGED walk
          \/ \E r \in alive, free \in BOOLEAN : DeleteAllChilds(r, free) /\ UNCHANGED walk
          \/ \E p, c \in alive, free \in BOOLEAN : RemoveChild(p, c, free) /\ UNCHANGED walk
    \/ \E l \in Iters \union Resources, how \in Directions : WalkBegin(l, how)
    \/ LoopEnds
    \/ Descend
    \/ \E act \in {"none", "instance", "resource"}, ret \in -1..1 : CallBack(act, ret)
    \/ WalkEnd

RcSpec == RcInit /\ [][RcNext]_rcvars

---------------------------------------------------------------------------
(* Correctness.                                                            *)

\* Every instance in a list has its twin in the resource, and the other way
\* round, once, and the resource is there.
TwinsAgree ==
    /\ \A l, m \in Iters \union Resources : \A n \in DOMAIN list[l], k \in DOMAIN list[m] :
          list[l][n] = list[m][k] => l = m /\ n = k
    /\ InUse = UNION {ToSet(list[l]) : l \in Iters \union Resources}
    /\ \A r \in Resources :
          /\ ToSet(inner[r]) = {i \in Instances : resource[i] = r}
          /\ \A n, k \in DOMAIN inner[r] : inner[r][n] = inner[r][k] => n = k
    /\ \A i \in InUse : resource[i] \in alive
    /\ \A r \in Resources \ alive : list[r] = <<>>

\* __parent__ of a child is the resource that has it, and it is there.
ParentSound ==
    \A c \in Resources :
       /\ parent[c] # None => parent[c] \in alive /\ c \in Childs(parent[c])
       /\ \A p \in Resources : c \in Childs(p) => parent[c] = p

\* What a walk is going to read has not been freed: the instances that its loops
\* hold, and the resources whose children they go over.
WalkSafe ==
    \A n \in DOMAIN walk.frames :
       LET f == walk.frames[n]
       IN  /\ f.at # None => resource[f.at] = f.it
           /\ f.next_i # None => resource[f.next_i] = f.next
           /\ f.of \in Resources => f.of \in alive

\* 12_rc_list.c: an instance is in one place of one list, with its twin in a
\* resource that is there, a child has the parent whose children it is one of,
\* and no loop of a walk holds what a callback has freed.
ResourcesSound == TwinsAgree /\ ParentSound /\ WalkSafe

\* What is still to be called back.
Due == SelectSeq(Order(walk.from, walk.how, walk.cut), LAMBDA i : i \notin walk.seen)

\* 12_rc_list.c, the walks: a walk calls back, in the order of the tree as it is,
\* every instance that is still there when its turn comes, whatever the callback
\* deletes of the current one: none twice, and none is left at the end.  (Said of
\* a walk in which nothing hangs from two places.)
WalksSound ==
    (walk.on /\ walk.plain /\ walk.from \in Iters \union alive) =>
        IF walk.frames = <<>> THEN Due = <<>>
        ELSE (Top.at # None /\ Top.does \in {"list", "top", "up"}) =>
                 Due # <<>> /\ Due[1] = Top.at
=============================================================================
