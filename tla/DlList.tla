------------------------------- MODULE DlList -------------------------------
(***************************************************************************)
(* 02_dl_list.c: the doubly linked lists that queues, superblocks and      *)
(* resources are kept in, pointer by pointer.                              *)
(*                                                                         *)
(* `order` is not in the code: it is the sequence that each list stands    *)
(* for, changed by the sequence operation that each function promises.     *)
(* Linked says that the pointers agree with it.                            *)
(*                                                                         *)
(* An item or a list that is used wrongly ends the process (print_error    *)
(* with PEF_ABORT).                                                        *)
(***************************************************************************)
EXTENDS Integers, Sequences, SequencesExt

CONSTANTS
    Lists,
    Items,
    Null,
    Liberties       \* what callers may do beyond the discipline:
                    \*   "move"     call dl_move with lists that are not empty
                    \*   "foreign"  insert before or after an item of
                    \*              another list

ASSUME DlListAssumption ==
    /\ Null \notin Lists \union Items
    /\ Liberties \subseteq {"move", "foreign"}

VARIABLES
    head, tail, size,       \* of each list
    prev, next, owner,      \* __prev__, __next__ and __dl__ of each item
    flushing,               \* lists that dl_flush is emptying
    aborted,                \* the process has ended
    order

lists == <<head, tail, size>>
links == <<prev, next, owner>>
vars == <<lists, links, flushing, aborted, order>>

May(liberty) == liberty \in Liberties

Init ==
    /\ head = [l \in Lists |-> Null] /\ tail = [l \in Lists |-> Null]
    /\ size = [l \in Lists |-> 0]
    /\ prev = [i \in Items |-> Null] /\ next = [i \in Items |-> Null]
    /\ owner = [i \in Items |-> Null]
    /\ flushing = {} /\ aborted = FALSE
    /\ order = [l \in Lists |-> <<>>]

\* check_links: what is not in a list yet.
Unlinked(i) == prev[i] = Null /\ next[i] = Null /\ owner[i] = Null

\* The item goes to the end of the list: dl_add, and dl_insert_after when the
\* current one is the last.
LinkLast(l, i) ==
    /\ prev' = [prev EXCEPT ![i] = tail[l]]
    /\ next' = [j \in Items |-> IF j = i THEN Null
                                ELSE IF j = tail[l] THEN i ELSE next[j]]
    /\ head' = IF tail[l] = Null THEN [head EXCEPT ![l] = i] ELSE head
    /\ tail' = [tail EXCEPT ![l] = i]

\* The item goes to the head of the list.
LinkFirst(l, i) ==
    /\ next' = [next EXCEPT ![i] = head[l]]
    /\ prev' = [j \in Items |-> IF j = i THEN Null
                                ELSE IF j = head[l] THEN i ELSE prev[j]]
    /\ tail' = IF head[l] = Null THEN [tail EXCEPT ![l] = i] ELSE tail
    /\ head' = [head EXCEPT ![l] = i]

\* The new item is in the list.
Owned(l, i) ==
    /\ size' = [size EXCEPT ![l] = @ + 1]
    /\ owner' = [owner EXCEPT ![i] = l]
    /\ UNCHANGED <<flushing, aborted>>

Add(l, i) ==
    /\ Unlinked(i)
    /\ LinkLast(l, i) /\ Owned(l, i)
    /\ order' = [order EXCEPT ![l] = Append(@, i)]

Insert(l, i) ==
    /\ Unlinked(i)
    /\ LinkFirst(l, i) /\ Owned(l, i)
    /\ order' = [order EXCEPT ![l] = <<i>> \o @]

Place(l, i) == CHOOSE n \in DOMAIN order[l] : order[l][n] = i

\* The current item, when there is one, is of the list.
Mine(l, c) == c # Null /\ owner[c] = l

MayNext(l, c) == c = Null \/ Mine(l, c) \/ May("foreign")

\* Mutant: the item before does not know the new one.
BugInsertBefore(l, c, i) ==
    /\ Unlinked(i) /\ MayNext(l, c)
    /\ IF head[l] = Null \/ c = Null \/ prev[c] = Null
       THEN LinkFirst(l, i)
       ELSE /\ next' = [next EXCEPT ![i] = c]
            /\ prev' = [prev EXCEPT ![i] = prev[c], ![c] = i]
            /\ UNCHANGED <<head, tail>>
    /\ Owned(l, i)
    /\ order' = [order EXCEPT ![l] = InsertAt(@, IF Mine(l, c) THEN Place(l, c) ELSE 1, i)]

\* dl_insert_before: it does not ask whose item the current one is.
InsertBefore(l, c, i) ==
    /\ Unlinked(i) /\ MayNext(l, c)
    /\ IF head[l] = Null \/ c = Null \/ prev[c] = Null
       THEN LinkFirst(l, i)
       ELSE /\ next' = [next EXCEPT ![prev[c]] = i, ![i] = c]
            /\ prev' = [prev EXCEPT ![i] = prev[c], ![c] = i]
            /\ UNCHANGED <<head, tail>>
    /\ Owned(l, i)
    /\ order' = [order EXCEPT ![l] = InsertAt(@, IF Mine(l, c) THEN Place(l, c) ELSE 1, i)]

\* dl_insert_after, likewise.
InsertAfter(l, c, i) ==
    /\ Unlinked(i) /\ MayNext(l, c)
    /\ IF head[l] = Null \/ c = Null \/ next[c] = Null
       THEN LinkLast(l, i)
       ELSE /\ prev' = [prev EXCEPT ![next[c]] = i, ![i] = c]
            /\ next' = [next EXCEPT ![i] = next[c], ![c] = i]
            /\ UNCHANGED <<head, tail>>
    /\ Owned(l, i)
    /\ order' = [order EXCEPT ![l] =
                      InsertAt(@, IF Mine(l, c) THEN Place(l, c) + 1
                                  ELSE Len(@) + 1, i)]

\* What dl_delete does to the pointers of the list, the neighbours and the item.
Unlink(l, i) ==
    LET p == prev[i]
        n == next[i]
    IN  /\ head' = IF p = Null THEN [head EXCEPT ![l] = next[head[l]]] ELSE head
        /\ tail' = IF n = Null THEN [tail EXCEPT ![l] = p] ELSE tail
        /\ prev' = [j \in Items |-> IF j = i THEN Null
                                    ELSE IF j = n THEN p ELSE prev[j]]
        /\ next' = [j \in Items |-> IF j = i THEN Null
                                    ELSE IF j = p THEN n ELSE next[j]]
        /\ owner' = [owner EXCEPT ![i] = Null]
        /\ size' = [size EXCEPT ![l] = @ - 1]
        /\ order' = [order EXCEPT ![l] = RemoveAt(@, Place(l, i))]

\* dl_delete, dl_delete_item.
Delete(i) ==
    /\ owner[i] # Null
    /\ Unlink(owner[i], i)
    /\ UNCHANGED <<flushing, aborted>>

\* dl_flush: it deletes the first item until there is none.  Its free function
\* may use this list and others meanwhile.
FlushBegin(l) ==
    /\ l \notin flushing
    /\ flushing' = flushing \union {l}
    /\ UNCHANGED <<lists, links, aborted, order>>

FlushStep(l) ==
    /\ l \in flushing /\ head[l] # Null
    /\ Unlink(l, head[l])
    /\ UNCHANGED <<flushing, aborted>>

FlushEnd(l) ==
    /\ l \in flushing /\ head[l] = Null
    /\ flushing' = flushing \ {l}
    /\ aborted' = (tail[l] # Null \/ size[l] # 0)
    /\ UNCHANGED <<lists, links, order>>

\* dl_move: dl_init refuses the source when it is not empty, the items that
\* move keep their owner, and those of the destination are left.
Move(to, from) ==
    /\ to # from
    /\ May("move") \/ (head[from] = Null /\ head[to] = Null)
    /\ head' = [head EXCEPT ![to] = head[from]]
    /\ tail' = [tail EXCEPT ![to] = tail[from]]
    /\ size' = [size EXCEPT ![to] = size[from]]
    /\ aborted' = (head[from] # Null \/ tail[from] # Null \/ size[from] # 0)
    /\ order' = [order EXCEPT ![to] = order[from], ![from] = <<>>]
    /\ UNCHANGED <<links, flushing>>

Next ==
    /\ ~aborted
    /\ \/ \E l \in Lists, i \in Items : Add(l, i)
       \/ \E l \in Lists, i \in Items : Insert(l, i)
       \/ \E l \in Lists, c \in Items \union {Null}, i \in Items : InsertBefore(l, c, i)
       \/ \E l \in Lists, c \in Items \union {Null}, i \in Items : InsertAfter(l, c, i)
       \/ \E i \in Items : Delete(i)
       \/ \E l \in Lists : FlushBegin(l)
       \/ \E l \in Lists : FlushStep(l)
       \/ \E l \in Lists : FlushEnd(l)
       \/ \E to \in Lists, from \in Lists : Move(to, from)

Spec == Init /\ [][Next]_vars

---------------------------------------------------------------------------
(* Types and correctness.                                                  *)

\* What each variable may hold.
TypeOK ==
    /\ head \in [Lists -> Items \union {Null}]
    /\ tail \in [Lists -> Items \union {Null}]
    /\ size \in [Lists -> Int]
    /\ prev \in [Items -> Items \union {Null}]
    /\ next \in [Items -> Items \union {Null}]
    /\ owner \in [Items -> Lists \union {Null}]
    /\ flushing \subseteq Lists /\ aborted \in BOOLEAN
    /\ order \in [Lists -> Seq(Items)]

FirstOf(s) == IF s = <<>> THEN Null ELSE s[1]
LastOf(s) == IF s = <<>> THEN Null ELSE s[Len(s)]

\* The pointers of a list are its sequence: its ends, the walk in both
\* directions and its size.
EndsAgree == \A l \in Lists : /\ head[l] = FirstOf(order[l])
                              /\ tail[l] = LastOf(order[l])
                              /\ size[l] = Len(order[l])

WalksAgree == \A l \in Lists : \A n \in DOMAIN order[l] :
    /\ next[order[l][n]] = IF n = Len(order[l]) THEN Null ELSE order[l][n + 1]
    /\ prev[order[l][n]] = IF n = 1 THEN Null ELSE order[l][n - 1]
    /\ owner[order[l][n]] = l

\* An item that has an owner is in its list, once; what has none is unlinked.
OwnersAgree ==
    /\ \A i \in Items : owner[i] # Null =>
          \E n \in DOMAIN order[owner[i]] : order[owner[i]][n] = i
    /\ \A i \in Items : owner[i] = Null => Unlinked(i)
    /\ \A l \in Lists : \A n, m \in DOMAIN order[l] :
          order[l][n] = order[l][m] => n = m

\* Whatever sequence of insertions at any place and deletions came before,
\* dl_next, dl_prev, dl_first, dl_last, dl_size and the check of the links of
\* an item tell the sequence that the list stands for.
Linked == EndsAgree /\ WalksAgree /\ OwnersAgree

\* A flush, with a free function that uses the lists, ends well.
FlushSound == ~aborted
=============================================================================
