------------------------------ MODULE KwOwners ------------------------------
(***************************************************************************)
(* 14_kw.c, kws with a binary field: the dict has the address of a gbuffer *)
(* as an integer, which jansson knows nothing of; the functions of kw give *)
(* and take references of the gbuffer with those of the dict.              *)
(***************************************************************************)
EXTENDS Integers, FiniteSets

CONSTANTS
    Kws, Bufs, Nobody,
    MaxRefs,        \* of a kw, and gbuffers that a caller has: a bound of the model
    Liberties       \* "clone", "copy", "delete": calls that callers must not make of a
                    \* kw with a binary; without them they do not

VARIABLES
    obj,            \* kw -> [refs, keys, bin], or Nobody: not allocated
    buf,            \* gbuffer -> references; without them it is freed
    hand            \* gbuffer -> references that callers have

kwovars == <<obj, buf, hand>>

\* ghelpers.c registers one binary type: a gbuffer, and what it is serialized to.
Gbuffer    == "gbuffer"
Serialized == "__gbuffer___"
KeyNames   == {"_x", Serialized}
Underscores(key) == IF key = "_x" THEN 1 ELSE IF key = Serialized THEN 2 ELSE 0

-----------------------------------------------------------------------------

KwRecord == [refs : Nat \ {0}, keys : SUBSET KeyNames, bin : Bufs \cup {Nobody}]

ASSUME KwOwnersAssumption ==
    /\ Nobody \notin Bufs /\ Nobody \notin KwRecord
    /\ Liberties \subseteq {"clone", "copy", "delete"}

Live(k)  == obj[k] # Nobody
HasBin(k) == obj[k].bin # Nobody
KeysOf(kw) == kw.keys \cup (IF kw.bin = Nobody THEN {} ELSE {Gbuffer})

\* The binary of a kw, n references more.
More(f, kw, n) == IF kw.bin = Nobody THEN f ELSE [f EXCEPT ![kw.bin] = @ + n]

\* A kw with some of the keys of another.
Part(kw, keys) ==
    [refs |-> 1, keys |-> kw.keys \cap keys,
     bin |-> IF Gbuffer \in keys THEN kw.bin ELSE Nobody]

\* kw_decref, of kw k: the dict goes with its last reference.
Less(o, k) == IF o[k].refs = 1 THEN [o EXCEPT ![k] = Nobody] ELSE [o EXCEPT ![k].refs = @ - 1]

KwoInit ==
    /\ obj = [k \in Kws |-> Nobody]
    /\ buf = [b \in Bufs |-> 0] /\ hand = [b \in Bufs |-> 0]

\* gbuf_create and gbuf_decref, of a caller
NewBuf == \E b \in Bufs :
    /\ buf[b] = 0 /\ buf' = [buf EXCEPT ![b] = 1] /\ hand' = [hand EXCEPT ![b] = 1]
    /\ UNCHANGED obj
DropBuf == \E b \in Bufs :
    /\ hand[b] > 0
    /\ buf' = [buf EXCEPT ![b] = @ - 1] /\ hand' = [hand EXCEPT ![b] = @ - 1]
    /\ UNCHANGED obj

\* A dict of a caller, with the gbuffer that the caller had.
Pack == \E k \in Kws, b \in Bufs \cup {Nobody}, keys \in SUBSET (KeyNames \ {Serialized}) :
    /\ ~Live(k)
    /\ b # Nobody => hand[b] > 0
    /\ obj' = [obj EXCEPT ![k] = [refs |-> 1, keys |-> keys, bin |-> b]]
    /\ hand' = IF b = Nobody THEN hand ELSE [hand EXCEPT ![b] = @ - 1]
    /\ UNCHANGED buf

\* kw_get_int with KW_EXTRACT, of a kw that is of one owner: the caller has the gbuffer.
Extract == \E k \in Kws :
    /\ Live(k) /\ HasBin(k) /\ obj[k].refs = 1 /\ hand[obj[k].bin] < MaxRefs
    /\ obj' = [obj EXCEPT ![k].bin = Nobody]
    /\ hand' = [hand EXCEPT ![obj[k].bin] = @ + 1]
    /\ UNCHANGED buf

\* kw_incref, kw_decref
Incref == \E k \in Kws :
    /\ Live(k) /\ obj[k].refs < MaxRefs
    /\ obj' = [obj EXCEPT ![k].refs = @ + 1]
    /\ buf' = More(buf, obj[k], 1)
    /\ UNCHANGED hand
Decref == \E k \in Kws :
    /\ Live(k)
    /\ obj' = Less(obj, k)
    /\ buf' = More(buf, obj[k], -1)
    /\ UNCHANGED hand

\* Mutant: a duplicate has the gbuffer and no reference of it.
BugDuplicated(kw, underscores) ==
    [kw |-> Part(kw, {key \in KeysOf(kw) : underscores = 0 \/ Underscores(key) # underscores}),
     buf |-> buf]

\* _duplicate_object, without the keys that have so many underscores first; with a
\* reference of the gbuffer.
Duplicated(kw, underscores) ==
    [kw |-> Part(kw, {key \in KeysOf(kw) : underscores = 0 \/ Underscores(key) # underscores}),
     buf |-> More(buf, kw, 1)]

\* kw_duplicate
Duplicate == \E k \in Kws, n \in Kws :
    /\ Live(k) /\ ~Live(n)
    /\ LET dup == Duplicated(obj[k], 0)
       IN  obj' = [obj EXCEPT ![n] = dup.kw] /\ buf' = dup.buf
    /\ UNCHANGED hand

\* kw_filter_private, kw_filter_metadata: the kw is consumed.
Filter == \E k \in Kws, n \in Kws, underscores \in {1, 2} :
    /\ Live(k) /\ ~Live(n)
    /\ LET dup == Duplicated(obj[k], underscores)
       IN  /\ obj' = Less([obj EXCEPT ![n] = dup.kw], k)
           /\ buf' = More(dup.buf, obj[k], -1)
    /\ UNCHANGED hand

\* kw_serialize: the duplicate has, in place of the gbuffer, what it was serialized to.
Serialize == \E k \in Kws, n \in Kws :
    /\ Live(k) /\ ~Live(n)
    /\ LET dup == Duplicated(obj[k], 0)
           is  == dup.kw.bin # Nobody
           kw  == [dup.kw EXCEPT !.bin = Nobody, !.keys = @ \cup (IF is THEN {Serialized} ELSE {})]
       IN  /\ obj' = Less([obj EXCEPT ![n] = kw], k)
           /\ buf' = More(More(dup.buf, dup.kw, -1), obj[k], -1)
    /\ UNCHANGED hand

\* kw_deserialize, of a kw that has no gbuffer: another one would be lost under it.  The
\* code frees what was serialized twice; here, once.
Deserialize == \E k \in Kws, n \in Kws, b \in Bufs :
    /\ Live(k) /\ ~Live(n) /\ Serialized \in obj[k].keys
    /\ ~HasBin(k) /\ buf[b] = 0
    /\ obj' = Less([obj EXCEPT ![n] = [refs |-> 1, keys |-> obj[k].keys \ {Serialized}, bin |-> b]], k)
    /\ buf' = [buf EXCEPT ![b] = 1]
    /\ UNCHANGED hand

\* kw_delete_private_keys, kw_delete_metadata_keys, kw_delete_keys and kw_pop: the
\* reference of a gbuffer is not given back.
DeleteKeys == \E k \in Kws, keys \in {{key \in KeyNames : Underscores(key) = 1},
                                      {key \in KeyNames : Underscores(key) = 2},
                                      {"_x", Gbuffer}} :
    /\ Live(k)
    /\ Gbuffer \in keys /\ HasBin(k) => "delete" \in Liberties
    /\ obj' = [obj EXCEPT ![k].keys = @ \ keys,
                          ![k].bin = IF Gbuffer \in keys THEN Nobody ELSE @]
    /\ UNCHANGED <<buf, hand>>

\* kw_duplicate_with_only_keys and kw_update_except copy the address alone.
OnlyKeys == \E k \in Kws, n \in Kws, keys \in {{"_x"}, {"_x", Gbuffer}, {Serialized}} :
    /\ Live(k) /\ ~Live(n)
    /\ Gbuffer \in keys /\ HasBin(k) => "copy" \in Liberties
    /\ obj' = [obj EXCEPT ![n] = Part(obj[k], keys)]
    /\ UNCHANGED <<buf, hand>>
UpdateExcept == \E k \in Kws, other \in Kws, excepted \in {{}, {"_x", Gbuffer}} :
    /\ k # other /\ Live(k) /\ Live(other)
    /\ LET new == Part(obj[other], (KeyNames \cup {Gbuffer}) \ excepted) IN
       /\ new.bin # Nobody => "copy" \in Liberties
       /\ obj' = [obj EXCEPT ![k].keys = @ \cup new.keys,
                             ![k].bin = IF new.bin = Nobody THEN @ ELSE new.bin]
    /\ UNCHANGED <<buf, hand>>

\* kw_clone_by_path and kw_clone_by_keys, and kw_clone_by_not_keys: the clone shares the
\* values, and the kw that is consumed takes its reference of the gbuffer with it.
Clone == \E k \in Kws, n \in Kws, not \in BOOLEAN,
            keys \in {{"_x"}, {"_x", Gbuffer}, {Serialized}} :
    /\ Live(k) /\ ~Live(n)
    /\ LET new == Part(obj[k], IF not THEN (KeyNames \cup {Gbuffer}) \ keys ELSE keys) IN
       /\ new.bin # Nobody => "clone" \in Liberties
       /\ obj' = Less([obj EXCEPT ![n] = new], k)
    /\ buf' = More(buf, obj[k], -1)
    /\ UNCHANGED hand

\* Without keys, kw_clone_by_not_keys answers an empty dict, and the others the kw.
CloneNone == \E k \in Kws, n \in Kws :
    /\ Live(k) /\ ~Live(n)
    /\ obj' = Less([obj EXCEPT ![n] = Part(obj[k], {})], k)
    /\ buf' = More(buf, obj[k], -1)
    /\ UNCHANGED hand

KwoNext ==
    \/ NewBuf \/ DropBuf \/ Pack \/ Extract \/ Incref \/ Decref
    \/ Duplicate \/ Filter \/ Serialize \/ Deserialize
    \/ DeleteKeys \/ OnlyKeys \/ UpdateExcept \/ Clone \/ CloneNone

KwoSpec == KwoInit /\ [][KwoNext]_kwovars

-----------------------------------------------------------------------------
(* Properties *)

\* Each reference of each kw that a gbuffer is in.
Owners(b) == UNION {{k} \X (1 .. obj[k].refs) : k \in {k \in Kws : Live(k) /\ obj[k].bin = b}}

\* 14_kw.c: a gbuffer has a reference for each that a caller has, and for each reference
\* of each kw it is in: it is not freed while a kw has its address, and it is freed with
\* the last one.
OwnersCount == \A b \in Bufs : buf[b] = hand[b] + Cardinality(Owners(b))

=============================================================================
