------------------------------- MODULE GbMem --------------------------------
(***************************************************************************)
(* 11_gbmem.c: the memory manager.  Memory comes from the system in        *)
(* superblocks of Chunk blocks; a piece of n blocks is cut from the        *)
(* current superblock or taken from the list of free pieces of n blocks,   *)
(* and goes to that list when it is freed.  Pieces are never split or      *)
(* joined.                                                                 *)
(*                                                                         *)
(* Until gbmem_startup, and after gbmem_shutdown, memory is the system's,  *)
(* and only its size is counted.                                           *)
(*                                                                         *)
(* An address is <<superblock, block>>; what a caller writes in its piece  *)
(* is not modelled.  gbmem_malloc and gbmem_free hold the lock of the      *)
(* manager; gbmem_realloc takes it twice, so other threads may come in     *)
(* between.                                                                *)
(***************************************************************************)
EXTENDS Integers, Sequences, FiniteSets, FiniteSetsExt, Functions

CONSTANTS
    BlockSize,      \* bytes of a block (min_block)
    PoolSize,       \* blocks of the largest piece (max_block / min_block)
    Chunk,          \* blocks of a superblock
    MaxSb,          \* superblocks that may be asked of the system
    Header,         \* bytes before a piece: its trace and its blocks
    SystemHeader,   \* bytes before a piece of the system: its size
    MaxSystem,      \* bytes of the system that may be in use
    Sizes,          \* bytes that callers ask for
    Threads,
    SystemSlots,    \* pieces of the system that may be in use at once
    Nil

\* The code refuses a block smaller than the header.  That a superblock holds
\* the largest piece is the caller's duty: gbmem_startup does not look at it.
ASSUME GbMemAssumption ==
    /\ BlockSize \in Nat /\ Header \in Nat /\ SystemHeader \in Nat
    /\ 0 < Header /\ Header <= BlockSize
    /\ PoolSize \in Nat \ {0}
    /\ Chunk \in Nat /\ PoolSize <= Chunk
    /\ MaxSb \in Nat \ {0} /\ MaxSystem \in Nat
    /\ Sizes \subseteq Nat
    /\ Nil \notin Sizes /\ Nil \notin (Nat \X Nat)

VARIABLES
    mode,           \* "system", "segments" or "aborted"
    cur,            \* __cur_system_memory__
    system,         \* bytes of each piece of the system in use, header included
    pool,           \* pool: the free pieces of n blocks, the last one first
    avail,          \* address of the rest of the current superblock
    amtAvail,       \* its blocks
    countSb,        \* superblocks asked of the system
    used,           \* pieces in use: [blocks, size], by address; blocks is
                    \* what the header says
    moving          \* [from, to] of each thread that is in gbmem_realloc, or Nil

vars == <<mode, cur, system, pool, avail, amtAvail, countSb, used, moving>>
pieces == <<pool, avail, amtAvail, countSb, used>>
systemVars == <<cur, system>>

Address == (1..MaxSb) \X (0..Chunk)

Has(f, x, y) == [z \in DOMAIN f \union {x} |-> IF z = x THEN y ELSE f[z]]
Without(f, x) == [z \in DOMAIN f \ {x} |-> f[z]]

---------------------------------------------------------------------------
(* Startup and shutdown.                                                   *)

Init ==
    /\ mode = "system" /\ cur = 0 /\ system = <<>>
    /\ pool = [n \in 1..PoolSize |-> <<>>]
    /\ avail = <<1, 0>> /\ amtAvail = 0 /\ countSb = 0
    /\ used = <<>> /\ moving = [t \in Threads |-> Nil]

\* gbmem_startup: the pieces of the system that are in use would be freed as
\* pieces of a superblock, so callers start it before they ask for memory.
Startup ==
    /\ mode = "system" /\ DOMAIN system = {}
    /\ mode' = "segments"
    /\ pool' = [n \in 1..PoolSize |-> <<>>]
    /\ avail' = <<1, 0>> /\ amtAvail' = Chunk /\ countSb' = 1
    /\ UNCHANGED <<used, moving, systemVars>>

\* gbmem_shutdown: it gives all superblocks back, in use or not, so callers
\* free their memory before.
Shutdown ==
    /\ mode = "segments" /\ DOMAIN used = {}
    /\ mode' = "system"
    /\ pool' = [n \in 1..PoolSize |-> <<>>]
    /\ avail' = <<1, 0>> /\ amtAvail' = 0 /\ countSb' = 0
    /\ UNCHANGED <<used, moving, systemVars>>

---------------------------------------------------------------------------
(* gbmem_malloc.                                                           *)

Blocks(size) == (size + Header + BlockSize - 1) \div BlockSize

\* A size of 0, or larger than max_block, gives NULL.
Fits(size) == 0 < size /\ size + Header <= PoolSize * BlockSize

TakeFrom(n, size, a) ==
    /\ pool[n] # <<>> /\ a = Head(pool[n])
    /\ pool' = [pool EXCEPT ![n] = Tail(@)]
    /\ used' = Has(used, a, [blocks |-> n, size |-> size])
    /\ UNCHANGED <<avail, amtAvail, countSb>>

FromAvail(n, size, a) ==
    /\ n <= amtAvail /\ a = avail
    /\ avail' = <<avail[1], avail[2] + n>> /\ amtAvail' = amtAvail - n
    /\ used' = Has(used, a, [blocks |-> n, size |-> size])
    /\ UNCHANGED <<pool, countSb>>

\* Mutant: the rest of the superblock goes to the list of the next size.
BugKeepRest == IF amtAvail = 0 THEN pool
               ELSE [pool EXCEPT ![amtAvail + 1] = <<avail>> \o @]

\* alloc_superblock: what is left of the current one is a free piece.
KeepRest == IF amtAvail = 0 THEN pool
            ELSE [pool EXCEPT ![amtAvail] = <<avail>> \o @]

\* alloc_superblock, then the piece from the new one.
FromNew(n, size, a) ==
    /\ n > amtAvail /\ countSb < MaxSb
    /\ pool' = KeepRest
    /\ countSb' = countSb + 1
    /\ a = <<countSb + 1, 0>>
    /\ avail' = <<countSb + 1, n>> /\ amtAvail' = Chunk - n
    /\ used' = Has(used, a, [blocks |-> n, size |-> size])

\* Mutant: the header says the blocks that were asked for.
BugFromUpper(n, size, a) ==
    /\ n > amtAvail /\ countSb = MaxSb
    /\ \E k \in n..PoolSize :
          /\ \A j \in n..(k - 1) : pool[j] = <<>>
          /\ pool[k] # <<>> /\ a = Head(pool[k])
          /\ pool' = [pool EXCEPT ![k] = Tail(@)]
          /\ used' = Has(used, a, [blocks |-> n, size |-> size])
          /\ UNCHANGED <<avail, amtAvail, countSb>>

\* No more superblocks: the smallest free piece that is larger.
FromUpper(n, size, a) ==
    /\ n > amtAvail /\ countSb = MaxSb
    /\ \E k \in n..PoolSize : /\ \A j \in n..(k - 1) : pool[j] = <<>>
                              /\ TakeFrom(k, size, a)

Give(size, a) ==
    LET n == Blocks(size)
    IN  \/ TakeFrom(n, size, a)
        \/ pool[n] = <<>> /\ FromAvail(n, size, a)
        \/ pool[n] = <<>> /\ FromNew(n, size, a)
        \/ pool[n] = <<>> /\ FromUpper(n, size, a)

\* Nothing to give: abort.
NoMemory(size) ==
    /\ Blocks(size) > amtAvail /\ countSb = MaxSb
    /\ \A k \in Blocks(size)..PoolSize : pool[k] = <<>>

Malloc(size) ==
    /\ mode = "segments" /\ Fits(size)
    /\ \E a \in Address : Give(size, a)
    /\ UNCHANGED <<mode, systemVars, moving>>

Abort(size) ==
    /\ mode = "segments" /\ Fits(size) /\ NoMemory(size)
    /\ mode' = "aborted"
    /\ UNCHANGED <<pieces, systemVars, moving>>

---------------------------------------------------------------------------
(* gbmem_free and gbmem_realloc.                                           *)

Release(a) ==
    /\ pool' = [pool EXCEPT ![used[a].blocks] = <<a>> \o @]
    /\ used' = Without(used, a)
    /\ UNCHANGED <<avail, amtAvail, countSb>>

Moved == UNION {{moving[t].from, moving[t].to} :
                   t \in {u \in Threads : moving[u] # Nil}}

\* A caller frees what it owns, and nobody frees what is being moved.
Free(a) ==
    /\ mode = "segments" /\ a \in DOMAIN used \ Moved
    /\ Release(a)
    /\ UNCHANGED <<mode, systemVars, moving>>

\* gbmem_realloc: a new piece first.  When there is none for the size it
\* returns NULL and leaves the old one.
ReallocTake(t, a, size) ==
    /\ mode = "segments" /\ moving[t] = Nil
    /\ a \in DOMAIN used \ Moved /\ Fits(size)
    /\ \E b \in Address : /\ Give(size, b)
                          /\ moving' = [moving EXCEPT ![t] =
                                           [from |-> a, to |-> b]]
    /\ UNCHANGED <<mode, systemVars>>

\* Then the copy and the free of the old one.
ReallocFree(t) ==
    /\ mode = "segments" /\ moving[t] # Nil
    /\ Release(moving[t].from)
    /\ moving' = [moving EXCEPT ![t] = Nil]
    /\ UNCHANGED <<mode, systemVars>>

---------------------------------------------------------------------------
(* The same calls before gbmem_startup.                                    *)

\* Memory beyond the limit aborts.
SystemTakes(bytes, slot, size) ==
    /\ cur' = cur + bytes
    /\ IF cur' > MaxSystem
       THEN mode' = "aborted" /\ UNCHANGED system
       ELSE UNCHANGED mode /\ system' = Has(system, slot, size + SystemHeader)

SystemMalloc(slot, size) ==
    /\ mode = "system" /\ slot \notin DOMAIN system
    /\ size <= PoolSize * BlockSize
    /\ SystemTakes(size + SystemHeader, slot, size)
    /\ UNCHANGED <<pieces, moving>>

SystemFree(slot) ==
    /\ mode = "system" /\ slot \in DOMAIN system
    /\ cur' = cur - system[slot] /\ system' = Without(system, slot)
    /\ UNCHANGED <<mode, pieces, moving>>

\* It does not look at max_block.
SystemRealloc(slot, size) ==
    /\ mode = "system" /\ slot \in DOMAIN system
    /\ SystemTakes(size + SystemHeader - system[slot], slot, size)
    /\ UNCHANGED <<pieces, moving>>

Next ==
    \/ Startup
    \/ Shutdown
    \/ \E size \in Sizes : Malloc(size)
    \/ \E size \in Sizes : Abort(size)
    \/ \E a \in DOMAIN used : Free(a)
    \/ \E t \in Threads, a \in DOMAIN used, size \in Sizes :
          ReallocTake(t, a, size)
    \/ \E t \in Threads : ReallocFree(t)
    \/ \E slot \in SystemSlots, size \in Sizes : SystemMalloc(slot, size)
    \/ \E slot \in SystemSlots : SystemFree(slot)
    \/ \E slot \in SystemSlots, size \in Sizes : SystemRealloc(slot, size)

Spec == Init /\ [][Next]_vars

---------------------------------------------------------------------------
(* What the manager reports.                                               *)

\* gbmem_stats: what was asked of the system and is not free.
MemInUse ==
    IF mode = "system" THEN cur
    ELSE (countSb * Chunk) * BlockSize
         - BlockSize * (amtAvail + FoldSet(LAMBDA n, sum : sum + n * Len(pool[n]),
                                           0, 1..PoolSize))

---------------------------------------------------------------------------
(* Types and correctness.                                                  *)

\* What each variable may hold.
TypeOK ==
    /\ mode \in {"system", "segments", "aborted"}
    /\ cur \in Int
    /\ DOMAIN system \subseteq SystemSlots
    /\ \A slot \in DOMAIN system : system[slot] \in Nat
    /\ pool \in [1..PoolSize -> Seq(Address)]
    /\ avail \in Address /\ amtAvail \in 0..Chunk /\ countSb \in 0..MaxSb
    /\ DOMAIN used \subseteq Address
    /\ \A a \in DOMAIN used : used[a] \in [blocks : 1..PoolSize, size : Nat]
    /\ moving \in [Threads -> [from : Address, to : Address] \union {Nil}]

\* Two pieces that share no block.
Apart(a, n, b, m) == \/ a[1] # b[1]
                     \/ a[2] + n <= b[2]
                     \/ b[2] + m <= a[2]

\* The current superblock is the last one, and what is left of it its end.
RestIsEnd == IF countSb = 0 THEN amtAvail = 0
             ELSE avail[1] = countSb /\ avail[2] + amtAvail = Chunk

\* A piece lies in a superblock, and before the rest of the current one.
Inside(a, n) ==
    /\ a[1] <= countSb /\ a[2] + n <= Chunk
    /\ a[1] = countSb => a[2] + n <= avail[2]

AllInside ==
    /\ \A a \in DOMAIN used : Inside(a, used[a].blocks)
    /\ \A n \in 1..PoolSize : \A i \in DOMAIN pool[n] : Inside(pool[n][i], n)

UsedApart == \A a, b \in DOMAIN used :
                a # b => Apart(a, used[a].blocks, b, used[b].blocks)

UsedFreeApart ==
    \A a \in DOMAIN used, n \in 1..PoolSize : \A i \in DOMAIN pool[n] :
        Apart(a, used[a].blocks, pool[n][i], n)

FreeApart ==
    \A n, m \in 1..PoolSize :
        \A i \in DOMAIN pool[n], j \in DOMAIN pool[m] :
            n # m \/ i # j => Apart(pool[n][i], n, pool[m][j], m)

\* A caller can write the bytes it asked for.
Large == \A a \in DOMAIN used :
            used[a].size + Header <= used[a].blocks * BlockSize

\* What is being moved is in use, and nobody else moves it.
MovesApart ==
    /\ \A t \in Threads : moving[t] # Nil =>
          {moving[t].from, moving[t].to} \subseteq DOMAIN used
          /\ moving[t].from # moving[t].to
    /\ \A t, u \in Threads : t # u /\ moving[t] # Nil /\ moving[u] # Nil =>
          {moving[t].from, moving[t].to} \intersect
          {moving[u].from, moving[u].to} = {}

\* No block belongs to two pieces, in use or free, whatever sequence of
\* gbmem_malloc, gbmem_free and gbmem_realloc, of several threads, new
\* superblocks and larger pieces given for a small size came before; and every
\* piece in use has room for its size.
MemoryIsOwn == /\ RestIsEnd /\ AllInside
               /\ UsedApart /\ UsedFreeApart /\ FreeApart
               /\ Large /\ MovesApart

InPiece(block, a, n) ==
    block[1] = a[1] /\ a[2] <= block[2] /\ block[2] < a[2] + n

\* No block is lost: each one of the superblocks asked of the system is in a
\* piece in use, in a list of free pieces, or in the rest of the current one.
NothingLeaks ==
    \A block \in (1..countSb) \X (0..(Chunk - 1)) :
        \/ InPiece(block, avail, amtAvail)
        \/ \E a \in DOMAIN used : InPiece(block, a, used[a].blocks)
        \/ \E n \in 1..PoolSize : \E i \in DOMAIN pool[n] :
              InPiece(block, pool[n][i], n)
=============================================================================
