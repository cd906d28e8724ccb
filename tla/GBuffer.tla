------------------------------ MODULE GBuffer ------------------------------
(***************************************************************************)
(* 20_gbuffer.c: buffers that grow in memory up to a limit and then, if    *)
(* they may, go on in a temporary file, where the memory is only a window  *)
(* to read through.  A gbuffer has a write place (tail) and a read place   *)
(* (curp); the stream of the file has one place for both, which            *)
(* _set_writting moves.  The calls of one thread are modelled, with every  *)
(* state they leave a gbuffer in.                                          *)
(*                                                                         *)
(* Byte k is the k-th byte that is put in a gbuffer after it is cleared,   *)
(* so that a byte out of its place is seen; 0 is the final null.  The      *)
(* base64 of byte k is Coded + k: the length it takes is left out.  Lines, *)
(* searches, strings and base64 are of a gbuffer in memory: the code reads *)
(* them from the window, whatever a file holds.                            *)
(***************************************************************************)
EXTENDS Integers, Sequences, FiniteSets, SequencesExt, FiniteSetsExt

CONSTANTS
    Bufs,
    Sizes,          \* data_size, max_memory_size and max_disk_size of gbuf_create
    Breaks,         \* the bytes that are line separators
    Nuls,           \* the bytes that are null
    MaxPut,         \* bytes put by one call, at most, and calls of a behaviour:
    MaxCalls,       \* the bounds of the model
    Liberties       \* what callers do beyond what the code can serve:
                    \*   "printf_disk"   a printf that does not fit in memory and
                    \*                   may go on in a file
                    \*   "printf_full"   a printf that doubles a full buffer to the
                    \*                   exact size
                    \*   "printf_fail"   a printf that does not fit at all
                    \*   "get_beyond"    a get of more than there is, in a file
                    \*   "rd_file"       gbuf_set_rd_offset, gbuf_ungetc in a file
                    \*   "wr_file"       gbuf_set_wr in a file
                    \*   "binary"        null bytes in what is read as a string

Coded == 100
None == <<-1>>

ASSUME GBufferAssumption ==
    /\ Sizes \subseteq {<<s, m, d>> \in Nat \X Nat \X Nat : s <= m}
    /\ {MaxPut, MaxCalls} \subseteq Nat /\ (Breaks \cup Nuls) \subseteq 1 .. Coded - 1

VARIABLES
    gb,             \* the gbuffers
    answer,         \* the bytes that the last read gave to the caller
    calls

vars == <<gb, answer, calls>>

\* data has data_size + 1 cells; place is that of the file.  file_mode is on when
\* mode is "file".
NoBuf == [refs |-> 0, data |-> <<>>, size |-> 0, memory |-> 0, disk |-> 0, mode |-> "memory",
          file |-> <<>>, place |-> 0, writting |-> FALSE, tail |-> 0, curp |-> 0]

Live(b) == gb[b].refs > 0
Allowed(l, harm) == harm => l \in Liberties

-----------------------------------------------------------------------------
(* Bytes *)

Min2(m, n) == IF m < n THEN m ELSE n
Max2(m, n) == IF m > n THEN m ELSE n

Zeros(n) == [i \in 1 .. n |-> 0]

\* The bytes of bf written from a place on; what falls beyond the cells is lost.
Over(cells, at, bf) ==
    [i \in DOMAIN cells |-> IF at < i /\ i <= at + Len(bf) THEN bf[i - at] ELSE cells[i]]

\* The bytes of bf written in a file, which grows.
Fwrite(file, at, bf) == Over(file \o Zeros(Max2(0, at + Len(bf) - Len(file))), at, bf)

\* The n bytes that a caller puts next, and their text.
ByteOf(k) == IF k \in Nuls THEN 0 ELSE k
Fresh(g, n) == [i \in 1 .. n |-> ByteOf(g.tail + i)]

\* A string that begins at a place, up to its null.
TextAt(cells, at) ==
    LET nulls == {i \in DOMAIN cells : i > at /\ cells[i] = 0}
    IN  SubSeq(cells, at + 1, IF nulls = {} THEN Len(cells) ELSE Min(nulls) - 1)

\* gbuf_leftbytes, gbuf_chunk, gbuf_freebytes
Left(g) == g.tail - g.curp
Chunk(g) == Min2(g.size, Left(g))
Free(g) == (IF g.mode = "file" THEN g.disk ELSE g.size) - g.tail

-----------------------------------------------------------------------------
(* The file and the memory *)

\* Mutant: the place is left where the last read was.
BugSetWritting(g, set) == [g EXCEPT !.writting = set, !.place = IF set THEN @ ELSE g.curp]

\* _set_writting: to the end of the file to write, to curp to read, when it changes.
SetWritting(g, set) ==
    IF g.writting = set THEN g
    ELSE [g EXCEPT !.writting = set, !.place = IF set THEN Len(g.file) ELSE g.curp]

\* _gbuf_realloc: TRUE and the gbuffer with more room, or FALSE.
Realloc(g, need) ==
    LET more == g.size + Max2(g.size, need) IN
    IF g.mode = "file" THEN [ok |-> TRUE, g |-> g]
    ELSE IF more <= g.memory
    THEN [ok |-> TRUE, g |-> [g EXCEPT !.size = more, !.data = @ \o Zeros(more - g.size)]]
    ELSE IF g.disk < g.memory \/ more > g.disk THEN [ok |-> FALSE, g |-> g]
    ELSE [ok |-> TRUE,
          g  |-> SetWritting([g EXCEPT !.mode = "file", !.file = SubSeq(g.data, 1, g.tail)], TRUE)]

\* gbuf_append: what it took, at most all of bf, and the gbuffer.
Appended(g0, bf) ==
    LET g  == IF Free(g0) < Len(bf) THEN Realloc(g0, Len(bf)).g ELSE g0
        n  == Min2(Len(bf), Free(g))
        bs == SubSeq(bf, 1, n)
        w  == SetWritting(g, TRUE)
    IN  [n |-> n,
         g |-> IF n <= 0 THEN g
               ELSE IF g.mode = "memory"
               THEN [g EXCEPT !.data = Over(@, g.tail, bs \o <<0>>), !.tail = @ + n]
               ELSE [w EXCEPT !.file = Fwrite(@, w.place, bs), !.place = @ + n, !.tail = @ + n]]

\* gbuf_get: the bytes, none when it returns NULL, and the gbuffer.  A short fread
\* moves the file, not curp.
Got(g, n) ==
    LET r  == SetWritting(g, FALSE)
        bs == SubSeq(r.file, r.place + 1, Min2(Len(r.file), r.place + n))
    IN  IF g.mode = "memory"
        THEN IF n > Left(g) THEN [bytes |-> <<>>, g |-> g]
             ELSE [bytes |-> SubSeq(g.data, g.curp + 1, g.curp + n), g |-> [g EXCEPT !.curp = @ + n]]
        ELSE IF n > g.size THEN [bytes |-> <<>>, g |-> r]
        ELSE [bytes |-> IF Len(bs) < n THEN <<>> ELSE bs,
              g |-> [r EXCEPT !.data = Over(@, 0, bs), !.place = @ + Len(bs),
                              !.curp = IF Len(bs) < n THEN @ ELSE @ + n]]

-----------------------------------------------------------------------------
(* Life *)

\* gbuf_create
New(s) == [NoBuf EXCEPT !.refs = 1, !.size = s[1], !.memory = s[2], !.disk = s[3],
                        !.data = Zeros(s[1] + 1)]

Create(b) == \E s \in Sizes :
    /\ ~Live(b)
    /\ gb' = [gb EXCEPT ![b] = New(s)]
    /\ UNCHANGED answer

Incref(b) ==
    /\ Live(b) /\ gb[b].refs < 2
    /\ gb' = [gb EXCEPT ![b].refs = @ + 1]
    /\ UNCHANGED answer

\* gbuf_decref and gbuf_remove: the file goes with the last reference.
Released(g) == IF g.refs = 1 THEN NoBuf ELSE [g EXCEPT !.refs = @ - 1]

Decref(b) ==
    /\ Live(b)
    /\ gb' = [gb EXCEPT ![b] = Released(@)]
    /\ UNCHANGED answer

-----------------------------------------------------------------------------
(* Writing *)

Step(b, g) == gb' = [gb EXCEPT ![b] = g]

\* gbuf_append, gbuf_append_string, gbuf_append_char; json_append2gbuf and json2gbuf
\* put a text this way.
Put(b) == \E n \in 1 .. MaxPut :
    /\ Live(b)
    /\ Step(b, Appended(gb[b], Fresh(gb[b], n)).g)
    /\ UNCHANGED answer

\* vsnprintf in the room that is left: it keeps one cell for its null.
Vsnprintf(g, text) ==
    IF Free(g) <= 0 THEN g
    ELSE [g EXCEPT !.data = Over(@, g.tail, SubSeq(text, 1, Min2(Len(text), Free(g) - 1)) \o <<0>>)]

\* gbuf_printf, gbuf_vprintf
Printed(g, text) ==
    LET n == Len(text)
        r == Realloc(Vsnprintf(g, text), n)
        v == Vsnprintf(r.g, text)
        w == SetWritting(g, TRUE)
    IN  IF g.mode = "file"
        THEN [w EXCEPT !.file = Fwrite(@, w.place, text), !.place = @ + n, !.tail = @ + n]
        ELSE IF n < Free(g) THEN [Vsnprintf(g, text) EXCEPT !.tail = @ + n]
        ELSE IF ~r.ok THEN r.g
        ELSE [v EXCEPT !.tail = @ + Min2(n, Free(r.g))]

Printf(b) == \E n \in 1 .. MaxPut :
    LET g == gb[b]  r == Realloc(g, n) IN
    /\ Live(b)
    /\ \A i \in 1 .. n : ByteOf(g.tail + i) # 0
    /\ g.mode = "memory" /\ n >= Free(g) =>
        /\ Allowed("printf_fail", ~r.ok)
        /\ Allowed("printf_disk", r.ok /\ r.g.mode = "file")
        /\ Allowed("printf_full", r.ok /\ r.g.mode = "memory" /\ n >= Free(r.g))
    /\ Step(b, Printed(g, Fresh(g, n)))
    /\ UNCHANGED answer

\* A caller that writes at gbuf_cur_wr_pointer, and then gbuf_set_wr.
WriteThere(b) == \E n \in 1 .. MaxPut :
    LET g == gb[b] IN
    /\ Live(b) /\ n <= g.size - g.tail
    /\ Allowed("wr_file", g.mode = "file")
    /\ Step(b, [g EXCEPT !.data = Over(@, g.tail, Fresh(g, n) \o <<0>>), !.tail = @ + n])
    /\ UNCHANGED answer

-----------------------------------------------------------------------------
(* Reading *)

\* gbuf_get, gbuf_getchar
Get(b) == \E n \in 1 .. MaxPut + 1 :
    LET r == Got(gb[b], n) IN
    /\ Live(b)
    /\ Allowed("get_beyond", gb[b].mode = "file" /\ n > Left(gb[b]) /\ n <= gb[b].size)
    /\ Step(b, r.g)
    /\ answer' = IF r.bytes = <<>> THEN answer ELSE r.bytes

\* gbuf_getline: a get of each byte, up to a separator, which becomes the null of the
\* string, or to the end.
GetLine(b) ==
    LET g    == gb[b]
        seps == {i \in g.curp + 1 .. g.tail : g.data[i] \in Breaks}
        end  == IF seps = {} THEN g.tail ELSE Min(seps)
        cut  == IF seps = {} THEN g.data ELSE [g.data EXCEPT ![end] = 0]
    IN  /\ Live(b) /\ Left(g) > 0
        /\ g.mode = "memory"
        /\ Allowed("binary", \E i \in g.curp + 1 .. g.tail : g.data[i] = 0)
        /\ Step(b, [g EXCEPT !.data = cut, !.curp = end])
        /\ answer' = TextAt(cut, g.curp)

\* gbuf_find: to the first place of a pattern, of more than one byte; of one byte it
\* gives the place and does not move.
Find(b) == \E n \in 1 .. 2, p \in 1 .. MaxPut :
    LET g      == gb[b]
        found  == {i \in g.curp .. g.tail - n : SubSeq(g.data, i + 1, i + n) = [j \in 1 .. n |-> ByteOf(p + j - 1)]}
    IN  /\ Live(b) /\ g.mode = "memory" /\ found # {}
        /\ Step(b, [g EXCEPT !.curp = IF n = 1 THEN @ ELSE Min(found)])
        /\ UNCHANGED answer

\* gbuf_reset_rd
ResetRd(b) ==
    LET g == [gb[b] EXCEPT !.curp = 0] IN
    /\ Live(b)
    /\ Step(b, IF g.mode = "file" THEN SetWritting([g EXCEPT !.writting = TRUE], FALSE) ELSE g)
    /\ UNCHANGED answer

\* gbuf_set_rd_offset: it does not move the file.
SetRdOffset(b) == \E k \in 0 .. gb[b].tail :
    /\ Live(b) /\ k < gb[b].size
    /\ Allowed("rd_file", gb[b].mode = "file")
    /\ Step(b, [gb[b] EXCEPT !.curp = k])
    /\ UNCHANGED answer

\* gbuf_ungetc, of the byte that was read or another one.
Ungetc(b) == \E c \in {ByteOf(gb[b].curp), Coded - 1} :
    LET g == gb[b] IN
    /\ Live(b) /\ g.curp > 0
    /\ Allowed("rd_file", g.mode = "file")
    /\ Step(b, [g EXCEPT !.curp = @ - 1, !.data = Over(@, g.curp - 1, <<c>>)])
    /\ UNCHANGED answer

-----------------------------------------------------------------------------
(* Both ends *)

\* gbuf_reset_wr, with a new file when there is one.
Emptied(g) ==
    LET e == [g EXCEPT !.tail = 0, !.curp = 0, !.data = Over(@, 0, <<0>>)] IN
    IF g.mode = "file" THEN SetWritting([e EXCEPT !.file = <<>>, !.writting = FALSE], TRUE) ELSE e

ResetWr(b) == Live(b) /\ Step(b, Emptied(gb[b])) /\ UNCHANGED answer

\* gbuf_clear: gbuf_reset_wr and gbuf_reset_rd.
Clear(b) ==
    LET e == Emptied(gb[b]) IN
    /\ Live(b)
    /\ Step(b, IF e.mode = "file" THEN SetWritting(e, FALSE) ELSE e)
    /\ UNCHANGED answer

RECURSIVE Moved(_, _)
\* gbuf_append_gbuf: chunk after chunk, until one cannot be read or put whole.
Moved(d, s) ==
    LET r == Got(s, Chunk(s))
        a == Appended(d, r.bytes)
    IN  IF Chunk(s) <= 0 THEN [d |-> d, s |-> s]
        ELSE IF r.bytes = <<>> THEN [d |-> d, s |-> r.g]
        ELSE IF a.n # Len(r.bytes) THEN [d |-> a.g, s |-> r.g]
        ELSE Moved(a.g, r.g)

AppendGbuf(d, s) ==
    LET m == Moved(gb[d], gb[s]) IN
    /\ d # s /\ Live(d) /\ Live(s)
    /\ gb' = [gb EXCEPT ![d] = m.d, ![s] = m.s]
    /\ UNCHANGED answer

\* What the callbacks of gbuf2file and gbuf2json read of a gbuffer.
RECURSIVE Drained(_, _)
Drained(g, bytes) ==
    LET r == Got(g, Chunk(g)) IN
    IF Chunk(g) <= 0 \/ r.bytes = <<>> THEN [bytes |-> bytes, g |-> g]
    ELSE Drained(r.g, bytes \o r.bytes)

\* gbuf2file, and gbuf2json of a good text: they own the gbuffer.
Drain(b) ==
    LET r == Drained(gb[b], <<>>) IN
    /\ Live(b)
    /\ Step(b, Released(r.g))
    /\ answer' = r.bytes

-----------------------------------------------------------------------------
(* Other forms *)

\* A new gbuffer as long as its bytes, which a caller writes and gbuf_set_wr counts.
Made(bytes) == [New(<<Len(bytes), Len(bytes), 0>>) EXCEPT !.data = bytes \o <<0>>, !.tail = Len(bytes)]

CodeOf(k) == Coded + k
Encode(bytes) == [i \in DOMAIN bytes |-> CodeOf(bytes[i])]
Decode(bytes) == [i \in DOMAIN bytes |-> bytes[i] - Coded]
IsCoded(bytes) == \A i \in DOMAIN bytes : bytes[i] >= Coded

\* What of a gbuffer in memory was not read.
Unread(g) == SubSeq(g.data, g.curp + 1, g.tail)

\* gbuf_encodebase64, gbuf_string2base64
EncodeBase64(d, s) ==
    /\ d # s /\ ~Live(d) /\ Live(s) /\ gb[s].mode = "memory"
    /\ \A i \in DOMAIN Unread(gb[s]) : Unread(gb[s])[i] < Coded
    /\ gb' = [gb EXCEPT ![d] = Made(Encode(Unread(gb[s]))), ![s] = Released(@)]
    /\ UNCHANGED answer

\* gbuf_decodebase64, of the string at curp; there is none of what is not base64.
DecodeBase64(d, s) ==
    LET text == TextAt(gb[s].data, gb[s].curp) IN
    /\ d # s /\ ~Live(d) /\ Live(s) /\ gb[s].mode = "memory"
    /\ Allowed("binary", \E i \in DOMAIN Unread(gb[s]) : Unread(gb[s])[i] = 0)
    /\ gb' = [gb EXCEPT ![d] = IF IsCoded(text) THEN Made(Decode(text)) ELSE @, ![s] = Released(@)]
    /\ UNCHANGED answer

\* gbuf_serialize and gbuf_deserialize, whose bytes end at the first null.
Copy(d, s) ==
    LET text == TextAt(Unread(gb[s]) \o <<0>>, 0) IN
    /\ d # s /\ ~Live(d) /\ Live(s) /\ gb[s].mode = "memory"
    /\ Allowed("binary", Len(text) < Left(gb[s]))
    /\ gb' = [gb EXCEPT ![d] = IF text = <<>> THEN New(<<1, 1, 0>>)
                               ELSE Appended(New(<<Len(text), Len(text), 0>>), text).g]
    /\ UNCHANGED answer

\* A file of three bytes, and the pieces of it that read gives.
FileBytes == <<1, 2, 3>>
Pieces == <<<<1, 2>>, <<3>>>>

\* gbuf_load_file, gbuf_file2base64
LoadFile(b) ==
    /\ ~Live(b)
    /\ \/ Step(b, FoldLeft(LAMBDA g, p : Appended(g, p).g, New(<<3, 3, 0>>), Pieces))
       \/ Step(b, Made(Encode(FileBytes)))
    /\ UNCHANGED answer

-----------------------------------------------------------------------------

Init == gb = [b \in Bufs |-> NoBuf] /\ answer = <<>> /\ calls = 0

Call ==
    \/ \E b \in Bufs : \/ Create(b) \/ Incref(b) \/ Decref(b) \/ LoadFile(b)
                       \/ Put(b) \/ Printf(b) \/ WriteThere(b)
                       \/ Get(b) \/ GetLine(b) \/ Find(b)
                       \/ ResetRd(b) \/ SetRdOffset(b) \/ Ungetc(b)
                       \/ ResetWr(b) \/ Clear(b) \/ Drain(b)
    \/ \E d, s \in Bufs : \/ AppendGbuf(d, s)
                          \/ EncodeBase64(d, s) \/ DecodeBase64(d, s) \/ Copy(d, s)

Next == calls < MaxCalls /\ calls' = calls + 1 /\ Call

Spec == Init /\ [][Next]_vars

-----------------------------------------------------------------------------
(* Properties *)

\* The bytes of a gbuffer, in memory or in its file: none when the file has other
\* bytes than tail counts.
Content(g) ==
    IF g.mode = "memory" THEN SubSeq(g.data, 1, g.tail)
    ELSE IF Len(g.file) = g.tail THEN g.file ELSE <<-2>>

Stream == INSTANCE ByteStream WITH
    Streams <- Bufs, Byte <- 0 .. Coded, Code <- CodeOf, Given <- ByteOf,
    held <- [b \in Bufs |-> IF Live(b) THEN Content(gb[b]) ELSE None],
    rd <- [b \in Bufs |-> gb[b].curp]

\* A gbuffer is a stream of bytes: appends and reads in any order, the growth of the
\* memory, its passage to a file and the readings through its window lose, repeat
\* and disorder no byte, and so the copies, the base64 and the lines of it.
StreamSpec == Stream!Spec

=============================================================================
