---------------------------- MODULE ByteStream ----------------------------
(***************************************************************************)
(* What a gbuffer promises: the bytes that it took, in their order, read   *)
(* once from a place that moves forward or is put back, wherever they are  *)
(* kept.                                                                   *)
(***************************************************************************)
EXTENDS Integers, Sequences, SequencesExt

CONSTANTS
    Streams,
    Byte,
    Code(_),        \* what a byte becomes in base64
    Given(_),       \* the byte that a caller puts at a place
    FileBytes,      \* the bytes of a file
    None            \* no stream

VARIABLES
    held,           \* stream -> the bytes it took, or None
    rd,             \* stream -> how many of them were read
    answer          \* the bytes that the last read gave

vars == <<held, rd, answer>>

Init ==
    /\ held = [s \in Streams |-> None]
    /\ rd = [s \in Streams |-> 0]
    /\ answer = <<>>

Rest(s) == SubSeq(held[s], rd[s] + 1, Len(held[s]))

\* A part of some bytes that the stream has room for: all of them as a rule.
Grow(s, bytes) == \E k \in 0 .. Len(bytes) : held' = [held EXCEPT ![s] = @ \o SubSeq(bytes, 1, k)]

\* The next bytes, as many as there is room for.
Put(s) ==
    /\ IsPrefix(held[s], held'[s])
    /\ \A i \in Len(held[s]) + 1 .. Len(held'[s]) : held'[s][i] = Given(i)
    /\ \A t \in Streams \ {s} : held'[t] = held[t]
    /\ UNCHANGED <<rd, answer>>

Take(s) == \E k \in 1 .. Len(Rest(s)) :
    /\ answer' = SubSeq(Rest(s), 1, k)
    /\ rd' = [rd EXCEPT ![s] = @ + k]
    /\ UNCHANGED held

\* A line is given without its separator, which becomes a zero.
TakeLine(s) == \E k \in 1 .. Len(Rest(s)) :
    /\ answer' = SubSeq(Rest(s), 1, k - 1)
    /\ rd' = [rd EXCEPT ![s] = @ + k]
    /\ held' = [held EXCEPT ![s][rd[s] + k] = 0]

GoTo(s) == \E k \in 0 .. Len(held[s]) :
    /\ rd' = [rd EXCEPT ![s] = k]
    /\ UNCHANGED <<held, answer>>

UnTake(s) == \E c \in Byte :
    /\ rd[s] > 0
    /\ rd' = [rd EXCEPT ![s] = @ - 1]
    /\ held' = [held EXCEPT ![s][rd[s]] = c]
    /\ UNCHANGED answer

Clear(s) ==
    /\ held' = [held EXCEPT ![s] = <<>>]
    /\ rd' = [rd EXCEPT ![s] = 0]
    /\ UNCHANGED answer

\* What was not read of one stream goes to the end of another one, as far as
\* there is room.
Move(d, s) ==
    /\ d # s
    /\ Grow(d, Rest(s))
    /\ \E k \in 0 .. Len(Rest(s)) : rd' = [rd EXCEPT ![s] = @ + k]
    /\ UNCHANGED answer

\* A stream of what was not read of another one, as it is, coded or decoded,
\* which is freed or not.
Derived(f(_), s) == [i \in DOMAIN Rest(s) |-> f(Rest(s)[i])]

Derive(d, s) == \E keep \in BOOLEAN :
    /\ d # s /\ held[d] = None /\ held[s] # None
    /\ \E h \in {Rest(s), Derived(Code, s)}
                \cup {t \in {held'[d]} : t # None /\ [i \in DOMAIN t |-> Code(t[i])] = Rest(s)} :
           held' = [held EXCEPT ![d] = h, ![s] = IF keep THEN @ ELSE None]
    /\ rd' = [rd EXCEPT ![d] = 0, ![s] = IF keep THEN @ ELSE 0]
    /\ UNCHANGED answer

\* Everything that was not read goes to a file or a parser, and the stream ends,
\* unless others hold it.
Drain(s) == \E keep \in BOOLEAN :
    /\ answer' = Rest(s)
    /\ held' = [held EXCEPT ![s] = IF keep THEN @ ELSE None]
    /\ rd' = [rd EXCEPT ![s] = IF keep THEN Len(held[s]) ELSE 0]

Make(s) == \E h \in {<<>>, FileBytes, [i \in DOMAIN FileBytes |-> Code(FileBytes[i])]} :
    /\ held[s] = None
    /\ held' = [held EXCEPT ![s] = h]
    /\ UNCHANGED <<rd, answer>>

End(s) ==
    /\ held' = [held EXCEPT ![s] = None]
    /\ rd' = [rd EXCEPT ![s] = 0]
    /\ UNCHANGED answer

Next ==
    \/ \E s \in Streams : \/ Make(s)
                          \/ held[s] # None /\ \/ Put(s) \/ Take(s) \/ TakeLine(s) \/ GoTo(s)
                                               \/ UnTake(s) \/ Clear(s) \/ Drain(s) \/ End(s)
    \/ \E d, s \in Streams : held[d] # None /\ held[s] # None /\ Move(d, s)
    \/ \E d, s \in Streams : Derive(d, s)

Spec == Init /\ [][Next]_vars

=============================================================================
