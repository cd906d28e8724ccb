------------------------------ MODULE Logger ------------------------------
(***************************************************************************)
(* 10_glogger.c: messages with a priority go to the handlers that take it, *)
(* one handler behind the other.  The write function of a handler is a     *)
(* call out: it may log, and add and delete other handlers; it may not     *)
(* delete its own one, which the walk reads again, nor end the log.  What  *)
(* is logged meanwhile goes to no handler.  One thread.                    *)
(***************************************************************************)
EXTENDS Integers, Sequences, FiniteSets, SequencesExt

CONSTANTS
    Names,          \* names of handlers: two handlers may have the same
    Priorities,     \* of the messages: a bound of the model
    Takes,          \* the priorities of a handler, as its options give them
    MaxHandlers,    \* handlers added in a behaviour, at most, and messages:
    MaxMessages     \* bounds of the model

VARIABLES
    started,        \* __initialized__
    handlers,       \* dl_clients: id, name and options of each
    inside,         \* __inside__
    walk,           \* the call whose message is being written, the handler that
                    \* has it, and the messages that are still to be written
    count,          \* __alert_count__ and those of the other priorities
    last,           \* last_message
    told,           \* the last call of __inform_cb__: priority and count
    born,           \* handlers added so far, and messages logged
    logged,
    given           \* the handlers that the message being written, or the last one,
                    \* was given to, and whether the last of them owns it

gvars == <<started, handlers, inside, walk, count, last, told, born, logged, given>>

Counted == {"alert", "critical", "error", "warning", "info", "debug"}

\* The functions that log: the priority of their messages, the counter that they
\* increment, the one they inform with, and how they walk over the handlers.
\*   "json"   _log_jnbf, with its hgen        "bf"   _log_bf
\*   "dump"   every handler, whatever write_fn answers
\* A function that dumps does not inform when a walk is on, and does not count when
\* the log is not started.
Fn(p, bump, by, how) == [pri |-> p, bump |-> bump, by |-> by, how |-> how]
AllFunctions == {Fn(p, {p}, {p}, "json") : p \in Counted \ {"debug"}}
    \cup {Fn("debug", {"info"}, {"info"}, "json"),      \* log_debug
          Fn("monitor", {}, {}, "json"),                \* log_monitor
          Fn("info", {}, {"debug"}, "bf"),              \* info_msg, info_msg0
          Fn("debug", {}, {"debug"}, "bf"),             \* trace_msg, log_debug_printf
          Fn("debug", {"debug"}, {"debug"}, "bf twice"),    \* log_debug_bf, whose header
          Fn("debug", {"debug"}, {"debug"}, "bf thrice"),   \* goes twice with a format
          Fn("debug", {}, {"debug"}, "hex"),            \* trace_hex_msg
          Fn("debug", {"debug"}, {"debug"}, "dump")}    \* log_debug_dump, vdump and json
Functions == {f \in AllFunctions : f.pri \in Priorities}

Times(f) == CASE f.how = "bf twice" -> 2 [] f.how = "bf thrice" -> 3 [] OTHER -> 1
Dumps(f) == f.how \in {"hex", "dump"}

Idle == [fn |-> Fn("", {}, {}, ""), at |-> 0, more |-> 0, exit |-> FALSE]
NotGiven == [to |-> <<>>, owned |-> FALSE]

LoggerInit ==
    /\ started = FALSE /\ handlers = <<>> /\ inside = FALSE
    /\ walk = Idle
    /\ count = [p \in Counted |-> 0] /\ last = 0 /\ told = <<>>
    /\ born = 0 /\ logged = 0 /\ given = NotGiven

-----------------------------------------------------------------------------
(* The handlers *)

LogStartup ==
    /\ ~started /\ started' = TRUE
    /\ UNCHANGED <<handlers, inside, walk, count, last, told, born, logged, given>>

\* log_end deletes every handler.  It is called at exit too.
LogEnd ==
    /\ started /\ ~inside
    /\ started' = FALSE /\ handlers' = <<>>
    /\ UNCHANGED <<inside, walk, count, last, told, born, logged, given>>

\* Mutant: a handler is added at the beginning of the list.
BugAddHandler == \E n \in Names, t \in Takes :
    /\ started /\ born < MaxHandlers
    /\ born' = born + 1
    /\ handlers' = <<[id |-> born', name |-> n, takes |-> t]>> \o handlers
    /\ UNCHANGED <<started, inside, walk, count, last, told, logged, given>>

\* log_add_handler, at the end of the list.
AddHandler == \E n \in Names, t \in Takes :
    /\ started /\ born < MaxHandlers
    /\ born' = born + 1
    /\ handlers' = Append(handlers, [id |-> born', name |-> n, takes |-> t])
    /\ UNCHANGED <<started, inside, walk, count, last, told, logged, given>>

\* The handlers of a name, and the list without them.
Named(name) == {i \in DOMAIN handlers : handlers[i].name = name}
Unnamed(name) ==
    LET left  == DOMAIN handlers \ Named(name)
        At(k) == CHOOSE i \in left : Cardinality({j \in left : j < i}) = k - 1
    IN  [k \in 1 .. Cardinality(left) |-> handlers[At(k)]]

\* log_del_handler: every handler of a name.
DelHandler == \E n \in Names :
    /\ Named(n) # {}
    /\ inside => \A i \in Named(n) : handlers[i].id # walk.at
    /\ handlers' = Unnamed(n)
    /\ UNCHANGED <<started, inside, walk, count, last, told, born, logged, given>>

-----------------------------------------------------------------------------
(* A message *)

\* must_ignore, and the handlers that have no function for the message are none.
Ignores(h, p) == p \notin h.takes

\* The first handler behind one, or of all, that takes a priority; 0 when there is none.
NextTaker(p, id) ==
    LET passed == {i \in DOMAIN handlers : \E j \in i .. Len(handlers) : handlers[j].id = id}
        takers == {i \in DOMAIN handlers \ passed : ~Ignores(handlers[i], p)}
    IN  IF takers = {} THEN 0 ELSE handlers[CHOOSE i \in takers : \A j \in takers : i <= j].id

\* __inform_cb__, after the walk.
Inform(f) == told' = IF f.by = {} THEN told ELSE <<f.pri, [p \in f.by |-> count'[p]]>>

Bump(f) == count' = [p \in Counted |-> count[p] + IF p \in f.bump THEN 1 ELSE 0]

\* log_error and the others, when no handler has a message.  A call with
\* LOG_OPT_EXIT_NEGATIVE or LOG_OPT_EXIT_ZERO ends the process.
Log == \E f \in Functions, exit \in BOOLEAN :
    LET first == NextTaker(f.pri, 0) IN
    /\ ~inside /\ logged < MaxMessages
    /\ exit => started /\ f.how = "json"      \* log_debug_bf with these options is left out
    /\ IF Dumps(f) /\ ~started THEN UNCHANGED count ELSE Bump(f)
    /\ logged' = logged + 1
    /\ given' = NotGiven
    /\ IF started /\ first # 0
       THEN /\ inside' = TRUE
            /\ walk' = [fn |-> f, at |-> first, more |-> Times(f) - 1, exit |-> exit]
            /\ last' = IF f.how = "json" THEN logged' ELSE last
            /\ UNCHANGED <<told, handlers, started>>
       ELSE /\ UNCHANGED <<inside, walk, last>>
            /\ IF exit THEN started' = FALSE /\ handlers' = <<>> /\ UNCHANGED told
               ELSE /\ UNCHANGED <<started, handlers>>
                    /\ IF Dumps(f) /\ ~started THEN UNCHANGED told ELSE Inform(f)
    /\ UNCHANGED born

\* The same in a write function: the message goes nowhere.
LogWithin == \E f \in Functions :
    /\ inside /\ logged < MaxMessages
    /\ Bump(f)
    /\ logged' = logged + 1
    /\ IF Dumps(f) THEN UNCHANGED told ELSE Inform(f)
    /\ UNCHANGED <<started, handlers, inside, walk, last, born, given>>

\* write_fn returns.  When it is less than 0 the handler owns the message, or could
\* not write it, and those behind do not get it, unless it is a dump.
Return == \E owned \in BOOLEAN :
    LET f    == walk.fn
        next == IF owned /\ ~Dumps(f) THEN 0 ELSE NextTaker(f.pri, walk.at)
        again == IF next = 0 /\ walk.more > 0 THEN NextTaker(f.pri, 0) ELSE 0
    IN  /\ inside
        /\ given' = [to |-> Append(given.to, walk.at), owned |-> owned /\ ~Dumps(f)]
        /\ UNCHANGED <<count, born, logged, last>>
        /\ IF next # 0
           THEN walk' = [walk EXCEPT !.at = next] /\ UNCHANGED <<started, handlers, inside, told>>
           ELSE IF again # 0
           THEN /\ walk' = [walk EXCEPT !.at = again, !.more = @ - 1]
                /\ UNCHANGED <<started, handlers, inside, told>>
           ELSE /\ inside' = FALSE /\ walk' = Idle
                /\ IF walk.exit
                   THEN started' = FALSE /\ handlers' = <<>> /\ UNCHANGED told
                   ELSE UNCHANGED <<started, handlers>> /\ Inform(f)

\* log_clear_counters
ClearCounters ==
    /\ \E p \in Counted : count[p] # 0
    /\ count' = [p \in Counted |-> 0]
    /\ UNCHANGED <<started, handlers, inside, walk, last, told, born, logged, given>>

LoggerNext ==
    \/ LogStartup \/ LogEnd \/ AddHandler \/ DelHandler
    \/ Log \/ LogWithin \/ Return \/ ClearCounters

LoggerSpec == LoggerInit /\ [][LoggerNext]_gvars

-----------------------------------------------------------------------------

\* The handlers that a message should have been given to when its walk ends.
Due(p) == {handlers[i].id : i \in {j \in DOMAIN handlers : p \in handlers[j].takes}}

\* 10_glogger.c: when a message has been written, each handler that takes its priority and is
\* still there got it, once and in the order in which they were added, even when
\* write functions added and deleted others, unless one of them owned it.
Delivered == [][
    inside /\ ~inside' /\ walk.more = 0 /\ Times(walk.fn) = 1 =>
        /\ \A i, j \in DOMAIN given'.to : i < j => given'.to[i] < given'.to[j]
        /\ given'.owned \/ Due(walk.fn.pri) \subseteq ToSet(given'.to)]_gvars

=============================================================================
