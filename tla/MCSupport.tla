----------------------------- MODULE MCSupport -----------------------------
(***************************************************************************)
(* The libraries under the database: a behaviour is of the gbuffers, of    *)
(* the stream parsers, of a rotatory log, of the logger or of the           *)
(* statistics of a variable.                                               *)
(***************************************************************************)
EXTENDS GBuffer, Rotatory, Logger, TLC

CONSTANTS buf1, buf2,
    Marks, MaxRead,
    Metrics, Upgrades, StatValues, NoVar, MaxTime, MaxGap, MaxAdds

VARIABLES
    lists, read, begin, indent, text, cuts,
    version, variable, partial, stored, opened, rewound, lost,
    library         \* the one that is used

J == INSTANCE JsonStream
T == INSTANCE Stats

svars == <<lists, read, begin, indent, text, cuts>>
tvars == <<version, variable, partial, stored, opened, rewound, lost>>

MCInit ==
    /\ Init /\ J!StreamInit /\ LogInit /\ LoggerInit /\ T!StatsInit
    /\ library \in {"gbuffer", "json_stream", "rotatory", "glogger", "stats"}

MCNext ==
    /\ UNCHANGED library
    /\ \/ library = "gbuffer" /\ Next /\ UNCHANGED <<svars, lvars, gvars, tvars>>
       \/ library = "json_stream" /\ J!StreamNext /\ UNCHANGED <<vars, lvars, gvars, tvars>>
       \/ library = "rotatory" /\ LogNext /\ UNCHANGED <<vars, svars, gvars, tvars>>
       \/ library = "glogger" /\ LoggerNext /\ UNCHANGED <<vars, svars, lvars, tvars>>
       \/ library = "stats" /\ T!StatsNext /\ UNCHANGED <<vars, svars, lvars, gvars>>

MCSpec == MCInit /\ [][MCNext]_<<vars, svars, lvars, gvars, tvars, library>>

MCBufs == {buf1, buf2}

\* Buffers of two bytes that grow to four, and then to a file of seven or not at all.
MCSizes == {<<2, 4, 7>>, <<2, 4, 0>>}

MCFileNames == <<"mon", "tue">>
Alike == Permutations(MCBufs)

\* 20_gbuffer.c, the stream parsers: every text of a file is given once, whole and
\* in its order.
\* 20_stats_wr.c and 20_stats_rd.c: a record of a file is what the values of one range
\* give; and while no life ended without a save, each file has those of its last
\* period, and a reader gets them in the order of time.
FilesTell ==
    CASE library = "json_stream" -> J!StreamSound
      [] library = "stats"       -> T!StatsSound
      [] OTHER                   -> TRUE

\* Two metrics, the second since the second version of the variable; their masks do not
\* repeat a name within the greatest gap.
MCMetrics ==
    [day  |-> [type |-> "sum", units |-> "%M", period |-> 2, files |-> 2, range |-> 1, ranges |-> 3],
     week |-> [type |-> "average", units |-> "%H", period |-> 1, files |-> 3, range |-> 2, ranges |-> 2]]
MCUpgrades == <<{"day"}, {"day", "week"}>>

ASSUME StatsHold == T!StatsAssumption

=============================================================================
