------------------------------- MODULE Stats --------------------------------
(***************************************************************************)
(* The statistics of 20_stats_wr.c and 20_stats_rd.c, of one variable.     *)
(* Each of its metrics condenses the values of a range of time to one      *)
(* record, and writes it to the file of the period.  The names of files    *)
(* and ranges come from strftime with one field ("%u", "%M"): they are     *)
(* used again, after a cycle.  The values of a range that has not ended    *)
(* are in memory, and in __partial_data__.json since the last save.        *)
(***************************************************************************)
EXTENDS Integers, Sequences, FiniteSets, FiniteSetsExt, SequencesExt, Functions

CONSTANTS
    Metrics,        \* id -> [type, units, period, files, range, ranges]: a period and a
                    \* range are that long, and there are so many names of each
    Upgrades,       \* the ids of the metrics of each version of the variable
    StatValues,
    NoVar,
    MaxTime,        \* bounds of the model: of time,
    MaxGap,         \* of the time between two values,
    MaxAdds         \* and of values

Versions == DOMAIN Upgrades
ValueTimes == 1 .. MaxTime

\* The masks of a metric do not repeat a name within the greatest gap, and so a new
\* name is a new period or range.
StatsAssumption == \A m \in DOMAIN Metrics :
    /\ MaxGap <= (Metrics[m].files - 1) * Metrics[m].period
    /\ MaxGap <= (Metrics[m].ranges - 1) * Metrics[m].range

VARIABLES
    version,        \* of __variable__.json, 0 if there is none
    variable,       \* in memory: [last, of], of each metric [file, stime, value], and
                    \* what a reader of the model needs: the values it took (seen) and
                    \* whether the first of them was the variable's first (first)
    partial,        \* __partial_data__.json
    stored,         \* the content of the files
    opened,         \* what the FILEs that are open have not written yet
    rewound,        \* TRUE iff a life ended without saving (once: a bound of the model)
    lost             \* the records of that life

statvars == <<version, variable, partial, stored, opened, rewound, lost>>

Period(m, t) == t \div Metrics[m].period
SpanOf(m, t) == t \div Metrics[m].range

\* render_mask, of filename_mask and time_mask.
FileAt(m, t)  == <<m, Period(m, t) % Metrics[m].files>>
StimeAt(m, t) == <<SpanOf(m, t) % Metrics[m].ranges>>
Unnamed == <<>>

-----------------------------------------------------------------------------
(* Files *)

Without(f, x) == [y \in DOMAIN f \ {x} |-> f[y]]
Unwritten(files, n) == IF n \in DOMAIN files.open THEN files.open[n] ELSE <<>>

CloseFile(files, n) ==
    IF n \notin DOMAIN files.open THEN files
    ELSE [disk |-> [files.disk EXCEPT ![n] = @ \o files.open[n]], open |-> Without(files.open, n)]

DeleteFile(files, n) ==
    LET closed == CloseFile(files, n) IN [closed EXCEPT !.disk = Without(@, n)]

\* save_variable_value_to_file: the path of no name is the directory, which does not open.
SaveValue(files, n, t, value) ==
    IF n = Unnamed THEN files
    ELSE [disk |-> IF n \in DOMAIN files.disk THEN files.disk ELSE (n :> <<>>) @@ files.disk,
          open |-> (n :> Append(Unwritten(files, n), [t |-> t, v |-> value])) @@ files.open]

FlushAll(files) ==
    [disk |-> [n \in DOMAIN files.disk |-> files.disk[n] \o Unwritten(files, n)],
     open |-> [n \in DOMAIN files.open |-> <<>>]]

-----------------------------------------------------------------------------
(* Writing *)

Condense(type, value, v) ==
    CASE type = "average" -> (v + value) \div 2
      [] type = "min"     -> IF v > value THEN value ELSE v
      [] type = "max"     -> IF v < value THEN value ELSE v
      [] type = "sum"     -> v + value
      [] OTHER            -> v

CalculateValue(m, newRange, value, v) ==
    IF newRange THEN v ELSE Condense(Metrics[m].type, value, v)

\* What wstats_add_value finds of a metric: the first value of all takes its names
\* without a change of them.
Old(m, t) ==
    IF variable.last = 0 THEN [file |-> FileAt(m, t), stime |-> StimeAt(m, t)]
    ELSE [file |-> variable.of[m].file, stime |-> variable.of[m].stime]

\* Mutant: the file of the last cycle is not deleted.
BugFilesOf(files, m, t, kept) ==
    LET old  == Old(m, t)
        left == old.file # FileAt(m, t)
        to   == IF left THEN CloseFile(files, old.file) ELSE files
    IN  IF old.stime = StimeAt(m, t) \/ (left /\ ~kept) THEN to
        ELSE SaveValue(to, old.file, variable.last, variable.of[m].value)

\* The files of a metric: a new name closes the file of the old one and deletes what
\* the new one had; the end of a range saves its record under the old name, whose
\* string was freed if the name is new: `kept` iff it still reads the same.
FilesOf(files, m, t, kept) ==
    LET old  == Old(m, t)
        left == old.file # FileAt(m, t)
        to   == IF left THEN DeleteFile(CloseFile(files, old.file), FileAt(m, t)) ELSE files
    IN  IF old.stime = StimeAt(m, t) \/ (left /\ ~kept) THEN to
        ELSE SaveValue(to, old.file, variable.last, variable.of[m].value)

MetricAfter(m, t, v) ==
    LET x == variable.of[m] IN
    [file  |-> FileAt(m, t), stime |-> StimeAt(m, t),
     value |-> CalculateValue(m, Old(m, t).stime # StimeAt(m, t), x.value, v),
     seen  |-> Append(x.seen, [t |-> t, v |-> v]),
     first |-> IF x.seen = <<>> THEN variable.last = 0 ELSE x.first]

\* wstats_add_value: a time before the last one is refused.
AddValue == \E t \in ValueTimes, v \in StatValues :
    /\ variable # NoVar
    /\ t >= variable.last
    /\ t <= variable.last + MaxGap
    /\ \A m \in DOMAIN variable.of : Len(variable.of[m].seen) < MaxAdds
    /\ \E kept \in SUBSET DOMAIN variable.of :
          LET files == FoldSet(LAMBDA m, fs : FilesOf(fs, m, t, m \in kept),
                               [disk |-> stored, open |-> opened], DOMAIN variable.of)
          IN  stored' = files.disk /\ opened' = files.open
    /\ variable' = [last |-> t, of |-> [m \in DOMAIN variable.of |-> MetricAfter(m, t, v)]]
    /\ UNCHANGED <<version, partial, rewound, lost>>

\* wstats_restore: the metrics that __partial_data__.json has.
Restored(ids) ==
    LET new == [file |-> Unnamed, stime |-> Unnamed, value |-> 0, seen |-> <<>>, first |-> FALSE]
        had == IF partial = NoVar THEN {} ELSE DOMAIN partial.of
    IN  [last |-> IF partial = NoVar THEN 0 ELSE partial.last,
         of |-> [m \in ids |-> IF m \in had THEN partial.of[m] ELSE new]]

\* wstats_open and wstats_add_variable: a version that is not newer than the one of the
\* disk takes the description of the disk.
AddVariable == \E asked \in Versions :
    /\ variable = NoVar
    /\ version' = IF asked <= version THEN version ELSE asked
    /\ variable' = Restored(Upgrades[version'])
    /\ UNCHANGED <<partial, stored, opened, rewound, lost>>

SaveStats ==
    /\ variable # NoVar
    /\ partial' = variable
    /\ LET files == FlushAll([disk |-> stored, open |-> opened])
       IN  stored' = files.disk /\ opened' = files.open
    /\ UNCHANGED <<version, variable, rewound, lost>>

-----------------------------------------------------------------------------
(* What a metric should have recorded *)

\* The values of a range, condensed; the first range of all starts with 0.
Condensed(m, values, first) ==
    LET type == Metrics[m].type IN
    FoldLeft(LAMBDA a, x : Condense(type, a, x.v),
             IF first THEN Condense(type, 0, values[1].v) ELSE values[1].v, Tail(values))

\* A record of each range that has ended, with the time of its last value.
Ended(m) ==
    LET x    == variable.of[m]
        s    == x.seen
        ends == SelectSeq([i \in 1 .. Len(s) - 1 |-> i],
                          LAMBDA i : SpanOf(m, s[i].t) # SpanOf(m, s[i + 1].t))
    IN  [k \in DOMAIN ends |->
            LET from == IF k = 1 THEN 1 ELSE ends[k - 1] + 1
            IN  [t |-> s[ends[k]].t,
                 v |-> Condensed(m, SubSeq(s, from, ends[k]), from = 1 /\ x.first)]]

EndedNow == IF variable = NoVar THEN {}
            ELSE UNION {{<<m, r>> : r \in Range(Ended(m))} : m \in DOMAIN variable.of}

\* wstats_close: the files are closed; what was not saved is lost.
CloseStats ==
    /\ variable # NoVar
    /\ rewound => partial = variable
    /\ stored' = FlushAll([disk |-> stored, open |-> opened]).disk
    /\ rewound' = (rewound \/ partial # variable)
    /\ lost' = IF partial # variable THEN EndedNow ELSE lost
    /\ variable' = NoVar /\ opened' = <<>>
    /\ UNCHANGED <<version, partial>>

\* A crash: of each file, some of what was not written is; while it saves, the partial
\* data may be cut, and is not read again.
CrashStats == \E cut \in BOOLEAN : \E part \in [DOMAIN opened -> 0 .. MaxAdds] :
    /\ variable # NoVar /\ ~rewound
    /\ \A n \in DOMAIN opened : part[n] <= Len(opened[n])
    /\ stored' = [n \in DOMAIN stored |->
                    stored[n] \o IF n \in DOMAIN opened THEN SubSeq(opened[n], 1, part[n]) ELSE <<>>]
    /\ partial' = IF cut THEN NoVar ELSE partial
    /\ rewound' = TRUE
    /\ lost' = EndedNow
    /\ variable' = NoVar /\ opened' = <<>>
    /\ UNCHANGED version

StatsInit ==
    /\ version = 0 /\ variable = NoVar /\ partial = NoVar
    /\ stored = <<>> /\ opened = <<>>
    /\ rewound = FALSE /\ lost = {}

StatsNext == AddVariable \/ AddValue \/ SaveStats \/ CloseStats \/ CrashStats

-----------------------------------------------------------------------------
(* Reading *)

\* read_variable_cb: the metrics of the description on disk.
MetricsRead == IF version = 0 THEN {} ELSE Upgrades[version]

\* check_file_ranges: a file without records is not listed.
CheckFileRanges(n) == [fr |-> Head(stored[n]).t, to |-> Last(stored[n]).t, file |-> n]

\* rstats_variables, check_files, read_files_cb: the files of a metric by their first time.
DataFiles(m) ==
    SetToSortSeq({CheckFileRanges(n) : n \in {n \in DOMAIN stored : n[1] = m /\ stored[n] # <<>>}},
                 LAMBDA a, b : a.fr < b.fr)

\* rstats_list_limits
Limits(m) == LET files == DataFiles(m) IN
    IF files = <<>> THEN <<>> ELSE <<Head(files).fr, Last(files).to>>

\* find_metric_by_units, and rstats_metric: the units go before the name.
FindByUnits(units) == {m \in MetricsRead : Metrics[m].units = units}
MetricFor(name, units) ==
    IF FindByUnits(units) # {} THEN CHOOSE m \in FindByUnits(units) : TRUE ELSE name

Inside(t, from, to) == from <= t /\ t <= to
AddData(file, from, to) == SelectSeq(stored[file.file], LAMBDA r : Inside(r.t, from, to))

\* rstats_get_data: of the files that begin or end inside.
GetData(m, from, to) ==
    LET files == SelectSeq(DataFiles(m), LAMBDA f : Inside(f.fr, from, to) \/ Inside(f.to, from, to))
    IN  FlattenSeq([i \in DOMAIN files |-> AddData(files[i], from, to)])

-----------------------------------------------------------------------------
(* Properties *)

Content(n) == (IF n \in DOMAIN stored THEN stored[n] ELSE <<>>)
              \o (IF n \in DOMAIN opened THEN opened[n] ELSE <<>>)

\* A file has a record of each range that ended in its last period, in their order;
\* of a period that is over, perhaps without the last one.
FileTells(m, n) ==
    LET periods == {Period(m, variable.of[m].seen[i].t) : i \in DOMAIN variable.of[m].seen}
        mine    == {p \in periods : <<m, p % Metrics[m].files>> = n}
        want    == SelectSeq(Ended(m), LAMBDA r : Period(m, r.t) = Max(mine))
    IN  IF mine = {} THEN Content(n) = <<>>
        ELSE \/ Content(n) = want
             \/ Max(mine) < Max(periods) /\ want # <<>> /\ Content(n) = Front(want)

\* What a reader is given of an interval is in the order of time, and within the limits.
ReadsInOrder(m) ==
    /\ \A from, to \in ValueTimes :
          LET data == GetData(m, from, to)
          IN  \A i \in DOMAIN data :
                  /\ i > 1 => data[i - 1].t < data[i].t
                  /\ Inside(data[i].t, Limits(m)[1], Limits(m)[2])
    /\ LET read == Range(GetData(MetricFor("", Metrics[m].units), 1, MaxTime))
       IN  read = UNION {Range(stored[n]) : n \in {n \in DOMAIN stored : n[1] = m}}

\* 20_stats_wr.c, 20_stats_rd.c: a record is always what the values of one range give,
\* whatever was lost; and while no life ended without a save, all of them are there.
StatsSound ==
    /\ variable # NoVar => LET now == EndedNow IN
          \A n \in DOMAIN stored : \A r \in Range(stored[n]) : <<n[1], r>> \in lost \cup now
    /\ ~rewound /\ variable # NoVar =>
          \A m \in DOMAIN variable.of :
              /\ \A k \in 0 .. Metrics[m].files - 1 : FileTells(m, <<m, k>>)
              /\ ReadsInOrder(m)

=============================================================================
