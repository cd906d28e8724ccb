\* Two gbuffers and six calls; files of six characters; a log of three days and two
\* file names; three handlers and two messages;
\* three values of a variable with two metrics.
CONSTANTS
    buf1 = buf1  buf2 = buf2
    Bufs <- MCBufs
    Sizes <- MCSizes
    Breaks = {2}
    Nuls = {}
    MaxPut = 3
    MaxCalls = 6
    Liberties = {}
    Marks = {"{", "}", "[", "]", "a"}
    MaxRead = 6
    MaxDay = 2
    FileNames <- MCFileNames
    MaxSize = 1
    MaxPieces = 5
    StatvfsEach = 4
    Faults = {"open", "write"}
    Names = {"a", "b"}
    Priorities = {"error", "debug", "monitor"}
    Takes = {{"error", "debug"}, {"error"}}
    MaxHandlers = 3
    MaxMessages = 2
    Metrics <- MCMetrics
    Upgrades <- MCUpgrades
    StatValues = {3}
    NoVar = NoVar
    MaxTime = 5
    MaxGap = 2
    MaxAdds = 3
SPECIFICATION MCSpec
SYMMETRY Alike
CHECK_DEADLOCK FALSE
INVARIANTS
    KeepsRecent
    FilesTell
PROPERTIES
    StreamSpec
    Delivered
