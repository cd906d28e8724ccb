CONSTANTS
    p1 = p1
    p2 = p2
    m1 = m1
    m2 = m2
    d1 = d1
    d2 = d2
    Procs <- MCProcs
    Msgs <- MCMsgs
    Days <- MCDays
    UserFlags = {"f"}
    NoProc = NoProc
    ExitOnCritical = TRUE
    Shorts = 1
SYMMETRY Symmetry
SPECIFICATION Spec
INVARIANTS
    ContentIsOwn
    MasterKnowsEnd
    Durable
    ReadsTrue
PROPERTIES
    RowsKeep
    RecordLogSpec
