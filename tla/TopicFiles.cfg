CONSTANTS
    p1 = p1
    p2 = p2
    m1 = m1
    m2 = m2
    Procs <- MCProcs
    Msgs <- MCMsgs
    Versions = {0, 1, 2}
    MaxGens = 2
    NoProc = NoProc
    Liberties = {}
SYMMETRY Symmetry
SPECIFICATION Spec
INVARIANTS
    SurvivesCuts
    OwnFiles
    NothingLost
