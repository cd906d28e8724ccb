\* The queue under its discipline: three messages, a backup above one row,
\* masters and readers one after the other, and a crash at any step.
CONSTANTS
    m1 = m1
    m2 = m2
    m3 = m3
    m4 = m4
    Msgs <- MCMsgs3
    Keyless = {}
    BackupSize = 1
    Roles = {"master", "reader"}
    Liberties = {}
SPECIFICATION FairSpec
INVARIANTS
    NoPendingLost
    OwnRow
    InOrder
    FirstRowidSound
    BackupKeepsPending
PROPERTIES
    PersistentQueueSpec
    Settles
