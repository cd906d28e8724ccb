\* The process may also die between the re-creation of the topic and the reset
\* of first_rowid.  Four messages: two in the old topic, two in the new one.
CONSTANTS
    m1 = m1
    m2 = m2
    m3 = m3
    m4 = m4
    Msgs <- MCMsgs4
    Keyless = {}
    BackupSize = 1
    Roles = {"master"}
    Liberties = {"crash_in_backup"}
SYMMETRY Symmetry4
SPECIFICATION Spec
INVARIANT NoPendingLost
