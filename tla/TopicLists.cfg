\* Three lists, two kinds of records and three rows; walks over topics of up to
\* three rows.
CONSTANTS
    l1 = l1
    l2 = l2
    l3 = l3
    NoList = NoList
    Lists <- MCLists
    Kinds = {"a", "b"}
    Wants <- MCWants
    MaxRows = 3
    MaxCalls = 5
    MaxOpens = 4
    Liberties = {}
    W = 16
    Walks <- MCWalks
    Quirks = {}
SPECIFICATION MCSpec
CHECK_DEADLOCK FALSE
INVARIANTS
    ListsServed
    FoundIsExpected
