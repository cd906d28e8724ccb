SPECIFICATION Spec
CONSTANTS
    d1 = d1
    d2 = d2
    Keys <- MCKeys
    Hooks <- MCHooks
    Keyed <- MCKeyed
    Key2s = {"a", "b"}
    Vals = {"v"}
    Bad = "bad"
    Names = {"s1"}
    Nil = Nil
    MaxRows = 5
    Liberties = {}
SYMMETRY DeptSymmetry
INVARIANTS LinksAgree LoadGivesMemory SnapHasNodes
PROPERTIES IsTree
CHECK_DEADLOCK FALSE
