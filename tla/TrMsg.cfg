SPECIFICATION Spec
CONSTANTS
    x = x
    y = y
    a = a
    b = b
    Ids = {x, y}
    Key2s = {a, b}
    Empty = Empty
    Tms = {1, 2, 3}
    Conds <- MCConds
    Nil = Nil
    MaxRows = 4
    Liberties = {}
SYMMETRY MsgSymmetry
INVARIANTS KeepsLastGiven TreeShowsEachOnce IndexIsLoad
