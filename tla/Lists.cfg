\* Two lists and four items of dl_list; two iters, three resources and four
\* instances of rc_list; callers that keep to what the libraries ask of them.
CONSTANTS
    l1 = l1  l2 = l2
    i1 = i1  i2 = i2  i3 = i3  i4 = i4
    a = a  b = b  c = c
    Null = Null
    Lists = {l1, l2}
    Items = {i1, i2, i3, i4}
    Liberties = {}
    Iters = {l1, l2}
    Resources = {a, b, c}
    Instances = {i1, i2, i3, i4}
    None = Null
    Callers = {}
SPECIFICATION MCSpec
SYMMETRY Alike
CHECK_DEADLOCK FALSE
INVARIANTS
    Linked
    ResourcesSound
    WalksSound
