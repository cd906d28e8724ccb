\* Five calls about a schema or a column; trees of three departments and a user in eight rows;
\* dicts of three calls; two kws and two gbuffers; stores of three records; lists of four items.
CONSTANTS
    d1 = d1  d2 = d2  d3 = d3
    Columns <- MCColumns
    Values <- MCValues
    Refs <- MCRefs
    MaxSteps = 5
    Schemas <- MCSchemas
    MaxCalls = 5
    Keys <- MCKeys
    Hooks <- MCHooks
    Keyed <- MCKeyed
    Key2s = {"a"}
    Vals = {"v"}
    Bad = "bad"
    Names = {}
    Nil = Nil
    MaxRows = 8
    Liberties = {}
    Paths <- MCPaths
    Given <- MCGiven
    Segments = {"a"}
    MaxDepth = 5
    MaxKwCalls = 3
    Kws = {"k1", "k2"}
    Bufs = {"b1", "b2"}
    Nobody = Nobody
    MaxRefs = 2
    Records <- MCRecords
    Simples <- MCSimples
    RecordIds = {"a", "b", "c"}
    News <- MCNews
    MaxRecords = 3
    ListItems <- MCListItems
    TextOrder <- MCTextOrder
    DescFields <- MCDescFields
    CountTrees <- MCCountTrees
    MaxItems = 4
SPECIFICATION MCSpec
SYMMETRY Alike
CHECK_DEADLOCK FALSE
INVARIANTS
    ColumnsSound
    QueriesAgree
    LinksReload
    OwnersCount
    StoresAgree
PROPERTIES
    IsFlatDict
