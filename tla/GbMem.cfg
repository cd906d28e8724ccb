SPECIFICATION Spec
\* Pieces of up to three blocks in two superblocks of four.  8 and 40 fill one
\* and three blocks with their header, pieces of two are what is left of a
\* superblock; 0 and 41 are refused once gbmem_startup has run.
CONSTANTS
    BlockSize = 16
    PoolSize = 3
    Chunk = 4
    MaxSb = 2
    MaxSystem = 90
    Header = 8
    SystemHeader = 8
    Sizes = {0, 8, 40, 41}
    Threads = {t1, t2}
    SystemSlots = {1, 2}
    Nil = Nil
INVARIANTS MemoryIsOwn NothingLeaks
CHECK_DEADLOCK FALSE
