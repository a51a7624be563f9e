\* Blocks of 32 words, 3 of the 4 usable; requests for a small, a large and a
\* directly mapped chunk.
SPECIFICATION Spec
CONSTANTS
    maxAvailableBlocks = 4
    Granularity = 32
    MIN_LARGE_SIZE = 12
    mmap_threshold = 22
    trim_threshold = 30
    MAX_RELEASE_CHECK_RATE = 1
    MAX_REQUEST = 200
    Requests = {3, 17, 22}
    Alignments = {8}
    Limits = {64}
    Arrays <- Pairs
    IallocAlone = TRUE
    Threads = {t1, t2}
    MaxOps = 5
INVARIANTS StateChecks OwnedExactly HeapAccounted
SYMMETRY Symmetry
CHECK_DEADLOCK FALSE
