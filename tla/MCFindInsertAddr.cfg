\* Every MemorySet of at most two areas, every aligned hint in user space.
CONSTANTS
    W = 6
    VA_WIDTH = 4
    PAGE_SIZE_BITS = 1
    INDEX_BITS = 1
    Layouts <- MCLayouts
    Hints <- MCHints
    Sizes <- MCSizes
SPECIFICATION Spec
INVARIANTS
    FreeWindow
\* A call returns: the search stops after one step.
CHECK_DEADLOCK FALSE
