\* find_insert_addr against the highest free window below the hint (spec
\* section 8, property 6).
CONSTANTS
    W = 6
    VA_WIDTH = 4
    PAGE_SIZE_BITS = 1
    INDEX_BITS = 1
    Layouts <- MCLayouts
    Hints <- MCHints
    Sizes <- MCSizes
SPECIFICATION Spec
INVARIANT
    MatchesReference
\* A call returns: the search stops after one step.
CHECK_DEADLOCK FALSE
