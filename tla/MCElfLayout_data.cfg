\* Where from_elf puts a segment's file bytes, for segments at aligned and
\* unaligned p_vaddr (spec section 4.4).
CONSTANTS
    W = 8
    VA_WIDTH = 7
    PAGE_SIZE_BITS = 1
    INDEX_BITS = 2
    Images <- MCDataImages
    MaxGrow = 1
SPECIFICATION Spec
INVARIANT
    SegmentsLoadedAtVaddr
\* from_elf returns; the heap then grows to the bound, or an assert stops
\* the kernel.
CHECK_DEADLOCK FALSE
