\* User leaves of ELF images whose segments lie anywhere the VirtAddr
\* assert accepts, and of the heap grown above them (spec section 4.2).
CONSTANTS
    W = 8
    VA_WIDTH = 7
    PAGE_SIZE_BITS = 1
    INDEX_BITS = 2
    Images <- MCImages
    MaxGrow = 2
SPECIFICATION Spec
INVARIANT
    KernelRootsUntouched
\* from_elf returns; the heap then grows to the bound, or an assert stops
\* the kernel.
CHECK_DEADLOCK FALSE
