\* Two processes whose callers never munmap: they exec, fork, insert stack
\* areas, mmap, shrink, append, remove areas and exit.  The spec's page-table
\* and area invariants, and the refinement of the abstract address space.
CONSTANTS
    Spaces = {p1, p2}
    NoFrame = NoFrame
    Frames = {f1, f2, f3, f4}
    Addrs = {0, 1, 2, 4}
    MaxVpn = 1
    PAGE_SIZE = 2
    Images <- ImagesOne
    InsertKinds <- MCInsertKinds
    MaxAreas = 3
SYMMETRY Sym
VIEW View
SPECIFICATION SpecNoMunmap
INVARIANTS
    AreasMapped
    AreasDisjoint
    FramesExclusive
    FramesConserved
PROPERTIES
    ImplementsAddressSpace
\* A dry allocator panics the kernel (frame_alloc().unwrap()): no step follows.
CHECK_DEADLOCK FALSE
