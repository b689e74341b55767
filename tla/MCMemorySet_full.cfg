\* One process: every MemorySet operation but fork, munmap (unmap_peek) included.
CONSTANTS
    Spaces = {p1}
    NoFrame = NoFrame
    Frames = {f1, f2, f3, f4}
    Addrs = {0, 1, 2, 4, 6}
    MaxVpn = 2
    PAGE_SIZE = 2
    Images <- ImagesTwo
    InsertKinds <- MCInsertKinds
    MaxAreas = 3
SYMMETRY Sym
VIEW View
SPECIFICATION Spec
INVARIANTS
    TypeOK
    FramesExclusive
    PtBacked
    NoDoubleMap
    FramesConserved
\* A failed unwrap in fork halts the kernel: no step follows it.
CHECK_DEADLOCK FALSE
