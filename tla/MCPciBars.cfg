\* Buses of up to three functions; the LoongArch window of PCI_RANGES.
CONSTANTS
    Buses <- MCBuses
    PCI_START = 262144
    PCI_SIZE = 32
SPECIFICATION Spec
INVARIANT AssignedBarsDisjoint
\* Enumeration ends after the last function, or at a panic.
CHECK_DEADLOCK FALSE
