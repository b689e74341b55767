\* Three tasks on one RISC-V CPU, at most two clones each.
CONSTANTS
    Arch = "riscv64"
    Tasks = {t1, t2, t3}
    CsrBits = 3
    MaxClones = 2
SPECIFICATION Spec
INVARIANTS RefsAccounted IrqEnabled

\* The CPU stops when every task has exited.
CHECK_DEADLOCK FALSE
