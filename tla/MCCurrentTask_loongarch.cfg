\* Three tasks on one LoongArch CPU, at most two clones each.
CONSTANTS
    Arch = "loongarch64"
    Tasks = {t1, t2, t3}
    CsrBits = 3
    MaxClones = 2
SPECIFICATION Spec

PROPERTY ReadyTaskRuns
\* The CPU stops when every task has exited.
CHECK_DEADLOCK FALSE
