\* One thread; SIGUSR1 caught by a handler without SA_SIGINFO.
CONSTANTS
    Tasks = {t1}
    Sigs <- PlainSigs
    SIGKILL = 9
    SIGSTOP = 19
    SIGCONT = 18
    DefaultAction <- MCDefaultAction
    InitActions <- PlainActions
    MaxSends = 1
SPECIFICATION Spec
PROPERTY MaskRestored
\* Every thread of an exited process ends in Dead, and a panic halts.
CHECK_DEADLOCK FALSE
