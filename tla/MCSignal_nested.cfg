\* One thread; SIGUSR1 and SIGUSR2 caught by handlers that do not block each other.
CONSTANTS
    Tasks = {t1}
    Sigs <- NestedSigs
    SIGKILL = 9
    SIGSTOP = 19
    SIGCONT = 18
    DefaultAction <- MCDefaultAction
    InitActions <- NestedActions
    MaxSends = 2
SPECIFICATION Spec
PROPERTY ContextRestored
\* Every thread of an exited process ends in Dead, and a panic halts.
CHECK_DEADLOCK FALSE
