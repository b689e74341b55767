\* Two threads; SIGINT, SIGKILL, SIGCHLD at SIG_DFL and SIGUSR1, SIGUSR2 caught with
\* SA_SIGINFO and a full sa_mask.
CONSTANTS
    Tasks = {t1, t2}
    Sigs <- SafeSigs
    SIGKILL = 9
    SIGSTOP = 19
    SIGCONT = 18
    DefaultAction <- MCDefaultAction
    InitActions <- SafeActions
    MaxSends = 2
SPECIFICATION Spec
PROPERTIES ContextRestored MaskRestored
 
\* Every thread of an exited process ends in Dead, and a panic halts.
CHECK_DEADLOCK FALSE
