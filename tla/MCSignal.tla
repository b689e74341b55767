------------------------------ MODULE MCSignal -------------------------------
(***************************************************************************)
(* TLC instantiation of Signal: signal numbers and default actions as on   *)
(* Linux, and the sigaction tables a process installs for each run.        *)
(***************************************************************************)
EXTENDS Signal

\* Signal::default_action for the signals used here
MCDefaultAction ==
    [s \in Sigs |->
        CASE s \in {SIGKILL, SIGSTOP} -> "ForceTerminateOrStop"
          [] s = 17                   -> "Ignore"      \* SIGCHLD
          [] s = SIGCONT              -> "Continue"
          [] s \in {20, 21, 22}       -> "Stop"
          [] s \in {3, 4, 6, 8, 11}   -> "CoreDump"
          [] OTHER                    -> "Terminate"]

Dfl == [handler |-> "SIG_DFL", flags |-> {}, mask |-> {}]
User(flags, mask) == [handler |-> "USER", flags |-> flags, mask |-> mask]

\* SIGINT and SIGCHLD left at SIG_DFL, SIGKILL, and SIGUSR1 and SIGUSR2
\* caught by SA_SIGINFO handlers that block every signal while they run.
SafeSigs == {2, 9, 10, 12, 17}
SafeActions ==
    [s \in SafeSigs |-> IF s \in {10, 12} THEN User({"SA_SIGINFO"}, SafeSigs)
                        ELSE Dfl]

\* SIGUSR1 caught by a plain handler (no SA_SIGINFO).
PlainSigs == {10}
PlainActions == [s \in PlainSigs |-> User({}, {})]

\* SIGUSR1 and SIGUSR2 caught by SA_SIGINFO handlers with an empty sa_mask.
NestedSigs == {10, 12}
NestedActions == [s \in NestedSigs |-> User({"SA_SIGINFO"}, {})]

=============================================================================
