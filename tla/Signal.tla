------------------------------ MODULE Signal ---------------------------------
(***************************************************************************)
(* Signal delivery of one process (src/os/src/signal/mod.rs): send_signal, *)
(* send_signal_to_task, handle_pending_signals with                        *)
(* perform_default_action_for_process, and load_trap_for_signal            *)
(* (sigreturn).                                                            *)
(*                                                                         *)
(* The process has the threads Tasks.  Each thread's TaskSignalState       *)
(* (sigpending, sigmask, last_context, sig_info, is_restart) is guarded by *)
(* its signal_state lock, the process's ProcessSignalSharedState           *)
(* (shared_sigpending, sigactions) by signal_shared_state.  Every step of  *)
(* this module is one critical section of the code: the locks are taken   *)
(* in the order task, process wherever both are held, and a step ends      *)
(* where the code drops them.  handle_pending_signals drops both locks     *)
(* between choosing a signal and acting on it (lines 296-297), so a thread *)
(* is there in pc "Act" with the choice in cur, and other threads and      *)
(* senders run in between.                                                 *)
(*                                                                         *)
(* A trap context is abstracted to the stack of signal handlers the thread *)
(* is running: <<>> is the interrupted program, and delivery to a user     *)
(* handler pushes a frame [sig, uc], where uc holds the sigmask stored in  *)
(* the UContext on the user stack ({} without SA_SIGINFO).                 *)
(***************************************************************************)
EXTENDS Integers, Sequences, FiniteSets, SequencesExt

CONSTANTS
    Tasks,          \* threads of the process
    Sigs,           \* signal numbers that are sent
    SIGKILL, SIGSTOP, SIGCONT,
    DefaultAction,  \* Signal::default_action, Sigs -> DefaultActions
    InitActions,    \* the sigactions the process installed, Sigs -> Actions
    MaxSends        \* bound on signals sent

Flags == {"SA_NODEFER", "SA_SIGINFO", "SA_RESTART", "SA_RESETHAND", "SA_ONSTACK"}
Handlers == {"SIG_DFL", "SIG_IGN", "USER"}
Actions == [handler : Handlers, flags : SUBSET Flags, mask : SUBSET Sigs]
DefaultActions == {"Terminate", "CoreDump", "Ignore", "Stop", "Continue",
                   "ForceTerminateOrStop"}

ASSUME SignalConstants ==
    /\ Sigs \subseteq 1..63
    /\ DefaultAction \in [Sigs -> DefaultActions]
    /\ InitActions \in [Sigs -> Actions]
    /\ MaxSends \in Nat

\* Option<T> as a sequence of length at most one
None == <<>>
Some(x) == <<x>>
NoCur == [sig |-> 0]
Results == {"none", "ok", "erestart"}

VARIABLES
    pc,            \* where each thread is
    res,           \* argument of handle_pending_signals: none, or the
                   \* syscall result (erestart when a0 = ERESTART)
    cur,           \* handle_pending_signals' locals across the unlocked gap
    sigpending,    \* TaskSignalState.sigpending
    sigmask,       \* TaskSignalState.sigmask
    last_context,  \* TaskSignalState.last_context
    sig_info,      \* TaskSignalState.sig_info
    is_restart,    \* TaskSignalState.is_restart
    tf,            \* the trap context, as the stack of running handlers
    a7ret,         \* tf.regs.a7 = SYSCALL_SIGNALRET
    shared_sigpending,  \* ProcessSignalSharedState.shared_sigpending
    sigactions,    \* ProcessSignalSharedState.sigactions
    zombie,        \* exit_proc has run
    panicked,      \* "none", or the macro that halted the kernel
    sent,          \* signals sent so far
    saved,         \* history: the contexts a handler delivery interrupted,
                   \* with the mask and restart decision of that delivery
    shared_sent,   \* history: signals added to shared_sigpending by a send
    shared_taken   \* history: signals a thread took off shared_sigpending

vars == <<pc, res, cur, sigpending, sigmask, last_context, sig_info,
          is_restart, tf, a7ret, shared_sigpending, sigactions, zombie,
          panicked, sent, saved, shared_sent, shared_taken>>

taskVars == <<sigpending, sigmask, last_context, sig_info, is_restart, tf,
              a7ret, saved>>

-----------------------------------------------------------------------------
(* Sending                                                                 *)

\* The sigaction read under the process lock: SIG_IGN drops the signal,
\* except SIGKILL and SIGSTOP.
Ignored(s) ==
    sigactions[s].handler = "SIG_IGN" /\ s \notin {SIGKILL, SIGSTOP}

\* send_signal(pid, target_tid, sig): to the thread Some(tid), or with None
\* to the process's shared set, then wake a thread.
SendSignal(target_tid, s) ==
    /\ panicked = "none" /\ sent < MaxSends
    /\ sent' = sent + 1
    /\ IF target_tid = None
       THEN /\ shared_sigpending' = IF Ignored(s) THEN shared_sigpending
                                    ELSE shared_sigpending \cup {s}
            /\ shared_sent' = IF Ignored(s) THEN shared_sent
                              ELSE [shared_sent EXCEPT ![s] = @ + 1]
            /\ UNCHANGED sigpending
       ELSE /\ sigpending' = IF Ignored(s) THEN sigpending
                             ELSE [sigpending EXCEPT ![Head(target_tid)] = @ \cup {s}]
            /\ UNCHANGED <<shared_sigpending, shared_sent>>
    /\ UNCHANGED <<pc, res, cur, sigmask, last_context, sig_info, is_restart,
                   tf, a7ret, sigactions, zombie, panicked, saved, shared_taken>>

\* send_signal_to_task(task, sig): the sigaction is read under the process
\* lock, which is dropped before the task lock is taken to add the signal.
\* In between only SA_RESETHAND changes a sigaction, to SIG_DFL, which does
\* not change Ignored, so the two sections are one step.
SendSignalToTask(t, s) ==
    /\ panicked = "none" /\ sent < MaxSends
    /\ sent' = sent + 1
    /\ sigpending' = IF Ignored(s) THEN sigpending
                     ELSE [sigpending EXCEPT ![t] = @ \cup {s}]
    /\ UNCHANGED <<pc, res, cur, sigmask, last_context, sig_info, is_restart,
                   tf, a7ret, shared_sigpending, sigactions, zombie, panicked,
                   saved, shared_sent, shared_taken>>

-----------------------------------------------------------------------------
(* handle_pending_signals                                                  *)

NoPick == [sig |-> 0, thread |-> FALSE]

SharedAfterTake(p) ==
    IF p.thread THEN shared_sigpending ELSE shared_sigpending \ {p.sig}

\* The signal to deliver under mask: the lowest unblocked one of the
\* thread's own, else the lowest unblocked one of the process's.
Pick(t, mask) ==
    LET own    == {s \in sigpending[t] : s \notin mask}
        shared == {s \in shared_sigpending : s \notin mask}
    IN CASE own # {}    -> [sig |-> Min(own), thread |-> TRUE]
         [] shared # {} -> [sig |-> Min(shared), thread |-> FALSE]
         [] OTHER       -> NoPick

\* The mask in force while the handler runs, without sa_mask.
HandlerMaskNoSaMask(mask, s, a) ==
    IF "SA_NODEFER" \in a.flags THEN mask ELSE mask \cup {s}

\* new_mask_during_handler: the thread's mask, the signal itself unless
\* SA_NODEFER, and sa_mask.
HandlerMask(mask, s, a) ==
    (IF "SA_NODEFER" \in a.flags THEN mask ELSE mask \cup {s}) \cup a.mask

\* Return from handle_pending_signals; an exited task is not run again.
Leave(t) == pc' = [pc EXCEPT ![t] = IF zombie THEN "Dead" ELSE "User"]

\* One pass of the loop, with both locks held and mask the thread's mask:
\* take the signal off its pending set; SIGKILL runs exit_proc and returns,
\* SIGSTOP and SIGCONT reach unimplemented!(); any other sets the handler
\* mask and drops both locks.  With nothing to deliver the loop breaks.
Loop(t, mask) ==
    LET p == Pick(t, mask)
        s == p.sig
    IN IF p = NoPick
       THEN /\ sigmask' = [sigmask EXCEPT ![t] = mask]
            /\ Leave(t)
            /\ cur' = [cur EXCEPT ![t] = NoCur]
            /\ UNCHANGED <<sigpending, shared_sigpending, zombie, panicked,
                           shared_taken>>
       ELSE /\ sigpending' = IF p.thread
                             THEN [sigpending EXCEPT ![t] = @ \ {s}]
                             ELSE sigpending
            /\ shared_sigpending' = SharedAfterTake(p)
            /\ shared_taken' = IF p.thread THEN shared_taken
                               ELSE [shared_taken EXCEPT ![s] = @ + 1]
            /\ CASE s = SIGKILL ->
                      /\ zombie' = TRUE
                      /\ pc' = [pc EXCEPT ![t] = "Dead"]
                      /\ sigmask' = [sigmask EXCEPT ![t] = mask]
                      /\ cur' = [cur EXCEPT ![t] = NoCur]
                      /\ UNCHANGED panicked
                 [] s \in {SIGSTOP, SIGCONT} ->
                      /\ panicked' = "unimplemented"
                      /\ UNCHANGED <<pc, sigmask, cur, zombie>>
                 [] OTHER ->
                      /\ sigmask' = [sigmask EXCEPT ![t] =
                                       HandlerMask(mask, s, sigactions[s])]
                      /\ cur' = [cur EXCEPT ![t] = [sig |-> s,
                                                    action |-> sigactions[s],
                                                    orig |-> mask]]
                      /\ pc' = [pc EXCEPT ![t] = "Act"]
                      /\ UNCHANGED <<zombie, panicked>>

\* Entry: return at once for a zombie process, else take both locks and
\* run the loop.
Enter(t) ==
    /\ panicked = "none" /\ pc[t] = "Ret"
    /\ IF zombie
       THEN /\ pc' = [pc EXCEPT ![t] = "Dead"]
            /\ UNCHANGED <<cur, sigpending, sigmask, shared_sigpending,
                           zombie, panicked, shared_taken>>
       ELSE Loop(t, sigmask[t])
    /\ UNCHANGED <<res, last_context, sig_info, is_restart, tf, a7ret,
                   sigactions, sent, saved, shared_sent>>

\* SIG_DFL: perform_default_action_for_process, without locks.  Terminate
\* and CoreDump run exit_proc and return; Stop and Continue reach
\* unimplemented!(), ForceTerminateOrStop unreachable!().  SIG_IGN does
\* nothing.  The thread then goes on to relock.
ActDefault(t) ==
    LET s == cur[t].sig
        d == DefaultAction[s]
    IN /\ panicked = "none" /\ pc[t] = "Act"
       /\ cur[t].action.handler \in {"SIG_DFL", "SIG_IGN"}
       /\ CASE cur[t].action.handler = "SIG_IGN" \/ d = "Ignore" ->
                 UNCHANGED <<zombie, panicked>>
            [] d \in {"Terminate", "CoreDump"} ->
                 zombie' = TRUE /\ UNCHANGED panicked
            [] d \in {"Stop", "Continue"} ->
                 panicked' = "unimplemented" /\ UNCHANGED zombie
            [] OTHER -> panicked' = "unreachable" /\ UNCHANGED zombie
       /\ pc' = [pc EXCEPT ![t] = "Relock"]
       /\ UNCHANGED <<res, cur, sent, sigactions, shared_sigpending,
                      shared_sent, shared_taken>>
       /\ UNCHANGED taskVars

\* After a default action: take both locks again, restore the mask saved
\* before delivery, and go round the loop.
Relock(t) ==
    /\ panicked = "none" /\ pc[t] = "Relock"
    /\ Loop(t, cur[t].orig)
    /\ UNCHANGED <<res, last_context, sig_info, is_restart, tf, a7ret,
                   sigactions, sent, saved, shared_sent>>

\* Variant of HandlerFrame that stores the mask in force during the handler.
HandlerFrameNewMask(t) ==
    [sig |-> cur[t].sig,
     uc  |-> IF "SA_SIGINFO" \in cur[t].action.flags THEN {sigmask[t]}
             ELSE {}]

\* The UContext pushed with SA_SIGINFO holds original_thread_mask.
HandlerFrame(t) ==
    [sig |-> cur[t].sig,
     uc  |-> IF "SA_SIGINFO" \in cur[t].action.flags THEN {cur[t].orig}
             ELSE {}]

\* A user handler: take the task lock; a trap frame whose a7 is
\* SYSCALL_SIGNALRET reaches unreachable!(); a syscall that returned
\* ERESTART under SA_RESTART is marked for restart; the trap context is
\* saved in last_context and redirected to the handler; SA_RESETHAND resets
\* the handler to SIG_DFL under the process lock; return.
Deliver(t) ==
    LET a       == cur[t].action
        s       == cur[t].sig
        restart == res[t] = "erestart" /\ "SA_RESTART" \in a.flags
    IN /\ panicked = "none" /\ pc[t] = "Act"
       /\ a.handler = "USER"
       /\ IF a7ret[t]
          THEN /\ panicked' = "unreachable"
               /\ UNCHANGED <<pc, last_context, sig_info, is_restart, tf,
                              sigactions, saved>>
          ELSE /\ is_restart' = [is_restart EXCEPT ![t] = @ \/ restart]
               /\ last_context' = [last_context EXCEPT ![t] = Some(tf[t])]
               /\ sig_info' = [sig_info EXCEPT ![t] = "SA_SIGINFO" \in a.flags]
               /\ tf' = [tf EXCEPT ![t] = Append(@, HandlerFrame(t))]
               /\ sigactions' = IF "SA_RESETHAND" \in a.flags
                                THEN [sigactions EXCEPT ![s].handler = "SIG_DFL"]
                                ELSE sigactions
               /\ saved' = [saved EXCEPT ![t] =
                              Append(@, [ctx |-> tf[t], mask |-> cur[t].orig,
                                         restart |-> restart])]
               /\ Leave(t)
               /\ UNCHANGED panicked
       /\ UNCHANGED <<res, cur, sigpending, sigmask, a7ret, shared_sigpending,
                      zombie, sent, shared_sent, shared_taken>>

-----------------------------------------------------------------------------
(* User mode                                                               *)

\* load_trap_for_signal (sigreturn), under the task lock: with a saved
\* context, restore it, with sig_info take the mask from the UContext at
\* the current sp (the running handler's frame), and rewind sepc when
\* is_restart; without one return false, leaving the trap frame (a7 =
\* SYSCALL_SIGNALRET).  The syscall then returns through
\* handle_pending_signals.
Sigreturn(t) ==
    /\ panicked = "none" /\ pc[t] = "User"
    /\ IF last_context[t] # None
       THEN /\ tf' = [tf EXCEPT ![t] = Head(last_context[t])]
            /\ last_context' = [last_context EXCEPT ![t] = None]
            /\ sigmask' = IF sig_info[t]
                          THEN [sigmask EXCEPT ![t] = CHOOSE m \in Last(tf[t]).uc : TRUE]
                          ELSE sigmask
            /\ a7ret' = [a7ret EXCEPT ![t] = FALSE]
       ELSE /\ a7ret' = [a7ret EXCEPT ![t] = TRUE]
            /\ UNCHANGED <<tf, last_context, sigmask>>
    /\ saved' = [saved EXCEPT ![t] = IF @ = <<>> THEN @ ELSE Front(@)]
    /\ pc' = [pc EXCEPT ![t] = "Ret"]
    /\ res' = [res EXCEPT ![t] = "ok"]
    /\ UNCHANGED <<cur, sigpending, sig_info, is_restart, shared_sigpending,
                   sigactions, zombie, panicked, sent, shared_sent, shared_taken>>

\* Any other trap from user mode (a syscall, or an interrupt with res None)
\* returns through handle_pending_signals.
Trap(t) ==
    /\ panicked = "none" /\ pc[t] = "User"
    /\ \E r \in Results : res' = [res EXCEPT ![t] = r]
    /\ pc' = [pc EXCEPT ![t] = "Ret"]
    /\ a7ret' = [a7ret EXCEPT ![t] = FALSE]
    /\ UNCHANGED <<cur, sigpending, sigmask, last_context, sig_info,
                   is_restart, tf, shared_sigpending, sigactions, zombie,
                   panicked, sent, saved, shared_sent, shared_taken>>

-----------------------------------------------------------------------------

Init ==
    /\ pc = [t \in Tasks |-> "User"]
    /\ res = [t \in Tasks |-> "none"]
    /\ cur = [t \in Tasks |-> NoCur]
    /\ sigpending = [t \in Tasks |-> {}]
    /\ sigmask = [t \in Tasks |-> {}]
    /\ last_context = [t \in Tasks |-> None]
    /\ sig_info = [t \in Tasks |-> FALSE]
    /\ is_restart = [t \in Tasks |-> FALSE]
    /\ tf = [t \in Tasks |-> <<>>]
    /\ a7ret = [t \in Tasks |-> FALSE]
    /\ shared_sigpending = {}
    /\ sigactions = InitActions
    /\ zombie = FALSE
    /\ panicked = "none"
    /\ sent = 0
    /\ saved = [t \in Tasks |-> <<>>]
    /\ shared_sent = [s \in Sigs |-> 0]
    /\ shared_taken = [s \in Sigs |-> 0]

Next ==
    \/ \E s \in Sigs : \E tid \in {None} \cup {Some(t) : t \in Tasks} :
                           SendSignal(tid, s)
    \/ \E s \in Sigs, t \in Tasks : SendSignalToTask(t, s)
    \/ \E t \in Tasks :
         \/ Enter(t) \/ ActDefault(t) \/ Relock(t) \/ Deliver(t)
         \/ Sigreturn(t) \/ Trap(t)

\* No fairness is assumed: the properties are safety properties, and a
\* user handler need not ever return through sigreturn.
Spec == Init /\ [][Next]_vars

-----------------------------------------------------------------------------
(* Properties                                                              *)

\* A sigreturn from a handler resumes exactly the context that delivery of
\* that handler interrupted (last_context is one slot per thread, so a
\* nested delivery overwrites the outer handler's saved context).
ContextRestored ==
    [][\A t \in Tasks :
         Sigreturn(t) /\ saved[t] # <<>> => tf'[t] = Last(saved[t]).ctx]_vars

\* A sigreturn from a handler puts back the signal mask that was in force
\* before delivery (handle_pending_signals leaves the handler mask in
\* sigmask, and load_trap_for_signal restores it only from a UContext).
MaskRestored ==
    [][\A t \in Tasks :
         Sigreturn(t) /\ saved[t] # <<>> => sigmask'[t] = Last(saved[t]).mask]_vars

=============================================================================
