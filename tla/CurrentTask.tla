---------------------------- MODULE CurrentTask -----------------------------
(***************************************************************************)
(* The current-task pointer of one CPU (src/os/src/task/current.rs) and   *)
(* the interrupt-enable bit that guards it.                                *)
(*                                                                         *)
(* current_task_ptr and set_current_task_ptr bracket their access to       *)
(* CURRENT_TASK_PTR with local_irq_save_and_disable / local_irq_restore.   *)
(* The status CSR is a word of CsrBits bits, manipulated with the code's  *)
(* own masks: sstatus with SIE at bit 1 on RISC-V, CRMD with IE at bit 2   *)
(* (and PLV 0 in bits 0-1) on LoongArch.                                   *)
(*                                                                         *)
(* The pointer holds one strong count of the Arc<Task> it points to        *)
(* (Arc::into_raw in init_current, dropped by clean_current, handed back   *)
(* by clean_current_without_drop).  The scheduler that calls these is not  *)
(* in the source tree: it is modelled as a FIFO ready queue that owns one  *)
(* count per queued task, switched by the timer interrupt, which traps     *)
(* only while the interrupt-enable bit is set.  A trap saves and restores  *)
(* that bit itself, so the pairs run inside it leave the CSR as found.     *)
(***************************************************************************)
EXTENDS Integers, Sequences, FiniteSets, SequencesExt, Bitwise

CONSTANTS
    Arch,      \* "riscv64" or "loongarch64"
    Tasks,     \* tasks scheduled on this CPU
    CsrBits,   \* width of the modelled CSR word
    MaxClones  \* bound on TaskRef clones held at once

ASSUME Arch \in {"riscv64", "loongarch64"} /\ CsrBits >= 3 /\ MaxClones \in Nat

Mask    == 2^CsrBits - 1
SIE_BIT == 2          \* const SIE_BIT: usize = 1 << 1
IE_BIT  == IF Arch = "riscv64" THEN SIE_BIT ELSE 4   \* CRMD.IE is 0x4

Null == "Null"

VARIABLES
    csr,       \* sstatus (RISC-V) or CRMD (LoongArch)
    ptr,       \* CURRENT_TASK_PTR
    rc,        \* Arc strong count of each task
    clones,    \* TaskRefs obtained by CurrentTask::clone and not yet dropped
    ready,     \* the scheduler's ready queue
    running,   \* the task the CPU runs
    done       \* tasks that have exited

vars == <<csr, ptr, rc, clones, ready, running, done>>

-----------------------------------------------------------------------------
(* Interrupt save and restore                                              *)

\* Variant of the saved flags that keeps the IE bit of CRMD (0x4), not bit 1.
SavedFlagsIE(old) == old & 4

\* local_irq_save_and_disable: the value returned, flags & SIE_BIT, where
\* flags is the old CSR on both architectures.
SavedFlags(old) == old & SIE_BIT

\* The CSR after local_irq_save_and_disable: csrrc clears SIE; on LoongArch
\* andn clears IE (0x4) and csrwr writes it back.
Disabled(old) ==
    IF Arch = "riscv64" THEN old & (Mask - SIE_BIT) ELSE old & (Mask - 4)

\* Variant of local_irq_restore that writes nothing back.
RestoredNoSet(c, flags) == c

\* The CSR after local_irq_restore(flags): csrrs sets the bits of flags; on
\* LoongArch IE is set again only if flags & 0x4 != 0.
Restored(c, flags) ==
    IF Arch = "riscv64" THEN c | flags
    ELSE IF (flags & 4) # 0 THEN c | 4 ELSE c

\* One save/disable, access, restore bracket, as current_task_ptr and
\* set_current_task_ptr run it.
Bracket(c) == Restored(Disabled(c), SavedFlags(c))

IrqOn(c) == (c & IE_BIT) # 0

-----------------------------------------------------------------------------
(* Operations of the running task                                          *)

\* current_task(): current_task_ptr reads the pointer, and get() expects it
\* non-null; the CurrentTask is a ManuallyDrop, so no count changes.
CurrentTaskCall ==
    /\ running # Null /\ ptr # Null
    /\ csr' = Bracket(csr)
    /\ UNCHANGED <<ptr, rc, clones, ready, running, done>>

\* CurrentTask::clone: a new TaskRef, one more strong count.
Clone ==
    /\ running # Null /\ ptr # Null
    /\ clones[ptr] < MaxClones
    /\ csr' = Bracket(csr)
    /\ rc' = [rc EXCEPT ![ptr] = @ + 1]
    /\ clones' = [clones EXCEPT ![ptr] = @ + 1]
    /\ UNCHANGED <<ptr, ready, running, done>>

\* The running task drops a TaskRef it cloned.
DropClone ==
    /\ running # Null /\ clones[running] > 0
    /\ rc' = [rc EXCEPT ![running] = @ - 1]
    /\ clones' = [clones EXCEPT ![running] = @ - 1]
    /\ UNCHANGED <<csr, ptr, ready, running, done>>

\* CurrentTask::init_current(task): Arc::into_raw moves the caller's count
\* into the pointer, written by one set_current_task_ptr bracket.
InitCurrent(c) == Bracket(c)

\* Variant of clean_current that forgets the pointer's count.
CleanCurrentNoDrop(r) == r

\* CurrentTask::clean_current: get(), then ManuallyDrop::into_inner drops
\* the pointer's count; a read and a write bracket.
CleanCurrent(r) == [r EXCEPT ![ptr] = @ - 1]

CleanCurrentCsr(c) == Bracket(Bracket(c))

\* The running task exits: its clones are gone, clean_current drops the
\* pointer's count, and the next queued task is installed by init_current.
Exit ==
    /\ running # Null /\ ptr # Null /\ clones[running] = 0
    /\ rc' = CleanCurrent(rc)
    /\ IF ready = <<>>
       THEN /\ ptr' = Null /\ running' = Null
            /\ csr' = CleanCurrentCsr(csr)
            /\ UNCHANGED ready
       ELSE /\ ptr' = Head(ready) /\ running' = Head(ready)
            /\ csr' = InitCurrent(CleanCurrentCsr(csr))
            /\ ready' = Tail(ready)
    /\ done' = done \cup {running}
    /\ UNCHANGED clones

\* The switch's queue: the head leaves, the preempted task goes to the back.
Requeue(q, t) == Append(Tail(q), t)

\* Timer interrupt (trap_handler, SupervisorTimer, then the scheduler's
\* switch): taken only while interrupts are enabled.  Inside the trap IE is
\* clear, so the brackets of clean_current_without_drop and init_current
\* leave it clear, and the trap return restores the saved IE.  The raw
\* count clean_current_without_drop returns goes back to the queue with
\* the task, and the head's count moves into the pointer.
Timer ==
    /\ running # Null /\ IrqOn(csr) /\ ready # <<>>
    /\ ptr' = Head(ready)
    /\ running' = Head(ready)
    /\ ready' = Requeue(ready, running)
    /\ UNCHANGED <<csr, rc, clones, done>>

-----------------------------------------------------------------------------

\* The first task runs with interrupts enabled; the others wait in the
\* queue, each count owned by the pointer or the queue.
Init ==
    /\ \E first \in Tasks, order \in [1..(Cardinality(Tasks) - 1) -> Tasks] :
         /\ running = first /\ ptr = first
         /\ ready = order
         /\ ToSet(order) = Tasks \ {first}
    /\ csr = IE_BIT
    /\ rc = [t \in Tasks |-> 1]
    /\ clones = [t \in Tasks |-> 0]
    /\ done = {}

Next ==
    \/ CurrentTaskCall \/ Clone \/ DropClone \/ Exit \/ Timer

\* The timer interrupt is taken whenever it is enabled; no task is obliged
\* to call anything, drop a clone or exit.
Spec == Init /\ [][Next]_vars /\ WF_vars(Timer)

-----------------------------------------------------------------------------
(* Properties                                                              *)

\* Every strong count is owned by exactly one holder: the pointer, the
\* ready queue or a clone; an exited task has none left.  A count lost or
\* dropped twice across into_raw, ManuallyDrop and from_raw breaks it.
RefsAccounted ==
    \A t \in Tasks :
        rc[t] = (IF ptr = t THEN 1 ELSE 0)
                + (IF t \in ToSet(ready) THEN 1 ELSE 0) + clones[t]

\* While a task runs, interrupts are enabled: every save/disable bracket
\* of current_task_ptr and set_current_task_ptr restores the bit it found.
IrqEnabled == running # Null => IrqOn(csr)

\* Every task waiting in the ready queue eventually runs, however long the
\* running task computes, since the timer preempts it.
ReadyTaskRuns == \A t \in Tasks : t \in ToSet(ready) ~> running = t

=============================================================================
