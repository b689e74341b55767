---------------------------- MODULE AddressSpace ----------------------------
(***************************************************************************)
(* What a user address space promises its process (spec sections 4 and    *)
(* 6): the memory the process sees is a partial map from pages to frames,  *)
(* each page of some area kind.  Pages are mapped to frames the allocator  *)
(* gives up, unmapped back to it, copied to fresh frames on fork (all but  *)
(* the Stack and Trap areas), and dropped at exit; the frame of a page is  *)
(* never shared and never in the allocator while mapped.                   *)
(*                                                                         *)
(* MemorySet implements it: see ImplementsAddressSpace there.              *)
(***************************************************************************)
EXTENDS FiniteSets, Functions, TLC

CONSTANTS
    Spaces,  \* address-space slots
    Frames,  \* physical frames
    Vpns,    \* user pages
    Kinds    \* MapAreaType values

VARIABLES
    state,   \* Free, Live or Zombie
    mem,     \* mem[s]: page -> [frame, kind], what process s can reach
    avail,   \* frames the allocator holds
    halted   \* the kernel stopped on a failed assert

vars == <<state, mem, avail, halted>>

NoMem == [v \in {} |-> [frame |-> "none", kind |-> "none"]]

\* Injective maps of the pages P onto frames the allocator holds
Fresh(P) == {f \in [P -> avail] : IsInjective(f)}

FramesOf(m) == {m[v].frame : v \in DOMAIN m}

Init ==
    /\ state = [s \in Spaces |-> "Free"]
    /\ mem = [s \in Spaces |-> NoMem]
    /\ avail = Frames
    /\ halted = FALSE

\* A new process (exec/from_elf): its loadable pages on fresh frames
Create(s) ==
    /\ ~halted /\ state[s] = "Free"
    /\ \E P \in SUBSET Vpns : \E f \in Fresh(P) :
         /\ mem' = [mem EXCEPT ![s] = [v \in P |-> [frame |-> f[v], kind |-> "Elf"]]]
         /\ avail' = avail \ Range(f)
    /\ state' = [state EXCEPT ![s] = "Live"]
    /\ UNCHANGED halted

\* New pages of one kind, on fresh frames, where nothing is mapped
Map(s) ==
    /\ ~halted /\ state[s] = "Live"
    /\ \E k \in Kinds, P \in SUBSET (Vpns \ DOMAIN mem[s]) \ {{}} :
       \E f \in Fresh(P) :
         /\ mem' = [mem EXCEPT ![s] = [v \in P |-> [frame |-> f[v], kind |-> k]] @@ @]
         /\ avail' = avail \ Range(f)
    /\ UNCHANGED <<state, halted>>

\* Mapped pages are given up; their frames go back to the allocator
Unmap(s) ==
    /\ ~halted /\ state[s] = "Live"
    /\ \E P \in SUBSET DOMAIN mem[s] \ {{}} :
         /\ mem' = [mem EXCEPT ![s] = Restrict(@, DOMAIN @ \ P)]
         /\ avail' = avail \cup {mem[s][v].frame : v \in P}
    /\ UNCHANGED <<state, halted>>

\* fork: the child gets a copy of every page of the parent outside the
\* Stack and Trap areas, each on a fresh frame and of the same kind
Fork(p, c) ==
    LET kept == {v \in DOMAIN mem[p] : mem[p][v].kind \notin {"Stack", "Trap"}}
    IN /\ ~halted /\ state[p] = "Live" /\ state[c] = "Free"
       /\ \E f \in Fresh(kept) :
            /\ mem' = [mem EXCEPT ![c] = [v \in kept |->
                                            [frame |-> f[v], kind |-> mem[p][v].kind]]]
            /\ avail' = avail \ Range(f)
       /\ state' = [state EXCEPT ![c] = "Live"]
       /\ UNCHANGED halted

\* exit: every page is dropped and its frame freed
Exit(s) ==
    /\ ~halted /\ state[s] = "Live"
    /\ state' = [state EXCEPT ![s] = "Zombie"]
    /\ mem' = [mem EXCEPT ![s] = NoMem]
    /\ avail' = avail \cup FramesOf(mem[s])
    /\ UNCHANGED halted

\* the parent reaps the process; the slot is free again
Reap(s) ==
    /\ ~halted /\ state[s] = "Zombie"
    /\ state' = [state EXCEPT ![s] = "Free"]
    /\ UNCHANGED <<mem, avail, halted>>

\* a failed assert or allocation stops the kernel
Halt ==
    /\ ~halted
    /\ halted' = TRUE
    /\ UNCHANGED <<state, mem, avail>>

Next ==
    \/ \E s \in Spaces : Create(s) \/ Map(s) \/ Unmap(s) \/ Exit(s) \/ Reap(s)
    \/ \E p, c \in Spaces : Fork(p, c)
    \/ Halt

Spec == Init /\ [][Next]_vars

=============================================================================
