---------------------------- MODULE MCMemorySet ----------------------------
(* Instantiations of MemorySet for TLC: the small ELF layouts, the        *)
(* next-state relations of the runs, the symmetry and view.               *)
EXTENDS MemorySet, TLC


\* Program headers are sorted by vaddr, as ELF requires.  ImagesOne: one
\* segment in page 0.  ImagesTwo: segments in pages 0 and 1, the second
\* ending mid-page.
ImagesOne == { << [vaddr |-> 0, memsz |-> 2] >> }
ImagesTwo == { << [vaddr |-> 0, memsz |-> 2] >>,
               << [vaddr |-> 0, memsz |-> 1], [vaddr |-> 2, memsz |-> 1] >> }

MCInsertKinds == {"Stack"}

\* Callers that never munmap: the next-state relation without UnmapPeek.
NextNoMunmap ==
    \/ \E s \in Spaces, img \in Images : FromElf(s, img)
    \/ \E p, c \in Spaces : FromExistedUser(p, c)
    \/ \E s \in Spaces, a, b \in Addrs, k \in InsertKinds : InsertFramedArea(s, a, b, k)
    \/ \E s \in Spaces, a, b \in Addrs : InsertFramedAreaPeekForMmap(s, a, b)
    \/ \E s \in Spaces, v \in VPN : RemoveAreaWithStartVpn(s, v)
    \/ \E s \in Spaces, a, b \in Addrs : ShrinkTo(s, a, b)
    \/ \E s \in Spaces, a, b \in Addrs : AppendTo(s, a, b)
    \/ \E s \in Spaces : RecycleDataPages(s)
    \/ \E s \in Spaces : Discard(s)

SpecNoMunmap == Init /\ [][NextNoMunmap]_vars

\* Nothing reads the page table of a zombie before Discard clears it, and
\* no step follows a panic, so states that differ only there are not told
\* apart.
View == IF panicked THEN <<"panicked", remapped>>
        ELSE <<status, areas,
               [s \in Spaces |-> IF status[s] = "Zombie" THEN << >> ELSE pt[s]],
               free, remapped>>

Sym == Permutations(Spaces) \cup Permutations(Frames)
=============================================================================
