---------------------------- MODULE MCElfLayout ----------------------------
(* ElfLayout on an 8-bit word with 2-byte pages, 2-bit page-table indexes *)
(* and a 7-bit virtual address width: From<usize> for VirtAddr accepts    *)
(* 0..127 and 128..255, the kernel's root slots cover 64..127.            *)
EXTENDS ElfLayout

\* Segments below the upper half, straddling it, inside it, and reaching
\* past the valid width; one or two of them, sorted by vaddr as ELF
\* requires of PT_LOAD headers.
Segs == {[vaddr |-> v, memsz |-> m, filesz |-> m] :
            v \in {0, 58, 62, 96, 124}, m \in {1, 4}}

MCImages == {<<s>> : s \in Segs} \cup
            {<<s, t>> \in Segs \X Segs : s.vaddr + s.memsz <= t.vaddr}

\* Low segments at page-aligned and unaligned p_vaddr (ELF only requires
\* p_vaddr and p_offset to agree modulo the page size), with file images
\* from empty to the whole segment; one or two, sorted and disjoint.
DataSegs == {s \in [vaddr : {0, 1, 5}, memsz : {1, 3}, filesz : {0, 1, 3}] :
                s.filesz <= s.memsz}

MCDataImages == {<<s>> : s \in DataSegs} \cup
                {<<s, t>> \in DataSegs \X DataSegs : s.vaddr + s.memsz <= t.vaddr}
====
