-------------------------- MODULE MCFindInsertAddr --------------------------
(* find_insert_addr at a 6-bit usize with 16-byte user space (VA_WIDTH 4)  *)
(* and 2-byte pages: every MemorySet of at most two areas, every aligned   *)
(* hint, sizes of one to three pages.                                      *)
EXTENDS FindInsertAddr

UserVpns == 0..7

\* A non-empty area [start, end) of user pages
Ranges == {r \in [start : UserVpns, end : 1..8] : r.start < r.end}

\* MemorySets of at most two areas, which never overlap
MCLayouts ==
    {{}} \cup {{a} : a \in Ranges}
         \cup {L \in {{a, b} : a, b \in Ranges} :
                 \A a, b \in L : a = b \/ a.end <= b.start \/ b.end <= a.start}

\* mmap passes a non-zero, page-aligned top of the free region
MCHints == {h \in 2..14 : h % 2 = 0}
MCSizes == {2, 4, 6}
=============================================================================
