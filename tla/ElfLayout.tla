----------------------------- MODULE ElfLayout -----------------------------
(***************************************************************************)
(* The address arithmetic of a user address space built by                *)
(* MemorySet::from_elf (src/os/src/mm/memory_set.rs) on full machine       *)
(* words, down to the page-table slots its leaves land in:                 *)
(*   - each PT_LOAD program header becomes a MapArea from                  *)
(*     VirtAddr::from(vaddr) to VirtAddr::from(vaddr + memsz), pushed      *)
(*     (mapped page by page) in header order with the segment's filesz     *)
(*     bytes of file data, which copy_data writes into its pages;          *)
(*     max_end_vpn takes its end;                                          *)
(*   - the Brk area is placed at user_stack_bottom = usize::from(           *)
(*     VirtAddr::from(max_end_vpn)) + PAGE_SIZE, and that usize is         *)
(*     returned as the base of the heap;                                   *)
(*   - MemorySet::append_to(base, new_end), the "used in sbrk" growth of   *)
(*     that area, maps [end, new_end.ceil()).                              *)
(* Mapping page vpn installs a leaf under the index path                   *)
(* VirtPageNum::indexes(vpn) of the process's page table; the table itself *)
(* (page_table.rs) is not in the source tree, and new_from_kernel gives    *)
(* every user table the kernel's root entries for the upper half of the    *)
(* address space (spec section 4.2).  Frames are MemorySet's concern and   *)
(* left out here; of the page contents only where each file byte lands is  *)
(* kept.                                                                   *)
(***************************************************************************)
EXTENDS AddressAlgebra, SequencesExt

CONSTANTS
    Images,  \* ELF images: sequences of PT_LOAD headers [vaddr, memsz, filesz]
    MaxGrow  \* pages one append_to call may ask for

\* The root index takes the top INDEX_BITS of a page number, as SV39's
\* 3 x 9 bits plus the 12-bit offset make up its 39 address bits.
ASSUME VA_WIDTH = PAGE_SIZE_BITS + 3 * INDEX_BITS /\ MaxGrow \in Nat

VARIABLES
    image,       \* the program headers being loaded
    next,        \* index of the next program header; then the Brk step
    max_end_vpn, \* the loop's max_end_vpn
    areas,       \* ranges [start, end) of the areas pushed so far
    leaves,      \* index paths of the leaves installed in the page table
    heap,        \* the usize from_elf returns (user_stack_top)
    loaded,      \* file bytes copied: [seg, off, va], byte off of header
                 \* seg's file image written at virtual address va
    panicked     \* a VirtAddr::from, ceil or VPNRange assert or an unwrap
                 \* failed

vars == <<image, next, max_end_vpn, areas, leaves, heap, loaded, panicked>>

\* MapArea::new: VPNRange from start_va.floor() to end_va.ceil()
AreaOf(start_va, end_va) == [start |-> Floor(start_va), end |-> Ceil(end_va)]

\* MapArea::map (and append_to's loop): map_one, and so PageTable::map,
\* on every page of [from, to), each walking the path indexes(vpn)
LeavesOf(from, to) == {IndexesRiscv(v) : v \in from..(to - 1)}

\* The pages MapArea::copy_data(page_table, data) writes for len bytes: it
\* starts at the area's first page and steps one page per PAGE_SIZE chunk;
\* the loop body runs once even for an empty slice.
CopyPages(a, len) ==
    a.start..(a.start + (IF len = 0 THEN 0 ELSE (len - 1) \div PAGE_SIZE))

\* Where copy_data puts the data: chunk c (bytes c * PAGE_SIZE up to the
\* next chunk) goes to offset 0 of page a.start + c, through
\* translate(current_vpn).unwrap().
CopyData(a, seg, len) ==
    {[seg |-> seg, off |-> k,
      va |-> Add(VaOf(a.start + k \div PAGE_SIZE), k % PAGE_SIZE)] :
        k \in 0..(len - 1)}

Init ==
    /\ image \in Images
    /\ next = 1
    /\ max_end_vpn = 0
    /\ areas = << >>
    /\ leaves = {}
    /\ heap = 0
    /\ loaded = {}
    /\ panicked = FALSE

Fail ==
    /\ panicked' = TRUE
    /\ UNCHANGED <<image, next, max_end_vpn, areas, leaves, heap, loaded>>

\* One iteration of the program-header loop: both ends pass through
\* VirtAddr::from (which asserts), MapArea::new ceils the end (which
\* asserts), the area is pushed with the segment's file bytes (push maps
\* it, then copy_data unwraps a translation of every page it writes), and
\* max_end_vpn becomes its end.
LoadSegment ==
    LET ph       == image[next]
        start_va == ph.vaddr
        end_va   == Add(ph.vaddr, ph.memsz)
        a        == AreaOf(start_va, end_va)
        mapped   == leaves \cup LeavesOf(a.start, a.end)
    IN /\ ~panicked
       /\ next <= Len(image)
       /\ IF /\ VirtAddrOk(start_va) /\ VirtAddrOk(end_va) /\ CeilOk(end_va)
             /\ \A v \in CopyPages(a, ph.filesz) : IndexesRiscv(v) \in mapped
            THEN /\ areas' = Append(areas, a)
                 /\ leaves' = mapped
                 /\ loaded' = loaded \cup CopyData(a, next, ph.filesz)
                 /\ max_end_vpn' = a.end
                 /\ next' = next + 1
                 /\ UNCHANGED <<image, heap, panicked>>
            ELSE Fail

\* After the loop: max_end_va = VirtAddr::from(max_end_vpn); the usize
\* user_stack_bottom = max_end_va.into(), plus one guard page; the Brk area
\* is MapArea::new(user_stack_bottom.into(), user_stack_top.into()) with
\* user_stack_top = user_stack_bottom, pushed empty; user_stack_top is
\* returned.
PlaceBrk ==
    LET bottom == Add(UsizeOfVirtAddr(VaOf(max_end_vpn)), PAGE_SIZE)
    IN /\ ~panicked
       /\ next = Len(image) + 1
       /\ IF VirtAddrOk(bottom) /\ CeilOk(bottom)
            THEN /\ areas' = Append(areas, AreaOf(bottom, bottom))
                 /\ heap' = bottom
                 /\ next' = next + 1
                 /\ UNCHANGED <<image, max_end_vpn, leaves, loaded, panicked>>
            ELSE Fail

\* MemorySet::append_to(heap.into(), new_end.into()) for the heap grown by
\* k pages: the first area starting at heap.floor() is grown by
\* MapArea::append_to(new_end.ceil()): VPNRange::new(end, new_end) asserts
\* end <= new_end, the pages between are mapped, the range ends at new_end.
AppendTo(k) ==
    LET new_end == Add(heap, k * PAGE_SIZE)
        i       == SelectInSeq(areas, LAMBDA a : a.start = Floor(heap))
        e       == Ceil(new_end)
    IN /\ ~panicked
       /\ next = Len(image) + 2
       /\ i # 0
       /\ IF VirtAddrOk(heap) /\ VirtAddrOk(new_end) /\ CeilOk(new_end)
             /\ areas[i].end <= e
            THEN /\ areas' = [areas EXCEPT ![i].end = e]
                 /\ leaves' = leaves \cup LeavesOf(areas[i].end, e)
                 /\ UNCHANGED <<image, next, max_end_vpn, heap, loaded, panicked>>
            ELSE Fail

Next ==
    \/ LoadSegment
    \/ PlaceBrk
    \/ \E k \in 0..MaxGrow : AppendTo(k)

Spec == Init /\ [][Next]_vars

-----------------------------------------------------------------------------
(* Properties                                                              *)

\* Root-table slots of the upper half of the address space, which
\* PageTable::new_from_kernel shares with the kernel's table
KernelRoots == {r \in 0..IndexMask : r >= 2^(INDEX_BITS - 1)}

\* No leaf a process's ELF segments or heap install lies under a root
\* entry shared with the kernel (spec section 4.2: a process must never
\* install its own leaf over the shared kernel region; an address of the
\* wrong canonical width is a fatal assertion before it reaches the page
\* table).
KernelRootsUntouched == \A idx \in leaves : idx[0] \notin KernelRoots

\* Every byte of a PT_LOAD segment's file image is loaded at the segment's
\* p_vaddr plus its offset in the image, as the program header places it
\* (spec section 4.4: from_elf creates [vaddr, vaddr + mem_size) and copies
\* the segment's file-backed bytes in).  copy_data starts writing at the
\* area's first page, which is vaddr rounded down.
SegmentsLoadedAtVaddr ==
    \A b \in loaded : b.va = Add(image[b.seg].vaddr, b.off)

=============================================================================
