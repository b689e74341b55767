----------------------------- MODULE MemorySet -----------------------------
(***************************************************************************)
(* User address spaces of the kernel: src/os/src/mm/memory_set.rs.         *)
(*                                                                         *)
(* A MemorySet is a page table plus a Vec<MapArea>.  Every user area uses  *)
(* MapType::Framed: each page is backed by a frame from the allocator,     *)
(* owned by the area's data_frames map and dropped (freed) with it.        *)
(* The page table (page_table.rs, not in the source tree) and the frame    *)
(* allocator are modelled from the spec: map installs a leaf, unmap clears *)
(* it, frame_alloc hands out a frame nobody owns.                          *)
(*                                                                         *)
(* Data is abstracted: a page table maps a VPN to a frame or NoFrame,      *)
(* permissions and page contents are left out, addresses are small         *)
(* integers with a small PAGE_SIZE so floor/ceil still round.              *)
(***************************************************************************)
EXTENDS Integers, Sequences, SequencesExt, FiniteSets

CONSTANTS
    Spaces,     \* slots for user address spaces (one per process)
    Frames,     \* physical frames the allocator can hand out (model values)
    NoFrame,    \* a page-table entry that is not valid
    MaxVpn,     \* user pages are 0..MaxVpn
    PAGE_SIZE,  \* bytes per page
    Images,     \* ELF images: sequences of PT_LOAD segments [vaddr, memsz]
    InsertKinds,\* MapAreaType values callers pass to insert_framed_area
    MaxAreas,   \* bound on the length of one MemorySet's areas
    Addrs       \* virtual addresses callers pass (a subset of VA)

ASSUME NoFrame \notin Frames
ASSUME MaxVpn \in Nat /\ PAGE_SIZE \in Nat \ {0}

VPN == 0..MaxVpn
VA  == 0..(MaxVpn + 1) * PAGE_SIZE

ASSUME Addrs \subseteq VA

\* MapAreaType
Kinds == {"Elf", "Stack", "Brk", "Mmap", "Trap", "Shm"}

VARIABLES
    status,   \* Free: no MemorySet; Live: in use; Zombie: after recycle_data_pages
    areas,    \* MemorySet.areas, a sequence of MapArea records
    pt,       \* MemorySet.page_table: leaf entry per VPN
    free,     \* frames the allocator holds
    panicked, \* the kernel hit a failed unwrap/assert
    remapped  \* history: some PageTable::map found a valid leaf already there

vars == <<status, areas, pt, free, panicked, remapped>>

-----------------------------------------------------------------------------
(* Address algebra used here (address.rs).                                 *)

\* VirtAddr::floor
Floor(va) == va \div PAGE_SIZE
\* VirtAddr::ceil; callers only pass va # 0 (it asserts)
Ceil(va) == (va - 1 + PAGE_SIZE) \div PAGE_SIZE
\* From<VirtPageNum> for VirtAddr
VaOf(vpn) == vpn * PAGE_SIZE

\* The VPNs a SimpleRange [l, r) iterates over
Span(l, r) == l..(r - 1)
Pages(a) == Span(a.start, a.end)

-----------------------------------------------------------------------------
(* MapArea                                                                 *)

EmptyFrames == [v \in {} |-> NoFrame]

\* MapArea::new: floor of the start, ceil of the end, no frames yet
NewMapArea(start_va, end_va, kind) ==
    [start |-> Floor(start_va), end |-> Ceil(end_va), kind |-> kind,
     frames |-> EmptyFrames]

\* Variant of FromAnother that clones data_frames along with the range.
FromAnotherShared(a) == a

\* MapArea::from_another: same range and kind, empty data_frames
FromAnother(a) == [a EXCEPT !.frames = EmptyFrames]

\* frame_alloc for each page of P, lowest page first.  The allocator's
\* policy is outside the source tree: it hands out some free frame, and
\* runs out when none is left (frame_alloc().unwrap() then panics).
RECURSIVE AllocFrames(_, _)
AllocFrames(P, F) ==
    IF P = {} \/ F = {} THEN EmptyFrames
    ELSE LET v == Min(P)
             f == CHOOSE x \in F : TRUE
         IN (v :> f) @@ AllocFrames(P \ {v}, F \ {f})

\* Variant of MapPages whose map_one installs the leaf but never records
\* the frame in data_frames.
MapPagesUnrecorded(a, P, table, fr) ==
    LET got == AllocFrames(P, fr)
    IN [area |-> a,
        pt   |-> [v \in VPN |-> IF v \in DOMAIN got THEN got[v] ELSE table[v]],
        free |-> fr \ Range(got),
        oom  |-> Cardinality(P) > Cardinality(fr),
        clash |-> \E v \in DOMAIN got : table[v] # NoFrame]

\* MapArea::map_one over the pages P: a fresh frame per page is inserted in
\* data_frames (an older frame under the same key is dropped, i.e. freed)
\* and a leaf installed in the page table.  Result: [area, pt, free, oom,
\* clash]; clash records a map over a page whose leaf is already valid.
MapPages(a, P, table, fr) ==
    LET got    == AllocFrames(P, fr)
        old    == {a.frames[v] : v \in P \cap DOMAIN a.frames}
    IN [area |-> [a EXCEPT !.frames = got @@ a.frames],
        pt   |-> [v \in VPN |-> IF v \in DOMAIN got THEN got[v] ELSE table[v]],
        free |-> (fr \ Range(got)) \cup old,
        oom  |-> Cardinality(P) > Cardinality(fr),
        clash |-> \E v \in DOMAIN got : table[v] # NoFrame]

\* Variant of UnmapPages whose unmap_one drops the frame but leaves the leaf.
UnmapPagesKeepLeaf(a, P, table, fr) ==
    [area |-> [a EXCEPT !.frames = Restrict(a.frames, DOMAIN a.frames \ P)],
     pt   |-> table,
     free |-> fr \cup {a.frames[v] : v \in P \cap DOMAIN a.frames}]

\* Variant of UnmapPages that forgets the FrameTracker instead of freeing it.
UnmapPagesNoFree(a, P, table, fr) ==
    [area |-> [a EXCEPT !.frames = Restrict(a.frames, DOMAIN a.frames \ P)],
     pt   |-> [v \in VPN |-> IF v \in P THEN NoFrame ELSE table[v]],
     free |-> fr]

\* MapArea::unmap_one over the pages P: the frame is removed from
\* data_frames (and freed when dropped), the leaf cleared.
UnmapPages(a, P, table, fr) ==
    [area |-> [a EXCEPT !.frames = Restrict(a.frames, DOMAIN a.frames \ P)],
     pt   |-> [v \in VPN |-> IF v \in P THEN NoFrame ELSE table[v]],
     free |-> fr \cup {a.frames[v] : v \in P \cap DOMAIN a.frames}]

\* Variant of AreaShrinkTo that unmaps the tail but keeps the old end.
AreaShrinkToKeepEnd(a, new_end, table, fr) ==
    UnmapPages(a, Span(new_end, a.end), table, fr)

\* MapArea::shrink_to: unmap [new_end, end), then the range ends at new_end
AreaShrinkTo(a, new_end, table, fr) ==
    LET u == UnmapPages(a, Span(new_end, a.end), table, fr)
    IN [u EXCEPT !.area.end = new_end]

\* Variant of AreaAppendTo that maps one page short of new_end.
AreaAppendToShort(a, new_end, table, fr) ==
    LET m == MapPages(a, Span(a.end, new_end - 1), table, fr)
    IN [m EXCEPT !.area.end = new_end]

\* MapArea::append_to: map [end, new_end), then the range ends at new_end
AreaAppendTo(a, new_end, table, fr) ==
    LET m == MapPages(a, Span(a.end, new_end), table, fr)
    IN [m EXCEPT !.area.end = new_end]

-----------------------------------------------------------------------------
(* MemorySet helpers                                                       *)

\* MemorySet::push: map the area, then append it.
\* st = [areas, pt, free, oom, clash]; oom records a failed frame_alloc.
Push(st, a) ==
    LET m == MapPages(a, Pages(a), st.pt, st.free)
    IN [areas |-> Append(st.areas, m.area), pt |-> m.pt, free |-> m.free,
        oom |-> st.oom \/ m.oom, clash |-> st.clash \/ m.clash]

\* MemorySet::new_from_kernel: no user areas, no user leaves
NewFromKernel(fr) ==
    [areas |-> << >>, pt |-> [v \in VPN |-> NoFrame], free |-> fr, oom |-> FALSE,
     clash |-> FALSE]

\* The MemorySet of s as Push sees it
Current(s) == [areas |-> areas[s], pt |-> pt[s], free |-> free, oom |-> FALSE,
              clash |-> FALSE]

\* Index of the first area whose range starts at vpn, 0 if none
FirstWithStart(s, vpn) == SelectInSeq(areas[s], LAMBDA a : a.start = vpn)

\* MemorySet::translate
Translate(s, vpn) == pt[s][vpn]

\* Pages any area of s covers, except area i
CoveredExcept(s, i) ==
    UNION {Pages(areas[s][j]) : j \in (DOMAIN areas[s]) \ {i}}

\* A failed assert: the kernel stops with the state it had.
Panic ==
    /\ panicked' = TRUE
    /\ UNCHANGED <<status, areas, pt, free, remapped>>

\* Commit the MemorySet st as the one of s, which becomes Live; a failed
\* frame_alloc on the way panicked the kernel instead.
Install(s, st) ==
    IF st.oom
      THEN Panic
      ELSE /\ status' = [status EXCEPT ![s] = "Live"]
           /\ areas' = [areas EXCEPT ![s] = st.areas]
           /\ pt'    = [pt EXCEPT ![s] = st.pt]
           /\ free'  = st.free
           /\ remapped' = (remapped \/ st.clash)
           /\ UNCHANGED panicked

-----------------------------------------------------------------------------
(* Operations                                                              *)

Init ==
    /\ status = [s \in Spaces |-> "Free"]
    /\ areas = [s \in Spaces |-> << >>]
    /\ pt = [s \in Spaces |-> [v \in VPN |-> NoFrame]]
    /\ free = Frames
    /\ panicked = FALSE
    /\ remapped = FALSE

\* MemorySet::from_elf: one Framed area per PT_LOAD segment, pushed in
\* program-header order, then an empty Brk area one guard page above the
\* end of the LAST segment pushed.
FromElf(s, img) ==
    LET segs   == [i \in DOMAIN img |->
                     NewMapArea(img[i].vaddr, img[i].vaddr + img[i].memsz, "Elf")]
        loaded == FoldLeft(Push, NewFromKernel(free), segs)
        maxEnd == IF segs = << >> THEN 0 ELSE segs[Len(segs)].end
        bottom == VaOf(maxEnd) + PAGE_SIZE
        st     == Push(loaded, NewMapArea(bottom, bottom, "Brk"))
    IN /\ ~panicked
       /\ status[s] = "Free"
       /\ Install(s, st)

\* MemorySet::from_existed_user: every area but Stack and Trap is cloned
\* (from_another), pushed, and its pages copied from the parent; copying
\* does translate(vpn).unwrap() on the parent, which panics on a page the
\* parent has no leaf for.
FromExistedUser(p, c) ==
    LET copied == SelectSeq(areas[p], LAMBDA a : a.kind \notin {"Stack", "Trap"})
        unbacked == \E i \in DOMAIN copied :
                      \E v \in Pages(copied[i]) : Translate(p, v) = NoFrame
        st == FoldLeft(Push, NewFromKernel(free),
                       [i \in DOMAIN copied |-> FromAnother(copied[i])])
    IN /\ ~panicked
       /\ status[p] = "Live" /\ status[c] = "Free"
       /\ IF unbacked
            THEN Panic
            ELSE Install(c, st)

\* Variant of RangeOk without the start <= end assert of SimpleRange::new.
RangeOkNoOrder(start_va, end_va) == end_va # 0

\* VPNRange::new(start_va.floor(), end_va.ceil()) succeeds: ceil asserts a
\* non-zero address, SimpleRange::new asserts start <= end.
RangeOk(start_va, end_va) == end_va # 0 /\ Floor(start_va) <= Ceil(end_va)

\* MemorySet::insert_framed_area: "Assume that no conflicts" - the caller
\* passes a range no area of s covers.
InsertFramedArea(s, start_va, end_va, kind) ==
    LET a == NewMapArea(start_va, end_va, kind)
    IN /\ ~panicked
       /\ status[s] = "Live"
       /\ Len(areas[s]) < MaxAreas
       /\ Pages(a) \cap CoveredExcept(s, 0) = {}
       /\ IF RangeOk(start_va, end_va)
            THEN Install(s, Push(Current(s), a))
            ELSE Panic

\* Variant of Overlaps that looks at the first page of the range only.
OverlapsFirstPage(s, start_va, end_va) ==
    Floor(start_va) < Ceil(end_va) /\ pt[s][Floor(start_va)] # NoFrame

\* The scan of insert_framed_area_peek_for_mmap: some page of
\* [floor(start_va), ceil(end_va)) has a valid leaf.
Overlaps(s, start_va, end_va) ==
    \E v \in Span(Floor(start_va), Ceil(end_va)) : pt[s][v] # NoFrame

\* MemorySet::insert_framed_area_peek_for_mmap: if any page of the range
\* has a valid leaf, report overlap and change nothing; otherwise insert
\* an Mmap area.
InsertFramedAreaPeekForMmap(s, start_va, end_va) ==
    /\ ~panicked
    /\ status[s] = "Live"
    /\ Len(areas[s]) < MaxAreas
    /\ CASE ~RangeOk(start_va, end_va) -> Panic
         [] Overlaps(s, start_va, end_va) ->
              UNCHANGED vars
         [] OTHER -> Install(s, Push(Current(s), NewMapArea(start_va, end_va, "Mmap")))

\* MemorySet::unmap_peek: if any page of the range lacks a valid leaf,
\* report a gap and change nothing; otherwise unmap the first area that
\* starts at floor(start_va).  The area stays in areas.
UnmapPeek(s, start_va, end_va) ==
    LET i == FirstWithStart(s, Floor(start_va))
        u == UnmapPages(areas[s][i], Pages(areas[s][i]), pt[s], free)
    IN /\ ~panicked
       /\ status[s] = "Live"
       /\ CASE ~RangeOk(start_va, end_va) -> Panic
            [] \/ \E v \in Span(Floor(start_va), Ceil(end_va)) : pt[s][v] = NoFrame
               \/ i = 0 -> UNCHANGED vars
            [] OTHER -> /\ areas' = [areas EXCEPT ![s][i] = u.area]
                        /\ pt' = [pt EXCEPT ![s] = u.pt]
                        /\ free' = u.free
                        /\ UNCHANGED <<status, panicked, remapped>>

\* Variant of RemoveAreaWithStartVpn that drops the area from areas without
\* unmapping its pages.
RemoveAreaNoUnmap(s, vpn) ==
    LET i == FirstWithStart(s, vpn)
    IN /\ ~panicked
       /\ status[s] = "Live"
       /\ i # 0
       /\ areas' = [areas EXCEPT ![s] = RemoveAt(@, i)]
       /\ UNCHANGED <<status, pt, free, panicked, remapped>>

\* MemorySet::remove_area_with_start_vpn: unmap the first area starting at
\* vpn and remove it from areas; no area starts there: nothing happens.
RemoveAreaWithStartVpn(s, vpn) ==
    LET i == FirstWithStart(s, vpn)
        u == UnmapPages(areas[s][i], Pages(areas[s][i]), pt[s], free)
    IN /\ ~panicked
       /\ status[s] = "Live"
       /\ i # 0
       /\ areas' = [areas EXCEPT ![s] = RemoveAt(@, i)]
       /\ pt' = [pt EXCEPT ![s] = u.pt]
       /\ free' = u.free
       /\ UNCHANGED <<status, panicked, remapped>>

\* MemorySet::shrink_to: MapArea::shrink_to on the first area starting at
\* floor(start); new_end.ceil() asserts new_end # 0, and the two VPNRange::new
\* assert new_end <= end and start <= new_end.  No such area: returns false.
ShrinkTo(s, start, new_end) ==
    LET i == FirstWithStart(s, Floor(start))
        a == areas[s][i]
        u == AreaShrinkTo(a, Ceil(new_end), pt[s], free)
    IN /\ ~panicked
       /\ status[s] = "Live"
       /\ i # 0
       /\ IF new_end # 0 /\ a.start <= Ceil(new_end) /\ Ceil(new_end) <= a.end
            THEN /\ areas' = [areas EXCEPT ![s][i] = u.area]
                 /\ pt' = [pt EXCEPT ![s] = u.pt]
                 /\ free' = u.free
                 /\ UNCHANGED <<status, panicked, remapped>>
            ELSE Panic

\* MemorySet::append_to: MapArea::append_to on the first area starting at
\* floor(start); VPNRange::new asserts end <= new_end.  The caller only
\* grows into pages no other area covers.
AppendTo(s, start, new_end) ==
    LET i == FirstWithStart(s, Floor(start))
        m == AreaAppendTo(areas[s][i], Ceil(new_end), pt[s], free)
    IN /\ ~panicked
       /\ status[s] = "Live"
       /\ i # 0
       /\ Span(areas[s][i].end, Ceil(new_end)) \cap CoveredExcept(s, i) = {}
       /\ IF new_end # 0 /\ areas[s][i].end <= Ceil(new_end)
            THEN Install(s, [Current(s) EXCEPT !.areas[i] = m.area, !.pt = m.pt,
                               !.free = m.free, !.oom = m.oom, !.clash = m.clash])
            ELSE Panic

\* Variant of RecycleDataPages that clears areas without dropping the frames.
RecycleLeak(s) ==
    /\ ~panicked
    /\ status[s] = "Live"
    /\ areas' = [areas EXCEPT ![s] = << >>]
    /\ status' = [status EXCEPT ![s] = "Zombie"]
    /\ UNCHANGED <<pt, free, panicked, remapped>>

\* MemorySet::recycle_data_pages at process exit: every area is dropped
\* (its frames freed); the page table, leaves included, stays.
RecycleDataPages(s) ==
    /\ ~panicked
    /\ status[s] = "Live"
    /\ areas' = [areas EXCEPT ![s] = << >>]
    /\ free' = free \cup UNION {Range(areas[s][i].frames) : i \in DOMAIN areas[s]}
    /\ status' = [status EXCEPT ![s] = "Zombie"]
    /\ UNCHANGED <<pt, panicked, remapped>>

\* Dropping the MemorySet once the process is reaped: its page table goes.
Discard(s) ==
    /\ ~panicked
    /\ status[s] = "Zombie"
    /\ status' = [status EXCEPT ![s] = "Free"]
    /\ pt' = [pt EXCEPT ![s] = [v \in VPN |-> NoFrame]]
    /\ UNCHANGED <<areas, free, panicked, remapped>>

Next ==
    \/ \E s \in Spaces, img \in Images : FromElf(s, img)
    \/ \E p, c \in Spaces : FromExistedUser(p, c)
    \/ \E s \in Spaces, a, b \in Addrs, k \in InsertKinds : InsertFramedArea(s, a, b, k)
    \/ \E s \in Spaces, a, b \in Addrs : InsertFramedAreaPeekForMmap(s, a, b)
    \/ \E s \in Spaces, a, b \in Addrs : UnmapPeek(s, a, b)
    \/ \E s \in Spaces, v \in VPN : RemoveAreaWithStartVpn(s, v)
    \/ \E s \in Spaces, a, b \in Addrs : ShrinkTo(s, a, b)
    \/ \E s \in Spaces, a, b \in Addrs : AppendTo(s, a, b)
    \/ \E s \in Spaces : RecycleDataPages(s)
    \/ \E s \in Spaces : Discard(s)

Spec == Init /\ [][Next]_vars

-----------------------------------------------------------------------------
(* Properties                                                              *)

Live == {s \in Spaces : status[s] = "Live"}

IsArea(a) ==
    /\ a.kind \in Kinds
    /\ a.start \in VPN \cup {MaxVpn + 1} /\ a.end \in VPN \cup {MaxVpn + 1}
    /\ a.start <= a.end
    /\ DOMAIN a.frames \subseteq Pages(a)
    /\ \A v \in DOMAIN a.frames : a.frames[v] \in Frames

\* Type invariant; it includes what SimpleRange::new asserts (start <= end)
\* and that an area's data_frames only holds pages of its own range.
TypeOK ==
    /\ status \in [Spaces -> {"Free", "Live", "Zombie"}]
    /\ \A s \in Spaces : \A i \in DOMAIN areas[s] : IsArea(areas[s][i])
    /\ \A s \in Spaces : Len(areas[s]) <= MaxAreas
    /\ pt \in [Spaces -> [VPN -> Frames \cup {NoFrame}]]
    /\ free \subseteq Frames
    /\ panicked \in BOOLEAN
    /\ remapped \in BOOLEAN

\* A frame reachable through the page table of a live process is not in
\* the allocator's free pool and is reachable at exactly one (space, page):
\* fork (from_existed_user), munmap, shrink and removal never leave two
\* processes, or a process and the allocator, sharing a frame.
FramesExclusive ==
    LET leaves == {<<s, v>> \in Live \X VPN : pt[s][v] # NoFrame}
    IN /\ \A l \in leaves : pt[l[1]][l[2]] \notin free
       /\ \A l, m \in leaves : l # m => pt[l[1]][l[2]] # pt[m[1]][m[2]]

\* Every valid leaf of s points at a frame that one of the MapAreas of s
\* owns for that very page (data_frames).
Backed(s) ==
    \A v \in VPN :
        pt[s][v] # NoFrame =>
            \E i \in DOMAIN areas[s] :
                v \in DOMAIN areas[s][i].frames /\ areas[s][i].frames[v] = pt[s][v]

\* In a live process every leaf is backed by its own area's frame, so the
\* frame is freed exactly when the area that maps it drops it: munmap,
\* shrink, removal and fork never leave a leaf behind its area.
PtBacked == \A s \in Live : Backed(s)

\* The spec's Map Area lifecycle: an area is destroyed only after all its
\* pages are unmapped, so as long as a MemorySet exists (live, or kept
\* after recycle_data_pages at exit) no leaf outlives the area owning it.
LeavesOwned == \A s \in Spaces : status[s] # "Free" => Backed(s)

\* The Page Table invariant of the spec: for every page a MapArea of a live
\* process covers, the page table holds a valid leaf, and it is the frame
\* that area owns for the page.
AreasMapped ==
    \A s \in Live : \A i \in DOMAIN areas[s] : \A v \in Pages(areas[s][i]) :
        /\ v \in DOMAIN areas[s][i].frames
        /\ pt[s][v] = areas[s][i].frames[v]

\* The Memory Set invariant of the spec: no two MapAreas of a live process
\* cover a common page.
AreasDisjoint ==
    \A s \in Live : \A i, j \in DOMAIN areas[s] :
        i # j => Pages(areas[s][i]) \cap Pages(areas[s][j]) = {}

\* Owners of frame f: the (space, area index, page) whose data_frames holds f
Owners(f) == {<<s, i, v>> \in Spaces \X (1..MaxAreas) \X VPN :
                 /\ i \in DOMAIN areas[s]
                 /\ v \in DOMAIN areas[s][i].frames
                 /\ areas[s][i].frames[v] = f}

\* Frame conservation: every frame is either in the allocator or owned by
\* exactly one page of one MapArea (FrameTracker is moved, never cloned),
\* across fork, munmap, shrink, append, removal and exit: no frame leaks
\* and none is handed out twice.
FramesConserved ==
    \A f \in Frames :
        IF f \in free THEN Owners(f) = {} ELSE Cardinality(Owners(f)) = 1

\* PageTable::map is never called on a page whose leaf is already valid
\* (the spec's precondition of map: a double map silently drops the old
\* leaf, and the frame its area still owns is no longer reachable).  Every
\* map of every area pushed by from_elf, fork, insertion, mmap and append
\* is checked, inside the step as well as across steps.
NoDoubleMap == ~remapped

-----------------------------------------------------------------------------
(* Refinement: MemorySet implements AddressSpace                           *)

\* Kind of the first area of s covering page v; a page no area covers has
\* none.
AbsKind(s, v) ==
    LET I == {i \in DOMAIN areas[s] : v \in Pages(areas[s][i])}
    IN IF I = {} THEN "Unowned" ELSE areas[s][Min(I)].kind

\* What process s can reach: the valid leaves of its page table while it
\* is live, each with the kind of its area.  A zombie's leftover table is
\* not reachable: the process no longer runs.
AbsMem ==
    [s \in Spaces |->
        IF status[s] = "Live"
          THEN [v \in {x \in VPN : pt[s][x] # NoFrame} |->
                  [frame |-> pt[s][v], kind |-> AbsKind(s, v)]]
          ELSE [v \in {} |-> [frame |-> "none", kind |-> "none"]]]

AS == INSTANCE AddressSpace
        WITH Vpns <- VPN, state <- status, mem <- AbsMem, avail <- free,
             halted <- panicked

\* Every step of from_elf, from_existed_user, insert_framed_area, mmap,
\* remove_area_with_start_vpn, shrink_to, append_to, recycle_data_pages and
\* the final drop is a step of the abstract address space: what the
\* process can reach changes only by mapping fresh frames, unmapping,
\* copying on fork and exiting, and no frame it reaches is also free.
ImplementsAddressSpace == AS!Spec

=============================================================================
