--------------------------- MODULE FindInsertAddr ---------------------------
(***************************************************************************)
(* MemorySet::find_insert_addr (src/os/src/mm/memory_set.rs): the          *)
(* descending free-region search for anonymous mappings, as a RECURSIVE    *)
(* operator over usize arithmetic of W bits.                               *)
(*                                                                         *)
(* The machine word is scaled down: addresses are W-bit, pages are         *)
(* 2^PAGE_SIZE_BITS bytes, and VirtAddr::from(usize) asserts that the bits *)
(* above VA_WIDTH are a sign extension (all 0 or all 1), as SV39 does with *)
(* VA_WIDTH_SV39.  Subtraction wraps, as usize does in a build without     *)
(* overflow checks; a wrapped subtraction is recorded, since a build with  *)
(* overflow checks panics at that point instead.                           *)
(*                                                                         *)
(* The word arithmetic (Sub, Floor, VaOf, VirtAddrOk) is AddressAlgebra's. *)
(*                                                                         *)
(* A call is one step: Init picks the MemorySet's areas and the arguments, *)
(* Call evaluates the search.                                              *)
(***************************************************************************)
EXTENDS AddressAlgebra, FiniteSets

CONSTANTS
    Layouts,         \* sets of areas [start, end) of VPNs a MemorySet can hold
    Hints,           \* hint arguments
    Sizes            \* size arguments

VARIABLES areas, hint, size, result

vars == <<areas, hint, size, result>>

-----------------------------------------------------------------------------
(* The search                                                              *)

\* Variant of Conflicts that only asks whether the candidate's first page
\* lies in the area.
ConflictsAtStart(a, start_vpn, end_vpn) == start_vpn >= a.start /\ start_vpn < a.end

\* The loop's test for area a against the candidate [start_vpn, end_vpn)
Conflicts(a, start_vpn, end_vpn) == end_vpn > a.start /\ start_vpn < a.end

\* Result of find_insert_addr(hint, size) on the areas A: kind "ok" with the
\* address, or "panic" when VirtAddr::from asserts; wrapped records a usize
\* subtraction that went below 0 on the way.  Each retry lowers the hint,
\* modulo 2^W, so fuel (one per word value) bounds the recursion.
RECURSIVE Search(_, _, _, _)
Search(A, h, sz, fuel) ==
    LET end_vpn   == Floor(h)
        start_vpn == Floor(Sub(h, sz))
        new_hint  == Sub(VaOf(start_vpn), PAGE_SIZE)
        wrapsHere == h < sz
        wrapsNext == VaOf(start_vpn) < PAGE_SIZE
    IN CASE fuel = 0 -> [kind |-> "diverge", addr |-> 0, wrapped |-> TRUE]
         [] ~VirtAddrOk(h) \/ ~VirtAddrOk(Sub(h, sz)) ->
              [kind |-> "panic", addr |-> 0, wrapped |-> wrapsHere]
         [] \E a \in A : Conflicts(a, start_vpn, end_vpn) ->
              LET r == Search(A, new_hint, sz, fuel - 1)
              IN [r EXCEPT !.wrapped = @ \/ wrapsHere \/ wrapsNext]
         [] OTHER -> [kind |-> "ok", addr |-> VaOf(start_vpn), wrapped |-> wrapsHere]

FindInsertAddr(A, h, sz) == Search(A, h, sz, Modulus + 1)

-----------------------------------------------------------------------------

None == [kind |-> "none", addr |-> 0, wrapped |-> FALSE]

Init ==
    /\ areas \in Layouts
    /\ hint \in Hints
    /\ size \in Sizes
    /\ result = None

\* One call of find_insert_addr on the MemorySet's areas
Call ==
    /\ result = None
    /\ result' = FindInsertAddr(areas, hint, size)
    /\ UNCHANGED <<areas, hint, size>>

Next == Call

Spec == Init /\ [][Next]_vars

-----------------------------------------------------------------------------
(* Properties                                                              *)

\* Pages of the window [addr, addr + sz)
Window(addr, sz) == Floor(addr)..(Floor(addr + sz - 1))

Covered(A) == UNION {a.start..(a.end - 1) : a \in A}

Returned == result.kind = "ok" /\ ~result.wrapped

\* An address find_insert_addr returns without wrapping heads a window of
\* size bytes that no area of the MemorySet touches, so an mmap placed
\* there never overlaps an existing area.
FreeWindow == Returned => Window(result.addr, size) \cap Covered(areas) = {}

\* The reference: the highest page-aligned address r with r + size <= hint
\* whose window is free (spec section 8, property 6: an area at
\* [0x10000, 0x11000) and find_insert_addr(0x11000, 0x1000) give 0xF000).
Best(A, h, sz) ==
    LET fits == {r \in 0..h : r % PAGE_SIZE = 0 /\ r + sz <= h /\
                              Window(r, sz) \cap Covered(A) = {}}
    IN IF fits = {} THEN -1 ELSE CHOOSE r \in fits : \A q \in fits : q <= r

\* The search returns that highest free window whenever one exists.
MatchesReference ==
    result # None /\ Best(areas, hint, size) >= 0 =>
        result.kind = "ok" /\ result.addr = Best(areas, hint, size)

=============================================================================
