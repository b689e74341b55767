--------------------------- MODULE AddressAlgebra ---------------------------
(***************************************************************************)
(* The address algebra of src/os/src/mm/address.rs that the memory-set     *)
(* code relies on: the From conversions between usize and VirtAddr with    *)
(* the riscv64 validity assert, floor, ceil, the VPN-to-address shift and  *)
(* the page-table index slices of a page number.                           *)
(*                                                                         *)
(* The machine word is scaled down: usize has W bits, a page has           *)
(* 2^PAGE_SIZE_BITS bytes, VA_WIDTH stands for VA_WIDTH_SV39 (39) and a    *)
(* page-table index has INDEX_BITS bits (9).  Arithmetic wraps modulo 2^W, *)
(* as usize does in a build without overflow checks.                       *)
(***************************************************************************)
EXTENDS Integers, Sequences, Bitwise

CONSTANTS
    W,               \* bits of usize
    VA_WIDTH,        \* VA_WIDTH_SV39, scaled
    PAGE_SIZE_BITS,  \* log2 of PAGE_SIZE
    INDEX_BITS       \* bits of one page-table index (9)

ASSUME AlgebraConstants ==
    /\ W \in Nat /\ VA_WIDTH \in 1..(W - 1)
    /\ PAGE_SIZE_BITS \in 0..VA_WIDTH /\ INDEX_BITS \in Nat \ {0}

Modulus   == 2^W
PAGE_SIZE == 2^PAGE_SIZE_BITS

\* usize subtraction and addition, wrapping
Sub(a, b) == (a - b) % Modulus
Add(a, b) == (a + b) % Modulus

\* From<usize> for VirtAddr (riscv64): (v as isize >> VA_WIDTH_SV39) is 0
\* or -1, i.e. the bits of v from VA_WIDTH up are all equal.
VirtAddrOk(v) == v < 2^VA_WIDTH \/ v >= Modulus - 2^VA_WIDTH

\* From<VirtAddr> for usize: an address at or above 1 << (VA_WIDTH - 1) is
\* or-ed with !((1 << VA_WIDTH) - 1), the bits from VA_WIDTH up.
UsizeOfVirtAddr(v) ==
    IF v >= 2^(VA_WIDTH - 1) THEN v | (Modulus - 2^VA_WIDTH) ELSE v

\* VirtAddr::floor
Floor(a) == a \div PAGE_SIZE

\* VirtAddr::ceil asserts a # 0 and computes (a - 1 + PAGE_SIZE) / PAGE_SIZE
CeilOk(a) == a # 0
Ceil(a) == Add(Sub(a, 1), PAGE_SIZE) \div PAGE_SIZE

\* From<VirtPageNum> for VirtAddr: v << PAGE_SIZE_BITS, the bits shifted
\* out dropped
VaOf(pn) == (pn * PAGE_SIZE) % Modulus

IndexMask == 2^INDEX_BITS - 1

\* The loop body of VirtPageNum::indexes over the slots in order `is`:
\* idx[i] = vpn & 511; vpn >>= 9.
RECURSIVE FillIndexes(_, _, _)
FillIndexes(idx, is, v) ==
    IF is = <<>> THEN idx
    ELSE FillIndexes([idx EXCEPT ![Head(is)] = v & IndexMask],
                     Tail(is), shiftR(v, INDEX_BITS))

\* VirtPageNum::indexes on riscv64: let mut idx = [0usize; 3]; for i in
\* (0..3).rev() { idx[i] = vpn & 511; vpn >>= 9 }.  idx[0] indexes the
\* root table, idx[2] the leaf table.
IndexesRiscv(vpn) ==
    FillIndexes([i \in 0..2 |-> 0], <<2, 1, 0>>, vpn)

=============================================================================
