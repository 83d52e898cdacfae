--------------------------------- MODULE Pte ---------------------------------
(***************************************************************************)
(* A page table entry in bits (mm.h:17-94, mm64.c:223-282).  A word is the *)
(* set of the positions of its bits that are 1, so that the masks of mm.h  *)
(* are intervals and its operators are set operators.                      *)
(*                                                                         *)
(* The fields overlap: the frame number of a present page and the type and *)
(* offset of a swapped one share bits 0 to 12, and each setter leaves the  *)
(* bits of the other's field that it does not cover.                       *)
(***************************************************************************)
EXTENDS Naturals, FiniteSetsExt

Word == SUBSET (0 .. 31)

GENMASK(h, l) == l .. h

PAGING_PTE_PRESENT_MASK == {31}
PAGING_PTE_SWAPPED_MASK == {30}
PAGING_PTE_FPN_MASK     == GENMASK(12, 0)
PAGING_PTE_SWPTYP_MASK  == GENMASK(4, 0)
PAGING_PTE_SWPOFF_MASK  == GENMASK(25, 5)

\* The bits of a number, and the number of a set of bits.
BitsOf(n)    == {b \in 0 .. 30 : (n \div 2^b) % 2 = 1}
NumberOf(bs) == MapThenSumSet(LAMBDA b : 2^b, bs)

SETBIT(v, mask) == v \cup mask
CLRBIT(v, mask) == v \ mask

SETVAL(v, value, mask, offst) ==
    (v \ mask) \cup ({b + offst : b \in BitsOf(value)} \cap mask)
GETVAL(v, mask, offst) == NumberOf({b - offst : b \in v \cap mask})

PAGING_PAGE_PRESENT(pte) == pte \cap PAGING_PTE_PRESENT_MASK # {}
PAGING_PAGE_SWAPPED(pte) == pte \cap PAGING_PTE_SWAPPED_MASK # {}
PAGING_FPN(pte) == GETVAL(pte, PAGING_PTE_FPN_MASK, 0)
PAGING_SWP(pte) == GETVAL(pte, PAGING_PTE_SWPOFF_MASK, 5)

\* What pte_set_fpn makes of an entry.
WithFpn(pte, fpn) ==
    SETVAL(CLRBIT(SETBIT(pte, PAGING_PTE_PRESENT_MASK), PAGING_PTE_SWAPPED_MASK),
           fpn, PAGING_PTE_FPN_MASK, 0)

\* Mutation of WithSwap: the present bit stays.
WithSwapPresent(pte, swptyp, swpoff) ==
    SETVAL(SETVAL(SETBIT(pte, PAGING_PTE_SWAPPED_MASK),
                  swptyp, PAGING_PTE_SWPTYP_MASK, 0),
           swpoff, PAGING_PTE_SWPOFF_MASK, 5)

\* What pte_set_swap makes of an entry.
WithSwap(pte, swptyp, swpoff) ==
    SETVAL(SETVAL(SETBIT(CLRBIT(pte, PAGING_PTE_PRESENT_MASK),
                         PAGING_PTE_SWAPPED_MASK),
                  swptyp, PAGING_PTE_SWPTYP_MASK, 0),
           swpoff, PAGING_PTE_SWPOFF_MASK, 5)

\* The pattern 0xdeadbeef of vmap_pgd_memset.
Pattern == {0, 1, 2, 3, 5, 6, 7, 9, 10, 11, 12, 13, 15, 16, 18, 19, 21, 23,
            25, 26, 27, 28, 30, 31}

\* What pg_getpage takes an entry for: it looks at the present bit first.
Decode(pte) ==
    CASE PAGING_PAGE_PRESENT(pte) -> [where |-> "ram", fpn |-> PAGING_FPN(pte)]
      [] ~PAGING_PAGE_PRESENT(pte) /\ PAGING_PAGE_SWAPPED(pte) ->
             [where |-> "swap", swpfpn |-> PAGING_SWP(pte)]
      [] OTHER -> [where |-> "none"]
=============================================================================
