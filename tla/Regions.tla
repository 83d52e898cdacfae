------------------------------ MODULE Regions ------------------------------
(***************************************************************************)
(* The virtual memory area of one process and its allocator: __alloc,      *)
(* __free and get_free_vmrg_area (libmem.c) over inc_vma_limit (mm-vm.c).  *)
(*                                                                         *)
(* A process's mm is touched only by the CPU that runs it, and __alloc and *)
(* __free hold mmvm_lock, so each operation is one action.  Every mm has   *)
(* one area, vma 0.  Addresses are small numbers and PageSize a small page *)
(* (4096 in the code).  Which frames back the area is the module Paging.   *)
(***************************************************************************)
EXTENDS Integers, Lists

CONSTANTS
    Rgids,     \* the region ids (PAGING_MAX_SYMTBL_SZ of them)
    PageSize,  \* PAGING64_PAGESZ
    Sizes,     \* the sizes a program asks for
    MaxEnd     \* bound: the area grows no further than this

ASSUME RegionsAssumption ==
    /\ PageSize \in Nat \ {0}
    /\ Sizes \subseteq Nat
    /\ MaxEnd \in Nat

VARIABLES
    symrgtbl,        \* the region of each id; [0, 0) when it has none
    vm_freerg_list,  \* the free regions, head first
    sbrk, vm_end,    \* the break and the end of the area
    lost             \* history: addresses of regions that no list holds

vars == <<symrgtbl, vm_freerg_list, sbrk, vm_end, lost>>

Region(s, e) == [rg_start |-> s, rg_end |-> e]
NoRegion == Region(0, 0)
RegionSet == [rg_start : Nat, rg_end : Nat]

\* PAGING64_PAGE_ALIGNSZ
Aligned(sz) == ((sz + PageSize - 1) \div PageSize) * PageSize

TypeOK ==
    /\ symrgtbl \in [Rgids -> RegionSet]
    /\ vm_freerg_list \in Seq(RegionSet)
    /\ sbrk \in Nat /\ vm_end \in Nat
    /\ lost \subseteq Nat

\* init_mm: an empty area whose free list holds an empty region.
Init ==
    /\ symrgtbl = [r \in Rgids |-> NoRegion]
    /\ vm_freerg_list = <<NoRegion>>
    /\ sbrk = 0 /\ vm_end = 0
    /\ lost = {}

Bytes(rg) == rg.rg_start .. rg.rg_end - 1
-----------------------------------------------------------------------------
\* enlist_vm_freerg_list: prepend, unless the region is empty.
enlist_vm_freerg_list(list, rg) ==
    IF rg.rg_start >= rg.rg_end THEN list ELSE <<rg>> \o list

Fits(rg, size) == rg.rg_start + size <= rg.rg_end

\* The node at which the search of get_free_vmrg_area stops.
FirstFit(k, size) ==
    /\ k \in 1 .. Len(vm_freerg_list)
    /\ Fits(vm_freerg_list[k], size)
    /\ \A j \in 1 .. k - 1 : ~Fits(vm_freerg_list[j], size)

\* Mutation of CutFrom: a node that is used up stays as it is.
CutKeepsNode(k, size) ==
    LET rg == vm_freerg_list[k] IN
    IF rg.rg_start + size < rg.rg_end
    THEN [vm_freerg_list EXCEPT ![k] = Region(rg.rg_start + size, rg.rg_end)]
    ELSE vm_freerg_list

\* The list after size bytes are cut from the front of node k.  A node used
\* up is removed by cloning its successor; the last one stays, empty.
CutFrom(k, size) ==
    LET rg == vm_freerg_list[k] IN
    IF rg.rg_start + size < rg.rg_end
    THEN [vm_freerg_list EXCEPT ![k] = Region(rg.rg_start + size, rg.rg_end)]
    ELSE IF k < Len(vm_freerg_list)
    THEN RemoveAt(vm_freerg_list, k)
    ELSE [vm_freerg_list EXCEPT ![k] = Region(rg.rg_end, rg.rg_end)]

\* The symbol table forgets the region that r names, if it names one.
Forget(r) == lost' = lost \cup Bytes(symrgtbl[r])

\* __alloc from the free list.
AllocFree(r, size) ==
    \E k \in 1 .. Len(vm_freerg_list) :
        /\ FirstFit(k, size)
        /\ LET s == vm_freerg_list[k].rg_start IN
           symrgtbl' = [symrgtbl EXCEPT ![r] = Region(s, s + size)]
        /\ vm_freerg_list' = CutFrom(k, size)
        /\ Forget(r)
        /\ UNCHANGED <<sbrk, vm_end>>

\* inc_vma_limit(inc_sz): the area grows by whole pages, the break by inc_sz.
\* The rollback for a failed vm_map_ram is never taken (see Paging).
inc_vma_limit(inc_sz) ==
    /\ vm_end + Aligned(inc_sz) <= MaxEnd
    /\ vm_end' = vm_end + Aligned(inc_sz)
    /\ sbrk' = sbrk + inc_sz

\* Mutation of AllocGrow: the region ends at the old break.
AllocBelowBreak(r, size) ==
    /\ \A k \in 1 .. Len(vm_freerg_list) : ~Fits(vm_freerg_list[k], size)
    /\ inc_vma_limit(Aligned(size))
    /\ symrgtbl' = [symrgtbl EXCEPT ![r] = Region(sbrk - size, sbrk)]
    /\ UNCHANGED vm_freerg_list
    /\ Forget(r)

\* Mutation of AllocGrow: the rest of the last page is not enlisted.
AllocWastesRest(r, size) ==
    /\ \A k \in 1 .. Len(vm_freerg_list) : ~Fits(vm_freerg_list[k], size)
    /\ inc_vma_limit(Aligned(size))
    /\ symrgtbl' = [symrgtbl EXCEPT ![r] = Region(sbrk, sbrk + size)]
    /\ UNCHANGED vm_freerg_list
    /\ Forget(r)

\* __alloc by growing the area: the region starts at the old break and the
\* rest of its last page becomes a free region.
AllocGrow(r, size) ==
    /\ \A k \in 1 .. Len(vm_freerg_list) : ~Fits(vm_freerg_list[k], size)
    /\ inc_vma_limit(Aligned(size))
    /\ symrgtbl' = [symrgtbl EXCEPT ![r] = Region(sbrk, sbrk + size)]
    /\ vm_freerg_list' =
           enlist_vm_freerg_list(vm_freerg_list,
                                 Region(sbrk + size, sbrk + Aligned(size)))
    /\ Forget(r)

\* Mutation of Free: the entry of the symbol table is not cleared.
FreeKeepsEntry(r) ==
    /\ symrgtbl[r] # NoRegion
    /\ vm_freerg_list' = enlist_vm_freerg_list(vm_freerg_list, symrgtbl[r])
    /\ UNCHANGED <<symrgtbl, sbrk, vm_end, lost>>

\* __free: an id without a region is refused, and nothing changes.
Free(r) ==
    /\ symrgtbl[r] # NoRegion
    /\ vm_freerg_list' = enlist_vm_freerg_list(vm_freerg_list, symrgtbl[r])
    /\ symrgtbl' = [symrgtbl EXCEPT ![r] = NoRegion]
    /\ UNCHANGED <<sbrk, vm_end, lost>>

\* A program may also grow the area itself: SYSCALL 17 with SYSMEM_INC_OP.
\* Nobody enlists what it gains.
SysMemInc(inc_sz) ==
    /\ inc_sz # 0
    /\ inc_vma_limit(inc_sz)
    /\ lost' = lost \cup (sbrk .. sbrk + inc_sz - 1)
    /\ UNCHANGED <<symrgtbl, vm_freerg_list>>

Next ==
    \/ \E r \in Rgids, size \in Sizes : AllocFree(r, size) \/ AllocGrow(r, size)
    \/ \E r \in Rgids : Free(r)
    \/ \E size \in Sizes : SysMemInc(size)

Spec == Init /\ [][Next]_vars
-----------------------------------------------------------------------------
(***************************************************************************)
(* No two regions share an address: not two live ones, not a live and a    *)
(* free one, not two nodes of the free list, so that no write to one       *)
(* variable changes another (libmem.c:69-165, 1092-1139).                  *)
(***************************************************************************)
LiveDisjoint ==
    \A r, s \in Rgids :
        r # s => Bytes(symrgtbl[r]) \cap Bytes(symrgtbl[s]) = {}

FreeDisjoint ==
    \A k, l \in 1 .. Len(vm_freerg_list) :
        k # l => Bytes(vm_freerg_list[k]) \cap Bytes(vm_freerg_list[l]) = {}

LiveFreeDisjoint ==
    \A r \in Rgids, k \in 1 .. Len(vm_freerg_list) :
        Bytes(symrgtbl[r]) \cap Bytes(vm_freerg_list[k]) = {}

RegionsDisjoint == LiveDisjoint /\ FreeDisjoint /\ LiveFreeDisjoint

(***************************************************************************)
(* Every address below the break is in a live region, in a free one, or in *)
(* one the program itself gave up by allocating its id again or by growing *)
(* the area behind the allocator's back; nothing lies above the break, and *)
(* the break lies within the area: the allocator neither loses memory nor  *)
(* hands out any it does not have.                                         *)
(***************************************************************************)
AddressesAccounted ==
    /\ sbrk <= vm_end
    /\ 0 .. sbrk - 1 =
           (UNION {Bytes(symrgtbl[r]) : r \in Rgids})
             \cup (UNION {Bytes(vm_freerg_list[k]) :
                             k \in 1 .. Len(vm_freerg_list)})
             \cup lost
=============================================================================
