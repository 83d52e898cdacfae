------------------------------- MODULE Process -------------------------------
(***************************************************************************)
(* The instructions of a program (cpu.c:61-130) with the library behind    *)
(* them: liballoc, libfree, libread, libwrite, the copies between kernel   *)
(* and user memory (libmem.c) and the way of a system call from libsyscall *)
(* over _syscall to __sys_memmap.  The module composes the interpreter,    *)
(* the registers and the bytes of the process's memory with the allocator  *)
(* of module Regions.                                                      *)
(*                                                                         *)
(* A step executes one instruction, any instruction: its program counter   *)
(* and the end of the program are part of module OS, and KMALLOC and the   *)
(* cache pools, which leave the process alone, of KMem.  The bytes are     *)
(* those of the memory that Paging implements.  No step here depends on    *)
(* another process, so an instruction is one action.                       *)
(***************************************************************************)
EXTENDS Regions, FiniteSets

CONSTANTS
    Values,     \* the bytes a program can write
    Blank,      \* the byte 0 of cleared memory
    MaxWritten, \* bound: bytes that are not blank at a time
    Offsets,    \* the offsets in a region that instructions name
    Stale,      \* what malloc leaves in a register of a new process
    VmaIds,     \* the areas that system calls name; there is only area 0
    Numbers     \* the numbers of system calls

ASSUME ProcessAssumption ==
    /\ Blank \in Values
    /\ MaxWritten \in Nat /\ Offsets \subseteq Nat /\ Stale \in Nat
    /\ VmaIds \subseteq Int /\ Numbers \subseteq Nat

VARIABLES
    regs,       \* proc->regs: addresses of allocated regions
    mem         \* mem[a]: the byte at address a

procVars == <<vars, regs, mem>>

Addresses == 0 .. MaxEnd - 1

ProcTypeOK ==
    /\ TypeOK
    /\ regs \in [Rgids -> Nat]
    /\ mem \in [Addresses -> Values]

\* load leaves the registers as malloc gives them.
ProcInit ==
    /\ Init
    /\ regs = [r \in Rgids |-> Stale]
    /\ mem = [a \in Addresses |-> Blank]

Refused == UNCHANGED procVars
-----------------------------------------------------------------------------
\* Mutation of ALLOC: the register is left alone when the area grows.
AllocKeepsRegister(size, r) ==
    /\ \/ AllocFree(r, size) /\ regs' = [regs EXCEPT ![r] = symrgtbl'[r].rg_start]
       \/ AllocGrow(r, size) /\ UNCHANGED regs
    /\ UNCHANGED mem

\* ALLOC size r: liballoc stores the address in the register.
ALLOC(size, r) ==
    /\ AllocFree(r, size) \/ AllocGrow(r, size)
    /\ regs' = [regs EXCEPT ![r] = symrgtbl'[r].rg_start]
    /\ UNCHANGED mem

\* FREE r: refused when r names no region.
FREE(r) ==
    \/ /\ Free(r)
       /\ regs' = [regs EXCEPT ![r] = 0]
       /\ UNCHANGED mem
    \/ symrgtbl[r] = NoRegion /\ Refused

\* The checks of __read, __write and __write_user_mem.
InRegion(r, offset) ==
    /\ symrgtbl[r] # NoRegion
    /\ symrgtbl[r].rg_start + offset < symrgtbl[r].rg_end

\* READ r offset destination: __read fetches the byte, but pg_getval does
\* not hand it on, and libread stores what it has, an uninitialised byte,
\* in the interpreter's copy of the instruction.  The process stays as it is.
READ(r, offset) == Refused

\* Mutation of WRITE: the offset is compared with the end of the area.
WriteUnchecked(v, r, offset) ==
    /\ symrgtbl[r] # NoRegion /\ symrgtbl[r].rg_start + offset < vm_end
    /\ mem' = [mem EXCEPT ![symrgtbl[r].rg_start + offset] = v]
    /\ Cardinality({a \in Addresses : mem'[a] # Blank}) <= MaxWritten
    /\ UNCHANGED <<vars, regs>>

\* WRITE v r offset; it may also fail for want of a frame (see Paging).
WRITE(v, r, offset) ==
    \/ /\ InRegion(r, offset)
       /\ mem' = [mem EXCEPT ![symrgtbl[r].rg_start + offset] = v]
       /\ Cardinality({a \in Addresses : mem'[a] # Blank}) <= MaxWritten
       /\ UNCHANGED <<vars, regs>>
    \/ Refused

\* COPY_TO_USER and COPY_FROM_USER: size bytes of a kernel region go to
\* region r, one by one, until one fails.  Kernel memory is never written.
COPY(r, offset, size) ==
    \E n \in 1 .. size :
        /\ \A i \in 0 .. n - 1 : InRegion(r, offset + i)
        /\ LET from == symrgtbl[r].rg_start + offset IN
           mem' = [a \in Addresses |->
                      IF a \in from .. from + n - 1 THEN Blank ELSE mem[a]]
        /\ UNCHANGED <<vars, regs>>

\* get_vma_by_num finds area 0 for every number up to 0, and no other.
get_vma_by_num(vmaid) == vmaid <= 0

\* __sys_memmap with SYSMEM_INC_OP, for the process that _syscall finds in
\* proc_table under the caller's pid.  The result is ignored.  The other
\* operations of the call name physical memory; the library issues them (see
\* Paging), and a program that does so itself is not modelled.
SysMemmap(vmaid, inc_sz) ==
    \/ get_vma_by_num(vmaid) /\ SysMemInc(inc_sz) /\ UNCHANGED <<regs, mem>>
    \/ (~get_vma_by_num(vmaid) \/ inc_sz = 0) /\ Refused

\* _syscall knows two numbers, 0 (listsyscall, which prints) and 17
\* (memmap); any other one is __sys_ni_syscall, which does nothing.
syscall(nr, vmaid, inc_sz) ==
    \/ nr = 17 /\ SysMemmap(vmaid, inc_sz)
    \/ nr # 17 /\ Refused

\* SYSCALL nr: libsyscall passes the arguments on with the caller's pid.
SYSCALL(nr, vmaid, inc_sz) == syscall(nr, vmaid, inc_sz)
-----------------------------------------------------------------------------
\* An instruction that names region r.
runOn(r) ==
    \/ \E size \in Sizes : ALLOC(size, r)
    \/ FREE(r)
    \/ \E offset \in Offsets :
           \/ READ(r, offset)
           \/ \E v \in Values : WRITE(v, r, offset)
           \/ \E size \in Sizes : COPY(r, offset, size)

\* One instruction: run.
run ==
    \/ \E r \in Rgids : runOn(r)
    \/ \E nr \in Numbers, vmaid \in VmaIds, size \in Sizes :
           SYSCALL(nr, vmaid, size)

ProcSpec == ProcInit /\ [][run]_procVars
-----------------------------------------------------------------------------
(* Properties.                                                             *)

(***************************************************************************)
(* "Registers, store address of allocated regions" (common.h:102): the     *)
(* register of a region always holds its start, and that of a freed one 0, *)
(* whatever the program does in between (libmem.c:172-211).  Only one that *)
(* no ALLOC has set holds anything else, and READ sets none                *)
(* (libmem.c:398-418).                                                     *)
(***************************************************************************)
RegistersHoldAddresses ==
    \A r \in Rgids :
        \/ regs[r] = symrgtbl[r].rg_start
        \/ symrgtbl[r] = NoRegion /\ regs[r] = Stale

\* The bytes of the region that each register names.
arrays ==
    [r \in Rgids |->
        [i \in 1 .. symrgtbl[r].rg_end - symrgtbl[r].rg_start |->
            mem[symrgtbl[r].rg_start + i - 1]]]

ProgramArrays == INSTANCE Arrays WITH arr <- arrays

(***************************************************************************)
(* The allocator, the checks of the library and the memory behind them     *)
(* give a program arrays of its own: a step makes, drops or changes one    *)
(* array, byte by byte, and no byte is ever part of two, whatever was      *)
(* allocated, freed and allocated again (libmem.c:69-165, 375-457).        *)
(***************************************************************************)
ImplementsArrays == ProgramArrays!Spec

(***************************************************************************)
(* The array that changes is the one the instruction names: no offset,     *)
(* size or reuse of a register lets it reach the array of another          *)
(* (libmem.c:433-445, 690-749, 972-1003).                                  *)
(***************************************************************************)
OtherArraysStay ==
    [][\A t \in Rgids : \/ arrays'[t] = arrays[t]
                       \/ \A r \in Rgids \ {t} : ~runOn(r)]_procVars
=============================================================================
