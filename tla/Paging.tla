------------------------------- MODULE Paging -------------------------------
(***************************************************************************)
(* Paging and swapping: pg_getpage, find_victim_page, __read and __write   *)
(* (libmem.c), inc_vma_limit (mm-vm.c), vm_map_ram and what it calls       *)
(* (mm64.c), over the frame lists of one RAM and one active swap device.   *)
(*                                                                         *)
(* The page table, the FIFO and the area of a process are touched only by  *)
(* the CPU that runs it (OS: OnePlace); the two devices are shared.  So an *)
(* operation is cut at its calls of MEMPHY_get_freefp and                  *)
(* MEMPHY_put_freefp, and what it does to its own mm in between belongs to *)
(* the step.  mmvm_lock is held by __alloc and __write, not by __read, by  *)
(* the copies between kernel and user or by a program's own system call;   *)
(* vm_Lock by inc_vma_limit.  mm64_lock is only taken with vm_Lock held    *)
(* and adds nothing.  The window between the test and the pop inside       *)
(* MEMPHY_get_freefp is the subject of MemPhy; here that call is one step. *)
(*                                                                         *)
(* Of the operations of sys_memmap a program may call SYSMEM_INC_OP; the   *)
(* others are issued by the library only, from pg_getpage, pg_getval and   *)
(* pg_setval, and belong to the steps that model these.                    *)
(*                                                                         *)
(* A frame holds one value instead of 4096 bytes.  A written value carries *)
(* the name of its writer, so that a leak between processes would show.    *)
(*                                                                         *)
(* MEMPHY_format cuts a device into frames of PAGING_PAGESZ = 256 bytes,   *)
(* but the frames are used as pages of PAGING64_PAGESZ = 4096 bytes, so    *)
(* only the first sixteenth of them lies inside the storage: RamCells and  *)
(* SwapCells are their numbers.  An access outside is undefined: what the  *)
(* frame then holds is an arbitrary choice.                                *)
(***************************************************************************)
EXTENDS Frames

CONSTANTS
    Procs,      \* the processes
    NumRam,     \* frames of RAM
    RamCells,   \* those that lie inside its storage
    NumSwap,    \* frames of the active swap device
    SwapCells,  \* those that lie inside its storage
    FpnLimit,   \* 2^13: frame numbers a page table entry can hold
    MaxPages,   \* bound: pages of one process
    Values,     \* the data a program writes
    Zero,       \* what a frame holds after init_memphy
    NOBODY      \* no holder of a lock

ASSUME PagingAssumption ==
    /\ NumRam \in Nat /\ NumSwap \in Nat /\ MaxPages \in Nat
    /\ RamCells \in 0 .. NumRam /\ SwapCells \in 0 .. NumSwap
    /\ FpnLimit \in Nat \ {0}
    /\ NOBODY \notin Procs

VARIABLES
    ram, swp,          \* the frame lists of the two devices
    ramData, swpData,  \* what their frames hold
    pte,               \* pte[p][g]: the page table
    fifo_pgn,          \* fifo_pgn[p]: resident pages, newest first
    vm_end,            \* vm_end[p]: pages of the area
    mmvm_lock,         \* who holds mmvm_lock
    vm_Lock,           \* who holds vm_Lock
    op                 \* op[p]: the operation p is in

devVars == <<ram, swp, ramData, swpData>>
mmVars  == <<pte, fifo_pgn, vm_end>>
locks   == <<mmvm_lock, vm_Lock>>
vars == <<devVars, mmVars, locks, op>>

Pages      == 0 .. MaxPages - 1
RamFrames  == 0 .. NumRam - 1
SwapFrames == 0 .. NumSwap - 1
Data       == {<<Zero>>} \cup {<<p, v>> : p \in Procs, v \in Values}

\* A page table entry: where the page is.  "none" is an entry of zero.  The
\* field of the frame number has 13 bits; that of the swap offset has 21,
\* more than the 2^16 swap frames of the shipped configurations need.
PteSet ==
    [where : {"none"}] \cup [where : {"ram"}, fpn : RamFrames]
      \cup [where : {"swap"}, swpfpn : SwapFrames]
NoPage == [where |-> "none"]
InRam(f)  == [where |-> "ram", fpn |-> f % FpnLimit]
InSwap(f) == [where |-> "swap", swpfpn |-> f]

Idle   == [pc |-> "idle"]
Exited == [pc |-> "exited"]

Kinds == {"read", "write", "copy"}

OpSet ==
    [pc : {"idle", "exited"}]
      \cup [pc : {"inc"}, n : 1 .. MaxPages]
      \cup [pc : {"grab", "undo"}, n : 1 .. MaxPages,
            frames : Seq(RamFrames)]
      \cup [pc : {"fault", "access"}, kind : Kinds, pgn : Pages]
      \cup [pc : {"evict"}, kind : Kinds, pgn : Pages, vic : Pages]
      \cup [pc : {"fill"}, kind : Kinds, pgn : Pages,
            tgt : RamFrames]

TypeOK ==
    /\ ram \in [free : Seq(RamFrames), used : Seq(RamFrames)]
    /\ swp \in [free : Seq(SwapFrames), used : Seq(SwapFrames)]
    /\ ramData \in [RamFrames -> Data]
    /\ swpData \in [SwapFrames -> Data]
    /\ pte \in [Procs -> [Pages -> PteSet]]
    /\ fifo_pgn \in [Procs -> Seq(Pages)]
    /\ vm_end \in [Procs -> 0 .. MaxPages]
    /\ mmvm_lock \in Procs \cup {NOBODY}
    /\ vm_Lock \in Procs \cup {NOBODY}
    /\ op \in [Procs -> OpSet]

\* The contents of a device after init_memphy: memset clears the storage.
Formatted(n, cells) ==
    {data \in [0 .. n - 1 -> Data] : \A f \in 0 .. cells - 1 : data[f] = <<Zero>>}

\* What frame f may hold after d was stored in it.
Stored(cells, f, d) == IF f < cells THEN {d} ELSE Data

Init ==
    /\ ram = MEMPHY_format(NumRam) /\ swp = MEMPHY_format(NumSwap)
    /\ ramData \in Formatted(NumRam, RamCells)
    /\ swpData \in Formatted(NumSwap, SwapCells)
    /\ pte = [p \in Procs |-> [g \in Pages |-> NoPage]]
    /\ fifo_pgn = [p \in Procs |-> << >>]
    /\ vm_end = [p \in Procs |-> 0]
    /\ mmvm_lock = NOBODY /\ vm_Lock = NOBODY
    /\ op = [p \in Procs |-> Idle]

Do(p, o) == op' = [op EXCEPT ![p] = o]

Release(lock, p) == IF lock = p THEN NOBODY ELSE lock

\* The operation is over, and gives back the locks it holds.
Return(p) ==
    /\ mmvm_lock' = Release(mmvm_lock, p)
    /\ vm_Lock' = Release(vm_Lock, p)
    /\ Do(p, Idle)
-----------------------------------------------------------------------------
(* Growing the area: __alloc, inc_vma_limit, vm_map_ram.                   *)

\* __alloc found no free region and asks for n pages.
Alloc(p, n) ==
    /\ op[p] = Idle /\ mmvm_lock = NOBODY
    /\ mmvm_lock' = p
    /\ Do(p, [pc |-> "inc", n |-> n])
    /\ UNCHANGED <<devVars, mmVars, vm_Lock>>

\* The program calls sys_memmap with SYSMEM_INC_OP itself: no mmvm_lock.
SysMemInc(p, n) ==
    /\ op[p] = Idle
    /\ Do(p, [pc |-> "inc", n |-> n])
    /\ UNCHANGED <<devVars, mmVars, locks>>

\* Mutation of IncVmaLimit: the area grows by a page too many.
IncVmaLimitPlusOne(p) ==
    /\ op[p].pc = "inc" /\ vm_Lock = NOBODY
    /\ vm_Lock' = p
    /\ vm_end' = [vm_end EXCEPT ![p] = @ + op[p].n + 1]
    /\ Do(p, [pc |-> "grab", n |-> op[p].n, frames |-> << >>])
    /\ UNCHANGED <<devVars, pte, fifo_pgn, mmvm_lock>>

\* inc_vma_limit moves vm_end before it asks for frames.
IncVmaLimit(p) ==
    /\ op[p].pc = "inc" /\ vm_Lock = NOBODY
    /\ vm_Lock' = p
    /\ vm_end' = [vm_end EXCEPT ![p] = @ + op[p].n]
    /\ Do(p, [pc |-> "grab", n |-> op[p].n, frames |-> << >>])
    /\ UNCHANGED <<devVars, pte, fifo_pgn, mmvm_lock>>

\* alloc_pages_range takes one more frame.
AllocFrame(p) ==
    /\ op[p].pc = "grab" /\ Len(op[p].frames) < op[p].n
    /\ HasFree(ram)
    /\ ram' = Popped(ram)
    /\ Do(p, [op[p] EXCEPT !.frames = Append(@, NextFree(ram))])
    /\ UNCHANGED <<swp, ramData, swpData, mmVars, locks>>

\* Mutation of AllocFails: no rollback.
AllocKeepsFrames(p) ==
    /\ op[p].pc = "grab" /\ Len(op[p].frames) < op[p].n
    /\ ~HasFree(ram)
    /\ Return(p)
    /\ UNCHANGED <<devVars, mmVars>>

\* There is none: what was taken has to be put back.
AllocFails(p) ==
    /\ op[p].pc = "grab" /\ Len(op[p].frames) < op[p].n
    /\ ~HasFree(ram)
    /\ Do(p, [op[p] EXCEPT !.pc = "undo"])
    /\ UNCHANGED <<devVars, mmVars, locks>>

UndoFrame(p) ==
    /\ op[p].pc = "undo" /\ op[p].frames # << >>
    /\ ram' = MEMPHY_put_freefp(ram, Head(op[p].frames))
    /\ Do(p, [op[p] EXCEPT !.frames = Tail(@)])
    /\ UNCHANGED <<swp, ramData, swpData, mmVars, locks>>

\* vm_map_ram returns -1 as an addr_t, which inc_vma_limit compares with
\* "< 0": its rollback of vm_end is not taken, and __alloc ignores the
\* result of the system call.
UndoDone(p) ==
    /\ op[p].pc = "undo" /\ op[p].frames = << >>
    /\ Return(p)
    /\ UNCHANGED <<devVars, mmVars>>

\* vmap_page_range: map the frames to the new pages, in order, and enlist
\* each page at the front of the FIFO.  A new page holds what its frame
\* holds: nobody clears it.
MapFrames(p) ==
    LET n     == op[p].n
        first == vm_end[p] - n
        New   == first .. vm_end[p] - 1
        frame(g) == op[p].frames[g - first + 1]
    IN
    /\ op[p].pc = "grab" /\ Len(op[p].frames) = n
    /\ pte' = [pte EXCEPT ![p] =
                  [g \in Pages |-> IF g \in New THEN InRam(frame(g)) ELSE @[g]]]
    /\ fifo_pgn' = [fifo_pgn EXCEPT ![p] =
                       [k \in 1 .. n |-> vm_end[p] - k] \o @]
    /\ Return(p)
    /\ UNCHANGED <<devVars, vm_end>>
-----------------------------------------------------------------------------
(* Access: __read, __write, pg_getpage.                                    *)

\* The region check leaves addresses of the area only.
StartRead(p, g) ==
    /\ op[p] = Idle /\ g < vm_end[p]
    /\ Do(p, [pc |-> IF pte[p][g].where = "ram" THEN "access" ELSE "fault",
              kind |-> "read", pgn |-> g])
    /\ UNCHANGED <<devVars, mmVars, locks>>

StartWrite(p, g) ==
    /\ op[p] = Idle /\ g < vm_end[p]
    /\ mmvm_lock = NOBODY
    /\ mmvm_lock' = p
    /\ Do(p, [pc |-> IF pte[p][g].where = "ram" THEN "access" ELSE "fault",
              kind |-> "write", pgn |-> g])
    /\ UNCHANGED <<devVars, mmVars, vm_Lock>>

\* One byte of libkmem_copy_to_user or libkmem_copy_from_user: both write
\* a byte of the kernel to a user region, by __write_user_mem.
StartCopy(p, g) ==
    /\ op[p] = Idle /\ g < vm_end[p]
    /\ Do(p, [pc |-> IF pte[p][g].where = "ram" THEN "access" ELSE "fault",
              kind |-> "copy", pgn |-> g])
    /\ UNCHANGED <<devVars, mmVars, locks>>

\* The page is not in RAM, and a frame is free.
FaultFrame(p) ==
    /\ op[p].pc = "fault" /\ HasFree(ram)
    /\ ram' = Popped(ram)
    /\ Do(p, [pc |-> "fill", kind |-> op[p].kind, pgn |-> op[p].pgn,
              tgt |-> NextFree(ram)])
    /\ UNCHANGED <<swp, ramData, swpData, mmVars, locks>>

\* Mutation of FaultVictim: the victim is not unlinked.
FaultKeepsVictim(p) ==
    /\ op[p].pc = "fault" /\ ~HasFree(ram) /\ fifo_pgn[p] # << >>
    /\ Do(p, [pc |-> "evict", kind |-> op[p].kind, pgn |-> op[p].pgn,
              vic |-> Last(fifo_pgn[p])])
    /\ UNCHANGED <<devVars, mmVars, locks>>

\* No frame is free: find_victim_page takes the process's oldest page off
\* the FIFO.
FaultVictim(p) ==
    /\ op[p].pc = "fault" /\ ~HasFree(ram) /\ fifo_pgn[p] # << >>
    /\ fifo_pgn' = [fifo_pgn EXCEPT ![p] = Front(@)]
    /\ Do(p, [pc |-> "evict", kind |-> op[p].kind, pgn |-> op[p].pgn,
              vic |-> Last(fifo_pgn[p])])
    /\ UNCHANGED <<devVars, pte, vm_end, locks>>

\* Mutation of FaultNoVictim: try again instead.
FaultRetries(p) ==
    /\ op[p].pc = "fault" /\ ~HasFree(ram) /\ fifo_pgn[p] = << >>
    /\ UNCHANGED vars

\* No frame is free and the process has no page to give up: fail.
FaultNoVictim(p) ==
    /\ op[p].pc = "fault" /\ ~HasFree(ram) /\ fifo_pgn[p] = << >>
    /\ Return(p)
    /\ UNCHANGED <<devVars, mmVars>>

\* Mutation of SwapOut: the victim is not copied.
SwapOutWithoutCopy(p) ==
    /\ op[p].pc = "evict" /\ HasFree(swp)
    /\ swp' = Popped(swp)
    /\ pte' = [pte EXCEPT ![p][op[p].vic] = InSwap(NextFree(swp))]
    /\ Do(p, [pc |-> "fill", kind |-> op[p].kind, pgn |-> op[p].pgn,
              tgt |-> pte[p][op[p].vic].fpn])
    /\ UNCHANGED <<ram, ramData, swpData, fifo_pgn, vm_end, locks>>

\* Mutation of SwapOut: the victim's page table entry is not changed.
SwapOutKeepsPte(p) ==
    /\ op[p].pc = "evict" /\ HasFree(swp)
    /\ swp' = Popped(swp)
    /\ Do(p, [pc |-> "fill", kind |-> op[p].kind, pgn |-> op[p].pgn,
              tgt |-> pte[p][op[p].vic].fpn])
    /\ UNCHANGED <<ram, ramData, swpData, pte, fifo_pgn, vm_end, locks>>

\* Copy the victim to a free swap frame and take over its RAM frame.
SwapOut(p) ==
    LET vic == op[p].vic
        f   == pte[p][vic].fpn
        s   == NextFree(swp)
    IN
    /\ op[p].pc = "evict" /\ HasFree(swp)
    /\ swp' = Popped(swp)
    /\ \E d \in Stored(SwapCells, s, ramData[f]) :
           swpData' = [swpData EXCEPT ![s] = d]
    /\ pte' = [pte EXCEPT ![p][vic] = InSwap(s)]
    /\ Do(p, [pc |-> "fill", kind |-> op[p].kind, pgn |-> op[p].pgn,
              tgt |-> f])
    /\ UNCHANGED <<ram, ramData, fifo_pgn, vm_end, locks>>

\* The swap device is full: fail.  The victim stays in RAM but is no longer
\* on the FIFO.
SwapFull(p) ==
    /\ op[p].pc = "evict" /\ ~HasFree(swp)
    /\ Return(p)
    /\ UNCHANGED <<devVars, mmVars>>

\* Bring a swapped page back and return its swap frame; then map it.  A
\* page that was never mapped gets the frame as it is.
Fill(p) ==
    LET g == op[p].pgn
        f == op[p].tgt
        s == pte[p][g].swpfpn
    IN
    /\ op[p].pc = "fill"
    /\ \/ /\ pte[p][g].where = "swap"
          /\ \E d \in Stored(RamCells, f, swpData[s]) :
                 ramData' = [ramData EXCEPT ![f] = d]
          /\ swp' = MEMPHY_put_freefp(swp, s)
       \/ /\ pte[p][g].where # "swap"
          /\ UNCHANGED <<ramData, swp>>
    /\ pte' = [pte EXCEPT ![p][g] = InRam(f)]
    /\ fifo_pgn' = [fifo_pgn EXCEPT ![p] = <<g>> \o @]
    /\ Do(p, [pc |-> "access", kind |-> op[p].kind, pgn |-> g])
    /\ UNCHANGED <<ram, swpData, vm_end, locks>>

\* pg_getval reads the byte; nothing changes.
ReadValue(p) ==
    /\ op[p].pc = "access" /\ op[p].kind = "read"
    /\ Do(p, Idle)
    /\ UNCHANGED <<devVars, mmVars, locks>>

\* Store d in the page of the access: MEMPHY_write to its frame.
StoreInPage(p, d) ==
    LET f == pte[p][op[p].pgn].fpn IN
    /\ \E e \in Stored(RamCells, f, d) : ramData' = [ramData EXCEPT ![f] = e]
    /\ Return(p)
    /\ UNCHANGED <<ram, swp, swpData, mmVars>>

\* pg_setval writes the byte.
WriteValue(p, v) ==
    /\ op[p].pc = "access" /\ op[p].kind = "write"
    /\ StoreInPage(p, <<p, v>>)

\* __write_user_mem writes the kernel's byte, which is zero: the kernel's
\* frames are cleared at the start, and __write_kernel_mem is never called.
WriteCopy(p) ==
    /\ op[p].pc = "access" /\ op[p].kind = "copy"
    /\ StoreInPage(p, <<Zero>>)

\* The process has run its last instruction: cpu_routine frees its pcb and
\* nothing else.  Its pages keep their frames.
Exit(p) ==
    /\ op[p] = Idle
    /\ Do(p, Exited)
    /\ UNCHANGED <<devVars, mmVars, locks>>
-----------------------------------------------------------------------------
Step(p) ==
    \/ IncVmaLimit(p) \/ AllocFrame(p) \/ AllocFails(p) \/ UndoFrame(p) \/ UndoDone(p)
    \/ MapFrames(p)
    \/ FaultFrame(p) \/ FaultVictim(p) \/ FaultNoVictim(p)
    \/ SwapOut(p) \/ SwapFull(p) \/ Fill(p)
    \/ ReadValue(p) \/ WriteCopy(p) \/ \E v \in Values : WriteValue(p, v)

Call(p) ==
    \/ \E n \in 1 .. MaxPages - vm_end[p] : Alloc(p, n) \/ SysMemInc(p, n)
    \/ \E g \in Pages : StartRead(p, g) \/ StartWrite(p, g) \/ StartCopy(p, g)
    \/ Exit(p)

\* All processes have ended.
AllDone ==
    /\ \A p \in Procs : op[p] = Exited
    /\ UNCHANGED vars

Next == AllDone \/ \E p \in Procs : Step(p) \/ Call(p)

\* A CPU carries on with the operation it is in, and whoever waits for
\* vm_Lock gets it in the end.  Starting an operation is not promised.
Fairness ==
    \A p \in Procs : WF_vars(Step(p)) /\ SF_vars(IncVmaLimit(p))

Spec == Init /\ [][Next]_vars /\ Fairness
-----------------------------------------------------------------------------
(* Properties.                                                             *)

\* The RAM frames in p's hands: mapped, or taken by the operation under way.
MappedFrames(p) == {pte[p][g].fpn : g \in {h \in Pages : pte[p][h].where = "ram"}}

InFlight(p) ==
    CASE op[p].pc \in {"grab", "undo"} -> ListSet(op[p].frames)
      [] op[p].pc = "fill" -> {op[p].tgt}
      [] OTHER -> {}

SwapFramesOf(p) ==
    {pte[p][g].swpfpn : g \in {h \in Pages : pte[p][h].where = "swap"}}

(***************************************************************************)
(* Frames are conserved: on both devices the lists partition the frames,   *)
(* and the used frames are exactly those that some process maps or is      *)
(* about to map, through every failure and rollback (mm64.c:514-529,       *)
(* libmem.c:237-275).  A process that has ended keeps its frames           *)
(* (os.c:64-69).                                                           *)
(***************************************************************************)
NoFrameLeak ==
    /\ Partition(ram, RamFrames) /\ Partition(swp, SwapFrames)
    /\ ListSet(ram.used) = UNION {MappedFrames(p) \cup InFlight(p) : p \in Procs}
    /\ ListSet(swp.used) = UNION {SwapFramesOf(p) : p \in Procs}

(***************************************************************************)
(* No frame has two users: not two pages, of one process or of two, and    *)
(* not a page and an operation under way.                                  *)
(***************************************************************************)
SamePlace(a, b) ==
    \/ a.where = "ram" /\ b.where = "ram" /\ a.fpn = b.fpn
    \/ a.where = "swap" /\ b.where = "swap" /\ a.swpfpn = b.swpfpn

FramesNotShared ==
    /\ \A p, q \in Procs : \A g, h \in Pages :
           SamePlace(pte[p][g], pte[q][h]) => p = q /\ g = h
    /\ \A p, q \in Procs :
           /\ InFlight(p) \cap MappedFrames(q) = {}
           /\ p # q => InFlight(p) \cap InFlight(q) = {}

(***************************************************************************)
(* Paging implements a memory of each process's own: whatever is swapped,  *)
(* whoever takes which frame, and wherever an access fails, a page holds   *)
(* what its process last stored there, and nobody else's data although     *)
(* frames are handed on without being cleared (libmem.c:221-281,           *)
(* README.md: "full isolation of process address spaces").                 *)
(***************************************************************************)
Absent == << >>
NoReq  == [kind |-> "none"]

Contents(p, g) ==
    CASE pte[p][g].where = "none" -> Absent
      [] pte[p][g].where = "ram"  -> ramData[pte[p][g].fpn]
      [] pte[p][g].where = "swap" -> swpData[pte[p][g].swpfpn]

Request(p) ==
    IF op[p].pc \in {"fault", "evict", "fill", "access"}
    THEN [kind |-> op[p].kind, pgn |-> op[p].pgn] ELSE NoReq

memory   == [p \in Procs |-> [g \in Pages |-> Contents(p, g)]]
requests == [p \in Procs |-> Request(p)]

ProcessMemory ==
    INSTANCE Memory WITH Blank <- <<Zero>>, mem <- memory, req <- requests

ImplementsMemory == ProcessMemory!Spec

(***************************************************************************)
(* The FIFO names resident pages only, each once: find_victim_page never   *)
(* picks a page that is not in RAM, whose frame number would be garbage    *)
(* (libmem.c:239-244).                                                     *)
(***************************************************************************)
FifoResident ==
    \A p \in Procs :
        /\ NoRepeat(fifo_pgn[p])
        /\ \A g \in ListSet(fifo_pgn[p]) : pte[p][g].where = "ram"
        /\ op[p].pc = "evict" =>
               /\ pte[p][op[p].vic].where = "ram"
               /\ op[p].vic \notin ListSet(fifo_pgn[p])

(***************************************************************************)
(* An operation that has started ends: no path keeps a lock, and mmvm_lock *)
(* and vm_Lock are never waited for in a circle (libmem.c:74-123, 432-453, *)
(* mm-vm.c:166-227).                                                       *)
(***************************************************************************)
OperationsEnd == \A p \in Procs : op[p] \notin {Idle, Exited} ~> op[p] = Idle

(***************************************************************************)
(* "If physical RAM runs out vm_map_ram fails; we must take back the old   *)
(* boundary" (mm-vm.c:217-220): a process at rest has no page in its area  *)
(* without a frame or a swap frame behind it.                              *)
(***************************************************************************)
AreaBacked ==
    \A p \in Procs : op[p] = Idle =>
        \A g \in Pages : g < vm_end[p] => pte[p][g].where # "none"
=============================================================================
