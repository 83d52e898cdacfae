-------------------------------- MODULE KMem --------------------------------
(***************************************************************************)
(* Kernel memory (libmem.c:485-1026): KMALLOC, the cache pools and the     *)
(* copies between kernel and user space, over the kernel's mm and RAM.     *)
(*                                                                         *)
(* Every CPU reaches the one kernel mm, and no lock protects it.  An       *)
(* operation is therefore cut at each of its accesses to what the threads  *)
(* share: the pointer to the table of pools, the fields of a pool, the     *)
(* symbol table and the frame list.                                        *)
(*                                                                         *)
(* Memory with index id, whether KMALLOC or a pool asks for it, starts at  *)
(* page id * Stride: nothing else decides where it lies.  The page table   *)
(* is a map from pages to frames; the walk behind it is module PageTable.  *)
(***************************************************************************)
EXTENDS Frames, Integers

CONSTANTS
    Threads,   \* the CPU threads
    NumRam,    \* frames of RAM
    PageSize,  \* PAGING64_PAGESZ (4096)
    Stride,    \* pages between two indices (1000)
    NumPools,  \* PAGING_MAX_KCACHE_POOLS (100)
    NumRegs,   \* PAGING_MAX_SYMTBL_SZ (30)
    MaxId,     \* bound: the indices programs use
    MaxBytes,  \* bound: the sizes programs use
    NoFrame    \* an entry without the present bit

ASSUME KMemAssumption ==
    /\ NumRam \in Nat /\ NumPools \in Nat /\ NumRegs \in Nat /\ MaxId \in Nat
    /\ PageSize \in Nat \ {0} /\ Stride \in Nat \ {0}
    /\ MaxBytes \in 1 .. Stride * PageSize
    /\ NoFrame \notin 0 .. NumRam - 1

VARIABLES
    ram,        \* the frame lists of RAM
    kpte,       \* the kernel's page table: page -> frame
    kcpooltbls, \* every table of pools ever allocated; kcpooltbl is the last
    symrgtbl,   \* the kernel's symbol table
    op,         \* op[t]: the operation thread t is in
    crashed,    \* a thread has followed a NULL kcpooltbl
    slots,      \* history: slots[k]: handed out since pool k was created
    limit       \* history: limit[k]: where pool k ended when it was created

vars == <<ram, kpte, kcpooltbls, symrgtbl, op, crashed, slots, limit>>

Ids    == 0 .. MaxId
Sizes  == 1 .. MaxBytes
Pools  == 0 .. NumPools - 1
Regs   == 0 .. NumRegs - 1
Frms   == 0 .. NumRam - 1
KPages == 0 .. (MaxId + 1) * Stride - 1

Base(id) == id * Stride * PageSize

\* Mutation of Pages: the number of pages is rounded down (but not to 0).
PagesDown(size) == IF size < PageSize THEN 1 ELSE size \div PageSize

Pages(size) == (size + PageSize - 1) \div PageSize

Idle == [pc |-> "idle"]

OpSet ==
    [pc : {"idle"}]
      \cup [pc : {"table"}, id : Ids, size : Sizes, align : Sizes]
      \cup [pc : {"map"}, pool : BOOLEAN, id : Ids, size : Sizes,
            align : Sizes, k : 0 .. MaxBytes]
      \cup [pc : {"record"}, id : Pools, size : Sizes, align : Sizes, k : 1 .. 3]
      \cup [pc : {"slot", "ldStorage", "stStorage", "ldSize", "stSize",
                  "start", "end"},
            tbl : Nat, id : Pools, rgid : Ids, slot : Int, tmp : Int,
            undo : BOOLEAN]
      \cup [pc : {"copy"}, source : Regs, offset : Nat, rest : Nat]

TypeOK ==
    /\ ram \in [free : Seq(Frms), used : Seq(Frms)]
    /\ kpte \in [KPages -> Frms \cup {NoFrame}]
    /\ kcpooltbls \in Seq([Pools -> [size : Int, align : Nat, storage : Int]])
    /\ symrgtbl \in [Regs -> [rg_start : Int, rg_end : Int]]
    /\ op \in [Threads -> OpSet]
    /\ crashed \in BOOLEAN
    /\ slots \in [Pools -> SUBSET [start : Int, end : Int]]
    /\ limit \in [Pools -> Int]

Init ==
    /\ ram = MEMPHY_format(NumRam)
    /\ kpte = [g \in KPages |-> NoFrame]
    /\ kcpooltbls = << >>
    /\ symrgtbl = [r \in Regs |-> [rg_start |-> 0, rg_end |-> 0]]
    /\ op = [t \in Threads |-> Idle]
    /\ crashed = FALSE
    /\ slots = [k \in Pools |-> {}]
    /\ limit = [k \in Pools |-> 0]

Do(t, o) == op' = [op EXCEPT ![t] = o]

At(t, pc) == ~crashed /\ op[t].pc = pc
-----------------------------------------------------------------------------
(* __kmalloc, for KMALLOC and for a new pool.                              *)

StartMap(pool, id, size, align) ==
    [pc |-> "map", pool |-> pool, id |-> id, size |-> size, align |-> align,
     k |-> 0]

\* KMALLOC size id
Kmalloc(t, size, id) ==
    /\ At(t, "idle")
    /\ Do(t, StartMap(FALSE, id, size, size))
    /\ UNCHANGED <<ram, kpte, kcpooltbls, symrgtbl, crashed, slots, limit>>

\* One turn of the loop: a frame for the next page, which is mapped
\* whatever it was mapped to before.
MapPage(t) ==
    LET o == op[t]
    IN
    /\ At(t, "map") /\ HasFree(ram)
    /\ ram' = Popped(ram)
    /\ kpte' = [kpte EXCEPT ![o.id * Stride + o.k] = NextFree(ram)]
    /\ Do(t, CASE o.k + 1 < Pages(o.size) -> [o EXCEPT !.k = @ + 1]
               [] o.k + 1 >= Pages(o.size) /\ o.pool ->
                      [pc |-> "record", id |-> o.id, size |-> o.size,
                       align |-> o.align, k |-> 1]
               [] OTHER -> Idle)
    /\ UNCHANGED <<kcpooltbls, symrgtbl, crashed, slots, limit>>

\* No frame is left: fail, and keep what was mapped so far.
MapFails(t) ==
    /\ At(t, "map") /\ ~HasFree(ram)
    /\ Do(t, Idle)
    /\ UNCHANGED <<ram, kpte, kcpooltbls, symrgtbl, crashed, slots, limit>>
-----------------------------------------------------------------------------
(* libkmem_cache_pool_create                                               *)

\* The index is looked at after the table has been made.
AfterTable(id, size, align) ==
    IF id < NumPools THEN StartMap(TRUE, id, size, align) ELSE Idle

\* KMEM_CACHE_CREATE size align id: is there a table?
PoolCreate(t, size, align, id) ==
    /\ At(t, "idle") /\ size >= align
    /\ Do(t, IF kcpooltbls = << >>
             THEN [pc |-> "table", id |-> id, size |-> size, align |-> align]
             ELSE AfterTable(id, size, align))
    /\ UNCHANGED <<ram, kpte, kcpooltbls, symrgtbl, crashed, slots, limit>>

NoPool == [size |-> 0, align |-> 0, storage |-> 0]

\* Mutation of AllocTable: calloc makes room for one pool less.
AllocShortTable(t) ==
    /\ At(t, "table")
    /\ kcpooltbls' = Append(kcpooltbls, [k \in 0 .. NumPools - 2 |-> NoPool])
    /\ Do(t, AfterTable(op[t].id, op[t].size, op[t].align))
    /\ UNCHANGED <<ram, kpte, symrgtbl, crashed, slots, limit>>

\* There was none when the thread looked: make one, in place of whatever is
\* there by now.
AllocTable(t) ==
    /\ At(t, "table")
    /\ kcpooltbls' = Append(kcpooltbls, [k \in Pools |-> NoPool])
    /\ Do(t, AfterTable(op[t].id, op[t].size, op[t].align))
    /\ UNCHANGED <<ram, kpte, symrgtbl, crashed, slots, limit>>

\* The memory is there: the pool's size, align and storage are stored one
\* after the other.
RecordPool(t) ==
    LET o == op[t]
        last == Len(kcpooltbls)
    IN
    /\ At(t, "record")
    /\ \/ /\ o.k = 1
          /\ kcpooltbls' = [kcpooltbls EXCEPT ![last][o.id].size = o.size]
          /\ UNCHANGED <<slots, limit>>
       \/ /\ o.k = 2
          /\ kcpooltbls' = [kcpooltbls EXCEPT ![last][o.id].align = o.align]
          /\ UNCHANGED <<slots, limit>>
       \/ /\ o.k = 3
          /\ kcpooltbls' = [kcpooltbls EXCEPT ![last][o.id].storage = Base(o.id)]
          /\ slots' = [slots EXCEPT ![o.id] = {}]
          /\ limit' = [limit EXCEPT ![o.id] = Base(o.id) + o.size]
    /\ Do(t, IF o.k = 3 THEN Idle ELSE [o EXCEPT !.k = @ + 1])
    /\ UNCHANGED <<ram, kpte, symrgtbl, crashed>>
-----------------------------------------------------------------------------
(* __kmem_cache_alloc                                                      *)

Pool(t) == kcpooltbls[op[t].tbl][op[t].id]

\* KMEM_CACHE_ALLOC id rgid: the pool exists and has room for a slot.  The
\* thread keeps a pointer into the table it found.
CacheAlloc(t, id, rgid) ==
    LET tbl == Len(kcpooltbls)
    IN
    /\ At(t, "idle") /\ id < NumPools
    /\ tbl # 0
    /\ kcpooltbls[tbl][id].align # 0
    /\ kcpooltbls[tbl][id].size >= kcpooltbls[tbl][id].align
    /\ Do(t, [pc |-> "slot", tbl |-> tbl, id |-> id, rgid |-> rgid,
              slot |-> 0, tmp |-> 0, undo |-> FALSE])
    /\ UNCHANGED <<ram, kpte, kcpooltbls, symrgtbl, crashed, slots, limit>>

\* There is no table yet: pool->align is read through NULL.
CacheAllocNull(t, id) ==
    /\ At(t, "idle") /\ id < NumPools
    /\ kcpooltbls = << >>
    /\ crashed' = TRUE
    /\ UNCHANGED <<ram, kpte, kcpooltbls, symrgtbl, op, slots, limit>>

\* slot_addr = pool->storage
ReadSlot(t) ==
    /\ At(t, "slot")
    /\ Do(t, [op[t] EXCEPT !.pc = "ldStorage", !.slot = Pool(t).storage])
    /\ UNCHANGED <<ram, kpte, kcpooltbls, symrgtbl, crashed, slots, limit>>

\* pool->storage += pool->align, or -= when the slot is taken back: a load
\* and a store.
LoadStorage(t) ==
    /\ At(t, "ldStorage")
    /\ Do(t, [op[t] EXCEPT !.pc = "stStorage",
                           !.tmp = IF op[t].undo
                                   THEN Pool(t).storage - Pool(t).align
                                   ELSE Pool(t).storage + Pool(t).align])
    /\ UNCHANGED <<ram, kpte, kcpooltbls, symrgtbl, crashed, slots, limit>>

StoreStorage(t) ==
    /\ At(t, "stStorage")
    /\ kcpooltbls' =
           [kcpooltbls EXCEPT ![op[t].tbl][op[t].id].storage = op[t].tmp]
    /\ Do(t, [op[t] EXCEPT !.pc = "ldSize"])
    /\ UNCHANGED <<ram, kpte, symrgtbl, crashed, slots, limit>>

\* pool->size -= pool->align, or +=.
LoadSize(t) ==
    /\ At(t, "ldSize")
    /\ Do(t, [op[t] EXCEPT !.pc = "stSize",
                           !.tmp = IF op[t].undo
                                   THEN Pool(t).size + Pool(t).align
                                   ELSE Pool(t).size - Pool(t).align])
    /\ UNCHANGED <<ram, kpte, kcpooltbls, symrgtbl, crashed, slots, limit>>

\* Mutation of StoreSize: a slot for an invalid region is not taken back.
StoreSizeForGood(t) ==
    /\ At(t, "stSize")
    /\ kcpooltbls' =
           [kcpooltbls EXCEPT ![op[t].tbl][op[t].id].size = op[t].tmp]
    /\ Do(t, IF op[t].rgid < NumRegs THEN [op[t] EXCEPT !.pc = "start"] ELSE Idle)
    /\ UNCHANGED <<ram, kpte, symrgtbl, crashed, slots, limit>>

\* Then the region is recorded, or the slot taken back if rgid is invalid.
StoreSize(t) ==
    LET o == op[t]
    IN
    /\ At(t, "stSize")
    /\ kcpooltbls' = [kcpooltbls EXCEPT ![o.tbl][o.id].size = o.tmp]
    /\ Do(t, CASE o.undo -> Idle
               [] ~o.undo /\ o.rgid < NumRegs -> [o EXCEPT !.pc = "start"]
               [] OTHER -> [o EXCEPT !.pc = "ldStorage", !.undo = TRUE])
    /\ UNCHANGED <<ram, kpte, symrgtbl, crashed, slots, limit>>

StoreStart(t) ==
    /\ At(t, "start")
    /\ symrgtbl' = [symrgtbl EXCEPT ![op[t].rgid].rg_start = op[t].slot]
    /\ Do(t, [op[t] EXCEPT !.pc = "end"])
    /\ UNCHANGED <<ram, kpte, kcpooltbls, crashed, slots, limit>>

StoreEnd(t) ==
    LET o == op[t]
        end == o.slot + Pool(t).align
    IN
    /\ At(t, "end")
    /\ symrgtbl' = [symrgtbl EXCEPT ![o.rgid].rg_end = end]
    /\ slots' = [slots EXCEPT ![o.id] = @ \cup {[start |-> o.slot, end |-> end]}]
    /\ Do(t, Idle)
    /\ UNCHANGED <<ram, kpte, kcpooltbls, crashed, limit>>
-----------------------------------------------------------------------------
(* libkmem_copy_to_user and libkmem_copy_from_user: the two have the same  *)
(* body.  A byte is read from kernel memory, and written to the user       *)
(* region, which may fail (see Paging).                                    *)

Copy(t, source, offset, size) ==
    /\ At(t, "idle")
    /\ Do(t, [pc |-> "copy", source |-> source, offset |-> offset, rest |-> size])
    /\ UNCHANGED <<ram, kpte, kcpooltbls, symrgtbl, crashed, slots, limit>>

\* The byte lies inside the region, as __read_kernel_mem tests it.
InRegion(o) ==
    LET rg == symrgtbl[o.source]
    IN /\ ~(rg.rg_start = 0 /\ rg.rg_end = 0)
       /\ rg.rg_start + o.offset < rg.rg_end

Present(vaddr) ==
    /\ vaddr \div PageSize \in KPages
    /\ kpte[vaddr \div PageSize] # NoFrame

\* The address of the byte the copy is at.
KernelAddr(o) == symrgtbl[o.source].rg_start + o.offset

\* __write_user_mem: whether the byte can be written depends on the user's
\* region and on paging.
WriteUserMem == BOOLEAN

\* The read fails outside the region and, with "KERNEL PANIC", on a page
\* that is not there.  What was copied before a failure stays copied.
CopyByte(t) ==
    LET o == op[t]
    IN
    /\ At(t, "copy")
    /\ \/ /\ InRegion(o) /\ Present(KernelAddr(o))
          /\ \E written \in WriteUserMem :
                 Do(t, IF written /\ o.rest > 1
                       THEN [o EXCEPT !.offset = @ + 1, !.rest = @ - 1]
                       ELSE Idle)
       \/ /\ ~(InRegion(o) /\ Present(KernelAddr(o)))
          /\ Do(t, Idle)
    /\ UNCHANGED <<ram, kpte, kcpooltbls, symrgtbl, crashed, slots, limit>>
-----------------------------------------------------------------------------
Call(t) ==
    \/ \E size \in Sizes, id \in Ids : Kmalloc(t, size, id)
    \/ \E size, align \in Sizes, id \in Ids : PoolCreate(t, size, align, id)
    \/ \E id, rgid \in Ids : CacheAlloc(t, id, rgid)
    \/ \E id \in Ids : CacheAllocNull(t, id)
    \/ \E source \in Regs, offset \in 0 .. MaxBytes - 1 :
           \E size \in 1 .. MaxBytes - offset : Copy(t, source, offset, size)

Step(t) ==
    \/ MapPage(t) \/ MapFails(t)
    \/ AllocTable(t) \/ RecordPool(t)
    \/ ReadSlot(t) \/ LoadStorage(t) \/ StoreStorage(t) \/ LoadSize(t)
    \/ StoreSize(t) \/ StoreStart(t) \/ StoreEnd(t)
    \/ CopyByte(t)

Dead == crashed /\ UNCHANGED vars

Next == (\E t \in Threads : Call(t) \/ Step(t)) \/ Dead

Spec == Init /\ [][Next]_vars
-----------------------------------------------------------------------------
(* Properties.                                                             *)

(***************************************************************************)
(* A kernel page that is mapped has a used frame to itself, although       *)
(* __kmalloc maps pages over again and fails in the middle without undoing *)
(* anything (libmem.c:533-556).                                            *)
(***************************************************************************)
KernelFramesOwned ==
    /\ Partition(ram, Frms)
    /\ \A g, h \in KPages :
           kpte[g] # NoFrame =>
               /\ IsUsed(ram, kpte[g])
               /\ kpte[g] = kpte[h] => g = h

Bytes(a, b) == a .. b - 1

(***************************************************************************)
(* A pool accounts for its bytes: the slots handed out since it was made   *)
(* do not overlap, together they are what lies before storage, and size is *)
(* what lies behind it, also after a slot was taken back                   *)
(* (libmem.c:662-683).                                                     *)
(***************************************************************************)
PoolAccounts ==
    \A k \in Pools : (kcpooltbls # << >> /\ \A t \in Threads : op[t] = Idle) =>
        LET pool == Last(kcpooltbls)[k]
        IN pool.align # 0 =>
            /\ pool.storage + pool.size = limit[k]
            /\ UNION {Bytes(s.start, s.end) : s \in slots[k]}
                   = Bytes(Base(k), pool.storage)
            /\ \A r, s \in slots[k] :
                   r # s => Bytes(r.start, r.end) \cap Bytes(s.start, s.end) = {}

(***************************************************************************)
(* "Unlike user memory, a page miss in kernel memory is a serious error"   *)
(* (libmem.c:805): a byte that a copy finds inside a kernel region has a   *)
(* page.                                                                   *)
(***************************************************************************)
NoKernelPanic ==
    \A t \in Threads :
        At(t, "copy") /\ InRegion(op[t]) => Present(KernelAddr(op[t]))
=============================================================================
