----------------------------- MODULE KMemProofs -----------------------------
(***************************************************************************)
(* The kernel's memory (kmalloc, the cache pools and their slots, the      *)
(* copies) for any sizes, any page size and any number of regions.         *)
(*                                                                         *)
(* For any number of threads: types, and that every kernel page has a      *)
(* frame of its own that the free list has given up (FrameInv).            *)
(*                                                                         *)
(* For one thread, which is what a machine with one CPU runs: the pools    *)
(* account for every byte and no copy meets an unmapped page.  Neither is  *)
(* inductive as it stands, because a pool is in disorder while a slot is   *)
(* being taken from it.  PoolInv says what holds then: Taking recovers the *)
(* pool as it was before the operation from the fields as they are now,    *)
(* for each step of the operation, and for each step of taking the slot    *)
(* back.  With a second thread both fail, since __kmem_cache_alloc takes   *)
(* no lock.                                                                *)
(***************************************************************************)
EXTENDS KMem, ListLemmas

\* What \div gives.
LEMMA Quotient ==
    ASSUME NEW a \in Int, NEW P \in Nat \ {0}
    PROVE  /\ a \div P \in Int
           /\ (a \div P) * P <= a
           /\ a < (a \div P) * P + P
    OBVIOUS

\* Multiplying by a page size keeps the order.
LEMMA ProductMonotone ==
    ASSUME NEW a \in Int, NEW b \in Int, NEW P \in Nat \ {0}
    PROVE  a <= b <=> a * P <= b * P
    OBVIOUS

\* A block has at least one page, fits in its stride, and its pages hold
\* it.
LEMMA PagesOf ==
    ASSUME NEW size \in Sizes
    PROVE  /\ Pages(size) \in 1 .. size
           /\ Pages(size) <= Stride
           /\ size <= Pages(size) * PageSize
    BY Quotient, KMemAssumption DEF Sizes, Pages

\* A counter of pages stays within the bound on sizes.
LEMMA PagesBound ==
    ASSUME NEW size \in Sizes
    PROVE  Pages(size) \in Nat /\ 1 <= Pages(size) /\ Pages(size) <= MaxBytes
<1>1. MaxBytes \in Nat
    BY KMemAssumption
<1>2. Pages(size) \in 1 .. size
    BY PagesOf
<1> QED
    BY <1>1, <1>2 DEF Sizes
-----------------------------------------------------------------------------
SlotPcs == {"slot", "ldStorage", "stStorage", "ldSize", "stSize", "start", "end"}

\* What the operation of a thread relies on: the page it maps next exists,
\* and so do the pool and the region it points to.
Ready(o, n) ==
    /\ o.pc = "map" => o.k < Pages(o.size) /\ (o.pool => o.id \in Pools)
    /\ o.pc = "record" \/ (o.pc = "map" /\ o.pool) => n # 0
    /\ o.pc \in SlotPcs => o.tbl \in 1 .. n
    /\ o.pc \in {"start", "end"} => o.rgid \in Regs

TypeInv == TypeOK /\ \A t \in Threads : Ready(op[t], Len(kcpooltbls))

PoolSet == [size : Int, align : Nat, storage : Int]

\* The fields of an operation, by its step.
LEMMA OpFields ==
    ASSUME NEW o \in OpSet
    PROVE  /\ o.pc = "table" => o.id \in Ids /\ o.size \in Sizes /\ o.align \in Sizes
           /\ o.pc = "map" => /\ o.pool \in BOOLEAN /\ o.id \in Ids /\ o.size \in Sizes
                              /\ o.align \in Sizes /\ o.k \in 0 .. MaxBytes
           /\ o.pc = "record" => /\ o.id \in Pools /\ o.size \in Sizes
                                 /\ o.align \in Sizes /\ o.k \in 1 .. 3
           /\ o.pc \in SlotPcs => /\ o.tbl \in Nat /\ o.id \in Pools /\ o.rgid \in Ids
                                  /\ o.slot \in Int /\ o.tmp \in Int /\ o.undo \in BOOLEAN
           /\ o.pc = "copy" => o.source \in Regs /\ o.offset \in Nat /\ o.rest \in Nat
    BY DEF OpSet, SlotPcs

\* A thread moves on to operation o: what the other threads rely on stays,
\* because tables of pools are only ever added.
LEMMA StepType ==
    ASSUME TypeInv, NEW t \in Threads, NEW o \in OpSet, Do(t, o),
           kcpooltbls' \in Seq([Pools -> PoolSet]), Len(kcpooltbls) <= Len(kcpooltbls'),
           Ready(o, Len(kcpooltbls')),
           ram' \in Device(Frms), kpte' \in [KPages -> Frms \cup {NoFrame}],
           symrgtbl' \in [Regs -> [rg_start : Int, rg_end : Int]],
           crashed' \in BOOLEAN,
           slots' \in [Pools -> SUBSET [start : Int, end : Int]], limit' \in [Pools -> Int]
    PROVE  TypeInv'
<1>1. op' \in [Threads -> OpSet] /\ op'[t] = o /\ \A s \in Threads \ {t} : op'[s] = op[s]
    BY DEF TypeInv, TypeOK, Do
<1>2. Len(kcpooltbls) \in Nat /\ Len(kcpooltbls') \in Nat
    BY DEF TypeInv, TypeOK
<1>3. ASSUME NEW s \in Threads \ {t}
      PROVE  Ready(op'[s], Len(kcpooltbls'))
  <2>1. Ready(op[s], Len(kcpooltbls))
    BY DEF TypeInv
  <2>2. Ready(op[s], Len(kcpooltbls'))
    BY <1>2, <2>1 DEF Ready
  <2> QED
    BY <1>1, <2>2
<1> QED
    BY <1>1, <1>3 DEF TypeInv, TypeOK, Device, PoolSet

\* The types of what a step leaves alone.
LEMMA Types ==
    ASSUME TypeInv
    PROVE  /\ kcpooltbls \in Seq([Pools -> PoolSet]) /\ Len(kcpooltbls) \in Nat
           /\ ram \in Device(Frms) /\ kpte \in [KPages -> Frms \cup {NoFrame}]
           /\ symrgtbl \in [Regs -> [rg_start : Int, rg_end : Int]] /\ crashed \in BOOLEAN
           /\ slots \in [Pools -> SUBSET [start : Int, end : Int]] /\ limit \in [Pools -> Int]
           /\ op \in [Threads -> OpSet] /\ \A t \in Threads : Ready(op[t], Len(kcpooltbls))
    BY DEF TypeInv, TypeOK, Device, PoolSet

\* The same when the step changes nothing but the operation.
LEMMA MoveType ==
    ASSUME TypeInv, NEW t \in Threads, NEW o \in OpSet, Do(t, o), Ready(o, Len(kcpooltbls)),
           UNCHANGED <<ram, kpte, kcpooltbls, symrgtbl, crashed, slots, limit>>
    PROVE  TypeInv'
<1>1. /\ kcpooltbls' \in Seq([Pools -> PoolSet]) /\ Len(kcpooltbls) <= Len(kcpooltbls')
      /\ ram' \in Device(Frms) /\ kpte' \in [KPages -> Frms \cup {NoFrame}]
      /\ symrgtbl' \in [Regs -> [rg_start : Int, rg_end : Int]] /\ crashed' \in BOOLEAN
      /\ slots' \in [Pools -> SUBSET [start : Int, end : Int]] /\ limit' \in [Pools -> Int]
    BY Types
<1>2. Ready(o, Len(kcpooltbls'))
    OBVIOUS
<1> QED
    BY <1>1, <1>2, StepType, Zenon

\* A thread between two operations relies on nothing.
LEMMA IdleReady ==
    Idle \in OpSet /\ \A n : Ready(Idle, n)
    BY DEF Idle, OpSet, Ready, SlotPcs

\* The mapping of a kmalloc or of a pool starts.
LEMMA StartMapReady ==
    ASSUME NEW pool \in BOOLEAN, NEW id \in Ids, NEW size \in Sizes, NEW align \in Sizes,
           NEW n, pool => id \in Pools /\ n # 0
    PROVE  /\ StartMap(pool, id, size, align) \in OpSet
           /\ Ready(StartMap(pool, id, size, align), n)
    BY PagesOf, KMemAssumption DEF StartMap, OpSet, Ready, SlotPcs, Sizes

\* Once there is a table of pools, libkmem_cache_pool_create may map.
LEMMA AfterTableReady ==
    ASSUME NEW id \in Ids, NEW size \in Sizes, NEW align \in Sizes, NEW n, n # 0
    PROVE  /\ AfterTable(id, size, align) \in OpSet
           /\ Ready(AfterTable(id, size, align), n)
<1>1. CASE id < NumPools
  <2>1. id \in Pools
    BY <1>1, KMemAssumption DEF Ids, Pools
  <2> QED
    BY <1>1, <2>1, StartMapReady, Zenon DEF AfterTable
<1>2. CASE ~(id < NumPools)
    BY <1>2, IdleReady DEF AfterTable
<1> QED
    BY <1>1, <1>2

\* __kmalloc starts with the first page.
LEMMA KmallocType ==
    ASSUME TypeInv, NEW t \in Threads, NEW size \in Sizes, NEW id \in Ids, Kmalloc(t, size, id)
    PROVE  TypeInv'
    BY StartMapReady, MoveType, Zenon DEF Kmalloc

\* libkmem_cache_pool_create starts, with or without a table of pools.
LEMMA PoolCreateType ==
    ASSUME TypeInv, NEW t \in Threads, NEW size \in Sizes, NEW align \in Sizes, NEW id \in Ids,
           PoolCreate(t, size, align, id)
    PROVE  TypeInv'
<1> DEFINE o == [pc |-> "table", id |-> id, size |-> size, align |-> align]
<1>1. o \in OpSet /\ Ready(o, Len(kcpooltbls))
    BY DEF OpSet, Ready, SlotPcs
<1>2. CASE kcpooltbls = << >>
    BY <1>1, <1>2, MoveType DEF PoolCreate
<1>3. CASE kcpooltbls # << >>
  <2>1. Len(kcpooltbls) # 0
    BY <1>3, Types
  <2> QED
    BY <1>3, <2>1, AfterTableReady, MoveType, Zenon DEF PoolCreate
<1> QED
    BY <1>2, <1>3

\* __kmem_cache_alloc starts on a pool that has room.
LEMMA CacheAllocType ==
    ASSUME TypeInv, NEW t \in Threads, NEW id \in Ids, NEW rgid \in Ids,
           CacheAlloc(t, id, rgid)
    PROVE  TypeInv'
<1> DEFINE o == [pc |-> "slot", tbl |-> Len(kcpooltbls), id |-> id, rgid |-> rgid,
                 slot |-> 0, tmp |-> 0, undo |-> FALSE]
<1>1. Len(kcpooltbls) \in Nat /\ id \in Pools /\ Len(kcpooltbls) # 0
    BY KMemAssumption DEF CacheAlloc, TypeInv, TypeOK, Ids, Pools
<1>2. o \in OpSet /\ Ready(o, Len(kcpooltbls))
    BY <1>1 DEF OpSet, Ready, SlotPcs
<1> QED
    BY <1>2, MoveType, Zenon DEF CacheAlloc

\* A copy between user and kernel memory starts.
LEMMA CopyType ==
    ASSUME TypeInv, NEW t \in Threads, NEW source \in Regs, NEW offset \in 0 .. MaxBytes - 1,
           NEW size \in 1 .. MaxBytes - offset, Copy(t, source, offset, size)
    PROVE  TypeInv'
<1> DEFINE o == [pc |-> "copy", source |-> source, offset |-> offset, rest |-> size]
<1>1. o \in OpSet /\ Ready(o, Len(kcpooltbls))
    BY KMemAssumption DEF OpSet, Ready, SlotPcs
<1> QED
    BY <1>1, MoveType DEF Copy

\* The next page exists: an index has room for every size in use.
LEMMA NextPage ==
    ASSUME NEW id \in Ids, NEW size \in Sizes, NEW k \in Nat, k < Pages(size)
    PROVE  id * Stride + k \in KPages
<1>1. k < Stride
    BY PagesOf, KMemAssumption DEF Sizes
<1>2. id * Stride + Stride <= (MaxId + 1) * Stride
    BY KMemAssumption DEF Ids
<1> QED
    BY <1>1, <1>2, KMemAssumption DEF Ids, KPages

\* __kmalloc maps one more page, and the last one ends the mapping.
LEMMA MapPageType ==
    ASSUME TypeInv, KernelFramesOwned, NEW t \in Threads, MapPage(t)
    PROVE  TypeInv'
<1> DEFINE o == op[t]
<1>1. /\ o \in OpSet /\ o.pc = "map" /\ Ready(o, Len(kcpooltbls))
      /\ ram \in Device(Frms) /\ Partition(ram, Frms) /\ HasFree(ram)
    BY DEF MapPage, At, TypeInv, TypeOK, Device, KernelFramesOwned
<1>2. ram' \in Device(Frms) /\ NextFree(ram) \in Frms
    BY <1>1, PoppedPartition DEF MapPage
<1>3. kpte' \in [KPages -> Frms \cup {NoFrame}]
    BY <1>2, Zenon DEF MapPage, TypeInv, TypeOK
<1>4. /\ o.pool \in BOOLEAN /\ o.id \in Ids /\ o.size \in Sizes /\ o.align \in Sizes
      /\ o.k \in 0 .. MaxBytes /\ o.k < Pages(o.size)
      /\ (o.pool => o.id \in Pools /\ Len(kcpooltbls) # 0)
    BY <1>1, OpFields, Zenon DEF Ready
<1> DEFINE more == [o EXCEPT !.k = @ + 1]
           rec  == [pc |-> "record", id |-> o.id, size |-> o.size, align |-> o.align, k |-> 1]
<1>5. PICK a \in {more, rec, Idle} :
          /\ Do(t, a)
          /\ a = more => o.k + 1 < Pages(o.size)
          /\ a = rec => o.pool
  <2>1. CASE o.k + 1 < Pages(o.size)
    BY <2>1, <1>1, Zenon DEF MapPage, Idle
  <2>2. CASE ~(o.k + 1 < Pages(o.size)) /\ o.pool
    BY <2>2, <1>1, <1>4, PagesOf, Zenon DEF MapPage, Idle, Sizes
  <2>3. CASE ~(o.k + 1 < Pages(o.size)) /\ ~o.pool
    BY <2>3, <1>1, <1>4, PagesOf, Zenon DEF MapPage, Idle, Sizes
  <2> QED
    BY <2>1, <2>2, <2>3, Zenon
<1>6. a \in OpSet /\ Ready(a, Len(kcpooltbls))
  <2>1. CASE a = more
    <3>1. o.k + 1 \in 0 .. MaxBytes
      <4>1. Pages(o.size) \in Nat /\ Pages(o.size) <= MaxBytes
        BY <1>4, PagesBound
      <4>2. o.k \in Nat /\ o.k < Pages(o.size)
        BY <1>4, KMemAssumption
      <4> QED
        BY <4>1, <4>2, KMemAssumption
    <3>2. more \in OpSet
        BY <1>1, <1>4, <3>1, Zenon DEF OpSet
    <3>3. more.pc = "map" /\ more.k = o.k + 1 /\ more.pool = o.pool /\ more.id = o.id
          /\ more.size = o.size
        BY <1>1 DEF OpSet
    <3> QED
        BY <1>4, <1>5, <2>1, <3>2, <3>3 DEF Ready, SlotPcs
  <2>2. CASE a = rec
    BY <1>4, <1>5, <2>2 DEF OpSet, Ready, SlotPcs
  <2>3. CASE a = Idle
    BY <2>3, IdleReady, Zenon
  <2> QED
    BY <1>5, <2>1, <2>2, <2>3, Zenon
<1>7. /\ kcpooltbls' \in Seq([Pools -> PoolSet]) /\ Len(kcpooltbls) <= Len(kcpooltbls')
      /\ symrgtbl' \in [Regs -> [rg_start : Int, rg_end : Int]] /\ crashed' \in BOOLEAN
      /\ slots' \in [Pools -> SUBSET [start : Int, end : Int]] /\ limit' \in [Pools -> Int]
      /\ Ready(a, Len(kcpooltbls'))
    BY <1>6, Types DEF MapPage
<1> QED
    BY <1>2, <1>3, <1>5, <1>6, <1>7, StepType, Zenon

\* No frame is left for the next page.
LEMMA MapFailsType ==
    ASSUME TypeInv, NEW t \in Threads, MapFails(t)
    PROVE  TypeInv'
    BY IdleReady, MoveType DEF MapFails

\* One field of one pool is stored: the tables keep their number and type.
LEMMA StoreField ==
    ASSUME NEW tbls \in Seq([Pools -> PoolSet]), NEW n \in 1 .. Len(tbls),
           NEW k \in Pools, NEW new \in PoolSet
    PROVE  /\ [tbls EXCEPT ![n][k] = new] \in Seq([Pools -> PoolSet])
           /\ Len([tbls EXCEPT ![n][k] = new]) = Len(tbls)
<1>1. tbls[n] \in [Pools -> PoolSet]
    OBVIOUS
<1>2. [tbls[n] EXCEPT ![k] = new] \in [Pools -> PoolSet]
    BY <1>1
<1> QED
    BY <1>2

\* The table of pools is allocated; the one made last is the one found.
LEMMA AllocTableType ==
    ASSUME TypeInv, NEW t \in Threads, AllocTable(t)
    PROVE  TypeInv'
<1> DEFINE new == [k \in Pools |-> NoPool]
           o == AfterTable(op[t].id, op[t].size, op[t].align)
<1>1. op[t] \in OpSet /\ op[t].pc = "table"
    BY DEF AllocTable, At, TypeInv, TypeOK
<1>2. op[t].id \in Ids /\ op[t].size \in Sizes /\ op[t].align \in Sizes
    BY <1>1, OpFields
<1>3. new \in [Pools -> PoolSet]
    BY DEF PoolSet, NoPool
<1>4. kcpooltbls' = Append(kcpooltbls, new) /\ kcpooltbls \in Seq([Pools -> PoolSet])
    BY Types DEF AllocTable
<1>5. kcpooltbls' \in Seq([Pools -> PoolSet]) /\ Len(kcpooltbls) <= Len(kcpooltbls')
      /\ Len(kcpooltbls') # 0
    BY <1>3, <1>4
<1>6. /\ ram' \in Device(Frms) /\ kpte' \in [KPages -> Frms \cup {NoFrame}]
      /\ symrgtbl' \in [Regs -> [rg_start : Int, rg_end : Int]] /\ crashed' \in BOOLEAN
      /\ slots' \in [Pools -> SUBSET [start : Int, end : Int]] /\ limit' \in [Pools -> Int]
    BY Types, Zenon DEF AllocTable
<1>7. Do(t, o) /\ o \in OpSet /\ Ready(o, Len(kcpooltbls'))
    BY <1>2, <1>5, AfterTableReady DEF AllocTable
<1> QED
    BY <1>5, <1>6, <1>7, StepType, Zenon

\* A step that stores into the tables of pools and moves on.
LEMMA StoreType ==
    ASSUME TypeInv, NEW t \in Threads, NEW o \in OpSet, Do(t, o), Ready(o, Len(kcpooltbls)),
           NEW n \in 1 .. Len(kcpooltbls), NEW k \in Pools, NEW new \in PoolSet,
           kcpooltbls' = [kcpooltbls EXCEPT ![n][k] = new],
           slots' \in [Pools -> SUBSET [start : Int, end : Int]], limit' \in [Pools -> Int],
           UNCHANGED <<ram, kpte, symrgtbl, crashed>>
    PROVE  TypeInv'
<1>1. kcpooltbls \in Seq([Pools -> PoolSet])
    BY Types
<1>2. kcpooltbls' \in Seq([Pools -> PoolSet]) /\ Len(kcpooltbls') = Len(kcpooltbls)
    BY <1>1, StoreField
<1>3. /\ Len(kcpooltbls) <= Len(kcpooltbls') /\ Ready(o, Len(kcpooltbls'))
      /\ ram' \in Device(Frms) /\ kpte' \in [KPages -> Frms \cup {NoFrame}]
      /\ symrgtbl' \in [Regs -> [rg_start : Int, rg_end : Int]] /\ crashed' \in BOOLEAN
    BY <1>2, Types
<1> QED
    BY <1>2, <1>3, StepType, Zenon

\* The fields of a pool are stored, one at a time.
LEMMA RecordPoolType ==
    ASSUME TypeInv, NEW t \in Threads, RecordPool(t)
    PROVE  TypeInv'
<1> DEFINE o == op[t]
           last == Len(kcpooltbls)
           old == kcpooltbls[last][o.id]
           next == IF o.k = 3 THEN Idle ELSE [o EXCEPT !.k = @ + 1]
<1>1. o \in OpSet /\ o.pc = "record" /\ Do(t, next) /\ last \in 1 .. last
    BY Types DEF RecordPool, At, Ready
<1>2. o.id \in Pools /\ o.size \in Sizes /\ o.align \in Sizes /\ o.k \in 1 .. 3
    BY <1>1, OpFields
<1>3. next \in OpSet /\ Ready(next, last)
  <2>1. CASE o.k = 3
    BY <2>1, IdleReady, Zenon
  <2>2. CASE o.k # 3
    <3>1. /\ next \in OpSet /\ next.pc = "record"
        BY <1>1, <1>2, <2>2 DEF OpSet
    <3> QED
        BY <1>1, <3>1 DEF Ready, SlotPcs
  <2> QED
    BY <2>1, <2>2
<1>4. o.size \in Int /\ o.align \in Nat /\ Base(o.id) \in Int
    BY <1>2, KMemAssumption DEF Sizes, Base, Pools
<1>5. old \in PoolSet
    BY <1>1, <1>2, Types DEF Ready
<1> DEFINE new == CASE o.k = 1 -> [old EXCEPT !.size = o.size]
                    [] o.k = 2 -> [old EXCEPT !.align = o.align]
                    [] OTHER -> [old EXCEPT !.storage = Base(o.id)]
<1>6. new \in PoolSet
    BY <1>4, <1>5, Zenon DEF PoolSet
<1>7. kcpooltbls' = [kcpooltbls EXCEPT ![last][o.id] = new]
    BY <1>2 DEF RecordPool
<1>8. Base(o.id) + o.size \in Int /\ {} \in SUBSET [start : Int, end : Int]
    BY <1>4
<1>9. slots' \in [Pools -> SUBSET [start : Int, end : Int]] /\ limit' \in [Pools -> Int]
  <2>1. CASE o.k = 3
    BY <1>2, <1>8, <2>1, Types, Zenon DEF RecordPool
  <2>2. CASE o.k # 3
    BY <2>2, Types, Zenon DEF RecordPool
  <2> QED
    BY <2>1, <2>2
<1>10. UNCHANGED <<ram, kpte, symrgtbl, crashed>>
    BY DEF RecordPool
<1> HIDE DEF new, next, old, o
<1> QED
    BY <1>1, <1>2, <1>3, <1>6, <1>7, <1>9, <1>10, StoreType, Zenon

\* What a step of a slot allocation works on.
LEMMA SlotOp ==
    ASSUME TypeInv, NEW t \in Threads, op[t].pc \in SlotPcs
    PROVE  /\ op[t] \in OpSet /\ Ready(op[t], Len(kcpooltbls))
           /\ op[t].tbl \in 1 .. Len(kcpooltbls) /\ op[t].id \in Pools
           /\ Pool(t) \in PoolSet
<1>1. /\ op[t] \in OpSet /\ Ready(op[t], Len(kcpooltbls)) /\ op[t].tbl \in 1 .. Len(kcpooltbls)
      /\ op[t].id \in Pools
    BY Types, OpFields, Zenon DEF Ready
<1>2. kcpooltbls[op[t].tbl] \in [Pools -> PoolSet]
    BY <1>1, Types
<1> QED
    BY <1>1, <1>2, Zenon DEF Pool

\* The slot is the pool's storage.
LEMMA ReadSlotType ==
    ASSUME TypeInv, NEW t \in Threads, ReadSlot(t)
    PROVE  TypeInv'
<1> DEFINE o == [op[t] EXCEPT !.pc = "ldStorage", !.slot = Pool(t).storage]
<1>1. op[t].pc = "slot" /\ op[t].pc \in SlotPcs
    BY DEF ReadSlot, At, SlotPcs
<1>2. Pool(t).storage \in Int
    BY <1>1, SlotOp DEF PoolSet
<1>3. o \in OpSet /\ o.pc = "ldStorage" /\ o.tbl = op[t].tbl
    BY <1>1, <1>2, SlotOp, Zenon DEF OpSet
<1>4. Ready(o, Len(kcpooltbls))
    BY <1>1, <1>3, SlotOp DEF Ready, SlotPcs
<1> QED
    BY <1>3, <1>4, MoveType DEF ReadSlot

\* storage is read ...
LEMMA LoadStorageType ==
    ASSUME TypeInv, NEW t \in Threads, LoadStorage(t)
    PROVE  TypeInv'
<1> DEFINE v == IF op[t].undo THEN Pool(t).storage - Pool(t).align
                ELSE Pool(t).storage + Pool(t).align
           o == [op[t] EXCEPT !.pc = "stStorage", !.tmp = v]
<1>1. op[t].pc = "ldStorage" /\ op[t].pc \in SlotPcs
    BY DEF LoadStorage, At, SlotPcs
<1>2. v \in Int
    BY <1>1, SlotOp DEF PoolSet
<1> HIDE DEF v
<1>3. o \in OpSet /\ o.pc = "stStorage" /\ o.tbl = op[t].tbl
    BY <1>1, <1>2, SlotOp, Zenon DEF OpSet
<1>4. Ready(o, Len(kcpooltbls))
    BY <1>1, <1>3, SlotOp DEF Ready, SlotPcs
<1> QED
    BY <1>3, <1>4, MoveType DEF LoadStorage, v

\* ... and size.
LEMMA LoadSizeType ==
    ASSUME TypeInv, NEW t \in Threads, LoadSize(t)
    PROVE  TypeInv'
<1> DEFINE v == IF op[t].undo THEN Pool(t).size + Pool(t).align
                ELSE Pool(t).size - Pool(t).align
           o == [op[t] EXCEPT !.pc = "stSize", !.tmp = v]
<1>1. op[t].pc = "ldSize" /\ op[t].pc \in SlotPcs
    BY DEF LoadSize, At, SlotPcs
<1>2. v \in Int
    BY <1>1, SlotOp DEF PoolSet
<1> HIDE DEF v
<1>3. o \in OpSet /\ o.pc = "stSize" /\ o.tbl = op[t].tbl
    BY <1>1, <1>2, SlotOp, Zenon DEF OpSet
<1>4. Ready(o, Len(kcpooltbls))
    BY <1>1, <1>3, SlotOp DEF Ready, SlotPcs
<1> QED
    BY <1>3, <1>4, MoveType DEF LoadSize, v

\* storage is stored ...
LEMMA StoreStorageType ==
    ASSUME TypeInv, NEW t \in Threads, StoreStorage(t)
    PROVE  TypeInv'
<1> DEFINE o == [op[t] EXCEPT !.pc = "ldSize"]
           new == [Pool(t) EXCEPT !.storage = op[t].tmp]
<1>1. op[t].pc = "stStorage" /\ op[t].pc \in SlotPcs
    BY DEF StoreStorage, At, SlotPcs
<1>2. o \in OpSet /\ o.pc = "ldSize" /\ o.tbl = op[t].tbl
    BY <1>1, SlotOp DEF OpSet
<1>3. Ready(o, Len(kcpooltbls))
    BY <1>1, <1>2, SlotOp DEF Ready, SlotPcs
<1>4. new \in PoolSet
    BY <1>1, SlotOp, OpFields DEF PoolSet
<1>5. kcpooltbls' = [kcpooltbls EXCEPT ![op[t].tbl][op[t].id] = new]
    BY DEF StoreStorage, Pool
<1>6. slots' \in [Pools -> SUBSET [start : Int, end : Int]] /\ limit' \in [Pools -> Int]
    BY Types DEF StoreStorage
<1>7. Do(t, o) /\ UNCHANGED <<ram, kpte, symrgtbl, crashed>>
    BY DEF StoreStorage
<1>8. op[t].tbl \in 1 .. Len(kcpooltbls) /\ op[t].id \in Pools
    BY <1>1, SlotOp
<1> HIDE DEF o, new
<1> QED
    BY <1>2, <1>3, <1>4, <1>5, <1>6, <1>7, <1>8, StoreType, Zenon

\* ... and size; after it the region is checked.
LEMMA StoreSizeType ==
    ASSUME TypeInv, NEW t \in Threads, StoreSize(t)
    PROVE  TypeInv'
<1> DEFINE o == op[t]
           new == [Pool(t) EXCEPT !.size = op[t].tmp]
           next == CASE o.undo -> Idle
                     [] ~o.undo /\ o.rgid < NumRegs -> [o EXCEPT !.pc = "start"]
                     [] OTHER -> [o EXCEPT !.pc = "ldStorage", !.undo = TRUE]
<1>1. o.pc = "stSize" /\ o.pc \in SlotPcs
    BY DEF StoreSize, At, SlotPcs
<1>2. next \in OpSet /\ Ready(next, Len(kcpooltbls))
  <2>1. CASE o.undo
    BY <2>1, IdleReady, Zenon
  <2>2. CASE ~o.undo /\ o.rgid < NumRegs
    <3>1. o.rgid \in Regs
        BY <1>1, <2>2, SlotOp, OpFields, KMemAssumption DEF Ids, Regs
    <3>2. next = [o EXCEPT !.pc = "start"]
        BY <2>2
    <3>3. next \in OpSet /\ next.pc = "start" /\ next.tbl = o.tbl /\ next.rgid = o.rgid
        BY <1>1, <3>2, SlotOp, Zenon DEF OpSet
    <3> QED
        BY <1>1, <3>1, <3>3, SlotOp, Zenon DEF Ready, SlotPcs
  <2>3. CASE ~o.undo /\ ~(o.rgid < NumRegs)
    <3>1. next = [o EXCEPT !.pc = "ldStorage", !.undo = TRUE]
        BY <2>3
    <3>2. next \in OpSet /\ next.pc = "ldStorage" /\ next.tbl = o.tbl
        BY <1>1, <3>1, SlotOp, ZenonT(30) DEF OpSet
    <3> QED
        BY <1>1, <3>2, SlotOp DEF Ready, SlotPcs
  <2> QED
    BY <2>1, <2>2, <2>3
<1>3. new \in PoolSet
    BY <1>1, SlotOp, OpFields, Zenon DEF PoolSet
<1>4. kcpooltbls' = [kcpooltbls EXCEPT ![o.tbl][o.id] = new]
    BY DEF StoreSize, Pool
<1>5. slots' \in [Pools -> SUBSET [start : Int, end : Int]] /\ limit' \in [Pools -> Int]
    BY Types, Zenon DEF StoreSize
<1>6. Do(t, next) /\ UNCHANGED <<ram, kpte, symrgtbl, crashed>>
    BY DEF StoreSize
<1>7. o.tbl \in 1 .. Len(kcpooltbls) /\ o.id \in Pools
    BY <1>1, SlotOp, Zenon
<1> HIDE DEF o, new, next
<1> QED
    BY <1>2, <1>3, <1>4, <1>5, <1>6, <1>7, StoreType, Zenon

\* The region's start is stored.
LEMMA StoreStartType ==
    ASSUME TypeInv, NEW t \in Threads, StoreStart(t)
    PROVE  TypeInv'
<1> DEFINE o == [op[t] EXCEPT !.pc = "end"]
<1>1. op[t].pc = "start" /\ op[t].pc \in SlotPcs
    BY DEF StoreStart, At, SlotPcs
<1>2. o \in OpSet /\ o.pc = "end" /\ o.tbl = op[t].tbl /\ o.rgid = op[t].rgid
    BY <1>1, SlotOp DEF OpSet
<1>3. /\ Ready(o, Len(kcpooltbls')) /\ Do(t, o)
      /\ kcpooltbls' \in Seq([Pools -> PoolSet]) /\ Len(kcpooltbls) <= Len(kcpooltbls')
    BY <1>1, <1>2, SlotOp, Types DEF Ready, SlotPcs, StoreStart
<1>4. op[t].slot \in Int
    BY <1>1, SlotOp, OpFields
<1>5. symrgtbl' \in [Regs -> [rg_start : Int, rg_end : Int]]
    BY <1>4, Types, Zenon DEF StoreStart
<1>6. /\ ram' \in Device(Frms) /\ kpte' \in [KPages -> Frms \cup {NoFrame}] /\ crashed' \in BOOLEAN
      /\ slots' \in [Pools -> SUBSET [start : Int, end : Int]] /\ limit' \in [Pools -> Int]
    BY Types DEF StoreStart
<1> HIDE DEF o
<1> QED
    BY <1>2, <1>3, <1>5, <1>6, StepType, Zenon

\* The region's end is stored, and the slot is handed out.
LEMMA StoreEndType ==
    ASSUME TypeInv, NEW t \in Threads, StoreEnd(t)
    PROVE  TypeInv'
<1> DEFINE o == op[t]
           end == o.slot + Pool(t).align
<1>1. o.pc = "end" /\ o.pc \in SlotPcs
    BY DEF StoreEnd, At, SlotPcs
<1>2. o.slot \in Int /\ o.id \in Pools /\ end \in Int
    BY <1>1, SlotOp, OpFields DEF PoolSet
<1>3. /\ symrgtbl' = [symrgtbl EXCEPT ![o.rgid].rg_end = end]
      /\ slots' = [slots EXCEPT ![o.id] = @ \cup {[start |-> o.slot, end |-> end]}]
    BY DEF StoreEnd
<1> HIDE DEF end
<1>4. symrgtbl' \in [Regs -> [rg_start : Int, rg_end : Int]]
    BY <1>2, <1>3, Types, Zenon
<1>5. slots' \in [Pools -> SUBSET [start : Int, end : Int]]
  <2>1. slots[o.id] \cup {[start |-> o.slot, end |-> end]} \in SUBSET [start : Int, end : Int]
    BY <1>2, Types
  <2> QED
    BY <1>3, <2>1, Types, Zenon
<1>6. /\ ram' \in Device(Frms) /\ kpte' \in [KPages -> Frms \cup {NoFrame}] /\ crashed' \in BOOLEAN
      /\ kcpooltbls' \in Seq([Pools -> PoolSet]) /\ Len(kcpooltbls) <= Len(kcpooltbls')
      /\ limit' \in [Pools -> Int] /\ Do(t, Idle)
    BY Types DEF StoreEnd
<1> QED
    BY <1>4, <1>5, <1>6, IdleReady, StepType, Zenon

\* One byte is copied, or the copy ends.
LEMMA CopyByteType ==
    ASSUME TypeInv, NEW t \in Threads, CopyByte(t)
    PROVE  TypeInv'
<1> DEFINE o == op[t]
           more == [o EXCEPT !.offset = @ + 1, !.rest = @ - 1]
<1>1. o \in OpSet /\ o.pc = "copy"
    BY Types DEF CopyByte, At
<1>2. Do(t, Idle) \/ (o.rest > 1 /\ Do(t, more))
    BY DEF CopyByte
<1>3. CASE o.rest > 1 /\ Do(t, more)
  <2>1. o.source \in Regs /\ o.offset + 1 \in Nat /\ o.rest - 1 \in Nat
    BY <1>1, <1>3, OpFields
  <2>2. o \in [pc : {"copy"}, source : Regs, offset : Nat, rest : Nat]
    BY <1>1 DEF OpSet
  <2>3. more \in OpSet /\ more.pc = "copy"
    BY <2>1, <2>2, Zenon DEF OpSet
  <2>4. Ready(more, Len(kcpooltbls))
    BY <2>3 DEF Ready, SlotPcs
  <2> QED
    BY <1>3, <2>3, <2>4, MoveType, Zenon DEF CopyByte
<1>4. CASE Do(t, Idle)
    BY <1>4, IdleReady, MoveType, Zenon DEF CopyByte
<1> QED
    BY <1>2, <1>3, <1>4

\* The types hold when the machine starts.
LEMMA InitType ==
    Init => TypeInv
<1> SUFFICES ASSUME Init
             PROVE  TypeInv
    OBVIOUS
<1>1. ram \in Device(Frms)
    BY KMemAssumption, FormatPartition DEF Init, Frms
<1>2. /\ kpte \in [KPages -> Frms \cup {NoFrame}] /\ kcpooltbls = << >>
      /\ symrgtbl \in [Regs -> [rg_start : Int, rg_end : Int]] /\ crashed \in BOOLEAN
  <2>1. kpte \in [KPages -> Frms \cup {NoFrame}] /\ kcpooltbls = << >>
    BY DEF Init
  <2>2. [rg_start |-> 0, rg_end |-> 0] \in [rg_start : Int, rg_end : Int]
    OBVIOUS
  <2>3. symrgtbl \in [Regs -> [rg_start : Int, rg_end : Int]]
    BY <2>2, Zenon DEF Init
  <2> QED
    BY <2>1, <2>3, Zenon DEF Init
<1>3. slots \in [Pools -> SUBSET [start : Int, end : Int]] /\ limit \in [Pools -> Int]
    BY DEF Init
<1>4. op \in [Threads -> OpSet] /\ \A t \in Threads : Ready(op[t], Len(kcpooltbls))
    BY IdleReady DEF Init
<1> QED
    BY <1>1, <1>2, <1>3, <1>4, EmptySeq DEF TypeInv, TypeOK, Device

-----------------------------------------------------------------------------
(* The frames of kernel pages.                                             *)

FrameInv == TypeInv /\ KernelFramesOwned

\* A step that touches neither the lists nor a page keeps the frames owned.
LEMMA SameFrames ==
    ASSUME KernelFramesOwned, ram' = ram, kpte' = kpte
    PROVE  KernelFramesOwned'
    BY DEF KernelFramesOwned

\* The page gets a frame that was free, so no other page has it; the frame
\* the page had before, if any, stays used and belongs to nobody.
LEMMA MapPageFrames ==
    ASSUME FrameInv, NEW t \in Threads, MapPage(t)
    PROVE  KernelFramesOwned'
<1> DEFINE g == op[t].id * Stride + op[t].k
           f == NextFree(ram)
<1>1. /\ op[t] \in OpSet /\ op[t].pc = "map" /\ Ready(op[t], Len(kcpooltbls))
      /\ ram \in Device(Frms) /\ Partition(ram, Frms) /\ HasFree(ram)
      /\ kpte \in [KPages -> Frms \cup {NoFrame}]
    BY Types DEF MapPage, At, FrameInv, KernelFramesOwned
<1>2. /\ ram' \in Device(Frms) /\ Partition(ram', Frms)
      /\ f \in Frms \ ListSet(ram.used)
      /\ ListSet(ram'.used) = ListSet(ram.used) \cup {f}
    BY <1>1, PoppedPartition, Zenon DEF MapPage
<1>3. g \in KPages /\ kpte' = [kpte EXCEPT ![g] = f]
  <2>1. op[t].id \in Ids /\ op[t].size \in Sizes /\ op[t].k \in Nat
    BY <1>1, OpFields, KMemAssumption
  <2>2. op[t].k < Pages(op[t].size)
    BY <1>1 DEF Ready
  <2> QED
    BY <2>1, <2>2, NextPage, Zenon DEF MapPage
<1>4. \A x : IsUsed(ram, x) <=> x \in ListSet(ram.used)
    BY DEF IsUsed, Occurs, ListSet
<1>5. \A x : IsUsed(ram', x) <=> x \in ListSet(ram'.used)
    BY DEF IsUsed, Occurs, ListSet
<1>6. \A h \in KPages : kpte[h] # NoFrame => kpte[h] \in ListSet(ram.used)
    BY <1>4 DEF FrameInv, KernelFramesOwned
<1>7. f # NoFrame
    BY <1>2, KMemAssumption, Zenon DEF Frms
<1> HIDE DEF f, g
<1>8. /\ kpte'[g] = f /\ \A h \in KPages \ {g} : kpte'[h] = kpte[h]
      /\ \A h \in KPages \ {g} : kpte[h] # f
    BY <1>1, <1>2, <1>3, <1>6, <1>7, Zenon
<1>9. \A h, i \in KPages : kpte[h] # NoFrame /\ kpte[h] = kpte[i] => h = i
    BY DEF FrameInv, KernelFramesOwned
<1>10. ASSUME NEW h \in KPages, NEW i \in KPages, kpte'[h] # NoFrame
       PROVE  IsUsed(ram', kpte'[h]) /\ (kpte'[h] = kpte'[i] => h = i)
  <2>1. CASE h = g
    BY <1>2, <1>5, <1>8, <2>1, Zenon
  <2>2. CASE h # g
    BY <1>2, <1>5, <1>6, <1>8, <1>9, <1>10, <2>2
  <2> QED
    BY <2>1, <2>2, Zenon
<1> QED
    BY <1>2, <1>10 DEF KernelFramesOwned

\* Every step keeps FrameInv.
LEMMA NextFrames ==
    ASSUME FrameInv, [Next]_vars
    PROVE  FrameInv'
<1> USE DEF FrameInv
<1>1. ASSUME NEW t \in Threads, Call(t)
      PROVE  FrameInv'
  <2>1. ASSUME NEW size \in Sizes, NEW id \in Ids, Kmalloc(t, size, id)
        PROVE  FrameInv'
    BY <2>1, KmallocType, SameFrames, Zenon DEF Kmalloc
  <2>2. ASSUME NEW size \in Sizes, NEW align \in Sizes, NEW id \in Ids,
               PoolCreate(t, size, align, id)
        PROVE  FrameInv'
    BY <2>2, PoolCreateType, SameFrames, Zenon DEF PoolCreate
  <2>3. ASSUME NEW id \in Ids, NEW rgid \in Ids, CacheAlloc(t, id, rgid)
        PROVE  FrameInv'
    BY <2>3, CacheAllocType, SameFrames, Zenon DEF CacheAlloc
  <2>4. ASSUME NEW id \in Ids, CacheAllocNull(t, id)
        PROVE  FrameInv'
    BY <2>4, SameFrames, Zenon DEF CacheAllocNull, TypeInv, TypeOK
  <2>5. ASSUME NEW source \in Regs, NEW offset \in 0 .. MaxBytes - 1,
               NEW size \in 1 .. MaxBytes - offset, Copy(t, source, offset, size)
        PROVE  FrameInv'
    BY <2>5, CopyType, SameFrames, Zenon DEF Copy
  <2> QED
    BY <1>1, <2>1, <2>2, <2>3, <2>4, <2>5, Zenon DEF Call
<1>2. ASSUME NEW t \in Threads, Step(t)
      PROVE  FrameInv'
  <2>1. CASE MapPage(t)
    BY <2>1, MapPageType, MapPageFrames, Zenon
  <2>2. CASE MapFails(t)
    BY <2>2, MapFailsType, SameFrames, Zenon DEF MapFails
  <2>3. CASE AllocTable(t)
    BY <2>3, AllocTableType, SameFrames, Zenon DEF AllocTable
  <2>4. CASE RecordPool(t)
    BY <2>4, RecordPoolType, SameFrames, Zenon DEF RecordPool
  <2>5. CASE ReadSlot(t)
    BY <2>5, ReadSlotType, SameFrames, Zenon DEF ReadSlot
  <2>6. CASE LoadStorage(t)
    BY <2>6, LoadStorageType, SameFrames, Zenon DEF LoadStorage
  <2>7. CASE StoreStorage(t)
    BY <2>7, StoreStorageType, SameFrames, Zenon DEF StoreStorage
  <2>8. CASE LoadSize(t)
    BY <2>8, LoadSizeType, SameFrames, Zenon DEF LoadSize
  <2>9. CASE StoreSize(t)
    BY <2>9, StoreSizeType, SameFrames, Zenon DEF StoreSize
  <2>10. CASE StoreStart(t)
    BY <2>10, StoreStartType, SameFrames, Zenon DEF StoreStart
  <2>11. CASE StoreEnd(t)
    BY <2>11, StoreEndType, SameFrames, Zenon DEF StoreEnd
  <2>12. CASE CopyByte(t)
    BY <2>12, CopyByteType, SameFrames, Zenon DEF CopyByte
  <2> QED
    BY <1>2, <2>1, <2>2, <2>3, <2>4, <2>5, <2>6, <2>7, <2>8, <2>9, <2>10, <2>11,
       <2>12, Zenon
       DEF Step
<1>3. CASE UNCHANGED vars
    BY <1>3, SameFrames DEF vars, TypeInv, TypeOK
<1> QED
    BY <1>1, <1>2, <1>3, Zenon DEF Next, Dead

\* So it holds at all times, whatever the number of threads.
LEMMA FrameInvariant ==
    Spec => []FrameInv
<1>1. Init => FrameInv
  <2>1. ASSUME Init
        PROVE  KernelFramesOwned
    BY <2>1, KMemAssumption, FormatPartition, Zenon DEF Init, Frms,
       KernelFramesOwned
  <2> QED
    BY <2>1, InitType, Zenon DEF FrameInv
<1>2. FrameInv /\ [Next]_vars => FrameInv'
    BY NextFrames
<1> QED
    BY <1>1, <1>2, PTL DEF Spec

\* Whatever the threads interleave, every variable keeps its type, so that
\* no thread indexes a table of pools, a page or a region that is not there.
THEOREM KMemTypeCorrect ==
    Spec => []TypeOK
<1>1. FrameInv => TypeOK
    BY DEF FrameInv, TypeInv
<1> QED
    BY <1>1, FrameInvariant, PTL

\* Whatever the threads interleave, a mapped kernel page has a used frame
\* that no other kernel page has, and no frame is lost from the lists.
THEOREM KernelFramesStayOwned ==
    Spec => []KernelFramesOwned
<1>1. FrameInv => KernelFramesOwned
    BY DEF FrameInv
<1> QED
    BY <1>1, FrameInvariant, PTL

-----------------------------------------------------------------------------
(* One CPU: pools and regions.                                             *)

OneThread == \A s, t \in Threads : s = t

\* The bytes a to b - 1 have pages in table pg.
Covered(pg, a, b) ==
    \A x \in a .. b - 1 : x \div PageSize \in KPages /\ pg[x \div PageSize] # NoFrame

\* The first n pages of index id are mapped.
Mapped(pg, id, n) == \A j \in 0 .. n - 1 : pg[id * Stride + j] # NoFrame

\* The slots S share out the bytes a to b - 1.
Tiled(S, a, b) ==
    /\ UNION {Bytes(s.start, s.end) : s \in S} = Bytes(a, b)
    /\ \A r, s \in S : r # s => Bytes(r.start, r.end) \cap Bytes(s.start, s.end) = {}

\* Of the pool from base to lim, the slots S lie before a and n bytes behind.
Accounts(pg, S, base, a, n, lim) ==
    /\ base <= a /\ 0 <= n /\ a + n = lim
    /\ Covered(pg, base, lim)
    /\ Tiled(S, base, a)

Sound(pool, pg, S, base, lim) ==
    pool.align # 0 => Accounts(pg, S, base, pool.storage, pool.size, lim)

\* While a slot is taken from a pool, storage is moved first and size
\* after it; when it is taken back they are moved back in the same order.
Moved(o) ==
    \/ o.pc \in {"ldSize", "stSize"} /\ ~o.undo
    \/ o.pc \in {"ldStorage", "stStorage"} /\ o.undo
    \/ o.pc \in {"start", "end"}

Charged(o) == o.undo \/ o.pc \in {"start", "end"}

\* The pool as it was before the slot was taken.
OldStorage(o, pool) == IF Moved(o) THEN pool.storage - pool.align ELSE pool.storage
OldSize(o, pool) == IF Charged(o) THEN pool.size + pool.align ELSE pool.size

Taking(o, pool, pg, S, lim) ==
    LET a == OldStorage(o, pool)
        n == OldSize(o, pool)
    IN  /\ pool.align # 0 /\ pool.align <= n
        /\ Accounts(pg, S, Base(o.id), a, n, lim)
        /\ o.pc # "slot" => o.slot = a
        /\ o.pc = "slot" => ~o.undo
        /\ o.pc = "stStorage" => o.tmp = IF o.undo THEN a ELSE a + pool.align
        /\ o.pc = "stSize" => o.tmp = IF o.undo THEN n ELSE n - pool.align

\* A pool is being made: its memory is there, and its fields are stored.
Making(o, pool, pg) ==
    /\ o.id \in Ids /\ o.align <= o.size
    /\ Mapped(pg, o.id, Pages(o.size))
    /\ o.k >= 2 => pool.size = o.size
    /\ o.k >= 3 => pool.align = o.align

Covers(rg, pg) ==
    \/ rg.rg_start = 0 /\ rg.rg_end = 0
    \/ Covered(pg, rg.rg_start, rg.rg_end)

\* The pool the operation is changing, and the region.
Changes(o, k) == o.pc \in SlotPcs \cup {"record"} /\ o.id = k
Stores(o, r) == o.pc = "end" /\ o.rgid = r

Stage(o, tbls, pg) ==
    /\ o.pc = "table" => tbls = << >> /\ o.align <= o.size
    /\ o.pc = "map" => o.align <= o.size /\ Mapped(pg, o.id, o.k)
    /\ o.pc \in SlotPcs => o.tbl = 1

PoolsOK(o, tbls, pg, sl, lim) ==
    Len(tbls) = 1 =>
        /\ \A k \in Pools : Changes(o, k) \/ Sound(tbls[1][k], pg, sl[k], Base(k), lim[k])
        /\ o.pc = "record" => Making(o, tbls[1][o.id], pg)
        /\ o.pc \in SlotPcs => Taking(o, tbls[1][o.id], pg, sl[o.id], lim[o.id])

RegionsOK(o, pg, rgs) ==
    /\ \A r \in Regs : Stores(o, r) \/ Covers(rgs[r], pg)
    /\ o.pc = "end" => rgs[o.rgid].rg_start = o.slot

PoolInv ==
    /\ FrameInv
    /\ Len(kcpooltbls) <= 1
    /\ \A t \in Threads :
           /\ Stage(op[t], kcpooltbls, kpte)
           /\ PoolsOK(op[t], kcpooltbls, kpte, slots, limit)
           /\ RegionsOK(op[t], kpte, symrgtbl)

\* With one thread it is enough to look at that thread.
LEMMA OnlyThread ==
    ASSUME OneThread, FrameInv', NEW t \in Threads, Len(kcpooltbls') <= 1,
           Stage(op'[t], kcpooltbls', kpte'),
           PoolsOK(op'[t], kcpooltbls', kpte', slots', limit'),
           RegionsOK(op'[t], kpte', symrgtbl')
    PROVE  PoolInv'
<1>1. \A s \in Threads : s = t
    BY DEF OneThread
<1> QED
    BY <1>1, Zenon DEF PoolInv

\* A page that is mapped stays mapped.
LEMMA CoveredGrows ==
    ASSUME NEW pg, NEW new, \A g \in KPages : pg[g] # NoFrame => new[g] # NoFrame
    PROVE  \A a, b : Covered(pg, a, b) => Covered(new, a, b)
    BY DEF Covered

\* A region that is covered stays so when pages are added.
LEMMA CoversGrows ==
    ASSUME NEW pg, NEW new, \A g \in KPages : pg[g] # NoFrame => new[g] # NoFrame, NEW rg,
           Covers(rg, pg)
    PROVE  Covers(rg, new)
    BY CoveredGrows, Zenon DEF Covers

\* So does a pool that is sound.
LEMMA SoundGrows ==
    ASSUME NEW pg, NEW new, \A g \in KPages : pg[g] # NoFrame => new[g] # NoFrame, 
           NEW pool, NEW S, NEW base, NEW lim, Sound(pool, pg, S, base, lim)
    PROVE  Sound(pool, new, S, base, lim)
    BY CoveredGrows, Zenon DEF Sound, Accounts

\* The pages of a kmalloc hold its bytes.
LEMMA MappedCovers ==
    ASSUME NEW pg, NEW id \in Ids, NEW size \in Sizes, Mapped(pg, id, Pages(size))
    PROVE  Covered(pg, Base(id), Base(id) + size)
<1> DEFINE i == id * Stride
           n == Pages(size)
<1>1. /\ i \in Nat /\ n \in Nat /\ size \in Nat /\ PageSize \in Nat \ {0}
      /\ n <= Stride /\ size <= n * PageSize /\ Base(id) = i * PageSize
    BY PagesOf, PagesBound, KMemAssumption DEF Ids, Sizes, Base
<1> HIDE DEF i, n
<1>2. SUFFICES ASSUME NEW x \in Base(id) .. (Base(id) + size) - 1
               PROVE  x \div PageSize \in KPages /\ pg[x \div PageSize] # NoFrame
    BY DEF Covered
<1> DEFINE q == x \div PageSize
<1>3. x \in Int /\ i * PageSize <= x /\ x < i * PageSize + n * PageSize
  <2>1. i * PageSize \in Int /\ n * PageSize \in Int
    BY <1>1
  <2> QED
    BY <1>1, <2>1
<1>4. q \in Int /\ q * PageSize <= x /\ x < q * PageSize + PageSize
    BY <1>1, <1>3, Quotient, Zenon
<1> HIDE DEF q
<1>5. i <= q
  <2>1. i * PageSize < (q + 1) * PageSize
    BY <1>1, <1>3, <1>4
  <2> QED
    BY <1>1, <1>4, <2>1, ProductMonotone
<1>6. q < i + n
  <2>1. q * PageSize < (i + n) * PageSize
    BY <1>1, <1>3, <1>4
  <2> QED
    BY <1>1, <1>4, <2>1, ProductMonotone
<1>7. q - i \in 0 .. n - 1 /\ i + (q - i) = q
    BY <1>1, <1>4, <1>5, <1>6
<1>8. q \in KPages
  <2>1. q - i \in Nat /\ q - i < Pages(size)
    BY <1>7, <1>1 DEF n
  <2>2. id * Stride + (q - i) \in KPages
    BY <2>1, NextPage, Zenon
  <2> QED
    BY <1>7, <2>2, Zenon DEF i
<1>9. pg[q] # NoFrame
    BY <1>7, Zenon DEF Mapped, i, n
<1> QED
    BY <1>8, <1>9, Zenon DEF q

\* An operation that changes neither pools nor regions finds them in order.
LEMMA Quiet ==
    ASSUME PoolInv, NEW t \in Threads, op[t].pc \notin SlotPcs \cup {"record"}
    PROVE  /\ Len(kcpooltbls) = 1 =>
                 \A k \in Pools : Sound(kcpooltbls[1][k], kpte, slots[k], Base(k), limit[k])
           /\ \A r \in Regs : Covers(symrgtbl[r], kpte)
    BY Zenon DEF PoolInv, PoolsOK, RegionsOK, Changes, Stores, SlotPcs

\* It may go on to another one that changes neither.
LEMMA QuietStep ==
    ASSUME PoolInv, OneThread, FrameInv', NEW t \in Threads, NEW o, Do(t, o),
           op[t].pc \notin SlotPcs \cup {"record"}, o.pc \notin SlotPcs \cup {"record"},
           Stage(o, kcpooltbls, kpte),
           UNCHANGED <<kpte, kcpooltbls, symrgtbl, slots, limit>>
    PROVE  PoolInv'
<1>1. op'[t] = o
    BY Zenon DEF Do, PoolInv, FrameInv, TypeInv, TypeOK
<1>2. Len(kcpooltbls') <= 1
    BY Zenon DEF PoolInv
<1>3. PoolsOK(o, kcpooltbls, kpte, slots, limit)
    BY Quiet, Zenon DEF PoolsOK
<1>4. RegionsOK(o, kpte, symrgtbl)
    BY Quiet DEF RegionsOK, SlotPcs
<1> QED
    BY <1>1, <1>2, <1>3, <1>4, OnlyThread, Zenon

\* The first steps of the operations, and the end.
LEMMA FirstStage ==
    /\ Idle.pc \notin SlotPcs \cup {"record"} /\ \A tbls, pg : Stage(Idle, tbls, pg)
    /\ \A pool, id, size, align :
           align <= size =>
               /\ StartMap(pool, id, size, align).pc \notin SlotPcs \cup {"record"}
               /\ AfterTable(id, size, align).pc \notin SlotPcs \cup {"record"}
               /\ \A tbls, pg : /\ Stage(StartMap(pool, id, size, align), tbls, pg)
                                /\ Stage(AfterTable(id, size, align), tbls, pg)
<1>1. /\ Idle.pc \notin SlotPcs \cup {"record"} /\ \A tbls, pg : Stage(Idle, tbls, pg)
    BY DEF Idle, SlotPcs, Stage
<1>2. ASSUME NEW pool, NEW id, NEW size, NEW align, align <= size
      PROVE  /\ StartMap(pool, id, size, align).pc \notin SlotPcs \cup {"record"}
             /\ \A tbls, pg : Stage(StartMap(pool, id, size, align), tbls, pg)
  <2>1. \A pg : Mapped(pg, id, 0)
    BY DEF Mapped
  <2> QED
    BY <1>2, <2>1, Zenon DEF StartMap, SlotPcs, Stage
<1> QED
    BY <1>1, <1>2, Zenon DEF AfterTable

\* A thread that begins to map changes no pool ...
LEMMA KmallocPools ==
    ASSUME PoolInv, OneThread, FrameInv', NEW t \in Threads, NEW size \in Sizes, NEW id \in Ids,
           Kmalloc(t, size, id)
    PROVE  PoolInv'
<1>1. size <= size /\ op[t].pc \notin SlotPcs \cup {"record"}
    BY DEF Kmalloc, At, SlotPcs, Sizes
<1> QED
    BY <1>1, FirstStage, QuietStep, Zenon DEF Kmalloc

\* ... nor does one that begins to make a pool ...
LEMMA PoolCreatePools ==
    ASSUME PoolInv, OneThread, FrameInv', NEW t \in Threads, NEW size \in Sizes,
           NEW align \in Sizes, NEW id \in Ids, PoolCreate(t, size, align, id)
    PROVE  PoolInv'
<1> DEFINE o == [pc |-> "table", id |-> id, size |-> size, align |-> align]
<1>1. align <= size /\ op[t].pc \notin SlotPcs \cup {"record"}
    BY KMemAssumption, Zenon DEF PoolCreate, At, SlotPcs, Sizes
<1>2. CASE kcpooltbls = << >>
  <2>1. o.pc \notin SlotPcs \cup {"record"} /\ Stage(o, kcpooltbls, kpte)
    BY <1>1, <1>2, Zenon DEF SlotPcs, Stage
  <2> QED
    BY <1>1, <1>2, <2>1, QuietStep, Zenon DEF PoolCreate
<1>3. CASE kcpooltbls # << >>
    BY <1>1, <1>3, FirstStage, QuietStep, Zenon DEF PoolCreate
<1> QED
    BY <1>2, <1>3, Zenon

\* ... or finds no frame ...
LEMMA MapFailsPools ==
    ASSUME PoolInv, OneThread, FrameInv', NEW t \in Threads, MapFails(t)
    PROVE  PoolInv'
<1>1. op[t].pc \notin SlotPcs \cup {"record"}
    BY Zenon DEF MapFails, At, SlotPcs
<1> QED
    BY <1>1, FirstStage, QuietStep, Zenon DEF MapFails

\* ... or begins to copy ...
LEMMA CopyPools ==
    ASSUME PoolInv, OneThread, FrameInv', NEW t \in Threads, NEW source, NEW offset, NEW size,
           Copy(t, source, offset, size)
    PROVE  PoolInv'
<1> DEFINE o == [pc |-> "copy", source |-> source, offset |-> offset, rest |-> size]
<1>1. op[t].pc \notin SlotPcs \cup {"record"}
    BY Zenon DEF Copy, At, SlotPcs
<1>2. o.pc \notin SlotPcs \cup {"record"} /\ Stage(o, kcpooltbls, kpte)
    BY DEF SlotPcs, Stage
<1> QED
    BY <1>1, <1>2, QuietStep, Zenon DEF Copy

\* ... or copies a byte ...
LEMMA CopyBytePools ==
    ASSUME PoolInv, OneThread, FrameInv', NEW t \in Threads, CopyByte(t)
    PROVE  PoolInv'
<1> DEFINE o == op[t]
           more == [o EXCEPT !.offset = @ + 1, !.rest = @ - 1]
<1>1. o.pc = "copy" /\ o \in OpSet
    BY Types DEF CopyByte, At, PoolInv, FrameInv
<1>2. Do(t, Idle) \/ Do(t, more)
    BY DEF CopyByte
<1>3. more.pc = "copy"
    BY <1>1, Zenon DEF OpSet
<1>4. /\ o.pc \notin SlotPcs \cup {"record"} /\ more.pc \notin SlotPcs \cup {"record"}
      /\ Stage(more, kcpooltbls, kpte)
    BY <1>1, <1>3, Zenon DEF SlotPcs, Stage
<1> HIDE DEF more
<1> QED
    BY <1>2, <1>4, FirstStage, QuietStep, Zenon DEF CopyByte

\* ... or asks for a slot before there is any table.
LEMMA CacheAllocNullPools ==
    ASSUME PoolInv, FrameInv', UNCHANGED <<kpte, kcpooltbls, symrgtbl, op, slots, limit>>
    PROVE  PoolInv'
    BY Zenon DEF PoolInv

\* The new table has no pool yet.
LEMMA AllocTablePools ==
    ASSUME PoolInv, OneThread, FrameInv', NEW t \in Threads, AllocTable(t)
    PROVE  PoolInv'
<1> DEFINE new == [k \in Pools |-> NoPool]
           o == AfterTable(op[t].id, op[t].size, op[t].align)
<1>1. op[t].pc = "table" /\ op[t].pc \notin SlotPcs \cup {"record"}
    BY Zenon DEF AllocTable, At, SlotPcs
<1>2. kcpooltbls = << >> /\ op[t].align <= op[t].size
    BY <1>1 DEF PoolInv, Stage
<1>3. kcpooltbls' = <<new>>
    BY <1>2 DEF AllocTable
<1>4. o.pc \notin SlotPcs \cup {"record"} /\ \A tbls, pg : Stage(o, tbls, pg)
    BY <1>2, FirstStage, Zenon
<1>5. op'[t] = o
    BY DEF AllocTable, Do, PoolInv, FrameInv, TypeInv, TypeOK
<1>6. \A k \in Pools : ~(kcpooltbls'[1][k].align # 0)
    BY <1>3, Zenon DEF NoPool
<1> HIDE DEF new, o
<1>7. PoolsOK(o, kcpooltbls', kpte', slots', limit')
    BY <1>4, <1>6 DEF PoolsOK, Sound
<1>8. RegionsOK(o, kpte', symrgtbl')
    BY <1>1, <1>4, Quiet, Zenon DEF AllocTable, RegionsOK, SlotPcs
<1>9. Len(kcpooltbls') <= 1
    BY <1>3
<1> QED
    BY <1>4, <1>5, <1>7, <1>8, <1>9, OnlyThread, Zenon

\* One more page is mapped, and none less.
LEMMA MapPagePools ==
    ASSUME PoolInv, OneThread, FrameInv', NEW t \in Threads, MapPage(t)
    PROVE  PoolInv'
<1> DEFINE o == op[t]
           g == o.id * Stride + o.k
           f == NextFree(ram)
           more == [o EXCEPT !.k = @ + 1]
           rec  == [pc |-> "record", id |-> o.id, size |-> o.size, align |-> o.align, k |-> 1]
           next == CASE o.k + 1 < Pages(o.size) -> more
                     [] o.k + 1 >= Pages(o.size) /\ o.pool -> rec
                     [] OTHER -> Idle
<1>1. /\ o.pc = "map" /\ o \in OpSet /\ Ready(o, Len(kcpooltbls))
      /\ kpte \in [KPages -> Frms \cup {NoFrame}]
      /\ ram \in Device(Frms) /\ Partition(ram, Frms) /\ HasFree(ram)
    BY Types, Zenon DEF MapPage, At, PoolInv, FrameInv, KernelFramesOwned
<1>2. /\ o.id \in Ids /\ o.size \in Sizes /\ o.k \in Nat /\ o.k < Pages(o.size)
      /\ Pages(o.size) \in Nat /\ o.pool \in BOOLEAN
    BY <1>1, OpFields, PagesBound, KMemAssumption DEF Ready
<1>3. g \in KPages /\ f # NoFrame
  <2>1. f \in Frms
    BY <1>1, PoppedPartition, Zenon
  <2> QED
    BY <1>2, <2>1, NextPage, KMemAssumption, Zenon DEF Frms
<1>4. kpte' = [kpte EXCEPT ![g] = f]
    BY Zenon DEF MapPage
<1>5. o.align <= o.size /\ Mapped(kpte, o.id, o.k)
    BY <1>1, Zenon DEF PoolInv, Stage
<1>6. op'[t] = next
    BY Types, Zenon DEF MapPage, Do, PoolInv, FrameInv
<1> HIDE DEF next, f
<1>7. \A h \in KPages : kpte[h] # NoFrame => kpte'[h] # NoFrame
    BY <1>1, <1>3, <1>4, Zenon
<1>8. Mapped(kpte', o.id, o.k + 1)
  <2>1. ASSUME NEW j \in 0 .. (o.k + 1) - 1
        PROVE  kpte'[o.id * Stride + j] # NoFrame
    <3>1. j \in Nat /\ j < Pages(o.size) /\ (j = o.k \/ j \in 0 .. o.k - 1)
        BY <1>2
    <3>2. o.id * Stride + j \in KPages
        BY <1>2, <3>1, NextPage, Zenon
    <3>3. CASE j = o.k
        BY <1>1, <1>3, <1>4, <3>3, Zenon
    <3>4. CASE j \in 0 .. o.k - 1
        BY <1>5, <1>7, <3>2, <3>4, Zenon DEF Mapped
    <3> QED
        BY <3>1, <3>3, <3>4, Zenon
  <2> QED
    BY <2>1, Zenon DEF Mapped
<1>9. o.pc \notin SlotPcs \cup {"record"}
    BY <1>1, Zenon DEF SlotPcs
<1>10. /\ Len(kcpooltbls) = 1 =>
             \A k \in Pools : Sound(kcpooltbls[1][k], kpte', slots[k], Base(k), limit[k])
       /\ \A r \in Regs : Covers(symrgtbl[r], kpte')
    BY <1>7, <1>9, Quiet, SoundGrows, CoversGrows, Zenon
<1>11. UNCHANGED <<kcpooltbls, symrgtbl, slots, limit>> /\ Len(kcpooltbls) <= 1
    BY Zenon DEF MapPage, PoolInv
<1>12. /\ next.pc \notin SlotPcs /\ Stage(next, kcpooltbls, kpte')
       /\ next.pc = "record" => \A pool : Making(next, pool, kpte')
  <2>1. CASE o.k + 1 < Pages(o.size)
    <3>1. next = more
        BY <1>2, <2>1 DEF next
    <3>2. more.pc = "map" /\ more.k = o.k + 1 /\ more.id = o.id /\ more.align = o.align
          /\ more.size = o.size
        BY <1>1, Zenon DEF OpSet
    <3> QED
        BY <1>5, <1>8, <3>1, <3>2, Zenon DEF Stage, SlotPcs
  <2>2. CASE ~(o.k + 1 < Pages(o.size)) /\ o.pool
    <3>1. next = rec /\ o.k + 1 = Pages(o.size)
        BY <1>2, <2>2 DEF next
    <3> QED
        BY <1>2, <1>5, <1>8, <3>1 DEF Stage, SlotPcs, Making
  <2>3. CASE ~(o.k + 1 < Pages(o.size)) /\ ~o.pool
    <3>1. next = Idle
        BY <1>2, <2>3, Zenon DEF next
    <3> QED
        BY <3>1, FirstStage, Zenon DEF Idle
  <2> QED
    BY <2>1, <2>2, <2>3, Zenon
<1>13. PoolsOK(next, kcpooltbls, kpte', slots, limit)
    BY <1>10, <1>12, Zenon DEF PoolsOK
<1>14. RegionsOK(next, kpte', symrgtbl)
    BY <1>10, <1>12, Zenon DEF RegionsOK, SlotPcs
<1> QED
    BY <1>6, <1>11, <1>12, <1>13, <1>14, OnlyThread, Zenon

\* With one thread there is never a second table.
LEMMA TheTable ==
    ASSUME PoolInv, Len(kcpooltbls) # 0
    PROVE  /\ Len(kcpooltbls) = 1 /\ kcpooltbls[1] \in [Pools -> PoolSet]
           /\ kcpooltbls \in Seq([Pools -> PoolSet])
<1>1. kcpooltbls \in Seq([Pools -> PoolSet]) /\ Len(kcpooltbls) <= 1
    BY Types DEF PoolInv, FrameInv
<1>2. \A n \in Nat : n # 0 /\ n <= 1 => n = 1 /\ 1 \in 1 .. n
    OBVIOUS
<1>3. Len(kcpooltbls) \in Nat
    BY <1>1, LenProperties, Zenon
<1>4. Len(kcpooltbls) = 1 /\ 1 \in 1 .. Len(kcpooltbls)
    BY <1>1, <1>2, <1>3, Zenon
<1> QED
    BY <1>1, <1>4, ElementOfSeq, Zenon

\* A pool that exists has room for the slot, as the call has tested.
LEMMA CacheAllocPools ==
    ASSUME PoolInv, OneThread, FrameInv', NEW t \in Threads, NEW id \in Ids, NEW rgid \in Ids,
           CacheAlloc(t, id, rgid)
    PROVE  PoolInv'
<1> DEFINE o == [pc |-> "slot", tbl |-> 1, id |-> id, rgid |-> rgid,
                 slot |-> 0, tmp |-> 0, undo |-> FALSE]
           pool == kcpooltbls[1][id]
<1>1. /\ op[t].pc \notin SlotPcs \cup {"record"} /\ id \in Pools
      /\ UNCHANGED <<kpte, kcpooltbls, symrgtbl, slots, limit>>
    BY KMemAssumption DEF CacheAlloc, At, SlotPcs, Ids, Pools
<1>2. Len(kcpooltbls) = 1 /\ kcpooltbls[1] \in [Pools -> PoolSet]
    BY TheTable, Zenon DEF CacheAlloc
<1>3. /\ pool.align # 0 /\ pool.align <= pool.size /\ op'[t] = o
  <2>1. pool.align # 0 /\ pool.size >= pool.align /\ Do(t, o)
    BY <1>2, Zenon DEF CacheAlloc
  <2>2. pool \in PoolSet
    BY <1>1, <1>2, Zenon
  <2>3. op'[t] = o
    BY <2>1, Types, Zenon DEF Do, PoolInv, FrameInv
  <2> QED
    BY <2>1, <2>2, <2>3, Zenon DEF PoolSet
<1>4. \A k \in Pools : Sound(kcpooltbls[1][k], kpte, slots[k], Base(k), limit[k])
    BY <1>1, <1>2, Quiet
<1>5. Taking(o, pool, kpte, slots[id], limit[id])
    BY <1>1, <1>3, <1>4, Zenon DEF Sound, Taking, OldStorage, OldSize, Moved, Charged
<1>6. PoolsOK(o, kcpooltbls, kpte, slots, limit)
    BY <1>4, <1>5, Zenon DEF PoolsOK
<1>7. RegionsOK(o, kpte, symrgtbl)
    BY <1>1, Quiet, Zenon DEF RegionsOK
<1>8. Stage(o, kcpooltbls, kpte)
    BY DEF Stage
<1> QED
    BY <1>1, <1>2, <1>3, <1>6, <1>7, <1>8, OnlyThread

\* A step that changes the fields of one pool, and nothing of the others.
LEMMA OnePool ==
    ASSUME PoolInv, OneThread, FrameInv', NEW t \in Threads, NEW k \in Pools, NEW new \in PoolSet,
           Len(kcpooltbls) = 1, kcpooltbls' = [kcpooltbls EXCEPT ![1][k] = new],
           Changes(op[t], k), kpte' = kpte,
           \A j \in Pools \ {k} : slots'[j] = slots[j] /\ limit'[j] = limit[j],
           NEW o, op'[t] = o,
           Changes(o, k) \/ Sound(new, kpte, slots'[k], Base(k), limit'[k]),
           o.pc = "record" => o.id = k /\ Making(o, new, kpte),
           o.pc \in SlotPcs => o.id = k /\ o.tbl = 1 /\ Taking(o, new, kpte, slots'[k], limit'[k]),
           o.pc \notin {"table", "map"}, RegionsOK(o, kpte, symrgtbl')
    PROVE  PoolInv'
<1>1. kcpooltbls[1] \in [Pools -> PoolSet] /\ kcpooltbls \in Seq([Pools -> PoolSet])
    BY TheTable
<1>2. /\ Len(kcpooltbls') = 1 /\ kcpooltbls'[1][k] = new
      /\ \A j \in Pools \ {k} : kcpooltbls'[1][j] = kcpooltbls[1][j]
  <2>1. kcpooltbls'[1] = [kcpooltbls[1] EXCEPT ![k] = new] /\ Len(kcpooltbls') = Len(kcpooltbls)
    BY <1>1
  <2> QED
    BY <1>1, <2>1
<1>3. \A j \in Pools \ {k} :
          Sound(kcpooltbls[1][j], kpte, slots[j], Base(j), limit[j])
    BY Zenon DEF PoolInv, PoolsOK, Changes
<1>4. \A j \in Pools : Changes(o, j)
          \/ Sound(kcpooltbls'[1][j], kpte, slots'[j], Base(j), limit'[j])
    BY <1>2, <1>3, Zenon
<1>5. PoolsOK(o, kcpooltbls', kpte, slots', limit')
    BY <1>2, <1>4, Zenon DEF PoolsOK
<1>6. Stage(o, kcpooltbls', kpte)
    BY DEF Stage
<1>7. /\ Stage(op'[t], kcpooltbls', kpte') /\ RegionsOK(op'[t], kpte', symrgtbl')
      /\ PoolsOK(op'[t], kcpooltbls', kpte', slots', limit')
    BY <1>5, <1>6, Zenon
<1>8. Len(kcpooltbls') <= 1
    BY <1>2
<1> QED
    BY <1>7, <1>8, OnlyThread, Zenon

\* The pool is made once its memory is there and its fields are stored.
LEMMA RecordPoolPools ==
    ASSUME PoolInv, OneThread, FrameInv', NEW t \in Threads, RecordPool(t)
    PROVE  PoolInv'
<1> DEFINE o == op[t]
           k == o.id
           old == kcpooltbls[1][k]
           next == IF o.k = 3 THEN Idle ELSE [o EXCEPT !.k = @ + 1]
           new == CASE o.k = 1 -> [old EXCEPT !.size = o.size]
                    [] o.k = 2 -> [old EXCEPT !.align = o.align]
                    [] OTHER -> [old EXCEPT !.storage = Base(k)]
<1>1. /\ o.pc = "record" /\ o \in OpSet /\ Ready(o, Len(kcpooltbls))
    BY Types, Zenon DEF RecordPool, At, PoolInv, FrameInv
<1>2. k \in Pools /\ o.size \in Sizes /\ o.align \in Sizes /\ o.k \in 1 .. 3
    BY <1>1, OpFields, Zenon
<1>3. Len(kcpooltbls) = 1 /\ kcpooltbls[1] \in [Pools -> PoolSet]
    BY <1>1, TheTable, Zenon DEF Ready
<1>4. old \in PoolSet
    BY <1>2, <1>3, Zenon
<1>5. o.size \in Nat /\ o.align \in Nat /\ o.align # 0 /\ Base(k) \in Int
    BY <1>2, KMemAssumption DEF Sizes, Base, Pools
<1>6. new \in PoolSet
    BY <1>4, <1>5 DEF PoolSet
<1>7. kcpooltbls' = [kcpooltbls EXCEPT ![1][k] = new]
    BY <1>2, <1>3 DEF RecordPool
<1>8. Making(o, old, kpte)
    BY <1>1, <1>3, Zenon DEF PoolInv, PoolsOK
<1>9. op'[t] = next /\ kpte' = kpte /\ symrgtbl' = symrgtbl
    BY Types, Zenon DEF RecordPool, Do, PoolInv, FrameInv
<1>10. \A j \in Pools \ {k} : slots'[j] = slots[j] /\ limit'[j] = limit[j]
    BY Types, Zenon DEF RecordPool, PoolInv, FrameInv
<1>11. Changes(o, k)
    BY <1>1 DEF Changes
<1>12. CASE o.k # 3
  <2>1. /\ next.pc = "record" /\ next.id = k /\ next.k = o.k + 1 /\ next.size = o.size
        /\ next.align = o.align
    BY <1>1, <1>12, Zenon DEF OpSet
  <2>2. Making(next, new, kpte)
    BY <1>2, <1>4, <1>8, <1>12, <2>1 DEF Making, PoolSet
  <2>3. RegionsOK(next, kpte, symrgtbl)
    BY <1>1, <2>1, Zenon DEF PoolInv, RegionsOK, Stores
  <2>4. next.pc \notin SlotPcs /\ Changes(next, k)
    BY <2>1 DEF SlotPcs, Changes
  <2>5. next.pc \notin {"table", "map"}
    BY <2>1
  <2>6. RegionsOK(next, kpte, symrgtbl')
    BY <1>9, <2>3
  <2> HIDE DEF new, next, old
  <2> QED
    BY <1>2, <1>3, <1>6, <1>7, <1>9, <1>10, <1>11, <2>1, <2>2, <2>4, <2>5, <2>6, OnePool, Zenon
<1>13. CASE o.k = 3
  <2>1. next = Idle /\ new = [old EXCEPT !.storage = Base(k)]
    BY <1>13
  <2>2. new.size = o.size /\ new.align = o.align /\ new.storage = Base(k)
    BY <1>4, <1>8, <1>13, <2>1 DEF Making, PoolSet
  <2>3. slots'[k] = {} /\ limit'[k] = Base(k) + o.size
    BY <1>2, <1>13, Types DEF RecordPool, PoolInv, FrameInv
  <2>4. Covered(kpte, Base(k), Base(k) + o.size)
    BY <1>2, <1>8, MappedCovers, Zenon DEF Making
  <2>5. Tiled({}, Base(k), Base(k))
    BY <1>5, SMTT(30) DEF Tiled, Bytes
  <2>6. Sound(new, kpte, slots'[k], Base(k), limit'[k])
    BY <1>5, <2>2, <2>3, <2>4, <2>5 DEF Sound, Accounts
  <2>7. RegionsOK(next, kpte, symrgtbl')
    BY <1>1, <1>9, <2>1, Zenon DEF PoolInv, RegionsOK, Stores, Idle
  <2>8. next.pc = "idle" /\ next.pc \notin SlotPcs
    BY <2>1, Zenon DEF Idle, SlotPcs
  <2> HIDE DEF new, next, old
  <2> QED
    BY <1>2, <1>3, <1>6, <1>7, <1>9, <1>10, <1>11, <2>6, <2>7, <2>8, OnePool, Zenon
<1> QED
    BY <1>12, <1>13, Zenon

\* The pool a slot is being taken from.
LEMMA TakingFrom ==
    ASSUME PoolInv, NEW t \in Threads, op[t].pc \in SlotPcs
    PROVE  /\ op[t] \in OpSet /\ op[t].tbl = 1 /\ op[t].id \in Pools
           /\ Len(kcpooltbls) = 1 /\ kcpooltbls[1] \in [Pools -> PoolSet]
           /\ Pool(t) = kcpooltbls[1][op[t].id] /\ Pool(t) \in PoolSet
           /\ Taking(op[t], Pool(t), kpte, slots[op[t].id], limit[op[t].id])
           /\ Changes(op[t], op[t].id)
<1>1. /\ op[t] \in OpSet /\ op[t].id \in Pools /\ op[t].tbl \in 1 .. Len(kcpooltbls)
      /\ Pool(t) \in PoolSet
    BY SlotOp, Zenon DEF PoolInv, FrameInv
<1>2. op[t].tbl = 1
    BY Zenon DEF PoolInv, Stage
<1>3. Len(kcpooltbls) = 1 /\ kcpooltbls[1] \in [Pools -> PoolSet]
    BY <1>1, TheTable
<1>4. Pool(t) = kcpooltbls[1][op[t].id]
    BY <1>2, Zenon DEF Pool
<1>5. Taking(op[t], Pool(t), kpte, slots[op[t].id], limit[op[t].id])
    BY <1>3, <1>4, Zenon DEF PoolInv, PoolsOK
<1> QED
    BY <1>1, <1>2, <1>3, <1>4, <1>5, Zenon DEF Changes

\* A step of the allocation that changes nothing but the operation.
LEMMA SlotMove ==
    ASSUME PoolInv, OneThread, FrameInv', NEW t \in Threads, op[t].pc \in SlotPcs \ {"end"},
           NEW o, Do(t, o), o.pc \in SlotPcs \ {"end"}, o.id = op[t].id, o.tbl = op[t].tbl,
           Taking(o, Pool(t), kpte, slots[o.id], limit[o.id]),
           UNCHANGED <<kpte, kcpooltbls, symrgtbl, slots, limit>>
    PROVE  PoolInv'
<1>1. /\ Pool(t) = kcpooltbls[1][o.id] /\ Len(kcpooltbls) = 1 /\ o.tbl = 1
    BY TakingFrom, Zenon
<1>2. op'[t] = o
    BY Types DEF Do, PoolInv, FrameInv
<1>3. PoolsOK(op[t], kcpooltbls, kpte, slots, limit) /\ RegionsOK(op[t], kpte, symrgtbl)
    BY Zenon DEF PoolInv
<1>4. PoolsOK(o, kcpooltbls, kpte, slots, limit)
    BY <1>1, <1>3, Zenon DEF PoolsOK, Changes, SlotPcs
<1>5. RegionsOK(o, kpte, symrgtbl)
    BY <1>3, Zenon DEF RegionsOK, Stores
<1>6. Stage(o, kcpooltbls, kpte)
    BY <1>1 DEF Stage, SlotPcs
<1>7. /\ Stage(op'[t], kcpooltbls', kpte') /\ RegionsOK(op'[t], kpte', symrgtbl')
      /\ PoolsOK(op'[t], kcpooltbls', kpte', slots', limit')
    BY <1>2, <1>4, <1>5, <1>6, Zenon
<1>8. Len(kcpooltbls') <= 1
    BY <1>1
<1> QED
    BY <1>7, <1>8, OnlyThread, Zenon

\* The slot begins where the bytes handed out end.
LEMMA ReadSlotPools ==
    ASSUME PoolInv, OneThread, FrameInv', NEW t \in Threads, ReadSlot(t)
    PROVE  PoolInv'
<1> DEFINE o == [op[t] EXCEPT !.pc = "ldStorage", !.slot = Pool(t).storage]
<1>1. op[t].pc = "slot" /\ op[t].pc \in SlotPcs \ {"end"}
    BY Zenon DEF ReadSlot, At, SlotPcs
<1>2. /\ op[t] \in OpSet /\ Taking(op[t], Pool(t), kpte, slots[op[t].id], limit[op[t].id])
    BY <1>1, TakingFrom, Zenon
<1>3. /\ o.pc = "ldStorage" /\ o.slot = Pool(t).storage /\ o.id = op[t].id /\ o.tbl = op[t].tbl
      /\ o.undo = op[t].undo
    BY <1>1, <1>2 DEF OpSet
<1> HIDE DEF o
<1>4. Taking(o, Pool(t), kpte, slots[o.id], limit[o.id])
    BY <1>1, <1>2, <1>3, Zenon DEF Taking, OldStorage, OldSize, Moved, Charged
<1>5. o.pc \in SlotPcs \ {"end"}
    BY <1>3, Zenon DEF SlotPcs
<1> QED
    BY <1>1, <1>3, <1>4, <1>5, SlotMove, Zenon DEF ReadSlot, o

\* What storage will be is worked out from what it is ...
LEMMA LoadStoragePools ==
    ASSUME PoolInv, OneThread, FrameInv', NEW t \in Threads, LoadStorage(t)
    PROVE  PoolInv'
<1> DEFINE v == IF op[t].undo THEN Pool(t).storage - Pool(t).align
                ELSE Pool(t).storage + Pool(t).align
           o == [op[t] EXCEPT !.pc = "stStorage", !.tmp = v]
<1>1. op[t].pc = "ldStorage" /\ op[t].pc \in SlotPcs \ {"end"}
    BY Zenon DEF LoadStorage, At, SlotPcs
<1>2. /\ op[t] \in OpSet /\ Taking(op[t], Pool(t), kpte, slots[op[t].id], limit[op[t].id])
    BY <1>1, TakingFrom
<1>3. /\ o.pc = "stStorage" /\ o.slot = op[t].slot /\ o.id = op[t].id /\ o.tbl = op[t].tbl
      /\ o.undo = op[t].undo /\ o.tmp = v
    BY <1>1, <1>2 DEF OpSet
<1>4. Do(t, o)
    BY DEF LoadStorage
<1> HIDE DEF o
<1>5. Taking(o, Pool(t), kpte, slots[o.id], limit[o.id])
    BY <1>1, <1>2, <1>3, Zenon DEF Taking, OldStorage, OldSize, Moved, Charged
<1>6. o.pc \in SlotPcs \ {"end"}
    BY <1>3, Zenon DEF SlotPcs
<1> QED
    BY <1>1, <1>3, <1>4, <1>5, <1>6, SlotMove DEF LoadStorage

\* ... and so is what size will be.
LEMMA LoadSizePools ==
    ASSUME PoolInv, OneThread, FrameInv', NEW t \in Threads, LoadSize(t)
    PROVE  PoolInv'
<1> DEFINE v == IF op[t].undo THEN Pool(t).size + Pool(t).align
                ELSE Pool(t).size - Pool(t).align
           o == [op[t] EXCEPT !.pc = "stSize", !.tmp = v]
<1>1. op[t].pc = "ldSize" /\ op[t].pc \in SlotPcs \ {"end"}
    BY Zenon DEF LoadSize, At, SlotPcs
<1>2. /\ op[t] \in OpSet /\ Taking(op[t], Pool(t), kpte, slots[op[t].id], limit[op[t].id])
    BY <1>1, TakingFrom, Zenon
<1>3. /\ o.pc = "stSize" /\ o.slot = op[t].slot /\ o.id = op[t].id /\ o.tbl = op[t].tbl
      /\ o.undo = op[t].undo /\ o.tmp = v
    BY <1>1, <1>2 DEF OpSet
<1>4. Do(t, o)
    BY DEF LoadSize
<1> HIDE DEF o
<1>5. Taking(o, Pool(t), kpte, slots[o.id], limit[o.id])
    BY <1>1, <1>2, <1>3, Zenon DEF Taking, OldStorage, OldSize, Moved, Charged
<1>6. o.pc \in SlotPcs \ {"end"}
    BY <1>3 DEF SlotPcs
<1> QED
    BY <1>1, <1>3, <1>4, <1>5, <1>6, SlotMove DEF LoadSize

\* storage moves past the slot, or back: size still has to follow.
LEMMA StoreStoragePools ==
    ASSUME PoolInv, OneThread, FrameInv', NEW t \in Threads, StoreStorage(t)
    PROVE  PoolInv'
<1> DEFINE k == op[t].id
           o == [op[t] EXCEPT !.pc = "ldSize"]
           new == [Pool(t) EXCEPT !.storage = op[t].tmp]
<1>1. op[t].pc = "stStorage" /\ op[t].pc \in SlotPcs
    BY Zenon DEF StoreStorage, At, SlotPcs
<1>2. /\ op[t] \in OpSet /\ op[t].tbl = 1 /\ k \in Pools /\ Len(kcpooltbls) = 1
      /\ Pool(t) = kcpooltbls[1][k] /\ Pool(t) \in PoolSet
      /\ Taking(op[t], Pool(t), kpte, slots[k], limit[k]) /\ Changes(op[t], k)
    BY <1>1, TakingFrom, Zenon
<1>3. /\ o.pc = "ldSize" /\ o.slot = op[t].slot /\ o.id = k /\ o.tbl = 1
      /\ o.undo = op[t].undo
    BY <1>1, <1>2, Zenon DEF OpSet
<1>4. op[t].tmp \in Int /\ op[t].undo \in BOOLEAN
    BY <1>1, <1>2, OpFields, Zenon
<1>5. /\ new \in PoolSet /\ new.storage = op[t].tmp /\ new.size = Pool(t).size
      /\ new.align = Pool(t).align
    BY <1>2, <1>4, Zenon DEF PoolSet
<1>6. kcpooltbls' = [kcpooltbls EXCEPT ![1][k] = new]
    BY <1>2 DEF StoreStorage, Pool
<1>7. /\ op'[t] = o /\ kpte' = kpte /\ symrgtbl' = symrgtbl /\ slots' = slots /\ limit' = limit
    BY Types DEF StoreStorage, Do, PoolInv, FrameInv
<1> HIDE DEF o, new
<1>8. Taking(o, new, kpte, slots'[k], limit'[k])
  <2> DEFINE a == OldStorage(op[t], Pool(t))
             n == Pool(t).align
  <2>1. op[t].tmp = IF op[t].undo THEN a ELSE a + n
    BY <1>1, <1>2, Zenon DEF Taking
  <2>2. Pool(t).storage \in Int /\ n \in Int
    BY <1>2 DEF PoolSet
  <2>3. a \in Int
    BY <2>2 DEF OldStorage
  <2>4. OldStorage(o, new) = IF op[t].undo THEN op[t].tmp ELSE op[t].tmp - n
    BY <1>3, <1>5, Zenon DEF OldStorage, Moved
  <2> HIDE DEF a, n
  <2>5. OldStorage(o, new) = a
    BY <2>1, <2>2, <2>3, <2>4
  <2>6. OldSize(o, new) = OldSize(op[t], Pool(t))
    BY <1>1, <1>3, <1>5, Zenon DEF OldSize, Charged
  <2>7. /\ o.pc # "slot" /\ o.pc # "stStorage" /\ o.pc # "stSize"
        /\ slots'[k] = slots[k] /\ limit'[k] = limit[k]
    BY <1>3, <1>7, Zenon
  <2>8. /\ n # 0 /\ n <= OldSize(op[t], Pool(t)) /\ op[t].slot = a
        /\ Accounts(kpte, slots[k], Base(k), a, OldSize(op[t], Pool(t)), limit[k])
    BY <1>1, <1>2, Zenon DEF Taking, a, n
  <2> QED
    BY <1>3, <1>5, <2>5, <2>6, <2>7, <2>8, Zenon DEF Taking, n
<1>9. RegionsOK(o, kpte, symrgtbl')
    BY <1>1, <1>3, <1>7, Zenon DEF PoolInv, RegionsOK, Stores
<1>10. Changes(o, k) /\ o.pc \notin {"table", "map", "record"}
    BY <1>3, Zenon DEF Changes, SlotPcs
<1> QED
    BY <1>2, <1>3, <1>5, <1>6, <1>7, <1>8, <1>9, <1>10, OnePool, Zenon

\* The slot is taken, or given back: the pool is as it was before.
LEMMA StoreSizePools ==
    ASSUME PoolInv, OneThread, FrameInv', NEW t \in Threads, StoreSize(t)
    PROVE  PoolInv'
<1> DEFINE o == op[t]
           k == o.id
           next == CASE o.undo -> Idle
                     [] ~o.undo /\ o.rgid < NumRegs -> [o EXCEPT !.pc = "start"]
                     [] OTHER -> [o EXCEPT !.pc = "ldStorage", !.undo = TRUE]
           new == [Pool(t) EXCEPT !.size = o.tmp]
<1>1. o.pc = "stSize" /\ o.pc \in SlotPcs
    BY Zenon DEF StoreSize, At, SlotPcs
<1>2. /\ o \in OpSet /\ o.tbl = 1 /\ k \in Pools /\ Len(kcpooltbls) = 1
      /\ Pool(t) = kcpooltbls[1][k] /\ Pool(t) \in PoolSet
      /\ Taking(o, Pool(t), kpte, slots[k], limit[k]) /\ Changes(o, k)
    BY <1>1, TakingFrom, Zenon
<1>3. o.tmp \in Int /\ o.undo \in BOOLEAN
    BY <1>1, <1>2, OpFields, Zenon
<1>4. /\ new \in PoolSet /\ new.size = o.tmp /\ new.storage = Pool(t).storage
      /\ new.align = Pool(t).align
    BY <1>2, <1>3, Zenon DEF PoolSet
<1>5. kcpooltbls' = [kcpooltbls EXCEPT ![1][k] = new]
    BY <1>2, Zenon DEF StoreSize, Pool
<1>6. /\ op'[t] = next /\ kpte' = kpte /\ symrgtbl' = symrgtbl /\ slots' = slots /\ limit' = limit
    BY Types, Zenon DEF StoreSize, Do, PoolInv, FrameInv
<1>7. RegionsOK(o, kpte, symrgtbl)
    BY DEF PoolInv
<1> HIDE DEF new
<1>8. CASE o.undo
  <2>1. next = Idle
    BY <1>8, Zenon
  <2>2. Sound(new, kpte, slots'[k], Base(k), limit'[k])
    BY <1>1, <1>2, <1>4, <1>6, <1>8, Zenon
       DEF Taking, OldStorage, OldSize, Moved, Charged, Sound, PoolSet
  <2>3. RegionsOK(next, kpte, symrgtbl')
    BY <1>1, <1>6, <1>7, <2>1 DEF RegionsOK, Stores, Idle
  <2>4. next.pc = "idle" /\ next.pc \notin SlotPcs
    BY <2>1, Zenon DEF Idle, SlotPcs
  <2> HIDE DEF next
  <2> QED
    BY <1>2, <1>4, <1>5, <1>6, <2>2, <2>3, <2>4, OnePool, Zenon
<1>9. CASE ~o.undo
  <2>1. /\ next.pc \in {"start", "ldStorage"} /\ next.slot = o.slot /\ next.id = k
        /\ next.tbl = 1 /\ (next.pc = "start" => ~next.undo) /\ (next.pc = "ldStorage" => next.undo)
    <3>1. next = [o EXCEPT !.pc = "start"] \/ next = [o EXCEPT !.pc = "ldStorage", !.undo = TRUE]
        BY <1>9, Zenon
    <3>2. CASE next = [o EXCEPT !.pc = "start"]
        BY <1>1, <1>2, <1>9, <3>2, Zenon DEF OpSet
    <3>3. CASE next = [o EXCEPT !.pc = "ldStorage", !.undo = TRUE]
        BY <1>1, <1>2, <1>9, <3>3 DEF OpSet
    <3> QED
        BY <3>1, <3>2, <3>3
  <2> HIDE DEF next
  <2>2. Taking(next, new, kpte, slots'[k], limit'[k])
    <3>1. OldStorage(next, new) = OldStorage(o, Pool(t))
        BY <1>1, <1>4, <1>9, <2>1, Zenon DEF OldStorage, Moved
    <3>2. /\ Pool(t).size \in Int /\ Pool(t).align \in Int
        BY <1>2 DEF PoolSet
    <3>3. OldSize(o, Pool(t)) = Pool(t).size
        BY <1>1, <1>9, Zenon DEF OldSize, Charged
    <3>4. o.tmp = OldSize(o, Pool(t)) - Pool(t).align
        BY <1>1, <1>2, <1>9, Zenon DEF Taking
    <3>5. OldSize(next, new) = o.tmp + Pool(t).align
        BY <1>4, <2>1, Zenon DEF OldSize, Charged
    <3>6. OldSize(next, new) = OldSize(o, Pool(t))
        BY <3>2, <3>3, <3>4, <3>5
    <3>7. /\ next.pc # "slot" /\ next.pc # "stStorage" /\ next.pc # "stSize"
          /\ slots'[k] = slots[k] /\ limit'[k] = limit[k]
        BY <1>6, <2>1, Zenon
    <3>8. /\ Pool(t).align # 0 /\ Pool(t).align <= OldSize(o, Pool(t))
          /\ o.slot = OldStorage(o, Pool(t))
          /\ Accounts(kpte, slots[k], Base(k), OldStorage(o, Pool(t)),
                      OldSize(o, Pool(t)), limit[k])
        BY <1>1, <1>2, Zenon DEF Taking
    <3> QED
        BY <1>4, <2>1, <3>1, <3>6, <3>7, <3>8, Zenon DEF Taking
  <2>3. RegionsOK(next, kpte, symrgtbl')
    BY <1>1, <1>6, <1>7, <2>1, Zenon DEF RegionsOK, Stores
  <2>4. Changes(next, k) /\ next.pc \notin {"table", "map", "record"}
    BY <2>1, Zenon DEF Changes, SlotPcs
  <2> QED
    BY <1>2, <1>4, <1>5, <1>6, <2>1, <2>2, <2>3, <2>4, OnePool, Zenon
<1> QED
    BY <1>3, <1>8, <1>9, Zenon

\* The region's start is the slot.
LEMMA StoreStartPools ==
    ASSUME PoolInv, OneThread, FrameInv', NEW t \in Threads, StoreStart(t)
    PROVE  PoolInv'
<1> DEFINE o == [op[t] EXCEPT !.pc = "end"]
           k == op[t].id
<1>1. op[t].pc = "start" /\ op[t].pc \in SlotPcs
    BY Zenon DEF StoreStart, At, SlotPcs
<1>2. /\ op[t] \in OpSet /\ op[t].tbl = 1 /\ k \in Pools /\ Len(kcpooltbls) = 1
      /\ Pool(t) = kcpooltbls[1][k]
      /\ Taking(op[t], Pool(t), kpte, slots[k], limit[k]) /\ Changes(op[t], k)
    BY <1>1, TakingFrom, Zenon
<1>3. /\ o.pc = "end" /\ o.slot = op[t].slot /\ o.id = k /\ o.tbl = 1 /\ o.rgid = op[t].rgid
      /\ o.undo = op[t].undo
    BY <1>1, <1>2 DEF OpSet
<1>4. /\ op'[t] = o /\ UNCHANGED <<kpte, kcpooltbls, slots, limit>>
      /\ symrgtbl \in [Regs -> [rg_start : Int, rg_end : Int]]
      /\ symrgtbl' = [symrgtbl EXCEPT ![op[t].rgid].rg_start = op[t].slot]
      /\ Ready(op[t], Len(kcpooltbls))
    BY Types, Zenon DEF StoreStart, Do, PoolInv, FrameInv
<1>5. op[t].rgid \in Regs
    BY <1>1, <1>4 DEF Ready
<1> HIDE DEF o
<1>6. Taking(o, Pool(t), kpte, slots[k], limit[k])
    BY <1>1, <1>2, <1>3, Zenon DEF Taking, OldStorage, OldSize, Moved, Charged
<1>7. PoolsOK(o, kcpooltbls, kpte, slots, limit)
  <2>1. PoolsOK(op[t], kcpooltbls, kpte, slots, limit)
    BY Zenon DEF PoolInv
  <2> QED
    BY <1>2, <1>3, <1>6, <2>1, Zenon DEF PoolsOK, Changes, SlotPcs
<1>8. RegionsOK(o, kpte, symrgtbl')
  <2>1. RegionsOK(op[t], kpte, symrgtbl)
    BY Zenon DEF PoolInv
  <2>2. \A r \in Regs : Covers(symrgtbl[r], kpte)
    BY <1>1, <2>1, Zenon DEF RegionsOK, Stores
  <2>3. /\ symrgtbl'[o.rgid].rg_start = o.slot
        /\ \A r \in Regs \ {o.rgid} : symrgtbl'[r] = symrgtbl[r]
    BY <1>3, <1>4, <1>5, Zenon
  <2> QED
    BY <1>3, <2>2, <2>3, Zenon DEF RegionsOK, Stores
<1>9. Stage(o, kcpooltbls, kpte)
    BY <1>3 DEF Stage
<1>10. /\ Stage(op'[t], kcpooltbls', kpte') /\ RegionsOK(op'[t], kpte', symrgtbl')
       /\ PoolsOK(op'[t], kcpooltbls', kpte', slots', limit')
    BY <1>4, <1>7, <1>8, <1>9, Zenon
<1>11. Len(kcpooltbls') <= 1
    BY <1>4, Zenon DEF PoolInv
<1> QED
    BY <1>10, <1>11, OnlyThread, Zenon

\* The slots handed out share out the bytes before storage, and the new one
\* begins where they end.
LEMMA TiledPush ==
    ASSUME NEW S, NEW a \in Int, NEW b \in Int, NEW c \in Int, a <= b, b <= c, Tiled(S, a, b)
    PROVE  Tiled(S \cup {[start |-> b, end |-> c]}, a, c)
<1> DEFINE n == [start |-> b, end |-> c]
           B(s) == Bytes(s.start, s.end)
<1>1. B(n) = b .. c - 1
    BY Zenon DEF Bytes
<1>2. UNION {B(s) : s \in S} = a .. b - 1
    BY Zenon DEF Tiled, Bytes
<1>3. \A s \in S : B(s) \subseteq a .. b - 1
    BY <1>2
<1> HIDE DEF n, B
<1>4. UNION {B(s) : s \in S \cup {n}} = (UNION {B(s) : s \in S}) \cup B(n)
    BY Zenon
<1>5. UNION {B(s) : s \in S \cup {n}} = a .. c - 1
  <2>1. (a .. b - 1) \cup (b .. c - 1) = a .. c - 1
    OBVIOUS
  <2> QED
    BY <1>1, <1>2, <1>4, <2>1, Zenon
<1>6. \A s \in S : B(s) \cap B(n) = {}
    BY <1>1, <1>3
<1>7. \A r, s \in S : r # s => B(r) \cap B(s) = {}
    BY DEF Tiled, B
<1>8. \A r, s \in S \cup {n} : r # s => B(r) \cap B(s) = {}
    BY <1>6, <1>7, Zenon
<1> QED
    BY <1>5, <1>8, Zenon DEF Tiled, B, Bytes, n

\* The slot joins the ones handed out, which tile the bytes up to storage.
LEMMA StoreEndPools ==
    ASSUME PoolInv, OneThread, FrameInv', NEW t \in Threads, StoreEnd(t)
    PROVE  PoolInv'
<1> DEFINE o == op[t]
           k == o.id
           pool == Pool(t)
           end == o.slot + pool.align
           s == [start |-> o.slot, end |-> end]
<1>1. o.pc = "end" /\ o.pc \in SlotPcs
    BY DEF StoreEnd, At, SlotPcs
<1>2. /\ o \in OpSet /\ k \in Pools /\ Len(kcpooltbls) = 1
      /\ pool = kcpooltbls[1][k] /\ pool \in PoolSet
      /\ Taking(o, pool, kpte, slots[k], limit[k]) /\ Changes(o, k)
    BY <1>1, TakingFrom, Zenon
<1>3. /\ op'[t] = Idle /\ UNCHANGED <<kpte, kcpooltbls, limit>>
      /\ symrgtbl' = [symrgtbl EXCEPT ![o.rgid].rg_end = end]
      /\ slots' = [slots EXCEPT ![k] = @ \cup {s}]
    BY Types, Zenon DEF StoreEnd, Do, PoolInv, FrameInv
<1>4. /\ symrgtbl \in [Regs -> [rg_start : Int, rg_end : Int]] /\ Ready(o, Len(kcpooltbls))
      /\ slots \in [Pools -> SUBSET [start : Int, end : Int]] /\ limit \in [Pools -> Int]
    BY Types, Zenon DEF PoolInv, FrameInv
<1>5. o.rgid \in Regs /\ o.slot \in Int /\ Base(k) \in Int
  <2>1. o.rgid \in Regs
    BY <1>1, <1>4, Zenon DEF Ready
  <2>2. o.slot \in Int
    BY <1>1, <1>2, OpFields, Zenon
  <2>3. Base(k) \in Int
    BY <1>2, KMemAssumption DEF Base, Pools
  <2> QED
    BY <2>1, <2>2, <2>3
<1>6. /\ pool.storage \in Int /\ pool.size \in Int /\ pool.align \in Nat /\ limit[k] \in Int
    BY <1>2, <1>4, Zenon DEF PoolSet
<1>7. /\ Base(k) <= o.slot /\ 0 <= pool.size /\ end + pool.size = limit[k] /\ end = pool.storage
      /\ Covered(kpte, Base(k), limit[k]) /\ Tiled(slots[k], Base(k), o.slot)
  <2>1. OldStorage(o, pool) = pool.storage - pool.align /\ OldSize(o, pool) = pool.size + pool.align
    BY <1>1 DEF OldStorage, OldSize, Moved, Charged
  <2>2. /\ o.slot = pool.storage - pool.align /\ pool.align <= pool.size + pool.align
        /\ Accounts(kpte, slots[k], Base(k), o.slot, pool.size + pool.align, limit[k])
    BY <1>1, <1>2, <2>1, Zenon DEF Taking
  <2>3. /\ Base(k) <= o.slot /\ 0 <= pool.size + pool.align
        /\ o.slot + (pool.size + pool.align) = limit[k]
        /\ Covered(kpte, Base(k), limit[k]) /\ Tiled(slots[k], Base(k), o.slot)
    BY <2>2, Zenon DEF Accounts
  <2> HIDE DEF o, pool
  <2>4. 0 <= pool.size /\ end + pool.size = limit[k] /\ end = pool.storage
    BY <1>5, <1>6, <2>2, <2>3, SMTT(30)
  <2> QED
    BY <2>3, <2>4, Zenon
<1> HIDE DEF pool
<1>8. end \in Int /\ o.slot <= end /\ Base(k) <= end
    BY <1>5, <1>6, <1>7
<1> HIDE DEF end
<1>9. Tiled(slots[k] \cup {s}, Base(k), end)
    BY <1>5, <1>7, <1>8, TiledPush, Zenon
<1>10. slots'[k] = slots[k] \cup {s} /\ \A j \in Pools \ {k} : slots'[j] = slots[j]
    BY <1>2, <1>3, <1>4, Zenon
<1> HIDE DEF s
<1>11. Sound(pool, kpte, slots'[k], Base(k), limit[k])
    BY <1>7, <1>8, <1>9, <1>10, Zenon DEF Sound, Accounts
<1>12. PoolsOK(Idle, kcpooltbls, kpte, slots', limit)
  <2>1. PoolsOK(o, kcpooltbls, kpte, slots, limit)
    BY DEF PoolInv
  <2>2. \A j \in Pools \ {k} : Sound(kcpooltbls[1][j], kpte, slots'[j], Base(j), limit[j])
    BY <1>2, <1>10, <2>1, Zenon DEF PoolsOK, Changes
  <2>3. \A j \in Pools : Sound(kcpooltbls[1][j], kpte, slots'[j], Base(j), limit[j])
    BY <1>2, <1>11, <2>2, Zenon
  <2> QED
    BY <2>3, Zenon DEF PoolsOK, Idle, SlotPcs
<1>13. RegionsOK(Idle, kpte, symrgtbl')
  <2>1. RegionsOK(o, kpte, symrgtbl)
    BY DEF PoolInv
  <2>2. /\ symrgtbl'[o.rgid].rg_start = o.slot /\ symrgtbl'[o.rgid].rg_end = end
        /\ \A r \in Regs \ {o.rgid} : symrgtbl'[r] = symrgtbl[r] /\ Covers(symrgtbl[r], kpte)
    BY <1>1, <1>3, <1>4, <1>5, <2>1, Zenon DEF RegionsOK, Stores
  <2>3. Covered(kpte, o.slot, end)
    <3>1. o.slot .. end - 1 \subseteq Base(k) .. limit[k] - 1
        BY <1>5, <1>6, <1>7, <1>8
    <3> QED
        BY <1>7, <3>1, Zenon DEF Covered
  <2>4. Covers(symrgtbl'[o.rgid], kpte)
    BY <2>2, <2>3, Zenon DEF Covers
  <2> QED
    BY <2>2, <2>4, Zenon DEF RegionsOK, Idle
<1>14. Stage(Idle, kcpooltbls, kpte)
    BY FirstStage
<1>15. /\ Stage(op'[t], kcpooltbls', kpte') /\ RegionsOK(op'[t], kpte', symrgtbl')
       /\ PoolsOK(op'[t], kcpooltbls', kpte', slots', limit')
    BY <1>3, <1>12, <1>13, <1>14, Zenon
<1>16. Len(kcpooltbls') <= 1
    BY <1>3, Zenon DEF PoolInv
<1> QED
    BY <1>15, <1>16, OnlyThread, Zenon

\* Every step of the only thread keeps PoolInv.
LEMMA NextPools ==
    ASSUME PoolInv, OneThread, [Next]_vars
    PROVE  PoolInv'
<1>1. FrameInv'
    BY NextFrames, Zenon DEF PoolInv
<1>2. ASSUME NEW t \in Threads, Call(t)
      PROVE  PoolInv'
  <2>1. ASSUME NEW size \in Sizes, NEW id \in Ids, Kmalloc(t, size, id)
        PROVE  PoolInv'
    BY <1>1, <2>1, KmallocPools, Zenon
  <2>2. ASSUME NEW size \in Sizes, NEW align \in Sizes, NEW id \in Ids,
               PoolCreate(t, size, align, id)
        PROVE  PoolInv'
    BY <1>1, <2>2, PoolCreatePools, Zenon
  <2>3. ASSUME NEW id \in Ids, NEW rgid \in Ids, CacheAlloc(t, id, rgid)
        PROVE  PoolInv'
    BY <1>1, <2>3, CacheAllocPools, Zenon
  <2>4. ASSUME NEW id \in Ids, CacheAllocNull(t, id)
        PROVE  PoolInv'
    BY <1>1, <2>4, CacheAllocNullPools, Zenon DEF CacheAllocNull
  <2>5. ASSUME NEW source \in Regs, NEW offset \in 0 .. MaxBytes - 1,
               NEW size \in 1 .. MaxBytes - offset, Copy(t, source, offset, size)
        PROVE  PoolInv'
    BY <1>1, <2>5, CopyPools, Zenon
  <2> QED
    BY <1>2, <2>1, <2>2, <2>3, <2>4, <2>5, Zenon DEF Call
<1>3. ASSUME NEW t \in Threads, Step(t)
      PROVE  PoolInv'
    BY <1>1, <1>3, MapPagePools, MapFailsPools, AllocTablePools, RecordPoolPools, ReadSlotPools,
       LoadStoragePools, StoreStoragePools, LoadSizePools, StoreSizePools, StoreStartPools,
       StoreEndPools, CopyBytePools, SMTT(30) DEF Step
<1>4. CASE UNCHANGED vars
    BY <1>1, <1>4, CacheAllocNullPools, Zenon DEF vars
<1> QED
    BY <1>2, <1>3, <1>4, Zenon DEF Next, Dead

\* When the machine starts there is no pool and every region is empty.
LEMMA InitPools ==
    ASSUME Init, FrameInv
    PROVE  PoolInv
<1>1. Len(kcpooltbls) = 0
    BY Zenon DEF Init
<1>2. ASSUME NEW t \in Threads
      PROVE  /\ Stage(op[t], kcpooltbls, kpte)
             /\ PoolsOK(op[t], kcpooltbls, kpte, slots, limit)
             /\ RegionsOK(op[t], kpte, symrgtbl)
  <2>1. op[t] = Idle
    BY Zenon DEF Init
  <2>2. PoolsOK(op[t], kcpooltbls, kpte, slots, limit)
    BY <1>1 DEF PoolsOK
  <2>3. \A r \in Regs : symrgtbl[r].rg_start = 0 /\ symrgtbl[r].rg_end = 0
    BY Zenon DEF Init
  <2>4. RegionsOK(op[t], kpte, symrgtbl)
    BY <2>1, <2>3 DEF RegionsOK, Covers, Idle
  <2> QED
    BY <2>1, <2>2, <2>4, FirstStage, Zenon
<1> QED
    BY <1>1, <1>2 DEF PoolInv

\* So PoolInv holds at all times on one CPU.
LEMMA PoolInvariant ==
    ASSUME OneThread
    PROVE  Spec => []PoolInv
<1>1. Init /\ FrameInv => PoolInv
    BY InitPools, Zenon
<1>2. PoolInv /\ [Next]_vars => PoolInv'
    BY NextPools
<1> QED
    BY <1>1, <1>2, FrameInvariant, PTL DEF Spec

\* On a machine with one CPU the pools account for every byte: the slots
\* handed out tile what lies before storage and size is what lies behind
\* it, also after a slot was taken back and after a pool was made again.
THEOREM PoolsAccountOnOneCpu ==
    ASSUME NEW cpu, Threads = {cpu}
    PROVE  Spec => []PoolAccounts
<1>1. OneThread
    BY DEF OneThread
<1>2. PoolInv => PoolAccounts
  <2> SUFFICES ASSUME PoolInv, NEW k \in Pools, kcpooltbls # << >>,
                      \A t \in Threads : op[t] = Idle, Last(kcpooltbls)[k].align # 0
               PROVE  LET pool == Last(kcpooltbls)[k] IN
                      /\ pool.storage + pool.size = limit[k]
                      /\ UNION {Bytes(s.start, s.end) : s \in slots[k]}
                             = Bytes(Base(k), pool.storage)
                      /\ \A r, s \in slots[k] :
                             r # s => Bytes(r.start, r.end) \cap Bytes(s.start, s.end) = {}
    BY Zenon DEF PoolAccounts
  <2>1. Len(kcpooltbls) # 0
    BY Types, EmptySeq, Zenon DEF PoolInv, FrameInv
  <2>2. Len(kcpooltbls) = 1 /\ Last(kcpooltbls) = kcpooltbls[1]
    BY <2>1, TheTable, Zenon DEF Last
  <2>3. op[cpu] = Idle /\ op[cpu].pc \notin SlotPcs \cup {"record"}
    BY DEF Idle, SlotPcs
  <2>4. Sound(kcpooltbls[1][k], kpte, slots[k], Base(k), limit[k])
    BY <2>2, <2>3, Quiet, Zenon
  <2> QED
    BY <2>2, <2>4, Zenon DEF Sound, Accounts, Tiled
<1> QED
    BY <1>1, <1>2, PoolInvariant, PTL

\* On a machine with one CPU a copy never meets a kernel page that is not
\* there: every region lies in pages that were mapped when its pool was
\* made, and no kernel page is ever unmapped.
THEOREM NoKernelPanicOnOneCpu ==
    ASSUME NEW cpu, Threads = {cpu}
    PROVE  Spec => []NoKernelPanic
<1>1. OneThread
    BY DEF OneThread
<1>2. PoolInv => NoKernelPanic
  <2> SUFFICES ASSUME PoolInv, NEW t \in Threads, At(t, "copy"), InRegion(op[t])
               PROVE  Present(KernelAddr(op[t]))
    BY DEF NoKernelPanic
  <2> DEFINE o == op[t]
             rg == symrgtbl[o.source]
             x == rg.rg_start + o.offset
  <2>1. o.pc = "copy" /\ o \in OpSet
    BY Types DEF At, PoolInv, FrameInv
  <2>2. /\ o.source \in Regs /\ o.offset \in Nat /\ rg \in [rg_start : Int, rg_end : Int]
    BY <2>1, OpFields, Types, Zenon DEF PoolInv, FrameInv
  <2>3. Covers(rg, kpte)
    BY <2>1, <2>2, Quiet, Zenon DEF SlotPcs
  <2>4. Covered(kpte, rg.rg_start, rg.rg_end)
    BY <2>3, Zenon DEF Covers, InRegion
  <2>5. x \in rg.rg_start .. rg.rg_end - 1
    BY <2>2 DEF InRegion
  <2>6. Present(x)
    BY <2>4, <2>5 DEF Covered, Present
  <2> QED
    BY <2>6 DEF KernelAddr
<1> QED
    BY <1>1, <1>2, PoolInvariant, PTL
=============================================================================
