------------------------------ MODULE PageTable ------------------------------
(***************************************************************************)
(* The five-level page table of one mm (mm64.c:38-122, 184-393): the walk  *)
(* of get_pte_ptr, which makes the tables it misses, and its callers       *)
(* pte_get_entry, pte_set_fpn, pte_set_swap, vmap_pgd_memset and the loop  *)
(* of __kmalloc (libmem.c:541-555).                                        *)
(*                                                                         *)
(* get_pte_ptr takes no lock.  A walk is cut at each of its accesses to an *)
(* entry of a directory: the test for zero, the store of a new table, and  *)
(* the load of the pointer that is followed.  A process's table is used by *)
(* the one CPU that runs the process (OS: OnePlace): Threads is then a     *)
(* single one.  The kernel's table is used by all CPUs.                    *)
(*                                                                         *)
(* Tables are numbered in the order in which they are made; table 1 is the *)
(* root, mm->pgd.  Of the statistics only pgtbl_tables_allocated is kept.  *)
(***************************************************************************)
EXTENDS Pte, Sequences

CONSTANTS
    Threads,    \* the CPU threads that use this table
    Levels,     \* 5: PGD, P4D, PUD, PMD, PT
    Fanout,     \* PAGING64_DIR_ENTRIES (512)
    Pages,      \* the page numbers in use
    Fpns,       \* frame numbers pages are mapped to
    Swaps,      \* swap frames pages are moved to
    MaxMapped,  \* bound: pages of one call of vmap_pgd_memset
    MaxTables,  \* tables the host has memory for
    NOBODY      \* nobody holds mm64_lock

\* The pages under one entry k levels above the last: Fanout ^ k.
Reach[k \in 0 .. Levels] == IF k = 0 THEN 1 ELSE Fanout * Reach[k - 1]

ASSUME PageTableAssumption ==
    /\ Levels \in Nat \ {0} /\ Fanout \in Nat \ {0}
    /\ Pages \subseteq 0 .. Reach[Levels] - 1
    /\ Fpns \subseteq Nat /\ Swaps \subseteq 0 .. 2 ^ 21 - 1
    /\ MaxMapped \in Nat /\ MaxTables \in Nat \ {0}
    /\ NOBODY \notin Threads

VARIABLES
    dir,        \* dir[b][i]: the table entry i of table b points to, or 0
    pt,         \* pt[b][i]: entry i of table b as an entry of a page
    tables_allocated,
    mm64_lock,  \* who holds mm64_lock
    op,         \* op[t]: the call thread t is in
    ret         \* ret[t]: pte of pte_get_entry, when it has returned

vars == <<dir, pt, tables_allocated, mm64_lock, op, ret>>
tree == <<dir, pt, tables_allocated>>

Entries == 0 .. Fanout - 1
Tables  == 1 .. MaxTables

\* get_pd_from_pagenum: the index of a page at each level, nine bits each.
Index ==
    [g \in Pages |->
        [l \in 1 .. Levels |-> (g \div Reach[Levels - l]) % Fanout]]

Idle == [pc |-> "idle"]

OpSet ==
    [pc : {"idle"}]
      \cup [pc : {"check", "store", "follow", "apply", "present"},
            call : {"get", "fpn", "swap", "memset", "kmalloc"}, pgn : Pages,
            arg : Fpns \cup Swaps \cup {0}, rest : 0 .. MaxMapped,
            level : 1 .. Levels, tbl : Tables, first : {0} \cup Tables]

TypeOK ==
    /\ dir \in Seq([Entries -> {0} \cup Tables])
    /\ pt \in Seq([Entries -> Word])
    /\ Len(dir) = Len(pt) /\ Len(dir) \in Tables
    /\ tables_allocated \in Tables
    /\ mm64_lock \in Threads \cup {NOBODY}
    /\ op \in [Threads -> OpSet]
    /\ ret \in [Threads -> Word]

EmptyDir == [i \in Entries |-> 0]
EmptyPt  == [i \in Entries |-> {}]

\* init_mm makes the root.
Init ==
    /\ dir = <<EmptyDir>> /\ pt = <<EmptyPt>>
    /\ tables_allocated = 1
    /\ mm64_lock = NOBODY
    /\ op = [t \in Threads |-> Idle]
    /\ ret = [t \in Threads |-> {}]

Do(t, o) == op' = [op EXCEPT ![t] = o]

\* The start of get_pte_ptr for page g.
Walk(call, g, arg, rest, first) ==
    [pc |-> IF Levels = 1 THEN "apply" ELSE "check", call |-> call, pgn |-> g,
     arg |-> arg, rest |-> rest, level |-> 1, tbl |-> 1, first |-> first]
-----------------------------------------------------------------------------
(* get_pte_ptr                                                             *)

Slot(o) == Index[o.pgn][o.level]

\* The entry is not zero: it will be followed.
CheckThere(t) ==
    /\ op[t].pc = "check" /\ dir[op[t].tbl][Slot(op[t])] # 0
    /\ Do(t, [op[t] EXCEPT !.pc = "follow"])
    /\ UNCHANGED <<tree, mm64_lock, ret>>

\* Mutation of CheckMissing: no table is made before the entry is followed.
CheckMissingFollows(t) ==
    /\ op[t].pc = "check" /\ dir[op[t].tbl][Slot(op[t])] = 0
    /\ op[t].call # "get"
    /\ Do(t, [op[t] EXCEPT !.pc = "follow"])
    /\ UNCHANGED <<tree, mm64_lock, ret>>

\* It is zero, and the caller wants the table made.
CheckMissing(t) ==
    /\ op[t].pc = "check" /\ dir[op[t].tbl][Slot(op[t])] = 0
    /\ op[t].call # "get"
    /\ Do(t, [op[t] EXCEPT !.pc = "store"])
    /\ UNCHANGED <<tree, mm64_lock, ret>>

\* It is zero, and the caller only reads: the entry is 0.
CheckReadOnly(t) ==
    /\ op[t].pc = "check" /\ dir[op[t].tbl][Slot(op[t])] = 0
    /\ op[t].call = "get"
    /\ ret' = [ret EXCEPT ![t] = {}]
    /\ Do(t, Idle)
    /\ UNCHANGED <<tree, mm64_lock>>

\* Mutation of StoreTable: the new table is counted but not stored.
StoreNothing(t) ==
    /\ op[t].pc = "store" /\ Len(dir) < MaxTables
    /\ dir' = Append(dir, EmptyDir) /\ pt' = Append(pt, EmptyPt)
    /\ tables_allocated' = tables_allocated + 1
    /\ Do(t, [op[t] EXCEPT !.pc = "check"])
    /\ UNCHANGED <<mm64_lock, ret>>

\* alloc_pgtbl_level: the new table goes into the entry, whatever is there
\* by now.
StoreTable(t) ==
    /\ op[t].pc = "store" /\ Len(dir) < MaxTables
    /\ dir' = Append([dir EXCEPT ![op[t].tbl][Slot(op[t])] = Len(dir) + 1],
                     EmptyDir)
    /\ pt' = Append(pt, EmptyPt)
    /\ tables_allocated' = tables_allocated + 1
    /\ Do(t, [op[t] EXCEPT !.pc = "follow"])
    /\ UNCHANGED <<mm64_lock, ret>>

\* The call ends; vmap_pgd_memset gives back the lock.
Return(t) ==
    /\ mm64_lock' = IF mm64_lock = t THEN NOBODY ELSE mm64_lock
    /\ Do(t, Idle)

\* Mutation of StoreFails: the lock is kept on the error path.
StoreFailsLocked(t) ==
    /\ op[t].pc = "store" /\ Len(dir) = MaxTables
    /\ dir' = [dir EXCEPT ![op[t].tbl][Slot(op[t])] = 0]
    /\ Do(t, Idle)
    /\ UNCHANGED <<pt, tables_allocated, mm64_lock, ret>>

\* calloc failed: the entry is zero, the walk gives up, and the tables made
\* above it stay.
StoreFails(t) ==
    /\ op[t].pc = "store" /\ Len(dir) = MaxTables
    /\ dir' = [dir EXCEPT ![op[t].tbl][Slot(op[t])] = 0]
    /\ Return(t)
    /\ UNCHANGED <<pt, tables_allocated, ret>>

\* Mutation of Follow: the last directory is not followed.
FollowStopsShort(t) ==
    LET o == op[t] IN
    /\ o.pc = "follow"
    /\ Do(t, [o EXCEPT !.pc = IF o.level + 1 = Levels THEN "apply" ELSE "check",
                       !.tbl = IF o.level + 1 = Levels THEN @
                               ELSE dir[o.tbl][Slot(o)],
                       !.level = o.level + 1])
    /\ UNCHANGED <<tree, mm64_lock, ret>>

\* The entry is loaded again and followed.
Follow(t) ==
    LET o == op[t] IN
    /\ o.pc = "follow"
    /\ Do(t, [o EXCEPT !.pc = IF o.level + 1 = Levels THEN "apply" ELSE "check",
                       !.tbl = dir[o.tbl][Slot(o)],
                       !.level = o.level + 1])
    /\ UNCHANGED <<tree, mm64_lock, ret>>
-----------------------------------------------------------------------------
(* The callers, once they have the pointer &pt[tbl][Slot].                 *)

SetEntry(o, e) == pt' = [pt EXCEPT ![o.tbl][Slot(o)] = e]

EntryAt(o) == pt[o.tbl][Slot(o)]

\* pte_get_entry
GetEntry(t) ==
    /\ op[t].pc = "apply" /\ op[t].call = "get"
    /\ ret' = [ret EXCEPT ![t] = EntryAt(op[t])]
    /\ Do(t, Idle)
    /\ UNCHANGED <<tree, mm64_lock>>

\* pte_set_fpn; __kmalloc then sets the present bit once more, through the
\* pointer it has from its own walk.
SetFpn(t) ==
    LET o == op[t] IN
    /\ o.pc = "apply" /\ o.call = "fpn"
    /\ SetEntry(o, WithFpn(EntryAt(o), o.arg))
    /\ Do(t, IF o.first = 0 THEN Idle ELSE [o EXCEPT !.pc = "present"])
    /\ UNCHANGED <<dir, tables_allocated, mm64_lock, ret>>

\* pte_set_swap; pg_getpage passes swap type 0.
SetSwap(t) ==
    LET o == op[t] IN
    /\ o.pc = "apply" /\ o.call = "swap"
    /\ SetEntry(o, WithSwap(EntryAt(o), 0, o.arg))
    /\ Do(t, Idle)
    /\ UNCHANGED <<dir, tables_allocated, mm64_lock, ret>>

\* vmap_pgd_memset: store the pattern and go on to the next page.
SetPattern(t) ==
    LET o == op[t] IN
    /\ o.pc = "apply" /\ o.call = "memset"
    /\ SetEntry(o, Pattern)
    /\ \/ /\ o.rest = 1
          /\ Return(t)
       \/ /\ o.rest > 1
          /\ Do(t, Walk("memset", o.pgn + 1, 0, o.rest - 1, 0))
          /\ UNCHANGED mm64_lock
    /\ UNCHANGED <<dir, tables_allocated, ret>>

\* __kmalloc has its pointer and calls pte_set_fpn, which walks again.
KmallocPointer(t) ==
    LET o == op[t] IN
    /\ o.pc = "apply" /\ o.call = "kmalloc"
    /\ Do(t, Walk("fpn", o.pgn, o.arg, 0, o.tbl))
    /\ UNCHANGED <<tree, mm64_lock, ret>>

\* PAGING_PTE_SET_PRESENT(*pte) through the pointer of the first walk.
SetPresent(t) ==
    LET o == op[t] IN
    /\ o.pc = "present"
    /\ pt' = [pt EXCEPT ![o.first][Slot(o)] =
                 SETBIT(@, PAGING_PTE_PRESENT_MASK)]
    /\ Do(t, Idle)
    /\ UNCHANGED <<dir, tables_allocated, mm64_lock, ret>>
-----------------------------------------------------------------------------
\* The table that a walk for page g is in at level l, as things are: 0 if
\* there is none.
Path(g) ==
    LET at[l \in 1 .. Levels] ==
            IF l = 1 THEN 1
            ELSE IF at[l - 1] = 0 THEN 0
            ELSE dir[at[l - 1]][Index[g][l - 1]]
    IN at

Entry(g) ==
    IF Path(g)[Levels] = 0 THEN {} ELSE pt[Path(g)[Levels]][Index[g][Levels]]

\* Only a page that is present becomes a victim.
Start(t) ==
    /\ op[t] = Idle
    /\ \E g \in Pages :
           \/ Do(t, Walk("get", g, 0, 0, 0)) /\ UNCHANGED mm64_lock
           \/ \E f \in Fpns :
                  /\ Do(t, Walk("fpn", g, f, 0, 0))
                  /\ UNCHANGED mm64_lock
           \/ \E f \in Fpns :
                  /\ Do(t, Walk("kmalloc", g, f, 0, 0))
                  /\ UNCHANGED mm64_lock
           \/ \E s \in Swaps :
                  /\ PAGING_PAGE_PRESENT(Entry(g))
                  /\ Do(t, Walk("swap", g, s, 0, 0))
                  /\ UNCHANGED mm64_lock
           \/ \E n \in 1 .. MaxMapped :
                  /\ g .. g + n - 1 \subseteq Pages
                  /\ mm64_lock = NOBODY /\ mm64_lock' = t
                  /\ Do(t, Walk("memset", g, 0, n, 0))
    /\ ret' = [ret EXCEPT ![t] = {}]
    /\ UNCHANGED tree

Step(t) ==
    \/ CheckThere(t) \/ CheckMissing(t) \/ CheckReadOnly(t)
    \/ StoreTable(t) \/ StoreFails(t) \/ Follow(t)
    \/ GetEntry(t) \/ SetFpn(t) \/ SetSwap(t) \/ SetPattern(t)
    \/ KmallocPointer(t) \/ SetPresent(t)

Next == \E t \in Threads : Start(t) \/ Step(t)

Spec == Init /\ [][Next]_vars /\ \A t \in Threads : WF_vars(Step(t))
-----------------------------------------------------------------------------
(* Properties.                                                             *)

(***************************************************************************)
(* The tables are a tree: every table but the root hangs in exactly one    *)
(* entry, one level below its parent, so that none is lost and two pages   *)
(* never share an entry; tables_allocated counts them, also after a walk   *)
(* that failed half way (mm64.c:67-117).                                   *)
(***************************************************************************)
LevelOf(b) == {l \in 1 .. Levels : \E g \in Pages : Path(g)[l] = b}

TreeShape ==
    /\ tables_allocated = Len(dir)
    /\ \A b \in 2 .. Len(dir) :
           /\ Cardinality({e \in (1 .. Len(dir)) \X Entries : dir[e[1]][e[2]] = b}) = 1
           /\ Cardinality(LevelOf(b)) = 1
    /\ \A b \in 1 .. Len(dir) :
           \/ Levels \in LevelOf(b) /\ dir[b] = EmptyDir
           \/ Levels \notin LevelOf(b) /\ pt[b] = EmptyPt

(***************************************************************************)
(* get_pte_ptr "returns the address of the real entry in the tree of five  *)
(* levels" (mm64.c:49): when a caller uses the pointer, and as long as     *)
(* __kmalloc keeps one, it is that of the page's entry.                    *)
(***************************************************************************)
PointerInTree ==
    \A t \in Threads :
        /\ op[t].pc = "apply" => op[t].tbl = Path(op[t].pgn)[Levels]
        /\ op[t].pc # "idle" /\ op[t].first # 0 =>
               op[t].first = Path(op[t].pgn)[Levels]

(***************************************************************************)
(* The tree and the coding of entries implement a map from pages to        *)
(* places, as Paging and KMem use it: setting one entry changes no other,  *)
(* whatever the entry held before, and looking it up gives what was set    *)
(* last (mm64.c:223-314, mm.h:17-94).  0xdeadbeef reads as frame 7919.     *)
(***************************************************************************)
Map ==
    INSTANCE PageMap WITH
        Fpns <- Fpns \cup {7919},
        FpnLimit <- 8192,
        map <- [g \in Pages |-> Decode(Entry(g))],
        got <- [t \in Threads |-> Decode(ret[t])]

ImplementsPageMap == Map!Spec

(***************************************************************************)
(* Every call returns, and vmap_pgd_memset gives mm64_lock back on its     *)
(* error path too (mm64.c:373-379).                                        *)
(***************************************************************************)
CallsReturn ==
    \A t \in Threads : op[t] # Idle ~> (op[t] = Idle /\ mm64_lock # t)
=============================================================================
