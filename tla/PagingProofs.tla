---------------------------- MODULE PagingProofs ----------------------------
(***************************************************************************)
(* Proofs about Paging, for any number of processes, pages and frames, as  *)
(* long as a page table entry can hold every frame number.                 *)
(*                                                                         *)
(* The inductive invariant PgInv says who owns which frame: a process owns *)
(* the frames its entries name and those that its operation has taken; the *)
(* used list of a device is what is owned, and nobody owns another's.  The *)
(* rest of it, Local, speaks of one process: its entries name different    *)
(* frames, the FIFO names pages in RAM, and what an operation under way    *)
(* has found out about its pages is still so.                              *)
(***************************************************************************)
EXTENDS Paging, ListLemmas

ramOwn == [p \in Procs |-> MappedFrames(p) \cup InFlight(p)]
swpOwn == [p \in Procs |-> SwapFramesOf(p)]

\* No two pages of p are in one place, and none is in a frame that p's
\* operation has just taken.
Placed(p) ==
    /\ \A g, h \in Pages : SamePlace(pte[p][g], pte[p][h]) => g = h
    /\ InFlight(p) \cap MappedFrames(p) = {}

Fifo(p) ==
    /\ NoRepeat(fifo_pgn[p])
    /\ \A g \in ListSet(fifo_pgn[p]) : pte[p][g].where = "ram"
    /\ op[p].pc = "evict" =>
           /\ pte[p][op[p].vic].where = "ram"
           /\ op[p].vic \notin ListSet(fifo_pgn[p])

\* Where the area ends: no page beyond it is mapped.
Area(p) ==
    /\ \A g \in Pages : g >= vm_end[p] => pte[p][g] = NoPage
    /\ op[p].pc = "inc" => vm_end[p] + op[p].n <= MaxPages
    /\ op[p].pc \in {"grab", "undo"} =>
           /\ op[p].n <= vm_end[p]
           /\ Len(op[p].frames) <= op[p].n
           /\ NoRepeat(op[p].frames)
    /\ op[p].pc = "grab" =>
           \A g \in Pages : g >= vm_end[p] - op[p].n => pte[p][g] = NoPage

\* What an access has found out about its page.
Accessed(p) ==
    /\ op[p].pc \in {"fault", "evict", "fill", "access"} => op[p].pgn < vm_end[p]
    /\ op[p].pc \in {"fault", "evict", "fill"} => pte[p][op[p].pgn].where # "ram"
    /\ op[p].pc = "access" => pte[p][op[p].pgn].where = "ram"

Local(p) == Placed(p) /\ Fifo(p) /\ Area(p) /\ Accessed(p)

PgInv ==
    /\ TypeOK
    /\ Owners(ram, RamFrames, Procs, ramOwn)
    /\ Owners(swp, SwapFrames, Procs, swpOwn)
    /\ \A p \in Procs : Local(p)
-----------------------------------------------------------------------------
(* What the invariant needs of one process.                                *)

\* The frames a process holds on to during a call, by its step.
LEMMA InFlightOf ==
    ASSUME NEW p \in Procs
    PROVE  /\ op[p].pc \in {"grab", "undo"} => InFlight(p) = ListSet(op[p].frames)
           /\ op[p].pc = "fill" => InFlight(p) = {op[p].tgt}
           /\ op[p].pc \notin {"grab", "undo", "fill"} => InFlight(p) = {}
    BY DEF InFlight

\* The same after a step.
LEMMA InFlightOfPrime ==
    ASSUME NEW p \in Procs
    PROVE  /\ op'[p].pc \in {"grab", "undo"} => InFlight(p)' = ListSet(op'[p].frames)
           /\ op'[p].pc = "fill" => InFlight(p)' = {op'[p].tgt}
           /\ op'[p].pc \notin {"grab", "undo", "fill"} => InFlight(p)' = {}
    BY DEF InFlight, ListSet

\* The fields of the operation p is in.
LEMMA OpFields ==
    ASSUME TypeOK, NEW p \in Procs
    PROVE  /\ op[p].pc = "inc" => op[p].n \in 1 .. MaxPages
           /\ op[p].pc \in {"grab", "undo"} =>
                  op[p] \in [pc : {"grab", "undo"}, n : 1 .. MaxPages,
                             frames : Seq(RamFrames)]
           /\ op[p].pc \in {"fault", "access"} =>
                  op[p].kind \in Kinds /\ op[p].pgn \in Pages
           /\ op[p].pc = "evict" =>
                  op[p].kind \in Kinds /\ op[p].pgn \in Pages /\ op[p].vic \in Pages
           /\ op[p].pc = "fill" =>
                  op[p].kind \in Kinds /\ op[p].pgn \in Pages /\ op[p].tgt \in RamFrames
<1>1. op[p] \in OpSet
    BY DEF TypeOK
<1> QED
    BY <1>1 DEF OpSet

\* A list over S holds members of S.
LEMMA ListInType ==
    ASSUME NEW S, NEW s \in Seq(S)
    PROVE  ListSet(s) \subseteq S
    BY DEF ListSet

\* Nothing of process q has changed.
Untouched(q) ==
    /\ op'[q] = op[q] /\ pte'[q] = pte[q]
    /\ fifo_pgn'[q] = fifo_pgn[q] /\ vm_end'[q] = vm_end[q]

\* What is said of one process alone stays when it does not move.
LEMMA UntouchedLocal ==
    ASSUME NEW q \in Procs, Untouched(q), Local(q)
    PROVE  Local(q)'
<1> USE DEF Untouched, Local
<1>1. Placed(q)'
  <2>1. InFlight(q)' = InFlight(q)
    BY DEF InFlight, ListSet
  <2>2. MappedFrames(q)' = MappedFrames(q)
    BY Zenon DEF MappedFrames, Pages
  <2> QED
    BY <2>1, <2>2 DEF Placed, SamePlace, Pages
<1>2. Fifo(q)'
    BY DEF Fifo, ListSet, NoRepeat
<1>3. Area(q)'
    BY Zenon DEF Area, NoRepeat, Pages, NoPage
<1>4. Accessed(q)'
    BY DEF Accessed
<1> QED
    BY <1>1, <1>2, <1>3, <1>4, Zenon

\* So do the frames it owns.
LEMMA UntouchedOwn ==
    ASSUME NEW q \in Procs, Untouched(q)
    PROVE  ramOwn'[q] = ramOwn[q] /\ swpOwn'[q] = swpOwn[q]
    BY DEF Untouched, ramOwn, swpOwn, InFlight, MappedFrames, SwapFramesOf, ListSet, Pages

\* What a process owns, from its entries and its operation.
LEMMA OwnOf ==
    ASSUME NEW p \in Procs
    PROVE  /\ ramOwn[p] = MappedFrames(p) \cup InFlight(p)
           /\ ramOwn'[p] = MappedFrames(p)' \cup InFlight(p)'
           /\ swpOwn[p] = SwapFramesOf(p)
           /\ swpOwn'[p] = SwapFramesOf(p)'
    BY DEF ramOwn, swpOwn

\* A step of p from what it does to p and to the devices.
LEMMA StepOf ==
    ASSUME PgInv, NEW p \in Procs, \A q \in Procs \ {p} : Untouched(q),
           TypeOK', Local(p)',
           Owners(ram', RamFrames, Procs, ramOwn'),
           Owners(swp', SwapFrames, Procs, swpOwn')
    PROVE  PgInv'
<1>1. \A q \in Procs : Local(q)'
    BY UntouchedLocal DEF PgInv
<1> QED
    BY <1>1 DEF PgInv, RamFrames, SwapFrames

\* A step that takes and returns no frame and leaves the page table alone.
LEMMA QuietStep ==
    ASSUME PgInv, NEW p \in Procs, \A q \in Procs \ {p} : Untouched(q),
           ram' = ram, swp' = swp, pte' = pte, InFlight(p)' = InFlight(p),
           TypeOK', Fifo(p)', Area(p)', Accessed(p)'
    PROVE  PgInv'
<1>1. MappedFrames(p)' = MappedFrames(p) /\ SwapFramesOf(p)' = SwapFramesOf(p)
    BY DEF MappedFrames, SwapFramesOf, Pages
<1>2. Placed(p)
    BY Zenon DEF PgInv, Local
<1>3. Placed(p)'
    BY <1>1, <1>2 DEF Placed, SamePlace, Pages
<1>4. Local(p)'
    BY <1>3 DEF Local
<1>5. \A q \in Procs : ramOwn'[q] = ramOwn[q] /\ swpOwn'[q] = swpOwn[q]
    BY <1>1, OwnOf, UntouchedOwn, Zenon
<1>6. Owners(ram', RamFrames, Procs, ramOwn')
    BY <1>5, OwnersSame DEF PgInv
<1>7. Owners(swp', SwapFrames, Procs, swpOwn')
    BY <1>5, OwnersSame, Zenon DEF PgInv
<1> QED
    BY <1>4, <1>6, <1>7, StepOf, Zenon

\* A step in which p goes on to o, the devices and p's memory staying.
LEMMA OpStep ==
    ASSUME PgInv, NEW p \in Procs, NEW o \in OpSet, op' = [op EXCEPT ![p] = o],
           ram' = ram, swp' = swp, mmVars' = mmVars, TypeOK',
           InFlight(p)' = InFlight(p),
           o.pc \notin {"grab", "evict", "fill"},
           o.pc = "inc" => vm_end[p] + o.n <= MaxPages,
           o.pc = "undo" => op[p].pc = "grab" /\ o.n = op[p].n /\ o.frames = op[p].frames,
           o.pc \in {"fault", "access"} =>
               /\ o.pgn < vm_end[p]
               /\ o.pc = "access" <=> pte[p][o.pgn].where = "ram"
    PROVE  PgInv'
<1>1. op'[p] = o /\ \A q \in Procs \ {p} : op'[q] = op[q]
    BY DEF PgInv, TypeOK
<1>2. pte' = pte /\ fifo_pgn' = fifo_pgn /\ vm_end' = vm_end
    BY DEF mmVars
<1>3. \A q \in Procs \ {p} : Untouched(q)
    BY <1>1, <1>2 DEF Untouched
<1>4. Fifo(p) /\ Area(p)
    BY Zenon DEF PgInv, Local
<1>5. Fifo(p)'
    BY <1>1, <1>2, <1>4, Zenon DEF Fifo
<1>6. Area(p)'
    BY <1>1, <1>2, <1>4, Zenon DEF Area, Pages, NoPage
<1>7. Accessed(p)'
    BY <1>1, <1>2, Zenon DEF Accessed
<1> QED
    BY <1>2, <1>3, <1>5, <1>6, <1>7, QuietStep, Zenon

\* The types of the devices' contents and of the locks.
LEMMA OpType ==
    ASSUME TypeOK, NEW p \in Procs, NEW o \in OpSet, op' = [op EXCEPT ![p] = o],
           ram' = ram, swp' = swp, mmVars' = mmVars,
           ramData' \in [RamFrames -> Data], swpData' = swpData,
           mmvm_lock' \in {mmvm_lock, p, NOBODY}, vm_Lock' \in {vm_Lock, p, NOBODY}
    PROVE  TypeOK'
<1>1. op' \in [Procs -> OpSet]
    BY DEF TypeOK
<1>2. mmvm_lock' \in Procs \cup {NOBODY} /\ vm_Lock' \in Procs \cup {NOBODY}
    BY DEF TypeOK
<1>3. pte' = pte /\ fifo_pgn' = fifo_pgn /\ vm_end' = vm_end
    BY DEF mmVars
<1> QED
    BY <1>1, <1>2, <1>3, Zenon DEF TypeOK

\* The operation that p is in has taken no frame, and the next one has not.
LEMMA NothingTaken ==
    ASSUME TypeOK, NEW p \in Procs, NEW o \in OpSet, op' = [op EXCEPT ![p] = o],
           op[p].pc \notin {"grab", "undo", "fill"}, o.pc \notin {"grab", "undo", "fill"}
    PROVE  InFlight(p)' = InFlight(p)
<1>1. op'[p] = o
    BY DEF TypeOK
<1> QED
    BY <1>1, InFlightOf, InFlightOfPrime, Zenon
-----------------------------------------------------------------------------
(* Steps that take and return no frame.                                    *)

\* An operation ends: it holds no frame that is not mapped.
LEMMA Ends ==
    ASSUME PgInv, NEW p \in Procs, NEW o \in {Idle, Exited}, Do(p, o),
           op[p].pc \notin {"grab", "fill"},
           op[p].pc = "undo" => op[p].frames = << >>,
           ram' = ram, swp' = swp, mmVars' = mmVars,
           ramData' \in [RamFrames -> Data], swpData' = swpData,
           mmvm_lock' \in {mmvm_lock, p, NOBODY}, vm_Lock' \in {vm_Lock, p, NOBODY}
    PROVE  PgInv'
<1>1. o \in OpSet /\ o.pc \in {"idle", "exited"}
    BY DEF Idle, Exited, OpSet
<1>2. op' = [op EXCEPT ![p] = o] /\ TypeOK
    BY DEF Do, PgInv
<1>3. op'[p] = o
    BY <1>2, Zenon DEF TypeOK
<1>4. InFlight(p) = {}
    BY InFlightOf DEF ListSet
<1>5. InFlight(p)' = {}
    BY <1>1, <1>3, InFlightOfPrime, Zenon
<1>6. TypeOK'
    BY <1>1, <1>2, OpType, Zenon
<1> QED
    BY <1>1, <1>2, <1>4, <1>5, <1>6, OpStep, Zenon

\* A call that ends gives back the locks it holds, and no other.
LEMMA LocksReturned ==
    ASSUME NEW p, Return(p)
    PROVE  /\ mmvm_lock' \in {mmvm_lock, p, NOBODY} /\ vm_Lock' \in {vm_Lock, p, NOBODY}
           /\ Do(p, Idle)
    BY DEF Return, Release

\* A call of inc_vma_limit begins.
LEMMA StartInc ==
    ASSUME PgInv, NEW p \in Procs, NEW n \in 1 .. MaxPages - vm_end[p],
           Alloc(p, n) \/ SysMemInc(p, n)
    PROVE  PgInv'
<1> DEFINE o == [pc |-> "inc", n |-> n]
<1>1. TypeOK /\ MaxPages \in Nat /\ vm_end[p] \in 0 .. MaxPages
    BY PagingAssumption, Zenon DEF PgInv, TypeOK
<1>2. n \in 1 .. MaxPages /\ vm_end[p] + n <= MaxPages
    BY <1>1
<1>3. o \in OpSet /\ o.pc = "inc" /\ o.n = n
    BY <1>2, Zenon DEF OpSet
<1>4. /\ op[p].pc = "idle" /\ op' = [op EXCEPT ![p] = o]
      /\ ram' = ram /\ swp' = swp /\ mmVars' = mmVars
      /\ ramData' = ramData /\ swpData' = swpData
      /\ mmvm_lock' \in {mmvm_lock, p, NOBODY} /\ vm_Lock' \in {vm_Lock, p, NOBODY}
    BY DEF Alloc, SysMemInc, Do, Idle, devVars, locks
<1> HIDE DEF o
<1>5. ramData' \in [RamFrames -> Data]
    BY <1>1, <1>4 DEF TypeOK
<1>6. TypeOK'
    BY <1>1, <1>3, <1>4, <1>5, OpType, Zenon
<1>7. InFlight(p)' = InFlight(p)
    BY <1>1, <1>3, <1>4, NothingTaken, Zenon
<1> QED
    BY <1>2, <1>3, <1>4, <1>6, <1>7, OpStep, Zenon

\* An access to a page begins.
LEMMA StartAccess ==
    ASSUME PgInv, NEW p \in Procs, NEW g \in Pages,
           StartRead(p, g) \/ StartWrite(p, g) \/ StartCopy(p, g)
    PROVE  PgInv'
<1>1. PICK kind \in Kinds :
          op' = [op EXCEPT ![p] =
                    [pc |-> IF pte[p][g].where = "ram" THEN "access" ELSE "fault",
                     kind |-> kind, pgn |-> g]]
    BY Zenon DEF StartRead, StartWrite, StartCopy, Do, Kinds
<1> DEFINE o == [pc |-> IF pte[p][g].where = "ram" THEN "access" ELSE "fault",
                 kind |-> kind, pgn |-> g]
<1>2. /\ o \in OpSet /\ o.pc \in {"fault", "access"} /\ o.pgn = g
      /\ o.pc = "access" <=> pte[p][g].where = "ram"
    BY Zenon DEF OpSet
<1>3. /\ op[p].pc = "idle" /\ g < vm_end[p]
      /\ ram' = ram /\ swp' = swp /\ mmVars' = mmVars
      /\ ramData' = ramData /\ swpData' = swpData
      /\ mmvm_lock' \in {mmvm_lock, p, NOBODY} /\ vm_Lock' \in {vm_Lock, p, NOBODY}
    BY DEF StartRead, StartWrite, StartCopy, Idle, devVars, locks
<1>4. op' = [op EXCEPT ![p] = o]
    BY <1>1, Zenon
<1> HIDE DEF o
<1>5. TypeOK /\ ramData' \in [RamFrames -> Data]
    BY <1>3, Zenon DEF PgInv, TypeOK
<1>6. TypeOK'
    BY <1>2, <1>3, <1>4, <1>5, OpType, Zenon
<1>7. InFlight(p)' = InFlight(p)
    BY <1>2, <1>3, <1>4, <1>5, NothingTaken, Zenon
<1> QED
    BY <1>2, <1>3, <1>4, <1>6, <1>7, OpStep, Zenon

\* What a frame may hold after a store.
LEMMA StoredData ==
    ASSUME NEW cells, NEW f, NEW d \in Data
    PROVE  Stored(cells, f, d) \subseteq Data
    BY Zenon DEF Stored

\* An access ends with a value stored in its frame.
LEMMA StoreEnds ==
    ASSUME PgInv, NEW p \in Procs, NEW d \in Data, op[p].pc = "access", StoreInPage(p, d)
    PROVE  PgInv'
<1>1. ramData \in [RamFrames -> Data]
    BY DEF PgInv, TypeOK
<1>2. PICK e \in Stored(RamCells, pte[p][op[p].pgn].fpn, d) :
          ramData' = [ramData EXCEPT ![pte[p][op[p].pgn].fpn] = e]
    BY Zenon DEF StoreInPage
<1>3. e \in Data
    BY StoredData
<1>4. ramData' \in [RamFrames -> Data]
    BY <1>1, <1>2, <1>3, Zenon
<1>5. ram' = ram /\ swp' = swp /\ swpData' = swpData /\ mmVars' = mmVars /\ Return(p)
    BY DEF StoreInPage
<1> QED
    BY <1>4, <1>5, LocksReturned, Ends, Zenon

\* The steps that end an operation or a process.
LEMMA EndSteps ==
    ASSUME PgInv, NEW p \in Procs,
           \/ UndoDone(p) \/ FaultNoVictim(p) \/ SwapFull(p) \/ ReadValue(p) \/ WriteCopy(p)
           \/ \E v \in Values : WriteValue(p, v)
           \/ Exit(p)
    PROVE  PgInv'
<1>1. ramData \in [RamFrames -> Data]
    BY Zenon DEF PgInv, TypeOK
<1>2. CASE UndoDone(p) \/ FaultNoVictim(p) \/ SwapFull(p)
  <2>1. Return(p) /\ devVars' = devVars /\ mmVars' = mmVars
    BY <1>2, Zenon DEF UndoDone, FaultNoVictim, SwapFull
  <2>2. /\ op[p].pc \notin {"grab", "fill"}
        /\ op[p].pc = "undo" => op[p].frames = << >>
    BY <1>2 DEF UndoDone, FaultNoVictim, SwapFull
  <2>3. ram' = ram /\ swp' = swp /\ ramData' \in [RamFrames -> Data] /\ swpData' = swpData
    BY <1>1, <2>1, Zenon DEF devVars
  <2> QED
    BY <2>1, <2>2, <2>3, LocksReturned, Ends, Zenon
<1>3. CASE ReadValue(p) \/ Exit(p)
  <2>1. \E o \in {Idle, Exited} : Do(p, o)
    BY <1>3, Zenon DEF ReadValue, Exit
  <2>2. op[p].pc \in {"access", "idle"} /\ devVars' = devVars /\ mmVars' = mmVars
    BY <1>3 DEF ReadValue, Exit, Idle
  <2>3. /\ ram' = ram /\ swp' = swp /\ ramData' \in [RamFrames -> Data] /\ swpData' = swpData
        /\ mmvm_lock' \in {mmvm_lock, p, NOBODY} /\ vm_Lock' \in {vm_Lock, p, NOBODY}
    BY <1>1, <1>3, <2>2, Zenon DEF devVars, ReadValue, Exit, locks
  <2> QED
    BY <2>1, <2>2, <2>3, Ends, Zenon
<1>4. CASE WriteCopy(p)
  <2>1. <<Zero>> \in Data
    BY DEF Data
  <2> QED
    BY <1>4, <2>1, StoreEnds, Zenon DEF WriteCopy
<1>5. ASSUME NEW v \in Values, WriteValue(p, v) PROVE PgInv'
  <2>1. <<p, v>> \in Data
    BY DEF Data
  <2> QED
    BY <1>5, <2>1, StoreEnds, Zenon DEF WriteValue
<1> QED
    BY <1>2, <1>3, <1>4, <1>5, Zenon

\* No frame is left: the call goes on to give back what it took.
LEMMA AllocFailsPgInv ==
    ASSUME PgInv, NEW p \in Procs, AllocFails(p)
    PROVE  PgInv'
<1> DEFINE o == [op[p] EXCEPT !.pc = "undo"]
<1>1. TypeOK /\ op[p].pc = "grab"
    BY Zenon DEF AllocFails, PgInv
<1>2. op[p] \in [pc : {"grab", "undo"}, n : 1 .. MaxPages, frames : Seq(RamFrames)]
    BY <1>1, OpFields, Zenon
<1>3. o \in OpSet /\ o.pc = "undo" /\ o.n = op[p].n /\ o.frames = op[p].frames
    BY <1>2 DEF OpSet
<1>4. /\ op' = [op EXCEPT ![p] = o] /\ devVars' = devVars /\ mmVars' = mmVars
      /\ mmvm_lock' = mmvm_lock /\ vm_Lock' = vm_Lock
    BY DEF AllocFails, Do, locks
<1> HIDE DEF o
<1>5. op'[p] = o
    BY <1>1, <1>4, Zenon DEF TypeOK
<1>6. InFlight(p)' = InFlight(p)
    BY <1>1, <1>3, <1>5, InFlightOf, InFlightOfPrime, Zenon
<1>7. ram' = ram /\ swp' = swp /\ ramData' \in [RamFrames -> Data] /\ swpData' = swpData
    BY <1>1, <1>4, Zenon DEF devVars, TypeOK
<1>8. TypeOK'
    BY <1>1, <1>3, <1>4, <1>7, OpType, Zenon
<1> QED
    BY <1>1, <1>3, <1>4, <1>6, <1>7, <1>8, OpStep, Zenon

\* The limit is moved, and the frames are taken next.
LEMMA IncVmaLimitPgInv ==
    ASSUME PgInv, NEW p \in Procs, IncVmaLimit(p)
    PROVE  PgInv'
<1> DEFINE n == op[p].n
           o == [pc |-> "grab", n |-> n, frames |-> << >>]
           v == vm_end[p]
<1>1. /\ TypeOK /\ op[p].pc = "inc" /\ Fifo(p) /\ Area(p)
      /\ pte' = pte /\ fifo_pgn' = fifo_pgn /\ devVars' = devVars
      /\ mmvm_lock' = mmvm_lock /\ vm_Lock' = p
      /\ vm_end' = [vm_end EXCEPT ![p] = v + n]
      /\ op' = [op EXCEPT ![p] = o]
    BY Zenon DEF IncVmaLimit, Do, PgInv, Local
<1>2. MaxPages \in Nat /\ v \in 0 .. MaxPages /\ n \in 1 .. MaxPages
    BY <1>1, OpFields, PagingAssumption, Zenon DEF TypeOK
<1>3. v + n <= MaxPages
    BY <1>1 DEF Area
<1>4. o \in OpSet /\ o.pc = "grab" /\ o.n = n /\ o.frames = << >>
    BY <1>2 DEF OpSet
<1> HIDE DEF o, n, v
<1>5. v + n \in 0 .. MaxPages
    BY <1>2, <1>3
<1>6. /\ op'[p] = o /\ vm_end'[p] = v + n
      /\ \A q \in Procs \ {p} : op'[q] = op[q] /\ vm_end'[q] = vm_end[q]
    BY <1>1, Zenon DEF TypeOK
<1>7. op' \in [Procs -> OpSet] /\ vm_end' \in [Procs -> 0 .. MaxPages]
    BY <1>1, <1>4, <1>5, Zenon DEF TypeOK
<1>8. TypeOK'
    BY <1>1, <1>7, Zenon DEF TypeOK, devVars
<1>9. \A q \in Procs \ {p} : Untouched(q)
    BY <1>1, <1>6, Zenon DEF Untouched
<1>10. InFlight(p) = {}
    BY <1>1, InFlightOf, Zenon
<1>11. InFlight(p)' = {}
    BY <1>4, <1>6, InFlightOfPrime DEF ListSet
<1>12. Fifo(p)'
    BY <1>1, <1>4, <1>6, Zenon DEF Fifo
<1>13. \A g \in Pages : g >= v => pte[p][g] = NoPage
    BY <1>1, Zenon DEF Area, v
<1>14. Area(p)'
  <2>1. \A g \in Pages : g >= v + n => g >= v
    BY <1>2 DEF Pages
  <2>2. n <= v + n /\ Len(<< >>) <= n
    BY <1>2
  <2>3. NoRepeat(op[p].frames)'
    BY <1>4, <1>6 DEF NoRepeat
  <2>4. pte'[p] = pte[p] /\ op'[p].pc = "grab" /\ op'[p].n = n /\ op'[p].frames = << >>
    BY <1>1, <1>4, <1>6, Zenon
  <2>5. \A g \in Pages : g >= vm_end'[p] => pte'[p][g] = NoPage
    BY <1>6, <1>13, <2>1, <2>4, Zenon
  <2>6. \A g \in Pages : g >= vm_end'[p] - op'[p].n => pte'[p][g] = NoPage
    <3>1. (v + n) - n = v
        BY <1>2
    <3>2. vm_end'[p] - op'[p].n = v
        BY <1>6, <2>4, <3>1, Zenon
    <3> QED
        BY <1>13, <2>4, <3>2, Zenon
  <2>7. op'[p].n <= vm_end'[p] /\ Len(op'[p].frames) <= op'[p].n
    BY <1>6, <2>2, <2>4, Zenon
  <2> QED
    BY <2>3, <2>4, <2>5, <2>6, <2>7, Zenon DEF Area, Pages, NoPage
<1>15. Accessed(p)'
    BY <1>4, <1>6 DEF Accessed
<1>16. ram' = ram /\ swp' = swp
    BY <1>1 DEF devVars
<1> QED
    BY <1>1, <1>8, <1>9, <1>10, <1>11, <1>12, <1>14, <1>15, <1>16, QuietStep,
       Zenon

\* pg_getpage chooses the oldest page as victim.
LEMMA FaultVictimPgInv ==
    ASSUME PgInv, NEW p \in Procs, FaultVictim(p)
    PROVE  PgInv'
<1> DEFINE l == fifo_pgn[p]
           o == [pc |-> "evict", kind |-> op[p].kind, pgn |-> op[p].pgn, vic |-> Last(l)]
<1>1. /\ TypeOK /\ op[p].pc = "fault" /\ l # << >>
      /\ Fifo(p) /\ Area(p) /\ Accessed(p)
      /\ pte' = pte /\ vm_end' = vm_end /\ devVars' = devVars
      /\ mmvm_lock' = mmvm_lock /\ vm_Lock' = vm_Lock
      /\ fifo_pgn' = [fifo_pgn EXCEPT ![p] = Front(l)]
      /\ op' = [op EXCEPT ![p] = o]
    BY Zenon DEF FaultVictim, Do, PgInv, Local, locks
<1>2. /\ Last(l) \in Pages /\ Front(l) \in Seq(Pages) /\ Last(l) \in ListSet(l)
      /\ NoRepeat(Front(l)) /\ ListSet(Front(l)) = ListSet(l) \ {Last(l)}
  <2>1. l \in Seq(Pages) /\ NoRepeat(l)
    BY <1>1, Zenon DEF TypeOK, Fifo
  <2> HIDE DEF l
  <2> QED
    BY <1>1, <2>1, ListSetOfFront, Zenon
<1>3. o \in OpSet /\ o.pc = "evict" /\ o.pgn = op[p].pgn /\ o.vic = Last(l)
    BY <1>1, <1>2, OpFields, Zenon DEF OpSet
<1> HIDE DEF o
<1>4. /\ op'[p] = o /\ fifo_pgn'[p] = Front(l)
      /\ \A q \in Procs \ {p} : op'[q] = op[q] /\ fifo_pgn'[q] = fifo_pgn[q]
    BY <1>1, Zenon DEF TypeOK
<1>5. op' \in [Procs -> OpSet] /\ fifo_pgn' \in [Procs -> Seq(Pages)]
    BY <1>1, <1>2, <1>3, Zenon DEF TypeOK
<1>6. TypeOK'
    BY <1>1, <1>5, Zenon DEF TypeOK, devVars
<1>7. \A q \in Procs \ {p} : Untouched(q)
    BY <1>1, <1>4, Zenon DEF Untouched
<1>8. InFlight(p) = {}
    BY <1>1, InFlightOf, Zenon
<1>9. InFlight(p)' = {}
    BY <1>3, <1>4, InFlightOfPrime, Zenon
<1>10. \A g \in ListSet(l) : pte[p][g].where = "ram"
    BY <1>1, Zenon DEF Fifo
<1> HIDE DEF l
<1>11. Fifo(p)'
  <2>1. NoRepeat(fifo_pgn[p])'
    BY <1>2, <1>4, Zenon DEF NoRepeat
  <2>2. ListSet(fifo_pgn[p])' = ListSet(l) \ {Last(l)}
    BY <1>2, <1>4, Zenon DEF ListSet
  <2> QED
    BY <1>1, <1>2, <1>3, <1>4, <1>10, <2>1, <2>2, Zenon DEF Fifo
<1>12. Area(p)'
    BY <1>1, <1>3, <1>4, Zenon DEF Area, Pages, NoPage
<1>13. Accessed(p)'
    BY <1>1, <1>3, <1>4, Zenon DEF Accessed
<1>14. ram' = ram /\ swp' = swp
    BY <1>1, Zenon DEF devVars
<1> QED
    BY <1>1, <1>6, <1>7, <1>8, <1>9, <1>11, <1>12, <1>13, <1>14, QuietStep, Zenon
-----------------------------------------------------------------------------
(* Steps that move frames.                                                 *)

\* A step of p that leaves the page table alone and its area, too.
LEMMA FramesStep ==
    ASSUME PgInv, NEW p \in Procs, \A q \in Procs \ {p} : Untouched(q),
           swp' = swp, pte' = pte, TypeOK',
           InFlight(p)' \cap MappedFrames(p) = {},
           \A new : /\ new[p] = MappedFrames(p) \cup InFlight(p)'
                    /\ \A q \in Procs \ {p} : new[q] = ramOwn[q]
                    => Owners(ram', RamFrames, Procs, new),
           Fifo(p)', Area(p)', Accessed(p)'
    PROVE  PgInv'
<1>1. MappedFrames(p)' = MappedFrames(p) /\ SwapFramesOf(p)' = SwapFramesOf(p)
    BY Zenon DEF MappedFrames, SwapFramesOf, Pages
<1>2. Placed(p)
    BY Zenon DEF PgInv, Local
<1>3. Placed(p)'
    BY <1>1, <1>2, Zenon DEF Placed, SamePlace, Pages
<1>4. Local(p)'
    BY <1>3, Zenon DEF Local
<1>5. \A q \in Procs : swpOwn'[q] = swpOwn[q]
    BY <1>1, OwnOf, UntouchedOwn, Zenon
<1>6. Owners(swp', SwapFrames, Procs, swpOwn')
    BY <1>5, OwnersSame, Zenon DEF PgInv
<1>7. ramOwn'[p] = MappedFrames(p) \cup InFlight(p)'
    BY <1>1, OwnOf, Zenon
<1>8. \A q \in Procs \ {p} : ramOwn'[q] = ramOwn[q]
    BY UntouchedOwn, Zenon
<1>9. Owners(ram', RamFrames, Procs, ramOwn')
    BY <1>7, <1>8, Zenon
<1> QED
    BY <1>4, <1>6, <1>9, StepOf, Zenon

\* Types after a step that changes RAM's lists and p's operation.
LEMMA RamType ==
    ASSUME TypeOK, NEW p \in Procs, NEW o \in OpSet, op' = [op EXCEPT ![p] = o],
           ram' \in Device(RamFrames),
           UNCHANGED <<swp, ramData, swpData, mmVars, locks>>
    PROVE  TypeOK'
<1>1. op' \in [Procs -> OpSet]
    BY DEF TypeOK
<1>2. pte' = pte /\ fifo_pgn' = fifo_pgn /\ vm_end' = vm_end
    BY DEF mmVars
<1>3. mmvm_lock' = mmvm_lock /\ vm_Lock' = vm_Lock
    BY Zenon DEF locks
<1> QED
    BY <1>1, <1>2, <1>3, Zenon DEF TypeOK, Device

\* The frame at the head of RAM's free list: nobody has it, and p may.
LEMMA TakeRam ==
    ASSUME PgInv, NEW p \in Procs, HasFree(ram)
    PROVE  /\ NextFree(ram) \in RamFrames
           /\ NextFree(ram) \notin MappedFrames(p) \cup InFlight(p)
           /\ Popped(ram) \in Device(RamFrames)
           /\ \A new : /\ new[p] = ramOwn[p] \cup {NextFree(ram)}
                       /\ \A q \in Procs \ {p} : new[q] = ramOwn[q]
                       => Owners(Popped(ram), RamFrames, Procs, new)
<1> DEFINE h == NextFree(ram)
           new == [q \in Procs |-> IF q = p THEN ramOwn[p] \cup {h} ELSE ramOwn[q]]
<1>1. Owners(ram, RamFrames, Procs, ramOwn)
    BY Zenon DEF PgInv
<1>2. new[p] = ramOwn[p] \cup {h} /\ \A q \in Procs \ {p} : new[q] = ramOwn[q]
    BY Zenon
<1> HIDE DEF new
<1>3. /\ h \in RamFrames /\ \A q \in Procs : h \notin ramOwn[q]
      /\ Owners(Popped(ram), RamFrames, Procs, new)
    BY <1>1, <1>2, OwnersPop
<1>4. Popped(ram) \in Device(RamFrames)
    BY <1>3, Zenon DEF Owners
<1>5. h \notin MappedFrames(p) \cup InFlight(p)
    BY <1>3, OwnOf, Zenon
<1>6. \A w : /\ w[p] = ramOwn[p] \cup {h}
             /\ \A q \in Procs \ {p} : w[q] = ramOwn[q]
             => Owners(Popped(ram), RamFrames, Procs, w)
    BY <1>1, OwnersPop
<1> QED
    BY <1>3, <1>4, <1>5, <1>6

\* alloc_pages_range takes a frame.
LEMMA AllocFramePgInv ==
    ASSUME PgInv, NEW p \in Procs, AllocFrame(p)
    PROVE  PgInv'
<1> DEFINE h == NextFree(ram)
           l == op[p].frames
           o == [op[p] EXCEPT !.frames = Append(l, h)]
<1>1. /\ TypeOK /\ op[p].pc = "grab" /\ Len(l) < op[p].n /\ HasFree(ram)
      /\ ram' = Popped(ram) /\ op' = [op EXCEPT ![p] = o]
      /\ UNCHANGED <<swp, ramData, swpData, mmVars, locks>>
      /\ Placed(p) /\ Fifo(p) /\ Area(p)
    BY Zenon DEF AllocFrame, Do, PgInv, Local
<1>2. op[p] \in [pc : {"grab", "undo"}, n : 1 .. MaxPages, frames : Seq(RamFrames)]
    BY <1>1, OpFields
<1>3. InFlight(p) = ListSet(l)
    BY <1>1, InFlightOf, Zenon
<1>4. /\ h \in RamFrames /\ h \notin MappedFrames(p) /\ h \notin ListSet(l)
      /\ Popped(ram) \in Device(RamFrames)
    BY <1>1, <1>3, TakeRam, Zenon
<1>5. l \in Seq(RamFrames) /\ NoRepeat(l) /\ Len(l) \in Nat /\ op[p].n \in Nat
    BY <1>1, <1>2 DEF Area
<1>6. /\ Append(l, h) \in Seq(RamFrames) /\ Len(Append(l, h)) = Len(l) + 1
      /\ NoRepeat(Append(l, h)) /\ ListSet(Append(l, h)) = ListSet(l) \cup {h}
    BY <1>4, <1>5, ListSetOfAppend
<1>7. o \in OpSet /\ o.pc = "grab" /\ o.n = op[p].n /\ o.frames = Append(l, h)
    BY <1>1, <1>2, <1>6, Zenon DEF OpSet
<1>8. TypeOK'
    BY <1>1, <1>4, <1>7, RamType, Zenon
<1>9. pte' = pte /\ fifo_pgn' = fifo_pgn /\ vm_end' = vm_end
    BY <1>1, Zenon DEF mmVars
<1> HIDE DEF o, l, h
<1>10. op'[p] = o /\ \A q \in Procs \ {p} : op'[q] = op[q]
    BY <1>1, Zenon DEF TypeOK
<1>11. \A q \in Procs \ {p} : Untouched(q)
    BY <1>9, <1>10 DEF Untouched
<1>12. InFlight(p)' = ListSet(l) \cup {h}
    BY <1>6, <1>7, <1>10, InFlightOfPrime, Zenon
<1>13. InFlight(p)' \cap MappedFrames(p) = {}
    BY <1>1, <1>3, <1>4, <1>12, Zenon DEF Placed
<1>14. \A new : /\ new[p] = MappedFrames(p) \cup InFlight(p)'
                /\ \A q \in Procs \ {p} : new[q] = ramOwn[q]
                => Owners(ram', RamFrames, Procs, new)
  <2>1. MappedFrames(p) \cup InFlight(p)' = ramOwn[p] \cup {h}
    BY <1>3, <1>12, OwnOf, Zenon
  <2> QED
    BY <1>1, <2>1, TakeRam, Zenon DEF h
<1>15. Fifo(p)'
    BY <1>1, <1>7, <1>9, <1>10, Zenon DEF Fifo
<1>16. Area(p)'
  <2>1. NoRepeat(op[p].frames)'
    BY <1>6, <1>7, <1>10, Zenon DEF NoRepeat
  <2>2. Len(op'[p].frames) <= op'[p].n
    BY <1>1, <1>5, <1>6, <1>7, <1>10
  <2> QED
    BY <1>1, <1>7, <1>9, <1>10, <2>1, <2>2, Zenon DEF Area, Pages, NoPage
<1>17. Accessed(p)'
    BY <1>7, <1>10, Zenon DEF Accessed
<1> QED
    BY <1>1, <1>8, <1>9, <1>11, <1>13, <1>14, <1>15, <1>16, <1>17, FramesStep,
       Zenon

\* pg_getpage takes a free frame.
LEMMA FaultFramePgInv ==
    ASSUME PgInv, NEW p \in Procs, FaultFrame(p)
    PROVE  PgInv'
<1> DEFINE h == NextFree(ram)
           o == [pc |-> "fill", kind |-> op[p].kind, pgn |-> op[p].pgn, tgt |-> h]
<1>1. /\ TypeOK /\ op[p].pc = "fault" /\ HasFree(ram)
      /\ ram' = Popped(ram) /\ op' = [op EXCEPT ![p] = o]
      /\ UNCHANGED <<swp, ramData, swpData, mmVars, locks>>
      /\ Fifo(p) /\ Area(p) /\ Accessed(p)
    BY Zenon DEF FaultFrame, Do, PgInv, Local
<1>2. InFlight(p) = {}
    BY <1>1, InFlightOf, Zenon
<1>3. h \in RamFrames /\ h \notin MappedFrames(p) /\ Popped(ram) \in Device(RamFrames)
    BY <1>1, TakeRam, Zenon
<1>4. o \in OpSet /\ o.pc = "fill" /\ o.pgn = op[p].pgn /\ o.tgt = h
    BY <1>1, <1>3, OpFields, Zenon DEF OpSet
<1>5. TypeOK'
    BY <1>1, <1>3, <1>4, RamType, Zenon
<1>6. pte' = pte /\ fifo_pgn' = fifo_pgn /\ vm_end' = vm_end
    BY <1>1, Zenon DEF mmVars
<1> HIDE DEF o, h
<1>7. op'[p] = o /\ \A q \in Procs \ {p} : op'[q] = op[q]
    BY <1>1, Zenon DEF TypeOK
<1>8. \A q \in Procs \ {p} : Untouched(q)
    BY <1>6, <1>7 DEF Untouched
<1>9. InFlight(p)' = {h}
    BY <1>4, <1>7, InFlightOfPrime, Zenon
<1>10. \A new : /\ new[p] = MappedFrames(p) \cup InFlight(p)'
                /\ \A q \in Procs \ {p} : new[q] = ramOwn[q]
                => Owners(ram', RamFrames, Procs, new)
  <2>1. MappedFrames(p) \cup InFlight(p)' = ramOwn[p] \cup {h}
    BY <1>2, <1>9, OwnOf, Zenon
  <2> QED
    BY <1>1, <2>1, TakeRam, Zenon DEF h
<1>11. Fifo(p)'
    BY <1>1, <1>4, <1>6, <1>7, Zenon DEF Fifo
<1>12. Area(p)'
    BY <1>1, <1>4, <1>6, <1>7, Zenon DEF Area, Pages, NoPage
<1>13. Accessed(p)'
    BY <1>1, <1>4, <1>6, <1>7, Zenon DEF Accessed
<1> QED
    BY <1>1, <1>3, <1>5, <1>6, <1>8, <1>9, <1>10, <1>11, <1>12, <1>13, FramesStep, Zenon

\* A frame goes back to the free list.
LEMMA UndoFramePgInv ==
    ASSUME PgInv, NEW p \in Procs, UndoFrame(p)
    PROVE  PgInv'
<1> DEFINE l == op[p].frames
           e == Head(l)
           o == [op[p] EXCEPT !.frames = Tail(l)]
<1>1. /\ TypeOK /\ op[p].pc = "undo" /\ l # << >>
      /\ ram' = MEMPHY_put_freefp(ram, e) /\ op' = [op EXCEPT ![p] = o]
      /\ UNCHANGED <<swp, ramData, swpData, mmVars, locks>>
      /\ Placed(p) /\ Fifo(p) /\ Area(p)
    BY DEF UndoFrame, Do, PgInv, Local
<1>2. op[p] \in [pc : {"grab", "undo"}, n : 1 .. MaxPages, frames : Seq(RamFrames)]
    BY <1>1, OpFields, Zenon
<1>3. InFlight(p) = ListSet(l)
    BY <1>1, InFlightOf, Zenon
<1>4. l \in Seq(RamFrames) /\ NoRepeat(l) /\ op[p].n \in Nat /\ Len(l) <= op[p].n
    BY <1>1, <1>2 DEF Area
<1>5. /\ Tail(l) \in Seq(RamFrames) /\ e \in ListSet(l)
      /\ NoRepeat(Tail(l)) /\ ListSet(Tail(l)) = ListSet(l) \ {e}
    BY <1>1, <1>4, ListSetOfTail, Zenon
<1>6. Len(Tail(l)) <= op[p].n
    BY <1>1, <1>4
<1>7. o \in OpSet /\ o.pc = "undo" /\ o.n = op[p].n /\ o.frames = Tail(l)
    BY <1>1, <1>2, <1>5, Zenon DEF OpSet
<1>8. \A new : /\ new[p] = ramOwn[p] \ {e}
               /\ \A q \in Procs \ {p} : new[q] = ramOwn[q]
               => Owners(ram', RamFrames, Procs, new)
  <2>1. e \in ramOwn[p]
    BY <1>3, <1>5, OwnOf
  <2> HIDE DEF e
  <2> QED
    BY <1>1, <2>1, OwnersPut DEF PgInv
<1> HIDE DEF o, l, e
<1>9. ram' \in Device(RamFrames)
  <2> DEFINE new == [q \in Procs |-> IF q = p THEN ramOwn[p] \ {e} ELSE ramOwn[q]]
  <2>1. new[p] = ramOwn[p] \ {e} /\ \A q \in Procs \ {p} : new[q] = ramOwn[q]
    BY Zenon
  <2> HIDE DEF new
  <2>2. Owners(ram', RamFrames, Procs, new)
    BY <1>8, <2>1
  <2> QED
    BY <2>2 DEF Owners
<1>10. TypeOK'
    BY <1>1, <1>7, <1>9, RamType, Zenon
<1>11. pte' = pte /\ fifo_pgn' = fifo_pgn /\ vm_end' = vm_end
    BY <1>1, Zenon DEF mmVars
<1>12. op'[p] = o /\ \A q \in Procs \ {p} : op'[q] = op[q]
    BY <1>1, Zenon DEF TypeOK
<1>13. \A q \in Procs \ {p} : Untouched(q)
    BY <1>11, <1>12 DEF Untouched
<1>14. InFlight(p)' = ListSet(l) \ {e}
    BY <1>5, <1>7, <1>12, InFlightOfPrime, Zenon
<1>15. InFlight(p)' \cap MappedFrames(p) = {}
    BY <1>1, <1>3, <1>14, Zenon DEF Placed
<1>16. \A new : /\ new[p] = MappedFrames(p) \cup InFlight(p)'
                /\ \A q \in Procs \ {p} : new[q] = ramOwn[q]
                => Owners(ram', RamFrames, Procs, new)
  <2>1. MappedFrames(p) \cup InFlight(p)' = ramOwn[p] \ {e}
    BY <1>1, <1>3, <1>5, <1>14, OwnOf, Zenon DEF Placed
  <2> QED
    BY <1>8, <2>1, Zenon
<1>17. Fifo(p)'
    BY <1>1, <1>7, <1>11, <1>12, Zenon DEF Fifo
<1>18. Area(p)'
  <2>1. NoRepeat(op[p].frames)'
    BY <1>5, <1>7, <1>12, Zenon DEF NoRepeat
  <2>2. Len(op'[p].frames) <= op'[p].n
    BY <1>6, <1>7, <1>12, Zenon
  <2> QED
    BY <1>1, <1>7, <1>11, <1>12, <2>1, <2>2, Zenon DEF Area, Pages, NoPage
<1>19. Accessed(p)'
    BY <1>7, <1>12, Zenon DEF Accessed
<1> QED
    BY <1>1, <1>10, <1>11, <1>13, <1>15, <1>16, <1>17, <1>18, <1>19, FramesStep, Zenon
-----------------------------------------------------------------------------
(* Steps that change the page table.  A page table entry can hold every    *)
(* frame number.                                                           *)

\* With few enough frames an entry names the frame it was set to: the 13
\* bits of PAGING_PTE_FPN lose nothing.
LEMMA InRamOf ==
    ASSUME NumRam <= FpnLimit, NEW f \in RamFrames
    PROVE  InRam(f).where = "ram" /\ InRam(f).fpn = f /\ InRam(f) \in PteSet
<1>1. NumRam \in Nat /\ FpnLimit \in Nat \ {0}
    BY PagingAssumption
<1>2. f \in Nat /\ f < FpnLimit
    BY <1>1 DEF RamFrames
<1>3. f % FpnLimit = f
    BY <1>1, <1>2
<1> QED
    BY <1>3, Zenon DEF InRam, PteSet

\* The fields of an entry.
LEMMA EntryOf ==
    ASSUME TypeOK, NEW p \in Procs, NEW g \in Pages
    PROVE  /\ pte[p][g] \in PteSet
           /\ pte[p][g].where = "ram" => pte[p][g].fpn \in RamFrames
           /\ pte[p][g].where = "swap" => pte[p][g].swpfpn \in SwapFrames
<1>1. pte[p][g] \in PteSet
    BY DEF TypeOK
<1> QED
    BY <1>1, Zenon DEF PteSet

\* The place of page g in the list of new frames.
LEMMA PlaceOfPage ==
    ASSUME NEW v \in Nat, NEW n \in Nat, n <= v
    PROVE  /\ \A g \in v - n .. v - 1 : g - (v - n) + 1 \in 1 .. n
           /\ \A k \in 1 .. n : /\ (v - n) + (k - 1) \in v - n .. v - 1
                                /\ ((v - n) + (k - 1)) - (v - n) + 1 = k
           /\ \A g, h \in v - n .. v - 1 :
                  g - (v - n) + 1 = h - (v - n) + 1 => g = h
    OBVIOUS

\* The entries of p after vmap_page_range.
LEMMA MapFramesEntries ==
    ASSUME PgInv, NumRam <= FpnLimit, NEW p \in Procs, MapFrames(p)
    PROVE  LET l == op[p].frames
               n == op[p].n
               v == vm_end[p]
               New == v - n .. v - 1
           IN  /\ v \in Nat /\ n \in Nat /\ n <= v /\ New \subseteq Pages
               /\ l \in Seq(RamFrames) /\ NoRepeat(l) /\ Len(l) = n
               /\ \A g \in New : pte[p][g] = NoPage
               /\ \A g \in New : /\ l[g - (v - n) + 1] \in RamFrames
                                 /\ pte'[p][g].where = "ram"
                                 /\ pte'[p][g].fpn = l[g - (v - n) + 1]
               /\ \A g \in Pages \ New : pte'[p][g] = pte[p][g]
               /\ \A q \in Procs \ {p} : pte'[q] = pte[q]
               /\ pte' \in [Procs -> [Pages -> PteSet]]
<1> DEFINE l == op[p].frames
           n == op[p].n
           v == vm_end[p]
           New == v - n .. v - 1
           t == [g \in Pages |-> IF g \in New THEN InRam(l[g - (v - n) + 1])
                                              ELSE pte[p][g]]
<1>1. TypeOK /\ Area(p) /\ op[p].pc = "grab" /\ Len(l) = n
    BY Zenon DEF PgInv, Local, MapFrames
<1>2. pte' = [pte EXCEPT ![p] = t]
    BY Zenon DEF MapFrames
<1>3. op[p] \in [pc : {"grab", "undo"}, n : 1 .. MaxPages, frames : Seq(RamFrames)]
    BY <1>1, OpFields, Zenon
<1>4. l \in Seq(RamFrames) /\ n \in Nat /\ NoRepeat(l) /\ n <= v
    BY <1>1, <1>3 DEF Area
<1>5. v \in 0 .. MaxPages /\ MaxPages \in Nat /\ pte \in [Procs -> [Pages -> PteSet]]
    BY <1>1, PagingAssumption, Zenon DEF TypeOK
<1>6. \A g \in Pages : g >= v - n => pte[p][g] = NoPage
    BY <1>1, Zenon DEF Area
<1> HIDE DEF l, n, v
<1>7. New \subseteq Pages /\ \A g \in New : g >= v - n
    BY <1>4, <1>5 DEF Pages
<1>8. \A g \in New : g - (v - n) + 1 \in 1 .. n
    BY <1>4, <1>5, PlaceOfPage
<1> HIDE DEF New
<1>9. \A g \in New : l[g - (v - n) + 1] \in RamFrames
    BY <1>1, <1>4, <1>8
<1>10. \A g \in New : /\ t[g].where = "ram" /\ t[g].fpn = l[g - (v - n) + 1]
                        /\ t[g] \in PteSet
    BY <1>7, <1>9, InRamOf, Zenon
<1>11. \A g \in Pages \ New : t[g] = pte[p][g] /\ t[g] \in PteSet
    BY <1>5
<1>12. t \in [Pages -> PteSet]
    BY <1>10, <1>11, Zenon
<1> HIDE DEF t
<1>13. pte'[p] = t /\ \A q \in Procs \ {p} : pte'[q] = pte[q]
    BY <1>2, <1>5, Zenon
<1>14. pte' \in [Procs -> [Pages -> PteSet]]
    BY <1>2, <1>5, <1>12, Zenon
<1>15. /\ v \in Nat /\ n \in Nat /\ n <= v /\ New \subseteq Pages
       /\ l \in Seq(RamFrames) /\ NoRepeat(l) /\ Len(l) = n
    BY <1>1, <1>4, <1>5, <1>7
<1>16. \A g \in New : pte[p][g] = NoPage
    BY <1>6, <1>7, Zenon
<1>17. /\ \A g \in New : /\ l[g - (v - n) + 1] \in RamFrames
                         /\ pte'[p][g].where = "ram"
                         /\ pte'[p][g].fpn = l[g - (v - n) + 1]
       /\ \A g \in Pages \ New : pte'[p][g] = pte[p][g]
    BY <1>9, <1>10, <1>11, <1>13, Zenon
<1> QED
    BY <1>13, <1>14, <1>15, <1>16, <1>17, Zenon DEF New, l, n, v

\* The frames that p had taken are now those of its new pages.
LEMMA MapFramesOwn ==
    ASSUME PgInv, NumRam <= FpnLimit, NEW p \in Procs, MapFrames(p)
    PROVE  /\ MappedFrames(p)' = MappedFrames(p) \cup ListSet(op[p].frames)
           /\ SwapFramesOf(p)' = SwapFramesOf(p)
           /\ \A g, h \in Pages : SamePlace(pte'[p][g], pte'[p][h]) => g = h
<1> DEFINE l == op[p].frames
           n == op[p].n
           v == vm_end[p]
           New == v - n .. v - 1
           at(g) == g - (v - n) + 1
<1>1. /\ v \in Nat /\ n \in Nat /\ n <= v /\ New \subseteq Pages
      /\ l \in Seq(RamFrames) /\ NoRepeat(l) /\ Len(l) = n
      /\ \A g \in New : pte[p][g] = NoPage
      /\ \A g \in New : pte'[p][g].where = "ram" /\ pte'[p][g].fpn = l[at(g)]
      /\ \A g \in Pages \ New : pte'[p][g] = pte[p][g]
    BY MapFramesEntries
<1>2. /\ \A g \in New : at(g) \in 1 .. n
      /\ \A k \in 1 .. n : (v - n) + (k - 1) \in New /\ at((v - n) + (k - 1)) = k
      /\ \A g, h \in New : at(g) = at(h) => g = h
    BY <1>1, PlaceOfPage, Zenon
<1>3. Placed(p) /\ InFlight(p) = ListSet(l)
    BY InFlightOf, Zenon DEF PgInv, Local, MapFrames
<1>4. ListSet(l) = {l[k] : k \in 1 .. n} /\ \A j, k \in 1 .. n : l[j] = l[k] => j = k
    BY <1>1 DEF ListSet, NoRepeat
<1> HIDE DEF l, n, v, New, at
<1>5. \A g \in New : pte'[p][g].where = "ram" /\ pte'[p][g].fpn = l[at(g)]
    BY <1>1, Zenon
<1>6. \A g \in New : pte[p][g].where = "none"
    BY <1>1 DEF NoPage
<1>7. MappedFrames(p)' = MappedFrames(p) \cup ListSet(l)
  <2>1. MappedFrames(p)' =
            {pte'[p][g].fpn : g \in {h \in Pages : pte'[p][h].where = "ram"}}
    BY Zenon DEF MappedFrames, Pages
  <2>2. ASSUME NEW g \in Pages, pte'[p][g].where = "ram"
        PROVE  pte'[p][g].fpn \in MappedFrames(p) \cup ListSet(l)
    <3>1. CASE g \in New
        BY <1>2, <1>4, <1>5, <3>1, Zenon
    <3>2. CASE g \notin New
        BY <1>1, <2>2, <3>2, Zenon DEF MappedFrames
    <3> QED
        BY <3>1, <3>2, Zenon
  <2>3. ASSUME NEW f \in MappedFrames(p) PROVE f \in MappedFrames(p)'
    <3>1. PICK g \in Pages : pte[p][g].where = "ram" /\ f = pte[p][g].fpn
        BY Zenon DEF MappedFrames
    <3>2. g \notin New
        BY <1>6, <3>1, Zenon
    <3> QED
        BY <1>1, <2>1, <3>1, <3>2, Zenon
  <2>4. ASSUME NEW f \in ListSet(l) PROVE f \in MappedFrames(p)'
    <3>1. PICK k \in 1 .. n : f = l[k]
        BY <1>4, Zenon
    <3>2. PICK g \in New : at(g) = k
        BY <1>2, Zenon
    <3> QED
        BY <1>1, <1>5, <2>1, <3>1, <3>2, Zenon
  <2> QED
    BY <2>1, <2>2, <2>3, <2>4, Zenon
<1>8. SwapFramesOf(p)' = SwapFramesOf(p)
  <2>1. SwapFramesOf(p)' =
            {pte'[p][g].swpfpn : g \in {h \in Pages : pte'[p][h].where = "swap"}}
    BY Zenon DEF SwapFramesOf, Pages
  <2>2. \A g \in Pages : /\ pte'[p][g].where = "swap" <=> pte[p][g].where = "swap"
                         /\ pte[p][g].where = "swap" => pte'[p][g] = pte[p][g]
    BY <1>1, <1>5, <1>6, Zenon
  <2> QED
    BY <2>1, <2>2, Zenon DEF SwapFramesOf
<1>9. ASSUME NEW g \in Pages, NEW h \in Pages, SamePlace(pte'[p][g], pte'[p][h])
      PROVE  g = h
  <2>1. CASE g \in New /\ h \in New
    BY <1>2, <1>4, <1>5, <1>9, <2>1 DEF SamePlace
  <2>2. CASE g \notin New /\ h \notin New
    BY <1>1, <1>3, <1>9, <2>2, Zenon DEF Placed
  <2>3. ASSUME NEW i \in New, NEW j \in Pages \ New, SamePlace(pte'[p][i], pte'[p][j])
                                                  \/ SamePlace(pte'[p][j], pte'[p][i])
        PROVE  FALSE
    <3>1. pte[p][j].where = "ram" /\ pte[p][j].fpn = l[at(i)]
        BY <1>1, <1>5, <2>3, Zenon DEF SamePlace
    <3>2. l[at(i)] \in ListSet(l) /\ pte[p][j].fpn \in MappedFrames(p)
        BY <1>2, <1>4, <3>1, Zenon DEF MappedFrames
    <3> QED
        BY <1>3, <3>1, <3>2, Zenon DEF Placed
  <2> QED
    BY <1>9, <2>1, <2>2, <2>3, Zenon
<1> QED
    BY <1>7, <1>8, <1>9, Zenon DEF l

\* The FIFO after vmap_page_range.
LEMMA MapFramesFifo ==
    ASSUME PgInv, NumRam <= FpnLimit, NEW p \in Procs, MapFrames(p)
    PROVE  /\ fifo_pgn' \in [Procs -> Seq(Pages)]
           /\ \A q \in Procs \ {p} : fifo_pgn'[q] = fifo_pgn[q]
           /\ NoRepeat(fifo_pgn'[p])
           /\ \A g \in ListSet(fifo_pgn'[p]) : pte'[p][g].where = "ram"
<1> DEFINE n == op[p].n
           v == vm_end[p]
           New == v - n .. v - 1
           s == fifo_pgn[p]
           l == CountDown(v, n) \o s
<1>1. /\ v \in Nat /\ n \in Nat /\ n <= v /\ New \subseteq Pages
      /\ \A g \in New : pte[p][g] = NoPage
      /\ \A g \in New : pte'[p][g].where = "ram"
      /\ \A g \in Pages \ New : pte'[p][g] = pte[p][g]
    BY MapFramesEntries
<1>2. /\ fifo_pgn \in [Procs -> Seq(Pages)] /\ NoRepeat(s)
      /\ \A g \in ListSet(s) : pte[p][g].where = "ram"
    BY Zenon DEF PgInv, TypeOK, Local, Fifo
<1>3. fifo_pgn' = [fifo_pgn EXCEPT ![p] = l]
    BY Zenon DEF MapFrames, CountDown
<1>4. s \in Seq(Pages) /\ Pages \in SUBSET Nat
    BY <1>2, PagingAssumption DEF Pages
<1>5. ListSet(s) \subseteq Pages
    BY <1>4 DEF ListSet
<1> HIDE DEF s, n, v
<1>6. v - n .. v - 1 \subseteq Pages \ ListSet(s)
    BY <1>1, <1>2 DEF NoPage
<1>7. l \in Seq(Pages) /\ NoRepeat(l) /\ ListSet(l) = ListSet(s) \cup New
  <2>1. /\ Pages \in SUBSET Nat /\ s \in Seq(Pages) /\ NoRepeat(s)
        /\ v \in Nat /\ n \in Nat /\ n <= v
    BY <1>1, <1>2, <1>4, Zenon
  <2>2. /\ CountDown(v, n) \o s \in Seq(Pages) /\ NoRepeat(CountDown(v, n) \o s)
        /\ ListSet(CountDown(v, n) \o s) = ListSet(s) \cup (v - n .. v - 1)
    BY <1>6, <2>1, ListSetOfCount, SMTT(40)
  <2> QED
    BY <2>2, Zenon
<1> HIDE DEF l, New
<1>8. fifo_pgn' \in [Procs -> Seq(Pages)]
    BY <1>2, <1>3, <1>7, Zenon
<1>9. fifo_pgn'[p] = l /\ \A q \in Procs \ {p} : fifo_pgn'[q] = fifo_pgn[q]
    BY <1>2, <1>3, Zenon
<1>10. \A g \in ListSet(l) : pte'[p][g].where = "ram"
    BY <1>1, <1>2, <1>5, <1>7, Zenon
<1> QED
    BY <1>7, <1>8, <1>9, <1>10, Zenon

\* vmap_page_range maps the frames that were taken.
LEMMA MapFramesPgInv ==
    ASSUME PgInv, NumRam <= FpnLimit, NEW p \in Procs, MapFrames(p)
    PROVE  PgInv'
<1>1. /\ TypeOK /\ op[p].pc = "grab" /\ Area(p) /\ devVars' = devVars /\ vm_end' = vm_end
      /\ Return(p)
    BY Zenon DEF PgInv, Local, MapFrames
<1>2. /\ pte' \in [Procs -> [Pages -> PteSet]]
      /\ \A q \in Procs \ {p} : pte'[q] = pte[q]
      /\ \A g \in Pages \ (vm_end[p] - op[p].n .. vm_end[p] - 1) : pte'[p][g] = pte[p][g]
    BY MapFramesEntries, Zenon
<1>3. /\ fifo_pgn' \in [Procs -> Seq(Pages)]
      /\ \A q \in Procs \ {p} : fifo_pgn'[q] = fifo_pgn[q]
      /\ NoRepeat(fifo_pgn'[p]) /\ \A g \in ListSet(fifo_pgn'[p]) : pte'[p][g].where = "ram"
    BY MapFramesFifo, Zenon
<1>4. /\ op' = [op EXCEPT ![p] = Idle]
      /\ mmvm_lock' \in {mmvm_lock, p, NOBODY} /\ vm_Lock' \in {vm_Lock, p, NOBODY}
    BY <1>1, LocksReturned, Zenon DEF Do
<1>5. op'[p] = Idle /\ \A q \in Procs \ {p} : op'[q] = op[q]
    BY <1>1, <1>4, Zenon DEF TypeOK
<1>6. Idle \in OpSet /\ Idle.pc = "idle"
    BY Zenon DEF Idle, OpSet
<1>7. op' \in [Procs -> OpSet]
    BY <1>1, <1>4, <1>6, Zenon DEF TypeOK
<1>8. mmvm_lock' \in Procs \cup {NOBODY} /\ vm_Lock' \in Procs \cup {NOBODY}
    BY <1>1, <1>4 DEF TypeOK
<1>9. TypeOK'
    BY <1>1, <1>2, <1>3, <1>7, <1>8, Zenon DEF TypeOK, devVars
<1>10. \A q \in Procs \ {p} : Untouched(q)
    BY <1>1, <1>2, <1>3, <1>5, Zenon DEF Untouched
<1>11. InFlight(p) = ListSet(op[p].frames)
    BY <1>1, InFlightOf, Zenon
<1>12. InFlight(p)' = {}
    BY <1>5, <1>6, InFlightOfPrime, Zenon
<1>13. /\ MappedFrames(p)' = MappedFrames(p) \cup InFlight(p)
       /\ SwapFramesOf(p)' = SwapFramesOf(p)
       /\ \A g, h \in Pages : SamePlace(pte'[p][g], pte'[p][h]) => g = h
    BY <1>11, MapFramesOwn, Zenon
<1>14. Placed(p)'
    BY <1>12, <1>13, Zenon DEF Placed, SamePlace, Pages
<1>15. Fifo(p)'
    BY <1>3, <1>5, <1>6, Zenon DEF Fifo, NoRepeat, ListSet
<1>16. Area(p)'
  <2>1. \A g \in Pages : g >= vm_end[p] => g \notin vm_end[p] - op[p].n .. vm_end[p] - 1
    <3>1. vm_end[p] \in Nat
        BY <1>1, PagingAssumption DEF TypeOK
    <3> QED
        BY <3>1 DEF Pages
  <2>2. \A g \in Pages : g >= vm_end[p] => pte[p][g] = NoPage
    BY <1>1, Zenon DEF Area
  <2>3. \A g \in Pages : g >= vm_end'[p] => pte'[p][g] = NoPage
    BY <1>1, <1>2, <2>1, <2>2, Zenon
  <2> QED
    BY <1>5, <1>6, <2>3, Zenon DEF Area, Pages, NoPage
<1>17. Accessed(p)'
    BY <1>5, <1>6, Zenon DEF Accessed
<1>18. Local(p)'
    BY <1>14, <1>15, <1>16, <1>17, Zenon DEF Local
<1>19. \A q \in Procs : ramOwn'[q] = ramOwn[q] /\ swpOwn'[q] = swpOwn[q]
    BY <1>10, <1>12, <1>13, OwnOf, UntouchedOwn, Zenon
<1>20. ram' = ram /\ swp' = swp
    BY <1>1, Zenon DEF devVars
<1>21. Owners(ram', RamFrames, Procs, ramOwn')
    BY <1>19, <1>20, OwnersSame, Zenon DEF PgInv
<1>22. Owners(swp', SwapFrames, Procs, swpOwn')
    BY <1>19, <1>20, OwnersSame, Zenon DEF PgInv
<1> QED
    BY <1>9, <1>10, <1>18, <1>21, <1>22, StepOf, Zenon

\* A step that sets one entry of one process.
LEMMA OneEntry ==
    ASSUME TypeOK, NEW p \in Procs, NEW g \in Pages, NEW x \in PteSet,
           pte' = [pte EXCEPT ![p][g] = x]
    PROVE  /\ pte' \in [Procs -> [Pages -> PteSet]]
           /\ pte'[p][g] = x /\ \A h \in Pages \ {g} : pte'[p][h] = pte[p][h]
           /\ \A q \in Procs \ {p} : pte'[q] = pte[q]
    BY Zenon DEF TypeOK

\* A page goes from RAM to swap frame s.
LEMMA EntryToSwap ==
    ASSUME TypeOK, NEW p \in Procs, Placed(p), NEW g \in Pages, NEW s \in SwapFrames,
           pte[p][g].where = "ram", s \notin SwapFramesOf(p),
           pte' = [pte EXCEPT ![p][g] = InSwap(s)]
    PROVE  /\ MappedFrames(p)' = MappedFrames(p) \ {pte[p][g].fpn}
           /\ SwapFramesOf(p)' = SwapFramesOf(p) \cup {s}
           /\ \A h, i \in Pages : SamePlace(pte'[p][h], pte'[p][i]) => h = i
<1> DEFINE f == pte[p][g].fpn
           old == pte[p]
           new == pte'[p]
<1>1. InSwap(s) \in PteSet /\ InSwap(s).where = "swap" /\ InSwap(s).swpfpn = s
    BY DEF InSwap, PteSet
<1>2. /\ new[g].where = "swap" /\ new[g].swpfpn = s
      /\ \A h \in Pages \ {g} : new[h] = old[h]
    BY <1>1, OneEntry, Zenon
<1>3. \A h, i \in Pages : SamePlace(old[h], old[i]) => h = i
    BY Zenon DEF Placed
<1>4. /\ MappedFrames(p) = {old[h].fpn : h \in {i \in Pages : old[i].where = "ram"}}
      /\ MappedFrames(p)' = {new[h].fpn : h \in {i \in Pages : new[i].where = "ram"}}
    BY Zenon DEF MappedFrames, Pages
<1>5. /\ SwapFramesOf(p) = {old[h].swpfpn : h \in {i \in Pages : old[i].where = "swap"}}
      /\ SwapFramesOf(p)' = {new[h].swpfpn : h \in {i \in Pages : new[i].where = "swap"}}
    BY Zenon DEF SwapFramesOf, Pages
<1>6. old[g].where = "ram" /\ old[g].fpn = f
    BY Zenon
<1> HIDE DEF old, new, f
<1>7. \A h \in Pages \ {g} : old[h].where = "ram" => old[h].fpn # f
    BY <1>3, <1>6, Zenon DEF SamePlace
<1>8. MappedFrames(p)' = MappedFrames(p) \ {f}
    BY <1>2, <1>4, <1>6, <1>7
<1>9. SwapFramesOf(p)' = SwapFramesOf(p) \cup {s}
    BY <1>2, <1>5, <1>6
<1>10. \A h \in Pages \ {g} : old[h].where = "swap" => old[h].swpfpn # s
    BY <1>5, Zenon
<1>11. \A h, i \in Pages : SamePlace(new[h], new[i]) => h = i
    BY <1>2, <1>3, <1>10 DEF SamePlace
<1> QED
    BY <1>8, <1>9, <1>11, Zenon DEF f, new

\* A page that is not in RAM goes to frame f.
LEMMA EntryToRam ==
    ASSUME TypeOK, NumRam <= FpnLimit, NEW p \in Procs,
           \A h, i \in Pages : SamePlace(pte[p][h], pte[p][i]) => h = i,
           NEW g \in Pages, NEW f \in RamFrames,
           pte[p][g].where # "ram", f \notin MappedFrames(p),
           pte' = [pte EXCEPT ![p][g] = InRam(f)]
    PROVE  /\ MappedFrames(p)' = MappedFrames(p) \cup {f}
           /\ pte[p][g].where = "swap" =>
                  SwapFramesOf(p)' = SwapFramesOf(p) \ {pte[p][g].swpfpn}
           /\ pte[p][g].where # "swap" => SwapFramesOf(p)' = SwapFramesOf(p)
           /\ \A h, i \in Pages : SamePlace(pte'[p][h], pte'[p][i]) => h = i
<1> DEFINE old == pte[p]
           new == pte'[p]
<1>1. InRam(f) \in PteSet /\ InRam(f).where = "ram" /\ InRam(f).fpn = f
    BY InRamOf
<1>2. /\ new[g].where = "ram" /\ new[g].fpn = f
      /\ \A h \in Pages \ {g} : new[h] = old[h]
    BY <1>1, OneEntry, Zenon
<1>3. \A h, i \in Pages : SamePlace(old[h], old[i]) => h = i
    OBVIOUS
<1>4. /\ MappedFrames(p) = {old[h].fpn : h \in {i \in Pages : old[i].where = "ram"}}
      /\ MappedFrames(p)' = {new[h].fpn : h \in {i \in Pages : new[i].where = "ram"}}
    BY DEF MappedFrames, Pages
<1>5. /\ SwapFramesOf(p) = {old[h].swpfpn : h \in {i \in Pages : old[i].where = "swap"}}
      /\ SwapFramesOf(p)' = {new[h].swpfpn : h \in {i \in Pages : new[i].where = "swap"}}
    BY Zenon DEF SwapFramesOf, Pages
<1>6. old[g].where # "ram" /\ "ram" # "swap"
    BY Zenon
<1> HIDE DEF old, new
<1>7. MappedFrames(p)' = MappedFrames(p) \cup {f}
    BY <1>2, <1>4, <1>6
<1>8. ASSUME old[g].where = "swap"
      PROVE  SwapFramesOf(p)' = SwapFramesOf(p) \ {old[g].swpfpn}
  <2>1. \A h \in Pages \ {g} : old[h].where = "swap" => old[h].swpfpn # old[g].swpfpn
    BY <1>3, <1>8, Zenon DEF SamePlace
  <2> QED
    BY <1>2, <1>5, <1>6, <2>1
<1>9. ASSUME old[g].where # "swap" PROVE SwapFramesOf(p)' = SwapFramesOf(p)
    BY <1>2, <1>5, <1>6, <1>9
<1>10. \A h \in Pages \ {g} : old[h].where = "ram" => old[h].fpn # f
    BY <1>4, Zenon
<1>11. \A h, i \in Pages : SamePlace(new[h], new[i]) => h = i
    BY <1>2, <1>3, <1>10 DEF SamePlace
<1> QED
    BY <1>7, <1>8, <1>9, <1>11, Zenon DEF old, new

\* The victim goes to a frame of the swap device.
LEMMA SwapOutPgInv ==
    ASSUME PgInv, NEW p \in Procs, SwapOut(p)
    PROVE  PgInv'
<1> DEFINE vic == op[p].vic
           f   == pte[p][vic].fpn
           s   == NextFree(swp)
           o   == [pc |-> "fill", kind |-> op[p].kind, pgn |-> op[p].pgn, tgt |-> f]
<1>1. /\ TypeOK /\ op[p].pc = "evict" /\ HasFree(swp) /\ swp' = Popped(swp)
      /\ \E d \in Stored(SwapCells, s, ramData[f]) : swpData' = [swpData EXCEPT ![s] = d]
      /\ pte' = [pte EXCEPT ![p][vic] = InSwap(s)] /\ op' = [op EXCEPT ![p] = o]
      /\ UNCHANGED <<ram, ramData, fifo_pgn, vm_end, locks>>
      /\ Placed(p) /\ Fifo(p) /\ Area(p) /\ Accessed(p)
    BY Zenon DEF SwapOut, Do, PgInv, Local
<1>2. vic \in Pages /\ op[p].pgn \in Pages /\ op[p].kind \in Kinds
    BY <1>1, OpFields, Zenon
<1>3. /\ pte[p][vic].where = "ram" /\ vic \notin ListSet(fifo_pgn[p])
      /\ \A g \in ListSet(fifo_pgn[p]) : pte[p][g].where = "ram"
    BY <1>1 DEF Fifo
<1>4. f \in RamFrames /\ f \in MappedFrames(p)
    BY <1>1, <1>2, <1>3, EntryOf, Zenon DEF MappedFrames
<1>5. o \in OpSet /\ o.pc = "fill" /\ o.pgn = op[p].pgn /\ o.tgt = f
    BY <1>2, <1>4, Zenon DEF OpSet
<1> HIDE DEF o, s
<1>6. Owners(swp, SwapFrames, Procs, swpOwn)
    BY DEF PgInv
<1>7. s \in SwapFrames /\ s \notin SwapFramesOf(p)
  <2> DEFINE new == [q \in Procs |-> IF q = p THEN swpOwn[p] \cup {s} ELSE swpOwn[q]]
  <2>1. /\ new[p] = swpOwn[p] \cup {NextFree(swp)}
        /\ \A q \in Procs \ {p} : new[q] = swpOwn[q]
    BY Zenon DEF s
  <2> HIDE DEF new
  <2>2. HasFree(swp)
    BY <1>1, Zenon
  <2>3. /\ NextFree(swp) \in SwapFrames
        /\ \A q \in Procs : NextFree(swp) \notin swpOwn[q]
        /\ Owners(Popped(swp), SwapFrames, Procs, new)
    BY <1>6, <2>1, <2>2, OwnersPop
  <2> QED
    BY <2>3, OwnOf, Zenon DEF s
<1>8. /\ MappedFrames(p)' = MappedFrames(p) \ {f}
      /\ SwapFramesOf(p)' = SwapFramesOf(p) \cup {s}
      /\ \A h, i \in Pages : SamePlace(pte'[p][h], pte'[p][i]) => h = i
    BY <1>1, <1>2, <1>3, <1>7, EntryToSwap, Zenon
<1>9. InSwap(s) \in PteSet /\ InSwap(s).where = "swap"
    BY <1>7, Zenon DEF InSwap, PteSet
<1>10. /\ pte' \in [Procs -> [Pages -> PteSet]]
       /\ \A h \in Pages \ {vic} : pte'[p][h] = pte[p][h]
       /\ \A q \in Procs \ {p} : pte'[q] = pte[q]
       /\ pte'[p][vic].where = "swap"
    BY <1>1, <1>2, <1>9, OneEntry, Zenon
<1> HIDE DEF f, vic
<1>11. op'[p] = o /\ \A q \in Procs \ {p} : op'[q] = op[q]
    BY <1>1 DEF TypeOK
<1>12. \A q \in Procs \ {p} : Untouched(q)
    BY <1>1, <1>10, <1>11, Zenon DEF Untouched
<1>13. InFlight(p) = {} /\ InFlight(p)' = {f}
    BY <1>1, <1>5, <1>11, InFlightOf, InFlightOfPrime, Zenon
<1>14. \A q \in Procs : ramOwn'[q] = ramOwn[q]
  <2>1. MappedFrames(p)' \cup InFlight(p)' = MappedFrames(p) \cup InFlight(p)
    BY <1>4, <1>8, <1>13
  <2>2. ramOwn'[p] = ramOwn[p]
    BY <2>1, OwnOf, Zenon
  <2> QED
    BY <1>12, <2>2, UntouchedOwn, Zenon
<1>15. Owners(ram', RamFrames, Procs, ramOwn')
    BY <1>1, <1>14, OwnersSame, Zenon DEF PgInv
<1>16. swpOwn'[p] = swpOwn[p] \cup {s} /\ \A q \in Procs \ {p} : swpOwn'[q] = swpOwn[q]
    BY <1>8, <1>12, OwnOf, UntouchedOwn, Zenon
<1>17. Owners(swp', SwapFrames, Procs, swpOwn')
    BY <1>1, <1>6, <1>16, OwnersPop DEF s
<1>18. TypeOK'
  <2>1. swp' \in [free : Seq(SwapFrames), used : Seq(SwapFrames)]
    BY <1>17, Zenon DEF Owners, Device
  <2>2. swpData' \in [SwapFrames -> Data]
    <3>1. ramData[f] \in Data /\ swpData \in [SwapFrames -> Data]
        BY <1>1, <1>4, Zenon DEF TypeOK
    <3>2. PICK d \in Stored(SwapCells, s, ramData[f]) : swpData' = [swpData EXCEPT ![s] = d]
        BY <1>1, Zenon
    <3>3. d \in Data
        BY <3>1, StoredData, Zenon
    <3> QED
        BY <3>1, <3>2, <3>3, Zenon
  <2>3. op' \in [Procs -> OpSet]
    BY <1>1, <1>5, Zenon DEF TypeOK
  <2> QED
    BY <1>1, <1>10, <2>1, <2>2, <2>3, Zenon DEF TypeOK, locks
<1>19. Placed(p)'
  <2>1. InFlight(p)' \cap MappedFrames(p)' = {}
    BY <1>8, <1>13, Zenon
  <2> QED
    BY <1>8, <2>1, Zenon DEF Placed, SamePlace, Pages
<1>20. Fifo(p)'
  <2>1. ListSet(fifo_pgn[p]) \subseteq Pages
    BY <1>1, ListInType, Zenon DEF TypeOK
  <2>2. \A g \in ListSet(fifo_pgn[p]) : pte'[p][g].where = "ram"
    BY <1>3, <1>10, <2>1, Zenon
  <2> QED
    BY <1>1, <1>5, <1>11, <2>2, Zenon DEF Fifo
<1>21. Area(p)'
  <2>1. \A g \in Pages : g >= vm_end[p] => pte[p][g] = NoPage
    BY <1>1, Zenon DEF Area
  <2>2. \A g \in Pages : g >= vm_end[p] => g # vic
    BY <1>3, <2>1 DEF NoPage
  <2>3. \A g \in Pages : g >= vm_end[p] => pte'[p][g] = NoPage
    BY <1>10, <2>1, <2>2, Zenon
  <2> QED
    BY <1>1, <1>5, <1>11, <2>3, Zenon DEF Area, Pages, NoPage
<1>22. Accessed(p)'
  <2>1. op[p].pgn < vm_end[p] /\ pte[p][op[p].pgn].where # "ram"
    BY <1>1, Zenon DEF Accessed
  <2>2. pte'[p][op[p].pgn].where # "ram"
    BY <1>2, <1>3, <1>10, <2>1, Zenon
  <2> QED
    BY <1>1, <1>5, <1>11, <2>1, <2>2, Zenon DEF Accessed
<1>23. Local(p)'
    BY <1>19, <1>20, <1>21, <1>22, Zenon DEF Local
<1> QED
    BY <1>12, <1>15, <1>17, <1>18, <1>23, StepOf, Zenon

\* The page that was asked for comes in.
LEMMA FillPgInv ==
    ASSUME PgInv, NumRam <= FpnLimit, NEW p \in Procs, Fill(p)
    PROVE  PgInv'
<1> DEFINE g == op[p].pgn
           f == op[p].tgt
           s == pte[p][g].swpfpn
           o == [pc |-> "access", kind |-> op[p].kind, pgn |-> g]
           l == fifo_pgn[p]
<1>1. /\ TypeOK /\ op[p].pc = "fill"
      /\ pte' = [pte EXCEPT ![p][g] = InRam(f)]
      /\ fifo_pgn' = [fifo_pgn EXCEPT ![p] = <<g>> \o l]
      /\ op' = [op EXCEPT ![p] = o]
      /\ UNCHANGED <<ram, swpData, vm_end, locks>>
      /\ Placed(p) /\ Fifo(p) /\ Area(p) /\ Accessed(p)
    BY Zenon DEF Fill, Do, PgInv, Local
<1>2. \/ /\ pte[p][g].where = "swap" /\ swp' = MEMPHY_put_freefp(swp, s)
         /\ \E d \in Stored(RamCells, f, swpData[s]) : ramData' = [ramData EXCEPT ![f] = d]
      \/ pte[p][g].where # "swap" /\ ramData' = ramData /\ swp' = swp
    BY Zenon DEF Fill
<1>3. g \in Pages /\ op[p].kind \in Kinds /\ f \in RamFrames
    BY <1>1, OpFields, Zenon
<1>4. InFlight(p) = {f}
    BY <1>1, InFlightOf, Zenon
<1>5. g < vm_end[p] /\ pte[p][g].where # "ram" /\ f \notin MappedFrames(p)
    BY <1>1, <1>4, Zenon DEF Accessed, Placed
<1>6. o \in OpSet /\ o.pc = "access" /\ o.pgn = g
    BY <1>3, Zenon DEF OpSet
<1>7. /\ l \in Seq(Pages) /\ NoRepeat(l) /\ \A h \in ListSet(l) : pte[p][h].where = "ram"
    BY <1>1, Zenon DEF TypeOK, Fifo
<1>8. g \in Pages \ ListSet(l)
    BY <1>3, <1>5, <1>7, Zenon
<1> HIDE DEF o, l, f, g, s
<1>9. /\ <<g>> \o l \in Seq(Pages) /\ NoRepeat(<<g>> \o l)
      /\ ListSet(<<g>> \o l) = ListSet(l) \cup {g} /\ ListSet(l) \subseteq Pages
    BY <1>7, <1>8, ListSetOfPush, ListInType
<1>10. /\ MappedFrames(p)' = MappedFrames(p) \cup {f}
       /\ pte[p][g].where = "swap" => SwapFramesOf(p)' = SwapFramesOf(p) \ {s}
       /\ pte[p][g].where # "swap" => SwapFramesOf(p)' = SwapFramesOf(p)
       /\ \A h, i \in Pages : SamePlace(pte'[p][h], pte'[p][i]) => h = i
    BY <1>1, <1>3, <1>5, EntryToRam, Zenon DEF Placed, s
<1>11. InRam(f) \in PteSet /\ InRam(f).where = "ram"
    BY <1>3, InRamOf
<1>12. /\ pte' \in [Procs -> [Pages -> PteSet]]
       /\ \A h \in Pages \ {g} : pte'[p][h] = pte[p][h]
       /\ \A q \in Procs \ {p} : pte'[q] = pte[q]
       /\ pte'[p][g].where = "ram"
    BY <1>1, <1>3, <1>11, OneEntry, Zenon
<1>13. /\ op'[p] = o /\ fifo_pgn'[p] = <<g>> \o l
       /\ \A q \in Procs \ {p} : op'[q] = op[q] /\ fifo_pgn'[q] = fifo_pgn[q]
    BY <1>1, Zenon DEF TypeOK
<1>14. \A q \in Procs \ {p} : Untouched(q)
    BY <1>1, <1>12, <1>13, Zenon DEF Untouched
<1>15. InFlight(p)' = {}
    BY <1>6, <1>13, InFlightOfPrime, Zenon
<1>16. \A q \in Procs : ramOwn'[q] = ramOwn[q]
    BY <1>4, <1>10, <1>14, <1>15, OwnOf, UntouchedOwn, Zenon
<1>17. Owners(ram', RamFrames, Procs, ramOwn')
    BY <1>1, <1>16, OwnersSame, Zenon DEF PgInv
<1>18. Owners(swp, SwapFrames, Procs, swpOwn)
    BY Zenon DEF PgInv
<1>19. Owners(swp', SwapFrames, Procs, swpOwn')
  <2>1. CASE pte[p][g].where = "swap"
    <3>1. swpOwn'[p] = swpOwn[p] \ {s} /\ \A q \in Procs \ {p} : swpOwn'[q] = swpOwn[q]
        BY <1>10, <1>14, <2>1, OwnOf, UntouchedOwn, Zenon
    <3>2. s \in swpOwn[p]
        BY <1>3, <2>1, OwnOf, Zenon DEF SwapFramesOf, s
    <3>3. swp' = MEMPHY_put_freefp(swp, s)
        BY <1>2, <2>1, Zenon
    <3> QED
        BY <1>18, <3>1, <3>2, <3>3, OwnersPut, Zenon
  <2>2. CASE pte[p][g].where # "swap"
    <3>1. \A q \in Procs : swpOwn'[q] = swpOwn[q]
        BY <1>10, <1>14, <2>2, OwnOf, UntouchedOwn, Zenon
    <3>2. swp' = swp
        BY <1>2, <2>2, Zenon
    <3> QED
        BY <1>18, <3>1, <3>2, OwnersSame, Zenon
  <2> QED
    BY <2>1, <2>2, Zenon
<1>20. TypeOK'
  <2>1. swp' \in [free : Seq(SwapFrames), used : Seq(SwapFrames)]
    BY <1>19, Zenon DEF Owners, Device
  <2>2. ramData' \in [RamFrames -> Data]
    <3>1. ramData \in [RamFrames -> Data]
        BY <1>1 DEF TypeOK
    <3>2. CASE pte[p][g].where = "swap"
      <4>1. swpData[s] \in Data
        BY <1>1, <1>3, <3>2, EntryOf, Zenon DEF TypeOK, s
      <4>2. PICK d \in Stored(RamCells, f, swpData[s]) : ramData' = [ramData EXCEPT ![f] = d]
        BY <1>2, <3>2, Zenon
      <4>3. d \in Data
        BY <4>1, StoredData, Zenon
      <4> QED
        BY <3>1, <4>2, <4>3, Zenon
    <3> QED
        BY <1>2, <3>1, <3>2, Zenon
  <2>3. op' \in [Procs -> OpSet] /\ fifo_pgn' \in [Procs -> Seq(Pages)]
    BY <1>1, <1>6, <1>9, Zenon DEF TypeOK
  <2> QED
    BY <1>1, <1>12, <2>1, <2>2, <2>3, Zenon DEF TypeOK, locks
<1>21. Placed(p)'
    BY <1>10, <1>15, Zenon DEF Placed, SamePlace, Pages
<1>22. Fifo(p)'
  <2>1. \A h \in ListSet(<<g>> \o l) : pte'[p][h].where = "ram"
    BY <1>7, <1>9, <1>12, Zenon
  <2>2. NoRepeat(fifo_pgn[p])'
    BY <1>9, <1>13, Zenon DEF NoRepeat
  <2>3. (\A h \in ListSet(fifo_pgn[p]) : pte[p][h].where = "ram")'
    BY <1>13, <2>1 DEF ListSet
  <2>4. op'[p].pc # "evict"
    BY <1>6, <1>13, Zenon
  <2> QED
    BY <2>2, <2>3, <2>4, Zenon DEF Fifo
<1>23. Area(p)'
  <2>1. \A h \in Pages : h >= vm_end[p] => pte[p][h] = NoPage
    BY <1>1, Zenon DEF Area
  <2>2. \A h \in Pages : h >= vm_end[p] => h # g
    BY <1>1, <1>5, PagingAssumption DEF Pages, TypeOK
  <2>3. \A h \in Pages : h >= vm_end[p] => pte'[p][h] = NoPage
    BY <1>12, <2>1, <2>2, Zenon
  <2> QED
    BY <1>1, <1>6, <1>13, <2>3, Zenon DEF Area, Pages, NoPage
<1>24. Accessed(p)'
    BY <1>1, <1>5, <1>6, <1>12, <1>13, Zenon DEF Accessed
<1>25. Local(p)'
    BY <1>21, <1>22, <1>23, <1>24 DEF Local
<1> QED
    BY <1>14, <1>17, <1>19, <1>20, <1>25, StepOf
-----------------------------------------------------------------------------
\* At the start every frame is free and no page is mapped.
LEMMA InitPgInv == Init => PgInv
<1> SUFFICES ASSUME Init PROVE PgInv
    OBVIOUS
<1>1. NumRam \in Nat /\ NumSwap \in Nat /\ MaxPages \in Nat
    BY PagingAssumption, Zenon
<1>2. \A p \in Procs : op[p] = Idle /\ \A g \in Pages : pte[p][g].where = "none"
    BY Zenon DEF Init, NoPage
<1>3. \A p \in Procs : InFlight(p) = {} /\ MappedFrames(p) = {} /\ SwapFramesOf(p) = {}
    BY <1>2, InFlightOf DEF Idle, MappedFrames, SwapFramesOf
<1>4. \A p \in Procs : ramOwn[p] = {} /\ swpOwn[p] = {}
    BY <1>3, OwnOf, Zenon
<1>5. /\ ram \in Device(RamFrames) /\ Partition(ram, RamFrames) /\ ListSet(ram.used) = {}
      /\ swp \in Device(SwapFrames) /\ Partition(swp, SwapFrames) /\ ListSet(swp.used) = {}
    BY <1>1, FormatPartition, Zenon DEF Init, RamFrames, SwapFrames
<1>6. Owners(ram, RamFrames, Procs, ramOwn)
  <2>1. UNION {ramOwn[p] : p \in Procs} = {}
    BY <1>4, Zenon
  <2> QED
    BY <1>4, <1>5, <2>1, Zenon DEF Owners
<1>7. Owners(swp, SwapFrames, Procs, swpOwn)
  <2>1. UNION {swpOwn[p] : p \in Procs} = {}
    BY <1>4, Zenon
  <2> QED
    BY <1>4, <1>5, <2>1, Zenon DEF Owners
<1>8. TypeOK
  <2>1. /\ ram \in [free : Seq(RamFrames), used : Seq(RamFrames)]
        /\ swp \in [free : Seq(SwapFrames), used : Seq(SwapFrames)]
    BY <1>5, Zenon DEF Device
  <2>2. ramData \in [RamFrames -> Data] /\ swpData \in [SwapFrames -> Data]
    BY Zenon DEF Init, Formatted, RamFrames, SwapFrames
  <2>3. NoPage \in PteSet /\ Idle \in OpSet
    BY Zenon DEF NoPage, PteSet, Idle, OpSet
  <2>4. /\ pte \in [Procs -> [Pages -> PteSet]] /\ op \in [Procs -> OpSet]
        /\ fifo_pgn \in [Procs -> Seq(Pages)] /\ vm_end \in [Procs -> 0 .. MaxPages]
    BY <1>1, <2>3 DEF Init
  <2>5. mmvm_lock \in Procs \cup {NOBODY} /\ vm_Lock \in Procs \cup {NOBODY}
    BY DEF Init
  <2> QED
    BY <2>1, <2>2, <2>4, <2>5, Zenon DEF TypeOK
<1>9. ASSUME NEW p \in Procs PROVE Local(p)
  <2>1. Idle.pc = "idle"
    BY Zenon DEF Idle
  <2>2. Placed(p)
    BY <1>2, <1>3, Zenon DEF Placed, SamePlace
  <2>3. Fifo(p)
    BY <1>2, <2>1 DEF Fifo, Init, ListSet, NoRepeat
  <2>4. Area(p)
    BY <1>2, <2>1, Zenon DEF Area, Init
  <2>5. Accessed(p)
    BY <1>2, <2>1, Zenon DEF Accessed
  <2> QED
    BY <2>2, <2>3, <2>4, <2>5, Zenon DEF Local
<1> QED
    BY <1>6, <1>7, <1>8, <1>9, Zenon DEF PgInv

\* A stutter keeps PgInv.
LEMMA SamePgInv == PgInv /\ UNCHANGED vars => PgInv'
<1> SUFFICES ASSUME PgInv, UNCHANGED vars PROVE PgInv'
    BY Zenon
<1>1. /\ ram' = ram /\ swp' = swp /\ ramData' = ramData /\ swpData' = swpData
      /\ pte' = pte /\ fifo_pgn' = fifo_pgn /\ vm_end' = vm_end
      /\ mmvm_lock' = mmvm_lock /\ vm_Lock' = vm_Lock /\ op' = op
    BY Zenon DEF vars, devVars, mmVars, locks
<1>2. \A q \in Procs : Untouched(q)
    BY <1>1, Zenon DEF Untouched
<1>3. \A q \in Procs : Local(q)'
    BY <1>2, UntouchedLocal, Zenon DEF PgInv
<1>4. \A q \in Procs : ramOwn'[q] = ramOwn[q] /\ swpOwn'[q] = swpOwn[q]
    BY <1>2, UntouchedOwn, Zenon
<1>5. Owners(ram', RamFrames, Procs, ramOwn')
    BY <1>1, <1>4, OwnersSame, Zenon DEF PgInv
<1>6. Owners(swp', SwapFrames, Procs, swpOwn')
    BY <1>1, <1>4, OwnersSame, Zenon DEF PgInv
<1>7. TypeOK'
    BY <1>1, Zenon DEF PgInv, TypeOK
<1> QED
    BY <1>3, <1>5, <1>6, <1>7, Zenon DEF PgInv, RamFrames, SwapFrames

\* Every step keeps PgInv.
LEMMA NextPgInv == NumRam <= FpnLimit /\ PgInv /\ [Next]_vars => PgInv'
<1> SUFFICES ASSUME NumRam <= FpnLimit, PgInv, [Next]_vars PROVE PgInv'
    BY Zenon
<1>1. ASSUME NEW p \in Procs, Step(p) PROVE PgInv'
  <2>1. CASE IncVmaLimit(p)
    BY <2>1, IncVmaLimitPgInv, Zenon
  <2>2. CASE AllocFrame(p)
    BY <2>2, AllocFramePgInv, Zenon
  <2>3. CASE AllocFails(p)
    BY <2>3, AllocFailsPgInv
  <2>4. CASE UndoFrame(p)
    BY <2>4, UndoFramePgInv
  <2>5. CASE MapFrames(p)
    BY <2>5, MapFramesPgInv, Zenon
  <2>6. CASE FaultFrame(p)
    BY <2>6, FaultFramePgInv
  <2>7. CASE FaultVictim(p)
    BY <2>7, FaultVictimPgInv
  <2>8. CASE SwapOut(p)
    BY <2>8, SwapOutPgInv
  <2>9. CASE Fill(p)
    BY <2>9, FillPgInv, Zenon
  <2>10. CASE UndoDone(p) \/ FaultNoVictim(p) \/ SwapFull(p) \/ ReadValue(p) \/ WriteCopy(p)
    BY <2>10, EndSteps, Zenon
  <2>11. CASE \E v \in Values : WriteValue(p, v)
    BY <2>11, EndSteps, Zenon
  <2> QED
    BY <1>1, <2>1, <2>2, <2>3, <2>4, <2>5, <2>6, <2>7, <2>8, <2>9, <2>10, <2>11 DEF Step
<1>2. ASSUME NEW p \in Procs, Call(p) PROVE PgInv'
    BY <1>2, StartInc, StartAccess, EndSteps, Zenon DEF Call
<1>3. CASE AllDone
    BY <1>3, SamePgInv, Zenon DEF AllDone
<1>4. CASE UNCHANGED vars
    BY <1>4, SamePgInv, Zenon
<1> QED
    BY <1>1, <1>2, <1>3, <1>4, Zenon DEF Next

\* So it holds at all times.
LEMMA PgInvAlways ==
    ASSUME NumRam <= FpnLimit
    PROVE  Spec => []PgInv
<1>1. PgInv /\ [Next]_vars => PgInv'
    BY NextPgInv, Zenon
<1> QED
    BY <1>1, InitPgInv, PTL DEF Spec

\* What two processes own is apart: pages and frames taken.
LEMMA ApartPages ==
    ASSUME PgInv
    PROVE  NoFrameLeak /\ FramesNotShared
<1>1. \A p \in Procs : Placed(p)
    BY Zenon DEF PgInv, Local
<1>2. \A p \in Procs : /\ MappedFrames(p) \subseteq ramOwn[p]
                       /\ InFlight(p) \subseteq ramOwn[p]
                       /\ SwapFramesOf(p) = swpOwn[p]
    BY OwnOf, Zenon
<1>3. /\ Owners(ram, RamFrames, Procs, ramOwn)
      /\ Owners(swp, SwapFrames, Procs, swpOwn)
    BY Zenon DEF PgInv
<1>4. /\ \A p, q \in Procs : p # q => ramOwn[p] \cap ramOwn[q] = {}
      /\ \A p, q \in Procs : p # q => swpOwn[p] \cap swpOwn[q] = {}
    BY <1>3, Zenon DEF Owners
<1>5. NoFrameLeak
  <2>1. UNION {ramOwn[p] : p \in Procs} = UNION {MappedFrames(p) \cup InFlight(p) : p \in Procs}
    BY OwnOf, Zenon
  <2>2. UNION {swpOwn[p] : p \in Procs} = UNION {SwapFramesOf(p) : p \in Procs}
    BY OwnOf, Zenon
  <2> QED
    BY <1>3, <2>1, <2>2, Zenon DEF NoFrameLeak, Owners
<1>6. ASSUME NEW p \in Procs, NEW q \in Procs, NEW g \in Pages, NEW h \in Pages,
             SamePlace(pte[p][g], pte[q][h])
      PROVE  p = q /\ g = h
  <2>1. CASE p = q
    BY <1>1, <1>6, <2>1, Zenon DEF Placed
  <2>2. CASE pte[p][g].where = "ram" /\ pte[q][h].where = "ram" /\ pte[p][g].fpn = pte[q][h].fpn
    <3>1. pte[p][g].fpn \in MappedFrames(p) /\ pte[p][g].fpn \in MappedFrames(q)
        BY <2>2, Zenon DEF MappedFrames
    <3>2. p = q
        BY <1>2, <1>4, <3>1
    <3> QED
        BY <2>1, <3>2, Zenon
  <2>3. CASE /\ pte[p][g].where = "swap" /\ pte[q][h].where = "swap"
             /\ pte[p][g].swpfpn = pte[q][h].swpfpn
    <3>1. pte[p][g].swpfpn \in SwapFramesOf(p) /\ pte[p][g].swpfpn \in SwapFramesOf(q)
        BY <2>3, Zenon DEF SwapFramesOf
    <3>2. p = q
        BY <1>2, <1>4, <3>1
    <3> QED
        BY <2>1, <3>2
  <2> QED
    BY <1>6, <2>2, <2>3, Zenon DEF SamePlace
<1>7. \A p, q \in Procs : /\ InFlight(p) \cap MappedFrames(q) = {}
                          /\ p # q => InFlight(p) \cap InFlight(q) = {}
    BY <1>1, <1>2, <1>4, Zenon DEF Placed
<1> QED
    BY <1>5, <1>6, <1>7, Zenon DEF FramesNotShared

(***************************************************************************)
(* Type correctness of the paging state: frame lists, page tables, FIFOs   *)
(* and the operation each process is in, through every fault and failure.  *)
(***************************************************************************)
THEOREM TypeCorrect ==
    ASSUME NumRam <= FpnLimit
    PROVE  Spec => []TypeOK
<1>1. PgInv => TypeOK
    BY DEF PgInv
<1> QED
    BY <1>1, PgInvAlways, PTL

(***************************************************************************)
(* No path of alloc_pages_range, pg_getpage or their failures loses a      *)
(* frame or returns one that is in use: the used lists of both devices are *)
(* what the processes hold, for any number of processes, pages and frames  *)
(* (mm64.c:514-529, libmem.c:237-275).                                     *)
(***************************************************************************)
THEOREM NoFrameLeakAlways ==
    ASSUME NumRam <= FpnLimit
    PROVE  Spec => []NoFrameLeak
<1>1. PgInv => NoFrameLeak
    BY ApartPages, Zenon
<1> QED
    BY <1>1, PgInvAlways, PTL

(***************************************************************************)
(* No frame is ever in two hands: not in two page table entries, of one    *)
(* process or of two, nor in one and with an operation under way, however  *)
(* the faults of the processes interleave (libmem.c:221-281).              *)
(***************************************************************************)
THEOREM FramesNotSharedAlways ==
    ASSUME NumRam <= FpnLimit
    PROVE  Spec => []FramesNotShared
<1>1. PgInv => FramesNotShared
    BY ApartPages
<1> QED
    BY <1>1, PgInvAlways, PTL

(***************************************************************************)
(* find_victim_page picks a page that is in RAM, always: the FIFO of a     *)
(* process names resident pages, each once (libmem.c:239-244).             *)
(***************************************************************************)
THEOREM FifoResidentAlways ==
    ASSUME NumRam <= FpnLimit
    PROVE  Spec => []FifoResident
<1>1. PgInv => FifoResident
    BY Zenon DEF PgInv, Local, Fifo, FifoResident
<1> QED
    BY <1>1, PgInvAlways, PTL

(***************************************************************************)
(* Paging implements Memory: swapping, faults and the sharing of frames    *)
(* are invisible to a process, which sees one value per page.              *)
(*                                                                         *)
(* What is needed beside PgInv is DataInv: a frame of RAM that nobody has  *)
(* mapped yet is blank, and one taken over from a victim holds what a page *)
(* of the same process holds.  A step then moves the contents of a page    *)
(* together with its entry, or moves neither.                              *)
(***************************************************************************)
\* The frames that the processes hold lie inside the storage.
InStorage ==
    \A p \in Procs : /\ \A f \in ramOwn[p] : f < RamCells
                    /\ \A s \in swpOwn[p] : s < SwapCells

FreeBlank == \A f \in ListSet(ram.free) : f < RamCells => ramData[f] = <<Zero>>

TakenBlank(p) ==
    /\ op[p].pc \in {"grab", "undo"} =>
           \A f \in ListSet(op[p].frames) : ramData[f] = <<Zero>>
    /\ op[p].pc = "fill" =>
           \/ ramData[op[p].tgt] = <<Zero>>
           \/ \E h \in Pages : ramData[op[p].tgt] = Contents(p, h)

DataInv == FreeBlank /\ \A p \in Procs : TakenBlank(p)

\* Nothing is stored in the frames of process q.
KeepsData(q) ==
    /\ \A f \in ramOwn[q] : ramData'[f] = ramData[f]
    /\ \A s \in swpOwn[q] : swpData'[s] = swpData[s]

\* What a page holds, by where it is.
LEMMA ContentsOf ==
    ASSUME TypeOK, NEW p \in Procs, NEW g \in Pages
    PROVE  /\ pte[p][g].where = "none" => Contents(p, g) = Absent
           /\ pte[p][g].where = "ram" => Contents(p, g) = ramData[pte[p][g].fpn]
           /\ pte[p][g].where = "swap" => Contents(p, g) = swpData[pte[p][g].swpfpn]
           /\ pte[p][g].where \in {"none", "ram", "swap"}
<1>1. pte[p][g].where \in {"none", "ram", "swap"}
    BY EntryOf, Zenon DEF PteSet
<1> QED
    BY <1>1, Zenon DEF Contents

\* The same after a step.
LEMMA ContentsOfPrime ==
    ASSUME TypeOK', NEW p \in Procs, NEW g \in Pages
    PROVE  /\ pte'[p][g].where = "none" => Contents(p, g)' = Absent
           /\ pte'[p][g].where = "ram" => Contents(p, g)' = ramData'[pte'[p][g].fpn]
           /\ pte'[p][g].where = "swap" => Contents(p, g)' = swpData'[pte'[p][g].swpfpn]
           /\ pte'[p][g].where \in {"none", "ram", "swap"}
<1>1. pte'[p][g] \in PteSet
  <2>1. (pte \in [Procs -> [Pages -> PteSet]])'
    BY DEF TypeOK
  <2>2. pte' \in [Procs -> [Pages -> PteSet]]
    BY <2>1 DEF Pages, PteSet, RamFrames, SwapFrames
  <2> QED
    BY <2>2
<1>2. pte'[p][g].where \in {"none", "ram", "swap"}
    BY <1>1, Zenon DEF PteSet
<1> QED
    BY <1>2 DEF Contents, Absent

\* A page whose place and data stay holds what it held.
LEMMA PageKept ==
    ASSUME TypeOK, TypeOK', NEW p \in Procs, NEW g \in Pages, pte'[p][g] = pte[p][g],
           pte[p][g].where = "ram" => ramData'[pte[p][g].fpn] = ramData[pte[p][g].fpn],
           pte[p][g].where = "swap" =>
               swpData'[pte[p][g].swpfpn] = swpData[pte[p][g].swpfpn]
    PROVE  Contents(p, g)' = Contents(p, g)
    BY ContentsOf, ContentsOfPrime

\* A mapped page lies in a frame of its own process.
LEMMA PlaceOwned ==
    ASSUME NEW p \in Procs, NEW g \in Pages
    PROVE  /\ pte[p][g].where = "ram" => pte[p][g].fpn \in ramOwn[p]
           /\ pte[p][g].where = "swap" => pte[p][g].swpfpn \in swpOwn[p]
    BY OwnOf DEF MappedFrames, SwapFramesOf

\* The same after a step.
LEMMA PlaceOwnedPrime ==
    ASSUME NEW p \in Procs, NEW g \in Pages
    PROVE  pte'[p][g].where = "swap" => pte'[p][g].swpfpn \in swpOwn'[p]
    BY OwnOf, Zenon DEF SwapFramesOf, Pages

\* A process whose entries and data stay sees the same memory.
LEMMA MemoryKept ==
    ASSUME TypeOK, TypeOK', NEW q \in Procs, pte'[q] = pte[q], KeepsData(q)
    PROVE  \A g \in Pages : Contents(q, g)' = Contents(q, g)
<1> TAKE g \in Pages
<1> QED
    BY PageKept, PlaceOwned, Zenon DEF KeepsData

\* A process that does not move keeps its request.
LEMMA RequestKept ==
    ASSUME NEW q \in Procs, op'[q] = op[q]
    PROVE  Request(q)' = Request(q)
    BY DEF Request, NoReq

\* What the processes other than p see of a step of p.
LEMMA OthersKept ==
    ASSUME PgInv, TypeOK', DataInv, NEW q \in Procs, Untouched(q), KeepsData(q)
    PROVE  /\ \A g \in Pages : Contents(q, g)' = Contents(q, g)
           /\ Request(q)' = Request(q)
           /\ TakenBlank(q)'
<1>1. TypeOK /\ pte'[q] = pte[q] /\ op'[q] = op[q] /\ TakenBlank(q)
    BY DEF PgInv, Untouched, DataInv
<1>2. \A g \in Pages : Contents(q, g)' = Contents(q, g)
    BY <1>1, MemoryKept, Zenon
<1>3. InFlight(q) \subseteq ramOwn[q]
    BY OwnOf
<1>4. \A f \in InFlight(q) : ramData'[f] = ramData[f]
    BY <1>3, Zenon DEF KeepsData
<1>5. CASE op[q].pc \in {"grab", "undo"}
  <2>1. \A f \in ListSet(op[q].frames) : ramData'[f] = <<Zero>>
    BY <1>1, <1>4, <1>5, InFlightOf, Zenon DEF TakenBlank
  <2> QED
    BY <1>1, <1>2, <1>5, <2>1, RequestKept, Zenon DEF TakenBlank, ListSet
<1>6. CASE op[q].pc = "fill"
  <2>1. ramData'[op[q].tgt] = ramData[op[q].tgt]
    BY <1>4, <1>6, InFlightOf, Zenon
  <2> QED
    BY <1>1, <1>2, <1>6, <2>1, RequestKept, Zenon DEF TakenBlank, Pages
<1>7. CASE op[q].pc \notin {"grab", "undo", "fill"}
    BY <1>1, <1>2, <1>7, RequestKept, Zenon DEF TakenBlank
<1> QED
    BY <1>5, <1>6, <1>7, Zenon

\* A step of p, from what it does to p.
LEMMA DataStep ==
    ASSUME PgInv, TypeOK', DataInv, NEW p \in Procs,
           \A q \in Procs \ {p} : Untouched(q) /\ KeepsData(q),
           FreeBlank', TakenBlank(p)'
    PROVE  DataInv'
<1>1. \A q \in Procs \ {p} : TakenBlank(q)'
    BY OthersKept, Zenon
<1> QED
    BY <1>1, Zenon DEF DataInv

\* A step of p that leaves the others alone changes what p sees, at most.
LEMMA MemoryStep ==
    ASSUME PgInv, TypeOK', DataInv, NEW p \in Procs,
           \A q \in Procs \ {p} : Untouched(q) /\ KeepsData(q)
    PROVE  /\ memory' = [memory EXCEPT ![p] = [g \in Pages |-> Contents(p, g)']]
           /\ requests' = [requests EXCEPT ![p] = Request(p)']
<1>1. \A q \in Procs \ {p} : /\ \A g \in Pages : Contents(q, g)' = Contents(q, g)
                             /\ Request(q)' = Request(q)
    BY OthersKept
<1>2. memory' = [q \in Procs |-> [g \in Pages |-> Contents(q, g)']]
    BY DEF memory, Pages
<1>3. requests' = [q \in Procs |-> Request(q)']
    BY DEF requests
<1>4. \A q \in Procs \ {p} : memory'[q] = memory[q] /\ requests'[q] = requests[q]
    BY <1>1, <1>2, <1>3, Zenon DEF memory, requests
<1> QED
    BY <1>2, <1>3, <1>4, Zenon DEF memory, requests

\* A step that stores nothing and leaves the page tables alone.
LEMMA StayStep ==
    ASSUME PgInv, TypeOK', DataInv, NEW p \in Procs, \A q \in Procs \ {p} : Untouched(q),
           ramData' = ramData, swpData' = swpData, pte' = pte, FreeBlank', TakenBlank(p)'
    PROVE  /\ DataInv' /\ memory' = memory
           /\ requests' = [requests EXCEPT ![p] = Request(p)']
<1>1. TypeOK /\ \A q \in Procs : KeepsData(q)
    BY DEF KeepsData, PgInv
<1>2. DataInv'
    BY <1>1, DataStep, Zenon
<1>3. /\ memory' = [memory EXCEPT ![p] = [g \in Pages |-> Contents(p, g)']]
      /\ requests' = [requests EXCEPT ![p] = Request(p)']
    BY <1>1, MemoryStep, Zenon
<1>4. \A g \in Pages : Contents(p, g)' = Contents(p, g)
    BY <1>1, MemoryKept, Zenon
<1>5. memory' = memory
    BY <1>3, <1>4, Zenon DEF memory
<1> QED
    BY <1>2, <1>3, <1>5, Zenon

\* The same, when p goes on to an operation that has taken no other frame.
LEMMA OpData ==
    ASSUME PgInv, TypeOK', DataInv, NEW p \in Procs, NEW o \in OpSet,
           op' = [op EXCEPT ![p] = o], \A q \in Procs \ {p} : Untouched(q),
           devVars' = devVars, pte' = pte, o.pc # "fill",
           o.pc \in {"grab", "undo"} =>
               \/ o.frames = << >>
               \/ op[p].pc = "grab" /\ o.frames = op[p].frames
    PROVE  /\ DataInv' /\ memory' = memory
           /\ requests' = [requests EXCEPT ![p] = Request(p)']
           /\ op'[p] = o
<1>1. ram' = ram /\ ramData' = ramData /\ swpData' = swpData
    BY Zenon DEF devVars
<1>2. op'[p] = o
    BY Zenon DEF PgInv, TypeOK
<1>3. FreeBlank'
    BY <1>1, Zenon DEF FreeBlank, DataInv, ListSet
<1>4. TakenBlank(p)'
  <2>1. ASSUME o.pc \in {"grab", "undo"}
        PROVE  \A f \in ListSet(o.frames) : ramData[f] = <<Zero>>
    BY <2>1 DEF DataInv, TakenBlank, ListSet
  <2> QED
    BY <1>1, <1>2, <2>1 DEF TakenBlank, ListSet
<1> QED
    BY <1>1, <1>2, <1>3, <1>4, StayStep

\* The access that p has asked for.
LEMMA RequestOf ==
    ASSUME TypeOK, NEW p \in Procs
    PROVE  /\ op[p].pc \in {"fault", "evict", "fill", "access"} =>
                  /\ requests[p] = [kind |-> op[p].kind, pgn |-> op[p].pgn]
                  /\ requests[p] # NoReq /\ op[p].kind \in Kinds /\ op[p].pgn \in Pages
           /\ op[p].pc \notin {"fault", "evict", "fill", "access"} => requests[p] = NoReq
           /\ requests = [q \in Procs |-> requests[q]]
<1>1. requests[p] = Request(p)
    BY Zenon DEF requests
<1>2. ASSUME op[p].pc \in {"fault", "evict", "fill", "access"}
      PROVE  op[p].kind \in Kinds /\ op[p].pgn \in Pages
    BY <1>2, OpFields, Zenon
<1>3. ASSUME op[p].pc \in {"fault", "evict", "fill", "access"}
      PROVE  requests[p] # NoReq
  <2>1. Request(p).kind = op[p].kind /\ NoReq.kind = "none" /\ "none" \notin Kinds
    BY <1>3, Zenon DEF Request, NoReq, Kinds
  <2> QED
    BY <1>1, <1>2, <1>3, <2>1, Zenon
<1> QED
    BY <1>1, <1>2, <1>3 DEF Request, requests

\* The request of the process that moves, after its step.
LEMMA RequestOfPrime ==
    ASSUME NEW p \in Procs
    PROVE  /\ op'[p].pc \in {"fault", "evict", "fill", "access"} =>
                  Request(p)' = [kind |-> op'[p].kind, pgn |-> op'[p].pgn]
           /\ op'[p].pc \notin {"fault", "evict", "fill", "access"} => Request(p)' = NoReq
    BY DEF Request, NoReq

\* No access is asked for or ends.
LEMMA SameRequest ==
    ASSUME TypeOK, NEW p \in Procs, requests' = [requests EXCEPT ![p] = Request(p)'],
           \/ /\ op[p].pc \notin {"fault", "evict", "fill", "access"}
              /\ op'[p].pc \notin {"fault", "evict", "fill", "access"}
           \/ /\ op[p].pc \in {"fault", "evict", "fill", "access"}
              /\ op'[p].pc \in {"fault", "evict", "fill", "access"}
              /\ op'[p].kind = op[p].kind /\ op'[p].pgn = op[p].pgn
    PROVE  requests' = requests
<1>1. Request(p)' = requests[p]
    BY RequestOf, RequestOfPrime, Zenon
<1> QED
    BY <1>1, RequestOf, Zenon
-----------------------------------------------------------------------------
(* Steps that store nothing.                                               *)

\* A call of inc_vma_limit begins: Memory stutters.
LEMMA StartIncMemory ==
    ASSUME PgInv, TypeOK', DataInv, NEW p \in Procs, NEW n \in 1 .. MaxPages - vm_end[p],
           Alloc(p, n) \/ SysMemInc(p, n)
    PROVE  DataInv' /\ memory' = memory /\ requests' = requests
<1> DEFINE o == [pc |-> "inc", n |-> n]
<1>1. TypeOK /\ MaxPages \in Nat /\ vm_end[p] \in 0 .. MaxPages
    BY PagingAssumption, Zenon DEF PgInv, TypeOK
<1>2. n \in 1 .. MaxPages
    BY <1>1
<1>3. o \in OpSet /\ o.pc = "inc"
    BY <1>2, Zenon DEF OpSet
<1>4. /\ op[p].pc = "idle" /\ op' = [op EXCEPT ![p] = o]
      /\ devVars' = devVars /\ mmVars' = mmVars
    BY DEF Alloc, SysMemInc, Do, Idle
<1> HIDE DEF o
<1>5. pte' = pte /\ \A q \in Procs \ {p} : Untouched(q)
    BY <1>1, <1>4, Zenon DEF TypeOK, Untouched, mmVars
<1>6. /\ DataInv' /\ memory' = memory /\ op'[p] = o
      /\ requests' = [requests EXCEPT ![p] = Request(p)']
    BY <1>3, <1>4, <1>5, OpData, Zenon
<1> QED
    BY <1>1, <1>3, <1>4, <1>6, SameRequest, Zenon

\* The limit is moved: Memory stutters.
LEMMA IncVmaLimitMemory ==
    ASSUME PgInv, TypeOK', DataInv, NEW p \in Procs, IncVmaLimit(p)
    PROVE  DataInv' /\ memory' = memory /\ requests' = requests
<1> DEFINE o == [pc |-> "grab", n |-> op[p].n, frames |-> << >>]
<1>1. /\ TypeOK /\ op[p].pc = "inc" /\ op' = [op EXCEPT ![p] = o]
      /\ pte' = pte /\ fifo_pgn' = fifo_pgn /\ devVars' = devVars
      /\ vm_end' = [vm_end EXCEPT ![p] = @ + op[p].n]
    BY Zenon DEF IncVmaLimit, Do, PgInv
<1>2. o \in OpSet /\ o.pc = "grab" /\ o.frames = << >>
    BY <1>1, OpFields DEF OpSet
<1> HIDE DEF o
<1>3. \A q \in Procs \ {p} : Untouched(q)
    BY <1>1, Zenon DEF TypeOK, Untouched
<1>4. /\ DataInv' /\ memory' = memory /\ op'[p] = o
      /\ requests' = [requests EXCEPT ![p] = Request(p)']
    BY <1>1, <1>2, <1>3, OpData, Zenon
<1> QED
    BY <1>1, <1>2, <1>4, SameRequest, Zenon

\* No frame is left: Memory stutters.
LEMMA AllocFailsMemory ==
    ASSUME PgInv, TypeOK', DataInv, NEW p \in Procs, AllocFails(p)
    PROVE  DataInv' /\ memory' = memory /\ requests' = requests
<1> DEFINE o == [op[p] EXCEPT !.pc = "undo"]
<1>1. /\ TypeOK /\ op[p].pc = "grab" /\ op' = [op EXCEPT ![p] = o]
      /\ devVars' = devVars /\ mmVars' = mmVars
    BY DEF AllocFails, Do, PgInv
<1>2. op[p] \in [pc : {"grab", "undo"}, n : 1 .. MaxPages, frames : Seq(RamFrames)]
    BY <1>1, OpFields
<1>3. o \in OpSet /\ o.pc = "undo" /\ o.frames = op[p].frames
    BY <1>2, Zenon DEF OpSet
<1> HIDE DEF o
<1>4. pte' = pte /\ \A q \in Procs \ {p} : Untouched(q)
    BY <1>1 DEF TypeOK, Untouched, mmVars
<1>5. /\ DataInv' /\ memory' = memory /\ op'[p] = o
      /\ requests' = [requests EXCEPT ![p] = Request(p)']
    BY <1>1, <1>3, <1>4, OpData, Zenon
<1> QED
    BY <1>1, <1>3, <1>5, SameRequest, Zenon

\* A victim is chosen: Memory stutters.
LEMMA FaultVictimMemory ==
    ASSUME PgInv, TypeOK', DataInv, NEW p \in Procs, FaultVictim(p)
    PROVE  DataInv' /\ memory' = memory /\ requests' = requests
<1> DEFINE o == [pc |-> "evict", kind |-> op[p].kind, pgn |-> op[p].pgn,
                 vic |-> Last(fifo_pgn[p])]
<1>1. /\ TypeOK /\ op[p].pc = "fault" /\ op' = [op EXCEPT ![p] = o]
      /\ fifo_pgn' = [fifo_pgn EXCEPT ![p] = Front(@)]
      /\ pte' = pte /\ vm_end' = vm_end /\ devVars' = devVars
    BY Zenon DEF FaultVictim, Do, PgInv
<1>2. o.pc = "evict" /\ o.kind = op[p].kind /\ o.pgn = op[p].pgn
    BY Zenon
<1> HIDE DEF o
<1>3. \A q \in Procs \ {p} : Untouched(q)
    BY <1>1, Zenon DEF TypeOK, Untouched
<1>4. op'[p] = o
    BY <1>1, Zenon DEF TypeOK
<1>5. FreeBlank' /\ TakenBlank(p)' /\ ramData' = ramData /\ swpData' = swpData
    BY <1>1, <1>2, <1>4 DEF FreeBlank, DataInv, TakenBlank, devVars, ListSet
<1>6. /\ DataInv' /\ memory' = memory
      /\ requests' = [requests EXCEPT ![p] = Request(p)']
    BY <1>1, <1>3, <1>5, StayStep, Zenon
<1> QED
    BY <1>1, <1>2, <1>4, <1>6, SameRequest, Zenon

\* An operation ends without storing anything.
LEMMA EndsMemory ==
    ASSUME PgInv, TypeOK', DataInv, NEW p \in Procs,
           UndoDone(p) \/ FaultNoVictim(p) \/ SwapFull(p) \/ ReadValue(p) \/ Exit(p)
    PROVE  /\ DataInv'
           /\ ProcessMemory!Leave(p) \/ (memory' = memory /\ requests' = requests)
<1>1. PICK o \in {Idle, Exited} : op' = [op EXCEPT ![p] = o]
    BY Zenon DEF UndoDone, FaultNoVictim, SwapFull, ReadValue, Exit, Return, Do
<1>2. TypeOK /\ devVars' = devVars /\ mmVars' = mmVars
    BY DEF UndoDone, FaultNoVictim, SwapFull, ReadValue, Exit, PgInv
<1>3. o \in OpSet /\ o.pc \in {"idle", "exited"}
    BY DEF Idle, Exited, OpSet
<1>4. pte' = pte /\ \A q \in Procs \ {p} : Untouched(q)
    BY <1>1, <1>2, Zenon DEF TypeOK, Untouched, mmVars
<1>5. /\ DataInv' /\ memory' = memory /\ op'[p] = o
      /\ requests' = [requests EXCEPT ![p] = Request(p)']
    BY <1>1, <1>2, <1>3, <1>4, OpData, Zenon
<1>6. Request(p)' = NoReq
    BY <1>3, <1>5, RequestOfPrime, Zenon
<1>7. CASE op[p].pc \in {"fault", "evict", "access"}
  <2>1. requests[p] # NoReq
    BY <1>2, <1>7, RequestOf, Zenon
  <2> QED
    BY <1>5, <1>6, <2>1 DEF ProcessMemory!Leave
<1>8. CASE op[p].pc \in {"undo", "idle"}
    BY <1>2, <1>3, <1>5, <1>8, SameRequest, Zenon
<1> QED
    BY <1>5, <1>7, <1>8 DEF UndoDone, FaultNoVictim, SwapFull, ReadValue, Exit, Idle

\* An access begins: it is a request of Memory.
LEMMA StartAccessMemory ==
    ASSUME PgInv, TypeOK', DataInv, NEW p \in Procs, NEW g \in Pages,
           StartRead(p, g) \/ StartWrite(p, g) \/ StartCopy(p, g)
    PROVE  DataInv' /\ \E kind \in Kinds : ProcessMemory!Ask(p, kind, g)
<1>1. PICK kind \in Kinds :
          op' = [op EXCEPT ![p] =
                    [pc |-> IF pte[p][g].where = "ram" THEN "access" ELSE "fault",
                     kind |-> kind, pgn |-> g]]
    BY Zenon DEF StartRead, StartWrite, StartCopy, Do, Kinds
<1> DEFINE o == [pc |-> IF pte[p][g].where = "ram" THEN "access" ELSE "fault",
                 kind |-> kind, pgn |-> g]
<1>2. o \in OpSet /\ o.pc \in {"fault", "access"} /\ o.pgn = g /\ o.kind = kind
    BY Zenon DEF OpSet
<1>3. TypeOK /\ op[p].pc = "idle" /\ devVars' = devVars /\ mmVars' = mmVars
    BY DEF StartRead, StartWrite, StartCopy, Idle, PgInv
<1>4. op' = [op EXCEPT ![p] = o]
    BY <1>1, Zenon
<1> HIDE DEF o
<1>5. pte' = pte /\ \A q \in Procs \ {p} : Untouched(q)
    BY <1>3, <1>4 DEF TypeOK, Untouched, mmVars
<1>6. /\ DataInv' /\ memory' = memory /\ op'[p] = o
      /\ requests' = [requests EXCEPT ![p] = Request(p)']
    BY <1>2, <1>3, <1>4, <1>5, OpData, Zenon
<1>7. Request(p)' = [kind |-> kind, pgn |-> g]
    BY <1>2, <1>6, RequestOfPrime, Zenon
<1>8. requests[p] = NoReq
    BY <1>3, RequestOf, Zenon
<1>9. ProcessMemory!Ask(p, kind, g)
    BY <1>6, <1>7, <1>8, Zenon DEF ProcessMemory!Ask
<1> QED
    BY <1>6, <1>9, Zenon
-----------------------------------------------------------------------------
(* Steps that move a frame between the lists of the RAM.                   *)

\* The next free frame, and what is left of the list.
LEMMA FreeRam ==
    ASSUME PgInv, HasFree(ram)
    PROVE  /\ NextFree(ram) \in ListSet(ram.free)
           /\ ListSet(Popped(ram).free) \subseteq ListSet(ram.free)
<1>1. ram.free \in Seq(RamFrames) /\ NoRepeat(ram.free) /\ ram.free # << >>
    BY Zenon DEF PgInv, TypeOK, Owners, Partition, HasFree
<1>2. /\ Head(ram.free) \in ListSet(ram.free)
      /\ ListSet(Tail(ram.free)) = ListSet(ram.free) \ {Head(ram.free)}
    BY <1>1, ListSetOfTail, Zenon
<1> QED
    BY <1>2, Zenon DEF NextFree, Popped

\* What MEMPHY_put_freefp puts on the free list.
LEMMA FreedByPut ==
    ASSUME NEW S, NEW m \in Device(S), NEW e \in S
    PROVE  \A f \in ListSet(MEMPHY_put_freefp(m, e).free) : f \in ListSet(m.free) \/ f = e
<1> DEFINE s == m.free
           t == <<e>> \o s
<1>1. s \in Seq(S)
    BY Zenon DEF Device
<1> HIDE DEF s
<1>2. t \in Seq(S) /\ Len(t) = Len(s) + 1 /\ t[1] = e /\ \A k \in 1 .. Len(s) : t[k + 1] = s[k]
    BY <1>1, PrependProperties
<1> HIDE DEF t
<1>3. ASSUME NEW k \in 1 .. Len(t) PROVE t[k] \in ListSet(s) \/ t[k] = e
  <2>1. Len(s) \in Nat
    BY <1>1
  <2>2. CASE k # 1
    <3>1. k - 1 \in 1 .. Len(s) /\ (k - 1) + 1 = k
        BY <1>2, <2>1, <2>2
    <3> QED
        BY <1>2, <3>1, Zenon DEF ListSet
  <2> QED
    BY <1>2, <2>2, Zenon
<1>4. \A f \in ListSet(t) : f \in ListSet(s) \/ f = e
    BY <1>3, Zenon DEF ListSet
<1>5. MEMPHY_put_freefp(m, e).free \in {s, t}
    BY Zenon DEF MEMPHY_put_freefp, s, t
<1> QED
    BY <1>4, <1>5, Zenon DEF s

\* The free frames after a step, and the data they hold.
LEMMA FreeStaysBlank ==
    ASSUME DataInv, ramData' = ramData,
           \A f \in ListSet(ram'.free) : f \in ListSet(ram.free) \/ ramData[f] = <<Zero>>
    PROVE  FreeBlank'
<1>1. \A f \in ListSet(ram'.free) : f < RamCells => ramData'[f] = <<Zero>>
    BY DEF DataInv, FreeBlank
<1> QED
    BY <1>1, Zenon DEF FreeBlank, ListSet

\* alloc_pages_range takes a frame, which is blank.
LEMMA AllocFrameMemory ==
    ASSUME PgInv, TypeOK', DataInv, InStorage', NEW p \in Procs, AllocFrame(p)
    PROVE  DataInv' /\ memory' = memory /\ requests' = requests
<1> DEFINE h == NextFree(ram)
           l == op[p].frames
           o == [op[p] EXCEPT !.frames = Append(l, h)]
<1>1. /\ TypeOK /\ op[p].pc = "grab" /\ HasFree(ram) /\ ram' = Popped(ram)
      /\ op' = [op EXCEPT ![p] = o] /\ ramData' = ramData /\ swpData' = swpData
      /\ mmVars' = mmVars /\ Area(p)
    BY Zenon DEF AllocFrame, Do, PgInv, Local
<1>2. op[p] \in [pc : {"grab", "undo"}, n : 1 .. MaxPages, frames : Seq(RamFrames)]
    BY <1>1, OpFields, Zenon
<1>3. l \in Seq(RamFrames) /\ NoRepeat(l)
    BY <1>1, <1>2, Zenon DEF Area
<1>4. h \in RamFrames /\ h \notin ListSet(l)
    BY <1>1, TakeRam, InFlightOf, Zenon
<1>5. ListSet(Append(l, h)) = ListSet(l) \cup {h}
    BY <1>3, <1>4, ListSetOfAppend
<1>6. o.pc = "grab" /\ o.frames = Append(l, h)
    BY <1>1, <1>2, Zenon
<1>7. h \in ListSet(ram.free) /\ ListSet(ram'.free) \subseteq ListSet(ram.free)
    BY <1>1, FreeRam, Zenon
<1> HIDE DEF o, l, h
<1>8. /\ op'[p] = o /\ pte' = pte /\ \A q \in Procs \ {p} : Untouched(q)
    BY <1>1, Zenon DEF TypeOK, Untouched, mmVars
<1>9. FreeBlank'
    BY <1>1, <1>7, FreeStaysBlank, Zenon
<1>10. TakenBlank(p)'
  <2>1. h \in InFlight(p)'
    BY <1>5, <1>6, <1>8, InFlightOfPrime, Zenon
  <2>2. h < RamCells
    <3>1. h \in ramOwn'[p]
        BY <2>1, OwnOf, Zenon
    <3> QED
        BY <3>1, Zenon DEF InStorage
  <2>3. \A f \in ListSet(Append(l, h)) : ramData'[f] = <<Zero>>
    BY <1>1, <1>5, <1>7, <2>2 DEF DataInv, FreeBlank, TakenBlank, l
  <2> QED
    BY <1>6, <1>8, <2>3, Zenon DEF TakenBlank, ListSet
<1>11. /\ DataInv' /\ memory' = memory
       /\ requests' = [requests EXCEPT ![p] = Request(p)']
    BY <1>1, <1>8, <1>9, <1>10, StayStep, Zenon
<1> QED
    BY <1>1, <1>6, <1>8, <1>11, SameRequest, Zenon

\* pg_getpage takes a free frame, which is blank.
LEMMA FaultFrameMemory ==
    ASSUME PgInv, TypeOK', DataInv, InStorage', NEW p \in Procs, FaultFrame(p)
    PROVE  DataInv' /\ memory' = memory /\ requests' = requests
<1> DEFINE h == NextFree(ram)
           o == [pc |-> "fill", kind |-> op[p].kind, pgn |-> op[p].pgn, tgt |-> h]
<1>1. /\ TypeOK /\ op[p].pc = "fault" /\ HasFree(ram) /\ ram' = Popped(ram)
      /\ op' = [op EXCEPT ![p] = o] /\ ramData' = ramData /\ swpData' = swpData
      /\ mmVars' = mmVars
    BY Zenon DEF FaultFrame, Do, PgInv
<1>2. h \in ListSet(ram.free) /\ ListSet(ram'.free) \subseteq ListSet(ram.free)
    BY <1>1, FreeRam, Zenon
<1>3. o.pc = "fill" /\ o.kind = op[p].kind /\ o.pgn = op[p].pgn /\ o.tgt = h
    BY Zenon
<1> HIDE DEF o, h
<1>4. /\ op'[p] = o /\ pte' = pte /\ \A q \in Procs \ {p} : Untouched(q)
    BY <1>1, Zenon DEF TypeOK, Untouched, mmVars
<1>5. FreeBlank'
    BY <1>1, <1>2, FreeStaysBlank, Zenon
<1>6. TakenBlank(p)'
  <2>1. h \in InFlight(p)'
    BY <1>3, <1>4, InFlightOfPrime, Zenon
  <2>2. h < RamCells
    <3>1. h \in ramOwn'[p]
        BY <2>1, OwnOf, Zenon
    <3> QED
        BY <3>1, Zenon DEF InStorage
  <2> QED
    BY <1>1, <1>2, <1>3, <1>4, <2>2, Zenon DEF DataInv, FreeBlank, TakenBlank
<1>7. /\ DataInv' /\ memory' = memory
      /\ requests' = [requests EXCEPT ![p] = Request(p)']
    BY <1>1, <1>4, <1>5, <1>6, StayStep, Zenon
<1> QED
    BY <1>1, <1>3, <1>4, <1>7, SameRequest, Zenon

\* The frames of a failed allocation go back as blank as they came.
LEMMA UndoFrameMemory ==
    ASSUME PgInv, TypeOK', DataInv, NEW p \in Procs, UndoFrame(p)
    PROVE  DataInv' /\ memory' = memory /\ requests' = requests
<1> DEFINE l == op[p].frames
           e == Head(l)
           o == [op[p] EXCEPT !.frames = Tail(l)]
<1>1. /\ TypeOK /\ op[p].pc = "undo" /\ l # << >>
      /\ ram' = MEMPHY_put_freefp(ram, e)
      /\ op' = [op EXCEPT ![p] = o] /\ ramData' = ramData /\ swpData' = swpData
      /\ mmVars' = mmVars /\ Area(p)
    BY Zenon DEF UndoFrame, Do, PgInv, Local
<1>2. op[p] \in [pc : {"grab", "undo"}, n : 1 .. MaxPages, frames : Seq(RamFrames)]
    BY <1>1, OpFields, Zenon
<1>3. l \in Seq(RamFrames) /\ NoRepeat(l)
    BY <1>1, <1>2, Zenon DEF Area
<1>4. e \in RamFrames /\ e \in ListSet(l) /\ ListSet(Tail(l)) = ListSet(l) \ {e}
    BY <1>1, <1>3, ListSetOfTail, Zenon
<1>5. o.pc = "undo" /\ o.frames = Tail(l)
    BY <1>1, <1>2, Zenon
<1>6. \A f \in ListSet(l) : ramData[f] = <<Zero>>
    BY <1>1, Zenon DEF DataInv, TakenBlank
<1> HIDE DEF o, l, e
<1>7. /\ op'[p] = o /\ pte' = pte /\ \A q \in Procs \ {p} : Untouched(q)
    BY <1>1, Zenon DEF TypeOK, Untouched, mmVars
<1>8. \A f \in ListSet(ram'.free) : f \in ListSet(ram.free) \/ ramData[f] = <<Zero>>
  <2>1. ram \in Device(RamFrames)
    BY <1>1, Zenon DEF TypeOK, Device
  <2>2. \A f \in ListSet(ram'.free) : f \in ListSet(ram.free) \/ f = e
    BY <1>1, <1>4, <2>1, FreedByPut, Zenon
  <2> QED
    BY <1>4, <1>6, <2>2, Zenon
<1>9. FreeBlank'
    BY <1>1, <1>8, FreeStaysBlank, Zenon
<1>10. TakenBlank(p)'
  <2>1. \A f \in ListSet(Tail(l)) : ramData'[f] = <<Zero>>
    BY <1>1, <1>4, <1>6, Zenon
  <2> QED
    BY <1>5, <1>7, <2>1, Zenon DEF TakenBlank, ListSet
<1>11. /\ DataInv' /\ memory' = memory
       /\ requests' = [requests EXCEPT ![p] = Request(p)']
    BY <1>1, <1>7, <1>9, <1>10, StayStep, Zenon
<1> QED
    BY <1>1, <1>5, <1>7, <1>11, SameRequest, Zenon
-----------------------------------------------------------------------------
(* Steps that change the page table or store in a frame.                   *)

\* The new pages of vmap_page_range appear blank.
LEMMA MapFramesMemory ==
    ASSUME PgInv, TypeOK', DataInv, NumRam <= FpnLimit, NEW p \in Procs, MapFrames(p)
    PROVE  DataInv' /\ \E G \in SUBSET Pages : ProcessMemory!Appear(p, G)
<1> DEFINE l == op[p].frames
           n == op[p].n
           v == vm_end[p]
           New == v - n .. v - 1
           new == [g \in New |-> <<Zero>>]
<1>1. /\ TypeOK /\ op[p].pc = "grab" /\ devVars' = devVars /\ vm_end' = vm_end
      /\ op' = [op EXCEPT ![p] = Idle]
    BY Zenon DEF PgInv, MapFrames, Return, Do
<1>2. /\ v \in Nat /\ n \in Nat /\ n <= v /\ New \subseteq Pages
      /\ l \in Seq(RamFrames) /\ Len(l) = n
      /\ \A g \in New : pte[p][g] = NoPage
      /\ \A g \in New : pte'[p][g].where = "ram" /\ pte'[p][g].fpn = l[g - (v - n) + 1]
      /\ \A g \in Pages \ New : pte'[p][g] = pte[p][g]
      /\ \A q \in Procs \ {p} : pte'[q] = pte[q]
    BY MapFramesEntries, Zenon
<1>3. n \in 1 .. MaxPages
    BY <1>1, OpFields, Zenon
<1>4. op'[p] = Idle /\ \A q \in Procs \ {p} : op'[q] = op[q]
    BY <1>1, Zenon DEF TypeOK
<1>5. \A q \in Procs \ {p} : fifo_pgn'[q] = fifo_pgn[q]
    BY MapFramesFifo, Zenon
<1>6. /\ ram' = ram /\ ramData' = ramData /\ swpData' = swpData
      /\ \A q \in Procs : KeepsData(q)
    BY <1>1, Zenon DEF devVars, KeepsData
<1>7. \A q \in Procs \ {p} : Untouched(q)
    BY <1>1, <1>2, <1>4, <1>5, Zenon DEF Untouched
<1>8. FreeBlank' /\ TakenBlank(p)'
    BY <1>4, <1>6 DEF DataInv, FreeBlank, TakenBlank, ListSet, Idle
<1>9. DataInv'
    BY <1>6, <1>7, <1>8, DataStep, Zenon
<1>10. \A f \in ListSet(l) : ramData[f] = <<Zero>>
    BY <1>1, Zenon DEF DataInv, TakenBlank
<1> HIDE DEF l, n, v
<1>11. \A g \in New : g - (v - n) + 1 \in 1 .. n
    BY <1>2, PlaceOfPage, Zenon
<1>12. New # {}
  <2>1. v - n \in New
    BY <1>2, <1>3
  <2> QED
    BY <2>1, Zenon
<1> HIDE DEF New
<1>13. \A g \in New : l[g - (v - n) + 1] \in ListSet(l)
    BY <1>2, <1>11, Zenon DEF ListSet
<1>14. ASSUME NEW g \in New PROVE Contents(p, g)' = <<Zero>> /\ memory[p][g] = Absent
  <2>1. g \in Pages /\ pte[p][g].where = "none"
    BY <1>2 DEF NoPage
  <2>2. Contents(p, g)' = ramData'[pte'[p][g].fpn]
    BY <1>2, <2>1, ContentsOfPrime, Zenon
  <2>3. Contents(p, g) = Absent
    BY <1>1, <2>1, ContentsOf, Zenon
  <2> QED
    BY <1>2, <1>6, <1>10, <1>13, <2>1, <2>2, <2>3, Zenon DEF memory
<1>15. \A g \in Pages \ New : Contents(p, g)' = Contents(p, g)
    BY <1>1, <1>2, <1>6, PageKept, Zenon
<1>16. /\ memory' = [memory EXCEPT ![p] = [g \in Pages |-> Contents(p, g)']]
       /\ requests' = [requests EXCEPT ![p] = Request(p)']
    BY <1>6, <1>7, MemoryStep
<1>17. requests' = requests
  <2>1. op'[p].pc = "idle"
    BY <1>4 DEF Idle
  <2> QED
    BY <1>1, <1>16, <2>1, SameRequest, Zenon
<1>18. [g \in Pages |-> Contents(p, g)'] =
           [g \in Pages |-> IF g \in New THEN new[g] ELSE memory[p][g]]
    BY <1>14, <1>15, Zenon DEF memory
<1>19. new \in [New -> {<<Zero>>} \cup {memory[p][h] : h \in Pages}]
    OBVIOUS
<1> HIDE DEF new
<1>20. ProcessMemory!Appear(p, New)
    BY <1>12, <1>14, <1>16, <1>17, <1>18, <1>19, Zenon DEF ProcessMemory!Appear
<1> QED
    BY <1>2, <1>9, <1>20, Zenon

\* Storing in a frame that p holds shows to nobody else.
LEMMA StoredInOwn ==
    ASSUME PgInv, DataInv, NEW p \in Procs, NEW f \in ramOwn[p], f \in RamFrames,
           \A h \in RamFrames \ {f} : ramData'[h] = ramData[h],
           swpData' = swpData, ram' = ram
    PROVE  FreeBlank' /\ \A q \in Procs \ {p} : KeepsData(q)
<1>1. Owners(ram, RamFrames, Procs, ramOwn)
    BY Zenon DEF PgInv
<1>3. \A q \in Procs : ramOwn[q] \subseteq ListSet(ram.used)
    BY <1>1, Zenon DEF Owners
<1>4. /\ ListSet(ram.used) \subseteq RamFrames /\ ListSet(ram.free) \subseteq RamFrames
      /\ f \notin ListSet(ram.free)
    BY <1>1, <1>3, Zenon DEF Owners, Partition
<1>5. \A q \in Procs \ {p} : f \notin ramOwn[q] /\ ramOwn[q] \subseteq RamFrames
    BY <1>1, <1>3, <1>4, Zenon DEF Owners
<1>6. \A q \in Procs \ {p} : KeepsData(q)
    BY <1>5, Zenon DEF KeepsData
<1>7. \A h \in ListSet(ram.free) : h < RamCells => ramData'[h] = <<Zero>>
    BY <1>4, Zenon DEF DataInv, FreeBlank
<1>8. FreeBlank'
    BY <1>7, Zenon DEF FreeBlank, ListSet
<1> QED
    BY <1>6, <1>8, Zenon

\* The swap frames that the processes hold.
LEMMA OwnedSwap ==
    ASSUME PgInv
    PROVE  \A q \in Procs : swpOwn[q] \subseteq SwapFrames
    BY Zenon DEF PgInv, Owners, Partition

\* A frame of the swap device that was free belongs to nobody.
LEMMA FreeSwap ==
    ASSUME PgInv, HasFree(swp)
    PROVE  NextFree(swp) \in SwapFrames /\ \A q \in Procs : NextFree(swp) \notin swpOwn[q]
<1>1. swp \in Device(SwapFrames) /\ Partition(swp, SwapFrames)
    BY Zenon DEF PgInv, Owners
<1>2. NextFree(swp) \in SwapFrames \ ListSet(swp.used)
    BY <1>1, PoppedPartition
<1> QED
    BY <1>2, Zenon DEF PgInv, Owners

\* The memory after a step that changes at most one page of p.
LEMMA OnePage ==
    ASSUME NEW p \in Procs, NEW g \in Pages,
           memory' = [memory EXCEPT ![p] = [h \in Pages |-> Contents(p, h)']],
           \A h \in Pages \ {g} : Contents(p, h)' = Contents(p, h)
    PROVE  /\ memory' = [memory EXCEPT ![p][g] = Contents(p, g)']
           /\ Contents(p, g)' = Contents(p, g) => memory' = memory
<1> DEFINE new == [h \in Pages |-> Contents(p, h)']
<1>1. memory[p] = [h \in Pages |-> Contents(p, h)]
    BY DEF memory
<1>2. new = [memory[p] EXCEPT ![g] = Contents(p, g)']
    BY <1>1
<1>3. memory = [q \in Procs |-> memory[q]]
    BY DEF memory
<1>4. Contents(p, g)' = Contents(p, g) => new = memory[p]
    BY <1>1
<1>5. memory' = [memory EXCEPT ![p] = new]
    BY Zenon
<1> HIDE DEF new
<1> QED
    BY <1>2, <1>3, <1>4, <1>5, Zenon

\* pg_setval and __write_user_mem: the page holds what was stored.
LEMMA StoreMemory ==
    ASSUME PgInv, TypeOK', DataInv, InStorage, NEW p \in Procs, NEW d \in Data,
           op[p].pc = "access", StoreInPage(p, d),
           \/ op[p].kind = "write" /\ d \in {<<p, v>> : v \in Values}
           \/ op[p].kind = "copy" /\ d = <<Zero>>
    PROVE  DataInv' /\ ProcessMemory!Store(p, d)
<1>1. /\ TypeOK /\ Placed(p) /\ Accessed(p)
      /\ op' = [op EXCEPT ![p] = Idle] /\ mmVars' = mmVars
      /\ ram' = ram /\ swpData' = swpData
    BY Zenon DEF PgInv, Local, StoreInPage, Return, Do
<1>2. PICK g \in Pages : g = op[p].pgn /\ pte[p][g].where = "ram"
    BY <1>1, OpFields, Zenon DEF Accessed
<1>3. PICK f \in RamFrames : f = pte[p][g].fpn /\ f \in ramOwn[p]
    BY <1>1, <1>2, EntryOf, PlaceOwned, Zenon
<1>4. ramData' = [ramData EXCEPT ![f] = d]
  <2>1. Stored(RamCells, f, d) = {d}
    BY <1>3, Zenon DEF Stored, InStorage
  <2> QED
    BY <1>2, <1>3, <2>1 DEF StoreInPage
<1>5. /\ FreeBlank' /\ \A q \in Procs \ {p} : KeepsData(q)
      /\ ramData'[f] = d /\ \A h \in RamFrames \ {f} : ramData'[h] = ramData[h]
  <2>1. ramData'[f] = d /\ \A h \in RamFrames \ {f} : ramData'[h] = ramData[h]
    BY <1>1, <1>4, Zenon DEF TypeOK
  <2> QED
    BY <1>1, <1>3, <2>1, StoredInOwn, Zenon
<1>6. pte' = pte /\ op'[p] = Idle /\ \A q \in Procs \ {p} : Untouched(q)
    BY <1>1, Zenon DEF TypeOK, Untouched, mmVars
<1>7. op'[p].pc = "idle" /\ TakenBlank(p)'
  <2>1. op'[p].pc = "idle"
    BY <1>6 DEF Idle
  <2>2. op'[p].pc \notin {"grab", "undo"} /\ op'[p].pc # "fill"
    BY <2>1
  <2> QED
    BY <2>1, <2>2, Zenon DEF TakenBlank
<1>8. DataInv'
    BY <1>5, <1>6, <1>7, DataStep, Zenon
<1>9. /\ memory' = [memory EXCEPT ![p] = [h \in Pages |-> Contents(p, h)']]
      /\ requests' = [requests EXCEPT ![p] = NoReq]
    BY <1>5, <1>6, <1>7, MemoryStep, RequestOfPrime, SMTT(30)
<1>10. Contents(p, g)' = d
    BY <1>2, <1>3, <1>5, <1>6, ContentsOfPrime, Zenon
<1>11. ASSUME NEW h \in Pages \ {g} PROVE Contents(p, h)' = Contents(p, h)
  <2>1. pte[p][h].where = "ram" => pte[p][h].fpn \in RamFrames \ {f}
    BY <1>1, <1>2, <1>3, EntryOf, Zenon DEF Placed, SamePlace
  <2> QED
    BY <1>1, <1>5, <1>6, <2>1, PageKept, Zenon
<1>12. memory' = [memory EXCEPT ![p][g] = d]
  <2>1. \A h \in Pages \ {g} : Contents(p, h)' = Contents(p, h)
    BY <1>11, Zenon
  <2> QED
    BY <1>9, <1>10, <2>1, OnePage, Zenon
<1>13. /\ requests[p] # NoReq /\ requests[p].kind = op[p].kind /\ requests[p].pgn = g
  <2>1. requests[p] # NoReq /\ requests[p] = [kind |-> op[p].kind, pgn |-> op[p].pgn]
    BY <1>1, RequestOf, Zenon
  <2> QED
    BY <1>2, <2>1
<1>14. memory[p][g] # Absent
  <2>1. Contents(p, g) = ramData[f]
    BY <1>1, <1>2, <1>3, ContentsOf
  <2>2. ramData[f] \in Data
    BY <1>1, Zenon DEF TypeOK
  <2>3. Absent \notin Data
    BY DEF Data, Absent
  <2> QED
    BY <2>1, <2>2, <2>3, Zenon DEF memory
<1>15. ProcessMemory!Store(p, d)
    BY <1>9, <1>12, <1>13, <1>14, Zenon DEF ProcessMemory!Store
<1> QED
    BY <1>8, <1>15, Zenon

\* The copy in swap takes the place of the victim's frame.
LEMMA SwapOutMemory ==
    ASSUME PgInv, TypeOK', DataInv, InStorage', NEW p \in Procs, SwapOut(p)
    PROVE  DataInv' /\ memory' = memory /\ requests' = requests
<1>1. /\ TypeOK /\ op[p].pc = "evict" /\ HasFree(swp) /\ Fifo(p)
      /\ ram' = ram /\ ramData' = ramData /\ fifo_pgn' = fifo_pgn /\ vm_end' = vm_end
    BY DEF SwapOut, PgInv, Local
<1>2. PICK vic \in Pages : vic = op[p].vic /\ pte[p][vic].where = "ram"
    BY <1>1, OpFields, Zenon DEF Fifo
<1>3. PICK s \in SwapFrames : s = NextFree(swp) /\ \A q \in Procs : s \notin swpOwn[q]
    BY <1>1, FreeSwap, Zenon
<1>4. PICK f \in RamFrames : f = pte[p][vic].fpn
    BY <1>1, <1>2, EntryOf, Zenon
<1> DEFINE o == [pc |-> "fill", kind |-> op[p].kind, pgn |-> op[p].pgn, tgt |-> f]
<1>5. pte' = [pte EXCEPT ![p][vic] = InSwap(s)] /\ op' = [op EXCEPT ![p] = o]
    BY <1>2, <1>3, <1>4 DEF SwapOut, Do
<1>6. o.pc = "fill" /\ o.kind = op[p].kind /\ o.pgn = op[p].pgn /\ o.tgt = f
    OBVIOUS
<1> HIDE DEF o
<1>7. /\ pte'[p][vic] = InSwap(s) /\ \A h \in Pages \ {vic} : pte'[p][h] = pte[p][h]
      /\ \A q \in Procs \ {p} : pte'[q] = pte[q]
  <2>1. InSwap(s) \in PteSet
    BY <1>3 DEF InSwap, PteSet
  <2> QED
    BY <1>1, <1>5, <2>1, OneEntry, Zenon
<1>8. swpData' = [swpData EXCEPT ![s] = ramData[f]]
  <2>1. pte'[p][vic].where = "swap" /\ pte'[p][vic].swpfpn = s
    BY <1>7 DEF InSwap
  <2>2. s \in swpOwn'[p]
    BY <2>1, PlaceOwnedPrime, Zenon
  <2>3. Stored(SwapCells, s, ramData[f]) = {ramData[f]}
    BY <2>2, Zenon DEF Stored, InStorage
  <2> QED
    BY <1>2, <1>3, <1>4, <2>3, Zenon DEF SwapOut
<1>9. swpData'[s] = ramData[f] /\ \A h \in SwapFrames \ {s} : swpData'[h] = swpData[h]
    BY <1>1, <1>3, <1>8, Zenon DEF TypeOK
<1>10. op'[p] = o /\ \A q \in Procs \ {p} : Untouched(q)
    BY <1>1, <1>5, <1>7, Zenon DEF TypeOK, Untouched
<1>11. \A q \in Procs : swpOwn[q] \subseteq SwapFrames
    BY OwnedSwap
<1>12. \A q \in Procs \ {p} : KeepsData(q)
    BY <1>1, <1>3, <1>9, <1>11, Zenon DEF KeepsData
<1>13. Contents(p, vic) = ramData[f]
    BY <1>1, <1>2, <1>4, ContentsOf, Zenon
<1>14. Contents(p, vic)' = ramData[f]
  <2>1. pte'[p][vic].where = "swap" /\ pte'[p][vic].swpfpn = s
    BY <1>7 DEF InSwap
  <2> QED
    BY <1>9, <2>1, ContentsOfPrime, Zenon
<1>15. ASSUME NEW h \in Pages \ {vic} PROVE Contents(p, h)' = Contents(p, h)
  <2>1. pte[p][h].where = "swap" => pte[p][h].swpfpn \in SwapFrames \ {s}
    BY <1>3, <1>11, PlaceOwned, Zenon
  <2> QED
    BY <1>1, <1>9, <1>7, <2>1, PageKept, Zenon
<1>16. FreeBlank'
    BY <1>1, Zenon DEF DataInv, FreeBlank, ListSet
<1>17. TakenBlank(p)'
  <2>1. \E h \in Pages : ramData'[op'[p].tgt] = Contents(p, h)'
    BY <1>1, <1>6, <1>10, <1>14
  <2> QED
    BY <1>6, <1>10, <2>1, Zenon DEF TakenBlank, Pages
<1>18. DataInv'
    BY <1>10, <1>12, <1>16, <1>17, DataStep, Zenon
<1>19. /\ memory' = [memory EXCEPT ![p] = [h \in Pages |-> Contents(p, h)']]
       /\ requests' = [requests EXCEPT ![p] = Request(p)']
    BY <1>10, <1>12, MemoryStep
<1>20. memory' = memory
    BY <1>13, <1>14, <1>15, <1>19, OnePage, Zenon
<1>21. requests' = requests
    BY <1>1, <1>6, <1>10, <1>19, SameRequest, Zenon
<1> HIDE DEF o
<1> QED
    BY <1>18, <1>20, <1>21, Zenon

\* A page that comes back from swap holds what it held there; one that was
\* never mapped appears with what its frame holds.
LEMMA FillMemory ==
    ASSUME PgInv, TypeOK', DataInv, NumRam <= FpnLimit, InStorage,
           NEW p \in Procs, Fill(p)
    PROVE  /\ DataInv' /\ requests' = requests
           /\ memory' = memory \/ \E g \in Pages : ProcessMemory!Appear(p, {g})
<1>1. /\ TypeOK /\ op[p].pc = "fill" /\ Placed(p) /\ Accessed(p)
      /\ ram' = ram /\ swpData' = swpData /\ vm_end' = vm_end
    BY Zenon DEF Fill, PgInv, Local
<1>2. PICK g \in Pages, f \in RamFrames :
          g = op[p].pgn /\ f = op[p].tgt /\ pte[p][g].where # "ram"
    BY <1>1, OpFields DEF Accessed
<1> DEFINE o == [pc |-> "access", kind |-> op[p].kind, pgn |-> g]
<1>3. /\ pte' = [pte EXCEPT ![p][g] = InRam(f)] /\ op' = [op EXCEPT ![p] = o]
      /\ fifo_pgn' = [fifo_pgn EXCEPT ![p] = <<g>> \o @]
    BY <1>2, Zenon DEF Fill, Do
<1>4. o.pc = "access" /\ o.kind = op[p].kind /\ o.pgn = op[p].pgn
    BY <1>2, Zenon
<1> HIDE DEF o
<1>5. f \in ramOwn[p] /\ f \notin MappedFrames(p)
    BY <1>1, <1>2, InFlightOf, OwnOf, Zenon DEF Placed
<1>6. InRam(f).where = "ram" /\ InRam(f).fpn = f /\ InRam(f) \in PteSet
    BY InRamOf
<1>7. /\ pte'[p][g].where = "ram" /\ pte'[p][g].fpn = f
      /\ \A h \in Pages \ {g} : pte'[p][h] = pte[p][h]
      /\ \A q \in Procs \ {p} : pte'[q] = pte[q]
    BY <1>1, <1>3, <1>6, OneEntry, Zenon
<1>8. op'[p] = o /\ \A q \in Procs \ {p} : Untouched(q)
    BY <1>1, <1>3, <1>7, Zenon DEF TypeOK, Untouched
<1>9. \/ /\ pte[p][g].where = "swap"
         /\ ramData' = [ramData EXCEPT ![f] = swpData[pte[p][g].swpfpn]]
      \/ pte[p][g].where = "none" /\ ramData' = ramData
  <2>1. \A d : Stored(RamCells, f, d) = {d}
    BY <1>5 DEF Stored, InStorage
  <2>2. \/ /\ pte[p][g].where = "swap"
           /\ \E d \in Stored(RamCells, f, swpData[pte[p][g].swpfpn]) :
                  ramData' = [ramData EXCEPT ![f] = d]
        \/ pte[p][g].where # "swap" /\ ramData' = ramData
    BY <1>2, Zenon DEF Fill
  <2>3. pte[p][g].where \in {"none", "ram", "swap"}
    BY <1>1, ContentsOf, Zenon
  <2>4. CASE pte[p][g].where = "swap"
    BY <2>1, <2>2, <2>4, SMTT(30)
  <2>5. CASE pte[p][g].where # "swap"
    BY <1>2, <2>2, <2>3, <2>5, Zenon
  <2> QED
    BY <2>4, <2>5, Zenon
<1>10. \A h \in RamFrames \ {f} : ramData'[h] = ramData[h]
    BY <1>1, <1>9, Zenon DEF TypeOK
<1>11. FreeBlank' /\ \A q \in Procs \ {p} : KeepsData(q)
    BY <1>1, <1>5, <1>10, StoredInOwn, Zenon
<1>12. TakenBlank(p)'
    BY <1>4, <1>8, Zenon DEF TakenBlank
<1>13. DataInv'
    BY <1>8, <1>11, <1>12, DataStep, Zenon
<1>14. /\ memory' = [memory EXCEPT ![p] = [h \in Pages |-> Contents(p, h)']]
       /\ requests' = [requests EXCEPT ![p] = Request(p)']
    BY <1>8, <1>11, MemoryStep
<1>15. requests' = requests
    BY <1>1, <1>4, <1>8, <1>14, SameRequest, Zenon
<1>16. ASSUME NEW h \in Pages \ {g} PROVE Contents(p, h)' = Contents(p, h)
  <2>1. pte[p][h].where = "ram" => pte[p][h].fpn \in RamFrames \ {f}
    BY <1>1, <1>5, EntryOf, Zenon DEF MappedFrames
  <2> QED
    BY <1>1, <1>7, <1>10, <2>1, PageKept, Zenon
<1>17. Contents(p, g)' = ramData'[f]
    BY <1>7, ContentsOfPrime, Zenon
<1>18. /\ memory' = [memory EXCEPT ![p][g] = Contents(p, g)']
       /\ Contents(p, g)' = Contents(p, g) => memory' = memory
    BY <1>14, <1>16, OnePage, Zenon
<1>19. CASE /\ pte[p][g].where = "swap"
            /\ ramData' = [ramData EXCEPT ![f] = swpData[pte[p][g].swpfpn]]
  <2>1. ramData'[f] = swpData[pte[p][g].swpfpn]
    BY <1>1, <1>19, Zenon DEF TypeOK
  <2>2. Contents(p, g) = swpData[pte[p][g].swpfpn]
    BY <1>1, <1>19, ContentsOf, Zenon
  <2> QED
    BY <1>13, <1>15, <1>17, <1>18, <2>1, <2>2, Zenon
<1>20. CASE pte[p][g].where = "none" /\ ramData' = ramData
  <2> DEFINE d == ramData[f]
             new == [h \in {g} |-> d]
             now == [h \in Pages |-> IF h \in {g} THEN new[h] ELSE memory[p][h]]
  <2>1. d = <<Zero>> \/ \E h \in Pages : d = memory[p][h]
    BY <1>1, <1>2, Zenon DEF DataInv, TakenBlank, memory
  <2>2. memory[p][g] = Absent
    BY <1>1, <1>20, ContentsOf, Zenon DEF memory
  <2>3. memory' = [memory EXCEPT ![p][g] = d]
    BY <1>17, <1>18, <1>20, Zenon
  <2> HIDE DEF d
  <2>4. new \in [{g} -> {<<Zero>>} \cup {memory[p][h] : h \in Pages}]
    BY <2>1
  <2>5. [memory[p] EXCEPT ![g] = d] = now
    BY Zenon DEF memory
  <2>6. memory' = [memory EXCEPT ![p] = now]
    BY <2>3, <2>5, Zenon
  <2> HIDE DEF new
  <2>7. ProcessMemory!Appear(p, {g})
    BY <1>15, <2>2, <2>4, <2>6, Zenon DEF ProcessMemory!Appear
  <2> QED
    BY <1>13, <1>15, <2>7, Zenon
<1> QED
    BY <1>9, <1>19, <1>20, SMTT(30)
-----------------------------------------------------------------------------
\* Both devices start out clear.
LEMMA InitMemory ==
    ASSUME Init
    PROVE  DataInv /\ ProcessMemory!Init
<1>1. PgInv
    BY InitPgInv, Zenon
<1>2. /\ \A p \in Procs : op[p] = Idle /\ \A g \in Pages : pte[p][g].where = "none"
      /\ ramData \in Formatted(NumRam, RamCells)
    BY Zenon DEF Init, NoPage
<1>3. \A f \in RamFrames : f < RamCells => ramData[f] = <<Zero>>
    BY <1>2, PagingAssumption DEF Formatted, RamFrames
<1>4. ListSet(ram.free) \subseteq RamFrames
    BY <1>1, Zenon DEF PgInv, Owners, Partition
<1>5. DataInv
    BY <1>2, <1>3, <1>4 DEF DataInv, FreeBlank, TakenBlank, Idle
<1>6. \A p \in Procs : Request(p) = NoReq /\ \A g \in Pages : Contents(p, g) = Absent
    BY <1>2 DEF Request, Contents, Idle
<1>7. ProcessMemory!Init
    BY <1>6, Zenon DEF ProcessMemory!Init, memory, requests
<1> QED
    BY <1>5, <1>7

\* A step of nobody.
LEMMA SameMemory ==
    ASSUME PgInv, DataInv, UNCHANGED vars
    PROVE  DataInv' /\ memory' = memory /\ requests' = requests
<1>1. TypeOK'
    BY SamePgInv, Zenon DEF PgInv
<1>2. ram' = ram /\ ramData' = ramData /\ \A p \in Procs : Untouched(p) /\ KeepsData(p)
    BY Zenon DEF vars, devVars, mmVars, Untouched, KeepsData
<1>3. \A p \in Procs : /\ \A g \in Pages : Contents(p, g)' = Contents(p, g)
                       /\ Request(p)' = Request(p) /\ TakenBlank(p)'
    BY <1>1, <1>2, OthersKept, Zenon
<1>4. FreeBlank'
    BY <1>2, Zenon DEF DataInv, FreeBlank, ListSet
<1>5. memory' = memory /\ requests' = requests
    BY <1>3, Zenon DEF memory, requests, Pages
<1> QED
    BY <1>3, <1>4, <1>5, Zenon DEF DataInv

\* Every step keeps DataInv and is a step or a stutter of Memory.
LEMMA NextMemory ==
    ASSUME PgInv, PgInv', DataInv, [Next]_vars,
           NumRam <= FpnLimit, InStorage, InStorage'
    PROVE  DataInv' /\ [ProcessMemory!Next]_(ProcessMemory!vars)
<1> DEFINE Stays == memory' = memory /\ requests' = requests
           Goal == DataInv' /\ (ProcessMemory!Next \/ Stays)
<1>1. TypeOK'
    BY DEF PgInv
<1>2. ASSUME UNCHANGED vars PROVE Goal
    BY <1>2, SameMemory, Zenon
<1>3. ASSUME NEW p \in Procs, Step(p) PROVE Goal
  <2>1. CASE IncVmaLimit(p) \/ AllocFrame(p) \/ AllocFails(p) \/ UndoFrame(p)
    BY <1>1, <2>1, IncVmaLimitMemory, AllocFrameMemory, AllocFailsMemory,
       UndoFrameMemory, Zenon
  <2>2. CASE FaultFrame(p) \/ FaultVictim(p) \/ SwapOut(p)
    BY <1>1, <2>2, FaultFrameMemory, FaultVictimMemory, SwapOutMemory, Zenon
  <2>3. CASE UndoDone(p) \/ FaultNoVictim(p) \/ SwapFull(p) \/ ReadValue(p)
    BY <1>1, <2>3, EndsMemory, Zenon DEF ProcessMemory!Next
  <2>4. CASE MapFrames(p)
    BY <1>1, <2>4, MapFramesMemory, Zenon DEF ProcessMemory!Next
  <2>5. CASE Fill(p)
    BY <1>1, <2>5, FillMemory, Zenon DEF ProcessMemory!Next
  <2>6. CASE WriteCopy(p)
    <3>1. <<Zero>> \in Data /\ op[p].pc = "access" /\ op[p].kind = "copy"
        BY <2>6 DEF Data, WriteCopy
    <3>2. DataInv' /\ ProcessMemory!Store(p, <<Zero>>)
        BY <1>1, <2>6, <3>1, StoreMemory, Zenon DEF WriteCopy
    <3> QED
        BY <3>2 DEF ProcessMemory!Next
  <2>7. ASSUME NEW v \in Values, WriteValue(p, v) PROVE Goal
    <3>1. <<p, v>> \in Data /\ op[p].pc = "access" /\ op[p].kind = "write"
        BY <2>7 DEF Data, WriteValue
    <3>2. <<p, v>> \in {<<p, w>> : w \in Values}
        BY Zenon
    <3>3. DataInv' /\ ProcessMemory!Store(p, <<p, v>>)
        BY <1>1, <2>7, <3>1, <3>2, StoreMemory, Zenon DEF WriteValue
    <3> QED
        BY <3>2, <3>3, Zenon DEF ProcessMemory!Next
  <2> QED
    BY <1>3, <2>1, <2>2, <2>3, <2>4, <2>5, <2>6, <2>7 DEF Step
<1>4. ASSUME NEW p \in Procs, Call(p) PROVE Goal
  <2>1. CASE \E n \in 1 .. MaxPages - vm_end[p] : Alloc(p, n) \/ SysMemInc(p, n)
    BY <1>1, <2>1, StartIncMemory, Zenon
  <2>2. CASE \E g \in Pages : StartRead(p, g) \/ StartWrite(p, g) \/ StartCopy(p, g)
    <3>1. \E g \in Pages : DataInv' /\ \E kind \in Kinds : ProcessMemory!Ask(p, kind, g)
        BY <1>1, <2>2, StartAccessMemory, Zenon
    <3> QED
        BY <3>1, Zenon DEF ProcessMemory!Next, ProcessMemory!Kinds, Kinds
  <2>3. CASE Exit(p)
    BY <1>1, <2>3, EndsMemory, Zenon DEF ProcessMemory!Next
  <2> QED
    BY <1>4, <2>1, <2>2, <2>3, Zenon DEF Call
<1>5. Goal
    BY <1>2, <1>3, <1>4, Zenon DEF Next, AllDone
<1> QED
    BY <1>5, Zenon DEF ProcessMemory!vars

(***************************************************************************)
(* Paging is a memory of each process's own: for any number of processes,  *)
(* pages and frames, a page holds what its process last stored there, and  *)
(* never what another process stored, although frames are handed on        *)
(* without being cleared (libmem.c:221-281).  It is one for as long as the *)
(* frames handed out lie inside the storage, which is smaller than the     *)
(* frame lists (mm-memphy.c:289), and page table entries must be able to   *)
(* hold every frame number.                                                *)
(***************************************************************************)
THEOREM PagingImplementsMemory ==
    ASSUME NumRam <= FpnLimit
    PROVE  Spec /\ []InStorage => ImplementsMemory
<1>1. Init => DataInv /\ ProcessMemory!Init
    BY InitMemory, Zenon
<1>2. PgInv /\ PgInv' /\ DataInv /\ InStorage /\ InStorage' /\ [Next]_vars
          => DataInv' /\ [ProcessMemory!Next]_(ProcessMemory!vars)
    BY NextMemory
<1> QED
    BY <1>1, <1>2, PgInvAlways, PTL DEF Spec, ImplementsMemory, ProcessMemory!Spec

(***************************************************************************)
(* In particular paging implements Memory without more ado on devices      *)
(* whose storage has room for all their frames.                            *)
(***************************************************************************)
THEOREM LargeStorageImplementsMemory ==
    ASSUME NumRam <= FpnLimit, RamCells = NumRam, SwapCells = NumSwap
    PROVE  Spec => ImplementsMemory
<1>1. PgInv => InStorage
  <2> SUFFICES ASSUME PgInv PROVE InStorage
    BY Zenon
  <2>1. \A p \in Procs : ramOwn[p] \subseteq RamFrames /\ swpOwn[p] \subseteq SwapFrames
    BY OwnedSwap DEF PgInv, Owners, Partition
  <2> QED
    BY <2>1, PagingAssumption DEF InStorage, RamFrames, SwapFrames
<1> QED
    BY <1>1, PgInvAlways, PagingImplementsMemory, PTL
=============================================================================
