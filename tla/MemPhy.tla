------------------------------- MODULE MemPhy -------------------------------
(***************************************************************************)
(* One physical memory device under concurrent callers (mm-memphy.c).      *)
(*                                                                         *)
(* The CPUs reach MEMPHY_get_freefp without a common lock: __read takes    *)
(* none (libmem.c:375), alloc_pages_range holds mm64_lock, __write holds   *)
(* mmvm_lock.  What they share is memphy_lock, which MEMPHY_get_freefp     *)
(* takes only after it has tested the list (mm-memphy.c:173, 176).         *)
(***************************************************************************)
EXTENDS Frames

CONSTANTS
    Threads,    \* the CPU threads that ask for frames
    NumFrames   \* the number of frames of the device

ASSUME MemPhyAssumption == NumFrames \in Nat

VARIABLES
    mp,       \* the device's two lists
    tpc,      \* where each thread is
    owned,    \* owned[t]: the frames t was given and has not returned
    crashed   \* a thread has followed a NULL free_fp_list

vars == <<mp, tpc, owned, crashed>>

AllFrames == 0 .. NumFrames - 1

TypeOK ==
    /\ mp \in [free : Seq(AllFrames), used : Seq(AllFrames)]
    /\ tpc \in [Threads -> {"idle", "pop"}]
    /\ owned \in [Threads -> SUBSET AllFrames]
    /\ crashed \in BOOLEAN

Init ==
    /\ mp = MEMPHY_format(NumFrames)
    /\ tpc = [t \in Threads |-> "idle"]
    /\ owned = [t \in Threads |-> {}]
    /\ crashed = FALSE

\* The test of line 173, made without the lock: the list has a head.
GetCheck(t) ==
    /\ ~crashed /\ tpc[t] = "idle"
    /\ HasFree(mp)
    /\ tpc' = [tpc EXCEPT ![t] = "pop"]
    /\ UNCHANGED <<mp, owned, crashed>>

\* The same test fails: out of memory, nothing changes.
GetNone(t) ==
    /\ ~crashed /\ tpc[t] = "idle"
    /\ ~HasFree(mp)
    /\ UNCHANGED vars

\* The critical section: pop the head of the free list.
GetPop(t) ==
    /\ ~crashed /\ tpc[t] = "pop"
    /\ HasFree(mp)
    /\ mp' = Popped(mp)
    /\ owned' = [owned EXCEPT ![t] = @ \cup {NextFree(mp)}]
    /\ tpc' = [tpc EXCEPT ![t] = "idle"]
    /\ UNCHANGED crashed

\* The list has emptied since the test: fp is NULL, fp->fp_next faults.
GetPopNull(t) ==
    /\ ~crashed /\ tpc[t] = "pop"
    /\ ~HasFree(mp)
    /\ crashed' = TRUE
    /\ UNCHANGED <<mp, tpc, owned>>

PutFree(t) ==
    /\ ~crashed /\ tpc[t] = "idle"
    /\ \E fpn \in owned[t] :
        /\ mp' = MEMPHY_put_freefp(mp, fpn)
        /\ owned' = [owned EXCEPT ![t] = @ \ {fpn}]
    /\ UNCHANGED <<tpc, crashed>>

Dead == crashed /\ UNCHANGED vars

Next ==
    \/ \E t \in Threads :
           GetCheck(t) \/ GetNone(t) \/ GetPop(t) \/ GetPopNull(t) \/ PutFree(t)
    \/ Dead

Spec == Init /\ [][Next]_vars
-----------------------------------------------------------------------------
(***************************************************************************)
(* The lists never lose, repeat or invent a frame, whatever the order of   *)
(* the callers: the pops and pushes of mm-memphy.c:179-187 and 254-273.    *)
(***************************************************************************)
FramesPartitioned == Partition(mp, AllFrames)

(***************************************************************************)
(* A frame that was handed out belongs to one caller until it is returned, *)
(* and a frame nobody was given is on the free list: no frame is handed    *)
(* out twice, and none leaks.                                              *)
(***************************************************************************)
OneOwner ==
    /\ \A s, t \in Threads : s # t => owned[s] \cap owned[t] = {}
    /\ UNION {owned[t] : t \in Threads} = ListSet(mp.used)

(***************************************************************************)
(* "Validate and check availability ... Out of memory" (mm-memphy.c:172):  *)
(* a caller that finds no frame is told so; it never pops an empty list.   *)
(***************************************************************************)
NeverPopsNull == ~crashed
=============================================================================
