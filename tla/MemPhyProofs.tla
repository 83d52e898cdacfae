---------------------------- MODULE MemPhyProofs ----------------------------
(***************************************************************************)
(* The frame lists of a device stay a partition of its frames, and every   *)
(* frame has one owner, for any number of frames and of threads.           *)
(*                                                                         *)
(* The inductive invariant is the conjunction of what is proved: that the  *)
(* lists are a partition is what makes a frame that is popped or pushed    *)
(* new to the list it goes to, and OneOwner is what makes the frame that a *)
(* thread returns one of the used list.                                    *)
(***************************************************************************)
EXTENDS MemPhy, ListLemmas

IInv == TypeOK /\ FramesPartitioned /\ OneOwner

LEMMA InitIInv == Init => IInv
<1> SUFFICES ASSUME Init PROVE IInv
    OBVIOUS
<1>1. mp \in Device(AllFrames) /\ Partition(mp, AllFrames) /\ ListSet(mp.used) = {}
    BY FormatPartition, MemPhyAssumption, Zenon DEF Init, AllFrames
<1>2. TypeOK
    BY <1>1, Zenon DEF Init, TypeOK, Device
<1>3. OneOwner
    BY <1>1 DEF Init, OneOwner
<1> QED
    BY <1>1, <1>2, <1>3 DEF IInv, FramesPartitioned

LEMMA NextIInv == IInv /\ [Next]_vars => IInv'
<1> SUFFICES ASSUME IInv, [Next]_vars PROVE IInv'
    OBVIOUS
<1> USE DEF IInv, FramesPartitioned
<1>1. mp \in Device(AllFrames) /\ Partition(mp, AllFrames)
    BY DEF TypeOK, Device
<1>2. ASSUME NEW t \in Threads, GetCheck(t) PROVE IInv'
  <2>1. TypeOK'
    BY <1>2 DEF GetCheck, TypeOK, AllFrames
  <2> QED
    BY <1>2, <2>1 DEF GetCheck, OneOwner, AllFrames
<1>3. ASSUME NEW t \in Threads, GetPop(t) PROVE IInv'
  <2> DEFINE h == NextFree(mp)
  <2>1. /\ mp' \in Device(AllFrames) /\ Partition(mp', AllFrames)
        /\ h \in AllFrames \ ListSet(mp.used)
        /\ ListSet(mp'.used) = ListSet(mp.used) \cup {h}
    BY <1>1, <1>3, PoppedPartition DEF GetPop
  <2>2. owned' = [owned EXCEPT ![t] = @ \cup {h}]
    BY <1>3 DEF GetPop
  <2> HIDE DEF h
  <2>3. TypeOK'
    BY <1>3, <2>1, <2>2 DEF GetPop, TypeOK, Device, AllFrames
  <2>4. \A s \in Threads : h \notin owned[s]
    BY <2>1 DEF OneOwner
  <2>5. OneOwner'
    <3>1. \A s \in Threads : owned'[s] = IF s = t THEN owned[s] \cup {h} ELSE owned[s]
        BY <2>2, Zenon DEF TypeOK
    <3>2. \A r, s \in Threads : r # s => owned'[r] \cap owned'[s] = {}
        BY <2>4, <3>1, Zenon DEF OneOwner
    <3>3. UNION {owned'[s] : s \in Threads} = (UNION {owned[s] : s \in Threads}) \cup {h}
        BY <3>1, Zenon
    <3> QED
        BY <2>1, <3>2, <3>3 DEF OneOwner
  <2> QED
    BY <2>1, <2>3, <2>5 DEF AllFrames
<1>4. ASSUME NEW t \in Threads, GetPopNull(t) PROVE IInv'
  <2>1. TypeOK'
    BY <1>4 DEF GetPopNull, TypeOK, AllFrames
  <2> QED
    BY <1>4, <2>1 DEF GetPopNull, OneOwner, AllFrames
<1>5. ASSUME NEW t \in Threads, PutFree(t) PROVE IInv'
  <2>1. PICK e \in owned[t] :
            /\ mp' = MEMPHY_put_freefp(mp, e)
            /\ owned' = [owned EXCEPT ![t] = @ \ {e}]
    BY <1>5, Zenon DEF PutFree
  <2>2. e \in ListSet(mp.used)
    BY <2>1 DEF OneOwner
  <2>3. /\ mp' \in Device(AllFrames) /\ Partition(mp', AllFrames)
        /\ ListSet(mp'.used) = ListSet(mp.used) \ {e}
    BY <1>1, <2>1, <2>2, PutPartition
  <2>4. TypeOK'
    BY <1>5, <2>1, <2>3 DEF PutFree, TypeOK, Device, AllFrames
  <2>5. OneOwner'
    <3>1. \A s \in Threads : owned'[s] = IF s = t THEN owned[s] \ {e} ELSE owned[s]
        BY <2>1, Zenon DEF TypeOK
    <3>2. \A s \in Threads : s # t => e \notin owned[s]
        BY <2>1 DEF OneOwner
    <3>3. \A r, s \in Threads : r # s => owned'[r] \cap owned'[s] = {}
        BY <3>1, Zenon DEF OneOwner
    <3>4. UNION {owned'[s] : s \in Threads} = (UNION {owned[s] : s \in Threads}) \ {e}
        BY <3>1, <3>2, Zenon
    <3> QED
        BY <2>3, <3>3, <3>4 DEF OneOwner
  <2> QED
    BY <2>3, <2>4, <2>5 DEF AllFrames
<1>6. CASE UNCHANGED vars
    BY <1>6 DEF vars, TypeOK, OneOwner, AllFrames
<1>7. \A t \in Threads : GetNone(t) => UNCHANGED vars
    BY DEF GetNone
<1> QED
    BY <1>2, <1>3, <1>4, <1>5, <1>6, <1>7 DEF Next, Dead

LEMMA IInvAlways == Spec => []IInv
    BY InitIInv, NextIInv, PTL DEF Spec

(***************************************************************************)
(* Type correctness of a device and its callers (mm-memphy.c:138-278).     *)
(***************************************************************************)
THEOREM TypeCorrect == Spec => []TypeOK
<1>1. IInv => TypeOK
    BY DEF IInv
<1> QED
    BY IInvAlways, <1>1, PTL

(***************************************************************************)
(* Whatever the interleaving of MEMPHY_get_freefp and MEMPHY_put_freefp,   *)
(* the two lists of a device of any size are a partition of its frames.    *)
(***************************************************************************)
THEOREM FramesPartitionedAlways == Spec => []FramesPartitioned
<1>1. IInv => FramesPartitioned
    BY DEF IInv
<1> QED
    BY IInvAlways, <1>1, PTL

(***************************************************************************)
(* A frame that MEMPHY_get_freefp has handed out has one owner, and the    *)
(* frames in use are those that have one.                                  *)
(***************************************************************************)
THEOREM OneOwnerAlways == Spec => []OneOwner
<1>1. IInv => OneOwner
    BY DEF IInv
<1> QED
    BY IInvAlways, <1>1, PTL
=============================================================================
