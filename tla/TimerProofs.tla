---------------------------- MODULE TimerProofs ----------------------------
(***************************************************************************)
(* What is proved about Timer, for any set of devices and any width of the *)
(* clock: the safety properties that the runs check, and the safety part   *)
(* of the refinement of TimeSlots.                                         *)
(*                                                                         *)
(* The argument is about the flag done and the timer's position in its two *)
(* passes over dev_list, not about the mutexes: a device is counted in the *)
(* first pass only while it waits or after it has left, and it stays so    *)
(* until the second pass reaches it.  TInv says this for every position.   *)
(***************************************************************************)
EXTENDS Timer, SequenceTheorems, TLAPS

Scanning == tpc \in {"elock", "echeck", "ewait"}

Waiting(d) == dpc[d] \in {"wlock", "wcheck", "wwait"}

\* The threads that main has started and joined.
MainInv ==
    /\ tpc = "off" <=> mpc = "attach"
    /\ mpc = "attach" => \A d \in Devices : dpc[d] = "new"
    /\ timer_stop => mpc \in {"stop", "end"}
    /\ mpc \in {"stop", "end"} => \A d \in Devices : dpc[d] = "exit"
    /\ mpc = "end" => tpc = "exit"

\* dev_list holds every device once while the timer works on it.
ListInv ==
    /\ \A k, l \in 1 .. Len(dev_list) : dev_list[k] = dev_list[l] => k = l
    /\ tpc \notin {"off", "exit"} => Attached = Devices
    /\ Scanning \/ tpc \in {"rlock", "rset"} => temp \in 1 .. Len(dev_list)

\* What the two flags say of the device's thread.
FlagInv ==
    \A d \in Devices :
        /\ fsh[d] <=> dpc[d] = "exit"
        /\ done[d] => Waiting(d)

\* A device that the first pass has counted, and the second pass has not
\* reached, waits or has left.
PassInv ==
    /\ Scanning => \A k \in 1 .. temp - 1 : done[dev_list[k]] \/ fsh[dev_list[k]]
    /\ tpc = "tick" => \A d \in Devices : done[d] \/ fsh[d]
    /\ \A d \in Unreleased : done[d] \/ fsh[d]

\* What the equality of the two counters means.
CountInv ==
    /\ Scanning =>
           /\ nevent = temp - 1 /\ nfsh <= nevent
           /\ nfsh = nevent => \A k \in 1 .. temp - 1 : fsh[dev_list[k]]
    /\ tpc \in {"tick", "rlock", "rset", "test"} =>
           (nfsh = nevent => \A d \in Devices : fsh[d])
    /\ tpc = "exit" => \A d \in Devices : fsh[d]

\* Lockstep, for the threads not yet started too.
SlotInv ==
    \A d \in Devices :
        /\ ~Waiting(d) /\ dpc[d] # "exit" => slots[d] = time
        /\ Waiting(d) =>
               IF done[d] /\ d \notin Unreleased
               THEN slots[d] = time
               ELSE time = NextTime(slots[d])

TInv ==
    TypeOK /\ MainInv /\ ListInv /\ FlagInv /\ PassInv /\ CountInv /\ SlotInv
-----------------------------------------------------------------------------
(* The list, and the part of it the second pass has not reached.           *)

\* The elements of dev_list are devices.
LEMMA DevList ==
    ASSUME TypeOK
    PROVE  /\ Len(dev_list) \in Nat
           /\ \A k \in 1 .. Len(dev_list) : dev_list[k] \in Devices
    BY LenProperties, ElementOfSeq DEF TypeOK

\* The clock stays in its range when it wraps.
LEMMA NextTimeType == \A t \in Times : NextTime(t) \in Times
    BY TimerAssumption DEF Times, NextTime

\* The device that timer_routine is looking at in either pass.
LEMMA CurrentDevice ==
    ASSUME TInv, Scanning \/ tpc \in {"rlock", "rset"}
    PROVE  dev_list[temp] \in Devices /\ temp \in 1 .. Len(dev_list)
    BY DevList DEF TInv, ListInv

\* After the tick the second pass has every device before it.
LEMMA UnreleasedAll ==
    ASSUME TInv, TimerTick
    PROVE  Unreleased = {} /\ Unreleased' = Devices
<1>1. Unreleased' = {dev_list[k] : k \in 1 .. Len(dev_list)}
    BY DEF TimerTick, Unreleased, mainVars
<1>2. Unreleased = {}
    BY DEF TimerTick, Unreleased
<1> QED
    BY <1>1, <1>2 DEF TimerTick, TInv, ListInv, Attached

\* The second pass takes one device at a time.
LEMMA UnreleasedOneLess ==
    ASSUME TInv, TimerRelease
    PROVE  Unreleased' = Unreleased \ {dev_list[temp]}
<1> DEFINE n == Len(dev_list)
<1>1. n \in Nat /\ temp \in 1 .. n /\ dev_list' = dev_list /\ temp' = temp + 1
    BY DevList, CurrentDevice DEF TInv, TimerRelease, mainVars
<1>2. Unreleased = {dev_list[k] : k \in temp .. n}
    BY DEF TimerRelease, Unreleased
<1>3. Unreleased' = {dev_list[k] : k \in temp + 1 .. n}
  <2>1. CASE temp = n
    <3>1. tpc' = "test" /\ temp + 1 .. n = {}
        BY <1>1, <2>1 DEF TimerRelease
    <3> QED
        BY <3>1 DEF Unreleased
  <2>2. CASE temp # n
    <3>1. tpc' = "rlock"
        BY <2>2 DEF TimerRelease
    <3> QED
        BY <1>1, <3>1 DEF Unreleased
  <2> QED
    BY <2>1, <2>2
<1>4. \A k, l \in 1 .. n : dev_list[k] = dev_list[l] => k = l
    BY DEF TInv, ListInv
<1> HIDE DEF n
<1>5. temp .. n = {temp} \cup (temp + 1 .. n)
    BY <1>1
<1>6. \A k \in temp + 1 .. n : dev_list[k] # dev_list[temp]
    BY <1>1, <1>4
<1> QED
    BY <1>2, <1>3, <1>5, <1>6

\* No other step changes it.
LEMMA UnreleasedSame ==
    ASSUME dev_list' = dev_list, temp' = temp,
           tpc' = tpc \/ (tpc \in {"rlock", "rset"} <=> tpc' \in {"rlock", "rset"})
    PROVE  Unreleased' = Unreleased
    BY DEF Unreleased

\* Outside the second pass there is nothing to release.
LEMMA UnreleasedNone ==
    ASSUME tpc \notin {"rlock", "rset"}, tpc' \notin {"rlock", "rset"}
    PROVE  Unreleased' = {} /\ Unreleased = {}
    BY DEF Unreleased
-----------------------------------------------------------------------------
\* Nothing is attached and no thread has started.
LEMMA InitInvariant == Init => TInv
<1> SUFFICES ASSUME Init PROVE TInv
    OBVIOUS
<1>0. 0 \in Times /\ << >> \in Seq(Devices)
    BY TimerAssumption, EmptySeq DEF Times
<1>1. TypeOK
    BY <1>0, Zenon DEF Init, TypeOK, Holders, TimerPC, DevicePC
<1>2. MainInv /\ ListInv /\ FlagInv
    BY EmptySeq DEF Init, MainInv, ListInv, FlagInv, Waiting, Scanning
<1>3. PassInv /\ CountInv /\ SlotInv
    BY DEF Init, PassInv, CountInv, SlotInv, Waiting, Scanning, Unreleased
<1> QED
    BY <1>1, <1>2, <1>3 DEF TInv
-----------------------------------------------------------------------------
(* The devices.                                                            *)

(***************************************************************************)
(* A step of a device that moves its thread, or takes or gives a lock, but *)
(* neither begins nor ends a wait.                                         *)
(***************************************************************************)
LEMMA DeviceMoves ==
    ASSUME TInv, NEW d \in Devices, NEW place \in DevicePC \ {"exit", "new"},
           dpc' = [dpc EXCEPT ![d] = place],
           dpc[d] # "exit", mpc # "attach",
           Waiting(d) <=> place \in {"wlock", "wcheck", "wwait"},
           event_lock' \in [Devices -> Holders],
           timer_lock' \in [Devices -> Holders],
           UNCHANGED <<done, fsh, slots, timerVars, mainVars, time>>
    PROVE  TInv'
<1>1. TypeOK'
    BY Zenon DEF TInv, TypeOK, timerVars, mainVars
<1>2. MainInv'
    BY DEF TInv, TypeOK, MainInv, timerVars, mainVars
<1>3. ListInv'
    BY DEF TInv, ListInv, Scanning, Attached, timerVars, mainVars
<1>4. \A e \in Devices : /\ Waiting(e)' <=> Waiting(e)
                         /\ dpc'[e] = "exit" <=> dpc[e] = "exit"
    BY DEF TInv, TypeOK, Waiting
<1>5. FlagInv'
    BY <1>4 DEF TInv, FlagInv
<1>6. PassInv' /\ CountInv'
    BY DEF TInv, PassInv, CountInv, Scanning, Unreleased, timerVars, mainVars
<1>7. SlotInv'
  <2>1. Unreleased' = Unreleased
    BY UnreleasedSame DEF timerVars, mainVars
  <2> QED
    BY <1>4, <2>1 DEF TInv, SlotInv, NextTime
<1> QED
    BY <1>1, <1>2, <1>3, <1>5, <1>6, <1>7 DEF TInv

\* The moves of a device that DeviceMoves covers.
LEMMA DeviceMovesInvariant ==
    ASSUME TInv, NEW d \in Devices,
           \/ StartDevice(d) \/ NextSlot(d) \/ NextSlotLock(d) \/ WaitLock(d)
           \/ DeviceSpuriousWakeup(d) \/ DetachEvent(d) \/ DetachLock(d)
    PROVE  TInv'
<1>1. mpc # "attach"
    BY DEF TInv, MainInv, StartDevice, NextSlot, NextSlotLock, WaitLock,
        DeviceSpuriousWakeup, DetachEvent, DetachLock
<1>2. CASE StartDevice(d)
  <2>1. /\ event_lock' \in [Devices -> Holders]
        /\ timer_lock' \in [Devices -> Holders]
    BY <1>2 DEF StartDevice, TInv, TypeOK, Holders, lockVars
  <2>2. "run" \in DevicePC \ {"exit", "new"}
    BY DEF DevicePC
  <2> QED
    BY <1>1, <1>2, <2>1, <2>2, DeviceMoves, Zenon DEF StartDevice, Waiting
<1>3. CASE NextSlot(d)
  <2>1. /\ event_lock' \in [Devices -> Holders]
        /\ timer_lock' \in [Devices -> Holders]
    BY <1>3 DEF NextSlot, TInv, TypeOK, Holders, lockVars
  <2>2. "nlock" \in DevicePC \ {"exit", "new"}
    BY DEF DevicePC
  <2> QED
    BY <1>1, <1>3, <2>1, <2>2, DeviceMoves, Zenon DEF NextSlot, Waiting
<1>4. CASE NextSlotLock(d)
  <2>1. /\ event_lock' \in [Devices -> Holders]
        /\ timer_lock' \in [Devices -> Holders]
    BY <1>4 DEF NextSlotLock, TInv, TypeOK, Holders, lockVars
  <2>2. "nset" \in DevicePC \ {"exit", "new"}
    BY DEF DevicePC
  <2> QED
    BY <1>1, <1>4, <2>1, <2>2, DeviceMoves, Zenon DEF NextSlotLock, Waiting
<1>5. CASE WaitLock(d)
  <2>1. /\ event_lock' \in [Devices -> Holders]
        /\ timer_lock' \in [Devices -> Holders]
    BY <1>5 DEF WaitLock, TInv, TypeOK, Holders, lockVars
  <2>2. "wcheck" \in DevicePC \ {"exit", "new"}
    BY DEF DevicePC
  <2> QED
    BY <1>1, <1>5, <2>1, <2>2, DeviceMoves, Zenon DEF WaitLock, Waiting
<1>6. CASE DeviceSpuriousWakeup(d)
  <2>1. /\ event_lock' \in [Devices -> Holders]
        /\ timer_lock' \in [Devices -> Holders]
    BY <1>6 DEF DeviceSpuriousWakeup, TInv, TypeOK, Holders, lockVars
  <2>2. "wlock" \in DevicePC \ {"exit", "new"}
    BY DEF DevicePC
  <2> QED
    BY <1>1, <1>6, <2>1, <2>2, DeviceMoves, Zenon DEF DeviceSpuriousWakeup,
       Waiting
<1>7. CASE DetachEvent(d)
  <2>1. /\ event_lock' \in [Devices -> Holders]
        /\ timer_lock' \in [Devices -> Holders]
    BY <1>7 DEF DetachEvent, TInv, TypeOK, Holders, lockVars
  <2>2. "flock" \in DevicePC \ {"exit", "new"}
    BY DEF DevicePC
  <2> QED
    BY <1>1, <1>7, <2>1, <2>2, DeviceMoves, Zenon DEF DetachEvent, Waiting
<1>8. CASE DetachLock(d)
  <2>1. /\ event_lock' \in [Devices -> Holders]
        /\ timer_lock' \in [Devices -> Holders]
    BY <1>8 DEF DetachLock, TInv, TypeOK, Holders, lockVars
  <2>2. "fset" \in DevicePC \ {"exit", "new"}
    BY DEF DevicePC
  <2> QED
    BY <1>1, <1>8, <2>1, <2>2, DeviceMoves, Zenon DEF DetachLock, Waiting
<1> QED
    BY <1>2, <1>3, <1>4, <1>5, <1>6, <1>7, <1>8

\* SignalTimer only moves the timer from its wait to the lock.
LEMMA SignalMoves ==
    ASSUME TypeOK, NEW d, SignalTimer(d)
    PROVE  /\ tpc' \in TimerPC
           /\ Scanning' <=> Scanning
           /\ tpc' = tpc \/ (tpc = "ewait" /\ tpc' = "elock")
    BY DEF SignalTimer, TypeOK, TimerPC, Scanning

\* done = 1 in next_slot (timer.c:64).
LEMMA NextSlotSetInvariant ==
    ASSUME TInv, NEW d \in Devices, NextSlotSet(d)
    PROVE  TInv'
<1>0. /\ tpc' \in TimerPC /\ (Scanning' <=> Scanning)
      /\ tpc' = tpc \/ (tpc = "ewait" /\ tpc' = "elock")
    BY SignalMoves DEF NextSlotSet, TInv
<1>1. TypeOK'
    BY <1>0 DEF NextSlotSet, TInv, TypeOK, DevicePC, Holders, mainVars
<1>2. MainInv'
    BY <1>0 DEF NextSlotSet, TInv, TypeOK, MainInv, mainVars
<1>3. ListInv'
    BY <1>0 DEF NextSlotSet, TInv, ListInv, Attached, Scanning, mainVars
<1>4. FlagInv'
    BY DEF NextSlotSet, TInv, TypeOK, FlagInv, Waiting
<1>5. Unreleased' = Unreleased /\ d \notin Unreleased
  <2>1. Unreleased' = Unreleased
    BY <1>0, UnreleasedSame DEF NextSlotSet, mainVars
  <2> QED
    BY <2>1 DEF NextSlotSet, TInv, PassInv, FlagInv, Waiting
<1>6. PassInv'
  <2>1. \A e \in Devices : done[e] \/ fsh[e] => done'[e] \/ fsh'[e]
    BY DEF NextSlotSet, TInv, TypeOK
  <2>2. \A e \in Unreleased : e \in Devices
    BY DevList, CurrentDevice DEF TInv, Unreleased
  <2>3. ASSUME Scanning, NEW k \in 1 .. temp - 1 PROVE dev_list[k] \in Devices
    BY <2>3, DevList, CurrentDevice DEF TInv
  <2> QED
    BY <1>0, <1>5, <2>1, <2>2, <2>3 DEF NextSlotSet, TInv, PassInv, Scanning, mainVars
<1>7. CountInv'
    BY <1>0 DEF NextSlotSet, TInv, CountInv, Scanning, mainVars
<1>8. SlotInv'
    BY <1>5 DEF NextSlotSet, TInv, TypeOK, SlotInv, Waiting, NextTime
<1> QED
    BY <1>1, <1>2, <1>3, <1>4, <1>6, <1>7, <1>8 DEF TInv

\* The test of "while (done)" in next_slot (timer.c:71).
LEMMA WaitCheckInvariant ==
    ASSUME TInv, NEW d \in Devices, WaitCheck(d)
    PROVE  TInv'
<1>1. TypeOK'
    BY NextTimeType
    DEF WaitCheck, TInv, TypeOK, DevicePC, Holders, timerVars, mainVars
<1>2. MainInv'
    BY DEF WaitCheck, TInv, TypeOK, MainInv, timerVars, mainVars
<1>3. ListInv'
    BY DEF WaitCheck, TInv, ListInv, Attached, Scanning, timerVars, mainVars
<1>4. FlagInv'
    BY DEF WaitCheck, TInv, TypeOK, FlagInv, Waiting
<1>5. Unreleased' = Unreleased
    BY UnreleasedSame DEF WaitCheck, timerVars, mainVars
<1>6. PassInv' /\ CountInv'
    BY <1>5 DEF WaitCheck, TInv, PassInv, CountInv, Scanning, timerVars, mainVars
<1>7. SlotInv'
  <2>1. CASE done[d]
    BY <1>5, <2>1 DEF WaitCheck, TInv, TypeOK, SlotInv, Waiting, NextTime
  <2>2. CASE ~done[d]
    <3>1. time = NextTime(slots[d])
        BY <2>2 DEF WaitCheck, TInv, SlotInv, Waiting
    <3> QED
        BY <1>5, <2>2, <3>1 DEF WaitCheck, TInv, TypeOK, SlotInv, Waiting, NextTime
  <2> QED
    BY <2>1, <2>2
<1> QED
    BY <1>1, <1>2, <1>3, <1>4, <1>6, <1>7 DEF TInv

\* fsh = 1 in detach_event (timer.c:90).
LEMMA DetachSetInvariant ==
    ASSUME TInv, NEW d \in Devices, DetachSet(d)
    PROVE  TInv'
<1>0. /\ tpc' \in TimerPC /\ (Scanning' <=> Scanning)
      /\ tpc' = tpc \/ (tpc = "ewait" /\ tpc' = "elock")
    BY SignalMoves DEF DetachSet, TInv
<1>1. TypeOK'
    BY <1>0 DEF DetachSet, TInv, TypeOK, DevicePC, Holders, mainVars
<1>2. MainInv'
    BY <1>0 DEF DetachSet, TInv, TypeOK, MainInv, mainVars
<1>3. ListInv'
    BY <1>0 DEF DetachSet, TInv, ListInv, Attached, Scanning, mainVars
<1>4. FlagInv'
    BY DEF DetachSet, TInv, TypeOK, FlagInv, Waiting
<1>5. Unreleased' = Unreleased
    BY <1>0, UnreleasedSame DEF DetachSet, mainVars
<1>6. \A e \in Devices : fsh[e] => fsh'[e]
    BY DEF DetachSet, TInv, TypeOK
<1>7. ASSUME Scanning, NEW k \in 1 .. temp - 1 PROVE dev_list[k] \in Devices
    BY <1>7, DevList, CurrentDevice DEF TInv
<1>8. PassInv'
  <2>1. \A e \in Unreleased : e \in Devices
    BY DevList, CurrentDevice DEF TInv, Unreleased
  <2> QED
    BY <1>0, <1>5, <1>6, <1>7, <2>1 DEF DetachSet, TInv, PassInv, Scanning, mainVars
<1>9. CountInv'
    BY <1>0, <1>6, <1>7 DEF DetachSet, TInv, CountInv, Scanning, mainVars
<1>10. SlotInv'
    BY <1>5 DEF DetachSet, TInv, TypeOK, SlotInv, Waiting, NextTime
<1> QED
    BY <1>1, <1>2, <1>3, <1>4, <1>8, <1>9, <1>10 DEF TInv
-----------------------------------------------------------------------------
(* The timer.                                                              *)

(***************************************************************************)
(* A step of the timer that takes or gives a lock, or moves within one of  *)
(* its two passes, and changes nothing else.                               *)
(***************************************************************************)
LEMMA TimerMoves ==
    ASSUME TInv, tpc' \in TimerPC,
           \/ Scanning /\ Scanning'
           \/ tpc = "rlock" /\ tpc' = "rset",
           event_lock' \in [Devices -> Holders],
           timer_lock' \in [Devices -> Holders],
           UNCHANGED <<temp, nfsh, nevent, deviceVars, mainVars, time>>
    PROVE  TInv'
<1>1. TypeOK'
    BY DEF TInv, TypeOK, deviceVars, mainVars
<1>2. MainInv'
    BY DEF TInv, MainInv, Scanning, deviceVars, mainVars
<1>3. ListInv'
    BY DEF TInv, ListInv, Scanning, Attached, mainVars
<1>4. FlagInv'
    BY DEF TInv, FlagInv, Waiting, deviceVars
<1>5. Unreleased' = Unreleased
    BY UnreleasedSame DEF Scanning, mainVars
<1>6. PassInv' /\ CountInv'
    BY <1>5 DEF TInv, PassInv, CountInv, Scanning, deviceVars, mainVars
<1>7. SlotInv'
    BY <1>5 DEF TInv, SlotInv, Waiting, NextTime, deviceVars
<1> QED
    BY <1>1, <1>2, <1>3, <1>4, <1>6, <1>7 DEF TInv

\* The moves of the timer that TimerMoves covers.
LEMMA TimerMovesInvariant ==
    ASSUME TInv,
           \/ TimerEventLock \/ TimerEventWait \/ TimerSpuriousWakeup
           \/ TimerReleaseLock
    PROVE  TInv'
<1>1. CASE TimerEventLock
  <2>1. /\ event_lock' \in [Devices -> Holders]
        /\ timer_lock' \in [Devices -> Holders]
    BY <1>1, Zenon DEF TimerEventLock, TInv, TypeOK, Holders, lockVars
  <2> QED
    BY <1>1, <2>1, TimerMoves DEF TimerEventLock, TimerPC, Scanning
<1>2. CASE TimerEventWait
  <2>1. /\ event_lock' \in [Devices -> Holders]
        /\ timer_lock' \in [Devices -> Holders]
    BY <1>2, Zenon DEF TimerEventWait, TInv, TypeOK, Holders, lockVars
  <2> QED
    BY <1>2, <2>1, TimerMoves DEF TimerEventWait, TimerPC, Scanning
<1>3. CASE TimerSpuriousWakeup
  <2>1. /\ event_lock' \in [Devices -> Holders]
        /\ timer_lock' \in [Devices -> Holders]
    BY <1>3 DEF TimerSpuriousWakeup, TInv, TypeOK, Holders, lockVars
  <2> QED
    BY <1>3, <2>1, TimerMoves DEF TimerSpuriousWakeup, TimerPC, Scanning
<1>4. CASE TimerReleaseLock
  <2>1. /\ event_lock' \in [Devices -> Holders]
        /\ timer_lock' \in [Devices -> Holders]
    BY <1>4, Zenon DEF TimerReleaseLock, TInv, TypeOK, Holders, lockVars
  <2> QED
    BY <1>4, <2>1, TimerMoves DEF TimerReleaseLock, TimerPC, Scanning
<1> QED
    BY <1>1, <1>2, <1>3, <1>4

\* "while (!timer_stop)" (timer.c:23).
LEMMA TimerLoopInvariant ==
    ASSUME TInv, TimerLoop
    PROVE  TInv'
<1>1. TypeOK'
    BY DEF TimerLoop, TInv, TypeOK, TimerPC, deviceVars, lockVars, mainVars
<1>2. MainInv'
    BY DEF TimerLoop, TInv, MainInv, deviceVars, mainVars
<1>3. ListInv'
  <2>1. Len(dev_list) \in Nat /\ Attached = Devices
    BY DevList DEF TimerLoop, TInv, ListInv
  <2>2. 1 \in 1 .. Len(dev_list)
    BY <2>1, TimerAssumption DEF Attached
  <2> QED
    BY <2>2 DEF TimerLoop, TInv, ListInv, Scanning, Attached, mainVars
<1>4. FlagInv'
    BY DEF TimerLoop, TInv, FlagInv, Waiting, deviceVars
<1>5. Unreleased' = {} /\ Unreleased = {}
    BY UnreleasedNone DEF TimerLoop
<1>6. PassInv'
    BY <1>5 DEF TimerLoop, TInv, PassInv, Scanning, deviceVars
<1>7. CountInv'
    BY DEF TimerLoop, TInv, CountInv, Scanning, MainInv, FlagInv, deviceVars
<1>8. SlotInv'
    BY <1>5 DEF TimerLoop, TInv, SlotInv, Waiting, NextTime, deviceVars
<1> QED
    BY <1>1, <1>2, <1>3, <1>4, <1>6, <1>7, <1>8 DEF TInv

\* A device is counted in the first pass (timer.c:34-40).
LEMMA TimerEventCountInvariant ==
    ASSUME TInv, TimerEventCount
    PROVE  TInv'
<1>0. /\ temp \in 1 .. Len(dev_list) /\ Len(dev_list) \in Nat
      /\ dev_list[temp] \in Devices /\ temp \in Nat
      /\ dev_list' = dev_list /\ temp' = temp + 1
    BY DevList, CurrentDevice DEF TInv, TypeOK, TimerEventCount, Scanning, mainVars
<1>1. TypeOK'
    BY <1>0
    DEF TimerEventCount, TInv, TypeOK, TimerPC, Holders, deviceVars, mainVars
<1>2. MainInv'
    BY DEF TimerEventCount, TInv, MainInv, deviceVars, mainVars
<1>3. ListInv'
  <2>1. Scanning' => temp' \in 1 .. Len(dev_list')
    BY <1>0 DEF TimerEventCount, Scanning
  <2>2. tpc' \notin {"rlock", "rset"} /\ Attached' = Attached
    BY <1>0 DEF TimerEventCount, Attached
  <2> QED
    BY <1>0, <2>1, <2>2 DEF TimerEventCount, TInv, ListInv
<1>4. FlagInv'
    BY DEF TimerEventCount, TInv, FlagInv, Waiting, deviceVars
<1>5. Unreleased' = {} /\ Unreleased = {}
    BY UnreleasedNone DEF TimerEventCount
<1>6. \A k \in 1 .. temp : done[dev_list[k]] \/ fsh[dev_list[k]]
    BY <1>0 DEF TimerEventCount, TInv, PassInv, Scanning
<1>7. nfsh' = nevent' => \A k \in 1 .. temp : fsh[dev_list[k]]
    BY <1>0 DEF TimerEventCount, TInv, TypeOK, CountInv, Scanning
<1>8. temp = Len(dev_list) =>
        \A d \in Devices : \E k \in 1 .. temp : d = dev_list[k]
    BY DEF TimerEventCount, TInv, ListInv, Attached
<1>9. PassInv'
    BY <1>0, <1>5, <1>6, <1>8 DEF TimerEventCount, PassInv, Scanning, deviceVars
<1>10. CountInv'
  <2>1. Scanning' => nevent' = temp' - 1 /\ nfsh' <= nevent'
    BY <1>0 DEF TimerEventCount, TInv, TypeOK, CountInv, Scanning
  <2>2. temp' - 1 = temp /\ fsh' = fsh
    BY <1>0 DEF TimerEventCount, deviceVars
  <2>3. tpc' = "tick" => (nfsh' = nevent' => \A d \in Devices : fsh[d])
    BY <1>7, <1>8 DEF TimerEventCount
  <2>4. tpc' \in {"tick", "elock"}
    BY DEF TimerEventCount
  <2> QED
    BY <1>0, <1>7, <2>1, <2>2, <2>3, <2>4 DEF CountInv
<1>11. SlotInv'
    BY <1>5 DEF TimerEventCount, TInv, SlotInv, Waiting, NextTime, deviceVars
<1> QED
    BY <1>1, <1>2, <1>3, <1>4, <1>9, <1>10, <1>11 DEF TInv

\* _time++ (timer.c:45).
LEMMA TimerTickInvariant ==
    ASSUME TInv, TimerTick
    PROVE  TInv'
<1>0. Unreleased = {} /\ Unreleased' = Devices
    BY UnreleasedAll
<1>1. TypeOK'
    BY NextTimeType DEF TimerTick, TInv, TypeOK, TimerPC, deviceVars, lockVars, mainVars
<1>2. MainInv'
    BY DEF TimerTick, TInv, MainInv, deviceVars, mainVars
<1>3. ListInv'
  <2>1. Len(dev_list) \in Nat /\ Attached = Devices
    BY DevList DEF TimerTick, TInv, ListInv
  <2>2. 1 \in 1 .. Len(dev_list)
    BY <2>1, TimerAssumption DEF Attached
  <2> QED
    BY <2>2 DEF TimerTick, TInv, ListInv, Scanning, Attached, mainVars
<1>4. FlagInv'
    BY DEF TimerTick, TInv, FlagInv, Waiting, deviceVars
<1>5. PassInv'
    BY <1>0 DEF TimerTick, TInv, PassInv, Scanning, deviceVars
<1>6. CountInv'
    BY DEF TimerTick, TInv, CountInv, Scanning, deviceVars
<1>7. SlotInv'
  <2>1. \A d \in Devices : (done[d] /\ Waiting(d) /\ slots[d] = time) \/ dpc[d] = "exit"
    BY <1>0 DEF TimerTick, TInv, PassInv, FlagInv, SlotInv
  <2>2. \A d \in Devices : /\ slots'[d] = slots[d] /\ dpc'[d] = dpc[d]
                           /\ Waiting(d)' <=> Waiting(d)
    BY DEF TimerTick, Waiting, deviceVars
  <2>3. \A d \in Devices : NextTime(slots[d])' = NextTime(slots[d])
    BY DEF TimerTick, NextTime, deviceVars
  <2>4. \A d \in Devices : dpc[d] = "exit" => ~Waiting(d)
    BY DEF Waiting
  <2> QED
    BY <1>0, <2>1, <2>2, <2>3, <2>4 DEF TimerTick, SlotInv
<1> QED
    BY <1>1, <1>2, <1>3, <1>4, <1>5, <1>6, <1>7 DEF TInv

\* done = 0 in the second pass (timer.c:48-53).
LEMMA TimerReleaseInvariant ==
    ASSUME TInv, TimerRelease
    PROVE  TInv'
<1>0. /\ temp \in 1 .. Len(dev_list) /\ Len(dev_list) \in Nat
      /\ dev_list[temp] \in Devices /\ temp \in Nat
      /\ dev_list' = dev_list /\ temp' = temp + 1
    BY DevList, CurrentDevice DEF TInv, TypeOK, TimerRelease, mainVars
<1> DEFINE d == dev_list[temp]
<1>1. /\ Unreleased' = Unreleased \ {d} /\ d \in Unreleased
      /\ \A e \in Unreleased : e \in Devices
  <2>1. Unreleased = {dev_list[k] : k \in temp .. Len(dev_list)}
    BY DEF TimerRelease, Unreleased
  <2> QED
    BY <1>0, <2>1, DevList, UnreleasedOneLess DEF TInv
<1>2. TypeOK'
    BY <1>0
    DEF TimerRelease, TInv, TypeOK, TimerPC, DevicePC, Holders, mainVars
<1>3. /\ \A e \in Devices : /\ Waiting(e)' <=> Waiting(e)
                            /\ dpc'[e] = "exit" <=> dpc[e] = "exit"
                            /\ dpc'[e] = "new" <=> dpc[e] = "new"
                            /\ e # d => done'[e] = done[e]
                            /\ fsh'[e] = fsh[e] /\ slots'[e] = slots[e]
      /\ ~done'[d]
    BY <1>0, Zenon DEF TimerRelease, TInv, TypeOK, Waiting
<1>4. MainInv'
    BY <1>3 DEF TimerRelease, TInv, MainInv, mainVars
<1>5. ListInv'
  <2>1. tpc' \in {"rlock", "rset"} => temp' \in 1 .. Len(dev_list')
    BY <1>0 DEF TimerRelease
  <2>2. ~Scanning' /\ Attached' = Attached
    BY <1>0 DEF TimerRelease, Attached, Scanning
  <2> QED
    BY <1>0, <2>1, <2>2 DEF TimerRelease, TInv, ListInv
<1>6. FlagInv'
    BY <1>0, <1>3 DEF TInv, FlagInv
<1>7. PassInv'
  <2>1. ~Scanning' /\ tpc' # "tick"
    BY DEF TimerRelease, Scanning
  <2>2. \A e \in Unreleased \ {d} : done'[e] \/ fsh'[e]
    BY <1>1, <1>3 DEF TInv, PassInv
  <2> QED
    BY <1>1, <2>1, <2>2 DEF PassInv
<1>8. CountInv'
    BY DEF TimerRelease, TInv, CountInv, Scanning
<1>9. SlotInv'
  <2>1. time' = time /\ \A e \in Devices : NextTime(slots[e])' = NextTime(slots[e])
    BY <1>3 DEF TimerRelease, NextTime
  <2> QED
    BY <1>0, <1>1, <1>3, <2>1 DEF TInv, SlotInv
<1> QED
    BY <1>2, <1>4, <1>5, <1>6, <1>7, <1>8, <1>9 DEF TInv

\* "if (fsh == event) break" (timer.c:55).
LEMMA TimerTestInvariant ==
    ASSUME TInv, TimerTest
    PROVE  TInv'
<1>1. TypeOK'
    BY DEF TimerTest, TInv, TypeOK, TimerPC, deviceVars, lockVars, mainVars
<1>2. MainInv' /\ ListInv' /\ FlagInv'
    BY DEF TimerTest, TInv, MainInv, ListInv, FlagInv, Waiting, Scanning,
        Attached, deviceVars, mainVars
<1>3. Unreleased' = {} /\ Unreleased = {}
    BY UnreleasedNone DEF TimerTest
<1>4. PassInv' /\ CountInv'
    BY <1>3 DEF TimerTest, TInv, PassInv, CountInv, Scanning, deviceVars
<1>5. SlotInv'
    BY <1>3 DEF TimerTest, TInv, SlotInv, Waiting, NextTime, deviceVars
<1> QED
    BY <1>1, <1>2, <1>4, <1>5 DEF TInv
-----------------------------------------------------------------------------
(* The main thread.                                                        *)

\* A new device goes to the front of the list (timer.c:95-118).
LEMMA AttachInvariant ==
    ASSUME TInv, NEW d \in Devices, attach_event(d)
    PROVE  TInv'
<1> DEFINE n == Len(dev_list)
<1>1. /\ n \in Nat /\ dev_list \in Seq(Devices)
      /\ \A k \in 1 .. n : dev_list[k] # d
    BY DevList DEF attach_event, TInv, TypeOK, Attached
<1>2. /\ dev_list' \in Seq(Devices) /\ Len(dev_list') = n + 1
      /\ dev_list'[1] = d
      /\ \A k \in 2 .. n + 1 : dev_list'[k] = dev_list[k - 1]
    BY <1>1, ConcatProperties DEF attach_event
<1>3. TypeOK'
    BY <1>2 DEF attach_event, TInv, TypeOK, deviceVars, lockVars, timerVars
<1>4. MainInv' /\ tpc' = "off"
    BY DEF attach_event, TInv, MainInv, deviceVars, timerVars
<1>5. ListInv'
  <2> HIDE DEF n
  <2>1. \A k \in 1 .. n + 1 : k = 1 \/ (k \in 2 .. n + 1 /\ k - 1 \in 1 .. n)
    BY <1>1
  <2>2. \A k, l \in 1 .. n : dev_list[k] = dev_list[l] => k = l
    BY DEF TInv, ListInv, n
  <2>3. \A k, l \in 1 .. n + 1 : dev_list'[k] = dev_list'[l] => k = l
    BY <1>1, <1>2, <2>1, <2>2
  <2> QED
    BY <1>2, <1>4, <2>3 DEF ListInv, Scanning
<1>6. FlagInv'
    BY DEF attach_event, TInv, FlagInv, Waiting, deviceVars
<1>7. Unreleased' = {} /\ Unreleased = {}
    BY <1>4, UnreleasedNone DEF attach_event, timerVars
<1>8. PassInv' /\ CountInv'
    BY <1>4, <1>7 DEF PassInv, CountInv, Scanning
<1>9. SlotInv'
    BY <1>7 DEF attach_event, TInv, SlotInv, Waiting, NextTime, deviceVars
<1> QED
    BY <1>3, <1>4, <1>5, <1>6, <1>8, <1>9 DEF TInv

\* start_timer, stop_timer and the freeing of the list (timer.c:83, 120).
LEMMA MainInvariant ==
    ASSUME TInv, start_timer \/ stop_timer \/ FreeDevices
    PROVE  TInv'
<1>1. TypeOK'
    BY EmptySeq, Zenon
    DEF start_timer, stop_timer, FreeDevices, TInv, TypeOK, TimerPC,
        deviceVars, lockVars, timerVars
<1>2. MainInv'
    BY DEF start_timer, stop_timer, FreeDevices, TInv, MainInv, deviceVars,
        timerVars
<1>3. ListInv'
  <2>1. CASE start_timer
    BY <2>1 DEF start_timer, TInv, ListInv, Scanning, Attached
  <2>2. CASE stop_timer
    BY <2>2 DEF stop_timer, TInv, ListInv, Scanning, Attached, timerVars
  <2>3. CASE FreeDevices
    BY <2>3, EmptySeq DEF FreeDevices, TInv, ListInv, Scanning, timerVars
  <2> QED
    BY <2>1, <2>2, <2>3
<1>4. FlagInv'
    BY DEF start_timer, stop_timer, FreeDevices, TInv, FlagInv, Waiting,
        deviceVars
<1>5. Unreleased' = Unreleased
  <2>1. CASE start_timer
    BY <2>1, UnreleasedNone DEF start_timer, TInv, MainInv
  <2>2. CASE stop_timer
    BY <2>2, UnreleasedSame DEF stop_timer, timerVars
  <2>3. CASE FreeDevices
    BY <2>3, UnreleasedNone, Zenon DEF FreeDevices, timerVars
  <2> QED
    BY <2>1, <2>2, <2>3
<1>6. PassInv' /\ CountInv'
  <2>1. CASE start_timer
    BY <1>5, <2>1 DEF start_timer, TInv, PassInv, CountInv, Scanning, deviceVars
  <2>2. CASE stop_timer
    BY <1>5, <2>2
    DEF stop_timer, TInv, PassInv, CountInv, Scanning, deviceVars, timerVars
  <2>3. CASE FreeDevices
    BY <1>5, <2>3
    DEF FreeDevices, TInv, PassInv, CountInv, Scanning, deviceVars, timerVars
  <2> QED
    BY <2>1, <2>2, <2>3
<1>7. SlotInv'
    BY <1>5
    DEF start_timer, stop_timer, FreeDevices, TInv, SlotInv, Waiting,
        NextTime, deviceVars
<1> QED
    BY <1>1, <1>2, <1>3, <1>4, <1>6, <1>7 DEF TInv
-----------------------------------------------------------------------------
\* Nothing that TInv speaks of changes in a stuttering step.
LEMMA StutterInvariant ==
    ASSUME TInv, UNCHANGED vars
    PROVE  TInv'
<1>0. Unreleased' = Unreleased
    BY UnreleasedSame DEF vars, timerVars, mainVars
<1>1. TypeOK'
    BY DEF TInv, TypeOK, vars, deviceVars, lockVars, timerVars, mainVars
<1>2. MainInv' /\ ListInv' /\ FlagInv'
    BY DEF TInv, MainInv, ListInv, FlagInv, Waiting, Scanning, Attached, vars,
        deviceVars, timerVars, mainVars
<1>3. PassInv' /\ CountInv'
    BY <1>0 DEF TInv, PassInv, CountInv, Scanning, vars, deviceVars,
        timerVars, mainVars
<1>4. SlotInv'
    BY <1>0 DEF TInv, SlotInv, Waiting, NextTime, vars, deviceVars
<1> QED
    BY <1>1, <1>2, <1>3, <1>4 DEF TInv

\* Every step preserves TInv.
LEMMA StepInvariant == TInv /\ [Next]_vars => TInv'
<1> SUFFICES ASSUME TInv, [Next]_vars PROVE TInv'
    OBVIOUS
<1>1. CASE TimerStep \/ TimerSpuriousWakeup
    BY <1>1, TimerLoopInvariant, TimerMovesInvariant, TimerEventCountInvariant,
       TimerTickInvariant, TimerReleaseInvariant, TimerTestInvariant
    DEF TimerStep
<1>2. ASSUME NEW d \in Devices, DeviceStep(d) \/ DeviceSpuriousWakeup(d)
      PROVE  TInv'
    BY <1>2, DeviceMovesInvariant, NextSlotSetInvariant, WaitCheckInvariant,
       DetachSetInvariant
    DEF DeviceStep
<1>3. CASE MainStep
    BY <1>3, AttachInvariant, MainInvariant DEF MainStep
<1>4. CASE Ended \/ UNCHANGED vars
    BY <1>4, StutterInvariant DEF Ended
<1> QED
    BY <1>1, <1>2, <1>3, <1>4 DEF Next

\* TInv is an invariant of timer.c.
LEMMA Invariance == Spec => []TInv
    BY InitInvariant, StepInvariant, PTL DEF Spec
-----------------------------------------------------------------------------
\* Every variable of timer.c keeps its type.
THEOREM TypeCorrect == Spec => []TypeOK
<1>1. TInv => TypeOK
    BY DEF TInv
<1> QED
    BY <1>1, Invariance, PTL

\* next_slot and timer_routine are never both about to write done of one
\* device (timer.c:64 and 50), though they hold different locks.
THEOREM NoDoneRaceAlways == Spec => []NoDoneRace
<1>1. TInv => NoDoneRace
  <2> SUFFICES ASSUME TInv, NEW d \in Devices, dpc[d] = "nset", Releasing(d)
               PROVE  FALSE
    BY Zenon DEF NoDoneRace
  <2>1. d \in Unreleased
    <3>1. d = dev_list[temp] /\ temp \in 1 .. Len(dev_list) /\ Len(dev_list) \in Nat
        BY DevList, CurrentDevice DEF TInv, Releasing
    <3>2. temp \in temp .. Len(dev_list)
        BY <3>1
    <3> QED
        BY <3>1, <3>2 DEF Releasing, Unreleased
  <2> QED
    BY <2>1 DEF TInv, PassInv, FlagInv, Waiting
<1> QED
    BY <1>1, Invariance, PTL

\* No device is at work when _time is incremented (timer.c:45), so none
\* reads it at that moment (current_time, timer.c:79).
THEOREM QuietAtTickAlways == Spec => []QuietAtTick
<1>1. TInv => QuietAtTick
    BY Zenon DEF TInv, PassInv, FlagInv, Waiting, QuietAtTick
<1> QED
    BY <1>1, Invariance, PTL

\* next_slot returns exactly once per tick (timer.c:61-77).
THEOREM LockstepAlways == Spec => []Lockstep
<1>1. TInv => Lockstep
    BY Zenon DEF TInv, SlotInv, Waiting, Lockstep
<1> QED
    BY <1>1, Invariance, PTL

\* timer_routine ends only when every device has detached (timer.c:55).
THEOREM TimerExitsLastAlways == Spec => []TimerExitsLast
<1>1. TInv => TimerExitsLast
    BY Zenon DEF TInv, CountInv, FlagInv, TimerExitsLast
<1> QED
    BY <1>1, Invariance, PTL
-----------------------------------------------------------------------------
(* The refinement of TimeSlots: NextSlotSet is Arrive, DetachSet is Leave, *)
(* TimerTick is Advance, and every other step is a stuttering one.         *)

\* A step that changes neither flag nor Unreleased is a stuttering one.
LEMMA PhaseSame ==
    ASSUME done' = done, fsh' = fsh, Unreleased' = Unreleased, time' = time
    PROVE  UNCHANGED TS!vars
<1>1. \A d \in Devices : Phase(d)' = Phase(d)
    BY DEF Phase
<1> QED
    BY <1>1 DEF TS!vars

\* Before anything starts every device counts as running in slot 0.
LEMMA RefinesInit == Init => TS!Init
<1> SUFFICES ASSUME Init PROVE TS!Init
    OBVIOUS
<1>1. \A d \in Devices : Phase(d) = "running"
    BY Zenon DEF Init, Phase
<1> QED
    BY <1>1 DEF Init, TS!Init

\* The device arrives: done becomes 1.
LEMMA RefinesArrive ==
    ASSUME TInv, NEW d \in Devices, NextSlotSet(d)
    PROVE  TS!Arrive(d)
<1>1. Unreleased' = Unreleased /\ d \notin Unreleased /\ ~fsh[d] /\ ~done[d]
  <2>1. Unreleased' = Unreleased
    BY SignalMoves, UnreleasedSame DEF NextSlotSet, TInv, mainVars
  <2> QED
    BY <2>1 DEF NextSlotSet, TInv, PassInv, FlagInv, Waiting
<1>2. Phase(d) = "running" /\ Phase(d)' = "arrived" /\ time' = time
    BY <1>1 DEF NextSlotSet, TInv, TypeOK, Phase
<1>3. \A e \in Devices : e # d => Phase(e)' = Phase(e)
    BY <1>1 DEF NextSlotSet, TInv, TypeOK, Phase
<1> QED
    BY <1>2, <1>3, Zenon DEF TS!Arrive

\* The device leaves: fsh becomes 1.
LEMMA RefinesLeave ==
    ASSUME TInv, NEW d \in Devices, DetachSet(d)
    PROVE  TS!Leave(d)
<1>1. Unreleased' = Unreleased /\ ~fsh[d] /\ ~done[d]
  <2>1. Unreleased' = Unreleased
    BY SignalMoves, UnreleasedSame DEF DetachSet, TInv, mainVars
  <2> QED
    BY <2>1 DEF DetachSet, TInv, FlagInv, Waiting
<1>2. Phase(d) = "running" /\ Phase(d)' = "gone" /\ time' = time
    BY <1>1 DEF DetachSet, TInv, TypeOK, Phase
<1>3. \A e \in Devices : e # d => Phase(e)' = Phase(e)
    BY <1>1 DEF DetachSet, TInv, TypeOK, Phase
<1> QED
    BY <1>2, <1>3, Zenon DEF TS!Leave

\* The slot ends: _time++.
LEMMA RefinesAdvance ==
    ASSUME TInv, TimerTick
    PROVE  TS!Advance
<1>1. Unreleased = {} /\ Unreleased' = Devices
    BY UnreleasedAll
<1>2. \A d \in Devices :
        /\ Phase(d) # "running"
        /\ Phase(d)' = IF Phase(d) = "arrived" THEN "running" ELSE Phase(d)
    BY <1>1 DEF TimerTick, TInv, PassInv, Phase, deviceVars
<1>3. time' = TS!NextTime(time)
    BY DEF TimerTick, NextTime, TS!NextTime
<1> QED
    BY <1>2, <1>3 DEF TS!Advance

\* The devices are released one by one after the slot has ended.
LEMMA RefinesRelease ==
    ASSUME TInv, TimerRelease
    PROVE  UNCHANGED TS!vars
<1> DEFINE r == dev_list[temp]
<1>1. r \in Devices /\ temp \in 1 .. Len(dev_list) /\ Len(dev_list) \in Nat
    BY DevList, CurrentDevice DEF TimerRelease, TInv
<1>2. Unreleased' = Unreleased \ {r} /\ r \in Unreleased
  <2>1. temp \in temp .. Len(dev_list)
    BY <1>1
  <2> QED
    BY <2>1, UnreleasedOneLess, Zenon DEF TimerRelease, Unreleased
<1>3. /\ ~done'[r] /\ fsh' = fsh /\ time' = time
      /\ \A e \in Devices : e # r => done'[e] = done[e]
    BY <1>1 DEF TimerRelease, TInv, TypeOK
<1> HIDE DEF r
<1>4. \A e \in Devices : Phase(e)' = Phase(e)
    BY <1>1, <1>2, <1>3 DEF Phase
<1> QED
    BY <1>3, <1>4 DEF TS!vars

\* The steps that neither flag nor the set of devices to release sees.
LEMMA RefinesStutter ==
    ASSUME TInv,
           \/ TimerLoop \/ TimerEventLock \/ TimerEventWait
           \/ TimerEventCount \/ TimerReleaseLock \/ TimerTest
           \/ TimerSpuriousWakeup \/ MainStep \/ Ended \/ UNCHANGED vars
           \/ \E d \in Devices :
                  \/ StartDevice(d) \/ NextSlot(d) \/ NextSlotLock(d)
                  \/ WaitLock(d) \/ WaitCheck(d) \/ DeviceSpuriousWakeup(d)
                  \/ DetachEvent(d) \/ DetachLock(d)
    PROVE  UNCHANGED TS!vars
<1>1. done' = done /\ fsh' = fsh /\ time' = time
    BY Zenon DEF TimerLoop, TimerEventLock, TimerEventWait, TimerEventCount,
        TimerReleaseLock, TimerTest, TimerSpuriousWakeup, MainStep,
        attach_event, start_timer, stop_timer, FreeDevices, Ended,
        StartDevice, NextSlot, NextSlotLock, WaitLock, WaitCheck,
        DeviceSpuriousWakeup, DetachEvent, DetachLock, vars, deviceVars
<1>2. Unreleased' = Unreleased
  <2>1. CASE \/ TimerLoop \/ TimerEventCount \/ TimerTest \/ MainStep
    BY <2>1, Zenon DEF TimerLoop, TimerEventCount, TimerTest, MainStep,
       attach_event,
        start_timer, stop_timer, FreeDevices, TInv, MainInv, Unreleased,
        timerVars
  <2>2. CASE ~(TimerLoop \/ TimerEventCount \/ TimerTest \/ MainStep)
    <3>1. dev_list' = dev_list /\ temp' = temp
        BY <2>2 DEF TimerEventLock, TimerEventWait, TimerReleaseLock,
            TimerSpuriousWakeup, Ended, StartDevice, NextSlot, NextSlotLock,
            WaitLock, WaitCheck, DeviceSpuriousWakeup, DetachEvent,
            DetachLock, vars, timerVars, mainVars
    <3>2. tpc' = tpc \/ (tpc \in {"rlock", "rset"} <=> tpc' \in {"rlock", "rset"})
        BY <2>2 DEF TimerEventLock, TimerEventWait, TimerReleaseLock,
            TimerSpuriousWakeup, Ended, StartDevice, NextSlot, NextSlotLock,
            WaitLock, WaitCheck, DeviceSpuriousWakeup, DetachEvent,
            DetachLock, vars, timerVars
    <3> QED
        BY <3>1, <3>2, UnreleasedSame
  <2> QED
    BY <2>1, <2>2
<1> QED
    BY <1>1, <1>2, PhaseSame

\* Every step of timer.c is a step of TimeSlots or leaves its state alone.
LEMMA RefinesStep == TInv /\ [Next]_vars => [TS!Next]_(TS!vars)
<1> SUFFICES ASSUME TInv, [Next]_vars PROVE [TS!Next]_(TS!vars)
    OBVIOUS
<1>1. ASSUME NEW d \in Devices, NextSlotSet(d) PROVE TS!Next
    BY <1>1, RefinesArrive DEF TS!Next
<1>2. ASSUME NEW d \in Devices, DetachSet(d) PROVE TS!Next
    BY <1>2, RefinesLeave DEF TS!Next
<1>3. CASE TimerTick
    BY <1>3, RefinesAdvance DEF TS!Next
<1>4. CASE TimerRelease
    BY <1>4, RefinesRelease
<1> QED
    BY <1>1, <1>2, <1>3, <1>4, RefinesStutter
    DEF Next, TimerStep, DeviceStep

\* timer.c keeps the promise of TimeSlots: no slot ends before every device
\* still attached has called next_slot, and each of them goes on in the next.
THEOREM ImplementsTimeSlotsSafely == Spec => TS!Safe
    BY RefinesInit, RefinesStep, Invariance, PTL DEF Spec, TS!Safe
=============================================================================
