------------------------------- MODULE Timer -------------------------------
(***************************************************************************)
(* timer.c: the timer thread and the devices that share its clock.         *)
(*                                                                         *)
(* Every device owns a timer_id with two mutexes and two condition         *)
(* variables.  The flag done is written by the device under event_lock and *)
(* by the timer under timer_lock, so no single lock protects it: what      *)
(* protects it is the protocol, and that is what this module checks.       *)
(*                                                                         *)
(* One action is one critical section or one lock acquisition.  A thread   *)
(* in a wait state holds no lock; a signal, or a spurious wakeup, sends it *)
(* back to acquire the lock and to test its condition again.               *)
(***************************************************************************)
EXTENDS Naturals, Sequences

CONSTANTS
    Devices,  \* the threads that hold a timer_id
    TimeMod   \* 2^64 in the code: _time is a uint64_t

ASSUME TimerAssumption == Devices # {} /\ TimeMod \in Nat \ {0, 1}

VARIABLES
    dev_list,       \* the attached devices, last attached first
    timer_started,
    timer_stop,
    time,           \* _time
    done,           \* done[d]: d waits for the slot to end
    fsh,            \* fsh[d]: d has detached
    event_lock,     \* event_lock[d]: who holds it
    timer_lock,     \* timer_lock[d]: who holds it
    tpc,            \* where the timer thread is
    temp,           \* its position in dev_list
    nfsh, nevent,   \* its local counters fsh and event
    dpc,            \* where each device thread is
    mpc,            \* where the main thread is
    slots           \* history: slots[d] counts the returns of next_slot

deviceVars == <<done, fsh, dpc, slots>>
lockVars   == <<event_lock, timer_lock>>
timerVars  == <<tpc, temp, nfsh, nevent>>
mainVars   == <<dev_list, timer_started, timer_stop, mpc>>
vars == <<deviceVars, lockVars, timerVars, mainVars, time>>

Holders   == {"none", "timer", "device"}
TimerPC   == {"off", "loop", "elock", "echeck", "ewait", "tick", "rlock",
              "rset", "test", "exit"}
DevicePC  == {"new", "run", "nlock", "nset", "wlock", "wcheck", "wwait",
              "flock", "fset", "exit"}
Times     == 0 .. TimeMod - 1

\* Mutation of NextTime: the counter never wraps.
NextTimeUnbounded(t) == t + 1

NextTime(t) == IF t = TimeMod - 1 THEN 0 ELSE t + 1

TypeOK ==
    /\ dev_list \in Seq(Devices)
    /\ timer_started \in BOOLEAN /\ timer_stop \in BOOLEAN
    /\ time \in Times
    /\ done \in [Devices -> BOOLEAN]
    /\ fsh \in [Devices -> BOOLEAN]
    /\ event_lock \in [Devices -> Holders]
    /\ timer_lock \in [Devices -> Holders]
    /\ tpc \in TimerPC
    /\ temp \in Nat /\ nfsh \in Nat /\ nevent \in Nat
    /\ dpc \in [Devices -> DevicePC]
    /\ mpc \in {"attach", "join", "stop", "end"}
    /\ slots \in [Devices -> Times]

Init ==
    /\ dev_list = << >>
    /\ timer_started = FALSE /\ timer_stop = FALSE
    /\ time = 0
    /\ done = [d \in Devices |-> FALSE]
    /\ fsh = [d \in Devices |-> FALSE]
    /\ event_lock = [d \in Devices |-> "none"]
    /\ timer_lock = [d \in Devices |-> "none"]
    /\ tpc = "off" /\ temp = 1 /\ nfsh = 0 /\ nevent = 0
    /\ dpc = [d \in Devices |-> "new"]
    /\ mpc = "attach"
    /\ slots = [d \in Devices |-> 0]
-----------------------------------------------------------------------------
(* The main thread: attach, start, join the devices, stop.                 *)

Attached == {dev_list[i] : i \in 1 .. Len(dev_list)}

attach_event(d) ==
    /\ mpc = "attach" /\ ~timer_started
    /\ d \notin Attached
    /\ dev_list' = <<d>> \o dev_list
    /\ UNCHANGED <<timer_started, timer_stop, mpc, deviceVars, lockVars,
                   timerVars, time>>

start_timer ==
    /\ mpc = "attach" /\ Attached = Devices
    /\ timer_started' = TRUE
    /\ tpc' = "loop"
    /\ mpc' = "join"
    /\ UNCHANGED <<dev_list, timer_stop, temp, nfsh, nevent, deviceVars,
                   lockVars, time>>

\* pthread_create of a device's thread, after start_timer.
StartDevice(d) ==
    /\ mpc = "join" /\ dpc[d] = "new"
    /\ dpc' = [dpc EXCEPT ![d] = "run"]
    /\ UNCHANGED <<done, fsh, slots, lockVars, timerVars, mainVars, time>>

\* main has joined every device thread and calls stop_timer.
stop_timer ==
    /\ mpc = "join" /\ \A d \in Devices : dpc[d] = "exit"
    /\ timer_stop' = TRUE
    /\ mpc' = "stop"
    /\ UNCHANGED <<dev_list, timer_started, deviceVars, lockVars, timerVars,
                   time>>

\* stop_timer has joined the timer thread; the list is freed.
FreeDevices ==
    /\ mpc = "stop" /\ tpc = "exit"
    /\ dev_list' = << >>
    /\ mpc' = "end"
    /\ UNCHANGED <<timer_started, timer_stop, deviceVars, lockVars, timerVars,
                   time>>
-----------------------------------------------------------------------------
(* A device: next_slot and detach_event.                                   *)

\* The device calls next_slot.
NextSlot(d) ==
    /\ dpc[d] = "run"
    /\ dpc' = [dpc EXCEPT ![d] = "nlock"]
    /\ UNCHANGED <<done, fsh, slots, lockVars, timerVars, mainVars, time>>

NextSlotLock(d) ==
    /\ dpc[d] = "nlock" /\ event_lock[d] = "none"
    /\ event_lock' = [event_lock EXCEPT ![d] = "device"]
    /\ dpc' = [dpc EXCEPT ![d] = "nset"]
    /\ UNCHANGED <<done, fsh, slots, timer_lock, timerVars, mainVars, time>>

\* pthread_cond_signal(&event_cond) wakes the timer if it sleeps on d.
SignalTimer(d) ==
    tpc' = IF tpc = "ewait" /\ dev_list[temp] = d THEN "elock" ELSE tpc

\* done = 1, signal, unlock.
NextSlotSet(d) ==
    /\ dpc[d] = "nset"
    /\ done' = [done EXCEPT ![d] = TRUE]
    /\ SignalTimer(d)
    /\ event_lock' = [event_lock EXCEPT ![d] = "none"]
    /\ dpc' = [dpc EXCEPT ![d] = "wlock"]
    /\ UNCHANGED <<fsh, slots, timer_lock, temp, nfsh, nevent, mainVars, time>>

WaitLock(d) ==
    /\ dpc[d] = "wlock" /\ timer_lock[d] = "none"
    /\ timer_lock' = [timer_lock EXCEPT ![d] = "device"]
    /\ dpc' = [dpc EXCEPT ![d] = "wcheck"]
    /\ UNCHANGED <<done, fsh, slots, event_lock, timerVars, mainVars, time>>

\* while (done) pthread_cond_wait(...): sleeping releases the lock.
WaitCheck(d) ==
    /\ dpc[d] = "wcheck"
    /\ timer_lock' = [timer_lock EXCEPT ![d] = "none"]
    /\ dpc' = [dpc EXCEPT ![d] = IF done[d] THEN "wwait" ELSE "run"]
    /\ slots' = [slots EXCEPT ![d] = IF done[d] THEN @ ELSE NextTime(@)]
    /\ UNCHANGED <<done, fsh, event_lock, timerVars, mainVars, time>>

\* Mutation of DeviceSpuriousWakeup: "if (done)" in place of "while (done)".
DeviceWakesOnce(d) ==
    /\ dpc[d] = "wwait"
    /\ dpc' = [dpc EXCEPT ![d] = "run"]
    /\ slots' = [slots EXCEPT ![d] = NextTime(@)]
    /\ UNCHANGED <<done, fsh, lockVars, timerVars, mainVars, time>>

\* pthread_cond_wait may return without a signal.
DeviceSpuriousWakeup(d) ==
    /\ dpc[d] = "wwait"
    /\ dpc' = [dpc EXCEPT ![d] = "wlock"]
    /\ UNCHANGED <<done, fsh, slots, lockVars, timerVars, mainVars, time>>

\* The device's routine ends: it calls detach_event.
DetachEvent(d) ==
    /\ dpc[d] = "run"
    /\ dpc' = [dpc EXCEPT ![d] = "flock"]
    /\ UNCHANGED <<done, fsh, slots, lockVars, timerVars, mainVars, time>>

DetachLock(d) ==
    /\ dpc[d] = "flock" /\ event_lock[d] = "none"
    /\ event_lock' = [event_lock EXCEPT ![d] = "device"]
    /\ dpc' = [dpc EXCEPT ![d] = "fset"]
    /\ UNCHANGED <<done, fsh, slots, timer_lock, timerVars, mainVars, time>>

\* Mutation of DetachSet: the timer is not signalled.
DetachSilently(d) ==
    /\ dpc[d] = "fset"
    /\ fsh' = [fsh EXCEPT ![d] = TRUE]
    /\ event_lock' = [event_lock EXCEPT ![d] = "none"]
    /\ dpc' = [dpc EXCEPT ![d] = "exit"]
    /\ UNCHANGED <<done, slots, timer_lock, timerVars, mainVars, time>>

\* fsh = 1, signal, unlock; then pthread_exit.
DetachSet(d) ==
    /\ dpc[d] = "fset"
    /\ fsh' = [fsh EXCEPT ![d] = TRUE]
    /\ SignalTimer(d)
    /\ event_lock' = [event_lock EXCEPT ![d] = "none"]
    /\ dpc' = [dpc EXCEPT ![d] = "exit"]
    /\ UNCHANGED <<done, slots, timer_lock, temp, nfsh, nevent, mainVars, time>>
-----------------------------------------------------------------------------
(* timer_routine.                                                          *)

\* Mutation of TimerLoop: fsh is not reset for a new pass.
TimerLoopKeepsFsh ==
    /\ tpc = "loop"
    /\ nevent' = 0 /\ temp' = 1
    /\ tpc' = IF timer_stop THEN "exit" ELSE "elock"
    /\ UNCHANGED <<nfsh, deviceVars, lockVars, mainVars, time>>

\* Testing timer_stop and starting a pass over dev_list.
TimerLoop ==
    /\ tpc = "loop"
    /\ nfsh' = 0 /\ nevent' = 0 /\ temp' = 1
    /\ tpc' = IF timer_stop THEN "exit" ELSE "elock"
    /\ UNCHANGED <<deviceVars, lockVars, mainVars, time>>

TimerEventLock ==
    /\ tpc = "elock" /\ event_lock[dev_list[temp]] = "none"
    /\ event_lock' = [event_lock EXCEPT ![dev_list[temp]] = "timer"]
    /\ tpc' = "echeck"
    /\ UNCHANGED <<temp, nfsh, nevent, timer_lock, deviceVars, mainVars, time>>

\* The device has neither arrived nor left: sleep on event_cond.
TimerEventWait ==
    LET d == dev_list[temp] IN
    /\ tpc = "echeck" /\ ~done[d] /\ ~fsh[d]
    /\ event_lock' = [event_lock EXCEPT ![d] = "none"]
    /\ tpc' = "ewait"
    /\ UNCHANGED <<temp, nfsh, nevent, timer_lock, deviceVars, mainVars, time>>

\* Count the device and go on to the next one.
TimerEventCount ==
    LET d == dev_list[temp] IN
    /\ tpc = "echeck" /\ (done[d] \/ fsh[d])
    /\ event_lock' = [event_lock EXCEPT ![d] = "none"]
    /\ nfsh' = IF fsh[d] THEN nfsh + 1 ELSE nfsh
    /\ nevent' = nevent + 1
    /\ temp' = temp + 1
    /\ tpc' = IF temp = Len(dev_list) THEN "tick" ELSE "elock"
    /\ UNCHANGED <<timer_lock, deviceVars, mainVars, time>>

\* Mutation of TimerSpuriousWakeup: "if" in place of "while" around the wait
\* on event_cond, so that the device is counted without a second test.
TimerWakesOnce ==
    /\ tpc = "ewait"
    /\ nevent' = nevent + 1
    /\ temp' = temp + 1
    /\ tpc' = IF temp = Len(dev_list) THEN "tick" ELSE "elock"
    /\ UNCHANGED <<nfsh, deviceVars, lockVars, mainVars, time>>

TimerSpuriousWakeup ==
    /\ tpc = "ewait"
    /\ tpc' = "elock"
    /\ UNCHANGED <<temp, nfsh, nevent, deviceVars, lockVars, mainVars, time>>

\* _time++
TimerTick ==
    /\ tpc = "tick"
    /\ time' = NextTime(time)
    /\ temp' = 1
    /\ tpc' = "rlock"
    /\ UNCHANGED <<nfsh, nevent, deviceVars, lockVars, mainVars>>

TimerReleaseLock ==
    /\ tpc = "rlock" /\ timer_lock[dev_list[temp]] = "none"
    /\ timer_lock' = [timer_lock EXCEPT ![dev_list[temp]] = "timer"]
    /\ tpc' = "rset"
    /\ UNCHANGED <<temp, nfsh, nevent, event_lock, deviceVars, mainVars, time>>

\* Mutation of TimerRelease: timer_cond is not signalled.
TimerReleasesSilently ==
    /\ tpc = "rset"
    /\ done' = [done EXCEPT ![dev_list[temp]] = FALSE]
    /\ timer_lock' = [timer_lock EXCEPT ![dev_list[temp]] = "none"]
    /\ temp' = temp + 1
    /\ tpc' = IF temp = Len(dev_list) THEN "test" ELSE "rlock"
    /\ UNCHANGED <<fsh, dpc, slots, nfsh, nevent, event_lock, mainVars, time>>

\* done = 0, signal timer_cond, unlock.
TimerRelease ==
    LET d == dev_list[temp] IN
    /\ tpc = "rset"
    /\ done' = [done EXCEPT ![d] = FALSE]
    /\ dpc' = [dpc EXCEPT ![d] = IF @ = "wwait" THEN "wlock" ELSE @]
    /\ timer_lock' = [timer_lock EXCEPT ![d] = "none"]
    /\ temp' = temp + 1
    /\ tpc' = IF temp = Len(dev_list) THEN "test" ELSE "rlock"
    /\ UNCHANGED <<fsh, slots, nfsh, nevent, event_lock, mainVars, time>>

\* if (fsh == event) break;
TimerTest ==
    /\ tpc = "test"
    /\ tpc' = IF nfsh = nevent THEN "exit" ELSE "loop"
    /\ UNCHANGED <<temp, nfsh, nevent, deviceVars, lockVars, mainVars, time>>
-----------------------------------------------------------------------------
TimerStep ==
    \/ TimerLoop \/ TimerEventLock \/ TimerEventWait \/ TimerEventCount
    \/ TimerTick \/ TimerReleaseLock \/ TimerRelease \/ TimerTest

DeviceStep(d) ==
    \/ StartDevice(d)
    \/ NextSlot(d) \/ NextSlotLock(d) \/ NextSlotSet(d)
    \/ WaitLock(d) \/ WaitCheck(d)
    \/ DetachEvent(d) \/ DetachLock(d) \/ DetachSet(d)

MainStep ==
    \/ \E d \in Devices : attach_event(d)
    \/ start_timer \/ stop_timer \/ FreeDevices

\* Everything has ended; the process exits.
Ended == mpc = "end" /\ UNCHANGED vars

Next ==
    \/ TimerStep
    \/ TimerSpuriousWakeup
    \/ \E d \in Devices : DeviceStep(d) \/ DeviceSpuriousWakeup(d)
    \/ MainStep
    \/ Ended

TimerLocks == TimerEventLock \/ TimerReleaseLock

DeviceLocks(d) == NextSlotLock(d) \/ DetachLock(d) \/ WaitLock(d)

(***************************************************************************)
(* Every thread is scheduled again and again (POSIX threads on a running   *)
(* machine), and the work of a device within a slot ends: weak fairness of *)
(* each thread.  A thread that waits for a mutex which is released again   *)
(* and again gets it in the end: strong fairness of the acquisitions.      *)
(* That is needed only because spurious wakeups, which are possible and    *)
(* never relied upon, let the other side take the mutex any number of      *)
(* times within a slot.                                                    *)
(***************************************************************************)
Fairness ==
    /\ WF_vars(TimerStep) /\ SF_vars(TimerLocks)
    /\ \A d \in Devices : WF_vars(DeviceStep(d)) /\ SF_vars(DeviceLocks(d))
    /\ WF_vars(MainStep)

Spec == Init /\ [][Next]_vars /\ Fairness
-----------------------------------------------------------------------------
(* Properties.                                                             *)

\* Where the timer still has to set done[d] = 0 after a tick.
Unreleased ==
    IF tpc \in {"rlock", "rset"}
    THEN {dev_list[i] : i \in temp .. Len(dev_list)}
    ELSE {}

Releasing(d) == tpc = "rset" /\ dev_list[temp] = d

(***************************************************************************)
(* done is written under two different locks, event_lock by next_slot      *)
(* (timer.c:64) and timer_lock by timer_routine (timer.c:50); still the    *)
(* two writes of one device's flag are never both about to happen.         *)
(***************************************************************************)
NoDoneRace ==
    \A d \in Devices : ~(dpc[d] = "nset" /\ Releasing(d))

(***************************************************************************)
(* _time is incremented and read without a lock (timer.c:45, 79); when the *)
(* timer is about to increment it no device is at work, so no device can   *)
(* read it at that moment.                                                 *)
(***************************************************************************)
QuietAtTick ==
    tpc = "tick" =>
        \A d \in Devices : dpc[d] \in {"wlock", "wcheck", "wwait", "exit"}

(***************************************************************************)
(* Lockstep: a device at work has returned from next_slot exactly once per *)
(* tick, and one that still waits is at most one tick behind: next_slot    *)
(* never returns twice in a slot and never sleeps through one.             *)
(***************************************************************************)
Lockstep ==
    \A d \in Devices :
        /\ dpc[d] \in {"run", "nlock", "nset", "flock", "fset"} =>
               slots[d] = time
        /\ dpc[d] \in {"wlock", "wcheck", "wwait"} =>
               IF done[d] /\ d \notin Unreleased
               THEN slots[d] = time
               ELSE time = NextTime(slots[d])

(***************************************************************************)
(* The timer thread never abandons a device: it leaves its loop, by the    *)
(* break of timer.c:55 or by timer_stop, only when every device has        *)
(* detached, so no next_slot is left waiting for a timer that is gone.     *)
(***************************************************************************)
TimerExitsLast ==
    tpc = "exit" => \A d \in Devices : fsh[d] /\ dpc[d] = "exit"

(***************************************************************************)
(* No lost wakeup: a device that calls next_slot gets to work again, with  *)
(* no help from spurious wakeups.                                          *)
(***************************************************************************)
NextSlotReturns ==
    \A d \in Devices : dpc[d] = "nlock" ~> dpc[d] = "run"

(***************************************************************************)
(* stop_timer returns: when every device has left, the timer thread ends   *)
(* and main frees the list.                                                *)
(***************************************************************************)
StopTimerReturns == (\A d \in Devices : fsh[d]) ~> mpc = "end"

-----------------------------------------------------------------------------
(* The refinement.  A device whose done flag is set waits for the slot to  *)
(* end until the tick; from the tick on it runs in the next slot, though   *)
(* the timer has not yet released it.                                      *)

Phase(d) ==
    IF fsh[d] THEN "gone"
    ELSE IF done[d] /\ d \notin Unreleased THEN "arrived"
    ELSE "running"

TS == INSTANCE TimeSlots WITH at <- [d \in Devices |-> Phase(d)]

\* timer.c implements the promise of TimeSlots, its liveness included.
ImplementsTimeSlots == TS!Spec
=============================================================================
