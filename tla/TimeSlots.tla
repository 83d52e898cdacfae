----------------------------- MODULE TimeSlots -----------------------------
(***************************************************************************)
(* What the timer promises to the threads that use it (timer.h): time is   *)
(* cut into slots, and no slot ends before every device still attached has *)
(* said, through next_slot, that its work of the slot is done.             *)
(*                                                                         *)
(* This is the abstract side of Timer, which models timer.c lock by lock   *)
(* and implements this specification, and it is the clock that the module  *)
(* OS composes the CPUs and the loader with.                               *)
(***************************************************************************)
EXTENDS Naturals

CONSTANTS
    Devices,  \* the threads that hold a timer_id: every CPU and the loader
    TimeMod   \* _time is a uint64_t: it counts modulo TimeMod (2^64)

VARIABLES
    time,     \* _time, the number of the current slot
    at        \* at[d]: what device d is doing in the current slot

vars == <<time, at>>

DeviceStates == {"running", "arrived", "gone"}

Times == 0 .. TimeMod - 1

NextTime(t) == IF t = TimeMod - 1 THEN 0 ELSE t + 1

TypeOK ==
    /\ time \in Times
    /\ at \in [Devices -> DeviceStates]
-----------------------------------------------------------------------------
Init ==
    /\ time = 0
    /\ at = [d \in Devices |-> "running"]

\* next_slot: the device has done its job and waits for the next slot.
Arrive(d) ==
    /\ at[d] = "running"
    /\ at' = [at EXCEPT ![d] = "arrived"]
    /\ UNCHANGED time

\* detach_event: the device takes no part in later slots.
Leave(d) ==
    /\ at[d] = "running"
    /\ at' = [at EXCEPT ![d] = "gone"]
    /\ UNCHANGED time

\* One turn of timer_routine: the slot ends and the waiting devices go on.
Advance ==
    /\ \A d \in Devices : at[d] # "running"
    /\ time' = NextTime(time)
    /\ at' = [d \in Devices |-> IF at[d] = "arrived" THEN "running" ELSE at[d]]

Next ==
    \/ \E d \in Devices : Arrive(d) \/ Leave(d)
    \/ Advance

\* Somebody waits for the slot to end.
SomeArrived == \E d \in Devices : at[d] = "arrived"

Safe == Init /\ [][Next]_vars

\* The timer goes on as long as some device waits for it.
Spec == Safe /\ WF_vars(SomeArrived /\ Advance)
=============================================================================
