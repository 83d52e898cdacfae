SPECIFICATION Spec
CONSTANTS
    Devices = {cpu, loader}
    TimeMod = 3
INVARIANTS
    TypeOK
    NoDoneRace
    QuietAtTick
    Lockstep
    TimerExitsLast
PROPERTIES
    NextSlotReturns
    StopTimerReturns
    ImplementsTimeSlots
