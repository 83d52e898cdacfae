--------------------------------- MODULE OS ---------------------------------
(***************************************************************************)
(* os.c: the CPU threads and the loader thread, composed with the          *)
(* scheduler they share (Sched) and with the clock that keeps them in step *)
(* (TimeSlots, which timer.c implements: module Timer).                    *)
(*                                                                         *)
(* A CPU's turn of the loop in cpu_routine is cut where it touches what    *)
(* other threads touch: the scheduler's queues, the flag done, the clock.  *)
(* What an instruction does to memory is the subject of the other modules; *)
(* here a process is its program counter.                                  *)
(***************************************************************************)
EXTENDS Sched, FiniteSets

CONSTANTS
    CPUs,          \* the CPU threads
    LOADER,        \* the loader thread
    NumProcesses,  \* num_processes; the loader loads 1, 2, ... in this order
    TimeSlot,      \* time_slot, the quantum
    TimeMod,       \* 2^64: the clock is a uint64_t
    Workloads      \* the configurations read_config may read

ASSUME OSAssumption ==
    /\ NumProcesses \in Nat /\ Proc = 1 .. NumProcesses
    /\ TimeSlot \in Nat \ {0}
    /\ TimeMod \in Nat \ {0, 1}
    /\ LOADER \notin CPUs
    /\ Workloads \subseteq [prio : [Proc -> Prios], size : [Proc -> Nat],
                            start_time : [Proc -> Nat]]

VARIABLES
    ld_processes,  \* the configuration: prio, size and start_time of each
    time, at,      \* the clock
    i,             \* the loader's index (from 1)
    done,          \* the loader has loaded everything
    cpc,           \* where each CPU is in its loop
    proc,          \* the process each CPU holds
    time_left,     \* what is left of its quantum
    pc,            \* the program counter of each process
    freed,         \* the pcbs passed to free()
    ran            \* history: instructions of each process in this slot

clockVars  == <<time, at>>
loaderVars == <<i, done>>
cpuVars    == <<cpc, proc, time_left>>
procVars   == <<pc, freed, ran>>
vars == <<ld_processes, clockVars, loaderVars, cpuVars, procVars, schedVars>>

Clock == INSTANCE TimeSlots WITH Devices <- CPUs \cup {LOADER}

CpuPC == {"top", "get", "recheck", "run", "exit"}

TypeOK ==
    /\ SchedTypeOK
    /\ Clock!TypeOK
    /\ ld_processes \in Workloads
    /\ i \in 1 .. NumProcesses + 1 /\ done \in BOOLEAN
    /\ cpc \in [CPUs -> CpuPC]
    /\ proc \in [CPUs -> Proc \cup {NULL}]
    /\ time_left \in [CPUs -> 0 .. TimeSlot]
    /\ pc \in [Proc -> Nat]
    /\ freed \subseteq Proc
    /\ ran \in [Proc -> Nat]

Init ==
    /\ init_scheduler
    /\ Clock!Init
    /\ ld_processes \in Workloads
    /\ i = 1 /\ done = FALSE
    /\ cpc = [c \in CPUs |-> "top"]
    /\ proc = [c \in CPUs |-> NULL]
    /\ time_left = [c \in CPUs |-> 0]
    /\ pc = [p \in Proc |-> 0]
    /\ freed = {}
    /\ ran = [p \in Proc |-> 0]
-----------------------------------------------------------------------------
(* cpu_routine                                                             *)

\* CPU c is at this point of its loop, in the current slot.
CpuAt(c, place) == cpc[c] = place /\ at[c] = "running"

Goto(c, place) == cpc' = [cpc EXCEPT ![c] = place]

\* The CPU holds no process and asks for one; there is none: skip the slot,
\* whatever done says.
LoadNone(c) ==
    /\ CpuAt(c, "top") /\ proc[c] = NULL
    /\ get_proc(NULL)
    /\ Clock!Arrive(c)
    /\ UNCHANGED <<ld_processes, loaderVars, cpuVars, procVars>>

\* The CPU holds no process and gets one.
LoadFirst(c) ==
    /\ CpuAt(c, "top") /\ proc[c] = NULL
    /\ \E r \in Proc : get_proc(r) /\ proc' = [proc EXCEPT ![c] = r]
    /\ Goto(c, "recheck")
    /\ UNCHANGED <<ld_processes, clockVars, loaderVars, time_left, procVars>>

\* Mutation of FinishProc: what is left of the quantum is kept.
FinishKeepsQuantum(c) ==
    /\ CpuAt(c, "top") /\ proc[c] # NULL
    /\ pc[proc[c]] = ld_processes.size[proc[c]]
    /\ freed' = freed \cup {proc[c]}
    /\ proc' = [proc EXCEPT ![c] = NULL]
    /\ Goto(c, "get")
    /\ UNCHANGED <<ld_processes, clockVars, loaderVars, time_left, pc, ran,
                   schedVars>>

\* Mutation of FinishProc: without its "else" the process is put back too.
FinishAndPutBack(c) ==
    /\ CpuAt(c, "top") /\ proc[c] # NULL
    /\ pc[proc[c]] = ld_processes.size[proc[c]]
    /\ freed' = freed \cup {proc[c]}
    /\ put_proc(proc[c], ld_processes.prio[proc[c]])
    /\ proc' = [proc EXCEPT ![c] = NULL]
    /\ time_left' = [time_left EXCEPT ![c] = 0]
    /\ Goto(c, "get")
    /\ UNCHANGED <<ld_processes, clockVars, loaderVars, pc, ran>>

\* The process has finished: free(proc).  The local variable is overwritten
\* by the get_proc that follows, so NULL stands for its dangling value.
FinishProc(c) ==
    /\ CpuAt(c, "top") /\ proc[c] # NULL
    /\ pc[proc[c]] = ld_processes.size[proc[c]]
    /\ freed' = freed \cup {proc[c]}
    /\ proc' = [proc EXCEPT ![c] = NULL]
    /\ time_left' = [time_left EXCEPT ![c] = 0]
    /\ Goto(c, "get")
    /\ UNCHANGED <<ld_processes, clockVars, loaderVars, pc, ran, schedVars>>

\* Mutation of PutBack: get_proc does not follow.
PutBackAndKeep(c) ==
    /\ CpuAt(c, "top") /\ proc[c] # NULL
    /\ pc[proc[c]] # ld_processes.size[proc[c]] /\ time_left[c] = 0
    /\ put_proc(proc[c], ld_processes.prio[proc[c]])
    /\ Goto(c, "recheck")
    /\ UNCHANGED <<ld_processes, clockVars, loaderVars, proc, time_left,
                   procVars>>

\* Mutation of PutBack: put_proc is forgotten.
PutBackNothing(c) ==
    /\ CpuAt(c, "top") /\ proc[c] # NULL
    /\ pc[proc[c]] # ld_processes.size[proc[c]] /\ time_left[c] = 0
    /\ proc' = [proc EXCEPT ![c] = NULL]
    /\ Goto(c, "get")
    /\ UNCHANGED <<ld_processes, clockVars, loaderVars, time_left, procVars,
                   schedVars>>

\* The quantum is used up: put_proc(proc).
PutBack(c) ==
    /\ CpuAt(c, "top") /\ proc[c] # NULL
    /\ pc[proc[c]] # ld_processes.size[proc[c]] /\ time_left[c] = 0
    /\ put_proc(proc[c], ld_processes.prio[proc[c]])
    /\ proc' = [proc EXCEPT ![c] = NULL]
    /\ Goto(c, "get")
    /\ UNCHANGED <<ld_processes, clockVars, loaderVars, time_left, procVars>>

\* Mutation of KeepProc: the quantum is not looked at.
KeepProcForever(c) ==
    /\ CpuAt(c, "top") /\ proc[c] # NULL
    /\ pc[proc[c]] # ld_processes.size[proc[c]]
    /\ Goto(c, "run")
    /\ UNCHANGED <<ld_processes, clockVars, loaderVars, proc, time_left,
                   procVars, schedVars>>

\* Neither: go on with the same process.
KeepProc(c) ==
    /\ CpuAt(c, "top") /\ proc[c] # NULL
    /\ pc[proc[c]] # ld_processes.size[proc[c]] /\ time_left[c] # 0
    /\ Goto(c, "run")
    /\ UNCHANGED <<ld_processes, clockVars, loaderVars, proc, time_left,
                   procVars, schedVars>>

\* proc = get_proc() after FinishProc or PutBack.
GetNext(c) ==
    /\ CpuAt(c, "get")
    /\ \E r \in Proc \cup {NULL} :
           get_proc(r) /\ proc' = [proc EXCEPT ![c] = r]
    /\ Goto(c, "recheck")
    /\ UNCHANGED <<ld_processes, clockVars, loaderVars, time_left, procVars>>

\* No process, and done is read as set: stop and detach from the clock.
StopCPU(c) ==
    /\ CpuAt(c, "recheck") /\ proc[c] = NULL /\ done
    /\ Goto(c, "exit")
    /\ Clock!Leave(c)
    /\ UNCHANGED <<ld_processes, loaderVars, proc, time_left, procVars,
                   schedVars>>

\* No process, and done is read as not set: skip the slot.
SkipSlot(c) ==
    /\ CpuAt(c, "recheck") /\ proc[c] = NULL /\ ~done
    /\ Goto(c, "top")
    /\ Clock!Arrive(c)
    /\ UNCHANGED <<ld_processes, loaderVars, proc, time_left, procVars,
                   schedVars>>

\* A process was obtained: it is given a quantum unless one is under way.
Dispatch(c) ==
    /\ CpuAt(c, "recheck") /\ proc[c] # NULL
    /\ time_left' = [time_left EXCEPT ![c] = IF @ = 0 THEN TimeSlot ELSE @]
    /\ Goto(c, "run")
    /\ UNCHANGED <<ld_processes, clockVars, loaderVars, proc, procVars,
                   schedVars>>

\* Mutation of RunInstr: next_slot is not called.
RunWithoutSlot(c) ==
    LET p == proc[c]
        fetched == pc[p] < ld_processes.size[p]
    IN
    /\ CpuAt(c, "run")
    /\ pc' = [pc EXCEPT ![p] = IF fetched THEN @ + 1 ELSE @]
    /\ ran' = [ran EXCEPT ![p] = IF fetched THEN @ + 1 ELSE @]
    /\ time_left' = [time_left EXCEPT ![c] = @ - 1]
    /\ Goto(c, "top")
    /\ UNCHANGED <<ld_processes, clockVars, loaderVars, proc, freed, schedVars>>

\* run(proc); time_left--; next_slot.  run does nothing past the end.
RunInstr(c) ==
    LET p == proc[c]
        fetched == pc[p] < ld_processes.size[p]
    IN
    /\ CpuAt(c, "run")
    /\ pc' = [pc EXCEPT ![p] = IF fetched THEN @ + 1 ELSE @]
    /\ ran' = [ran EXCEPT ![p] = IF fetched THEN @ + 1 ELSE @]
    /\ time_left' = [time_left EXCEPT ![c] = @ - 1]
    /\ Goto(c, "top")
    /\ Clock!Arrive(c)
    /\ UNCHANGED <<ld_processes, loaderVars, proc, freed, schedVars>>
-----------------------------------------------------------------------------
(* ld_routine                                                              *)

LdWait ==
    /\ at[LOADER] = "running" /\ i <= NumProcesses
    /\ time < ld_processes.start_time[i]
    /\ Clock!Arrive(LOADER)
    /\ UNCHANGED <<ld_processes, loaderVars, cpuVars, procVars, schedVars>>

LdAdd ==
    /\ at[LOADER] = "running" /\ i <= NumProcesses
    /\ time >= ld_processes.start_time[i]
    /\ add_proc(i, ld_processes.prio[i])
    /\ i' = i + 1
    /\ Clock!Arrive(LOADER)
    /\ UNCHANGED <<ld_processes, done, cpuVars, procVars>>

\* done = 1; detach_event
LdDone ==
    /\ at[LOADER] = "running" /\ i = NumProcesses + 1
    /\ done' = TRUE
    /\ Clock!Leave(LOADER)
    /\ UNCHANGED <<ld_processes, i, cpuVars, procVars, schedVars>>
-----------------------------------------------------------------------------
\* The slot ends for the devices that wait for it.
NextTimeSlot ==
    /\ Clock!SomeArrived
    /\ Clock!Advance
    /\ ran' = [p \in Proc |-> 0]
    /\ UNCHANGED <<ld_processes, loaderVars, cpuVars, pc, freed, schedVars>>

CpuStep(c) ==
    \/ LoadNone(c) \/ LoadFirst(c) \/ FinishProc(c) \/ PutBack(c)
    \/ KeepProc(c) \/ GetNext(c) \/ StopCPU(c) \/ SkipSlot(c)
    \/ Dispatch(c) \/ RunInstr(c)

LoaderStep == LdWait \/ LdAdd \/ LdDone

Stopped(c) == at[c] = "gone"

\* main has joined every thread.
Ended ==
    /\ \A d \in CPUs \cup {LOADER} : Stopped(d)
    /\ UNCHANGED vars

Next ==
    \/ \E c \in CPUs : CpuStep(c)
    \/ LoaderStep
    \/ NextTimeSlot
    \/ Ended

(***************************************************************************)
(* The threads are scheduled again and again by the host, and the timer    *)
(* ends a slot that everybody waits for (Timer: NextSlotReturns).          *)
(***************************************************************************)
Fairness ==
    /\ \A c \in CPUs : WF_vars(CpuStep(c))
    /\ WF_vars(LoaderStep)
    /\ WF_vars(NextTimeSlot)

Spec == Init /\ [][Next]_vars /\ Fairness
-----------------------------------------------------------------------------
(* Properties.                                                             *)

Loaded(p) == p < i

Ready(p) ==
    \E q \in Prios : \E k \in 1 .. Len(mlq_ready_queue[q]) :
        mlq_ready_queue[q][k] = p

Held(p) == \E c \in CPUs : proc[c] = p

(***************************************************************************)
(* A process is in one place: no two CPUs hold it, no CPU holds what waits *)
(* in a queue, no queue holds it twice, and it waits in the queue of its   *)
(* own priority.  Two CPUs would otherwise run one pcb at the same time.   *)
(***************************************************************************)
OneCPU == \A c, d \in CPUs : proc[c] # NULL /\ proc[c] = proc[d] => c = d

NotHeldAndReady == \A p \in Proc : ~(Held(p) /\ Ready(p))

OneQueuePlace ==
    \A q \in Prios : \A k, l \in 1 .. Len(mlq_ready_queue[q]) :
        mlq_ready_queue[q][k] = mlq_ready_queue[q][l] => k = l

OwnQueue ==
    \A q \in Prios : \A k \in 1 .. Len(mlq_ready_queue[q]) :
        ld_processes.prio[mlq_ready_queue[q][k]] = q

OnePlace == OneCPU /\ NotHeldAndReady /\ OneQueuePlace /\ OwnQueue

(***************************************************************************)
(* free(proc) in cpu_routine (os.c:69) leaves no CPU and no ready queue    *)
(* with the freed pcb, and nothing is freed before it was loaded and has   *)
(* run to its end.                                                         *)
(***************************************************************************)
NoUseAfterFree ==
    \A p \in freed :
        /\ ~Held(p) /\ ~Ready(p)
        /\ Loaded(p) /\ pc[p] = ld_processes.size[p]

(***************************************************************************)
(* No process is lost between the queues and the CPUs: what is loaded and  *)
(* not freed is ready or held.  (As long as enqueue has room: queue.c:16.) *)
(***************************************************************************)
NoProcessLost ==
    \A p \in Proc : Loaded(p) /\ p \notin freed => Ready(p) \/ Held(p)

(***************************************************************************)
(* A process that is dispatched starts a full quantum, never the rest of   *)
(* the one its predecessor on that CPU left unused (os.c:71, 89-91).       *)
(***************************************************************************)
FreshQuantum ==
    \A c \in CPUs : proc[c] = NULL \/ cpc[c] = "recheck" => time_left[c] = 0

(***************************************************************************)
(* With any number of CPUs and with processes passing from one to another  *)
(* within a slot, a process executes at most one instruction per slot.     *)
(***************************************************************************)
OncePerSlot == \A p \in Proc : ran[p] <= 1

(***************************************************************************)
(* No process waits forever, however low its priority, while there are     *)
(* CPUs: the rounds of get_mlq_proc (sched.c:83-87) reach every queue.     *)
(***************************************************************************)
NoStarvation ==
    \A p \in Proc : Ready(p) ~> (Held(p) \/ \A c \in CPUs : Stopped(c))

(***************************************************************************)
(* A CPU stops only when no process waits: "No process to run, exit"       *)
(* (os.c:81).                                                              *)
(***************************************************************************)
StopOnlyWithoutWork ==
    [][\A c \in CPUs : Stopped(c)' /\ ~Stopped(c) => AllEmpty]_vars

(***************************************************************************)
(* "Wait for CPU and loader finishing" (os.c:300): every CPU finishes.     *)
(***************************************************************************)
CpusFinish == <>(\A c \in CPUs : Stopped(c))

=============================================================================
