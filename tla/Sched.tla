------------------------------- MODULE Sched -------------------------------
(***************************************************************************)
(* The multi-level queue scheduler: sched.c with the queues of queue.c.    *)
(*                                                                         *)
(* get_proc, put_proc and add_proc hold queue_lock from their first access *)
(* to a queue to their last one, so each is one atomic action.  They are   *)
(* action operators: OS conjoins them with the step of the CPU or of the   *)
(* loader that calls them.                                                 *)
(***************************************************************************)
EXTENDS Lists

CONSTANTS
    Proc,          \* the pcbs
    NULL,          \* no process
    MaxPrio,       \* MAX_PRIO (140)
    MaxQueueSize   \* MAX_QUEUE_SIZE (50)

ASSUME SchedAssumption ==
    /\ MaxPrio \in Nat \ {0}
    /\ MaxQueueSize \in Nat \ {0}
    /\ NULL \notin Proc

VARIABLES
    mlq_ready_queue,  \* one queue per priority
    slot,             \* slot[q]: dispatches left to queue q in this round
    running_list      \* what get_proc handed out and put_proc did not take back

schedVars == <<mlq_ready_queue, slot, running_list>>

Prios == 0 .. MaxPrio - 1

\* slot[prio] = MAX_PRIO - prio
FullSlots == [q \in Prios |-> MaxPrio - q]

SchedTypeOK ==
    /\ mlq_ready_queue \in [Prios -> Seq(Proc)]
    /\ slot \in [Prios -> 0 .. MaxPrio]
    /\ running_list \in Seq(Proc)

init_scheduler ==
    /\ mlq_ready_queue = [q \in Prios |-> << >>]
    /\ slot = FullSlots
    /\ running_list = << >>
-----------------------------------------------------------------------------
(* queue.c                                                                 *)

\* A full queue drops the process without a word.
enqueue(queue, p) ==
    IF Len(queue) < MaxQueueSize THEN Append(queue, p) ELSE queue

\* Remove the first occurrence of p, if there is one.
purgequeue(queue, p) == RemoveFirst(queue, p)

\* queue_empty() # -1
AllEmpty == \A q \in Prios : mlq_ready_queue[q] = << >>
-----------------------------------------------------------------------------
(* sched.c                                                                 *)

\* Queue q has a process and a dispatch left.
Eligible(q) == mlq_ready_queue[q] # << >> /\ slot[q] > 0

\* get_mlq_proc finds a process: the head of the first eligible queue.
TakeProc(r) ==
    \E q \in Prios :
        /\ Eligible(q) /\ \A h \in 0 .. q - 1 : ~Eligible(h)
        /\ r = Head(mlq_ready_queue[q])
        /\ mlq_ready_queue' = [mlq_ready_queue EXCEPT ![q] = Tail(@)]
        /\ slot' = [slot EXCEPT ![q] = @ - 1]
        /\ running_list' = enqueue(running_list, r)

\* Mutation of TakeNone: no new round is ever started.
TakeNoneForGood ==
    /\ \A q \in Prios : ~Eligible(q)
    /\ UNCHANGED schedVars

\* It finds none; if processes wait, a new round starts, but only for the
\* next call: this one returns NULL all the same.
TakeNone ==
    /\ \A q \in Prios : ~Eligible(q)
    /\ slot' = IF AllEmpty THEN slot ELSE FullSlots
    /\ UNCHANGED <<mlq_ready_queue, running_list>>

\* r = get_proc()
get_proc(r) ==
    \/ TakeProc(r)
    \/ r = NULL /\ TakeNone

\* put_proc(p), where prio is p->prio
put_proc(p, prio) ==
    /\ running_list' = purgequeue(running_list, p)
    /\ mlq_ready_queue' = [mlq_ready_queue EXCEPT ![prio] = enqueue(@, p)]
    /\ UNCHANGED slot

\* add_proc(p), where prio is p->prio
add_proc(p, prio) ==
    /\ mlq_ready_queue' = [mlq_ready_queue EXCEPT ![prio] = enqueue(@, p)]
    /\ UNCHANGED <<slot, running_list>>
=============================================================================
