------------------------------ MODULE OSProofs ------------------------------
(***************************************************************************)
(* What is proved about OS, for any number of CPUs and processes, any      *)
(* queue size, quantum and workload.                                       *)
(*                                                                         *)
(* None of the properties of OS is inductive by itself.  OnePlace needs to *)
(* know that only loaded processes are in the system, or LdAdd could add   *)
(* one twice; FreshQuantum and the type of time_left need to know what a   *)
(* CPU holds at each point of its loop; OncePerSlot needs to know that a   *)
(* process that has run in this slot is held by a CPU that has arrived.    *)
(* IInv is the conjunction of these.                                       *)
(***************************************************************************)
EXTENDS OS, ListLemmas, FiniteSetTheorems

\* At each point of its loop: what a CPU holds, and what its quantum is.
CpuInv ==
    \A c \in CPUs :
        /\ cpc[c] = "get" => proc[c] = NULL
        /\ cpc[c] = "run" => proc[c] # NULL /\ time_left[c] # 0

\* What is in the system was loaded and is not freed.
KnownProcs ==
    \A p \in Proc : Ready(p) \/ Held(p) => Loaded(p) /\ p \notin freed

FreedDone == \A p \in freed : Loaded(p) /\ pc[p] = ld_processes.size[p]

RanInv ==
    \A p \in Proc :
        ran[p] = 0 \/ (ran[p] = 1 /\ \E c \in CPUs : proc[c] = p /\ at[c] = "arrived")

PlaceInv == OnePlace /\ KnownProcs

IInv == TypeOK /\ PlaceInv /\ CpuInv /\ FreshQuantum /\ FreedDone /\ RanInv
-----------------------------------------------------------------------------
(* The scheduler's operations.                                             *)

\* enqueue adds at the end, or drops.
LEMMA EnqueueProperties ==
    ASSUME NEW s \in Seq(Proc), NEW p \in Proc
    PROVE  /\ enqueue(s, p) \in Seq(Proc)
           /\ Len(s) \in Nat /\ Len(enqueue(s, p)) \in Nat
           /\ Len(enqueue(s, p)) >= Len(s)
           /\ \A k \in 1 .. Len(s) : enqueue(s, p)[k] = s[k]
           /\ \A k \in 1 .. Len(enqueue(s, p)) :
                  k \in 1 .. Len(s) \/ (k = Len(s) + 1 /\ enqueue(s, p)[k] = p)
           /\ Len(s) < MaxQueueSize =>
                  /\ Len(s) + 1 \in 1 .. Len(enqueue(s, p))
                  /\ enqueue(s, p)[Len(s) + 1] = p
<1>1. Len(s) \in Nat
    BY LenProperties
<1>2. CASE Len(s) < MaxQueueSize
  <2>1. enqueue(s, p) = Append(s, p)
    BY <1>2 DEF enqueue
  <2> QED
    BY <1>1, <2>1, AppendProperties
<1>3. CASE ~(Len(s) < MaxQueueSize)
  <2>1. enqueue(s, p) = s
    BY <1>3 DEF enqueue
  <2> QED
    BY <1>1, <1>3, <2>1
<1> QED
    BY <1>2, <1>3

(***************************************************************************)
(* get_mlq_proc finds a process (sched.c:72-81): what it returns was ready *)
(* and is so no longer, nothing else changes its place.                    *)
(***************************************************************************)
LEMMA TakeProcProperties ==
    ASSUME TypeOK, OneQueuePlace, OwnQueue, NEW r, TakeProc(r),
           ld_processes' = ld_processes
    PROVE  /\ r \in Proc /\ Ready(r)
           /\ \A p : Ready(p)' => Ready(p) /\ p # r
           /\ \A p : Ready(p) /\ p # r => Ready(p)'
           /\ SchedTypeOK' /\ OneQueuePlace' /\ OwnQueue'
<1>1. PICK q \in Prios :
          /\ Eligible(q)
          /\ r = Head(mlq_ready_queue[q])
          /\ mlq_ready_queue' = [mlq_ready_queue EXCEPT ![q] = Tail(@)]
          /\ slot' = [slot EXCEPT ![q] = @ - 1]
          /\ running_list' = enqueue(running_list, r)
    BY Zenon DEF TakeProc
<1> DEFINE s == mlq_ready_queue[q]
<1>2. s \in Seq(Proc) /\ s # << >> /\ slot[q] \in 1 .. MaxPrio
    BY <1>1, SchedAssumption DEF TypeOK, SchedTypeOK, Eligible
<1>3. /\ Len(s) \in Nat \ {0} /\ r = s[1] /\ r \in Proc
      /\ Tail(s) \in Seq(Proc) /\ Len(Tail(s)) = Len(s) - 1
      /\ \A k \in 1 .. Len(s) - 1 : Tail(s)[k] = s[k + 1]
    BY <1>1, <1>2, HeadTailProperties, LenProperties, EmptySeq
<1>4. /\ mlq_ready_queue'[q] = Tail(s)
      /\ \A h \in Prios : h # q => mlq_ready_queue'[h] = mlq_ready_queue[h]
    BY <1>1 DEF TypeOK, SchedTypeOK
<1> HIDE DEF s
<1>5. SchedTypeOK'
  <2>1. mlq_ready_queue' \in [Prios -> Seq(Proc)]
    BY <1>1, <1>3 DEF TypeOK, SchedTypeOK, s
  <2>2. slot' \in [Prios -> 0 .. MaxPrio]
    <3>1. slot[q] - 1 \in 0 .. MaxPrio
        BY <1>2, SchedAssumption
    <3> QED
        BY <1>1, <3>1 DEF TypeOK, SchedTypeOK
  <2>3. running_list' \in Seq(Proc)
    BY <1>1, <1>3, EnqueueProperties, Zenon DEF TypeOK, SchedTypeOK
  <2> QED
    BY <2>1, <2>2, <2>3 DEF SchedTypeOK
<1>6. Ready(r)
    BY <1>3 DEF Ready, s
<1>7. OneQueuePlace'
  <2> SUFFICES ASSUME NEW h \in Prios,
                      NEW k \in 1 .. Len(mlq_ready_queue'[h]),
                      NEW l \in 1 .. Len(mlq_ready_queue'[h]),
                      mlq_ready_queue'[h][k] = mlq_ready_queue'[h][l]
               PROVE  k = l
    BY DEF OneQueuePlace
  <2>1. CASE h # q
    BY <1>4, <2>1 DEF OneQueuePlace
  <2>2. CASE h = q
    <3>0. k \in 1 .. Len(s) - 1 /\ l \in 1 .. Len(s) - 1
        BY <1>3, <1>4, <2>2
    <3>1. s[k + 1] = s[l + 1] /\ k + 1 \in 1 .. Len(s) /\ l + 1 \in 1 .. Len(s)
      <4>1. Tail(s)[k] = s[k + 1] /\ Tail(s)[l] = s[l + 1]
        BY <1>3, <3>0, Zenon
      <4>2. Tail(s)[k] = Tail(s)[l]
        BY <1>4, <2>2, Zenon
      <4> QED
        BY <1>3, <3>0, <4>1, <4>2
    <3>2. k + 1 = l + 1
        BY <3>1 DEF OneQueuePlace, s
    <3> QED
        BY <3>0, <3>2
  <2> QED
    BY <2>1, <2>2
<1>8. OwnQueue'
  <2> SUFFICES ASSUME NEW h \in Prios,
                      NEW k \in 1 .. Len(mlq_ready_queue'[h])
               PROVE  ld_processes.prio[mlq_ready_queue'[h][k]] = h
    BY DEF OwnQueue
  <2>1. CASE h # q
    BY <1>4, <2>1 DEF OwnQueue
  <2>2. CASE h = q
    <3>1. k \in 1 .. Len(s) - 1
        BY <1>3, <1>4, <2>2
    <3>2. mlq_ready_queue'[h][k] = s[k + 1] /\ k + 1 \in 1 .. Len(s)
        BY <1>3, <1>4, <2>2, <3>1
    <3> QED
        BY <2>2, <3>2 DEF OwnQueue, s
  <2> QED
    BY <2>1, <2>2
<1>9. ASSUME NEW p, Ready(p)'
      PROVE  Ready(p) /\ p # r
  <2>1. PICK h \in Prios : \E k \in 1 .. Len(mlq_ready_queue'[h]) :
                               mlq_ready_queue'[h][k] = p
    BY <1>9 DEF Ready
  <2>2. PICK k \in 1 .. Len(mlq_ready_queue'[h]) : mlq_ready_queue'[h][k] = p
    BY <2>1
  <2>3. CASE h # q
    <3>1. k \in 1 .. Len(mlq_ready_queue[h]) /\ mlq_ready_queue[h][k] = p
        BY <1>4, <2>2, <2>3, Zenon
    <3>2. ld_processes.prio[p] = h /\ ld_processes.prio[r] = q
        BY <1>3, <3>1 DEF OwnQueue, s
    <3> QED
        BY <2>3, <3>1, <3>2, Zenon DEF Ready
  <2>4. CASE h = q
    <3>1. k + 1 \in 1 .. Len(s) /\ s[k + 1] = p /\ 1 \in 1 .. Len(s) /\ k + 1 # 1
        BY <1>3, <1>4, <2>2, <2>4
    <3> QED
        BY <1>3, <3>1, Zenon DEF Ready, OneQueuePlace, s
  <2> QED
    BY <2>3, <2>4, Zenon
<1>10. ASSUME NEW p, Ready(p), p # r
       PROVE  Ready(p)'
  <2>1. PICK h \in Prios : \E k \in 1 .. Len(mlq_ready_queue[h]) :
                               mlq_ready_queue[h][k] = p
    BY <1>10, Zenon DEF Ready
  <2>2. PICK k \in 1 .. Len(mlq_ready_queue[h]) : mlq_ready_queue[h][k] = p
    BY <2>1, Zenon
  <2>3. CASE h # q
    BY <1>4, <2>2, <2>3, Zenon DEF Ready
  <2>4. CASE h = q
    <3>1. k # 1 /\ s[k] = p /\ k \in 1 .. Len(s)
        BY <1>3, <1>10, <2>2, <2>4 DEF s
    <3>2. k - 1 \in 1 .. Len(s) - 1 /\ Tail(s)[k - 1] = s[k]
        BY <1>3, <3>1
    <3> QED
        BY <1>3, <1>4, <3>1, <3>2, Zenon DEF Ready
  <2> QED
    BY <2>3, <2>4, Zenon
<1> QED
    BY <1>3, <1>5, <1>6, <1>7, <1>8, <1>9, <1>10

\* The configuration that was read is one of Workloads.
LEMMA WorkloadTypes ==
    ASSUME TypeOK
    PROVE  /\ ld_processes.prio \in [Proc -> Prios]
           /\ ld_processes.size \in [Proc -> Nat]
           /\ ld_processes.start_time \in [Proc -> Nat]
    BY OSAssumption, Zenon DEF TypeOK

(***************************************************************************)
(* put_mlq_proc and add_mlq_proc (sched.c:92-123) on the queues: a process *)
(* that is not ready becomes ready, in the queue of its priority, if that  *)
(* queue has room; the others keep their places.                           *)
(***************************************************************************)
LEMMA EnqueueReady ==
    ASSUME TypeOK, OneQueuePlace, OwnQueue, NEW p \in Proc, ~Ready(p),
           ld_processes' = ld_processes,
           mlq_ready_queue' =
               [mlq_ready_queue EXCEPT ![ld_processes.prio[p]] = enqueue(@, p)]
    PROVE  /\ mlq_ready_queue' \in [Prios -> Seq(Proc)]
           /\ OneQueuePlace' /\ OwnQueue'
           /\ \A x : Ready(x)' => Ready(x) \/ x = p
           /\ \A x : Ready(x) => Ready(x)'
           /\ Len(mlq_ready_queue[ld_processes.prio[p]]) < MaxQueueSize =>
                  Ready(p)'
<1> DEFINE q == ld_processes.prio[p]
           s == mlq_ready_queue[q]
           t == enqueue(s, p)
<1>1. q \in Prios /\ s \in Seq(Proc)
    BY WorkloadTypes, Zenon DEF TypeOK, SchedTypeOK
<1>2. /\ t \in Seq(Proc)
      /\ Len(s) \in Nat /\ Len(t) \in Nat /\ Len(t) >= Len(s)
      /\ \A k \in 1 .. Len(s) : t[k] = s[k]
      /\ \A k \in 1 .. Len(t) : k \in 1 .. Len(s) \/ (k = Len(s) + 1 /\ t[k] = p)
      /\ Len(s) < MaxQueueSize =>
             Len(s) + 1 \in 1 .. Len(t) /\ t[Len(s) + 1] = p
    BY <1>1, EnqueueProperties, Zenon
<1>3. /\ mlq_ready_queue'[q] = t
      /\ \A h \in Prios : h # q => mlq_ready_queue'[h] = mlq_ready_queue[h]
    BY <1>1 DEF TypeOK, SchedTypeOK
<1>4. \A k \in 1 .. Len(s) : s[k] # p
    BY <1>1 DEF Ready
<1>5. mlq_ready_queue' \in [Prios -> Seq(Proc)]
    BY <1>1, <1>2 DEF TypeOK, SchedTypeOK
<1>6. \A k, l \in 1 .. Len(s) : s[k] = s[l] => k = l
    BY <1>1 DEF OneQueuePlace
<1>7. \A k \in 1 .. Len(s) : ld_processes.prio[s[k]] = q
    BY <1>1, Zenon DEF OwnQueue
<1> HIDE DEF t, s
<1>8. OneQueuePlace'
  <2> SUFFICES ASSUME NEW h \in Prios,
                      NEW k \in 1 .. Len(mlq_ready_queue'[h]),
                      NEW l \in 1 .. Len(mlq_ready_queue'[h]),
                      mlq_ready_queue'[h][k] = mlq_ready_queue'[h][l]
               PROVE  k = l
    BY DEF OneQueuePlace
  <2>1. CASE h # q
    BY <1>3, <2>1, Zenon DEF OneQueuePlace
  <2>2. CASE h = q
    <3>1. k \in 1 .. Len(t) /\ l \in 1 .. Len(t) /\ t[k] = t[l]
        BY <1>3, <2>2, Zenon
    <3> QED
        BY <1>2, <1>4, <1>6, <3>1
  <2> QED
    BY <2>1, <2>2
<1>9. OwnQueue'
  <2> SUFFICES ASSUME NEW h \in Prios,
                      NEW k \in 1 .. Len(mlq_ready_queue'[h])
               PROVE  ld_processes.prio[mlq_ready_queue'[h][k]] = h
    BY Zenon DEF OwnQueue
  <2>1. CASE h # q
    BY <1>3, <2>1 DEF OwnQueue
  <2>2. CASE h = q
    <3>1. k \in 1 .. Len(t) /\ mlq_ready_queue'[h][k] = t[k]
        BY <1>3, <2>2, Zenon
    <3>2. CASE k \in 1 .. Len(s)
        BY <1>2, <1>7, <2>2, <3>1, <3>2, Zenon
    <3>3. CASE t[k] = p
        BY <2>2, <3>1, <3>3
    <3> QED
        BY <1>2, <3>1, <3>2, <3>3, Zenon
  <2> QED
    BY <2>1, <2>2, Zenon
<1>10. ASSUME NEW x, Ready(x)'
       PROVE  Ready(x) \/ x = p
  <2>1. PICK h \in Prios : \E k \in 1 .. Len(mlq_ready_queue'[h]) :
                               mlq_ready_queue'[h][k] = x
    BY <1>10, Zenon DEF Ready
  <2>2. PICK k \in 1 .. Len(mlq_ready_queue'[h]) : mlq_ready_queue'[h][k] = x
    BY <2>1, Zenon
  <2>3. CASE h # q
    BY <1>3, <2>2, <2>3, Zenon DEF Ready
  <2>4. CASE h = q
    <3>1. k \in 1 .. Len(t) /\ t[k] = x
        BY <1>3, <2>2, <2>4, Zenon
    <3>2. x = p \/ (k \in 1 .. Len(s) /\ s[k] = x)
        BY <1>2, <3>1
    <3> QED
        BY <1>1, <3>2 DEF Ready, s
  <2> QED
    BY <2>3, <2>4, Zenon
<1>11. ASSUME NEW x, Ready(x)
       PROVE  Ready(x)'
  <2>1. PICK h \in Prios : \E k \in 1 .. Len(mlq_ready_queue[h]) :
                               mlq_ready_queue[h][k] = x
    BY <1>11 DEF Ready
  <2>2. PICK k \in 1 .. Len(mlq_ready_queue[h]) : mlq_ready_queue[h][k] = x
    BY <2>1, Zenon
  <2>3. CASE h # q
    BY <1>3, <2>2, <2>3, Zenon DEF Ready
  <2>4. CASE h = q
    <3>1. k \in 1 .. Len(s) /\ s[k] = x
        BY <2>2, <2>4 DEF s
    <3>2. k \in 1 .. Len(t) /\ t[k] = x
        BY <1>2, <3>1
    <3> QED
        BY <1>1, <1>3, <3>2, Zenon DEF Ready
  <2> QED
    BY <2>3, <2>4
<1>12. ASSUME Len(s) < MaxQueueSize
       PROVE  Ready(p)'
    BY <1>1, <1>2, <1>3, <1>12, Zenon DEF Ready
<1> QED
    BY <1>5, <1>8, <1>9, <1>10, <1>11, <1>12 DEF s
-----------------------------------------------------------------------------
(* What the callers of the scheduler rely on.                              *)

\* A step that leaves the scheduler alone keeps every process in its queue.
LEMMA SchedUnchanged ==
    ASSUME TypeOK, OneQueuePlace, OwnQueue, UNCHANGED schedVars,
           ld_processes' = ld_processes
    PROVE  /\ SchedTypeOK' /\ OneQueuePlace' /\ OwnQueue'
           /\ \A p \in Proc : Ready(p)' <=> Ready(p)
    BY DEF TypeOK, SchedTypeOK, OneQueuePlace, OwnQueue, Ready, schedVars

\* get_proc (sched.c:61) returns a ready process, which is ready no longer,
\* or NULL, and then no process changes its place.
LEMMA GetProcProperties ==
    ASSUME TypeOK, OneQueuePlace, OwnQueue, NEW r, get_proc(r),
           ld_processes' = ld_processes
    PROVE  /\ SchedTypeOK' /\ OneQueuePlace' /\ OwnQueue'
           /\ r = NULL \/ (r \in Proc /\ Ready(r))
           /\ \A p \in Proc : Ready(p)' <=> Ready(p) /\ p # r
<1>1. CASE TakeProc(r)
    BY <1>1, TakeProcProperties, Zenon
<1>2. CASE r = NULL /\ TakeNone
  <2>1. slot' \in [Prios -> 0 .. MaxPrio]
    <3>1. FullSlots \in [Prios -> 0 .. MaxPrio]
        BY SchedAssumption DEF FullSlots, Prios
    <3> QED
        BY <1>2, <3>1 DEF TakeNone, TypeOK, SchedTypeOK
  <2>2. mlq_ready_queue' = mlq_ready_queue /\ running_list' = running_list
    BY <1>2, Zenon DEF TakeNone
  <2>3. SchedTypeOK' /\ OneQueuePlace' /\ OwnQueue'
    BY <2>1, <2>2, Zenon DEF TypeOK, SchedTypeOK, OneQueuePlace, OwnQueue
  <2>4. \A p \in Proc : Ready(p)' <=> Ready(p) /\ p # r
    BY <1>2, <2>2, SchedAssumption DEF Ready
  <2> QED
    BY <1>2, <2>3, <2>4, Zenon
<1> QED
    BY <1>1, <1>2, Zenon DEF get_proc

\* A queue never holds all processes while one of them is not ready.
LEMMA RoomForOneMore ==
    ASSUME TypeOK, OneQueuePlace, NEW q \in Prios, NEW p \in Proc, ~Ready(p)
    PROVE  Len(mlq_ready_queue[q]) < NumProcesses
<1> DEFINE s == mlq_ready_queue[q]
           n == Len(s)
<1>1. s \in Seq(Proc) /\ n \in Nat /\ s \in [1 .. n -> Proc]
    BY LenProperties, Zenon DEF TypeOK, SchedTypeOK
<1>2. \A k \in 1 .. n : s[k] # p
    BY DEF Ready
<1>3. s \in [1 .. n -> Proc \ {p}]
    BY <1>1, <1>2
<1>4. \A k, l \in 1 .. n : s[k] = s[l] => k = l
    BY DEF OneQueuePlace
<1> HIDE DEF s
<1>5. s \in Injection(1 .. n, Proc \ {p})
    BY <1>3, <1>4 DEF Injection, IsInjective
<1>6. NumProcesses \in Nat /\ Proc = 1 .. NumProcesses
    BY OSAssumption
<1>7. IsFiniteSet(Proc) /\ Cardinality(Proc) = NumProcesses
    BY <1>6, FS_Interval
<1>8. IsFiniteSet(Proc \ {p}) /\ Cardinality(Proc \ {p}) = NumProcesses - 1
    BY <1>7, FS_RemoveElement
<1>9. Cardinality(1 .. n) <= NumProcesses - 1
    BY <1>5, <1>8, FS_Injection
<1>10. Cardinality(1 .. n) = n
    BY <1>1, FS_Interval
<1> QED
    BY <1>1, <1>6, <1>9, <1>10 DEF s

\* put_proc (sched.c:92) makes a process ready if its queue has room.
LEMMA PutProcProperties ==
    ASSUME TypeOK, OneQueuePlace, OwnQueue, NEW p \in Proc, ~Ready(p),
           put_proc(p, ld_processes.prio[p]), ld_processes' = ld_processes
    PROVE  /\ SchedTypeOK' /\ OneQueuePlace' /\ OwnQueue'
           /\ \A x \in Proc : Ready(x)' => Ready(x) \/ x = p
           /\ \A x \in Proc : Ready(x) => Ready(x)'
           /\ MaxQueueSize >= NumProcesses => Ready(p)'
<1>0. Len(mlq_ready_queue[ld_processes.prio[p]]) \in Nat
      /\ Len(mlq_ready_queue[ld_processes.prio[p]]) < NumProcesses
    BY RoomForOneMore, WorkloadTypes, LenProperties, Zenon DEF TypeOK,
       SchedTypeOK
<1>1. running_list' \in Seq(Proc)
    BY RemoveFirstType DEF put_proc, purgequeue, TypeOK, SchedTypeOK
<1>2. mlq_ready_queue' =
          [mlq_ready_queue EXCEPT ![ld_processes.prio[p]] = enqueue(@, p)]
    BY DEF put_proc
<1>3. /\ mlq_ready_queue' \in [Prios -> Seq(Proc)]
      /\ OneQueuePlace' /\ OwnQueue'
      /\ \A x : Ready(x)' => Ready(x) \/ x = p
      /\ \A x : Ready(x) => Ready(x)'
      /\ Len(mlq_ready_queue[ld_processes.prio[p]]) < MaxQueueSize => Ready(p)'
    BY <1>2, EnqueueReady, Zenon
<1>4. MaxQueueSize >= NumProcesses => Ready(p)'
    BY <1>0, <1>3, SchedAssumption, OSAssumption
<1> QED
    BY <1>1, <1>3, <1>4, Zenon DEF put_proc, TypeOK, SchedTypeOK

\* add_proc (sched.c:110) makes a process ready if its queue has room.
LEMMA AddProcProperties ==
    ASSUME TypeOK, OneQueuePlace, OwnQueue, NEW p \in Proc, ~Ready(p),
           add_proc(p, ld_processes.prio[p]), ld_processes' = ld_processes
    PROVE  /\ SchedTypeOK' /\ OneQueuePlace' /\ OwnQueue'
           /\ \A x \in Proc : Ready(x)' => Ready(x) \/ x = p
           /\ \A x \in Proc : Ready(x) => Ready(x)'
           /\ MaxQueueSize >= NumProcesses => Ready(p)'
<1>0. Len(mlq_ready_queue[ld_processes.prio[p]]) \in Nat
      /\ Len(mlq_ready_queue[ld_processes.prio[p]]) < NumProcesses
    BY RoomForOneMore, WorkloadTypes, LenProperties, Zenon DEF TypeOK, SchedTypeOK
<1>1. mlq_ready_queue' =
          [mlq_ready_queue EXCEPT ![ld_processes.prio[p]] = enqueue(@, p)]
    BY Zenon DEF add_proc
<1>2. /\ mlq_ready_queue' \in [Prios -> Seq(Proc)]
      /\ OneQueuePlace' /\ OwnQueue'
      /\ \A x : Ready(x)' => Ready(x) \/ x = p
      /\ \A x : Ready(x) => Ready(x)'
      /\ Len(mlq_ready_queue[ld_processes.prio[p]]) < MaxQueueSize => Ready(p)'
    BY <1>1, EnqueueReady, Zenon
<1>3. MaxQueueSize >= NumProcesses => Ready(p)'
    BY <1>0, <1>2, SchedAssumption, OSAssumption
<1> QED
    BY <1>2, <1>3, Zenon DEF add_proc, TypeOK, SchedTypeOK

\* The clock's actions keep the types of time and at.
LEMMA ClockTypes ==
    ASSUME TypeOK, NEW d \in CPUs \cup {LOADER},
           Clock!Arrive(d) \/ Clock!Leave(d) \/ UNCHANGED clockVars
    PROVE  Clock!TypeOK'
    BY DEF TypeOK, Clock!TypeOK, Clock!Arrive, Clock!Leave, Clock!DeviceStates,
           clockVars
-----------------------------------------------------------------------------
(* The initial states.                                                     *)

\* Nothing is loaded yet and no CPU has a process.
LEMMA InitInvariant == Init => IInv
<1> SUFFICES ASSUME Init PROVE IInv
    OBVIOUS
<1>1. \A p : ~Ready(p) /\ (p \in Proc => ~Held(p))
    BY SchedAssumption, EmptySeq DEF Init, init_scheduler, Ready, Held
<1>2. TypeOK
  <2>1. SchedTypeOK
    BY SchedAssumption, EmptySeq
    DEF Init, init_scheduler, SchedTypeOK, FullSlots, Prios
  <2>2. Clock!TypeOK
    BY OSAssumption
    DEF Init, Clock!Init, Clock!TypeOK, Clock!Times, Clock!DeviceStates
  <2>3. 1 \in 1 .. NumProcesses + 1 /\ 0 \in 0 .. TimeSlot
    BY OSAssumption
  <2> QED
    BY <2>1, <2>2, <2>3, Zenon DEF Init, TypeOK, CpuPC
<1>3. PlaceInv
    BY <1>1, EmptySeq
    DEF Init, init_scheduler, PlaceInv, OnePlace, OneCPU, NotHeldAndReady,
        OneQueuePlace, OwnQueue, KnownProcs
<1>4. CpuInv /\ FreshQuantum /\ FreedDone /\ RanInv
    BY DEF Init, CpuInv, FreshQuantum, FreedDone, RanInv
<1> QED
    BY <1>2, <1>3, <1>4 DEF IInv
-----------------------------------------------------------------------------
(* Every action preserves IInv.                                            *)

\* An idle CPU finds no process and skips the slot.
LEMMA LoadNoneInvariant ==
    ASSUME IInv, NEW c \in CPUs, LoadNone(c)
    PROVE  IInv'
<1>b. /\ SchedTypeOK' /\ OneQueuePlace' /\ OwnQueue'
      /\ \A p \in Proc : Ready(p)' => Ready(p)
    BY GetProcProperties, Zenon DEF LoadNone, IInv, PlaceInv, OnePlace
<1>1. TypeOK'
    BY <1>b, ClockTypes, Zenon DEF LoadNone, IInv, TypeOK, loaderVars, cpuVars,
       procVars
<1>2. PlaceInv'
    BY <1>b, SchedAssumption DEF LoadNone, IInv, loaderVars, cpuVars, procVars,
        PlaceInv, OnePlace, OneCPU, NotHeldAndReady, KnownProcs, Held, Loaded
<1>3. CpuInv'
    BY DEF LoadNone, IInv, CpuInv, cpuVars
<1>4. FreshQuantum'
    BY Zenon DEF LoadNone, IInv, FreshQuantum, cpuVars
<1>5. FreedDone'
    BY Zenon DEF LoadNone, IInv, FreedDone, Loaded, loaderVars, procVars
<1>6. RanInv'
    BY DEF LoadNone, IInv, RanInv, TypeOK, Clock!TypeOK, Clock!Arrive, cpuVars,
        procVars
<1> QED
    BY <1>1, <1>2, <1>3, <1>4, <1>5, <1>6 DEF IInv

\* An idle CPU gets a process.
LEMMA LoadFirstInvariant ==
    ASSUME IInv, NEW c \in CPUs, LoadFirst(c)
    PROVE  IInv'
<1>b. PICK r \in Proc : get_proc(r) /\ proc' = [proc EXCEPT ![c] = r]
    BY Zenon DEF LoadFirst
<1>c. /\ SchedTypeOK' /\ OneQueuePlace' /\ OwnQueue' /\ Ready(r)
      /\ \A p \in Proc : Ready(p)' <=> Ready(p) /\ p # r
    BY <1>b, GetProcProperties, SchedAssumption
    DEF LoadFirst, IInv, PlaceInv, OnePlace
<1>1. TypeOK'
    BY <1>b, <1>c, ClockTypes
    DEF LoadFirst, IInv, TypeOK, Goto, CpuPC, clockVars, loaderVars, procVars
<1>2. PlaceInv'
    BY <1>b, <1>c, SchedAssumption
    DEF LoadFirst, IInv, TypeOK, loaderVars, procVars,
        PlaceInv, OnePlace, OneCPU, NotHeldAndReady, KnownProcs, Held, Loaded
<1>3. CpuInv'
    BY <1>b, <1>c, SchedAssumption, Zenon DEF LoadFirst, IInv, TypeOK, CpuInv,
       Goto
<1>4. FreshQuantum'
    BY <1>b, <1>c, Zenon DEF LoadFirst, IInv, TypeOK, FreshQuantum, Goto
<1>5. FreedDone'
    BY Zenon DEF LoadFirst, IInv, FreedDone, Loaded, loaderVars, procVars
<1>6. RanInv'
    BY <1>b, <1>c, SMTT(30)
    DEF LoadFirst, IInv, RanInv, TypeOK, CpuAt, clockVars, procVars
<1> QED
    BY <1>1, <1>2, <1>3, <1>4, <1>5, <1>6 DEF IInv

\* A CPU frees a process that has run to its end.
LEMMA FinishProcInvariant ==
    ASSUME IInv, NEW c \in CPUs, FinishProc(c)
    PROVE  IInv'
<1>b. proc[c] \in Proc
    BY Zenon DEF FinishProc, IInv, TypeOK
<1>c. /\ SchedTypeOK' /\ OneQueuePlace' /\ OwnQueue'
      /\ \A p \in Proc : Ready(p)' <=> Ready(p)
    BY SchedUnchanged, Zenon DEF FinishProc, IInv, PlaceInv, OnePlace
<1>d. 0 \in 0 .. TimeSlot
    BY OSAssumption
<1>1. TypeOK'
    BY <1>b, <1>c, <1>d, ClockTypes, Zenon
    DEF FinishProc, IInv, TypeOK, Goto, CpuPC, clockVars, loaderVars
<1>2. PlaceInv'
    BY <1>b, <1>c, SchedAssumption
    DEF FinishProc, IInv, TypeOK, loaderVars,
        PlaceInv, OnePlace, OneCPU, NotHeldAndReady, KnownProcs, Held, Loaded
<1>3. CpuInv'
    BY <1>b, Zenon DEF FinishProc, IInv, TypeOK, CpuInv, Goto
<1>4. FreshQuantum'
    BY <1>b, Zenon DEF FinishProc, IInv, TypeOK, FreshQuantum, Goto
<1>5. FreedDone'
    BY <1>b DEF FinishProc, IInv, FreedDone, PlaceInv, OnePlace, OneCPU, NotHeldAndReady, KnownProcs, Held, Loaded,
        loaderVars
<1>6. RanInv'
    BY <1>b, Zenon
    DEF FinishProc, IInv, RanInv, TypeOK, CpuAt, clockVars
<1> QED
    BY <1>1, <1>2, <1>3, <1>4, <1>5, <1>6 DEF IInv

\* A CPU puts back a process whose quantum is used up.
LEMMA PutBackInvariant ==
    ASSUME IInv, NEW c \in CPUs, PutBack(c)
    PROVE  IInv'
<1>b. proc[c] \in Proc /\ ~Ready(proc[c])
    BY Zenon DEF PutBack, IInv, TypeOK, PlaceInv, OnePlace, NotHeldAndReady,
       Held
<1>c. /\ SchedTypeOK' /\ OneQueuePlace' /\ OwnQueue'
      /\ \A x \in Proc : Ready(x)' => Ready(x) \/ x = proc[c]
    BY <1>b, PutProcProperties, Zenon DEF PutBack, IInv, PlaceInv, OnePlace
<1>1. TypeOK'
    BY <1>b, <1>c, ClockTypes, Zenon
    DEF PutBack, IInv, TypeOK, Goto, CpuPC, clockVars, loaderVars, procVars
<1>2. PlaceInv'
    BY <1>b, <1>c, SchedAssumption
    DEF PutBack, IInv, TypeOK, loaderVars, procVars,
        PlaceInv, OnePlace, OneCPU, NotHeldAndReady, KnownProcs, Held, Loaded
<1>3. CpuInv'
    BY <1>b, Zenon DEF PutBack, IInv, TypeOK, CpuInv, Goto
<1>4. FreshQuantum'
    BY <1>b, Zenon DEF PutBack, IInv, TypeOK, FreshQuantum, Goto
<1>5. FreedDone'
    BY Zenon DEF PutBack, IInv, FreedDone, Loaded, loaderVars, procVars
<1>6. RanInv'
    BY <1>b, Zenon
    DEF PutBack, IInv, RanInv, TypeOK, CpuAt, clockVars, procVars
<1> QED
    BY <1>1, <1>2, <1>3, <1>4, <1>5, <1>6 DEF IInv

\* A CPU goes on with its process.
LEMMA KeepProcInvariant ==
    ASSUME IInv, NEW c \in CPUs, KeepProc(c)
    PROVE  IInv'
<1>b. /\ SchedTypeOK' /\ OneQueuePlace' /\ OwnQueue'
      /\ \A p \in Proc : Ready(p)' <=> Ready(p)
    BY SchedUnchanged, Zenon DEF KeepProc, IInv, PlaceInv, OnePlace
<1>1. TypeOK'
    BY <1>b, ClockTypes, Zenon
    DEF KeepProc, IInv, TypeOK, Goto, CpuPC, clockVars, loaderVars, procVars
<1>2. PlaceInv'
    BY <1>b, Zenon DEF KeepProc, IInv, loaderVars, procVars,
        PlaceInv, OnePlace, OneCPU, NotHeldAndReady, KnownProcs, Held, Loaded
<1>3. CpuInv'
    BY Zenon DEF KeepProc, IInv, TypeOK, CpuInv, Goto
<1>4. FreshQuantum'
    BY Zenon DEF KeepProc, IInv, TypeOK, FreshQuantum, Goto
<1>5. FreedDone'
    BY DEF KeepProc, IInv, FreedDone, Loaded, loaderVars, procVars
<1>6. RanInv'
    BY DEF KeepProc, IInv, RanInv, clockVars, procVars
<1> QED
    BY <1>1, <1>2, <1>3, <1>4, <1>5, <1>6 DEF IInv

\* A CPU that has just given up a process asks for the next one.
LEMMA GetNextInvariant ==
    ASSUME IInv, NEW c \in CPUs, GetNext(c)
    PROVE  IInv'
<1>b. PICK r \in Proc \cup {NULL} :
          get_proc(r) /\ proc' = [proc EXCEPT ![c] = r]
    BY Zenon DEF GetNext
<1>c. /\ SchedTypeOK' /\ OneQueuePlace' /\ OwnQueue'
      /\ r = NULL \/ (r \in Proc /\ Ready(r))
      /\ \A p \in Proc : Ready(p)' <=> Ready(p) /\ p # r
    BY <1>b, GetProcProperties DEF GetNext, IInv, PlaceInv, OnePlace
<1>1. TypeOK'
    BY <1>b, <1>c, ClockTypes
    DEF GetNext, IInv, TypeOK, Goto, CpuPC, clockVars, loaderVars, procVars
<1>2. PlaceInv'
    BY <1>b, <1>c, SchedAssumption
    DEF GetNext, IInv, TypeOK, loaderVars, procVars,
        PlaceInv, OnePlace, OneCPU, NotHeldAndReady, KnownProcs, Held, Loaded
<1>3. CpuInv'
    BY <1>b, Zenon DEF GetNext, IInv, TypeOK, CpuInv, Goto
<1>4. FreshQuantum'
    BY <1>b, Zenon DEF GetNext, IInv, TypeOK, CpuInv, FreshQuantum, CpuAt, Goto
<1>5. FreedDone'
    BY Zenon DEF GetNext, IInv, FreedDone, Loaded, loaderVars, procVars
<1>6. RanInv'
    BY <1>b
    DEF GetNext, IInv, RanInv, TypeOK, CpuAt, clockVars, procVars
<1> QED
    BY <1>1, <1>2, <1>3, <1>4, <1>5, <1>6, Zenon DEF IInv

\* A CPU without a process stops.
LEMMA StopCPUInvariant ==
    ASSUME IInv, NEW c \in CPUs, StopCPU(c)
    PROVE  IInv'
<1>b. /\ SchedTypeOK' /\ OneQueuePlace' /\ OwnQueue'
      /\ \A p \in Proc : Ready(p)' <=> Ready(p)
    BY SchedUnchanged, Zenon DEF StopCPU, IInv, PlaceInv, OnePlace
<1>1. TypeOK'
    BY <1>b, ClockTypes, Zenon
    DEF StopCPU, IInv, TypeOK, Goto, CpuPC, loaderVars, procVars
<1>2. PlaceInv'
    BY <1>b, Zenon DEF StopCPU, IInv, loaderVars, procVars,
        PlaceInv, OnePlace, OneCPU, NotHeldAndReady, KnownProcs, Held, Loaded
<1>3. CpuInv'
    BY Zenon DEF StopCPU, IInv, TypeOK, CpuInv, Goto
<1>4. FreshQuantum'
    BY Zenon DEF StopCPU, IInv, TypeOK, FreshQuantum, Goto
<1>5. FreedDone'
    BY Zenon DEF StopCPU, IInv, FreedDone, Loaded, loaderVars, procVars
<1>6. RanInv'
    BY Zenon DEF StopCPU, IInv, RanInv, TypeOK, CpuAt, Clock!TypeOK,
       Clock!Leave,
        procVars
<1> QED
    BY <1>1, <1>2, <1>3, <1>4, <1>5, <1>6 DEF IInv

\* A CPU without a process waits for the next slot.
LEMMA SkipSlotInvariant ==
    ASSUME IInv, NEW c \in CPUs, SkipSlot(c)
    PROVE  IInv'
<1>b. /\ SchedTypeOK' /\ OneQueuePlace' /\ OwnQueue'
      /\ \A p \in Proc : Ready(p)' <=> Ready(p)
    BY SchedUnchanged, Zenon DEF SkipSlot, IInv, PlaceInv, OnePlace
<1>1. TypeOK'
    BY <1>b, ClockTypes, Zenon
    DEF SkipSlot, IInv, TypeOK, Goto, CpuPC, loaderVars, procVars
<1>2. PlaceInv'
    BY <1>b, Zenon DEF SkipSlot, IInv, loaderVars, procVars,
        PlaceInv, OnePlace, OneCPU, NotHeldAndReady, KnownProcs, Held, Loaded
<1>3. CpuInv'
    BY Zenon DEF SkipSlot, IInv, TypeOK, CpuInv, Goto
<1>4. FreshQuantum'
    BY Zenon DEF SkipSlot, IInv, TypeOK, FreshQuantum, Goto
<1>5. FreedDone'
    BY Zenon DEF SkipSlot, IInv, FreedDone, Loaded, loaderVars, procVars
<1>6. RanInv'
    BY Zenon DEF SkipSlot, IInv, RanInv, TypeOK, CpuAt, Clock!TypeOK,
       Clock!Arrive,
        procVars
<1> QED
    BY <1>1, <1>2, <1>3, <1>4, <1>5, <1>6 DEF IInv

\* A process starts its quantum.
LEMMA DispatchInvariant ==
    ASSUME IInv, NEW c \in CPUs, Dispatch(c)
    PROVE  IInv'
<1>b. /\ SchedTypeOK' /\ OneQueuePlace' /\ OwnQueue'
      /\ \A p \in Proc : Ready(p)' <=> Ready(p)
    BY SchedUnchanged, Zenon DEF Dispatch, IInv, PlaceInv, OnePlace
<1>c. TimeSlot \in 0 .. TimeSlot /\ TimeSlot # 0
    BY OSAssumption
<1>1. TypeOK'
    BY <1>b, <1>c, ClockTypes, Zenon
    DEF Dispatch, IInv, TypeOK, Goto, CpuPC, clockVars, loaderVars, procVars
<1>2. PlaceInv'
    BY <1>b, Zenon DEF Dispatch, IInv, loaderVars, procVars,
        PlaceInv, OnePlace, OneCPU, NotHeldAndReady, KnownProcs, Held, Loaded
<1>3. CpuInv'
    BY <1>c, Zenon DEF Dispatch, IInv, TypeOK, CpuInv, Goto
<1>4. FreshQuantum'
    BY Zenon DEF Dispatch, IInv, TypeOK, FreshQuantum, CpuAt, Goto
<1>5. FreedDone'
    BY Zenon DEF Dispatch, IInv, FreedDone, Loaded, loaderVars, procVars
<1>6. RanInv'
    BY Zenon DEF Dispatch, IInv, RanInv, clockVars, procVars
<1> QED
    BY <1>1, <1>2, <1>3, <1>4, <1>5, <1>6 DEF IInv

\* A CPU executes an instruction and waits for the next slot.
LEMMA RunInstrInvariant ==
    ASSUME IInv, NEW c \in CPUs, RunInstr(c)
    PROVE  IInv'
<1>b. /\ SchedTypeOK' /\ OneQueuePlace' /\ OwnQueue'
      /\ \A p \in Proc : Ready(p)' <=> Ready(p)
    BY SchedUnchanged, Zenon DEF RunInstr, IInv, PlaceInv, OnePlace
<1>c. proc[c] \in Proc /\ proc[c] # NULL /\ time_left[c] \in 1 .. TimeSlot
    BY OSAssumption DEF RunInstr, CpuAt, IInv, CpuInv, TypeOK
<1>d. /\ time_left[c] - 1 \in 0 .. TimeSlot
      /\ pc' \in [Proc -> Nat] /\ ran' \in [Proc -> Nat]
  <2>1. time_left[c] - 1 \in 0 .. TimeSlot
    BY <1>c, OSAssumption
  <2>2. pc[proc[c]] + 1 \in Nat /\ ran[proc[c]] + 1 \in Nat
    BY <1>c DEF IInv, TypeOK
  <2> QED
    BY <1>c, <2>1, <2>2, Zenon DEF RunInstr, IInv, TypeOK
<1>1. TypeOK'
    BY <1>b, <1>c, <1>d, ClockTypes, Zenon
    DEF RunInstr, IInv, TypeOK, Goto, CpuPC, loaderVars
<1>2. PlaceInv'
    BY <1>b, Zenon DEF RunInstr, IInv, loaderVars,
        PlaceInv, OnePlace, OneCPU, NotHeldAndReady, KnownProcs, Held, Loaded
<1>3. CpuInv'
    BY Zenon DEF RunInstr, IInv, TypeOK, CpuInv, Goto
<1>4. FreshQuantum'
    BY <1>c, Zenon DEF RunInstr, IInv, TypeOK, FreshQuantum, CpuAt, Goto
<1>5. FreedDone'
    BY <1>c, Zenon DEF RunInstr, IInv, TypeOK, FreedDone, PlaceInv, OnePlace,
       OneCPU, NotHeldAndReady, KnownProcs, Held, Loaded,
        loaderVars
<1>6. RanInv'
  <2>1. at' = [at EXCEPT ![c] = "arrived"] /\ at[c] = "running" /\ proc' = proc
    BY Zenon DEF RunInstr, Clock!Arrive
  <2>2. at'[c] = "arrived" /\ \A d \in CPUs : at[d] = "arrived" => at'[d] = "arrived"
    BY <2>1, Zenon DEF IInv, TypeOK, Clock!TypeOK
  <2>3. ran[proc[c]] = 0
    BY <1>c, <2>1, Zenon DEF IInv, RanInv, PlaceInv, OnePlace, OneCPU
  <2>4. \A p \in Proc : ran'[p] = ran[p] \/ (p = proc[c] /\ ran'[p] = 1)
    BY <1>c, <2>3 DEF RunInstr, IInv, TypeOK
  <2> QED
    BY <2>1, <2>2, <2>4, Zenon DEF IInv, RanInv
<1> QED
    BY <1>1, <1>2, <1>3, <1>4, <1>5, <1>6 DEF IInv

\* The loader waits for the start time of the next process.
LEMMA LdWaitInvariant ==
    ASSUME IInv, LdWait
    PROVE  IInv'
<1>b. /\ SchedTypeOK' /\ OneQueuePlace' /\ OwnQueue'
      /\ \A p \in Proc : Ready(p)' <=> Ready(p)
    BY SchedUnchanged, Zenon DEF LdWait, IInv, PlaceInv, OnePlace
<1>1. TypeOK'
    BY <1>b, ClockTypes, Zenon DEF LdWait, IInv, TypeOK, loaderVars, cpuVars,
       procVars
<1>2. PlaceInv'
    BY <1>b, Zenon DEF LdWait, IInv, loaderVars, cpuVars, procVars,
        PlaceInv, OnePlace, OneCPU, NotHeldAndReady, KnownProcs, Held, Loaded
<1>3. CpuInv'
    BY Zenon DEF LdWait, IInv, CpuInv, cpuVars
<1>4. FreshQuantum'
    BY Zenon DEF LdWait, IInv, FreshQuantum, cpuVars
<1>5. FreedDone'
    BY Zenon DEF LdWait, IInv, FreedDone, Loaded, loaderVars, procVars
<1>6. RanInv'
    BY OSAssumption, Zenon
    DEF LdWait, IInv, RanInv, TypeOK, Clock!TypeOK, Clock!Arrive, cpuVars,
        procVars
<1> QED
    BY <1>1, <1>2, <1>3, <1>4, <1>5, <1>6, Zenon DEF IInv

\* The loader adds a process to the ready queues.
LEMMA LdAddInvariant ==
    ASSUME IInv, LdAdd
    PROVE  IInv'
<1>b. i \in Proc /\ i \in Nat /\ i' = i + 1 /\ i' \in 1 .. NumProcesses + 1
      /\ \A p \in Proc : p \in Nat
    BY OSAssumption DEF LdAdd, IInv, TypeOK
<1>c. /\ SchedTypeOK' /\ OneQueuePlace' /\ OwnQueue'
      /\ \A x \in Proc : Ready(x)' => Ready(x) \/ x = i
  <2>1. ~Ready(i)
    BY <1>b DEF IInv, PlaceInv, KnownProcs, Loaded
  <2> QED
    BY <1>b, <2>1, AddProcProperties, Zenon DEF LdAdd, IInv, PlaceInv, OnePlace
<1>d. \A p \in Proc : p < i => p < i'
    BY <1>b
<1>1. TypeOK'
    BY <1>b, <1>c, ClockTypes, Zenon DEF LdAdd, IInv, TypeOK, cpuVars, procVars
<1>2. PlaceInv'
  <2>1. i \notin freed /\ ~Held(i) /\ i < i'
    BY <1>b DEF LdAdd, IInv, TypeOK, PlaceInv, KnownProcs, FreedDone, Loaded
  <2> QED
    BY <1>c, <1>d, <2>1, Zenon DEF LdAdd, IInv, cpuVars, procVars,
        PlaceInv, OnePlace, OneCPU, NotHeldAndReady, KnownProcs, Held, Loaded
<1>3. CpuInv'
    BY Zenon DEF LdAdd, IInv, CpuInv, cpuVars
<1>4. FreshQuantum'
    BY Zenon DEF LdAdd, IInv, FreshQuantum, cpuVars
<1>5. FreedDone'
    BY <1>d, Zenon DEF LdAdd, IInv, TypeOK, FreedDone, Loaded, procVars
<1>6. RanInv'
    BY OSAssumption
    DEF LdAdd, IInv, RanInv, TypeOK, Clock!TypeOK, Clock!Arrive, cpuVars,
        procVars
<1> QED
    BY <1>1, <1>2, <1>3, <1>4, <1>5, <1>6 DEF IInv

\* The loader says that everything is loaded, and leaves.
LEMMA LdDoneInvariant ==
    ASSUME IInv, LdDone
    PROVE  IInv'
<1>b. /\ SchedTypeOK' /\ OneQueuePlace' /\ OwnQueue'
      /\ \A p \in Proc : Ready(p)' <=> Ready(p)
    BY SchedUnchanged, Zenon DEF LdDone, IInv, PlaceInv, OnePlace
<1>1. TypeOK'
    BY <1>b, ClockTypes, Zenon DEF LdDone, IInv, TypeOK, cpuVars, procVars
<1>2. PlaceInv'
    BY <1>b, Zenon DEF LdDone, IInv, cpuVars, procVars,
        PlaceInv, OnePlace, OneCPU, NotHeldAndReady, KnownProcs, Held, Loaded
<1>3. CpuInv'
    BY Zenon DEF LdDone, IInv, CpuInv, cpuVars
<1>4. FreshQuantum'
    BY Zenon DEF LdDone, IInv, FreshQuantum, cpuVars
<1>5. FreedDone'
    BY Zenon DEF LdDone, IInv, FreedDone, Loaded, procVars
<1>6. RanInv'
    BY OSAssumption, Zenon
    DEF LdDone, IInv, RanInv, TypeOK, Clock!TypeOK, Clock!Leave, cpuVars,
        procVars
<1> QED
    BY <1>1, <1>2, <1>3, <1>4, <1>5, <1>6 DEF IInv

\* The slot ends.
LEMMA NextTimeSlotInvariant ==
    ASSUME IInv, NextTimeSlot
    PROVE  IInv'
<1>b. /\ SchedTypeOK' /\ OneQueuePlace' /\ OwnQueue'
      /\ \A p \in Proc : Ready(p)' <=> Ready(p)
    BY SchedUnchanged, Zenon DEF NextTimeSlot, IInv, PlaceInv, OnePlace
<1>c. Clock!TypeOK'
    BY OSAssumption
    DEF NextTimeSlot, IInv, TypeOK, Clock!TypeOK, Clock!Advance, Clock!NextTime,
        Clock!Times, Clock!DeviceStates
<1>1. TypeOK'
    BY <1>b, <1>c, Zenon DEF NextTimeSlot, IInv, TypeOK, loaderVars, cpuVars
<1>2. PlaceInv'
    BY <1>b, Zenon DEF NextTimeSlot, IInv, loaderVars, cpuVars,
        PlaceInv, OnePlace, OneCPU, NotHeldAndReady, KnownProcs, Held, Loaded
<1>3. CpuInv'
    BY Zenon DEF NextTimeSlot, IInv, CpuInv, cpuVars
<1>4. FreshQuantum'
    BY Zenon DEF NextTimeSlot, IInv, FreshQuantum, cpuVars
<1>5. FreedDone'
    BY Zenon DEF NextTimeSlot, IInv, FreedDone, Loaded, loaderVars
<1>6. RanInv'
    BY DEF NextTimeSlot, RanInv
<1> QED
    BY <1>1, <1>2, <1>3, <1>4, <1>5, <1>6 DEF IInv

\* A step that changes nothing.
LEMMA StutterInvariant ==
    ASSUME IInv, UNCHANGED vars
    PROVE  IInv'
<1>1. TypeOK'
    BY Zenon DEF IInv, TypeOK, SchedTypeOK, Clock!TypeOK, vars, clockVars,
       loaderVars,
        cpuVars, procVars, schedVars
<1>2. PlaceInv'
    BY SchedUnchanged, Zenon DEF IInv, vars, loaderVars, cpuVars, procVars,
        PlaceInv, OnePlace, OneCPU, NotHeldAndReady, KnownProcs, Held, Loaded
<1>3. CpuInv' /\ FreshQuantum' /\ FreedDone' /\ RanInv'
    BY DEF IInv, CpuInv, FreshQuantum, FreedDone, RanInv, Loaded, vars,
        clockVars, loaderVars, cpuVars, procVars
<1> QED
    BY <1>1, <1>2, <1>3, Zenon DEF IInv

\* Every step of the CPUs, the loader and the clock preserves IInv.
LEMMA StepInvariant == IInv /\ [Next]_vars => IInv'
<1> SUFFICES ASSUME IInv, [Next]_vars PROVE IInv'
    BY Zenon
<1>1. ASSUME NEW c \in CPUs, CpuStep(c) PROVE IInv'
    BY <1>1, LoadNoneInvariant, LoadFirstInvariant, FinishProcInvariant,
       PutBackInvariant, KeepProcInvariant, GetNextInvariant, StopCPUInvariant,
       SkipSlotInvariant, DispatchInvariant, RunInstrInvariant, SMTT(30)
       DEF CpuStep
<1>2. ASSUME LoaderStep PROVE IInv'
    BY <1>2, LdWaitInvariant, LdAddInvariant, LdDoneInvariant DEF LoaderStep
<1>3. ASSUME NextTimeSlot PROVE IInv'
    BY <1>3, NextTimeSlotInvariant
<1>4. ASSUME Ended \/ UNCHANGED vars PROVE IInv'
    BY <1>4, StutterInvariant DEF Ended
<1> QED
    BY <1>1, <1>2, <1>3, <1>4, Zenon DEF Next

\* IInv is an invariant of the system.
LEMMA Invariance == Spec => []IInv
    BY InitInvariant, StepInvariant, PTL DEF Spec
-----------------------------------------------------------------------------
(***************************************************************************)
(* Every variable of the CPUs, the loader, the scheduler and the clock     *)
(* keeps its type; in particular time_left is never counted below 0        *)
(* (os.c:96).                                                              *)
(***************************************************************************)
THEOREM TypeCorrect == Spec => []TypeOK
<1>1. IInv => TypeOK
    BY DEF IInv
<1> QED
    BY <1>1, Invariance, PTL

(***************************************************************************)
(* A process is in one place (sched.c, os.c:61-77): no two CPUs ever run   *)
(* one pcb.                                                                *)
(***************************************************************************)
THEOREM OnePlaceAlways == Spec => []OnePlace
<1>1. IInv => OnePlace
    BY Zenon DEF IInv, PlaceInv
<1> QED
    BY <1>1, Invariance, PTL

(***************************************************************************)
(* free(proc) (os.c:69) leaves no CPU and no ready queue with the pcb.     *)
(***************************************************************************)
THEOREM NoUseAfterFreeAlways == Spec => []NoUseAfterFree
<1>1. IInv => NoUseAfterFree
    BY DEF IInv, PlaceInv, KnownProcs, FreedDone, NoUseAfterFree, TypeOK
<1> QED
    BY <1>1, Invariance, PTL

\* A process that is dispatched starts a full quantum (os.c:71, 89-91).
THEOREM FreshQuantumAlways == Spec => []FreshQuantum
<1>1. IInv => FreshQuantum
    BY Zenon DEF IInv
<1> QED
    BY <1>1, Invariance, PTL

\* No process executes two instructions in one slot (os.c:95-97).
THEOREM OncePerSlotAlways == Spec => []OncePerSlot
<1>1. IInv => OncePerSlot
    BY DEF IInv, RanInv, OncePerSlot
<1> QED
    BY <1>1, Invariance, PTL
-----------------------------------------------------------------------------
(* No process is lost, provided that a queue has room for all of them.     *)

\* No step of the CPUs or of the loader drops a process while the queues
\* have room for all of them.
LEMMA NoLossStep ==
    ASSUME MaxQueueSize >= NumProcesses, IInv, NoProcessLost, [Next]_vars
    PROVE  NoProcessLost'
<1>1. ASSUME NEW c \in CPUs, CpuStep(c) PROVE NoProcessLost'
  <2>1. ASSUME NEW r \in Proc \cup {NULL}, get_proc(r), proc[c] = NULL,
               proc' = [proc EXCEPT ![c] = r],
               UNCHANGED <<ld_processes, loaderVars, procVars>>
        PROVE  NoProcessLost'
    <3>1. \A p \in Proc : Ready(p)' <=> Ready(p) /\ p # r
        BY <2>1, GetProcProperties DEF IInv, PlaceInv, OnePlace
    <3> QED
        BY <2>1, <3>1, SchedAssumption, Zenon
        DEF NoProcessLost, Loaded, Held, IInv, TypeOK, loaderVars, procVars
  <2>2. ASSUME proc' = proc,
               UNCHANGED <<ld_processes, loaderVars, freed, schedVars>>
        PROVE  NoProcessLost'
    <3>1. \A p \in Proc : Ready(p)' <=> Ready(p)
        BY <2>2, SchedUnchanged, Zenon DEF IInv, PlaceInv, OnePlace
    <3> QED
        BY <2>2, <3>1, Zenon DEF NoProcessLost, Loaded, Held, loaderVars
  <2>3. CASE LoadNone(c)
    <3>1. \A p \in Proc : Ready(p)' <=> Ready(p)
        BY <2>3, GetProcProperties, SchedAssumption, Zenon
        DEF LoadNone, IInv, PlaceInv, OnePlace
    <3> QED
        BY <2>3, <3>1, Zenon
        DEF LoadNone, NoProcessLost, Loaded, Held, loaderVars, cpuVars, procVars
  <2>4. CASE LoadFirst(c)
    BY <2>1, <2>4, Zenon DEF LoadFirst
  <2>5. CASE FinishProc(c)
    <3>1. \A p \in Proc : Ready(p)' <=> Ready(p)
        BY <2>5, SchedUnchanged DEF FinishProc, IInv, PlaceInv, OnePlace
    <3> QED
        BY <2>5, <3>1
        DEF FinishProc, NoProcessLost, Loaded, Held, IInv, TypeOK, loaderVars
  <2>6. CASE PutBack(c)
    <3>1. proc[c] \in Proc /\ ~Ready(proc[c])
        BY <2>6, Zenon
        DEF PutBack, IInv, TypeOK, PlaceInv, OnePlace, NotHeldAndReady, Held
    <3>2. PICK p \in Proc : p = proc[c]
        BY <3>1, Zenon
    <3>3. Ready(p)' /\ \A x \in Proc : Ready(x) => Ready(x)'
        BY <2>6, <3>1, <3>2, PutProcProperties, Zenon
        DEF PutBack, IInv, PlaceInv, OnePlace
    <3> QED
        BY <2>6, <3>2, <3>3, Zenon
        DEF PutBack, NoProcessLost, Loaded, Held, IInv, TypeOK, loaderVars,
            procVars
  <2>7. CASE GetNext(c)
    BY <2>1, <2>7, Zenon DEF GetNext, CpuAt, IInv, CpuInv
  <2>8. CASE KeepProc(c) \/ StopCPU(c) \/ SkipSlot(c) \/ Dispatch(c) \/ RunInstr(c)
    BY <2>2, <2>8, Zenon
    DEF KeepProc, StopCPU, SkipSlot, Dispatch, RunInstr, procVars
  <2> QED
    BY <1>1, <2>3, <2>4, <2>5, <2>6, <2>7, <2>8, Zenon DEF CpuStep
<1>2. ASSUME LdAdd PROVE NoProcessLost'
  <2>1. i \in Proc /\ i' = i + 1 /\ i \in Nat /\ \A p \in Proc : p \in Nat
    BY <1>2, OSAssumption DEF LdAdd, IInv, TypeOK
  <2>2. ~Ready(i)
    BY <2>1 DEF IInv, PlaceInv, KnownProcs, Loaded
  <2>3. PICK p \in Proc : p = i
    BY <2>1, Zenon
  <2>4. Ready(p)' /\ \A x \in Proc : Ready(x) => Ready(x)'
    BY <1>2, <2>1, <2>2, <2>3, AddProcProperties, Zenon
    DEF LdAdd, IInv, PlaceInv, OnePlace
  <2>5. \A x \in Proc : x < i' => x < i \/ x = p
    BY <2>1, <2>3
  <2> QED
    BY <1>2, <2>4, <2>5, Zenon
    DEF LdAdd, NoProcessLost, Loaded, Held, cpuVars, procVars
<1>3. ASSUME LdWait \/ LdDone \/ NextTimeSlot \/ Ended \/ UNCHANGED vars
      PROVE  NoProcessLost'
  <2>1. UNCHANGED <<ld_processes, i, proc, freed, schedVars>>
    BY <1>3, Zenon
    DEF LdWait, LdDone, NextTimeSlot, Ended, vars, loaderVars, cpuVars, procVars
  <2>2. \A p \in Proc : Ready(p)' <=> Ready(p)
    BY <2>1, SchedUnchanged, Zenon DEF IInv, PlaceInv, OnePlace
  <2> QED
    BY <2>1, <2>2, Zenon DEF NoProcessLost, Loaded, Held
<1> QED
    BY <1>1, <1>2, <1>3 DEF Next, LoaderStep

(***************************************************************************)
(* No process is lost between the queues and the CPUs (os.c:61-77,         *)
(* sched.c:92-123) as long as MAX_QUEUE_SIZE is no less than the number of *)
(* processes: then enqueue never drops one (queue.c:16).                   *)
(***************************************************************************)
THEOREM NoProcessLostAlways ==
    ASSUME MaxQueueSize >= NumProcesses
    PROVE  Spec => []NoProcessLost
<1>1. Init => NoProcessLost
    BY OSAssumption DEF Init, NoProcessLost, Loaded
<1>2. IInv /\ NoProcessLost /\ [Next]_vars => NoProcessLost'
    BY NoLossStep
<1> QED
    BY <1>1, <1>2, Invariance, PTL DEF Spec
=============================================================================
