------------------------------- MODULE Memory -------------------------------
(***************************************************************************)
(* What paging promises to a process: its pages are a memory of its own.   *)
(* A page appears blank, or as a copy of another page of the process, and  *)
(* from then on holds what the process last stored there.  An access that  *)
(* was asked for is carried out or fails, once, and a failing one changes  *)
(* nothing.  There are no frames, no swap and no victims here: Paging is   *)
(* shown to implement this specification.                                  *)
(***************************************************************************)
CONSTANTS
    Procs,   \* the processes
    Pages,   \* the pages of a process
    Values,  \* the data a program writes
    Blank,   \* what a cleared page holds
    Absent,  \* a page that has never been in memory
    NoReq    \* no access is under way

VARIABLES
    mem,     \* mem[p][g]: what page g of p holds
    req      \* req[p]: the access p has asked for

vars == <<mem, req>>

Kinds == {"read", "write", "copy"}

Init ==
    /\ mem = [p \in Procs |-> [g \in Pages |-> Absent]]
    /\ req = [p \in Procs |-> NoReq]

\* Pages of the set G appear.
Appear(p, G) ==
    /\ G # {} /\ \A g \in G : mem[p][g] = Absent
    /\ \E new \in [G -> {Blank} \cup {mem[p][h] : h \in Pages}] :
           mem' = [mem EXCEPT ![p] =
                      [g \in Pages |-> IF g \in G THEN new[g] ELSE @[g]]]
    /\ UNCHANGED req

Ask(p, kind, g) ==
    /\ req[p] = NoReq
    /\ req' = [req EXCEPT ![p] = [kind |-> kind, pgn |-> g]]
    /\ UNCHANGED mem

\* The end of a read, and of any access that fails.
Leave(p) ==
    /\ req[p] # NoReq
    /\ req' = [req EXCEPT ![p] = NoReq]
    /\ UNCHANGED mem

\* A write stores a value of the process, a copy from the kernel a blank.
Store(p, d) ==
    /\ req[p] # NoReq
    /\ \/ req[p].kind = "write" /\ d \in {<<p, v>> : v \in Values}
       \/ req[p].kind = "copy" /\ d = Blank
    /\ mem[p][req[p].pgn] # Absent
    /\ mem' = [mem EXCEPT ![p][req[p].pgn] = d]
    /\ req' = [req EXCEPT ![p] = NoReq]

Next ==
    \E p \in Procs :
        \/ \E G \in SUBSET Pages : Appear(p, G)
        \/ \E kind \in Kinds, g \in Pages : Ask(p, kind, g)
        \/ Leave(p)
        \/ \E d \in {<<p, v>> : v \in Values} \cup {Blank} : Store(p, d)

Spec == Init /\ [][Next]_vars
=============================================================================
