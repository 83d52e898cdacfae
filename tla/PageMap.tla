------------------------------- MODULE PageMap -------------------------------
(***************************************************************************)
(* What a page table is for: a map from pages to entries, which Paging and *)
(* KMem use as a function.  An entry says where the page is; setting the   *)
(* entry of one page leaves all others alone, and looking one up gives     *)
(* what was last set.  PageTable is shown to implement this map by a tree  *)
(* of tables that grows on demand.                                         *)
(***************************************************************************)
EXTENDS Naturals

CONSTANTS
    Threads,   \* who uses the map
    Pages,     \* the page numbers
    Fpns,      \* the frame numbers pages are mapped to
    Swaps,     \* the swap frame numbers
    FpnLimit   \* the frame numbers an entry can hold

VARIABLES
    map,       \* map[g]: the entry of page g
    got        \* got[t]: the entry t has looked up

vars == <<map, got>>

NoPage    == [where |-> "none"]
InRam(f)  == [where |-> "ram", fpn |-> f % FpnLimit]
InSwap(s) == [where |-> "swap", swpfpn |-> s]

Init ==
    /\ map = [g \in Pages |-> NoPage]
    /\ got = [t \in Threads |-> NoPage]

Set(g, e) ==
    /\ map' = [map EXCEPT ![g] = e]
    /\ UNCHANGED got

\* Before its next call a caller has no entry in hand.
Forget(t) ==
    /\ got' = [got EXCEPT ![t] = NoPage]
    /\ UNCHANGED map

Get(t, g) ==
    /\ got' = [got EXCEPT ![t] = map[g]]
    /\ UNCHANGED map

Next ==
    \/ \E g \in Pages, f \in Fpns : Set(g, InRam(f))
    \/ \E g \in Pages, s \in Swaps : Set(g, InSwap(s))
    \/ \E t \in Threads : Forget(t)
    \/ \E t \in Threads, g \in Pages : Get(t, g)

Spec == Init /\ [][Next]_vars
=============================================================================
