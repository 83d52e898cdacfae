------------------------------- MODULE Frames -------------------------------
(***************************************************************************)
(* The frame lists of a memphy_struct (mm-memphy.c), as pure operators on  *)
(* a record [free, used] of two sequences, heads first.                    *)
(***************************************************************************)
EXTENDS Lists

\* Mutation of MEMPHY_format: the frames are numbered from 1.
FormatFromOne(numfp) ==
    [free |-> [k \in 1 .. numfp |-> k], used |-> << >>]

\* MEMPHY_format: the free list holds every frame in order.
MEMPHY_format(numfp) ==
    [free |-> [k \in 1 .. numfp |-> k - 1], used |-> << >>]

HasFree(mp) == mp.free # << >>

\* What MEMPHY_get_freefp does under memphy_lock, when the list has a head:
\* the head goes to the front of the used list.
NextFree(mp) == Head(mp.free)

\* Mutation of Popped: the frame is not entered in the used list.
PoppedUnrecorded(mp) == [mp EXCEPT !.free = Tail(@)]

Popped(mp) ==
    [free |-> Tail(mp.free), used |-> <<Head(mp.free)>> \o mp.used]

IsUsed(mp, fpn) == Occurs(mp.used, fpn)

\* Mutation of MEMPHY_put_freefp: the frame stays on the used list.
PutKeepsUsed(mp, fpn) ==
    IF IsUsed(mp, fpn) THEN [mp EXCEPT !.free = <<fpn>> \o @] ELSE mp

\* MEMPHY_put_freefp: back to the front of the free list; a frame that is
\* not in use is refused and changes nothing.
MEMPHY_put_freefp(mp, fpn) ==
    IF IsUsed(mp, fpn)
    THEN [free |-> <<fpn>> \o mp.free, used |-> RemoveFirst(mp.used, fpn)]
    ELSE mp

ListSet(list) == {list[k] : k \in 1 .. Len(list)}

NoRepeat(list) ==
    \A k, l \in 1 .. Len(list) : list[k] = list[l] => k = l

\* Every frame is on exactly one of the two lists, and once.
Partition(mp, frames) ==
    /\ NoRepeat(mp.free) /\ NoRepeat(mp.used)
    /\ ListSet(mp.free) \cap ListSet(mp.used) = {}
    /\ ListSet(mp.free) \cup ListSet(mp.used) = frames
=============================================================================
