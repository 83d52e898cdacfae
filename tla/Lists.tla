-------------------------------- MODULE Lists --------------------------------
(***************************************************************************)
(* The simulator's linked lists and arrays with a count, as sequences: the *)
(* operations on them that Sequences does not have. (SequencesExt has      *)
(* them, and with them module Bags, whose recursive definition every proof *)
(* about every list would then carry.)                                     *)
(***************************************************************************)
EXTENDS Naturals, Sequences

Last(list) == list[Len(list)]

Front(list) == SubSeq(list, 1, Len(list) - 1)

\* The list without its k-th node.
RemoveAt(list, k) == SubSeq(list, 1, k - 1) \o SubSeq(list, k + 1, Len(list))

Occurs(list, e) == \E k \in 1 .. Len(list) : list[k] = e

\* The place of the first node that holds e.
FirstAt(list, e) ==
    CHOOSE k \in 1 .. Len(list) :
        list[k] = e /\ \A l \in 1 .. Len(list) : list[l] = e => k <= l

\* The list without the first node that holds e, if there is one.
RemoveFirst(list, e) ==
    IF Occurs(list, e) THEN RemoveAt(list, FirstAt(list, e)) ELSE list
=============================================================================
