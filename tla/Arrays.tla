------------------------------- MODULE Arrays -------------------------------
(***************************************************************************)
(* Memory as a program sees it (README.md, "Instruction set"): a register  *)
(* names an array of bytes that ALLOC makes, WRITE and the copies change   *)
(* and FREE drops.  There are no addresses, so that no two arrays can      *)
(* overlap and no byte can be lost or reached after it was freed.  Process *)
(* is shown to implement this specification.                               *)
(***************************************************************************)
EXTENDS Naturals, Sequences

CONSTANTS
    Rgids,   \* the registers
    Sizes,   \* the sizes a program asks for
    Values,  \* the bytes
    Blank    \* the byte that a copy from the kernel stores

VARIABLE arr \* arr[r]: the array r names; empty when it names none

Init == arr = [r \in Rgids |-> << >>]

\* A new array holds anything.
Alloc(r, n) ==
    \E bytes \in [1 .. n -> Values] : arr' = [arr EXCEPT ![r] = bytes]

Free(r) == arr' = [arr EXCEPT ![r] = << >>]

Write(r, i, v) ==
    /\ i \in 1 .. Len(arr[r])
    /\ arr' = [arr EXCEPT ![r][i] = v]

\* The bytes from i to j are copied from the kernel.
Copy(r, i, j) ==
    /\ i \in 1 .. Len(arr[r]) /\ j \in i .. Len(arr[r])
    /\ arr' = [arr EXCEPT ![r] = [k \in 1 .. Len(@) |->
                                     IF k \in i .. j THEN Blank ELSE @[k]]]

Next ==
    \E r \in Rgids :
        \/ \E n \in Sizes : Alloc(r, n)
        \/ Free(r)
        \/ \E i \in 1 .. Len(arr[r]) :
               \/ \E v \in Values : Write(r, i, v)
               \/ \E j \in i .. Len(arr[r]) : Copy(r, i, j)

Spec == Init /\ [][Next]_arr
=============================================================================
