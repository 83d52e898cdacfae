------------------------------ MODULE MCTimer ------------------------------
(* Timer on a small instance: two CPUs and the loader.                     *)
EXTENDS Timer
=============================================================================
