---------------------------- MODULE MCPageTable ----------------------------
(* PageTable on a small instance.                                          *)
EXTENDS PageTable
=============================================================================
