------------------------------ MODULE MCMemPhy ------------------------------
(* MemPhy on small instances.                                              *)
EXTENDS MemPhy
=============================================================================
