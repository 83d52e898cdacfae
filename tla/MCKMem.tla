------------------------------- MODULE MCKMem -------------------------------
(* KMem on small instances.                                                *)
EXTENDS KMem
=============================================================================
