------------------------------ MODULE MCPaging ------------------------------
(* Paging on small instances.                                              *)
EXTENDS Paging
=============================================================================
