-------------------------------- MODULE MCOS --------------------------------
(* OS on small instances.                                                  *)
EXTENDS OS

CONSTANT MaxSize, MaxStart   \* bounds of the workloads

MCWorkloads ==
    [prio : [Proc -> Prios], size : [Proc -> 0 .. MaxSize],
     start_time : [Proc -> 0 .. MaxStart]]
=============================================================================
