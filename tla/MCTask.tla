------------------------------- MODULE MCTask -------------------------------
(* Instances of Task for TLC.                                               *)
EXTENDS Task

(* Programs never signal init or the idle task.                             *)
OrdinaryTasks == 3..MaxPid

(* Programs may signal any task but init.                                   *)
AllButInit == 2..MaxPid
=============================================================================
