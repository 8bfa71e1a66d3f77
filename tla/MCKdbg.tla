------------------------------- MODULE MCKdbg -------------------------------
(* The debugger's line alone, for the replies that are damaged on it.       *)
EXTENDS Kdbg

KdbgQueue == <<1, 2>>
=============================================================================
