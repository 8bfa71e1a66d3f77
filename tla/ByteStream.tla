----------------------------- MODULE ByteStream -----------------------------
(***************************************************************************)
(* What a pipe promises: a bounded first-in first-out queue of bytes.      *)
(* Pipe.tla is shown to implement it.                                      *)
(***************************************************************************)
EXTENDS Naturals, Sequences

CONSTANTS Bytes, Size

VARIABLE stream

Init == stream = <<>>

Put == /\ Len(stream) < Size
       /\ \E b \in Bytes : stream' = Append(stream, b)

Get == stream # <<>> /\ stream' = Tail(stream)

Spec == Init /\ [][Put \/ Get]_stream
=============================================================================
