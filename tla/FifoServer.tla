------------------------------ MODULE FifoServer ------------------------------
(***************************************************************************)
(* What BoundedSerialQueue promises to its callers: the accepted calls     *)
(* stand in one line of at most Capacity, are served from its head in the  *)
(* order of their arrival, and none is lost or served twice.               *)
(***************************************************************************)
EXTENDS Naturals, Sequences

CONSTANTS Call, Capacity

VARIABLE line

Init == line = <<>>

Arrive(c) == Len(line) < Capacity /\ line' = Append(line, c)
Leave     == line # <<>> /\ line' = Tail(line)

Next == (\E c \in Call : Arrive(c)) \/ Leave

Spec == Init /\ [][Next]_line
=============================================================================
