---------------------------- MODULE BeadLifecycle ----------------------------
(***************************************************************************)
(* What the loop promises for one bead, whatever the interleaving, the     *)
(* duplicated deliveries and the crashes: its completion is recorded only  *)
(* after its dispatch, it gets one verdict and keeps it, and a failed bead *)
(* is amended or halted according to its attempt, never both.  GasCityLoop *)
(* implements this specification.                                          *)
(***************************************************************************)
EXTENDS Naturals

CONSTANTS Bead, Attempt, MaxAmendmentDepth

VARIABLE phase

Phase == {"open", "dispatched", "completed", "passed", "failed", "amended", "halted"}

Move(b, from, to) == phase[b] = from /\ phase' = [phase EXCEPT ![b] = to]

Dispatch(b) == Move(b, "open", "dispatched")
Complete(b) == Move(b, "dispatched", "completed")
Judge(b)    == Move(b, "completed", "passed") \/ Move(b, "completed", "failed")
Amend(b)    == Attempt[b] <= MaxAmendmentDepth /\ Move(b, "failed", "amended")
Halt(b)     == Attempt[b] > MaxAmendmentDepth /\ Move(b, "failed", "halted")

Init == phase = [b \in Bead |-> "open"]
Next == \E b \in Bead : Dispatch(b) \/ Complete(b) \/ Judge(b) \/ Amend(b) \/ Halt(b)

Spec == Init /\ [][Next]_phase
=============================================================================
