---------------------------- MODULE MCGasCityLoop ----------------------------
(***************************************************************************)
(* Instances of GasCityLoop for TLC: one or two beads of one Function, the *)
(* first within the amendment depth, the second beyond it.                 *)
(***************************************************************************)
EXTENDS GasCityLoop, TLC

CONSTANTS f1, b1, b2

Sym == Permutations(Handler)
RunSym == Permutations(Run)

MCFnOf    == [b \in Bead |-> f1]
MCAttempt == [b \in Bead |-> IF b = b1 THEN 1 ELSE MaxAmendmentDepth + 1]
MCDeliveries == [b \in Bead |-> IF b = b1 THEN 2 ELSE 1]
MCOneDelivery == [b \in Bead |-> 1]
MCNoDeliveries == [b \in Bead |-> 0]
MCRank    == [x \in Function \cup Bead |-> IF x = b2 THEN 1 ELSE 0]
=============================================================================
