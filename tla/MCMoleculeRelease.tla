-------------------------- MODULE MCMoleculeRelease --------------------------
(***************************************************************************)
(* Instances of MoleculeRelease for TLC: one molecule may be entered again *)
(* and fail its own checks, the other is there for the keep-alive count.   *)
(***************************************************************************)
EXTENDS MoleculeRelease, TLC

CONSTANTS b1, b2

MCMaxIterations == b1 :> 2 @@ b2 :> 0
MCMaxFailing    == b1 :> 1 @@ b2 :> 0

MCMaxIterations1 == b1 :> 0
MCMaxFailing1    == b1 :> 1
=============================================================================
