-------------------------- MODULE MCFormulaDispatch --------------------------
(* Instances of FormulaDispatch for TLC. *)
EXTENDS FormulaDispatch, TLC

Sym == Permutations(Invocation) \cup Permutations(BeadId)
=============================================================================
