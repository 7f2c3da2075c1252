------------------------- MODULE MCBoundedSerialQueue -------------------------
(***************************************************************************)
(* The instance of BoundedSerialQueue for TLC: its constants are in the    *)
(* .cfg.                                                                   *)
(***************************************************************************)
EXTENDS BoundedSerialQueue
=============================================================================
