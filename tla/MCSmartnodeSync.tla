--------------------------- MODULE MCSmartnodeSync ---------------------------
(***************************************************************************)
(* Instances of SmartnodeSync for TLC: an up-to-date peer, and an old one  *)
(* where a run has it.                                                     *)
(***************************************************************************)
EXTENDS SmartnodeSync, TLC
=============================================================================
