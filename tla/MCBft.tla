--------------------------------- MODULE MCBft ---------------------------------
(***************************************************************************)
(* The instance of Bft for TLC: two producers, who need each other for     *)
(* every quorum, two terms, so that the second leader takes over, and two  *)
(* blocks.                                                                 *)
(***************************************************************************)
EXTENDS Bft
=============================================================================
