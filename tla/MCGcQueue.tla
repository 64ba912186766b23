------------------------------- MODULE MCGcQueue -------------------------------
(***************************************************************************)
(* An instance of GcQueue for TLC.  Sessions and threads are model values. *)
(* They are not declared symmetric, as the run checks liveness.            *)
(***************************************************************************)
EXTENDS GcQueue
=============================================================================
