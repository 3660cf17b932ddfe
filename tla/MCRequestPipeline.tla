------------------------- MODULE MCRequestPipeline -------------------------
(***************************************************************************)
(* RequestPipeline for TLC; all constants are given in the configurations. *)
(***************************************************************************)
EXTENDS RequestPipeline
=============================================================================
