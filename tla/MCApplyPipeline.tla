-------------------------- MODULE MCApplyPipeline --------------------------
(***************************************************************************)
(* Instances of ApplyPipeline: one device, and one node the configuration  *)
(* yields or not, so that a device can get a parent, keep it, lose it or   *)
(* be gone.                                                                *)
(***************************************************************************)
EXTENDS ApplyPipeline
============================================================================
