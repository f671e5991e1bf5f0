---------------------------- MODULE MC_Coalescing ----------------------------
(* Small instances of Coalescing. *)
EXTENDS Coalescing
=============================================================================
