---------------------------- MODULE MC_ChangeFeed ----------------------------
(* Small instances of ChangeFeed. *)
EXTENDS ChangeFeed
CONSTANTS a, b   \* tables
=============================================================================
