--------------------------- MODULE MC_Replication ---------------------------
(* Small instances of Replication. *)
EXTENDS Replication, TLC

(* The keyed writes are interchangeable, so are the other writes, and so    *)
(* are the replicas.                                                        *)
Symm == Permutations(Keyed) \cup Permutations(Write \ Keyed) \cup Permutations(Replica)
=============================================================================
