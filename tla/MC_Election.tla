----------------------------- MODULE MC_Election -----------------------------
(* Three members, one of them the first primary; one handler thread each.   *)
EXTENDS ClusterElection, TLC

CONSTANTS a, b, c

(* b and c are interchangeable; a is the first primary. *)
Symm == Permutations({b, c})

(* The heartbeat loop of b keeps being scheduled, and a call ends with an   *)
(* answer or with the client's 5 s timeout; nothing is asked of the others. *)
FairToB == Spec /\ WF_vars(TickerStep(b))

(* run_cluster_election on b always returns: lost requests, lost answers    *)
(* and dead peers cannot keep its heartbeat loop in an election.            *)
ElectionsOfBEnd == election[b] # NoElection ~> election[b] = NoElection
=============================================================================
