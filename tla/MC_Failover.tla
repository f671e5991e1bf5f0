---------------------------- MODULE MC_Failover ----------------------------
(* Small instances of ClusterFailover. *)
EXTENDS ClusterFailover, TLC

(* The nodes other than the first primary are interchangeable, and so are   *)
(* the writes.                                                              *)
Symm == Permutations(Node \ {FirstPrimary}) \cup Permutations(Write)

(* A call may still name another primary on n. *)
MayBeCalled(n) == n \in Flaky /\ cuts < MaxCuts

(* With one term (MaxTerm = 1), a node that has voted or adopted starts no  *)
(* election any more, nor does a primary that no call can replace.          *)
MayStart(n) == lead[n].epoch = 0 /\ voted[n].term = 0 /\ (IsPrimary(n) => MayBeCalled(n))

(* What later steps can read of the view of n: the ages of the candidates   *)
(* while it may start an election, the quorum while it is or may become     *)
(* primary.                                                                 *)
ViewRead(n) ==
  IF MayStart(n)
  THEN [m \in Node |-> IF view[n][m] = "newest" /\ m = lead[n].primary /\ ~MayBeCalled(n)
                       THEN "recent" ELSE view[n][m]]
  ELSE IF IsPrimary(n) \/ election[n] # NoElection \/ MayBeCalled(n) THEN Online(n) ELSE {}

(* And of its member list: the commit index of the first primary while an   *)
(* election may start, and which candidates have made progress.             *)
EntriesRead(n) ==
  IF n = FirstPrimary /\ takeover = NoTakeover /\ operated = {} /\ \E m \in Node : MayStart(m)
  THEN [m \in Node |-> Counted(n, m)]
  ELSE IF MayStart(n)
  THEN {m \in Node \ {n} : entry[n][m] # NoProgress /\ (m = lead[n].primary => MayBeCalled(n))}
  ELSE {}

(* The nodes whose position or database a later step can read: all while an *)
(* election may start; then the candidates, and who may still vote for one. *)
NodesRead ==
  IF \E n \in Node : MayStart(n) THEN Node
  ELSE IF \A n \in Node : election[n] = NoElection THEN {}
  ELSE {n \in Node : election[n] # NoElection \/ (voted[n].term = 0 /\ lead[n].epoch = 0)}

LogsRead ==
  <<IF NodesRead = {} THEN {} ELSE log,
    [n \in NodesRead |-> <<pos[n], data[n], {w \in Write : n \in write[w].to}>>],
    IF takeover = NoTakeover THEN {} ELSE takeover.owed \ data[takeover.by]>>

(* States that differ only in what no step reads again are the same. *)
OneTermView == <<cut, cuts, lead, election, anns, takeover, operated, opSeq, LogsRead,
                 [w \in Write |-> <<write[w].at, write[w].epoch, write[w].pos>>],
                 lost, restarts, [n \in Node |-> voted[n].term],
                 IF restarts < MaxRestarts THEN saved ELSE {},
                 [n \in Node |-> ViewRead(n)], [n \in Node |-> EntriesRead(n)]>>
=============================================================================
