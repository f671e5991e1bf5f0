------------------------------ MODULE ShardMove ------------------------------
(***************************************************************************)
(* cluster.shard.move on one node, the coordinator: it copies the shard's  *)
(* entry, asks the source for the manifest of the shard's values and the   *)
(* destination for the values it lacks, has the destination pull them      *)
(* (ObjectPull) and then writes the copy, with the destination as primary, *)
(* over the entry.  Meanwhile the entry changes by promotions and adopted  *)
(* announcements of the shard's elections and by members that leave or are *)
(* removed.  The shard map is the coordinator's own; it is saved at every  *)
(* change and survives its restart.                                        *)
(***************************************************************************)
EXTENDS ObjectPull

CONSTANTS Coordinator,  \* the node that serves cluster.shard.move
          Source,       \* the shard's first primary
          Interned,     \* values the source interned for rows it no longer has
          MaxEpoch      \* bound: leadership epochs of the shard

ASSUME MoveAssumption == /\ Coordinator \in Node /\ Source \in Node /\ Interned \subseteq Value
                         /\ MaxEpoch \in Nat

VARIABLES shard,      \* the shard's entry
          nodes,      \* the members
          online,     \* the members with status online
          leader,     \* primary_node_id of the cluster
          move,       \* move[m]: the call m of cluster.shard.move
          overtaken   \* a move wrote over a change made while it ran

mapVars == <<shard, nodes, online, leader>>
vars == <<pullVars, mapVars, move, overtaken>>

Shard == [primary : Node, replicas : SUBSET Node, epoch : Nat]

(* waiting for the manifest, for objects.need, for objects.pull *)
MovePhase == {"new", "manifest", "need", "pull", "placed", "failed"}

MoveState == [phase    : MovePhase,
              to       : Node,
              from     : Node,
              preview  : Shard,         \* the copy, as it will be written
              manifest : SUBSET Value,
              need     : SUBSET Value,  \* values the destination lacks
              raced    : BOOLEAN,       \* the entry or the members changed since the copy
              lost     : BOOLEAN]       \* the destination restarted since objects.need

Busy(m) == move[m].phase \in {"manifest", "need", "pull"}

(* The entry once n is its primary: the old primary becomes a replica. *)
Promoted(s, n, epoch) ==
  [primary |-> n, replicas |-> (s.replicas \cup {s.primary}) \ {n}, epoch |-> epoch]

FirstShard == [primary |-> Source, replicas |-> Node \ {Source}, epoch |-> 0]

NewMove == [phase |-> "new", to |-> Source, from |-> Source, preview |-> FirstShard,
            manifest |-> {}, need |-> {}, raced |-> FALSE, lost |-> FALSE]

(* The variables of a call end with it. *)
Ended(phase) == [NewMove EXCEPT !.phase = phase]

Init ==
  /\ rows = [n \in Node |-> {}]
  /\ store = [n \in Node |-> Rebuilt(IF n = Source THEN Interned ELSE {})]
  /\ pull = [p \in Pull |-> NewPull(Source)]
  /\ writes = 0 /\ faults = 0
  /\ shard = FirstShard
  /\ nodes = Node /\ online = Node /\ leader = Source
  /\ move = [m \in Pull |-> NewMove]
  /\ overtaken = FALSE

-----------------------------------------------------------------------------
(* Other changes of the shard map *)

MovesRaced == [m \in Pull |-> IF Busy(m) THEN [move[m] EXCEPT !.raced = TRUE] ELSE move[m]]

(* cluster.replica.promote with a shard id, on the coordinator: the shard's *)
(* quorum, or force, is taken as given.                                     *)
PromoteShard(n) ==
  /\ shard.epoch < MaxEpoch /\ n \in nodes
  /\ shard' = Promoted(shard, n, shard.epoch + 1)
  /\ move' = MovesRaced
  /\ UNCHANGED <<pullVars, nodes, online, leader, overtaken>>

(* Mutant: an announcement is adopted whatever its epoch. *)
AdoptsAny(epoch) == TRUE

Adopts(epoch) == epoch > shard.epoch

(* cluster.leader.announce with a shard id: a winner of an election. *)
AdoptAnnounced(n, epoch) ==
  /\ n \in nodes /\ Adopts(epoch)
  /\ shard' = Promoted(shard, n, epoch)
  /\ move' = MovesRaced
  /\ UNCHANGED <<pullVars, nodes, online, leader, overtaken>>

(* cluster.node.remove of another node than the coordinator: its shards go  *)
(* to a replica, or to the coordinator.                                     *)
RemoveNode(n) ==
  LET left == shard.replicas \ {n} IN
  /\ Fault /\ n \in nodes \ {Coordinator}
  /\ nodes' = nodes \ {n} /\ online' = online \ {n}
  /\ \E next \in IF shard.primary # n THEN {shard.primary}
                 ELSE IF left # {} THEN left ELSE {Coordinator} :
       shard' = [shard EXCEPT !.primary = next, !.replicas = left \ {next}]
  /\ leader' \in IF leader = n THEN nodes' ELSE {leader}
  /\ move' = MovesRaced
  /\ UNCHANGED <<nodeVars, pull, writes, overtaken>>

(* cluster.node.leave: the node stays a member, offline.  Without another   *)
(* online replica its shards stay with it unless it was the cluster's       *)
(* primary, whose successor then takes them.                                *)
LeaveNode(n) ==
  LET left == shard.replicas \ {n} IN
  /\ Fault /\ n \in nodes
  /\ online' = online \ {n}
  /\ leader' \in IF leader = n /\ online' # {} THEN online' ELSE {leader}
  /\ \E next \in IF shard.primary # n THEN {shard.primary}
                 ELSE IF left \cap online' # {} THEN left \cap online'
                 ELSE IF leader' # leader THEN {leader'} ELSE {n} :
       shard' = [shard EXCEPT !.primary = next, !.replicas = left \ {next}]
  /\ move' = MovesRaced
  /\ UNCHANGED <<nodeVars, pull, writes, nodes, overtaken>>

-----------------------------------------------------------------------------
(* The move *)

SetMove(m, c) == move' = [move EXCEPT ![m] = c]

(* Source and destination are members, or the call returns not_found. *)
MoveStart(m, to) ==
  /\ move[m].phase = "new" /\ to \in nodes /\ shard.primary \in nodes
  /\ SetMove(m, [NewMove EXCEPT !.phase = "manifest", !.to = to, !.from = shard.primary,
                                !.preview = Promoted(shard, to, shard.epoch)])
  /\ UNCHANGED <<pullVars, mapVars, overtaken>>

(* The copy is written over the entry; other moves see that as a change. *)
Place(m, c) ==
  /\ shard' = c.preview
  /\ overtaken' = (overtaken \/ c.raced)
  /\ move' = [MovesRaced EXCEPT ![m] = Ended("placed")]
  /\ UNCHANGED <<nodes, online, leader>>

(* The manifest: the values of the shard's live rows on the source.  With   *)
(* nothing to transfer the move is done.                                    *)
MoveManifest(m) ==
  LET c == [move[m] EXCEPT !.manifest = rows[move[m].from]] IN
  /\ move[m].phase = "manifest"
  /\ IF c.from = c.to \/ c.manifest = {}
     THEN Place(m, c)
     ELSE SetMove(m, [c EXCEPT !.phase = "need"]) /\ UNCHANGED <<mapVars, overtaken>>
  /\ UNCHANGED pullVars

(* objects.need on the destination. *)
MoveNeed(m) ==
  LET c == [move[m] EXCEPT !.need = move[m].manifest \ DOMAIN store[move[m].to]] IN
  /\ move[m].phase = "need"
  /\ IF c.need = {}
     THEN Place(m, c)
     ELSE SetMove(m, [c EXCEPT !.phase = "pull"]) /\ UNCHANGED <<mapVars, overtaken>>
  /\ UNCHANGED pullVars

(* objects.pull arrives at the destination. *)
MovePull(m) ==
  /\ move[m].phase = "pull"
  /\ PullStart(m, move[m].to, move[m].from, move[m].need)
  /\ UNCHANGED <<mapVars, move, overtaken>>

(* Mutant: only the failed verifications are looked at. *)
TransferredUnlessFailed(m) == pull[m].phase = "done" /\ pull[m].failed = {}

(* Nothing missing, nothing failed, and as many entries stored as needed. *)
Transferred(m) ==
  /\ pull[m].phase = "done"
  /\ pull[m].missing = {} /\ pull[m].failed = {}
  /\ pull[m].stored = Cardinality(move[m].need)

MovePlace(m) ==
  /\ move[m].phase = "pull" /\ Transferred(m)
  /\ Place(m, move[m])
  /\ SetPull(m, [NewPull(Source) EXCEPT !.phase = "done"])
  /\ UNCHANGED <<nodeVars, boundVars>>

(* The answer of the pull is an error or reports an incomplete transfer. *)
MoveIncomplete(m) ==
  /\ move[m].phase = "pull" /\ pull[m].phase \in {"done", "error"} /\ ~Transferred(m)
  /\ SetMove(m, Ended("failed"))
  /\ SetPull(m, [NewPull(Source) EXCEPT !.phase = "done"])
  /\ UNCHANGED <<nodeVars, boundVars, mapVars, overtaken>>

(* A call to another node fails or times out after five seconds; a pull     *)
(* that was started goes on.                                                *)
MoveFails(m) ==
  /\ Fault /\ Busy(m)
  /\ Coordinator # (IF move[m].phase = "manifest" THEN move[m].from ELSE move[m].to)
  /\ SetMove(m, Ended("failed"))
  /\ UNCHANGED <<nodeVars, pull, writes, mapVars, overtaken>>

(* A restart ends the coordinator's moves, and takes from the destination's *)
(* store what is in none of its rows.                                       *)
RestartNode(n) ==
  /\ Restart(n)
  /\ move' = [m \in Pull |->
       IF ~Busy(m) THEN move[m]
       ELSE IF n = Coordinator THEN Ended("failed")
       ELSE [move[m] EXCEPT !.lost = @ \/ (n = move[m].to /\ move[m].phase = "pull")]]
  /\ UNCHANGED <<mapVars, overtaken>>

-----------------------------------------------------------------------------
MoveStep(m) ==
  \/ \E n \in Node : MoveStart(m, n)
  \/ MoveManifest(m) \/ MoveNeed(m) \/ MovePull(m)
  \/ MovePlace(m) \/ MoveIncomplete(m) \/ MoveFails(m)

MapStep(n) ==
  \/ PromoteShard(n) \/ RemoveNode(n) \/ LeaveNode(n)
  \/ \E epoch \in 0..MaxEpoch : AdoptAnnounced(n, epoch)

Next ==
  \/ \E m \in Pull : \/ MoveStep(m)
                     \/ (PullStep(m) \/ FetchFails(m)) /\ UNCHANGED <<mapVars, move, overtaken>>
  \/ \E n \in Node : \/ MapStep(n) \/ RestartNode(n)
                     \/ NodeStep(n) /\ UNCHANGED <<mapVars, move, overtaken>>

Spec == Init /\ [][Next]_vars

(* A call that is running goes on: the sections of objects_pull run and its *)
(* fetches are answered or fail.                                            *)
FairSpec == Spec /\ \A m \in Pull : WF_pullVars(PullStep(m))

-----------------------------------------------------------------------------
(* The types of the state of cluster.shard.move and of the pulls it starts. *)
TypeOK ==
  /\ PullTypeOK
  /\ shard \in Shard
  /\ online \subseteq nodes /\ nodes \subseteq Node /\ leader \in Node
  /\ move \in [Pull -> MoveState]
  /\ overtaken \in BOOLEAN

(* "only update shard placement after the required objects were stored      *)
(* successfully": when a move makes the destination primary, it holds every *)
(* value of the manifest, unless it restarted since it was asked.           *)
MovedComplete ==
  [][\A m \in Pull : move'[m].phase = "placed" /\ move[m].phase # "placed" /\ ~move[m].lost =>
       move[m].manifest \subseteq DOMAIN store[move[m].to]]_vars

(* Until a move has written its copy over a change it did not see, the      *)
(* leadership epoch of the shard never goes back ("monotonic"), and primary *)
(* and replicas are members, the primary not among the replicas.            *)
ShardMapKept ==
  [][~overtaken' => /\ shard'.epoch >= shard.epoch
                    /\ {shard'.primary} \cup shard'.replicas \subseteq nodes'
                    /\ shard'.primary \notin shard'.replicas]_vars
=============================================================================
