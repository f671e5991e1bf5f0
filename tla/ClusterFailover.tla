-------------------------- MODULE ClusterFailover --------------------------
(***************************************************************************)
(* Automatic failover of a SkeinDB cluster: how the heartbeats, the        *)
(* election and the replicated log of three components work together when  *)
(* the primary looks dead.  A node judges its peers by the age of their    *)
(* heartbeats (evaluate_node_health), picks the candidate for a failover   *)
(* (elect_failover_candidate), asks for votes, which compare log positions *)
(* (cluster_request_vote), promotes itself and announces it; a primary     *)
(* without a quorum refuses writes (enforce_cluster_write_guard); a write  *)
(* takes its position from the epoch and op_seq of the node that records   *)
(* it, and a replica applies by position (decide_replication_apply).  A    *)
(* node that restarts has the op_seq of its last save and an empty op-log; *)
(* an operator may name a primary, and a primary that leaves is replaced.  *)
(*                                                                         *)
(* Remote calls are single steps here, with the save they end in:          *)
(* ClusterElection has the threads and the saves behind them, Replication  *)
(* the races of the apply path and the re-sync of a replica that fell off  *)
(* the op-log.  The commit index that heartbeats spread is left out: no    *)
(* decision here reads it.  The cluster starts as it does after a restart  *)
(* of all nodes: the heartbeats that were saved are recent, and every node *)
(* has just marked itself seen.                                            *)
(***************************************************************************)
EXTENDS Integers, Sequences, FiniteSets

CONSTANTS Node,          \* the members (cluster.nodes), fixed
          FirstPrimary,  \* the primary when the cluster starts
          NoNode,        \* not a node
          Write,         \* client writes
          Prompt,        \* whether heartbeats between connected nodes are never late
          MaxTerm,       \* bound: elections start no term above it
          Flaky,         \* bound: the nodes on which the next two may happen
          MaxCuts,       \* bound: cuts, and calls that name a primary
          MaxRestarts    \* bound: restarts

ASSUME FailoverAssumption == /\ IsFiniteSet(Node) /\ FirstPrimary \in Node
                             /\ NoNode \notin Node /\ IsFiniteSet(Write)
                             /\ Prompt \in BOOLEAN
                             /\ MaxTerm \in Nat /\ MaxCuts \in Nat /\ Flaky \subseteq Node
                             /\ MaxRestarts \in Nat

VARIABLES
  cut,       \* the nodes that are cut off from all others
  lead,      \* lead[n]: the leadership n recognises
  voted,     \* voted[n]: the last vote of n
  election,  \* election[n]: the run of run_cluster_election on n
  anns,      \* the leaderships announced, [from, epoch]
  view,      \* view[n][m]: the age of the last heartbeat of m at n
  entry,     \* entry[n][m]: the progress of m in the member list of n
  opSeq,     \* opSeq[n]: op_seq
  saved,     \* saved[n]: op_seq when n started, the least its settings file has
  log,       \* log[n]: the op-log of n
  pos,       \* pos[n]: last_applied_term, last_applied_seq
  data,      \* data[n]: the writes in the databases of n
  write,     \* write[w]: where the handler of w is
  cuts,      \* cuts, and calls that name a primary
  restarts,  \* restarts
  takeover,  \* history: the first election won, if no call named a primary before
  lost,      \* history: the recorded writes whose number a restart forgot
  operated   \* history: the epochs in which a call named a primary

leadVars == <<lead, voted, election, anns, takeover, operated>>
viewVars == <<view, entry>>
seqVars == <<saved, lost, restarts>>
dataVars == <<opSeq, log, pos, data, write, seqVars>>
vars == <<cut, cuts, leadVars, viewVars, dataVars>>

-----------------------------------------------------------------------------
Position == Nat \X Nat

(* The order of the pairs (term, seq), and of the triples with applied_ops. *)
Less(p, q) == p[1] < q[1] \/ (p[1] = q[1] /\ p[2] < q[2])

LessRank(p, q) == Less(p, q) \/ (p[1] = q[1] /\ p[2] = q[2] /\ p[3] < q[3])

Newer(p, q) == IF Less(p, q) THEN q ELSE p

NoProgress == <<0, 0, 0>>

NoElection == [term |-> 0, asked |-> {}, got |-> {}, rank |-> NoProgress, owed |-> {}]

NoTakeover == [by |-> NoNode, got |-> {}, owed |-> {}]

NewWrite == [at |-> NoNode, epoch |-> 0, pos |-> <<0, 0>>, to |-> {}]

Quorum(S) == Cardinality(S) >= Cardinality(Node) \div 2 + 1

Connected(n, m) == n \notin cut /\ m \notin cut

IsPrimary(n) == lead[n].primary = n

(* A heartbeat is newer than the last time the node marked itself seen, is  *)
(* recent enough, or is too old.                                            *)
Age == {"newest", "recent", "old"}

(* The ages as n sees them when it has just marked itself seen. *)
SelfSeen(ages) == [m \in Node |-> IF ages[m] = "newest" THEN "recent" ELSE ages[m]]

(* evaluate_node_health: a node is always online to itself. *)
Online(n) == {n} \cup {m \in Node : view[n][m] # "old"}

Init ==
  /\ cut = {} /\ cuts = 0
  /\ lead = [n \in Node |-> [epoch |-> 0, primary |-> FirstPrimary]]
  /\ voted = [n \in Node |-> [term |-> 0, cand |-> NoNode]]
  /\ election = [n \in Node |-> NoElection]
  /\ anns = {}
  /\ view = [n \in Node |-> [m \in Node |-> "recent"]]
  /\ entry = [n \in Node |-> [m \in Node |-> NoProgress]]
  /\ opSeq = [n \in Node |-> 0] /\ saved = opSeq /\ log = [n \in Node |-> <<>>]
  /\ pos = [n \in Node |-> <<0, 0>>] /\ data = [n \in Node |-> {}]
  /\ write = [w \in Write |-> NewWrite]
  /\ takeover = NoTakeover /\ restarts = 0 /\ lost = {} /\ operated = {}

-----------------------------------------------------------------------------
(* The network *)

CutOff(n) ==
  /\ cuts < MaxCuts /\ n \in Flaky \ cut
  /\ cut' = cut \cup {n} /\ cuts' = cuts + 1
  /\ UNCHANGED <<leadVars, viewVars, dataVars>>

Heal(n) ==
  /\ n \in cut
  /\ cut' = cut \ {n}
  /\ UNCHANGED <<cuts, leadVars, viewVars, dataVars>>

-----------------------------------------------------------------------------
(* Heartbeats *)

(* applied_ops: a count, also of a node that skipped operations. *)
AppliedOps(n) == Cardinality({w \in data[n] : write[w].at # n})

(* The position a node holds: its whole log when it is primary, else the    *)
(* operations it has applied.                                               *)
Holds(n) == IF IsPrimary(n) THEN <<lead[n].epoch, opSeq[n]>> ELSE pos[n]

(* The position of m as n counts it. *)
Counted(n, m) == IF m = n THEN Holds(n) ELSE <<entry[n][m][1], entry[n][m][2]>>

Reached(n, p) == Quorum({m \in Node : ~Less(Counted(n, m), p)})

(* cluster_commit_position: the newest position a quorum has reached.       *)
CommitPosition(n) ==
  LET S == {p \in {Counted(n, m) : m \in Node} : Reached(n, p)}
  IN  CHOOSE p \in S : \A q \in S : ~Less(p, q)

(* What the member list has of n after a heartbeat: the newer position and  *)
(* the larger count.                                                        *)
Heard(e, n) ==
  LET p == Newer(<<e[1], e[2]>>, Holds(n))
  IN  <<p[1], p[2], IF AppliedOps(n) > e[3] THEN AppliedOps(n) ELSE e[3]>>

Peers(n) == {m \in Node \ {n} : Connected(n, m)}

(* run_cluster_heartbeat_once on n and cluster_node_heartbeat on the peers  *)
(* it reaches.                                                              *)
Heartbeat(n, peers) ==
  /\ peers # {}
  /\ view' = [m \in Node |-> IF m \in peers THEN [view[m] EXCEPT ![n] = "newest"] ELSE view[m]]
  /\ entry' = [m \in Node |-> IF m \in peers THEN [entry[m] EXCEPT ![n] = Heard(@, n)]
                                              ELSE entry[m]]
  /\ UNCHANGED <<cut, cuts, leadVars, dataVars>>

(* The last heartbeat of m gets too old. *)
Expire(n, m) ==
  /\ n # m /\ view[n][m] # "old"
  /\ Prompt => ~Connected(n, m)
  /\ view' = [view EXCEPT ![n][m] = "old"]
  /\ UNCHANGED <<cut, cuts, leadVars, entry, dataVars>>

-----------------------------------------------------------------------------
(* Failover *)

(* elect_failover_candidate: the node with the most progress, then the one  *)
(* heard of last.  The entry a node has of itself gets no heartbeat: it     *)
(* shows no progress, and is as old as the last time it marked itself seen. *)
ElectsItself(n) ==
  \A m \in Online(n) \ {n, lead[n].primary} :
    entry[n][m] = NoProgress /\ view[n][m] # "newest"

Rank(n) == <<pos[n][1], pos[n][2], AppliedOps(n)>>

(* The writes at or below the commit index of the first primary. *)
Committed == {w \in Write : /\ write[w].pos[2] # 0 /\ write[w].at = FirstPrimary
                            /\ write[w].pos[1] = 0
                            /\ ~Less(CommitPosition(FirstPrimary), write[w].pos)}

(* run_cluster_failover_tick and the start of run_cluster_election: the     *)
(* primary is offline, a quorum is online, and we are the candidate.        *)
StartElection(n) ==
  LET t    == lead[n].epoch
      v    == voted[n].term
      term == (IF t > v THEN t ELSE v) + 1
  IN
  /\ election[n] = NoElection
  /\ ~IsPrimary(n) /\ lead[n].primary \notin Online(n)
  /\ Quorum(Online(n)) /\ ElectsItself(n)
  /\ term <= MaxTerm
  /\ voted' = [voted EXCEPT ![n] = [term |-> term, cand |-> n]]
  /\ election' = [election EXCEPT ![n] = [term |-> term, asked |-> {n}, got |-> {n},
                                          rank |-> Rank(n), owed |-> Committed]]
  /\ UNCHANGED <<cut, cuts, lead, anns, takeover, operated, viewVars, dataVars>>

(* Mutant: the positions are not compared. *)
AnyLog(m, e) == TRUE

(* The log of the candidate is as up to date as the applied log of m. *)
UpToDate(m, e) == ~LessRank(e.rank, Rank(m))

(* Mutant: the term the node already voted in is not checked. *)
MayVoteAgain(m, e) == UpToDate(m, e) /\ e.term > lead[m].epoch

(* cluster_request_vote, without the requests that are repeated. *)
MayVote(m, e) ==
  /\ UpToDate(m, e)
  /\ e.term > voted[m].term /\ e.term > lead[m].epoch

(* Mutant: a voter is not struck off the list of peers to ask. *)
VoteUnasked(n, m, heard) ==
  LET e == election[n] IN
  /\ e # NoElection /\ m \notin e.asked
  /\ Connected(n, m) /\ MayVote(m, e)
  /\ voted' = [voted EXCEPT ![m] = [term |-> e.term, cand |-> n]]
  /\ election' = [election EXCEPT ![n].got = IF heard THEN @ \cup {m} ELSE @]
  /\ UNCHANGED <<cut, cuts, lead, anns, takeover, operated, viewVars, dataVars>>

(* The vote is granted and reaches the candidate, or its answer is lost. *)
Vote(n, m, heard) ==
  LET e == election[n] IN
  /\ e # NoElection /\ m \notin e.asked
  /\ Connected(n, m) /\ MayVote(m, e)
  /\ voted' = [voted EXCEPT ![m] = [term |-> e.term, cand |-> n]]
  /\ election' = [election EXCEPT ![n].asked = @ \cup {m},
                                  ![n].got = IF heard THEN @ \cup {m} ELSE @]
  /\ UNCHANGED <<cut, cuts, lead, anns, takeover, operated, viewVars, dataVars>>

(* The vote is refused, or the call fails. *)
NoVote(n, m) ==
  LET e == election[n] IN
  /\ e # NoElection /\ m \notin e.asked
  /\ ~Connected(n, m) \/ ~MayVote(m, e)
  /\ election' = [election EXCEPT ![n].asked = @ \cup {m}]
  /\ UNCHANGED <<cut, cuts, lead, voted, anns, takeover, operated, viewVars, dataVars>>

(* apply_whole_cluster_promotion and announce_leadership_to_peers.  The     *)
(* quorum is looked at again as of the time the tick began, so it is there. *)
Win(n) ==
  LET e == election[n] IN
  /\ e # NoElection /\ e.asked = Node
  /\ Quorum(e.got) /\ lead[n].epoch < e.term
  /\ lead' = [lead EXCEPT ![n] = [epoch |-> e.term, primary |-> n]]
  /\ view' = [view EXCEPT ![n] = SelfSeen(@)]
  /\ anns' = anns \cup {[from |-> n, epoch |-> e.term]}
  /\ takeover' = IF takeover = NoTakeover /\ operated = {}
                 THEN [by |-> n, got |-> e.got, owed |-> e.owed] ELSE takeover
  /\ election' = [election EXCEPT ![n] = NoElection]
  /\ UNCHANGED <<cut, cuts, voted, operated, entry, dataVars>>

Lose(n) ==
  LET e == election[n] IN
  /\ e # NoElection /\ e.asked = Node
  /\ ~Quorum(e.got) \/ lead[n].epoch >= e.term
  /\ election' = [election EXCEPT ![n] = NoElection]
  /\ UNCHANGED <<cut, cuts, lead, voted, anns, takeover, operated, viewVars, dataVars>>

(* cluster_leader_announce on m: a newer leadership is adopted.  The call   *)
(* may be late or lost; one that is not newer changes nothing.              *)
Adopt(m, a) ==
  /\ a \in anns /\ Connected(a.from, m)
  /\ a.epoch > lead[m].epoch
  /\ lead' = [lead EXCEPT ![m] = [epoch |-> a.epoch, primary |-> a.from]]
  /\ view' = [view EXCEPT ![m][a.from] = "newest"]
  /\ UNCHANGED <<cut, cuts, voted, election, anns, takeover, operated, entry, dataVars>>

-----------------------------------------------------------------------------
(* Writes *)

Admitted(w) == write[w].at # NoNode
Recorded(w) == write[w].pos[2] # 0

(* enforce_cluster_write_guard: on the primary, while it sees a quorum. *)
Accepts(n) == IsPrimary(n) /\ Quorum(Online(n))

Admit(n, w) ==
  /\ ~Admitted(w) /\ Accepts(n)
  /\ write' = [write EXCEPT ![w] = [at |-> n, epoch |-> lead[n].epoch, pos |-> <<0, 0>>,
                                     to |-> {}]]
  /\ UNCHANGED <<cut, cuts, leadVars, viewVars, opSeq, log, pos, data, seqVars>>

(* record_replication_op: the position is the epoch of this moment and the  *)
(* next op_seq; then every other node this one thinks a replica is called.  *)
Record(w) ==
  LET n == write[w].at
      p == <<lead[n].epoch, opSeq[n] + 1>>
  IN
  /\ Admitted(w) /\ ~Recorded(w)
  /\ opSeq' = [opSeq EXCEPT ![n] = @ + 1]
  /\ write' = [write EXCEPT ![w] = [at |-> n, epoch |-> write[w].epoch, pos |-> p,
                                     to |-> Node \ {n, lead[n].primary}]]
  /\ log' = [log EXCEPT ![n] = Append(@, w)]
  /\ data' = [data EXCEPT ![n] = @ \cup {w}]
  /\ UNCHANGED <<cut, cuts, leadVars, viewVars, pos, seqVars>>

(* decide_replication_apply: the next of this term, or any of a newer one.  *)
Applies(m, p) ==
  p[1] > pos[m][1] \/ (p[1] = pos[m][1] /\ p[2] = pos[m][2] + 1)

Apply(m, w) ==
  /\ Applies(m, write[w].pos)
  /\ pos' = [pos EXCEPT ![m] = write[w].pos]
  /\ data' = [data EXCEPT ![m] = @ \cup {w}]
  /\ UNCHANGED <<cut, cuts, leadVars, viewVars, opSeq, log, write, seqVars>>

(* The fan-out call of w reaches m.  It may be late or lost; a duplicate,   *)
(* or an operation above a gap, changes nothing.                            *)
FanOut(w, m) ==
  /\ m \in write[w].to /\ Connected(write[w].at, m)
  /\ Apply(m, w)

(* run_replication_catchup_once: the operations of the primary's log after  *)
(* our position, one at a time.                                             *)
CatchUp(m) ==
  LET p        == lead[m].primary
      Ahead(i) == Less(pos[m], write[log[p][i]].pos)
  IN
  /\ p # m /\ Connected(p, m)
  /\ \E i \in 1..Len(log[p]) : /\ Ahead(i) /\ \A j \in 1..(i - 1) : ~Ahead(j)
                               /\ Apply(m, log[p][i])

-----------------------------------------------------------------------------
(* Restarts, and calls that name a primary *)

(* The process ends and load_cluster_state reads the settings file, whose   *)
(* op_seq is s: heartbeats, fan-outs, votes and applied operations save it, *)
(* and may fail to; recording a write does not.  The op-log is empty.  The  *)
(* election of n and the writes it has not recorded die with the process;   *)
(* calls that are under way may still arrive.                               *)
Restart(n, s) ==
  /\ restarts < MaxRestarts /\ n \in Flaky
  /\ restarts' = restarts + 1
  /\ opSeq' = [opSeq EXCEPT ![n] = s] /\ saved' = [saved EXCEPT ![n] = s]
  /\ log' = [log EXCEPT ![n] = <<>>]
  /\ lost' = lost \cup {w \in Write : write[w].at = n /\ write[w].pos[2] > s}
  /\ write' = [w \in Write |-> IF write[w].at = n /\ ~Recorded(w) THEN NewWrite ELSE write[w]]
  /\ election' = [election EXCEPT ![n] = NoElection]
  /\ view' = [view EXCEPT ![n] = SelfSeen(@)]
  /\ UNCHANGED <<cut, cuts, lead, voted, anns, takeover, operated, entry, pos, data>>

(* cluster.replica.promote on n: without a vote, and no peer is told. *)
PromoteCall(n, p) ==
  /\ cuts < MaxCuts /\ n \in Flaky
  /\ Accepts(n) /\ lead[n].epoch < MaxTerm
  /\ cuts' = cuts + 1
  /\ lead' = [lead EXCEPT ![n] = [epoch |-> @.epoch + 1, primary |-> p]]
  /\ view' = [view EXCEPT ![n] = IF p = n THEN SelfSeen(@) ELSE [@ EXCEPT ![p] = "newest"]]
  /\ operated' = operated \cup {lead[n].epoch + 1}
  /\ UNCHANGED <<cut, voted, election, anns, takeover, entry, dataVars>>

(* cluster.node.leave of the primary on n, by an operator or sent by the    *)
(* primary as it shuts down: another member leads, in the same epoch.       *)
LeaveCall(n, p) ==
  /\ cuts < MaxCuts /\ n \in Flaky /\ p # lead[n].primary
  /\ cuts' = cuts + 1
  /\ lead' = [lead EXCEPT ![n] = [epoch |-> @.epoch, primary |-> p]]
  /\ view' = [view EXCEPT ![n][lead[n].primary] = "old"]
  /\ operated' = operated \cup {lead[n].epoch}
  /\ UNCHANGED <<cut, voted, election, anns, takeover, entry, dataVars>>

-----------------------------------------------------------------------------
ElectionStep(n) ==
  \/ \E m \in Node : NoVote(n, m) \/ \E heard \in BOOLEAN : Vote(n, m, heard)
  \/ Win(n) \/ Lose(n)

Next ==
  \/ \E n \in Node : CutOff(n) \/ Heal(n) \/ StartElection(n) \/ ElectionStep(n) \/ CatchUp(n)
  \/ \E n \in Node : \/ \E peers \in SUBSET Peers(n) : Heartbeat(n, peers)
                     \/ \E m \in Node : Expire(n, m)
  \/ \E n \in Node, a \in anns : Adopt(n, a)
  \/ \E n \in Node : \E s \in saved[n]..opSeq[n] : Restart(n, s)
  \/ \E n, p \in Node : PromoteCall(n, p) \/ LeaveCall(n, p)
  \/ \E w \in Write : Record(w) \/ \E n \in Node : Admit(n, w) \/ FanOut(w, n)

Spec == Init /\ [][Next]_vars

(* The heartbeat loop of every node ticks: it beats, evaluates its view and *)
(* runs its election to the end.                                            *)
FairSpec ==
  /\ Spec
  /\ \A n \in Node : /\ WF_vars(Heartbeat(n, Peers(n))) /\ \A m \in Node : WF_vars(Expire(n, m))
                     /\ WF_vars(StartElection(n)) /\ WF_vars(ElectionStep(n))

-----------------------------------------------------------------------------
TypeOK ==
  /\ cut \subseteq Node
  /\ lead \in [Node -> [epoch : 0..MaxTerm, primary : Node]]
  /\ voted \in [Node -> [term : 0..MaxTerm, cand : Node \cup {NoNode}]]
  /\ \A n \in Node : /\ election[n].got \subseteq election[n].asked
                     /\ election[n].asked \subseteq Node
  /\ view \in [Node -> [Node -> Age]]
  /\ pos \in [Node -> Position]
  /\ opSeq \in [Node -> Nat] /\ saved \in [Node -> Nat] /\ lost \subseteq Write
  /\ data \in [Node -> SUBSET Write] /\ log \in [Node -> Seq(Write)]
  /\ \A w \in Write : write[w].to \subseteq Node /\ write[w].pos \in Position

(* Another write has the position of w, or may get it: a restart forgot it. *)
Reissued(w) == \E v \in lost : write[v].pos = write[w].pos

(* A failover keeps every write that was committed when its election began, *)
(* provided the primary it replaces did not vote: the votes come from nodes *)
(* whose applied position covers what they acknowledged.  (An old primary   *)
(* that still answers compares its applied position, which its own writes   *)
(* do not move.)  A position that a restart of the primary gave out twice   *)
(* is covered by either of its writes.                                      *)
TakeoverKeepsCommitted ==
  takeover # NoTakeover /\ FirstPrimary \notin takeover.got =>
    \A w \in takeover.owed : w \in data[takeover.by] \/ Reissued(w)

(* A log position names one write, with two exceptions that the code has.   *)
(* A write admitted under an older epoch than it was recorded in: its       *)
(* primary was deposed in between and stamped it with the epoch of its      *)
(* successor.  And a write whose number a restart of its primary forgot,    *)
(* because op_seq was not saved since.  Epochs in which a call named a      *)
(* primary may have two primaries, and so promise nothing.                  *)
PositionNamesOneWrite ==
  \A v, w \in Write \ lost :
    v # w /\ Recorded(v) /\ Recorded(w) /\ write[v].pos = write[w].pos
      => \/ write[v].epoch # write[v].pos[1] \/ write[w].epoch # write[w].pos[1]
         \/ write[v].pos[1] \in operated

(* "let the cluster fail over on its own": when the primary is gone for     *)
(* good and the others stay connected, one of them becomes primary.         *)
FailoverCompletes ==
  <>[](cut = {FirstPrimary}) => <>(\E n \in Node \ {FirstPrimary} : IsPrimary(n))

=============================================================================
