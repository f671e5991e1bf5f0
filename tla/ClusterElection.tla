--------------------------- MODULE ClusterElection ---------------------------
(***************************************************************************)
(* Leader election and leadership persistence of a SkeinDB cluster: the    *)
(* vote round of run_cluster_election / cluster_request_vote, the          *)
(* announcement of the winner (cluster.leader.announce), the calls that    *)
(* set a node's primary or member list without a vote (the operator's      *)
(* cluster.replica.promote, cluster.node.join, leave and remove, and the   *)
(* leave a node sends to its peers when it shuts down), and                *)
(* persist_cluster_state, which every one of them (and every heartbeat)    *)
(* runs AFTER releasing the cluster lock.                                  *)
(*                                                                         *)
(* Each node has one background thread (the heartbeat loop, Ticker) that   *)
(* runs elections one at a time, and a pool of RPC handler threads         *)
(* (Worker).  A save of the cluster state is two steps of a thread: Clone  *)
(* copies the state under the cluster lock, Save puts the copy into the    *)
(* settings and writes the settings file under the settings lock.          *)
(*                                                                         *)
(* Abstracted: the age of the heartbeats.  A heartbeat may be late or lost *)
(* at any time, so the set of members a node sees online is any set of its *)
(* list that contains the node, and the order of a list, which decides who *)
(* inherits from a primary that leaves, is any order.  The up-to-date rule *)
(* of the vote is a free Boolean: ClusterFailover models the log positions *)
(* it compares.                                                            *)
(***************************************************************************)
EXTENDS Integers, FiniteSets

CONSTANTS Node,          \* the nodes, all members (cluster.nodes) at first
          FirstPrimary,  \* the primary every member adopted when it joined
          NoNode,        \* voted_for before the first vote
          Worker,        \* RPC handler threads of a node
          Ticker,        \* the heartbeat-loop thread of a node
          MaxTerm,       \* bound: elections start no term above it
          MaxCrashes,    \* bound: crashes and shutdowns of all nodes together
          MaxFaults,     \* bound: saves that fail or have another reason than leadership
          MaxManual      \* bound: the operator's calls

ASSUME NodesAssumption == /\ IsFiniteSet(Node)
                          /\ FirstPrimary \in Node
                          /\ NoNode \notin Node

ASSUME ThreadsAssumption == Ticker \notin Worker

ASSUME BoundsAssumption == /\ MaxTerm \in Nat
                           /\ MaxCrashes \in Nat
                           /\ MaxFaults \in Nat
                           /\ MaxManual \in Nat

VARIABLES
  mem,       \* mem[n]: the ClusterStateModel of n (its leadership fields)
  disk,      \* disk[n]: the copy in n's settings file
  job,       \* job[n][th]: the save a thread of n is busy with
  election,  \* election[n]: the run of run_cluster_election on n
  reqs,      \* cluster.request_vote calls not yet handled
  anns,      \* cluster.leader.announce calls not yet handled
  calls,     \* admitted operator calls and leave calls not yet handled
  crashes, faults, manual,  \* how much of each bound is used
  votes,     \* history: the votes that were counted, <<voter, term, candidate>>
  won,       \* history: the elections won, <<term, node>>
  lost,      \* history: counted votes a restarted node did not find on its disk
  operated,  \* history: epochs at which a call of calls set some node's primary
  thin       \* history: terms won by less than a majority of all nodes

netVars == <<reqs, anns, calls>>
boundVars == <<crashes, faults, manual>>
callVars == <<operated, thin>>
histVars == <<votes, won, lost, callVars>>
vars == <<mem, disk, job, election, netVars, boundVars, histVars>>

-----------------------------------------------------------------------------
Thread == Worker \cup {Ticker}

(* The leadership fields and the member list of ClusterStateModel. *)
ClusterState == [epoch : Nat, primary : Node, nodes : SUBSET Node,
                 votedEpoch : Nat, votedFor : Node \cup {NoNode}]

(* What the thread does once the state is saved: answer a vote, count its   *)
(* own vote, announce a won election, or nothing (heartbeat, adoption, an   *)
(* operator's call).                                                        *)
Kind == {"vote", "self", "won", "other"}

(* A save before (read = FALSE) and after the copy of the state was taken.  *)
Save == [kind : Kind, cand : Node, term : Nat,
         read : BOOLEAN, img : ClusterState]

Idle == [kind |-> "idle"]

Pending(j) == j # Idle

(* The state of a node that has only joined. *)
Joined == [epoch |-> 0, primary |-> FirstPrimary, nodes |-> Node,
           votedEpoch |-> 0, votedFor |-> NoNode]

Job(k, c, t) == [kind |-> k, cand |-> c, term |-> t, read |-> FALSE, img |-> Joined]

(* An election: its term (0 when none runs), the member list it started     *)
(* with, the peers asked so far, the peer whose answer is awaited, and the  *)
(* nodes that granted the vote.                                             *)
Election == [term : Nat, of : SUBSET Node, asked : SUBSET Node,
             waiting : Node \cup {NoNode}, got : SUBSET Node]

NoElection == [term |-> 0, of |-> {}, asked |-> {}, waiting |-> NoNode, got |-> {}]

(* A call that names a node: cluster.replica.promote, cluster.node.join,    *)
(* cluster.node.leave or cluster.node.remove.                               *)
Operation == {"promote", "join", "leave", "remove"}
Call == [to : Node, op : Operation, node : Node]

(* S holds a majority of the members M (cluster_quorum_size). *)
Quorum(S, M) == Cardinality(S) >= Cardinality(M) \div 2 + 1

(* The members n may see online that make up a quorum (cluster_has_quorum). *)
QuorumViews(n) ==
  {S \in SUBSET mem[n].nodes : (n \in mem[n].nodes => n \in S) /\ Quorum(S, mem[n].nodes)}

(* The state after a vote, a change of the leadership, of the member list.  *)
Voted(s, term, cand) ==
  [epoch |-> s.epoch, primary |-> s.primary, nodes |-> s.nodes,
   votedEpoch |-> term, votedFor |-> cand]
Led(s, epoch, node) ==
  [epoch |-> epoch, primary |-> node, nodes |-> s.nodes,
   votedEpoch |-> s.votedEpoch, votedFor |-> s.votedFor]
Listed(s, M) ==
  [epoch |-> s.epoch, primary |-> s.primary, nodes |-> M,
   votedEpoch |-> s.votedEpoch, votedFor |-> s.votedFor]

Max2(a, b) == IF a > b THEN a ELSE b

Init ==
  /\ mem = [n \in Node |-> Joined]
  /\ disk = mem
  /\ job = [n \in Node |-> [th \in Thread |-> Idle]]
  /\ election = [n \in Node |-> NoElection]
  /\ reqs = {} /\ anns = {} /\ calls = {}
  /\ crashes = 0 /\ faults = 0 /\ manual = 0
  /\ votes = {} /\ won = {} /\ lost = {}
  /\ operated = {} /\ thin = {}

-----------------------------------------------------------------------------
(* persist_cluster_state                                                    *)

Start(n, th, j) == job' = [job EXCEPT ![n][th] = j]

Copied(j, s) == [kind |-> j.kind, cand |-> j.cand, term |-> j.term,
                 read |-> TRUE, img |-> s]

(* The state is copied under the cluster lock. *)
Clone(n, th) ==
  /\ Pending(job[n][th]) /\ ~job[n][th].read
  /\ Start(n, th, Copied(job[n][th], mem[n]))
  /\ UNCHANGED <<mem, disk, election, netVars, boundVars, histVars>>

(* The awaited answer arrived, with and without the vote of n. *)
Refused(e) ==
  [term |-> e.term, of |-> e.of, asked |-> e.asked, waiting |-> NoNode, got |-> e.got]
Granted(e, n) ==
  [term |-> e.term, of |-> e.of, asked |-> e.asked, waiting |-> NoNode,
   got |-> e.got \cup {n}]

(* A granted vote reaches the candidate if it still waits for this voter.   *)
CountVote(n, j) ==
  /\ votes' = votes \cup {<<n, j.term, j.cand>>}
  /\ election' =
       IF election[j.cand].term = j.term /\ election[j.cand].waiting = n
       THEN [election EXCEPT ![j.cand] = Granted(@, n)]
       ELSE election
  /\ UNCHANGED anns

(* The candidate's own vote: peers are asked from now on. *)
CountOwnVote(n, j) ==
  /\ votes' = votes \cup {<<n, j.term, n>>}
  /\ UNCHANGED <<election, anns>>

(* announce_leadership_to_peers: one best-effort call per listed peer. *)
Announce(n, j) ==
  /\ anns' = anns \cup {[to |-> p, from |-> n, epoch |-> j.term] : p \in mem[n].nodes \ {n}}
  /\ election' = [election EXCEPT ![n] = NoElection]
  /\ UNCHANGED votes

Continue(n, j) ==
  \/ j.kind = "vote"  /\ CountVote(n, j)
  \/ j.kind = "self"  /\ CountOwnVote(n, j)
  \/ j.kind = "won"   /\ Announce(n, j)
  \/ j.kind = "other" /\ UNCHANGED <<votes, election, anns>>

(* The copy is put into the settings and the file is written. *)
Persist(n, th) ==
  /\ Pending(job[n][th]) /\ job[n][th].read
  /\ disk' = [disk EXCEPT ![n] = job[n][th].img]
  /\ Start(n, th, Idle)
  /\ Continue(n, job[n][th])
  /\ UNCHANGED <<mem, reqs, calls, boundVars, won, lost, callVars>>

(* The write fails.  An RPC handler answers with an error, so its vote is   *)
(* not counted; the election drops the error (let _ = persist..) and goes on. *)
PersistFails(n, th) ==
  /\ Pending(job[n][th]) /\ job[n][th].read
  /\ faults < MaxFaults
  /\ faults' = faults + 1
  /\ Start(n, th, Idle)
  /\ IF th = Ticker THEN Continue(n, job[n][th])
                    ELSE UNCHANGED <<votes, election, anns>>
  /\ UNCHANGED <<mem, disk, reqs, calls, crashes, manual, won, lost, callVars>>

(* Heartbeats, replication fan-out and applied operations all save the      *)
(* whole cluster state without changing the leadership fields.              *)
SaveForOtherReason(n, w) ==
  /\ faults < MaxFaults
  /\ faults' = faults + 1
  /\ job[n][w] = Idle
  /\ Start(n, w, Copied(Job("other", n, 0), mem[n]))
  /\ UNCHANGED <<mem, disk, election, netVars, crashes, manual, histVars>>

-----------------------------------------------------------------------------
(* run_cluster_election                                                     *)

(* The primary looks offline, a quorum looks online: vote for ourselves.    *)
(* The members to ask and the size of their quorum are fixed here.          *)
StartElection(n) ==
  LET term == Max2(mem[n].epoch, mem[n].votedEpoch) + 1 IN
  /\ election[n] = NoElection /\ job[n][Ticker] = Idle
  /\ mem[n].primary # n /\ {n, mem[n].primary} \subseteq mem[n].nodes
  /\ \E S \in QuorumViews(n) : mem[n].primary \notin S
  /\ term <= MaxTerm
  /\ mem' = [mem EXCEPT ![n] = Voted(@, term, n)]
  /\ election' = [election EXCEPT ![n] = [term |-> term, of |-> mem[n].nodes, asked |-> {n},
                                          waiting |-> NoNode, got |-> {n}]]
  /\ Start(n, Ticker, Job("self", n, term))
  /\ UNCHANGED <<disk, netVars, boundVars, histVars>>

Asking(n) == election[n] # NoElection /\ job[n][Ticker] = Idle

Awaiting(e, p) ==
  [term |-> e.term, of |-> e.of, asked |-> e.asked \cup {p}, waiting |-> p, got |-> e.got]

(* Peers are asked one after the other. *)
Ask(n, p) ==
  /\ Asking(n) /\ election[n].waiting = NoNode
  /\ p \in election[n].of \ election[n].asked
  /\ reqs' = reqs \cup {[to |-> p, cand |-> n, term |-> election[n].term]}
  /\ election' = [election EXCEPT ![n] = Awaiting(@, p)]
  /\ UNCHANGED <<mem, disk, job, anns, calls, boundVars, histVars>>

(* Mutant: a client without a timeout waits for the answer forever. *)
AskWithoutTimeout(n) == Asking(n) /\ FALSE /\ UNCHANGED vars

(* No answer within the client's timeout: the request or its answer is lost *)
(* or late, and the candidate goes on without it.                           *)
AskTimeout(n) ==
  /\ Asking(n) /\ election[n].waiting # NoNode
  /\ election' = [election EXCEPT ![n] = Refused(@)]
  /\ UNCHANGED <<mem, disk, job, netVars, boundVars, histVars>>

AllAsked(n) ==
  Asking(n) /\ election[n].waiting = NoNode /\ election[n].of \subseteq election[n].asked

(* A majority granted the vote, no newer leadership emerged, quorum holds.  *)
Promote(n) ==
  LET term == election[n].term IN
  /\ AllAsked(n)
  /\ Quorum(election[n].got, election[n].of)
  /\ mem[n].epoch < term
  /\ QuorumViews(n) # {}
  /\ mem' = [mem EXCEPT ![n] = Led(@, term, n)]
  /\ won' = won \cup {<<term, n>>}
  /\ thin' = IF Quorum(election[n].got, Node) THEN thin ELSE thin \cup {term}
  /\ Start(n, Ticker, Job("won", n, term))
  /\ UNCHANGED <<disk, election, netVars, boundVars, votes, lost, operated>>

(* Too few votes, or the re-check under the lock fails (the quorum may be   *)
(* gone in any case): the election ends, a later tick retries.              *)
GiveUp(n) ==
  /\ AllAsked(n)
  /\ election' = [election EXCEPT ![n] = NoElection]
  /\ UNCHANGED <<mem, disk, job, netVars, boundVars, histVars>>

-----------------------------------------------------------------------------
(* The handlers of the other nodes                                          *)

(* Mutant: the term the node already voted in is not checked. *)
MayVoteAgain(n, r) ==
  /\ r.cand \in mem[n].nodes
  /\ \/ r.term > mem[n].epoch
     \/ r.term = mem[n].votedEpoch /\ r.cand = mem[n].votedFor

(* Only a member is voted for: at most one candidate per term, and no term  *)
(* that is not newer than the leadership this node recognises; a repeated   *)
(* request is granted again.                                                *)
MayVote(n, r) ==
  /\ r.cand \in mem[n].nodes
  /\ \/ r.term > mem[n].votedEpoch /\ r.term > mem[n].epoch
     \/ r.term = mem[n].votedEpoch /\ r.cand = mem[n].votedFor

(* cluster_request_vote: the vote is recorded in memory, saved, answered.   *)
GrantVote(n, w, r) ==
  /\ r \in reqs /\ r.to = n /\ job[n][w] = Idle
  /\ MayVote(n, r)
  /\ mem' = [mem EXCEPT ![n] = Voted(@, r.term, r.cand)]
  /\ Start(n, w, Job("vote", r.cand, r.term))
  /\ reqs' = reqs \ {r}
  /\ UNCHANGED <<disk, election, anns, calls, boundVars, histVars>>

(* Refused: the vote is spent, the candidate is less up to date or unknown. *)
RefuseVote(n, r) ==
  /\ r \in reqs /\ r.to = n
  /\ reqs' = reqs \ {r}
  /\ election' = IF election[r.cand].term = r.term /\ election[r.cand].waiting = n
                 THEN [election EXCEPT ![r.cand] = Refused(@)]
                 ELSE election
  /\ UNCHANGED <<mem, disk, job, anns, calls, boundVars, histVars>>

(* Mutant: an announcement of an older epoch is adopted too. *)
AdoptAnyEpoch(n, w, a) ==
  /\ a \in anns /\ a.to = n /\ job[n][w] = Idle
  /\ mem' = [mem EXCEPT ![n] = Led(@, a.epoch, a.from)]
  /\ Start(n, w, Job("other", n, 0))
  /\ anns' = anns \ {a}
  /\ UNCHANGED <<disk, election, reqs, calls, boundVars, histVars>>

(* Mutant: the announced node is taken for the node that handles the call. *)
AdoptAsSender(n, w, a) ==
  /\ a \in anns /\ a.to = n /\ job[n][w] = Idle
  /\ a.from \in mem[n].nodes /\ a.epoch > mem[n].epoch
  /\ mem' = [mem EXCEPT ![n] = Led(@, a.epoch, n)]
  /\ Start(n, w, Job("other", n, 0))
  /\ anns' = anns \ {a}
  /\ UNCHANGED <<disk, election, reqs, calls, boundVars, histVars>>

(* cluster_leader_announce: adopt a member's strictly newer epoch, save it. *)
Adopt(n, w, a) ==
  /\ a \in anns /\ a.to = n /\ job[n][w] = Idle
  /\ a.from \in mem[n].nodes /\ a.epoch > mem[n].epoch
  /\ mem' = [mem EXCEPT ![n] = Led(@, a.epoch, a.from)]
  /\ Start(n, w, Job("other", n, 0))
  /\ anns' = anns \ {a}
  /\ UNCHANGED <<disk, election, reqs, calls, boundVars, histVars>>

(* A stale or repeated announcement, or an unknown node's, changes nothing. *)
IgnoreAnnounce(n, a) ==
  /\ a \in anns /\ a.to = n /\ (a.epoch <= mem[n].epoch \/ a.from \notin mem[n].nodes)
  /\ anns' = anns \ {a}
  /\ UNCHANGED <<mem, disk, job, election, reqs, calls, boundVars, histVars>>

-----------------------------------------------------------------------------
(* The calls that name a node                                               *)

(* An operator's call on n.  The write guard admits it only on a node that  *)
(* thinks it is primary and sees a quorum; it reads a copy of the state, so *)
(* the leadership may change before the handler runs.                       *)
AdmitCall(n, op, m) ==
  /\ manual < MaxManual
  /\ mem[n].primary = n /\ QuorumViews(n) # {}
  /\ manual' = manual + 1
  /\ calls' = calls \cup {[to |-> n, op |-> op, node |-> m]}
  /\ UNCHANGED <<mem, disk, job, election, reqs, anns, crashes, faults, histVars>>

(* The handler of the call c gives n the state s and saves it: no vote is   *)
(* asked and no peer is told.                                               *)
Handle(n, w, c, s) ==
  /\ job[n][w] = Idle
  /\ mem' = [mem EXCEPT ![n] = s]
  /\ Start(n, w, Job("other", n, 0))
  /\ calls' = calls \ {c}
  /\ UNCHANGED <<disk, election, reqs, anns, boundVars, votes, won, lost, thin>>

(* cluster.replica.promote: a member leads at the next epoch. *)
ManualPromote(n, w, c) ==
  /\ c \in calls /\ c.to = n /\ c.op = "promote"
  /\ c.node \in mem[n].nodes
  /\ Handle(n, w, c, Led(mem[n], mem[n].epoch + 1, c.node))
  /\ operated' = operated \cup {mem[n].epoch + 1}

(* cluster.node.join: the node is in the list from now on. *)
JoinNode(n, w, c) ==
  /\ c \in calls /\ c.to = n /\ c.op = "join"
  /\ Handle(n, w, c, Listed(mem[n], mem[n].nodes \cup {c.node}))
  /\ UNCHANGED operated

(* Mutant: without another online member the primary becomes the empty      *)
(* string (unwrap_or_default).                                              *)
LeaveNodeToNobody(n, w, c) ==
  /\ c \in calls /\ c.to = n /\ c.op = "leave" /\ c.node \in mem[n].nodes
  /\ \E p \in IF mem[n].primary = c.node THEN (mem[n].nodes \ {c.node}) \cup {NoNode} ELSE {mem[n].primary} :
       /\ Handle(n, w, c, Led(mem[n], mem[n].epoch, p))
       /\ operated' = IF p = mem[n].primary THEN operated ELSE operated \cup {mem[n].epoch}

(* cluster.node.leave, admitted by the guard or sent by a node that shuts   *)
(* down: the node stays a member.  If it was the primary, the first other   *)
(* member with the status online is, if any, and the epoch stays.           *)
LeaveNode(n, w, c) ==
  /\ c \in calls /\ c.to = n /\ c.op = "leave" /\ c.node \in mem[n].nodes
  /\ \E p \in IF mem[n].primary = c.node THEN mem[n].nodes ELSE {mem[n].primary} :
       /\ Handle(n, w, c, Led(mem[n], mem[n].epoch, p))
       /\ operated' = IF p = mem[n].primary THEN operated ELSE operated \cup {mem[n].epoch}

(* cluster.node.remove: a primary that is removed hands over to the first   *)
(* member left, or to n, which is then the only member; the epoch stays.    *)
RemoveNode(n, w, c) ==
  LET left == mem[n].nodes \ {c.node} IN
  /\ c \in calls /\ c.to = n /\ c.op = "remove" /\ c.node \in mem[n].nodes
  /\ IF mem[n].primary = c.node
     THEN LET heirs == IF left = {} THEN {n} ELSE left
          IN  /\ \E p \in heirs : Handle(n, w, c,
                                   Led(Listed(mem[n], left \cup {p}), mem[n].epoch, p))
              /\ operated' = operated \cup {mem[n].epoch}
     ELSE Handle(n, w, c, Listed(mem[n], left)) /\ UNCHANGED operated

(* The call is lost or refused: unknown node, no quorum, no force.          *)
CallFails(n, c) ==
  /\ c \in calls /\ c.to = n
  /\ calls' = calls \ {c}
  /\ UNCHANGED <<mem, disk, job, election, reqs, anns, boundVars, histVars>>

-----------------------------------------------------------------------------
(* A counted vote that the state s still remembers. *)
Remembers(s, v) ==
  \/ v[2] < s.votedEpoch
  \/ v[2] = s.votedEpoch /\ v[3] = s.votedFor

(* The process of n ends and starts again with the settings file s, which   *)
(* load_cluster_state reads, puts n into the list and saves.                *)
Restart(n, s) ==
  /\ crashes < MaxCrashes
  /\ crashes' = crashes + 1
  /\ mem' = [mem EXCEPT ![n] = Listed(s, s.nodes \cup {n})]
  /\ disk' = [disk EXCEPT ![n] = Listed(s, s.nodes \cup {n})]
  /\ job' = [job EXCEPT ![n] = [th \in Thread |-> Idle]]
  /\ election' = [election EXCEPT ![n] = NoElection]
  /\ lost' = lost \cup {v \in votes : v[1] = n /\ ~Remembers(s, v)}
  /\ UNCHANGED <<reqs, anns, faults, manual, votes, won, callVars>>

(* A crash drops the threads and the calls they handle. *)
CrashRestart(n) ==
  /\ Restart(n, disk[n])
  /\ calls' = {c \in calls : c.to # n \/ c.op = "leave"}

(* A shutdown lets the handlers finish, saves the state (the heartbeat loop *)
(* may store an older copy after it) and sends cluster.node.leave to the    *)
(* peers n sees online, with the header that passes their write guard.      *)
Shutdown(n) ==
  /\ \A w \in Worker : job[n][w] = Idle
  /\ \/ Restart(n, mem[n])
     \/ Pending(job[n][Ticker]) /\ job[n][Ticker].read /\ Restart(n, job[n][Ticker].img)
  /\ \E P \in SUBSET (mem[n].nodes \ {n}) :
       calls' = calls \cup {[to |-> p, op |-> "leave", node |-> n] : p \in P}

-----------------------------------------------------------------------------
(* What the heartbeat loop of n can do. *)
TickerStep(n) ==
  \/ Clone(n, Ticker) \/ Persist(n, Ticker)
  \/ \E p \in Node : Ask(n, p)
  \/ AskTimeout(n) \/ Promote(n) \/ GiveUp(n)

Next ==
  \E n \in Node :
    \/ StartElection(n) \/ AskTimeout(n) \/ Promote(n) \/ GiveUp(n)
    \/ CrashRestart(n) \/ Shutdown(n)
    \/ \E p \in Node : Ask(n, p)
    \/ \E th \in Thread : Clone(n, th) \/ Persist(n, th) \/ PersistFails(n, th)
    \/ \E w \in Worker : \/ SaveForOtherReason(n, w)
                         \/ \E r \in reqs : GrantVote(n, w, r)
                         \/ \E a \in anns : Adopt(n, w, a)
                         \/ \E c \in calls : \/ ManualPromote(n, w, c) \/ JoinNode(n, w, c)
                                             \/ LeaveNode(n, w, c) \/ RemoveNode(n, w, c)
    \/ \E op \in Operation, m \in Node : AdmitCall(n, op, m)
    \/ \E c \in calls : CallFails(n, c)
    \/ \E r \in reqs : RefuseVote(n, r)
    \/ \E a \in anns : IgnoreAnnounce(n, a)

Spec == Init /\ [][Next]_vars

-----------------------------------------------------------------------------
TypeOK ==
  /\ mem \in [Node -> ClusterState]
  /\ disk \in [Node -> ClusterState]
  /\ job \in [Node -> [Thread -> Save \cup {Idle}]]
  /\ election \in [Node -> Election]
  /\ reqs \subseteq [to : Node, cand : Node, term : Nat]
  /\ anns \subseteq [to : Node, from : Node, epoch : Nat]
  /\ calls \subseteq Call
  /\ crashes \in Nat /\ faults \in Nat /\ manual \in Nat
  /\ votes \subseteq Node \X Nat \X Node
  /\ won \subseteq Nat \X Node
  /\ lost \subseteq votes
  /\ operated \subseteq Nat /\ thin \subseteq Nat

(* No node has two counted votes for different candidates of one term       *)
(* (cluster_request_vote, "we vote at most once per term").                 *)
OneVotePerTerm ==
  \A u, v \in votes : u[1] = v[1] /\ u[2] = v[2] => u[3] = v[3]

(* As long as no restart lost a counted vote, at most one candidate wins a  *)
(* term: the election's majority argument, with every interleaving of the   *)
(* handlers, the late answers and the two-step saves.  A term won by the    *)
(* majority of a list that removals made shorter is excepted: such          *)
(* majorities need not meet.                                                *)
ElectionSafety ==
  lost = {} => \A u, v \in won : u[1] = v[1] /\ u[1] \notin thin => u[2] = v[2]

(* Nodes that recognise the same leadership epoch recognise the same        *)
(* primary: the epoch is a fencing token.  Only an epoch at which a         *)
(* promotion by an operator, a leave or a removal set a node's primary can  *)
(* name two, or one won by a shortened list: those calls ask nobody, and    *)
(* leave and remove do not even raise the epoch.                            *)
EpochNamesOnePrimary ==
  lost = {} =>
    \A m, n \in Node : /\ mem[m].epoch = mem[n].epoch
                       /\ mem[m].epoch \notin operated \cup thin
                       => mem[m].primary = mem[n].primary

(* The primary of n is taken from it by a leave or a removal that names it. *)
Resigned(n) ==
  \E c \in calls : /\ c \notin calls' /\ c.to = n /\ c.node = mem[n].primary
                   /\ c.op \in {"leave", "remove"}

(* A running node changes its primary only together with a larger epoch or  *)
(* because the primary left or was removed, and neither its epoch nor the   *)
(* term it voted in ever goes back, so a stale announcement or a late vote  *)
(* request cannot undo a newer leadership.                                  *)
LeadershipAdvances ==
  [][\A n \in Node : crashes' = crashes =>
       /\ mem[n].epoch <= mem'[n].epoch
       /\ mem[n].votedEpoch <= mem'[n].votedEpoch
       /\ mem[n].primary # mem'[n].primary => mem[n].epoch < mem'[n].epoch \/ Resigned(n)]_vars

=============================================================================
