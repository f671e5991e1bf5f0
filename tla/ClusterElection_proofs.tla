----------------------- MODULE ClusterElection_proofs -----------------------
(***************************************************************************)
(* Proofs about ClusterElection, for every set of members, of handler      *)
(* threads and every bound.                                                *)
(***************************************************************************)
EXTENDS ClusterElection, FiniteSetTheorems, TLAPS

-----------------------------------------------------------------------------
(* Type correctness *)

(* The state of a node that has just joined is well typed. *)
LEMMA JoinedType == Joined \in ClusterState
BY NodesAssumption DEF Joined, ClusterState

(* A new save of a thread is well typed. *)
LEMMA JobType ==
  ASSUME NEW k \in Kind, NEW c \in Node, NEW t \in Nat
  PROVE  Job(k, c, t) \in Save
BY JoinedType DEF Job, Save

(* A thread with a save is not idle.                                        *)
LEMMA SaveNotIdle == Idle \notin Save
BY DEF Idle, Save, Kind

(* The thread's step after the save keeps votes, elections and              *)
(* announcements well typed.                                                *)
LEMMA ContinueType ==
  ASSUME TypeOK, NEW n \in Node, NEW j \in Save, Pending(j), Continue(n, j)
  PROVE  /\ votes' \subseteq Node \X Nat \X Node
         /\ votes \subseteq votes'
         /\ election' \in [Node -> Election]
         /\ anns' \subseteq [to : Node, from : Node, epoch : Nat]
<1>1. j.kind \in {"vote", "self", "won", "other"} /\ j.cand \in Node /\ j.term \in Nat
  BY DEF Save, Kind, Pending
<1>2. CASE j.kind = "vote"
  <2>1. CountVote(n, j) BY <1>2 DEF Continue
  <2>2. Granted(election[j.cand], n) \in Election
    BY <1>1 DEF TypeOK, Election, Granted
  <2> QED BY <1>1, <2>1, <2>2 DEF CountVote, TypeOK
<1>3. CASE j.kind = "self"
  BY <1>1, <1>3 DEF Continue, CountOwnVote, TypeOK
<1>4. CASE j.kind = "won"
  <2>1. NoElection \in Election BY DEF NoElection, Election
  <2>2. mem[n].nodes \subseteq Node BY DEF TypeOK, ClusterState
  <2> QED BY <1>1, <1>4, <2>1, <2>2 DEF Continue, Announce, TypeOK
<1>5. CASE j.kind = "other"
  BY <1>5 DEF Continue, TypeOK
<1> QED BY <1>1, <1>2, <1>3, <1>4, <1>5

(* A call's handler changes no vote, takes the next epoch or keeps it, and  *)
(* names a new primary only under an epoch that operated then contains.     *)
LEMMA CallEffect ==
  ASSUME TypeOK, NEW n \in Node, NEW w \in Worker, NEW c \in calls,
         \/ ManualPromote(n, w, c) \/ JoinNode(n, w, c)
         \/ LeaveNode(n, w, c) \/ RemoveNode(n, w, c)
  PROVE  \E s \in ClusterState :
           /\ Handle(n, w, c, s)
           /\ s.votedEpoch = mem[n].votedEpoch /\ s.votedFor = mem[n].votedFor
           /\ mem[n].epoch <= s.epoch
           /\ s.primary = mem[n].primary \/ s.epoch > mem[n].epoch \/ Resigned(n)
           /\ (s.epoch = mem[n].epoch /\ s.primary = mem[n].primary) \/ s.epoch \in operated'
           /\ operated \subseteq operated' /\ operated' \subseteq Nat
<1>0. /\ mem[n] \in ClusterState /\ mem[n].epoch \in Nat /\ mem[n].primary \in Node
      /\ mem[n].nodes \in SUBSET Node /\ operated \subseteq Nat /\ c.node \in Node
  BY DEF TypeOK, ClusterState, Call
<1>1. ASSUME NEW s, Handle(n, w, c, s) PROVE calls' = calls \ {c}
  BY <1>1 DEF Handle
<1>2. \A p \in Node : Led(mem[n], mem[n].epoch, p) \in ClusterState
  BY <1>0 DEF Led, ClusterState
<1>3. CASE ManualPromote(n, w, c)
  <2> DEFINE s == Led(mem[n], mem[n].epoch + 1, c.node)
  <2>1. s \in ClusterState BY <1>0 DEF Led, ClusterState
  <2>2. Handle(n, w, c, s) /\ operated' = operated \cup {mem[n].epoch + 1}
    BY <1>3 DEF ManualPromote
  <2>3. /\ s.votedEpoch = mem[n].votedEpoch /\ s.votedFor = mem[n].votedFor
        /\ s.epoch = mem[n].epoch + 1
    BY DEF Led
  <2> HIDE DEF s
  <2>4. mem[n].epoch <= s.epoch /\ s.epoch > mem[n].epoch BY <1>0, <2>3
  <2>5. s.epoch \in operated' /\ operated \subseteq operated' /\ operated' \subseteq Nat
    <3>1. s.epoch \in Nat BY <1>0, <2>3
    <3>2. operated' = operated \cup {s.epoch} BY <2>2, <2>3
    <3> QED BY <1>0, <3>1, <3>2
  <2> WITNESS s \in ClusterState
  <2> QED BY <2>2, <2>3, <2>4, <2>5
<1>4. CASE JoinNode(n, w, c)
  <2> DEFINE s == Listed(mem[n], mem[n].nodes \cup {c.node})
  <2>1. s \in ClusterState BY <1>0 DEF Listed, ClusterState
  <2>2. Handle(n, w, c, s) /\ operated' = operated BY <1>4 DEF JoinNode
  <2>3. /\ s.votedEpoch = mem[n].votedEpoch /\ s.votedFor = mem[n].votedFor
        /\ s.epoch = mem[n].epoch /\ s.primary = mem[n].primary
    BY DEF Listed
  <2> HIDE DEF s
  <2> QED BY <1>0, <2>1, <2>2, <2>3
<1>5. CASE LeaveNode(n, w, c)
  <2>1. PICK p \in IF mem[n].primary = c.node THEN mem[n].nodes ELSE {mem[n].primary} :
          /\ Handle(n, w, c, Led(mem[n], mem[n].epoch, p))
          /\ operated' = IF p = mem[n].primary THEN operated ELSE operated \cup {mem[n].epoch}
    BY <1>5 DEF LeaveNode
  <2> DEFINE s == Led(mem[n], mem[n].epoch, p)
  <2>2. s \in ClusterState BY <1>0, <1>2, <2>1
  <2>3. /\ s.votedEpoch = mem[n].votedEpoch /\ s.votedFor = mem[n].votedFor
        /\ s.epoch = mem[n].epoch /\ s.primary = p
    BY DEF Led
  <2>4. Handle(n, w, c, s) BY <2>1
  <2>5. p = mem[n].primary \/ Resigned(n)
    BY <1>1, <1>5, <2>1, <2>4 DEF LeaveNode, Resigned
  <2> HIDE DEF s
  <2>6. mem[n].epoch <= s.epoch BY <1>0, <2>3
  <2>7. /\ p = mem[n].primary \/ mem[n].epoch \in operated'
        /\ operated \subseteq operated' /\ operated' \subseteq Nat
    BY <1>0, <2>1
  <2> WITNESS s \in ClusterState
  <2> QED BY <2>3, <2>4, <2>5, <2>6, <2>7
<1>6. CASE RemoveNode(n, w, c)
  <2> DEFINE left == mem[n].nodes \ {c.node}
  <2>1. CASE mem[n].primary = c.node
    <3>1. PICK p \in IF left = {} THEN {n} ELSE left :
            Handle(n, w, c, Led(Listed(mem[n], left \cup {p}), mem[n].epoch, p))
      BY <1>6, <2>1 DEF RemoveNode
    <3>2. operated' = operated \cup {mem[n].epoch} BY <1>6, <2>1 DEF RemoveNode
    <3> DEFINE s == Led(Listed(mem[n], left \cup {p}), mem[n].epoch, p)
    <3>3. p \in Node BY <1>0, <3>1
    <3>4. s \in ClusterState BY <1>0, <3>3 DEF Led, Listed, ClusterState
    <3>5. /\ s.votedEpoch = mem[n].votedEpoch /\ s.votedFor = mem[n].votedFor
          /\ s.epoch = mem[n].epoch
      BY DEF Led, Listed
    <3>6. Handle(n, w, c, s) BY <3>1
    <3>7. Resigned(n)
      BY <1>1, <1>6, <2>1, <3>6 DEF RemoveNode, Resigned
    <3> HIDE DEF s
    <3>8. mem[n].epoch <= s.epoch BY <1>0, <3>5
    <3>9. s.epoch \in operated' /\ operated \subseteq operated' /\ operated' \subseteq Nat
      BY <1>0, <3>2, <3>5
    <3> WITNESS s \in ClusterState
    <3> QED BY <3>5, <3>6, <3>7, <3>8, <3>9
  <2>2. CASE mem[n].primary # c.node
    <3> DEFINE s == Listed(mem[n], left)
    <3>1. s \in ClusterState BY <1>0 DEF Listed, ClusterState
    <3>2. Handle(n, w, c, s) /\ operated' = operated BY <1>6, <2>2 DEF RemoveNode
    <3>3. /\ s.votedEpoch = mem[n].votedEpoch /\ s.votedFor = mem[n].votedFor
          /\ s.epoch = mem[n].epoch /\ s.primary = mem[n].primary
      BY DEF Listed
    <3> HIDE DEF s
    <3> QED BY <1>0, <3>1, <3>2, <3>3
  <2> QED BY <2>1, <2>2
<1> QED BY <1>3, <1>4, <1>5, <1>6

(* A crash and a shutdown restart the node with the file, with the state    *)
(* the shutdown saved, or with the copy its heartbeat loop stored after it. *)
LEMMA RestartEffect ==
  ASSUME TypeOK, NEW n \in Node, CrashRestart(n) \/ Shutdown(n)
  PROVE  \E s \in ClusterState :
           /\ Restart(n, s)
           /\ \/ s = disk[n] \/ s = mem[n]
              \/ job[n][Ticker] # Idle /\ s = job[n][Ticker].img
           /\ calls' \subseteq Call
<1>0. Ticker \in Thread BY DEF Thread
<1>1. CASE CrashRestart(n)
  BY <1>1 DEF CrashRestart, TypeOK
<1>2. CASE Shutdown(n)
  <2>1. calls' \subseteq Call
    <3>1. PICK P \in SUBSET (mem[n].nodes \ {n}) :
            calls' = calls \cup {[to |-> p, op |-> "leave", node |-> n] : p \in P}
      BY <1>2 DEF Shutdown
    <3>2. P \subseteq Node BY <3>1 DEF TypeOK, ClusterState
    <3> QED BY <3>1, <3>2 DEF TypeOK, Call, Operation
  <2>2. CASE Restart(n, mem[n])
    BY <2>1, <2>2 DEF TypeOK
  <2>3. CASE Pending(job[n][Ticker]) /\ job[n][Ticker].read /\ Restart(n, job[n][Ticker].img)
    <3>1. job[n][Ticker] # Idle BY <2>3 DEF Pending
    <3>2. job[n][Ticker].img \in ClusterState
      BY <1>0, <3>1 DEF TypeOK, Save
    <3> QED BY <2>1, <2>3, <3>1, <3>2
  <2> QED BY <1>2, <2>2, <2>3 DEF Shutdown
<1> QED BY <1>1, <1>2

(* The types hold initially.                                                *)
LEMMA TypeInit == Init => TypeOK
<1>1. NoElection \in Election BY DEF NoElection, Election
<1> QED BY <1>1, JoinedType DEF Init, TypeOK

(* Every step keeps the types, one step per action.                         *)
LEMMA TypeStep == TypeOK /\ [Next]_vars => TypeOK'
<1> SUFFICES ASSUME TypeOK, [Next]_vars PROVE TypeOK'
  OBVIOUS
<1> USE NodesAssumption, BoundsAssumption
<1>0. Ticker \in Thread /\ \A w \in Worker : w \in Thread
  BY DEF Thread
<1>00. NoElection \in Election BY DEF NoElection, Election
<1>1. ASSUME NEW n \in Node, StartElection(n) PROVE TypeOK'
  <2>1. Max2(mem[n].epoch, mem[n].votedEpoch) + 1 \in Nat
    BY DEF TypeOK, ClusterState, Max2
  <2>2. Job("self", n, Max2(mem[n].epoch, mem[n].votedEpoch) + 1) \in Save
    BY <2>1, JobType DEF Kind
  <2>3. mem' \in [Node -> ClusterState]
    BY <1>1, <2>1 DEF StartElection, TypeOK, ClusterState, Voted
  <2>4. job' \in [Node -> [Thread -> Save \cup {Idle}]]
    BY <1>1, <2>2, <1>0 DEF StartElection, Start, TypeOK
  <2>5. election' \in [Node -> Election]
    BY <1>1, <2>1 DEF StartElection, TypeOK, Election, ClusterState
  <2> QED BY <1>1, <2>3, <2>4, <2>5 DEF StartElection, TypeOK, netVars, boundVars, histVars, callVars
<1>2. ASSUME NEW n \in Node, AskTimeout(n) PROVE TypeOK'
  <2>1. election' \in [Node -> Election]
    BY <1>2 DEF AskTimeout, TypeOK, Election, Refused
  <2> QED BY <1>2, <2>1 DEF AskTimeout, TypeOK, netVars, boundVars, histVars, callVars
<1>3. ASSUME NEW n \in Node, Promote(n) PROVE TypeOK'
  <2>1. election[n].term \in Nat BY DEF TypeOK, Election
  <2>2. Job("won", n, election[n].term) \in Save
    BY <2>1, JobType DEF Kind
  <2>3. mem' \in [Node -> ClusterState]
    BY <1>3, <2>1 DEF Promote, TypeOK, ClusterState, Led
  <2>4. job' \in [Node -> [Thread -> Save \cup {Idle}]]
    BY <1>3, <2>2, <1>0 DEF Promote, Start, TypeOK
  <2>5. thin' \subseteq Nat /\ operated' \subseteq Nat
    BY <1>3, <2>1 DEF Promote, TypeOK
  <2>6. won' \subseteq Nat \X Node /\ lost' \subseteq votes' /\ votes' = votes
    BY <1>3, <2>1 DEF Promote, TypeOK
  <2> QED BY <1>3, <2>3, <2>4, <2>5, <2>6 DEF Promote, TypeOK, netVars, boundVars
<1>4. ASSUME NEW n \in Node, GiveUp(n) PROVE TypeOK'
  BY <1>4, <1>00 DEF GiveUp, TypeOK, netVars, boundVars, histVars, callVars
<1>5. ASSUME NEW n \in Node, CrashRestart(n) \/ Shutdown(n) PROVE TypeOK'
  <2>1. PICK s \in ClusterState : Restart(n, s) /\ calls' \subseteq Call
    BY <1>5, RestartEffect
  <2>2. Listed(s, s.nodes \cup {n}) \in ClusterState
    BY DEF Listed, ClusterState
  <2>3. mem' \in [Node -> ClusterState] /\ disk' \in [Node -> ClusterState]
    BY <2>1, <2>2 DEF Restart, TypeOK
  <2>4. job' \in [Node -> [Thread -> Save \cup {Idle}]]
    BY <2>1 DEF Restart, TypeOK
  <2> QED BY <2>1, <1>00, <2>3, <2>4 DEF Restart, TypeOK, callVars
<1>6. ASSUME NEW n \in Node, NEW p \in Node, Ask(n, p) PROVE TypeOK'
  <2>1. election' \in [Node -> Election]
    BY <1>6 DEF Ask, TypeOK, Election, Awaiting
  <2>2. election[n].term \in Nat BY DEF TypeOK, Election
  <2> QED BY <1>6, <2>1, <2>2 DEF Ask, TypeOK, netVars, boundVars, histVars, callVars
<1>7. ASSUME NEW n \in Node, NEW th \in Thread, Clone(n, th) PROVE TypeOK'
  <2>1. job[n][th] \in Save
    BY <1>7 DEF Clone, Pending, TypeOK
  <2>2. Copied(job[n][th], mem[n]) \in Save
    BY <2>1 DEF Save, TypeOK, Copied
  <2>4. job' \in [Node -> [Thread -> Save \cup {Idle}]]
    BY <1>7, <2>2 DEF TypeOK, Clone, Start
  <2> QED BY <1>7, <2>4 DEF Clone, TypeOK, netVars, boundVars, histVars, callVars
<1>8. ASSUME NEW n \in Node, NEW th \in Thread, Persist(n, th) PROVE TypeOK'
  <2>1. job[n][th] \in Save /\ Pending(job[n][th])
    BY <1>8 DEF Persist, Pending, TypeOK
  <2>2. Continue(n, job[n][th]) BY <1>8 DEF Persist
  <2>3. disk' \in [Node -> ClusterState]
    BY <1>8, <2>1 DEF Persist, TypeOK, Save
  <2>4. job' \in [Node -> [Thread -> Save \cup {Idle}]]
    BY <1>8 DEF Persist, Start, TypeOK
  <2> QED BY <1>8, <2>1, <2>2, <2>3, <2>4, ContinueType DEF Persist, TypeOK, boundVars, callVars
<1>9. ASSUME NEW n \in Node, NEW th \in Thread, PersistFails(n, th) PROVE TypeOK'
  <2>1. job[n][th] \in Save /\ Pending(job[n][th])
    BY <1>9 DEF PersistFails, Pending, TypeOK
  <2>4. job' \in [Node -> [Thread -> Save \cup {Idle}]]
    BY <1>9 DEF PersistFails, Start, TypeOK
  <2>5. CASE th = Ticker
    <3>1. Continue(n, job[n][th]) BY <1>9, <2>5 DEF PersistFails
    <3> QED BY <1>9, <2>1, <3>1, <2>4, ContinueType DEF PersistFails, TypeOK, callVars
  <2>6. CASE th # Ticker
    BY <1>9, <2>4, <2>6 DEF PersistFails, TypeOK, callVars
  <2> QED BY <2>5, <2>6
<1>10. ASSUME NEW n \in Node, NEW w \in Worker, SaveForOtherReason(n, w) PROVE TypeOK'
  <2>1. Job("other", n, 0) \in Save BY JobType DEF Kind
  <2>2. Copied(Job("other", n, 0), mem[n]) \in Save
    BY <2>1 DEF Save, TypeOK, Copied
  <2>3. job' \in [Node -> [Thread -> Save \cup {Idle}]]
    BY <1>10, <2>2, <1>0 DEF SaveForOtherReason, Start, TypeOK
  <2> QED BY <1>10, <2>3 DEF SaveForOtherReason, TypeOK, netVars, boundVars, histVars, callVars
<1>11. ASSUME NEW n \in Node, NEW w \in Worker, NEW r \in reqs, GrantVote(n, w, r) PROVE TypeOK'
  <2>1. r.cand \in Node /\ r.term \in Nat BY DEF TypeOK
  <2>2. Job("vote", r.cand, r.term) \in Save BY <2>1, JobType DEF Kind
  <2>3. job' \in [Node -> [Thread -> Save \cup {Idle}]]
    BY <1>11, <2>2, <1>0 DEF GrantVote, Start, TypeOK
  <2>4. mem' \in [Node -> ClusterState]
    BY <1>11, <2>1 DEF GrantVote, TypeOK, ClusterState, Voted
  <2> QED BY <1>11, <2>3, <2>4 DEF GrantVote, TypeOK, boundVars, histVars, callVars
<1>12. ASSUME NEW n \in Node, NEW w \in Worker, NEW a \in anns, Adopt(n, w, a) PROVE TypeOK'
  <2>1. a.from \in Node /\ a.epoch \in Nat BY DEF TypeOK
  <2>2. Job("other", n, 0) \in Save BY <2>1, JobType DEF Kind
  <2>3. job' \in [Node -> [Thread -> Save \cup {Idle}]]
    BY <1>12, <2>2, <1>0 DEF Adopt, Start, TypeOK
  <2>4. mem' \in [Node -> ClusterState]
    BY <1>12, <2>1 DEF Adopt, TypeOK, ClusterState, Led
  <2> QED BY <1>12, <2>3, <2>4 DEF Adopt, TypeOK, boundVars, histVars, callVars
<1>13. ASSUME NEW n \in Node, NEW op \in Operation, NEW m \in Node, AdmitCall(n, op, m)
       PROVE  TypeOK'
  BY <1>13 DEF AdmitCall, TypeOK, Call, histVars, callVars
<1>14. ASSUME NEW n \in Node, NEW w \in Worker, NEW c \in calls,
              \/ ManualPromote(n, w, c) \/ JoinNode(n, w, c)
              \/ LeaveNode(n, w, c) \/ RemoveNode(n, w, c)
       PROVE  TypeOK'
  <2>1. PICK s \in ClusterState : Handle(n, w, c, s) /\ operated' \subseteq Nat
    BY <1>14, CallEffect
  <2>2. Job("other", n, 0) \in Save BY JobType DEF Kind
  <2>3. job' \in [Node -> [Thread -> Save \cup {Idle}]]
    BY <2>1, <2>2, <1>0 DEF Handle, Start, TypeOK
  <2>4. mem' \in [Node -> ClusterState]
    BY <2>1 DEF Handle, TypeOK
  <2> QED BY <2>1, <2>3, <2>4 DEF Handle, TypeOK, boundVars
<1>18. ASSUME NEW n \in Node, NEW c \in calls, CallFails(n, c) PROVE TypeOK'
  BY <1>18 DEF CallFails, TypeOK, boundVars, histVars, callVars
<1>15. ASSUME NEW n \in Node, NEW r \in reqs, RefuseVote(n, r) PROVE TypeOK'
  <2>1. r.cand \in Node /\ Refused(election[r.cand]) \in Election
    BY DEF TypeOK, Election, Refused
  <2> QED BY <1>15, <2>1 DEF RefuseVote, TypeOK, boundVars, histVars, callVars
<1>16. ASSUME NEW n \in Node, NEW a \in anns, IgnoreAnnounce(n, a) PROVE TypeOK'
  BY <1>16 DEF IgnoreAnnounce, TypeOK, boundVars, histVars, callVars
<1>17. CASE UNCHANGED vars
  BY <1>17 DEF vars, netVars, boundVars, histVars, callVars, TypeOK
<1> QED
  BY <1>1, <1>2, <1>3, <1>4, <1>5, <1>6, <1>7, <1>8, <1>9, <1>10, <1>11, <1>12,
     <1>13, <1>14, <1>15, <1>16, <1>17, <1>18 DEF Next

(* The state of every node, of its file and of the threads keeps its type.  *)
THEOREM TypeCorrect == Spec => []TypeOK
BY TypeInit, TypeStep, PTL DEF Spec

-----------------------------------------------------------------------------
(* Election safety.  The inductive invariant says what a node has given     *)
(* away: the votes that were counted and the votes its threads are about to *)
(* save.  Its memory covers all of them, so it gives one vote per term; the *)
(* quorum of a winner of a term that is not thin consists of counted votes  *)
(* of a majority of all nodes; two majorities intersect.                    *)

(* n has given, or is about to give, its vote of term t to c. *)
Given(n, t, c) ==
  \/ <<n, t, c>> \in votes
  \/ \E th \in Thread : /\ job[n][th].kind \in {"vote", "self"}
                        /\ job[n][th].term = t
                        /\ job[n][th].cand = c

Covered(s, t, c) == t < s.votedEpoch \/ (t = s.votedEpoch /\ c = s.votedFor)

GivenOnce ==
  lost = {} =>
    \A n \in Node : \A t \in Nat : \A c \in Node :
      Given(n, t, c) => /\ Covered(mem[n], t, c)
                        /\ \A d \in Node : Given(n, t, d) => c = d

(* Only the ticker saves an own vote, which is the one of its election, or  *)
(* a won election.                                                          *)
OwnVotes ==
  \A n \in Node : \A th \in Thread :
    /\ job[n][th].kind \in {"self", "won"} => th = Ticker
    /\ job[n][th].kind = "self" => /\ job[n][th].cand = n
                                   /\ job[n][th].term = election[n].term

(* The votes a candidate holds were counted, or its own is being saved. *)
GotCounted ==
  \A n \in Node : \A v \in election[n].got :
    \/ <<v, election[n].term, n>> \in votes
    \/ v = n /\ job[n][Ticker].kind = "self"

WonByQuorum ==
  \A w \in won : w[1] \in thin \/ \E Q \in SUBSET Node :
    Quorum(Q, Node) /\ \A v \in Q : <<v, w[1], w[2]>> \in votes

IndInv == TypeOK /\ GivenOnce /\ OwnVotes /\ GotCounted /\ WonByQuorum

(* Two majorities of the nodes share a node. *)
LEMMA QuorumsMeet ==
  ASSUME NEW P \in SUBSET Node, NEW Q \in SUBSET Node, Quorum(P, Node), Quorum(Q, Node)
  PROVE  P \cap Q # {}
<1>1. /\ IsFiniteSet(P) /\ IsFiniteSet(Q)
      /\ Cardinality(P) \in Nat /\ Cardinality(Q) \in Nat /\ Cardinality(Node) \in Nat
  BY FS_Subset, FS_CardinalityType, NodesAssumption
<1>2. Cardinality(P) + Cardinality(Q) > Cardinality(Node)
  BY <1>1 DEF Quorum
<1> QED BY <1>1, <1>2, FS_MajoritiesIntersect, NodesAssumption

(* Two winners of a term share a voter by QuorumsMeet, and it voted once.   *)
LEMMA InvGivesSafety == IndInv => ElectionSafety
<1> SUFFICES ASSUME IndInv, lost = {},
                    NEW u \in won, NEW v \in won, u[1] = v[1], u[1] \notin thin
             PROVE  u[2] = v[2]
  BY DEF ElectionSafety
<1>1. PICK P \in SUBSET Node : Quorum(P, Node) /\ \A x \in P : <<x, u[1], u[2]>> \in votes
  BY DEF IndInv, WonByQuorum
<1>2. PICK Q \in SUBSET Node : Quorum(Q, Node) /\ \A x \in Q : <<x, v[1], v[2]>> \in votes
  BY DEF IndInv, WonByQuorum
<1>3. PICK x \in Node : x \in P /\ x \in Q
  BY <1>1, <1>2, QuorumsMeet
<1>4. Given(x, u[1], u[2]) /\ Given(x, u[1], v[2])
  BY <1>1, <1>2, <1>3 DEF Given
<1>5. u[1] \in Nat /\ u[2] \in Node /\ v[2] \in Node
  BY DEF IndInv, TypeOK
<1> QED BY <1>4, <1>5 DEF IndInv, GivenOnce

(* A step that gives no new vote and leaves the voting fields alone. *)
LEMMA GivenKept ==
  ASSUME TypeOK, GivenOnce, lost \subseteq lost',
         \A n \in Node : /\ mem'[n].votedEpoch = mem[n].votedEpoch
                         /\ mem'[n].votedFor = mem[n].votedFor,
         \A n \in Node : \A t \in Nat : \A c \in Node : Given(n, t, c)' => Given(n, t, c)
  PROVE  GivenOnce'
BY DEF GivenOnce, Covered

(* A step that gives one vote, admitted by the rule of cluster_request_vote *)
(* or of a new election, and remembers it.                                  *)
LEMMA GivenAdded ==
  ASSUME TypeOK, GivenOnce, lost \subseteq lost',
         NEW m \in Node, NEW e \in Nat, NEW d \in Node,
         \/ e > mem[m].votedEpoch
         \/ e = mem[m].votedEpoch /\ d = mem[m].votedFor,
         mem'[m].votedEpoch = e, mem'[m].votedFor = d,
         \A n \in Node : n # m => mem'[n] = mem[n],
         \A n \in Node : \A t \in Nat : \A c \in Node :
           Given(n, t, c)' => Given(n, t, c) \/ (n = m /\ t = e /\ c = d)
  PROVE  GivenOnce'
<1> SUFFICES ASSUME lost' = {}, NEW n \in Node, NEW t \in Nat, NEW c \in Node, Given(n, t, c)',
                    NEW x \in Node, Given(n, t, x)'
             PROVE  Covered(mem'[n], t, c) /\ c = x
  BY DEF GivenOnce, Covered
<1>0. lost = {} /\ mem[n].votedEpoch \in Nat BY DEF TypeOK, ClusterState
<1>1. CASE n # m
  BY <1>0, <1>1 DEF GivenOnce, Covered, TypeOK
<1>2. CASE n = m
  <2>1. mem'[n].votedEpoch = e /\ mem'[n].votedFor = d
    BY <1>2
  <2>2. Given(n, t, c) \/ (t = e /\ c = d)
    OBVIOUS
  <2>3. Given(n, t, x) \/ (t = e /\ x = d)
    OBVIOUS
  <2>4. Given(n, t, c) => Covered(mem[n], t, c)
    BY <1>0 DEF GivenOnce
  <2>5. Given(n, t, x) => Covered(mem[n], t, x)
    BY <1>0 DEF GivenOnce
  <2>6. Given(n, t, c) /\ Given(n, t, x) => c = x
    BY <1>0 DEF GivenOnce
  <2> QED BY <1>0, <1>2, <2>1, <2>2, <2>3, <2>4, <2>5, <2>6 DEF Covered
<1> QED BY <1>1, <1>2

(* What a thread's new save leaves alone. *)
LEMMA StartJob ==
  ASSUME TypeOK, NEW n \in Node, NEW th \in Thread, NEW j, Start(n, th, j)
  PROVE  \A m \in Node : \A t \in Thread :
           job'[m][t] = IF m = n /\ t = th THEN j ELSE job[m][t]
BY DEF TypeOK, Start

(* A new save that carries no vote gives no vote. *)
LEMMA GivenStart ==
  ASSUME TypeOK, NEW n \in Node, NEW th \in Thread, NEW j, Start(n, th, j),
         j.kind \notin {"vote", "self"}, votes' = votes
  PROVE  \A m \in Node : \A t \in Nat : \A c \in Node : Given(m, t, c)' => Given(m, t, c)
BY StartJob DEF Given

(* A save that carries the vote of term e for d gives that vote only. *)
LEMMA GivenVote ==
  ASSUME TypeOK, NEW n \in Node, NEW th \in Thread, NEW k, NEW e, NEW d,
         Start(n, th, Job(k, d, e)), votes' = votes
  PROVE  \A m \in Node : \A t \in Nat : \A c \in Node :
           Given(m, t, c)' => Given(m, t, c) \/ (m = n /\ t = e /\ c = d)
<1>1. Job(k, d, e).term = e /\ Job(k, d, e).cand = d BY DEF Job
<1> QED BY <1>1, StartJob DEF Given

(* Finishing a save turns a vote being saved into a counted one. *)
LEMMA GivenContinue ==
  ASSUME IndInv, NEW n \in Node, NEW th \in Thread, Pending(job[n][th]),
         Start(n, th, Idle), Continue(n, job[n][th])
  PROVE  /\ \A m \in Node : \A t \in Nat : \A c \in Node : Given(m, t, c)' => Given(m, t, c)
         /\ OwnVotes' /\ GotCounted'
         /\ won' = won /\ thin' = thin => WonByQuorum'
<1> DEFINE j == job[n][th]
<1>0. TypeOK /\ j \in Save /\ j.cand \in Node /\ j.term \in Nat
  BY DEF IndInv, TypeOK, Pending, Save
<1>1. \A m \in Node : \A t \in Thread :
        job'[m][t] = IF m = n /\ t = th THEN Idle ELSE job[m][t]
  BY <1>0, StartJob
<1>2. Idle.kind = "idle" BY DEF Idle
<1>3. votes \subseteq votes'
  BY <1>0, ContinueType
<1>4. won' = won /\ thin' = thin => WonByQuorum'
  <2> SUFFICES ASSUME won' = won, thin' = thin, NEW w \in won
               PROVE  w[1] \in thin \/ \E Q \in SUBSET Node :
                        Quorum(Q, Node) /\ \A v \in Q : <<v, w[1], w[2]>> \in votes'
    BY DEF WonByQuorum, Quorum
  <2> QED BY <1>3 DEF IndInv, WonByQuorum
<1>5. Ticker \in Thread BY DEF Thread
<1>6. CASE j.kind = "vote"
  <2>1. CountVote(n, j) BY <1>6 DEF Continue
  <2>2. \A m \in Node : \A t \in Nat : \A c \in Node : Given(m, t, c)' => Given(m, t, c)
    BY <1>0, <1>1, <1>2, <1>6, <2>1 DEF Given, CountVote
  <2>3. \A m \in Node : /\ election'[m].term = election[m].term
                        /\ election'[m].got \subseteq election[m].got \cup
                             (IF m = j.cand /\ election[m].term = j.term THEN {n} ELSE {})
    BY <1>0, <2>1 DEF CountVote, TypeOK, Granted
  <2>4. OwnVotes'
    BY <1>1, <1>2, <2>3 DEF IndInv, OwnVotes
  <2>5. \A m \in Node : job[m][Ticker].kind = "self" => job'[m][Ticker].kind = "self"
    BY <1>1, <1>5, <1>6
  <2>6. <<n, j.term, j.cand>> \in votes' BY <2>1 DEF CountVote
  <2>7. GotCounted'
    <3> SUFFICES ASSUME NEW m \in Node, NEW v \in election'[m].got
                 PROVE  \/ <<v, election'[m].term, m>> \in votes'
                        \/ v = m /\ job'[m][Ticker].kind = "self"
      BY DEF GotCounted
    <3> QED BY <1>3, <2>3, <2>5, <2>6 DEF IndInv, GotCounted
  <2> QED BY <1>4, <2>2, <2>4, <2>7
<1>7. CASE j.kind = "self"
  <2>1. CountOwnVote(n, j) BY <1>7 DEF Continue
  <2>2. th = Ticker /\ j.cand = n /\ j.term = election[n].term
    BY <1>7 DEF IndInv, OwnVotes
  <2>3. votes' = votes \cup {<<n, j.term, j.cand>>} /\ election' = election
    BY <2>1, <2>2 DEF CountOwnVote
  <2>4. \A m \in Node : \A t \in Nat : \A c \in Node : Given(m, t, c)' => Given(m, t, c)
    BY <1>0, <1>1, <1>2, <1>7, <2>3 DEF Given
  <2>5. OwnVotes'
    BY <1>1, <1>2, <2>3 DEF IndInv, OwnVotes
  <2>6. GotCounted'
    BY <1>1, <1>5, <2>2, <2>3 DEF IndInv, GotCounted
  <2> QED BY <1>4, <2>4, <2>5, <2>6
<1>8. CASE j.kind = "won"
  <2>1. Announce(n, j) BY <1>8 DEF Continue
  <2>2. \A m \in Node : \A t \in Nat : \A c \in Node : Given(m, t, c)' => Given(m, t, c)
    BY <1>1, <1>2, <2>1 DEF Given, Announce
  <2>3. \A m \in Node : m # n => election'[m] = election[m]
    BY <2>1 DEF Announce, IndInv, TypeOK
  <2>4. election'[n].got = {}
    BY <2>1 DEF Announce, IndInv, TypeOK, NoElection
  <2>5. OwnVotes'
    <3>1. th = Ticker BY <1>8 DEF IndInv, OwnVotes
    <3>2. SUFFICES ASSUME NEW m \in Node, NEW t \in Thread, job'[m][t].kind \in {"self", "won"}
                   PROVE  /\ t = Ticker
                          /\ job'[m][t].kind = "self" =>
                               job'[m][t].cand = m /\ job'[m][t].term = election'[m].term
      BY DEF OwnVotes
    <3>3. job'[m][t] = job[m][t] BY <1>1, <1>2, <3>2
    <3>4. t = Ticker
      BY <3>2, <3>3 DEF IndInv, OwnVotes
    <3>5. m # n
      BY <1>1, <1>2, <3>1, <3>2, <3>4
    <3> QED BY <2>3, <3>3, <3>4, <3>5 DEF IndInv, OwnVotes
  <2>6. GotCounted'
    BY <1>1, <1>5, <2>1, <2>3, <2>4 DEF IndInv, GotCounted, Announce
  <2> QED BY <1>4, <2>2, <2>5, <2>6
<1>9. CASE j.kind = "other"
  <2>1. votes' = votes /\ election' = election BY <1>9 DEF Continue
  <2>2. \A m \in Node : \A t \in Nat : \A c \in Node : Given(m, t, c)' => Given(m, t, c)
    BY <1>1, <1>2, <2>1 DEF Given
  <2>3. OwnVotes' BY <1>1, <1>2, <2>1 DEF IndInv, OwnVotes
  <2>4. GotCounted'
    BY <1>1, <1>5, <1>9, <2>1 DEF IndInv, GotCounted
  <2> QED BY <1>4, <2>2, <2>3, <2>4
<1> QED BY <1>6, <1>7, <1>8, <1>9 DEF Continue

(* Steps that change neither the votes, the elections nor the wins, and     *)
(* start at most a save that carries no vote.                               *)
LEMMA QuietStep ==
  ASSUME IndInv, votes' = votes, won' = won, lost' = lost, thin' = thin,
         election' = election,
         \A m \in Node : /\ mem'[m].votedEpoch = mem[m].votedEpoch
                         /\ mem'[m].votedFor = mem[m].votedFor,
         NEW n \in Node, NEW th \in Thread, NEW j, Start(n, th, j),
         j.kind \notin {"vote", "self", "won"}, job[n][th].kind # "self"
  PROVE  GivenOnce' /\ OwnVotes' /\ GotCounted' /\ WonByQuorum'
<1>0. TypeOK /\ GivenOnce /\ Ticker \in Thread BY DEF IndInv, Thread
<1>1. \A m \in Node : \A t \in Thread :
        job'[m][t] = IF m = n /\ t = th THEN j ELSE job[m][t]
  BY <1>0, StartJob
<1>2. GivenOnce'
  <2>1. \A m \in Node : \A t \in Nat : \A c \in Node : Given(m, t, c)' => Given(m, t, c)
    BY <1>0, GivenStart
  <2> QED BY <1>0, <2>1, GivenKept
<1>3. OwnVotes' BY <1>1 DEF IndInv, OwnVotes
<1>4. GotCounted' BY <1>0, <1>1 DEF IndInv, GotCounted
<1>5. WonByQuorum' BY DEF IndInv, WonByQuorum, Quorum
<1> QED BY <1>2, <1>3, <1>4, <1>5

(* Steps that touch no save and at most clear the peer an election awaits.  *)
LEMMA NetStep ==
  ASSUME IndInv, votes' = votes, won' = won, lost' = lost, thin' = thin,
         mem' = mem, job' = job,
         \A m \in Node : /\ election'[m].term = election[m].term
                         /\ election'[m].got = election[m].got
  PROVE  GivenOnce' /\ OwnVotes' /\ GotCounted' /\ WonByQuorum'
<1>1. GivenOnce' BY DEF IndInv, GivenOnce, Given, Covered
<1>2. OwnVotes' BY DEF IndInv, OwnVotes
<1>3. GotCounted' BY DEF IndInv, GotCounted
<1>4. WonByQuorum' BY DEF IndInv, WonByQuorum, Quorum
<1> QED BY <1>1, <1>2, <1>3, <1>4

(* IndInv holds initially.                                                  *)
LEMMA IndInvInit == Init => IndInv
<1> SUFFICES ASSUME Init PROVE IndInv
  OBVIOUS
<1>1. TypeOK BY TypeInit
<1>2. \A n \in Node : \A th \in Thread : job[n][th].kind = "idle"
  BY DEF Init, Idle
<1>3. GivenOnce BY <1>2 DEF Init, GivenOnce, Given
<1>4. OwnVotes BY <1>2 DEF OwnVotes
<1>5. GotCounted BY DEF Init, GotCounted, NoElection
<1>6. WonByQuorum BY DEF Init, WonByQuorum
<1> QED BY <1>1, <1>3, <1>4, <1>5, <1>6 DEF IndInv

(* IndInv is inductive, one step per action.                                *)
LEMMA IndInvStep == IndInv /\ [Next]_vars => IndInv'
<1> SUFFICES ASSUME IndInv, [Next]_vars
             PROVE  GivenOnce' /\ OwnVotes' /\ GotCounted' /\ WonByQuorum'
  BY TypeStep DEF IndInv
<1> DEFINE Goal == GivenOnce' /\ OwnVotes' /\ GotCounted' /\ WonByQuorum'
<1> USE NodesAssumption
<1>0. TypeOK /\ GivenOnce BY DEF IndInv
<1>a. Ticker \in Thread /\ \A w \in Worker : w \in Thread /\ w # Ticker
  BY ThreadsAssumption DEF Thread
<1>b. Idle.kind = "idle" BY DEF Idle
<1>c. \A k, c, t : Job(k, c, t).kind = k BY DEF Job
<1>1. ASSUME NEW n \in Node, StartElection(n) PROVE Goal
  <2> DEFINE term == Max2(mem[n].epoch, mem[n].votedEpoch) + 1
  <2>1. term \in Nat /\ term > mem[n].votedEpoch
    BY <1>0 DEF TypeOK, ClusterState, Max2
  <2>2. /\ Start(n, Ticker, Job("self", n, term))
        /\ votes' = votes /\ won' = won /\ lost' = lost /\ thin' = thin /\ job[n][Ticker] = Idle
        /\ mem' = [mem EXCEPT ![n] = Voted(@, term, n)]
        /\ election' = [election EXCEPT ![n] = [term |-> term, of |-> mem[n].nodes, asked |-> {n},
                                               waiting |-> NoNode, got |-> {n}]]
    BY <1>1 DEF StartElection, histVars, callVars
  <2>3. \A m \in Node : \A t \in Nat : \A c \in Node :
          Given(m, t, c)' => Given(m, t, c) \/ (m = n /\ t = term /\ c = n)
    BY <1>0, <1>a, <2>2, GivenVote
  <2> HIDE DEF term
  <2>a. /\ mem'[n].votedEpoch = term /\ mem'[n].votedFor = n
        /\ \A m \in Node : m # n => mem'[m] = mem[m]
    BY <1>0, <2>2 DEF TypeOK, Voted
  <2>b. lost \subseteq lost' BY <2>2
  <2>4. GivenOnce'
    BY <1>0, <2>1, <2>3, <2>a, <2>b, GivenAdded
  <2>5. \A m \in Node : \A t \in Thread :
          job'[m][t] = IF m = n /\ t = Ticker THEN Job("self", n, term) ELSE job[m][t]
    BY <1>0, <1>a, <2>2, StartJob
  <2>6. /\ election'[n].term = term /\ election'[n].got = {n}
        /\ \A m \in Node : m # n => election'[m] = election[m]
    BY <1>0, <2>2 DEF TypeOK
  <2>7. OwnVotes'
    BY <1>c, <2>5, <2>6 DEF IndInv, OwnVotes, Job
  <2>8. GotCounted'
    BY <1>a, <1>c, <2>2, <2>5, <2>6 DEF IndInv, GotCounted
  <2>9. WonByQuorum' BY <2>2 DEF IndInv, WonByQuorum, Quorum
  <2> QED BY <2>4, <2>7, <2>8, <2>9
<1>2. ASSUME NEW n \in Node, AskTimeout(n) PROVE Goal
  BY <1>0, <1>2, NetStep DEF AskTimeout, Refused, TypeOK, histVars, callVars
<1>3. ASSUME NEW n \in Node, Promote(n) PROVE Goal
  <2> DEFINE term == election[n].term
  <2>1. /\ Start(n, Ticker, Job("won", n, term)) /\ job[n][Ticker] = Idle
        /\ votes' = votes /\ lost' = lost /\ election' = election
        /\ won' = won \cup {<<term, n>>}
        /\ mem' = [mem EXCEPT ![n] = Led(@, term, n)]
        /\ thin' = IF Quorum(election[n].got, Node) THEN thin ELSE thin \cup {term}
    BY <1>3 DEF Promote, AllAsked, Asking
  <2>2. \A m \in Node : \A t \in Thread :
          job'[m][t] = IF m = n /\ t = Ticker THEN Job("won", n, term) ELSE job[m][t]
    BY <1>0, <1>a, <2>1, StartJob
  <2>3. \A m \in Node : /\ mem'[m].votedEpoch = mem[m].votedEpoch
                        /\ mem'[m].votedFor = mem[m].votedFor
    BY <1>0, <2>1 DEF TypeOK, Led
  <2>4. GivenOnce'
    <3>1. \A m \in Node : \A t \in Nat : \A c \in Node : Given(m, t, c)' => Given(m, t, c)
      BY <1>0, <1>a, <1>c, <2>1, GivenStart
    <3> QED BY <1>0, <2>1, <2>3, <3>1, GivenKept
  <2>5. OwnVotes' BY <1>c, <2>1, <2>2 DEF IndInv, OwnVotes
  <2>6. GotCounted' BY <1>a, <1>b, <2>1, <2>2 DEF IndInv, GotCounted
  <2>7. WonByQuorum'
    <3>1. \A v \in election[n].got : <<v, term, n>> \in votes
      BY <1>b, <2>1 DEF IndInv, GotCounted
    <3>2. election[n].got \in SUBSET Node BY <1>0 DEF TypeOK, Election
    <3>3. \A w \in won : w[1] \in thin \/ \E Q \in SUBSET Node :
            Quorum(Q, Node) /\ \A v \in Q : <<v, w[1], w[2]>> \in votes
      BY DEF IndInv, WonByQuorum
    <3>4. <<term, n>>[1] = term /\ <<term, n>>[2] = n OBVIOUS
    <3>5. <<term, n>>[1] \in thin' \/ \E Q \in SUBSET Node :
            Quorum(Q, Node) /\ \A v \in Q : <<v, <<term, n>>[1], <<term, n>>[2]>> \in votes
      BY <2>1, <3>1, <3>2, <3>4
    <3>6. thin \subseteq thin' BY <2>1
    <3> QED BY <2>1, <3>3, <3>5, <3>6 DEF WonByQuorum, Quorum
  <2> QED BY <2>4, <2>5, <2>6, <2>7
<1>4. ASSUME NEW n \in Node, GiveUp(n) PROVE Goal
  <2>1. /\ votes' = votes /\ won' = won /\ lost' = lost /\ thin' = thin /\ mem' = mem /\ job' = job
        /\ job[n][Ticker] = Idle
        /\ election'[n].got = {} /\ \A m \in Node : m # n => election'[m] = election[m]
    BY <1>0, <1>4 DEF GiveUp, AllAsked, Asking, histVars, callVars, TypeOK, NoElection
  <2>2. GivenOnce' BY <2>1 DEF IndInv, GivenOnce, Given, Covered
  <2>3. OwnVotes' BY <1>b, <2>1 DEF IndInv, OwnVotes
  <2>4. GotCounted' BY <2>1 DEF IndInv, GotCounted
  <2>5. WonByQuorum' BY <2>1 DEF IndInv, WonByQuorum, Quorum
  <2> QED BY <2>2, <2>3, <2>4, <2>5
<1>5. ASSUME NEW n \in Node, CrashRestart(n) \/ Shutdown(n) PROVE Goal
  <2>0. PICK s \in ClusterState : Restart(n, s)
    BY <1>0, <1>5, RestartEffect
  <2>1. /\ votes' = votes /\ won' = won /\ thin' = thin
        /\ lost' = lost \cup {v \in votes : v[1] = n /\ ~Remembers(s, v)}
        /\ mem'[n].votedEpoch = s.votedEpoch /\ mem'[n].votedFor = s.votedFor
        /\ \A m \in Node : m # n => mem'[m] = mem[m]
        /\ \A t \in Thread : job'[n][t] = Idle
        /\ \A m \in Node : m # n => job'[m] = job[m]
        /\ election'[n].got = {} /\ \A m \in Node : m # n => election'[m] = election[m]
    BY <1>0, <2>0 DEF Restart, Listed, TypeOK, NoElection, callVars
  <2>2. \A m \in Node : \A t \in Nat : \A c \in Node :
          Given(m, t, c)' => Given(m, t, c) /\ (m = n => <<n, t, c>> \in votes)
    BY <1>b, <2>1 DEF Given
  <2>3. GivenOnce'
    <3> SUFFICES ASSUME lost' = {}, NEW m \in Node, NEW t \in Nat, NEW c \in Node, Given(m, t, c)'
                 PROVE  /\ Covered(mem'[m], t, c)
                        /\ \A d \in Node : Given(m, t, d)' => c = d
      BY DEF GivenOnce, Covered
    <3>1. lost = {} BY <2>1
    <3>2. \A d \in Node : Given(m, t, d)' => c = d
      BY <2>2, <3>1 DEF IndInv, GivenOnce
    <3>3. CASE m # n
      <4>1. Given(m, t, c) BY <2>2
      <4>2. Covered(mem[m], t, c) BY <3>1, <4>1 DEF IndInv, GivenOnce
      <4> QED BY <2>1, <3>2, <3>3, <4>2 DEF Covered
    <3>4. CASE m = n
      <4> DEFINE v == <<n, t, c>>
      <4>1. v \in votes /\ v[1] = n /\ v[2] = t /\ v[3] = c BY <2>2, <3>4
      <4>2. Remembers(s, v) BY <2>1, <4>1
      <4> QED BY <2>1, <3>2, <3>4, <4>1, <4>2 DEF Remembers, Covered
    <3> QED BY <3>2, <3>3, <3>4
  <2>4. OwnVotes' BY <1>b, <2>1 DEF IndInv, OwnVotes
  <2>5. GotCounted' BY <2>1 DEF IndInv, GotCounted
  <2>6. WonByQuorum' BY <2>1 DEF IndInv, WonByQuorum, Quorum
  <2> QED BY <2>3, <2>4, <2>5, <2>6
<1>6. ASSUME NEW n \in Node, NEW p \in Node, Ask(n, p) PROVE Goal
  BY <1>0, <1>6, NetStep DEF Ask, Awaiting, TypeOK, histVars, callVars
<1>7. ASSUME NEW n \in Node, NEW th \in Thread, Clone(n, th) PROVE Goal
  <2>1. /\ votes' = votes /\ won' = won /\ lost' = lost /\ thin' = thin
        /\ mem' = mem /\ election' = election
        /\ Start(n, th, Copied(job[n][th], mem[n]))
    BY <1>7 DEF Clone, histVars, callVars
  <2>2. \A m \in Node : \A t \in Thread : /\ job'[m][t].kind = job[m][t].kind
                                          /\ job[m][t].kind \in Kind =>
                                               /\ job'[m][t].cand = job[m][t].cand
                                               /\ job'[m][t].term = job[m][t].term
    <3>1. \A m \in Node : \A t \in Thread :
            job'[m][t] = IF m = n /\ t = th THEN Copied(job[n][th], mem[n]) ELSE job[m][t]
      BY <1>0, <2>1, StartJob
    <3> QED BY <3>1 DEF Copied
  <2>3. GivenOnce'
    <3>1. \A m \in Node : \A t \in Nat : \A c \in Node : Given(m, t, c)' => Given(m, t, c)
      BY <2>1, <2>2 DEF Given, Kind
    <3> QED BY <1>0, <2>1, <3>1, GivenKept
  <2>4. OwnVotes' BY <2>1, <2>2 DEF IndInv, OwnVotes, Kind
  <2>5. GotCounted' BY <1>a, <2>1, <2>2 DEF IndInv, GotCounted
  <2>6. WonByQuorum' BY <2>1 DEF IndInv, WonByQuorum, Quorum
  <2> QED BY <2>3, <2>4, <2>5, <2>6
<1>8. ASSUME NEW n \in Node, NEW th \in Thread, Persist(n, th) PROVE Goal
  <2>1. /\ mem' = mem /\ won' = won /\ lost' = lost /\ thin' = thin
        /\ Pending(job[n][th]) /\ Start(n, th, Idle) /\ Continue(n, job[n][th])
    BY <1>8 DEF Persist, callVars
  <2> QED BY <1>0, <2>1, GivenContinue, GivenKept
<1>9. ASSUME NEW n \in Node, NEW th \in Thread, PersistFails(n, th) PROVE Goal
  <2>1. /\ mem' = mem /\ won' = won /\ lost' = lost /\ thin' = thin
        /\ Pending(job[n][th]) /\ Start(n, th, Idle)
    BY <1>9 DEF PersistFails, callVars
  <2>2. CASE th = Ticker
    <3>1. Continue(n, job[n][th]) BY <1>9, <2>2 DEF PersistFails
    <3> QED BY <1>0, <2>1, <3>1, GivenContinue, GivenKept
  <2>3. CASE th # Ticker
    <3>1. votes' = votes /\ election' = election BY <1>9, <2>3 DEF PersistFails
    <3>2. job[n][th].kind # "self" BY <2>3 DEF IndInv, OwnVotes
    <3> QED BY <1>b, <2>1, <3>1, <3>2, QuietStep
  <2> QED BY <2>2, <2>3
<1>10. ASSUME NEW n \in Node, NEW w \in Worker, SaveForOtherReason(n, w) PROVE Goal
  <2>1. /\ mem' = mem /\ votes' = votes /\ won' = won /\ lost' = lost /\ thin' = thin
        /\ election' = election
        /\ Start(n, w, Copied(Job("other", n, 0), mem[n])) /\ job[n][w] = Idle
    BY <1>10 DEF SaveForOtherReason, histVars, callVars
  <2>2. Copied(Job("other", n, 0), mem[n]).kind = "other" BY DEF Copied, Job
  <2> QED BY <1>a, <1>b, <2>1, <2>2, QuietStep
<1>11. ASSUME NEW n \in Node, NEW w \in Worker, NEW r \in reqs, GrantVote(n, w, r) PROVE Goal
  <2>0. r.cand \in Node /\ r.term \in Nat BY <1>0 DEF TypeOK
  <2>1. /\ votes' = votes /\ won' = won /\ lost' = lost /\ thin' = thin /\ election' = election
        /\ mem' = [mem EXCEPT ![n] = Voted(@, r.term, r.cand)]
        /\ Start(n, w, Job("vote", r.cand, r.term)) /\ job[n][w] = Idle
        /\ \/ r.term > mem[n].votedEpoch
           \/ r.term = mem[n].votedEpoch /\ r.cand = mem[n].votedFor
    BY <1>11 DEF GrantVote, MayVote, histVars, callVars
  <2>2. \A m \in Node : \A t \in Nat : \A c \in Node :
          Given(m, t, c)' => Given(m, t, c) \/ (m = n /\ t = r.term /\ c = r.cand)
    BY <1>0, <1>a, <2>1, GivenVote
  <2>a. /\ mem'[n].votedEpoch = r.term /\ mem'[n].votedFor = r.cand
        /\ \A m \in Node : m # n => mem'[m] = mem[m]
    BY <1>0, <2>1 DEF TypeOK, Voted
  <2>b. lost \subseteq lost' BY <2>1
  <2>c. \/ r.term > mem[n].votedEpoch
        \/ r.term = mem[n].votedEpoch /\ r.cand = mem[n].votedFor
    BY <2>1
  <2>3. GivenOnce'
    BY <1>0, <2>0, <2>2, <2>a, <2>b, <2>c, GivenAdded
  <2>4. \A m \in Node : \A t \in Thread :
          job'[m][t] = IF m = n /\ t = w THEN Job("vote", r.cand, r.term) ELSE job[m][t]
    BY <1>0, <1>a, <2>1, StartJob
  <2>5. OwnVotes' BY <1>c, <2>1, <2>4 DEF IndInv, OwnVotes
  <2>6. GotCounted' BY <1>a, <1>b, <1>c, <2>1, <2>4 DEF IndInv, GotCounted
  <2>7. WonByQuorum' BY <2>1 DEF IndInv, WonByQuorum, Quorum
  <2> QED BY <2>3, <2>5, <2>6, <2>7
<1>12. ASSUME NEW n \in Node, NEW w \in Worker, NEW a \in anns, Adopt(n, w, a) PROVE Goal
  <2>1. /\ votes' = votes /\ won' = won /\ lost' = lost /\ thin' = thin /\ election' = election
        /\ Start(n, w, Job("other", n, 0)) /\ job[n][w] = Idle
    BY <1>12 DEF Adopt, histVars, callVars
  <2>2. \A m \in Node : /\ mem'[m].votedEpoch = mem[m].votedEpoch
                        /\ mem'[m].votedFor = mem[m].votedFor
    BY <1>0, <1>12 DEF Adopt, TypeOK, Led
  <2> QED BY <1>a, <1>b, <1>c, <2>1, <2>2, QuietStep
<1>13. ASSUME NEW n \in Node, NEW op \in Operation, NEW m \in Node, AdmitCall(n, op, m)
       PROVE  Goal
  BY <1>13, NetStep DEF AdmitCall, histVars, callVars
<1>14. ASSUME NEW n \in Node, NEW w \in Worker, NEW c \in calls,
              \/ ManualPromote(n, w, c) \/ JoinNode(n, w, c)
              \/ LeaveNode(n, w, c) \/ RemoveNode(n, w, c)
       PROVE  Goal
  <2>1. PICK s \in ClusterState :
          /\ Handle(n, w, c, s)
          /\ s.votedEpoch = mem[n].votedEpoch /\ s.votedFor = mem[n].votedFor
    BY <1>0, <1>14, CallEffect
  <2>2. /\ votes' = votes /\ won' = won /\ lost' = lost /\ thin' = thin /\ election' = election
        /\ Start(n, w, Job("other", n, 0)) /\ job[n][w] = Idle
    BY <2>1 DEF Handle
  <2>3. \A m \in Node : /\ mem'[m].votedEpoch = mem[m].votedEpoch
                        /\ mem'[m].votedFor = mem[m].votedFor
    BY <1>0, <2>1 DEF Handle, TypeOK
  <2> QED BY <1>a, <1>b, <1>c, <2>2, <2>3, QuietStep
<1>18. ASSUME NEW n \in Node, NEW c \in calls, CallFails(n, c) PROVE Goal
  BY <1>18, NetStep DEF CallFails, histVars, callVars
<1>15. ASSUME NEW n \in Node, NEW r \in reqs, RefuseVote(n, r) PROVE Goal
  BY <1>0, <1>15, NetStep DEF RefuseVote, Refused, TypeOK, histVars, callVars
<1>16. ASSUME NEW n \in Node, NEW a \in anns, IgnoreAnnounce(n, a) PROVE Goal
  BY <1>16, NetStep DEF IgnoreAnnounce, histVars, callVars
<1>17. CASE UNCHANGED vars
  BY <1>17, NetStep DEF vars, histVars, callVars
<1> QED
  BY <1>1, <1>2, <1>3, <1>4, <1>5, <1>6, <1>7, <1>8, <1>9, <1>10, <1>11, <1>12,
     <1>13, <1>14, <1>15, <1>16, <1>17, <1>18 DEF Next

(* At most one candidate wins a term, for every number of members, threads, *)
(* terms, crashes, shutdowns and failed writes, until a restart loses a     *)
(* counted vote or a removal lets less than a majority of all nodes win.    *)
THEOREM AtMostOneWinner == Spec => []ElectionSafety
<1>1. Spec => []IndInv BY IndInvInit, IndInvStep, PTL DEF Spec
<1> QED BY <1>1, InvGivesSafety, PTL

-----------------------------------------------------------------------------
(* The epoch is a fencing token.  Whatever a node believes, has saved, is   *)
(* about to save or is told about the leadership names a winner of that     *)
(* epoch, or the primary the cluster began with, or stands under an epoch   *)
(* at which a call set a primary; election safety does the rest.            *)

(* The primary p of epoch e is the first one, has won the election e, or    *)
(* may come from a call.                                                    *)
Elected(e, p) == e \in operated \/ IF e = 0 THEN p = FirstPrimary ELSE <<e, p>> \in won

WinnersLead ==
  /\ \A n \in Node : /\ Elected(mem[n].epoch, mem[n].primary)
                     /\ Elected(disk[n].epoch, disk[n].primary)
  /\ \A n \in Node : \A th \in Thread : job[n][th] # Idle =>
       /\ job[n][th].kind = "won" => <<job[n][th].term, n>> \in won
       /\ Elected(job[n][th].img.epoch, job[n][th].img.primary)
  /\ \A a \in anns : <<a.epoch, a.from>> \in won

(* A step that brings no leadership but a call's: every state, file, save   *)
(* and announcement after it was there before, or is a copy of a state.     *)
LEMMA NoNewLeadership ==
  ASSUME TypeOK, WinnersLead, won' = won, operated \subseteq operated',
         \A n \in Node : /\ \/ mem'[n].epoch = mem[n].epoch /\ mem'[n].primary = mem[n].primary
                            \/ mem'[n].epoch \in operated'
                         /\ \/ disk'[n] = disk[n]
                            \/ \E th \in Thread : job[n][th] # Idle /\ disk'[n] = job[n][th].img,
         \A n \in Node : \A th \in Thread :
           \/ job'[n][th] = job[n][th]
           \/ job'[n][th] = Idle
           \/ /\ job'[n][th].kind # "won"
              /\ job'[n][th].img \in {Joined, mem[n]}
           \/ /\ job[n][th] # Idle
              /\ job'[n][th].kind = job[n][th].kind
              /\ job'[n][th].term = job[n][th].term
              /\ job'[n][th].img = mem[n],
         \A a \in anns' : \/ a \in anns
                          \/ \E th \in Thread : /\ job[a.from][th] # Idle
                                                /\ job[a.from][th].kind = "won"
                                                /\ job[a.from][th].term = a.epoch
                                                /\ a.from \in Node
  PROVE  WinnersLead'
<1>1. Elected(Joined.epoch, Joined.primary) BY DEF Elected, Joined
<1>2. \A e, p : Elected(e, p) => Elected(e, p)' BY DEF Elected
<1>3. \A n \in Node : Elected(mem[n].epoch, mem[n].primary)'
  <2> TAKE n \in Node
  <2>1. CASE mem'[n].epoch \in operated' BY <2>1 DEF Elected
  <2>2. CASE mem'[n].epoch = mem[n].epoch /\ mem'[n].primary = mem[n].primary
    <3>1. Elected(mem[n].epoch, mem[n].primary) BY DEF WinnersLead
    <3> QED BY <2>2, <3>1 DEF Elected
  <2> QED BY <2>1, <2>2
<1>4. \A n \in Node : Elected(disk'[n].epoch, disk'[n].primary)
  BY DEF WinnersLead
<1>5. \A n \in Node : \A th \in Thread : job'[n][th] # Idle =>
         /\ job'[n][th].kind = "won" => <<job'[n][th].term, n>> \in won
         /\ Elected(job'[n][th].img.epoch, job'[n][th].img.primary)
  BY <1>1 DEF WinnersLead
<1>6. \A a \in anns' : <<a.epoch, a.from>> \in won
  BY DEF WinnersLead
<1>7. \A n \in Node : Elected(disk[n].epoch, disk[n].primary)'
  BY <1>4 DEF Elected
<1>8. \A n \in Node : \A th \in Thread : job'[n][th] # Idle =>
         Elected(job[n][th].img.epoch, job[n][th].img.primary)'
  BY <1>5 DEF Elected
<1> QED BY <1>3, <1>5, <1>6, <1>7, <1>8 DEF WinnersLead

(* Everybody begins with the first primary. *)
LEMMA WinnersInit == Init => WinnersLead
BY DEF Init, WinnersLead, Elected, Joined

(* A leadership comes from a won election, from the announcement of one, or  *)
(* from a copy of a state that had it already.                              *)
LEMMA WinnersStep == TypeOK /\ WinnersLead /\ [Next]_vars => WinnersLead'
<1> SUFFICES ASSUME TypeOK, WinnersLead, [Next]_vars PROVE WinnersLead'
  OBVIOUS
<1>a. Ticker \in Thread /\ \A w \in Worker : w \in Thread BY DEF Thread
<1>b. \A k, c, t : Job(k, c, t).kind = k /\ Job(k, c, t).img = Joined BY DEF Job
<1>1. ASSUME NEW n \in Node, StartElection(n) PROVE WinnersLead'
  <2>1. \A m \in Node : mem'[m].epoch = mem[m].epoch /\ mem'[m].primary = mem[m].primary
    BY <1>1 DEF StartElection, TypeOK, Voted
  <2>2. \A m \in Node : \A th \in Thread :
          \/ job'[m][th] = job[m][th]
          \/ job'[m][th].kind = "self" /\ job'[m][th].img = Joined
    BY <1>1, <1>a, <1>b, StartJob DEF StartElection
  <2> QED
    BY <1>1, <2>1, <2>2, NoNewLeadership
    DEF StartElection, netVars, boundVars, histVars, callVars
<1>2. ASSUME mem' = mem, disk' = disk, job' = job, won' = won, operated' = operated,
             anns' \subseteq anns
      PROVE  WinnersLead'
  BY <1>2, NoNewLeadership
<1>3. ASSUME NEW n \in Node, Promote(n) PROVE WinnersLead'
  <2> DEFINE term == election[n].term
  <2>1. /\ Start(n, Ticker, Job("won", n, term)) /\ won' = won \cup {<<term, n>>}
        /\ mem[n].epoch < term /\ mem' = [mem EXCEPT ![n] = Led(@, term, n)]
        /\ disk' = disk /\ anns' = anns /\ operated' = operated
    BY <1>3 DEF Promote, netVars
  <2>2. term \in Nat /\ term # 0 BY <2>1 DEF TypeOK, Election, ClusterState
  <2>3. \A m \in Node : \A th \in Thread :
          job'[m][th] = IF m = n /\ th = Ticker THEN Job("won", n, term) ELSE job[m][th]
    BY <1>a, <2>1, StartJob
  <2>4. \A m \in Node : IF m = n THEN mem'[m].epoch = term /\ mem'[m].primary = n
                                 ELSE mem'[m] = mem[m]
    BY <2>1 DEF TypeOK, Led
  <2>5. Job("won", n, term).term = term BY DEF Job
  <2> HIDE DEF term
  <2>7. \A m \in Node : Elected(mem[m].epoch, mem[m].primary)'
    <3>1. term # 0 /\ <<term, n>> \in won' BY <2>1, <2>2
    <3>2. \A m \in Node : Elected(mem[m].epoch, mem[m].primary)
      BY DEF WinnersLead
    <3>3. TAKE m \in Node
    <3>4. CASE m = n
      <4>1. mem'[m].epoch = term /\ mem'[m].primary = n BY <2>4, <3>4
      <4> QED BY <3>1, <4>1 DEF Elected
    <3>5. CASE m # n
      BY <2>1, <2>4, <3>2, <3>5 DEF Elected
    <3> QED BY <3>4, <3>5
  <2>8. \A m \in Node : Elected(disk[m].epoch, disk[m].primary)'
    BY <2>1 DEF WinnersLead, Elected
  <2>9. \A m \in Node : \A th \in Thread : job'[m][th] # Idle =>
          /\ job'[m][th].kind = "won" => <<job'[m][th].term, m>> \in won'
          /\ Elected(job[m][th].img.epoch, job[m][th].img.primary)'
    BY <1>b, <2>1, <2>3, <2>5 DEF WinnersLead, Elected, Joined
  <2> QED BY <2>1, <2>7, <2>8, <2>9 DEF WinnersLead
<1>4. ASSUME NEW n \in Node, CrashRestart(n) \/ Shutdown(n) PROVE WinnersLead'
  <2>1. PICK s \in ClusterState :
          /\ Restart(n, s)
          /\ \/ s = disk[n] \/ s = mem[n]
             \/ job[n][Ticker] # Idle /\ s = job[n][Ticker].img
    BY <1>4, RestartEffect
  <2>2. Elected(s.epoch, s.primary) BY <1>a, <2>1 DEF WinnersLead
  <2>3. /\ mem'[n].epoch = s.epoch /\ mem'[n].primary = s.primary
        /\ disk'[n].epoch = s.epoch /\ disk'[n].primary = s.primary
        /\ \A m \in Node : m # n => mem'[m] = mem[m] /\ disk'[m] = disk[m]
        /\ \A th \in Thread : job'[n][th] = Idle
        /\ \A m \in Node : m # n => job'[m] = job[m]
        /\ anns' = anns /\ won' = won /\ operated' = operated
    BY <2>1 DEF Restart, Listed, TypeOK, callVars
  <2>4. \A m \in Node : /\ Elected(mem[m].epoch, mem[m].primary)'
                        /\ Elected(disk[m].epoch, disk[m].primary)'
    BY <2>2, <2>3 DEF WinnersLead, Elected
  <2>5. \A m \in Node : \A th \in Thread : job'[m][th] # Idle =>
          /\ job'[m][th].kind = "won" => <<job'[m][th].term, m>> \in won'
          /\ Elected(job[m][th].img.epoch, job[m][th].img.primary)'
    BY <2>3 DEF WinnersLead, Elected
  <2> QED BY <2>3, <2>4, <2>5 DEF WinnersLead
<1>5. ASSUME NEW n \in Node, NEW th \in Thread, Clone(n, th) PROVE WinnersLead'
  <2>1. \A m \in Node : \A t \in Thread :
          job'[m][t] = IF m = n /\ t = th THEN Copied(job[n][th], mem[n]) ELSE job[m][t]
    BY <1>5, StartJob DEF Clone
  <2>2. /\ Copied(job[n][th], mem[n]).kind = job[n][th].kind
        /\ Copied(job[n][th], mem[n]).term = job[n][th].term
        /\ Copied(job[n][th], mem[n]).img = mem[n]
    BY DEF Copied
  <2> QED
    BY <1>5, <2>1, <2>2, NoNewLeadership
    DEF Clone, Pending, netVars, boundVars, histVars, callVars
<1>6. ASSUME NEW n \in Node, NEW th \in Thread, Pending(job[n][th]), Start(n, th, Idle),
             \/ Continue(n, job[n][th])
             \/ anns' = anns,
             disk' = disk \/ disk' = [disk EXCEPT ![n] = job[n][th].img],
             mem' = mem, won' = won, operated' = operated
      PROVE  WinnersLead'
  <2>1. \A m \in Node : \A t \in Thread :
          job'[m][t] = IF m = n /\ t = th THEN Idle ELSE job[m][t]
    BY <1>6, StartJob
  <2>2. job[n][th] # Idle BY <1>6 DEF Pending
  <2>3. \A m \in Node : \/ disk'[m] = disk[m]
                        \/ m = n /\ disk'[m] = job[n][th].img
    BY <1>6 DEF TypeOK
  <2>4. \A a \in anns' : \/ a \in anns
                         \/ job[n][th].kind = "won" /\ a.from = n /\ a.epoch = job[n][th].term
    BY <1>6 DEF Continue, CountVote, CountOwnVote, Announce
  <2> QED BY <1>6, <2>1, <2>2, <2>3, <2>4, NoNewLeadership
<1>7. ASSUME NEW n \in Node, NEW th \in Thread, Persist(n, th) PROVE WinnersLead'
  BY <1>6, <1>7 DEF Persist, callVars
<1>8. ASSUME NEW n \in Node, NEW th \in Thread, PersistFails(n, th) PROVE WinnersLead'
  BY <1>6, <1>8 DEF PersistFails, callVars
<1>9. ASSUME NEW n \in Node, NEW w \in Worker, SaveForOtherReason(n, w) PROVE WinnersLead'
  <2>1. /\ Copied(Job("other", n, 0), mem[n]).kind = "other"
        /\ Copied(Job("other", n, 0), mem[n]).img = mem[n]
    BY DEF Copied, Job
  <2>2. \A m \in Node : \A t \in Thread :
          \/ job'[m][t] = job[m][t]
          \/ job'[m][t].kind = "other" /\ job'[m][t].img = mem[m]
    BY <1>9, <1>a, <2>1, StartJob DEF SaveForOtherReason
  <2> QED BY <1>9, <2>2, NoNewLeadership DEF SaveForOtherReason, netVars, histVars, callVars
<1>10. ASSUME NEW n \in Node, NEW w \in Worker, NEW r \in reqs, GrantVote(n, w, r)
       PROVE  WinnersLead'
  <2>1. \A m \in Node : mem'[m].epoch = mem[m].epoch /\ mem'[m].primary = mem[m].primary
    BY <1>10 DEF GrantVote, TypeOK, Voted
  <2>2. \A m \in Node : \A t \in Thread :
          \/ job'[m][t] = job[m][t]
          \/ job'[m][t].kind = "vote" /\ job'[m][t].img = Joined
    BY <1>10, <1>a, <1>b, StartJob DEF GrantVote
  <2> QED
    BY <1>10, <2>1, <2>2, NoNewLeadership DEF GrantVote, boundVars, histVars, callVars
<1>11. ASSUME NEW n \in Node, NEW w \in Worker, NEW a \in anns, Adopt(n, w, a)
       PROVE  WinnersLead'
  <2>1. /\ a.epoch > mem[n].epoch /\ mem' = [mem EXCEPT ![n] = Led(@, a.epoch, a.from)]
        /\ disk' = disk /\ anns' \subseteq anns /\ won' = won /\ operated' = operated
    BY <1>11 DEF Adopt, boundVars, histVars, callVars
  <2>2. a.epoch # 0 BY <2>1 DEF TypeOK, ClusterState
  <2>3. \A m \in Node : \A t \in Thread :
          \/ job'[m][t] = job[m][t]
          \/ job'[m][t].kind = "other" /\ job'[m][t].img = Joined
    BY <1>11, <1>a, <1>b, StartJob DEF Adopt
  <2>4. \A m \in Node : IF m = n THEN mem'[m].epoch = a.epoch /\ mem'[m].primary = a.from
                                 ELSE mem'[m] = mem[m]
    BY <2>1 DEF TypeOK, Led
  <2>6. \A m \in Node : /\ Elected(mem[m].epoch, mem[m].primary)'
                        /\ Elected(disk[m].epoch, disk[m].primary)'
    <3>1. Elected(a.epoch, a.from) BY <2>2 DEF WinnersLead, Elected
    <3>2. \A m \in Node : /\ Elected(mem[m].epoch, mem[m].primary)
                          /\ Elected(disk[m].epoch, disk[m].primary)
      BY DEF WinnersLead
    <3>3. TAKE m \in Node
    <3>4. CASE m = n
      <4>1. mem'[m].epoch = a.epoch /\ mem'[m].primary = a.from BY <2>4, <3>4
      <4>2. Elected(mem[m].epoch, mem[m].primary)' BY <2>1, <3>1, <4>1 DEF Elected
      <4> QED BY <2>1, <3>2, <4>2 DEF Elected
    <3>5. CASE m # n
      BY <2>1, <2>4, <3>2, <3>5 DEF Elected
    <3> QED BY <3>4, <3>5
  <2>7. \A m \in Node : \A th \in Thread : job'[m][th] # Idle =>
          /\ job'[m][th].kind = "won" => <<job'[m][th].term, m>> \in won'
          /\ Elected(job[m][th].img.epoch, job[m][th].img.primary)'
    BY <2>1, <2>3 DEF WinnersLead, Elected, Joined
  <2> QED BY <2>1, <2>6, <2>7 DEF WinnersLead
<1>12. ASSUME NEW n \in Node, NEW w \in Worker, NEW c \in calls,
              \/ ManualPromote(n, w, c) \/ JoinNode(n, w, c)
              \/ LeaveNode(n, w, c) \/ RemoveNode(n, w, c)
       PROVE  WinnersLead'
  <2>1. PICK s \in ClusterState :
          /\ Handle(n, w, c, s) /\ operated \subseteq operated'
          /\ (s.epoch = mem[n].epoch /\ s.primary = mem[n].primary) \/ s.epoch \in operated'
    BY <1>12, CallEffect
  <2>2. \A m \in Node : \/ mem'[m].epoch = mem[m].epoch /\ mem'[m].primary = mem[m].primary
                        \/ mem'[m].epoch \in operated'
    BY <2>1 DEF Handle, TypeOK
  <2>3. \A m \in Node : \A t \in Thread :
          \/ job'[m][t] = job[m][t]
          \/ job'[m][t].kind = "other" /\ job'[m][t].img = Joined
    BY <1>a, <1>b, <2>1, StartJob DEF Handle
  <2> QED BY <2>1, <2>2, <2>3, NoNewLeadership DEF Handle
<1>14. CASE UNCHANGED vars
  BY <1>2, <1>14 DEF vars, netVars, boundVars, histVars, callVars
<1>15. ASSUME NEW n \in Node,
              \/ AskTimeout(n) \/ GiveUp(n) \/ \E p \in Node : Ask(n, p)
              \/ \E r \in reqs : RefuseVote(n, r)
              \/ \E a \in anns : IgnoreAnnounce(n, a)
              \/ \E op \in Operation, m \in Node : AdmitCall(n, op, m)
              \/ \E c \in calls : CallFails(n, c)
       PROVE  WinnersLead'
  BY <1>2, <1>15
  DEF AskTimeout, GiveUp, Ask, RefuseVote, IgnoreAnnounce, AdmitCall, CallFails, netVars, boundVars, histVars, callVars
<1> QED
  BY <1>1, <1>3, <1>4, <1>5, <1>7, <1>8, <1>9, <1>10, <1>11, <1>12, <1>14,
     <1>15 DEF Next

(* Until a restart loses a counted vote, two nodes that recognise the same  *)
(* epoch recognise the same primary, unless a call (promote, leave, remove) *)
(* set a primary at that epoch or a shortened list won it: no interleaving  *)
(* of late announcements, stale two-step saves, failed writes and restarts  *)
(* puts another node's name under an epoch, for every number of nodes,      *)
(* threads, terms, crashes, shutdowns and calls.                            *)
THEOREM EpochsNameOnePrimary == Spec => []EpochNamesOnePrimary
<1>1. TypeOK /\ WinnersLead /\ ElectionSafety => EpochNamesOnePrimary
  <2> SUFFICES ASSUME TypeOK, WinnersLead, ElectionSafety, lost = {},
                      NEW m \in Node, NEW n \in Node, mem[m].epoch = mem[n].epoch,
                      mem[m].epoch \notin operated \cup thin
               PROVE  mem[m].primary = mem[n].primary
    BY DEF EpochNamesOnePrimary
  <2>1. Elected(mem[m].epoch, mem[m].primary) /\ Elected(mem[n].epoch, mem[n].primary)
    BY DEF WinnersLead
  <2> QED BY <2>1 DEF Elected, ElectionSafety
<1>2. Spec => []WinnersLead
  BY WinnersInit, WinnersStep, TypeCorrect, PTL DEF Spec
<1> QED BY <1>1, <1>2, TypeCorrect, AtMostOneWinner, PTL

-----------------------------------------------------------------------------
(* Leadership only advances.  Type correctness is enough: each handler that *)
(* changes the leadership or the vote checks the newer term itself.         *)

(* What a step may do to the leadership fields of n. *)
Advances(n) ==
  /\ mem[n].epoch <= mem'[n].epoch
  /\ mem[n].votedEpoch <= mem'[n].votedEpoch
  /\ mem[n].primary # mem'[n].primary => mem[n].epoch < mem'[n].epoch \/ Resigned(n)

(* A recorded vote of a term that is not older advances. *)
LEMMA VotedAdvances ==
  ASSUME TypeOK, NEW n \in Node, NEW t \in Nat, NEW c \in Node,
         mem[n].votedEpoch <= t,
         mem' = [mem EXCEPT ![n] = Voted(@, t, c)]
  PROVE  \A m \in Node : Advances(m)
BY DEF TypeOK, ClusterState, Voted, Advances

(* An adopted leadership of a newer epoch advances. *)
LEMMA LedAdvances ==
  ASSUME TypeOK, NEW n \in Node, NEW e \in Nat, NEW p \in Node,
         mem[n].epoch < e,
         mem' = [mem EXCEPT ![n] = Led(@, e, p)]
  PROVE  \A m \in Node : Advances(m)
BY DEF TypeOK, ClusterState, Led, Advances

(* A step that leaves the cluster states alone advances trivially.          *)
LEMMA SameAdvances ==
  ASSUME TypeOK, mem' = mem
  PROVE  \A m \in Node : Advances(m)
BY DEF TypeOK, ClusterState, Advances

(* Every step without a restart advances the leadership of every node or    *)
(* keeps it.                                                                *)
LEMMA AdvancesStep ==
  ASSUME TypeOK, [Next]_vars, crashes' = crashes
  PROVE  \A m \in Node : Advances(m)
<1> DEFINE Goal == \A m \in Node : Advances(m)
<1>1. ASSUME NEW n \in Node, StartElection(n) PROVE Goal
  <2> DEFINE term == Max2(mem[n].epoch, mem[n].votedEpoch) + 1
  <2>1. mem[n].epoch \in Nat /\ mem[n].votedEpoch \in Nat BY DEF TypeOK, ClusterState
  <2>2. term \in Nat /\ mem[n].votedEpoch <= term BY <2>1 DEF Max2
  <2>3. mem' = [mem EXCEPT ![n] = Voted(@, term, n)] BY <1>1 DEF StartElection
  <2> HIDE DEF term
  <2> QED BY <2>2, <2>3, VotedAdvances
<1>2. ASSUME NEW n \in Node, Promote(n) PROVE Goal
  <2>1. election[n].term \in Nat BY DEF TypeOK, Election
  <2> QED BY <1>2, <2>1, LedAdvances DEF Promote
<1>3. ASSUME NEW n \in Node, NEW w \in Worker, NEW r \in reqs, GrantVote(n, w, r) PROVE Goal
  <2>1. r.term \in Nat /\ r.cand \in Node BY DEF TypeOK
  <2>2. mem[n].votedEpoch \in Nat /\ mem[n].votedEpoch <= r.term
    BY <1>3, <2>1 DEF GrantVote, MayVote, TypeOK, ClusterState
  <2>3. mem' = [mem EXCEPT ![n] = Voted(@, r.term, r.cand)] BY <1>3 DEF GrantVote
  <2> QED BY <2>1, <2>2, <2>3, VotedAdvances
<1>4. ASSUME NEW n \in Node, NEW w \in Worker, NEW a \in anns, Adopt(n, w, a) PROVE Goal
  <2>1. a.epoch \in Nat /\ a.from \in Node BY DEF TypeOK
  <2>2. mem[n].epoch \in Nat BY DEF TypeOK, ClusterState
  <2>3. mem[n].epoch < a.epoch /\ mem' = [mem EXCEPT ![n] = Led(@, a.epoch, a.from)]
    BY <1>4, <2>1, <2>2 DEF Adopt
  <2> QED BY <2>1, <2>3, LedAdvances
<1>5. ASSUME NEW n \in Node, NEW w \in Worker, NEW c \in calls,
             \/ ManualPromote(n, w, c) \/ JoinNode(n, w, c)
             \/ LeaveNode(n, w, c) \/ RemoveNode(n, w, c)
      PROVE  Goal
  <2>1. PICK s \in ClusterState :
          /\ Handle(n, w, c, s)
          /\ s.votedEpoch = mem[n].votedEpoch
          /\ mem[n].epoch <= s.epoch
          /\ s.primary = mem[n].primary \/ s.epoch > mem[n].epoch \/ Resigned(n)
    BY <1>5, CallEffect
  <2>2. \A m \in Node : mem'[m] = IF m = n THEN s ELSE mem[m]
    BY <2>1 DEF Handle, TypeOK
  <2>3. \A m \in Node : mem[m].epoch \in Nat /\ mem[m].votedEpoch \in Nat
    BY DEF TypeOK, ClusterState
  <2>4. s.epoch \in Nat BY DEF ClusterState
  <2> QED BY <2>1, <2>2, <2>3, <2>4 DEF Advances
<1>6. ASSUME NEW n \in Node, CrashRestart(n) \/ Shutdown(n) PROVE Goal
  <2>1. PICK s \in ClusterState : Restart(n, s) BY <1>6, RestartEffect
  <2>2. crashes' = crashes + 1 /\ crashes \in Nat BY <2>1 DEF Restart, TypeOK
  <2> QED BY <2>2
<1>7. ASSUME mem' = mem PROVE Goal
  BY <1>7, SameAdvances
<1>8. CASE UNCHANGED vars
  BY <1>7, <1>8 DEF vars
<1>9. ASSUME NEW n \in Node,
             \/ AskTimeout(n) \/ GiveUp(n) \/ \E p \in Node : Ask(n, p)
             \/ \E th \in Thread : Clone(n, th) \/ Persist(n, th) \/ PersistFails(n, th)
             \/ \E w \in Worker : SaveForOtherReason(n, w)
             \/ \E op \in Operation, m \in Node : AdmitCall(n, op, m)
             \/ \E c \in calls : CallFails(n, c)
             \/ \E r \in reqs : RefuseVote(n, r)
             \/ \E a \in anns : IgnoreAnnounce(n, a)
      PROVE  Goal
  <2>1. mem' = mem
    BY <1>9 DEF AskTimeout, GiveUp, Ask, Clone, Persist, PersistFails,
                SaveForOtherReason, AdmitCall, CallFails, RefuseVote,
                IgnoreAnnounce
  <2> QED BY <1>7, <2>1
<1> QED BY <1>1, <1>2, <1>3, <1>4, <1>5, <1>6, <1>8, <1>9 DEF Next

(* A running node changes its primary only with a larger epoch or because   *)
(* the primary left or was removed, and neither its epoch nor the term it   *)
(* voted in goes back, for every number of nodes, threads, terms, crashes,  *)
(* shutdowns and calls.                                                     *)
THEOREM LeadershipOnlyAdvances == Spec => LeadershipAdvances
<1>1. TypeOK /\ [Next]_vars =>
        [\A n \in Node : crashes' = crashes =>
           /\ mem[n].epoch <= mem'[n].epoch
           /\ mem[n].votedEpoch <= mem'[n].votedEpoch
           /\ mem[n].primary # mem'[n].primary =>
                mem[n].epoch < mem'[n].epoch \/ Resigned(n)]_vars
  BY AdvancesStep DEF Advances
<1> QED BY <1>1, TypeCorrect, PTL DEF Spec, LeadershipAdvances

=============================================================================
