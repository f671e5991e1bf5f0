----------------------- MODULE ClusterFailover_proofs -----------------------
(***************************************************************************)
(* Proofs about ClusterFailover, for every set of members and of writes,   *)
(* every number of cuts, restarts, calls and terms, and with late          *)
(* heartbeats.                                                             *)
(***************************************************************************)
EXTENDS ClusterFailover, Subsequence_proofs

-----------------------------------------------------------------------------
(* The inductive invariant *)

Progress == Nat \X Nat \X Nat

ElectionType == [term : 0..MaxTerm, asked : SUBSET Node, got : SUBSET Node,
                 rank : Progress, owed : SUBSET Write]

WriteType == [at : Node \cup {NoNode}, epoch : 0..MaxTerm, pos : Position, to : SUBSET Node]

(* The types of the variables TypeOK says little about. *)
FullTypeOK ==
  /\ TypeOK
  /\ election \in [Node -> ElectionType]
  /\ anns \subseteq [from : Node, epoch : 1..MaxTerm]
  /\ entry \in [Node -> [Node -> Progress]]
  /\ write \in [Write -> WriteType]
  /\ takeover \in [by : Node \cup {NoNode}, got : SUBSET Node, owed : SUBSET Write]

(* A vote that a running election counts is recorded by the voter, and two  *)
(* elections of one term share no voter.                                    *)
VotesRight ==
  /\ \A n \in Node : election[n] = NoElection \/ election[n].term > 0
  /\ \A n \in Node : \A m \in election[n].got : voted[m].term >= election[n].term
  /\ \A n, m \in Node : n # m /\ election[n].term = election[m].term
                          => election[n].got \cap election[m].got = {}

(* A majority voted for the leadership announced, and none of its voters is *)
(* counted by another election of that term.                                *)
Backs(Q, a) ==
  /\ Quorum(Q)
  /\ \A k \in Q : /\ voted[k].term >= a.epoch
                  /\ \A n \in Node : n # a.from /\ election[n].term = a.epoch
                                       => k \notin election[n].got

Leads(n, e) == IF e = 0 THEN n = FirstPrimary ELSE [from |-> n, epoch |-> e] \in anns

(* Every epoch was won by one node, and that is the one recognised in it,   *)
(* unless a call named a primary in it.                                     *)
LeadersRight ==
  /\ \A a \in anns : \E Q \in SUBSET Node : Backs(Q, a)
  /\ \A a, b \in anns : a.epoch = b.epoch => a.from = b.from
  /\ \A n \in Node : lead[n].epoch \in operated \/ Leads(lead[n].primary, lead[n].epoch)

(* A write was admitted by the primary of the epoch it was admitted in, and *)
(* a node gives no op_seq twice, but for the numbers a restart forgot.      *)
WritesRight ==
  /\ \A w \in Write : Admitted(w) => \/ write[w].epoch \in operated
                                     \/ Leads(write[w].at, write[w].epoch)
  /\ \A w \in Write : Recorded(w) =>
       Admitted(w) /\ (w \in lost \/ write[w].pos[2] <= opSeq[write[w].at])
  /\ \A v, w \in Write \ lost : v # w /\ Recorded(v) /\ Recorded(w) /\ write[v].at = write[w].at
                                  => write[v].pos[2] # write[w].pos[2]
  /\ \A w \in lost : Recorded(w)

(* No number is above N. *)
Bounded(N) ==
  /\ opSeq[FirstPrimary] <= N
  /\ \A n \in Node : pos[n][2] <= N
  /\ \A w \in Write : write[w].pos[2] <= N

(* The parts of FirstTermRight about the writes and the positions: a number *)
(* up to op_seq was given to a write, one above it that a replica holds was *)
(* forgotten by a restart, and a replica has the write of each position it  *)
(* passed, or the other write that got it.                                  *)
WritesInFirstTerm ==
  /\ \A w \in Write : Admitted(w) => write[w].at = FirstPrimary
  /\ \A w \in Write : write[w].pos[1] = 0
  /\ \A n \in Node : pos[n][1] = 0
  /\ \E N \in Nat : Bounded(N)
  /\ \A s \in 1..opSeq[FirstPrimary] : \E v \in Write : write[v].pos[2] = s
  /\ \A n \in Node : \A s \in (opSeq[FirstPrimary] + 1)..pos[n][2] :
       \E v \in lost : write[v].pos[2] = s
  /\ \A n \in Node \ {FirstPrimary}, w \in Write :
       Recorded(w) /\ write[w].pos[2] <= pos[n][2] => w \in data[n] \/ Reissued(w)

(* Before an election is won or a call names a primary: the first primary   *)
(* writes alone, and counts no position a replica has not reached.          *)
FirstTermRight ==
  /\ \A n \in Node : lead[n] = [epoch |-> 0, primary |-> FirstPrimary]
  /\ WritesInFirstTerm
  /\ \A n \in Node \ {FirstPrimary} :
       entry[FirstPrimary][n][1] = 0 /\ entry[FirstPrimary][n][2] <= pos[n][2]

(* The nodes of C have reached seq, and the candidate of e has too if one   *)
(* of them voted for it.                                                    *)
Covers(C, e, seq) ==
  /\ Quorum(C)
  /\ \A m \in C \ {FirstPrimary} : /\ seq <= pos[m][2]
                                   /\ m \in e.got => seq <= e.rank[2]

(* The candidate of an election of the first term has applied what its rank *)
(* says, and a quorum had reached each write the election owes.             *)
CandidateRight(n) ==
  /\ n # FirstPrimary
  /\ election[n].rank[1] = 0 /\ election[n].rank[2] <= pos[n][2]
  /\ \A w \in election[n].owed :
       Recorded(w) /\ \E C \in SUBSET Node : Covers(C, election[n], write[w].pos[2])

CandidatesRight == \A n \in Node : election[n] # NoElection => CandidateRight(n)

TakeoverRight ==
  /\ operated = {} => (takeover = NoTakeover <=> anns = {})
  /\ takeover # NoTakeover => takeover.by \in Node /\ \A w \in takeover.owed : Recorded(w)
  /\ anns = {} /\ operated = {} => FirstTermRight /\ CandidatesRight
  /\ TakeoverKeepsCommitted

IndInv == FullTypeOK /\ VotesRight /\ LeadersRight /\ WritesRight /\ TakeoverRight

-----------------------------------------------------------------------------
(* Lemmas about the operators *)

(* The initial records are well typed. *)
LEMMA ConstantTypes ==
  /\ NoElection \in ElectionType
  /\ NewWrite \in WriteType
  /\ NoTakeover \in [by : Node \cup {NoNode}, got : SUBSET Node, owed : SUBSET Write]
BY FailoverAssumption
   DEF NoElection, NewWrite, NoTakeover, ElectionType, WriteType, NoProgress, Progress, Position

(* The ages a node sees stay ages when it marks itself seen. *)
LEMMA SelfSeenType ==
  ASSUME NEW ages \in [Node -> Age]
  PROVE  SelfSeen(ages) \in [Node -> Age]
BY DEF SelfSeen, Age

(* A node's counter of applied operations is a number. *)
LEMMA AppliedOpsType ==
  ASSUME FullTypeOK, NEW n \in Node
  PROVE  AppliedOps(n) \in Nat
<1>1. {w \in data[n] : write[w].at # n} \subseteq Write BY DEF FullTypeOK, TypeOK
<1>2. IsFiniteSet({w \in data[n] : write[w].at # n})
  BY <1>1, FailoverAssumption, FS_Subset
<1> QED BY <1>2, FS_CardinalityType DEF AppliedOps

(* A node's rank, and what a member list has of it, are progress. *)
LEMMA RankType ==
  ASSUME FullTypeOK, NEW n \in Node
  PROVE  Rank(n) \in Progress
BY AppliedOpsType DEF Rank, FullTypeOK, TypeOK, Position, Progress

(* What a heartbeat leaves in the member list is well typed.                *)
LEMMA HeardType ==
  ASSUME FullTypeOK, NEW n \in Node, NEW e \in Progress
  PROVE  Heard(e, n) \in Progress
<1>1. Holds(n) \in Position
  BY DEF Holds, FullTypeOK, TypeOK, Position
<1>2. <<e[1], e[2]>> \in Position BY DEF Progress, Position
<1>3. Newer(<<e[1], e[2]>>, Holds(n)) \in Position BY <1>1, <1>2 DEF Newer
<1>4. e[3] \in Nat BY DEF Progress
<1> QED BY <1>3, <1>4, AppliedOpsType DEF Heard, Progress, Position

-----------------------------------------------------------------------------
(* Type correctness *)

(* The state of the cluster keeps its type. *)
LEMMA TypeInit == Init => FullTypeOK
<1> SUFFICES ASSUME Init PROVE FullTypeOK OBVIOUS
<1>1. TypeOK
  <2>1. FirstPrimary \in Node BY FailoverAssumption
  <2>2. 0 \in 0..MaxTerm BY FailoverAssumption
  <2>3. election \in [Node -> {NoElection}] /\ write \in [Write -> {NewWrite}] BY DEF Init
  <2>4. \A n \in Node : election[n].got = {} /\ election[n].asked = {}
    BY <2>3 DEF NoElection
  <2>5. \A w \in Write : write[w].to = {} /\ write[w].pos \in Position
    BY <2>3 DEF NewWrite, Position
  <2> QED BY <2>1, <2>2, <2>4, <2>5 DEF Init, TypeOK, Age, Position
<1> QED BY <1>1, ConstantTypes, FailoverAssumption DEF Init, FullTypeOK, NoProgress, Progress

(* Every step keeps the types, one step per action.                         *)
LEMMA TypeStep == FullTypeOK /\ [Next]_vars => FullTypeOK'
<1> SUFFICES ASSUME FullTypeOK, [Next]_vars PROVE FullTypeOK' OBVIOUS
<1> USE FailoverAssumption
<1>1. ASSUME NEW n \in Node, CutOff(n) \/ Heal(n) PROVE FullTypeOK'
  BY <1>1 DEF CutOff, Heal, FullTypeOK, TypeOK, leadVars, viewVars, dataVars, seqVars
<1>2. ASSUME NEW n \in Node, StartElection(n) PROVE FullTypeOK'
  <2> DEFINE t == lead[n].epoch
             v == voted[n].term
             term == (IF t > v THEN t ELSE v) + 1
             e == [term |-> term, asked |-> {n}, got |-> {n}, rank |-> Rank(n), owed |-> Committed]
  <2>0. t \in 0..MaxTerm /\ v \in 0..MaxTerm /\ term <= MaxTerm
    <3>1. t \in 0..MaxTerm /\ v \in 0..MaxTerm BY DEF FullTypeOK, TypeOK
    <3> QED BY <1>2, <3>1 DEF StartElection
  <2>1. term \in 0..MaxTerm BY <2>0
  <2>2. Rank(n) \in Progress BY RankType
  <2>3. Committed \in SUBSET Write BY DEF Committed
  <2>4. e \in ElectionType BY <2>1, <2>2, <2>3 DEF ElectionType
  <2>5. /\ election' = [election EXCEPT ![n] = e]
        /\ voted' = [voted EXCEPT ![n] = [term |-> term, cand |-> n]]
    BY <1>2 DEF StartElection
  <2>6. e.got \subseteq e.asked /\ e.asked \subseteq Node OBVIOUS
  <2> HIDE DEF term, e
  <2>7. election' \in [Node -> ElectionType] BY <2>4, <2>5 DEF FullTypeOK
  <2>8. \A k \in Node : election'[k].got \subseteq election'[k].asked /\ election'[k].asked \subseteq Node
    BY <2>5, <2>6 DEF FullTypeOK, TypeOK
  <2>9. voted' \in [Node -> [term : 0..MaxTerm, cand : Node \cup {NoNode}]]
    BY <2>1, <2>5 DEF FullTypeOK, TypeOK
  <2> QED BY <1>2, <2>7, <2>8, <2>9
        DEF StartElection, FullTypeOK, TypeOK, viewVars, dataVars, seqVars
<1>3. ASSUME NEW n \in Node, NEW m \in Node, NEW heard \in BOOLEAN, Vote(n, m, heard)
      PROVE FullTypeOK'
  <2>1. /\ election' = [election EXCEPT ![n].asked = @ \cup {m},
                                        ![n].got = IF heard THEN @ \cup {m} ELSE @]
        /\ voted' = [voted EXCEPT ![m] = [term |-> election[n].term, cand |-> n]]
    BY <1>3 DEF Vote
  <2>2. election[n].term \in 0..MaxTerm BY DEF FullTypeOK, ElectionType
  <2>3. voted' \in [Node -> [term : 0..MaxTerm, cand : Node \cup {NoNode}]]
    BY <2>1, <2>2 DEF FullTypeOK, TypeOK
  <2>4. election' \in [Node -> ElectionType]
    <3> DEFINE e == election[n]
               got == IF heard THEN e.got \cup {m} ELSE e.got
               f == [e EXCEPT !.asked = @ \cup {m}, !.got = got]
    <3>1. e \in ElectionType BY DEF FullTypeOK
    <3>2. got \in SUBSET Node BY <3>1 DEF ElectionType
    <3> HIDE DEF e, got
    <3>3. e.asked \cup {m} \in SUBSET Node BY <3>1 DEF ElectionType
    <3>4. f \in ElectionType BY <3>1, <3>2, <3>3 DEF ElectionType
    <3>5. election' = [election EXCEPT ![n] = f]
      BY <2>1, <3>1 DEF FullTypeOK, ElectionType, e, got
    <3> HIDE DEF f
    <3> QED BY <3>4, <3>5 DEF FullTypeOK
  <2>50. \A k \in Node : election[k].got \subseteq election[k].asked /\ election[k].asked \subseteq Node
    BY DEF FullTypeOK, TypeOK
  <2>51. election \in [Node -> ElectionType] BY DEF FullTypeOK
  <2>5. \A k \in Node : election'[k].got \subseteq election'[k].asked /\ election'[k].asked \subseteq Node
    BY <2>1, <2>50, <2>51 DEF ElectionType
  <2> QED BY <1>3, <2>3, <2>4, <2>5 DEF Vote, FullTypeOK, TypeOK, viewVars, dataVars, seqVars
<1>4. ASSUME NEW n \in Node, NEW m \in Node, NoVote(n, m) PROVE FullTypeOK'
  <2>1. election' = [election EXCEPT ![n].asked = @ \cup {m}] BY <1>4 DEF NoVote
  <2>4. election' \in [Node -> ElectionType]
    <3> DEFINE f == [election[n] EXCEPT !.asked = @ \cup {m}]
    <3>1. election[n] \in ElectionType BY DEF FullTypeOK
    <3>2. election[n].asked \cup {m} \in SUBSET Node BY <3>1 DEF ElectionType
    <3>3. f \in ElectionType BY <3>1, <3>2 DEF ElectionType
    <3>4. election' = [election EXCEPT ![n] = f] BY <2>1 DEF FullTypeOK
    <3> HIDE DEF f
    <3> QED BY <3>3, <3>4 DEF FullTypeOK
  <2>50. \A k \in Node : election[k].got \subseteq election[k].asked /\ election[k].asked \subseteq Node
    BY DEF FullTypeOK, TypeOK
  <2>51. election \in [Node -> ElectionType] BY DEF FullTypeOK
  <2>5. \A k \in Node : election'[k].got \subseteq election'[k].asked /\ election'[k].asked \subseteq Node
    BY <2>1, <2>50, <2>51 DEF ElectionType
  <2> QED BY <1>4, <2>4, <2>5 DEF NoVote, FullTypeOK, TypeOK, viewVars, dataVars, seqVars
<1>5. ASSUME NEW n \in Node, Win(n) PROVE FullTypeOK'
  <2> DEFINE e == election[n]
  <2>1. e.term \in 1..MaxTerm
    BY <1>5 DEF Win, FullTypeOK, TypeOK, ElectionType
  <2>2. lead' \in [Node -> [epoch : 0..MaxTerm, primary : Node]]
    BY <1>5, <2>1 DEF Win, FullTypeOK, TypeOK
  <2>3. view' \in [Node -> [Node -> Age]]
    BY <1>5, SelfSeenType DEF Win, FullTypeOK, TypeOK
  <2>4. anns' \subseteq [from : Node, epoch : 1..MaxTerm]
    BY <1>5, <2>1 DEF Win, FullTypeOK
  <2>5. takeover' \in [by : Node \cup {NoNode}, got : SUBSET Node, owed : SUBSET Write]
    <3>1. e.got \in SUBSET Node /\ e.owed \in SUBSET Write BY DEF FullTypeOK, ElectionType
    <3>2. [by |-> n, got |-> e.got, owed |-> e.owed]
            \in [by : Node \cup {NoNode}, got : SUBSET Node, owed : SUBSET Write]
      BY <3>1
    <3>3. \/ takeover' = [by |-> n, got |-> e.got, owed |-> e.owed]
          \/ takeover' = takeover
      BY <1>5 DEF Win
    <3> QED BY <3>2, <3>3 DEF FullTypeOK
  <2>6. election' = [election EXCEPT ![n] = NoElection] BY <1>5 DEF Win
  <2>7. election' \in [Node -> ElectionType] BY <2>6, ConstantTypes DEF FullTypeOK
  <2>8. \A k \in Node : election'[k].got \subseteq election'[k].asked /\ election'[k].asked \subseteq Node
    BY <2>6 DEF FullTypeOK, TypeOK, NoElection
  <2> QED BY <1>5, <2>2, <2>3, <2>4, <2>5, <2>7, <2>8
        DEF Win, FullTypeOK, TypeOK, dataVars, seqVars
<1>6. ASSUME NEW n \in Node, Lose(n) PROVE FullTypeOK'
  <2>6. election' = [election EXCEPT ![n] = NoElection] BY <1>6 DEF Lose
  <2>7. election' \in [Node -> ElectionType] BY <2>6, ConstantTypes DEF FullTypeOK
  <2>8. \A k \in Node : election'[k].got \subseteq election'[k].asked /\ election'[k].asked \subseteq Node
    BY <2>6 DEF FullTypeOK, TypeOK, NoElection
  <2> QED BY <1>6, <2>7, <2>8 DEF Lose, FullTypeOK, TypeOK, viewVars, dataVars, seqVars
<1>7. ASSUME NEW m \in Node, NEW w \in Write, Apply(m, w) PROVE FullTypeOK'
  <2>1. write[w].pos \in Position BY DEF FullTypeOK, TypeOK
  <2> QED BY <1>7, <2>1 DEF Apply, FullTypeOK, TypeOK, leadVars, viewVars, seqVars
<1>8. ASSUME NEW n \in Node, CatchUp(n) PROVE FullTypeOK'
  <2>1. PICK i \in 1..Len(log[lead[n].primary]) : Apply(n, log[lead[n].primary][i])
    BY <1>8 DEF CatchUp
  <2>2. log[lead[n].primary] \in Seq(Write) BY DEF FullTypeOK, TypeOK
  <2>3. log[lead[n].primary][i] \in Write BY <2>2
  <2> QED BY <1>7, <2>1, <2>3
<1>9. ASSUME NEW n \in Node, NEW peers \in SUBSET Peers(n), Heartbeat(n, peers) PROVE FullTypeOK'
  <2>1. view' \in [Node -> [Node -> Age]]
    BY <1>9 DEF Heartbeat, FullTypeOK, TypeOK, Age
  <2>2. \A m \in Node : Heard(entry[m][n], n) \in Progress
    BY HeardType DEF FullTypeOK
  <2>3. \A m \in Node : [entry[m] EXCEPT ![n] = Heard(@, n)] \in [Node -> Progress]
    BY <2>2 DEF FullTypeOK
  <2>4. entry' \in [Node -> [Node -> Progress]]
    BY <1>9, <2>3 DEF Heartbeat, FullTypeOK
  <2> QED BY <1>9, <2>1, <2>4 DEF Heartbeat, FullTypeOK, TypeOK, leadVars, dataVars, seqVars
<1>10. ASSUME NEW n \in Node, NEW m \in Node, Expire(n, m) PROVE FullTypeOK'
  <2>1. view' \in [Node -> [Node -> Age]]
    BY <1>10 DEF Expire, FullTypeOK, TypeOK, Age
  <2> QED BY <1>10, <2>1 DEF Expire, FullTypeOK, TypeOK, leadVars, dataVars, seqVars
<1>11. ASSUME NEW n \in Node, NEW a \in anns, Adopt(n, a) PROVE FullTypeOK'
  <2>1. a.from \in Node /\ a.epoch \in 0..MaxTerm BY DEF FullTypeOK
  <2>2. view' \in [Node -> [Node -> Age]]
    BY <1>11 DEF Adopt, FullTypeOK, TypeOK, Age
  <2>3. lead' \in [Node -> [epoch : 0..MaxTerm, primary : Node]]
    BY <1>11, <2>1 DEF Adopt, FullTypeOK, TypeOK
  <2> QED BY <1>11, <2>2, <2>3 DEF Adopt, FullTypeOK, TypeOK, dataVars, seqVars
<1>12. ASSUME NEW n \in Node, NEW w \in Write, Admit(n, w) PROVE FullTypeOK'
  <2> DEFINE r == [at |-> n, epoch |-> lead[n].epoch, pos |-> <<0, 0>>, to |-> {}]
  <2>1. r \in WriteType /\ r.to \subseteq Node /\ r.pos \in Position
    BY DEF WriteType, Position, FullTypeOK, TypeOK
  <2>2. write' = [write EXCEPT ![w] = r] BY <1>12 DEF Admit
  <2> HIDE DEF r
  <2>3. /\ write' \in [Write -> WriteType]
        /\ \A v \in Write : write'[v].to \subseteq Node /\ write'[v].pos \in Position
    BY <2>1, <2>2 DEF FullTypeOK, TypeOK
  <2> QED BY <1>12, <2>3 DEF Admit, FullTypeOK, TypeOK, leadVars, viewVars, seqVars
<1>13. ASSUME NEW w \in Write, Record(w) PROVE FullTypeOK'
  <2> DEFINE n == write[w].at
             r == [at |-> n, epoch |-> write[w].epoch, pos |-> <<lead[n].epoch, opSeq[n] + 1>>,
                   to |-> Node \ {n, lead[n].primary}]
  <2>1. n \in Node BY <1>13 DEF Record, Admitted, FullTypeOK, WriteType
  <2>2. r \in WriteType /\ r.to \subseteq Node /\ r.pos \in Position
    <3>1. write[w].epoch \in 0..MaxTerm BY DEF FullTypeOK, WriteType
    <3>2. lead[n].epoch \in Nat /\ opSeq[n] + 1 \in Nat BY <2>1 DEF FullTypeOK, TypeOK
    <3>3. <<lead[n].epoch, opSeq[n] + 1>> \in Position BY <3>2 DEF Position
    <3> HIDE DEF n
    <3> QED BY <2>1, <3>1, <3>3 DEF WriteType
  <2>3. write' = [write EXCEPT ![w] = r] BY <1>13 DEF Record
  <2>4. opSeq' \in [Node -> Nat] BY <1>13, <2>1, SMTT(30) DEF Record, FullTypeOK, TypeOK
  <2>5. log' \in [Node -> Seq(Write)] BY <1>13, <2>1 DEF Record, FullTypeOK, TypeOK
  <2>6. data' \in [Node -> SUBSET Write] BY <1>13, <2>1 DEF Record, FullTypeOK, TypeOK
  <2> HIDE DEF r
  <2>7. /\ write' \in [Write -> WriteType]
        /\ \A v \in Write : write'[v].to \subseteq Node /\ write'[v].pos \in Position
    BY <2>2, <2>3 DEF FullTypeOK, TypeOK
  <2> QED BY <1>13, <2>4, <2>5, <2>6, <2>7 DEF Record, FullTypeOK, TypeOK, leadVars, viewVars, seqVars
<1>15. ASSUME NEW n \in Node, NEW s \in saved[n]..opSeq[n], Restart(n, s) PROVE FullTypeOK'
  <2>1. s \in Nat BY DEF FullTypeOK, TypeOK
  <2>2. opSeq' \in [Node -> Nat] /\ saved' \in [Node -> Nat] /\ lost' \subseteq Write
    BY <1>15, <2>1 DEF Restart, FullTypeOK, TypeOK
  <2>3. log' \in [Node -> Seq(Write)] BY <1>15 DEF Restart, FullTypeOK, TypeOK
  <2>4. view' \in [Node -> [Node -> Age]]
    BY <1>15, SelfSeenType DEF Restart, FullTypeOK, TypeOK
  <2>5. write' \in [Write -> WriteType] BY <1>15, ConstantTypes DEF Restart, FullTypeOK
  <2>6. \A w \in Write : write'[w].to \subseteq Node /\ write'[w].pos \in Position
    BY <2>5 DEF WriteType
  <2>7. election' = [election EXCEPT ![n] = NoElection] BY <1>15 DEF Restart
  <2>8. election' \in [Node -> ElectionType] BY <2>7, ConstantTypes DEF FullTypeOK
  <2>9. \A k \in Node : election'[k].got \subseteq election'[k].asked /\ election'[k].asked \subseteq Node
    BY <2>7 DEF FullTypeOK, TypeOK, NoElection
  <2> QED BY <1>15, <2>2, <2>3, <2>4, <2>5, <2>6, <2>8, <2>9 DEF Restart, FullTypeOK, TypeOK
<1>16. ASSUME NEW n \in Node, NEW p \in Node, PromoteCall(n, p) \/ LeaveCall(n, p) PROVE FullTypeOK'
  <2>1. view' \in [Node -> [Node -> Age]]
    <3>1. CASE PromoteCall(n, p)
      BY <3>1, SelfSeenType DEF PromoteCall, FullTypeOK, TypeOK, Age
    <3>2. CASE LeaveCall(n, p) BY <3>2 DEF LeaveCall, FullTypeOK, TypeOK, Age
    <3> QED BY <1>16, <3>1, <3>2
  <2>2. lead' \in [Node -> [epoch : 0..MaxTerm, primary : Node]]
    <3>1. lead \in [Node -> [epoch : 0..MaxTerm, primary : Node]] BY DEF FullTypeOK, TypeOK
    <3>2. CASE PromoteCall(n, p) BY <3>1, <3>2 DEF PromoteCall
    <3>3. CASE LeaveCall(n, p) BY <3>1, <3>3 DEF LeaveCall
    <3> QED BY <1>16, <3>2, <3>3
  <2> QED BY <1>16, <2>1, <2>2
        DEF PromoteCall, LeaveCall, FullTypeOK, TypeOK, dataVars, seqVars
<1>14. CASE UNCHANGED vars
  BY <1>14 DEF vars, FullTypeOK, TypeOK, leadVars, viewVars, dataVars, seqVars
<1> QED BY <1>1, <1>2, <1>3, <1>4, <1>5, <1>6, <1>7, <1>8, <1>9, <1>10, <1>11, <1>12, <1>13, <1>14,
      <1>15, <1>16
      DEF Next, ElectionStep, FanOut

(* The type invariant with the fields that TypeOK leaves out.               *)
LEMMA FullTypeCorrect == Spec => []FullTypeOK
BY TypeInit, TypeStep, PTL DEF Spec

(* The state of the nodes, their elections, their views and the writes      *)
(* keeps its type; an election counts votes only of nodes it asked.         *)
THEOREM TypeCorrect == Spec => []TypeOK
<1>1. FullTypeOK => TypeOK BY DEF FullTypeOK
<1> QED BY <1>1, FullTypeCorrect, PTL

-----------------------------------------------------------------------------
(* Votes: no voter is counted twice in a term *)

(* Only the election steps, the announcements, restarts and calls touch the *)
(* leadership.                                                              *)
LEMMA LeadershipSteps ==
  ASSUME [Next]_vars
  PROVE  \/ \E n \in Node : StartElection(n) \/ Win(n) \/ Lose(n)
         \/ \E n, m \in Node : NoVote(n, m) \/ \E heard \in BOOLEAN : Vote(n, m, heard)
         \/ \E n \in Node, a \in anns : Adopt(n, a)
         \/ \E n \in Node : \E s \in saved[n]..opSeq[n] : Restart(n, s)
         \/ \E n, p \in Node : PromoteCall(n, p) \/ LeaveCall(n, p)
         \/ UNCHANGED leadVars
BY DEF Next, ElectionStep, vars, CutOff, Heal, CatchUp, Heartbeat, Expire, Record, Admit, FanOut,
       Apply

(* What a vote changes. *)
LEMMA VoteFields ==
  ASSUME FullTypeOK, NEW n \in Node, NEW m \in Node, NEW heard \in BOOLEAN, Vote(n, m, heard)
  PROVE  /\ \A k \in Node \ {n} : election'[k] = election[k]
         /\ election'[n].term = election[n].term
         /\ election'[n].rank = election[n].rank /\ election'[n].owed = election[n].owed
         /\ election'[n].got \subseteq election[n].got \cup {m}
         /\ election'[n] # NoElection
         /\ voted'[m].term = election[n].term
         /\ \A k \in Node \ {m} : voted'[k] = voted[k]
         /\ voted[m].term < election[n].term
<1> DEFINE e == election[n]
           f == [e EXCEPT !.asked = @ \cup {m}, !.got = IF heard THEN @ \cup {m} ELSE @]
<1>1. e \in ElectionType BY DEF FullTypeOK
<1>2. election' = [election EXCEPT ![n] = f]
  BY <1>1 DEF Vote, FullTypeOK, ElectionType
<1>3. /\ f.term = e.term /\ f.rank = e.rank /\ f.owed = e.owed /\ f.asked = e.asked \cup {m}
      /\ f.got \subseteq e.got \cup {m}
  BY <1>1 DEF ElectionType
<1> HIDE DEF f
<1>4. f # NoElection BY <1>3 DEF NoElection
<1>5. election'[n] = f /\ \A k \in Node \ {n} : election'[k] = election[k]
  BY <1>2 DEF FullTypeOK
<1>6. voted' = [voted EXCEPT ![m] = [term |-> e.term, cand |-> n]] /\ voted[m].term < e.term
  BY <1>1 DEF Vote, MayVote, FullTypeOK, TypeOK, ElectionType
<1>7. voted'[m].term = e.term /\ \A k \in Node \ {m} : voted'[k] = voted[k]
  BY <1>6 DEF FullTypeOK, TypeOK
<1> QED BY <1>3, <1>4, <1>5, <1>6, <1>7

(* What a refusal changes. *)
LEMMA NoVoteFields ==
  ASSUME FullTypeOK, NEW n \in Node, NEW m \in Node, NoVote(n, m)
  PROVE  /\ \A k \in Node \ {n} : election'[k] = election[k]
         /\ election'[n].term = election[n].term
         /\ election'[n].rank = election[n].rank /\ election'[n].owed = election[n].owed
         /\ election'[n].got = election[n].got
         /\ election[n] # NoElection /\ election'[n] # NoElection
<1> DEFINE e == election[n]
           f == [e EXCEPT !.asked = @ \cup {m}]
<1>1. e \in ElectionType BY DEF FullTypeOK
<1>2. election' = [election EXCEPT ![n] = f]
  BY <1>1 DEF NoVote, FullTypeOK, ElectionType
<1>3. /\ f.term = e.term /\ f.rank = e.rank /\ f.owed = e.owed /\ f.asked = e.asked \cup {m}
      /\ f.got = e.got
  BY <1>1 DEF ElectionType
<1> HIDE DEF f
<1>4. f # NoElection BY <1>3 DEF NoElection
<1>5. election'[n] = f /\ \A k \in Node \ {n} : election'[k] = election[k]
  BY <1>2 DEF FullTypeOK
<1> QED BY <1>3, <1>4, <1>5 DEF NoVote

(* What the start of an election changes. *)
LEMMA StartFields ==
  ASSUME FullTypeOK, NEW n \in Node, StartElection(n)
  PROVE  /\ \A k \in Node \ {n} : election'[k] = election[k] /\ voted'[k] = voted[k]
         /\ election'[n].term \in Nat /\ election'[n].term > 0 /\ election'[n].got = {n}
         /\ election'[n].rank = Rank(n) /\ election'[n].owed = Committed
         /\ voted'[n].term = election'[n].term /\ voted[n].term < election'[n].term
<1> DEFINE t == lead[n].epoch
           v == voted[n].term
           term == (IF t > v THEN t ELSE v) + 1
           e == [term |-> term, asked |-> {n}, got |-> {n}, rank |-> Rank(n), owed |-> Committed]
<1>1. term \in Nat /\ term > 0 /\ v < term BY DEF FullTypeOK, TypeOK
<1>2. /\ election' = [election EXCEPT ![n] = e]
      /\ voted' = [voted EXCEPT ![n] = [term |-> term, cand |-> n]]
  BY DEF StartElection
<1>3. e.term = term /\ e.got = {n} /\ e.rank = Rank(n) /\ e.owed = Committed OBVIOUS
<1> HIDE DEF e, term
<1>4. /\ election'[n] = e /\ \A k \in Node \ {n} : election'[k] = election[k]
      /\ voted'[n].term = term /\ \A k \in Node \ {n} : voted'[k] = voted[k]
  BY <1>2 DEF FullTypeOK, TypeOK
<1> QED BY <1>1, <1>3, <1>4

(* What the end of an election changes. *)
LEMMA EndFields ==
  ASSUME FullTypeOK, NEW n \in Node, Win(n) \/ Lose(n)
  PROVE  /\ \A k \in Node \ {n} : election'[k] = election[k]
         /\ election'[n] = NoElection /\ voted' = voted
BY DEF Win, Lose, FullTypeOK

(* A restart ends the election of its node. *)
LEMMA RestartFields ==
  ASSUME FullTypeOK, NEW n \in Node, NEW s, Restart(n, s)
  PROVE  /\ \A k \in Node \ {n} : election'[k] = election[k]
         /\ election'[n] = NoElection
         /\ voted' = voted /\ lead' = lead /\ anns' = anns /\ operated' = operated
BY DEF Restart, FullTypeOK

(* The vote of m, counted by the election of n. *)
CountsVote(n, m) ==
  /\ \A k \in Node \ {n} : election'[k] = election[k]
  /\ \A k \in Node \ {m} : voted'[k] = voted[k]
  /\ election'[n].term \in Nat /\ election'[n].term > 0
  /\ \A x \in election'[n].got \ {m} :
       x \in election[n].got /\ election'[n].term = election[n].term
  /\ voted'[m].term = election'[n].term /\ voted[m].term < election'[n].term

(* The fields of an election and of a vote, for steps that do arithmetic on *)
(* terms.                                                                   *)
LEMMA ElectionFields ==
  ASSUME FullTypeOK
  PROVE  /\ \A n \in Node : /\ election[n].term \in Nat /\ voted[n].term \in Nat
                            /\ election[n].got \subseteq Node
         /\ NoElection.term = 0 /\ NoElection.got = {}
BY DEF FullTypeOK, TypeOK, ElectionType, NoElection

(* A candidate gives its own vote by the rule of CountsVote: the term is    *)
(* above every one it voted in.                                             *)
LEMMA StartCounts ==
  ASSUME FullTypeOK, NEW n \in Node, StartElection(n)
  PROVE  CountsVote(n, n)
BY StartFields DEF CountsVote

(* A voter that grants has not voted in the term of the candidate or a      *)
(* later one.                                                               *)
LEMMA VoteCounts ==
  ASSUME FullTypeOK, VotesRight, NEW n \in Node, NEW m \in Node, NEW heard \in BOOLEAN,
         Vote(n, m, heard)
  PROVE  CountsVote(n, m)
<1>1. election[n].term \in Nat /\ election[n].term > 0
  BY ElectionFields DEF Vote, VotesRight
<1> QED BY <1>1, VoteFields DEF CountsVote

(* A voter is counted by one election of a term at most, since it grants a  *)
(* vote only in a term above the last one it voted in; and the majority     *)
(* behind a leadership stays behind it.                                     *)
LEMMA CountsVoteKeeps ==
  ASSUME FullTypeOK, VotesRight, NEW n \in Node, NEW m \in Node, CountsVote(n, m)
  PROVE  /\ VotesRight'
         /\ \A a \in anns, Q \in SUBSET Node : Backs(Q, a) => Backs(Q, a)'
<1>0. \A k, x \in Node : x \in election'[k].got /\ ~(k = n /\ x = m)
        => x \in election[k].got /\ election'[k].term = election[k].term
  BY DEF CountsVote
<1>1. \A k \in Node : voted'[k].term \in Nat /\ voted'[k].term >= voted[k].term
  BY ElectionFields DEF CountsVote
<1>2. \A k \in Node : election'[k] = NoElection \/ election'[k].term > 0
  BY DEF VotesRight, CountsVote
<1>3. \A k \in Node : election'[k].got \subseteq Node /\ election'[k].term \in Nat
  BY ElectionFields DEF CountsVote
<1>4. ASSUME NEW k \in Node, NEW x \in election'[k].got
      PROVE  voted'[x].term >= election'[k].term
  <2>1. x \in Node BY <1>3
  <2>2. CASE x \in election[k].got /\ election'[k].term = election[k].term
    <3>1. voted[x].term >= election[k].term BY <2>2 DEF VotesRight
    <3> QED BY <1>1, <1>3, <2>1, <2>2, <3>1, ElectionFields
  <2>3. CASE k = n /\ x = m BY <1>3, <2>3 DEF CountsVote
  <2> QED BY <1>0, <2>1, <2>2, <2>3
<1>5. ASSUME NEW j \in Node, j # n, election'[j].term = election'[n].term, m \in election'[j].got
      PROVE  FALSE
  <2>1. m \in election[j].got /\ election'[j].term = election[j].term BY <1>0, <1>5
  <2>2. voted[m].term >= election[j].term BY <2>1 DEF VotesRight
  <2>3. voted[m].term < election'[n].term BY DEF CountsVote
  <2> QED BY <1>3, <1>5, <2>1, <2>2, <2>3, ElectionFields
<1>6. ASSUME NEW k \in Node, NEW l \in Node, k # l, election'[k].term = election'[l].term,
             NEW x \in Node, x \in election'[k].got, x \in election'[l].got
      PROVE  FALSE
  <2>1. CASE x \in election[k].got /\ election'[k].term = election[k].term
              /\ x \in election[l].got /\ election'[l].term = election[l].term
    BY <1>6, <2>1 DEF VotesRight
  <2> QED BY <1>0, <1>5, <1>6, <2>1
<1>7. \A k, l \in Node : k # l /\ election'[k].term = election'[l].term
                          => election'[k].got \cap election'[l].got = {}
  BY <1>3, <1>6
<1>8. ASSUME NEW a \in anns, NEW Q \in SUBSET Node, Backs(Q, a)
      PROVE  Backs(Q, a)'
  <2>1. a.epoch \in Nat BY FailoverAssumption DEF FullTypeOK
  <2>2. ASSUME NEW k \in Q PROVE voted'[k].term >= a.epoch
    BY <1>1, <1>8, <2>1, ElectionFields DEF Backs
  <2>3. ASSUME NEW k \in Q, NEW j \in Node, j # a.from, election'[j].term = a.epoch,
               k \in election'[j].got
        PROVE  FALSE
    <3>1. CASE k \in election[j].got /\ election'[j].term = election[j].term
      BY <1>8, <2>3, <3>1 DEF Backs
    <3>2. CASE j = n /\ k = m
      BY <1>3, <1>8, <2>1, <2>3, <3>2, ElectionFields DEF Backs, CountsVote
    <3> QED BY <1>0, <2>3, <3>1, <3>2
  <2> QED BY <1>8, <2>2, <2>3 DEF Backs, Quorum
<1> QED BY <1>2, <1>4, <1>7, <1>8 DEF VotesRight

(* No other step adds a vote: a refusal, the end of an election. *)
LEMMA NoVoteKeeps ==
  ASSUME FullTypeOK, VotesRight, voted' = voted,
         \A n \in Node : \/ election'[n] = NoElection
                         \/ /\ election'[n].term = election[n].term
                            /\ election'[n].got = election[n].got /\ election[n] # NoElection
                         \/ election'[n] = election[n]
  PROVE  /\ VotesRight'
         /\ \A a \in anns, Q \in SUBSET Node : Backs(Q, a) => Backs(Q, a)'
<1>1. \A n \in Node : \/ election'[n].got = {} /\ election'[n].term = 0
                      \/ election'[n].got = election[n].got /\ election'[n].term = election[n].term
  BY ElectionFields
<1>2. VotesRight' BY <1>1, ElectionFields DEF VotesRight
<1>3. ASSUME NEW a \in anns, NEW Q \in SUBSET Node, Backs(Q, a)
      PROVE  Backs(Q, a)'
  BY <1>1, <1>3 DEF Backs, Quorum
<1> QED BY <1>2, <1>3

(* Two quorums share a node. *)
LEMMA QuorumsMeet ==
  ASSUME NEW P \in SUBSET Node, NEW Q \in SUBSET Node, Quorum(P), Quorum(Q)
  PROVE  \E k \in Node : k \in P /\ k \in Q
<1>1. IsFiniteSet(Node) /\ IsFiniteSet(P) /\ IsFiniteSet(Q)
  BY FailoverAssumption, FS_Subset
<1>2. Cardinality(Node) \in Nat /\ Cardinality(P) \in Nat /\ Cardinality(Q) \in Nat
  BY <1>1, FS_CardinalityType
<1>3. Cardinality(P) + Cardinality(Q) > Cardinality(Node)
  BY <1>2 DEF Quorum
<1>4. P \cap Q # {} BY <1>1, <1>3, FS_MajoritiesIntersect
<1> QED BY <1>4

-----------------------------------------------------------------------------
(* One primary per epoch *)

(* Recognising a leadership that was won keeps what is known of leaders,    *)
(* and so does a call that names a primary, since it marks its epoch.       *)
LEMMA AnnsKept ==
  ASSUME FullTypeOK, LeadersRight, anns' = anns, operated \subseteq operated',
         \A a \in anns, Q \in SUBSET Node : Backs(Q, a) => Backs(Q, a)',
         \A n \in Node : \/ lead'[n] = lead[n] \/ lead'[n].epoch \in operated'
                         \/ \E a \in anns : lead'[n] = [epoch |-> a.epoch, primary |-> a.from]
  PROVE  LeadersRight'
<1>1. \A a \in anns : \E Q \in SUBSET Node : Backs(Q, a)' BY DEF LeadersRight
<1>2. ASSUME NEW n \in Node, lead'[n].epoch \notin operated'
      PROVE  Leads(lead[n].primary, lead[n].epoch)'
  <2>1. CASE lead'[n] = lead[n] BY <1>2, <2>1 DEF LeadersRight, Leads
  <2>2. ASSUME NEW a \in anns, lead'[n] = [epoch |-> a.epoch, primary |-> a.from]
        PROVE  Leads(lead[n].primary, lead[n].epoch)'
    <3>1. a \in [from : Node, epoch : 1..MaxTerm] BY DEF FullTypeOK
    <3>2. a = [from |-> a.from, epoch |-> a.epoch] /\ a.epoch # 0
      BY <3>1, FailoverAssumption
    <3> QED BY <2>2, <3>2 DEF Leads
  <2> QED BY <1>2, <2>1, <2>2
<1> QED BY <1>1, <1>2 DEF LeadersRight

(* The winner of an election is the only one of its term: its majority and  *)
(* that of another winner would share a voter.                              *)
LEMMA WinKeeps ==
  ASSUME FullTypeOK, VotesRight, LeadersRight, NEW n \in Node, Win(n)
  PROVE  VotesRight' /\ LeadersRight'
<1>0. PICK e : e = election[n] OBVIOUS
<1> DEFINE b == [from |-> n, epoch |-> e.term]
<1>1. e.got \in SUBSET Node /\ e.term \in Nat /\ e.term > 0 /\ Quorum(e.got)
  BY <1>0, ElectionFields DEF Win, VotesRight
<1>2. VotesRight' /\ \A a \in anns, Q \in SUBSET Node : Backs(Q, a) => Backs(Q, a)'
  BY EndFields, NoVoteKeeps
<1>3. anns' = anns \cup {b} /\ lead' = [lead EXCEPT ![n] = [epoch |-> e.term, primary |-> n]]
  BY <1>0 DEF Win
<1>4. Backs(e.got, b)'
  <2>1. \A k \in e.got : voted'[k].term >= b.epoch BY <1>0, EndFields DEF VotesRight
  <2>2. \A k \in e.got, j \in Node : j # n /\ election'[j].term = e.term => k \notin election'[j].got
    BY <1>0, EndFields DEF VotesRight
  <2> QED BY <1>1, <2>1, <2>2 DEF Backs, Quorum
<1>5. \A a \in anns' : \E Q \in SUBSET Node : Backs(Q, a)'
  BY <1>1, <1>2, <1>3, <1>4 DEF LeadersRight
<1>6. ASSUME NEW a \in anns, a.epoch = e.term PROVE a.from = n
  <2>1. PICK Q \in SUBSET Node : Backs(Q, a) BY DEF LeadersRight
  <2>2. PICK k \in Node : k \in Q /\ k \in e.got BY <1>1, <2>1, QuorumsMeet DEF Backs
  <2> QED BY <1>0, <1>6, <2>1, <2>2 DEF Backs
<1>7. \A a, c \in anns' : a.epoch = c.epoch => a.from = c.from
  BY <1>3, <1>6 DEF LeadersRight
<1>8. ASSUME NEW k \in Node, lead'[k].epoch \notin operated'
      PROVE  Leads(lead[k].primary, lead[k].epoch)'
  <2>0. operated' = operated BY DEF Win
  <2>1. CASE k = n
    <3>1. lead'[n] = [epoch |-> e.term, primary |-> n] BY <1>3 DEF FullTypeOK, TypeOK
    <3> QED BY <1>1, <1>3, <2>1, <3>1 DEF Leads
  <2>2. CASE k # n
    <3>1. lead'[k] = lead[k] BY <1>3, <2>2 DEF FullTypeOK, TypeOK
    <3> QED BY <1>3, <1>8, <2>0, <3>1 DEF LeadersRight, Leads
  <2> QED BY <2>1, <2>2
<1> QED BY <1>2, <1>5, <1>7, <1>8 DEF LeadersRight

(* Every step keeps the votes right and the leaders backed by their voters. *)
LEMMA LeadersStep ==
  ASSUME FullTypeOK, VotesRight, LeadersRight, [Next]_vars
  PROVE  VotesRight' /\ LeadersRight'
<1>1. ASSUME NEW n \in Node, StartElection(n) PROVE VotesRight' /\ LeadersRight'
  <2>1. anns' = anns /\ lead' = lead /\ operated' = operated BY <1>1 DEF StartElection
  <2> QED BY <1>1, <2>1, StartCounts, CountsVoteKeeps, AnnsKept
<1>2. ASSUME NEW n \in Node, NEW m \in Node, NEW heard \in BOOLEAN, Vote(n, m, heard)
      PROVE VotesRight' /\ LeadersRight'
  <2>1. anns' = anns /\ lead' = lead /\ operated' = operated BY <1>2 DEF Vote
  <2> QED BY <1>2, <2>1, VoteCounts, CountsVoteKeeps, AnnsKept
<1>3. ASSUME NEW n \in Node, NEW m \in Node, NoVote(n, m) PROVE VotesRight' /\ LeadersRight'
  <2>1. anns' = anns /\ lead' = lead /\ voted' = voted /\ operated' = operated BY <1>3 DEF NoVote
  <2> QED BY <1>3, <2>1, NoVoteFields, NoVoteKeeps, AnnsKept
<1>4. ASSUME NEW n \in Node, Lose(n) PROVE VotesRight' /\ LeadersRight'
  <2>1. anns' = anns /\ lead' = lead /\ operated' = operated BY <1>4 DEF Lose
  <2> QED BY <1>4, <2>1, EndFields, NoVoteKeeps, AnnsKept
<1>5. ASSUME NEW n \in Node, NEW a \in anns, Adopt(n, a) PROVE VotesRight' /\ LeadersRight'
  <2>1. anns' = anns /\ voted' = voted /\ election' = election /\ operated' = operated BY <1>5 DEF Adopt
  <2>2. \A k \in Node : lead'[k] = lead[k] \/ lead'[k] = [epoch |-> a.epoch, primary |-> a.from]
    BY <1>5 DEF Adopt, FullTypeOK, TypeOK
  <2> QED BY <2>1, <2>2, NoVoteKeeps, AnnsKept
<1>6. ASSUME UNCHANGED leadVars PROVE VotesRight' /\ LeadersRight'
  <2>1. /\ anns' = anns /\ lead' = lead /\ voted' = voted /\ election' = election
        /\ operated' = operated
    BY <1>6 DEF leadVars
  <2> QED BY <2>1, NoVoteKeeps, AnnsKept
<1>7. ASSUME NEW n \in Node, NEW s, Restart(n, s) PROVE VotesRight' /\ LeadersRight'
  BY <1>7, RestartFields, NoVoteKeeps, AnnsKept
<1>8. ASSUME NEW n \in Node, NEW p \in Node, PromoteCall(n, p) \/ LeaveCall(n, p)
      PROVE VotesRight' /\ LeadersRight'
  <2>1. anns' = anns /\ voted' = voted /\ election' = election /\ operated \subseteq operated'
    BY <1>8 DEF PromoteCall, LeaveCall
  <2>2. \A k \in Node : lead'[k] = lead[k] \/ lead'[k].epoch \in operated'
    BY <1>8 DEF PromoteCall, LeaveCall, FullTypeOK, TypeOK
  <2> QED BY <2>1, <2>2, NoVoteKeeps, AnnsKept
<1> QED BY <1>1, <1>2, <1>3, <1>4, <1>5, <1>6, <1>7, <1>8, WinKeeps, LeadershipSteps

(* An epoch has one primary. *)
LEMMA OneLeader ==
  ASSUME FullTypeOK, LeadersRight, NEW n \in Node, NEW m \in Node, NEW e \in Nat,
         Leads(n, e), Leads(m, e)
  PROVE  n = m
<1>1. CASE e = 0 BY <1>1 DEF Leads
<1>2. CASE e # 0
  <2>1. [from |-> n, epoch |-> e] \in anns /\ [from |-> m, epoch |-> e] \in anns
    BY <1>2 DEF Leads
  <2> QED BY <2>1 DEF LeadersRight
<1> QED BY <1>1, <1>2

-----------------------------------------------------------------------------
(* Positions *)

(* Leaderships announced stay announced, and marked epochs stay marked. *)
LEMMA AnnsGrow ==
  ASSUME [Next]_vars
  PROVE  anns \subseteq anns' /\ operated \subseteq operated'
BY LeadershipSteps
   DEF leadVars, StartElection, Win, Lose, Vote, NoVote, Adopt, Restart, PromoteCall, LeaveCall

(* Only four steps touch the writes, the op_seq and the data of a node. *)
LEMMA DataSteps ==
  ASSUME FullTypeOK, [Next]_vars
  PROVE  \/ \E w \in Write : Record(w) \/ \E n \in Node : Admit(n, w) \/ Apply(n, w)
         \/ \E n \in Node : \E s \in saved[n]..opSeq[n] : Restart(n, s)
         \/ UNCHANGED dataVars
<1>1. ASSUME NEW n \in Node, CatchUp(n) PROVE \E w \in Write : Apply(n, w)
  <2>1. PICK i \in 1..Len(log[lead[n].primary]) : Apply(n, log[lead[n].primary][i])
    BY <1>1 DEF CatchUp
  <2>2. log[lead[n].primary] \in Seq(Write) BY DEF FullTypeOK, TypeOK
  <2>3. log[lead[n].primary][i] \in Write BY <2>2
  <2> QED BY <2>1, <2>3
<1>2. ASSUME NEW n \in Node, CutOff(n) \/ Heal(n) \/ StartElection(n) \/ ElectionStep(n)
      PROVE  UNCHANGED dataVars
  BY <1>2 DEF CutOff, Heal, StartElection, ElectionStep, Vote, NoVote, Win, Lose
<1>3. ASSUME NEW n \in Node, \/ \E peers \in SUBSET Peers(n) : Heartbeat(n, peers)
                             \/ \E m \in Node : Expire(n, m)
                             \/ \E a \in anns : Adopt(n, a)
                             \/ \E p \in Node : PromoteCall(n, p) \/ LeaveCall(n, p)
      PROVE  UNCHANGED dataVars
  BY <1>3 DEF Heartbeat, Expire, Adopt, PromoteCall, LeaveCall
<1>4. CASE UNCHANGED vars BY <1>4 DEF vars
<1> QED BY <1>1, <1>2, <1>3, <1>4 DEF Next, FanOut

(* What a restart leaves of the writes. *)
LEMMA RestartWrites ==
  ASSUME FullTypeOK, NEW n \in Node, NEW s, Restart(n, s)
  PROVE  /\ \A w \in Write : write'[w] = write[w] \/ (write'[w] = NewWrite /\ ~Recorded(w))
         /\ \A w \in Write : Recorded(w) => write'[w] = write[w]
         /\ \A w \in Write : Recorded(w)' => Recorded(w)
         /\ \A w \in Write : Admitted(w)' => write'[w] = write[w]
         /\ lost \subseteq lost' /\ lost' \subseteq Write
         /\ \A w \in Write : write[w].at = n /\ write[w].pos[2] > s => w \in lost'
         /\ \A w \in lost' \ lost : write[w].pos[2] > s
         /\ opSeq'[n] = s /\ \A k \in Node \ {n} : opSeq'[k] = opSeq[k]
         /\ pos' = pos /\ data' = data
<1>1. \A w \in Write : write'[w] = write[w] \/ (write'[w] = NewWrite /\ ~Recorded(w))
  BY DEF Restart
<1>2. NewWrite.pos[2] = 0 /\ NewWrite.at = NoNode BY DEF NewWrite
<1>3. \A w \in Write : Recorded(w) => write'[w] = write[w] BY <1>1
<1>4. \A w \in Write : Recorded(w)' => Recorded(w) BY <1>1, <1>2 DEF Recorded
<1>5. \A w \in Write : Admitted(w)' => write'[w] = write[w] BY <1>1, <1>2 DEF Admitted
<1>6. /\ lost \subseteq lost' /\ lost' \subseteq Write
      /\ \A w \in Write : write[w].at = n /\ write[w].pos[2] > s => w \in lost'
      /\ \A w \in lost' \ lost : write[w].pos[2] > s
  BY DEF Restart, FullTypeOK, TypeOK
<1>7. opSeq'[n] = s /\ \A k \in Node \ {n} : opSeq'[k] = opSeq[k]
  BY DEF Restart, FullTypeOK, TypeOK
<1> QED BY <1>1, <1>3, <1>4, <1>5, <1>6, <1>7 DEF Restart

(* A recorded write keeps its record, and a forgotten one stays forgotten.  *)
LEMMA RecordedKept ==
  ASSUME FullTypeOK, WritesRight, [Next]_vars
  PROVE  /\ \A w \in Write : Recorded(w) => Recorded(w)' /\ write'[w] = write[w]
         /\ lost \subseteq lost'
<1>1. ASSUME NEW n \in Node, NEW w \in Write, Admit(n, w)
      PROVE  \A v \in Write : Recorded(v) => write'[v] = write[v]
  BY <1>1 DEF Admit, WritesRight, FullTypeOK
<1>2. ASSUME NEW w \in Write, Record(w)
      PROVE  \A v \in Write : Recorded(v) => write'[v] = write[v]
  BY <1>2 DEF Record, FullTypeOK
<1>3. ASSUME UNCHANGED write PROVE \A v \in Write : Recorded(v) => write'[v] = write[v]
  BY <1>3
<1>4. \A v \in Write : Recorded(v) => write'[v] = write[v]
  BY <1>1, <1>2, <1>3, RestartWrites, DataSteps DEF Apply, dataVars
<1>5. lost \subseteq lost'
  BY DataSteps, RestartWrites DEF Admit, Record, Apply, dataVars, seqVars
<1> QED BY <1>4, <1>5 DEF Recorded

(* Every step keeps a write with the primary of the epoch that admitted it, *)
(* and its number unique at that node.                                      *)
LEMMA WritesStep ==
  ASSUME FullTypeOK, LeadersRight, WritesRight, [Next]_vars
  PROVE  WritesRight'
<1>0. (\A n, e : Leads(n, e) => Leads(n, e)') /\ operated \subseteq operated'
  BY AnnsGrow DEF Leads
<1>1. ASSUME NEW n \in Node, NEW w \in Write, Admit(n, w) PROVE WritesRight'
  <2> DEFINE r == [at |-> n, epoch |-> lead[n].epoch, pos |-> <<0, 0>>, to |-> {}]
  <2>1. write' = [write EXCEPT ![w] = r] /\ opSeq' = opSeq /\ lost' = lost
    BY <1>1 DEF Admit, seqVars
  <2>2. r.at = n /\ r.epoch = lead[n].epoch /\ r.pos[2] = 0 OBVIOUS
  <2> HIDE DEF r
  <2>3. write'[w] = r /\ \A v \in Write \ {w} : write'[v] = write[v]
    BY <2>1 DEF FullTypeOK
  <2>4. PICK ep : ep = lead[n].epoch OBVIOUS
  <2>40. ep \in operated' \/ Leads(n, ep)'
    <3>1. lead[n].primary = n BY <1>1 DEF Admit, Accepts, IsPrimary
    <3> QED BY <1>0, <2>4, <3>1 DEF LeadersRight
  <2>5. \A v \in Write : Admitted(v)' => \/ write'[v].epoch \in operated'
                                        \/ Leads(write[v].at, write[v].epoch)'
    BY <1>0, <2>2, <2>3, <2>4, <2>40 DEF WritesRight, Admitted, Leads
  <2>6. \A v \in Write : Recorded(v)' => v # w /\ Recorded(v)
    BY <2>2, <2>3 DEF Recorded
  <2>7. \A v \in lost' : Recorded(v)'
    BY <1>1, <2>1, RecordedKept DEF WritesRight, FullTypeOK, TypeOK
  <2> QED BY <2>1, <2>3, <2>5, <2>6, <2>7 DEF WritesRight, Admitted, Recorded
<1>2. ASSUME NEW w \in Write, Record(w) PROVE WritesRight'
  <2> DEFINE n == write[w].at
             r == [at |-> n, epoch |-> write[w].epoch, pos |-> <<lead[n].epoch, opSeq[n] + 1>>,
                   to |-> Node \ {n, lead[n].primary}]
  <2>1. n \in Node /\ n # NoNode /\ ~Recorded(w)
    BY <1>2 DEF Record, Admitted, FullTypeOK, WriteType
  <2>2. write' = [write EXCEPT ![w] = r] /\ opSeq' = [opSeq EXCEPT ![n] = @ + 1] /\ lost' = lost
    BY <1>2 DEF Record, seqVars
  <2>3. r.at = n /\ r.epoch = write[w].epoch /\ r.pos[2] = opSeq[n] + 1 OBVIOUS
  <2> HIDE DEF r
  <2>4. write'[w] = r /\ \A v \in Write \ {w} : write'[v] = write[v]
    BY <2>2 DEF FullTypeOK
  <2>5. /\ \A k \in Node : opSeq[k] \in Nat /\ opSeq'[k] \in Nat /\ opSeq[k] <= opSeq'[k]
        /\ opSeq'[n] = opSeq[n] + 1
    BY <2>1, <2>2 DEF FullTypeOK, TypeOK
  <2>6. \A v \in Write : write[v].pos[2] \in Nat BY DEF FullTypeOK, TypeOK, Position
  <2>7. \A v \in Write : Admitted(v)' => \/ write'[v].epoch \in operated'
                                        \/ Leads(write[v].at, write[v].epoch)'
    BY <1>0, <2>1, <2>3, <2>4 DEF WritesRight, Admitted, Leads
  <2>8. ASSUME NEW v \in Write, Recorded(v)'
        PROVE  Admitted(v)' /\ (v \in lost' \/ write'[v].pos[2] <= opSeq'[write'[v].at])
    <3>1. CASE v = w BY <2>1, <2>3, <2>4, <2>5, <3>1 DEF Admitted
    <3>2. CASE v # w
      <4>1. write'[v] = write[v] /\ Recorded(v) BY <2>4, <2>8, <3>2 DEF Recorded
      <4>2. Admitted(v) /\ (v \in lost \/ write[v].pos[2] <= opSeq[write[v].at])
        BY <4>1 DEF WritesRight
      <4>3. write[v].at \in Node BY <4>2 DEF Admitted, FullTypeOK, WriteType
      <4> QED BY <2>2, <2>5, <2>6, <4>1, <4>2, <4>3 DEF Admitted
    <3> QED BY <3>1, <3>2
  <2>9. ASSUME NEW v \in Write \ {w}, v \notin lost, Recorded(v)', write'[v].at = n
        PROVE  write'[v].pos[2] # opSeq[n] + 1
    <3>1. write'[v] = write[v] /\ Recorded(v) BY <2>4, <2>9 DEF Recorded
    <3>2. write[v].pos[2] <= opSeq[n] BY <2>9, <3>1 DEF WritesRight
    <3> QED BY <2>1, <2>5, <2>6, <3>1, <3>2
  <2>10. \A u, v \in Write \ lost' :
            u # v /\ Recorded(u)' /\ Recorded(v)' /\ write'[u].at = write'[v].at
              => write'[u].pos[2] # write'[v].pos[2]
    BY <2>2, <2>3, <2>4, <2>9 DEF WritesRight, Recorded
  <2>11. \A v \in lost' : Recorded(v)'
    BY <1>2, <2>2, RecordedKept DEF WritesRight, FullTypeOK, TypeOK
  <2> QED BY <2>7, <2>8, <2>10, <2>11 DEF WritesRight
<1>3. ASSUME UNCHANGED <<write, opSeq, lost>> PROVE WritesRight'
  BY <1>0, <1>3 DEF WritesRight, Admitted, Recorded
<1>4. ASSUME NEW n \in Node, NEW w \in Write, Apply(n, w) PROVE WritesRight'
  BY <1>3, <1>4 DEF Apply, seqVars
<1>5. ASSUME NEW n \in Node, NEW s \in saved[n]..opSeq[n], Restart(n, s) PROVE WritesRight'
  <2>1. s \in Nat /\ \A w \in Write : write[w].pos[2] \in Nat
    BY DEF FullTypeOK, TypeOK, Position
  <2>2. \A w \in Write : Admitted(w)' => \/ write'[w].epoch \in operated'
                                        \/ Leads(write[w].at, write[w].epoch)'
    BY <1>0, <1>5, RestartWrites DEF WritesRight, Admitted, Leads
  <2>3. ASSUME NEW w \in Write, Recorded(w)'
        PROVE  Admitted(w)' /\ (w \in lost' \/ write'[w].pos[2] <= opSeq'[write'[w].at])
    <3>1. Recorded(w) /\ write'[w] = write[w] BY <1>5, <2>3, RestartWrites
    <3>2. Admitted(w) /\ (w \in lost \/ write[w].pos[2] <= opSeq[write[w].at])
      BY <3>1 DEF WritesRight
    <3>3. write[w].at \in Node BY <3>2 DEF Admitted, FullTypeOK, WriteType
    <3>4. CASE write[w].at = n BY <1>5, <2>1, <3>1, <3>2, <3>4, RestartWrites DEF Admitted
    <3>5. CASE write[w].at # n BY <1>5, <3>1, <3>2, <3>3, <3>5, RestartWrites DEF Admitted
    <3> QED BY <3>4, <3>5
  <2>4. ASSUME NEW v \in Write \ lost', NEW w \in Write \ lost', v # w,
               Recorded(v)', Recorded(w)', write'[v].at = write'[w].at
        PROVE  write'[v].pos[2] # write'[w].pos[2]
    BY <1>5, <2>4, RestartWrites DEF WritesRight
  <2>5. ASSUME NEW w \in lost' PROVE Recorded(w)'
    <3>1. w \in Write BY <1>5, RestartWrites
    <3>2. Recorded(w)
      <4>1. CASE w \in lost BY <4>1 DEF WritesRight
      <4>2. CASE w \notin lost BY <1>5, <2>1, <2>5, <3>1, <4>2, RestartWrites DEF Recorded
      <4> QED BY <4>1, <4>2
    <3> QED BY <1>5, <3>1, <3>2, RestartWrites DEF Recorded
  <2> QED BY <2>2, <2>3, <2>4, <2>5 DEF WritesRight
<1> QED BY <1>1, <1>2, <1>3, <1>4, <1>5, DataSteps DEF dataVars, seqVars

-----------------------------------------------------------------------------
(* The takeover: what is committed in the first term *)

(* All nodes together are a quorum. *)
LEMMA QuorumOfAll == Quorum(Node)
<1>1. Cardinality(Node) \in Nat /\ IsFiniteSet(Node) BY FailoverAssumption, FS_CardinalityType
<1>2. Cardinality(Node) # 0 BY <1>1, FailoverAssumption, FS_EmptySet
<1> QED BY <1>1, <1>2 DEF Quorum

(* What the first primary counts for a node: its own op_seq, and for a      *)
(* replica at most what it has applied.                                     *)
LEMMA CountedInFirstTerm ==
  ASSUME FullTypeOK, FirstTermRight, NEW m \in Node
  PROVE  /\ Counted(FirstPrimary, m)[1] = 0
         /\ \A N \in Nat : Bounded(N) => Counted(FirstPrimary, m)[2] \in 0..N
         /\ Counted(FirstPrimary, m) \in Position
         /\ m # FirstPrimary => Counted(FirstPrimary, m)[2] <= pos[m][2]
<1>1. FirstPrimary \in Node /\ opSeq[FirstPrimary] \in Nat
  BY FailoverAssumption DEF FullTypeOK, TypeOK
<1>2. CASE m = FirstPrimary
  <2>1. Counted(FirstPrimary, m) = <<0, opSeq[FirstPrimary]>>
    BY <1>1, <1>2 DEF Counted, Holds, IsPrimary, FirstTermRight
  <2> QED BY <1>1, <1>2, <2>1 DEF Position, Bounded
<1>3. CASE m # FirstPrimary
  <2>1. entry[FirstPrimary][m] \in Progress BY <1>1 DEF FullTypeOK
  <2>2. entry[FirstPrimary][m][1] = 0 /\ entry[FirstPrimary][m][2] \in Nat
    BY <1>3, <2>1 DEF FirstTermRight, Progress
  <2>3. entry[FirstPrimary][m][2] <= pos[m][2] BY <1>3 DEF FirstTermRight
  <2>4. pos[m][2] \in Nat BY DEF FullTypeOK, TypeOK, Position
  <2>5. Counted(FirstPrimary, m) = <<0, entry[FirstPrimary][m][2]>>
    BY <1>3, <2>2 DEF Counted
  <2>6. \A N \in Nat : Bounded(N) => entry[FirstPrimary][m][2] \in 0..N
    BY <2>2, <2>3, <2>4 DEF Bounded
  <2> QED BY <1>1, <1>3, <2>2, <2>3, <2>5, <2>6 DEF Position
<1> QED BY <1>2, <1>3

(* The commit index of the first primary is a position a quorum reached. *)
LEMMA CommitInFirstTerm ==
  ASSUME FullTypeOK, FirstTermRight
  PROVE  /\ CommitPosition(FirstPrimary) \in {Counted(FirstPrimary, m) : m \in Node}
         /\ Reached(FirstPrimary, CommitPosition(FirstPrimary))
<1> DEFINE c(m) == Counted(FirstPrimary, m)
           S == {p \in {c(m) : m \in Node} : Reached(FirstPrimary, p)}
           T == {c(m)[2] : m \in Node}
           U == {x \in T : \E m \in Node : c(m)[2] = x /\ Reached(FirstPrimary, c(m))}
<1>2. PICK N \in Nat : Bounded(N) BY DEF FirstTermRight, WritesInFirstTerm
<1>1. \A m \in Node : c(m)[1] = 0 /\ c(m)[2] \in 0..N BY <1>2, CountedInFirstTerm
<1>20. FirstPrimary \in Node BY FailoverAssumption
<1> HIDE DEF c
<1>3. \A l, m \in Node : Less(c(l), c(m)) <=> c(l)[2] < c(m)[2]
  BY <1>1, <1>2 DEF Less
<1>4. U # {}
  <2>1. T \in SUBSET Nat /\ T # {} BY <1>1, <1>2, <1>20
  <2>2. PICK x \in T : \A y \in T : x <= y BY <2>1, LeastExists
  <2>3. PICK m \in Node : c(m)[2] = x BY <2>2
  <2>4. \A l \in Node : ~Less(c(l), c(m))
    <3>1. \A l \in Node : c(m)[2] <= c(l)[2] BY <2>2, <2>3
    <3> QED BY <1>1, <1>2, <1>3, <3>1
  <2>5. {l \in Node : ~Less(c(l), c(m))} = Node BY <2>4
  <2>6. Reached(FirstPrimary, c(m)) BY <2>5, QuorumOfAll DEF Reached, c
  <2> QED BY <2>2, <2>3, <2>6
<1>5. U \in SUBSET (0..N) BY <1>1
<1>6. PICK x \in U : \A y \in U : y <= x BY <1>2, <1>4, <1>5, LargestExists
<1>7. PICK m \in Node : c(m)[2] = x /\ Reached(FirstPrimary, c(m)) BY <1>6
<1>8. ASSUME NEW q \in S PROVE ~Less(c(m), q)
  <2>1. PICK l \in Node : q = c(l) OBVIOUS
  <2>2. c(l)[2] \in U BY <2>1
  <2>3. c(l)[2] <= c(m)[2] BY <1>6, <1>7, <2>2
  <2> QED BY <1>1, <1>2, <1>3, <2>1, <2>3
<1>9. c(m) \in S BY <1>7
<1>10. CommitPosition(FirstPrimary) = CHOOSE p \in S : \A q \in S : ~Less(p, q)
  BY DEF CommitPosition, c
<1> HIDE DEF S
<1>11. CommitPosition(FirstPrimary) \in S BY <1>8, <1>9, <1>10
<1> QED BY <1>11 DEF S, c

(* A quorum has reached every committed write. *)
LEMMA CommittedReached ==
  ASSUME FullTypeOK, FirstTermRight, NEW w \in Committed
  PROVE  /\ w \in Write /\ Recorded(w)
         /\ \E C \in SUBSET Node : /\ Quorum(C)
                                   /\ \A m \in C \ {FirstPrimary} : write[w].pos[2] <= pos[m][2]
<1> DEFINE p == CommitPosition(FirstPrimary)
           C == {m \in Node : ~Less(Counted(FirstPrimary, m), p)}
<1>1. /\ w \in Write /\ Recorded(w) /\ write[w].pos[1] = 0 /\ ~Less(p, write[w].pos)
      /\ write[w].pos[2] \in Nat
  BY DEF Committed, Recorded, FullTypeOK, TypeOK, Position
<1>2. p[1] = 0 /\ p[2] \in Nat
  BY CommitInFirstTerm, CountedInFirstTerm DEF Position
<1>3. Quorum(C) BY CommitInFirstTerm DEF Reached
<1> HIDE DEF p
<1>4. write[w].pos[2] <= p[2] BY <1>1, <1>2 DEF Less
<1>5. ASSUME NEW m \in C \ {FirstPrimary} PROVE write[w].pos[2] <= pos[m][2]
  <2>1. /\ Counted(FirstPrimary, m)[1] = 0 /\ Counted(FirstPrimary, m)[2] <= pos[m][2]
        /\ Counted(FirstPrimary, m)[2] \in Nat
    BY CountedInFirstTerm DEF Position
  <2>2. pos[m][2] \in Nat BY DEF FullTypeOK, TypeOK, Position
  <2>3. p[2] <= Counted(FirstPrimary, m)[2] BY <1>2, <2>1 DEF Less
  <2> QED BY <1>1, <1>2, <1>4, <2>1, <2>2, <2>3
<1> QED BY <1>1, <1>3, <1>5

(* Positions grow, and a recorded write keeps its position. *)
Onwards ==
  /\ \A n \in Node : pos[n][2] <= pos'[n][2]
  /\ \A w \in Write : Recorded(w) => Recorded(w)' /\ write'[w].pos = write[w].pos

(* The parts of positions are numbers, for steps that compare them.         *)
LEMMA PositionFields ==
  ASSUME FullTypeOK
  PROVE  /\ \A w \in Write : write[w].pos[1] \in Nat /\ write[w].pos[2] \in Nat
         /\ \A n \in Node : pos[n][1] \in Nat /\ pos[n][2] \in Nat /\ opSeq[n] \in Nat
         /\ FirstPrimary \in Node
BY FailoverAssumption DEF FullTypeOK, TypeOK, Position

(* In the first term the first primary admits alone, and its next position  *)
(* is above that of every replica.                                          *)
LEMMA AdmitInFirstTerm ==
  ASSUME FullTypeOK, WritesRight, FirstTermRight, NEW n \in Node, NEW w \in Write, Admit(n, w)
  PROVE  WritesInFirstTerm' /\ Onwards
<1> DEFINE r == [at |-> n, epoch |-> lead[n].epoch, pos |-> <<0, 0>>, to |-> {}]
<1>1. write' = [write EXCEPT ![w] = r] /\ UNCHANGED <<opSeq, pos, data, lost>>
  BY DEF Admit, seqVars
<1>2. r.at = n /\ r.pos[1] = 0 /\ r.pos[2] = 0 OBVIOUS
<1> HIDE DEF r
<1>3. write'[w] = r /\ \A v \in Write \ {w} : write'[v] = write[v] BY <1>1 DEF FullTypeOK
<1>4. n = FirstPrimary BY DEF Admit, Accepts, IsPrimary, FirstTermRight
<1>5. ~Recorded(w) BY DEF Admit, WritesRight
<1>6. write[w].pos[2] = 0 BY <1>5 DEF Recorded
<1>7. \A v \in Write : write'[v].pos[1] = 0 /\ write'[v].pos[2] = write[v].pos[2]
  BY <1>2, <1>3, <1>6 DEF FirstTermRight, WritesInFirstTerm
<1>8. \A v \in Write : Admitted(v)' => write'[v].at = FirstPrimary
  BY <1>2, <1>3, <1>4 DEF FirstTermRight, WritesInFirstTerm, Admitted
<1>9. Onwards BY <1>1, <1>3, <1>5, PositionFields DEF Onwards, Recorded
<1>10. lost \subseteq Write /\ \A v \in lost : Recorded(v)
  BY DEF FullTypeOK, TypeOK, WritesRight
<1>11. ASSUME NEW k \in Node \ {FirstPrimary}, NEW v \in Write,
              Recorded(v)', write'[v].pos[2] <= pos'[k][2]
       PROVE  v \in data'[k] \/ Reissued(v)'
  <2>1. Recorded(v) /\ v # w BY <1>5, <1>7, <1>11 DEF Recorded
  <2>2. v \in data[k] \/ Reissued(v)
    BY <1>1, <1>3, <1>11, <2>1 DEF FirstTermRight, WritesInFirstTerm
  <2>3. Reissued(v) => Reissued(v)' BY <1>1, <1>3, <1>5, <1>10, <2>1 DEF Reissued
  <2> QED BY <1>1, <2>2, <2>3
<1>12. \A N \in Nat : Bounded(N) => Bounded(N)' BY <1>1, <1>7 DEF Bounded
<1>13. \A t \in 1..opSeq'[FirstPrimary] : \E v \in Write : write'[v].pos[2] = t
  BY <1>1, <1>7 DEF FirstTermRight, WritesInFirstTerm
<1>14. \A k \in Node : \A t \in (opSeq'[FirstPrimary] + 1)..pos'[k][2] :
         \E v \in lost' : write'[v].pos[2] = t
  BY <1>1, <1>7, <1>10 DEF FirstTermRight, WritesInFirstTerm
<1>15. (\E N \in Nat : Bounded(N)') /\ \A k \in Node : pos'[k][1] = 0
  BY <1>1, <1>12 DEF FirstTermRight, WritesInFirstTerm
<1> QED BY <1>7, <1>8, <1>9, <1>11, <1>13, <1>14, <1>15 DEF WritesInFirstTerm

(* Before the first announcement a write is recorded by the first primary,  *)
(* at the next number.                                                      *)
LEMMA RecordInFirstTerm ==
  ASSUME FullTypeOK, WritesRight, FirstTermRight, NEW w \in Write, Record(w)
  PROVE  WritesInFirstTerm' /\ Onwards
<1> DEFINE n == write[w].at
           r == [at |-> n, epoch |-> write[w].epoch, pos |-> <<lead[n].epoch, opSeq[n] + 1>>,
                 to |-> Node \ {n, lead[n].primary}]
<1>1. n = FirstPrimary /\ ~Recorded(w) BY DEF Record, FirstTermRight, WritesInFirstTerm
<1>2. /\ write' = [write EXCEPT ![w] = r] /\ opSeq' = [opSeq EXCEPT ![n] = @ + 1]
      /\ data' = [data EXCEPT ![n] = @ \cup {w}] /\ pos' = pos /\ lost' = lost
  BY DEF Record, seqVars
<1>3. r.at = FirstPrimary /\ r.pos[1] = 0 /\ r.pos[2] = opSeq[FirstPrimary] + 1
  BY <1>1, PositionFields DEF FirstTermRight
<1> HIDE DEF r
<1>4. /\ write'[w] = r /\ \A v \in Write \ {w} : write'[v] = write[v]
      /\ opSeq'[FirstPrimary] = opSeq[FirstPrimary] + 1
      /\ \A k \in Node \ {FirstPrimary} : data'[k] = data[k]
  BY <1>1, <1>2, PositionFields DEF FullTypeOK, TypeOK
<1>5. \A v \in Write : Admitted(v)' => write'[v].at = FirstPrimary
  BY <1>3, <1>4 DEF FirstTermRight, WritesInFirstTerm, Admitted
<1>6. \A v \in Write : write'[v].pos[1] = 0
  BY <1>3, <1>4 DEF FirstTermRight, WritesInFirstTerm
<1>7. \A k \in Node : pos'[k][1] = 0 BY <1>2 DEF FirstTermRight, WritesInFirstTerm
<1>8. lost \subseteq Write /\ w \notin lost /\ \A v \in lost : Recorded(v) /\ write'[v] = write[v]
  BY <1>1, <1>4 DEF FullTypeOK, TypeOK, WritesRight
<1>9. \E N \in Nat : Bounded(N)'
  <2>1. PICK N \in Nat : Bounded(N) BY DEF FirstTermRight, WritesInFirstTerm
  <2>2. \A v \in Write : write'[v].pos[2] <= N + 1 BY <1>3, <1>4, <2>1, PositionFields DEF Bounded
  <2>3. Bounded(N + 1)' BY <1>2, <1>4, <2>1, <2>2, PositionFields DEF Bounded
  <2> QED BY <2>3
<1>10. ASSUME NEW t \in 1..opSeq'[FirstPrimary] PROVE \E v \in Write : write'[v].pos[2] = t
  <2>1. CASE t = opSeq[FirstPrimary] + 1 BY <1>3, <1>4, <2>1
  <2>2. CASE t # opSeq[FirstPrimary] + 1
    <3>1. t \in 1..opSeq[FirstPrimary] BY <1>4, <2>2, PositionFields
    <3>2. PICK v \in Write : write[v].pos[2] = t BY <3>1 DEF FirstTermRight, WritesInFirstTerm
    <3>3. v # w BY <1>1, <3>1, <3>2 DEF Recorded
    <3> QED BY <1>4, <3>2, <3>3
  <2> QED BY <2>1, <2>2
<1>11. ASSUME NEW k \in Node, NEW t \in (opSeq'[FirstPrimary] + 1)..pos'[k][2]
       PROVE  \E v \in lost' : write'[v].pos[2] = t
  <2>1. t \in (opSeq[FirstPrimary] + 1)..pos[k][2] BY <1>2, <1>4, PositionFields
  <2>2. PICK v \in lost : write[v].pos[2] = t BY <2>1 DEF FirstTermRight, WritesInFirstTerm
  <2> QED BY <1>2, <1>8, <2>2
<1>12. ASSUME NEW k \in Node \ {FirstPrimary}, NEW v \in Write,
              Recorded(v)', write'[v].pos[2] <= pos'[k][2]
       PROVE  v \in data'[k] \/ Reissued(v)'
  <2>1. CASE v = w
    <3>1. opSeq[FirstPrimary] + 1 \in (opSeq[FirstPrimary] + 1)..pos[k][2]
      BY <1>2, <1>3, <1>4, <1>12, <2>1, PositionFields
    <3>2. PICK u \in lost : write[u].pos[2] = opSeq[FirstPrimary] + 1
      BY <3>1 DEF FirstTermRight, WritesInFirstTerm
    <3>3. write'[u].pos = write'[w].pos
      <4>1. write'[u].pos \in Position /\ write'[w].pos \in Position
        <5>1. write'[u].pos \in Position BY <1>8 DEF FullTypeOK, TypeOK
        <5>2. r.pos \in Position BY <1>1, PositionFields DEF r, FirstTermRight, Position
        <5> QED BY <1>4, <5>1, <5>2
      <4>2. u \in Write /\ write'[u].pos[2] = write'[w].pos[2] BY <1>3, <1>4, <1>8, <3>2
      <4> QED BY <1>6, <4>1, <4>2 DEF Position
    <3> QED BY <1>2, <2>1, <3>2, <3>3 DEF Reissued
  <2>2. CASE v # w
    <3>1. write'[v] = write[v] /\ Recorded(v) BY <1>4, <1>12, <2>2 DEF Recorded
    <3>2. v \in data[k] \/ Reissued(v)
      BY <1>2, <1>12, <3>1 DEF FirstTermRight, WritesInFirstTerm
    <3>3. Reissued(v) => Reissued(v)' BY <1>2, <1>8, <3>1 DEF Reissued
    <3> QED BY <1>4, <3>2, <3>3
  <2> QED BY <2>1, <2>2
<1>13. Onwards BY <1>1, <1>2, <1>4, PositionFields DEF Onwards, Recorded
<1> QED BY <1>5, <1>6, <1>7, <1>9, <1>10, <1>11, <1>12, <1>13 DEF WritesInFirstTerm

(* A replica applies the write of the next position, and of no other. *)
LEMMA ApplyInFirstTerm ==
  ASSUME FullTypeOK, WritesRight, FirstTermRight, NEW m \in Node, NEW w \in Write, Apply(m, w)
  PROVE  WritesInFirstTerm' /\ Onwards
<1>1. /\ pos' = [pos EXCEPT ![m] = write[w].pos]
      /\ data' = [data EXCEPT ![m] = @ \cup {w}] /\ UNCHANGED <<opSeq, write, lost>>
  BY DEF Apply, seqVars
<1>2. /\ pos'[m] = write[w].pos /\ \A k \in Node \ {m} : pos'[k] = pos[k]
      /\ data'[m] = data[m] \cup {w} /\ \A k \in Node \ {m} : data'[k] = data[k]
  BY <1>1 DEF FullTypeOK, TypeOK
<1>3. write[w].pos[1] = 0 /\ pos[m][1] = 0 BY DEF FirstTermRight, WritesInFirstTerm
<1>4. write[w].pos[2] = pos[m][2] + 1 BY <1>3 DEF Apply, Applies
<1>5. Recorded(w) BY <1>4, PositionFields DEF Recorded
<1>6. \A v \in Write : Recorded(v) => write[v].at = FirstPrimary
  BY DEF WritesRight, FirstTermRight, WritesInFirstTerm
<1>7. w \in lost \/ write[w].pos[2] <= opSeq[FirstPrimary] BY <1>5, <1>6 DEF WritesRight
<1>8. ASSUME NEW k \in Node \ {FirstPrimary}, NEW v \in Write,
             Recorded(v)', write'[v].pos[2] <= pos'[k][2]
      PROVE  v \in data'[k] \/ Reissued(v)'
  <2>1. write'[v] = write[v] /\ Recorded(v) BY <1>1, <1>8 DEF Recorded
  <2>2. CASE write[v].pos[2] <= pos[k][2]
    <3>1. v \in data[k] \/ Reissued(v) BY <2>1, <2>2 DEF FirstTermRight, WritesInFirstTerm
    <3> QED BY <1>1, <1>2, <3>1 DEF Reissued
  <2>3. CASE ~(write[v].pos[2] <= pos[k][2])
    <3>1. k = m BY <1>2, <1>8, <2>1, <2>3
    <3>2. write[v].pos[2] <= write[w].pos[2] BY <1>2, <1>8, <2>1, <3>1
    <3>3. write[v].pos[2] = write[w].pos[2] BY <1>4, <2>3, <3>1, <3>2, PositionFields
    <3>4. CASE v \in lost \/ w \in lost
      <4>1. write[v].pos = write[w].pos
        <5>1. write[v].pos \in Position /\ write[w].pos \in Position BY DEF FullTypeOK, TypeOK
        <5>2. write[v].pos[1] = write[w].pos[1] BY DEF FirstTermRight, WritesInFirstTerm
        <5> QED BY <3>3, <5>1, <5>2 DEF Position
      <4> QED BY <1>1, <3>4, <4>1 DEF Reissued
    <3>5. CASE v \notin lost /\ w \notin lost
      <4>1. v = w BY <1>5, <1>6, <2>1, <3>3, <3>5 DEF WritesRight
      <4> QED BY <1>2, <3>1, <4>1
    <3> QED BY <3>4, <3>5
  <2> QED BY <2>2, <2>3
<1>9. ASSUME NEW k \in Node, NEW t \in (opSeq'[FirstPrimary] + 1)..pos'[k][2]
      PROVE  \E v \in lost' : write'[v].pos[2] = t
  <2>1. CASE t \in (opSeq[FirstPrimary] + 1)..pos[k][2]
    BY <1>1, <2>1 DEF FirstTermRight, WritesInFirstTerm
  <2>2. CASE t \notin (opSeq[FirstPrimary] + 1)..pos[k][2]
    <3>1. k = m BY <1>1, <1>2, <1>9, <2>2
    <3>2. t = write[w].pos[2] /\ ~(write[w].pos[2] <= opSeq[FirstPrimary])
      BY <1>1, <1>2, <1>4, <1>9, <2>2, <3>1, PositionFields
    <3> QED BY <1>1, <1>7, <3>2
  <2> QED BY <2>1, <2>2
<1>10. Onwards
  <2>1. \A k \in Node : pos[k][2] <= pos'[k][2] BY <1>2, <1>4, PositionFields
  <2> QED BY <1>1, <2>1 DEF Onwards, Recorded
<1>11. /\ \A v \in Write : Admitted(v)' => write'[v].at = FirstPrimary
       /\ \A v \in Write : write'[v].pos[1] = 0
       /\ \A k \in Node : pos'[k][1] = 0
       /\ \A t \in 1..opSeq'[FirstPrimary] : \E v \in Write : write'[v].pos[2] = t
  BY <1>1, <1>2, <1>3 DEF FirstTermRight, WritesInFirstTerm, Admitted
<1>12. \E N \in Nat : Bounded(N)'
  <2>1. PICK N \in Nat : Bounded(N) BY DEF FirstTermRight, WritesInFirstTerm
  <2> QED BY <1>1, <1>2, <2>1 DEF Bounded
<1> QED BY <1>8, <1>9, <1>10, <1>11, <1>12 DEF WritesInFirstTerm

(* A restart forgets numbers, and marks the writes that have them. *)
LEMMA RestartInFirstTerm ==
  ASSUME FullTypeOK, WritesRight, FirstTermRight, NEW n \in Node,
         NEW s \in saved[n]..opSeq[n], Restart(n, s)
  PROVE  WritesInFirstTerm' /\ Onwards
<1>0. s \in Nat /\ s <= opSeq[n] BY DEF FullTypeOK, TypeOK
<1>1. /\ opSeq'[FirstPrimary] \in Nat /\ opSeq'[FirstPrimary] <= opSeq[FirstPrimary]
      /\ opSeq'[FirstPrimary] = opSeq[FirstPrimary] \/ (n = FirstPrimary /\ opSeq'[FirstPrimary] = s)
  BY <1>0, PositionFields, RestartWrites
<1>2. /\ pos' = pos /\ data' = data /\ lost \subseteq lost' /\ lost' \subseteq Write
      /\ \A v \in Write : Recorded(v) => write'[v] = write[v]
  BY RestartWrites
<1>3. \A v \in Write : write'[v].pos = write[v].pos \/ write'[v].pos = <<0, 0>>
  BY RestartWrites DEF NewWrite
<1>4. \A v \in Write : Admitted(v)' => write'[v].at = FirstPrimary
  BY RestartWrites DEF FirstTermRight, WritesInFirstTerm, Admitted
<1>5. \A v \in Write : write'[v].pos[1] = 0
  BY <1>3 DEF FirstTermRight, WritesInFirstTerm
<1>6. \E N \in Nat : Bounded(N)'
  <2>1. PICK N \in Nat : Bounded(N) BY DEF FirstTermRight, WritesInFirstTerm
  <2>2. \A v \in Write : write'[v].pos[2] <= N BY <1>3, <2>1 DEF Bounded
  <2>3. Bounded(N)' BY <1>1, <1>2, <2>1, <2>2, PositionFields DEF Bounded
  <2> QED BY <2>3
<1>7. ASSUME NEW t \in 1..opSeq'[FirstPrimary] PROVE \E v \in Write : write'[v].pos[2] = t
  <2>1. t \in 1..opSeq[FirstPrimary] BY <1>1, PositionFields
  <2>2. PICK v \in Write : write[v].pos[2] = t BY <2>1 DEF FirstTermRight, WritesInFirstTerm
  <2>3. Recorded(v) BY <2>1, <2>2 DEF Recorded
  <2> QED BY <1>2, <2>2, <2>3
<1>8. ASSUME NEW k \in Node, NEW t \in (opSeq'[FirstPrimary] + 1)..pos'[k][2]
      PROVE  \E v \in lost' : write'[v].pos[2] = t
  <2>1. CASE t \in (opSeq[FirstPrimary] + 1)..pos[k][2]
    <3>1. PICK v \in lost : write[v].pos[2] = t BY <2>1 DEF FirstTermRight, WritesInFirstTerm
    <3>2. v \in Write /\ Recorded(v) BY <3>1 DEF WritesRight, FullTypeOK, TypeOK
    <3> QED BY <1>2, <3>1, <3>2
  <2>2. CASE t \notin (opSeq[FirstPrimary] + 1)..pos[k][2]
    <3>1. t \in 1..opSeq[FirstPrimary] /\ t > opSeq'[FirstPrimary]
      BY <1>1, <1>2, <2>2, PositionFields
    <3>2. PICK v \in Write : write[v].pos[2] = t BY <3>1 DEF FirstTermRight, WritesInFirstTerm
    <3>3. Recorded(v) BY <3>1, <3>2 DEF Recorded
    <3>4. write[v].at = FirstPrimary
      BY <3>3 DEF WritesRight, FirstTermRight, WritesInFirstTerm
    <3>5. n = FirstPrimary /\ opSeq'[FirstPrimary] = s BY <1>1, <3>1, PositionFields
    <3>6. v \in lost' BY <3>1, <3>2, <3>4, <3>5, RestartWrites
    <3> QED BY <1>2, <3>2, <3>3, <3>6
  <2> QED BY <2>1, <2>2
<1>9. ASSUME NEW k \in Node \ {FirstPrimary}, NEW v \in Write,
             Recorded(v)', write'[v].pos[2] <= pos'[k][2]
      PROVE  v \in data'[k] \/ Reissued(v)'
  <2>1. Recorded(v) /\ write'[v] = write[v] BY <1>2, <1>9, RestartWrites
  <2>2. v \in data[k] \/ Reissued(v)
    BY <1>2, <1>9, <2>1 DEF FirstTermRight, WritesInFirstTerm
  <2>3. ASSUME Reissued(v) PROVE Reissued(v)'
    <3>1. PICK u \in lost : write[u].pos = write[v].pos BY <2>3 DEF Reissued
    <3>2. u \in Write /\ Recorded(u) BY DEF WritesRight, FullTypeOK, TypeOK
    <3> QED BY <1>2, <2>1, <3>1, <3>2 DEF Reissued
  <2> QED BY <1>2, <2>2, <2>3
<1>10. Onwards BY <1>2, PositionFields DEF Onwards, Recorded
<1>11. \A k \in Node : pos'[k][1] = 0 BY <1>2 DEF FirstTermRight, WritesInFirstTerm
<1> QED BY <1>4, <1>5, <1>6, <1>7, <1>8, <1>9, <1>10, <1>11 DEF WritesInFirstTerm

(* Before the first announcement every step keeps the log a sequence of the *)
(* first primary, and positions only grow.                                  *)
LEMMA WritesStepInFirstTerm ==
  ASSUME FullTypeOK, WritesRight, FirstTermRight, [Next]_vars
  PROVE  WritesInFirstTerm' /\ Onwards
<1>1. CASE UNCHANGED dataVars
  <2>1. UNCHANGED <<opSeq, pos, data, write, lost>> BY <1>1 DEF dataVars, seqVars
  <2>2. Onwards BY <2>1, PositionFields DEF Onwards, Recorded
  <2>3. WritesInFirstTerm BY DEF FirstTermRight
  <2>4. WritesInFirstTerm'
    BY <2>1, <2>3 DEF WritesInFirstTerm, Bounded, Reissued, Admitted, Recorded
  <2> QED BY <2>2, <2>4
<1> QED BY <1>1, DataSteps, AdmitInFirstTerm, RecordInFirstTerm, ApplyInFirstTerm,
           RestartInFirstTerm

(* The member list of the first primary never runs ahead of a replica. *)
LEMMA FirstTermStep ==
  ASSUME FullTypeOK, WritesRight, FirstTermRight, [Next]_vars, anns = {}, anns' = {},
         operated' = {}
  PROVE  FirstTermRight' /\ Onwards
<1>1. WritesInFirstTerm' /\ Onwards BY WritesStepInFirstTerm
<1>2. lead' = lead
  BY LeadershipSteps
     DEF StartElection, Win, Lose, Vote, NoVote, Adopt, Restart, PromoteCall, LeaveCall, leadVars
<1>3. ASSUME NEW n \in Node \ {FirstPrimary}
      PROVE  entry'[FirstPrimary][n][1] = 0 /\ entry'[FirstPrimary][n][2] <= pos'[n][2]
  <2>0. FullTypeOK' BY TypeStep
  <2>1. /\ pos[n][2] \in Nat /\ pos'[n][2] \in Nat /\ pos[n][2] <= pos'[n][2]
        /\ entry[FirstPrimary][n] \in Progress
    BY <1>1, <2>0, FailoverAssumption DEF Onwards, FullTypeOK, TypeOK, Position
  <2>2. /\ entry[FirstPrimary][n][1] = 0 /\ entry[FirstPrimary][n][2] \in Nat
        /\ entry[FirstPrimary][n][2] <= pos[n][2]
    BY <2>1 DEF FirstTermRight, Progress
  <2>3. CASE entry'[FirstPrimary][n] = entry[FirstPrimary][n] BY <2>1, <2>2, <2>3
  <2>4. ASSUME NEW m \in Node, NEW peers \in SUBSET Peers(m), Heartbeat(m, peers),
               entry'[FirstPrimary][n] # entry[FirstPrimary][n]
        PROVE  entry'[FirstPrimary][n][1] = 0 /\ entry'[FirstPrimary][n][2] <= pos'[n][2]
    <3>1. m = n /\ entry'[FirstPrimary][n] = Heard(entry[FirstPrimary][n], n)
      BY <2>4, FailoverAssumption DEF Heartbeat, FullTypeOK
    <3>2. Holds(n) = pos[n] /\ pos[n][1] = 0
      BY DEF Holds, IsPrimary, FirstTermRight, WritesInFirstTerm
    <3> DEFINE e == entry[FirstPrimary][n]
               p == Newer(<<e[1], e[2]>>, Holds(n))
    <3>3. p[1] = 0 /\ p[2] <= pos[n][2] /\ p[2] \in Nat
      BY <2>1, <2>2, <3>2 DEF Newer
    <3> HIDE DEF p
    <3>4. Heard(e, n)[1] = p[1] /\ Heard(e, n)[2] = p[2] BY DEF Heard, p
    <3> QED BY <2>1, <3>1, <3>3, <3>4
  <2>5. \/ \E m \in Node : \E peers \in SUBSET Peers(m) : Heartbeat(m, peers)
        \/ entry' = entry
    BY ZenonT(60)
    DEF Next, ElectionStep, vars, viewVars, CutOff, Heal, StartElection, Vote, NoVote, Win, Lose,
        Adopt, CatchUp, Expire, FanOut, Apply, Record, Admit, Restart, PromoteCall, LeaveCall
  <2> QED BY <2>3, <2>4, <2>5
<1> QED BY <1>1, <1>2, <1>3 DEF FirstTermRight

(* A candidate stays right while its election counts no new vote: positions *)
(* only grow.                                                               *)
LEMMA CandidateKept ==
  ASSUME FullTypeOK, FullTypeOK', Onwards, NEW n \in Node, CandidateRight(n),
         election'[n].rank = election[n].rank, election'[n].owed = election[n].owed,
         election'[n].got = election[n].got
  PROVE  CandidateRight(n)'
<1>0. /\ election[n].rank[2] \in Nat /\ election[n].owed \subseteq Write
      /\ \A m \in Node : pos[m][2] \in Nat /\ pos'[m][2] \in Nat
      /\ \A w \in Write : write[w].pos[2] \in Nat
  BY DEF FullTypeOK, TypeOK, Position, ElectionType, Progress
<1>1. election'[n].rank[2] <= pos'[n][2]
  BY <1>0 DEF CandidateRight, Onwards
<1>2. ASSUME NEW w \in election'[n].owed
      PROVE  Recorded(w)' /\ \E C \in SUBSET Node : Covers(C, election[n], write[w].pos[2])'
  <2>1. w \in Write /\ Recorded(w) BY <1>0 DEF CandidateRight
  <2>2. PICK C \in SUBSET Node : Covers(C, election[n], write[w].pos[2]) BY DEF CandidateRight
  <2>3. Recorded(w)' /\ write'[w].pos = write[w].pos BY <2>1 DEF Onwards
  <2>4. \A m \in C \ {FirstPrimary} : write[w].pos[2] <= pos'[m][2]
    BY <1>0, <2>1, <2>2 DEF Covers, Onwards
  <2>5. Covers(C, election[n], write[w].pos[2])'
    BY <2>2, <2>3, <2>4 DEF Covers, Quorum
  <2> QED BY <2>3, <2>5
<1> QED BY <1>1, <1>2 DEF CandidateRight

(* A voter that has reached a write makes the candidate cover it: it grants *)
(* its vote only to a rank that is not below its own.                       *)
LEMMA CandidateVoted ==
  ASSUME FullTypeOK, FirstTermRight, NEW n \in Node, NEW m \in Node, NEW heard \in BOOLEAN,
         Vote(n, m, heard), CandidateRight(n)
  PROVE  CandidateRight(n)'
<1>0. /\ election[n].rank[1] \in Nat /\ election[n].rank[2] \in Nat
      /\ election[n].rank[3] \in Nat /\ election[n].owed \subseteq Write
      /\ \A k \in Node : pos[k][2] \in Nat /\ \A w \in Write : write[w].pos[2] \in Nat
  BY DEF FullTypeOK, TypeOK, Position, ElectionType, Progress
<1>1. pos' = pos /\ write' = write BY DEF Vote, dataVars
<1>2. pos[m][2] <= election[n].rank[2]
  <2>1. ~LessRank(election[n].rank, Rank(m)) BY DEF Vote, MayVote, UpToDate
  <2>2. Rank(m)[1] = 0 /\ Rank(m)[2] = pos[m][2] BY DEF Rank, FirstTermRight, WritesInFirstTerm
  <2>3. election[n].rank[1] = 0 BY DEF CandidateRight
  <2> QED BY <1>0, <2>1, <2>2, <2>3 DEF LessRank, Less
<1>3. ASSUME NEW w \in election'[n].owed
      PROVE  Recorded(w)' /\ \E C \in SUBSET Node : Covers(C, election[n], write[w].pos[2])'
  <2>1. w \in election[n].owed /\ w \in Write BY <1>0, VoteFields
  <2>2. PICK C \in SUBSET Node : Covers(C, election[n], write[w].pos[2])
    BY <2>1 DEF CandidateRight
  <2>3. ASSUME NEW k \in C \ {FirstPrimary}, k \in election'[n].got
        PROVE  write[w].pos[2] <= election[n].rank[2]
    <3>1. CASE k \in election[n].got BY <2>2, <3>1 DEF Covers
    <3>2. CASE k = m BY <1>0, <1>2, <2>1, <2>2, <3>2 DEF Covers
    <3> QED BY <2>3, <3>1, <3>2, VoteFields
  <2>4. Covers(C, election[n], write[w].pos[2])'
    BY <1>1, <2>2, <2>3, VoteFields DEF Covers, Quorum
  <2> QED BY <1>1, <2>1, <2>4 DEF Recorded, CandidateRight
<1> QED BY <1>1, <1>3, VoteFields DEF CandidateRight

(* A new candidate is right: its rank is its position, and a quorum has     *)
(* reached what is committed.                                               *)
LEMMA CandidateStarts ==
  ASSUME FullTypeOK, FirstTermRight, NEW n \in Node, StartElection(n)
  PROVE  CandidateRight(n)'
<1>1. pos' = pos /\ write' = write BY DEF StartElection, dataVars
<1>2. n # FirstPrimary BY DEF StartElection, IsPrimary, FirstTermRight
<1>3. /\ election'[n].rank[1] = 0 /\ election'[n].rank[2] = pos[n][2]
      /\ election'[n].got = {n} /\ election'[n].owed = Committed
  BY StartFields DEF Rank, FirstTermRight, WritesInFirstTerm
<1>4. ASSUME NEW w \in Committed
      PROVE  Recorded(w) /\ \E C \in SUBSET Node : Covers(C, election[n], write[w].pos[2])'
  <2>1. PICK C \in SUBSET Node : /\ Quorum(C)
                                 /\ \A m \in C \ {FirstPrimary} : write[w].pos[2] <= pos[m][2]
    BY CommittedReached
  <2>2. Covers(C, election[n], write[w].pos[2])'
    BY <1>1, <1>3, <2>1 DEF Covers, Quorum
  <2> QED BY <2>2, CommittedReached
<1>5. election'[n].rank[2] <= pos'[n][2] BY <1>1, <1>3, PositionFields
<1> QED BY <1>1, <1>2, <1>3, <1>4, <1>5 DEF CandidateRight, Recorded

(* While nothing is announced, every step keeps what a candidate and its    *)
(* voters held when its election began.                                     *)
LEMMA CandidatesStep ==
  ASSUME FullTypeOK, WritesRight, FirstTermRight, CandidatesRight, [Next]_vars,
         anns = {}, anns' = {}, operated' = {}
  PROVE  CandidatesRight'
<1>0. FullTypeOK' /\ Onwards BY TypeStep, FirstTermStep
<1>1. ASSUME NEW n \in Node, StartElection(n), NEW k \in Node, election'[k] # NoElection
      PROVE  CandidateRight(k)'
  <2>1. CASE k = n BY <1>1, <2>1, CandidateStarts
  <2>2. CASE k # n
    <3>1. election'[k] = election[k] BY <1>1, <2>2, StartFields
    <3> QED BY <1>0, <1>1, <3>1, CandidateKept DEF CandidatesRight
  <2> QED BY <2>1, <2>2
<1>2. ASSUME NEW n \in Node, NEW m \in Node, NEW heard \in BOOLEAN, Vote(n, m, heard),
             NEW k \in Node, election'[k] # NoElection
      PROVE  CandidateRight(k)'
  <2>1. CASE k = n
    <3>1. election[n] # NoElection BY <1>2 DEF Vote
    <3> QED BY <1>2, <2>1, <3>1, CandidateVoted DEF CandidatesRight
  <2>2. CASE k # n
    <3>1. election'[k] = election[k] BY <1>2, <2>2, VoteFields
    <3> QED BY <1>0, <1>2, <3>1, CandidateKept DEF CandidatesRight
  <2> QED BY <2>1, <2>2
<1>3. ASSUME NEW n \in Node, NEW m \in Node, NoVote(n, m), NEW k \in Node, election'[k] # NoElection
      PROVE  CandidateRight(k)'
  <2>1. CASE k = n BY <1>0, <1>3, <2>1, NoVoteFields, CandidateKept DEF CandidatesRight
  <2>2. CASE k # n
    <3>1. election'[k] = election[k] BY <1>3, <2>2, NoVoteFields
    <3> QED BY <1>0, <1>3, <3>1, CandidateKept DEF CandidatesRight
  <2> QED BY <2>1, <2>2
<1>4. ASSUME NEW n \in Node, Win(n) \/ Lose(n), NEW k \in Node, election'[k] # NoElection
      PROVE  CandidateRight(k)'
  <2>1. election'[k] = election[k] BY <1>4, EndFields
  <2> QED BY <1>0, <1>4, <2>1, CandidateKept DEF CandidatesRight
<1>5. ASSUME election' = election, NEW k \in Node, election'[k] # NoElection
      PROVE  CandidateRight(k)'
  BY <1>0, <1>5, CandidateKept DEF CandidatesRight
<1>6. ASSUME NEW n \in Node, NEW s, Restart(n, s), NEW k \in Node, election'[k] # NoElection
      PROVE  CandidateRight(k)'
  <2>1. election'[k] = election[k] BY <1>6, RestartFields
  <2> QED BY <1>0, <1>6, <2>1, CandidateKept DEF CandidatesRight
<1>7. \A n, p \in Node : ~PromoteCall(n, p) /\ ~LeaveCall(n, p) BY DEF PromoteCall, LeaveCall
<1> QED BY <1>1, <1>2, <1>3, <1>4, <1>5, <1>6, <1>7, LeadershipSteps
      DEF CandidatesRight, leadVars, Adopt

(* The winner of the first election holds what its election owes: its       *)
(* majority and the quorum that had reached the write share a voter, which  *)
(* is not the old primary.                                                  *)
LEMMA WinnerHolds ==
  ASSUME FullTypeOK, FirstTermRight, CandidatesRight, NEW n \in Node, Win(n),
         FirstPrimary \notin election[n].got
  PROVE  \A w \in election[n].owed : w \in data[n] \/ Reissued(w)
<1>1. CandidateRight(n) /\ Quorum(election[n].got) BY DEF Win, CandidatesRight
<1>2. /\ election[n].got \in SUBSET Node /\ election[n].owed \subseteq Write
      /\ election[n].rank[2] \in Nat
  BY DEF FullTypeOK, ElectionType, Progress
<1>3. ASSUME NEW w \in election[n].owed PROVE w \in data[n] \/ Reissued(w)
  <2>1. PICK C \in SUBSET Node : Covers(C, election[n], write[w].pos[2])
    BY <1>1 DEF CandidateRight
  <2>2. PICK k \in Node : k \in C /\ k \in election[n].got
    BY <1>1, <1>2, <2>1, QuorumsMeet DEF Covers
  <2>3. write[w].pos[2] <= election[n].rank[2] BY <2>1, <2>2 DEF Covers
  <2>4. write[w].pos[2] <= pos[n][2]
    BY <1>1, <1>2, <2>3, PositionFields DEF CandidateRight
  <2> QED BY <1>1, <1>2, <2>4 DEF CandidateRight, FirstTermRight, WritesInFirstTerm
<1> QED BY <1>3

(* Nothing leaves the databases of a node. *)
LEMMA DataGrows ==
  ASSUME FullTypeOK, [Next]_vars, NEW n \in Node
  PROVE  data[n] \subseteq data'[n]
<1>1. ASSUME NEW w \in Write, Record(w) PROVE data[n] \subseteq data'[n]
  BY <1>1 DEF Record, FullTypeOK, TypeOK
<1>2. ASSUME NEW m \in Node, NEW w \in Write, Apply(m, w) PROVE data[n] \subseteq data'[n]
  BY <1>2 DEF Apply, FullTypeOK, TypeOK
<1>3. ASSUME data' = data PROVE data[n] \subseteq data'[n] BY <1>3
<1> QED BY <1>1, <1>2, <1>3, DataSteps DEF Admit, Restart, dataVars

(* Every step keeps TakeoverRight: the election that wins first hands over  *)
(* what CandidatesRight says.                                               *)
LEMMA TakeoverStep ==
  ASSUME FullTypeOK, WritesRight, TakeoverRight, [Next]_vars
  PROVE  TakeoverRight'
<1> DEFINE Rest == /\ (operated = {} => (takeover = NoTakeover <=> anns = {}))'
                   /\ (takeover # NoTakeover =>
                         takeover.by \in Node /\ \A w \in takeover.owed : Recorded(w))'
                   /\ TakeoverKeepsCommitted'
<1>1. anns' = {} /\ operated' = {} => FirstTermRight' /\ CandidatesRight'
  BY AnnsGrow, FirstTermStep, CandidatesStep DEF TakeoverRight
<1>2. ASSUME NEW n \in Node, Win(n), takeover = NoTakeover, operated = {} PROVE Rest
  <2> DEFINE t == [by |-> n, got |-> election[n].got, owed |-> election[n].owed]
  <2>1. /\ anns' # {} /\ UNCHANGED <<data, write, lost>> /\ takeover' = t
    BY <1>2 DEF Win, dataVars, seqVars
  <2>2. t # NoTakeover /\ t.by \in Node BY FailoverAssumption DEF NoTakeover
  <2>3. FirstTermRight /\ CandidatesRight BY <1>2 DEF TakeoverRight
  <2>4. FirstPrimary \notin t.got => \A w \in t.owed : w \in data[t.by] \/ Reissued(w)
    BY <1>2, <2>3, WinnerHolds
  <2>5. \A w \in t.owed : Recorded(w)
    BY <1>2, <2>3 DEF Win, CandidatesRight, CandidateRight
  <2> HIDE DEF t
  <2> QED BY <2>1, <2>2, <2>4, <2>5 DEF TakeoverKeepsCommitted, Reissued, Recorded
<1>3. ASSUME takeover' = takeover, \/ anns' = anns \/ takeover # NoTakeover \/ operated' # {},
             takeover # NoTakeover => anns \subseteq anns' /\ (operated = {} => anns # {})
      PROVE  Rest
  <2>0. operated' = {} => (takeover' = NoTakeover <=> anns' = {})
    BY <1>3, AnnsGrow DEF TakeoverRight
  <2>1. CASE takeover = NoTakeover
    BY <1>3, <2>0, <2>1 DEF TakeoverKeepsCommitted
  <2>2. CASE takeover # NoTakeover
    <3>1. takeover.by \in Node /\ takeover.owed \subseteq Write
          /\ \A w \in takeover.owed : Recorded(w)
      BY <2>2 DEF TakeoverRight, FullTypeOK
    <3>2. data[takeover.by] \subseteq data'[takeover.by] BY <3>1, DataGrows
    <3>3. \A w \in takeover.owed : Recorded(w)' /\ write'[w] = write[w] BY <3>1, RecordedKept
    <3>4. ASSUME NEW w \in takeover.owed, Reissued(w) PROVE Reissued(w)'
      <4>1. PICK v \in lost : write[v].pos = write[w].pos BY <3>4 DEF Reissued
      <4>2. v \in Write /\ Recorded(v) BY DEF WritesRight, FullTypeOK, TypeOK
      <4> QED BY <3>3, <4>1, <4>2, RecordedKept DEF Reissued
    <3>5. TakeoverKeepsCommitted'
      BY <1>3, <3>2, <3>4 DEF TakeoverRight, TakeoverKeepsCommitted
    <3> QED BY <1>3, <2>0, <2>2, <3>1, <3>3, <3>5
  <2> QED BY <2>1, <2>2
<1>4. takeover # NoTakeover => anns \subseteq anns' /\ (operated = {} => anns # {})
  BY AnnsGrow DEF TakeoverRight
<1>5. \/ \E n \in Node : Win(n) /\ takeover = NoTakeover /\ operated = {}
      \/ takeover' = takeover /\ (anns' = anns \/ takeover # NoTakeover \/ operated' # {})
  <2>1. ASSUME NEW n \in Node, Win(n), ~(takeover = NoTakeover /\ operated = {})
        PROVE  takeover' = takeover /\ (takeover # NoTakeover \/ operated' # {})
    BY <2>1 DEF Win
  <2>2. \/ \E n \in Node : Win(n)
        \/ anns' = anns /\ takeover' = takeover
    BY LeadershipSteps
       DEF StartElection, Lose, Vote, NoVote, Adopt, Restart, PromoteCall, LeaveCall, leadVars
  <2> QED BY <2>1, <2>2
<1>6. Rest BY <1>2, <1>3, <1>4, <1>5
<1> QED BY <1>1, <1>6 DEF TakeoverRight

-----------------------------------------------------------------------------
(* The invariant and the theorems *)

(* The invariant holds initially. *)
LEMMA IndInit == Init => IndInv
<1> SUFFICES ASSUME Init PROVE IndInv OBVIOUS
<1>1. FullTypeOK BY TypeInit
<1>2. /\ election = [n \in Node |-> NoElection] /\ write = [w \in Write |-> NewWrite]
      /\ lead = [n \in Node |-> [epoch |-> 0, primary |-> FirstPrimary]]
      /\ anns = {} /\ takeover = NoTakeover /\ lost = {} /\ operated = {}
      /\ pos = [n \in Node |-> <<0, 0>>] /\ opSeq = [n \in Node |-> 0]
      /\ entry = [n \in Node |-> [m \in Node |-> NoProgress]]
  BY DEF Init
<1>3. VotesRight BY <1>2 DEF VotesRight, NoElection
<1>4. LeadersRight BY <1>2 DEF LeadersRight, Leads
<1>5. \A w \in Write : ~Admitted(w) /\ ~Recorded(w) /\ write[w].pos = <<0, 0>>
  BY <1>2 DEF Admitted, Recorded, NewWrite
<1>6. WritesRight BY <1>2, <1>5 DEF WritesRight
<1>7. FirstTermRight
  <2>1. Bounded(0) BY <1>2, <1>5, FailoverAssumption DEF Bounded
  <2>2. WritesInFirstTerm BY <1>2, <1>5, <2>1, FailoverAssumption DEF WritesInFirstTerm
  <2> QED BY <1>2, <2>2, FailoverAssumption DEF FirstTermRight, NoProgress
<1>8. TakeoverRight
  BY <1>2, <1>7 DEF TakeoverRight, CandidatesRight, TakeoverKeepsCommitted
<1> QED BY <1>1, <1>3, <1>4, <1>6, <1>8 DEF IndInv

(* IndInv is inductive.                                                     *)
LEMMA IndStep == IndInv /\ [Next]_vars => IndInv'
BY TypeStep, LeadersStep, WritesStep, TakeoverStep DEF IndInv

(* IndInv holds in every reachable state.                                   *)
LEMMA Inductive == Spec => []IndInv
BY IndInit, IndStep, PTL DEF Spec

(* A log position names one write, whatever nodes are cut off or restart,   *)
(* and however late heartbeats and announcements are, unless a write was    *)
(* admitted under an older epoch than record_replication_op stamped it      *)
(* with, its number was forgotten by a restart, or a call named a primary   *)
(* in its epoch: writes of one epoch come from one primary, and its op_seq  *)
(* goes up with every write and back only to the last number saved.         *)
THEOREM PositionsNameOneWrite == Spec => []PositionNamesOneWrite
<1>1. ASSUME IndInv PROVE PositionNamesOneWrite
  <2> SUFFICES ASSUME NEW v \in Write \ lost, NEW w \in Write \ lost, v # w,
                      Recorded(v), Recorded(w), write[v].pos = write[w].pos,
                      write[v].epoch = write[v].pos[1], write[w].epoch = write[w].pos[1],
                      write[v].pos[1] \notin operated
               PROVE  FALSE
    BY DEF PositionNamesOneWrite
  <2>1. Admitted(v) /\ Admitted(w) BY <1>1 DEF IndInv, WritesRight
  <2>2. /\ write[v].at \in Node /\ write[w].at \in Node
        /\ write[v].epoch \in Nat /\ write[w].epoch = write[v].epoch
    BY <1>1, <2>1, FailoverAssumption DEF IndInv, FullTypeOK, WriteType, Admitted
  <2>3. Leads(write[v].at, write[v].epoch) /\ Leads(write[w].at, write[w].epoch)
    BY <1>1, <2>1 DEF IndInv, WritesRight
  <2>4. write[v].at = write[w].at BY <1>1, <2>2, <2>3, OneLeader DEF IndInv
  <2> QED BY <1>1, <2>4 DEF IndInv, WritesRight
<1> QED BY <1>1, Inductive, PTL

(* The first failover keeps every write that was committed when its         *)
(* election began, if the primary it replaces did not vote                  *)
(* (cluster_request_vote compares the applied positions of the voters) and  *)
(* no restart of that primary gave the position out again.                  *)
THEOREM TakeoversKeepCommitted == Spec => []TakeoverKeepsCommitted
<1>1. IndInv => TakeoverKeepsCommitted BY DEF IndInv, TakeoverRight
<1> QED BY <1>1, Inductive, PTL

=============================================================================
