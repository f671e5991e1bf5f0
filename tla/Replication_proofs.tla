-------------------------- MODULE Replication_proofs --------------------------
(***************************************************************************)
(* Proofs about Replication, for every set of writes and of replicas and   *)
(* every bound.                                                            *)
(***************************************************************************)
EXTENDS Replication, Subsequence_proofs

-----------------------------------------------------------------------------
(* The inductive invariant of every behaviour                               *)

Assigned == {w \in Write : seqOf[w] # 0}

(* The phase of a handler, its position and the primary's database agree.   *)
PhasesAgree ==
  \A w \in Write :
    /\ phase[w] \in {"new", "applied"} => seqOf[w] = 0
    /\ phase[w] \in {"sequenced", "logged"} => seqOf[w] # 0 /\ seqOf[w] <= opSeq
    /\ phase[w] = "new" <=> w \notin Range(content)

(* op_seq counts no more positions than were assigned, and never falls      *)
(* below the saved one.                                                     *)
SeqCounted == savedSeq <= opSeq /\ opSeq <= Cardinality(Assigned)

(* A snapshot file has a line for writes of the primary's database only,    *)
(* and a re-sync reads the file of a position that op_seq has had.          *)
FilesCovered ==
  /\ file \in [0..Cardinality(Write) -> Nat]
  /\ \A s \in 0..Cardinality(Write) : file[s] <= Len(content)
  /\ \A r \in Replica : loop[r].stage \in {"spill", "wipe", "lines"} =>
       loop[r].at \in 0..Cardinality(Write)

(* The barrier and the read lock of the export: no write is between its     *)
(* apply and its op-log entry, and no position is assigned.                 *)
ExportStill ==
  \A r \in Replica : loop[r].stage = "spill" => BarrierFree /\ loop[r].at = opSeq

IndInv == TypeOK /\ PhasesAgree /\ SeqCounted /\ FilesCovered /\ ExportStill

(* The inductive invariant gives the consistency of the snapshot. *)
LEMMA InvGivesSnapshot == IndInv => SnapshotConsistent
<1> SUFFICES ASSUME IndInv, NEW r \in Replica, loop[r].stage = "spill"
             PROVE  /\ loop[r].at = opSeq
                    /\ \A w \in Write : phase[w] # "dead" =>
                         (w \in Range(content) <=> w \in UpTo(loop[r].at))
  BY DEF SnapshotConsistent
<1>1. loop[r].at = opSeq /\ \A w \in Write : ~HoldsBarrier(w)
  BY DEF IndInv, ExportStill, BarrierFree
<1>2. ASSUME NEW w \in Write, phase[w] # "dead"
      PROVE  w \in Range(content) <=> w \in UpTo(loop[r].at)
  <2>1. phase[w] \in {"new", "logged"}
    BY <1>1, <1>2 DEF IndInv, TypeOK, Phase, HoldsBarrier
  <2> QED BY <1>1, <2>1 DEF IndInv, PhasesAgree, UpTo
<1> QED BY <1>1, <1>2

-----------------------------------------------------------------------------
(* Type correctness *)

(* The op-log keeps its type and its capacity. *)
LEMMA TrimType ==
  ASSUME NEW S, NEW s \in Seq(S)
  PROVE  Trim(s) \in Seq(S) /\ Len(Trim(s)) <= Cap
BY ReplicationAssumption DEF Trim

(* What a fetch returns are entries of the op-log. *)
LEMMA PendingType ==
  ASSUME NEW S, log \in Seq(S), NEW after
  PROVE  Pending(after) \in Seq(S)
<1>1. {i \in 1..Len(log) : log[i].seq > after} \in SUBSET (1..Len(log)) OBVIOUS
<1> QED BY <1>1, SelectedType DEF Pending

(* The states of the catch-up thread that the actions write are well typed. *)
LEMMA LoopType ==
  /\ IdleLoop \in Loop
  /\ \A stage \in Stage, at \in Nat : At(stage, at) \in Loop
BY DEF IdleLoop, At, Loop, Stage

(* A line that a re-sync reads is a write of the primary. *)
LEMMA LineIsWrite ==
  ASSUME TypeOK, FilesCovered, NEW r \in Replica,
         loop[r].stage = "lines", loop[r].off < file[loop[r].at]
  PROVE  content[loop[r].off + 1] \in Write
<1>1. loop[r].off \in Nat BY DEF TypeOK, Loop
<1>2. loop[r].at \in 0..Cardinality(Write) BY DEF FilesCovered
<1>3. file[loop[r].at] \in Nat /\ file[loop[r].at] <= Len(content)
  BY <1>2 DEF FilesCovered
<1>4. loop[r].off + 1 \in 1..Len(content) BY <1>1, <1>3 DEF TypeOK
<1> QED BY <1>4 DEF TypeOK

(* Every step keeps the types; FilesCovered bounds the line a re-sync       *)
(* reads.                                                                   *)
LEMMA TypeStep ==
  ASSUME TypeOK, FilesCovered, [Next]_vars
  PROVE  TypeOK'
<1> USE LoopType DEF boundVars
<1>1. ASSUME NEW w \in Write, ApplyWrite(w) PROVE TypeOK'
  BY <1>1 DEF ApplyWrite, TypeOK, Phase, replicaVars
<1>2. ASSUME NEW w \in Write, AssignSeq(w) PROVE TypeOK'
  BY <1>2 DEF AssignSeq, TypeOK, Phase, replicaVars
<1>3. ASSUME NEW w \in Write, PushLog(w) PROVE TypeOK'
  <2>1. [seq |-> seqOf[w], op |-> w] \in Entry BY DEF TypeOK, Entry
  <2>2. Append(log, [seq |-> seqOf[w], op |-> w]) \in Seq(Entry)
    BY <2>1 DEF TypeOK
  <2>3. log' \in Seq(Entry) /\ Len(log') <= Cap
    BY <1>3, <2>2, TrimType DEF PushLog
  <2> QED BY <1>3, <2>3 DEF PushLog, TypeOK, Phase, replicaVars
<1>4. CASE SaveSeq
  BY <1>4 DEF SaveSeq, TypeOK, replicaVars
<1>5. CASE PrimaryCrash
  <2>1. loop' \in [Replica -> Loop] BY <1>5 DEF PrimaryCrash, TypeOK
  <2>2. log' \in Seq(Entry) /\ Len(log') <= Cap
    BY <1>5, ReplicationAssumption DEF PrimaryCrash
  <2> QED BY <1>5, <2>1, <2>2 DEF PrimaryCrash, TypeOK, Phase
<1>6. ASSUME NEW w \in Write, NEW r \in Replica, FanOut(w, r) PROVE TypeOK'
  <2> DEFINE h == [seq |-> seqOf[w], op |-> w, done |-> FALSE, by |-> "fanout", late |-> 0]
  <2>1. h \in Handler BY DEF TypeOK, Handler
  <2>2. handler' \in [Replica -> SUBSET Handler]
    <3>1. handler' = handler \/ handler' = [handler EXCEPT ![r] = @ \cup {h}]
      BY <1>6 DEF FanOut, StartHandler
    <3> HIDE DEF h
    <3> QED BY <2>1, <3>1, ZenonT(60) DEF TypeOK
  <2>3. fanned' \subseteq Write \X Replica BY <1>6 DEF FanOut, TypeOK
  <2>4. UNCHANGED <<phase, seqOf, content, opSeq, savedSeq, log, rcontent, pos, loop, adv,
                   aborts>>
    BY <1>6 DEF FanOut
  <2> QED BY <2>2, <2>3, <2>4 DEF TypeOK
<1>7. ASSUME NEW r \in Replica, NEW h \in handler[r], HandlerApplies(r, h) PROVE TypeOK'
  <2>1. h \in Handler /\ h.op \in Write BY DEF TypeOK, Handler
  <2>2. [h EXCEPT !.done = TRUE] \in Handler BY <2>1 DEF Handler
  <2>3. handler' \in [Replica -> SUBSET Handler]
    BY <1>7, <2>2 DEF HandlerApplies, TypeOK
  <2>4. rcontent' \in [Replica -> Seq(Write)]
    BY <1>7, <2>1 DEF HandlerApplies, TypeOK
  <2> QED BY <1>7, <2>3, <2>4 DEF HandlerApplies, TypeOK, primaryVars
<1>8. ASSUME NEW r \in Replica, NEW h \in handler[r], HandlerRefused(r, h) PROVE TypeOK'
  <2>1. handler' \in [Replica -> SUBSET Handler] BY <1>8 DEF HandlerRefused, TypeOK
  <2>2. loop' \in [Replica -> Loop] BY <1>8 DEF HandlerRefused, TypeOK
  <2> QED BY <1>8, <2>1, <2>2 DEF HandlerRefused, TypeOK, primaryVars
<1>9. ASSUME NEW r \in Replica, NEW h \in handler[r], HandlerNotes(r, h) PROVE TypeOK'
  <2>1. h.seq \in Nat BY DEF TypeOK, Handler
  <2>2. handler' \in [Replica -> SUBSET Handler] BY <1>9 DEF HandlerNotes, TypeOK
  <2> QED BY <1>9, <2>1, <2>2 DEF HandlerNotes, TypeOK, primaryVars
<1>10. ASSUME NEW r \in Replica, StartRound(r) PROVE TypeOK'
  <2>1. At("fetch", pos[r]) \in Loop BY DEF TypeOK, Stage
  <2> QED BY <1>10, <2>1 DEF StartRound, SetLoop, TypeOK, primaryVars
<1>11. ASSUME NEW r \in Replica, Fetch(r) PROVE TypeOK'
  <2>1. Pending(loop[r].at) \in Seq(Entry) BY PendingType DEF TypeOK
  <2>2. [stage |-> "apply", at |-> 0, off |-> 0, ops |-> Pending(loop[r].at)] \in Loop
    BY <2>1 DEF Loop, Stage
  <2>3. At("begin", 0) \in Loop BY DEF Stage
  <2>4. loop' \in [Replica -> Loop] BY <1>11, <2>2, <2>3 DEF Fetch, SetLoop, TypeOK
  <2> QED BY <1>11, <2>4 DEF Fetch, TypeOK, primaryVars
<1>12. ASSUME NEW r \in Replica, CatchUpNext(r) PROVE TypeOK'
  <2>1. loop[r].ops \in Seq(Entry) /\ loop[r].ops # <<>>
    BY <1>12 DEF CatchUpNext, TypeOK, Loop
  <2>2. Head(loop[r].ops) \in Entry /\ Tail(loop[r].ops) \in Seq(Entry)
    BY <2>1
  <2> DEFINE h == [seq |-> Head(loop[r].ops).seq, op |-> Head(loop[r].ops).op,
                   done |-> FALSE, by |-> "catchup", late |-> 0]
  <2>3. h \in Handler
    BY <2>2 DEF Entry, Handler
  <2>4. handler' \in [Replica -> SUBSET Handler]
    <3>1. \/ handler' = handler
          \/ handler' = [handler EXCEPT ![r] = @ \cup {h}]
      BY <1>12 DEF CatchUpNext, StartHandler
    <3> HIDE DEF h
    <3> QED BY <2>3, <3>1, ZenonT(60) DEF TypeOK
  <2>5. [loop[r] EXCEPT !.ops = Tail(@)] \in Loop
    <3>1. loop[r] \in Loop /\ loop[r].ops \in Seq(Entry) BY DEF TypeOK, Loop
    <3>2. Tail(loop[r].ops) \in Seq(Entry) BY <2>2, <3>1
    <3> QED BY <3>1, <3>2, ZenonT(60) DEF Loop
  <2>6. loop' \in [Replica -> Loop] BY <1>12, <2>5 DEF CatchUpNext, SetLoop, TypeOK
  <2> QED BY <1>12, <2>4, <2>6 DEF CatchUpNext, TypeOK, primaryVars
<1>13. ASSUME NEW r \in Replica, EndRound(r) PROVE TypeOK'
  BY <1>13 DEF EndRound, SetLoop, TypeOK, primaryVars
<1>14. ASSUME NEW r \in Replica, SnapshotBegin(r) PROVE TypeOK'
  <2>1. At("spill", opSeq) \in Loop BY DEF TypeOK, Stage
  <2> QED BY <1>14, <2>1 DEF SnapshotBegin, SetLoop, TypeOK, primaryVars
<1>15. ASSUME NEW r \in Replica, SnapshotSpilled(r) PROVE TypeOK'
  <2>1. At("wipe", loop[r].at) \in Loop BY DEF TypeOK, Loop, Stage
  <2> QED BY <1>15, <2>1 DEF SnapshotSpilled, SetLoop, TypeOK, primaryVars
<1>16. ASSUME NEW r \in Replica, Wipe(r) PROVE TypeOK'
  <2>1. At("lines", loop[r].at) \in Loop BY DEF TypeOK, Loop, Stage
  <2> QED BY <1>16, <2>1 DEF Wipe, SetLoop, TypeOK, primaryVars
<1>17. ASSUME NEW r \in Replica, ApplyLine(r) PROVE TypeOK'
  <2>1. content[loop[r].off + 1] \in Write BY <1>17, LineIsWrite DEF ApplyLine
  <2>2. [loop[r] EXCEPT !.off = @ + 1] \in Loop
    <3>1. loop[r] \in Loop BY DEF TypeOK
    <3>2. loop[r].off \in Nat BY <3>1 DEF Loop
    <3>3. loop[r].off + 1 \in Nat BY <3>2
    <3> QED BY <3>1, <3>3 DEF Loop
  <2>3. rcontent' \in [Replica -> Seq(Write)] BY <1>17, <2>1 DEF ApplyLine, TypeOK
  <2> QED BY <1>17, <2>2, <2>3 DEF ApplyLine, SetLoop, TypeOK, primaryVars
<1>18. ASSUME NEW r \in Replica, LineRefused(r) PROVE TypeOK'
  BY <1>18 DEF LineRefused, SetLoop, TypeOK, primaryVars
<1>19. ASSUME NEW r \in Replica, AdoptSnapshot(r) PROVE TypeOK'
  <2>1. loop[r].at \in Nat BY DEF TypeOK, Loop
  <2> QED BY <1>19, <2>1 DEF AdoptSnapshot, SetLoop, TypeOK, primaryVars
<1>20. ASSUME NEW r \in Replica, AbortResync(r) PROVE TypeOK'
  BY <1>20 DEF AbortResync, SetLoop, TypeOK, primaryVars
<1>23. ASSUME NEW r \in Replica, NEW h \in handler[r], LoopbackTimeout(r, h) PROVE TypeOK'
  <2>1. h \in Handler BY DEF TypeOK
  <2>2. [h EXCEPT !.late = aborts + 1] \in Handler
    <3>1. aborts + 1 \in Nat BY DEF TypeOK
    <3> QED BY <2>1, <3>1 DEF Handler
  <2>3. handler' \in [Replica -> SUBSET Handler]
    BY <1>23, <2>2 DEF LoopbackTimeout, TypeOK
  <2> QED BY <1>23, <2>3 DEF LoopbackTimeout, SetLoop, TypeOK, primaryVars
<1>21. ASSUME NEW r \in Replica, Heartbeat(r) PROVE TypeOK'
  BY <1>21 DEF Heartbeat, TypeOK, primaryVars, replicaVars
<1>22. CASE UNCHANGED vars
  BY <1>22 DEF vars, TypeOK, primaryVars, replicaVars
<1> QED
  BY <1>1, <1>2, <1>3, <1>4, <1>5, <1>6, <1>7, <1>8, <1>9, <1>10, <1>11, <1>12, <1>13,
     <1>14, <1>15, <1>16, <1>17, <1>18, <1>19, <1>20, <1>21, <1>22, <1>23
  DEF Next, WriterStep, LoopStep, HandlerStep

-----------------------------------------------------------------------------
(* The snapshot barrier *)

(* A step that leaves the primary, its snapshot files and the re-syncs      *)
(* alone, or ends a re-sync.                                                *)
LEMMA ReplicaStep ==
  ASSUME IndInv, UNCHANGED <<primaryVars, file>>,
         \A r \in Replica : loop'[r].stage \in {"spill", "wipe", "lines"} =>
           /\ loop'[r].at = loop[r].at
           /\ loop[r].stage \in {"spill", "wipe", "lines"}
           /\ loop'[r].stage = "spill" => loop[r].stage = "spill"
  PROVE  PhasesAgree' /\ SeqCounted' /\ FilesCovered' /\ ExportStill'
<1>1. PhasesAgree' BY DEF IndInv, PhasesAgree, primaryVars
<1>2. SeqCounted' BY DEF IndInv, SeqCounted, Assigned, primaryVars
<1>3. FilesCovered' BY DEF IndInv, FilesCovered, primaryVars
<1>4. ExportStill'
  BY DEF IndInv, ExportStill, BarrierFree, HoldsBarrier, primaryVars
<1> QED BY <1>1, <1>2, <1>3, <1>4

(* The stage and the position of the loop of r after a step on r. *)
LEMMA LoopSet ==
  ASSUME TypeOK, NEW r \in Replica, NEW l, SetLoop(r, l)
  PROVE  \A q \in Replica : loop'[q] = IF q = r THEN l ELSE loop[q]
BY DEF TypeOK, SetLoop

(* There are no more positions than writes. *)
LEMMA SeqBounded ==
  ASSUME IndInv
  PROVE  /\ IsFiniteSet(Assigned) /\ Cardinality(Assigned) \in Nat
         /\ Cardinality(Write) \in Nat /\ opSeq \in 0..Cardinality(Write)
<1>1. Assigned \subseteq Write BY DEF Assigned
<1>2. /\ IsFiniteSet(Assigned) /\ Cardinality(Assigned) \in Nat /\ Cardinality(Write) \in Nat
      /\ Cardinality(Assigned) <= Cardinality(Write)
  BY <1>1, ReplicationAssumption, FS_Subset, FS_CardinalityType
<1> QED BY <1>2 DEF IndInv, SeqCounted, TypeOK

(* IndInv holds initially.                                                  *)
LEMMA IndInit == Init => IndInv
<1> SUFFICES ASSUME Init PROVE IndInv
  OBVIOUS
<1>1. TypeOK
  BY ReplicationAssumption, LoopType DEF Init, TypeOK, Phase
<1>2. PhasesAgree BY RangeEmpty DEF Init, PhasesAgree
<1>3. SeqCounted
  <2>1. Assigned = {} BY DEF Init, Assigned
  <2> QED BY <2>1, FS_EmptySet DEF Init, SeqCounted
<1>4. FilesCovered BY DEF Init, FilesCovered, IdleLoop
<1>5. ExportStill BY DEF Init, ExportStill, IdleLoop
<1> QED BY <1>1, <1>2, <1>3, <1>4, <1>5 DEF IndInv

(* Every step keeps the invariant: the write path moves a write through its *)
(* phases, an export begins only when the barrier is free, and a crash      *)
(* drops the exports with the handlers.                                     *)
LEMMA IndStep == IndInv /\ [Next]_vars => IndInv'
<1> SUFFICES ASSUME IndInv, [Next]_vars
             PROVE  PhasesAgree' /\ SeqCounted' /\ FilesCovered' /\ ExportStill'
  BY TypeStep DEF IndInv
<1> DEFINE Goal == PhasesAgree' /\ SeqCounted' /\ FilesCovered' /\ ExportStill'
<1>0. TypeOK BY DEF IndInv
<1>a. /\ IdleLoop.stage = "idle"
      /\ \A s, p : At(s, p).stage = s /\ At(s, p).at = p
  BY DEF IdleLoop, At
<1>1. ASSUME NEW w \in Write, ApplyWrite(w) PROVE Goal
  <2>1. /\ content' = Append(content, w) /\ phase' = [phase EXCEPT ![w] = "applied"]
        /\ phase[w] = "new" /\ ~Exporting
        /\ UNCHANGED <<seqOf, opSeq, savedSeq, file, loop>>
    BY <1>1 DEF ApplyWrite, replicaVars
  <2>2. Range(content') = Range(content) \cup {w}
    BY <1>0, <2>1, RangeAppend DEF TypeOK
  <2>3. PhasesAgree' BY <1>0, <2>1, <2>2 DEF IndInv, PhasesAgree, TypeOK
  <2>4. SeqCounted' BY <2>1 DEF IndInv, SeqCounted, Assigned
  <2>5. Len(content') = Len(content) + 1 /\ Len(content) \in Nat
    BY <1>0, <2>1 DEF TypeOK
  <2>6. FilesCovered' BY <2>1, <2>5 DEF IndInv, FilesCovered
  <2>7. ExportStill' BY <2>1 DEF Exporting, ExportStill
  <2> QED BY <2>3, <2>4, <2>6, <2>7
<1>2. ASSUME NEW w \in Write, AssignSeq(w) PROVE Goal
  <2>1. /\ phase[w] = "applied" /\ phase' = [phase EXCEPT ![w] = "sequenced"]
        /\ opSeq' = opSeq + 1 /\ seqOf' = [seqOf EXCEPT ![w] = opSeq + 1]
        /\ UNCHANGED <<content, savedSeq, file, loop>>
    BY <1>2 DEF AssignSeq, replicaVars
  <2>2. PhasesAgree' BY <1>0, <2>1 DEF IndInv, PhasesAgree, TypeOK
  <2>3. SeqCounted'
    <3>1. seqOf[w] = 0 BY <2>1 DEF IndInv, PhasesAgree
    <3>2. opSeq + 1 # 0 BY <1>0 DEF TypeOK
    <3>3. Assigned' = Assigned \cup {w} /\ w \notin Assigned
      BY <1>0, <2>1, <3>1, <3>2 DEF Assigned, TypeOK
    <3>4. Cardinality(Assigned') = Cardinality(Assigned) + 1
      BY <3>3, SeqBounded, FS_AddElement
    <3> QED BY <1>0, <2>1, <3>4, SeqBounded DEF IndInv, SeqCounted, TypeOK
  <2>4. FilesCovered' BY <2>1 DEF IndInv, FilesCovered
  <2>5. ExportStill'
    BY <2>1 DEF IndInv, ExportStill, BarrierFree, HoldsBarrier
  <2> QED BY <2>2, <2>3, <2>4, <2>5
<1>3. ASSUME NEW w \in Write, PushLog(w) PROVE Goal
  <2>1. /\ phase[w] = "sequenced" /\ phase' = [phase EXCEPT ![w] = "logged"]
        /\ UNCHANGED <<content, seqOf, opSeq, savedSeq, file, loop>>
    BY <1>3 DEF PushLog, replicaVars
  <2>2. PhasesAgree' BY <1>0, <2>1 DEF IndInv, PhasesAgree, TypeOK
  <2>3. SeqCounted' BY <2>1 DEF IndInv, SeqCounted, Assigned
  <2>4. FilesCovered' BY <2>1 DEF IndInv, FilesCovered
  <2>5. ExportStill'
    BY <2>1 DEF IndInv, ExportStill, BarrierFree, HoldsBarrier
  <2> QED BY <2>2, <2>3, <2>4, <2>5
<1>4. CASE SaveSeq
  <2>1. savedSeq' = opSeq /\ UNCHANGED <<phase, content, seqOf, opSeq, file, loop>>
    BY <1>4 DEF SaveSeq, replicaVars
  <2>2. PhasesAgree' BY <2>1 DEF IndInv, PhasesAgree
  <2>3. SeqCounted' BY <1>0, <2>1 DEF IndInv, SeqCounted, Assigned, TypeOK
  <2>4. FilesCovered' BY <2>1 DEF IndInv, FilesCovered
  <2>5. ExportStill'
    BY <2>1 DEF IndInv, ExportStill, BarrierFree, HoldsBarrier
  <2> QED BY <2>2, <2>3, <2>4, <2>5
<1>5. CASE PrimaryCrash
  <2>1. /\ opSeq' = savedSeq
        /\ phase' = [w \in Write |-> IF phase[w] = "new" THEN "new" ELSE "dead"]
        /\ loop' = [r \in Replica |-> IF loop[r].stage \in {"fetch", "begin", "spill"}
                                      THEN IdleLoop ELSE loop[r]]
        /\ UNCHANGED <<content, seqOf, savedSeq, file>>
    BY <1>5 DEF PrimaryCrash
  <2>2. PhasesAgree' BY <2>1 DEF IndInv, PhasesAgree
  <2>3. SeqCounted'
    BY <1>0, <2>1, SeqBounded DEF IndInv, SeqCounted, Assigned, TypeOK
  <2>4. \A r \in Replica : loop'[r].stage # "spill"
    BY <1>a, <2>1
  <2>5. FilesCovered'
    <3>1. \A r \in Replica : loop'[r].stage \in {"wipe", "lines"} => loop'[r] = loop[r]
      BY <1>a, <2>1
    <3> QED BY <2>1, <2>4, <3>1 DEF IndInv, FilesCovered
  <2>6. ExportStill' BY <2>4 DEF ExportStill
  <2> QED BY <2>2, <2>3, <2>5, <2>6
<1>6. ASSUME NEW w \in Write, NEW r \in Replica, FanOut(w, r) PROVE Goal
  <2>1. UNCHANGED <<phase, content, seqOf, opSeq, savedSeq, file, loop>>
    BY <1>6 DEF FanOut
  <2>2. PhasesAgree' BY <2>1 DEF IndInv, PhasesAgree
  <2>3. SeqCounted' BY <2>1 DEF IndInv, SeqCounted, Assigned
  <2>4. FilesCovered' BY <2>1 DEF IndInv, FilesCovered
  <2>5. ExportStill'
    BY <2>1 DEF IndInv, ExportStill, BarrierFree, HoldsBarrier
  <2> QED BY <2>2, <2>3, <2>4, <2>5
<1>7. ASSUME loop' = loop, UNCHANGED <<primaryVars, file>> PROVE Goal
  BY <1>7, ReplicaStep
<1>8. ASSUME NEW r \in Replica, NEW l, SetLoop(r, l), UNCHANGED <<primaryVars, file>>,
             \/ l.stage \notin {"spill", "wipe", "lines"}
             \/ /\ loop[r].stage \in {"wipe", "lines"} /\ l.stage \in {"wipe", "lines"}
                /\ l.at = loop[r].at
      PROVE  Goal
  <2>1. \A q \in Replica : loop'[q] = IF q = r THEN l ELSE loop[q]
    BY <1>0, <1>8, LoopSet
  <2> QED BY <1>8, <2>1, ReplicaStep
<1>9. ASSUME NEW r \in Replica, NEW h \in handler[r],
             HandlerApplies(r, h) \/ HandlerNotes(r, h) \/ HandlerRefused(r, h)
      PROVE  Goal
  <2>1. UNCHANGED <<primaryVars, file>>
    BY <1>9 DEF HandlerApplies, HandlerNotes, HandlerRefused
  <2>2. loop' = loop \/ SetLoop(r, IdleLoop)
    BY <1>9 DEF HandlerApplies, HandlerNotes, HandlerRefused, SetLoop
  <2> QED BY <1>7, <1>8, <1>a, <2>1, <2>2
<1>10. ASSUME NEW r \in Replica, StartRound(r) PROVE Goal
  BY <1>8, <1>10, <1>a DEF StartRound
<1>11. ASSUME NEW r \in Replica, Fetch(r) PROVE Goal
  <2>1. PICK l : SetLoop(r, l) /\ l.stage \in {"idle", "begin", "apply"}
    BY <1>11, <1>a DEF Fetch
  <2> QED BY <1>8, <1>11, <2>1 DEF Fetch
<1>12. ASSUME NEW r \in Replica, CatchUpNext(r) PROVE Goal
  <2>1. [loop[r] EXCEPT !.ops = Tail(@)].stage = "apply"
    BY <1>0, <1>12 DEF CatchUpNext, TypeOK, Loop
  <2> QED BY <1>8, <1>12, <2>1 DEF CatchUpNext
<1>13. ASSUME NEW r \in Replica, EndRound(r) PROVE Goal
  BY <1>8, <1>13, <1>a DEF EndRound
<1>14. ASSUME NEW r \in Replica, SnapshotBegin(r) PROVE Goal
  <2>1. /\ BarrierFree /\ file' = [file EXCEPT ![opSeq] = 0]
        /\ SetLoop(r, At("spill", opSeq)) /\ UNCHANGED primaryVars
    BY <1>14 DEF SnapshotBegin
  <2>2. \A q \in Replica : loop'[q] = IF q = r THEN At("spill", opSeq) ELSE loop[q]
    BY <1>0, <2>1, LoopSet
  <2>3. PhasesAgree' BY <2>1 DEF IndInv, PhasesAgree, primaryVars
  <2>4. SeqCounted' BY <2>1 DEF IndInv, SeqCounted, Assigned, primaryVars
  <2>5. FilesCovered'
    <3>1. /\ file' \in [0..Cardinality(Write) -> Nat]
          /\ \A s \in 0..Cardinality(Write) : file'[s] <= Len(content)
      BY <1>0, <2>1, SeqBounded DEF IndInv, FilesCovered, TypeOK
    <3> QED BY <1>a, <2>1, <2>2, <3>1, SeqBounded DEF IndInv, FilesCovered, primaryVars
  <2>6. ExportStill'
    <3>1. BarrierFree' BY <2>1 DEF BarrierFree, HoldsBarrier, primaryVars
    <3> QED BY <1>a, <2>1, <2>2, <3>1 DEF IndInv, ExportStill, primaryVars
  <2> QED BY <2>3, <2>4, <2>5, <2>6
<1>15. ASSUME NEW r \in Replica, SnapshotSpilled(r) PROVE Goal
  <2>1. /\ loop[r].stage = "spill" /\ file' = [file EXCEPT ![loop[r].at] = Len(content)]
        /\ SetLoop(r, At("wipe", loop[r].at)) /\ UNCHANGED primaryVars
    BY <1>15 DEF SnapshotSpilled
  <2>2. \A q \in Replica : loop'[q] = IF q = r THEN At("wipe", loop[r].at) ELSE loop[q]
    BY <1>0, <2>1, LoopSet
  <2>3. PhasesAgree' BY <2>1 DEF IndInv, PhasesAgree, primaryVars
  <2>4. SeqCounted' BY <2>1 DEF IndInv, SeqCounted, Assigned, primaryVars
  <2>5. FilesCovered'
    <3>1. /\ file' \in [0..Cardinality(Write) -> Nat]
          /\ \A s \in 0..Cardinality(Write) : file'[s] <= Len(content)
      BY <1>0, <2>1 DEF IndInv, FilesCovered, TypeOK
    <3> QED BY <1>a, <2>1, <2>2, <3>1 DEF IndInv, FilesCovered, primaryVars
  <2>6. ExportStill'
    BY <1>a, <2>1, <2>2
    DEF IndInv, ExportStill, BarrierFree, HoldsBarrier, primaryVars
  <2> QED BY <2>3, <2>4, <2>5, <2>6
<1>16. ASSUME NEW r \in Replica, Wipe(r) PROVE Goal
  BY <1>8, <1>16, <1>a DEF Wipe
<1>17. ASSUME NEW r \in Replica, ApplyLine(r) PROVE Goal
  <2>1. /\ [loop[r] EXCEPT !.off = @ + 1].stage = "lines"
        /\ [loop[r] EXCEPT !.off = @ + 1].at = loop[r].at
    BY <1>0, <1>17 DEF ApplyLine, TypeOK, Loop
  <2> QED BY <1>8, <1>17, <2>1 DEF ApplyLine
<1>18. ASSUME NEW r \in Replica, LineRefused(r) PROVE Goal
  BY <1>8, <1>18, <1>a DEF LineRefused
<1>19. ASSUME NEW r \in Replica, AdoptSnapshot(r) PROVE Goal
  BY <1>8, <1>19, <1>a DEF AdoptSnapshot
<1>20. ASSUME NEW r \in Replica, AbortResync(r) PROVE Goal
  BY <1>8, <1>20, <1>a DEF AbortResync
<1>23. ASSUME NEW r \in Replica, NEW h \in handler[r], LoopbackTimeout(r, h) PROVE Goal
  BY <1>8, <1>23, <1>a DEF LoopbackTimeout
<1>21. ASSUME NEW r \in Replica, Heartbeat(r) PROVE Goal
  BY <1>7, <1>21 DEF Heartbeat, replicaVars
<1>22. CASE UNCHANGED vars
  BY <1>7, <1>22 DEF vars, replicaVars
<1> QED
  BY <1>1, <1>2, <1>3, <1>4, <1>5, <1>6, <1>9, <1>10, <1>11, <1>12, <1>13, <1>14,
     <1>15, <1>16, <1>17, <1>18, <1>19, <1>20, <1>21, <1>22, <1>23
  DEF Next, WriterStep, LoopStep, HandlerStep

(* The strengthened invariant holds in every reachable state. *)
LEMMA Inductive == Spec => []IndInv
<1>1. IndInv /\ [Next]_vars => IndInv' BY IndStep
<1> QED BY IndInit, <1>1, PTL DEF Spec

(* Type correctness, also across crashes of the primary and re-syncs; the   *)
(* op-log never holds more than its capacity.                               *)
THEOREM TypeCorrect == Spec => []TypeOK
<1>1. IndInv => TypeOK BY DEF IndInv
<1> QED BY Inductive, <1>1, PTL

(* The seq_barrier of the write path and the engine read lock of the export *)
(* make the snapshot and its position agree: whatever writes, crashes and   *)
(* other exports happen around it, an exported database holds exactly the   *)
(* writes up to the position it is named by.                                *)
THEOREM SnapshotsConsistent == Spec => []SnapshotConsistent
BY Inductive, InvGivesSnapshot, PTL

-----------------------------------------------------------------------------
(* Positions stand for content.  A re-sync wipes a replica and a crash of   *)
(* the primary may reuse positions, so the next results are about the       *)
(* behaviours without either; whether one happens depends on the capacity   *)
(* of the op-log and on how far a replica is behind, not on the invariant.  *)

(* The primary has not crashed and no replica is being wiped. *)
Undisturbed == crashes = 0 /\ \A r \in Replica : loop[r].stage # "wipe"

(* The entries that name a write by its position. *)
Named == {e \in Entry : e.seq # 0 /\ seqOf[e.op] = e.seq}

(* A position is given once, to a write of the primary's database, and no   *)
(* position up to op_seq is left out; op-log and fetched operations name    *)
(* writes by their positions.                                               *)
PositionsGiven ==
  /\ \A w \in Write : seqOf[w] <= opSeq
  /\ \A v, w \in Write : seqOf[v] # 0 /\ seqOf[v] = seqOf[w] => v = w
  /\ \A i \in 1..opSeq : \E w \in Write : seqOf[w] = i
  /\ \A w \in Write : seqOf[w] # 0 => w \in Range(content)
  /\ log \in Seq(Named)
  /\ \A r \in Replica : loop[r].ops \in Seq(Named) /\ loop[r].stage # "lines"

(* An operation that r decided to apply has its position, and r already     *)
(* holds every write before it.                                             *)
HandlersInOrder ==
  \A r \in Replica : \A h \in handler[r] :
    /\ h.seq # 0 /\ seqOf[h.op] = h.seq
    /\ UpTo(h.seq - 1) \subseteq Range(rcontent[r])
    /\ h.done => h.op \in Range(rcontent[r])

(* A replica holds a prefix of the log that reaches its own position and    *)
(* the one the primary heard of.                                            *)
PrefixHeld ==
  \A r \in Replica :
    /\ \A w \in Range(rcontent[r]) : seqOf[w] # 0 /\ UpTo(seqOf[w]) \subseteq Range(rcontent[r])
    /\ pos[r] <= opSeq /\ UpTo(pos[r]) \subseteq Range(rcontent[r])
    /\ adv[r] <= opSeq /\ UpTo(adv[r]) \subseteq Range(rcontent[r])

OrderInv == PositionsGiven /\ HandlersInOrder /\ PrefixHeld /\ AppliedInOrder

(* One write is added at each position. *)
LEMMA UpToNext ==
  ASSUME TypeOK, PositionsGiven, NEW w \in Write, seqOf[w] # 0
  PROVE  UpTo(seqOf[w]) = UpTo(seqOf[w] - 1) \cup {w}
<1>1. ASSUME NEW v \in Write
      PROVE  v \in UpTo(seqOf[w]) <=> v \in UpTo(seqOf[w] - 1) \cup {w}
  <2>1. seqOf[v] \in Nat /\ seqOf[w] \in Nat BY DEF TypeOK
  <2>2. seqOf[v] # 0 /\ seqOf[v] = seqOf[w] => v = w BY DEF PositionsGiven
  <2> QED BY <2>1, <2>2 DEF UpTo
<1> QED BY <1>1 DEF UpTo

(* Steps that move no write and at most replace fetched operations. *)
LEMMA QuietOrder ==
  ASSUME OrderInv, UNCHANGED <<seqOf, opSeq, content, log, rcontent, pos, handler, adv>>,
         \A r \in Replica : loop'[r].ops \in Seq(Named) /\ loop'[r].stage # "lines"
  PROVE  OrderInv'
<1>1. PositionsGiven' BY DEF OrderInv, PositionsGiven, Named
<1>2. HandlersInOrder' BY DEF OrderInv, HandlersInOrder, UpTo
<1>3. PrefixHeld' BY DEF OrderInv, PrefixHeld, UpTo
<1>4. AppliedInOrder' BY DEF OrderInv, AppliedInOrder
<1> QED BY <1>1, <1>2, <1>3, <1>4 DEF OrderInv

(* A step on the loop of r that leaves it without fetched operations, or    *)
(* with operations of the op-log.                                           *)
LEMMA LoopOrder ==
  ASSUME TypeOK, OrderInv,
         UNCHANGED <<seqOf, opSeq, content, log, rcontent, pos, handler, adv>>,
         NEW r \in Replica, NEW l, SetLoop(r, l), l.ops \in Seq(Named), l.stage # "lines"
  PROVE  OrderInv'
<1>1. \A q \in Replica : loop'[q] = IF q = r THEN l ELSE loop[q]
  BY LoopSet
<1> QED BY <1>1, QuietOrder DEF OrderInv, PositionsGiven

(* A new handler decided by NextInOrder. *)
LEMMA HandlerOrder ==
  ASSUME TypeOK, OrderInv, UNCHANGED <<seqOf, rcontent>>,
         NEW r \in Replica, NEW s, NEW w \in Write, NEW by, seqOf[w] = s,
         IF NextInOrder(r, s) THEN StartHandler(r, s, w, by) ELSE UNCHANGED handler
  PROVE  HandlersInOrder'
<1>1. CASE ~NextInOrder(r, s)
  BY <1>1 DEF OrderInv, HandlersInOrder, UpTo
<1>2. CASE NextInOrder(r, s)
  <2> DEFINE n == [seq |-> s, op |-> w, done |-> FALSE, by |-> by, late |-> 0]
  <2>1. s # 0 /\ s - 1 = pos[r]
    BY <1>2 DEF NextInOrder, TypeOK
  <2>2. UpTo(s - 1) \subseteq Range(rcontent[r]) BY <2>1 DEF OrderInv, PrefixHeld
  <2>3. handler' = [handler EXCEPT ![r] = @ \cup {n}] BY <1>2 DEF StartHandler
  <2>4. n.seq = s /\ n.op = w /\ n.done = FALSE OBVIOUS
  <2> HIDE DEF n
  <2>5. \A q \in Replica : handler'[q] = IF q = r THEN handler[r] \cup {n} ELSE handler[q]
    BY <2>3 DEF TypeOK
  <2>6. \A x : UpTo(x)' = UpTo(x) BY DEF UpTo
  <2> QED BY <2>1, <2>2, <2>4, <2>5, <2>6 DEF OrderInv, HandlersInOrder
<1> QED BY <1>1, <1>2

(* Writes that were not moved keep their order. *)
LEMMA NothingMoved ==
  ASSUME OrderInv, UNCHANGED <<seqOf, rcontent>>
  PROVE  AppliedInOrder'
BY DEF OrderInv, AppliedInOrder

(* OrderInv holds initially.                                                *)
LEMMA OrderInit == Init => OrderInv
<1> SUFFICES ASSUME Init PROVE OrderInv
  OBVIOUS
<1>1. PositionsGiven
  <2>1. \A w \in Write : seqOf[w] = 0 /\ seqOf[w] <= opSeq BY DEF Init
  <2>2. \A i \in 1..opSeq : FALSE BY DEF Init
  <2>3. /\ log \in Seq(Named)
        /\ \A r \in Replica : loop[r].ops \in Seq(Named) /\ loop[r].stage # "lines"
    <3>1. <<>> \in Seq(Named) OBVIOUS
    <3>2. IdleLoop.ops = <<>> /\ IdleLoop.stage = "idle" BY DEF IdleLoop
    <3>3. log = <<>> /\ \A r \in Replica : loop[r] = IdleLoop BY DEF Init
    <3> QED BY <3>1, <3>2, <3>3
  <2> QED BY <2>1, <2>2, <2>3 DEF PositionsGiven
<1>2. HandlersInOrder BY DEF Init, HandlersInOrder
<1>3. PrefixHeld BY RangeEmpty DEF Init, PrefixHeld, UpTo
<1>4. AppliedInOrder BY DEF Init, AppliedInOrder
<1> QED BY <1>1, <1>2, <1>3, <1>4 DEF OrderInv

(* A new position is beyond every other one. *)
LEMMA AssignOrder ==
  ASSUME IndInv, OrderInv, NEW w \in Write, AssignSeq(w)
  PROVE  OrderInv'
<1>0. TypeOK /\ PositionsGiven BY DEF IndInv, OrderInv
<1>1. /\ opSeq' = opSeq + 1 /\ seqOf' = [seqOf EXCEPT ![w] = opSeq + 1]
      /\ phase[w] = "applied"
      /\ UNCHANGED <<content, log, rcontent, pos, handler, loop, adv>>
  BY DEF AssignSeq, replicaVars
<1>2. seqOf[w] = 0 /\ w \in Range(content) BY <1>1 DEF IndInv, PhasesAgree
<1>3. \A v \in Write : /\ seqOf'[v] = IF v = w THEN opSeq + 1 ELSE seqOf[v]
                       /\ seqOf[v] \in Nat /\ seqOf[v] <= opSeq
  BY <1>0, <1>1 DEF TypeOK, PositionsGiven
<1>4. \A s \in Nat : s <= opSeq => UpTo(s)' = UpTo(s)
  <2> SUFFICES ASSUME NEW s \in Nat, s <= opSeq PROVE UpTo(s)' = UpTo(s)
    OBVIOUS
  <2>1. opSeq \in Nat BY <1>0 DEF TypeOK
  <2>2. \A v \in Write : seqOf'[v] # 0 /\ seqOf'[v] <= s <=> seqOf[v] # 0 /\ seqOf[v] <= s
    BY <1>2, <1>3, <2>1
  <2> QED BY <2>2 DEF UpTo
<1>5. Named \subseteq Named'
  <2>1. ASSUME NEW e \in Named PROVE e \in Named'
    <3>1. e \in Entry /\ e.op \in Write /\ e.seq # 0 /\ seqOf[e.op] = e.seq
      BY DEF Named, Entry
    <3>2. e.op # w BY <1>2, <3>1
    <3> QED BY <1>3, <3>1, <3>2 DEF Named
  <2> QED BY <2>1
<1>6. PositionsGiven'
  <2>1. \A v \in Write : seqOf'[v] <= opSeq' BY <1>0, <1>1, <1>3 DEF TypeOK
  <2>2. \A u, v \in Write : seqOf'[u] # 0 /\ seqOf'[u] = seqOf'[v] => u = v
    <3> SUFFICES ASSUME NEW u \in Write, NEW v \in Write, seqOf'[u] # 0, seqOf'[u] = seqOf'[v]
                 PROVE  u = v
      OBVIOUS
    <3>1. opSeq \in Nat BY <1>0 DEF TypeOK
    <3>2. (u = w) <=> (v = w) BY <1>3, <3>1
    <3> QED BY <1>0, <1>3, <3>2 DEF PositionsGiven
  <2>3. \A i \in 1..opSeq' : \E v \in Write : seqOf'[v] = i
    <3> SUFFICES ASSUME NEW i \in 1..opSeq' PROVE \E v \in Write : seqOf'[v] = i
      OBVIOUS
    <3>1. opSeq \in Nat BY <1>0 DEF TypeOK
    <3>2. CASE i = opSeq + 1 BY <1>3, <3>2
    <3>3. CASE i # opSeq + 1
      <4>1. i \in 1..opSeq BY <1>1, <3>1, <3>3
      <4>2. PICK v \in Write : seqOf[v] = i BY <1>0, <4>1 DEF PositionsGiven
      <4>3. v # w BY <1>2, <4>1, <4>2
      <4> QED BY <1>3, <4>2, <4>3
    <3> QED BY <3>2, <3>3
  <2>4. \A v \in Write : seqOf'[v] # 0 => v \in Range(content')
    BY <1>0, <1>1, <1>2, <1>3 DEF PositionsGiven
  <2>5. /\ log' \in Seq(Named')
        /\ \A r \in Replica : loop'[r].ops \in Seq(Named') /\ loop'[r].stage # "lines"
    BY <1>0, <1>1, <1>5, SeqMonotonic DEF PositionsGiven
  <2> QED BY <2>1, <2>2, <2>3, <2>4, <2>5 DEF PositionsGiven
<1>7. HandlersInOrder'
  <2> SUFFICES ASSUME NEW r \in Replica, NEW h \in handler[r]
               PROVE  /\ h.seq # 0 /\ seqOf'[h.op] = h.seq
                      /\ UpTo(h.seq - 1)' \subseteq Range(rcontent[r])
                      /\ h.done => h.op \in Range(rcontent[r])
    BY <1>1 DEF HandlersInOrder
  <2>1. /\ h.seq # 0 /\ seqOf[h.op] = h.seq /\ UpTo(h.seq - 1) \subseteq Range(rcontent[r])
        /\ h.done => h.op \in Range(rcontent[r])
    BY DEF OrderInv, HandlersInOrder
  <2>2. h.op \in Write /\ h.seq \in Nat
    <3>1. h \in Handler BY <1>0 DEF TypeOK
    <3> QED BY <3>1 DEF Handler
  <2>3. h.op # w BY <1>2, <2>1
  <2>4. h.seq - 1 \in Nat /\ h.seq - 1 <= opSeq
    <3>1. seqOf[h.op] <= opSeq /\ opSeq \in Nat BY <1>0, <2>2 DEF PositionsGiven, TypeOK
    <3> QED BY <2>1, <2>2, <3>1
  <2> QED BY <1>3, <1>4, <2>1, <2>2, <2>3, <2>4
<1>8. PrefixHeld'
  <2> SUFFICES ASSUME NEW r \in Replica
               PROVE  /\ \A v \in Range(rcontent[r]) :
                           seqOf'[v] # 0 /\ UpTo(seqOf[v])' \subseteq Range(rcontent[r])
                      /\ pos[r] <= opSeq' /\ UpTo(pos[r])' \subseteq Range(rcontent[r])
                      /\ adv[r] <= opSeq' /\ UpTo(adv[r])' \subseteq Range(rcontent[r])
    BY <1>1 DEF PrefixHeld
  <2>1. \A v \in Range(rcontent[r]) : v \in Write
    BY <1>0, RangeOfSeq DEF TypeOK
  <2>2. \A v \in Range(rcontent[r]) : seqOf[v] # 0 /\ UpTo(seqOf[v]) \subseteq Range(rcontent[r])
    BY DEF OrderInv, PrefixHeld
  <2>3. \A v \in Range(rcontent[r]) : v # w BY <1>2, <2>2
  <2>4. \A v \in Range(rcontent[r]) :
          seqOf'[v] # 0 /\ UpTo(seqOf[v])' \subseteq Range(rcontent[r])
    <3> SUFFICES ASSUME NEW v \in Range(rcontent[r])
                 PROVE  seqOf'[v] # 0 /\ UpTo(seqOf[v])' \subseteq Range(rcontent[r])
      OBVIOUS
    <3>1. seqOf'[v] = seqOf[v] /\ seqOf[v] \in Nat /\ seqOf[v] <= opSeq
      BY <1>3, <2>1, <2>3
    <3>2. UpTo(seqOf[v])' = UpTo(seqOf[v])
      <4>1. UpTo(seqOf[v])' = {u \in Write : seqOf'[u] # 0 /\ seqOf'[u] <= seqOf[v]}
        BY <3>1 DEF UpTo
      <4> QED BY <1>4, <3>1, <4>1 DEF UpTo
    <3> QED BY <2>2, <3>1, <3>2
  <2>5. /\ pos[r] \in Nat /\ adv[r] \in Nat /\ opSeq \in Nat
        /\ pos[r] <= opSeq /\ UpTo(pos[r]) \subseteq Range(rcontent[r])
        /\ adv[r] <= opSeq /\ UpTo(adv[r]) \subseteq Range(rcontent[r])
    BY <1>0 DEF TypeOK, OrderInv, PrefixHeld
  <2> QED BY <1>1, <1>4, <2>4, <2>5
<1>9. AppliedInOrder'
  <2>1. \A r \in Replica : \A i \in 1..Len(rcontent[r]) :
          seqOf'[rcontent[r][i]] = seqOf[rcontent[r][i]]
    <3> SUFFICES ASSUME NEW r \in Replica, NEW i \in 1..Len(rcontent[r])
                 PROVE  seqOf'[rcontent[r][i]] = seqOf[rcontent[r][i]]
      OBVIOUS
    <3>1. rcontent[r] \in Seq(Write) BY <1>0 DEF TypeOK
    <3>2. rcontent[r][i] \in Range(rcontent[r]) /\ rcontent[r][i] \in Write
      BY <3>1 DEF Range
    <3>3. rcontent[r][i] # w BY <1>2, <3>2 DEF OrderInv, PrefixHeld
    <3> QED BY <1>3, <3>2, <3>3
  <2> QED BY <1>1, <2>1 DEF OrderInv, AppliedInOrder
<1> QED BY <1>6, <1>7, <1>8, <1>9 DEF OrderInv

(* A replica that applies the next operation extends its prefix by it. *)
LEMMA ApplyOrder ==
  ASSUME IndInv, OrderInv, NEW r \in Replica, NEW h \in handler[r], HandlerApplies(r, h)
  PROVE  OrderInv'
<1>0. TypeOK /\ PositionsGiven BY DEF IndInv, OrderInv
<1>1. /\ rcontent' = [rcontent EXCEPT ![r] = Append(@, h.op)]
      /\ handler' = [handler EXCEPT ![r] = (@ \ {h}) \cup {[h EXCEPT !.done = TRUE]}]
      /\ UNCHANGED <<seqOf, opSeq, content, log, pos, loop, adv>>
  BY DEF HandlerApplies, primaryVars
<1>2. h \in Handler /\ h.op \in Write /\ h.seq \in Nat BY <1>0 DEF TypeOK, Handler
<1>3. h.seq # 0 /\ seqOf[h.op] = h.seq /\ UpTo(h.seq - 1) \subseteq Range(rcontent[r])
  BY DEF OrderInv, HandlersInOrder
<1>4. /\ \A q \in Replica : q # r => rcontent'[q] = rcontent[q]
      /\ rcontent'[r] = Append(rcontent[r], h.op)
      /\ rcontent[r] \in Seq(Write)
  BY <1>0, <1>1 DEF TypeOK
<1>5. Range(rcontent'[r]) = Range(rcontent[r]) \cup {h.op}
  BY <1>2, <1>4, RangeAppend
<1>6. \A q \in Replica : Range(rcontent[q]) \subseteq Range(rcontent'[q])
  BY <1>4, <1>5
<1>7. \A s : UpTo(s)' = {w \in Write : seqOf[w] # 0 /\ seqOf[w] <= s} BY <1>1 DEF UpTo
<1>8. PositionsGiven' BY <1>0, <1>1 DEF PositionsGiven, Named
<1>9. HandlersInOrder'
  <2> DEFINE n == [h EXCEPT !.done = TRUE]
  <2>1. n.seq = h.seq /\ n.op = h.op BY <1>2 DEF Handler
  <2>2. handler' = [handler EXCEPT ![r] = (@ \ {h}) \cup {n}] BY <1>1
  <2> HIDE DEF n
  <2>3. \A q \in Replica : handler'[q] \subseteq IF q = r THEN handler[r] \cup {n} ELSE handler[q]
    BY <1>0, <2>2 DEF TypeOK
  <2>4. h.op \in Range(rcontent'[r]) BY <1>5
  <2> SUFFICES ASSUME NEW q \in Replica, NEW g \in handler'[q]
               PROVE  /\ g.seq # 0 /\ seqOf[g.op] = g.seq
                      /\ UpTo(g.seq - 1) \subseteq Range(rcontent'[q])
                      /\ g.done => g.op \in Range(rcontent'[q])
    BY <1>1 DEF HandlersInOrder, UpTo
  <2>5. CASE q = r /\ g = n
    BY <1>3, <1>6, <2>1, <2>4, <2>5
  <2>6. CASE g \in handler[q]
    BY <1>6, <2>6 DEF OrderInv, HandlersInOrder
  <2> QED BY <2>3, <2>5, <2>6
<1>10. PrefixHeld'
  <2> SUFFICES ASSUME NEW q \in Replica
               PROVE  /\ \A w \in Range(rcontent'[q]) :
                           seqOf[w] # 0 /\ UpTo(seqOf[w]) \subseteq Range(rcontent'[q])
                      /\ pos[q] <= opSeq /\ UpTo(pos[q]) \subseteq Range(rcontent'[q])
                      /\ adv[q] <= opSeq /\ UpTo(adv[q]) \subseteq Range(rcontent'[q])
    BY <1>1 DEF PrefixHeld, UpTo
  <2>1. UpTo(seqOf[h.op]) = UpTo(h.seq - 1) \cup {h.op}
    BY <1>0, <1>2, <1>3, UpToNext
  <2>2. \A w \in Range(rcontent[q]) :
          seqOf[w] # 0 /\ UpTo(seqOf[w]) \subseteq Range(rcontent[q])
    BY DEF OrderInv, PrefixHeld
  <2>3. \A w \in Range(rcontent'[q]) : w \in Range(rcontent[q]) \/ (q = r /\ w = h.op)
    BY <1>4, <1>5
  <2>4. q = r => UpTo(seqOf[h.op]) \subseteq Range(rcontent'[q])
    BY <1>3, <1>5, <2>1
  <2>5. \A w \in Range(rcontent'[q]) :
          seqOf[w] # 0 /\ UpTo(seqOf[w]) \subseteq Range(rcontent'[q])
    BY <1>3, <1>6, <2>2, <2>3, <2>4
  <2> QED BY <1>6, <2>5 DEF OrderInv, PrefixHeld
<1>11. AppliedInOrder'
  <2> SUFFICES ASSUME NEW q \in Replica,
                      NEW i \in 1..Len(rcontent'[q]), NEW j \in 1..Len(rcontent'[q]),
                      i < j, \A k \in 1..j-1 : rcontent'[q][k] # rcontent'[q][j]
               PROVE  \/ seqOf[rcontent'[q][i]] < seqOf[rcontent'[q][j]]
                      \/ rcontent'[q][i] = rcontent'[q][j]
    BY <1>1 DEF AppliedInOrder
  <2>1. CASE q # r
    <3>1. rcontent'[q] = rcontent[q] BY <1>4, <2>1
    <3> QED BY <3>1 DEF OrderInv, AppliedInOrder
  <2>2. CASE q = r
    <3> DEFINE n == Len(rcontent[r])
    <3>1. /\ n \in Nat /\ Len(rcontent'[r]) = n + 1 /\ rcontent'[r][n + 1] = h.op
          /\ \A k \in 1..n : rcontent'[r][k] = rcontent[r][k]
      BY <1>2, <1>4
    <3> HIDE DEF n
    <3>2. CASE j \in 1..n
      <4>1. i \in 1..n /\ \A k \in 1..j-1 : k \in 1..n BY <3>1, <3>2
      <4>2. \A k \in 1..j-1 : rcontent[r][k] # rcontent[r][j]
        BY <2>2, <3>1, <3>2, <4>1
      <4>3. \/ seqOf[rcontent[r][i]] < seqOf[rcontent[r][j]]
            \/ rcontent[r][i] = rcontent[r][j]
        BY <3>2, <4>1, <4>2 DEF n, OrderInv, AppliedInOrder
      <4> QED BY <2>2, <3>1, <3>2, <4>1, <4>3
    <3>3. CASE j = n + 1
      <4>1. i \in 1..n /\ \A k \in 1..n : k \in 1..j-1 BY <2>2, <3>1, <3>3
      <4>2. \A k \in 1..n : rcontent[r][k] # h.op
        BY <2>2, <3>1, <3>3, <4>1
      <4>3. DOMAIN rcontent[r] = 1..n BY <1>4 DEF n
      <4>4. h.op \notin Range(rcontent[r]) BY <4>2, <4>3 DEF Range
      <4>5. rcontent[r][i] \in Range(rcontent[r]) /\ rcontent[r][i] \in Write
        BY <1>4, <4>1, <4>3 DEF Range, n
      <4>6. UpTo(seqOf[rcontent[r][i]]) \subseteq Range(rcontent[r])
        BY <4>5 DEF OrderInv, PrefixHeld
      <4>7. ~(seqOf[h.op] <= seqOf[rcontent[r][i]])
        BY <1>2, <1>3, <4>4, <4>6 DEF UpTo
      <4>8. seqOf[h.op] \in Nat /\ seqOf[rcontent[r][i]] \in Nat
        BY <1>0, <1>2, <4>5 DEF TypeOK
      <4>9. seqOf[rcontent[r][i]] < seqOf[h.op] BY <4>7, <4>8
      <4> QED BY <2>2, <3>1, <3>3, <4>1, <4>9
    <3> QED BY <2>2, <3>1, <3>2, <3>3
  <2> QED BY <2>1, <2>2
<1> QED BY <1>8, <1>9, <1>10, <1>11 DEF OrderInv

(* Every step of an undisturbed behaviour keeps positions and prefixes. *)
LEMMA OrderStep ==
  ASSUME IndInv, OrderInv, Undisturbed, Undisturbed', [Next]_vars
  PROVE  OrderInv'
<1>0. TypeOK /\ PositionsGiven BY DEF IndInv, OrderInv
<1>a. /\ IdleLoop.stage = "idle" /\ IdleLoop.ops \in Seq(Named)
      /\ \A s, p : At(s, p).stage = s /\ At(s, p).ops \in Seq(Named)
  <2>1. <<>> \in Seq(Named) OBVIOUS
  <2>2. IdleLoop.ops = <<>> /\ \A s, p : At(s, p).ops = <<>> BY DEF IdleLoop, At
  <2>3. IdleLoop.stage = "idle" /\ \A s, p : At(s, p).stage = s BY DEF IdleLoop, At
  <2> QED BY <2>1, <2>2, <2>3
<1>b. \A r \in Replica : loop[r].ops \in Seq(Named) /\ loop[r].stage # "lines"
  BY <1>0 DEF PositionsGiven
<1>1. ASSUME NEW w \in Write, ApplyWrite(w) PROVE OrderInv'
  <2>1. /\ content' = Append(content, w)
        /\ UNCHANGED <<seqOf, opSeq, log, rcontent, pos, handler, loop, adv>>
    BY <1>1 DEF ApplyWrite, replicaVars
  <2>2. Range(content') = Range(content) \cup {w}
    BY <1>0, <2>1, RangeAppend DEF TypeOK
  <2>3. PositionsGiven' BY <1>0, <2>1, <2>2 DEF PositionsGiven, Named
  <2>4. HandlersInOrder' BY <2>1 DEF OrderInv, HandlersInOrder, UpTo
  <2>5. PrefixHeld' BY <2>1 DEF OrderInv, PrefixHeld, UpTo
  <2> QED BY <2>1, <2>3, <2>4, <2>5, NothingMoved DEF OrderInv
<1>2. ASSUME NEW w \in Write, AssignSeq(w) PROVE OrderInv'
  BY <1>2, AssignOrder
<1>3. ASSUME NEW w \in Write, PushLog(w) PROVE OrderInv'
  <2>1. /\ phase[w] = "sequenced" /\ log' = Trim(Append(log, [seq |-> seqOf[w], op |-> w]))
        /\ UNCHANGED <<seqOf, opSeq, content, rcontent, pos, handler, loop, adv>>
    BY <1>3 DEF PushLog, replicaVars
  <2>2. seqOf[w] # 0 BY <2>1 DEF IndInv, PhasesAgree
  <2>3. [seq |-> seqOf[w], op |-> w] \in Named
    BY <1>0, <2>2 DEF Named, Entry, TypeOK
  <2>4. Append(log, [seq |-> seqOf[w], op |-> w]) \in Seq(Named)
    BY <1>0, <2>3 DEF PositionsGiven
  <2>5. log' \in Seq(Named) BY <2>1, <2>4, TrimType
  <2>6. PositionsGiven' BY <1>0, <2>1, <2>5 DEF PositionsGiven, Named
  <2>7. HandlersInOrder' BY <2>1 DEF OrderInv, HandlersInOrder, UpTo
  <2>8. PrefixHeld' BY <2>1 DEF OrderInv, PrefixHeld, UpTo
  <2> QED BY <2>1, <2>6, <2>7, <2>8, NothingMoved DEF OrderInv
<1>4. ASSUME UNCHANGED <<seqOf, opSeq, content, log, rcontent, pos, handler, loop, adv>>
      PROVE  OrderInv'
  BY <1>4, <1>b, QuietOrder
<1>5. CASE PrimaryCrash
  BY <1>0, <1>5 DEF PrimaryCrash, Undisturbed
<1>6. ASSUME NEW w \in Write, NEW r \in Replica, FanOut(w, r) PROVE OrderInv'
  <2>1. UNCHANGED <<seqOf, opSeq, content, log, rcontent, pos, loop, adv>>
    BY <1>6 DEF FanOut
  <2>2. HandlersInOrder' BY <1>0, <1>6, <2>1, HandlerOrder DEF FanOut
  <2>3. PositionsGiven' BY <1>0, <2>1 DEF PositionsGiven, Named
  <2>4. PrefixHeld' BY <2>1 DEF OrderInv, PrefixHeld, UpTo
  <2> QED BY <2>1, <2>2, <2>3, <2>4, NothingMoved DEF OrderInv
<1>7. ASSUME NEW r \in Replica, NEW h \in handler[r], HandlerApplies(r, h) PROVE OrderInv'
  BY <1>7, ApplyOrder
<1>8. ASSUME NEW r \in Replica, NEW h \in handler[r], HandlerRefused(r, h) PROVE OrderInv'
  <2>1. /\ UNCHANGED <<seqOf, opSeq, content, log, rcontent, pos, adv>>
        /\ handler' = [handler EXCEPT ![r] = @ \ {h}]
        /\ loop' = loop \/ SetLoop(r, IdleLoop)
    BY <1>8 DEF HandlerRefused, primaryVars, SetLoop
  <2>2. \A q \in Replica : handler'[q] \subseteq handler[q]
    BY <1>0, <2>1 DEF TypeOK
  <2>3. HandlersInOrder' BY <2>1, <2>2 DEF OrderInv, HandlersInOrder, UpTo
  <2>4. \A q \in Replica : loop'[q] = loop[q] \/ loop'[q] = IdleLoop
    BY <1>0, <2>1, LoopSet
  <2>5. PositionsGiven' BY <1>0, <1>a, <2>1, <2>4 DEF PositionsGiven, Named
  <2>6. PrefixHeld' BY <2>1 DEF OrderInv, PrefixHeld, UpTo
  <2> QED BY <2>1, <2>3, <2>5, <2>6, NothingMoved DEF OrderInv
<1>9. ASSUME NEW r \in Replica, NEW h \in handler[r], HandlerNotes(r, h) PROVE OrderInv'
  <2>1. /\ UNCHANGED <<seqOf, opSeq, content, log, rcontent, loop, adv>>
        /\ h.done /\ pos' = [pos EXCEPT ![r] = h.seq]
        /\ handler' = [handler EXCEPT ![r] = @ \ {h}]
    BY <1>9 DEF HandlerNotes, primaryVars
  <2>2. \A q \in Replica : handler'[q] \subseteq handler[q]
    BY <1>0, <2>1 DEF TypeOK
  <2>3. HandlersInOrder' BY <2>1, <2>2 DEF OrderInv, HandlersInOrder, UpTo
  <2>4. PositionsGiven' BY <1>0, <2>1 DEF PositionsGiven, Named
  <2>5. /\ h.op \in Write /\ h.seq # 0 /\ seqOf[h.op] = h.seq
        /\ UpTo(h.seq - 1) \subseteq Range(rcontent[r]) /\ h.op \in Range(rcontent[r])
    BY <1>0, <2>1 DEF OrderInv, HandlersInOrder, TypeOK, Handler
  <2>6. UpTo(h.seq) \subseteq Range(rcontent[r])
    BY <1>0, <2>5, UpToNext
  <2>7. h.seq <= opSeq BY <1>0, <2>5 DEF PositionsGiven
  <2>8. \A q \in Replica : pos'[q] = IF q = r THEN h.seq ELSE pos[q]
    BY <1>0, <2>1 DEF TypeOK
  <2>9. PrefixHeld' BY <2>1, <2>6, <2>7, <2>8 DEF OrderInv, PrefixHeld, UpTo
  <2> QED BY <2>1, <2>3, <2>4, <2>9, NothingMoved DEF OrderInv
<1>10. ASSUME NEW r \in Replica, StartRound(r) PROVE OrderInv'
  BY <1>0, <1>10, <1>a, LoopOrder DEF StartRound, primaryVars
<1>11. ASSUME NEW r \in Replica, Fetch(r) PROVE OrderInv'
  <2>1. Pending(loop[r].at) \in Seq(Named) BY <1>0, PendingType DEF PositionsGiven
  <2>2. PICK l : SetLoop(r, l) /\ l.ops \in Seq(Named) /\ l.stage # "lines"
    BY <1>11, <1>a, <2>1 DEF Fetch
  <2> QED BY <1>0, <1>11, <2>2, LoopOrder DEF Fetch, primaryVars
<1>12. ASSUME NEW r \in Replica, CatchUpNext(r) PROVE OrderInv'
  <2> DEFINE ops == loop[r].ops
             l == [loop[r] EXCEPT !.ops = Tail(@)]
  <2>1. /\ UNCHANGED <<seqOf, opSeq, content, log, rcontent, pos, adv>>
        /\ SetLoop(r, l) /\ ops # <<>> /\ loop[r].stage = "apply"
        /\ IF NextInOrder(r, Head(ops).seq)
             THEN StartHandler(r, Head(ops).seq, Head(ops).op, "catchup")
             ELSE UNCHANGED handler
    BY <1>12 DEF CatchUpNext, primaryVars
  <2>2. Head(ops) \in Named /\ Tail(ops) \in Seq(Named) BY <1>b, <2>1
  <2>3. Head(ops).op \in Write /\ seqOf[Head(ops).op] = Head(ops).seq
    BY <2>2 DEF Named, Entry
  <2>4. HandlersInOrder' BY <1>0, <2>1, <2>3, HandlerOrder
  <2>5. l.ops = Tail(ops) /\ l.stage = "apply" BY <1>0, <2>1 DEF TypeOK, Loop
  <2> HIDE DEF ops, l
  <2>6. \A q \in Replica : loop'[q] = IF q = r THEN l ELSE loop[q]
    BY <1>0, <2>1, LoopSet
  <2>7. PositionsGiven' BY <1>0, <2>1, <2>2, <2>5, <2>6 DEF PositionsGiven, Named
  <2>8. PrefixHeld' BY <2>1 DEF OrderInv, PrefixHeld, UpTo
  <2> QED BY <2>1, <2>4, <2>7, <2>8, NothingMoved DEF OrderInv
<1>13. ASSUME NEW r \in Replica, EndRound(r) PROVE OrderInv'
  BY <1>0, <1>13, <1>a, LoopOrder DEF EndRound, primaryVars
<1>14. ASSUME NEW r \in Replica, SnapshotBegin(r) PROVE OrderInv'
  BY <1>0, <1>14, <1>a, LoopOrder DEF SnapshotBegin, primaryVars
<1>15. ASSUME NEW r \in Replica, SnapshotSpilled(r) PROVE OrderInv'
  <2>1. loop'[r].stage = "wipe"
    BY <1>0, <1>15, <1>a, LoopSet DEF SnapshotSpilled
  <2> QED BY <2>1 DEF Undisturbed
<1>16. ASSUME NEW r \in Replica,
              \/ Wipe(r) \/ ApplyLine(r) \/ LineRefused(r) \/ AdoptSnapshot(r)
       PROVE  OrderInv'
  BY <1>16, <1>b DEF Wipe, ApplyLine, LineRefused, AdoptSnapshot, Undisturbed
<1>17. ASSUME NEW r \in Replica, AbortResync(r) PROVE OrderInv'
  BY <1>0, <1>17, <1>a, LoopOrder DEF AbortResync, primaryVars
<1>21. ASSUME NEW r \in Replica, NEW h \in handler[r], LoopbackTimeout(r, h) PROVE OrderInv'
  <2> DEFINE n == [h EXCEPT !.late = aborts + 1]
  <2>1. /\ UNCHANGED <<seqOf, opSeq, content, log, rcontent, pos, adv>>
        /\ SetLoop(r, IdleLoop)
        /\ \/ handler' = [handler EXCEPT ![r] = (@ \ {h}) \cup {}]
           \/ handler' = [handler EXCEPT ![r] = (@ \ {h}) \cup {n}]
    BY <1>21 DEF LoopbackTimeout, primaryVars
  <2>2. h \in Handler /\ n.seq = h.seq /\ n.op = h.op /\ n.done = h.done
    BY <1>0 DEF TypeOK, Handler
  <2> HIDE DEF n
  <2>3. \A q \in Replica : handler'[q] \subseteq IF q = r THEN handler[r] \cup {n} ELSE handler[q]
    BY <1>0, <2>1 DEF TypeOK
  <2>4. HandlersInOrder'
    <3> SUFFICES ASSUME NEW q \in Replica, NEW g \in handler'[q]
                 PROVE  /\ g.seq # 0 /\ seqOf[g.op] = g.seq
                        /\ UpTo(g.seq - 1) \subseteq Range(rcontent[q])
                        /\ g.done => g.op \in Range(rcontent[q])
      BY <2>1 DEF HandlersInOrder, UpTo
    <3>1. CASE q = r /\ g = n BY <2>2, <3>1 DEF OrderInv, HandlersInOrder
    <3>2. CASE g \in handler[q] BY <3>2 DEF OrderInv, HandlersInOrder
    <3> QED BY <2>3, <3>1, <3>2
  <2>5. \A q \in Replica : loop'[q] = loop[q] \/ loop'[q] = IdleLoop
    BY <1>0, <2>1, LoopSet
  <2>6. PositionsGiven' BY <1>0, <1>a, <2>1, <2>5 DEF PositionsGiven, Named
  <2>7. PrefixHeld' BY <2>1 DEF OrderInv, PrefixHeld, UpTo
  <2> QED BY <2>1, <2>4, <2>6, <2>7, NothingMoved DEF OrderInv
<1>18. ASSUME NEW r \in Replica, Heartbeat(r) PROVE OrderInv'
  <2>1. /\ UNCHANGED <<seqOf, opSeq, content, log, rcontent, pos, handler, loop>>
        /\ \A q \in Replica : adv'[q] = IF q = r THEN pos[r] ELSE adv[q]
    BY <1>0, <1>18 DEF Heartbeat, primaryVars, replicaVars, TypeOK
  <2>2. PositionsGiven' BY <1>0, <2>1 DEF PositionsGiven, Named
  <2>3. HandlersInOrder' BY <2>1 DEF OrderInv, HandlersInOrder, UpTo
  <2>4. PrefixHeld' BY <2>1 DEF OrderInv, PrefixHeld, UpTo
  <2> QED BY <2>1, <2>2, <2>3, <2>4, NothingMoved DEF OrderInv
<1>19. CASE SaveSeq \/ UNCHANGED vars
  BY <1>4, <1>19 DEF SaveSeq, vars, primaryVars, replicaVars
<1> QED
  BY <1>1, <1>2, <1>3, <1>5, <1>6, <1>7, <1>8, <1>9, <1>10, <1>11, <1>12, <1>13,
     <1>14, <1>15, <1>16, <1>17, <1>18, <1>19, <1>21
  DEF Next, WriterStep, LoopStep, HandlerStep

(* The invariant of undisturbed behaviours. *)
LEMMA OrderInductive == Spec /\ []Undisturbed => []OrderInv
<1>1. IndInv /\ OrderInv /\ Undisturbed /\ Undisturbed' /\ [Next]_vars => OrderInv'
  BY OrderStep
<1> QED BY OrderInit, <1>1, Inductive, PTL DEF Spec

(* As long as the primary stays up and no replica is wiped for a re-sync, a *)
(* replica holds every write up to its applied position: for every number   *)
(* of writes in flight, with fan-out and catch-up racing for the same       *)
(* operation, calls late or lost, keyed inserts refused, and a late note    *)
(* moving the position back.                                                *)
THEOREM PositionsAreContent == Spec /\ []Undisturbed => []PositionIsContent
<1>1. OrderInv => PositionIsContent BY DEF OrderInv, PrefixHeld, PositionIsContent
<1> QED BY OrderInductive, <1>1, PTL

(* In the same behaviours, writes first reach a replica in the order of     *)
(* their log positions.                                                     *)
THEOREM WritesAppliedInOrder == Spec /\ []Undisturbed => []AppliedInOrder
<1>1. OrderInv => AppliedInOrder BY DEF OrderInv
<1> QED BY OrderInductive, <1>1, PTL

-----------------------------------------------------------------------------
(* The commit index *)

(* What the CHOOSE of a largest element gives. *)
LEMMA LargestChosen ==
  ASSUME NEW n \in Nat, NEW T \in SUBSET (0..n), T # {}
  PROVE  LET m == CHOOSE s \in T : \A t \in T : t <= s
         IN  m \in T /\ \A t \in T : t <= m
BY LargestExists, Zenon

(* The positions that may become the commit index. *)
Reachable == {s \in {opSeq} \cup {adv[r] : r \in Replica} : Reached(s) >= Majority}

(* The commit index is 0 or a position that a majority has reached, and no  *)
(* such position is above it.                                               *)
LEMMA CommitReached ==
  ASSUME TypeOK, OrderInv
  PROVE  /\ CommitSeq \in 0..opSeq
         /\ CommitSeq = 0 \/ CommitSeq \in Reachable
         /\ \A s \in Reachable : s <= CommitSeq
<1>1. opSeq \in Nat /\ \A r \in Replica : adv[r] \in 0..opSeq
  BY DEF TypeOK, OrderInv, PrefixHeld
<1>2. Reachable \in SUBSET (0..opSeq) BY <1>1 DEF Reachable
<1>3. CommitSeq = IF Reachable = {} THEN 0
                  ELSE CHOOSE s \in Reachable : \A t \in Reachable : t <= s
  BY DEF CommitSeq, Reachable
<1>4. CASE Reachable = {} BY <1>1, <1>3, <1>4
<1>5. CASE Reachable # {}
  <2>1. CommitSeq \in Reachable /\ \A s \in Reachable : s <= CommitSeq
    BY <1>1, <1>2, <1>3, <1>5, LargestChosen, Zenon
  <2> QED BY <1>2, <2>1
<1> QED BY <1>4, <1>5

(* The majority counts at least two of a primary with replicas. *)
LEMMA MajorityType ==
  /\ Cardinality(Replica) \in Nat /\ Majority \in Nat
  /\ 2 * Majority > Cardinality(Replica) + 1
  /\ Replica # {} => Majority >= 2
<1>1. IsFiniteSet(Replica) BY ReplicationAssumption
<1>2. Cardinality(Replica) \in Nat BY <1>1, FS_CardinalityType
<1>3. Replica # {} => Cardinality(Replica) # 0 BY <1>1, FS_EmptySet
<1> QED BY <1>2, <1>3 DEF Majority

(* Sets of replicas are compared by what they hold. *)
LEMMA ReplicaCount ==
  ASSUME NEW S \in SUBSET Replica, NEW T \in SUBSET Replica, S \subseteq T
  PROVE  /\ Cardinality(S) \in Nat /\ Cardinality(T) \in Nat
         /\ Cardinality(S) <= Cardinality(T)
<1>1. IsFiniteSet(Replica) BY ReplicationAssumption
<1>2. IsFiniteSet(T) BY <1>1, FS_Subset
<1> QED BY <1>2, FS_Subset, FS_CardinalityType

(* The invariant puts what is committed into the databases of a majority. *)
LEMMA OrderGivesQuorum == TypeOK /\ OrderInv => CommittedOnQuorum
<1> SUFFICES ASSUME TypeOK, OrderInv, NEW w \in UpTo(CommitSeq)
             PROVE  Cardinality({r \in Replica : w \in Range(rcontent[r])})
                      + (IF w \in Range(content) THEN 1 ELSE 0) >= Majority
  BY DEF CommittedOnQuorum
<1> DEFINE H == {r \in Replica : adv[r] >= CommitSeq}
           D == {r \in Replica : w \in Range(rcontent[r])}
<1>1. /\ w \in Write /\ seqOf[w] \in Nat /\ seqOf[w] # 0 /\ seqOf[w] <= CommitSeq
      /\ CommitSeq \in 0..opSeq /\ opSeq \in Nat
  BY CommitReached DEF UpTo, TypeOK
<1>2. Reached(CommitSeq) >= Majority BY <1>1, CommitReached DEF Reachable
<1>3. w \in Range(content) BY <1>1 DEF OrderInv, PositionsGiven
<1>4. H \subseteq D
  <2> SUFFICES ASSUME NEW r \in H PROVE w \in Range(rcontent[r])
    OBVIOUS
  <2>1. adv[r] \in Nat /\ adv[r] >= CommitSeq BY DEF TypeOK
  <2>2. w \in UpTo(adv[r]) BY <1>1, <2>1 DEF UpTo
  <2> QED BY <2>2 DEF OrderInv, PrefixHeld
<1>5. Cardinality(H) \in Nat /\ Cardinality(D) \in Nat /\ Cardinality(H) <= Cardinality(D)
  BY <1>4, ReplicaCount
<1>6. Cardinality(H) + 1 >= Majority BY <1>1, <1>2, <1>5 DEF Reached
<1> HIDE DEF H
<1> QED BY <1>3, <1>5, <1>6, MajorityType

(* In an undisturbed behaviour every write at or below the commit index is  *)
(* in the databases of a majority, for every number of replicas: the        *)
(* positions the primary has heard of may be old, never too high.           *)
THEOREM CommitsOnQuorum == Spec /\ []Undisturbed => []CommittedOnQuorum
<1>1. IndInv /\ OrderInv => CommittedOnQuorum BY OrderGivesQuorum DEF IndInv
<1> QED BY Inductive, OrderInductive, <1>1, PTL

-----------------------------------------------------------------------------
(* The refinement of ReplicatedLog *)

(* The positions that enough replicas advertise.  They are the ones that    *)
(* may become the commit index, since the primary itself has every one.     *)
Advertised ==
  {s \in {adv[r] : r \in Replica} : Cardinality({r \in Replica : adv[r] >= s}) + 1 >= Majority}

CommitsHighest ==
  CommitSeq = IF Advertised = {} THEN 0
              ELSE CHOOSE s \in Advertised : \A t \in Advertised : t <= s

(* The commit index depends on the advertised positions only. *)
LEMMA CommitAdvertised ==
  ASSUME TypeOK, OrderInv, Replica # {}
  PROVE  /\ Reachable = Advertised
         /\ CommitsHighest
<1> DEFINE H(s) == {r \in Replica : adv[r] >= s}
<1>1. opSeq \in Nat /\ \A r \in Replica : adv[r] \in Nat /\ adv[r] <= opSeq
  BY DEF TypeOK, OrderInv, PrefixHeld
<1>2. \A s : Cardinality(H(s)) \in Nat BY ReplicaCount
<1>3. \A s : s \in {adv[r] : r \in Replica} =>
        (Reached(s) >= Majority <=> Cardinality(H(s)) + 1 >= Majority)
  BY <1>1, <1>2, MajorityType DEF Reached
<1>4. ASSUME Reached(opSeq) >= Majority PROVE opSeq \in {adv[r] : r \in Replica}
  <2>1. Cardinality(H(opSeq)) # 0 BY <1>1, <1>2, <1>4, MajorityType DEF Reached
  <2>2. PICK r \in H(opSeq) : TRUE BY <2>1, FS_EmptySet, Zenon
  <2> QED BY <1>1, <2>2
<1>5. Reachable = Advertised BY <1>3, <1>4 DEF Reachable, Advertised
<1>6. CommitSeq = IF Reachable = {} THEN 0
                  ELSE CHOOSE s \in Reachable : \A t \in Reachable : t <= s
  BY DEF CommitSeq, Reachable
<1> QED BY <1>5, <1>6 DEF CommitsHighest

(* The same after a step. *)
LEMMA CommitAdvertisedNext ==
  (TypeOK /\ OrderInv /\ Replica # {} => Reachable = Advertised /\ CommitsHighest)'
<1>1. TypeOK /\ OrderInv /\ Replica # {} => Reachable = Advertised /\ CommitsHighest
  BY CommitAdvertised
<1> QED BY <1>1, PTL

(* A step that leaves the advertised positions alone leaves the commit      *)
(* index alone.                                                             *)
LEMMA CommitKept ==
  ASSUME TypeOK, OrderInv, TypeOK', OrderInv', Replica # {}, UNCHANGED adv
  PROVE  UNCHANGED CommitSeq
<1>1. Advertised' = Advertised BY DEF Advertised, Majority
<1>2. CommitsHighest /\ CommitsHighest' BY CommitAdvertised, CommitAdvertisedNext
<1> QED BY <1>1, <1>2 DEF CommitsHighest

(* The accepted writes: position i names the write that has it. *)
LEMMA AcceptedAt ==
  ASSUME TypeOK, PositionsGiven, NEW i \in 1..opSeq
  PROVE  Accepted[i] \in Write /\ seqOf[Accepted[i]] = i
<1>1. \E w \in Write : seqOf[w] = i BY DEF PositionsGiven
<1> DEFINE c == CHOOSE w \in Write : seqOf[w] = i
<1>2. c \in Write /\ seqOf[c] = i BY <1>1
<1> HIDE DEF c
<1>3. Accepted[i] = c BY DEF Accepted, c
<1> QED BY <1>2, <1>3

(* The order of the accepted writes has one write per position given.       *)
LEMMA AcceptedType ==
  ASSUME TypeOK, PositionsGiven
  PROVE  Accepted \in Seq(Write) /\ Len(Accepted) = opSeq /\ DOMAIN Accepted = 1..opSeq
<1>1. opSeq \in Nat BY DEF TypeOK
<1>2. \A i \in 1..opSeq : Accepted[i] \in Write BY AcceptedAt
<1>3. DOMAIN Accepted = 1..opSeq /\ Accepted = [i \in 1..opSeq |-> Accepted[i]]
  BY DEF Accepted
<1>4. Accepted \in [1..opSeq -> Write] BY <1>2, <1>3
<1> QED BY <1>1, <1>3, <1>4

(* As many writes have a position up to n as there are such positions. *)
LEMMA UpToCount ==
  ASSUME TypeOK, PositionsGiven, NEW n \in 0..opSeq
  PROVE  IsFiniteSet(UpTo(n)) /\ Cardinality(UpTo(n)) = n
<1> DEFINE f == [i \in 1..n |-> Accepted[i]]
<1>1. opSeq \in Nat /\ n \in Nat /\ \A i \in 1..n : i \in 1..opSeq BY DEF TypeOK
<1>2. \A i \in 1..n : f[i] \in UpTo(n) /\ seqOf[f[i]] = i
  BY <1>1, AcceptedAt DEF UpTo
<1>3. \A w \in UpTo(n) : seqOf[w] \in 1..n /\ f[seqOf[w]] = w
  <2> SUFFICES ASSUME NEW w \in UpTo(n) PROVE seqOf[w] \in 1..n /\ f[seqOf[w]] = w
    OBVIOUS
  <2>1. w \in Write /\ seqOf[w] # 0 /\ seqOf[w] \in 1..n BY <1>1 DEF UpTo, TypeOK
  <2>2. f[seqOf[w]] \in Write /\ seqOf[f[seqOf[w]]] = seqOf[w] BY <1>2, <2>1 DEF UpTo
  <2> QED BY <2>1, <2>2 DEF PositionsGiven
<1>4. f \in [1..n -> UpTo(n)] BY <1>2
<1> HIDE DEF f
<1>5. f \in Bijection(1..n, UpTo(n))
  BY <1>2, <1>3, <1>4 DEF Bijection, Injection, Surjection, IsInjective
<1>6. IsFiniteSet(1..n) /\ Cardinality(1..n) = n BY <1>1, FS_Interval
<1> QED BY <1>5, <1>6, FS_Bijection DEF ExistsBijection

(* The same after a step. *)
LEMMA AcceptedNext ==
  (TypeOK /\ PositionsGiven =>
     /\ Accepted \in Seq(Write) /\ Len(Accepted) = opSeq
     /\ \A i \in 1..opSeq : Accepted[i] \in Write /\ seqOf[Accepted[i]] = i)'
<1>1. TypeOK /\ PositionsGiven =>
        /\ Accepted \in Seq(Write) /\ Len(Accepted) = opSeq
        /\ \A i \in 1..opSeq : Accepted[i] \in Write /\ seqOf[Accepted[i]] = i
  BY AcceptedAt, AcceptedType
<1> QED BY <1>1, PTL

(* Steps that neither give a position, nor move a write, nor tell the       *)
(* primary of a position do not show.                                       *)
LEMMA QuietRefined ==
  ASSUME TypeOK, OrderInv, TypeOK', OrderInv', Replica # {},
         UNCHANGED <<seqOf, opSeq, rcontent, adv>>
  PROVE  UNCHANGED Log!vars
<1>1. UNCHANGED CommitSeq BY CommitKept
<1>2. UNCHANGED Accepted BY DEF Accepted
<1> QED BY <1>1, <1>2 DEF Log!vars

(* Giving a write its position accepts it. *)
LEMMA AcceptRefined ==
  ASSUME IndInv, OrderInv, IndInv', OrderInv', Replica # {}, NEW w \in Write, AssignSeq(w)
  PROVE  Log!Accept(w)
<1>0. TypeOK /\ PositionsGiven /\ TypeOK' /\ PositionsGiven' BY DEF IndInv, OrderInv
<1>1. /\ opSeq' = opSeq + 1 /\ seqOf' = [seqOf EXCEPT ![w] = opSeq + 1]
      /\ phase[w] = "applied" /\ UNCHANGED <<rcontent, adv>>
  BY DEF AssignSeq, replicaVars
<1>2. /\ seqOf[w] = 0 /\ opSeq \in Nat
      /\ \A v \in Write : seqOf'[v] = IF v = w THEN opSeq + 1 ELSE seqOf[v]
  BY <1>0, <1>1 DEF IndInv, PhasesAgree, TypeOK
<1>3. /\ Accepted \in Seq(Write) /\ Len(Accepted) = opSeq
      /\ \A i \in 1..opSeq : Accepted[i] \in Write /\ seqOf[Accepted[i]] = i
  BY <1>0, AcceptedAt, AcceptedType
<1>4. \A i \in 1..opSeq : Accepted[i] # w BY <1>2, <1>3
<1>5. /\ Accepted' \in Seq(Write) /\ Len(Accepted') = opSeq + 1
      /\ \A i \in 1..(opSeq + 1) : Accepted'[i] \in Write /\ seqOf'[Accepted'[i]] = i
  BY <1>0, <1>1, AcceptedNext
<1>6. \A u, v \in Write : seqOf'[u] # 0 /\ seqOf'[u] = seqOf'[v] => u = v
  BY <1>0 DEF PositionsGiven
<1>7. Accepted'[opSeq + 1] = w BY <1>2, <1>5, <1>6
<1>8. ASSUME NEW i \in 1..opSeq PROVE Accepted'[i] = Accepted[i]
  <2>1. seqOf'[Accepted[i]] = i /\ i # 0 BY <1>2, <1>3, <1>4
  <2>2. Accepted'[i] \in Write /\ seqOf'[Accepted'[i]] = i BY <1>2, <1>5
  <2> QED BY <1>3, <1>6, <2>1, <2>2
<1>9. Accepted' = Append(Accepted, w)
  <2> DEFINE A == Accepted
             B == Accepted'
  <2>1. /\ A \in Seq(Write) /\ Len(A) = opSeq /\ B \in Seq(Write) /\ Len(B) = opSeq + 1
        /\ B[opSeq + 1] = w /\ \A i \in 1..opSeq : B[i] = A[i]
    BY <1>3, <1>5, <1>7, <1>8
  <2> HIDE DEF A, B
  <2>2. B = Append(A, w) BY <1>2, <2>1
  <2> QED BY <2>2 DEF A, B
<1>10. UNCHANGED CommitSeq BY <1>0, <1>1, CommitKept
<1>11. UNCHANGED [r \in Replica |-> Range(rcontent[r])] BY <1>1
<1> QED BY <1>3, <1>4, <1>9, <1>10, <1>11 DEF Log!Accept

(* The instance counts as this module does. *)
LEMMA SameCount == \A S : Log!Cardinality(S) = Cardinality(S)
BY DEF Log!Cardinality, Cardinality

(* An applied operation is the first write the replica lacks, or one it     *)
(* has.                                                                     *)
LEMMA ReplicateRefined ==
  ASSUME IndInv, OrderInv, IndInv', OrderInv', Replica # {},
         NEW r \in Replica, NEW h \in handler[r], HandlerApplies(r, h)
  PROVE  Log!Replicate(r) \/ UNCHANGED Log!vars
<1> DEFINE copies == [q \in Replica |-> Range(rcontent[q])]
<1>0. TypeOK /\ PositionsGiven /\ TypeOK' /\ PositionsGiven' BY DEF IndInv, OrderInv
<1>1. /\ rcontent' = [rcontent EXCEPT ![r] = Append(@, h.op)]
      /\ UNCHANGED <<seqOf, opSeq, adv>>
  BY DEF HandlerApplies, primaryVars
<1>2. /\ h.op \in Write /\ h.seq \in Nat /\ h.seq # 0 /\ seqOf[h.op] = h.seq
      /\ UpTo(h.seq - 1) \subseteq Range(rcontent[r])
  <2>1. h \in Handler BY <1>0 DEF TypeOK
  <2>2. h.op \in Write /\ h.seq \in Nat BY <2>1 DEF Handler
  <2>3. HandlersInOrder BY DEF OrderInv
  <2> QED BY <2>2, <2>3 DEF HandlersInOrder
<1>3. Range(rcontent'[r]) = Range(rcontent[r]) \cup {h.op}
  BY <1>0, <1>1, <1>2, RangeAppend DEF TypeOK
<1>4. copies' = [copies EXCEPT ![r] = @ \cup {h.op}]
  <2>1. \A q \in Replica : q # r => rcontent'[q] = rcontent[q] BY <1>0, <1>1 DEF TypeOK
  <2> QED BY <1>3, <2>1
<1>5. UNCHANGED <<Accepted, CommitSeq>>
  <2>1. UNCHANGED CommitSeq BY <1>0, <1>1, CommitKept
  <2> QED BY <1>1, <2>1 DEF Accepted
<1>6. CASE h.op \in Range(rcontent[r])
  <2>1. copies' = copies BY <1>4, <1>6
  <2> QED BY <1>5, <2>1 DEF Log!vars
<1>7. CASE h.op \notin Range(rcontent[r])
  <2>1. h.seq \in 1..opSeq /\ h.seq - 1 \in 0..opSeq /\ opSeq \in Nat
    <3>1. opSeq \in Nat BY <1>0 DEF TypeOK
    <3>2. h.seq <= opSeq BY <1>0, <1>2 DEF PositionsGiven
    <3> QED BY <1>2, <3>1, <3>2
  <2>2. Range(rcontent[r]) \subseteq UpTo(h.seq - 1)
    <3> SUFFICES ASSUME NEW v \in Range(rcontent[r]) PROVE v \in UpTo(h.seq - 1)
      OBVIOUS
    <3>1. v \in Write /\ seqOf[v] \in Nat
      BY <1>0, RangeOfSeq DEF TypeOK
    <3>2. seqOf[v] # 0 /\ UpTo(seqOf[v]) \subseteq Range(rcontent[r])
      BY DEF OrderInv, PrefixHeld
    <3>3. ~(h.seq <= seqOf[v]) BY <1>2, <1>7, <3>2 DEF UpTo
    <3> QED BY <1>2, <3>1, <3>2, <3>3 DEF UpTo
  <2>3. Cardinality(copies[r]) = h.seq - 1
    <3>1. copies[r] = UpTo(h.seq - 1) BY <1>2, <2>2
    <3> QED BY <1>0, <2>1, <3>1, UpToCount
  <2>4. Accepted[h.seq] = h.op
    <3>1. Accepted[h.seq] \in Write /\ seqOf[Accepted[h.seq]] = h.seq
      BY <1>0, <2>1, AcceptedAt
    <3> QED BY <1>0, <1>2, <3>1 DEF PositionsGiven
  <2>5. Len(Accepted) = opSeq BY <1>0, AcceptedType
  <2>6. Cardinality(copies[r]) < Len(Accepted) /\ Accepted[Cardinality(copies[r]) + 1] = h.op
    BY <2>1, <2>3, <2>4, <2>5
  <2>7. copies' = [copies EXCEPT ![r] = @ \cup {Accepted[Cardinality(@) + 1]}]
    BY <1>4, <2>6
  <2> QED BY <1>5, <2>6, <2>7, SameCount DEF Log!Replicate
<1> QED BY <1>6, <1>7

(* The same after a step. *)
LEMMA CommitReachedNext ==
  (TypeOK /\ OrderInv => CommitSeq \in 0..opSeq
                         /\ (CommitSeq = 0 \/ CommitSeq \in Reachable)
                         /\ \A s \in Reachable : s <= CommitSeq)'
<1>1. TypeOK /\ OrderInv => CommitSeq \in 0..opSeq
                            /\ (CommitSeq = 0 \/ CommitSeq \in Reachable)
                            /\ \A s \in Reachable : s <= CommitSeq
  BY CommitReached
<1> QED BY <1>1, PTL

(* A heartbeat moves the commit index forward, to a position up to which a  *)
(* majority holds every write, or leaves it.                                *)
LEMMA CommitRefined ==
  ASSUME IndInv, OrderInv, IndInv', OrderInv', Replica # {}, NEW r \in Replica, Heartbeat(r)
  PROVE  (\E n \in 1..Cardinality(Write) : Log!Commit(n)) \/ UNCHANGED Log!vars
<1> DEFINE C == CommitSeq
           D == CommitSeq'
           A == adv'
           H(s) == {q \in Replica : A[q] >= s}
           copies == [q \in Replica |-> Range(rcontent[q])]
<1>0. TypeOK /\ PositionsGiven /\ TypeOK' /\ PositionsGiven' BY DEF IndInv, OrderInv
<1>1. UNCHANGED <<seqOf, opSeq, rcontent>> /\ opSeq \in Nat
  BY <1>0 DEF Heartbeat, primaryVars, replicaVars, TypeOK
<1>2. \A q \in Replica : adv[q] \in Nat /\ A[q] \in Nat /\ adv[q] <= A[q] /\ A[q] <= opSeq
  <2>1. \A q \in Replica : A[q] = IF q = r THEN pos[r] ELSE adv[q]
    BY <1>0 DEF Heartbeat, TypeOK
  <2>2. /\ pos[r] > adv[r]
        /\ \A q \in Replica : /\ adv[q] \in Nat /\ adv[q] <= opSeq
                              /\ pos[q] \in Nat /\ pos[q] <= opSeq
    BY <1>0 DEF Heartbeat, TypeOK, OrderInv, PrefixHeld
  <2> QED BY <2>1, <2>2
<1>3. C \in 0..opSeq /\ (C = 0 \/ C \in Advertised)
  BY <1>0, CommitReached, CommitAdvertised
<1>4. D \in 0..opSeq /\ (D = 0 \/ D \in Advertised') /\ \A s \in Advertised' : s <= D
  BY <1>0, <1>1, CommitReachedNext, CommitAdvertisedNext
<1>5. Advertised' = {s \in {A[q] : q \in Replica} : Cardinality(H(s)) + 1 >= Majority}
  BY DEF Advertised, Majority
<1>6. C <= D
  <2>1. CASE C = 0 BY <1>1, <1>4, <2>1
  <2>2. CASE C # 0
    <3> DEFINE G == {q \in Replica : adv[q] >= C}
               T == {A[q] : q \in H(C)}
    <3>1. Cardinality(G) + 1 >= Majority BY <1>3, <2>2 DEF Advertised
    <3>2. G \subseteq H(C) BY <1>2, <1>3
    <3>3. /\ Cardinality(G) \in Nat /\ Cardinality(H(C)) \in Nat
          /\ Cardinality(G) <= Cardinality(H(C))
      BY <3>2, ReplicaCount
    <3>4. Cardinality(H(C)) + 1 >= Majority /\ Cardinality(H(C)) # 0
      BY <3>1, <3>3, MajorityType
    <3>5. H(C) # {} BY <3>4, FS_EmptySet, Zenon
    <3>6. T # {} /\ T \in SUBSET Nat BY <1>2, <3>5
    <3>7. PICK m \in T : \A t \in T : m <= t BY <3>6, LeastExists
    <3>8. PICK q \in H(C) : m = A[q] BY <3>7
    <3>9. H(C) \subseteq H(m) BY <3>7
    <3>10. Cardinality(H(m)) \in Nat /\ Cardinality(H(C)) <= Cardinality(H(m))
      BY <3>9, ReplicaCount
    <3>11. Cardinality(H(m)) + 1 >= Majority BY <3>3, <3>4, <3>10, MajorityType
    <3>12. m \in Advertised' BY <1>5, <3>8, <3>11
    <3>13. m <= D /\ C <= m /\ m \in Nat BY <1>2, <1>4, <3>8, <3>12
    <3> QED BY <1>1, <1>3, <1>4, <3>13
  <2> QED BY <2>1, <2>2
<1>7. UNCHANGED <<Accepted, copies>> BY <1>1 DEF Accepted
<1>8. CASE D = C BY <1>7, <1>8 DEF Log!vars
<1>9. CASE D # C
  <2>1. D > C /\ D # 0 /\ D \in 1..opSeq BY <1>1, <1>3, <1>4, <1>6, <1>9
  <2>2. D \in 1..Cardinality(Write)
    BY <1>1, <2>1, SeqBounded DEF IndInv
  <2>3. Len(Accepted) = opSeq BY <1>0, AcceptedType
  <2>4. Cardinality(H(D)) + 1 >= Majority BY <1>4, <1>5, <2>1
  <2> DEFINE K == {q \in Replica : Cardinality(copies[q]) >= D}
  <2>5. H(D) \subseteq K
    <3> SUFFICES ASSUME NEW q \in H(D) PROVE Cardinality(Range(rcontent[q])) >= D
      OBVIOUS
    <3>1. A[q] \in 0..opSeq /\ A[q] >= D /\ rcontent[q] \in Seq(Write)
      BY <1>0, <1>2 DEF TypeOK
    <3>2. UpTo(A[q]) \subseteq Range(rcontent[q])
      BY <1>1 DEF OrderInv, PrefixHeld, UpTo
    <3>3. Cardinality(UpTo(A[q])) = A[q] BY <1>0, <3>1, UpToCount
    <3>4. IsFiniteSet(Range(rcontent[q])) /\ Cardinality(Range(rcontent[q])) \in Nat
      <4>1. Range(rcontent[q]) \subseteq Write BY <3>1, RangeOfSeq
      <4> QED BY <4>1, ReplicationAssumption, FS_Subset, FS_CardinalityType
    <3>5. Cardinality(UpTo(A[q])) <= Cardinality(Range(rcontent[q]))
      BY <3>2, <3>4, FS_Subset
    <3> QED BY <1>2, <2>1, <3>1, <3>3, <3>4, <3>5
  <2>6. /\ Cardinality(H(D)) \in Nat /\ Cardinality(K) \in Nat
        /\ Cardinality(H(D)) <= Cardinality(K)
    BY <2>5, ReplicaCount
  <2>7. 2 * (Cardinality(K) + 1) > Cardinality(Replica) + 1
    BY <2>4, <2>6, MajorityType
  <2>8. Log!Holders(D) = Cardinality(K) + 1 BY SameCount DEF Log!Holders
  <2>9. Log!Commit(D)
    BY <1>7, <2>1, <2>3, <2>7, <2>8, SameCount DEF Log!Commit
  <2> QED BY <2>2, <2>9
<1> QED BY <1>8, <1>9

(* Every step of an undisturbed behaviour is a step of the replicated log,  *)
(* or does not show.                                                        *)
LEMMA RefineStep ==
  ASSUME IndInv, OrderInv, IndInv', OrderInv', Replica # {},
         Undisturbed, Undisturbed', [Next]_vars
  PROVE  [Log!Next]_(Log!vars)
<1>0. TypeOK /\ TypeOK' BY DEF IndInv
<1>1. ASSUME UNCHANGED <<seqOf, opSeq, rcontent, adv>> PROVE UNCHANGED Log!vars
  BY <1>0, <1>1, QuietRefined
<1>2. ASSUME NEW w \in Write, AssignSeq(w) PROVE Log!Next
  BY <1>2, AcceptRefined DEF Log!Next
<1>3. ASSUME NEW w \in Write,
             ApplyWrite(w) \/ PushLog(w) \/ \E r \in Replica : FanOut(w, r)
      PROVE  UNCHANGED Log!vars
  BY <1>1, <1>3 DEF ApplyWrite, PushLog, FanOut, replicaVars
<1>4. ASSUME NEW r \in Replica, NEW h \in handler[r], HandlerApplies(r, h)
      PROVE  [Log!Next]_(Log!vars)
  BY <1>4, ReplicateRefined DEF Log!Next
<1>5. ASSUME NEW r \in Replica, NEW h \in handler[r],
             HandlerRefused(r, h) \/ HandlerNotes(r, h) \/ LoopbackTimeout(r, h)
      PROVE  UNCHANGED Log!vars
  BY <1>1, <1>5 DEF HandlerRefused, HandlerNotes, LoopbackTimeout, primaryVars
<1>6. ASSUME NEW r \in Replica,
             \/ StartRound(r) \/ Fetch(r) \/ CatchUpNext(r) \/ EndRound(r)
             \/ SnapshotBegin(r) \/ SnapshotSpilled(r) \/ AbortResync(r)
      PROVE  UNCHANGED Log!vars
  BY <1>1, <1>6 DEF StartRound, Fetch, CatchUpNext, EndRound, SnapshotBegin,
                    SnapshotSpilled, AbortResync, primaryVars
<1>7. ASSUME NEW r \in Replica,
             Wipe(r) \/ ApplyLine(r) \/ LineRefused(r) \/ AdoptSnapshot(r)
      PROVE  FALSE
  <2>1. loop[r].stage \notin {"wipe", "lines"} BY DEF Undisturbed, OrderInv, PositionsGiven
  <2> QED BY <1>7, <2>1 DEF Wipe, ApplyLine, LineRefused, AdoptSnapshot
<1>8. ASSUME NEW r \in Replica, Heartbeat(r) PROVE [Log!Next]_(Log!vars)
  BY <1>8, CommitRefined, SameCount DEF Log!Next
<1>9. CASE SaveSeq \/ UNCHANGED vars
  BY <1>1, <1>9 DEF SaveSeq, vars, primaryVars, replicaVars
<1>10. CASE PrimaryCrash
  BY <1>0, <1>10 DEF PrimaryCrash, Undisturbed
<1> QED
  BY <1>2, <1>3, <1>4, <1>5, <1>6, <1>7, <1>8, <1>9, <1>10
  DEF Next, WriterStep, LoopStep, HandlerStep

(* Initially nothing is accepted, copied or committed. *)
LEMMA RefineInit == Init => Log!Init
<1> SUFFICES ASSUME Init PROVE Log!Init
  OBVIOUS
<1>1. Accepted = <<>>
  <2>1. 1..opSeq = {} BY DEF Init
  <2> QED BY <2>1 DEF Accepted
<1>2. \A r \in Replica : Range(rcontent[r]) = {} BY RangeEmpty DEF Init
<1>3. CommitSeq = 0
  <2>1. CommitSeq \in 0..opSeq BY OrderInit, IndInit, CommitReached DEF IndInv
  <2> QED BY <2>1 DEF Init
<1> QED BY <1>1, <1>2, <1>3 DEF Log!Init

(* As long as the primary stays up and no replica is wiped for a re-sync,   *)
(* the write path, fan-out and catch-up implement the replicated log, for   *)
(* every number of writes, replicas and operations in flight: a replica     *)
(* only ever takes over the first write it lacks, and the commit index      *)
(* never moves back and only to writes a majority has.  A primary without   *)
(* replicas commits as it accepts, in one step, and is left out.            *)
THEOREM RefinesReplicatedLog ==
  ASSUME Replica # {}
  PROVE  Spec /\ []Undisturbed => ImplementsReplicatedLog
<1>1. /\ IndInv /\ OrderInv /\ IndInv' /\ OrderInv' /\ Undisturbed /\ Undisturbed'
      /\ [Next]_vars
      => [Log!Next]_(Log!vars)
  BY RefineStep
<1> QED
  BY RefineInit, <1>1, Inductive, OrderInductive, PTL
  DEF Spec, ImplementsReplicatedLog, Log!Spec

=============================================================================
