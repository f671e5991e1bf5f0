----------------------------- MODULE Replication -----------------------------
(***************************************************************************)
(* Replication of client writes from one stable primary to its replicas:   *)
(* the write path of handle_rpc on the primary (apply, assign the log      *)
(* position, append to the op-log, fan out), the receive path on a replica *)
(* (decide by the applied position, apply, note the position), the         *)
(* replica's catch-up loop (cluster.replication.fetch and loopback apply)  *)
(* and its re-sync from a snapshot file of the primary.                    *)
(*                                                                         *)
(* The term does not change here, so a log position is its sequence        *)
(* number.  A database is the sequence of the writes applied to it; a      *)
(* snapshot has one line per write, and a chunk is one line.               *)
(***************************************************************************)
EXTENDS Integers, Sequences, FiniteSets, SequencesExt, Subsequence

CONSTANTS Write,        \* client writes, one handler thread each
          Keyed,        \* the writes the engine refuses to repeat (keyed inserts)
          Replica,      \* the replicas of the primary
          MaxInFlight,  \* bound: writes between their apply and their op-log entry
          Cap,          \* capacity of the op-log ring buffer
          MaxAborts,    \* bound: failed calls of the re-syncs and of the loopback apply
          MaxCrashes    \* bound: crashes of the primary

ASSUME ReplicationAssumption == /\ IsFiniteSet(Write) /\ IsFiniteSet(Replica)
                                /\ Keyed \subseteq Write
                                /\ MaxInFlight \in Nat /\ Cap \in Nat \ {0}
                                /\ MaxAborts \in Nat /\ MaxCrashes \in Nat

VARIABLES
  phase,      \* phase[w]: how far the handler of w is
  seqOf,      \* seqOf[w]: the log position assigned to w, 0 before
  content,    \* the primary's database
  opSeq,      \* the primary's op_seq
  savedSeq,   \* op_seq in the primary's settings file
  log,        \* the op-log ring buffer
  fanned,     \* fan-out calls made, <<w, r>>
  rcontent,   \* rcontent[r]: the replica's database
  pos,        \* pos[r]: last_applied_seq
  handler,    \* handler[r]: sequenced operations being applied on r
  loop,       \* loop[r]: the catch-up thread of r
  file,       \* file[s]: complete lines in the snapshot file named by position s
  adv,        \* adv[r]: the position of r the primary last heard of
  aborts, crashes

primaryVars == <<phase, seqOf, content, opSeq, savedSeq, log, fanned>>
replicaVars == <<rcontent, pos, handler, loop>>
boundVars == <<aborts, crashes>>
vars == <<primaryVars, replicaVars, file, adv, boundVars>>

-----------------------------------------------------------------------------
Phase == {"new", "applied", "sequenced", "logged", "dead"}

Entry == [seq : Nat, op : Write]

(* An operation whose decision was Apply, before and after the engine ran   *)
(* it; `late' is the number of the timeout after which the catch-up loop no *)
(* longer waits for it, 0 before.                                           *)
Handler == [seq : Nat, op : Write, done : BOOLEAN, by : {"fanout", "catchup"}, late : Nat]

(* The catch-up thread: idle, waiting for a fetch (from position `at'),     *)
(* applying fetched operations, or re-syncing: waiting for the snapshot at  *)
(* position `at', wiping, or applying lines from offset `off'.              *)
Stage == {"idle", "fetch", "apply", "begin", "spill", "wipe", "lines"}

Loop == [stage : Stage, at : Nat, off : Nat, ops : Seq(Entry)]

IdleLoop == [stage |-> "idle", at |-> 0, off |-> 0, ops |-> <<>>]

At(stage, at) == [stage |-> stage, at |-> at, off |-> 0, ops |-> <<>>]

SetLoop(r, l) == loop' = [loop EXCEPT ![r] = l]

Init ==
  /\ phase = [w \in Write |-> "new"]
  /\ seqOf = [w \in Write |-> 0]
  /\ content = <<>> /\ opSeq = 0 /\ savedSeq = 0 /\ log = <<>> /\ fanned = {}
  /\ rcontent = [r \in Replica |-> <<>>]
  /\ pos = [r \in Replica |-> 0]
  /\ handler = [r \in Replica |-> {}]
  /\ loop = [r \in Replica |-> IdleLoop]
  /\ file = [s \in 0..Cardinality(Write) |-> 0]
  /\ adv = [r \in Replica |-> 0]
  /\ aborts = 0 /\ crashes = 0

-----------------------------------------------------------------------------
(* The primary's write path.  The shared side of seq_barrier is held from   *)
(* before the engine applies the write until its op-log entry is in place.  *)

HoldsBarrier(w) == phase[w] \in {"applied", "sequenced"}

(* The snapshot export holds the engine's read lock while it spills. *)
Exporting == \E r \in Replica : loop[r].stage = "spill"

ApplyWrite(w) ==
  /\ phase[w] = "new"
  /\ Cardinality({v \in Write : HoldsBarrier(v)}) < MaxInFlight
  /\ ~Exporting
  /\ content' = Append(content, w)
  /\ phase' = [phase EXCEPT ![w] = "applied"]
  /\ UNCHANGED <<seqOf, opSeq, savedSeq, log, fanned, replicaVars, file, adv, boundVars>>

(* record_replication_op, under the cluster lock. *)
AssignSeq(w) ==
  /\ phase[w] = "applied"
  /\ opSeq' = opSeq + 1
  /\ seqOf' = [seqOf EXCEPT ![w] = opSeq + 1]
  /\ phase' = [phase EXCEPT ![w] = "sequenced"]
  /\ UNCHANGED <<content, savedSeq, log, fanned, replicaVars, file, adv, boundVars>>

(* Mutant: the buffer is trimmed one entry too late. *)
TrimLate(s) == IF Len(s) > Cap + 1 THEN SubSeq(s, Len(s) - Cap, Len(s)) ELSE s

Trim(s) == IF Len(s) > Cap THEN SubSeq(s, Len(s) - Cap + 1, Len(s)) ELSE s

(* record_replication_op, under the op-log's own lock. *)
PushLog(w) ==
  /\ phase[w] = "sequenced"
  /\ log' = Trim(Append(log, [seq |-> seqOf[w], op |-> w]))
  /\ phase' = [phase EXCEPT ![w] = "logged"]
  /\ UNCHANGED <<seqOf, content, opSeq, savedSeq, fanned, replicaVars, file, adv, boundVars>>

(* Every heartbeat and every finished fan-out saves the cluster state, which *)
(* only a crash to come can tell.                                           *)
SaveSeq ==
  /\ crashes < MaxCrashes /\ savedSeq # opSeq
  /\ savedSeq' = opSeq
  /\ UNCHANGED <<phase, seqOf, content, opSeq, log, fanned, replicaVars, file, adv, boundVars>>

(* The op-log is in memory only and op_seq is as last saved; the handlers   *)
(* are gone, and so are the export calls they serve.                        *)
PrimaryCrash ==
  /\ crashes < MaxCrashes
  /\ crashes' = crashes + 1
  /\ log' = <<>> /\ opSeq' = savedSeq
  /\ phase' = [w \in Write |-> IF phase[w] = "new" THEN "new" ELSE "dead"]
  /\ loop' = [r \in Replica |-> IF loop[r].stage \in {"fetch", "begin", "spill"}
                                THEN IdleLoop ELSE loop[r]]
  /\ UNCHANGED <<seqOf, content, savedSeq, fanned, rcontent, pos, handler, file, adv, aborts>>

-----------------------------------------------------------------------------
(* The replica's receive path *)

(* Mutant: a position above a gap is applied. *)
AboveGap(r, s) == s > pos[r]

(* decide_replication_apply within one term. *)
NextInOrder(r, s) == s = pos[r] + 1

StartHandler(r, s, w, by) ==
  handler' = [handler EXCEPT
    ![r] = @ \cup {[seq |-> s, op |-> w, done |-> FALSE, by |-> by, late |-> 0]}]

(* The fan-out call of w reaches r, once at most and in any order; an       *)
(* operation that is a duplicate or above a gap is only acknowledged.       *)
FanOut(w, r) ==
  /\ phase[w] = "logged" /\ <<w, r>> \notin fanned
  /\ fanned' = fanned \cup {<<w, r>>}
  /\ IF NextInOrder(r, seqOf[w]) THEN StartHandler(r, seqOf[w], w, "fanout")
                                 ELSE UNCHANGED handler
  /\ UNCHANGED <<phase, seqOf, content, opSeq, savedSeq, log, rcontent, pos, loop,
                 file, adv, boundVars>>

(* A keyed insert whose row is already there is an error. *)
Refuses(r, w) == w \in Keyed /\ w \in Range(rcontent[r])

(* The engine runs the operation, some time after the decision. *)
HandlerApplies(r, h) ==
  /\ h \in handler[r] /\ ~h.done /\ ~Refuses(r, h.op)
  /\ rcontent' = [rcontent EXCEPT ![r] = Append(@, h.op)]
  /\ handler' = [handler EXCEPT ![r] = (@ \ {h}) \cup {[h EXCEPT !.done = TRUE]}]
  /\ UNCHANGED <<primaryVars, pos, loop, file, adv, boundVars>>

(* The catch-up loop waits for the answer of h. *)
Awaited(h) == h.by = "catchup" /\ h.late = 0

(* The engine refuses: nothing is noted, and a catch-up round ends.         *)
HandlerRefused(r, h) ==
  /\ h \in handler[r] /\ ~h.done /\ Refuses(r, h.op)
  /\ handler' = [handler EXCEPT ![r] = @ \ {h}]
  /\ loop' = IF Awaited(h) /\ loop[r].stage = "apply"
             THEN [loop EXCEPT ![r] = IdleLoop] ELSE loop
  /\ UNCHANGED <<primaryVars, rcontent, pos, file, adv, boundVars>>

(* note_applied_replication: the position is set, not maximised. *)
HandlerNotes(r, h) ==
  /\ h \in handler[r] /\ h.done
  /\ pos' = [pos EXCEPT ![r] = h.seq]
  /\ handler' = [handler EXCEPT ![r] = @ \ {h}]
  /\ UNCHANGED <<primaryVars, rcontent, loop, file, adv, boundVars>>

-----------------------------------------------------------------------------
(* The replica's catch-up loop: one round at a time *)

StartRound(r) ==
  /\ loop[r].stage = "idle"
  /\ SetLoop(r, At("fetch", pos[r]))
  /\ UNCHANGED <<primaryVars, rcontent, pos, handler, file, adv, boundVars>>

(* Mutant: the first operation after the position is left out. *)
PendingSkipping(after) == Selected(log, {i \in 1..Len(log) : log[i].seq > after + 1})

(* The entries of the op-log after a position. *)
Pending(after) == Selected(log, {i \in 1..Len(log) : log[i].seq > after})

(* cluster_replication_fetch: the operations after the position the replica *)
(* sent, or resync_required when the first of them leaves a hole.           *)
Fetch(r) ==
  LET after   == loop[r].at
      pending == Pending(after)
  IN
  /\ loop[r].stage = "fetch"
  /\ SetLoop(r, IF pending = <<>> THEN IdleLoop
                ELSE IF pending[1].seq > after + 1 THEN At("begin", 0)
                ELSE [stage |-> "apply", at |-> 0, off |-> 0, ops |-> pending])
  /\ UNCHANGED <<primaryVars, rcontent, pos, handler, file, adv, boundVars>>

CatchingUp(r) == \E h \in handler[r] : Awaited(h)

(* The next fetched operation goes through the receive path of the node     *)
(* itself (apply_op_loopback); the loop waits for it.                       *)
CatchUpNext(r) ==
  /\ loop[r].stage = "apply" /\ loop[r].ops # <<>> /\ ~CatchingUp(r)
  /\ LET e == Head(loop[r].ops) IN
       IF NextInOrder(r, e.seq) THEN StartHandler(r, e.seq, e.op, "catchup")
                                ELSE UNCHANGED handler
  /\ SetLoop(r, [loop[r] EXCEPT !.ops = Tail(@)])
  /\ UNCHANGED <<primaryVars, rcontent, pos, file, adv, boundVars>>

(* The client of apply_op_loopback gives up after 3 s and the round stops;  *)
(* the handler is dropped with its connection or runs on unattended.        *)
LoopbackTimeout(r, h) ==
  /\ aborts < MaxAborts
  /\ loop[r].stage = "apply" /\ h \in handler[r] /\ Awaited(h)
  /\ aborts' = aborts + 1
  /\ SetLoop(r, IdleLoop)
  /\ \E left \in {{}, {[h EXCEPT !.late = aborts + 1]}} :
       handler' = [handler EXCEPT ![r] = (@ \ {h}) \cup left]
  /\ UNCHANGED <<primaryVars, rcontent, pos, file, adv, crashes>>

EndRound(r) ==
  /\ loop[r].stage = "apply" /\ loop[r].ops = <<>> /\ ~CatchingUp(r)
  /\ SetLoop(r, IdleLoop)
  /\ UNCHANGED <<primaryVars, rcontent, pos, handler, file, adv, boundVars>>

-----------------------------------------------------------------------------
(* Re-sync from a snapshot *)

(* Mutant: the export does not take the barrier. *)
BarrierIgnored == TRUE

BarrierFree == \A w \in Write : ~HoldsBarrier(w)

(* mode "begin": seq_barrier is taken exclusively, the engine read lock is  *)
(* taken, op_seq is read, and the file of that position is created anew.    *)
SnapshotBegin(r) ==
  /\ loop[r].stage = "begin"
  /\ BarrierFree
  /\ file' = [file EXCEPT ![opSeq] = 0]
  /\ SetLoop(r, At("spill", opSeq))
  /\ UNCHANGED <<primaryVars, rcontent, pos, handler, adv, boundVars>>

(* spill_replication_snapshot, under the engine read lock. *)
SnapshotSpilled(r) ==
  /\ loop[r].stage = "spill"
  /\ file' = [file EXCEPT ![loop[r].at] = Len(content)]
  /\ SetLoop(r, At("wipe", loop[r].at))
  /\ UNCHANGED <<primaryVars, rcontent, pos, handler, adv, boundVars>>

(* Every local database is dropped. *)
Wipe(r) ==
  /\ loop[r].stage = "wipe"
  /\ rcontent' = [rcontent EXCEPT ![r] = <<>>]
  /\ SetLoop(r, At("lines", loop[r].at))
  /\ UNCHANGED <<primaryVars, pos, handler, file, adv, boundVars>>

(* mode "chunk": the next line of the file is read without any lock and     *)
(* applied without a log position.  The file holds a prefix of the writes   *)
(* of its position.                                                         *)
ApplyLine(r) ==
  /\ loop[r].stage = "lines" /\ loop[r].off < file[loop[r].at]
  /\ ~Refuses(r, content[loop[r].off + 1])
  /\ rcontent' = [rcontent EXCEPT ![r] = Append(@, content[loop[r].off + 1])]
  /\ SetLoop(r, [loop[r] EXCEPT !.off = @ + 1])
  /\ UNCHANGED <<primaryVars, pos, handler, file, adv, boundVars>>

(* A refused line ends the re-sync where it stands. *)
LineRefused(r) ==
  /\ loop[r].stage = "lines" /\ loop[r].off < file[loop[r].at]
  /\ Refuses(r, content[loop[r].off + 1])
  /\ SetLoop(r, IdleLoop)
  /\ UNCHANGED <<primaryVars, rcontent, pos, handler, file, adv, boundVars>>

(* The end of the file: the position of the snapshot is adopted. *)
AdoptSnapshot(r) ==
  /\ loop[r].stage = "lines" /\ loop[r].off >= file[loop[r].at]
  /\ pos' = [pos EXCEPT ![r] = loop[r].at]
  /\ SetLoop(r, IdleLoop)
  /\ UNCHANGED <<primaryVars, rcontent, handler, file, adv, boundVars>>

(* A call of the re-sync fails: it is given up where it stands. *)
AbortResync(r) ==
  /\ aborts < MaxAborts
  /\ loop[r].stage \in {"begin", "wipe", "lines"}
  /\ aborts' = aborts + 1
  /\ SetLoop(r, IdleLoop)
  /\ UNCHANGED <<primaryVars, rcontent, pos, handler, file, adv, crashes>>

-----------------------------------------------------------------------------
(* cluster.node.heartbeat from r: the primary records the newest position.  *)
Heartbeat(r) ==
  /\ pos[r] > adv[r]
  /\ adv' = [adv EXCEPT ![r] = pos[r]]
  /\ UNCHANGED <<primaryVars, replicaVars, file, boundVars>>

(* Mutant: a position counts from one operation before it. *)
NearlyReached(s) == Cardinality({r \in Replica : adv[r] + 1 >= s}) + (IF opSeq >= s THEN 1 ELSE 0)

(* cluster_commit_position: the highest position a majority has reached,    *)
(* the primary counting its own op_seq.                                     *)
Reached(s) == Cardinality({r \in Replica : adv[r] >= s}) + (IF opSeq >= s THEN 1 ELSE 0)

Majority == (Cardinality(Replica) + 1) \div 2 + 1

CommitSeq == LET S == {s \in {opSeq} \cup {adv[r] : r \in Replica} : Reached(s) >= Majority}
             IN  IF S = {} THEN 0 ELSE CHOOSE s \in S : \A t \in S : t <= s

-----------------------------------------------------------------------------
LoopStep(r) ==
  \/ StartRound(r) \/ Fetch(r) \/ CatchUpNext(r) \/ EndRound(r)
  \/ SnapshotBegin(r) \/ SnapshotSpilled(r) \/ Wipe(r)
  \/ ApplyLine(r) \/ LineRefused(r) \/ AdoptSnapshot(r)

(* A handler runs: one of a fan-out call, the one the catch-up loop waits   *)
(* for, or one it no longer waits for.                                      *)
HandlerStep(r, by, late) ==
  \E h \in handler[r] :
    /\ h.by = by /\ h.late = late
    /\ HandlerApplies(r, h) \/ HandlerRefused(r, h) \/ HandlerNotes(r, h)

WriterStep(w) == ApplyWrite(w) \/ AssignSeq(w) \/ PushLog(w)

Next ==
  \/ \E w \in Write : WriterStep(w) \/ \E r \in Replica : FanOut(w, r)
  \/ \E r \in Replica : LoopStep(r) \/ AbortResync(r) \/ Heartbeat(r)
                        \/ \E h \in handler[r] : LoopbackTimeout(r, h)
                        \/ \E by \in {"fanout", "catchup"}, late \in 0..aborts :
                             HandlerStep(r, by, late)
  \/ SaveSeq \/ PrimaryCrash

Spec == Init /\ [][Next]_vars

(* Handlers run, the heartbeat loop ticks and its calls are answered; a     *)
(* fan-out call need not arrive.                                            *)
FairSpec ==
  /\ Spec
  /\ \A w \in Write : WF_vars(WriterStep(w))
  /\ \A r \in Replica :
       /\ WF_vars(LoopStep(r))
       /\ WF_vars(HandlerStep(r, "fanout", 0))
       /\ \A late \in 0..MaxAborts : WF_vars(HandlerStep(r, "catchup", late))

-----------------------------------------------------------------------------
TypeOK ==
  /\ phase \in [Write -> Phase]
  /\ seqOf \in [Write -> Nat]
  /\ content \in Seq(Write)
  /\ opSeq \in Nat /\ savedSeq \in Nat
  /\ log \in Seq(Entry) /\ Len(log) <= Cap
  /\ fanned \subseteq Write \X Replica
  /\ rcontent \in [Replica -> Seq(Write)]
  /\ pos \in [Replica -> Nat]
  /\ handler \in [Replica -> SUBSET Handler]
  /\ loop \in [Replica -> Loop]
  /\ adv \in [Replica -> Nat]
  /\ aborts \in Nat

(* The writes at or below position s. *)
UpTo(s) == {w \in Write : seqOf[w] # 0 /\ seqOf[w] <= s}

Resyncing(r) == loop[r].stage = "lines"

(* The applied position of a replica stands for its content: outside a      *)
(* re-sync it holds every write up to its position, whatever fan-out and    *)
(* catch-up deliver concurrently.                                           *)
PositionIsContent ==
  \A r \in Replica : ~Resyncing(r) => UpTo(pos[r]) \subseteq Range(rcontent[r])

(* Writes first reach a replica in the order of their log positions.        *)
AppliedInOrder ==
  \A r \in Replica : \A i, j \in 1..Len(rcontent[r]) :
    /\ i < j
    /\ \A k \in 1..j-1 : rcontent[r][k] # rcontent[r][j]
    => seqOf[rcontent[r][i]] < seqOf[rcontent[r][j]] \/ rcontent[r][i] = rcontent[r][j]

(* The snapshot barrier: while the export runs, the primary's content is    *)
(* exactly the writes up to the snapshot's position, so catch-up from there *)
(* neither skips a write nor repeats one.  Writes from before a crash of    *)
(* the primary are left out: their positions may be lost with it.           *)
SnapshotConsistent ==
  \A r \in Replica : loop[r].stage = "spill" =>
    /\ loop[r].at = opSeq
    /\ \A w \in Write : phase[w] # "dead" => (w \in Range(content) <=> w \in UpTo(loop[r].at))

(* Every write at or below the commit index is in the databases of a        *)
(* majority ("durable on a quorum, so it survives any single-node loss").   *)
CommittedOnQuorum ==
  \A w \in UpTo(CommitSeq) :
    Cardinality({r \in Replica : w \in Range(rcontent[r])})
      + (IF w \in Range(content) THEN 1 ELSE 0) >= Majority

(* The next operation is one the engine of r has and refuses to repeat: the *)
(* late note of an older operation moved the position back below it.        *)
Wedged(r) == \E w \in Write : seqOf[w] = pos[r] + 1 /\ Refuses(r, w)

(* Once the writes stop, every replica reaches the end of the op-log, or is *)
(* wedged: lost fan-out calls are healed by the catch-up loop.              *)
CatchesUp ==
  \A r \in Replica : <>[](pos[r] = Cardinality(Write) \/ Wedged(r))

-----------------------------------------------------------------------------
(* Refinement of ReplicatedLog *)

Accepted == [i \in 1..opSeq |-> CHOOSE w \in Write : seqOf[w] = i]

Log == INSTANCE ReplicatedLog WITH
         order     <- Accepted,
         copy      <- [r \in Replica |-> Range(rcontent[r])],
         committed <- CommitSeq

(* The write path, the fan-out and the catch-up loop implement the          *)
(* replicated log: whatever calls are late, lost, repeated or applied at    *)
(* the same time, a replica only ever takes over the first write it lacks,  *)
(* and the commit index moves only to writes a majority has.                *)
ImplementsReplicatedLog == Log!Spec

=============================================================================
