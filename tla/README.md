# SkeinDB in TLA+

SkeinDB is a database server in one process: an engine with tables, indexes, a
change log and a redo log (`crates/skeindb/src/engine.rs`, `engine/wal.rs`,
`crates/skeindb-core`), and a server around it that speaks HTTP/JSON-RPC,
PostgreSQL and MySQL, and joins other servers to a cluster with one primary
(`crates/skeindb/src/server.rs`). This directory models the parts of it in
which a wrong order of steps loses data or leaves someone waiting: who is
primary, what a replica holds, what a crash leaves behind, what a subscriber and
a coalesced reader get, what a shard's new owner holds. Paths in this file are relative to the
repository; line numbers without a path are lines of
`crates/skeindb/src/server.rs`.

| Module | Models | Used by |
|---|---|---|
| `ClusterElection` | vote round, promotion, announcement, the calls that set a primary or the member list, shutdown, saving of the cluster state | `MC_Election`, `ClusterElection_proofs` |
| `Replication` | log positions, op-log, fan-out, ordered apply and its time-out, catch-up, re-sync, commit index | `MC_Replication`, `Replication_proofs` |
| `ReplicatedLog` | what the replication promises: one order, prefixes, a commit index on a majority | `Replication` (refinement) |
| `ClusterFailover` | heartbeats, choice of the candidate, votes by log position, write guard, log positions across terms, restarts and calls that name a primary | `MC_Failover`, `ClusterFailover_proofs` |
| `EngineWal` | redo log, deferred snapshots, catalog versions, recovery | `MC_EngineWal`, `EngineWal_proofs` |
| `ChangeFeed` | change log, forensic chain, their sidecars and recovery, subscriptions, sinks | `MC_ChangeFeed`, `ChangeFeed_proofs` |
| `Coalescing` | one execution for concurrent equal reads | `MC_Coalescing`, `Coalescing_proofs` |
| `ValueStore` | a node's content-addressed values and the check of transferred ones | `ObjectPull` |
| `ObjectPull` | `objects.pull` between two nodes that go on working | `ShardMove` |
| `ShardMove` | `cluster.shard.move`, shard promotion, leaving members; composes `ObjectPull` | run directly, `ShardMove_proofs` |
| `Subsequence` | `Selected(s, I)`: the elements of a sequence at a set of indexes, in order | `Replication`, `ChangeFeed` |
| `X_proofs` | TLAPS proofs about module `X`; `ShardMove_proofs` has those about `ValueStore` and `ObjectPull` too | `Subsequence_proofs` by those of `Replication`, `ChangeFeed`, `ClusterFailover` and `EngineWal` (lemmas on finite sets of numbers) |

`tlc -config X.cfg MC_Y` repeats a run; `tlapm X_proofs.tla` repeats the proofs
about `X` (the longest, `ChangeFeed_proofs` and `EngineWal_proofs`, take a few minutes). `PROJECT.json` has the list of runs, the map from every
definition to the lines it models, one mutant per checked property, the hazards
and the findings.

## 1. Inventory

### The parts and how they interact

A **node** is one server process. Client requests arrive at `handle_rpc` on a
pool of handler threads. A write passes `enforce_cluster_write_guard` (only a
node that believes it is primary and sees a quorum may write), takes the shared
side of `seq_barrier`, runs in the engine under the engine's write lock, gets a
log position under the cluster lock, enters the op-log under the op-log's own
lock, and is sent to the other nodes by a fan-out thread. One background thread
per node, `run_cluster_heartbeat_loop`, sends heartbeats, runs elections and
runs a catch-up round. The cluster state and the settings that carry it to disk
have different locks.

| Part | State | Operations | What makes it correct |
|---|---|---|---|
| Election, leadership persistence | `leadership_epoch`, `current_primary_id`, `voted_epoch`, `voted_for`; their copy in the settings file | `run_cluster_election`, `cluster_request_vote`, `cluster_leader_announce`, `cluster_replica_promote`, `cluster_node_join`, `leave` and `remove`, `persist_cluster_state` | one winner per term, also across a crash; an epoch names one primary unless a call set it; leadership never goes back; an election ends |
| Replication | `op_seq`, op-log ring, `last_applied_*`, positions of the peers, snapshot files | `record_replication_op`, `fanout_replication_op`, `decide_replication_apply`, `note_applied_replication`, `cluster_replication_fetch`, `run_replication_catchup_once`, `run_replication_resync` | a replica's position stands for its content; writes arrive in order; the commit index is on a majority; a replica converges |
| Row durability | catalog file, table snapshot files, redo log; tables in memory, dirty set, version counters | row statements, `persist_catalog`, `wal_log_rows_for_db`, `flush_dirty_tables`, `wal_recover`, create, drop, GC, rewrite | an acknowledged statement survives a crash; recovery is a prefix |
| Failure detection, fencing, failover | heartbeat times, the applied positions of the members | `elect_failover_candidate`, `decide_failover_action`, `enforce_cluster_write_guard` | at most one node accepts writes; the winner has every committed write |
| Membership | join tokens, member list | issue, join, leave, remove | a token joins once; a removed node stops counting |
| Sharding | shard map, per-shard leaders | move, rebalance, shard elections | the new owner holds the shard's values; the shard's epoch never goes back; its owners are members |
| Read-committed reads | commit index, `applied_op_times` | `read_committed_as_of` | no read above the commit index |
| Log framing (`skeindb-core/src/wal.rs`) | begin, mutation and commit records with checksums | append, commit, recover | a torn tail is dropped, a complete transaction never is |
| Change data capture, forensic chain | change log, subscriptions, hash chain | `emit_change`, subscribe, acknowledge, retention | at-least-once delivery; the chain has no gap |
| Query coalescing, caches | executions in flight, cached results | join, lead, finish, fail | a waiter is always woken; no stale result |
| Value store | values by their hash, in full or as a patch against another one | put, compaction, `objects.need`, `objects.fetch`, `objects.pull` | every value held can be rebuilt; a transfer takes only what verifies, and ends |
| MVCC | version chains | snapshot read, history GC | no live version is collected |
| Everything else | see `components` in `PROJECT.json` | SQL and IR evaluation, wire protocols, transport, RBAC, vector and learned indexes, UDFs, tools | |

### What is hard here

- **Steps between locks.** The state is copied under one lock and stored under
  another (37254); a position is decided, the write applied and the position
  noted in three lock scopes (19340-19366, 22179); a position is assigned and
  the op-log entry appended in two (21924-21969); the engine lock is released
  before the position is assigned (21672); a joiner looks at a result and
  registers for the wake-up in two steps (17454-17463).
- **Unreliable calls.** Vote requests, announcements, fan-out and heartbeats are
  single RPCs with a timeout; each may be lost or be handled long after the
  caller gave up.
- **Crashes between two disk writes.** One statement writes the catalog, the
  log, perhaps several snapshots, and removes the log. `op_seq` is saved only by
  a later heartbeat; the op-log never is.
- **Counters that move in memory only.** `table_version` after an insert,
  `op_seq` after a write.
- **Bounds.** The op-log ring; the group-commit batch; the flush threshold; the
  retention of the change log.
- **Views that differ.** Each node judges liveness, progress and quorum from its
  own member list, in which its own entry is not kept up (22893-22933).

- **Copies across awaits.** A shard move writes back an entry it copied before
  three remote calls (24019-24151); a pull looks at the value store in four
  lock scopes per batch (24927-25071).

`hazards` in `PROJECT.json` has these at their lines, with the property that
would catch each or the reason why none does. Four more that the code does
not exclude, so that no passing run can have a property of them: two writes of
one key can take positions in the order opposite to the engine's (21672); a
snapshot file is truncated by a second begin at its position while it is read
(22451); an operation of a newer term is applied at any number, so a replica
skips the old term's operations it missed (22151); transaction numbers of the
redo log restart at zero while an unremoved log may hold an unfinished one
(`engine/wal.rs:142`).

## 2. Plan

1. `ClusterElection` with its proofs, `Replication`, `EngineWal`. *Done.*
2. `ClusterFailover`: the composition of heartbeats, election and log across a
   change of term. *Done.*
3. `ReplicatedLog` and the refinement by `Replication`. *Done.*
4. `ChangeFeed`: change log and forensic chain against the redo log, retention
   against slow subscribers, sinks. *Done.*
5. `Coalescing`. *Done.*
6. `ValueStore`, `ObjectPull`, `ShardMove`: the transfer of values and the change
   of a shard's owner around it. *Done.*
7. Theorems: type correctness and every safety property that a passing run checks,
   and the refinement of 3. *Done*; section 11 has the list.
8. Open modules: `DurableTables`, an abstract table store whose crash drops a
   suffix of the unforced statements, implemented by `EngineWal` when every
   insert saves the catalog; `WalFile`, the record framing and the restart of
   transaction numbers at zero while a retained log holds an unfinished
   transaction (`engine/wal.rs:142`); `Membership` (join tokens; the member list itself is in
   `ClusterElection`);
   `ReadCommitted`, whose boundary is a millisecond timestamp that several
   operations can share (22231).

The modules declare their parameters as CONSTANTS with named assumptions and use
no RECURSIVE operator, so that they can be proved about.

## 3. ClusterElection

**State.** `mem[n]` has the leadership fields and the member list of
`ClusterStateModel` of node `n`, `disk[n]` their copy in the settings file.
`job[n][th]` is the save thread `th` of `n` is busy with. `election[n]` is the run
of `run_cluster_election`, with the member list it started from. `reqs`, `anns`
and `calls` are the remote calls under way. History variables: `votes`, the votes
that were counted; `won`, the elections that were won; `lost`, the counted votes a
restarted node did not find in its file; `operated`, the epochs at which a call
set some node's primary; `thin`, the terms won by fewer than a majority of all
nodes, which a list shortened by removals allows.

**Threads.** Each node has the heartbeat thread `Ticker`, which runs one election
at a time, and handler threads `Worker`.

**Actions.**

| Action | Code |
|---|---|
| `Clone`, `Persist`, `PersistFails` | `persist_cluster_state`: copy under the cluster lock, store under the settings lock, write the file; what the thread does next (`CountVote`, `CountOwnVote`, `Announce`) is part of the step |
| `SaveForOtherReason` | heartbeats, fan-out and applied operations, which save the whole cluster state |
| `StartElection`, `Ask`, `AskTimeout`, `Promote`, `GiveUp` | `run_cluster_election` and the client timeout |
| `GrantVote`, `RefuseVote` | `cluster_request_vote` |
| `Adopt`, `IgnoreAnnounce` | `cluster_leader_announce` |
| `AdmitCall` | the write guard: an operator's call is admitted on a node that thinks it is primary and sees a quorum |
| `ManualPromote` | `cluster_replica_promote`: the next epoch, no vote, no announcement |
| `JoinNode`, `LeaveNode`, `RemoveNode` | `cluster_node_join`, `cluster_node_leave`, `cluster_node_remove`: a primary that leaves or is removed is replaced with the epoch unchanged |
| `CallFails` | a call that is lost or refused |
| `CrashRestart`, `Shutdown` | process death, or the orderly stop that saves the state and sends `cluster.node.leave` to the peers with the header that passes their write guard; then `load_cluster_state` |

**Abstractions.** Which members a node sees online is any set with the node in
it, because a heartbeat may be late or lost at any time. The up-to-date rule of
the vote is free: `RefuseVote` is always possible. The order of a member list and
the status of its entries, which say who inherits from a primary that goes, are
free too. A node that joins adopts nothing here; join tokens are left out. A save by
`SaveForOtherReason` starts with the copy already taken. A lost request or
announcement is one that is never handled.

**Runs** (three members, one handler thread per node):

| Run | Bounds | Shows |
|---|---|---|
| `election_calls` | 1 term, 1 operator's call, no crash, no failed save | `EpochNamesOnePrimary`: nodes that agree on the epoch agree on the primary, unless a call set one at that epoch. `LeadershipAdvances`: a running node changes its primary only with a larger epoch or because the primary left or was removed, and neither epoch nor voted term goes back. `ElectionsOfBEnd`: an election of `b` ends, whatever is lost. A promotion raises the epoch beside the one term, so a stale announcement, a late vote and a call meet. |
| `election_crash` | 1 term, 1 crash or shutdown, 1 failed or racing save | `TypeOK`; `ElectionSafety`: one winner per term as long as no restart lost a counted vote; `EpochNamesOnePrimary`, also across the leave calls of a shutdown. One term is enough: the properties are about one term. |
| `election_vote_lost` | the same | *violated:* `OneVotePerTerm` (finding 1) |

Three members are the smallest cluster in which a majority is not everybody. The
symmetry of the last two runs is the exchange of the two members that are not the
first primary; `election_calls` has a liveness property and uses none. These runs
do not check deadlock: within the bounds the system may become quiet.

The exceptions are what the code does. `cluster.node.leave` (22784) and
`cluster.node.remove` (22729) hand the primary on in the receiving node's state
only and keep its epoch, so after one of them two nodes name different primaries
at one epoch, and after a promotion on two nodes at one epoch likewise. An epoch is
a fencing token for elections, not for these calls; the `hazards` have both.

**Fairness.** `FairToB` (in `MC_Election`) has weak fairness of the steps of the
heartbeat thread of `b`, one of the members that are not the first primary; the
others are not asked to do anything. `run_cluster_heartbeat_loop` is an endless
loop on a thread of its own, and every call it makes has a 5 s client timeout
(23721), which is the action `AskTimeout`. No fairness is assumed of the handlers
or of message delivery.

**Proved** in `ClusterElection_proofs`, for every finite set of members, every
set of threads and every bound:

- `TypeCorrect`: `Spec => []TypeOK`.
- `AtMostOneWinner`: `Spec => []ElectionSafety`.
- `LeadershipOnlyAdvances`: `Spec => LeadershipAdvances`, from `TypeOK` alone:
  each handler that changes the leadership or the vote compares the terms itself,
  under the lock, or is a leave or removal of the primary.
- `EpochsNameOnePrimary`: `Spec => []EpochNamesOnePrimary`. Its invariant
  `WinnersLead` says that what a node has in memory, in its file, in a save under
  way or in an announcement under way has an epoch in `operated`, or names the
  first primary, or a node that won the election of that epoch; two of the latter
  with one epoch outside `thin` agree by `ElectionSafety`. A copy that was taken
  before a call and stored after it is covered, because `operated` only grows.

`ElectionSafety` is not inductive: it speaks of the winners, and nothing in it
says where a winner's votes came from. The inductive invariant `IndInv` is the
conjunction of

- `TypeOK`;
- `GivenOnce`: as long as no vote is lost, the memory of a node covers every vote
  it has given away or is about to save, and it gives a term to one candidate. A
  vote that a thread is about to save has to be included because the save comes
  after the lock is released and a second request may arrive in between;
- `OwnVotes`: only the heartbeat thread saves an own vote, and it is the vote of
  its present election;
- `GotCounted`: the votes a candidate holds were counted, or its own is being
  saved;
- `WonByQuorum`: the votes of a winner are a majority of counted votes, unless its
  term is in `thin`.

`InvGivesSafety` then needs `QuorumsMeet`: two majorities of a finite set share a
member. `IndInvStep` has one step per action; the actions that touch neither
votes nor elections go through `NetStep` and `QuietStep`, and the others through
the `Given...` lemmas. The assumptions are `NodesAssumption` (finite set of
members, the first primary is one, `NoNode` is not), `ThreadsAssumption` and
`BoundsAssumption`.

## 4. Replication

**State.** On the primary `phase[w]` and `seqOf[w]` (how far the handler of
write `w` is, and its position), `content` (the database as the sequence of the
writes applied to it), `opSeq`, `savedSeq`, `log`, `fanned`. On a replica
`rcontent[r]`, `pos[r]` (`last_applied_seq`), `handler[r]` (operations decided
and not yet noted) and `loop[r]` (the catch-up thread). `file[s]` is the
snapshot file of position `s`, and `adv[r]` the position of `r` the primary last
heard of.

**Actions.** `ApplyWrite`, `AssignSeq`, `PushLog` are the write path of
`handle_rpc` with its two locks, inside the shared side of `seq_barrier`.
`FanOut` delivers a write to one replica, in any order and at most once, or
never; the decision (`NextInOrder`, `decide_replication_apply`) is taken in that
step, `HandlerApplies` or `HandlerRefused` follow when the engine runs it, and
`HandlerNotes` sets the position. `StartRound`, `Fetch`, `CatchUpNext`,
`EndRound` are `run_replication_catchup_once`; the operations it fetches take the
same receive path, one at a time as long as the loop waits. `LoopbackTimeout` is
the 3 s limit of `apply_op_loopback` (36223): the loop stops waiting, the handler
goes on (`late` counts such handlers), and a later round may start a second one. `SnapshotBegin`, `SnapshotSpilled`, `Wipe`, `ApplyLine`,
`LineRefused`, `AdoptSnapshot`, `AbortResync` are `run_replication_resync` and
the primary's side of it. `SaveSeq`, `PrimaryCrash` and `Heartbeat` complete it.

**Abstractions.** One primary and one term. A snapshot line is one write, a chunk
one line. The engine is external to this module: it refuses to repeat a write in
`Keyed` (an insert with a key) and repeats any other.

**Runs:**

| Run | Bounds | Shows |
|---|---|---|
| `replication_order` | 2 writes (1 keyed), 2 replicas, an op-log that holds both | `PositionIsContent`, `AppliedInOrder`, `CommittedOnQuorum`, `CatchesUp` and the refinement `ImplementsReplicatedLog`, with fan-out and catch-up racing on each replica. Two writes give a gap, a duplicate and a late delivery; two replicas give a majority of three. |
| `replication_snapshot` | 3 keyed writes, 2 in flight, op-log of 1, 1 failed call or time-out, 1 crash | `TypeOK` and `SnapshotConsistent`: the barrier makes position and exported content agree. An op-log of one entry forces the re-sync; three writes allow one before, one during and one after it. |

**Refinement.** `ReplicatedLog` has three variables: the order of the accepted
writes, the set of writes each replica holds, and the commit index. Its steps
accept a write, give a replica the first write it lacks, and move the commit
index to a position that a majority holds. `Replication` implements it under the
mapping `Accepted` (the inverse of `seqOf`), the range of `rcontent[r]` and
`CommitSeq`. `copy` is a set because the code may apply an operation without a
key twice: the decision, the apply and the note are three steps, and fan-out and
catch-up can both decide before either notes. The refinement says that this
repetition is the only thing that can go wrong without a re-sync: no
interleaving skips a write, takes one out of order or commits one that a
majority lacks.

**`CatchesUp` and the wedge.** `note_applied_replication` assigns the position
without a maximum. The late note of an older operation moves it back; if the next
operation is a keyed insert the replica already has, the catch-up loop fetches
it, the engine refuses it, and the replica stays there on every round. `Wedged`
names that state and `CatchesUp` leaves it out; every other replica reaches the
last position although any fan-out call may be lost.

`replication_order` has no loopback time-outs (`MaxAborts = 0`) for its size; with
one replica and one time-out its five properties hold too, and the theorems below
are about any number of them.

The order of arrival is checked with one write in flight. With two, two handlers
can enter the op-log in the order opposite to their positions; a replica that
fetches such a log is told to re-sync. A re-sync races the handlers: one that
applied its write before the wipe notes its position after the re-sync adopted
the snapshot's, and the replica claims a write it no longer holds (an op-log of
one entry and three writes violate `PositionIsContent`). Likewise
`PositionIsContent` and `CommittedOnQuorum` are checked with an op-log that needs
no re-sync: a re-sync wipes a replica whose position still counts for the commit
index. The `hazards` say which of these the code does not exclude. Symmetry:
keyed writes, other writes, and replicas are interchangeable; `replication_order`
has a liveness property and uses none.

**Fairness.** Weak fairness of each write's handler, of each replica's catch-up
thread and of each receiving handler: they are threads that no other thread can
block for ever, and their calls end. Fan-out has no fairness, so that it may
always be lost.

**Proved** in `Replication_proofs`, for all finite sets of writes and replicas
and every capacity of the op-log. Of all behaviours, with crashes, re-syncs and time-outs:

- `TypeCorrect`: `Spec => []TypeOK`.
- `SnapshotsConsistent`: `Spec => []SnapshotConsistent`.

The inductive invariant is `TypeOK` with `PhasesAgree` (a write is in the
database from the step that applies it on, and has a position from the step that
assigns it on), `SeqCounted` (`opSeq` is not below the saved one and at most the
number of writes that have a position; a crash sets it back), `FilesCovered` (a
snapshot file has lines of writes in the primary's database only) and
`ExportStill` (while a file is written no write is between its apply and its
op-log entry, and `opSeq` is the position of the file).

Of the behaviours in which the primary does not crash and no replica is wiped for
a re-sync (`Undisturbed`; the paragraph above says why the code gives no more):

- `PositionsAreContent`, `WritesAppliedInOrder`, `CommitsOnQuorum`: the invariants
  of `replication_order`, with any number of writes in flight. The run has one
  write in flight; the proof shows that the order in which two handlers enter the
  op-log does not matter.
- `RefinesReplicatedLog`: `Replication` implements `ReplicatedLog`, if there is a
  replica. A primary without one commits a write in the step that accepts it,
  which is two steps of `ReplicatedLog`.

`OrderInv` is the invariant for these: `PositionsGiven` (the positions are `1` to
`opSeq`, one write each, and every entry of an op-log, batch or handler has the
position of its write), `HandlersInOrder` (when a replica has decided to apply an
operation, it holds every write before it, and from the apply on that one too),
`PrefixHeld` (what a replica holds is a prefix that reaches its position and the
one the primary heard of) and `AppliedInOrder`. `HandlersInOrder` is needed because
the position is noted in a step of its own, which may be late.

## 5. ClusterFailover

**State.** `lead[n]` and `voted[n]` are the leadership and the vote of node `n`,
`election[n]` its run of `run_cluster_election`, `anns` the announcements made.
`view[n][m]` is the age of the last heartbeat of `m` at `n`: `"newest"` when it is
younger than the last time `n` marked itself seen, else `"recent"` or `"old"`
(past the timeout). `entry[n][m]` is the progress of `m` in the member list of
`n`. `opSeq`, `log`, `pos` and `data` are the log and the databases of each node,
with positions that are pairs of a term and a number; `write[w]` is the handler
of a write. `cut` has the nodes that are cut off; `saved[n]` is the `op_seq` that
`n` last loaded, below which no restart goes. `takeover` is the history of the
first election won, by whom, whose votes, and what was committed when it began;
`lost` has the recorded writes whose number a restart forgot, `operated` the
epochs in which a call named a primary.

**Actions.** `Heartbeat` is one round of `run_cluster_heartbeat_once` that
reaches any subset of the connected peers, with `cluster_node_heartbeat` on
each. `Expire` lets a heartbeat get old. `StartElection` is
`run_cluster_failover_tick` up to the term and the own vote; its guard is
`decide_failover_action` with `elect_failover_candidate` (`ElectsItself`). `Vote`
and `NoVote` are `cluster_request_vote` with its up-to-date rule, the answer
heard or lost. `Win`, `Lose`, `Adopt` are the end of the election and
`cluster_leader_announce`. `Admit` is the write guard, `Record` the assignment of
the position by whatever epoch the node then has, `FanOut` and `CatchUp` the two
ways a write reaches a replica, both through `decide_replication_apply`. `CutOff`
and `Heal` are the network alone: the process runs on. `Restart` is the end of a
process and `load_cluster_state`: `op_seq` is any value between the last loaded
one and the present one, because recording a write does not save it (21934) and the
saves that heartbeats, fan-outs and votes make may have come before the write or
fail; the op-log is empty; the election and the writes without a position are
gone. `PromoteCall` and `LeaveCall` are `cluster.replica.promote` and the leave of
the primary (an operator's or a shutdown's) as a node handles them.

**Abstractions.** A remote call is one step: the threads and saves inside it are
in `ClusterElection`, the races of the apply path in `Replication`. A restart
finds the node's leadership, vote and applied position; that the file may lack
them is `ClusterElection`'s subject. The op-log is
not trimmed. The stored commit index, which heartbeats spread, is left out since
no step here reads it; `CommitPosition` is what the primary would compute. The
second quorum check of an election uses the time its tick began and so always
passes. Two heartbeats of one millisecond are not told apart.

**Runs:**

| Run | Bounds | Shows |
|---|---|---|
| `failover` | 3 nodes, 2 writes, 1 term; of the first primary 1 outage, or 1 call it handles, and 1 restart; heartbeats of connected nodes never late | `TypeOK`; `TakeoverKeepsCommitted`: the winner holds every write that was committed when its election began, if the old primary did not vote, or a write that a restart gave the same position; `PositionNamesOneWrite`: a position names one write unless a deposed primary stamped it, a restart forgot it (`lost`), or a call named a primary in its epoch. Two writes are needed for two logs to disagree, for one committed and one uncommitted write, and for a number used again; one term gives one change of primary. |
| `failover_stuck` | no writes, 3 terms, `FairSpec` | *violated:* `FailoverCompletes` (finding 3) |

`failover` identifies states by `OneTermView` in `MC_Failover`. With one term, a
node that voted or adopted a leadership starts no election, so the ages in its
view are read no more; a node that is not primary and has no election does not
read its quorum; the member list of a node other than the first primary is read
only for "some progress or none" while it may still start an election; the one
of the first primary only for the commit index until the election is won. A node
on which a call may still name another primary (`MayBeCalled`) keeps all of these. What
no later step and no property reads is left out of the view. The two nodes that
are not the first primary, and the writes, are interchangeable.

What the properties leave out is what the code does not exclude:

- *The old primary votes.* It compares the candidate with its applied position,
  which its own writes do not move, so its vote does not protect what it
  committed.
- *Writes committed after the vote.* A voter applies operations of the old term
  after it voted; a write committed in that window may be missing on the winner.
- *A restarted primary uses numbers again.* `op_seq` is saved late and the op-log
  never, so in one epoch two writes get one position, and a replica that has one of
  them takes the other for a duplicate.
- *A call names a primary.* Two nodes lead one epoch and number their writes alike.
- *A newer term is applied at any number*, so a replica skips operations of the
  old term that it missed.
- *Two primaries.* An old primary that missed the one announcement is never told
  again, and accepts writes when it sees a quorum. Their positions differ
  because their epochs do, which is the content of `PositionNamesOneWrite`.

**Fairness** (`FairSpec`, for finding 3): every node's loop beats, evaluates and
runs its elections; heartbeats get old. It is an endless loop on its own task.

**Proved** in `ClusterFailover_proofs`, for every finite set of nodes, every set
of writes, any number of terms, outages, restarts and calls on any node, and
heartbeats that may be late:

- `TypeCorrect`: `Spec => []TypeOK`.
- `PositionsNameOneWrite`: `Spec => []PositionNamesOneWrite`.
- `TakeoversKeepCommitted`: `Spec => []TakeoverKeepsCommitted`.

The inductive invariant is the conjunction of `FullTypeOK`; `VotesRight` (a voter
of a term is counted by one election of it and votes in no earlier one again);
`LeadersRight` (behind every announcement is a majority that no other election of
that term counts, so an epoch is announced by one node, and what a node
recognises was announced or is in `operated`); `WritesRight` (a write belongs to
the primary of the epoch in which it was admitted, and a node uses no number twice
among the writes outside `lost`); and `TakeoverRight`. The last has two parts that
hold as long as nothing is announced and no call was made:
`FirstTermRight`, that the first primary alone writes and a replica has every
write up to its position, and `CandidatesRight`, that every write a candidate owes
is covered by a majority whose members, once they vote for it, show that the
candidate has it too. At the first win a voter other than the old primary is in
both majorities.

## 6. EngineWal

**State.** On disk `cat[t]` (`table_version` in `catalog.json`), `snap[t]`,
`wal` (complete log transactions) and `synced` (how many are forced to disk);
`snapAt` is the length the log had when a table's file was last written. In
memory `tv[t]`, `rows[t]`, `locked`, `dirty`, `since`. `stage` and `op` say where
the running statement is. `acked` is the history of the effects of the
acknowledged statements, and of one that a crash cut short; `sure` says how many
of them no crash may lose, and `odd` which of six known ways out of durability
were taken.

**Actions.** A row statement (`Insert`, `Update`, `Delete`, `Merge`) changes memory,
any number of rows of one table. `Update(t, f)` gives every row `j` the key `f[j]`,
in an order in which each key is free when its turn comes. Within the statement's
transaction a key that is given up and taken by another row has two images of one
version, always the tombstone first: `FirstImages`, then `SecondImages`. A statement
that fails at one of its rows returns from inside the loop (`Bail`,
`engine.rs:3785-3806`, `3952-3977`): the rows before it stay changed in memory, and
nothing is counted, logged or marked dirty. After the change in memory every write to disk is a step of its own: `PersistCatalog`,
`LogRow`, `Sync`, `Defer`, `PersistDirect`, `FlushTable`, `FlushEnd`. `DropTable`,
`Unlist`, `CreateTable`, `HistoryGc`, `RewriteTable`, `RegisterKey` are the other
operations that write these files; `Shutdown` and `ShutdownEnd` the checkpoint of
an orderly stop. `Crash` may come at any step and keeps any prefix of the
unforced log. `Open` loads the files (`Loaded`) and replays the log onto them, one
`Apply` (`wal_apply_record`) per image (`Redo`, `RedoLog`), and `RecoverEnd` removes
the log.

**Abstractions.** One database. A row is its current version. A log transaction
is atomic: a torn one counts as absent, which is what `WalReader::recover` makes
of it. Values are the numbers of the statements that wrote them.

**Runs:**

| Run | Bounds | Shows |
|---|---|---|
| `wal_recovery` | 2 tables (1 auto-increment, 1 encrypted), 3 keys, 3 statements (a drop counts as one), forced to disk at every 2nd commit, flush every 3, 1 drop, 1 crash | `TypeOK`; `AcknowledgedSurvives`: outside the ways out in `odd`, no acknowledged write is lost and no undone one returns; `LogCoversMemory`: replaying the log onto the snapshots gives the rows in memory. Three statements with a group of two and a flush after the third put a power loss before, inside and after a group and a flush; two tables let one be flushed and the other not; three keys are a chain of moves. |
| `wal_version_rewind` | 1 table without auto-increment, 3 statements, 2 crashes | *violated:* `ReplayRestores`, durability whatever happened, except a refused statement (finding 2) |

`wal_recovery` identifies states that differ only in a statement that has ended
(`View`). It checks, and does not leave, the states after a refused or a chained
statement (`Promised`): `odd` only grows, and with it not empty neither property
promises anything, so no violation is cut off.

`odd` names what `AcknowledgedSurvives` leaves out:

- `"rewound"`: a statement wrote over a row whose version is above the table's
  counter (finding 2);
- `"chained"`: one update gave up a key and took it again. With rows 2 and 1,
  `SET id = id + 1` logs `3` live, `2` dead, `2` live, `1` dead at one version, and
  the replay, which skips an image that is not newer (`engine/wal.rs:260`), keeps
  the tombstone of `2`: an acknowledged row is lost at the next crash;
- `"refused"`: a statement failed after it had changed rows. They are visible, not
  in the log, and durable once another statement flushes the table;
- `"dropped"`: a crash inside a drop, or a table created while the log still holds
  records of a dropped one of that name;
- `"locked"`: a restart without the key that met log records of an encrypted table,
  or a write to a locked table;
- `"ahead"`: a power loss that took log transactions a table file had been written
  behind: with group commit a flush, a merge, a drop, the history GC or a rewrite
  makes a file durable while transactions of earlier statements are not, although
  `engine/wal.rs:117` promises a prefix wherever an fsync fell. With `Batch = 1` (the
  default) it cannot happen (`NeverAhead`).

Each is a hazard of its own, and each is needed: `ReplayRestores` has no exception
but the refused statement, and TLC violates it by each of the other five
(`wal_version_rewind` is the first; the others need an encrypted or a dropped table,
`Batch = 2`, or three keys in that configuration).

**Proved** in `EngineWal_proofs`, for all sets of tables and keys, every batch and
threshold, logs of any length and any number of statements, drops and crashes:
`TypeCorrect` (`Spec => []TypeOK`), `AcknowledgedSurvive` (`[]AcknowledgedSurvives`),
`LogCoversRows` (`[]LogCoversMemory`) and `NeverAhead`
(`[](Batch = 1 => "ahead" \notin odd)`).

Neither property is inductive: each speaks of an idle engine, and what a crash
leaves depends on which writes of the running statement have reached the disk.
The invariant `IndInv` has types and `TablesRight` in all states, and while
`odd` is empty

- `Plain`: no statement and no transaction of the log has second images;
- `CleanTables`: a table outside the dirty set has its rows in its file, but for
  the running statement's. This is why `FlushEnd` may remove the log;
- `LogRight`: the images of one row in the log have increasing versions that the
  table's counter has reached. `Redo` compares versions, so this is what makes
  the replay apply the last image and not an older one;
- `OpRight`: until it is on disk, the running statement's version is above those
  in the log and in the file;
- `RowsRight`: a live row in memory is as new as its last image in the log, and a
  row that is not there has a tombstone as its last image. History GC and a
  moved row, which take rows away without a record, count here;
- `HistoryRight`: memory has all effects of the history, and for *every* length
  `n` that a crash may cut the log to, unless a file is ahead of it, the files
  with the first `n` transactions give the first `Mark(n)` effects, which has all
  that must survive. `AcknowledgedSurvives` is its first half at `idle`;
  `LogCoversMemory` its second with `n = Len(wal)`.

The replay is a recursive function over the log, whose value for a log of any
length would be an induction over data. The proof goes round it: `Steps` says that
a sequence of states follows the records, `StepsExist` that every log has one,
`RedoLogSteps` that `RedoLog` is its last element, and `ReplayOutcome` that a row
ends as `Outcome` says, in closed form from the loaded row and the last image of
its key. Each is shown by the least counterexample among the indexes of the log.
`ApplyRow` and `RedoRow` say what one transaction does to one row. One lemma per
action then shows that it keeps `Sound`.

## 7. ChangeFeed

**State.** On disk the snapshot files and the sidecars of the change log (`snap`,
`flog`) and of the forensic chain (`chainSnap`, `chainFlog`), the statements that
are durable in the redo log or the tables (`committed`), the subscriptions
(`subs`) and the sink files (`file`). In memory `changes`, `changeSeq`, `chain`
and `dirty`. `stage` is where the holder of the engine's lock is. Of each consumer
`cursor` and `known`: the offset it polls from and the statements whose effect it
has, by an event or by reading the tables. `hist` is the event of each statement.

**Actions.** A statement is `EmitChange`, `AppendForensic`, `LogRow`: the order in
the code, a crash possible between any two. A flush is `PersistChanges`,
`PersistForensic`, `RemoveChangesLog`, `RemoveForensicLog`. `Crash` may leave the
record being appended missing, torn or complete; `Restart` reads back what
`read_log_records` can read and drops what the snapshot already has. `Subscribe`,
`Poll`, `PollResnapshot`, `Ack`, `SetPaused`, `Close`, `SinkWrite` and `SinkSave`
are the `cdc.*` methods and the stream.

**Abstractions.** A statement writes one row. Filters and projections of a
subscription are a set of tables. A hash is the statement of the record it is
chained to. Sidecars are not forced to disk by the code; a loss of power, which
may drop any tail of them, is not modelled, a crash of the process is.

**Run.** `change_feed`: 2 tables, 1 subscription on one of them, 3 statements, 2
crashes, retention of 2, one event per poll. Three statements overrun the
retention by one; the second table gives events that are not the subscriber's;
two crashes are needed for a record behind a torn one. `NoSilentGap`: no consumer
passes a committed change it does not have. `SinkAtLeastOnce`: a crash repeats
events in the sink file and drops none that is retained. `ChainComplete`: the
chain is unbroken and misses no committed statement. `Delivered`: an open stream
that is not paused gets every committed change.

`lost` is the exception: a torn record is not cut off when the server opens, so
records appended behind it are not read back after a second crash, and their
sequence numbers are given again. The properties say nothing after that. The
change log may also hold an event of a statement that a crash took (it is
recorded first); the properties speak of committed statements.

**Fairness.** A statement or flush that began ends, a server that is down is
started again, and an open stream polls (strong fairness, since a running
statement disables it): `cdc_sse_handler` wakes at least every
`CDC_SSE_FALLBACK_POLL_MS`.

**Proved** in `ChangeFeed_proofs`, for every retention, poll limit, set of tables
and of subscriptions, and any number of statements and crashes
(`ChangeFeedAssumption`):

- `TypeCorrect`: `Spec => []TypeOK`.
- `ChainsComplete`: `Spec => []ChainComplete`.
- `NoSilentGaps`: `Spec => []NoSilentGap`.
- `SinksAtLeastOnce`: `Spec => []SinkAtLeastOnce`.

None of the three speaks of what is on disk, and a restart takes everything from
there. The inductive invariant says, beside `FullTypeOK`:

- `ChainRight`: the chain that can be read from disk is linked and has every
  committed statement unless `lost`; the one in memory is what disk gives, unless
  records are behind a torn one.
- `FeedRight`: the numbers in the snapshot and in the readable part of the sidecar
  are consecutive; the log in memory is the snapshot with the newer events of the
  sidecar, cut to the retention, unless events are behind a torn record. Unless
  `lost`, it `Serves` the consumers: every committed change is in it or before it,
  no offset is beyond it, and a sink's file has what is before the sink's cursor.
- `InProgress`: the event of the statement under way is the last one and no
  consumer has reached it. It is what makes it safe that a crash takes it back.
- `HistoryRight`, `DrainRight` and `NoSilentGap` itself.

`WholeFlog` and `WholeChainFlog` are the sidecars without the record being
appended, which a crash may drop or tear; the invariant is stated of them.
The lemmas `OverIsRight`, `TrimAppend` and `RetainedAppend` say what trimming gives
after an append, `RemainsRead` what can be read after a crash, and `CollectRight`
what a poll returns. They rest on `Subsequence_proofs`: the prover knows nothing of
`SelectSeq`, so the model takes the elements of a sequence at a set of indexes,
`Selected`, and `Subsequence_proofs` has its length, its elements and their order.

## 8. Coalescing

**State.** `pc[r]` is where the handler of request `r` is, `inflight[k]` the entry
of key `k` in the map of `QueryCoalescer`, named by the request that created it,
`result[e]` what its leader published, `answer[r]` what `r` has, `version` the
writes applied and acknowledged, `since[r]` the ones at the arrival of `r`.

**Actions.** `Arrive` is `get_or_create`. The leader takes `RunQuery`,
`StoreResult`, `NotifyWaiters`, `Finish`; a joiner `Check` and `Register`.
`ApplyWrite` needs the engine's write lock, which is free of readers in `Reading`:
a GET keeps the read guard until its entry is out of the map, a patch only while
the query runs. `GoAway` drops a handler at an await.

**Run.** `coalescing`: 2 GETs and 2 patches, 1 write, 1 handler dropped; a leader
and a joiner of each kind, a write before, between or after. `NeverStale`: an
answered GET has every write acknowledged before it arrived, a patch every write
acknowledged before its leader arrived. `RegisteredAnswered`: a joiner that waits
when a leader publishes is answered. `TypeOK` includes that the map names only
leaders that run or were dropped.

The patch half is weaker than `docs/QUERY_COALESCING.md:8`, which says that requests
share a patch of "the same `base_etag -> current_etag` transition": the key (20417)
has the base ETag and not the current one, so a patch request that arrives after a
write can get the patch of a leader that read before it. With the GET's freshness
asked of patches too, TLC violates `NeverStale` in seven states.

Two more things no property can promise: a joiner that looked before the publication
and registers after the wake-up waits for ever (`notify_waiters` keeps no
permit), and a leader dropped at the lock leaves an entry that nobody removes.
Deadlock is not checked, for that reason.

**Fairness.** Weak fairness of every handler: the runtime polls woken tasks and
tokio's lock is fair.

**Proved** in `Coalescing_proofs`, for every set of requests, any share of patches
among them, and any number of writes and dropped handlers: `TypeCorrect` (`Spec => []TypeOK`) and
`CoalescedReadsFresh` (`Spec => []NeverStale`). `NeverStale` speaks of answers; the
invariant follows the result until it is one. `EntriesAgree`: an entry is in the
map under the key of the request that leads it. `ResultsPublished`: what a leader
publishes is what its query read. `LeadersFresh`: a leader that ran its query has
every write acknowledged before it arrived, and for a GET no write comes while it
keeps the read lock. `JoinersFresh`: a joiner of a GET arrived when its entry was
in the map, so its leader's result is as new.

## 9. ValueStore, ObjectPull, ShardMove

**ValueStore** has no state of its own: it defines what a store is and what the
operations on it give. A store maps every id it holds to the base of its patch,
or to `None` for full bytes. `Resolvable` are the ids whose chain ends in full
bytes (`materialize`), `Verified`, `Deferred` and `Invalid` the three outcomes of
`materialize_staged_transfer_entry`, as least fixed points so that a chain that
closes on itself is in neither of the first two. An embedding is stored under an
id that starts with its bucket (`engine.rs:27485`), which the check of a
transferred entry (`valuestore.rs:1839`) takes for a wrong hash: a shard with
embeddings the destination lacks cannot be moved, it ends in
`transfer_incomplete`. The model has that.

**ObjectPull.** `rows[n]` are the values in live rows, on disk; `store[n]` is in
memory and is rebuilt from them by `Restart`. `pull[p]` has the local variables of
one call. `objects_pull` takes and drops the engine's lock four times per batch;
`PullFetch`, `PullBases`, `PullVerify`, `PullImport` are the sections in between.
`WriteRow`, `DeleteRow`, `StoreDelta`, `CompactDeltas` happen on both nodes
meanwhile. `WriteRow` is a statement that succeeds: the rows that a refused
multi-row insert leaves in memory (`engine.rs:3785-3806`) and those of an encrypted
table that is unlocked later (`engine.rs:11815-11849`) are not interned, and are left
out. The engine's own statements only store full values; patches come from
`put_with_delta`, the library's interface that the transfer code and its test
(52136) provide for.

**ShardMove.** `shard`, `nodes`, `online` and `leader` are the coordinator's
cluster state, `move[m]` one call of `cluster.shard.move`: `MoveStart` copies the
entry, `MoveManifest`, `MoveNeed`, `MovePull` are its remote calls, `MovePlace`,
`MoveIncomplete` and `MoveFails` its ends. `MoveFails` includes the 5 s timeout,
after which a started pull runs on. `PromoteShard`, `AdoptAnnounced`,
`RemoveNode` and `LeaveNode` change the entry meanwhile. `Fault` bounds restarts,
failed calls and changes of the members together.

**Abstractions.** One shard. Reading the manifest or the store of another node is
one step at the time of the answer. Which ids make a batch is free, since their
order in the code is that of hash maps. A rebalance is a sequence of moves. Rows
are not moved by the code, and what is written after the manifest is not
transferred: no property says otherwise.

**Run.** `shard_move`: 2 nodes, 2 moves, 3 values of which one is an embedding and
one was interned for a row that is gone, batches of one, 2 writes, 1 fault, 1
epoch. Two writes are a patch and the row that uses it; one fault is a timeout
before a second move, a restart at either end, or a member that goes; two moves
are a retry beside a running pull. Deadlock is not checked: calls end and the
bounds run out.

- `StoresResolve`: every value a node holds can be rebuilt.
- `PullAccounts`: a pull that returns has every id it was asked for, or names it
  as missing or failed.
- `PullEnds`: a pull ends, or waits for a base the source has lost (`Orphaned`).
  Such a base is queued again after every batch (25008), and the report of
  lingering entries after the loop is never reached.
- `MovedComplete`: the destination holds the manifest when it becomes primary,
  unless it restarted since it was asked (`lost`).
- `ShardMapKept`: the shard's epoch does not go back and its primary and replicas
  are members, until a move has written its copy over a change made since
  (`overtaken`, 24151). A move itself neither raises the epoch nor tells others.

Each exception is needed: without it TLC finds a counterexample.

**Fairness.** Weak fairness of the sections of a running pull: tasks of the
runtime whose fetches have a 5 s timeout. Moves, nodes and faults have none.

**Proved** in `ShardMove_proofs`, for all sets of nodes, values and calls and every
bound: `TypeCorrect` (`Spec => []TypeOK`), `ValuesResolve` (`[]StoresResolve`),
`PullsAccount` (`PullAccounts`), `MovesComplete` (`MovedComplete`), `ShardMapSound`
(`ShardMapKept`).

- `StoresResolve` rests on lemmas about `ValueStore`. Their notion is `Grounded(s, ids, B)`:
  every chain from `ids` in `s` ends in full bytes or in `B`. A store is resolvable
  if it is grounded in nothing, an entry that verified is grounded in the local
  store, and adding entries keeps both. The least fixed points of `ValueStore` are
  the intersection of all closed sets; with that form, membership is shown by a
  closed set and no induction is needed.
- `PullsRight`: in each phase of a pull, the ids asked for are stored, pending,
  staged, missing or failed (`Covered`), and what is about to be imported is
  grounded in the store as it is now, not as it was when it was verified. This is
  where writes, compaction, a second pull and a restart between the locks count:
  none takes away a value, except a restart, which ends the pull.
- `MovesRight`: unless the destination restarted, it still has the values it had
  when asked, and the call's pull is about all others. `MapRight`: the entry names
  members unless `overtaken`. `CopiesRight`: the copy of a call that no change has
  raced is the entry as it is, with the destination as primary.

## 10. Findings

Each is the counterexample of a run that is expected to fail.

1. **A vote is lost by a racing save** (`election_vote_lost`). A heartbeat copies
   the cluster state, the node votes and saves, then the heartbeat stores its
   older copy. After a crash the node votes again in the same term.
   `docs/CONFIGURATION.md` says that this cannot happen.
2. **A version is used twice** (`wal_version_rewind`). An insert into a table
   without an auto-increment column does not save the version counter; after a
   crash the replay takes the record of a later acknowledged update or delete
   for one it has already applied, and the acknowledged write is gone.
   `engine/wal.rs:9` says that such a mutation is recovered.
3. **Nobody takes over** (`failover_stuck`). The entry a node has of itself in its
   member list gets no heartbeats: no progress, and a time of last sight as old
   as the process. With the primary gone and two replicas that hear each other,
   each names the other as candidate, and nobody starts an election.
   `docs/CONFIGURATION.md:252` says the cluster fails over on its own.

Three more disagreements are hazards without a run of their own: the patch key
without the current ETag (section 8), the chained move (section 6), and a leave or
removal of the primary that keeps the epoch (section 3), although
`docs/CONFIGURATION.md:249` calls the epoch "the fencing token that lets a
superseded primary detect it is stale".

## 11. What is proved and what is only checked

Proved for every value of the constants, from the assumptions named in the modules:

| Module | Theorems |
|---|---|
| `ClusterElection` | `TypeCorrect`, `AtMostOneWinner`, `LeadershipOnlyAdvances`, `EpochsNameOnePrimary` |
| `Replication` | `TypeCorrect`, `SnapshotsConsistent`; undisturbed by crash and re-sync: `PositionsAreContent`, `WritesAppliedInOrder`, `CommitsOnQuorum`, `RefinesReplicatedLog` |
| `ClusterFailover` | `TypeCorrect`, `PositionsNameOneWrite`, `TakeoversKeepCommitted` |
| `EngineWal` | `TypeCorrect`, `AcknowledgedSurvive`, `LogCoversRows`, `NeverAhead` |
| `ChangeFeed` | `TypeCorrect`, `ChainsComplete`, `NoSilentGaps`, `SinksAtLeastOnce` |
| `Coalescing` | `TypeCorrect`, `CoalescedReadsFresh` |
| `ShardMove`, `ObjectPull` | `TypeCorrect`, `ValuesResolve`, `PullsAccount`, `MovesComplete`, `ShardMapSound` |

Every one but `NeverAhead` states a property that a run checks too, and every
invariant and action property of a passing run is stated by one.

Only checked by TLC on the small instances:

- Liveness: `ElectionsOfBEnd`, `CatchesUp`, `Delivered`, `RegisteredAnswered`,
  `PullEnds`. The prover has no support for fairness and ENABLED.

What a recursive function computes is not within the prover's induction theorems
either; where a proof needs it (`Selected`, the replay of the log) it is shown by the
least counterexample among the natural numbers of an interval.

The three findings are counterexamples on small instances; a larger one has them
too.

## 12. What is not modelled

Listed with reasons in `components`. In short: join tokens, shard creation and the
plan of a rebalance, read-committed reads and the redo log's record framing are
open. SQL and IR
evaluation, wire protocols, transport, cryptography, vector and learned indexes,
UDFs and the tools are out of reach or have no protocol state; they are most of
the repository's lines. `EngineWal` leaves out table renames, schema changes,
streaming tables and corrupt table files; `Replication` the inline snapshot of
older primaries; `ClusterFailover` the administrative offline mark; `ChangeFeed`
checkpoint anchors and power loss; `Coalescing` ETags and the row cache.
