------------------------------ MODULE EngineWal ------------------------------
(***************************************************************************)
(* Durability of table rows in the engine: the redo log of one database    *)
(* (engine/wal.rs over skeindb-core/wal.rs), the deferred table snapshots, *)
(* the catalog that carries each table's version counter, and the replay   *)
(* on open.  The engine lock serialises statements; a crash may come       *)
(* between any two writes to disk.                                         *)
(*                                                                         *)
(* A log transaction holds the images of the rows one statement wrote (a   *)
(* torn one is discarded by WalReader::recover and counts as absent), and  *)
(* the second images of the keys that an update gave up and took again.    *)
(* A row is its current entry: the version, whether it is live, and the    *)
(* statement that wrote it.                                                *)
(***************************************************************************)
EXTENDS Integers, Sequences, FiniteSetsExt

CONSTANTS Table, Key,
          AutoInc,      \* the tables with an auto-increment column
          Encrypted,    \* the tables with encrypted cells
          Batch,        \* wal_sync_batch
          Threshold,    \* WAL_FLUSH_THRESHOLD
          MaxStmts,     \* bound: row statements and drops
          MaxDrops,     \* bound: drops
          MaxCrashes    \* bound: crashes

ASSUME EngineWalAssumption == /\ AutoInc \subseteq Table /\ Encrypted \subseteq Table
                              /\ Batch \in Nat \ {0} /\ Threshold \in Nat \ {0}
                              /\ MaxStmts \in Nat /\ MaxDrops \in Nat /\ MaxCrashes \in Nat
                              /\ Table # {}

VARIABLES
  cat,      \* disk: cat[t] is table_version in catalog.json, Absent without the table
  snap,     \* disk: snap[t] is the table's snapshot file
  wal,      \* disk: the redo log
  synced,   \* how many transactions of the log are forced to disk
  snapAt,   \* history: how many it had when a table's file was last written
  tv,       \* memory: tv[t] is table_version, Absent without the table
  rows,     \* memory: rows[t] is the table's rows
  locked,   \* memory: encrypted_locked_tables
  dirty,    \* memory: dirty_tables, or the tables a flush has still to write
  since,    \* memory: mutations_since_flush
  stage,    \* where the running statement is
  op,       \* the running statement
  acked,    \* history: the acknowledged effects, and the one a crash cut short
  sure,     \* history: how many effects no crash may lose
  odd,      \* history: the known ways out of durability that happened
  stmts, drops, crashes

disk == <<cat, snap, wal, synced, snapAt>>
memory == <<tv, rows, locked, dirty, since>>
history == <<acked, sure, odd>>
bounds == <<stmts, drops, crashes>>
vars == <<disk, memory, stage, op, history, bounds>>

-----------------------------------------------------------------------------
Absent == -1

Row == [ver : Nat, live : BOOLEAN, val : Nat]

NoRow == [ver |-> 0, live |-> FALSE, val |-> 0]

NoRows == [k \in Key |-> NoRow]

(* The images a statement writes: a function from some keys to rows. *)
IsImages(new) == DOMAIN new \subseteq Key /\ \A k \in DOMAIN new : new[k] \in Row

Over(r, new) == [k \in Key |-> IF k \in DOMAIN new THEN new[k] ELSE r[k]]

Value(row) == IF row.live THEN row.val ELSE 0

Stage == {"down", "idle", "catalog", "log", "sync", "defer", "direct", "flush",
          "unlist", "recover", "shutdown"}

(* A statement on table t: the first images of the keys it wrote, and the   *)
(* second images.  `direct': it writes the snapshot at once and does not    *)
(* use the log.                                                             *)
NoOp == [t |-> CHOOSE t \in Table : TRUE, new |-> <<>>, more |-> <<>>, direct |-> FALSE]

Exists(t) == tv[t] # Absent

(* What a client sees of some rows; 0 is "no row". *)
Values(r) == [k \in DOMAIN r |-> Value(r[k])]

Init ==
  /\ cat = [t \in Table |-> 0] /\ tv = cat
  /\ snap = [t \in Table |-> NoRows] /\ rows = snap
  /\ wal = <<>> /\ synced = 0 /\ snapAt = 0
  /\ locked = {} /\ dirty = {} /\ since = 0
  /\ stage = "idle"
  /\ op = NoOp
  /\ acked = <<>> /\ sure = 0 /\ odd = {}
  /\ stmts = 0 /\ drops = 0 /\ crashes = 0

-----------------------------------------------------------------------------
(* Row statements, in memory.  next_row_version is table_version + 1 and    *)
(* the statement moves table_version on.  Every update and delete, and an   *)
(* insert that moves an auto-increment counter, saves the catalog.          *)

Stamp(t, live) == [ver |-> tv[t] + 1, live |-> live, val |-> stmts + 1]

Stamps(t, ks, live) == [k \in ks |-> Stamp(t, live)]

Start(t, new, more, mem, direct, saves) ==
  /\ stage = "idle" /\ stmts < MaxStmts /\ Exists(t)
  /\ stmts' = stmts + 1
  /\ rows' = [rows EXCEPT ![t] = mem]
  /\ tv' = [tv EXCEPT ![t] = @ + 1]
  /\ op' = [t |-> t, new |-> new, more |-> more, direct |-> direct]
  /\ stage' = IF saves THEN "catalog" ELSE "log"
  /\ odd' = odd \cup (IF \E k \in DOMAIN new : rows[t][k].ver > tv[t] THEN {"rewound"} ELSE {})
                \cup (IF t \in locked THEN {"locked"} ELSE {})
                \cup (IF DOMAIN more # {} THEN {"chained"} ELSE {})
  /\ UNCHANGED <<disk, locked, dirty, since, acked, sure, drops, crashes>>

(* A statement that fails at one of its rows returns the error from inside  *)
(* the loop: the rows before it stay changed in memory, and nothing is      *)
(* counted, saved, logged or marked dirty.                                  *)
Bail(t, mem) ==
  /\ stage = "idle" /\ stmts < MaxStmts /\ Exists(t)
  /\ stmts' = stmts + 1
  /\ rows' = [rows EXCEPT ![t] = mem]
  /\ odd' = odd \cup {"refused"}
  /\ UNCHANGED <<disk, tv, locked, dirty, since, stage, op, acked, sure, drops, crashes>>

Write(t, ks, live, direct, saves) ==
  Start(t, Stamps(t, ks, live), <<>>, Over(rows[t], Stamps(t, ks, live)), direct, saves)

(* A row may conflict with another or lack a value. *)
Insert(t, ks) ==
  /\ \A k \in ks : ~rows[t][k].live
  /\ \/ Write(t, ks, TRUE, FALSE, t \in AutoInc)
     \/ Bail(t, Over(rows[t], Stamps(t, ks, TRUE)))

(* Updates and deletes scan the live rows: one after those of ks may fail. *)
RowLeft(t, ks) == \E k \in Key \ ks : rows[t][k].live

Delete(t, ks) ==
  /\ \A k \in ks : rows[t][k].live
  /\ \/ Write(t, ks, FALSE, FALSE, TRUE)
     \/ RowLeft(t, ks) /\ Bail(t, Over(rows[t], Stamps(t, ks, FALSE)))

(* An update gives the row of every key j of DOMAIN f the key f[j].  The    *)
(* rows come in some order, and a row may move to a key that is free when   *)
(* its turn comes: it had no live row, or its row has moved on before.      *)
GivenUp(f) == {j \in DOMAIN f : f[j] # j}

Taken(f) == {f[j] : j \in DOMAIN f}

Movable(t, f) ==
  /\ \A j \in DOMAIN f : rows[t][j].live
  /\ \A i, j \in DOMAIN f : f[i] = f[j] => i = j
  /\ \A j \in GivenUp(f) : rows[t][f[j]].live => f[j] \in GivenUp(f)
  /\ \A S \in SUBSET GivenUp(f) : S = {} \/ \E j \in S : f[j] \notin S

(* Mutant: an old key gets no tombstone. *)
NewKeysOnly(t, f) == [k \in Taken(f) |-> Stamp(t, TRUE)]

(* The first image of a key that is given up is a tombstone; the image of   *)
(* the row that takes the key comes later in the same transaction, with the *)
(* same version.  In memory the row itself moves.                           *)
FirstImages(t, f) == [k \in DOMAIN f \cup Taken(f) |-> Stamp(t, k \notin GivenUp(f))]

SecondImages(t, f) == [k \in GivenUp(f) \cap Taken(f) |-> Stamp(t, TRUE)]

Moved(t, f) ==
  [k \in Key |-> CASE k \in Taken(f) -> Stamp(t, TRUE)
                   [] k \in GivenUp(f) \ Taken(f) -> NoRow
                   [] OTHER -> rows[t][k]]

Update(t, f) ==
  /\ Movable(t, f)
  /\ \/ Start(t, FirstImages(t, f), SecondImages(t, f), Moved(t, f), FALSE, TRUE)
     \/ RowLeft(t, DOMAIN f) /\ Bail(t, Moved(t, f))

(* merge_apply and vector_insert write the snapshot themselves. *)
Merge(t, k) == Write(t, {k}, TRUE, TRUE, TRUE)

-----------------------------------------------------------------------------
(* The statement's writes to disk *)

(* persist_catalog: the whole catalog. *)
PersistCatalog ==
  /\ stage = "catalog"
  /\ cat' = tv
  /\ stage' = IF op.direct THEN "direct" ELSE "log"
  /\ UNCHANGED <<snap, wal, synced, snapAt, memory, op, history, bounds>>

(* wal_log_rows_for_db: append, and force to disk every Batch commits. *)
LogRow ==
  /\ stage = "log"
  /\ wal' = Append(wal, [t |-> op.t, new |-> op.new, more |-> op.more])
  /\ stage' = IF Len(wal) + 1 - synced >= Batch THEN "sync" ELSE "defer"
  /\ UNCHANGED <<cat, snap, synced, snapAt, memory, op, history, bounds>>

Sync ==
  /\ stage = "sync"
  /\ synced' = Len(wal)
  /\ stage' = "defer"
  /\ UNCHANGED <<cat, snap, wal, snapAt, memory, op, history, bounds>>

(* The client gets its answer.  Whatever is forced to disk by then must     *)
(* survive: everything, when the log is.                                    *)
Final(o) == [k \in DOMAIN o.new |-> IF k \in DOMAIN o.more THEN o.more[k] ELSE o.new[k]]

Effect == [t |-> op.t, vals |-> Values(Final(op))]

Acknowledge(forced) ==
  /\ acked' = Append(acked, Effect)
  /\ sure' = IF forced THEN Len(acked) + 1 ELSE sure
  /\ UNCHANGED odd

(* persist_table_deferred.  A locked table is refused, with its row already *)
(* in memory and in the log.                                                *)
Defer ==
  /\ stage = "defer"
  /\ IF op.t \in locked
     THEN stage' = "idle" /\ UNCHANGED <<dirty, since, history>>
     ELSE /\ dirty' = dirty \cup {op.t}
          /\ since' = since + 1
          /\ IF since + 1 >= Threshold
             THEN stage' = "flush" /\ UNCHANGED history
             ELSE stage' = "idle" /\ Acknowledge(synced = Len(wal))
  /\ UNCHANGED <<disk, tv, rows, locked, op, bounds>>

(* persist_table and remove_table_state: the file of t, with the rows r. *)
WriteFile(t, r) == snap' = [snap EXCEPT ![t] = r] /\ snapAt' = Len(wal)

(* persist_table at the end of a direct write. *)
PersistDirect ==
  /\ stage = "direct"
  /\ IF op.t \in locked
     THEN UNCHANGED <<snap, snapAt, history>>
     ELSE WriteFile(op.t, rows[op.t]) /\ Acknowledge(synced = Len(wal))
  /\ stage' = "idle"
  /\ UNCHANGED <<cat, wal, synced, memory, op, bounds>>

(* One table of flush_dirty_tables, of the shutdown checkpoint or of the    *)
(* recovery; a table that is gone has nothing to write.                     *)
FlushTable(t) ==
  /\ stage \in {"flush", "recover", "shutdown"} /\ t \in dirty
  /\ IF Exists(t) THEN WriteFile(t, rows[t]) ELSE UNCHANGED <<snap, snapAt>>
  /\ dirty' = dirty \ {t}
  /\ UNCHANGED <<cat, wal, synced, tv, rows, locked, since, stage, op, history, bounds>>

(* Mutant: the counter of forced transactions outlives the log. *)
TruncateLogOnly == wal' = <<>> /\ snapAt' = 0 /\ UNCHANGED synced

(* wal_truncate: the log of every database is removed. *)
Truncate == wal' = <<>> /\ synced' = 0 /\ snapAt' = 0

FlushEnd ==
  /\ stage = "flush" /\ dirty = {}
  /\ since' = 0
  /\ Truncate
  /\ Acknowledge(TRUE)
  /\ stage' = "idle"
  /\ UNCHANGED <<cat, snap, tv, rows, locked, dirty, op, bounds>>

-----------------------------------------------------------------------------
(* Tables *)

Logged(t) == \E i \in 1..Len(wal) : wal[i].t = t

(* drop_table: the state and the files go first, the catalog is saved last. *)
DropTable(t) ==
  /\ stage = "idle" /\ Exists(t) /\ drops < MaxDrops /\ stmts < MaxStmts
  /\ drops' = drops + 1 /\ stmts' = stmts + 1
  /\ tv' = [tv EXCEPT ![t] = Absent]
  /\ rows' = [rows EXCEPT ![t] = NoRows]
  /\ WriteFile(t, NoRows)
  /\ op' = [t |-> t, new |-> NoRows, more |-> <<>>, direct |-> TRUE]
  /\ stage' = "unlist"
  /\ UNCHANGED <<cat, wal, synced, locked, dirty, since, history, crashes>>

Unlist ==
  /\ stage = "unlist"
  /\ cat' = tv
  /\ Acknowledge(synced = Len(wal))
  /\ stage' = "idle"
  /\ UNCHANGED <<snap, wal, synced, snapAt, memory, op, bounds>>

(* create_table: version 0 and an empty snapshot.  Records of a dropped     *)
(* table of the same name stay in the log.                                  *)
CreateTable(t) ==
  /\ stage = "idle" /\ ~Exists(t)
  /\ tv' = [tv EXCEPT ![t] = 0]
  /\ cat' = tv'
  /\ odd' = odd \cup (IF Logged(t) THEN {"dropped"} ELSE {})
  /\ UNCHANGED <<snap, wal, synced, snapAt, rows, locked, dirty, since, stage, op, acked, sure,
                 bounds>>

(* maintenance_history_gc: tombstones go, the version counter moves on and  *)
(* the snapshot is written.                                                 *)
HistoryGc(t) ==
  /\ stage = "idle" /\ Exists(t) /\ t \notin locked
  /\ \E k \in Key : rows[t][k].ver > 0 /\ ~rows[t][k].live
  /\ rows' = [rows EXCEPT ![t] = [k \in Key |-> IF @[k].live THEN @[k] ELSE NoRow]]
  /\ tv' = [tv EXCEPT ![t] = @ + 1]
  /\ WriteFile(t, rows'[t])
  /\ UNCHANGED <<cat, wal, synced, locked, dirty, since, stage, op, history, bounds>>

(* maintenance_compaction_rewrite_table *)
RewriteTable(t) ==
  /\ stage = "idle" /\ Exists(t) /\ t \notin locked /\ snap[t] # rows[t]
  /\ WriteFile(t, rows[t])
  /\ UNCHANGED <<cat, wal, synced, memory, stage, op, history, bounds>>

(* unlock_encrypted_tables_for_db: the rows are loaded from the snapshot. *)
RegisterKey ==
  /\ stage = "idle" /\ locked # {}
  /\ rows' = [t \in Table |-> IF t \in locked THEN snap[t] ELSE rows[t]]
  /\ locked' = {}
  /\ UNCHANGED <<disk, tv, dirty, since, stage, op, history, bounds>>

-----------------------------------------------------------------------------
(* Crash, shutdown and open *)

(* Power loss keeps any part of the log that was not forced to disk; a      *)
(* crash of the process keeps all of it.  A file written behind a lost      *)
(* transaction is ahead of the log.                                         *)
Crash ==
  /\ stage # "down" /\ crashes < MaxCrashes
  /\ crashes' = crashes + 1
  /\ \E n \in synced..Len(wal) :
       /\ wal' = SubSeq(wal, 1, n) /\ synced' = n /\ snapAt' = 0
       /\ odd' = odd \cup (IF stage = "unlist" THEN {"dropped"} ELSE {})
                     \cup (IF n < snapAt THEN {"ahead"} ELSE {})
  /\ acked' = IF stage \in {"idle", "recover", "shutdown"} THEN acked
              ELSE Append(acked, Effect)
  /\ tv' = cat
  /\ rows' = [t \in Table |-> NoRows]
  /\ locked' = {} /\ dirty' = {} /\ since' = 0
  /\ stage' = "down"
  /\ UNCHANGED <<cat, snap, op, sure, stmts, drops>>

(* checkpoint_for_shutdown: the catalog, then every table but the locked. *)
Shutdown ==
  /\ stage = "idle"
  /\ cat' = tv
  /\ dirty' = {t \in Table : Exists(t) /\ t \notin locked}
  /\ stage' = "shutdown"
  /\ UNCHANGED <<snap, wal, synced, snapAt, tv, rows, locked, since, op, history, bounds>>

ShutdownEnd ==
  /\ stage = "shutdown" /\ dirty = {}
  /\ Truncate
  /\ since' = 0
  /\ rows' = [t \in Table |-> NoRows] /\ locked' = {}
  /\ stage' = "down"
  /\ UNCHANGED <<cat, snap, tv, dirty, op, history, bounds>>

(* Mutant: a record is applied whatever the version of the row. *)
ApplyAlways(state, t, new) ==
  IF t \in state.skip THEN state
  ELSE [state EXCEPT !.rows[t] = Over(@, new), !.index[t] = @ \cup DOMAIN new,
                     !.touched = @ \cup {t}]

(* wal_apply_record.  The key index built by the load holds the live rows;  *)
(* the version check is made only for a key in the index.                   *)
Apply(state, t, new) ==
  LET old == state.rows[t]
      ks  == {k \in DOMAIN new : ~(k \in state.index[t] /\ old[k].ver >= new[k].ver)}
  IN
  IF t \in state.skip \/ ks = {} THEN state
  ELSE [rows    |-> [state.rows EXCEPT ![t] = Over(old, [k \in ks |-> new[k]])],
        index   |-> [state.index EXCEPT ![t] = @ \cup ks],
        touched |-> state.touched \cup {t},
        skip    |-> state.skip]

(* A second image comes after the first one of its key. *)
Redo(state, txn) == Apply(Apply(state, txn.t, txn.new), txn.t, txn.more)

(* load_tables_best_effort, with the tables lk locked. *)
Loaded(lk) ==
  LET files == [t \in Table |-> IF t \in lk THEN NoRows ELSE snap[t]]
  IN  [rows |-> files, touched |-> {},
       index |-> [t \in Table |-> {k \in Key : files[t][k].live}],
       skip |-> lk \cup {t \in Table : cat[t] = Absent}]

(* The replay of wal_recover: after[i] is the state after i transactions. *)
RedoLog(loaded, log) ==
  LET after[i \in 0..Len(log)] == IF i = 0 THEN loaded ELSE Redo(after[i-1], log[i])
  IN  after[Len(log)]

Replayed(lk) == RedoLog(Loaded(lk), wal)

(* Engine::open.  Without the key, a table with encrypted rows is locked.   *)
(* rebuild_indexes_after_history_gc moves the version counter of a touched  *)
(* table on, in memory.                                                     *)
Open(keyless) ==
  LET lk  == IF keyless THEN {t \in Encrypted : snap[t] # NoRows} ELSE {}
      rep == Replayed(lk)
  IN
  /\ stage = "down"
  /\ locked' = lk
  /\ rows' = rep.rows
  /\ tv' = [t \in Table |-> cat[t] + (IF t \in rep.touched THEN 1 ELSE 0)]
  /\ dirty' = rep.touched
  /\ odd' = odd \cup (IF \E t \in lk : Logged(t) THEN {"locked"} ELSE {})
  /\ stage' = "recover"
  /\ UNCHANGED <<disk, since, op, acked, sure, bounds>>

(* What a client finds in a table; for a locked one, what the file holds. *)
Held(t) == Values(IF t \in locked THEN snap[t] ELSE rows[t])

(* The values after the first n effects. *)
After(n) ==
  [t \in Table |-> [k \in Key |->
     LET S == {i \in 1..n : acked[i].t = t /\ k \in DOMAIN acked[i].vals}
     IN  IF S = {} THEN 0 ELSE acked[Max(S)].vals[k]]]

Agreeing == {n \in sure..Len(acked) : \A t \in Table : Held(t) = After(n)[t]}

(* The touched tables are written, the log is removed.  The history is cut  *)
(* to the longest prefix the recovery agrees with, if there is one.         *)
RecoverEnd ==
  /\ stage = "recover" /\ dirty = {}
  /\ Truncate
  /\ IF Agreeing = {} THEN UNCHANGED <<acked, sure>>
     ELSE acked' = SubSeq(acked, 1, Max(Agreeing)) /\ sure' = Max(Agreeing)
  /\ stage' = "idle"
  /\ UNCHANGED <<cat, snap, memory, op, odd, bounds>>

-----------------------------------------------------------------------------
Statement == \E t \in Table :
  \/ \E ks \in (SUBSET Key) \ {{}} :
       Insert(t, ks) \/ Delete(t, ks) \/ \E f \in [ks -> Key] : Update(t, f)
  \/ \E k \in Key : Merge(t, k)

DiskStep == \/ PersistCatalog \/ LogRow \/ Sync \/ Defer \/ PersistDirect
            \/ FlushEnd \/ Unlist \/ ShutdownEnd \/ RecoverEnd
            \/ \E t \in Table : FlushTable(t)

TableStep == \E t \in Table :
  DropTable(t) \/ CreateTable(t) \/ HistoryGc(t) \/ RewriteTable(t)

Next == \/ Statement \/ DiskStep \/ TableStep
        \/ RegisterKey \/ Shutdown \/ Crash
        \/ \E keyless \in BOOLEAN : Open(keyless)

Spec == Init /\ [][Next]_vars

-----------------------------------------------------------------------------
TypeOK ==
  /\ cat \in [Table -> Nat \cup {Absent}] /\ tv \in [Table -> Nat \cup {Absent}]
  /\ snap \in [Table -> [Key -> Row]] /\ rows \in [Table -> [Key -> Row]]
  /\ \A i \in 1..Len(wal) : wal[i].t \in Table /\ IsImages(wal[i].new) /\ IsImages(wal[i].more)
  /\ synced \in 0..Len(wal) /\ snapAt \in 0..Len(wal)
  /\ locked \subseteq Encrypted /\ dirty \subseteq Table /\ since \in 0..Threshold
  /\ stage \in Stage
  /\ op.t \in Table /\ IsImages(op.new) /\ IsImages(op.more) /\ op.direct \in BOOLEAN
  /\ sure \in 0..Len(acked)
  /\ odd \subseteq {"rewound", "dropped", "locked", "ahead", "chained", "refused"}

(* "Recovery is a consistent committed prefix regardless of where an fsync  *)
(* fell": after every open and every statement the tables hold the effects  *)
(* of a prefix of the acknowledged statements, and of all of them that were *)
(* forced to disk.                                                          *)
RecoversPrefix ==
  stage = "idle" => \A t \in Table : Held(t) = After(Len(acked))[t]

(* No acknowledged write is lost and no refused or undone one comes back,   *)
(* unless a version counter went back, a crash met a dropped table's        *)
(* records, a restart without the key met records of a locked table, a loss *)
(* of power took transactions that a file was written behind, one update    *)
(* gave up a key and took it again, or a statement failed after it had      *)
(* changed rows.                                                            *)
AcknowledgedSurvives == odd = {} => RecoversPrefix

(* What the redo log promises: "a mutation lost between its WAL commit and  *)
(* the snapshot" write comes back at the next open, "a consistent committed *)
(* prefix regardless of where an fsync fell", as long as no statement       *)
(* failed after it had changed rows in memory.                              *)
ReplayRestores == "refused" \notin odd => RecoversPrefix

(* The log covers what the snapshots lack: whenever the engine is idle, a   *)
(* replay of the log onto the snapshots gives the rows in memory.           *)
LogCoversMemory ==
  odd = {} /\ stage = "idle" /\ locked = {} =>
    \A t \in Table : Exists(t) => Values(Replayed({}).rows[t]) = Values(rows[t])

=============================================================================
