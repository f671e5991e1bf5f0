----------------------------- MODULE ChangeFeed -----------------------------
(***************************************************************************)
(* Change data capture and the forensic hash chain of the engine: what a   *)
(* statement records of its change (emit_change, append_forensic_record),  *)
(* how both logs are kept on disk (an append-only sidecar, compacted into  *)
(* a snapshot file at every flush) and read back on open, and the          *)
(* subscriptions over the change log (poll, ack, pause, close, sink).      *)
(*                                                                         *)
(* A statement writes one row and runs under the engine's write lock; the  *)
(* cdc.* methods take the read lock and the lock of the subscriptions.     *)
(* Sidecars are written without fsync: a crash of the process keeps what   *)
(* was written.  A loss of power, which may drop any tail, is not          *)
(* modelled.                                                               *)
(***************************************************************************)
EXTENDS Integers, Sequences, FiniteSets, SequencesExt, Subsequence

CONSTANTS Table,        \* tables
          Target,       \* sets of tables a subscription may be about: one table, or
                        \* the dependencies of a query
          Sub,          \* subscriptions, and the consumer of each
          Retention,    \* cdc_retention_events
          Limit,        \* events returned by one poll or drain
          MaxStmts,     \* bound: statements
          MaxCrashes    \* bound: crashes of the server

ASSUME ChangeFeedAssumption == /\ Retention \in Nat \ {0} /\ Limit \in Nat \ {0}
                               /\ MaxStmts \in Nat /\ MaxCrashes \in Nat
                               /\ Target \subseteq SUBSET Table

VARIABLES
  snap,       \* disk: the events of changes.json
  flog,       \* disk: the records of changes.flog
  chainSnap,  \* disk: the records of forensic_chain.json
  chainFlog,  \* disk: the records of forensic.flog
  committed,  \* disk: the statements in the redo log or the table snapshots
  subs,       \* disk and memory: cdc_subscriptions.json
  file,       \* disk: file[s] is the sequence of events in the sink file of s
  changes,    \* memory: the retained change log
  changeSeq,  \* memory: change_seq
  chain,      \* memory: forensic_chain
  stage,      \* where the lock holder is
  draining,   \* the sink drain that has written the file, not yet its cursor
  dirty,      \* memory: whether some table waits for a flush
  cursor,     \* cursor[s]: the offset the consumer polls from
  known,      \* known[s]: the statements whose effect the consumer has
  hist,       \* history: the event of each statement
  lost,       \* history: records behind a torn one were not read back
  crashes

disk == <<snap, flog, chainSnap, chainFlog>>
memory == <<changes, changeSeq, chain>>
consumers == <<cursor, known>>
vars == <<disk, committed, subs, file, memory, stage, draining, dirty, consumers, hist, lost,
          crashes>>

-----------------------------------------------------------------------------
(* An event has its log sequence number, the statement and the table.  A    *)
(* forensic record has its number, the statement, and the one of the record *)
(* its hash is chained to.                                                  *)
Event == [seq : Nat, stmt : Nat, tab : Table]

Record == [id : Nat, stmt : Nat, prev : Nat]

Torn == <<>>

Stage == {"down", "idle", "changed", "chained", "drain", "snapshot", "chain", "cut"}

NoDrain == <<>>

(* A subscription: its target, the offset it starts from, the acknowledged  *)
(* offset, the cursor of its sink and whether it has one.  A closed one is  *)
(* gone, and its id is not used again.                                      *)
NotOpen(state) == [state |-> state, on |-> {}, from |-> 0, acked |-> 0, paused |-> FALSE,
                   sink |-> 0, sinks |-> FALSE]

Open(s) == subs[s].state = "open"

Stmts == Len(hist)

Init ==
  /\ snap = <<>> /\ flog = <<>> /\ chainSnap = <<>> /\ chainFlog = <<>>
  /\ committed = {}
  /\ subs = [s \in Sub |-> NotOpen("new")]
  /\ file = [s \in Sub |-> <<>>]
  /\ changes = <<>> /\ changeSeq = 0 /\ chain = <<>>
  /\ stage = "idle" /\ draining = NoDrain /\ dirty = FALSE
  /\ cursor = [s \in Sub |-> 0] /\ known = [s \in Sub |-> {}]
  /\ hist = <<>> /\ lost = FALSE
  /\ crashes = 0

-----------------------------------------------------------------------------
(* A statement, under the engine's write lock *)

(* Mutant: one event too many is retained. *)
TrimLate(log) == IF Len(log) <= Retention + 1 THEN log
                 ELSE SubSeq(log, Len(log) - Retention, Len(log))

(* trim_retained_change_log *)
Trim(log) == IF Len(log) <= Retention THEN log
             ELSE SubSeq(log, Len(log) - Retention + 1, Len(log))

(* emit_change: the event goes to the change log and to its sidecar. *)
EmitChange(t) ==
  LET e == [seq |-> changeSeq + 1, stmt |-> Stmts + 1, tab |-> t] IN
  /\ stage = "idle" /\ Stmts < MaxStmts
  /\ changeSeq' = changeSeq + 1
  /\ changes' = Trim(Append(changes, e))
  /\ flog' = Append(flog, e)
  /\ hist' = Append(hist, e)
  /\ stage' = "changed"
  /\ UNCHANGED <<snap, chainSnap, chainFlog, committed, subs, file, chain, draining, dirty,
                 consumers, lost, crashes>>

LastId(log) == IF log = <<>> THEN 0 ELSE Last(log).id

(* append_forensic_record: chained to the newest record, and appended to    *)
(* its sidecar.                                                             *)
AppendForensic ==
  LET r == [id   |-> LastId(chain) + 1,
            stmt |-> Stmts,
            prev |-> IF chain = <<>> THEN 0 ELSE Last(chain).stmt] IN
  /\ stage = "changed"
  /\ chain' = Append(chain, r)
  /\ chainFlog' = Append(chainFlog, r)
  /\ stage' = "chained"
  /\ UNCHANGED <<snap, flog, chainSnap, committed, subs, file, changes, changeSeq, draining,
                 dirty, consumers, hist, lost, crashes>>

(* wal_log_rows and persist_table_deferred: the row is durable and the      *)
(* statement is acknowledged.                                               *)
LogRow ==
  /\ stage = "chained"
  /\ committed' = committed \cup {Stmts}
  /\ dirty' = TRUE
  /\ stage' = "idle"
  /\ UNCHANGED <<disk, subs, file, memory, draining, consumers, hist, lost, crashes>>

-----------------------------------------------------------------------------
(* flush_dirty_tables: compact_change_forensic_logs, one file at a time *)

FlushStep(from, to) ==
  /\ stage = from
  /\ stage' = to
  /\ UNCHANGED <<committed, subs, file, memory, draining, consumers, hist, lost, crashes>>

PersistChanges ==
  /\ dirty
  /\ FlushStep("idle", "snapshot")
  /\ snap' = changes
  /\ UNCHANGED <<flog, chainSnap, chainFlog, dirty>>

PersistForensic ==
  /\ FlushStep("snapshot", "chain")
  /\ chainSnap' = chain
  /\ UNCHANGED <<snap, flog, chainFlog, dirty>>

RemoveChangesLog ==
  /\ FlushStep("chain", "cut")
  /\ flog' = <<>>
  /\ UNCHANGED <<snap, chainSnap, chainFlog, dirty>>

RemoveForensicLog ==
  /\ FlushStep("cut", "idle")
  /\ chainFlog' = <<>>
  /\ dirty' = FALSE
  /\ UNCHANGED <<snap, flog, chainSnap>>

-----------------------------------------------------------------------------
(* Crash and open *)

(* What a crash leaves of a sidecar: the record being appended may be       *)
(* missing, torn or complete.                                               *)
Remains(log, appending) ==
  {log} \cup (IF appending THEN {Front(log), Append(Front(log), Torn)} ELSE {})

(* Streams end with the server; a consumer comes back with its cursor, or   *)
(* with none and polls from zero.                                           *)
Crash ==
  /\ stage # "down" /\ crashes < MaxCrashes
  /\ crashes' = crashes + 1
  /\ flog' \in Remains(flog, stage = "changed")
  /\ chainFlog' \in Remains(chainFlog, stage = "chained")
  /\ changes' = <<>> /\ changeSeq' = 0 /\ chain' = <<>>
  /\ stage' = "down" /\ draining' = NoDrain /\ dirty' = FALSE
  /\ cursor' \in {c \in [Sub -> 0..MaxStmts] : \A s \in Sub : c[s] \in {0, cursor[s]}}
  /\ UNCHANGED <<snap, chainSnap, committed, subs, file, known, hist, lost>>

(* read_log_records: stops at a torn record. *)
Readable(log) ==
  LET torn == {i \in 1..Len(log) : log[i] = Torn}
  IN  IF torn = {} THEN log
      ELSE SubSeq(log, 1, (CHOOSE i \in torn : \A j \in torn : i <= j) - 1)

LastSeq(log) == IF log = <<>> THEN 0 ELSE Last(log).seq

(* load_changes_best_effort: the records newer than the snapshot. *)
NewChanges ==
  LET tail == Readable(flog)
  IN  Selected(tail, {i \in 1..Len(tail) : tail[i].seq > LastSeq(snap)})

(* Mutant: the sidecar is replayed without looking at the snapshot. *)
AllRecords == Readable(chainFlog)

(* load_forensic_best_effort: the records newer than the snapshot. *)
NewRecords ==
  LET tail == Readable(chainFlog)
  IN  Selected(tail, {i \in 1..Len(tail) : tail[i].id > LastId(chainSnap)})

Behind(log) == \E i \in 1..Len(log) : log[i] = Torn /\ i < Len(log)

(* Open: rows are recovered from the redo log; the sidecars stay as they    *)
(* are, a torn tail included.                                               *)
Restart ==
  LET events == Trim(snap \o NewChanges) IN
  /\ stage = "down"
  /\ changes' = events
  /\ changeSeq' = LastSeq(events)
  /\ chain' = chainSnap \o NewRecords
  /\ lost' = (lost \/ Behind(flog) \/ Behind(chainFlog))
  /\ stage' = "idle"
  /\ UNCHANGED <<disk, committed, subs, file, draining, dirty, consumers, hist, crashes>>

-----------------------------------------------------------------------------
(* Subscriptions.  Every change is saved before it is made in memory. *)

SubStep(s) ==
  /\ stage = "idle"
  /\ UNCHANGED <<disk, committed, memory, dirty, hist, lost, crashes>>

(* cdc_subscribe_table, cdc_subscribe_query; the consumer then reads the    *)
(* tables once.  A consumer polls, or reads the sink file.                  *)
Subscribe(s, ts, sinks) ==
  /\ SubStep(s)
  /\ subs[s].state = "new"
  /\ subs' = [subs EXCEPT ![s] = [state |-> "open", on |-> ts, from |-> changeSeq,
                                  acked |-> changeSeq, paused |-> FALSE,
                                  sink |-> changeSeq, sinks |-> sinks]]
  /\ cursor' = [cursor EXCEPT ![s] = changeSeq]
  /\ known' = [known EXCEPT ![s] = committed]
  /\ file' = [file EXCEPT ![s] = <<>>]
  /\ UNCHANGED <<stage, draining>>

Larger(m, n) == IF m > n THEN m ELSE n

Polls(s) == Open(s) /\ ~subs[s].sinks

(* The offset a poll resumes from. *)
Resume(s) == Larger(cursor[s], subs[s].acked)

Earliest == IF changes = <<>> THEN 0 ELSE changes[1].seq

(* cdc_collect_events: the first events about the target after an offset.   *)
Collect(s, after) ==
  LET all == Selected(changes, {i \in 1..Len(changes) : /\ changes[i].seq > after
                                                       /\ changes[i].tab \in subs[s].on})
  IN  IF Len(all) > Limit THEN SubSeq(all, 1, Limit) ELSE all

(* Mutant: a consumer one event behind the horizon is not told. *)
HorizonOffByOne(s) == Earliest > 0 /\ Resume(s) + 2 < Earliest

Behindhand(s) == Earliest > 0 /\ Resume(s) + 1 < Earliest

(* cdc_poll of a consumer behind the horizon: it reads the tables again and *)
(* goes on from the offset it is given.                                     *)
PollResnapshot(s) ==
  /\ SubStep(s)
  /\ Polls(s) /\ Behindhand(s)
  /\ cursor' = [cursor EXCEPT ![s] = Earliest - 1]
  /\ known' = [known EXCEPT ![s] = @ \cup committed]
  /\ UNCHANGED <<subs, file, stage, draining>>

(* Mutant: the offset stays where it was. *)
PollAgain(s) ==
  LET events == Collect(s, Resume(s)) IN
  /\ SubStep(s)
  /\ Polls(s) /\ ~Behindhand(s) /\ ~subs[s].paused
  /\ cursor' = [cursor EXCEPT ![s] = Resume(s)]
  /\ known' = [known EXCEPT ![s] = @ \cup {e.stmt : e \in Range(events)}]
  /\ UNCHANGED <<subs, file, stage, draining>>

(* cdc_poll: the next events, and the offset of the last one. *)
Poll(s) ==
  LET events == Collect(s, Resume(s)) IN
  /\ SubStep(s)
  /\ Polls(s) /\ ~Behindhand(s) /\ ~subs[s].paused
  /\ cursor' = [cursor EXCEPT ![s] = IF events = <<>> THEN Resume(s) ELSE Last(events).seq]
  /\ known' = [known EXCEPT ![s] = @ \cup {e.stmt : e \in Range(events)}]
  /\ UNCHANGED <<subs, file, stage, draining>>

(* cdc_ack of what the consumer has polled. *)
Ack(s) ==
  /\ SubStep(s)
  /\ Open(s) /\ cursor[s] > subs[s].acked
  /\ subs' = [subs EXCEPT ![s].acked = cursor[s]]
  /\ UNCHANGED <<file, consumers, stage, draining>>

(* cdc_pause and cdc_resume; a drain does not look at the flag. *)
SetPaused(s, paused) ==
  /\ SubStep(s)
  /\ Polls(s) /\ subs[s].paused # paused
  /\ subs' = [subs EXCEPT ![s].paused = paused]
  /\ UNCHANGED <<file, consumers, stage, draining>>

(* cdc_close; its consumer is gone too. *)
Close(s) ==
  /\ SubStep(s)
  /\ Open(s)
  /\ subs' = [subs EXCEPT ![s] = NotOpen("closed")]
  /\ cursor' = [cursor EXCEPT ![s] = 0]
  /\ known' = [known EXCEPT ![s] = {}]
  /\ file' = [file EXCEPT ![s] = <<>>]
  /\ UNCHANGED <<stage, draining>>

(* cdc_sink_drain, first the file. *)
SinkWrite(s) ==
  LET events == Collect(s, subs[s].sink) IN
  /\ SubStep(s)
  /\ Open(s) /\ subs[s].sinks /\ events # <<>>
  /\ file' = [file EXCEPT ![s] = @ \o events]
  /\ draining' = <<s, Last(events).seq>>
  /\ stage' = "drain"
  /\ UNCHANGED <<subs, consumers>>

(* Mutant: the cursor moves to the end of the change log. *)
SinkSaveEnd ==
  /\ stage = "drain"
  /\ subs' = [subs EXCEPT ![draining[1]].sink = Larger(@, changeSeq)]
  /\ stage' = "idle" /\ draining' = NoDrain
  /\ UNCHANGED <<disk, committed, file, memory, dirty, consumers, hist, lost, crashes>>

(* Then the cursor. *)
SinkSave ==
  /\ stage = "drain"
  /\ subs' = [subs EXCEPT ![draining[1]].sink = Larger(@, draining[2])]
  /\ stage' = "idle" /\ draining' = NoDrain
  /\ UNCHANGED <<disk, committed, file, memory, dirty, consumers, hist, lost, crashes>>

-----------------------------------------------------------------------------
EngineStep ==
  \/ AppendForensic \/ LogRow
  \/ PersistForensic \/ RemoveChangesLog \/ RemoveForensicLog
  \/ SinkSave \/ Restart

PollStep(s) == Poll(s) \/ PollResnapshot(s)

Next ==
  \/ \E t \in Table : EmitChange(t)
  \/ EngineStep \/ PersistChanges \/ Crash
  \/ \E s \in Sub :
       \/ \E ts \in Target, sinks \in BOOLEAN : Subscribe(s, ts, sinks)
       \/ PollStep(s) \/ Ack(s) \/ Close(s) \/ SinkWrite(s)
       \/ \E paused \in BOOLEAN : SetPaused(s, paused)

Spec == Init /\ [][Next]_vars

(* A statement that started ends, the server is started again, and an open  *)
(* stream polls on (cdc_sse_handler wakes at least every                    *)
(* CDC_SSE_FALLBACK_POLL_MS).                                               *)
FairSpec ==
  /\ Spec
  /\ WF_vars(EngineStep)
  /\ \A s \in Sub : SF_vars(PollStep(s))

-----------------------------------------------------------------------------
IsLog(log) == \A i \in 1..Len(log) : log[i] = Torn \/ log[i] \in Event

TypeOK ==
  /\ IsLog(snap) /\ IsLog(flog) /\ IsLog(changes) /\ Len(changes) <= Retention
  /\ changeSeq \in 0..MaxStmts
  /\ committed \subseteq 1..MaxStmts
  /\ subs \in [Sub -> [state : {"new", "open", "closed"}, on : SUBSET Table, from : Nat, acked : Nat,
                       paused : BOOLEAN, sink : Nat, sinks : BOOLEAN]]
  /\ \A i \in 1..Len(chain) : chain[i] \in Record
  /\ stage \in Stage /\ dirty \in BOOLEAN /\ lost \in BOOLEAN
  /\ cursor \in [Sub -> 0..MaxStmts] /\ known \in [Sub -> SUBSET (1..MaxStmts)]

(* The event of a committed statement the subscription is to deliver. *)
Owed(s) == {i \in committed : hist[i].tab \in subs[s].on /\ hist[i].seq > subs[s].from}

(* No silent gap: whatever retention, crashes and restarts did, a consumer  *)
(* has every committed change of its tables at or below the offset it       *)
(* resumes from, or was told to read the tables again.                      *)
NoSilentGap ==
  \A s \in Sub : Polls(s) /\ ~lost =>
    \A i \in Owed(s) : hist[i].seq <= Resume(s) => i \in known[s]

(* The sink file has every retained event of its tables at or below the     *)
(* sink cursor, so a crash repeats events and never drops one.              *)
SinkAtLeastOnce ==
  \A s \in Sub : Open(s) /\ ~lost =>
    \A e \in Range(changes) :
      e.tab \in subs[s].on /\ e.seq > subs[s].from /\ e.seq <= subs[s].sink
        => e \in Range(file[s])

(* The forensic chain is unbroken and complete: every record is chained to  *)
(* the one before it, no record is there twice, and no committed statement  *)
(* is missing.                                                              *)
ChainComplete ==
  stage # "down" =>
    /\ \A i \in 1..Len(chain) :
         /\ chain[i].id = i
         /\ chain[i].prev = (IF i = 1 THEN 0 ELSE chain[i-1].stmt)
    /\ ~lost => committed \subseteq {r.stmt : r \in Range(chain)}

(* Every committed change of an open subscription reaches its consumer, by  *)
(* an event or by a new read of the tables.                                 *)
Delivered ==
  \A s \in Sub, i \in 1..MaxStmts :
    (Polls(s) /\ i \in Owed(s))
      ~> (i \in known[s] \/ ~Polls(s) \/ subs[s].paused \/ lost)

=============================================================================
