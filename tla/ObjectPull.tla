----------------------------- MODULE ObjectPull -----------------------------
(***************************************************************************)
(* objects.pull: a node fetches values it lacks from another one, in       *)
(* batches, with the bases of their patches, verifies them and imports     *)
(* them into its value store, while both nodes go on writing and may       *)
(* restart.  Every action of a pull is one section of objects_pull between *)
(* two releases of the engine's lock; the local variables of the call are  *)
(* the fields of pull[p].                                                  *)
(***************************************************************************)
EXTENDS ValueStore

CONSTANTS Node,        \* the nodes
          Pull,        \* calls of objects.pull
          BatchSize,   \* ids asked for in one fetch
          MaxWrites,   \* bound: changes of rows and of the form of stored values
          MaxFaults    \* bound: restarts, failed calls, changes of the members

ASSUME PullAssumption == /\ BatchSize \in Nat \ {0} /\ MaxWrites \in Nat
                         /\ MaxFaults \in Nat

VARIABLES rows,      \* rows[n]: the values in the live rows of n, on disk
          store,     \* store[n]: the value store of n, in memory
          pull,      \* pull[p]: the call p
          writes, faults

nodeVars == <<rows, store>>
boundVars == <<writes, faults>>
pullVars == <<nodeVars, pull, boundVars>>

(* before the call, fetching a batch, looking for missing bases, verifying, *)
(* importing, and after it                                                  *)
PullPhase == {"new", "fetch", "bases", "verify", "import", "done", "error"}

PullState == [phase   : PullPhase,
              at      : Node,          \* the node that pulls
              from    : Node,          \* the node it pulls from
              ids     : SUBSET Value,  \* ids asked for
              pending : SUBSET Value,  \* ids to be fetched
              staged  : Store,         \* entries fetched and not imported
              ready   : SUBSET Value,  \* staged entries verified for the next import
              stored  : Nat,           \* entries imported
              missing : SUBSET Value,  \* remote_missing
              failed  : SUBSET Value]  \* verification_failed

NoEntries == Rebuilt({})

NewPull(n) == [phase |-> "new", at |-> n, from |-> n, ids |-> {}, pending |-> {},
               staged |-> NoEntries, ready |-> {}, stored |-> 0, missing |-> {}, failed |-> {}]

Running(p) == pull[p].phase \in {"fetch", "bases", "verify", "import"}

-----------------------------------------------------------------------------
(* What happens on the nodes meanwhile *)

(* A row with the value v is written on n; its value is interned. *)
WriteRow(n, v) ==
  /\ writes < MaxWrites /\ v \notin rows[n]
  /\ writes' = writes + 1
  /\ rows' = [rows EXCEPT ![n] = @ \cup {v}]
  /\ store' = [store EXCEPT ![n] = Put(@, v)]
  /\ UNCHANGED <<pull, faults>>

(* The last row with v is deleted or changed; the store keeps its values. *)
DeleteRow(n, v) ==
  /\ writes < MaxWrites /\ v \in rows[n]
  /\ writes' = writes + 1
  /\ rows' = [rows EXCEPT ![n] = @ \ {v}]
  /\ UNCHANGED <<store, pull, faults>>

(* put_with_delta, the library's way to store a value as a patch, and       *)
(* compact_deltas, which undoes it; the engine's statements use neither.    *)
StoreDelta(n, v, base) ==
  /\ writes < MaxWrites /\ v \notin DOMAIN store[n] /\ base \in DOMAIN store[n]
  /\ writes' = writes + 1
  /\ \E form \in PutForms(store[n], v, base) :
       store' = [store EXCEPT ![n] = PutWithDelta(@, v, form)]
  /\ UNCHANGED <<rows, pull, faults>>

CompactDeltas(n, ids) ==
  /\ writes < MaxWrites
  /\ ids # {} /\ ids \subseteq {v \in Resolvable(store[n]) : store[n][v] # None}
  /\ writes' = writes + 1
  /\ store' = [store EXCEPT ![n] = Rewritten(@, ids)]
  /\ UNCHANGED <<rows, pull, faults>>

Fault == faults < MaxFaults /\ faults' = faults + 1

(* The node restarts; the calls it runs end with it. *)
Restart(n) ==
  /\ Fault
  /\ store' = [store EXCEPT ![n] = Rebuilt(rows[n])]
  /\ pull' = [p \in Pull |-> IF Running(p) /\ pull[p].at = n
                             THEN [NewPull(n) EXCEPT !.phase = "error"] ELSE pull[p]]
  /\ UNCHANGED <<rows, writes>>

-----------------------------------------------------------------------------
(* The pull *)

(* The loop goes on while ids are pending; what is still staged at its end  *)
(* is reported as failed.                                                   *)
Looped(c) ==
  IF c.pending # {} THEN [c EXCEPT !.phase = "fetch", !.ready = {}]
  ELSE [c EXCEPT !.phase = "done", !.ready = {}, !.failed = @ \cup DOMAIN c.staged,
                 !.staged = NoEntries]

SetPull(p, c) == pull' = [pull EXCEPT ![p] = c]

(* The ids that are held are skipped. *)
PullStart(p, n, source, ids) ==
  /\ pull[p].phase = "new"
  /\ SetPull(p, Looped([NewPull(n) EXCEPT !.from = source, !.ids = ids,
                                           !.pending = ids \ DOMAIN store[n]]))
  /\ UNCHANGED <<nodeVars, boundVars>>

(* Mutant: an id the source does not have is asked for again. *)
FetchedRetrying(c, batch, found) ==
  [c EXCEPT !.phase = "bases", !.pending = @ \ DOMAIN found,
            !.staged = Merge(found, @), !.missing = @ \cup (batch \ DOMAIN found)]

(* Mutant: an id the source does not have is forgotten. *)
FetchedSilently(c, batch, found) ==
  [c EXCEPT !.phase = "bases", !.pending = @ \ batch, !.staged = Merge(found, @)]

(* The answer to a batch: found entries are staged, the others noted. *)
Fetched(c, batch, found) ==
  [c EXCEPT !.phase = "bases", !.pending = @ \ batch,
            !.staged = Merge(found, @), !.missing = @ \cup (batch \ DOMAIN found)]

(* objects_fetch_binary on the source, and its answer. *)
PullFetch(p, batch) ==
  LET c == pull[p]
      s == store[c.from]
  IN
  /\ c.phase = "fetch"
  /\ batch \subseteq c.pending
  /\ \/ Cardinality(batch) = BatchSize
     \/ batch = c.pending /\ Cardinality(batch) < BatchSize
  /\ SetPull(p, Fetched(c, batch, Without(s, DOMAIN s \ batch)))
  /\ UNCHANGED <<nodeVars, boundVars>>

(* Bases that are neither staged nor held are queued. *)
PullBases(p) ==
  LET c == pull[p] IN
  /\ c.phase = "bases"
  /\ SetPull(p, [c EXCEPT !.phase = "verify",
                          !.pending = @ \cup MissingBases(c.staged, store[c.at])])
  /\ UNCHANGED <<nodeVars, boundVars>>

(* Invalid entries leave the staging area; an entry whose base is missing   *)
(* stays in it.                                                             *)
PullVerify(p) ==
  LET c     == pull[p]
      ready == Verified(c.staged, store[c.at])
      bad   == Invalid(c.staged, store[c.at])
      next  == [c EXCEPT !.phase = "import", !.ready = ready,
                         !.staged = Without(@, bad), !.failed = @ \cup bad]
  IN
  /\ c.phase = "verify"
  /\ SetPull(p, IF ready = {} THEN Looped(next) ELSE next)
  /\ UNCHANGED <<nodeVars, boundVars>>

(* import_transfer_entries, under the engine's write lock. *)
PullImport(p) ==
  LET c       == pull[p]
      s       == store[c.at]
      entries == Without(c.staged, DOMAIN c.staged \ c.ready)
  IN
  /\ c.phase = "import"
  /\ store' = [store EXCEPT ![c.at] = Merge(s, entries)]
  /\ SetPull(p, IF ImportFails(s, entries) THEN [NewPull(c.at) EXCEPT !.phase = "error"]
                ELSE Looped([c EXCEPT !.staged = Without(@, c.ready),
                                      !.stored = @ + Cardinality(c.ready \ DOMAIN s)]))
  /\ UNCHANGED <<rows, boundVars>>

(* The fetch fails or times out: the call returns the error. *)
FetchFails(p) ==
  /\ Fault /\ pull[p].phase = "fetch"
  /\ SetPull(p, [NewPull(pull[p].at) EXCEPT !.phase = "error"])
  /\ UNCHANGED <<nodeVars, writes>>

PullStep(p) ==
  \/ \E batch \in SUBSET pull[p].pending : PullFetch(p, batch)
  \/ PullBases(p) \/ PullVerify(p) \/ PullImport(p)

NodeStep(n) ==
  \/ \E v \in Value : WriteRow(n, v) \/ DeleteRow(n, v) \/ \E base \in Value : StoreDelta(n, v, base)
  \/ \E ids \in SUBSET Value : CompactDeltas(n, ids)

-----------------------------------------------------------------------------
(* The types of the pulls' state; the store of a node has the values of its *)
(* rows (data_insert interns them, a restart rebuilds it from them).        *)
PullTypeOK ==
  /\ rows \in [Node -> SUBSET Value]
  /\ store \in [Node -> Store]
  /\ \A n \in Node : rows[n] \subseteq DOMAIN store[n]
  /\ pull \in [Pull -> PullState]
  /\ writes \in 0..MaxWrites /\ faults \in 0..MaxFaults

(* "persist only validated entries": whatever a pull imports, and however   *)
(* batches, writes, restarts and a second pull interleave, every value a    *)
(* node holds can be materialised; no patch is left without its base and no *)
(* chain closes on itself.                                                  *)
StoresResolve == \A n \in Node : Resolvable(store[n]) = DOMAIN store[n]

(* When a pull returns, every id it was asked for is held by the node or    *)
(* named in remote_missing or verification_failed.                          *)
PullAccounts ==
  [][\A p \in Pull : pull'[p].phase = "done" /\ pull[p].phase # "done" =>
       pull'[p].ids \subseteq DOMAIN store'[pull'[p].at]
                               \cup pull'[p].missing \cup pull'[p].failed]_pullVars

(* A patch waits for a base that the source has lost (it restarted, and the *)
(* base was in no row): objects_pull asks for it again after every batch.   *)
Orphaned(p) == MissingBases(pull[p].staged, store[pull[p].at])
                 \ DOMAIN store[pull[p].from] # {}

(* A pull ends, or goes round for ever asking for a base the source has     *)
(* lost.                                                                    *)
PullEnds == \A p \in Pull : <>[](Running(p) => Orphaned(p))
=============================================================================
