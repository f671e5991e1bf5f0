----------------------------- MODULE Coalescing -----------------------------
(***************************************************************************)
(* Coalescing of identical reads: QueryCoalescer and its two users, the    *)
(* GET of a prepared query (prepared_get_handler) and the query.patch      *)
(* method.  The first request of a key leads: it takes the engine's read   *)
(* lock, runs the query, publishes the result and wakes the joiners, who   *)
(* wait on the entry of the in-flight map they found.                      *)
(*                                                                         *)
(* All requests of one kind have one key.  A result is the number of       *)
(* writes the engine had applied when the query ran; a write is applied    *)
(* under the engine's write lock and acknowledged when it is released.     *)
(***************************************************************************)
EXTENDS Integers, FiniteSets

CONSTANTS Request,    \* read requests, one handler each
          Patch,      \* those that come through query.patch; the others are GETs
          NoRequest,  \* not a request
          MaxWrites,  \* bound: writes applied by the engine
          MaxGone     \* bound: handlers dropped because their client went away

ASSUME CoalescingAssumption == /\ Patch \subseteq Request /\ NoRequest \notin Request
                               /\ MaxWrites \in Nat /\ MaxGone \in Nat

VARIABLES
  pc,        \* pc[r]: where the handler of r is
  inflight,  \* inflight[k]: the entry of key k, named by the request that created it
  entry,     \* entry[r]: the entry r leads or joined
  result,    \* result[e]: the published result of entry e
  answer,    \* answer[r]: the result in the hands of r
  since,     \* since[r]: the writes acknowledged when r arrived
  version,   \* writes applied and acknowledged
  gone       \* handlers dropped

vars == <<pc, inflight, entry, result, answer, since, version, gone>>

-----------------------------------------------------------------------------
Kind == {"get", "patch"}

KeyOf(r) == IF r \in Patch THEN "patch" ELSE "get"

NoResult == -1

Result == {NoResult} \cup 0..MaxWrites

(* The leader waits for the engine, ran the query, stored the result, woke  *)
(* the waiters; the joiner is about to look at the result, found none, or   *)
(* waits for the wake-up.                                                   *)
Leading == {"lead", "ran", "stored", "notified"}

Joining == {"check", "checked", "wait"}

Place == {"new", "done", "gone"} \cup Leading \cup Joining

Init ==
  /\ pc = [r \in Request |-> "new"]
  /\ inflight = [k \in Kind |-> NoRequest]
  /\ entry = [r \in Request |-> NoRequest]
  /\ result = [r \in Request |-> NoResult]
  /\ answer = [r \in Request |-> NoResult]
  /\ since = [r \in Request |-> 0]
  /\ version = 0 /\ gone = 0

Goto(r, place) == pc' = [pc EXCEPT ![r] = place]

(* QueryCoalescer::get_or_create *)
Arrive(r) ==
  LET k == KeyOf(r) IN
  /\ pc[r] = "new"
  /\ since' = [since EXCEPT ![r] = version]
  /\ IF inflight[k] = NoRequest
     THEN /\ inflight' = [inflight EXCEPT ![k] = r]
          /\ entry' = [entry EXCEPT ![r] = r]
          /\ Goto(r, "lead")
     ELSE /\ entry' = [entry EXCEPT ![r] = inflight[k]]
          /\ Goto(r, "check")
          /\ UNCHANGED inflight
  /\ UNCHANGED <<result, answer, version, gone>>

-----------------------------------------------------------------------------
(* The leader *)

(* The read lock is granted and the query runs under it. *)
RunQuery(r) ==
  /\ pc[r] = "lead"
  /\ answer' = [answer EXCEPT ![r] = version]
  /\ Goto(r, "ran")
  /\ UNCHANGED <<inflight, entry, result, since, version, gone>>

(* Mutant: no handler holds the read lock once its query ran. *)
NobodyReads == {}

(* The handlers that still hold the engine's read lock: a GET keeps it      *)
(* until its entry is out of the map, a patch only while its query runs.    *)
Reading == {r \in Request \ Patch : pc[r] \in {"ran", "stored", "notified"}}

StoreResult(r) ==
  /\ pc[r] = "ran"
  /\ result' = [result EXCEPT ![r] = answer[r]]
  /\ Goto(r, "stored")
  /\ UNCHANGED <<inflight, entry, answer, since, version, gone>>

(* Mutant: the waiters are not woken. *)
NotifyNobody(r) ==
  /\ pc[r] = "stored"
  /\ Goto(r, "notified")
  /\ UNCHANGED <<inflight, entry, result, answer, since, version, gone>>

(* notify_waiters: wakes the joiners registered now and leaves no permit    *)
(* for the ones to come.                                                    *)
NotifyWaiters(r) ==
  /\ pc[r] = "stored"
  /\ pc' = [j \in Request |-> IF j = r THEN "notified"
                              ELSE IF entry[j] = r /\ pc[j] = "wait" THEN "check"
                              ELSE pc[j]]
  /\ UNCHANGED <<inflight, entry, result, answer, since, version, gone>>

(* Mutant: the entry stays in the map. *)
FinishForgotten(r) ==
  /\ pc[r] = "notified"
  /\ Goto(r, "done")
  /\ UNCHANGED <<inflight, entry, result, answer, since, version, gone>>

(* QueryCoalescer::finish, and the leader answers. *)
Finish(r) ==
  /\ pc[r] = "notified"
  /\ inflight' = [inflight EXCEPT ![KeyOf(r)] = NoRequest]
  /\ Goto(r, "done")
  /\ UNCHANGED <<entry, result, answer, since, version, gone>>

-----------------------------------------------------------------------------
(* The joiner *)

(* The result is looked at under its mutex, which is then released. *)
Check(r) ==
  /\ pc[r] = "check"
  /\ IF result[entry[r]] = NoResult
     THEN Goto(r, "checked") /\ UNCHANGED answer
     ELSE /\ answer' = [answer EXCEPT ![r] = result[entry[r]]]
          /\ Goto(r, "done")
  /\ UNCHANGED <<inflight, entry, result, since, version, gone>>

(* notified() is created: from now on a notify_waiters reaches it. *)
Register(r) ==
  /\ pc[r] = "checked"
  /\ Goto(r, "wait")
  /\ UNCHANGED <<inflight, entry, result, answer, since, version, gone>>

-----------------------------------------------------------------------------
(* A write is applied under the write lock and acknowledged. *)
ApplyWrite ==
  /\ version < MaxWrites /\ Reading = {}
  /\ version' = version + 1
  /\ UNCHANGED <<pc, inflight, entry, result, answer, since, gone>>

(* The client goes away while its handler is at an await: the handler is    *)
(* dropped there, and the entry of a leader stays in the map.               *)
GoAway(r) ==
  /\ gone < MaxGone /\ pc[r] \in {"lead", "wait"}
  /\ gone' = gone + 1
  /\ Goto(r, "gone")
  /\ UNCHANGED <<inflight, entry, result, answer, since, version>>

LeaderStep(r) == RunQuery(r) \/ StoreResult(r) \/ NotifyWaiters(r) \/ Finish(r)

JoinerStep(r) == Check(r) \/ Register(r)

Next ==
  \/ \E r \in Request : Arrive(r) \/ LeaderStep(r) \/ JoinerStep(r) \/ GoAway(r)
  \/ ApplyWrite

Spec == Init /\ [][Next]_vars

(* A handler that can run does: the engine's lock is granted in the order   *)
(* asked for, and the runtime polls every task that was woken.              *)
FairSpec == Spec /\ \A r \in Request : WF_vars(LeaderStep(r)) /\ WF_vars(JoinerStep(r))

-----------------------------------------------------------------------------
TypeOK ==
  /\ pc \in [Request -> Place]
  /\ inflight \in [Kind -> Request \cup {NoRequest}]
  /\ entry \in [Request -> Request \cup {NoRequest}]
  /\ result \in [Request -> Result] /\ answer \in [Request -> Result]
  /\ since \in [Request -> 0..MaxWrites] /\ version \in 0..MaxWrites
  /\ gone \in 0..MaxGone
  /\ \A k \in Kind : inflight[k] # NoRequest => pc[inflight[k]] \in Leading \cup {"gone"}

(* A coalesced GET is never stale: its answer reflects every write that     *)
(* was acknowledged before it arrived, also when it only joined a query     *)
(* that was already running (the leader's read guard outlives the map       *)
(* entry).  A coalesced patch is as fresh as its leader's arrival, no more. *)
NeverStale ==
  \A r \in Request : pc[r] = "done" =>
    answer[r] >= since[IF r \in Patch THEN entry[r] ELSE r]

(* A joiner that waits when its leader publishes is answered. *)
RegisteredAnswered ==
  \A r \in Request :
    (pc[r] = "wait" /\ pc[entry[r]] \in {"ran", "stored"}) ~> pc[r] \in {"done", "gone"}

=============================================================================
