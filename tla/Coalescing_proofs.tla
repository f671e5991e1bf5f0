-------------------------- MODULE Coalescing_proofs --------------------------
(***************************************************************************)
(* Proofs about Coalescing, for every set of requests, every share of      *)
(* query.patch requests among them, and every bound on writes and on       *)
(* dropped handlers.                                                       *)
(***************************************************************************)
EXTENDS Coalescing, TLAPS

-----------------------------------------------------------------------------
(* The inductive invariant                                                  *)

(* The in-flight map and the handlers agree: a leader is the one entry of   *)
(* its key, and what a handler joined was created by a leader of its key.   *)
EntriesAgree ==
  /\ \A k \in Kind : inflight[k] # NoRequest =>
       KeyOf(inflight[k]) = k /\ entry[inflight[k]] = inflight[k]
  /\ \A r \in Request : pc[r] \in Leading => inflight[KeyOf(r)] = r /\ entry[r] = r
  /\ \A r \in Request : pc[r] \in Joining \cup {"done"} =>
       /\ entry[r] \in Request
       /\ KeyOf(entry[r]) = KeyOf(r)
       /\ pc[entry[r]] \in Leading \cup {"done", "gone"}

(* A result is published by a handler that ran its query, and is its        *)
(* answer; what a request saw at its arrival is no newer than now.          *)
ResultsPublished ==
  /\ \A r \in Request : result[r] # NoResult =>
       pc[r] \in {"stored", "notified", "done"} /\ result[r] = answer[r]
  /\ \A r \in Request : since[r] <= version

(* The answer of a leader is as new as its arrival; that of a GET is the    *)
(* engine's current version, for it still holds the read lock.              *)
LeadersFresh ==
  \A r \in Request : pc[r] \in {"ran", "stored", "notified"} =>
    answer[r] >= since[r] /\ (r \notin Patch => answer[r] = version)

(* The arrival that the answer of r has to reflect. *)
Due(r) == since[IF r \in Patch THEN entry[r] ELSE r]

(* What a joiner will find published is new enough for it. *)
JoinersFresh ==
  \A r \in Request : pc[r] \in Joining /\ result[entry[r]] # NoResult =>
    result[entry[r]] >= Due(r)

IndInv == /\ TypeOK /\ EntriesAgree /\ ResultsPublished
          /\ LeadersFresh /\ JoinersFresh /\ NeverStale

-----------------------------------------------------------------------------
(* Nobody has arrived yet. *)
LEMMA IndInit == Init => IndInv
<1> SUFFICES ASSUME Init PROVE IndInv
  OBVIOUS
<1> USE CoalescingAssumption DEF Init, Leading, Joining
<1>1. TypeOK BY DEF TypeOK, Place, Result, NoResult
<1>2. EntriesAgree BY DEF EntriesAgree
<1>3. ResultsPublished /\ LeadersFresh /\ JoinersFresh /\ NeverStale
  BY DEF ResultsPublished, LeadersFresh, JoinersFresh, NeverStale
<1> QED BY <1>1, <1>2, <1>3 DEF IndInv

(* The key of a request is a key of the in-flight map. *)
LEMMA KeyType == \A r \in Request : KeyOf(r) \in Kind
BY DEF KeyOf, Kind

(* A request that arrives leads, or joins a leader whose published result,  *)
(* if there is one, is the current version.                                 *)
LEMMA ArriveKeeps ==
  ASSUME IndInv, NEW r \in Request, Arrive(r)
  PROVE  IndInv'
<1>1. TypeOK'
  BY KeyType DEF IndInv, Arrive, Goto, TypeOK, Place, Leading, Joining
<1>2. EntriesAgree'
  BY CoalescingAssumption, KeyType DEF IndInv, Arrive, Goto, EntriesAgree, TypeOK, Leading
<1>3. ResultsPublished'
  BY DEF IndInv, Arrive, Goto, ResultsPublished, TypeOK
<1>4. LeadersFresh'
  BY DEF IndInv, Arrive, Goto, LeadersFresh, TypeOK
<1>5. JoinersFresh'
  BY KeyType DEF IndInv, Arrive, Goto, JoinersFresh, Due, EntriesAgree, ResultsPublished,
    LeadersFresh, TypeOK, KeyOf, Leading
<1>6. NeverStale'
  BY DEF IndInv, Arrive, Goto, NeverStale, EntriesAgree, TypeOK, Leading
<1> QED BY <1>1, <1>2, <1>3, <1>4, <1>5, <1>6 DEF IndInv

(* The leader that runs its query now reads the current version. *)
LEMMA RunQueryKeeps ==
  ASSUME IndInv, NEW r \in Request, RunQuery(r)
  PROVE  IndInv'
<1>1. TypeOK'
  BY DEF IndInv, RunQuery, Goto, TypeOK, Place, Result, Leading
<1>2. EntriesAgree'
  BY DEF IndInv, RunQuery, Goto, EntriesAgree, Leading
<1>3. ResultsPublished'
  BY DEF IndInv, RunQuery, Goto, ResultsPublished
<1>4. LeadersFresh'
  BY DEF IndInv, RunQuery, Goto, LeadersFresh, TypeOK, ResultsPublished
<1>5. JoinersFresh'
  BY DEF IndInv, RunQuery, Goto, JoinersFresh, Due, EntriesAgree, ResultsPublished,
    Leading
<1>6. NeverStale'
  BY DEF IndInv, RunQuery, Goto, NeverStale
<1> QED BY <1>1, <1>2, <1>3, <1>4, <1>5, <1>6 DEF IndInv

(* What a leader publishes is new enough for everybody who joined it. *)
LEMMA StoreResultKeeps ==
  ASSUME IndInv, NEW r \in Request, StoreResult(r)
  PROVE  IndInv'
<1>1. TypeOK'
  BY DEF IndInv, StoreResult, Goto, TypeOK, Place, Leading
<1>2. EntriesAgree'
  BY DEF IndInv, StoreResult, Goto, EntriesAgree, Leading
<1>3. ResultsPublished'
  BY DEF IndInv, StoreResult, Goto, ResultsPublished, TypeOK, Result, NoResult, Leading,
    Joining
<1>4. LeadersFresh'
  BY DEF IndInv, StoreResult, Goto, LeadersFresh, ResultsPublished
<1>5. JoinersFresh'
  BY DEF IndInv, StoreResult, Goto, JoinersFresh, Due, EntriesAgree, ResultsPublished,
    LeadersFresh, KeyOf, Leading
<1>6. NeverStale'
  BY DEF IndInv, StoreResult, Goto, NeverStale, JoinersFresh
<1> QED BY <1>1, <1>2, <1>3, <1>4, <1>5, <1>6 DEF IndInv

(* A wake-up only sends the joiners back to the published result. *)
LEMMA NotifyWaitersKeeps ==
  ASSUME IndInv, NEW r \in Request, NotifyWaiters(r)
  PROVE  IndInv'
<1>1. TypeOK'
  BY DEF IndInv, NotifyWaiters, TypeOK, Place, Leading, Joining
<1>2. EntriesAgree'
  BY DEF IndInv, NotifyWaiters, EntriesAgree, Leading, Joining
<1>3. ResultsPublished'
  BY DEF IndInv, NotifyWaiters, ResultsPublished
<1>4. LeadersFresh'
  BY DEF IndInv, NotifyWaiters, LeadersFresh
<1>5. JoinersFresh'
  BY DEF IndInv, NotifyWaiters, JoinersFresh, Due, Joining
<1>6. NeverStale'
  BY DEF IndInv, NotifyWaiters, NeverStale
<1> QED BY <1>1, <1>2, <1>3, <1>4, <1>5, <1>6 DEF IndInv

(* The leader that leaves the map gives up the key to the next one. *)
LEMMA FinishKeeps ==
  ASSUME IndInv, NEW r \in Request, Finish(r)
  PROVE  IndInv'
<1>1. TypeOK'
  BY DEF IndInv, Finish, Goto, TypeOK, Place, EntriesAgree
<1>2. EntriesAgree'
  BY DEF IndInv, Finish, Goto, EntriesAgree, TypeOK, Leading
<1>3. ResultsPublished'
  BY DEF IndInv, Finish, Goto, ResultsPublished
<1>4. LeadersFresh'
  BY DEF IndInv, Finish, Goto, LeadersFresh
<1>5. JoinersFresh'
  BY DEF IndInv, Finish, Goto, JoinersFresh, Due, EntriesAgree, ResultsPublished,
    LeadersFresh, Leading
<1>6. NeverStale'
  BY DEF IndInv, Finish, Goto, NeverStale, EntriesAgree, LeadersFresh, Leading
<1> QED BY <1>1, <1>2, <1>3, <1>4, <1>5, <1>6 DEF IndInv

(* A joiner that takes the published result has a fresh answer. *)
LEMMA CheckKeeps ==
  ASSUME IndInv, NEW r \in Request, Check(r)
  PROVE  IndInv'
<1>1. TypeOK'
  BY DEF IndInv, Check, Goto, TypeOK, Place, EntriesAgree, Leading, Joining
<1>2. EntriesAgree'
  BY DEF IndInv, Check, Goto, EntriesAgree, TypeOK, Leading, Joining
<1>3. ResultsPublished'
  BY DEF IndInv, Check, Goto, ResultsPublished, TypeOK
<1>4. LeadersFresh'
  BY DEF IndInv, Check, Goto, LeadersFresh, TypeOK
<1>5. JoinersFresh'
  BY DEF IndInv, Check, Goto, JoinersFresh, Due, TypeOK, Joining
<1>6. NeverStale'
  BY DEF IndInv, Check, Goto, NeverStale, JoinersFresh, Due, TypeOK, Joining
<1> QED BY <1>1, <1>2, <1>3, <1>4, <1>5, <1>6 DEF IndInv

(* Waiting changes nothing of what was published. *)
LEMMA RegisterKeeps ==
  ASSUME IndInv, NEW r \in Request, Register(r)
  PROVE  IndInv'
<1>1. TypeOK'
  BY DEF IndInv, Register, Goto, TypeOK, Place, Leading, Joining
<1>2. EntriesAgree'
  BY DEF IndInv, Register, Goto, EntriesAgree, Leading, Joining
<1>3. ResultsPublished'
  BY DEF IndInv, Register, Goto, ResultsPublished
<1>4. LeadersFresh'
  BY DEF IndInv, Register, Goto, LeadersFresh
<1>5. JoinersFresh'
  BY DEF IndInv, Register, Goto, JoinersFresh, Due, Joining
<1>6. NeverStale'
  BY DEF IndInv, Register, Goto, NeverStale
<1> QED BY <1>1, <1>2, <1>3, <1>4, <1>5, <1>6 DEF IndInv

(* A dropped handler leaves its entry in the map, without a result. *)
LEMMA GoAwayKeeps ==
  ASSUME IndInv, NEW r \in Request, GoAway(r)
  PROVE  IndInv'
<1>1. TypeOK'
  BY CoalescingAssumption DEF IndInv, GoAway, Goto, TypeOK, Place
<1>2. EntriesAgree'
  BY DEF IndInv, GoAway, Goto, EntriesAgree, Leading, Joining
<1>3. ResultsPublished'
  BY DEF IndInv, GoAway, Goto, ResultsPublished
<1>4. LeadersFresh'
  BY DEF IndInv, GoAway, Goto, LeadersFresh
<1>5. JoinersFresh'
  BY DEF IndInv, GoAway, Goto, JoinersFresh, Due, Joining
<1>6. NeverStale'
  BY DEF IndInv, GoAway, Goto, NeverStale
<1> QED BY <1>1, <1>2, <1>3, <1>4, <1>5, <1>6 DEF IndInv

(* No GET holds the read lock when a write is applied, so no answer of a    *)
(* GET leader is outdated by it.                                            *)
LEMMA ApplyWriteKeeps ==
  ASSUME IndInv, ApplyWrite
  PROVE  IndInv'
<1>1. TypeOK'
  BY CoalescingAssumption DEF IndInv, ApplyWrite, TypeOK
<1>2. EntriesAgree'
  BY DEF IndInv, ApplyWrite, EntriesAgree
<1>3. ResultsPublished'
  BY DEF IndInv, ApplyWrite, ResultsPublished, TypeOK
<1>4. LeadersFresh'
  BY DEF IndInv, ApplyWrite, Reading, LeadersFresh
<1>5. JoinersFresh'
  BY DEF IndInv, ApplyWrite, JoinersFresh, Due
<1>6. NeverStale'
  BY DEF IndInv, ApplyWrite, NeverStale
<1> QED BY <1>1, <1>2, <1>3, <1>4, <1>5, <1>6 DEF IndInv

(* Every step of a handler and every write keep the invariant. *)
LEMMA IndStep == IndInv /\ [Next]_vars => IndInv'
<1> SUFFICES ASSUME IndInv, [Next]_vars PROVE IndInv'
  OBVIOUS
<1>1. ASSUME NEW r \in Request, Arrive(r) PROVE IndInv' BY <1>1, ArriveKeeps
<1>2. ASSUME NEW r \in Request, LeaderStep(r) PROVE IndInv'
  BY <1>2, RunQueryKeeps, StoreResultKeeps, NotifyWaitersKeeps, FinishKeeps DEF LeaderStep
<1>3. ASSUME NEW r \in Request, JoinerStep(r) PROVE IndInv'
  BY <1>3, CheckKeeps, RegisterKeeps DEF JoinerStep
<1>4. ASSUME NEW r \in Request, GoAway(r) PROVE IndInv' BY <1>4, GoAwayKeeps
<1>5. CASE ApplyWrite BY <1>5, ApplyWriteKeeps
<1>6. CASE UNCHANGED vars
  BY <1>6 DEF vars, IndInv, TypeOK, EntriesAgree, ResultsPublished, LeadersFresh,
    JoinersFresh, Due, NeverStale
<1> QED BY <1>1, <1>2, <1>3, <1>4, <1>5, <1>6 DEF Next

(* The strengthened invariant holds in every reachable state. *)
LEMMA Inductive == Spec => []IndInv
<1>1. IndInv /\ [Next]_vars => IndInv' BY IndStep
<1> QED BY IndInit, <1>1, PTL DEF Spec

(* Type correctness of the handlers, the in-flight map and the published    *)
(* results; every entry of the map belongs to a handler that leads it or    *)
(* was dropped while it led.                                                *)
THEOREM TypeCorrect == Spec => []TypeOK
<1>1. IndInv => TypeOK BY DEF IndInv
<1> QED BY Inductive, <1>1, PTL

(* A coalesced GET is never stale, a coalesced patch no staler than its     *)
(* leader: however many handlers join, leave or are dropped, and wherever   *)
(* the writes fall between the steps of get_or_create, the leader's query,  *)
(* its publication, the wake-up and the removal of the entry.               *)
THEOREM CoalescedReadsFresh == Spec => []NeverStale
<1>1. IndInv => NeverStale BY DEF IndInv
<1> QED BY Inductive, <1>1, PTL

=============================================================================
