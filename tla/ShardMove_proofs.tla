--------------------------- MODULE ShardMove_proofs ---------------------------
(***************************************************************************)
(* Proofs about value stores, the pulls between them and the shard moves   *)
(* that start pulls, for every set of nodes, of values and of calls and    *)
(* every bound.                                                            *)
(***************************************************************************)
EXTENDS ShardMove, FiniteSetTheorems, TLAPS

-----------------------------------------------------------------------------
(* What the operations of the value store preserve: every entry stays       *)
(* grounded, that is, its chain of patches ends in full bytes.              *)

(* The entries ids of s are grounded when chains may also end at held ids.  *)
Grounded(s, ids, held) ==
  \A S \in SUBSET Value :
    (\A v \in ids : (s[v] = None \/ s[v] \in S \/ s[v] \in held) => v \in S) => ids \subseteq S

(* A store is a function from some ids. *)
LEMMA StoreType ==
  ASSUME NEW s \in Store
  PROVE  /\ DOMAIN s \subseteq Value
         /\ \A v \in DOMAIN s : s[v] \in Value \cup {None}
         /\ s = [v \in DOMAIN s |-> s[v]]
BY DEF Store

(* A function from some ids is a store. *)
LEMMA IsStore ==
  ASSUME NEW s, DOMAIN s \subseteq Value, s = [v \in DOMAIN s |-> s[v]],
         \A v \in DOMAIN s : s[v] \in Value \cup {None}
  PROVE  s \in Store
<1>1. s \in [DOMAIN s -> Value \cup {None}] OBVIOUS
<1> QED BY <1>1 DEF Store

(* What can be materialised is held. *)
LEMMA ResolvableHeld ==
  ASSUME NEW s \in Store
  PROVE  Resolvable(s) \subseteq DOMAIN s
BY StoreType DEF Resolvable, Least

(* Everything can be materialised exactly when every entry is grounded. *)
LEMMA ResolvesIfGrounded ==
  ASSUME NEW s \in Store
  PROVE  Resolvable(s) = DOMAIN s <=> Grounded(s, DOMAIN s, {})
<1> DEFINE Step(S) == {v \in DOMAIN s : s[v] = None \/ s[v] \in S}
<1>1. DOMAIN s \subseteq Value /\ Resolvable(s) \subseteq DOMAIN s
  BY StoreType, ResolvableHeld
<1>2. Resolvable(s) = {v \in Value : \A S \in SUBSET Value : Step(S) \subseteq S => v \in S}
  BY DEF Resolvable, Least
<1>3. \A S : Step(S) \subseteq S <=>
        \A v \in DOMAIN s : (s[v] = None \/ s[v] \in S \/ s[v] \in {}) => v \in S
  OBVIOUS
<1> HIDE DEF Step
<1>4. ASSUME Resolvable(s) = DOMAIN s PROVE Grounded(s, DOMAIN s, {})
  BY <1>2, <1>3, <1>4 DEF Grounded
<1>5. ASSUME Grounded(s, DOMAIN s, {}) PROVE DOMAIN s \subseteq Resolvable(s)
  <2> SUFFICES ASSUME NEW v \in DOMAIN s, NEW S \in SUBSET Value, Step(S) \subseteq S
               PROVE  v \in S
    BY <1>1, <1>2
  <2>1. DOMAIN s \subseteq S BY <1>3, <1>5 DEF Grounded
  <2> QED BY <2>1
<1> QED BY <1>1, <1>4, <1>5

(* Merging keeps the store a store, and its entries as they are. *)
LEMMA MergeType ==
  ASSUME NEW s \in Store, NEW t \in Store
  PROVE  /\ Merge(s, t) \in Store
         /\ DOMAIN Merge(s, t) = DOMAIN s \cup DOMAIN t
         /\ \A v \in DOMAIN s : Merge(s, t)[v] = s[v]
         /\ \A v \in DOMAIN t \ DOMAIN s : Merge(s, t)[v] = t[v]
<1> DEFINE m == Merge(s, t)
<1>1. /\ DOMAIN m = DOMAIN s \cup DOMAIN t
      /\ \A v \in DOMAIN s : m[v] = s[v]
      /\ \A v \in DOMAIN t \ DOMAIN s : m[v] = t[v]
      /\ m = [v \in DOMAIN m |-> m[v]]
  BY DEF Merge
<1> HIDE DEF m
<1>2. \A v \in DOMAIN m : m[v] \in Value \cup {None} BY <1>1, StoreType
<1>3. DOMAIN m \subseteq Value BY <1>1, StoreType
<1>4. m \in Store BY <1>1, <1>2, <1>3, IsStore
<1> QED BY <1>1, <1>4 DEF m

(* Entries that are grounded in what the store holds may be merged into it. *)
LEMMA MergeGrounded ==
  ASSUME NEW s \in Store, NEW t \in Store,
         Grounded(s, DOMAIN s, {}), Grounded(t, DOMAIN t, DOMAIN s)
  PROVE  Grounded(Merge(s, t), DOMAIN Merge(s, t), {})
<1> DEFINE m == Merge(s, t)
<1>1. /\ DOMAIN m = DOMAIN s \cup DOMAIN t
      /\ \A v \in DOMAIN s : m[v] = s[v]
      /\ \A v \in DOMAIN t \ DOMAIN s : m[v] = t[v]
  BY MergeType
<1> HIDE DEF m
<1> SUFFICES ASSUME NEW S \in SUBSET Value,
                    \A v \in DOMAIN m : (m[v] = None \/ m[v] \in S \/ m[v] \in {}) => v \in S
             PROVE  DOMAIN m \subseteq S
  BY DEF Grounded, m
<1>2. DOMAIN s \subseteq S
  <2>1. \A v \in DOMAIN s : (s[v] = None \/ s[v] \in S \/ s[v] \in {}) => v \in S BY <1>1
  <2> QED BY <2>1 DEF Grounded
<1>3. DOMAIN t \subseteq S
  <2>1. \A v \in DOMAIN t : (t[v] = None \/ t[v] \in S \/ t[v] \in DOMAIN s) => v \in S
    BY <1>1, <1>2
  <2> QED BY <2>1 DEF Grounded
<1> QED BY <1>1, <1>2, <1>3

(* One entry, with full bytes or with a base that is held. *)
LEMMA EntryGrounded ==
  ASSUME NEW s \in Store, NEW v \in Value, NEW base, base = None \/ base \in DOMAIN s
  PROVE  Entry(v, base) \in Store /\ DOMAIN Entry(v, base) = {v}
         /\ Grounded(Entry(v, base), DOMAIN Entry(v, base), DOMAIN s)
<1> DEFINE e == Entry(v, base)
<1>1. DOMAIN e = {v} /\ e[v] = base /\ e = [w \in DOMAIN e |-> e[w]] BY DEF Entry
<1> HIDE DEF e
<1>2. base \in Value \cup {None} BY StoreType
<1>3. e \in Store BY <1>1, <1>2, IsStore
<1>4. Grounded(e, DOMAIN e, DOMAIN s) BY <1>1 DEF Grounded
<1> QED BY <1>1, <1>3, <1>4 DEF e

(* Full bytes need no base. *)
LEMMA RebuiltGrounded ==
  ASSUME NEW ids \in SUBSET Value
  PROVE  /\ Rebuilt(ids) \in Store /\ DOMAIN Rebuilt(ids) = ids
         /\ Grounded(Rebuilt(ids), DOMAIN Rebuilt(ids), {})
<1> DEFINE s == Rebuilt(ids)
<1>1. DOMAIN s = ids /\ (\A v \in ids : s[v] = None) /\ s = [v \in DOMAIN s |-> s[v]]
  BY DEF Rebuilt
<1> HIDE DEF s
<1>2. s \in Store BY <1>1, IsStore
<1>3. Grounded(s, DOMAIN s, {}) BY <1>1 DEF Grounded
<1> QED BY <1>1, <1>2, <1>3 DEF s

(* Compaction, which stores patches in full, keeps every value resolvable.  *)
LEMMA RewrittenGrounded ==
  ASSUME NEW s \in Store, NEW ids, Grounded(s, DOMAIN s, {})
  PROVE  /\ Rewritten(s, ids) \in Store /\ DOMAIN Rewritten(s, ids) = DOMAIN s
         /\ Grounded(Rewritten(s, ids), DOMAIN Rewritten(s, ids), {})
<1> DEFINE r == Rewritten(s, ids)
<1>1. /\ DOMAIN r = DOMAIN s /\ r = [v \in DOMAIN r |-> r[v]]
      /\ \A v \in DOMAIN s : r[v] = None \/ r[v] = s[v]
  BY DEF Rewritten
<1> HIDE DEF r
<1>2. r \in Store BY <1>1, StoreType, IsStore
<1>3. Grounded(r, DOMAIN r, {}) 
  <2> SUFFICES ASSUME NEW S \in SUBSET Value,
                      \A v \in DOMAIN r : (r[v] = None \/ r[v] \in S \/ r[v] \in {}) => v \in S
               PROVE  DOMAIN r \subseteq S
    BY DEF Grounded
  <2>1. \A v \in DOMAIN s : (s[v] = None \/ s[v] \in S \/ s[v] \in {}) => v \in S BY <1>1
  <2> QED BY <1>1, <2>1 DEF Grounded
<1> QED BY <1>1, <1>2, <1>3 DEF r

(* Entries are left out. *)
LEMMA WithoutType ==
  ASSUME NEW s \in Store, NEW ids
  PROVE  /\ Without(s, ids) \in Store /\ DOMAIN Without(s, ids) = DOMAIN s \ ids
         /\ \A v \in DOMAIN s \ ids : Without(s, ids)[v] = s[v]
<1> DEFINE r == Without(s, ids)
<1>1. /\ DOMAIN r = DOMAIN s \ ids /\ r = [v \in DOMAIN r |-> r[v]]
      /\ \A v \in DOMAIN s \ ids : r[v] = s[v]
  BY DEF Without
<1> HIDE DEF r
<1>2. r \in Store BY <1>1, StoreType, IsStore
<1> QED BY <1>1, <1>2 DEF r

(* Verified entries are staged, and grounded in each other and in what the  *)
(* store can materialise.                                                   *)
LEMMA VerifiedGrounded ==
  ASSUME NEW staged \in Store, NEW s \in Store
  PROVE  /\ Verified(staged, s) \subseteq DOMAIN staged
         /\ \A v \in Verified(staged, s) :
              staged[v] \in DOMAIN staged => staged[v] \in Verified(staged, s)
         /\ Grounded(staged, Verified(staged, s), DOMAIN s)
<1> DEFINE Step(S) == {v \in DOMAIN staged :
                         IF staged[v] = None THEN v \notin Embedding
                         ELSE IF staged[v] \in DOMAIN staged THEN staged[v] \in S
                         ELSE staged[v] \in Resolvable(s)}
           R == Verified(staged, s)
<1>1. R = {v \in Value : \A S \in SUBSET Value : Step(S) \subseteq S => v \in S}
  BY DEF Verified, Least
<1>2. None \notin Value /\ DOMAIN staged \subseteq Value /\ Resolvable(s) \subseteq DOMAIN s
  BY StoreType, ResolvableHeld, ValueAssumption
<1>3. \A S, T : S \subseteq T => Step(S) \subseteq Step(T) OBVIOUS
<1>4. \A S : Step(S) \subseteq DOMAIN staged OBVIOUS
<1>5. \A S : \A v \in Step(S) : staged[v] \in DOMAIN staged => staged[v] \in S
  BY <1>2
<1>6. \A S : \A v \in Step(S) :
        staged[v] = None \/ staged[v] \in S \/ staged[v] \in DOMAIN s
  BY <1>2
<1> HIDE DEF Step, R
<1>7. Step(R) \subseteq R
  <2> SUFFICES ASSUME NEW v \in Step(R), NEW S \in SUBSET Value, Step(S) \subseteq S
               PROVE  v \in S
    BY <1>1, <1>2, <1>4
  <2>1. R \subseteq S BY <1>1
  <2> QED BY <1>3, <2>1
<1>8. R \subseteq Step(R)
  <2>1. Step(Step(R)) \subseteq Step(R) /\ Step(R) \subseteq Value BY <1>2, <1>3, <1>4, <1>7
  <2> QED BY <1>1, <2>1
<1>9. Grounded(staged, R, DOMAIN s)
  <2> SUFFICES ASSUME NEW S \in SUBSET Value,
                      \A v \in R : (staged[v] = None \/ staged[v] \in S \/ staged[v] \in DOMAIN s)
                                     => v \in S
               PROVE  R \subseteq S
    BY DEF Grounded
  <2> DEFINE T == R \cap S
  <2>1. ASSUME NEW v \in Step(T) PROVE v \in T
    <3>1. v \in R BY <1>3, <1>7
    <3>2. staged[v] = None \/ staged[v] \in T \/ staged[v] \in DOMAIN s BY <1>6
    <3> QED BY <3>1, <3>2
  <2>2. T \in SUBSET Value BY <1>1
  <2>3. R \subseteq T BY <1>1, <2>1, <2>2
  <2> QED BY <2>3
<1> QED BY <1>4, <1>5, <1>8, <1>9 DEF R

-----------------------------------------------------------------------------
(* The inductive invariant *)

(* What was asked for is held, on its way, or reported. *)
Covered(c, held) ==
  c.ids \subseteq held \cup c.missing \cup c.failed \cup c.pending \cup DOMAIN c.staged

(* The call c on a node that holds the ids `held': it loses no id, and what *)
(* it is about to import is still grounded, although the lock was released  *)
(* since it was verified.                                                   *)
PullRight(c, held) ==
  /\ c.phase \in {"fetch", "bases", "verify", "import"} => Covered(c, held)
  /\ c.phase = "import" => c.ready \subseteq DOMAIN c.staged /\ Grounded(c.staged, c.ready, held)

PullsRight == \A p \in Pull : PullRight(pull[p], DOMAIN store[pull[p].at])

PullInv == PullTypeOK /\ StoresResolve /\ PullsRight

(* The move c with its pull d, whose destination holds the ids `held'. *)
MoveRight(c, d, held) ==
  /\ c.phase \in {"new", "manifest", "need"} => d.phase = "new"
  /\ c.phase = "manifest" => c.manifest = {}
  /\ c.phase = "pull" =>
       /\ d.phase \notin {"new", "error"} => d.at = c.to /\ d.ids = c.need
       /\ ~c.lost => c.manifest \ c.need \subseteq held
       /\ ~c.lost /\ d.phase = "done" => c.need \subseteq held \cup d.missing \cup d.failed

MovesRight == \A m \in Pull : MoveRight(move[m], pull[m], DOMAIN store[move[m].to])

(* The entry names members, unless a move wrote over a change it had not    *)
(* seen.                                                                    *)
MapRight ==
  /\ Coordinator \in nodes
  /\ ~overtaken => /\ {shard.primary} \cup shard.replicas \subseteq nodes
                   /\ shard.primary \notin shard.replicas

(* A move that no change has raced has a copy of the entry as it is. *)
CopiesRight ==
  \A m \in Pull : Busy(m) /\ ~move[m].raced =>
    move[m].to \in nodes /\ move[m].preview = Promoted(shard, move[m].to, shard.epoch)

MoveTypeOK ==
  /\ shard \in Shard
  /\ online \subseteq nodes /\ nodes \subseteq Node /\ leader \in Node
  /\ move \in [Pull -> MoveState]
  /\ overtaken \in BOOLEAN

IndInv == PullInv /\ MoveTypeOK /\ MovesRight /\ MapRight /\ CopiesRight

-----------------------------------------------------------------------------
(* Records *)

(* A pull that has fetched nothing yet is well typed. *)
LEMMA NewPullType ==
  ASSUME NEW n \in Node, NEW ph \in PullPhase
  PROVE  LET c == [NewPull(n) EXCEPT !.phase = ph]
         IN  c \in PullState /\ c.phase = ph /\ c.at = n /\ c.ids = {}
<1>1. NoEntries \in Store BY RebuiltGrounded DEF NoEntries
<1> QED BY <1>1 DEF NewPull, PullState, PullPhase

(* The end of a round of the pull's loop. *)
LEMMA LoopedType ==
  ASSUME NEW c \in PullState
  PROVE  /\ Looped(c) \in PullState /\ Looped(c).phase \in {"fetch", "done"}
         /\ Looped(c).at = c.at /\ Looped(c).ids = c.ids /\ Looped(c).missing = c.missing
         /\ Looped(c).phase = "fetch" => /\ Looped(c).pending = c.pending
                                         /\ Looped(c).staged = c.staged
                                         /\ Looped(c).failed = c.failed
         /\ Looped(c).phase = "done" => /\ c.pending = {}
                                        /\ Looped(c).failed = c.failed \cup DOMAIN c.staged
<1>1. NoEntries \in Store BY RebuiltGrounded DEF NoEntries
<1>2. c.staged \in Store BY DEF PullState
<1>3. DOMAIN c.staged \subseteq Value BY <1>2, StoreType
<1>4. CASE c.pending # {} BY <1>4 DEF Looped, PullState, PullPhase
<1>5. CASE c.pending = {} BY <1>1, <1>3, <1>5 DEF Looped, PullState, PullPhase
<1> QED BY <1>4, <1>5

(* A round that ends leaves every id held, on its way or reported, and at   *)
(* the end of the loop none is on its way.                                  *)
LEMMA LoopedCovered ==
  ASSUME NEW c \in PullState, NEW held, Covered(c, held)
  PROVE  /\ PullRight(Looped(c), held)
         /\ Looped(c).phase = "done" =>
              Looped(c).ids \subseteq held \cup Looped(c).missing \cup Looped(c).failed
<1> DEFINE d == Looped(c)
<1>1. /\ d.phase \in {"fetch", "done"} /\ d.ids = c.ids /\ d.missing = c.missing
      /\ d.phase = "fetch" => d.pending = c.pending /\ d.staged = c.staged /\ d.failed = c.failed
      /\ d.phase = "done" => c.pending = {} /\ d.failed = c.failed \cup DOMAIN c.staged
  BY LoopedType
<1> HIDE DEF d
<1>2. c.ids \subseteq held \cup c.missing \cup c.failed \cup c.pending \cup DOMAIN c.staged
  BY DEF Covered
<1>3. d.phase = "fetch" => Covered(d, held) BY <1>1, <1>2 DEF Covered
<1>4. d.phase = "done" => d.ids \subseteq held \cup d.missing \cup d.failed BY <1>1, <1>2
<1> QED BY <1>1, <1>3, <1>4 DEF PullRight, d

(* Ids that are held stay good when more are. *)
LEMMA HeldGrows ==
  ASSUME NEW c, NEW held, NEW more, held \subseteq more, PullRight(c, held)
  PROVE  PullRight(c, more)
<1>1. ASSUME Covered(c, held) PROVE Covered(c, more) BY <1>1 DEF Covered
<1>2. ASSUME Grounded(c.staged, c.ready, held) PROVE Grounded(c.staged, c.ready, more)
  <2> SUFFICES ASSUME NEW S \in SUBSET Value,
                      \A v \in c.ready : (\/ c.staged[v] = None \/ c.staged[v] \in S
                                          \/ c.staged[v] \in more) => v \in S
               PROVE  c.ready \subseteq S
    BY DEF Grounded
  <2>1. \A v \in c.ready : (\/ c.staged[v] = None \/ c.staged[v] \in S
                            \/ c.staged[v] \in held) => v \in S
    OBVIOUS
  <2> QED BY <1>2, <2>1 DEF Grounded
<1> QED BY <1>1, <1>2 DEF PullRight

-----------------------------------------------------------------------------
(* The value stores *)

(* Every store of the node, in the words of the invariant. *)
LEMMA StoresGrounded ==
  ASSUME PullTypeOK
  PROVE  StoresResolve <=> \A n \in Node : Grounded(store[n], DOMAIN store[n], {})
BY ResolvesIfGrounded DEF PullTypeOK, StoresResolve

(* StoresGrounded for the state after a step.                               *)
LEMMA StoresGroundedNext ==
  (PullTypeOK => (StoresResolve <=> \A n \in Node : Grounded(store[n], DOMAIN store[n], {})))'
<1>1. PullTypeOK => (StoresResolve <=> \A n \in Node : Grounded(store[n], DOMAIN store[n], {}))
  BY StoresGrounded
<1> QED BY <1>1, PTL

(* The rows and the store of one node change: the store grows, stays        *)
(* grounded and has the values of the rows.                                 *)
LEMMA NodeGrows ==
  ASSUME PullInv, NEW n \in Node, NEW r \in SUBSET Value, NEW s \in Store,
         rows' = [rows EXCEPT ![n] = r], store' = [store EXCEPT ![n] = s],
         UNCHANGED <<pull, faults>>, writes' \in 0..MaxWrites,
         r \subseteq DOMAIN s, DOMAIN store[n] \subseteq DOMAIN s, Grounded(s, DOMAIN s, {})
  PROVE  PullInv' /\ \A k \in Node : DOMAIN store[k] \subseteq DOMAIN store'[k]
<1>1. /\ \A k \in Node : /\ rows'[k] = IF k = n THEN r ELSE rows[k]
                         /\ store'[k] = IF k = n THEN s ELSE store[k]
      /\ store' \in [Node -> Store] /\ rows' \in [Node -> SUBSET Value]
  BY DEF PullInv, PullTypeOK
<1>2. PullTypeOK' BY <1>1 DEF PullInv, PullTypeOK
<1>3. StoresResolve'
  <2>1. \A k \in Node : Grounded(store[k], DOMAIN store[k], {})
    BY StoresGrounded DEF PullInv
  <2>2. \A k \in Node : Grounded(store'[k], DOMAIN store'[k], {}) BY <1>1, <2>1
  <2> QED BY <1>2, <2>2, StoresGroundedNext
<1>4. \A k \in Node : DOMAIN store[k] \subseteq DOMAIN store'[k] BY <1>1
<1>5. PullsRight'
  <2> SUFFICES ASSUME NEW p \in Pull PROVE PullRight(pull[p], DOMAIN store'[pull[p].at])
    BY DEF PullsRight
  <2>1. pull[p].at \in Node BY DEF PullInv, PullTypeOK, PullState
  <2>2. PullRight(pull[p], DOMAIN store[pull[p].at]) BY DEF PullInv, PullsRight
  <2> QED BY <1>4, <2>1, <2>2, HeldGrows
<1> QED BY <1>2, <1>3, <1>4, <1>5 DEF PullInv

(* Writes, deletes, patches and their compaction. *)
LEMMA NodeStepKeeps ==
  ASSUME PullInv, NEW n \in Node, NodeStep(n)
  PROVE  /\ PullInv' /\ UNCHANGED pull
         /\ \A k \in Node : DOMAIN store[k] \subseteq DOMAIN store'[k]
<1> DEFINE s == store[n]
<1>1. /\ s \in Store /\ rows[n] \in SUBSET Value /\ rows[n] \subseteq DOMAIN s
      /\ writes \in Nat /\ MaxWrites \in Nat
      /\ rows = [rows EXCEPT ![n] = rows[n]] /\ store = [store EXCEPT ![n] = s]
  BY PullAssumption DEF PullInv, PullTypeOK
<1>2. Grounded(s, DOMAIN s, {}) BY StoresGrounded DEF PullInv
<1>3. ASSUME NEW v \in Value, NEW base, base = None \/ base \in DOMAIN s
      PROVE  LET t == Merge(s, Entry(v, base))
             IN  t \in Store /\ DOMAIN t = DOMAIN s \cup {v} /\ Grounded(t, DOMAIN t, {})
  <2> DEFINE e == Entry(v, base)
  <2> HIDE DEF s
  <2>1. e \in Store /\ DOMAIN e = {v} /\ Grounded(e, DOMAIN e, DOMAIN s)
    BY <1>1, <1>3, EntryGrounded
  <2> HIDE DEF e
  <2>2. /\ Merge(s, e) \in Store /\ DOMAIN Merge(s, e) = DOMAIN s \cup {v}
        /\ Grounded(Merge(s, e), DOMAIN Merge(s, e), {})
    BY <1>1, <1>2, <2>1, MergeType, MergeGrounded, ZenonT(60)
  <2> QED BY <2>2 DEF e
<1>4. ASSUME writes < MaxWrites, writes' = writes + 1 PROVE writes' \in 0..MaxWrites
  BY <1>1, <1>4
<1> HIDE DEF s
<1>5. ASSUME NEW v \in Value, WriteRow(n, v) PROVE PullInv' /\ UNCHANGED pull
        /\ \A k \in Node : DOMAIN store[k] \subseteq DOMAIN store'[k]
  <2> DEFINE t == Merge(s, Entry(v, None))
             r == rows[n] \cup {v}
  <2>1. t \in Store /\ DOMAIN t = DOMAIN s \cup {v} /\ Grounded(t, DOMAIN t, {}) BY <1>3
  <2>2. r \in SUBSET Value /\ r \subseteq DOMAIN t BY <1>1, <2>1
  <2>3. /\ rows' = [rows EXCEPT ![n] = r] /\ store' = [store EXCEPT ![n] = t]
        /\ UNCHANGED <<pull, faults>> /\ writes' \in 0..MaxWrites
    BY <1>4, <1>5 DEF WriteRow, Put, s
  <2> HIDE DEF t, r
  <2> QED BY <2>1, <2>2, <2>3, NodeGrows DEF s
<1>6. ASSUME NEW v \in Value, DeleteRow(n, v) PROVE PullInv' /\ UNCHANGED pull
        /\ \A k \in Node : DOMAIN store[k] \subseteq DOMAIN store'[k]
  <2> DEFINE r == rows[n] \ {v}
  <2>1. r \in SUBSET Value /\ r \subseteq DOMAIN s BY <1>1
  <2>2. /\ rows' = [rows EXCEPT ![n] = r] /\ store' = [store EXCEPT ![n] = s]
        /\ UNCHANGED <<pull, faults>> /\ writes' \in 0..MaxWrites
    BY <1>1, <1>4, <1>6 DEF DeleteRow
  <2> HIDE DEF r
  <2> QED BY <1>1, <1>2, <2>1, <2>2, NodeGrows DEF s
<1>7. ASSUME NEW v \in Value, NEW base \in Value, StoreDelta(n, v, base)
      PROVE  PullInv' /\ UNCHANGED pull
             /\ \A k \in Node : DOMAIN store[k] \subseteq DOMAIN store'[k]
  <2>1. PICK form \in PutForms(s, v, base) :
          store' = [store EXCEPT ![n] = PutWithDelta(@, v, form)]
    BY <1>7 DEF StoreDelta, s
  <2>2. form = None \/ form \in DOMAIN s
    BY <1>1, <2>1, ResolvableHeld DEF PutForms
  <2> DEFINE t == Merge(s, Entry(v, form))
  <2>3. t \in Store /\ DOMAIN t = DOMAIN s \cup {v} /\ Grounded(t, DOMAIN t, {}) BY <1>3, <2>2
  <2>4. /\ rows' = [rows EXCEPT ![n] = rows[n]] /\ store' = [store EXCEPT ![n] = t]
        /\ UNCHANGED <<pull, faults>> /\ writes' \in 0..MaxWrites
    BY <1>1, <1>4, <1>7, <2>1 DEF StoreDelta, PutWithDelta, s
  <2> HIDE DEF t
  <2> QED BY <1>1, <2>3, <2>4, NodeGrows DEF s
<1>8. ASSUME NEW ids \in SUBSET Value, CompactDeltas(n, ids) PROVE PullInv' /\ UNCHANGED pull
        /\ \A k \in Node : DOMAIN store[k] \subseteq DOMAIN store'[k]
  <2> DEFINE t == Rewritten(s, ids)
  <2>1. t \in Store /\ DOMAIN t = DOMAIN s /\ Grounded(t, DOMAIN t, {})
    BY <1>1, <1>2, RewrittenGrounded
  <2>2. /\ rows' = [rows EXCEPT ![n] = rows[n]] /\ store' = [store EXCEPT ![n] = t]
        /\ UNCHANGED <<pull, faults>> /\ writes' \in 0..MaxWrites
    BY <1>1, <1>4, <1>8 DEF CompactDeltas, s
  <2> HIDE DEF t
  <2> QED BY <1>1, <2>1, <2>2, NodeGrows DEF s
<1> QED BY <1>5, <1>6, <1>7, <1>8 DEF NodeStep

-----------------------------------------------------------------------------
(* The pull *)

(* A call moves on, and the stores only grow. *)
LEMMA PullMoves ==
  ASSUME PullInv, NEW p \in Pull, NEW c \in PullState, SetPull(p, c),
         UNCHANGED rows, store' \in [Node -> Store],
         \A k \in Node : /\ DOMAIN store[k] \subseteq DOMAIN store'[k]
                         /\ Grounded(store'[k], DOMAIN store'[k], {}),
         writes' \in 0..MaxWrites, faults' \in 0..MaxFaults,
         PullRight(c, DOMAIN store'[c.at])
  PROVE  PullInv' /\ \A q \in Pull : pull'[q] = IF q = p THEN c ELSE pull[q]
<1>1. /\ pull' \in [Pull -> PullState]
      /\ \A q \in Pull : pull'[q] = IF q = p THEN c ELSE pull[q]
  BY DEF SetPull, PullInv, PullTypeOK
<1>2. PullTypeOK'
  <2>1. \A k \in Node : rows'[k] \subseteq DOMAIN store'[k] BY DEF PullInv, PullTypeOK
  <2> QED BY <1>1, <2>1 DEF PullInv, PullTypeOK
<1>3. StoresResolve' BY <1>2, StoresGroundedNext
<1>4. PullsRight'
  <2> SUFFICES ASSUME NEW q \in Pull PROVE PullRight(pull'[q], DOMAIN store'[pull'[q].at])
    BY DEF PullsRight
  <2>1. CASE q = p BY <1>1, <2>1
  <2>2. CASE q # p
    <3>1. pull[q].at \in Node BY DEF PullInv, PullTypeOK, PullState
    <3>2. PullRight(pull[q], DOMAIN store[pull[q].at]) BY DEF PullInv, PullsRight
    <3>3. PullRight(pull[q], DOMAIN store'[pull[q].at]) BY <3>1, <3>2, HeldGrows
    <3> QED BY <1>1, <2>2, <3>3
  <2> QED BY <2>1, <2>2
<1> QED BY <1>1, <1>2, <1>3, <1>4 DEF PullInv

(* The same when the nodes are left alone. *)
LEMMA PullMovesAlone ==
  ASSUME PullInv, NEW p \in Pull, NEW c \in PullState, SetPull(p, c),
         UNCHANGED <<nodeVars, writes>>, faults' \in 0..MaxFaults,
         PullRight(c, DOMAIN store[c.at])
  PROVE  PullInv' /\ \A q \in Pull : pull'[q] = IF q = p THEN c ELSE pull[q]
<1>1. UNCHANGED <<rows, store, writes>> BY DEF nodeVars
<1>2. \A k \in Node : Grounded(store[k], DOMAIN store[k], {}) BY StoresGrounded DEF PullInv
<1>3. writes' \in 0..MaxWrites /\ store' \in [Node -> Store]
  BY <1>1 DEF PullInv, PullTypeOK
<1>4. \A k \in Node : /\ DOMAIN store[k] \subseteq DOMAIN store'[k]
                      /\ Grounded(store'[k], DOMAIN store'[k], {})
  BY <1>1, <1>2
<1>5. PullRight(c, DOMAIN store'[c.at]) BY <1>1
<1> QED BY <1>1, <1>3, <1>4, <1>5, PullMoves

(* A call that ends accounts for what it was asked for. *)
Ends(c, held) == c.phase = "done" => c.ids \subseteq held \cup c.missing \cup c.failed

(* The running call p moved on, and no other did. *)
Advanced(p) ==
  /\ Running(p) /\ \A q \in Pull : q # p => pull'[q] = pull[q]
  /\ pull'[p].phase # "new"
  /\ pull'[p].phase # "error" => pull'[p].at = pull[p].at /\ pull'[p].ids = pull[p].ids
  /\ Ends(pull'[p], DOMAIN store'[pull'[p].at])

Grown == \A k \in Node : DOMAIN store[k] \subseteq DOMAIN store'[k]

(* A fetch that fails ends the call with an error. *)
LEMMA FetchFailsKeeps ==
  ASSUME PullInv, NEW p \in Pull, FetchFails(p)
  PROVE  PullInv' /\ Grown /\ Advanced(p)
<1> DEFINE c == [NewPull(pull[p].at) EXCEPT !.phase = "error"]
<1>1. pull[p].at \in Node BY DEF PullInv, PullTypeOK, PullState
<1>2. c \in PullState /\ c.phase = "error" BY <1>1, NewPullType DEF PullPhase
<1>3. SetPull(p, c) /\ UNCHANGED <<nodeVars, writes>> /\ pull[p].phase = "fetch"
  BY DEF FetchFails
<1>4. faults' \in 0..MaxFaults
  BY PullAssumption DEF FetchFails, Fault, PullInv, PullTypeOK
<1> HIDE DEF c
<1>5. PullRight(c, DOMAIN store[c.at]) BY <1>2 DEF PullRight
<1>6. PullInv' /\ \A q \in Pull : pull'[q] = IF q = p THEN c ELSE pull[q]
  BY <1>2, <1>3, <1>4, <1>5, PullMovesAlone
<1>7. Grown BY <1>3 DEF Grown, nodeVars
<1> QED BY <1>2, <1>3, <1>6, <1>7 DEF Advanced, Running, Ends

(* A step of the call on its own variables: the new ones are right, or are  *)
(* what a round ends with.                                                  *)
LEMMA CallStep ==
  ASSUME PullInv, NEW p \in Pull, NEW c \in PullState, SetPull(p, c),
         UNCHANGED <<nodeVars, boundVars>>, Running(p), c.phase \notin {"new", "error"},
         c.at = pull[p].at, c.ids = pull[p].ids, PullRight(c, DOMAIN store[c.at]),
         Ends(c, DOMAIN store[c.at])
  PROVE  PullInv' /\ Grown /\ Advanced(p)
<1>1. faults' \in 0..MaxFaults /\ UNCHANGED <<nodeVars, writes>>
  BY DEF boundVars, PullInv, PullTypeOK
<1>2. PullInv' /\ \A q \in Pull : pull'[q] = IF q = p THEN c ELSE pull[q]
  BY <1>1, PullMovesAlone
<1>3. UNCHANGED store BY <1>1 DEF nodeVars
<1>4. Grown BY <1>3 DEF Grown
<1> QED BY <1>2, <1>3, <1>4 DEF Advanced

(* The answer to a batch: every id of it is staged or noted as missing. *)
LEMMA PullFetchKeeps ==
  ASSUME PullInv, NEW p \in Pull, NEW batch \in SUBSET pull[p].pending, PullFetch(p, batch)
  PROVE  PullInv' /\ Grown /\ Advanced(p)
<1> DEFINE c == pull[p]
           s == store[c.from]
           found == Without(s, DOMAIN s \ batch)
           d == Fetched(c, batch, found)
           held == DOMAIN store[c.at]
<1>1. /\ c \in PullState /\ c.at \in Node /\ c.from \in Node /\ c.staged \in Store
      /\ c.pending \subseteq Value /\ c.missing \subseteq Value
  BY DEF PullInv, PullTypeOK, PullState
<1>2. s \in Store BY <1>1 DEF PullInv, PullTypeOK
<1>3. found \in Store /\ DOMAIN found = DOMAIN s \cap batch
  <2> HIDE DEF s
  <2>1. found \in Store /\ DOMAIN found = DOMAIN s \ (DOMAIN s \ batch)
    BY <1>2, WithoutType
  <2> HIDE DEF found
  <2> QED BY <2>1
<1>4. c.phase = "fetch" /\ SetPull(p, d) /\ UNCHANGED <<nodeVars, boundVars>>
  BY DEF PullFetch
<1>5. Covered(c, held) BY <1>4 DEF PullInv, PullsRight, PullRight
<1> HIDE DEF found
<1>6. /\ Merge(found, c.staged) \in Store
      /\ DOMAIN Merge(found, c.staged) = DOMAIN found \cup DOMAIN c.staged
  BY <1>1, <1>3, MergeType
<1> HIDE DEF c
<1>7. /\ d \in PullState /\ d.phase = "bases" /\ d.at = c.at /\ d.ids = c.ids
      /\ d.pending = c.pending \ batch /\ d.staged = Merge(found, c.staged)
      /\ d.missing = c.missing \cup (batch \ DOMAIN found) /\ d.failed = c.failed
  <2>1. batch \subseteq Value BY <1>1 DEF c
  <2> QED BY <1>1, <1>6, <2>1 DEF Fetched, PullState, PullPhase
<1> HIDE DEF d
<1>8. Covered(d, held) BY <1>5, <1>6, <1>7 DEF Covered
<1>9. PullRight(d, held) BY <1>7, <1>8 DEF PullRight
<1> QED BY <1>4, <1>7, <1>9, CallStep DEF c, Running, Ends

(* Missing bases are queued. *)
LEMMA PullBasesKeeps ==
  ASSUME PullInv, NEW p \in Pull, PullBases(p)
  PROVE  PullInv' /\ Grown /\ Advanced(p)
<1> DEFINE c == pull[p]
           b == MissingBases(c.staged, store[c.at])
           d == [c EXCEPT !.phase = "verify", !.pending = @ \cup b]
           held == DOMAIN store[c.at]
<1>1. c \in PullState /\ c.staged \in Store BY DEF PullInv, PullTypeOK, PullState
<1>2. b \subseteq Value BY <1>1, StoreType DEF MissingBases
<1>3. c.phase = "bases" /\ SetPull(p, d) /\ UNCHANGED <<nodeVars, boundVars>>
  BY DEF PullBases
<1>4. Covered(c, held) BY <1>3 DEF PullInv, PullsRight, PullRight
<1> HIDE DEF c, b
<1>5. /\ d \in PullState /\ d.phase = "verify" /\ d.at = c.at /\ d.ids = c.ids
      /\ d.pending = c.pending \cup b /\ d.staged = c.staged
      /\ d.missing = c.missing /\ d.failed = c.failed
  BY <1>1, <1>2 DEF PullState, PullPhase
<1> HIDE DEF d
<1>6. Covered(d, held) BY <1>4, <1>5 DEF Covered
<1>7. PullRight(d, held) BY <1>5, <1>6 DEF PullRight
<1> QED BY <1>3, <1>5, <1>7, CallStep DEF c, Running, Ends

(* What is ready for the import was verified, and nothing that was invalid  *)
(* is a base of it.                                                         *)
LEMMA PullVerifyKeeps ==
  ASSUME PullInv, NEW p \in Pull, PullVerify(p)
  PROVE  PullInv' /\ Grown /\ Advanced(p)
<1> DEFINE c == pull[p]
           s == store[c.at]
           ready == Verified(c.staged, s)
           bad == Invalid(c.staged, s)
           kept == Without(c.staged, bad)
           d == [c EXCEPT !.phase = "import", !.ready = ready,
                          !.staged = kept, !.failed = @ \cup bad]
           held == DOMAIN store[c.at]
<1>1. /\ c \in PullState /\ c.at \in Node /\ c.staged \in Store
      /\ c.failed \subseteq Value
  BY DEF PullInv, PullTypeOK, PullState
<1>2. s \in Store BY <1>1 DEF PullInv, PullTypeOK
<1>3. /\ c.phase = "verify" /\ SetPull(p, IF ready = {} THEN Looped(d) ELSE d)
      /\ UNCHANGED <<nodeVars, boundVars>>
  BY DEF PullVerify
<1>4. Covered(c, held) BY <1>3 DEF PullInv, PullsRight, PullRight
<1> HIDE DEF c, s
<1>5. ready \subseteq DOMAIN c.staged /\ Grounded(c.staged, ready, DOMAIN s)
  BY <1>1, <1>2, VerifiedGrounded
<1>6. bad \subseteq DOMAIN c.staged /\ bad \cap ready = {} BY DEF Invalid
<1>7. /\ kept \in Store /\ DOMAIN kept = DOMAIN c.staged \ bad
      /\ \A v \in DOMAIN c.staged \ bad : kept[v] = c.staged[v]
  BY <1>1, WithoutType
<1>8. DOMAIN c.staged \subseteq Value BY <1>1, StoreType
<1> HIDE DEF ready, bad, kept
<1>9. /\ d \in PullState /\ d.phase = "import" /\ d.at = c.at /\ d.ids = c.ids
      /\ d.pending = c.pending /\ d.staged = kept /\ d.ready = ready
      /\ d.missing = c.missing /\ d.failed = c.failed \cup bad
  BY <1>1, <1>5, <1>6, <1>7, <1>8 DEF PullState, PullPhase
<1> HIDE DEF d
<1>10. Covered(d, held) BY <1>4, <1>6, <1>7, <1>9 DEF Covered
<1>11. ready \subseteq DOMAIN kept /\ Grounded(kept, ready, DOMAIN s)
  <2>1. \A v \in ready : v \in DOMAIN kept /\ kept[v] = c.staged[v] BY <1>5, <1>6, <1>7
  <2> QED BY <1>5, <2>1 DEF Grounded
<1>12. CASE ready # {}
  <2>1. PullRight(d, held) BY <1>9, <1>10, <1>11 DEF PullRight, s
  <2> QED BY <1>3, <1>9, <1>12, <2>1, CallStep DEF c, Running, Ends
<1>13. CASE ready = {}
  <2> DEFINE e == Looped(d)
  <2>1. e \in PullState /\ e.phase \in {"fetch", "done"} /\ e.at = c.at /\ e.ids = c.ids
    BY <1>9, LoopedType
  <2>2. PullRight(e, held) /\ Ends(e, held) BY <1>9, <1>10, LoopedCovered DEF Ends
  <2> HIDE DEF e
  <2>3. SetPull(p, e) BY <1>3, <1>13 DEF e
  <2> QED BY <1>3, <2>1, <2>2, <2>3, CallStep DEF c, Running
<1> QED BY <1>12, <1>13

(* The import takes over entries that are grounded in the store as it is    *)
(* now, so it never fails and leaves nothing that cannot be materialised.   *)
LEMMA PullImportKeeps ==
  ASSUME PullInv, NEW p \in Pull, PullImport(p)
  PROVE  PullInv' /\ Grown /\ Advanced(p)
<1> DEFINE c == pull[p]
           s == store[c.at]
           entries == Without(c.staged, DOMAIN c.staged \ c.ready)
           t == Merge(s, entries)
           rest == Without(c.staged, c.ready)
           d == [c EXCEPT !.staged = rest, !.stored = @ + Cardinality(c.ready \ DOMAIN s)]
<1>1. /\ c \in PullState /\ c.at \in Node /\ c.staged \in Store /\ c.ready \subseteq Value
  BY DEF PullInv, PullTypeOK, PullState
<1>2. s \in Store BY <1>1 DEF PullInv, PullTypeOK
<1>3. /\ c.phase = "import" /\ store' = [store EXCEPT ![c.at] = t]
      /\ SetPull(p, IF ImportFails(s, entries) THEN [NewPull(c.at) EXCEPT !.phase = "error"]
                    ELSE Looped(d))
      /\ UNCHANGED <<rows, boundVars>>
  BY DEF PullImport
<1>4. /\ Covered(c, DOMAIN s) /\ c.ready \subseteq DOMAIN c.staged
      /\ Grounded(c.staged, c.ready, DOMAIN s)
  BY <1>3 DEF PullInv, PullsRight, PullRight
<1>5. \A k \in Node : Grounded(store[k], DOMAIN store[k], {}) BY StoresGrounded DEF PullInv
<1>6. Grounded(s, DOMAIN s, {}) BY <1>1, <1>5
<1> HIDE DEF c, s
<1>7. /\ entries \in Store /\ DOMAIN entries = c.ready
      /\ \A v \in c.ready : entries[v] = c.staged[v]
  <2>1. /\ entries \in Store /\ DOMAIN entries = DOMAIN c.staged \ (DOMAIN c.staged \ c.ready)
        /\ \A v \in DOMAIN c.staged \ (DOMAIN c.staged \ c.ready) : entries[v] = c.staged[v]
    BY <1>1, WithoutType
  <2> HIDE DEF entries
  <2> QED BY <1>4, <2>1
<1> HIDE DEF entries
<1>8. Grounded(entries, DOMAIN entries, DOMAIN s) BY <1>4, <1>7 DEF Grounded
<1>9. /\ t \in Store /\ DOMAIN t = DOMAIN s \cup c.ready /\ Grounded(t, DOMAIN t, {})
  BY <1>2, <1>6, <1>7, <1>8, MergeType, MergeGrounded
<1>10. ~ImportFails(s, entries)
  <2>1. Resolvable(t) = DOMAIN t BY <1>9, ResolvesIfGrounded
  <2> QED BY <2>1 DEF ImportFails
<1> HIDE DEF t
<1>11. rest \in Store /\ DOMAIN rest = DOMAIN c.staged \ c.ready BY <1>1, WithoutType
<1> HIDE DEF rest
<1>12. /\ d \in PullState /\ d.at = c.at /\ d.ids = c.ids
       /\ d.pending = c.pending /\ d.staged = rest
       /\ d.missing = c.missing /\ d.failed = c.failed
  <2>1. Cardinality(c.ready \ DOMAIN s) \in Nat
    <3>1. IsFiniteSet(c.ready \ DOMAIN s) BY <1>1, ValueAssumption, FS_Subset
    <3> QED BY <3>1, FS_CardinalityType
  <2>2. c.stored + Cardinality(c.ready \ DOMAIN s) \in Nat BY <1>1, <2>1 DEF PullState
  <2> QED BY <1>1, <1>11, <2>2 DEF PullState
<1> HIDE DEF d
<1>13. Covered(d, DOMAIN t) BY <1>4, <1>9, <1>11, <1>12 DEF Covered
<1> DEFINE e == Looped(d)
<1>14. e \in PullState /\ e.phase \in {"fetch", "done"} /\ e.at = c.at /\ e.ids = c.ids
  BY <1>12, LoopedType
<1>15. PullRight(e, DOMAIN t) /\ Ends(e, DOMAIN t) BY <1>12, <1>13, LoopedCovered DEF Ends
<1>16. SetPull(p, e) BY <1>3, <1>10
<1> HIDE DEF e
<1>17. /\ store' \in [Node -> Store] /\ store'[c.at] = t
       /\ \A k \in Node : k # c.at => store'[k] = store[k]
  BY <1>1, <1>3, <1>9 DEF PullInv, PullTypeOK
<1>18. \A k \in Node : /\ DOMAIN store[k] \subseteq DOMAIN store'[k]
                       /\ Grounded(store'[k], DOMAIN store'[k], {})
  <2>1. DOMAIN store[c.at] \subseteq DOMAIN t BY <1>9 DEF s
  <2> QED BY <1>5, <1>9, <1>17, <2>1
<1>19. writes' \in 0..MaxWrites /\ faults' \in 0..MaxFaults
  BY <1>3 DEF boundVars, PullInv, PullTypeOK
<1>20. PullInv' /\ \A q \in Pull : pull'[q] = IF q = p THEN e ELSE pull[q]
  BY <1>3, <1>14, <1>15, <1>16, <1>17, <1>18, <1>19, PullMoves
<1>21. Grown BY <1>18 DEF Grown
<1>22. Running(p) BY <1>3 DEF Running, c
<1> QED BY <1>14, <1>15, <1>17, <1>20, <1>21, <1>22 DEF Advanced, c

(* Every section of a call. *)
LEMMA PullStepKeeps ==
  ASSUME PullInv, NEW p \in Pull, PullStep(p)
  PROVE  PullInv' /\ Grown /\ Advanced(p)
BY PullFetchKeeps, PullBasesKeeps, PullVerifyKeeps, PullImportKeeps DEF PullStep

(* A new call skips what is held. *)
LEMMA PullStartKeeps ==
  ASSUME PullInv, NEW p \in Pull, NEW n \in Node, NEW source \in Node, NEW ids \in SUBSET Value,
         PullStart(p, n, source, ids)
  PROVE  /\ PullInv' /\ UNCHANGED store
         /\ \A q \in Pull : q # p => pull'[q] = pull[q]
         /\ pull'[p].phase \notin {"new", "error"} /\ pull'[p].at = n /\ pull'[p].ids = ids
         /\ Ends(pull'[p], DOMAIN store[n])
<1> DEFINE c == [NewPull(n) EXCEPT !.from = source, !.ids = ids, !.pending = ids \ DOMAIN store[n]]
           d == Looped(c)
<1>1. SetPull(p, d) /\ UNCHANGED <<nodeVars, boundVars>> BY DEF PullStart
<1>2. NoEntries \in Store BY RebuiltGrounded DEF NoEntries
<1>3. c \in PullState /\ c.at = n /\ c.ids = ids /\ c.pending = ids \ DOMAIN store[n]
  BY <1>2 DEF NewPull, PullState, PullPhase
<1> HIDE DEF c
<1>4. Covered(c, DOMAIN store[n]) BY <1>3 DEF Covered
<1>5. PullRight(d, DOMAIN store[n]) /\ Ends(d, DOMAIN store[n])
  BY <1>3, <1>4, LoopedCovered DEF Ends
<1>6. d \in PullState /\ d.phase \in {"fetch", "done"} /\ d.at = n /\ d.ids = ids
  BY <1>3, LoopedType
<1> HIDE DEF d
<1>7. faults' \in 0..MaxFaults /\ UNCHANGED <<nodeVars, writes>>
  BY <1>1 DEF boundVars, PullInv, PullTypeOK
<1>8. PullInv' /\ \A q \in Pull : pull'[q] = IF q = p THEN d ELSE pull[q]
  BY <1>1, <1>5, <1>6, <1>7, PullMovesAlone
<1> QED BY <1>5, <1>6, <1>7, <1>8 DEF nodeVars

(* A restart empties the store of what is in no row, and ends the calls     *)
(* that run on the node.                                                    *)
LEMMA RestartKeeps ==
  ASSUME PullInv, NEW n \in Node, Restart(n)
  PROVE  /\ PullInv' /\ \A k \in Node : k # n => store'[k] = store[k]
         /\ \A p \in Pull : IF Running(p) /\ pull[p].at = n THEN pull'[p].phase = "error"
                                                           ELSE pull'[p] = pull[p]
<1> DEFINE s == Rebuilt(rows[n])
           c == [NewPull(n) EXCEPT !.phase = "error"]
<1>1. /\ s \in Store /\ DOMAIN s = rows[n] /\ Grounded(s, DOMAIN s, {})
  BY RebuiltGrounded DEF PullInv, PullTypeOK
<1>2. c \in PullState /\ c.phase = "error" BY NewPullType DEF PullPhase
<1>3. /\ store' = [store EXCEPT ![n] = s] /\ UNCHANGED <<rows, writes>>
      /\ pull' = [p \in Pull |-> IF Running(p) /\ pull[p].at = n THEN c ELSE pull[p]]
      /\ Fault
  BY DEF Restart
<1> HIDE DEF s, c
<1>4. /\ store' \in [Node -> Store] /\ store'[n] = s
      /\ \A k \in Node : k # n => store'[k] = store[k]
  BY <1>1, <1>3 DEF PullInv, PullTypeOK
<1>5. /\ pull' \in [Pull -> PullState]
      /\ \A p \in Pull : pull'[p] = IF Running(p) /\ pull[p].at = n THEN c ELSE pull[p]
  BY <1>2, <1>3 DEF PullInv, PullTypeOK
<1>6. PullTypeOK'
  <2>1. \A k \in Node : rows'[k] \subseteq DOMAIN store'[k]
    BY <1>1, <1>3, <1>4 DEF PullInv, PullTypeOK
  <2>2. faults' \in 0..MaxFaults
    BY <1>3, PullAssumption DEF Fault, PullInv, PullTypeOK
  <2> QED BY <1>3, <1>4, <1>5, <2>1, <2>2 DEF PullInv, PullTypeOK
<1>7. StoresResolve'
  <2>1. \A k \in Node : Grounded(store[k], DOMAIN store[k], {}) BY StoresGrounded DEF PullInv
  <2>2. \A k \in Node : Grounded(store'[k], DOMAIN store'[k], {}) BY <1>1, <1>4, <2>1
  <2> QED BY <1>6, <2>2, StoresGroundedNext
<1>8. PullsRight'
  <2> SUFFICES ASSUME NEW p \in Pull PROVE PullRight(pull'[p], DOMAIN store'[pull'[p].at])
    BY DEF PullsRight
  <2>1. CASE Running(p) /\ pull[p].at = n BY <1>2, <1>5, <2>1 DEF PullRight
  <2>2. CASE Running(p) /\ pull[p].at # n
    <3>1. pull[p].at \in Node BY DEF PullInv, PullTypeOK, PullState
    <3> QED BY <1>4, <1>5, <2>2, <3>1 DEF PullInv, PullsRight
  <2>3. CASE ~Running(p) BY <1>5, <2>3 DEF PullRight, Running
  <2> QED BY <2>1, <2>2, <2>3
<1> QED BY <1>2, <1>4, <1>5, <1>6, <1>7, <1>8 DEF PullInv

(* A failed call or a change of the members does not touch the pulls. *)
LEMMA PullsLeftAlone ==
  ASSUME PullInv, UNCHANGED <<nodeVars, pull, writes>>, Fault \/ UNCHANGED faults
  PROVE  PullInv'
<1>1. faults' \in 0..MaxFaults BY PullAssumption DEF Fault, PullInv, PullTypeOK
<1>2. PullTypeOK' BY <1>1 DEF PullInv, PullTypeOK, nodeVars
<1>3. StoresResolve' BY DEF PullInv, StoresResolve, nodeVars
<1>4. PullsRight' BY DEF PullInv, PullsRight, nodeVars
<1> QED BY <1>2, <1>3, <1>4 DEF PullInv

-----------------------------------------------------------------------------
(* The moves *)

(* What a step is shown to do, besides keeping the invariant. *)
EpochKept == ~overtaken' => shard'.epoch >= shard.epoch

PlacedComplete ==
  \A m \in Pull : move'[m].phase = "placed" /\ move[m].phase # "placed" /\ ~move[m].lost =>
    move[m].manifest \subseteq DOMAIN store[move[m].to]

EndsAccounted ==
  \A p \in Pull : pull[p].phase # "done" => Ends(pull'[p], DOMAIN store'[pull'[p].at])

Good == IndInv' /\ EpochKept /\ PlacedComplete /\ EndsAccounted

(* The entry of a shard after a promotion, field by field.                  *)
LEMMA PromotedType ==
  ASSUME NEW s \in Shard, NEW n \in Node, NEW e \in Nat
  PROVE  /\ Promoted(s, n, e) \in Shard
         /\ Promoted(s, n, e).epoch = e /\ Promoted(s, n, e).primary = n
         /\ Promoted(s, n, e).replicas = (s.replicas \cup {s.primary}) \ {n}
BY DEF Promoted, Shard

(* The state of a call that has not started, and the first entry of the     *)
(* shard.                                                                   *)
LEMMA NewMoveType ==
  /\ NewMove \in MoveState /\ FirstShard \in Shard
  /\ NewMove.manifest = {} /\ ~NewMove.raced /\ ~NewMove.lost
<1>1. FirstShard \in Shard BY MoveAssumption DEF FirstShard, Shard
<1> QED BY <1>1, MoveAssumption DEF NewMove, MoveState, MovePhase

(* The state of a call that has ended.                                      *)
LEMMA EndedType ==
  ASSUME NEW ph \in {"placed", "failed"}
  PROVE  Ended(ph) \in MoveState /\ Ended(ph).phase = ph
BY NewMoveType DEF Ended, MoveState, MovePhase

(* A change of the entry or of the members marks the moves, and changes     *)
(* nothing else of them.                                                    *)
LEMMA RacedType ==
  ASSUME move \in [Pull -> MoveState]
  PROVE  /\ MovesRaced \in [Pull -> MoveState]
         /\ \A m \in Pull :
              /\ MovesRaced[m].phase = move[m].phase /\ MovesRaced[m].to = move[m].to
              /\ MovesRaced[m].manifest = move[m].manifest
              /\ MovesRaced[m].need = move[m].need /\ MovesRaced[m].lost = move[m].lost
              /\ Busy(m) => MovesRaced[m].raced
<1>1. ASSUME NEW m \in Pull
      PROVE  LET c == [move[m] EXCEPT !.raced = TRUE]
             IN  /\ c \in MoveState /\ c.phase = move[m].phase /\ c.to = move[m].to
                 /\ c.manifest = move[m].manifest /\ c.need = move[m].need
                 /\ c.lost = move[m].lost /\ c.raced
  <2>1. move[m] \in MoveState OBVIOUS
  <2> QED BY <2>1 DEF MoveState
<1>2. \A m \in Pull : MovesRaced[m] = IF Busy(m) THEN [move[m] EXCEPT !.raced = TRUE] ELSE move[m]
  BY DEF MovesRaced
<1>3. MovesRaced \in [Pull -> MoveState] BY <1>1 DEF MovesRaced
<1> QED BY <1>1, <1>2, <1>3

(* What is said of a move stays true when its destination holds more. *)
LEMMA MoveGrows ==
  ASSUME NEW c, NEW d, NEW held, NEW more, held \subseteq more, MoveRight(c, d, held)
  PROVE  MoveRight(c, d, more)
BY DEF MoveRight

(* A step of a pull or of a node alone. *)
LEMMA PullOnly ==
  ASSUME IndInv, PullInv', Grown, UNCHANGED <<mapVars, move, overtaken>>,
         UNCHANGED pull \/ \E p \in Pull : Advanced(p)
  PROVE  Good
<1>1. UNCHANGED <<shard, nodes, online, leader>> BY DEF mapVars
<1>2. MoveTypeOK' /\ MapRight' BY <1>1 DEF IndInv, MoveTypeOK, MapRight
<1>3. CopiesRight' BY <1>1 DEF IndInv, CopiesRight, Busy
<1>4. MovesRight'
  <2> SUFFICES ASSUME NEW m \in Pull PROVE MoveRight(move[m], pull'[m], DOMAIN store'[move[m].to])
    BY DEF MovesRight
  <2>1. move[m].to \in Node BY DEF IndInv, MoveTypeOK, MoveState
  <2>2. DOMAIN store[move[m].to] \subseteq DOMAIN store'[move[m].to] BY <2>1 DEF Grown
  <2>3. MoveRight(move[m], pull[m], DOMAIN store'[move[m].to])
    BY <2>2, MoveGrows DEF IndInv, MovesRight
  <2>4. CASE pull'[m] = pull[m] BY <2>3, <2>4
  <2>5. CASE Advanced(m)
    <3>1. /\ pull[m].phase \notin {"new", "done", "error"} /\ pull'[m].phase # "new"
          /\ pull'[m].phase # "error" => pull'[m].at = pull[m].at /\ pull'[m].ids = pull[m].ids
          /\ pull'[m].phase = "done" =>
               pull'[m].ids \subseteq DOMAIN store'[pull'[m].at]
                                        \cup pull'[m].missing \cup pull'[m].failed
      BY <2>5 DEF Advanced, Running, Ends
    <3> QED BY <2>3, <3>1 DEF MoveRight
  <2> QED BY <2>4, <2>5 DEF Advanced
<1>5. EpochKept BY <1>1 DEF EpochKept, IndInv, MoveTypeOK, Shard
<1>6. PlacedComplete BY DEF PlacedComplete
<1>7. EndsAccounted BY DEF EndsAccounted, Advanced, Ends
<1> QED BY <1>2, <1>3, <1>4, <1>5, <1>6, <1>7 DEF Good, IndInv

(* A change of the entry or of the members: every move under way is marked. *)
LEMMA MapChanged ==
  ASSUME IndInv, PullInv', UNCHANGED <<store, pull, overtaken>>, move' = MovesRaced,
         shard' \in Shard, online' \subseteq nodes', nodes' \subseteq Node, leader' \in Node,
         shard'.epoch >= shard.epoch, MapRight'
  PROVE  Good
<1>1. /\ MovesRaced \in [Pull -> MoveState]
      /\ \A m \in Pull :
           /\ MovesRaced[m].phase = move[m].phase /\ MovesRaced[m].to = move[m].to
           /\ MovesRaced[m].manifest = move[m].manifest
           /\ MovesRaced[m].need = move[m].need /\ MovesRaced[m].lost = move[m].lost
           /\ Busy(m) => MovesRaced[m].raced
  BY RacedType DEF IndInv, MoveTypeOK
<1>2. MoveTypeOK' BY <1>1 DEF IndInv, MoveTypeOK
<1>3. MovesRight'
  <2> SUFFICES ASSUME NEW m \in Pull
               PROVE  MoveRight(MovesRaced[m], pull[m], DOMAIN store[MovesRaced[m].to])
    BY DEF MovesRight
  <2>1. MoveRight(move[m], pull[m], DOMAIN store[move[m].to]) BY DEF IndInv, MovesRight
  <2> QED BY <1>1, <2>1 DEF MoveRight
<1>4. CopiesRight'
  <2> SUFFICES ASSUME NEW m \in Pull, Busy(m)' PROVE MovesRaced[m].raced
    BY DEF CopiesRight
  <2>1. Busy(m) BY <1>1 DEF Busy
  <2> QED BY <1>1, <2>1
<1>5. EpochKept BY DEF EpochKept
<1>6. PlacedComplete BY <1>1 DEF PlacedComplete
<1>7. EndsAccounted BY DEF EndsAccounted, Ends
<1> QED BY <1>2, <1>3, <1>4, <1>5, <1>6, <1>7 DEF Good, IndInv

(* Promotions and adopted announcements. *)
LEMMA PromotionKeeps ==
  ASSUME IndInv, NEW n \in nodes, NEW epoch \in Nat, epoch >= shard.epoch,
         shard' = Promoted(shard, n, epoch), move' = MovesRaced,
         UNCHANGED <<pullVars, nodes, online, leader, overtaken>>
  PROVE  Good
<1>1. PullInv' BY PullsLeftAlone DEF IndInv, pullVars, boundVars
<1>2. n \in Node /\ shard \in Shard BY DEF IndInv, MoveTypeOK
<1>3. /\ shard' \in Shard /\ shard'.epoch = epoch /\ shard'.primary = n
      /\ shard'.replicas = (shard.replicas \cup {shard.primary}) \ {n}
  BY <1>2, PromotedType
<1>4. MapRight' BY <1>3 DEF IndInv, MapRight
<1> QED BY <1>1, <1>3, <1>4, MapChanged DEF IndInv, MoveTypeOK, pullVars, nodeVars

(* A node that leaves or is removed hands its shard on. *)
LEMMA HandedOn ==
  ASSUME IndInv, Fault, UNCHANGED <<nodeVars, pull, writes, overtaken>>, move' = MovesRaced,
         NEW n, NEW next \in Node,
         shard' = [shard EXCEPT !.primary = next, !.replicas = (shard.replicas \ {n}) \ {next}],
         online' \subseteq nodes', nodes' \subseteq nodes, nodes \subseteq nodes' \cup {n},
         leader' \in Node, Coordinator \in nodes',
         ~overtaken => next \in nodes'
  PROVE  Good
<1>1. PullInv' BY PullsLeftAlone DEF IndInv
<1>2. /\ shard \in Shard /\ shard' \in Shard /\ shard'.primary = next
      /\ shard'.replicas = (shard.replicas \ {n}) \ {next} /\ shard'.epoch = shard.epoch
  BY DEF IndInv, MoveTypeOK, Shard
<1>3. MapRight' BY <1>2 DEF IndInv, MapRight
<1>4. shard'.epoch >= shard.epoch BY <1>2 DEF Shard
<1> QED BY <1>1, <1>2, <1>3, <1>4, MapChanged DEF IndInv, MoveTypeOK, nodeVars

(* Promotion, announcement, removal and leave of a member are Good.         *)
LEMMA MapStepKeeps ==
  ASSUME IndInv, NEW n \in Node, MapStep(n)
  PROVE  Good
<1>0. /\ shard \in Shard /\ shard.epoch \in Nat /\ shard.primary \in Node
      /\ shard.replicas \subseteq Node
      /\ online \subseteq nodes /\ nodes \subseteq Node /\ leader \in Node
      /\ Coordinator \in nodes
  BY DEF IndInv, MoveTypeOK, MapRight, Shard
<1>1. CASE PromoteShard(n)
  BY <1>0, <1>1, PromotionKeeps DEF PromoteShard
<1>2. ASSUME NEW epoch \in 0..MaxEpoch, AdoptAnnounced(n, epoch) PROVE Good
  <2>1. epoch \in Nat /\ epoch >= shard.epoch
    BY <1>0, <1>2, MoveAssumption DEF AdoptAnnounced, Adopts
  <2> QED BY <1>2, <2>1, PromotionKeeps DEF AdoptAnnounced
<1>3. CASE RemoveNode(n)
  <2> DEFINE left == shard.replicas \ {n}
  <2>1. /\ Fault /\ n \in nodes \ {Coordinator}
        /\ nodes' = nodes \ {n} /\ online' = online \ {n} /\ move' = MovesRaced
        /\ leader' \in IF leader = n THEN nodes' ELSE {leader}
        /\ UNCHANGED <<nodeVars, pull, writes, overtaken>>
    BY <1>3 DEF RemoveNode
  <2>2. PICK next \in IF shard.primary # n THEN {shard.primary}
                      ELSE IF left # {} THEN left ELSE {Coordinator} :
               shard' = [shard EXCEPT !.primary = next, !.replicas = left \ {next}]
    BY <1>3 DEF RemoveNode
  <2>3. next \in Node /\ leader' \in Node /\ Coordinator \in nodes' BY <1>0, <2>1, <2>2
  <2>4. ~overtaken => next \in nodes' BY <1>0, <2>1, <2>2 DEF IndInv, MapRight
  <2>5. online' \subseteq nodes' /\ nodes' \subseteq nodes /\ nodes \subseteq nodes' \cup {n}
    BY <1>0, <2>1
  <2> QED BY <2>1, <2>2, <2>3, <2>4, <2>5, HandedOn
<1>4. CASE LeaveNode(n)
  <2> DEFINE left == shard.replicas \ {n}
  <2>1. /\ Fault /\ n \in nodes /\ online' = online \ {n} /\ move' = MovesRaced
        /\ leader' \in IF leader = n /\ online' # {} THEN online' ELSE {leader}
        /\ UNCHANGED <<nodeVars, pull, writes, nodes, overtaken>>
    BY <1>4 DEF LeaveNode
  <2>2. PICK next \in IF shard.primary # n THEN {shard.primary}
                      ELSE IF left \cap online' # {} THEN left \cap online'
                      ELSE IF leader' # leader THEN {leader'} ELSE {n} :
               shard' = [shard EXCEPT !.primary = next, !.replicas = left \ {next}]
    BY <1>4 DEF LeaveNode
  <2>3. next \in Node /\ leader' \in Node BY <1>0, <2>1, <2>2
  <2>4. ~overtaken => next \in nodes' BY <1>0, <2>1, <2>2 DEF IndInv, MapRight
  <2>5. /\ online' \subseteq nodes' /\ nodes' \subseteq nodes /\ nodes \subseteq nodes' \cup {n}
        /\ Coordinator \in nodes'
    BY <1>0, <2>1
  <2> QED BY <2>1, <2>2, <2>3, <2>4, <2>5, HandedOn
<1> QED BY <1>1, <1>2, <1>3, <1>4 DEF MapStep

(* A move goes on, or ends without a change of the entry. *)
LEMMA MoveGoesOn ==
  ASSUME IndInv, PullInv', UNCHANGED <<store, mapVars, overtaken>>,
         NEW m \in Pull, NEW c \in MoveState, SetMove(m, c), c.phase # "placed",
         \A q \in Pull : q # m => pull'[q] = pull[q], EndsAccounted,
         MoveRight(c, pull'[m], DOMAIN store[c.to]),
         c.phase \in {"manifest", "need", "pull"} /\ ~c.raced =>
           c.to \in nodes /\ c.preview = Promoted(shard, c.to, shard.epoch)
  PROVE  Good
<1>1. UNCHANGED <<shard, nodes, online, leader>> BY DEF mapVars
<1>2. /\ move' \in [Pull -> MoveState]
      /\ \A q \in Pull : move'[q] = IF q = m THEN c ELSE move[q]
  BY DEF SetMove, IndInv, MoveTypeOK
<1>3. MoveTypeOK' /\ MapRight' BY <1>1, <1>2 DEF IndInv, MoveTypeOK, MapRight
<1>4. MovesRight' BY <1>2 DEF IndInv, MovesRight
<1>5. CopiesRight' BY <1>1, <1>2 DEF IndInv, CopiesRight, Busy
<1>6. EpochKept BY <1>1 DEF EpochKept, IndInv, MoveTypeOK, Shard
<1>7. PlacedComplete BY <1>2 DEF PlacedComplete
<1> QED BY <1>3, <1>4, <1>5, <1>6, <1>7 DEF Good, IndInv

(* The copy is written over the entry. *)
LEMMA PlaceKeeps ==
  ASSUME IndInv, PullInv', UNCHANGED store, NEW m \in Pull, Busy(m),
         \A q \in Pull : q # m => pull'[q] = pull[q], EndsAccounted,
         NEW c, Place(m, c), c.preview = move[m].preview, c.raced = move[m].raced,
         ~move[m].lost => move[m].manifest \subseteq DOMAIN store[move[m].to]
  PROVE  Good
<1>1. /\ shard' = move[m].preview /\ overtaken' = (overtaken \/ move[m].raced)
      /\ move' = [MovesRaced EXCEPT ![m] = Ended("placed")]
      /\ UNCHANGED <<nodes, online, leader>>
  BY DEF Place
<1>2. /\ MovesRaced \in [Pull -> MoveState]
      /\ \A q \in Pull :
           /\ MovesRaced[q].phase = move[q].phase /\ MovesRaced[q].to = move[q].to
           /\ MovesRaced[q].manifest = move[q].manifest
           /\ MovesRaced[q].need = move[q].need /\ MovesRaced[q].lost = move[q].lost
           /\ Busy(q) => MovesRaced[q].raced
  BY RacedType DEF IndInv, MoveTypeOK
<1>3. Ended("placed") \in MoveState /\ Ended("placed").phase = "placed" BY EndedType
<1>4. /\ move' \in [Pull -> MoveState]
      /\ \A q \in Pull : move'[q] = IF q = m THEN Ended("placed") ELSE MovesRaced[q]
  BY <1>1, <1>2, <1>3
<1>5. /\ move[m] \in MoveState /\ move[m].preview \in Shard /\ move[m].raced \in BOOLEAN
      /\ move[m].to \in Node /\ shard \in Shard /\ shard.epoch \in Nat
  BY DEF IndInv, MoveTypeOK, MoveState, Shard
<1>6. MoveTypeOK'
  <2>1. overtaken' \in BOOLEAN BY <1>1, <1>5 DEF IndInv, MoveTypeOK
  <2> QED BY <1>1, <1>4, <1>5, <2>1 DEF IndInv, MoveTypeOK
<1>7. MovesRight'
  <2> SUFFICES ASSUME NEW q \in Pull PROVE MoveRight(move'[q], pull'[q], DOMAIN store[move'[q].to])
    BY DEF MovesRight
  <2>1. CASE q = m BY <1>3, <1>4, <2>1 DEF MoveRight
  <2>2. CASE q # m
    <3>1. MoveRight(move[q], pull[q], DOMAIN store[move[q].to]) BY DEF IndInv, MovesRight
    <3>2. MoveRight(MovesRaced[q], pull[q], DOMAIN store[MovesRaced[q].to])
      BY <1>2, <3>1 DEF MoveRight
    <3> QED BY <1>4, <2>2, <3>2
  <2> QED BY <2>1, <2>2
<1>8. CopiesRight'
  <2> SUFFICES ASSUME NEW q \in Pull, Busy(q)' PROVE move'[q].raced
    BY DEF CopiesRight
  <2>1. q # m BY <1>3, <1>4 DEF Busy
  <2>2. Busy(q) BY <1>2, <1>4, <2>1 DEF Busy
  <2> QED BY <1>2, <1>4, <2>1, <2>2
<1>9. ASSUME ~overtaken'
      PROVE  /\ ~overtaken /\ move[m].to \in nodes /\ shard'.epoch = shard.epoch
             /\ shard'.primary = move[m].to
             /\ shard'.replicas = (shard.replicas \cup {shard.primary}) \ {move[m].to}
  <2>1. ~overtaken /\ ~move[m].raced BY <1>1, <1>9
  <2>2. move[m].to \in nodes /\ shard' = Promoted(shard, move[m].to, shard.epoch)
    BY <1>1, <2>1 DEF IndInv, CopiesRight
  <2> QED BY <1>5, <2>1, <2>2, PromotedType
<1>10. MapRight' BY <1>1, <1>9 DEF IndInv, MapRight
<1>11. EpochKept BY <1>5, <1>9 DEF EpochKept
<1>12. PlacedComplete BY <1>2, <1>4 DEF PlacedComplete
<1> QED BY <1>6, <1>7, <1>8, <1>10, <1>11, <1>12 DEF Good, IndInv

(* A step of the move c that leaves the pulls alone ends no pull. *)
LEMMA NoPullEnds ==
  ASSUME UNCHANGED pull
  PROVE  EndsAccounted
BY DEF EndsAccounted, Ends

(* The first calls of a move. *)
LEMMA MoveCallsKeep ==
  ASSUME IndInv, NEW m \in Pull,
         (\E n \in Node : MoveStart(m, n)) \/ MoveManifest(m) \/ MoveNeed(m)
  PROVE  Good
<1>0. /\ move[m] \in MoveState /\ move[m].to \in Node /\ move[m].from \in Node
      /\ move[m].preview \in Shard /\ shard \in Shard /\ shard.primary \in Node
      /\ shard.epoch \in Nat /\ move[m].manifest \subseteq Value
  BY DEF IndInv, MoveTypeOK, MoveState, Shard
<1>1. MoveRight(move[m], pull[m], DOMAIN store[move[m].to]) BY DEF IndInv, MovesRight
<1>2. ASSUME UNCHANGED pullVars
      PROVE  UNCHANGED <<store, pull>> /\ PullInv' /\ EndsAccounted
  BY <1>2, PullsLeftAlone, NoPullEnds DEF IndInv, pullVars, nodeVars, boundVars
<1>3. ASSUME NEW n \in Node, MoveStart(m, n) PROVE Good
  <2> DEFINE p == Promoted(shard, n, shard.epoch)
             c == [NewMove EXCEPT !.phase = "manifest", !.to = n, !.from = shard.primary,
                                  !.preview = p]
  <2>1. /\ move[m].phase = "new" /\ n \in nodes /\ SetMove(m, c)
        /\ UNCHANGED <<pullVars, mapVars, overtaken>>
    BY <1>3 DEF MoveStart
  <2>2. p \in Shard BY <1>0, PromotedType
  <2> HIDE DEF p
  <2>3. /\ c \in MoveState /\ c.phase = "manifest" /\ c.to = n /\ c.preview = p /\ c.manifest = {}
    BY <1>0, <2>2, NewMoveType DEF MoveState, MovePhase
  <2> HIDE DEF c
  <2>4. pull[m].phase = "new" BY <1>1, <2>1 DEF MoveRight
  <2>5. MoveRight(c, pull[m], DOMAIN store[c.to]) BY <2>3, <2>4 DEF MoveRight
  <2> QED BY <1>2, <2>1, <2>3, <2>5, MoveGoesOn DEF p
<1>4. CASE MoveManifest(m)
  <2> DEFINE c == [move[m] EXCEPT !.manifest = rows[move[m].from]]
             d == [c EXCEPT !.phase = "need"]
  <2>1. /\ move[m].phase = "manifest" /\ UNCHANGED pullVars
        /\ \/ Place(m, c)
           \/ SetMove(m, d) /\ UNCHANGED <<mapVars, overtaken>>
    BY <1>4 DEF MoveManifest
  <2>2. rows[move[m].from] \subseteq Value BY <1>0 DEF IndInv, PullInv, PullTypeOK
  <2>3. /\ c.preview = move[m].preview /\ c.raced = move[m].raced
        /\ d \in MoveState /\ d.phase = "need" /\ d.to = move[m].to
        /\ d.preview = move[m].preview /\ d.raced = move[m].raced
    BY <1>0, <2>2 DEF MoveState, MovePhase
  <2> HIDE DEF c, d
  <2>4. pull[m].phase = "new" /\ move[m].manifest = {} BY <1>1, <2>1 DEF MoveRight
  <2>5. Busy(m) BY <2>1 DEF Busy
  <2>6. CASE Place(m, c) BY <1>2, <2>1, <2>3, <2>4, <2>5, <2>6, PlaceKeeps
  <2>7. CASE SetMove(m, d) /\ UNCHANGED <<mapVars, overtaken>>
    <3>1. MoveRight(d, pull[m], DOMAIN store[d.to]) BY <2>3, <2>4 DEF MoveRight
    <3>2. ~d.raced => d.to \in nodes /\ d.preview = Promoted(shard, d.to, shard.epoch)
      BY <2>3, <2>5 DEF IndInv, CopiesRight
    <3> QED BY <1>2, <2>1, <2>3, <2>7, <3>1, <3>2, MoveGoesOn
  <2> QED BY <2>1, <2>6, <2>7
<1>5. CASE MoveNeed(m)
  <2> DEFINE need == move[m].manifest \ DOMAIN store[move[m].to]
             c == [move[m] EXCEPT !.need = need]
             d == [c EXCEPT !.phase = "pull"]
  <2>1. /\ move[m].phase = "need" /\ UNCHANGED pullVars
        /\ \/ c.need = {} /\ Place(m, c)
           \/ SetMove(m, d) /\ UNCHANGED <<mapVars, overtaken>>
    BY <1>5 DEF MoveNeed
  <2>2. need \subseteq Value BY <1>0
  <2>3. /\ c.preview = move[m].preview /\ c.raced = move[m].raced /\ c.need = need
        /\ d \in MoveState /\ d.phase = "pull" /\ d.to = move[m].to
        /\ d.preview = move[m].preview /\ d.raced = move[m].raced
        /\ d.need = need /\ d.manifest = move[m].manifest
    BY <1>0, <2>2 DEF MoveState, MovePhase
  <2> HIDE DEF c, d
  <2>4. pull[m].phase = "new" BY <1>1, <2>1 DEF MoveRight
  <2>5. Busy(m) BY <2>1 DEF Busy
  <2>6. CASE c.need = {} /\ Place(m, c)
    <3>1. move[m].manifest \subseteq DOMAIN store[move[m].to] BY <2>3, <2>6
    <3> QED BY <1>2, <2>1, <2>3, <2>5, <2>6, <3>1, PlaceKeeps
  <2>7. CASE SetMove(m, d) /\ UNCHANGED <<mapVars, overtaken>>
    <3>1. MoveRight(d, pull[m], DOMAIN store[d.to]) BY <2>3, <2>4 DEF MoveRight
    <3>2. ~d.raced => d.to \in nodes /\ d.preview = Promoted(shard, d.to, shard.epoch)
      BY <2>3, <2>5 DEF IndInv, CopiesRight
    <3> QED BY <1>2, <2>1, <2>3, <2>7, <3>1, <3>2, MoveGoesOn
  <2> QED BY <2>1, <2>6, <2>7
<1> QED BY <1>3, <1>4, <1>5

(* objects.pull starts on the destination. *)
LEMMA MovePullKeeps ==
  ASSUME IndInv, NEW m \in Pull, MovePull(m)
  PROVE  Good
<1>0. /\ move[m] \in MoveState /\ move[m].to \in Node /\ move[m].from \in Node
      /\ move[m].need \in SUBSET Value
  BY DEF IndInv, MoveTypeOK, MoveState
<1>1. /\ move[m].phase = "pull" /\ PullStart(m, move[m].to, move[m].from, move[m].need)
      /\ UNCHANGED <<mapVars, move, overtaken>>
  BY DEF MovePull
<1>2. /\ PullInv' /\ UNCHANGED store
      /\ \A q \in Pull : q # m => pull'[q] = pull[q]
      /\ pull'[m].phase \notin {"new", "error"}
      /\ pull'[m].at = move[m].to /\ pull'[m].ids = move[m].need
      /\ Ends(pull'[m], DOMAIN store[move[m].to])
  BY <1>0, <1>1, PullStartKeeps DEF IndInv
<1>3. EndsAccounted BY <1>2 DEF EndsAccounted, Ends
<1>4. MoveRight(move[m], pull[m], DOMAIN store[move[m].to]) BY DEF IndInv, MovesRight
<1>5. MoveRight(move[m], pull'[m], DOMAIN store[move[m].to])
  BY <1>1, <1>2, <1>4 DEF MoveRight, Ends
<1>6. SetMove(m, move[m]) BY <1>1 DEF SetMove, IndInv, MoveTypeOK
<1>7. ~move[m].raced =>
        move[m].to \in nodes /\ move[m].preview = Promoted(shard, move[m].to, shard.epoch)
  BY <1>1 DEF IndInv, CopiesRight, Busy
<1> QED BY <1>0, <1>1, <1>2, <1>3, <1>5, <1>6, <1>7, MoveGoesOn

(* The call of the pull is forgotten with the move. *)
LEMMA PullForgotten ==
  ASSUME IndInv, NEW m \in Pull, SetPull(m, [NewPull(Source) EXCEPT !.phase = "done"]),
         UNCHANGED <<nodeVars, boundVars>>
  PROVE  /\ PullInv' /\ UNCHANGED store /\ EndsAccounted
         /\ \A q \in Pull : q # m => pull'[q] = pull[q]
<1> DEFINE d == [NewPull(Source) EXCEPT !.phase = "done"]
<1>1. d \in PullState /\ d.phase = "done" /\ d.ids = {}
  BY NewPullType, MoveAssumption DEF PullPhase
<1>2. SetPull(m, d) OBVIOUS
<1> HIDE DEF d
<1>3. PullRight(d, DOMAIN store[d.at]) BY <1>1 DEF PullRight
<1>4. UNCHANGED <<nodeVars, writes>> /\ faults' \in 0..MaxFaults /\ UNCHANGED store
  BY DEF boundVars, nodeVars, IndInv, PullInv, PullTypeOK
<1>5. PullInv' /\ \A q \in Pull : pull'[q] = IF q = m THEN d ELSE pull[q]
  BY <1>1, <1>2, <1>3, <1>4, PullMovesAlone DEF IndInv
<1>6. EndsAccounted BY <1>1, <1>5 DEF EndsAccounted, Ends
<1> QED BY <1>4, <1>5, <1>6

(* The end of a move. *)
LEMMA MoveEndsKeep ==
  ASSUME IndInv, NEW m \in Pull, MovePlace(m) \/ MoveIncomplete(m) \/ MoveFails(m)
  PROVE  Good
<1>0. Ended("failed") \in MoveState /\ Ended("failed").phase = "failed" BY EndedType
<1>1. CASE MovePlace(m)
  <2>1. /\ move[m].phase = "pull" /\ Place(m, move[m])
        /\ pull[m].phase = "done" /\ pull[m].missing = {} /\ pull[m].failed = {}
    BY <1>1 DEF MovePlace, Transferred
  <2>2. /\ PullInv' /\ UNCHANGED store /\ EndsAccounted
        /\ \A q \in Pull : q # m => pull'[q] = pull[q]
    BY <1>1, PullForgotten DEF MovePlace
  <2>3. MoveRight(move[m], pull[m], DOMAIN store[move[m].to]) BY DEF IndInv, MovesRight
  <2>4. ~move[m].lost => move[m].manifest \subseteq DOMAIN store[move[m].to]
    BY <2>1, <2>3 DEF MoveRight
  <2>5. Busy(m) BY <2>1 DEF Busy
  <2> QED BY <2>1, <2>2, <2>4, <2>5, PlaceKeeps
<1>2. CASE MoveIncomplete(m)
  <2>1. SetMove(m, Ended("failed")) /\ UNCHANGED <<mapVars, overtaken>>
    BY <1>2 DEF MoveIncomplete
  <2>2. /\ PullInv' /\ UNCHANGED store /\ EndsAccounted
        /\ \A q \in Pull : q # m => pull'[q] = pull[q]
    BY <1>2, PullForgotten DEF MoveIncomplete
  <2>3. MoveRight(Ended("failed"), pull'[m], DOMAIN store[Ended("failed").to])
    BY <1>0 DEF MoveRight
  <2> QED BY <1>0, <2>1, <2>2, <2>3, MoveGoesOn
<1>3. CASE MoveFails(m)
  <2>1. /\ Fault /\ SetMove(m, Ended("failed"))
        /\ UNCHANGED <<nodeVars, pull, writes, mapVars, overtaken>>
    BY <1>3 DEF MoveFails
  <2>2. PullInv' /\ EndsAccounted BY <2>1, PullsLeftAlone, NoPullEnds DEF IndInv
  <2>3. MoveRight(Ended("failed"), pull'[m], DOMAIN store[Ended("failed").to])
    BY <1>0 DEF MoveRight
  <2> QED BY <1>0, <2>1, <2>2, <2>3, MoveGoesOn DEF nodeVars
<1> QED BY <1>1, <1>2, <1>3

(* A restart ends the moves of the coordinator, and the moves whose         *)
(* destination it hits know.                                                *)
LEMMA RestartNodeKeeps ==
  ASSUME IndInv, NEW n \in Node, RestartNode(n)
  PROVE  Good
<1> DEFINE late(m) == [move[m] EXCEPT !.lost = @ \/ (n = move[m].to /\ move[m].phase = "pull")]
<1>1. /\ Restart(n) /\ UNCHANGED <<mapVars, overtaken>>
      /\ UNCHANGED <<shard, nodes, online, leader>>
      /\ move' = [m \in Pull |-> IF ~Busy(m) THEN move[m]
                                 ELSE IF n = Coordinator THEN Ended("failed") ELSE late(m)]
  BY DEF RestartNode, mapVars
<1>2. /\ PullInv' /\ \A k \in Node : k # n => store'[k] = store[k]
      /\ \A p \in Pull : IF Running(p) /\ pull[p].at = n THEN pull'[p].phase = "error"
                                                        ELSE pull'[p] = pull[p]
  BY <1>1, RestartKeeps DEF IndInv
<1>3. Ended("failed") \in MoveState /\ Ended("failed").phase = "failed" BY EndedType
<1>4. ASSUME NEW m \in Pull
      PROVE  /\ move[m] \in MoveState /\ late(m) \in MoveState
             /\ late(m).phase = move[m].phase /\ late(m).to = move[m].to
             /\ late(m).manifest = move[m].manifest /\ late(m).need = move[m].need
             /\ late(m).preview = move[m].preview /\ late(m).raced = move[m].raced
             /\ ~late(m).lost => ~move[m].lost /\ ~(n = move[m].to /\ move[m].phase = "pull")
  <2>1. move[m] \in MoveState BY DEF IndInv, MoveTypeOK
  <2> QED BY <2>1 DEF MoveState
<1> HIDE DEF late
<1>5. /\ move' \in [Pull -> MoveState]
      /\ \A m \in Pull : move'[m] = IF ~Busy(m) THEN move[m]
                                    ELSE IF n = Coordinator THEN Ended("failed") ELSE late(m)
  BY <1>1, <1>3, <1>4
<1>6. MoveTypeOK' /\ MapRight' BY <1>1, <1>5 DEF IndInv, MoveTypeOK, MapRight
<1>7. MovesRight'
  <2> SUFFICES ASSUME NEW m \in Pull
               PROVE  MoveRight(move'[m], pull'[m], DOMAIN store'[move'[m].to])
    BY DEF MovesRight
  <2>1. MoveRight(move[m], pull[m], DOMAIN store[move[m].to]) BY DEF IndInv, MovesRight
  <2>2. move[m].to \in Node BY <1>4 DEF MoveState
  <2>3. CASE ~Busy(m)
    <3>1. move'[m] = move[m] /\ move[m].phase \notin {"manifest", "need", "pull"}
      BY <1>5, <2>3 DEF Busy
    <3>2. move[m].phase = "new" => pull'[m].phase = "new"
      BY <1>2, <2>1 DEF MoveRight, Running
    <3> QED BY <3>1, <3>2 DEF MoveRight
  <2>4. CASE Busy(m) /\ n = Coordinator BY <1>3, <1>5, <2>4 DEF MoveRight
  <2>5. CASE Busy(m) /\ n # Coordinator
    <3>1. move'[m] = late(m) BY <1>5, <2>5
    <3>2. pull[m].phase = "new" => pull'[m].phase = "new" BY <1>2 DEF Running
    <3>3. move[m].phase \in {"manifest", "need"} => MoveRight(late(m), pull'[m], DOMAIN store'[late(m).to])
      BY <1>4, <2>1, <3>2 DEF MoveRight
    <3>4. ASSUME move[m].phase = "pull"
          PROVE  MoveRight(late(m), pull'[m], DOMAIN store'[late(m).to])
      <4>1. pull'[m].phase = "error" \/ pull'[m] = pull[m] BY <1>2
      <4>2. ~late(m).lost => ~move[m].lost /\ store'[move[m].to] = store[move[m].to]
        BY <1>2, <1>4, <2>2, <3>4
      <4> QED BY <1>4, <2>1, <3>4, <4>1, <4>2 DEF MoveRight
    <3> QED BY <2>5, <3>1, <3>3, <3>4 DEF Busy
  <2> QED BY <2>3, <2>4, <2>5
<1>8. CopiesRight'
  <2> SUFFICES ASSUME NEW m \in Pull, Busy(m)', ~move'[m].raced
               PROVE  /\ move'[m].to \in nodes
                      /\ move'[m].preview = Promoted(shard, move'[m].to, shard.epoch)
    BY <1>1 DEF CopiesRight
  <2>1. Busy(m) /\ move'[m] = late(m) BY <1>3, <1>5 DEF Busy
  <2> QED BY <1>4, <2>1 DEF IndInv, CopiesRight
<1>9. EpochKept BY <1>1 DEF EpochKept, IndInv, MoveTypeOK, Shard
<1>10. PlacedComplete
  <2>1. \A m \in Pull : move'[m].phase \in {move[m].phase, "failed"} BY <1>3, <1>4, <1>5
  <2> QED BY <2>1 DEF PlacedComplete
<1>11. EndsAccounted
  <2>1. \A p \in Pull : pull'[p].phase \in {pull[p].phase, "error"} BY <1>2
  <2> QED BY <2>1 DEF EndsAccounted, Ends
<1> QED BY <1>2, <1>6, <1>7, <1>8, <1>9, <1>10, <1>11 DEF Good, IndInv

-----------------------------------------------------------------------------
(* The theorems *)

(* The invariant holds initially. *)
LEMMA IndInit == Init => IndInv
<1> SUFFICES ASSUME Init PROVE IndInv
  OBVIOUS
<1>1. /\ NewPull(Source) \in PullState /\ NewPull(Source).phase = "new"
  <2>1. NoEntries \in Store BY RebuiltGrounded DEF NoEntries
  <2> QED BY <2>1, MoveAssumption DEF NewPull, PullState, PullPhase
<1>2. PullTypeOK
  <2> DEFINE ids(n) == IF n = Source THEN Interned ELSE {}
  <2>1. \A n \in Node : ids(n) \in SUBSET Value BY MoveAssumption
  <2>2. \A n \in Node : store[n] = Rebuilt(ids(n)) BY DEF Init
  <2>3. store = [n \in Node |-> Rebuilt(ids(n))] BY DEF Init
  <2>4. \A n \in Node : Rebuilt(ids(n)) \in Store BY <2>1, RebuiltGrounded
  <2>5. store \in [Node -> Store] BY <2>3, <2>4
  <2> QED BY <1>1, <2>5, PullAssumption DEF Init, PullTypeOK
<1>3. StoresResolve
  <2>1. \A n \in Node : Grounded(store[n], DOMAIN store[n], {})
    BY RebuiltGrounded, MoveAssumption DEF Init
  <2> QED BY <1>2, <2>1, StoresGrounded
<1>4. PullsRight BY <1>1 DEF Init, PullsRight, PullRight
<1>5. MoveTypeOK BY NewMoveType, MoveAssumption DEF Init, MoveTypeOK
<1>6. NewMove.phase = "new" BY DEF NewMove
<1>7. MovesRight BY <1>1, <1>6 DEF Init, MovesRight, MoveRight
<1>8. MapRight BY MoveAssumption DEF Init, MapRight, FirstShard
<1>9. CopiesRight BY <1>6 DEF Init, CopiesRight, Busy
<1> QED BY <1>2, <1>3, <1>4, <1>5, <1>7, <1>8, <1>9 DEF IndInv, PullInv

(* Every step is Good: it keeps IndInv and the three action properties.     *)
LEMMA StepGood ==
  ASSUME IndInv, [Next]_vars
  PROVE  Good
<1>1. ASSUME NEW m \in Pull, MoveStep(m) PROVE Good
  BY <1>1, MoveCallsKeep, MovePullKeeps, MoveEndsKeep DEF MoveStep
<1>2. ASSUME NEW m \in Pull, PullStep(m) \/ FetchFails(m), UNCHANGED <<mapVars, move, overtaken>>
      PROVE  Good
  BY <1>2, PullStepKeeps, FetchFailsKeeps, PullOnly DEF IndInv
<1>3. ASSUME NEW n \in Node, NodeStep(n), UNCHANGED <<mapVars, move, overtaken>> PROVE Good
  <2>1. PullInv' /\ UNCHANGED pull /\ Grown BY <1>3, NodeStepKeeps DEF IndInv, Grown
  <2> QED BY <1>3, <2>1, PullOnly
<1>4. ASSUME NEW n \in Node, MapStep(n) \/ RestartNode(n) PROVE Good
  BY <1>4, MapStepKeeps, RestartNodeKeeps
<1>5. CASE UNCHANGED vars
  <2>1. UNCHANGED <<nodeVars, pull, writes, faults, mapVars, move, overtaken>>
    BY <1>5 DEF vars, pullVars, boundVars
  <2>2. PullInv' BY <2>1, PullsLeftAlone DEF IndInv
  <2>3. Grown BY <2>1 DEF Grown, nodeVars
  <2> QED BY <2>1, <2>2, <2>3, PullOnly
<1> QED BY <1>1, <1>2, <1>3, <1>4, <1>5 DEF Next

(* The invariant holds in every behaviour. *)
LEMMA Inductive == Spec => []IndInv
<1>1. IndInv /\ [Next]_vars => IndInv' BY StepGood DEF Good
<1> QED BY IndInit, <1>1, PTL DEF Spec

(* The state of the moves and of their pulls keeps its type. *)
THEOREM TypeCorrect == Spec => []TypeOK
<1>1. IndInv => TypeOK BY DEF IndInv, PullInv, MoveTypeOK, TypeOK
<1> QED BY Inductive, <1>1, PTL

(* Every value a node holds can be materialised, for every number of nodes, *)
(* values and pulls: entries verified under one lock are imported under     *)
(* another, and what happened in between (writes, compaction, another       *)
(* pull's import, a restart) never leaves a patch without its base.         *)
THEOREM ValuesResolve == Spec => []StoresResolve
<1>1. IndInv => StoresResolve BY DEF IndInv, PullInv
<1> QED BY Inductive, <1>1, PTL

(* A pull that returns has stored, or reported, every id it was asked for. *)
THEOREM PullsAccount == Spec => PullAccounts
<1>1. ASSUME IndInv, [Next]_vars
      PROVE  [\A p \in Pull : pull'[p].phase = "done" /\ pull[p].phase # "done" =>
                pull'[p].ids \subseteq DOMAIN store'[pull'[p].at]
                                         \cup pull'[p].missing \cup pull'[p].failed]_pullVars
  BY <1>1, StepGood DEF Good, EndsAccounted, Ends
<1> QED BY Inductive, <1>1, PTL DEF Spec, PullAccounts

(* A move makes its destination primary only when that holds every value of *)
(* the manifest, unless the destination restarted since it was asked what   *)
(* it needs.                                                                *)
THEOREM MovesComplete == Spec => MovedComplete
<1>1. ASSUME IndInv, [Next]_vars
      PROVE  [\A m \in Pull :
                move'[m].phase = "placed" /\ move[m].phase # "placed" /\ ~move[m].lost =>
                  move[m].manifest \subseteq DOMAIN store[move[m].to]]_vars
  BY <1>1, StepGood DEF Good, PlacedComplete
<1> QED BY Inductive, <1>1, PTL DEF Spec, MovedComplete

(* Until a move has written its copy over a change it did not see, the      *)
(* shard's epoch never goes back and its entry names members only, for      *)
(* every number of concurrent moves, promotions, announcements and          *)
(* departures.                                                              *)
THEOREM ShardMapSound == Spec => ShardMapKept
<1>1. ASSUME IndInv, [Next]_vars
      PROVE  [~overtaken' => /\ shard'.epoch >= shard.epoch
                             /\ {shard'.primary} \cup shard'.replicas \subseteq nodes'
                             /\ shard'.primary \notin shard'.replicas]_vars
  BY <1>1, StepGood DEF Good, EpochKept, IndInv, MapRight
<1> QED BY Inductive, <1>1, PTL DEF Spec, ShardMapKept

=============================================================================
