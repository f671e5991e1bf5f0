----------------------------- MODULE ValueStore -----------------------------
(***************************************************************************)
(* The content-addressed value store of a node (skeindb-core) and the      *)
(* check of transferred entries.  A store maps every id it holds to the    *)
(* base of the entry's patch, None for an entry with the full bytes.       *)
(*                                                                         *)
(* A value is its own id: value_id is taken as injective.  The one         *)
(* exception is an embedding, stored under an id that starts with its      *)
(* bucket, so that its bytes do not hash to its id.  A patch is built      *)
(* against the bytes of its base and its result is checked against the id, *)
(* so an entry gives its value or an error, never other bytes.  Skip       *)
(* patches shorten a chain without changing what it yields and are left    *)
(* out, as are sizes: whether the policy stores a patch is a free choice.  *)
(***************************************************************************)
EXTENDS Integers, FiniteSets

CONSTANTS Value,      \* values, named by their ids
          Embedding,  \* the values that are embeddings
          None        \* no base: the entry holds the full bytes

ASSUME ValueAssumption == /\ IsFiniteSet(Value) /\ Embedding \subseteq Value
                          /\ None \notin Value

Store == UNION {[ids -> Value \cup {None}] : ids \in SUBSET Value}

(* The entries of s, and those of t with an id s does not hold. *)
Merge(s, t) ==
  [v \in DOMAIN s \cup DOMAIN t |-> IF v \in DOMAIN s THEN s[v] ELSE t[v]]

Without(s, ids) == [v \in DOMAIN s \ ids |-> s[v]]

Entry(v, base) == [w \in {v} |-> base]

(* put_with_id: a value that is there stays as it is stored. *)
Put(s, v) == Merge(s, Entry(v, None))

(* The least set of values that Step maps to itself, for a monotonic Step:  *)
(* what is in every set that Step does not lead out of.                     *)
Least(Step(_)) ==
  {v \in Value : \A S \in SUBSET Value : Step(S) \subseteq S => v \in S}

(* The ids that materialize returns bytes for: their chain ends in an entry *)
(* with the full bytes.                                                     *)
Resolvable(s) == Least(LAMBDA S : {v \in DOMAIN s : s[v] = None \/ s[v] \in S})

(* put_with_delta: the forms a value given with a base may be stored in. *)
PutForms(s, v, base) ==
  {None} \cup IF v \notin Embedding /\ base # v /\ base \in Resolvable(s) THEN {base} ELSE {}

PutWithDelta(s, v, form) == Merge(s, Entry(v, form))

(* compact_deltas rewrites the chosen patches to full bytes. *)
Rewritten(s, ids) == [v \in DOMAIN s |-> IF v \in ids THEN None ELSE s[v]]

(* Mutant: the tables are not read back. *)
RebuiltEmpty(values) == [v \in {} |-> None]

(* rebuild_value_store_from_tables_best_effort: the store is in memory only *)
(* and starts with the values of the live rows.                             *)
Rebuilt(values) == [v \in values |-> None]

-----------------------------------------------------------------------------
(* Transferred entries `staged', looked at against the local store s.       *)

(* Mutant: an entry whose base is nowhere yet counts as verified. *)
VerifiedEarly(staged, s) ==
  {v \in DOMAIN staged : staged[v] # None \/ v \notin Embedding}

(* The entries that rebuild to bytes with their id, from staged entries     *)
(* first and from the local store otherwise.                                *)
Verified(staged, s) ==
  Least(LAMBDA S : {v \in DOMAIN staged :
    IF staged[v] = None THEN v \notin Embedding
    ELSE IF staged[v] \in DOMAIN staged THEN staged[v] \in S
    ELSE staged[v] \in Resolvable(s)})

(* The entries that have to wait: the chain ends at an id nobody has. *)
Deferred(staged, s) ==
  Least(LAMBDA S : {v \in DOMAIN staged :
    /\ staged[v] # None
    /\ IF staged[v] \in DOMAIN staged THEN staged[v] \in S ELSE staged[v] \notin DOMAIN s})

Invalid(staged, s) == DOMAIN staged \ (Verified(staged, s) \cup Deferred(staged, s))

(* The bases that are neither staged nor held. *)
MissingBases(staged, s) ==
  {staged[v] : v \in DOMAIN staged} \ (DOMAIN staged \cup DOMAIN s \cup {None})

(* import_transfer_entries fails, and leaves what it inserted, when the     *)
(* store then has an entry that does not resolve.                           *)
ImportFails(s, entries) ==
  ~(DOMAIN entries \subseteq DOMAIN s) /\ Resolvable(Merge(s, entries)) # DOMAIN Merge(s, entries)
=============================================================================
