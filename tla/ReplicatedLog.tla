--------------------------- MODULE ReplicatedLog ---------------------------
(***************************************************************************)
(* What the replication of a SkeinDB cluster promises while one node stays *)
(* primary and its op-log reaches back to every replica: the accepted      *)
(* writes have one order, the databases of a replica hold a prefix of it,  *)
(* a prefix never shrinks, and the commit index only covers writes that    *)
(* are in the databases of a majority.  How writes travel (fan-out,        *)
(* catch-up, late and repeated calls) does not show.                       *)
(***************************************************************************)
EXTENDS Integers, Sequences, FiniteSets

CONSTANTS Write,    \* client writes
          Replica   \* the nodes other than the primary

VARIABLES order,     \* the accepted writes, in the order of their positions
          copy,      \* copy[r]: the writes in the databases of r
          committed  \* the commit index

vars == <<order, copy, committed>>

-----------------------------------------------------------------------------
Init == order = <<>> /\ copy = [r \in Replica |-> {}] /\ committed = 0

(* The primary gives a write the next position. *)
Accept(w) ==
  /\ \A i \in 1..Len(order) : order[i] # w
  /\ order' = Append(order, w)
  /\ UNCHANGED <<copy, committed>>

(* A replica takes over the first write it lacks. *)
Replicate(r) ==
  /\ Cardinality(copy[r]) < Len(order)
  /\ copy' = [copy EXCEPT ![r] = @ \cup {order[Cardinality(@) + 1]}]
  /\ UNCHANGED <<order, committed>>

(* The nodes that hold the first n writes, the primary among them. *)
Holders(n) == Cardinality({r \in Replica : Cardinality(copy[r]) >= n}) + 1

Commit(n) ==
  /\ n > committed /\ n <= Len(order)
  /\ 2 * Holders(n) > Cardinality(Replica) + 1
  /\ committed' = n
  /\ UNCHANGED <<order, copy>>

Next ==
  \/ \E w \in Write : Accept(w)
  \/ \E r \in Replica : Replicate(r)
  \/ \E n \in 1..Cardinality(Write) : Commit(n)

Spec == Init /\ [][Next]_vars

=============================================================================
