-------------------------- MODULE ChangeFeed_proofs --------------------------
(***************************************************************************)
(* Proofs about ChangeFeed, for every set of tables and subscriptions, any *)
(* retention and any number of statements and crashes.                     *)
(***************************************************************************)
EXTENDS ChangeFeed, Subsequence_proofs

-----------------------------------------------------------------------------
(* The inductive invariant *)

(* The events and records that statements up to now can have made. *)
EventNow == [seq : 1..Stmts, stmt : 1..Stmts, tab : Table]

RecordNow == [id : Nat \ {0}, stmt : 1..Stmts, prev : Nat]

SubType == [state : {"new", "open", "closed"}, on : SUBSET Table, from : Nat, acked : 0..Stmts,
            paused : BOOLEAN, sink : Nat, sinks : BOOLEAN]

HasTorn(log) == \E i \in 1..Len(log) : log[i] = Torn

(* The number f of the last record of a snapshot, the newer records of a    *)
(* sidecar, and both together: f is "seq" for events and "id" for the       *)
(* records of the chain.                                                    *)
LastOf(f, base) == IF base = <<>> THEN 0 ELSE Last(base)[f]

Newer(f, base, tail) == {i \in 1..Len(tail) : tail[i][f] > LastOf(f, base)}

Over(f, base, log) == base \o Selected(Readable(log), Newer(f, base, Readable(log)))

EventsWith(log) == Over("seq", snap, log)

RecordsWith(log) == Over("id", chainSnap, log)

(* The sidecars without the record that is being appended, which a crash    *)
(* may tear or drop.                                                        *)
WholeFlog == IF stage = "changed" THEN Front(flog) ELSE flog

WholeChainFlog == IF stage = "chained" THEN Front(chainFlog) ELSE chainFlog

FullTypeOK ==
  /\ snap \in Seq(EventNow) /\ flog \in Seq(EventNow \cup {Torn}) /\ changes \in Seq(EventNow)
  /\ Len(changes) <= Retention
  /\ chainSnap \in Seq(RecordNow) /\ chainFlog \in Seq(RecordNow \cup {Torn})
  /\ chain \in Seq(RecordNow)
  /\ hist \in Seq(EventNow) /\ Len(hist) <= MaxStmts
  /\ committed \subseteq 1..Stmts
  /\ subs \in [Sub -> SubType]
  /\ file \in [Sub -> Seq(EventNow)]
  /\ stage \in Stage /\ dirty \in BOOLEAN /\ lost \in BOOLEAN
  /\ cursor \in [Sub -> 0..Stmts] /\ known \in [Sub -> SUBSET (1..Stmts)]
  /\ stage = "drain" => draining \in Sub \X (1..Stmts)

(* Numbered from 1, each record chained to the one before it. *)
Linked(c) ==
  \A i \in 1..Len(c) : /\ c[i].id = i
                       /\ c[i].prev = IF i = 1 THEN 0 ELSE c[i-1].stmt

StmtsOf(c) == {c[i].stmt : i \in 1..Len(c)}

(* The chain on disk, as far as it can be read, is linked, and unless       *)
(* records are behind a torn one it is the chain in memory and has every    *)
(* committed statement.                                                     *)
ChainRight ==
  /\ Linked(chainSnap) /\ Linked(RecordsWith(WholeChainFlog)) /\ Linked(RecordsWith(chainFlog))
  /\ ~lost /\ ~Behind(WholeChainFlog) => committed \subseteq StmtsOf(RecordsWith(WholeChainFlog))
  /\ stage # "down" =>
       /\ Linked(chain)
       /\ \A i \in 1..Len(Readable(chainFlog)) : Readable(chainFlog)[i].id <= Len(chain)
       /\ ~Behind(chainFlog) => chain = RecordsWith(chainFlog)
       /\ ~lost => committed \subseteq StmtsOf(chain)
  /\ stage \in {"chain", "cut"} => chainSnap = chain
  /\ stage = "chained" => /\ chain # <<>> /\ chainFlog # <<>> /\ Last(chainFlog) = Last(chain)
                          /\ Last(chain).stmt = Stmts

(* Consecutive sequence numbers, up to the last one. *)
Consecutive(log) ==
  \A i \in 1..Len(log) : log[i].seq = LastSeq(log) - Len(log) + i

(* No offset is beyond the log. *)
OffsetsWithin(log) ==
  \A s \in Sub : /\ cursor[s] <= LastSeq(log) /\ subs[s].acked <= LastSeq(log)
                 /\ subs[s].sink <= LastSeq(log)

(* A committed change is in the log, or before it. *)
CommittedIn(log) ==
  \A i \in committed : /\ hist[i].seq <= LastSeq(log)
                       /\ hist[i].seq > LastSeq(log) - Len(log) => hist[i] \in Range(log)

(* Events of s in the log up to an offset are in its sink file. *)
Drained(s, log, upto) ==
  \A e \in Range(log) : e.tab \in subs[s].on /\ e.seq > subs[s].from /\ e.seq <= upto
                          => e \in Range(file[s])

SinksOf(log) == \A s \in Sub : Open(s) => Drained(s, log, subs[s].sink)

Serves(log) == OffsetsWithin(log) /\ CommittedIn(log) /\ SinksOf(log)

(* The change log on disk, as far as it can be read, has consecutive        *)
(* numbers; unless events are behind a torn record it gives the change log  *)
(* in memory, and serves the consumers as well.                             *)
FeedRight ==
  /\ Consecutive(snap) /\ Consecutive(EventsWith(WholeFlog)) /\ Consecutive(EventsWith(flog))
  /\ ~lost /\ ~Behind(WholeFlog) => Serves(Trim(EventsWith(WholeFlog)))
  /\ stage # "down" =>
       /\ Consecutive(changes) /\ changeSeq = LastSeq(changes)
       /\ \A i \in 1..Len(Readable(flog)) : Readable(flog)[i].seq <= changeSeq
       /\ ~Behind(flog) => changes = Trim(EventsWith(flog))
       /\ ~lost => Serves(changes)
  /\ stage = "down" => changes = <<>> /\ changeSeq = 0
  /\ stage \in {"snapshot", "chain"} => snap = changes

(* The statement that is being executed has the last event, which no        *)
(* consumer has seen.                                                       *)
InProgress ==
  /\ stage \in {"changed", "chained"} =>
       /\ Stmts > 0 /\ changes # <<>> /\ Last(changes) = hist[Stmts]
       /\ Stmts \notin committed
       /\ ~lost => \A s \in Sub : /\ cursor[s] < changeSeq /\ subs[s].acked < changeSeq
                                  /\ subs[s].sink < changeSeq
  /\ stage = "changed" => flog # <<>> /\ Last(flog) = hist[Stmts]

HistoryRight == \A i \in 1..Stmts : hist[i].stmt = i

DrainRight ==
  stage = "drain" /\ ~lost =>
    /\ Open(draining[1]) /\ draining[2] <= changeSeq
    /\ Drained(draining[1], changes, draining[2])

IndInv == /\ FullTypeOK /\ ChainRight /\ FeedRight /\ InProgress /\ HistoryRight
          /\ DrainRight /\ NoSilentGap

-----------------------------------------------------------------------------
(* Sidecars with torn records *)

(* A torn record is neither an event nor a record of the chain. *)
LEMMA TornApart == Torn \notin Event /\ Torn \notin Record
BY DEF Torn, Event, Record

(* The last element of a sequence, and what is before it. *)
LEMMA FrontLast ==
  ASSUME NEW S, NEW s \in Seq(S), s # <<>>
  PROVE  Front(s) \in Seq(S) /\ Last(s) \in S /\ s = Append(Front(s), Last(s))
BY DEF Front, Last

(* An appended element is the last one. *)
LEMMA AppendLast ==
  ASSUME NEW S, NEW s \in Seq(S), NEW x \in S
  PROVE  Front(Append(s, x)) = s /\ Last(Append(s, x)) = x /\ Append(s, x) # <<>>
BY DEF Front, Last

(* Records are behind a torn one exactly when one was appended after it. *)
LEMMA BehindAppend ==
  ASSUME NEW S, NEW log \in Seq(S), NEW x \in S
  PROVE  /\ Behind(Append(log, x)) <=> HasTorn(log)
         /\ HasTorn(Append(log, x)) <=> HasTorn(log) \/ x = Torn
         /\ Behind(log) => HasTorn(log)
<1> DEFINE n == Len(log)
           t == Append(log, x)
<1>1. n \in Nat /\ Len(t) = n + 1 /\ t[n + 1] = x /\ \A i \in 1..n : t[i] = log[i]
  OBVIOUS
<1> HIDE DEF t
<1>2. \A i \in 1..(n + 1) : i \in 1..n \/ i = n + 1 BY <1>1
<1>3. \A i \in 1..n : i \in 1..(n + 1) /\ i < n + 1 BY <1>1
<1>4. n + 1 \in 1..(n + 1) /\ ~(n + 1 < n + 1) BY <1>1
<1>5. Behind(t) <=> HasTorn(log) BY <1>1, <1>2, <1>3, <1>4 DEF Behind, HasTorn
<1>6. HasTorn(t) <=> HasTorn(log) \/ x = Torn BY <1>1, <1>2, <1>3, <1>4 DEF HasTorn
<1> QED BY <1>5, <1>6 DEF t, Behind, HasTorn

(* Without a torn record everything is read. *)
LEMMA ReadableWhole ==
  ASSUME NEW S, Torn \notin S, NEW log \in Seq(S \cup {Torn}), ~HasTorn(log)
  PROVE  Readable(log) = log /\ log \in Seq(S)
<1>1. {i \in 1..Len(log) : log[i] = Torn} = {} BY DEF HasTorn
<1>2. Readable(log) = log BY <1>1 DEF Readable
<1>3. \A i \in 1..Len(log) : log[i] \in S BY <1>1
<1>4. Len(log) \in Nat /\ log = [i \in 1..Len(log) |-> log[i]] OBVIOUS
<1>5. log \in [1..Len(log) -> S] BY <1>3, <1>4
<1> QED BY <1>2, <1>4, <1>5

(* With one, what is before the first of them is read. *)
LEMMA ReadableCut ==
  ASSUME NEW S, Torn \notin S, NEW log \in Seq(S \cup {Torn}), HasTorn(log)
  PROVE  \E c \in 1..Len(log) :
           /\ log[c] = Torn /\ \A j \in 1..Len(log) : log[j] = Torn => c <= j
           /\ Readable(log) = SubSeq(log, 1, c - 1)
           /\ Readable(log) \in Seq(S)
<1> DEFINE torn == {i \in 1..Len(log) : log[i] = Torn}
           c == CHOOSE i \in torn : \A j \in torn : i <= j
<1>1. torn # {} BY DEF HasTorn
<1>2. torn \in SUBSET Nat
  <2>1. torn \subseteq 1..Len(log) /\ 1..Len(log) \subseteq Nat OBVIOUS
  <2> QED BY <2>1
<1>3. \E i \in torn : \A j \in torn : i <= j BY <1>1, <1>2, LeastExists
<1>4. c \in torn /\ \A j \in torn : c <= j BY <1>3
<1>5. Readable(log) = SubSeq(log, 1, c - 1) BY <1>1 DEF Readable
<1> HIDE DEF c
<1>6. c \in 1..Len(log) /\ Len(log) \in Nat BY <1>4
<1>7. \A i \in 1..(c - 1) : log[i] \in S
  <2> SUFFICES ASSUME NEW i \in 1..(c - 1) PROVE log[i] \in S OBVIOUS
  <2>1. i \in 1..Len(log) /\ i < c BY <1>6
  <2>2. i \notin torn BY <1>4, <1>6, <2>1
  <2> QED BY <2>1, <2>2
<1>8. SubSeq(log, 1, c - 1) \in Seq(S)
  <2>1. c - 1 \in Nat /\ c - 1 <= Len(log) BY <1>6
  <2>2. SubSeq(log, 1, c - 1) = [i \in 1..(c - 1) |-> log[i]] BY <1>6, <2>1
  <2>3. [i \in 1..(c - 1) |-> log[i]] \in [1..(c - 1) -> S] BY <1>7
  <2> QED BY <2>1, <2>2, <2>3
<1> QED BY <1>4, <1>5, <1>6, <1>8

(* What is read has no torn record. *)
LEMMA ReadableType ==
  ASSUME NEW S, Torn \notin S, NEW log \in Seq(S \cup {Torn})
  PROVE  Readable(log) \in Seq(S)
<1>1. CASE HasTorn(log) BY <1>1, ReadableCut
<1>2. CASE ~HasTorn(log) BY <1>2, ReadableWhole
<1> QED BY <1>1, <1>2

(* Nothing that is appended behind a torn record is read, and neither is a  *)
(* torn record.                                                             *)
LEMMA ReadableAppend ==
  ASSUME NEW S, Torn \notin S, NEW log \in Seq(S \cup {Torn}), NEW x \in S \cup {Torn}
  PROVE  /\ HasTorn(log) \/ x = Torn => Readable(Append(log, x)) = Readable(log)
         /\ ~HasTorn(log) /\ x # Torn => Readable(Append(log, x)) = Append(log, x)
<1> DEFINE n == Len(log)
           t == Append(log, x)
<1>1. /\ n \in Nat /\ t \in Seq(S \cup {Torn})
      /\ Len(t) = n + 1 /\ t[n + 1] = x /\ \A i \in 1..n : t[i] = log[i]
  OBVIOUS
<1>2. HasTorn(t) <=> HasTorn(log) \/ x = Torn BY BehindAppend
<1> HIDE DEF t
<1>3. CASE HasTorn(log) \/ x = Torn
  <2>1. PICK c \in 1..(n + 1) :
          /\ t[c] = Torn /\ \A j \in 1..(n + 1) : t[j] = Torn => c <= j
          /\ Readable(t) = SubSeq(t, 1, c - 1)
    <3>1. HasTorn(t) BY <1>2, <1>3
    <3>2. \E c \in 1..Len(t) :
            /\ t[c] = Torn /\ \A j \in 1..Len(t) : t[j] = Torn => c <= j
            /\ Readable(t) = SubSeq(t, 1, c - 1)
            /\ Readable(t) \in Seq(S)
      BY <1>1, <3>1, ReadableCut
    <3> QED BY <1>1, <3>2
  <2>2. c - 1 \in 0..n /\ c \in Nat BY <1>1
  <2>3. SubSeq(t, 1, c - 1) = SubSeq(log, 1, c - 1)
    <3>1. SubSeq(t, 1, c - 1) = [i \in 1..(c - 1) |-> t[i]] BY <1>1, <2>2
    <3>2. SubSeq(log, 1, c - 1) = [i \in 1..(c - 1) |-> log[i]] BY <1>1, <2>2
    <3>3. \A i \in 1..(c - 1) : t[i] = log[i]
      <4>1. \A i \in 1..(c - 1) : i \in 1..n BY <1>1, <2>2
      <4> QED BY <1>1, <4>1
    <3> QED BY <3>1, <3>2, <3>3
  <2>4. CASE HasTorn(log)
    <3>1. PICK d \in 1..n :
            /\ log[d] = Torn /\ \A j \in 1..n : log[j] = Torn => d <= j
            /\ Readable(log) = SubSeq(log, 1, d - 1)
      BY <2>4, ReadableCut
    <3>2. d \in 1..(n + 1) /\ t[d] = Torn BY <1>1, <3>1
    <3>3. c <= d BY <2>1, <3>2
    <3>4. c \in 1..n BY <1>1, <2>1, <3>3
    <3>5. d <= c BY <1>1, <2>1, <3>1, <3>4
    <3>6. c = d BY <2>2, <3>3, <3>5
    <3> QED BY <2>1, <2>3, <2>4, <3>1, <3>6 DEF t
  <2>5. CASE ~HasTorn(log)
    <3>1. ~(c \in 1..n) BY <1>1, <2>1, <2>5 DEF HasTorn
    <3>2. c - 1 = n BY <1>1, <2>1, <3>1
    <3>3. SubSeq(log, 1, n) = log BY <1>1
    <3>4. Readable(log) = log BY <2>5, ReadableWhole
    <3> QED BY <1>3, <2>1, <2>3, <2>5, <3>2, <3>3, <3>4 DEF t
  <2> QED BY <2>4, <2>5
<1>4. CASE ~(HasTorn(log) \/ x = Torn)
  <2>1. Readable(t) = t BY <1>1, <1>2, <1>4, ReadableWhole
  <2> QED BY <1>4, <2>1 DEF t
<1> QED BY <1>3, <1>4

-----------------------------------------------------------------------------
(* A snapshot with a sidecar *)

(* The numbers f of S. *)
Numbers(f, S) == \A x \in S : x[f] \in Nat

(* The records of the snapshot come first; a readable record that is newer  *)
(* is taken over, an older one is not; a torn record, or one behind a torn  *)
(* record, changes nothing; a newer one behind a whole sidecar is appended. *)
OverRight(f, S, base, log) ==
  /\ Over(f, base, log) \in Seq(S)
  /\ Len(Over(f, base, log)) >= Len(base)
  /\ \A i \in 1..Len(base) : Over(f, base, log)[i] = base[i]
  /\ \A i \in 1..Len(Readable(log)) : Readable(log)[i][f] > LastOf(f, base) =>
       \E j \in 1..Len(Over(f, base, log)) : Over(f, base, log)[j] = Readable(log)[i]
  /\ (\A i \in 1..Len(Readable(log)) : ~(Readable(log)[i][f] > LastOf(f, base)))
       => Over(f, base, log) = base
  /\ \A x \in S \cup {Torn} : HasTorn(log) \/ x = Torn =>
       Over(f, base, Append(log, x)) = Over(f, base, log)
  /\ \A x \in S : ~HasTorn(log) /\ x[f] > LastOf(f, base) =>
       Over(f, base, Append(log, x)) = Append(Over(f, base, log), x)

(* This is so for every snapshot and sidecar. *)
LEMMA OverIsRight ==
  ASSUME NEW f, NEW S, Torn \notin S, NEW base \in Seq(S), NEW log \in Seq(S \cup {Torn})
  PROVE  OverRight(f, S, base, log)
<1>1. /\ Over(f, base, log) \in Seq(S)
      /\ Len(Over(f, base, log)) >= Len(base)
      /\ \A i \in 1..Len(base) : Over(f, base, log)[i] = base[i]
  <2> DEFINE tail == Readable(log)
             new == Selected(tail, Newer(f, base, tail))
  <2>1. tail \in Seq(S) BY ReadableType
  <2>2. Newer(f, base, tail) \in SUBSET (1..Len(tail)) BY DEF Newer
  <2> HIDE DEF tail
  <2>3. new \in Seq(S) BY <2>1, <2>2, SelectedType
  <2> HIDE DEF new
  <2>4. /\ base \o new \in Seq(S) /\ Len(base \o new) = Len(base) + Len(new)
        /\ \A i \in 1..Len(base) : (base \o new)[i] = base[i]
        /\ Len(base) \in Nat /\ Len(new) \in Nat
    BY <2>3
  <2> QED BY <2>4 DEF Over, tail, new
<1>2. ASSUME NEW i \in 1..Len(Readable(log)), Readable(log)[i][f] > LastOf(f, base)
      PROVE  \E j \in 1..Len(Over(f, base, log)) : Over(f, base, log)[j] = Readable(log)[i]
  <2> DEFINE tail == Readable(log)
             I == Newer(f, base, tail)
             new == Selected(tail, I)
             k == RankIn(I, i)
  <2>1. tail \in Seq(S) BY ReadableType
  <2>2. I \in SUBSET (1..Len(tail)) /\ i \in I BY <1>2 DEF Newer
  <2>3. k \in 1..Cardinality(I) /\ new[k] = tail[i]
    <3> HIDE DEF I, tail
    <3>1. Len(tail) \in Nat BY <2>1
    <3> QED BY <2>2, <3>1, SelectedAt
  <2>4. new \in Seq(S) /\ Len(new) = Cardinality(I)
    <3> HIDE DEF I, tail
    <3> QED BY <2>1, <2>2, SelectedType
  <2> HIDE DEF new, k, I, tail
  <2>5. /\ Len(base \o new) = Len(base) + Len(new) /\ Len(base) \in Nat /\ Len(new) \in Nat
        /\ (base \o new)[Len(base) + k] = new[k]
    <3>1. k \in 1..Len(new) /\ Len(base) \in Nat /\ Len(new) \in Nat BY <2>3, <2>4
    <3>2. /\ Len(base) + k \in 1..(Len(base) + Len(new))
          /\ ~(Len(base) + k <= Len(base)) /\ (Len(base) + k) - Len(base) = k
      BY <3>1
    <3>3. \A m \in 1..(Len(base) + Len(new)) :
            (base \o new)[m] = IF m <= Len(base) THEN base[m] ELSE new[m - Len(base)]
      BY <2>4, ConcatProperties
    <3>4. Len(base \o new) = Len(base) + Len(new) BY <2>4, ConcatProperties
    <3> QED BY <3>1, <3>2, <3>3, <3>4
  <2>6. Len(base) + k \in 1..Len(base \o new) BY <2>3, <2>4, <2>5
  <2>7. Over(f, base, log) = base \o new BY DEF Over, new, I, tail
  <2> QED BY <2>3, <2>5, <2>6, <2>7 DEF tail
<1>3. ASSUME \A i \in 1..Len(Readable(log)) : ~(Readable(log)[i][f] > LastOf(f, base))
      PROVE  Over(f, base, log) = base
  <2>1. Newer(f, base, Readable(log)) = {} BY <1>3 DEF Newer
  <2>2. Over(f, base, log) = base \o <<>> BY <2>1, SelectedNone DEF Over
  <2> QED BY <2>2
<1>4. ASSUME NEW x \in S \cup {Torn}, HasTorn(log) \/ x = Torn
      PROVE  Over(f, base, Append(log, x)) = Over(f, base, log)
  BY <1>4, ReadableAppend DEF Over
<1>5. ASSUME NEW x \in S, ~HasTorn(log), x[f] > LastOf(f, base)
      PROVE  Over(f, base, Append(log, x)) = Append(Over(f, base, log), x)
  <2> DEFINE n == Len(log)
             t == Append(log, x)
             I == Newer(f, base, log)
             new == Selected(log, I)
  <2>1. x # Torn OBVIOUS
  <2>2. Readable(log) = log /\ log \in Seq(S) /\ Readable(t) = t
    BY <1>5, <2>1, ReadableWhole, ReadableAppend
  <2>3. n \in Nat /\ Len(t) = n + 1 /\ t[n + 1] = x /\ \A i \in 1..n : t[i] = log[i]
    BY <2>2
  <2>4. Newer(f, base, t) = I \cup {n + 1}
    <3> HIDE DEF t
    <3>1. \A i \in 1..(n + 1) : i \in 1..n \/ i = n + 1 BY <2>3
    <3>2. \A i \in 1..n : i \in 1..(n + 1) BY <2>3
    <3>3. n + 1 \in 1..(n + 1) BY <2>3
    <3>4. \A i : i \in Newer(f, base, t) <=> i \in I \cup {n + 1}
      BY <1>5, <2>3, <3>1, <3>2, <3>3 DEF Newer
    <3> QED BY <3>4
  <2>5. I \in SUBSET (1..n) BY DEF Newer
  <2> HIDE DEF I
  <2>6. Selected(t, I \cup {n + 1}) = Append(new, x) BY <2>2, <2>5, SelectedAppend
  <2>7. new \in Seq(S) BY <2>2, <2>5, SelectedType
  <2>8. Over(f, base, t) = base \o Append(new, x) BY <2>2, <2>4, <2>6 DEF Over
  <2>9. Over(f, base, log) = base \o new BY <2>2 DEF Over, I
  <2> HIDE DEF new, t
  <2>10. base \o Append(new, x) = Append(base \o new, x) BY <2>7
  <2> QED BY <2>8, <2>9, <2>10 DEF t
<1> QED BY <1>1, <1>2, <1>3, <1>4, <1>5 DEF OverRight

-----------------------------------------------------------------------------
(* Consecutive numbers and retention *)

(* The newest number of a log of events. *)
LEMMA LastSeqType ==
  ASSUME NEW S, Numbers("seq", S), NEW log \in Seq(S)
  PROVE  /\ LastSeq(log) \in Nat
         /\ log # <<>> => LastSeq(log) = log[Len(log)].seq /\ Len(log) \in 1..Len(log)
         /\ \A i \in 1..Len(log) : log[i].seq \in Nat
         /\ LastSeq(log) = LastOf("seq", log)
<1>1. Len(log) \in Nat /\ \A i \in 1..Len(log) : log[i] \in S OBVIOUS
<1>2. log # <<>> => Len(log) \in 1..Len(log) OBVIOUS
<1> QED BY <1>1, <1>2 DEF LastSeq, Last, LastOf, Numbers

(* A log of consecutive numbers goes on with the next one. *)
LEMMA ConsecutiveAppend ==
  ASSUME NEW S, Numbers("seq", S), NEW log \in Seq(S), NEW x \in S,
         Consecutive(log), x.seq = LastSeq(log) + 1
  PROVE  Consecutive(Append(log, x)) /\ LastSeq(Append(log, x)) = x.seq
<1> DEFINE t == Append(log, x)
           n == Len(log)
<1>1. n \in Nat /\ Len(t) = n + 1 /\ t[n + 1] = x /\ \A i \in 1..n : t[i] = log[i]
  OBVIOUS
<1>2. LastSeq(log) \in Nat /\ \A i \in 1..n : log[i].seq \in Nat BY LastSeqType
<1>3. LastSeq(t) = x.seq BY AppendLast DEF LastSeq
<1> HIDE DEF t
<1>4. ASSUME NEW i \in 1..(n + 1) PROVE t[i].seq = LastSeq(t) - (n + 1) + i
  <2>1. CASE i = n + 1 BY <1>1, <1>2, <1>3, <2>1
  <2>2. CASE i # n + 1
    <3>1. i \in 1..n BY <1>1, <2>2
    <3>2. t[i].seq = LastSeq(log) - n + i BY <1>1, <3>1 DEF Consecutive
    <3> QED BY <1>1, <1>2, <1>3, <3>1, <3>2
  <2> QED BY <2>1, <2>2
<1>5. Consecutive(t) BY <1>1, <1>4 DEF Consecutive
<1> QED BY <1>3, <1>5 DEF t

(* Retention keeps the end of the log. *)
LEMMA TrimShape ==
  ASSUME NEW S, NEW log \in Seq(S)
  PROVE  /\ Trim(log) \in Seq(S) /\ Len(Trim(log)) <= Retention /\ Len(Trim(log)) <= Len(log)
         /\ \A i \in 1..Len(Trim(log)) : Trim(log)[i] = log[Len(log) - Len(Trim(log)) + i]
         /\ Trim(log) = log \/ Len(Trim(log)) = Retention
         /\ Len(log) <= Retention => Trim(log) = log
         /\ LastSeq(Trim(log)) = LastSeq(log)
<1> DEFINE n == Len(log)
<1>1. n \in Nat /\ Retention \in Nat \ {0} BY ChangeFeedAssumption
<1>2. CASE n <= Retention
  <2>1. Trim(log) = log BY <1>2 DEF Trim
  <2> QED BY <1>1, <1>2, <2>1
<1>3. CASE ~(n <= Retention)
  <2>1. Trim(log) = SubSeq(log, n - Retention + 1, n) BY <1>3 DEF Trim
  <2>2. n - Retention + 1 \in 1..n /\ n - (n - Retention + 1) + 1 = Retention BY <1>1, <1>3
  <2>3. /\ SubSeq(log, n - Retention + 1, n) \in Seq(S)
        /\ Len(SubSeq(log, n - Retention + 1, n)) = Retention
    BY <1>1, <2>2
  <2>4. \A i \in 1..Retention :
          SubSeq(log, n - Retention + 1, n)[i] = log[(n - Retention + 1) + i - 1]
    BY <1>1, <2>2
  <2>5. \A i \in 1..Retention : (n - Retention + 1) + i - 1 = n - Retention + i BY <1>1
  <2> HIDE DEF n
  <2>6. \A i \in 1..Retention : Trim(log)[i] = log[n - Retention + i]
    BY <2>1, <2>4, <2>5
  <2>7. Trim(log) \in Seq(S) /\ Len(Trim(log)) = Retention BY <2>1, <2>3
  <2>8. LastSeq(Trim(log)) = LastSeq(log)
    <3>1. Retention \in 1..Retention /\ n - Retention + Retention = n /\ n > 0
      BY <1>1, <1>3
    <3>2. Trim(log)[Retention] = log[n] BY <2>6, <3>1
    <3>3. Trim(log) # <<>> /\ log # <<>> BY <1>1, <2>7, <3>1 DEF n
    <3> QED BY <2>7, <3>2, <3>3 DEF LastSeq, Last, n
  <2> QED BY <1>1, <1>3, <2>6, <2>7, <2>8 DEF n
<1> QED BY <1>2, <1>3

(* The retained events have consecutive numbers too. *)
LEMMA TrimConsecutive ==
  ASSUME NEW S, Numbers("seq", S), NEW log \in Seq(S), Consecutive(log)
  PROVE  Consecutive(Trim(log))
<1> DEFINE t == Trim(log)
           n == Len(log)
           m == Len(t)
<1>1. /\ t \in Seq(S) /\ m <= n /\ LastSeq(t) = LastSeq(log)
      /\ \A i \in 1..m : t[i] = log[n - m + i]
  BY TrimShape
<1>2. n \in Nat /\ m \in Nat /\ LastSeq(log) \in Nat BY <1>1, LastSeqType
<1>3. \A i \in 1..n : log[i].seq = LastSeq(log) - n + i BY DEF Consecutive
<1> HIDE DEF t, n, m
<1>4. ASSUME NEW i \in 1..m PROVE t[i].seq = LastSeq(t) - m + i
  <2>1. n - m + i \in 1..n BY <1>1, <1>2
  <2>2. log[n - m + i].seq = LastSeq(log) - n + (n - m + i) BY <1>3, <2>1
  <2>3. LastSeq(log) - n + (n - m + i) = LastSeq(log) - m + i BY <1>2
  <2> QED BY <1>1, <2>2, <2>3
<1> QED BY <1>4 DEF Consecutive, t, m

(* Trimming before an append makes no difference after it. *)
LEMMA TrimAppend ==
  ASSUME NEW S, NEW log \in Seq(S), NEW x \in S
  PROVE  Trim(Append(Trim(log), x)) = Trim(Append(log, x))
<1> DEFINE t == Trim(log)
           n == Len(log)
           m == Len(t)
           a == Append(t, x)
           b == Append(log, x)
           p == Len(Trim(a))
           q == Len(Trim(b))
<1>1. /\ t \in Seq(S) /\ m <= n /\ (t = log \/ m = Retention)
      /\ \A i \in 1..m : t[i] = log[n - m + i]
  BY TrimShape
<1>2. n \in Nat /\ m \in Nat /\ Retention \in Nat \ {0} BY <1>1, ChangeFeedAssumption
<1>3. CASE t = log BY <1>3
<1>4. CASE m = Retention
  <2>1. a \in Seq(S) /\ Len(a) = m + 1 /\ b \in Seq(S) /\ Len(b) = n + 1
    BY <1>1
  <2>2. /\ a[m + 1] = x /\ \A i \in 1..m : a[i] = t[i]
        /\ b[n + 1] = x /\ \A i \in 1..n : b[i] = log[i]
    BY <1>1
  <2> HIDE DEF t, n, m, a, b
  <2>3. /\ Trim(a) \in Seq(S) /\ p <= Retention /\ (Trim(a) = a \/ p = Retention)
        /\ \A i \in 1..p : Trim(a)[i] = a[Len(a) - p + i]
    BY <2>1, TrimShape
  <2>4. /\ Trim(b) \in Seq(S) /\ q <= Retention /\ (Trim(b) = b \/ q = Retention)
        /\ \A i \in 1..q : Trim(b)[i] = b[Len(b) - q + i]
    BY <2>1, TrimShape
  <2> HIDE DEF p, q
  <2>5. p = Retention /\ q = Retention
    BY <1>1, <1>2, <1>4, <2>1, <2>3, <2>4 DEF p, q
  <2>6. ASSUME NEW i \in 1..Retention PROVE Trim(a)[i] = Trim(b)[i]
    <3>1. Trim(a)[i] = a[i + 1] /\ Trim(b)[i] = b[n + 1 - m + i]
      <4>1. Len(a) - p + i = i + 1 /\ Len(b) - q + i = n + 1 - m + i BY <1>2, <1>4, <2>1, <2>5
      <4>2. i \in 1..p /\ i \in 1..q BY <2>5
      <4>3. Trim(a)[i] = a[Len(a) - p + i] BY <2>3, <4>2
      <4>4. Trim(b)[i] = b[Len(b) - q + i] BY <2>4, <4>2
      <4> QED BY <4>1, <4>3, <4>4
    <3>2. CASE i = m
      <4>1. n + 1 - m + i = n + 1 BY <1>2, <3>2
      <4> QED BY <2>2, <3>1, <3>2, <4>1
    <3>3. CASE i # m
      <4>1. i + 1 \in 1..m /\ n - m + (i + 1) = n + 1 - m + i /\ n - m + (i + 1) \in 1..n
        BY <1>1, <1>2, <1>4, <3>3
      <4>2. a[i + 1] = log[n - m + (i + 1)] BY <1>1, <2>2, <4>1
      <4> QED BY <2>2, <3>1, <4>1, <4>2
    <3> QED BY <3>2, <3>3
  <2>7. Trim(a) = Trim(b)
    BY <1>2, <2>3, <2>4, <2>5, <2>6, SeqEqual DEF p, q
  <2> QED BY <2>7 DEF a, b, t
<1> QED BY <1>1, <1>3, <1>4

(* No event of a log of consecutive numbers is newer than the last one. *)
LEMMA ConsecutiveUpTo ==
  ASSUME NEW S, Numbers("seq", S), NEW log \in Seq(S), Consecutive(log)
  PROVE  /\ \A i \in 1..Len(log) : log[i].seq <= LastSeq(log)
         /\ \A i, j \in 1..Len(log) : i < j => log[i].seq < log[j].seq
         /\ \A e \in Range(log) : e \in S /\ e.seq <= LastSeq(log)
<1>1. Len(log) \in Nat /\ LastSeq(log) \in Nat BY LastSeqType
<1>2. \A i \in 1..Len(log) : log[i].seq = LastSeq(log) - Len(log) + i BY DEF Consecutive
<1>3. \A i \in 1..Len(log) : log[i].seq <= LastSeq(log) BY <1>1, <1>2
<1>4. \A i, j \in 1..Len(log) : i < j => log[i].seq < log[j].seq BY <1>1, <1>2
<1>5. \A e \in Range(log) : \E i \in 1..Len(log) : e = log[i] BY DEF Range
<1>6. \A i \in 1..Len(log) : log[i] \in S OBVIOUS
<1> QED BY <1>3, <1>4, <1>5, <1>6

(* What can be read of the change log is not newer than the log it gives.   *)
LEMMA FeedReadable ==
  ASSUME NEW S, Numbers("seq", S), Torn \notin S, NEW base \in Seq(S),
         NEW log \in Seq(S \cup {Torn}), Consecutive(Over("seq", base, log))
  PROVE  /\ LastSeq(base) <= LastSeq(Over("seq", base, log))
         /\ \A i \in 1..Len(Readable(log)) :
              Readable(log)[i].seq <= LastSeq(Over("seq", base, log))
<1> DEFINE o == Over("seq", base, log)
           tail == Readable(log)
<1>1. /\ o \in Seq(S) /\ Len(o) >= Len(base) /\ \A i \in 1..Len(base) : o[i] = base[i]
      /\ tail \in Seq(S)
  <2>1. OverRight("seq", S, base, log) BY OverIsRight
  <2> QED BY <2>1, ReadableType DEF OverRight
<1>2. /\ LastSeq(base) \in Nat /\ LastSeq(base) = LastOf("seq", base)
      /\ base # <<>> => LastSeq(base) = base[Len(base)].seq /\ Len(base) \in 1..Len(base)
  BY LastSeqType
<1>3. LastSeq(o) \in Nat /\ \A i \in 1..Len(tail) : tail[i].seq \in Nat
  BY <1>1, LastSeqType
<1>4. \A i \in 1..Len(o) : o[i].seq <= LastSeq(o) BY <1>1, ConsecutiveUpTo
<1>5. LastSeq(base) <= LastSeq(o)
  <2>1. CASE base = <<>> BY <1>3, <2>1 DEF LastSeq
  <2>2. CASE base # <<>>
    <3>1. Len(base) \in 1..Len(o) BY <1>1, <1>2, <2>2
    <3> QED BY <1>1, <1>2, <1>4, <2>2, <3>1
  <2> QED BY <2>1, <2>2
<1>6. ASSUME NEW i \in 1..Len(tail) PROVE tail[i].seq <= LastSeq(o)
  <2>1. CASE tail[i].seq > LastSeq(base)
    <3>1. \E j \in 1..Len(o) : o[j] = tail[i] 
      <4>1. OverRight("seq", S, base, log) BY OverIsRight
      <4> QED BY <1>2, <2>1, <4>1 DEF OverRight
    <3> QED BY <1>4, <3>1
  <2>2. CASE ~(tail[i].seq > LastSeq(base)) BY <1>2, <1>3, <1>5, <2>2
  <2> QED BY <2>1, <2>2
<1> QED BY <1>5, <1>6

-----------------------------------------------------------------------------
(* The forensic chain *)

(* A linked chain is numbered by its length. *)
LEMMA LinkedLast ==
  ASSUME NEW S, NEW c \in Seq(S), Linked(c)
  PROVE  LastId(c) = Len(c) /\ LastOf("id", c) = Len(c)
<1>1. c = <<>> => Len(c) = 0 OBVIOUS
<1>2. c # <<>> => Len(c) \in 1..Len(c) OBVIOUS
<1> QED BY <1>1, <1>2 DEF LastId, LastOf, Last, Linked

(* The next record keeps a chain linked. *)
LEMMA LinkedAppend ==
  ASSUME NEW S, NEW c \in Seq(S), NEW x \in S, Linked(c), x.id = Len(c) + 1,
         x.prev = IF c = <<>> THEN 0 ELSE Last(c).stmt
  PROVE  Linked(Append(c, x)) /\ StmtsOf(Append(c, x)) = StmtsOf(c) \cup {x.stmt}
<1> DEFINE t == Append(c, x)
           n == Len(c)
<1>1. n \in Nat /\ Len(t) = n + 1 /\ t[n + 1] = x /\ \A i \in 1..n : t[i] = c[i]
  OBVIOUS
<1>2. c # <<>> => n # 0 OBVIOUS
<1> HIDE DEF t
<1>3. ASSUME NEW i \in 1..(n + 1)
      PROVE  t[i].id = i /\ t[i].prev = IF i = 1 THEN 0 ELSE t[i-1].stmt
  <2>1. CASE i = n + 1
    <3>1. CASE c = <<>> BY <1>1, <2>1, <3>1
    <3>2. CASE c # <<>>
      <4>1. i - 1 = n /\ n \in 1..n /\ i # 1 BY <1>1, <1>2, <2>1, <3>2
      <4> QED BY <1>1, <2>1, <3>2, <4>1 DEF Last
    <3> QED BY <3>1, <3>2
  <2>2. CASE i # n + 1
    <3>1. i \in 1..n /\ (i # 1 => i - 1 \in 1..n) BY <1>1, <2>2
    <3> QED BY <1>1, <3>1 DEF Linked
  <2> QED BY <2>1, <2>2
<1>4. Linked(t) BY <1>1, <1>3 DEF Linked
<1>5. StmtsOf(t) = StmtsOf(c) \cup {x.stmt}
  <2>1. \A i \in 1..(n + 1) : i \in 1..n \/ i = n + 1 BY <1>1
  <2>2. \A i \in 1..n : i \in 1..(n + 1) BY <1>1
  <2>3. n + 1 \in 1..(n + 1) BY <1>1
  <2>4. \A y : y \in StmtsOf(t) <=> y \in StmtsOf(c) \cup {x.stmt}
    BY <1>1, <2>1, <2>2, <2>3 DEF StmtsOf
  <2> QED BY <2>4
<1> QED BY <1>4, <1>5 DEF t

(* What can be read of the chain is not newer than the chain it gives.      *)
LEMMA ChainReadable ==
  ASSUME NEW S, Numbers("id", S), Torn \notin S, NEW base \in Seq(S), Linked(base),
         NEW log \in Seq(S \cup {Torn}), Linked(Over("id", base, log))
  PROVE  /\ Len(base) <= Len(Over("id", base, log))
         /\ \A i \in 1..Len(Readable(log)) : Readable(log)[i].id <= Len(Over("id", base, log))
<1> DEFINE o == Over("id", base, log)
           tail == Readable(log)
<1>1. o \in Seq(S) /\ Len(o) >= Len(base) /\ tail \in Seq(S)
  <2>1. OverRight("id", S, base, log) BY OverIsRight
  <2> QED BY <2>1, ReadableType DEF OverRight
<1>2. LastOf("id", base) = Len(base) BY LinkedLast
<1>3. Len(o) \in Nat /\ Len(base) \in Nat BY <1>1
<1>4. \A i \in 1..Len(tail) : tail[i].id \in Nat
  <2>1. \A i \in 1..Len(tail) : tail[i] \in S BY <1>1
  <2> QED BY <2>1 DEF Numbers
<1>5. ASSUME NEW i \in 1..Len(tail) PROVE tail[i].id <= Len(o)
  <2>1. CASE tail[i].id > Len(base)
    <3>1. \E j \in 1..Len(o) : o[j] = tail[i] 
      <4>1. OverRight("id", S, base, log) BY OverIsRight
      <4> QED BY <1>2, <2>1, <4>1 DEF OverRight
    <3>2. \A j \in 1..Len(o) : o[j].id = j BY DEF Linked
    <3> QED BY <1>3, <3>1, <3>2
  <2>2. CASE ~(tail[i].id > Len(base)) BY <1>1, <1>3, <1>4, <2>2
  <2> QED BY <2>1, <2>2
<1> QED BY <1>1, <1>3, <1>5

-----------------------------------------------------------------------------
(* What a poll and a drain get *)

(* They get events of the log that are newer than the offset, and no event  *)
(* about the target between the offset and the last of them is left out.    *)
LEMMA CollectRight ==
  ASSUME NEW S, Numbers("seq", S), changes \in Seq(S), Consecutive(changes),
         NEW s, NEW after \in Nat
  PROVE  /\ Collect(s, after) \in Seq(S)
         /\ \A e \in Range(Collect(s, after)) : e \in Range(changes) /\ e.seq > after
         /\ Collect(s, after) # <<>> =>
              /\ Last(Collect(s, after)) \in Range(Collect(s, after))
              /\ \A e \in Range(changes) :
                   e.tab \in subs[s].on /\ e.seq > after /\ e.seq <= Last(Collect(s, after)).seq
                     => e \in Range(Collect(s, after))
<1> DEFINE I == {i \in 1..Len(changes) : changes[i].seq > after /\ changes[i].tab \in subs[s].on}
           all == Selected(changes, I)
           ev == Collect(s, after)
<1>1. I \in SUBSET (1..Len(changes)) /\ Len(changes) \in Nat OBVIOUS
<1>2. ev = IF Len(all) > Limit THEN SubSeq(all, 1, Limit) ELSE all BY DEF Collect
<1>3. \A i \in I : i \in 1..Len(changes) /\ changes[i].seq > after BY DEF I
<1>4. \A e \in Range(changes) : e.tab \in subs[s].on /\ e.seq > after => \E i \in I : e = changes[i]
  BY DEF Range
<1>5. \A i, j \in 1..Len(changes) : i < j => changes[i].seq < changes[j].seq
  BY ConsecutiveUpTo
<1>6. \A i \in 1..Len(changes) : changes[i] \in Range(changes) /\ changes[i].seq \in Nat
  BY LastSeqType DEF Range
<1> HIDE DEF I
<1>7. all \in Seq(S) /\ Len(all) = Cardinality(I) /\ Cardinality(I) \in Nat
  BY <1>1, SelectedType
<1>8. \A i \in I : RankIn(I, i) \in 1..Len(all) /\ all[RankIn(I, i)] = changes[i]
  <2>1. ASSUME NEW i \in I PROVE RankIn(I, i) \in 1..Cardinality(I) /\ all[RankIn(I, i)] = changes[i]
    <3>1. AtRank(changes, I, i) BY <1>1, SelectedAtRank
    <3> QED BY <3>1 DEF AtRank
  <2> QED BY <1>7, <2>1
<1>9. \A k \in 1..Len(all) : \E i \in I : RankIn(I, i) = k
  BY <1>1, <1>7, RankReached
<1>10. \A i, j \in I : i < j => RankIn(I, i) < RankIn(I, j)
  BY <1>1, RankGrows
<1> HIDE DEF all, ev
<1>11. /\ ev \in Seq(S) /\ Len(ev) <= Len(all) /\ \A k \in 1..Len(ev) : ev[k] = all[k]
       /\ Len(ev) \in Nat /\ (ev = all \/ Len(ev) = Limit)
  <2>1. Limit \in Nat \ {0} BY ChangeFeedAssumption
  <2>2. CASE Len(all) > Limit
    <3>1. ev = SubSeq(all, 1, Limit) BY <1>2, <2>2
    <3>2. SubSeq(all, 1, Limit) = [k \in 1..Limit |-> all[k]] BY <1>7, <2>1, <2>2
    <3>3. /\ SubSeq(all, 1, Limit) \in Seq(S) /\ Len(SubSeq(all, 1, Limit)) = Limit
      BY <1>7, <2>1, <2>2
    <3> QED BY <1>7, <2>1, <2>2, <3>1, <3>2, <3>3
  <2>3. CASE ~(Len(all) > Limit) BY <1>2, <1>7, <2>3
  <2> QED BY <2>2, <2>3
<1>12. \A k \in 1..Len(ev) : k \in 1..Len(all) BY <1>7, <1>11
<1>13. \A e : e \in Range(ev) <=> \E k \in 1..Len(ev) : e = ev[k] BY <1>11 DEF Range
<1>14. ASSUME NEW e \in Range(ev) PROVE e \in Range(changes) /\ e.seq > after
  <2>1. PICK k \in 1..Len(ev) : e = ev[k] BY <1>13
  <2>2. PICK i \in I : RankIn(I, i) = k BY <1>9, <1>12
  <2>3. e = changes[i] BY <1>8, <1>11, <2>1, <2>2
  <2> QED BY <1>3, <1>6, <2>3
<1>15. ASSUME ev # <<>> PROVE Len(ev) \in 1..Len(ev) /\ Last(ev) = ev[Len(ev)] /\ Last(ev) \in Range(ev)
  <2>1. Len(ev) \in 1..Len(ev) BY <1>11, <1>15
  <2> QED BY <1>13, <2>1 DEF Last
<1>16. ASSUME ev # <<>>, NEW e \in Range(changes), e.tab \in subs[s].on, e.seq > after,
              e.seq <= Last(ev).seq, e \notin Range(ev)
       PROVE  FALSE
  <2>1. PICK j \in I : e = changes[j] BY <1>4, <1>16
  <2>2. RankIn(I, j) \in 1..Len(all) /\ all[RankIn(I, j)] = e BY <1>8, <2>1
  <2>3. ~(RankIn(I, j) \in 1..Len(ev)) BY <1>11, <1>13, <1>16, <2>2
  <2>4. Len(ev) \in 1..Len(ev) /\ Last(ev) = ev[Len(ev)] BY <1>15, <1>16
  <2>5. PICK i \in I : RankIn(I, i) = Len(ev) BY <1>9, <1>12, <2>4
  <2>6. Last(ev) = changes[i] BY <1>8, <1>11, <2>4, <2>5
  <2>7. i \in 1..Len(changes) /\ j \in 1..Len(changes) BY <1>3
  <2>8. RankIn(I, i) < RankIn(I, j) BY <1>7, <1>11, <2>2, <2>3, <2>5
  <2>9. ~(j < i) /\ j # i BY <1>7, <1>8, <1>10, <2>8
  <2>10. i < j BY <2>7, <2>9
  <2>11. changes[i].seq < changes[j].seq BY <1>5, <2>7, <2>10
  <2> QED BY <1>6, <1>16, <2>1, <2>6, <2>7, <2>11
<1> QED BY <1>11, <1>14, <1>15, <1>16 DEF ev

-----------------------------------------------------------------------------
(* Types *)

(* The types of the logs, with what the lemmas ask of them. *)
LEMMA LogTypes ==
  ASSUME FullTypeOK
  PROVE  /\ Torn \notin EventNow /\ Numbers("seq", EventNow)
         /\ Torn \notin RecordNow /\ Numbers("id", RecordNow)
         /\ Stmts \in 0..MaxStmts /\ MaxStmts \in Nat
         /\ Stmts = Len(hist)
<1>1. Stmts \in Nat /\ Stmts <= MaxStmts /\ MaxStmts \in Nat
  BY ChangeFeedAssumption DEF FullTypeOK, Stmts
<1>2. EventNow \subseteq Event /\ RecordNow \subseteq Record
  BY <1>1 DEF EventNow, RecordNow, Event, Record
<1>3. Torn \notin EventNow /\ Torn \notin RecordNow BY <1>2, TornApart
<1>4. \A x \in Event : x["seq"] \in Nat BY DEF Event
<1>5. \A x \in Record : x["id"] \in Nat BY DEF Record
<1> QED BY <1>1, <1>2, <1>3, <1>4, <1>5 DEF Numbers, Stmts

(* The logs keep their types when a statement adds to the history. *)
LEMMA LogsGrow ==
  ASSUME FullTypeOK, Stmts' \in Nat, Stmts <= Stmts'
  PROVE  /\ EventNow \subseteq EventNow' /\ RecordNow \subseteq RecordNow'
         /\ snap \in Seq(EventNow') /\ flog \in Seq(EventNow' \cup {Torn})
         /\ changes \in Seq(EventNow')
         /\ chainSnap \in Seq(RecordNow') /\ chainFlog \in Seq(RecordNow' \cup {Torn})
         /\ chain \in Seq(RecordNow')
         /\ hist \in Seq(EventNow')
         /\ file \in [Sub -> Seq(EventNow')]
<1>1. Stmts \in Nat BY LogTypes
<1>2. EventNow \subseteq EventNow' /\ RecordNow \subseteq RecordNow'
  <2>1. 1..Stmts \subseteq 1..Stmts' BY <1>1
  <2> QED BY <2>1 DEF EventNow, RecordNow
<1>3. /\ EventNow \cup {Torn} \subseteq EventNow' \cup {Torn}
      /\ RecordNow \cup {Torn} \subseteq RecordNow' \cup {Torn}
  BY <1>2
<1>4. /\ Seq(EventNow) \subseteq Seq(EventNow') /\ Seq(RecordNow) \subseteq Seq(RecordNow')
      /\ Seq(EventNow \cup {Torn}) \subseteq Seq(EventNow' \cup {Torn})
      /\ Seq(RecordNow \cup {Torn}) \subseteq Seq(RecordNow' \cup {Torn})
  BY <1>2, <1>3, SeqMonotonic
<1> QED BY <1>2, <1>4 DEF FullTypeOK

(* An empty sidecar adds nothing. *)
LEMMA OverEmpty ==
  ASSUME NEW f, NEW S, Torn \notin S, NEW base \in Seq(S)
  PROVE  Over(f, base, <<>>) = base /\ Readable(<<>>) = <<>> /\ ~Behind(<<>>) /\ ~HasTorn(<<>>)
<1>1. <<>> \in Seq(S \cup {Torn}) /\ 1..Len(<<>>) = {} OBVIOUS
<1>2. Readable(<<>>) = <<>> /\ ~Behind(<<>>) /\ ~HasTorn(<<>>)
  BY <1>1 DEF Readable, Behind, HasTorn
<1>3. OverRight(f, S, base, <<>>) BY <1>1, OverIsRight
<1>4. Over(f, base, <<>>) = base
  <2>1. \A i \in 1..Len(Readable(<<>>)) : ~(Readable(<<>>)[i][f] > LastOf(f, base))
    BY <1>1, <1>2
  <2> QED BY <1>3, <2>1 DEF OverRight
<1> QED BY <1>2, <1>4

-----------------------------------------------------------------------------
(* The chain, step by step *)

(* A step that writes neither the chain nor its files. *)
LEMMA ChainQuiet ==
  ASSUME ChainRight, UNCHANGED <<chainSnap, chainFlog, chain>>, stage # "down",
         stage' \notin {"down", "chained"}, stage' \in {"chain", "cut"} => chainSnap = chain,
         ~lost' => ~lost /\ committed' \subseteq StmtsOf(chain)
  PROVE  ChainRight'
<1>1. WholeChainFlog' = chainFlog BY DEF WholeChainFlog
<1>2. /\ Linked(chainSnap) /\ Linked(RecordsWith(chainFlog)) /\ Linked(chain)
      /\ \A i \in 1..Len(Readable(chainFlog)) : Readable(chainFlog)[i].id <= Len(chain)
      /\ ~Behind(chainFlog) => chain = RecordsWith(chainFlog)
  BY DEF ChainRight
<1>3. RecordsWith(WholeChainFlog)' = RecordsWith(chainFlog) /\ RecordsWith(chainFlog)' = RecordsWith(chainFlog)
  BY <1>1 DEF RecordsWith
<1> QED BY <1>1, <1>2, <1>3 DEF ChainRight

(* append_forensic_record *)
LEMMA AppendForensicChain ==
  ASSUME FullTypeOK, ChainRight, InProgress, AppendForensic
  PROVE  ChainRight'
<1> DEFINE r == [id |-> LastId(chain) + 1, stmt |-> Stmts,
                 prev |-> IF chain = <<>> THEN 0 ELSE Last(chain).stmt]
<1>1. /\ stage = "changed" /\ stage' = "chained"
      /\ chain' = Append(chain, r) /\ chainFlog' = Append(chainFlog, r)
      /\ UNCHANGED <<chainSnap, committed, hist, lost>>
  BY DEF AppendForensic
<1>2. /\ chain \in Seq(RecordNow) /\ chainSnap \in Seq(RecordNow)
      /\ chainFlog \in Seq(RecordNow \cup {Torn})
      /\ Torn \notin RecordNow /\ Numbers("id", RecordNow)
  BY LogTypes DEF FullTypeOK
<1>3. /\ Linked(chainSnap) /\ Linked(RecordsWith(chainFlog)) /\ Linked(chain)
      /\ \A i \in 1..Len(Readable(chainFlog)) : Readable(chainFlog)[i].id <= Len(chain)
      /\ ~Behind(chainFlog) => chain = RecordsWith(chainFlog)
      /\ ~lost => committed \subseteq StmtsOf(chain)
      /\ ~lost /\ ~Behind(chainFlog) => committed \subseteq StmtsOf(RecordsWith(chainFlog))
  BY <1>1 DEF ChainRight, WholeChainFlog
<1>4. LastId(chain) = Len(chain) /\ LastOf("id", chainSnap) = Len(chainSnap) /\ Len(chain) \in Nat
  BY <1>2, <1>3, LinkedLast
<1>5. r \in RecordNow /\ r.id = Len(chain) + 1 /\ r.stmt = Stmts
      /\ r.prev = IF chain = <<>> THEN 0 ELSE Last(chain).stmt
  <2>1. Stmts \in 1..Stmts BY <1>1, LogTypes DEF InProgress
  <2>2. chain # <<>> => Last(chain) \in RecordNow BY <1>2, FrontLast
  <2>3. Last(chain) \in RecordNow => Last(chain).stmt \in Nat BY DEF RecordNow
  <2> QED BY <1>4, <2>1, <2>2, <2>3 DEF RecordNow
<1> HIDE DEF r
<1>6. Linked(Append(chain, r)) /\ StmtsOf(Append(chain, r)) = StmtsOf(chain) \cup {Stmts}
  BY <1>2, <1>3, <1>5, LinkedAppend
<1>7. OverRight("id", RecordNow, chainSnap, chainFlog) BY <1>2, OverIsRight
<1>8. ~HasTorn(chainFlog) =>
        RecordsWith(chainFlog)' = Append(chain, r) /\ Readable(chainFlog') = Append(chainFlog, r)
  <2> SUFFICES ASSUME ~HasTorn(chainFlog)
               PROVE  RecordsWith(chainFlog)' = Append(chain, r) /\ Readable(chainFlog') = Append(chainFlog, r)
    OBVIOUS
  <2>1. ~Behind(chainFlog) BY DEF Behind, HasTorn
  <2>2. chain = Over("id", chainSnap, chainFlog) BY <1>3, <2>1 DEF RecordsWith
  <2>3. Len(chainSnap) <= Len(chain) /\ Len(chainSnap) \in Nat BY <1>2, <1>7, <2>2 DEF OverRight
  <2>4. r.id > LastOf("id", chainSnap) BY <1>4, <1>5, <2>3
  <2>5. Over("id", chainSnap, Append(chainFlog, r)) = Append(chain, r)
    BY <1>5, <1>7, <2>2, <2>4 DEF OverRight
  <2>6. r \in RecordNow \cup {Torn} /\ r # Torn BY <1>2, <1>5
  <2>7. Readable(Append(chainFlog, r)) = Append(chainFlog, r) BY <1>2, <2>6, ReadableAppend
  <2> QED BY <1>1, <2>5, <2>7 DEF RecordsWith
<1>9. HasTorn(chainFlog) =>
        RecordsWith(chainFlog)' = RecordsWith(chainFlog) /\ Readable(chainFlog') = Readable(chainFlog)
  <2>1. HasTorn(chainFlog) => Over("id", chainSnap, Append(chainFlog, r)) = Over("id", chainSnap, chainFlog)
    BY <1>5, <1>7 DEF OverRight
  <2>2. HasTorn(chainFlog) => Readable(Append(chainFlog, r)) = Readable(chainFlog)
    BY <1>2, <1>5, ReadableAppend
  <2> QED BY <1>1, <2>1, <2>2 DEF RecordsWith
<1>10. Behind(chainFlog') <=> HasTorn(chainFlog)
  <2>1. r \in RecordNow \cup {Torn} BY <1>5
  <2> QED BY <1>1, <1>2, <2>1, BehindAppend
<1>11. Front(chainFlog') = chainFlog /\ Last(chainFlog') = r /\ chainFlog' # <<>>
  <2>1. r \in RecordNow \cup {Torn} BY <1>5
  <2> QED BY <1>1, <1>2, <2>1, AppendLast
<1>12. chain' # <<>> /\ Last(chain') = r BY <1>1, <1>2, <1>5, AppendLast
<1>13. WholeChainFlog' = chainFlog BY <1>1, <1>11 DEF WholeChainFlog
<1>14. RecordsWith(WholeChainFlog)' = RecordsWith(chainFlog) BY <1>1, <1>13 DEF RecordsWith
<1>15. \A i \in 1..Len(Readable(chainFlog')) : Readable(chainFlog')[i].id <= Len(chain')
  <2>1. Len(chain') = Len(chain) + 1 BY <1>1, <1>2
  <2>2. Readable(chainFlog) \in Seq(RecordNow) BY <1>2, ReadableType
  <2>3. \A i \in 1..Len(Readable(chainFlog)) : Readable(chainFlog)[i].id \in Nat
    <3>1. \A i \in 1..Len(Readable(chainFlog)) : Readable(chainFlog)[i] \in RecordNow BY <2>2
    <3> QED BY <1>2, <3>1 DEF Numbers
  <2>4. CASE HasTorn(chainFlog) BY <1>3, <1>4, <1>9, <2>1, <2>3, <2>4
  <2>5. CASE ~HasTorn(chainFlog)
    <3>1. Readable(chainFlog) = chainFlog BY <1>2, <2>5, ReadableWhole
    <3>2. ASSUME NEW i \in 1..Len(chainFlog') PROVE chainFlog'[i].id <= Len(chain')
      <4>1. CASE i \in 1..Len(chainFlog)
        <5>1. chainFlog'[i] = chainFlog[i] BY <1>1, <1>2, <4>1
        <5> QED BY <1>3, <1>4, <2>1, <2>3, <3>1, <4>1, <5>1
      <4>2. CASE i \notin 1..Len(chainFlog)
        <5>1. chainFlog'[i] = r BY <1>1, <1>2, <4>2
        <5> QED BY <1>4, <1>5, <2>1, <5>1
      <4> QED BY <4>1, <4>2
    <3>3. Readable(chainFlog') = chainFlog' BY <1>1, <1>8, <2>5
    <3> QED BY <3>2, <3>3
  <2> QED BY <2>4, <2>5
<1>16. Linked(RecordsWith(chainFlog)') BY <1>3, <1>6, <1>8, <1>9
<1>17. Stmts' = Stmts BY <1>1 DEF Stmts
<1>18. ~Behind(chainFlog') => chain' = RecordsWith(chainFlog)' BY <1>1, <1>8, <1>10
<1>19. ~lost' => committed' \subseteq StmtsOf(chain') BY <1>1, <1>3, <1>6
<1> QED
  BY <1>1, <1>3, <1>5, <1>6, <1>11, <1>12, <1>13, <1>14, <1>15, <1>16, <1>17, <1>18, <1>19
  DEF ChainRight

(* The flush writes the chain and then removes its sidecar. *)
LEMMA FlushChain ==
  ASSUME FullTypeOK, ChainRight, PersistForensic \/ RemoveForensicLog
  PROVE  ChainRight'
<1>1. /\ chain \in Seq(RecordNow) /\ chainSnap \in Seq(RecordNow)
      /\ chainFlog \in Seq(RecordNow \cup {Torn})
      /\ Torn \notin RecordNow /\ Numbers("id", RecordNow)
  BY LogTypes DEF FullTypeOK
<1>2. stage # "down" BY DEF PersistForensic, RemoveForensicLog, FlushStep
<1>3. /\ Linked(chain)
      /\ \A i \in 1..Len(Readable(chainFlog)) : Readable(chainFlog)[i].id <= Len(chain)
      /\ ~lost => committed \subseteq StmtsOf(chain)
  BY <1>2 DEF ChainRight
<1>4. /\ UNCHANGED <<chain, committed, lost>> /\ stage' \in {"chain", "idle"}
  BY DEF PersistForensic, RemoveForensicLog, FlushStep, memory
<1>5. /\ chainSnap' = chain /\ RecordsWith(chainFlog)' = chain
      /\ \A i \in 1..Len(Readable(chainFlog')) : Readable(chainFlog')[i].id <= Len(chain)
  <2>1. CASE PersistForensic
    <3>1. chainSnap' = chain /\ chainFlog' = chainFlog BY <2>1 DEF PersistForensic
    <3>2. OverRight("id", RecordNow, chain, chainFlog) BY <1>1, OverIsRight
    <3>3. LastOf("id", chain) = Len(chain) BY <1>1, <1>3, LinkedLast
    <3>4. \A i \in 1..Len(Readable(chainFlog)) : ~(Readable(chainFlog)[i].id > LastOf("id", chain))
      <4>1. Readable(chainFlog) \in Seq(RecordNow) BY <1>1, ReadableType
      <4>2. \A i \in 1..Len(Readable(chainFlog)) : Readable(chainFlog)[i].id \in Nat
        <5>1. \A i \in 1..Len(Readable(chainFlog)) : Readable(chainFlog)[i] \in RecordNow BY <4>1
        <5> QED BY <1>1, <5>1 DEF Numbers
      <4>3. Len(chain) \in Nat BY <1>1
      <4> QED BY <1>3, <3>3, <4>2, <4>3
    <3>5. Over("id", chain, chainFlog) = chain BY <3>2, <3>4 DEF OverRight
    <3> QED BY <1>3, <3>1, <3>5 DEF RecordsWith
  <2>2. CASE RemoveForensicLog
    <3>1. chainSnap' = chainSnap /\ chainFlog' = <<>> /\ chainSnap = chain
      BY <2>2 DEF RemoveForensicLog, FlushStep, ChainRight
    <3>2. Over("id", chain, <<>>) = chain /\ Readable(<<>>) = <<>> BY <1>1, OverEmpty
    <3>3. 1..Len(<<>>) = {} OBVIOUS
    <3> QED BY <3>1, <3>2, <3>3 DEF RecordsWith
  <2> QED BY <2>1, <2>2
<1>6. WholeChainFlog' = chainFlog' BY <1>4 DEF WholeChainFlog
<1>7. RecordsWith(WholeChainFlog)' = chain BY <1>5, <1>6 DEF RecordsWith
<1> QED BY <1>3, <1>4, <1>5, <1>6, <1>7 DEF ChainRight

(* What is left of a sidecar reads like its whole records. *)
LeftReads(f, S, base, log, left) ==
  /\ left \in Seq(S \cup {Torn})
  /\ Over(f, base, left) = Over(f, base, Front(log))
  /\ ~Behind(left) => ~Behind(Front(log))

(* This is so after a crash. *)
LEMMA RemainsRead ==
  ASSUME NEW f, NEW S, Torn \notin S, NEW base \in Seq(S), NEW log \in Seq(S \cup {Torn}),
         log # <<>>, NEW left \in Remains(log, TRUE), left # log
  PROVE  LeftReads(f, S, base, log, left)
<1>1. Front(log) \in Seq(S \cup {Torn}) /\ Torn \in S \cup {Torn} BY FrontLast
<1>2. left = Front(log) \/ left = Append(Front(log), Torn) BY DEF Remains
<1>3. CASE left = Front(log) BY <1>1, <1>3 DEF LeftReads
<1>4. CASE left = Append(Front(log), Torn)
  <2>1. OverRight(f, S, base, Front(log)) BY <1>1, OverIsRight
  <2>2. Over(f, base, left) = Over(f, base, Front(log)) BY <1>4, <2>1 DEF OverRight
  <2>3. ~Behind(left) => ~HasTorn(Front(log)) BY <1>1, <1>4, BehindAppend
  <2>4. Behind(Front(log)) => HasTorn(Front(log)) BY DEF Behind, HasTorn
  <2>5. left \in Seq(S \cup {Torn}) BY <1>1, <1>4
  <2> QED BY <2>2, <2>3, <2>4, <2>5 DEF LeftReads
<1> QED BY <1>2, <1>3, <1>4

(* A crash keeps the whole records of the chain. *)
LEMMA CrashChain ==
  ASSUME FullTypeOK, ChainRight, Crash
  PROVE  ChainRight'
<1>1. /\ stage # "down" /\ stage' = "down" /\ chainFlog' \in Remains(chainFlog, stage = "chained")
      /\ UNCHANGED <<chainSnap, committed, lost>>
  BY DEF Crash
<1>2. /\ chainSnap \in Seq(RecordNow) /\ chainFlog \in Seq(RecordNow \cup {Torn})
      /\ Torn \notin RecordNow
  BY LogTypes DEF FullTypeOK
<1>3. WholeChainFlog' = chainFlog' BY <1>1 DEF WholeChainFlog
<1>4. /\ Linked(RecordsWith(chainFlog)')
      /\ ~lost /\ ~Behind(chainFlog') => committed \subseteq StmtsOf(RecordsWith(chainFlog)')
  <2>1. CASE chainFlog' = chainFlog
    <3>1. RecordsWith(chainFlog)' = RecordsWith(chainFlog) BY <1>1, <2>1 DEF RecordsWith
    <3> QED BY <1>1, <2>1, <3>1 DEF ChainRight
  <2>2. CASE chainFlog' # chainFlog
    <3>1. stage = "chained" BY <1>1, <2>2 DEF Remains
    <3>2. chainFlog # <<>> /\ WholeChainFlog = Front(chainFlog)
      BY <3>1 DEF ChainRight, WholeChainFlog
    <3>3. PICK left : left = chainFlog' OBVIOUS
    <3>4. left \in Remains(chainFlog, TRUE) /\ left # chainFlog BY <1>1, <2>2, <3>1, <3>3
    <3>5. /\ Over("id", chainSnap, left) = Over("id", chainSnap, Front(chainFlog))
          /\ ~Behind(left) => ~Behind(Front(chainFlog))
      <4>1. LeftReads("id", RecordNow, chainSnap, chainFlog, left)
        BY <1>2, <3>2, <3>4, RemainsRead
      <4> QED BY <4>1 DEF LeftReads
    <3>6. RecordsWith(chainFlog)' = RecordsWith(WholeChainFlog)
      BY <1>1, <3>2, <3>3, <3>5 DEF RecordsWith
    <3> QED BY <3>2, <3>3, <3>5, <3>6 DEF ChainRight
  <2> QED BY <2>1, <2>2
<1>5. RecordsWith(WholeChainFlog)' = RecordsWith(chainFlog)' BY <1>3 DEF RecordsWith
<1>6. Linked(chainSnap') BY <1>1 DEF ChainRight
<1> QED BY <1>1, <1>3, <1>4, <1>5, <1>6 DEF ChainRight

(* The next start reads the chain from disk. *)
LEMMA RestartChain ==
  ASSUME FullTypeOK, ChainRight, Restart
  PROVE  ChainRight'
<1>1. /\ stage = "down" /\ stage' = "idle" /\ chain' = chainSnap \o NewRecords
      /\ lost' = (lost \/ Behind(flog) \/ Behind(chainFlog))
      /\ UNCHANGED <<chainSnap, chainFlog, committed>>
  BY DEF Restart, disk
<1>2. /\ chainSnap \in Seq(RecordNow) /\ chainFlog \in Seq(RecordNow \cup {Torn})
      /\ Torn \notin RecordNow /\ Numbers("id", RecordNow)
  BY LogTypes DEF FullTypeOK
<1>3. chain' = RecordsWith(chainFlog)
  <2>1. LastId(chainSnap) = LastOf("id", chainSnap) BY DEF LastId, LastOf
  <2> QED BY <1>1, <2>1 DEF NewRecords, RecordsWith, Over, Newer
<1>4. WholeChainFlog = chainFlog /\ WholeChainFlog' = chainFlog BY <1>1 DEF WholeChainFlog
<1>5. /\ RecordsWith(WholeChainFlog)' = RecordsWith(chainFlog)
      /\ RecordsWith(chainFlog)' = RecordsWith(chainFlog)
  BY <1>1, <1>4 DEF RecordsWith
<1>6. /\ Linked(chainSnap) /\ Linked(RecordsWith(chainFlog))
      /\ ~lost /\ ~Behind(chainFlog) => committed \subseteq StmtsOf(RecordsWith(chainFlog))
  BY <1>4 DEF ChainRight
<1>7. \A i \in 1..Len(Readable(chainFlog)) :
        Readable(chainFlog)[i].id <= Len(RecordsWith(chainFlog))
  BY <1>2, <1>6, ChainReadable DEF RecordsWith
<1> QED BY <1>1, <1>3, <1>4, <1>5, <1>6, <1>7 DEF ChainRight

-----------------------------------------------------------------------------
(* The change log, step by step *)

(* While the server is up and no event is being appended, the log on disk   *)
(* serves the consumers because it gives the log in memory.                 *)
LEMMA FeedUp ==
  ASSUME stage' \notin {"down", "changed"}, stage' \in {"snapshot", "chain"} => snap' = changes',
         Consecutive(snap'), Consecutive(EventsWith(flog)'),
         Consecutive(changes'), changeSeq' = LastSeq(changes'),
         \A i \in 1..Len(Readable(flog')) : Readable(flog')[i].seq <= changeSeq',
         ~Behind(flog') => changes' = Trim(EventsWith(flog)'),
         ~lost' => Serves(changes)'
  PROVE  FeedRight'
<1>1. WholeFlog' = flog' BY DEF WholeFlog
<1>2. EventsWith(WholeFlog)' = EventsWith(flog)' BY <1>1 DEF EventsWith
<1>3. ~lost' /\ ~Behind(flog') => Serves(Trim(EventsWith(WholeFlog)))'
  <2>1. SUFFICES ASSUME ~lost', ~Behind(flog') PROVE Serves(Trim(EventsWith(WholeFlog)))'
    OBVIOUS
  <2>2. Trim(EventsWith(WholeFlog))' = changes' BY <1>2, <2>1
  <2> QED BY <2>1, <2>2 DEF Serves, OffsetsWithin, CommittedIn, SinksOf, Drained
<1> QED BY <1>1, <1>2, <1>3 DEF FeedRight

(* A step that writes neither the change log nor its files. *)
LEMMA FeedQuiet ==
  ASSUME FeedRight, UNCHANGED <<snap, flog, changes, changeSeq>>, stage # "down",
         stage' \notin {"down", "changed"}, stage' \in {"snapshot", "chain"} => snap = changes,
         ~lost' => Serves(changes)'
  PROVE  FeedRight'
<1>1. /\ Consecutive(snap) /\ Consecutive(EventsWith(flog))
      /\ Consecutive(changes) /\ changeSeq = LastSeq(changes)
      /\ \A i \in 1..Len(Readable(flog)) : Readable(flog)[i].seq <= changeSeq
      /\ ~Behind(flog) => changes = Trim(EventsWith(flog))
  BY DEF FeedRight
<1>2. EventsWith(flog)' = EventsWith(flog) BY DEF EventsWith
<1> QED BY <1>1, <1>2, FeedUp

(* The flush writes the retained events and then removes the sidecar. *)
LEMMA FlushFeed ==
  ASSUME FullTypeOK, FeedRight, PersistChanges \/ RemoveChangesLog
  PROVE  FeedRight'
<1>1. /\ changes \in Seq(EventNow) /\ snap \in Seq(EventNow)
      /\ flog \in Seq(EventNow \cup {Torn}) /\ Len(changes) <= Retention
      /\ Torn \notin EventNow /\ Numbers("seq", EventNow)
  BY LogTypes DEF FullTypeOK
<1>2. stage # "down" BY DEF PersistChanges, RemoveChangesLog, FlushStep
<1>3. /\ Consecutive(changes) /\ changeSeq = LastSeq(changes)
      /\ \A i \in 1..Len(Readable(flog)) : Readable(flog)[i].seq <= changeSeq
      /\ ~lost => Serves(changes)
  BY <1>2 DEF FeedRight
<1>4. /\ UNCHANGED <<committed, subs, file, changes, changeSeq, cursor, hist, lost>>
      /\ stage' \in {"snapshot", "cut"}
  BY DEF PersistChanges, RemoveChangesLog, FlushStep, memory, consumers
<1>5. /\ snap' = changes /\ EventsWith(flog)' = changes
      /\ \A i \in 1..Len(Readable(flog')) : Readable(flog')[i].seq <= changeSeq
  <2>1. CASE PersistChanges
    <3>1. snap' = changes /\ flog' = flog BY <2>1 DEF PersistChanges
    <3>2. OverRight("seq", EventNow, changes, flog) BY <1>1, OverIsRight
    <3>3. LastOf("seq", changes) = LastSeq(changes) /\ LastSeq(changes) \in Nat
      BY <1>1, LastSeqType
    <3>4. \A i \in 1..Len(Readable(flog)) : ~(Readable(flog)[i].seq > LastOf("seq", changes))
      <4>1. Readable(flog) \in Seq(EventNow) BY <1>1, ReadableType
      <4>2. \A i \in 1..Len(Readable(flog)) : Readable(flog)[i].seq \in Nat
        <5>1. \A i \in 1..Len(Readable(flog)) : Readable(flog)[i] \in EventNow BY <4>1
        <5> QED BY <1>1, <5>1 DEF Numbers
      <4> QED BY <1>3, <3>3, <4>2
    <3>5. Over("seq", changes, flog) = changes BY <3>2, <3>4 DEF OverRight
    <3> QED BY <1>3, <3>1, <3>5 DEF EventsWith
  <2>2. CASE RemoveChangesLog
    <3>1. snap' = snap /\ flog' = <<>> /\ snap = changes
      BY <2>2 DEF RemoveChangesLog, FlushStep, FeedRight
    <3>2. Over("seq", changes, <<>>) = changes /\ Readable(<<>>) = <<>> BY <1>1, OverEmpty
    <3>3. 1..Len(<<>>) = {} OBVIOUS
    <3> QED BY <3>1, <3>2, <3>3 DEF EventsWith
  <2> QED BY <2>1, <2>2
<1>6. Trim(changes) = changes BY <1>1, TrimShape
<1>7. ~lost' => Serves(changes)'
  BY <1>3, <1>4 DEF Serves, OffsetsWithin, CommittedIn, SinksOf, Drained, Open
<1> QED BY <1>3, <1>4, <1>5, <1>6, <1>7, FeedUp

(* The next start reads the change log from disk. *)
LEMMA RestartFeed ==
  ASSUME FullTypeOK, FeedRight, Restart
  PROVE  FeedRight'
<1> DEFINE all == EventsWith(flog)
<1>1. /\ stage = "down" /\ stage' = "idle"
      /\ changes' = Trim(snap \o NewChanges) /\ changeSeq' = LastSeq(changes')
      /\ lost' = (lost \/ Behind(flog) \/ Behind(chainFlog))
      /\ UNCHANGED <<snap, flog, committed, subs, file, cursor, hist>>
  BY DEF Restart, disk, consumers
<1>2. /\ snap \in Seq(EventNow) /\ flog \in Seq(EventNow \cup {Torn})
      /\ Torn \notin EventNow /\ Numbers("seq", EventNow)
  BY LogTypes DEF FullTypeOK
<1>3. snap \o NewChanges = all
  <2>1. LastSeq(snap) = LastOf("seq", snap) BY DEF LastSeq, LastOf
  <2> QED BY <2>1 DEF NewChanges, EventsWith, Over, Newer
<1>4. WholeFlog = flog BY <1>1 DEF WholeFlog
<1>5. /\ Consecutive(snap) /\ Consecutive(all)
      /\ ~lost /\ ~Behind(flog) => Serves(Trim(all))
  BY <1>4 DEF FeedRight
<1>6. all \in Seq(EventNow)
  <2>1. OverRight("seq", EventNow, snap, flog) BY <1>2, OverIsRight
  <2> QED BY <2>1 DEF OverRight, EventsWith
<1>7. Consecutive(Trim(all)) /\ LastSeq(Trim(all)) = LastSeq(all)
  BY <1>2, <1>5, <1>6, TrimShape, TrimConsecutive
<1>8. \A i \in 1..Len(Readable(flog)) : Readable(flog)[i].seq <= LastSeq(all)
  BY <1>2, <1>5, FeedReadable DEF EventsWith
<1>9. all' = all BY <1>1 DEF EventsWith
<1>10. changes' = Trim(all) BY <1>1, <1>3
<1>11. ~lost' => Serves(changes)'
  BY <1>1, <1>5, <1>10 DEF Serves, OffsetsWithin, CommittedIn, SinksOf, Drained, Open
<1> QED BY <1>1, <1>5, <1>7, <1>8, <1>9, <1>10, <1>11, FeedUp

(* A crash keeps the whole events of the change log. *)
LEMMA CrashFeed ==
  ASSUME FullTypeOK, FeedRight, InProgress, Crash
  PROVE  FeedRight'
<1> DEFINE left == EventsWith(flog)'
<1>1. /\ stage # "down" /\ stage' = "down" /\ flog' \in Remains(flog, stage = "changed")
      /\ UNCHANGED <<snap, committed, subs, file, hist, lost>> /\ changes' = <<>> /\ changeSeq' = 0
      /\ \A s \in Sub : cursor'[s] \in {0, cursor[s]}
  BY DEF Crash
<1>2. /\ snap \in Seq(EventNow) /\ flog \in Seq(EventNow \cup {Torn})
      /\ Torn \notin EventNow /\ Numbers("seq", EventNow)
  BY LogTypes DEF FullTypeOK
<1>3. WholeFlog' = flog' BY <1>1 DEF WholeFlog
<1>4. /\ flog' \in Seq(EventNow \cup {Torn}) /\ Consecutive(left)
      /\ ~lost /\ ~Behind(flog') => Serves(Trim(left))
  <2>1. CASE flog' = flog
    <3>1. left = EventsWith(flog) BY <1>1, <2>1 DEF EventsWith
    <3>2. ~lost /\ ~Behind(flog) => Serves(Trim(EventsWith(flog))) BY <1>1 DEF FeedRight
    <3> QED BY <1>2, <2>1, <3>1, <3>2 DEF FeedRight
  <2>2. CASE flog' # flog
    <3>1. stage = "changed" BY <1>1, <2>2 DEF Remains
    <3>2. flog # <<>> /\ WholeFlog = Front(flog) BY <3>1 DEF InProgress, WholeFlog
    <3>3. PICK rest : rest = flog' OBVIOUS
    <3>4. rest \in Remains(flog, TRUE) /\ rest # flog BY <1>1, <2>2, <3>1, <3>3
    <3>5. LeftReads("seq", EventNow, snap, flog, rest) BY <1>2, <3>2, <3>4, RemainsRead
    <3>6. left = EventsWith(WholeFlog) BY <1>1, <3>2, <3>3, <3>5 DEF EventsWith, LeftReads
    <3>7. rest \in Seq(EventNow \cup {Torn}) /\ (~Behind(rest) => ~Behind(WholeFlog))
      BY <3>2, <3>5 DEF LeftReads
    <3> QED BY <3>3, <3>6, <3>7 DEF FeedRight
  <2> QED BY <2>1, <2>2
<1>5. EventsWith(WholeFlog)' = left BY <1>3 DEF EventsWith
<1>6. LastSeq(Trim(left)) \in Nat
  <2>1. left = Over("seq", snap, flog') BY <1>1 DEF EventsWith
  <2>2. PICK rest : rest = flog' OBVIOUS
  <2>3. OverRight("seq", EventNow, snap, rest) BY <1>2, <1>4, <2>2, OverIsRight
  <2>4. left \in Seq(EventNow) BY <2>1, <2>2, <2>3 DEF OverRight
  <2>5. Trim(left) \in Seq(EventNow) BY <2>4, TrimShape
  <2> QED BY <1>2, <2>5, LastSeqType
<1>7. ~lost' /\ ~Behind(flog') => Serves(Trim(EventsWith(WholeFlog)))'
  <2>1. SUFFICES ASSUME ~lost', ~Behind(flog') PROVE Serves(Trim(EventsWith(WholeFlog)))'
    OBVIOUS
  <2>2. Serves(Trim(left)) BY <1>1, <1>4, <2>1
  <2>3. Trim(EventsWith(WholeFlog))' = Trim(left) BY <1>5
  <2> HIDE DEF left
  <2>4. OffsetsWithin(Trim(EventsWith(WholeFlog)))'
    <3>1. ASSUME NEW s \in Sub PROVE cursor'[s] <= LastSeq(Trim(left))
      <4>1. cursor[s] <= LastSeq(Trim(left)) BY <2>2 DEF Serves, OffsetsWithin
      <4> QED BY <1>1, <1>6, <4>1
    <3> QED BY <1>1, <2>2, <2>3, <3>1 DEF Serves, OffsetsWithin
  <2>5. CommittedIn(Trim(EventsWith(WholeFlog)))'
    BY <1>1, <2>2, <2>3 DEF Serves, CommittedIn
  <2>6. SinksOf(Trim(EventsWith(WholeFlog)))'
    BY <1>1, <2>2, <2>3 DEF Serves, SinksOf, Drained, Open
  <2> QED BY <2>4, <2>5, <2>6 DEF Serves
<1>8. Consecutive(snap') BY <1>1 DEF FeedRight
<1> QED BY <1>1, <1>3, <1>4, <1>5, <1>7, <1>8 DEF FeedRight

(* A log of consecutive numbers, with the next event, under retention: an   *)
(* event is dropped only when its number is before the ones that are kept.  *)
LEMMA RetainedAppend ==
  ASSUME NEW S, Numbers("seq", S), NEW log \in Seq(S), NEW x \in S,
         Consecutive(log), x.seq = LastSeq(log) + 1,
         NEW new, new = Trim(Append(log, x))
  PROVE  /\ new \in Seq(S) /\ Len(new) <= Retention /\ Consecutive(new)
         /\ LastSeq(new) = x.seq /\ new # <<>> /\ Last(new) = x
         /\ LastSeq(new) - Len(new) >= LastSeq(log) - Len(log)
         /\ Range(new) \subseteq Range(log) \cup {x}
         /\ \A e \in Range(log) : e.seq > LastSeq(new) - Len(new) => e \in Range(new)
<1> DEFINE a == Append(log, x)
           n == Len(log)
           m == Len(new)
<1>1. /\ n \in Nat /\ a \in Seq(S) /\ Len(a) = n + 1 /\ a[n + 1] = x
      /\ \A i \in 1..n : a[i] = log[i]
  OBVIOUS
<1>2. Consecutive(a) /\ LastSeq(a) = x.seq BY ConsecutiveAppend
<1>3. LastSeq(log) \in Nat /\ \A i \in 1..n : log[i].seq \in Nat BY LastSeqType
<1>4. Retention \in Nat \ {0} BY ChangeFeedAssumption
<1> HIDE DEF a
<1>5. /\ new \in Seq(S) /\ m <= Retention /\ m <= n + 1
      /\ \A i \in 1..m : new[i] = a[n + 1 - m + i]
      /\ new = a \/ m = Retention
      /\ LastSeq(new) = LastSeq(a)
  <2>1. new = Trim(a) BY DEF a
  <2>2. /\ Trim(a) \in Seq(S) /\ Len(Trim(a)) <= Retention /\ Len(Trim(a)) <= Len(a)
        /\ \A i \in 1..Len(Trim(a)) : Trim(a)[i] = a[Len(a) - Len(Trim(a)) + i]
        /\ Trim(a) = a \/ Len(Trim(a)) = Retention
        /\ LastSeq(Trim(a)) = LastSeq(a)
    BY <1>1, TrimShape
  <2> QED BY <1>1, <2>1, <2>2
<1>6. Consecutive(new) BY <1>1, <1>2, TrimConsecutive DEF a
<1>7. m \in Nat /\ m >= 1 BY <1>1, <1>4, <1>5
<1> HIDE DEF m
<1>8. new # <<>> /\ Last(new) = x
  <2>1. m \in 1..m /\ n + 1 - m + m = n + 1 BY <1>1, <1>7
  <2>2. new[m] = x BY <1>1, <1>5, <2>1
  <2> QED BY <1>5, <1>7, <2>2 DEF Last, m
<1>9. LastSeq(new) - m >= LastSeq(log) - n BY <1>1, <1>2, <1>3, <1>5, <1>7
<1>10. ASSUME NEW e \in Range(new) PROVE e \in Range(log) \cup {x}
  <2>1. PICK i \in 1..m : e = new[i] BY <1>5 DEF Range, m
  <2>2. n + 1 - m + i \in 1..(n + 1) BY <1>1, <1>5, <1>7
  <2>3. PICK j \in 1..(n + 1) : e = a[j] BY <1>5, <2>1, <2>2
  <2>4. CASE j = n + 1 BY <1>1, <2>3, <2>4
  <2>5. CASE j # n + 1
    <3>1. j \in 1..n BY <1>1, <2>5
    <3> QED BY <1>1, <2>3, <3>1 DEF Range
  <2> QED BY <2>4, <2>5
<1>11. ASSUME NEW e \in Range(log), e.seq > LastSeq(new) - m PROVE e \in Range(new)
  <2>1. PICK k \in 1..n : e = log[k] BY DEF Range
  <2>2. e.seq = LastSeq(log) - n + k BY <2>1 DEF Consecutive
  <2> DEFINE i == k - (n + 1 - m)
  <2>3. i \in 1..m /\ n + 1 - m + i = k
    BY <1>1, <1>2, <1>3, <1>5, <1>7, <1>11, <2>2
  <2>4. new[i] = e BY <1>1, <1>5, <2>1, <2>3
  <2> QED BY <1>5, <2>3, <2>4 DEF Range, m
<1> QED BY <1>2, <1>5, <1>6, <1>8, <1>9, <1>10, <1>11 DEF m

(* The event of the statement that starts. *)
Emitted(t) == [seq |-> changeSeq + 1, stmt |-> Stmts + 1, tab |-> t]

(* It is numbered after the retained events. *)
LEMMA EmitTypes ==
  ASSUME FullTypeOK, FeedRight, NEW t \in Table, EmitChange(t)
  PROVE  /\ stage # "down" /\ Stmts' = Stmts + 1 /\ Stmts \in Nat /\ Stmts < MaxStmts
         /\ Emitted(t) \in EventNow' /\ Emitted(t).seq = LastSeq(changes) + 1
         /\ Emitted(t).stmt = Stmts'
         /\ changeSeq \in Nat /\ changeSeq <= Stmts
         /\ Torn \notin EventNow' /\ Numbers("seq", EventNow')
         /\ hist' = Append(hist, Emitted(t)) /\ hist'[Stmts'] = Emitted(t)
         /\ \A i \in 1..Stmts : hist'[i] = hist[i]
<1>1. /\ stage = "idle" /\ Stmts < MaxStmts /\ hist' = Append(hist, Emitted(t))
  BY DEF EmitChange, Emitted
<1>2. Stmts \in Nat /\ Stmts = Len(hist) /\ hist \in Seq(EventNow) BY LogTypes DEF FullTypeOK
<1>3. /\ Stmts' = Stmts + 1 /\ hist'[Stmts'] = Emitted(t)
      /\ \A i \in 1..Stmts : hist'[i] = hist[i]
  BY <1>1, <1>2 DEF Stmts
<1>4. changeSeq = LastSeq(changes) BY <1>1 DEF FeedRight
<1>5. changeSeq \in Nat /\ changeSeq <= Stmts
  <2>1. changes \in Seq(EventNow) BY DEF FullTypeOK
  <2>2. CASE changes = <<>> BY <1>2, <1>4, <2>2 DEF LastSeq
  <2>3. CASE changes # <<>>
    <3>1. Last(changes) \in EventNow BY <2>1, <2>3, FrontLast
    <3>2. Last(changes).seq \in 1..Stmts BY <3>1 DEF EventNow
    <3> QED BY <1>2, <1>4, <2>3, <3>2 DEF LastSeq
  <2> QED BY <2>2, <2>3
<1>6. Emitted(t) \in EventNow'
  <2>1. changeSeq + 1 \in 1..Stmts' /\ Stmts + 1 \in 1..Stmts' BY <1>2, <1>3, <1>5
  <2> QED BY <2>1 DEF Emitted, EventNow
<1>7. EventNow' \subseteq Event
  <2>1. 1..Stmts' \subseteq Nat BY <1>2, <1>3
  <2> QED BY <2>1 DEF EventNow, Event
<1>8. Torn \notin EventNow' BY <1>7, TornApart
<1>9. \A x \in Event : x["seq"] \in Nat BY DEF Event
<1> QED BY <1>1, <1>2, <1>3, <1>4, <1>5, <1>6, <1>7, <1>8, <1>9 DEF Numbers, Emitted

(* emit_change *)
LEMMA EmitChangeFeed ==
  ASSUME FullTypeOK, FeedRight, NEW t \in Table, EmitChange(t)
  PROVE  FeedRight'
<1> DEFINE e == Emitted(t)
           E == EventNow'
           all == EventsWith(flog)
<1>1. /\ stage # "down" /\ stage # "changed" /\ stage' = "changed"
      /\ changeSeq' = changeSeq + 1 /\ changes' = Trim(Append(changes, e))
      /\ flog' = Append(flog, e)
      /\ UNCHANGED <<snap, committed, subs, file, cursor, lost>>
  BY DEF EmitChange, Emitted, consumers
<1>2. /\ snap \in Seq(E) /\ flog \in Seq(E \cup {Torn}) /\ changes \in Seq(E)
  <2>1. Stmts' \in Nat /\ Stmts <= Stmts' BY EmitTypes
  <2> QED BY <2>1, LogsGrow
<1>3. /\ e \in E /\ e.seq = LastSeq(changes) + 1 /\ Torn \notin E /\ Numbers("seq", E)
      /\ \A i \in 1..Stmts : hist'[i] = hist[i]
  BY EmitTypes
<1>4. committed \subseteq 1..Stmts BY DEF FullTypeOK
<1>5. /\ Consecutive(snap) /\ Consecutive(all) /\ Consecutive(changes)
      /\ changeSeq = LastSeq(changes) /\ LastSeq(changes) \in Nat
      /\ \A i \in 1..Len(Readable(flog)) : Readable(flog)[i].seq <= changeSeq
      /\ ~Behind(flog) => changes = Trim(all)
      /\ ~lost => Serves(changes)
  BY <1>1, <1>2, <1>3, LastSeqType DEF FeedRight
<1>6. e \in E \cup {Torn} /\ e # Torn BY <1>3
<1> HIDE DEF e, E
<1>7. Behind(flog') <=> HasTorn(flog) BY <1>1, <1>2, <1>6, BehindAppend
<1>8. WholeFlog' = flog
  <2>1. Front(Append(flog, e)) = flog BY <1>2, <1>6, AppendLast
  <2> QED BY <1>1, <2>1 DEF WholeFlog
<1>9. EventsWith(WholeFlog)' = all BY <1>1, <1>8 DEF EventsWith
<1>10. OverRight("seq", E, snap, flog) BY <1>2, <1>3, OverIsRight
<1>11. all \in Seq(E) BY <1>10 DEF OverRight, EventsWith
<1>12. PICK new : new = changes' OBVIOUS
<1>13. /\ new \in Seq(E) /\ Consecutive(new) /\ LastSeq(new) = e.seq
       /\ LastSeq(new) - Len(new) >= LastSeq(changes) - Len(changes)
       /\ Range(new) \subseteq Range(changes) \cup {e}
       /\ \A x \in Range(changes) : x.seq > LastSeq(new) - Len(new) => x \in Range(new)
  BY <1>1, <1>2, <1>3, <1>5, <1>12, RetainedAppend
<1>14. HasTorn(flog) =>
         EventsWith(flog)' = all /\ Readable(flog') = Readable(flog)
  <2>1. HasTorn(flog) => Over("seq", snap, Append(flog, e)) = Over("seq", snap, flog)
    BY <1>6, <1>10 DEF OverRight
  <2>2. HasTorn(flog) => Readable(Append(flog, e)) = Readable(flog)
    BY <1>2, <1>3, <1>6, ReadableAppend
  <2> QED BY <1>1, <2>1, <2>2 DEF EventsWith
<1>15. ~HasTorn(flog) =>
         /\ EventsWith(flog)' = Append(all, e) /\ Readable(flog') = Append(flog, e)
         /\ LastSeq(all) = LastSeq(changes) /\ changes = Trim(all)
  <2> SUFFICES ASSUME ~HasTorn(flog)
               PROVE  /\ EventsWith(flog)' = Append(all, e) /\ Readable(flog') = Append(flog, e)
                      /\ LastSeq(all) = LastSeq(changes) /\ changes = Trim(all)
    OBVIOUS
  <2>1. ~Behind(flog) BY DEF Behind, HasTorn
  <2>2. changes = Trim(all) /\ LastSeq(all) = LastSeq(changes)
    BY <1>5, <1>11, <2>1, TrimShape
  <2>3. LastSeq(snap) <= LastSeq(all) BY <1>2, <1>3, <1>5, FeedReadable DEF EventsWith
  <2>4. e.seq > LastOf("seq", snap)
    <3>1. LastSeq(snap) = LastOf("seq", snap) /\ LastSeq(snap) \in Nat BY <1>2, <1>3, LastSeqType
    <3> QED BY <1>3, <1>5, <2>2, <2>3, <3>1
  <2>5. Over("seq", snap, Append(flog, e)) = Append(Over("seq", snap, flog), e)
    BY <1>3, <1>10, <2>4 DEF OverRight
  <2>6. Readable(Append(flog, e)) = Append(flog, e) BY <1>2, <1>3, <1>6, ReadableAppend
  <2> QED BY <1>1, <2>2, <2>5, <2>6 DEF EventsWith
<1> HIDE DEF all
<1>16. Consecutive(EventsWith(flog)')
  <2>1. CASE HasTorn(flog) BY <1>5, <1>14, <2>1
  <2>2. CASE ~HasTorn(flog)
    <3>1. Consecutive(Append(all, e)) BY <1>3, <1>5, <1>11, <1>15, <2>2, ConsecutiveAppend
    <3> QED BY <1>15, <2>2, <3>1
  <2> QED BY <2>1, <2>2
<1>17. ~Behind(flog') => changes' = Trim(EventsWith(flog)')
  <2>1. SUFFICES ASSUME ~HasTorn(flog) PROVE changes' = Trim(EventsWith(flog)') BY <1>7
  <2>2. Trim(Append(Trim(all), e)) = Trim(Append(all, e)) BY <1>3, <1>11, TrimAppend
  <2> QED BY <1>1, <1>15, <2>1, <2>2
<1>18. \A i \in 1..Len(Readable(flog')) : Readable(flog')[i].seq <= changeSeq'
  <2>1. Readable(flog) \in Seq(E) BY <1>2, <1>3, ReadableType
  <2>2. \A i \in 1..Len(Readable(flog)) : Readable(flog)[i].seq \in Nat
    BY <1>3, <2>1, LastSeqType
  <2>3. \A i \in 1..Len(Readable(flog)) : Readable(flog)[i].seq <= changeSeq'
    BY <1>1, <1>5, <2>2
  <2>4. CASE HasTorn(flog) BY <1>14, <2>3, <2>4
  <2>5. CASE ~HasTorn(flog)
    <3>1. Readable(flog) = flog BY <1>2, <1>3, <2>5, ReadableWhole
    <3>2. ASSUME NEW i \in 1..Len(Append(flog, e)) PROVE Append(flog, e)[i].seq <= changeSeq'
      <4>1. CASE i \in 1..Len(flog)
        <5>1. Append(flog, e)[i] = flog[i] BY <1>2, <4>1
        <5> QED BY <2>3, <3>1, <4>1, <5>1
      <4>2. CASE i \notin 1..Len(flog)
        <5>1. Append(flog, e)[i] = e BY <1>2, <4>2
        <5> QED BY <1>1, <1>3, <1>5, <5>1
      <4> QED BY <4>1, <4>2
    <3> QED BY <1>15, <2>5, <3>2
  <2> QED BY <2>4, <2>5
<1>19. ~lost' => Serves(changes)'
  <2> SUFFICES ASSUME ~lost PROVE Serves(changes)' BY <1>1
  <2>1. OffsetsWithin(changes) /\ CommittedIn(changes) /\ SinksOf(changes)
    BY <1>5 DEF Serves
  <2>2. LastSeq(new) = LastSeq(changes) + 1 BY <1>3, <1>13
  <2>3. /\ cursor \in [Sub -> 0..Stmts] /\ subs \in [Sub -> SubType] /\ Stmts \in Nat
        /\ \A s \in Sub : cursor[s] \in Int /\ subs[s].acked \in Int /\ subs[s].sink \in Int
    <3>1. cursor \in [Sub -> 0..Stmts] /\ subs \in [Sub -> SubType] /\ Stmts \in Nat
      BY EmitTypes DEF FullTypeOK
    <3> QED BY <3>1 DEF SubType
  <2>4. OffsetsWithin(changes)'
    <3>1. ASSUME NEW s \in Sub
          PROVE  /\ cursor[s] <= LastSeq(new) /\ subs[s].acked <= LastSeq(new)
                 /\ subs[s].sink <= LastSeq(new)
      <4>1. /\ cursor[s] <= LastSeq(changes) /\ subs[s].acked <= LastSeq(changes)
            /\ subs[s].sink <= LastSeq(changes)
        BY <2>1 DEF OffsetsWithin
      <4>2. cursor[s] \in Int /\ subs[s].acked \in Int /\ subs[s].sink \in Int BY <2>3
      <4> QED BY <1>5, <2>2, <4>1, <4>2
    <3> QED BY <1>1, <1>12, <3>1 DEF OffsetsWithin
  <2>5. CommittedIn(changes)'
    <3>1. ASSUME NEW i \in committed
          PROVE  /\ hist[i].seq <= LastSeq(new)
                 /\ hist[i].seq > LastSeq(new) - Len(new) => hist[i] \in Range(new)
      <4>1. /\ hist[i].seq <= LastSeq(changes)
            /\ hist[i].seq > LastSeq(changes) - Len(changes) => hist[i] \in Range(changes)
        BY <2>1 DEF CommittedIn
      <4>2. hist[i].seq \in Nat
        <5>1. hist \in Seq(EventNow) /\ i \in 1..Len(hist) /\ Stmts \in Nat
          BY <1>4, LogTypes DEF FullTypeOK
        <5>2. hist[i] \in EventNow BY <5>1
        <5> QED BY <5>1, <5>2 DEF EventNow
      <4>3. Len(new) \in Nat /\ Len(changes) \in Nat BY <1>2, <1>13
      <4> QED BY <1>5, <1>13, <2>2, <4>1, <4>2, <4>3
    <3>2. \A i \in committed : hist'[i] = hist[i] BY <1>3, <1>4
    <3> QED BY <1>1, <1>12, <3>1, <3>2 DEF CommittedIn
  <2>6. SinksOf(changes)'
    <3>1. ASSUME NEW s \in Sub, Open(s), NEW x \in Range(new), x.tab \in subs[s].on,
                 x.seq > subs[s].from, x.seq <= subs[s].sink
          PROVE  x \in Range(file[s])
      <4>1. x # e
        <5>1. subs[s].sink <= LastSeq(changes) /\ subs[s].sink \in Int BY <2>1, <2>3 DEF OffsetsWithin
        <5> QED BY <1>3, <1>5, <3>1, <5>1
      <4>2. x \in Range(changes) BY <1>13, <4>1
      <4> QED BY <2>1, <3>1, <4>2 DEF SinksOf, Drained
    <3> QED BY <1>1, <1>12, <3>1 DEF SinksOf, Drained, Open
  <2> QED BY <2>4, <2>5, <2>6 DEF Serves
<1>20. ~lost' /\ ~Behind(flog) => Serves(Trim(EventsWith(WholeFlog)))'
  <2>1. SUFFICES ASSUME ~lost, ~Behind(flog) PROVE Serves(Trim(EventsWith(WholeFlog)))'
    BY <1>1
  <2>2. Trim(EventsWith(WholeFlog))' = changes BY <1>5, <1>9, <2>1
  <2>3. \A i \in committed : hist'[i] = hist[i] BY <1>3, <1>4
  <2>4. Serves(changes) BY <1>5, <2>1
  <2>5. OffsetsWithin(Trim(EventsWith(WholeFlog)))'
    BY <1>1, <2>2, <2>4 DEF Serves, OffsetsWithin
  <2>6. CommittedIn(Trim(EventsWith(WholeFlog)))'
    BY <1>1, <2>2, <2>3, <2>4 DEF Serves, CommittedIn
  <2>7. SinksOf(Trim(EventsWith(WholeFlog)))'
    BY <1>1, <2>2, <2>4 DEF Serves, SinksOf, Drained, Open
  <2> QED BY <2>5, <2>6, <2>7 DEF Serves
<1>21. Consecutive(changes') /\ changeSeq' = LastSeq(changes')
  BY <1>1, <1>3, <1>5, <1>12, <1>13
<1>22. Consecutive(snap') BY <1>1, <1>5
<1> QED
  BY <1>1, <1>5, <1>8, <1>9, <1>16, <1>17, <1>18, <1>19, <1>20, <1>21, <1>22 DEF FeedRight

-----------------------------------------------------------------------------
(* The consumers, step by step *)

(* What is known of the change log and of the offsets while the server is   *)
(* up.                                                                      *)
LEMMA UpFeed ==
  ASSUME FullTypeOK, FeedRight, stage # "down"
  PROVE  /\ changes \in Seq(EventNow) /\ Numbers("seq", EventNow) /\ Consecutive(changes)
         /\ changeSeq = LastSeq(changes) /\ changeSeq \in 0..Stmts /\ Stmts \in Nat
         /\ \A e \in Range(changes) : e \in EventNow /\ e.seq \in 1..Stmts /\ e.stmt \in 1..Stmts
                                      /\ e.seq <= changeSeq
         /\ \A s \in Sub : /\ subs[s] \in SubType /\ cursor[s] \in 0..Stmts
                           /\ subs[s].acked \in 0..Stmts
                           /\ subs[s].sink \in Nat /\ subs[s].from \in Nat
<1>1. /\ changes \in Seq(EventNow) /\ Numbers("seq", EventNow) /\ Stmts \in Nat
      /\ subs \in [Sub -> SubType] /\ cursor \in [Sub -> 0..Stmts]
  BY LogTypes DEF FullTypeOK
<1>2. Consecutive(changes) /\ changeSeq = LastSeq(changes) BY DEF FeedRight
<1>3. \A e \in Range(changes) : e \in EventNow /\ e.seq <= changeSeq
  BY <1>1, <1>2, ConsecutiveUpTo
<1>4. \A e \in EventNow : e.seq \in 1..Stmts /\ e.stmt \in 1..Stmts BY DEF EventNow
<1>5. changeSeq \in 0..Stmts
  <2>1. CASE changes = <<>> BY <1>1, <1>2, <2>1 DEF LastSeq
  <2>2. CASE changes # <<>>
    <3>1. Last(changes) \in EventNow BY <1>1, <2>2, FrontLast
    <3> QED BY <1>1, <1>2, <1>4, <2>2, <3>1 DEF LastSeq
  <2> QED BY <2>1, <2>2
<1>6. \A x \in SubType : x.acked \in 0..Stmts /\ x.sink \in Nat /\ x.from \in Nat BY DEF SubType
<1> QED BY <1>1, <1>2, <1>3, <1>4, <1>5, <1>6

(* What a step of a consumer has to keep. *)
Consumers == (~lost => Serves(changes)) /\ NoSilentGap

(* cdc_subscribe: nothing is owed yet, and no event is after the offset. *)
LEMMA SubscribeRight ==
  ASSUME FullTypeOK, FeedRight, NoSilentGap, NEW s \in Sub, NEW ts, NEW sinks,
         Subscribe(s, ts, sinks)
  PROVE  Consumers'
<1>1. /\ stage # "down" /\ UNCHANGED <<changes, committed, hist, lost>>
      /\ subs' = [subs EXCEPT ![s] = [state |-> "open", on |-> ts, from |-> changeSeq,
                                      acked |-> changeSeq, paused |-> FALSE,
                                      sink |-> changeSeq, sinks |-> sinks]]
      /\ cursor' = [cursor EXCEPT ![s] = changeSeq]
      /\ known' = [known EXCEPT ![s] = committed]
      /\ file' = [file EXCEPT ![s] = <<>>]
  BY DEF Subscribe, SubStep, memory
<1>2. /\ subs \in [Sub -> SubType] /\ cursor \in [Sub -> 0..Stmts]
      /\ known \in [Sub -> SUBSET (1..Stmts)] /\ file \in [Sub -> Seq(EventNow)]
  BY DEF FullTypeOK
<1>3. /\ changeSeq = LastSeq(changes) /\ changeSeq \in Nat
      /\ \A e \in Range(changes) : e.seq \in Nat /\ e.seq <= changeSeq
  BY <1>1, UpFeed
<1>4. /\ subs'[s].from = changeSeq /\ subs'[s].acked = changeSeq /\ subs'[s].sink = changeSeq
      /\ cursor'[s] = changeSeq /\ known'[s] = committed
  BY <1>1, <1>2
<1>5. \A r \in Sub \ {s} : /\ subs'[r] = subs[r] /\ cursor'[r] = cursor[r]
                           /\ known'[r] = known[r] /\ file'[r] = file[r]
  BY <1>1, <1>2
<1>6. ASSUME ~lost' PROVE Serves(changes)'
  <2>1. OffsetsWithin(changes) /\ CommittedIn(changes) /\ SinksOf(changes)
    BY <1>1, <1>6 DEF FeedRight, Serves
  <2>2. OffsetsWithin(changes)'
    <3>1. ASSUME NEW r \in Sub
          PROVE  /\ cursor'[r] <= LastSeq(changes) /\ subs'[r].acked <= LastSeq(changes)
                 /\ subs'[r].sink <= LastSeq(changes)
      <4>1. CASE r = s BY <1>3, <1>4, <4>1
      <4>2. CASE r # s BY <1>5, <2>1, <4>2 DEF OffsetsWithin
      <4> QED BY <4>1, <4>2
    <3> QED BY <1>1, <3>1 DEF OffsetsWithin
  <2>3. CommittedIn(changes)' BY <1>1, <2>1 DEF CommittedIn
  <2>4. SinksOf(changes)'
    <3>1. ASSUME NEW r \in Sub, Open(r)', NEW e \in Range(changes), e.tab \in subs'[r].on,
                 e.seq > subs'[r].from, e.seq <= subs'[r].sink
          PROVE  e \in Range(file'[r])
      <4>1. CASE r = s BY <1>3, <1>4, <3>1, <4>1
      <4>2. CASE r # s BY <1>5, <2>1, <3>1, <4>2 DEF SinksOf, Drained, Open
      <4> QED BY <4>1, <4>2
    <3> QED BY <1>1, <3>1 DEF SinksOf, Drained
  <2> QED BY <2>2, <2>3, <2>4 DEF Serves
<1>7. NoSilentGap'
  <2>1. ASSUME NEW r \in Sub, Polls(r)', ~lost', NEW i \in committed', hist'[i].tab \in subs'[r].on,
               hist'[i].seq > subs'[r].from, hist'[i].seq <= Resume(r)'
        PROVE  i \in known'[r]
    <3>1. CASE r = s BY <1>1, <1>4, <2>1, <3>1
    <3>2. CASE r # s
      BY <1>1, <1>5, <2>1, <3>2 DEF NoSilentGap, Polls, Open, Owed, Resume
    <3> QED BY <3>1, <3>2
  <2> QED BY <2>1 DEF NoSilentGap, Owed
<1> QED BY <1>6, <1>7 DEF Consumers

(* cdc_poll behind the horizon: the tables are read again. *)
LEMMA PollResnapshotRight ==
  ASSUME FullTypeOK, FeedRight, NoSilentGap, NEW s \in Sub, PollResnapshot(s)
  PROVE  Consumers' /\ Earliest - 1 \in 0..Stmts
<1>1. /\ stage # "down" /\ UNCHANGED <<changes, committed, hist, lost, subs, file>>
      /\ cursor' = [cursor EXCEPT ![s] = Earliest - 1]
      /\ known' = [known EXCEPT ![s] = @ \cup committed]
      /\ Earliest > 0
  BY DEF PollResnapshot, SubStep, memory, Behindhand
<1>2. /\ cursor \in [Sub -> 0..Stmts] /\ known \in [Sub -> SUBSET (1..Stmts)]
  BY DEF FullTypeOK
<1>3. /\ changeSeq = LastSeq(changes) /\ changeSeq \in 0..Stmts /\ Stmts \in Nat
      /\ changes \in Seq(EventNow)
      /\ \A e \in Range(changes) : e.seq \in 1..Stmts /\ e.seq <= changeSeq
  BY <1>1, UpFeed
<1>4. Earliest - 1 \in 0..Stmts /\ Earliest - 1 <= changeSeq
  <2>1. changes # <<>> BY <1>1 DEF Earliest
  <2>2. 1 \in 1..Len(changes) BY <1>3, <2>1
  <2>3. changes[1] \in Range(changes) BY <2>2 DEF Range
  <2>4. Earliest = changes[1].seq BY <2>1 DEF Earliest
  <2> QED BY <1>3, <2>3, <2>4
<1>5. cursor'[s] = Earliest - 1 /\ committed \subseteq known'[s] BY <1>1, <1>2
<1>6. \A r \in Sub \ {s} : cursor'[r] = cursor[r] /\ known'[r] = known[r] BY <1>1, <1>2
<1>7. ASSUME ~lost' PROVE Serves(changes)'
  <2>1. OffsetsWithin(changes) /\ CommittedIn(changes) /\ SinksOf(changes)
    BY <1>1, <1>7 DEF FeedRight, Serves
  <2>2. \A r \in Sub : cursor'[r] <= LastSeq(changes)
    BY <1>3, <1>4, <1>5, <1>6, <2>1 DEF OffsetsWithin
  <2>3. OffsetsWithin(changes)' BY <1>1, <2>1, <2>2 DEF OffsetsWithin
  <2>4. CommittedIn(changes)' BY <1>1, <2>1 DEF CommittedIn
  <2>5. SinksOf(changes)' BY <1>1, <2>1 DEF SinksOf, Drained, Open
  <2> QED BY <2>3, <2>4, <2>5 DEF Serves
<1>8. NoSilentGap'
  <2>1. ASSUME NEW r \in Sub, Polls(r)', ~lost', NEW i \in committed', hist'[i].tab \in subs'[r].on,
               hist'[i].seq > subs'[r].from, hist'[i].seq <= Resume(r)'
        PROVE  i \in known'[r]
    <3>1. CASE r = s BY <1>1, <1>5, <2>1, <3>1
    <3>2. CASE r # s
      BY <1>1, <1>6, <2>1, <3>2 DEF NoSilentGap, Polls, Open, Owed, Resume
    <3> QED BY <3>1, <3>2
  <2> QED BY <2>1 DEF NoSilentGap, Owed
<1> QED BY <1>4, <1>7, <1>8 DEF Consumers

(* cdc_poll: the events up to the new offset are all there. *)
LEMMA PollRight ==
  ASSUME FullTypeOK, FeedRight, HistoryRight, NoSilentGap, NEW s \in Sub, Poll(s)
  PROVE  Consumers' /\ cursor' \in [Sub -> 0..Stmts] /\ known' \in [Sub -> SUBSET (1..Stmts)]
<1> DEFINE ev == Collect(s, Resume(s))
           upto == IF ev = <<>> THEN Resume(s) ELSE Last(ev).seq
           got == {e.stmt : e \in Range(ev)}
<1>1. /\ stage # "down" /\ UNCHANGED <<changes, committed, hist, lost, subs, file>>
      /\ cursor' = [cursor EXCEPT ![s] = upto]
      /\ known' = [known EXCEPT ![s] = @ \cup got]
      /\ Polls(s) /\ ~Behindhand(s)
  BY DEF Poll, SubStep, memory
<1>2. /\ cursor \in [Sub -> 0..Stmts] /\ known \in [Sub -> SUBSET (1..Stmts)]
      /\ committed \subseteq 1..Stmts /\ hist \in Seq(EventNow) /\ Stmts = Len(hist)
  BY LogTypes DEF FullTypeOK
<1>3. /\ changeSeq = LastSeq(changes) /\ changeSeq \in 0..Stmts /\ Stmts \in Nat
      /\ changes \in Seq(EventNow) /\ Numbers("seq", EventNow) /\ Consecutive(changes)
      /\ \A e \in Range(changes) : e.seq \in 1..Stmts /\ e.stmt \in 1..Stmts /\ e.seq <= changeSeq
      /\ cursor[s] \in 0..Stmts /\ subs[s].acked \in 0..Stmts
  BY <1>1, UpFeed
<1>4. Resume(s) \in Nat /\ Resume(s) >= cursor[s] /\ Resume(s) >= subs[s].acked
      /\ (Resume(s) = cursor[s] \/ Resume(s) = subs[s].acked)
  BY <1>3 DEF Resume, Larger
<1>5. /\ \A e \in Range(ev) : e \in Range(changes) /\ e.seq > Resume(s)
      /\ ev # <<>> =>
           /\ Last(ev) \in Range(ev)
           /\ \A e \in Range(changes) :
                e.tab \in subs[s].on /\ e.seq > Resume(s) /\ e.seq <= Last(ev).seq
                  => e \in Range(ev)
  BY <1>3, <1>4, CollectRight
<1> HIDE DEF ev
<1>6. upto \in Nat /\ upto >= Resume(s) /\ (ev # <<>> => upto <= changeSeq)
  <2>1. CASE ev = <<>> BY <1>4, <2>1
  <2>2. CASE ev # <<>> BY <1>3, <1>4, <1>5, <2>2
  <2> QED BY <2>1, <2>2
<1>7. cursor'[s] = upto /\ known'[s] = known[s] \cup got BY <1>1, <1>2
<1>8. \A r \in Sub \ {s} : cursor'[r] = cursor[r] /\ known'[r] = known[r] BY <1>1, <1>2
<1>9. \A i \in committed : hist[i] \in EventNow /\ hist[i].seq \in Nat /\ hist[i].stmt = i
  <2>1. \A i \in committed : hist[i] \in EventNow /\ i \in 1..Stmts BY <1>2
  <2>2. \A e \in EventNow : e.seq \in Nat BY DEF EventNow
  <2> QED BY <2>1, <2>2 DEF HistoryRight
<1>10. ASSUME ~lost' PROVE Serves(changes)'
  <2>1. OffsetsWithin(changes) /\ CommittedIn(changes) /\ SinksOf(changes)
    BY <1>1, <1>10 DEF FeedRight, Serves
  <2>2. upto <= LastSeq(changes)
    <3>1. CASE ev = <<>> BY <1>4, <2>1, <3>1 DEF OffsetsWithin
    <3>2. CASE ev # <<>> BY <1>3, <1>6, <3>2
    <3> QED BY <3>1, <3>2
  <2>3. \A r \in Sub : cursor'[r] <= LastSeq(changes)
    BY <1>7, <1>8, <2>1, <2>2 DEF OffsetsWithin
  <2>4. OffsetsWithin(changes)' BY <1>1, <2>1, <2>3 DEF OffsetsWithin
  <2>5. CommittedIn(changes)' BY <1>1, <2>1 DEF CommittedIn
  <2>6. SinksOf(changes)' BY <1>1, <2>1 DEF SinksOf, Drained, Open
  <2> QED BY <2>4, <2>5, <2>6 DEF Serves
<1>11. NoSilentGap'
  <2>1. ASSUME NEW r \in Sub, Polls(r)', ~lost', NEW i \in committed', hist'[i].tab \in subs'[r].on,
               hist'[i].seq > subs'[r].from, hist'[i].seq <= Resume(r)'
        PROVE  i \in known'[r]
    <3>1. CASE r = s
      <4>1. i \in committed /\ hist[i].tab \in subs[s].on /\ hist[i].seq > subs[s].from
        BY <1>1, <2>1, <3>1
      <4>2. hist[i].seq <= upto
        <5>1. Resume(s)' = upto BY <1>1, <1>3, <1>4, <1>6, <1>7 DEF Resume, Larger
        <5> QED BY <1>1, <2>1, <3>1, <5>1
      <4>3. CASE hist[i].seq <= Resume(s)
        BY <1>1, <1>7, <2>1, <3>1, <4>1, <4>3 DEF NoSilentGap, Owed
      <4>4. CASE ~(hist[i].seq <= Resume(s))
        <5>1. hist[i].seq > Resume(s) /\ hist[i].seq \in Nat BY <1>4, <1>9, <4>1, <4>4
        <5>2. ev # <<>> BY <1>4, <4>2, <5>1
        <5>3. Last(ev) \in Range(changes) BY <1>5, <5>2
        <5>4. changes # <<>> /\ 1 \in 1..Len(changes)
          <6>1. \E k \in DOMAIN changes : TRUE BY <5>3 DEF Range
          <6> QED BY <1>3, <6>1
        <5>5. Earliest = LastSeq(changes) - Len(changes) + 1 /\ Earliest > 0
          <6>1. Earliest = changes[1].seq BY <5>4 DEF Earliest
          <6>2. changes[1] \in Range(changes) BY <5>4 DEF Range
          <6> QED BY <1>3, <5>4, <6>1, <6>2 DEF Consecutive
        <5>6. hist[i].seq > LastSeq(changes) - Len(changes)
          <6>1. ~(Resume(s) + 1 < Earliest) BY <1>1, <5>5 DEF Behindhand
          <6>2. Len(changes) \in Nat BY <1>3
          <6> QED BY <1>3, <1>4, <5>1, <5>5, <6>1, <6>2
        <5>7. hist[i] \in Range(changes)
          BY <1>1, <2>1, <4>1, <5>6 DEF FeedRight, Serves, CommittedIn
        <5>8. hist[i] \in Range(ev) BY <1>5, <4>1, <4>2, <5>1, <5>2, <5>7
        <5>9. hist[i].stmt \in got BY <5>8
        <5> QED BY <1>7, <1>9, <3>1, <4>1, <5>9
      <4> QED BY <4>3, <4>4
    <3>2. CASE r # s
      BY <1>1, <1>8, <2>1, <3>2 DEF NoSilentGap, Polls, Open, Owed, Resume
    <3> QED BY <3>1, <3>2
  <2> QED BY <2>1 DEF NoSilentGap, Owed
<1>12. known' \in [Sub -> SUBSET (1..Stmts)]
  <2>1. got \subseteq 1..Stmts BY <1>3, <1>5
  <2> QED BY <1>1, <1>2, <2>1
<1>13. cursor' \in [Sub -> 0..Stmts]
  <2>1. upto \in 0..Stmts
    <3>1. CASE ev = <<>> BY <1>3, <1>4, <3>1
    <3>2. CASE ev # <<>> BY <1>3, <1>6, <3>2
    <3> QED BY <3>1, <3>2
  <2> QED BY <1>1, <1>2, <2>1
<1> QED BY <1>10, <1>11, <1>12, <1>13 DEF Consumers

(* cdc_ack, cdc_pause and cdc_resume: the consumer resumes where it did. *)
LEMMA AckRight ==
  ASSUME FullTypeOK, FeedRight, NoSilentGap, NEW s \in Sub, NEW paused,
         Ack(s) \/ SetPaused(s, paused)
  PROVE  Consumers'
<1>1. /\ stage # "down" /\ UNCHANGED <<changes, committed, hist, lost, file, cursor, known>>
  BY DEF Ack, SetPaused, SubStep, memory, consumers
<1>2. /\ changeSeq = LastSeq(changes) /\ Stmts \in Nat
      /\ subs[s] \in SubType /\ cursor[s] \in 0..Stmts /\ subs[s].acked \in 0..Stmts
  BY <1>1, UpFeed
<1>3. /\ \A r \in Sub \ {s} : subs'[r] = subs[r]
      /\ subs'[s].state = subs[s].state /\ subs'[s].on = subs[s].on /\ subs'[s].from = subs[s].from
      /\ subs'[s].sink = subs[s].sink /\ subs'[s].sinks = subs[s].sinks
      /\ subs'[s].acked \in {subs[s].acked, cursor[s]} /\ Resume(s)' = Resume(s)
  <2>1. subs \in [Sub -> SubType] BY DEF FullTypeOK
  <2>2. CASE Ack(s)
    <3>1. /\ subs' = [subs EXCEPT ![s].acked = cursor[s]] /\ cursor[s] > subs[s].acked
          /\ cursor' = cursor
      BY <2>2 DEF Ack, consumers
    <3>2. /\ subs'[s] = [subs[s] EXCEPT !.acked = cursor[s]]
          /\ \A r \in Sub \ {s} : subs'[r] = subs[r]
      BY <2>1, <3>1
    <3>3. /\ subs'[s].state = subs[s].state /\ subs'[s].on = subs[s].on
          /\ subs'[s].from = subs[s].from
          /\ subs'[s].sink = subs[s].sink /\ subs'[s].sinks = subs[s].sinks
          /\ subs'[s].acked = cursor[s]
      BY <1>2, <3>2 DEF SubType
    <3>4. Resume(s)' = Resume(s) BY <1>2, <3>1, <3>3 DEF Resume, Larger
    <3> QED BY <3>2, <3>3, <3>4
  <2>3. CASE SetPaused(s, paused)
    <3>1. subs' = [subs EXCEPT ![s].paused = paused] /\ cursor' = cursor
      BY <2>3 DEF SetPaused, consumers
    <3>2. /\ subs'[s] = [subs[s] EXCEPT !.paused = paused]
          /\ \A r \in Sub \ {s} : subs'[r] = subs[r]
      BY <2>1, <3>1
    <3>3. /\ subs'[s].state = subs[s].state /\ subs'[s].on = subs[s].on
          /\ subs'[s].from = subs[s].from
          /\ subs'[s].sink = subs[s].sink /\ subs'[s].sinks = subs[s].sinks
          /\ subs'[s].acked = subs[s].acked
      BY <1>2, <3>2 DEF SubType
    <3>4. Resume(s)' = Resume(s) BY <3>1, <3>3 DEF Resume
    <3> QED BY <3>2, <3>3, <3>4
  <2> QED BY <2>2, <2>3
<1>4. ASSUME ~lost' PROVE Serves(changes)'
  <2>1. OffsetsWithin(changes) /\ CommittedIn(changes) /\ SinksOf(changes)
    BY <1>1, <1>4 DEF FeedRight, Serves
  <2>2. OffsetsWithin(changes)'
    <3>1. ASSUME NEW r \in Sub
          PROVE  /\ cursor'[r] <= LastSeq(changes) /\ subs'[r].acked <= LastSeq(changes)
                 /\ subs'[r].sink <= LastSeq(changes)
      BY <1>1, <1>3, <2>1 DEF OffsetsWithin
    <3> QED BY <1>1, <3>1 DEF OffsetsWithin
  <2>3. CommittedIn(changes)' BY <1>1, <2>1 DEF CommittedIn
  <2>4. SinksOf(changes)'
    <3>1. ASSUME NEW r \in Sub, Open(r)', NEW e \in Range(changes), e.tab \in subs'[r].on,
                 e.seq > subs'[r].from, e.seq <= subs'[r].sink
          PROVE  e \in Range(file[r])
      <4>1. CASE r = s BY <1>3, <2>1, <3>1, <4>1 DEF SinksOf, Drained, Open
      <4>2. CASE r # s BY <1>3, <2>1, <3>1, <4>2 DEF SinksOf, Drained, Open
      <4> QED BY <4>1, <4>2
    <3> QED BY <1>1, <3>1 DEF SinksOf, Drained
  <2> QED BY <2>2, <2>3, <2>4 DEF Serves
<1>5. NoSilentGap'
  <2>1. ASSUME NEW r \in Sub, Polls(r)', ~lost', NEW i \in committed', hist'[i].tab \in subs'[r].on,
               hist'[i].seq > subs'[r].from, hist'[i].seq <= Resume(r)'
        PROVE  i \in known'[r]
    <3>1. CASE r = s
      BY <1>1, <1>3, <2>1, <3>1 DEF NoSilentGap, Polls, Open, Owed
    <3>2. CASE r # s
      BY <1>1, <1>3, <2>1, <3>2 DEF NoSilentGap, Polls, Open, Owed, Resume
    <3> QED BY <3>1, <3>2
  <2> QED BY <2>1 DEF NoSilentGap, Owed
<1> QED BY <1>4, <1>5 DEF Consumers

(* cdc_close: nobody reads on. *)
LEMMA CloseRight ==
  ASSUME FullTypeOK, FeedRight, NoSilentGap, NEW s \in Sub, Close(s)
  PROVE  Consumers'
<1>1. /\ stage # "down" /\ UNCHANGED <<changes, committed, hist, lost>>
      /\ subs' = [subs EXCEPT ![s] = NotOpen("closed")]
      /\ cursor' = [cursor EXCEPT ![s] = 0]
      /\ known' = [known EXCEPT ![s] = {}]
      /\ file' = [file EXCEPT ![s] = <<>>]
  BY DEF Close, SubStep, memory
<1>2. /\ subs \in [Sub -> SubType] /\ cursor \in [Sub -> 0..Stmts]
      /\ known \in [Sub -> SUBSET (1..Stmts)] /\ file \in [Sub -> Seq(EventNow)]
  BY DEF FullTypeOK
<1>3. changeSeq = LastSeq(changes) /\ changeSeq \in Nat BY <1>1, UpFeed
<1>4. /\ ~Open(s)' /\ subs'[s].acked = 0 /\ subs'[s].sink = 0 /\ cursor'[s] = 0
  BY <1>1, <1>2 DEF NotOpen, Open
<1>5. \A r \in Sub \ {s} : /\ subs'[r] = subs[r] /\ cursor'[r] = cursor[r]
                           /\ known'[r] = known[r] /\ file'[r] = file[r]
  BY <1>1, <1>2
<1>6. ASSUME ~lost' PROVE Serves(changes)'
  <2>1. OffsetsWithin(changes) /\ CommittedIn(changes) /\ SinksOf(changes)
    BY <1>1, <1>6 DEF FeedRight, Serves
  <2>2. OffsetsWithin(changes)'
    <3>1. ASSUME NEW r \in Sub
          PROVE  /\ cursor'[r] <= LastSeq(changes) /\ subs'[r].acked <= LastSeq(changes)
                 /\ subs'[r].sink <= LastSeq(changes)
      <4>1. CASE r = s BY <1>3, <1>4, <4>1
      <4>2. CASE r # s BY <1>5, <2>1, <4>2 DEF OffsetsWithin
      <4> QED BY <4>1, <4>2
    <3> QED BY <1>1, <3>1 DEF OffsetsWithin
  <2>3. CommittedIn(changes)' BY <1>1, <2>1 DEF CommittedIn
  <2>4. SinksOf(changes)'
    <3>1. ASSUME NEW r \in Sub, Open(r)', NEW e \in Range(changes), e.tab \in subs'[r].on,
                 e.seq > subs'[r].from, e.seq <= subs'[r].sink
          PROVE  e \in Range(file'[r])
      <4>1. r # s BY <1>4, <3>1
      <4> QED BY <1>5, <2>1, <3>1, <4>1 DEF SinksOf, Drained, Open
    <3> QED BY <1>1, <3>1 DEF SinksOf, Drained
  <2> QED BY <2>2, <2>3, <2>4 DEF Serves
<1>7. NoSilentGap'
  <2>1. ASSUME NEW r \in Sub, Polls(r)', ~lost', NEW i \in committed', hist'[i].tab \in subs'[r].on,
               hist'[i].seq > subs'[r].from, hist'[i].seq <= Resume(r)'
        PROVE  i \in known'[r]
    <3>1. r # s BY <1>4, <2>1 DEF Polls
    <3> QED BY <1>1, <1>5, <2>1, <3>1 DEF NoSilentGap, Polls, Open, Owed, Resume
  <2> QED BY <2>1 DEF NoSilentGap, Owed
<1> QED BY <1>6, <1>7 DEF Consumers

(* A step that leaves the consumers, their offsets and the log alone. *)
LEMMA ConsumersQuiet ==
  ASSUME FeedRight, NoSilentGap, stage # "down",
         UNCHANGED <<changes, committed, subs, file, cursor, known, hist, lost>>
  PROVE  Consumers'
<1>1. ~lost' => Serves(changes)'
  BY DEF FeedRight, Serves, OffsetsWithin, CommittedIn, SinksOf, Drained, Open
<1>2. NoSilentGap' BY DEF NoSilentGap, Polls, Open, Owed, Resume
<1> QED BY <1>1, <1>2 DEF Consumers

(* The elements of a concatenation. *)
LEMMA ConcatRange ==
  ASSUME NEW S, NEW a \in Seq(S), NEW b \in Seq(S)
  PROVE  a \o b \in Seq(S) /\ Range(a) \subseteq Range(a \o b) /\ Range(b) \subseteq Range(a \o b)
<1> DEFINE n == Len(a)
           m == Len(b)
           c == a \o b
<1>1. /\ c \in Seq(S) /\ Len(c) = n + m /\ n \in Nat /\ m \in Nat
      /\ \A i \in 1..(n + m) : c[i] = IF i <= n THEN a[i] ELSE b[i - n]
  BY ConcatProperties
<1>2. DOMAIN c = 1..(n + m) /\ DOMAIN a = 1..n /\ DOMAIN b = 1..m BY <1>1
<1> HIDE DEF c, n, m
<1>3. ASSUME NEW x \in Range(a) PROVE x \in Range(c)
  <2>1. PICK i \in 1..n : x = a[i] BY <1>2 DEF Range
  <2>2. i \in 1..(n + m) /\ c[i] = x BY <1>1, <2>1
  <2> QED BY <1>2, <2>2 DEF Range
<1>4. ASSUME NEW x \in Range(b) PROVE x \in Range(c)
  <2>1. PICK i \in 1..m : x = b[i] BY <1>2 DEF Range
  <2>2. n + i \in 1..(n + m) /\ ~(n + i <= n) /\ (n + i) - n = i BY <1>1
  <2>3. c[n + i] = x BY <1>1, <2>1, <2>2
  <2> QED BY <1>2, <2>2, <2>3 DEF Range
<1> QED BY <1>1, <1>3, <1>4 DEF c

(* cdc_sink_drain, the file: it has the events up to the new cursor. *)
LEMMA SinkWriteRight ==
  ASSUME FullTypeOK, FeedRight, NoSilentGap, NEW s \in Sub, SinkWrite(s)
  PROVE  /\ Consumers' /\ DrainRight'
         /\ file' \in [Sub -> Seq(EventNow)] /\ draining' \in Sub \X (1..Stmts)
<1> DEFINE ev == Collect(s, subs[s].sink)
<1>1. /\ stage # "down" /\ UNCHANGED <<changes, changeSeq, committed, hist, lost, subs, cursor, known>>
      /\ file' = [file EXCEPT ![s] = @ \o ev] /\ draining' = <<s, Last(ev).seq>>
      /\ Open(s) /\ ev # <<>>
  BY DEF SinkWrite, SubStep, memory, consumers
<1>2. file \in [Sub -> Seq(EventNow)] BY DEF FullTypeOK
<1>3. /\ changeSeq = LastSeq(changes) /\ changeSeq \in 0..Stmts /\ Stmts \in Nat
      /\ changes \in Seq(EventNow) /\ Numbers("seq", EventNow) /\ Consecutive(changes)
      /\ \A e \in Range(changes) : e.seq \in 1..Stmts /\ e.seq <= changeSeq
      /\ subs[s].sink \in Nat
  BY <1>1, UpFeed
<1>4. /\ ev \in Seq(EventNow) /\ Last(ev) \in Range(ev)
      /\ \A e \in Range(ev) : e \in Range(changes) /\ e.seq > subs[s].sink
      /\ \A e \in Range(changes) :
           e.tab \in subs[s].on /\ e.seq > subs[s].sink /\ e.seq <= Last(ev).seq => e \in Range(ev)
  BY <1>1, <1>3, CollectRight
<1> HIDE DEF ev
<1>5. Last(ev).seq \in 1..Stmts /\ Last(ev).seq <= changeSeq BY <1>3, <1>4
<1>6. file[s] \in Seq(EventNow) /\ file'[s] = file[s] \o ev BY <1>1, <1>2
<1>7. /\ file'[s] \in Seq(EventNow)
      /\ Range(file[s]) \subseteq Range(file'[s]) /\ Range(ev) \subseteq Range(file'[s])
  BY <1>4, <1>6, ConcatRange
<1>8. \A r \in Sub \ {s} : file'[r] = file[r] BY <1>1, <1>2
<1>9. file' \in [Sub -> Seq(EventNow)] BY <1>1, <1>2, <1>6, <1>7
<1>10. draining' \in Sub \X (1..Stmts) BY <1>1, <1>5
<1>11. ASSUME ~lost' PROVE Serves(changes)' /\ Drained(s, changes, Last(ev).seq)'
  <2>1. OffsetsWithin(changes) /\ CommittedIn(changes) /\ SinksOf(changes)
    BY <1>1, <1>11 DEF FeedRight, Serves
  <2>2. OffsetsWithin(changes)' BY <1>1, <2>1 DEF OffsetsWithin
  <2>3. CommittedIn(changes)' BY <1>1, <2>1 DEF CommittedIn
  <2>4. SinksOf(changes)'
    <3>1. ASSUME NEW r \in Sub, Open(r), NEW e \in Range(changes), e.tab \in subs[r].on,
                 e.seq > subs[r].from, e.seq <= subs[r].sink
          PROVE  e \in Range(file'[r])
      <4>1. e \in Range(file[r]) BY <2>1, <3>1 DEF SinksOf, Drained
      <4> QED BY <1>7, <1>8, <4>1
    <3> QED BY <1>1, <3>1 DEF SinksOf, Drained, Open
  <2>5. ASSUME NEW e \in Range(changes), e.tab \in subs[s].on,
               e.seq > subs[s].from, e.seq <= Last(ev).seq
        PROVE  e \in Range(file'[s])
    <3>1. CASE e.seq <= subs[s].sink
      <4>1. e \in Range(file[s]) BY <1>1, <2>1, <2>5, <3>1 DEF SinksOf, Drained
      <4> QED BY <1>7, <4>1
    <3>2. CASE ~(e.seq <= subs[s].sink)
      <4>1. e.seq > subs[s].sink BY <1>3, <3>2
      <4> QED BY <1>4, <1>7, <2>5, <4>1
    <3> QED BY <3>1, <3>2
  <2>6. Drained(s, changes, Last(ev).seq)'
    BY <1>1, <2>5 DEF Drained, ev, Collect
  <2> QED BY <2>2, <2>3, <2>4, <2>6 DEF Serves
<1>12. NoSilentGap' BY <1>1 DEF NoSilentGap, Polls, Open, Owed, Resume
<1>13. DrainRight'
  <2>1. draining'[1] = s /\ draining'[2] = Last(ev).seq BY <1>1
  <2>2. Open(draining[1])' /\ draining'[2] <= changeSeq' BY <1>1, <1>5, <2>1 DEF Open
  <2>3. ASSUME ~lost' PROVE Drained(draining[1], changes, draining[2])'
    <3>1. Last(ev)' = Last(ev) BY <1>1 DEF ev, Collect, Last
    <3> QED BY <1>11, <2>1, <2>3, <3>1 DEF Drained
  <2> QED BY <2>2, <2>3 DEF DrainRight
<1> QED BY <1>9, <1>10, <1>11, <1>12, <1>13 DEF Consumers

(* cdc_sink_drain, the cursor. *)
LEMMA SinkSaveRight ==
  ASSUME FullTypeOK, FeedRight, DrainRight, NoSilentGap, SinkSave
  PROVE  Consumers' /\ subs' \in [Sub -> SubType]
<1> DEFINE s == draining[1]
           upto == draining[2]
<1>1. /\ stage = "drain" /\ UNCHANGED <<changes, committed, hist, lost, file, cursor, known>>
      /\ subs' = [subs EXCEPT ![s].sink = Larger(@, upto)]
  BY DEF SinkSave, memory, consumers
<1>2. draining \in Sub \X (1..Stmts) /\ subs \in [Sub -> SubType] BY <1>1 DEF FullTypeOK
<1>3. s \in Sub /\ upto \in 1..Stmts BY <1>2
<1>4. /\ changeSeq = LastSeq(changes) /\ Stmts \in Nat
      /\ \A e \in Range(changes) : e.seq \in 1..Stmts
      /\ subs[s] \in SubType /\ subs[s].sink \in Nat
  BY <1>1, <1>3, UpFeed
<1> HIDE DEF s, upto
<1>5. /\ subs'[s] = [subs[s] EXCEPT !.sink = Larger(subs[s].sink, upto)]
      /\ \A r \in Sub \ {s} : subs'[r] = subs[r]
  BY <1>1, <1>2, <1>3
<1>6. Larger(subs[s].sink, upto) \in Nat BY <1>3, <1>4 DEF Larger
<1>7. /\ subs'[s] \in SubType /\ subs'[s].acked = subs[s].acked
      /\ subs'[s].state = subs[s].state /\ subs'[s].on = subs[s].on
      /\ subs'[s].from = subs[s].from /\ subs'[s].sinks = subs[s].sinks
      /\ subs'[s].sink = Larger(subs[s].sink, upto)
  BY <1>4, <1>5, <1>6 DEF SubType
<1>8. subs' \in [Sub -> SubType] BY <1>1, <1>2, <1>5, <1>7
<1>9. ASSUME ~lost' PROVE Serves(changes)'
  <2>1. OffsetsWithin(changes) /\ CommittedIn(changes) /\ SinksOf(changes)
    BY <1>1, <1>9 DEF FeedRight, Serves
  <2>2. Open(s) /\ upto <= changeSeq /\ Drained(s, changes, upto)
    BY <1>1, <1>9 DEF DrainRight, s, upto
  <2>3. OffsetsWithin(changes)'
    <3>1. ASSUME NEW r \in Sub
          PROVE  /\ cursor'[r] <= LastSeq(changes) /\ subs'[r].acked <= LastSeq(changes)
                 /\ subs'[r].sink <= LastSeq(changes)
      <4>1. CASE r = s
        <5>1. Larger(subs[s].sink, upto) <= LastSeq(changes)
          BY <1>3, <1>4, <2>1, <2>2 DEF OffsetsWithin, Larger
        <5> QED BY <1>1, <1>7, <2>1, <4>1, <5>1 DEF OffsetsWithin
      <4>2. CASE r # s BY <1>1, <1>5, <2>1, <4>2 DEF OffsetsWithin
      <4> QED BY <4>1, <4>2
    <3> QED BY <1>1, <3>1 DEF OffsetsWithin
  <2>4. CommittedIn(changes)' BY <1>1, <2>1 DEF CommittedIn
  <2>5. SinksOf(changes)'
    <3>1. ASSUME NEW r \in Sub, Open(r)', NEW e \in Range(changes), e.tab \in subs'[r].on,
                 e.seq > subs'[r].from, e.seq <= subs'[r].sink
          PROVE  e \in Range(file[r])
      <4>1. CASE r = s
        <5>1. e.seq <= subs[s].sink \/ e.seq <= upto BY <1>7, <3>1, <4>1 DEF Larger
        <5> QED BY <1>7, <2>1, <2>2, <3>1, <4>1, <5>1 DEF SinksOf, Drained
      <4>2. CASE r # s BY <1>5, <2>1, <3>1, <4>2 DEF SinksOf, Drained, Open
      <4> QED BY <4>1, <4>2
    <3> QED BY <1>1, <3>1 DEF SinksOf, Drained
  <2> QED BY <2>3, <2>4, <2>5 DEF Serves
<1>10. NoSilentGap'
  <2>1. ASSUME NEW r \in Sub, Polls(r)', ~lost', NEW i \in committed', hist'[i].tab \in subs'[r].on,
               hist'[i].seq > subs'[r].from, hist'[i].seq <= Resume(r)'
        PROVE  i \in known'[r]
    <3>1. CASE r = s
      BY <1>1, <1>7, <2>1, <3>1 DEF NoSilentGap, Polls, Open, Owed, Resume
    <3>2. CASE r # s
      BY <1>1, <1>5, <2>1, <3>2 DEF NoSilentGap, Polls, Open, Owed, Resume
    <3> QED BY <3>1, <3>2
  <2> QED BY <2>1 DEF NoSilentGap, Owed
<1> QED BY <1>8, <1>9, <1>10 DEF Consumers

(* wal_log_rows: the event of the statement is the last one of the log, and *)
(* every consumer is before it.                                             *)
LEMMA LogRowRight ==
  ASSUME FullTypeOK, FeedRight, InProgress, NoSilentGap, LogRow
  PROVE  Consumers'
<1>1. /\ stage = "chained" /\ committed' = committed \cup {Stmts}
      /\ UNCHANGED <<changes, changeSeq, hist, lost, subs, file, cursor, known>>
  BY DEF LogRow, memory, consumers
<1>2. /\ changeSeq = LastSeq(changes) /\ changes \in Seq(EventNow)
      /\ \A s \in Sub : cursor[s] \in 0..Stmts /\ subs[s].acked \in 0..Stmts
      /\ changeSeq \in 0..Stmts /\ Stmts \in Nat
  BY <1>1, UpFeed
<1>3. changes # <<>> /\ Last(changes) = hist[Stmts] BY <1>1 DEF InProgress
<1>4. hist[Stmts].seq = LastSeq(changes) /\ hist[Stmts] \in Range(changes)
  <2>1. Len(changes) \in 1..Len(changes) BY <1>2, <1>3
  <2> QED BY <1>3, <2>1 DEF LastSeq, Last, Range
<1>5. ASSUME ~lost' PROVE Serves(changes)'
  <2>1. OffsetsWithin(changes) /\ CommittedIn(changes) /\ SinksOf(changes)
    BY <1>1, <1>5 DEF FeedRight, Serves
  <2>2. OffsetsWithin(changes)' BY <1>1, <2>1 DEF OffsetsWithin
  <2>3. CommittedIn(changes)' BY <1>1, <1>2, <1>4, <2>1 DEF CommittedIn
  <2>4. SinksOf(changes)' BY <1>1, <2>1 DEF SinksOf, Drained, Open
  <2> QED BY <2>2, <2>3, <2>4 DEF Serves
<1>6. NoSilentGap'
  <2>1. ASSUME NEW r \in Sub, Polls(r)', ~lost', NEW i \in committed', hist'[i].tab \in subs'[r].on,
               hist'[i].seq > subs'[r].from, hist'[i].seq <= Resume(r)'
        PROVE  i \in known'[r]
    <3>1. CASE i = Stmts
      <4>1. cursor[r] < changeSeq /\ subs[r].acked < changeSeq BY <1>1, <2>1 DEF InProgress
      <4>2. Resume(r) < changeSeq BY <4>1 DEF Resume, Larger
      <4>3. Resume(r)' = Resume(r) BY <1>1 DEF Resume
      <4>4. Resume(r) \in Nat BY <1>2 DEF Resume, Larger
      <4>5. changeSeq <= Resume(r) BY <1>1, <1>2, <1>4, <2>1, <3>1, <4>3
      <4> QED BY <1>2, <4>2, <4>4, <4>5
    <3>2. CASE i # Stmts
      BY <1>1, <2>1, <3>2 DEF NoSilentGap, Polls, Open, Owed, Resume
    <3> QED BY <3>1, <3>2
  <2> QED BY <2>1 DEF NoSilentGap, Owed
<1> QED BY <1>5, <1>6 DEF Consumers

-----------------------------------------------------------------------------
(* Every step keeps the invariant *)

(* A step that starts no statement keeps the types of events and records. *)
LEMMA SameTypes ==
  ASSUME hist' = hist
  PROVE  EventNow' = EventNow /\ RecordNow' = RecordNow /\ SubType' = SubType /\ Stmts' = Stmts
BY DEF EventNow, RecordNow, SubType, Stmts

(* Types, variable by variable. *)
LEMMA TypeKept ==
  ASSUME FullTypeOK, hist' = hist,
         snap' \in Seq(EventNow), flog' \in Seq(EventNow \cup {Torn}), changes' \in Seq(EventNow),
         Len(changes') <= Retention, chainSnap' \in Seq(RecordNow),
         chainFlog' \in Seq(RecordNow \cup {Torn}), chain' \in Seq(RecordNow),
         committed' \subseteq 1..Stmts, subs' \in [Sub -> SubType],
         file' \in [Sub -> Seq(EventNow)],
         stage' \in Stage, dirty' \in BOOLEAN, lost' \in BOOLEAN,
         cursor' \in [Sub -> 0..Stmts], known' \in [Sub -> SUBSET (1..Stmts)],
         stage' = "drain" => draining' \in Sub \X (1..Stmts)
  PROVE  FullTypeOK'
<1>1. EventNow' = EventNow /\ RecordNow' = RecordNow /\ SubType' = SubType /\ Stmts' = Stmts
  BY SameTypes
<1>2. hist' \in Seq(EventNow) /\ Len(hist') <= MaxStmts BY DEF FullTypeOK
<1> QED BY <1>1, <1>2 DEF FullTypeOK

(* Between statements and drains only the logs and the gaps matter. *)
LEMMA Between ==
  ASSUME HistoryRight, hist' = hist, stage' \notin {"changed", "chained", "drain"},
         FullTypeOK', ChainRight', FeedRight', NoSilentGap'
  PROVE  IndInv'
<1>1. InProgress' /\ DrainRight' BY DEF InProgress, DrainRight
<1>2. HistoryRight' BY DEF HistoryRight, Stmts
<1> QED BY <1>1, <1>2 DEF IndInv

(* A step of a consumer or of a sink. *)
LEMMA ConsumerStep ==
  ASSUME IndInv, stage \in {"idle", "drain"}, stage' \in {"idle", "drain"},
         UNCHANGED <<disk, committed, memory, hist, lost>>, FullTypeOK', Consumers', DrainRight'
  PROVE  IndInv'
<1>1. UNCHANGED <<snap, flog, chainSnap, chainFlog, changes, changeSeq, chain>>
  BY DEF disk, memory
<1>2. ~lost => committed \subseteq StmtsOf(chain) BY DEF IndInv, ChainRight
<1>3. ChainRight' BY <1>1, <1>2, ChainQuiet DEF IndInv
<1>4. FeedRight' BY <1>1, FeedQuiet DEF IndInv, Consumers
<1>5. InProgress' BY DEF InProgress
<1>6. HistoryRight' BY DEF IndInv, HistoryRight, Stmts
<1> QED BY <1>3, <1>4, <1>5, <1>6 DEF IndInv, Consumers

(* cdc_subscribe_table, cdc_subscribe_query *)
LEMMA SubscribeStep ==
  ASSUME IndInv, NEW s \in Sub, NEW ts \in Target, NEW sinks \in BOOLEAN, Subscribe(s, ts, sinks)
  PROVE  IndInv'
<1>1. /\ stage = "idle" /\ stage' = "idle" /\ UNCHANGED <<disk, committed, memory, dirty, hist, lost>>
  BY DEF Subscribe, SubStep
<1>2. Consumers' BY SubscribeRight DEF IndInv
<1>3. changeSeq \in 0..Stmts /\ Stmts \in Nat BY <1>1, UpFeed DEF IndInv
<1>4. subs' \in [Sub -> SubType]
  <2>1. ts \subseteq Table BY ChangeFeedAssumption
  <2>2. [state |-> "open", on |-> ts, from |-> changeSeq, acked |-> changeSeq, paused |-> FALSE,
         sink |-> changeSeq, sinks |-> sinks] \in SubType
    BY <1>3, <2>1 DEF SubType
  <2>3. subs \in [Sub -> SubType] BY DEF IndInv, FullTypeOK
  <2> QED BY <2>2, <2>3 DEF Subscribe
<1>5. cursor' \in [Sub -> 0..Stmts] BY <1>3 DEF Subscribe, IndInv, FullTypeOK
<1>6. known' \in [Sub -> SUBSET (1..Stmts)] BY DEF Subscribe, IndInv, FullTypeOK
<1>7. file' \in [Sub -> Seq(EventNow)]
  <2>1. <<>> \in Seq(EventNow) OBVIOUS
  <2> QED BY <2>1 DEF Subscribe, IndInv, FullTypeOK
<1>8. FullTypeOK'
  BY <1>1, <1>4, <1>5, <1>6, <1>7, TypeKept DEF IndInv, FullTypeOK, disk, memory
<1>9. DrainRight' BY <1>1 DEF DrainRight
<1> QED BY <1>1, <1>2, <1>8, <1>9, ConsumerStep

(* cdc_poll *)
LEMMA PollStepRight ==
  ASSUME IndInv, NEW s \in Sub, PollStep(s)
  PROVE  IndInv'
<1>1. /\ stage = "idle" /\ stage' = "idle"
      /\ UNCHANGED <<disk, committed, memory, dirty, hist, lost, subs, file>>
  BY DEF PollStep, Poll, PollResnapshot, SubStep
<1>2. Consumers' /\ cursor' \in [Sub -> 0..Stmts] /\ known' \in [Sub -> SUBSET (1..Stmts)]
  <2>1. CASE Poll(s) BY <2>1, PollRight DEF IndInv
  <2>2. CASE PollResnapshot(s)
    <3>1. Consumers' /\ Earliest - 1 \in 0..Stmts BY <2>2, PollResnapshotRight DEF IndInv
    <3>2. cursor' \in [Sub -> 0..Stmts] BY <2>2, <3>1 DEF PollResnapshot, IndInv, FullTypeOK
    <3>3. known' \in [Sub -> SUBSET (1..Stmts)] BY <2>2 DEF PollResnapshot, IndInv, FullTypeOK
    <3> QED BY <3>1, <3>2, <3>3
  <2> QED BY <2>1, <2>2 DEF PollStep
<1>3. FullTypeOK'
  BY <1>1, <1>2, TypeKept DEF IndInv, FullTypeOK, disk, memory
<1>4. DrainRight' BY <1>1 DEF DrainRight
<1> QED BY <1>1, <1>2, <1>3, <1>4, ConsumerStep

(* cdc_ack, cdc_pause, cdc_resume *)
LEMMA AckStep ==
  ASSUME IndInv, NEW s \in Sub, NEW paused \in BOOLEAN, Ack(s) \/ SetPaused(s, paused)
  PROVE  IndInv'
<1>1. /\ stage = "idle" /\ stage' = "idle"
      /\ UNCHANGED <<disk, committed, memory, dirty, hist, lost, file, cursor, known>>
  BY DEF Ack, SetPaused, SubStep, consumers
<1>2. Consumers' BY AckRight DEF IndInv
<1>3. subs' \in [Sub -> SubType]
  <2>1. subs \in [Sub -> SubType] /\ cursor[s] \in 0..Stmts BY DEF IndInv, FullTypeOK
  <2>2. [subs[s] EXCEPT !.acked = cursor[s]] \in SubType BY <2>1 DEF SubType
  <2>3. [subs[s] EXCEPT !.paused = paused] \in SubType BY <2>1 DEF SubType
  <2> QED BY <2>1, <2>2, <2>3 DEF Ack, SetPaused
<1>4. FullTypeOK'
  BY <1>1, <1>3, TypeKept DEF IndInv, FullTypeOK, disk, memory
<1>5. DrainRight' BY <1>1 DEF DrainRight
<1> QED BY <1>1, <1>2, <1>4, <1>5, ConsumerStep

(* cdc_close *)
LEMMA CloseStep ==
  ASSUME IndInv, NEW s \in Sub, Close(s)
  PROVE  IndInv'
<1>1. /\ stage = "idle" /\ stage' = "idle" /\ UNCHANGED <<disk, committed, memory, dirty, hist, lost>>
  BY DEF Close, SubStep
<1>2. Consumers' BY CloseRight DEF IndInv
<1>3. Stmts \in Nat BY LogTypes DEF IndInv
<1>4. subs' \in [Sub -> SubType]
  <2>1. NotOpen("closed") \in SubType BY <1>3 DEF NotOpen, SubType
  <2> QED BY <2>1 DEF Close, IndInv, FullTypeOK
<1>5. cursor' \in [Sub -> 0..Stmts] BY <1>3 DEF Close, IndInv, FullTypeOK
<1>6. known' \in [Sub -> SUBSET (1..Stmts)] BY DEF Close, IndInv, FullTypeOK
<1>7. file' \in [Sub -> Seq(EventNow)]
  <2>1. <<>> \in Seq(EventNow) OBVIOUS
  <2> QED BY <2>1 DEF Close, IndInv, FullTypeOK
<1>8. FullTypeOK'
  BY <1>1, <1>4, <1>5, <1>6, <1>7, TypeKept DEF IndInv, FullTypeOK, disk, memory
<1>9. DrainRight' BY <1>1 DEF DrainRight
<1> QED BY <1>1, <1>2, <1>8, <1>9, ConsumerStep

(* cdc_sink_drain, the file *)
LEMMA SinkWriteStep ==
  ASSUME IndInv, NEW s \in Sub, SinkWrite(s)
  PROVE  IndInv'
<1>1. /\ stage = "idle" /\ stage' = "drain"
      /\ UNCHANGED <<disk, committed, memory, dirty, hist, lost, subs, cursor, known>>
  BY DEF SinkWrite, SubStep, consumers
<1>2. /\ Consumers' /\ DrainRight'
      /\ file' \in [Sub -> Seq(EventNow)] /\ draining' \in Sub \X (1..Stmts)
  BY SinkWriteRight DEF IndInv
<1>3. stage' \in Stage BY <1>1 DEF Stage
<1>4. FullTypeOK'
  BY <1>1, <1>2, <1>3, TypeKept DEF IndInv, FullTypeOK, disk, memory
<1> QED BY <1>1, <1>2, <1>4, ConsumerStep

(* cdc_sink_drain, the cursor *)
LEMMA SinkSaveStep ==
  ASSUME IndInv, SinkSave
  PROVE  IndInv'
<1>1. /\ stage = "drain" /\ stage' = "idle"
      /\ UNCHANGED <<disk, committed, memory, dirty, hist, lost, file, cursor, known>>
  BY DEF SinkSave, consumers
<1>2. Consumers' /\ subs' \in [Sub -> SubType] BY SinkSaveRight DEF IndInv
<1>3. stage' \in Stage BY <1>1 DEF Stage
<1>4. FullTypeOK'
  BY <1>1, <1>2, <1>3, TypeKept DEF IndInv, FullTypeOK, disk, memory
<1>5. DrainRight' BY <1>1 DEF DrainRight
<1> QED BY <1>1, <1>2, <1>4, <1>5, ConsumerStep

(* emit_change: the statement in progress has the last event. *)
LEMMA EmitChangeStep ==
  ASSUME IndInv, NEW t \in Table, EmitChange(t)
  PROVE  IndInv'
<1> DEFINE e == Emitted(t)
<1>1. /\ stage = "idle" /\ stage' = "changed"
      /\ changeSeq' = changeSeq + 1 /\ changes' = Trim(Append(changes, e))
      /\ flog' = Append(flog, e)
      /\ UNCHANGED <<snap, chainSnap, chainFlog, committed, subs, file, chain, dirty, cursor, known,
                     lost>>
  BY DEF EmitChange, Emitted, consumers
<1>2. /\ Stmts' = Stmts + 1 /\ Stmts \in Nat /\ Stmts < MaxStmts
      /\ e \in EventNow' /\ e.seq = LastSeq(changes) + 1 /\ e.stmt = Stmts' /\ changeSeq \in Nat
      /\ changeSeq <= Stmts /\ Torn \notin EventNow' /\ Numbers("seq", EventNow')
      /\ hist' = Append(hist, e) /\ hist'[Stmts'] = e /\ \A i \in 1..Stmts : hist'[i] = hist[i]
  BY EmitTypes DEF IndInv
<1>3. /\ snap \in Seq(EventNow') /\ flog \in Seq(EventNow' \cup {Torn})
      /\ changes \in Seq(EventNow')
      /\ chainSnap \in Seq(RecordNow') /\ chainFlog \in Seq(RecordNow' \cup {Torn})
      /\ chain \in Seq(RecordNow')
      /\ hist \in Seq(EventNow') /\ file \in [Sub -> Seq(EventNow')]
  <2>1. Stmts' \in Nat /\ Stmts <= Stmts' BY <1>2
  <2> QED BY <2>1, LogsGrow DEF IndInv
<1>4. Consecutive(changes) /\ changeSeq = LastSeq(changes) BY <1>1 DEF IndInv, FeedRight
<1> HIDE DEF e
<1>5. PICK new : new = changes' OBVIOUS
<1>6. new \in Seq(EventNow') /\ Len(new) <= Retention /\ new # <<>> /\ Last(new) = e
  BY <1>1, <1>2, <1>3, <1>4, <1>5, RetainedAppend
<1>7. FullTypeOK'
  <2>1. flog' \in Seq(EventNow' \cup {Torn}) /\ hist' \in Seq(EventNow') BY <1>1, <1>2, <1>3
  <2>2. Len(hist') <= MaxStmts
    <3>1. Stmts' <= MaxStmts
      <4>1. MaxStmts \in Nat BY ChangeFeedAssumption
      <4> QED BY <1>2, <4>1
    <3> QED BY <3>1 DEF Stmts
  <2>3. 1..Stmts \subseteq 1..Stmts' /\ 0..Stmts \subseteq 0..Stmts' BY <1>2
  <2>4. committed' \subseteq 1..Stmts' BY <1>1, <2>3 DEF IndInv, FullTypeOK
  <2>5. subs' \in [Sub -> SubType']
    <3>1. SubType \subseteq SubType' BY <2>3 DEF SubType
    <3> QED BY <1>1, <3>1 DEF IndInv, FullTypeOK
  <2>6. cursor' \in [Sub -> 0..Stmts'] /\ known' \in [Sub -> SUBSET (1..Stmts')]
    BY <1>1, <2>3 DEF IndInv, FullTypeOK
  <2>7. stage' \in Stage /\ dirty' \in BOOLEAN /\ lost' \in BOOLEAN
    BY <1>1 DEF IndInv, FullTypeOK, Stage
  <2> QED BY <1>1, <1>3, <1>5, <1>6, <2>1, <2>2, <2>4, <2>5, <2>6, <2>7 DEF FullTypeOK
<1>8. ChainRight'
  <2>1. ~lost => committed \subseteq StmtsOf(chain) BY <1>1 DEF IndInv, ChainRight
  <2> QED BY <1>1, <2>1, ChainQuiet DEF IndInv
<1>9. FeedRight' BY EmitChangeFeed DEF IndInv
<1>10. InProgress'
  <2>1. Stmts' > 0 /\ changes' # <<>> /\ Last(changes') = hist'[Stmts'] BY <1>2, <1>5, <1>6
  <2>2. Stmts' \notin committed'
    <3>1. committed \subseteq 1..Stmts BY DEF IndInv, FullTypeOK
    <3>2. Stmts' \notin 1..Stmts BY <1>2
    <3> QED BY <1>1, <3>1, <3>2
  <2>3. ASSUME ~lost', NEW s \in Sub
        PROVE  cursor'[s] < changeSeq' /\ subs'[s].acked < changeSeq' /\ subs'[s].sink < changeSeq'
    <3>1. cursor[s] <= changeSeq /\ subs[s].acked <= changeSeq /\ subs[s].sink <= changeSeq
      BY <1>1, <1>4, <2>3 DEF IndInv, FeedRight, Serves, OffsetsWithin
    <3>2. cursor[s] \in 0..Stmts /\ subs[s].acked \in 0..Stmts /\ subs[s].sink \in Nat
      BY <1>1, UpFeed DEF IndInv
    <3> QED BY <1>1, <1>2, <3>1, <3>2
  <2>4. flog' # <<>> /\ Last(flog') = hist'[Stmts']
    <3>1. e \in EventNow' \cup {Torn} BY <1>2
    <3>2. Last(Append(flog, e)) = e /\ Append(flog, e) # <<>> BY <1>3, <3>1, AppendLast
    <3> QED BY <1>1, <1>2, <3>2
  <2> QED BY <2>1, <2>2, <2>3, <2>4 DEF InProgress
<1>11. HistoryRight'
  <2>1. ASSUME NEW i \in 1..Stmts' PROVE hist'[i].stmt = i
    <3>1. CASE i = Stmts' BY <1>2, <3>1
    <3>2. CASE i # Stmts'
      <4>1. i \in 1..Stmts BY <1>2, <3>2
      <4> QED BY <1>2, <4>1 DEF IndInv, HistoryRight
    <3> QED BY <3>1, <3>2
  <2> QED BY <2>1 DEF HistoryRight
<1>12. NoSilentGap'
  <2>1. \A i \in committed : hist'[i] = hist[i] BY <1>2 DEF IndInv, FullTypeOK
  <2> QED BY <1>1, <2>1 DEF IndInv, NoSilentGap, Polls, Open, Owed, Resume
<1>13. DrainRight' BY <1>1 DEF DrainRight
<1> QED BY <1>7, <1>8, <1>9, <1>10, <1>11, <1>12, <1>13 DEF IndInv

(* append_forensic_record: the statement is still in progress. *)
LEMMA AppendForensicStep ==
  ASSUME IndInv, AppendForensic
  PROVE  IndInv'
<1> DEFINE r == [id |-> LastId(chain) + 1, stmt |-> Stmts,
                 prev |-> IF chain = <<>> THEN 0 ELSE Last(chain).stmt]
<1>1. /\ stage = "changed" /\ stage' = "chained"
      /\ chain' = Append(chain, r) /\ chainFlog' = Append(chainFlog, r)
      /\ UNCHANGED <<snap, flog, chainSnap, committed, subs, file, changes, changeSeq,
                     dirty, cursor, known, hist, lost>>
  BY DEF AppendForensic, consumers
<1>2. r \in RecordNow
  <2>1. chain \in Seq(RecordNow) /\ Stmts \in Nat BY LogTypes DEF IndInv, FullTypeOK
  <2>2. chain # <<>> => Last(chain) \in RecordNow BY <2>1, FrontLast
  <2>3. \A x \in RecordNow : x.stmt \in Nat /\ x.id \in Nat BY DEF RecordNow
  <2>4. LastId(chain) \in Nat BY <2>2, <2>3 DEF LastId
  <2>5. Stmts \in 1..Stmts BY <1>1, <2>1 DEF IndInv, InProgress
  <2> QED BY <2>2, <2>3, <2>4, <2>5 DEF RecordNow
<1> HIDE DEF r
<1>3. FullTypeOK'
  <2>1. chain' \in Seq(RecordNow) /\ chainFlog' \in Seq(RecordNow \cup {Torn}) /\ stage' \in Stage
    BY <1>1, <1>2 DEF IndInv, FullTypeOK, Stage
  <2> QED BY <1>1, <2>1, TypeKept DEF IndInv, FullTypeOK
<1>4. ChainRight' BY AppendForensicChain DEF IndInv
<1>5. Consumers' BY <1>1, ConsumersQuiet DEF IndInv
<1>6. FeedRight' BY <1>1, <1>5, FeedQuiet DEF IndInv, Consumers
<1>7. InProgress' BY <1>1 DEF IndInv, InProgress, Stmts
<1>8. HistoryRight' BY <1>1 DEF IndInv, HistoryRight, Stmts
<1>9. DrainRight' BY <1>1 DEF DrainRight
<1> QED BY <1>3, <1>4, <1>5, <1>6, <1>7, <1>8, <1>9 DEF IndInv, Consumers

(* wal_log_rows: the statement is committed, and in the chain. *)
LEMMA LogRowStep ==
  ASSUME IndInv, LogRow
  PROVE  IndInv'
<1>1. /\ stage = "chained" /\ stage' = "idle" /\ committed' = committed \cup {Stmts}
      /\ dirty' = TRUE
      /\ UNCHANGED <<snap, flog, chainSnap, chainFlog, changes, changeSeq, chain, subs, file,
                     cursor, known, hist, lost>>
  BY DEF LogRow, disk, memory, consumers
<1>2. Stmts \in 1..Stmts
  <2>1. Stmts \in Nat BY LogTypes DEF IndInv
  <2> QED BY <1>1, <2>1 DEF IndInv, InProgress
<1>3. FullTypeOK'
  <2>1. committed' \subseteq 1..Stmts /\ stage' \in Stage /\ dirty' \in BOOLEAN
    BY <1>1, <1>2 DEF IndInv, FullTypeOK, Stage
  <2> QED BY <1>1, <2>1, TypeKept DEF IndInv, FullTypeOK
<1>4. ChainRight'
  <2>1. Stmts \in StmtsOf(chain)
    <3>1. chain \in Seq(RecordNow) BY DEF IndInv, FullTypeOK
    <3>2. chain # <<>> /\ Last(chain).stmt = Stmts BY <1>1 DEF IndInv, ChainRight
    <3>3. Len(chain) \in 1..Len(chain) BY <3>1, <3>2
    <3> QED BY <3>2, <3>3 DEF StmtsOf, Last
  <2>2. ~lost => committed' \subseteq StmtsOf(chain)
    BY <1>1, <2>1 DEF IndInv, ChainRight
  <2> QED BY <1>1, <2>2, ChainQuiet DEF IndInv
<1>5. Consumers' BY LogRowRight DEF IndInv
<1>6. FeedRight' BY <1>1, <1>5, FeedQuiet DEF IndInv, Consumers
<1> QED BY <1>1, <1>3, <1>4, <1>5, <1>6, Between DEF IndInv, Consumers

(* compact_change_forensic_logs, file by file. *)
LEMMA FlushSteps ==
  ASSUME IndInv, PersistChanges \/ PersistForensic \/ RemoveChangesLog \/ RemoveForensicLog
  PROVE  IndInv'
<1>1. /\ stage \notin {"down", "changed"} /\ stage' \in {"snapshot", "chain", "cut", "idle"}
      /\ UNCHANGED <<committed, subs, file, changes, changeSeq, chain, cursor, known, hist, lost>>
      /\ dirty' \in {dirty, FALSE}
  BY DEF PersistChanges, PersistForensic, RemoveChangesLog, RemoveForensicLog, FlushStep, memory,
         consumers
<1>2. Consumers' BY <1>1, ConsumersQuiet DEF IndInv
<1>3. FullTypeOK'
  <2>1. <<>> \in Seq(EventNow \cup {Torn}) /\ <<>> \in Seq(RecordNow \cup {Torn}) OBVIOUS
  <2>2. snap' \in Seq(EventNow) /\ chainSnap' \in Seq(RecordNow)
    BY DEF PersistChanges, PersistForensic, RemoveChangesLog, RemoveForensicLog, IndInv, FullTypeOK
  <2>3. flog' \in Seq(EventNow \cup {Torn}) /\ chainFlog' \in Seq(RecordNow \cup {Torn})
    BY <2>1 DEF PersistChanges, PersistForensic, RemoveChangesLog, RemoveForensicLog, IndInv,
                FullTypeOK
  <2>4. stage' \in Stage /\ dirty' \in BOOLEAN BY <1>1 DEF Stage, IndInv, FullTypeOK
  <2> QED BY <1>1, <2>2, <2>3, <2>4, TypeKept DEF IndInv, FullTypeOK
<1>4. ~lost => committed \subseteq StmtsOf(chain) BY <1>1 DEF IndInv, ChainRight
<1>5. ChainRight' /\ FeedRight'
  <2>1. CASE PersistChanges
    <3>1. UNCHANGED <<chainSnap, chainFlog>> /\ stage' = "snapshot"
      BY <2>1 DEF PersistChanges, FlushStep
    <3>2. ChainRight' BY <1>1, <1>4, <3>1, ChainQuiet DEF IndInv
    <3> QED BY <2>1, <3>2, FlushFeed DEF IndInv
  <2>2. CASE PersistForensic
    <3>1. UNCHANGED <<snap, flog>> /\ stage = "snapshot" /\ stage' = "chain"
      BY <2>2 DEF PersistForensic, FlushStep
    <3>2. snap = changes BY <3>1 DEF IndInv, FeedRight
    <3>3. FeedRight' BY <1>1, <1>2, <3>1, <3>2, FeedQuiet DEF IndInv, Consumers
    <3> QED BY <2>2, <3>3, FlushChain DEF IndInv
  <2>3. CASE RemoveChangesLog
    <3>1. UNCHANGED <<chainSnap, chainFlog>> /\ stage = "chain" /\ stage' = "cut"
      BY <2>3 DEF RemoveChangesLog, FlushStep
    <3>2. chainSnap = chain BY <3>1 DEF IndInv, ChainRight
    <3>3. ChainRight' BY <1>1, <1>4, <3>1, <3>2, ChainQuiet DEF IndInv
    <3> QED BY <2>3, <3>3, FlushFeed DEF IndInv
  <2>4. CASE RemoveForensicLog
    <3>1. UNCHANGED <<snap, flog>> /\ stage' = "idle"
      BY <2>4 DEF RemoveForensicLog, FlushStep
    <3>2. FeedRight' BY <1>1, <1>2, <3>1, FeedQuiet DEF IndInv, Consumers
    <3> QED BY <2>4, <3>2, FlushChain DEF IndInv
  <2> QED BY <2>1, <2>2, <2>3, <2>4
<1> QED BY <1>1, <1>2, <1>3, <1>5, Between DEF IndInv, Consumers

(* A crash forgets the memory, and may cut what is being appended. *)
LEMMA CrashStep ==
  ASSUME IndInv, Crash
  PROVE  IndInv'
<1>1. /\ stage # "down" /\ stage' = "down"
      /\ flog' \in Remains(flog, stage = "changed")
      /\ chainFlog' \in Remains(chainFlog, stage = "chained")
      /\ changes' = <<>> /\ chain' = <<>> /\ dirty' = FALSE
      /\ cursor' \in {c \in [Sub -> 0..MaxStmts] : \A s \in Sub : c[s] \in {0, cursor[s]}}
      /\ UNCHANGED <<snap, chainSnap, committed, subs, file, known, hist, lost>>
  BY DEF Crash
<1>2. Stmts \in Nat /\ \A s \in Sub : cursor[s] \in 0..Stmts /\ subs[s].acked \in 0..Stmts
  BY <1>1, UpFeed DEF IndInv
<1>3. cursor' \in [Sub -> 0..Stmts] /\ \A s \in Sub : cursor'[s] \in {0, cursor[s]}
  <2>1. cursor' \in [Sub -> 0..MaxStmts] /\ \A s \in Sub : cursor'[s] \in {0, cursor[s]} BY <1>1
  <2>2. \A s \in Sub : cursor'[s] \in 0..Stmts BY <1>2, <2>1
  <2> QED BY <2>1, <2>2
<1>4. FullTypeOK'
  <2>1. flog' \in Seq(EventNow \cup {Torn})
    <3>1. flog \in Seq(EventNow \cup {Torn}) BY DEF IndInv, FullTypeOK
    <3>2. CASE flog' = flog BY <3>1, <3>2
    <3>3. CASE flog' # flog
      <4>1. stage = "changed" /\ flog' \in {Front(flog), Append(Front(flog), Torn)}
        BY <1>1, <3>3 DEF Remains
      <4>2. flog # <<>> BY <4>1 DEF IndInv, InProgress
      <4>3. Front(flog) \in Seq(EventNow \cup {Torn}) BY <3>1, <4>2, FrontLast
      <4> QED BY <4>1, <4>3
    <3> QED BY <3>2, <3>3
  <2>2. chainFlog' \in Seq(RecordNow \cup {Torn})
    <3>1. chainFlog \in Seq(RecordNow \cup {Torn}) BY DEF IndInv, FullTypeOK
    <3>2. CASE chainFlog' = chainFlog BY <3>1, <3>2
    <3>3. CASE chainFlog' # chainFlog
      <4>1. stage = "chained" /\ chainFlog' \in {Front(chainFlog), Append(Front(chainFlog), Torn)}
        BY <1>1, <3>3 DEF Remains
      <4>2. chainFlog # <<>> BY <4>1 DEF IndInv, ChainRight
      <4>3. Front(chainFlog) \in Seq(RecordNow \cup {Torn}) BY <3>1, <4>2, FrontLast
      <4> QED BY <4>1, <4>3
    <3> QED BY <3>2, <3>3
  <2>3. /\ changes' \in Seq(EventNow) /\ chain' \in Seq(RecordNow) /\ Len(changes') <= Retention
        /\ stage' \in Stage /\ dirty' \in BOOLEAN
    <3>1. <<>> \in Seq(EventNow) /\ <<>> \in Seq(RecordNow) /\ Len(<<>>) = 0 OBVIOUS
    <3>2. 0 <= Retention BY ChangeFeedAssumption
    <3>3. stage' \in Stage /\ dirty' \in BOOLEAN BY <1>1 DEF Stage
    <3> QED BY <1>1, <3>1, <3>2, <3>3
  <2> QED BY <1>1, <1>3, <2>1, <2>2, <2>3, TypeKept DEF IndInv, FullTypeOK
<1>5. ChainRight' /\ FeedRight' BY CrashChain, CrashFeed DEF IndInv
<1>6. NoSilentGap'
  <2>1. ASSUME NEW r \in Sub, Polls(r)', ~lost', NEW i \in committed', hist'[i].tab \in subs'[r].on,
               hist'[i].seq > subs'[r].from, hist'[i].seq <= Resume(r)'
        PROVE  i \in known'[r]
    <3>1. Resume(r)' <= Resume(r) /\ Resume(r) \in Nat /\ Resume(r)' \in Nat
      <4>1. subs' = subs /\ cursor'[r] \in {0, cursor[r]} BY <1>1, <1>3
      <4> QED BY <1>2, <4>1 DEF Resume, Larger
    <3>2. hist[i].seq \in Nat
      <4>1. hist \in Seq(EventNow) /\ i \in 1..Len(hist)
        BY <1>1, <2>1, LogTypes DEF IndInv, FullTypeOK
      <4>2. hist[i] \in EventNow BY <4>1
      <4> QED BY <4>2 DEF EventNow
    <3>3. hist[i].seq <= Resume(r) BY <1>1, <2>1, <3>1, <3>2
    <3> QED BY <1>1, <2>1, <3>3 DEF IndInv, NoSilentGap, Polls, Open, Owed
  <2> QED BY <2>1 DEF NoSilentGap, Owed
<1> QED BY <1>1, <1>4, <1>5, <1>6, Between DEF IndInv

(* Open, from what the files hold. *)
LEMMA RestartStep ==
  ASSUME IndInv, Restart
  PROVE  IndInv'
<1>1. /\ stage = "down" /\ stage' = "idle" /\ chain' = chainSnap \o NewRecords
      /\ changes' = Trim(snap \o NewChanges)
      /\ lost' = (lost \/ Behind(flog) \/ Behind(chainFlog))
      /\ UNCHANGED <<snap, flog, chainSnap, chainFlog, committed, subs, file, dirty, cursor, known,
                     hist>>
  BY DEF Restart, disk, consumers
<1>2. FullTypeOK'
  <2>1. /\ snap \in Seq(EventNow) /\ flog \in Seq(EventNow \cup {Torn}) /\ Torn \notin EventNow
        /\ chainSnap \in Seq(RecordNow) /\ chainFlog \in Seq(RecordNow \cup {Torn})
        /\ Torn \notin RecordNow
    BY LogTypes DEF IndInv, FullTypeOK
  <2>2. Readable(flog) \in Seq(EventNow) /\ Readable(chainFlog) \in Seq(RecordNow)
    BY <2>1, ReadableType
  <2>3. NewChanges \in Seq(EventNow)
    <3> DEFINE tail == Readable(flog)
               I == {i \in 1..Len(tail) : tail[i].seq > LastSeq(snap)}
    <3>1. I \in SUBSET (1..Len(tail)) OBVIOUS
    <3> HIDE DEF I
    <3>2. Selected(tail, I) \in Seq(EventNow) BY <2>2, <3>1, SelectedType
    <3> QED BY <3>2 DEF NewChanges, I
  <2>4. NewRecords \in Seq(RecordNow)
    <3> DEFINE tail == Readable(chainFlog)
               I == {i \in 1..Len(tail) : tail[i].id > LastId(chainSnap)}
    <3>1. I \in SUBSET (1..Len(tail)) OBVIOUS
    <3> HIDE DEF I
    <3>2. Selected(tail, I) \in Seq(RecordNow) BY <2>2, <3>1, SelectedType
    <3> QED BY <3>2 DEF NewRecords, I
  <2>5. snap \o NewChanges \in Seq(EventNow) /\ chain' \in Seq(RecordNow)
    BY <1>1, <2>1, <2>3, <2>4
  <2>6. changes' \in Seq(EventNow) /\ Len(changes') <= Retention BY <1>1, <2>5, TrimShape
  <2>7. stage' \in Stage BY <1>1 DEF Stage
  <2>8. lost' \in BOOLEAN BY <1>1
  <2> QED BY <1>1, <2>5, <2>6, <2>7, <2>8, TypeKept DEF IndInv, FullTypeOK
<1>3. ChainRight' /\ FeedRight' BY RestartChain, RestartFeed DEF IndInv
<1>4. NoSilentGap'
  <2>1. ~lost' => ~lost BY <1>1
  <2> QED BY <1>1, <2>1 DEF IndInv, NoSilentGap, Polls, Open, Owed, Resume
<1> QED BY <1>1, <1>2, <1>3, <1>4, Between DEF IndInv

(* The invariant holds of an empty engine, *)
LEMMA IndInit == Init => IndInv
<1> SUFFICES ASSUME Init PROVE IndInv OBVIOUS
<1>1. /\ snap = <<>> /\ flog = <<>> /\ chainSnap = <<>> /\ chainFlog = <<>> /\ committed = {}
      /\ subs = [s \in Sub |-> NotOpen("new")] /\ file = [s \in Sub |-> <<>>]
      /\ changes = <<>> /\ changeSeq = 0 /\ chain = <<>> /\ stage = "idle" /\ dirty = FALSE
      /\ cursor = [s \in Sub |-> 0] /\ known = [s \in Sub |-> {}]
      /\ hist = <<>> /\ lost = FALSE
  BY DEF Init
<1>2. Stmts = 0 BY <1>1 DEF Stmts
<1>3. \A S : <<>> \in Seq(S) /\ Len(<<>>) = 0 OBVIOUS
<1>4. FullTypeOK
  <2>1. NotOpen("new") \in SubType BY <1>2 DEF NotOpen, SubType
  <2>2. subs \in [Sub -> SubType] BY <1>1, <2>1
  <2>3. file \in [Sub -> Seq(EventNow)] BY <1>1, <1>3
  <2>4. cursor \in [Sub -> 0..Stmts] /\ known \in [Sub -> SUBSET (1..Stmts)] BY <1>1, <1>2
  <2>5. 0 <= Retention /\ 0 <= MaxStmts BY ChangeFeedAssumption
  <2>6. stage \in Stage /\ dirty \in BOOLEAN /\ lost \in BOOLEAN BY <1>1 DEF Stage
  <2> QED BY <1>1, <1>3, <2>2, <2>3, <2>4, <2>5, <2>6 DEF FullTypeOK
<1>5. 1..Len(<<>>) = {} /\ Range(<<>>) = {} BY DEF Range
<1>6. /\ Torn \notin EventNow /\ Torn \notin RecordNow BY <1>4, LogTypes
<1>7. /\ EventsWith(<<>>) = <<>> /\ RecordsWith(<<>>) = <<>> /\ Readable(<<>>) = <<>>
      /\ ~Behind(<<>>)
  BY <1>1, <1>3, <1>6, OverEmpty DEF EventsWith, RecordsWith
<1>8. WholeFlog = <<>> /\ WholeChainFlog = <<>> BY <1>1 DEF WholeFlog, WholeChainFlog
<1>9. ChainRight
  <2>1. Linked(<<>>) BY <1>5 DEF Linked
  <2> QED BY <1>1, <1>5, <1>7, <1>8, <2>1 DEF ChainRight
<1>10. FeedRight
  <2>1. Consecutive(<<>>) BY <1>5 DEF Consecutive
  <2>2. LastSeq(<<>>) = 0 BY DEF LastSeq
  <2>3. Trim(<<>>) = <<>>
    <3>1. <<>> \in Seq(EventNow) /\ Len(<<>>) <= Retention BY <1>3, ChangeFeedAssumption
    <3> QED BY <3>1, TrimShape
  <2>4. Serves(<<>>)
    <3>1. OffsetsWithin(<<>>) BY <1>1, <2>2 DEF OffsetsWithin, NotOpen
    <3>2. CommittedIn(<<>>) BY <1>1 DEF CommittedIn
    <3>3. SinksOf(<<>>) BY <1>5 DEF SinksOf, Drained
    <3> QED BY <3>1, <3>2, <3>3 DEF Serves
  <2> QED BY <1>1, <1>5, <1>7, <1>8, <2>1, <2>2, <2>3, <2>4 DEF FeedRight
<1>11. InProgress /\ DrainRight BY <1>1 DEF InProgress, DrainRight
<1>12. HistoryRight BY <1>2 DEF HistoryRight
<1>13. NoSilentGap BY <1>1 DEF NoSilentGap, Owed
<1> QED BY <1>4, <1>9, <1>10, <1>11, <1>12, <1>13 DEF IndInv

(* is kept by every step, *)
LEMMA IndStep == IndInv /\ [Next]_vars => IndInv'
<1> SUFFICES ASSUME IndInv, [Next]_vars PROVE IndInv' OBVIOUS
<1>1. ASSUME NEW t \in Table, EmitChange(t) PROVE IndInv' BY <1>1, EmitChangeStep
<1>2. CASE EngineStep
  BY <1>2, AppendForensicStep, LogRowStep, FlushSteps, SinkSaveStep, RestartStep DEF EngineStep
<1>3. CASE PersistChanges BY <1>3, FlushSteps
<1>4. CASE Crash BY <1>4, CrashStep
<1>5. ASSUME NEW s \in Sub, NEW ts \in Target, NEW sinks \in BOOLEAN, Subscribe(s, ts, sinks)
      PROVE  IndInv'
  BY <1>5, SubscribeStep
<1>6. ASSUME NEW s \in Sub, PollStep(s) \/ Ack(s) \/ Close(s) \/ SinkWrite(s) PROVE IndInv'
  BY <1>6, PollStepRight, AckStep, CloseStep, SinkWriteStep
<1>7. ASSUME NEW s \in Sub, NEW paused \in BOOLEAN, SetPaused(s, paused) PROVE IndInv'
  BY <1>7, AckStep
<1>8. CASE UNCHANGED vars
  <2>1. UNCHANGED <<snap, flog, chainSnap, chainFlog, committed, subs, file, changes, changeSeq,
                    chain, stage, draining, dirty, cursor, known, hist, lost>>
    BY <1>8 DEF vars, disk, memory, consumers
  <2>2. Stmts' = Stmts /\ EventNow' = EventNow /\ RecordNow' = RecordNow /\ SubType' = SubType
    BY <2>1, SameTypes
  <2>3. FullTypeOK' BY <2>1, <2>2 DEF IndInv, FullTypeOK
  <2>4. WholeFlog' = WholeFlog /\ WholeChainFlog' = WholeChainFlog
    BY <2>1 DEF WholeFlog, WholeChainFlog
  <2>5. /\ EventsWith(flog)' = EventsWith(flog) /\ EventsWith(WholeFlog)' = EventsWith(WholeFlog)
        /\ RecordsWith(chainFlog)' = RecordsWith(chainFlog)
        /\ RecordsWith(WholeChainFlog)' = RecordsWith(WholeChainFlog)
    BY <2>1, <2>4 DEF EventsWith, RecordsWith
  <2>6. ChainRight' BY <2>1, <2>2, <2>4, <2>5 DEF IndInv, ChainRight
  <2>7. FeedRight'
    <3>1. Serves(changes) => Serves(changes)'
      BY <2>1 DEF Serves, OffsetsWithin, CommittedIn, SinksOf, Drained, Open
    <3>2. Trim(EventsWith(WholeFlog))' = Trim(EventsWith(WholeFlog)) BY <2>5
    <3>3. Serves(Trim(EventsWith(WholeFlog))) => Serves(Trim(EventsWith(WholeFlog)))'
      BY <2>1, <3>2 DEF Serves, OffsetsWithin, CommittedIn, SinksOf, Drained, Open
    <3> QED BY <2>1, <2>4, <2>5, <3>1, <3>3 DEF IndInv, FeedRight
  <2>8. InProgress' /\ HistoryRight' BY <2>1, <2>2 DEF IndInv, InProgress, HistoryRight
  <2>9. DrainRight' BY <2>1 DEF IndInv, DrainRight, Drained, Open
  <2>10. NoSilentGap' BY <2>1 DEF IndInv, NoSilentGap, Polls, Open, Owed, Resume
  <2> QED BY <2>3, <2>6, <2>7, <2>8, <2>9, <2>10 DEF IndInv
<1> QED BY <1>1, <1>2, <1>3, <1>4, <1>5, <1>6, <1>7, <1>8 DEF Next

(* and so holds always. *)
LEMMA Inductive == Spec => []IndInv
BY IndInit, IndStep, PTL DEF Spec

-----------------------------------------------------------------------------
(* The theorems *)

(* The logs hold events and torn records, the change log in memory is never *)
(* longer than cdc_retention_events, and no offset is beyond the statements.*)
THEOREM TypeCorrect == Spec => []TypeOK
<1>1. IndInv => TypeOK
  <2> SUFFICES ASSUME IndInv PROVE TypeOK OBVIOUS
  <2>1. Stmts \in 0..MaxStmts /\ MaxStmts \in Nat BY LogTypes DEF IndInv
  <2>2. EventNow \subseteq Event /\ RecordNow \subseteq Record
    BY <2>1 DEF EventNow, Event, RecordNow, Record
  <2>3. 1..Stmts \subseteq 1..MaxStmts /\ 0..Stmts \subseteq 0..MaxStmts BY <2>1
  <2>4. /\ snap \in Seq(EventNow) /\ flog \in Seq(EventNow \cup {Torn})
        /\ changes \in Seq(EventNow) /\ chain \in Seq(RecordNow)
    BY DEF IndInv, FullTypeOK
  <2>5. IsLog(snap)
    <3>1. \A i \in 1..Len(snap) : snap[i] \in EventNow BY <2>4
    <3> QED BY <2>2, <3>1 DEF IsLog
  <2>6. IsLog(flog)
    <3>1. \A i \in 1..Len(flog) : flog[i] \in EventNow \cup {Torn} BY <2>4
    <3> QED BY <2>2, <3>1 DEF IsLog
  <2>7. IsLog(changes)
    <3>1. \A i \in 1..Len(changes) : changes[i] \in EventNow BY <2>4
    <3> QED BY <2>2, <3>1 DEF IsLog
  <2>8. \A i \in 1..Len(chain) : chain[i] \in Record
    <3>1. \A i \in 1..Len(chain) : chain[i] \in RecordNow BY <2>4
    <3> QED BY <2>2, <3>1
  <2>9. changeSeq \in 0..MaxStmts
    <3>1. CASE stage = "down" BY <2>1, <3>1 DEF IndInv, FeedRight
    <3>2. CASE stage # "down"
      <4>1. changeSeq \in 0..Stmts BY <3>2, UpFeed DEF IndInv
      <4> QED BY <2>3, <4>1
    <3> QED BY <3>1, <3>2
  <2>10. subs \in [Sub -> [state : {"new", "open", "closed"}, on : SUBSET Table, from : Nat,
                           acked : Nat, paused : BOOLEAN, sink : Nat, sinks : BOOLEAN]]
    <3>1. SubType \subseteq [state : {"new", "open", "closed"}, on : SUBSET Table, from : Nat,
                             acked : Nat, paused : BOOLEAN, sink : Nat, sinks : BOOLEAN]
      BY <2>1 DEF SubType
    <3> QED BY <3>1 DEF IndInv, FullTypeOK
  <2>11. cursor \in [Sub -> 0..MaxStmts] /\ known \in [Sub -> SUBSET (1..MaxStmts)]
    BY <2>3 DEF IndInv, FullTypeOK
  <2>12. /\ Len(changes) <= Retention /\ committed \subseteq 1..MaxStmts
         /\ stage \in Stage /\ dirty \in BOOLEAN /\ lost \in BOOLEAN
    BY <2>3 DEF IndInv, FullTypeOK
  <2> QED BY <2>5, <2>6, <2>7, <2>8, <2>9, <2>10, <2>11, <2>12 DEF TypeOK
<1> QED BY <1>1, Inductive, PTL

(* The forensic chain is unbroken and complete while the server is up:      *)
(* through crashes at any step of a statement or of a flush, and restarts   *)
(* over sidecars that overlap their snapshot, every record is chained to    *)
(* the one before it and no committed statement is missing.                 *)
THEOREM ChainsComplete == Spec => []ChainComplete
<1>1. IndInv => ChainComplete
  <2> SUFFICES ASSUME IndInv, stage # "down"
               PROVE  /\ Linked(chain)
                      /\ ~lost => committed \subseteq {r.stmt : r \in Range(chain)}
    BY DEF ChainComplete, Linked
  <2>1. Linked(chain) /\ (~lost => committed \subseteq StmtsOf(chain)) BY DEF IndInv, ChainRight
  <2>2. chain \in Seq(RecordNow) BY DEF IndInv, FullTypeOK
  <2>3. StmtsOf(chain) \subseteq {r.stmt : r \in Range(chain)} BY <2>2 DEF StmtsOf, Range
  <2> QED BY <2>1, <2>3
<1> QED BY <1>1, Inductive, PTL

(* No silent gap: whatever retention, crashes and restarts did to the       *)
(* change log, a polling consumer has every committed change of its tables  *)
(* at or below the offset it resumes from, or was told to read them again.  *)
THEOREM NoSilentGaps == Spec => []NoSilentGap
<1>1. IndInv => NoSilentGap BY DEF IndInv
<1> QED BY <1>1, Inductive, PTL

(* The sink file has every retained event of its tables up to the sink      *)
(* cursor: a crash between the file and the cursor repeats events and drops *)
(* none.                                                                    *)
THEOREM SinksAtLeastOnce == Spec => []SinkAtLeastOnce
<1>1. IndInv => SinkAtLeastOnce
  <2> SUFFICES ASSUME IndInv PROVE SinkAtLeastOnce OBVIOUS
  <2>1. CASE stage = "down"
    <3>1. changes = <<>> BY <2>1 DEF IndInv, FeedRight
    <3>2. Range(<<>>) = {} BY DEF Range
    <3> QED BY <3>1, <3>2 DEF SinkAtLeastOnce
  <2>2. CASE stage # "down"
    BY <2>2 DEF IndInv, FeedRight, Serves, SinksOf, Drained, SinkAtLeastOnce
  <2> QED BY <2>1, <2>2
<1> QED BY <1>1, Inductive, PTL

=============================================================================
