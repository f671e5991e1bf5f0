--------------------------- MODULE EngineWal_proofs ---------------------------
(***************************************************************************)
(* Proofs about EngineWal, for all sets of tables and keys, every size of  *)
(* the group commit, every flush threshold, and any number of statements,  *)
(* drops and crashes.                                                      *)
(***************************************************************************)
EXTENDS EngineWal, Subsequence_proofs

-----------------------------------------------------------------------------
(* The inductive invariant *)

(* The images of a statement, and what a client sees of them. *)
Images == UNION {[ks -> Row] : ks \in SUBSET Key}

Shown == UNION {[ks -> Nat] : ks \in SUBSET Key}

Op == [t : Table, new : Images, more : Images, direct : BOOLEAN]

Txn == [t : Table, new : Images, more : Images]

(* The ways out of durability. *)
Ways == {"rewound", "dropped", "locked", "ahead", "chained", "refused"}

FullTypeOK ==
  /\ cat \in [Table -> Nat \cup {Absent}] /\ tv \in [Table -> Nat \cup {Absent}]
  /\ snap \in [Table -> [Key -> Row]] /\ rows \in [Table -> [Key -> Row]]
  /\ wal \in Seq(Txn)
  /\ synced \in 0..Len(wal) /\ snapAt \in 0..Len(wal)
  /\ locked \subseteq Encrypted /\ dirty \subseteq Table
  /\ since \in 0..Threshold /\ (since = Threshold => stage = "flush")
  /\ stage \in Stage
  /\ op \in Op
  /\ acked \in Seq([t : Table, vals : Shown]) /\ sure \in 0..Len(acked)
  /\ odd \subseteq Ways
  /\ stmts \in Nat

(* The transactions among the first n of a log that have an image of key k  *)
(* of table t, the last of these images, and what the replay makes of a row *)
(* that was loaded with the image r.                                        *)
Records(log, n, t, k) == {i \in 1..n : log[i].t = t /\ k \in DOMAIN log[i].new}

LastImage(log, n, t, k) == log[Max(Records(log, n, t, k))].new[k]

Outcome(log, n, r, t, k) ==
  IF Records(log, n, t, k) = {} \/ (r.live /\ r.ver >= LastImage(log, n, t, k).ver)
  THEN r ELSE LastImage(log, n, t, k)

(* The value that is on disk when the first n transactions are. *)
OnDisk(n, t, k) == IF cat[t] = Absent THEN 0 ELSE Value(Outcome(wal, n, snap[t][k], t, k))

(* The value after the first m effects of a history h. *)
Upto(h, m, t, k) ==
  LET S == {i \in 1..m : h[i].t = t /\ k \in DOMAIN h[i].vals}
  IN  IF S = {} THEN 0 ELSE h[Max(S)].vals[k]

(* The stages of a running statement, and those in which nothing of it is   *)
(* on disk but the catalog.                                                 *)
Unwritten == {"catalog", "log", "direct"}

Running == Unwritten \cup {"sync", "defer", "flush", "unlist"}

Up == stage \notin {"down", "recover"}

(* A table is listed in the catalog as long as it exists; the drop removes  *)
(* it from memory first.  A table that is gone has no rows anywhere.        *)
TablesRight ==
  /\ \A t \in Table : (stage = "unlist" /\ t = op.t) \/ (cat[t] = Absent <=> tv[t] = Absent)
  /\ stage = "unlist" => tv[op.t] = Absent /\ op.new = NoRows /\ snapAt = Len(wal)
  /\ \A t \in Table : tv[t] = Absent => snap[t] = NoRows /\ (stage # "down" => rows[t] = NoRows)
  /\ stage \in {"catalog", "log", "sync", "defer", "direct"} => Exists(op.t)

(* A table that is not to be flushed has its rows in its file. *)
CleanTables ==
  /\ dirty \cap locked = {}
  /\ stage # "down" =>
       \A t \in Table \ (dirty \cup locked) :
         \/ snap[t] = rows[t]
         \/ t = op.t /\ stage \in {"catalog", "log", "sync", "defer", "direct"}

Increasing(log) ==
  \A i, j \in 1..Len(log) : i < j /\ log[i].t = log[j].t =>
    \A k \in DOMAIN log[i].new \cap DOMAIN log[j].new : log[i].new[k].ver < log[j].new[k].ver

(* The images of a row have increasing versions, which the table's counter  *)
(* has reached; the log has none of a locked table.                         *)
LogRight ==
  /\ Increasing(wal)
  /\ Up => \A i \in 1..Len(wal) : Exists(wal[i].t) =>
       \A k \in DOMAIN wal[i].new :
         /\ wal[i].new[k].ver <= tv[wal[i].t]
         /\ stage \in Unwritten /\ wal[i].t = op.t => wal[i].new[k].ver < tv[wal[i].t]
  /\ \A i \in 1..Len(wal) : wal[i].t \notin locked

(* The running statement has written its images to memory, with a version   *)
(* that is above those in the log and in the file.                          *)
OpRight ==
  /\ stage \in {"catalog", "log", "sync", "defer", "direct"} => op.t \notin locked
  /\ stage = "log" => ~op.direct
  /\ stage = "direct" => op.direct
  /\ stage \in Unwritten => \A k \in DOMAIN op.new :
       /\ op.new[k].ver = tv[op.t]
       /\ snap[op.t][k].live => snap[op.t][k].ver < tv[op.t]
       /\ Value(rows[op.t][k]) = Value(op.new[k]) /\ rows[op.t][k].live = op.new[k].live
       /\ rows[op.t][k].live => rows[op.t][k] = op.new[k]
       /\ op.direct => op.new[k].live

(* A row in memory is as new as its images in the log, and a row that is    *)
(* not there is gone by the last of them.  The file has no live row from    *)
(* ahead of the table's counter that memory has not.                        *)
RowsRight ==
  stage # "down" =>
    \A t \in Table \ locked : Exists(t) => \A k \in Key :
      /\ snap[t][k].live => snap[t][k].ver <= tv[t] \/ snap[t][k].ver <= rows[t][k].ver
      /\ Records(wal, Len(wal), t, k) # {} =>
           /\ rows[t][k].live => rows[t][k].ver >= LastImage(wal, Len(wal), t, k).ver
           /\ \/ stage \in {"catalog", "log"} /\ t = op.t /\ k \in DOMAIN op.new /\ ~op.direct
              \/ rows[t][k].live
              \/ ~LastImage(wal, Len(wal), t, k).live

(* The history with the running statement, and the number of its effects    *)
(* that the first n transactions stand for.                                 *)
History == IF stage \in Running THEN Append(acked, Effect) ELSE acked

Mark(n) == Len(History) - (IF stage \in Unwritten THEN 1 ELSE 0) - (Len(wal) - n)

(* Memory has all of the history.  Every part of the log that a crash may   *)
(* leave, and that no file is ahead of, gives a prefix of it, no shorter    *)
(* than what must survive.                                                  *)
HistoryRight ==
  /\ Up => /\ \A t \in Table, k \in Key : Held(t)[k] = Upto(History, Len(History), t, k)
           /\ \A n \in synced..Len(wal) : n >= snapAt =>
                /\ Mark(n) \in sure..Len(History)
                /\ \A t \in Table, k \in Key :
                     (stage = "unlist" /\ t = op.t) \/ OnDisk(n, t, k) = Upto(History, Mark(n), t, k)
  /\ ~Up => /\ synced = Len(wal)
            /\ \E m \in sure..Len(acked) : \A t \in Table, k \in Key :
                 /\ OnDisk(Len(wal), t, k) = Upto(acked, m, t, k)
                 /\ stage = "recover" => Held(t)[k] = Upto(acked, m, t, k)

(* No key has a second image. *)
Plain == DOMAIN op.more = {} /\ \A i \in 1..Len(wal) : DOMAIN wal[i].more = {}

Sound == CleanTables /\ LogRight /\ OpRight /\ RowsRight /\ HistoryRight

IndInv == FullTypeOK /\ TablesRight /\ (odd = {} => Plain /\ Sound)

-----------------------------------------------------------------------------
(* The replay *)

(* What the replay carries from record to record. *)
State == [rows : [Table -> [Key -> Row]], index : [Table -> SUBSET Key],
          touched : SUBSET Table, skip : SUBSET Table]

(* The images of a statement are a function from some keys to rows. *)
LEMMA ImagesType ==
  ASSUME NEW new \in Images
  PROVE  /\ DOMAIN new \in SUBSET Key
         /\ \A k \in DOMAIN new : new[k] \in Row
         /\ new = [k \in DOMAIN new |-> new[k]]
BY DEF Images

(* A function from some keys to rows is one. *)
LEMMA IsImage ==
  ASSUME NEW ks \in SUBSET Key, NEW new \in [ks -> Row]
  PROVE  new \in Images
BY DEF Images

(* The largest element of a bounded set of numbers. *)
LEMMA MaxRight ==
  ASSUME NEW n \in Nat, NEW S \in SUBSET (0..n), S # {}
  PROVE  Max(S) \in S /\ \A j \in S : j <= Max(S)
<1>1. PICK x \in S : \A y \in S : y <= x BY LargestExists
<1>2. \A y \in S : x >= y BY <1>1
<1>3. \E z \in S : \A y \in S : z >= y BY <1>2
<1>4. Max(S) \in S /\ \A y \in S : Max(S) >= y BY <1>3, Zenon DEF Max
<1> QED BY <1>4

(* Some images keep the types. *)
LEMMA ApplyType ==
  ASSUME NEW s \in State, NEW t \in Table, NEW new \in Images
  PROVE  Apply(s, t, new) \in State
<1> DEFINE old == s.rows[t]
           ks == {k \in DOMAIN new : ~(k \in s.index[t] /\ old[k].ver >= new[k].ver)}
           img == [k \in ks |-> new[k]]
           res == Over(old, img)
<1>1. old \in [Key -> Row] BY DEF State
<1>2. DOMAIN new \in SUBSET Key /\ \A k \in DOMAIN new : new[k] \in Row BY ImagesType
<1>3. res \in [Key -> Row] BY <1>1, <1>2 DEF Over
<1>4. s.index[t] \cup ks \in SUBSET Key BY <1>1, <1>2 DEF State
<1> HIDE DEF res, ks, old, img
<1>5. CASE t \in s.skip \/ ks = {}
  BY <1>5 DEF Apply, ks, old
<1>6. CASE ~(t \in s.skip \/ ks = {})
  <2>1. Apply(s, t, new) = [rows    |-> [s.rows EXCEPT ![t] = res],
                            index   |-> [s.index EXCEPT ![t] = @ \cup ks],
                            touched |-> s.touched \cup {t},
                            skip    |-> s.skip]
    BY <1>6 DEF Apply, ks, old, res, img
  <2> QED BY <1>3, <1>4, <2>1 DEF State
<1> QED BY <1>5, <1>6

(* One transaction keeps the types. *)
LEMMA RedoType ==
  ASSUME NEW s \in State, NEW x \in Txn
  PROVE  Redo(s, x) \in State /\ Apply(s, x.t, x.new) \in State
<1>1. x.t \in Table /\ x.new \in Images /\ x.more \in Images BY DEF Txn
<1>2. Apply(s, x.t, x.new) \in State BY <1>1, ApplyType
<1>3. Apply(Apply(s, x.t, x.new), x.t, x.more) \in State BY <1>1, <1>2, ApplyType
<1> QED BY <1>2, <1>3 DEF Redo

(* f is the sequence of the states of a replay of the first n records. *)
Steps(f, loaded, log, n) ==
  /\ f \in [0..n -> State] /\ f[0] = loaded
  /\ \A i \in 1..n : f[i] = Redo(f[i-1], log[i])

(* Such a sequence exists: it is extended record by record. *)
LEMMA StepsExist ==
  ASSUME NEW loaded \in State, NEW log \in Seq(Txn)
  PROVE  \E f : Steps(f, loaded, log, Len(log))
<1> DEFINE Bad == {n \in 0..Len(log) : ~ \E f : Steps(f, loaded, log, n)}
<1> SUFFICES ASSUME Bad # {} PROVE FALSE
  <2>1. Len(log) \in 0..Len(log) OBVIOUS
  <2> QED BY <2>1
<1>1. PICK n \in Bad : \A m \in Bad : n <= m
  <2>1. Bad \in SUBSET Nat OBVIOUS
  <2> QED BY <2>1, LeastExists
<1>2. n \in 0..Len(log) /\ ~ \E f : Steps(f, loaded, log, n) BY <1>1
<1>3. n # 0
  <2> DEFINE f == [i \in 0..0 |-> loaded]
  <2>1. f \in [0..0 -> State] /\ f[0] = loaded OBVIOUS
  <2>2. \A i \in 1..0 : f[i] = Redo(f[i-1], log[i]) OBVIOUS
  <2>3. Steps(f, loaded, log, 0) BY <2>1, <2>2 DEF Steps
  <2> QED BY <1>2, <2>3
<1>4. n - 1 \in 0..Len(log) /\ n \in 1..Len(log) /\ n - 1 \in Nat /\ ~(n <= n - 1)
  BY <1>2, <1>3
<1>5. PICK f : Steps(f, loaded, log, n - 1) BY <1>1, <1>4
<1> DEFINE g == [i \in 0..n |-> IF i = n THEN Redo(f[n-1], log[n]) ELSE f[i]]
<1>6. \A i \in 0..n : i = n \/ i \in 0..(n-1) BY <1>4
<1>7. f[n-1] \in State /\ log[n] \in Txn BY <1>4, <1>5 DEF Steps
<1>8. \A i \in 0..(n-1) : f[i] \in State BY <1>5 DEF Steps
<1>9. g \in [0..n -> State] BY <1>6, <1>7, <1>8, RedoType
<1>10. g[0] = loaded BY <1>3, <1>4, <1>5 DEF Steps
<1>11. ASSUME NEW i \in 1..n PROVE g[i] = Redo(g[i-1], log[i])
  <2>1. i - 1 \in 0..n /\ i \in 0..n /\ i - 1 # n BY <1>4
  <2>2. g[i-1] = f[i-1] BY <2>1
  <2>3. CASE i = n BY <2>1, <2>2, <2>3
  <2>4. CASE i # n
    <3>1. i \in 1..(n-1) BY <1>4, <2>4
    <3>2. g[i] = f[i] BY <2>1, <2>4
    <3> QED BY <1>5, <2>2, <3>1, <3>2 DEF Steps
  <2> QED BY <2>3, <2>4
<1>12. Steps(g, loaded, log, n) BY <1>9, <1>10, <1>11 DEF Steps
<1> QED BY <1>2, <1>12

(* The replay is the end of such a sequence. *)
LEMMA RedoLogSteps ==
  ASSUME NEW loaded \in State, NEW log \in Seq(Txn)
  PROVE  \E f : Steps(f, loaded, log, Len(log)) /\ RedoLog(loaded, log) = f[Len(log)]
<1> DEFINE P(f) == f = [i \in 0..Len(log) |-> IF i = 0 THEN loaded ELSE Redo(f[i-1], log[i])]
           g == CHOOSE f : P(f)
<1>0. Len(log) \in Nat OBVIOUS
<1>1. PICK f : Steps(f, loaded, log, Len(log)) BY StepsExist
<1>2. ASSUME NEW i \in 0..Len(log)
      PROVE  f[i] = IF i = 0 THEN loaded ELSE Redo(f[i-1], log[i])
  <2>1. i = 0 \/ i \in 1..Len(log) BY <1>0
  <2> QED BY <1>1, <2>1 DEF Steps
<1>3. f = [i \in 0..Len(log) |-> f[i]] BY <1>1 DEF Steps
<1>4. P(f) BY <1>2, <1>3
<1>5. P(g) BY <1>4, Zenon
<1>6. RedoLog(loaded, log) = g[Len(log)] BY Zenon DEF RedoLog
<1> HIDE DEF g
<1>7. \A i \in 0..Len(log) : g[i] = IF i = 0 THEN loaded ELSE Redo(g[i-1], log[i])
  BY <1>5, Zenon
<1>8. \A i \in 1..Len(log) : i \in 0..Len(log) /\ i # 0 /\ i - 1 \in 0..Len(log) BY <1>0
<1>9. g[0] = loaded BY <1>0, <1>7
<1>10. \A i \in 1..Len(log) : g[i] = Redo(g[i-1], log[i]) BY <1>7, <1>8
<1> DEFINE Bad == {i \in 0..Len(log) : g[i] \notin State}
<1>11. Bad = {}
  <2> SUFFICES ASSUME Bad # {} PROVE FALSE OBVIOUS
  <2>1. PICK i \in Bad : \A j \in Bad : i <= j
    <3>1. Bad \in SUBSET Nat OBVIOUS
    <3> QED BY <3>1, LeastExists
  <2>2. i \in 1..Len(log) BY <1>0, <1>9, <2>1
  <2>3. i - 1 \in 0..Len(log) /\ ~(i <= i - 1) BY <1>8, <2>2
  <2>4. g[i-1] \in State BY <2>1, <2>3
  <2>5. log[i] \in Txn BY <2>2
  <2> QED BY <1>10, <2>1, <2>2, <2>4, <2>5, RedoType
<1>12. DOMAIN g = 0..Len(log) /\ g = [i \in DOMAIN g |-> g[i]] BY <1>5, Zenon
<1>13. g \in [0..Len(log) -> State] BY <1>11, <1>12
<1>14. Steps(g, loaded, log, Len(log)) BY <1>9, <1>10, <1>13 DEF Steps
<1> QED BY <1>6, <1>14

(* The image of key k in new is applied to the row of table t. *)
Applies(s, u, new, t, k) ==
  /\ t = u /\ t \notin s.skip /\ k \in DOMAIN new
  /\ ~(k \in s.index[t] /\ s.rows[t][k].ver >= new[k].ver)

(* wal_apply_record changes the row of a key iff the image applies to it.   *)
LEMMA ApplyRow ==
  ASSUME NEW s \in State, NEW u \in Table, NEW new \in Images, NEW t \in Table
  PROVE  /\ Apply(s, u, new).skip = s.skip
         /\ s.touched \subseteq Apply(s, u, new).touched
         /\ t \in Apply(s, u, new).touched => t \in s.touched \/ t \notin s.skip
         /\ t \in s.skip \/ t \notin Apply(s, u, new).touched => Apply(s, u, new).rows[t] = s.rows[t]
         /\ \A k \in Key :
              /\ Apply(s, u, new).rows[t][k] =
                   IF Applies(s, u, new, t, k) THEN new[k] ELSE s.rows[t][k]
              /\ k \in Apply(s, u, new).index[t] <=> k \in s.index[t] \/ Applies(s, u, new, t, k)
<1> DEFINE old == s.rows[u]
           ks == {k \in DOMAIN new : ~(k \in s.index[u] /\ old[k].ver >= new[k].ver)}
           img == [k \in ks |-> new[k]]
           res == Over(old, img)
<1>1. s.rows \in [Table -> [Key -> Row]] /\ s.index \in [Table -> SUBSET Key] BY DEF State
<1>2. \A k \in Key : res[k] = IF k \in ks THEN new[k] ELSE old[k] BY DEF Over
<1>3. \A k \in Key : Applies(s, u, new, t, k) <=> t = u /\ t \notin s.skip /\ k \in ks
  BY DEF Applies
<1> HIDE DEF res, ks, old, img
<1>4. CASE u \in s.skip \/ ks = {}
  <2>1. Apply(s, u, new) = s BY <1>4 DEF Apply, ks, old
  <2> QED BY <1>3, <1>4, <2>1
<1>5. CASE ~(u \in s.skip \/ ks = {})
  <2>1. Apply(s, u, new) = [rows    |-> [s.rows EXCEPT ![u] = res],
                            index   |-> [s.index EXCEPT ![u] = @ \cup ks],
                            touched |-> s.touched \cup {u},
                            skip    |-> s.skip]
    BY <1>5 DEF Apply, ks, old, res, img
  <2>2. CASE t = u
    <3>1. Apply(s, u, new).rows[t] = res /\ Apply(s, u, new).index[t] = s.index[t] \cup ks
      BY <1>1, <2>1, <2>2
    <3>2. old = s.rows[t] BY <2>2 DEF old
    <3> QED BY <1>2, <1>3, <1>5, <2>1, <2>2, <3>1, <3>2
  <2>3. CASE t # u
    <3>1. Apply(s, u, new).rows[t] = s.rows[t] /\ Apply(s, u, new).index[t] = s.index[t]
      BY <1>1, <2>1, <2>3
    <3> QED BY <1>3, <2>1, <2>3, <3>1
  <2> QED BY <2>2, <2>3
<1> QED BY <1>4, <1>5

(* The replay of a transaction, with or without second images. *)
LEMMA RedoTouched ==
  ASSUME NEW s \in State, NEW x \in Txn, NEW t \in Table
  PROVE  /\ Redo(s, x).skip = s.skip
         /\ s.touched \subseteq Redo(s, x).touched
         /\ t \in Redo(s, x).touched => t \in s.touched \/ t \notin s.skip
         /\ t \in s.skip \/ t \notin Redo(s, x).touched => Redo(s, x).rows[t] = s.rows[t]
<1> DEFINE u == Apply(s, x.t, x.new)
           v == Apply(u, x.t, x.more)
<1>1. x.t \in Table /\ x.new \in Images /\ x.more \in Images BY DEF Txn
<1>2. /\ u.skip = s.skip /\ s.touched \subseteq u.touched
      /\ t \in u.touched => t \in s.touched \/ t \notin s.skip
      /\ t \in s.skip \/ t \notin u.touched => u.rows[t] = s.rows[t]
  BY <1>1, ApplyRow
<1>3. u \in State BY RedoType
<1>4. Redo(s, x) = v BY DEF Redo
<1> HIDE DEF u
<1>5. /\ v.skip = u.skip /\ u.touched \subseteq v.touched
      /\ t \in v.touched => t \in u.touched \/ t \notin u.skip
      /\ t \in u.skip \/ t \notin v.touched => v.rows[t] = u.rows[t]
  BY <1>1, <1>3, ApplyRow
<1> HIDE DEF v
<1> QED BY <1>2, <1>4, <1>5

(* Without second images it is that of its first images. *)
LEMMA RedoRow ==
  ASSUME NEW s \in State, NEW x \in Txn, DOMAIN x.more = {}, NEW t \in Table, NEW k \in Key
  PROVE  /\ Redo(s, x).rows[t][k] =
              IF Applies(s, x.t, x.new, t, k) THEN x.new[k] ELSE s.rows[t][k]
         /\ k \in Redo(s, x).index[t] <=> k \in s.index[t] \/ Applies(s, x.t, x.new, t, k)
<1> DEFINE u == Apply(s, x.t, x.new)
<1>1. x.t \in Table /\ x.new \in Images BY DEF Txn
<1>2. /\ u.rows[t][k] = IF Applies(s, x.t, x.new, t, k) THEN x.new[k] ELSE s.rows[t][k]
      /\ k \in u.index[t] <=> k \in s.index[t] \/ Applies(s, x.t, x.new, t, k)
  BY <1>1, ApplyRow
<1> HIDE DEF u
<1>3. Apply(u, x.t, x.more) = u BY DEF Apply
<1>4. Redo(s, x) = u BY <1>3 DEF Redo, u
<1> QED BY <1>2, <1>4

(* The records of a row are numbers of transactions; the last is the largest.*)
LEMMA LastRecord ==
  ASSUME NEW log \in Seq(Txn), NEW n \in 0..Len(log), NEW t, NEW k,
         Records(log, n, t, k) # {}
  PROVE  /\ Max(Records(log, n, t, k)) \in Records(log, n, t, k)
         /\ \A j \in Records(log, n, t, k) : j <= Max(Records(log, n, t, k))
         /\ LastImage(log, n, t, k) \in Row
<1> DEFINE R == Records(log, n, t, k)
           i == Max(R)
<1>1. R \in SUBSET (0..n) /\ n \in Nat BY DEF Records
<1>2. i \in R /\ \A j \in R : j <= i BY <1>1, MaxRight
<1>3. i \in 1..Len(log) /\ k \in DOMAIN log[i].new BY <1>2 DEF Records
<1>4. log[i].new \in Images
  <2>1. log[i] \in Txn BY <1>3
  <2> QED BY <2>1 DEF Txn
<1>5. log[i].new[k] \in Row BY <1>3, <1>4, ImagesType
<1> QED BY <1>2, <1>5 DEF LastImage

(* One more transaction. *)
LEMMA NextRecord ==
  ASSUME NEW log \in Seq(Txn), NEW n \in 1..Len(log), NEW t, NEW k
  PROVE  /\ ~(log[n].t = t /\ k \in DOMAIN log[n].new) =>
              Records(log, n, t, k) = Records(log, n - 1, t, k)
         /\ log[n].t = t /\ k \in DOMAIN log[n].new =>
              /\ Records(log, n, t, k) # {}
              /\ LastImage(log, n, t, k) = log[n].new[k]
<1> DEFINE R == Records(log, n, t, k)
<1>0. n \in 0..Len(log) OBVIOUS
<1>1. \A i \in 1..n : i = n \/ i \in 1..(n-1) OBVIOUS
<1>2. \A i \in 1..(n-1) : i \in 1..n /\ i # n OBVIOUS
<1>3. ASSUME ~(log[n].t = t /\ k \in DOMAIN log[n].new) PROVE R = Records(log, n - 1, t, k)
  BY <1>1, <1>2, <1>3 DEF Records
<1>4. ASSUME log[n].t = t /\ k \in DOMAIN log[n].new
      PROVE  R # {} /\ LastImage(log, n, t, k) = log[n].new[k]
  <2>1. n \in R BY <1>4 DEF Records
  <2>2. Max(R) \in R /\ n <= Max(R) BY <1>0, <2>1, LastRecord
  <2>3. Max(R) \in 1..n BY <2>2 DEF Records
  <2>4. Max(R) = n BY <2>2, <2>3
  <2> QED BY <2>1, <2>4 DEF LastImage
<1> QED BY <1>3, <1>4

(* The replay of one more record gives the outcome of one more record.  The *)
(* version check is right because the versions of a row increase.           *)
LEMMA RedoOutcome ==
  ASSUME NEW log \in Seq(Txn), Increasing(log), NEW n \in 1..Len(log), NEW s \in State,
         DOMAIN log[n].more = {},
         NEW t \in Table, t \notin s.skip, NEW k \in Key, NEW r \in Row,
         s.rows[t][k] = Outcome(log, n - 1, r, t, k),
         k \in s.index[t] <=> r.live \/ Records(log, n - 1, t, k) # {}
  PROVE  /\ Redo(s, log[n]).rows[t][k] = Outcome(log, n, r, t, k)
         /\ k \in Redo(s, log[n]).index[t] <=> r.live \/ Records(log, n, t, k) # {}
<1> DEFINE x == log[n]
           R == Records(log, n - 1, t, k)
           last == LastImage(log, n - 1, t, k)
<1>0. x \in Txn /\ n - 1 \in 0..Len(log) OBVIOUS
<1>1. /\ Redo(s, x).rows[t][k] =
           IF Applies(s, x.t, x.new, t, k) THEN x.new[k] ELSE s.rows[t][k]
      /\ k \in Redo(s, x).index[t] <=> k \in s.index[t] \/ Applies(s, x.t, x.new, t, k)
  BY <1>0, RedoRow
<1>2. CASE ~(x.t = t /\ k \in DOMAIN x.new)
  <2>1. Records(log, n, t, k) = R BY <1>2, NextRecord
  <2>2. Outcome(log, n, r, t, k) = Outcome(log, n - 1, r, t, k) BY <2>1 DEF Outcome, LastImage
  <2>3. ~Applies(s, x.t, x.new, t, k) BY <1>2 DEF Applies
  <2> QED BY <1>1, <2>1, <2>2, <2>3
<1>3. CASE x.t = t /\ k \in DOMAIN x.new
  <2>1. Records(log, n, t, k) # {} /\ LastImage(log, n, t, k) = x.new[k] BY <1>3, NextRecord
  <2>2. x.new[k] \in Row BY <1>0, <1>3, ImagesType DEF Txn
  <2>3. x.new[k].ver \in Nat /\ r.ver \in Nat BY <2>2 DEF Row
  <2>4. Outcome(log, n, r, t, k) = IF r.live /\ r.ver >= x.new[k].ver THEN r ELSE x.new[k]
    BY <2>1 DEF Outcome
  <2>5. Applies(s, x.t, x.new, t, k) <=> ~(k \in s.index[t] /\ s.rows[t][k].ver >= x.new[k].ver)
    BY <1>3 DEF Applies
  <2>6. CASE R = {}
    <3>1. s.rows[t][k] = r BY <2>6 DEF Outcome
    <3> QED BY <1>1, <2>1, <2>4, <2>5, <2>6, <3>1
  <2>7. CASE R # {}
    <3>1. Max(R) \in R /\ last \in Row BY <1>0, <2>7, LastRecord
    <3>2. Max(R) \in 1..Len(log) /\ Max(R) < n /\ log[Max(R)].t = t /\ k \in DOMAIN log[Max(R)].new
      BY <3>1 DEF Records
    <3>3. last.ver < x.new[k].ver BY <1>3, <3>2 DEF Increasing, LastImage
    <3>4. last.ver \in Nat BY <3>1 DEF Row
    <3>5. s.rows[t][k] = IF r.live /\ r.ver >= last.ver THEN r ELSE last BY <2>7 DEF Outcome
    <3>6. k \in s.index[t] BY <2>7
    <3>7. CASE r.live /\ r.ver >= last.ver
      BY <1>1, <2>1, <2>4, <2>5, <3>5, <3>6, <3>7
    <3>8. CASE ~(r.live /\ r.ver >= last.ver)
      <4>1. Applies(s, x.t, x.new, t, k) BY <2>3, <2>5, <3>3, <3>4, <3>5, <3>8
      <4>2. ~(r.live /\ r.ver >= x.new[k].ver) BY <2>3, <3>3, <3>4, <3>8
      <4> QED BY <1>1, <2>1, <2>4, <4>1, <4>2
    <3> QED BY <3>7, <3>8
  <2> QED BY <2>6, <2>7
<1> QED BY <1>2, <1>3

(* The replay keeps the types, leaves the tables it skips alone, and has    *)
(* touched every table it changed.                                          *)
LEMMA ReplayTouched ==
  ASSUME NEW loaded \in State, loaded.touched = {}, NEW log \in Seq(Txn)
  PROVE  /\ RedoLog(loaded, log) \in State
         /\ \A t \in Table :
              /\ t \in RedoLog(loaded, log).touched => t \notin loaded.skip
              /\ t \in loaded.skip \/ t \notin RedoLog(loaded, log).touched =>
                   RedoLog(loaded, log).rows[t] = loaded.rows[t]
<1>1. PICK f : Steps(f, loaded, log, Len(log)) /\ RedoLog(loaded, log) = f[Len(log)]
  BY RedoLogSteps
<1> DEFINE P(s) == /\ s.skip = loaded.skip
                   /\ \A t \in Table :
                        /\ t \in s.touched => t \notin loaded.skip
                        /\ t \in loaded.skip \/ t \notin s.touched => s.rows[t] = loaded.rows[t]
           Bad == {i \in 0..Len(log) : ~P(f[i])}
<1>2. Bad = {}
  <2> SUFFICES ASSUME Bad # {} PROVE FALSE OBVIOUS
  <2>1. PICK i \in Bad : \A j \in Bad : i <= j
    <3>1. Bad \in SUBSET Nat OBVIOUS
    <3> QED BY <3>1, LeastExists
  <2>2. P(f[0]) BY <1>1 DEF Steps
  <2>3. i \in 1..Len(log) BY <2>1, <2>2
  <2>4. i - 1 \in 0..Len(log) /\ ~(i <= i - 1) BY <2>3
  <2>5. P(f[i-1]) BY <2>1, <2>4
  <2>6. f[i] = Redo(f[i-1], log[i]) /\ f[i-1] \in State /\ log[i] \in Txn
    BY <1>1, <2>3, <2>4 DEF Steps
  <2>7. P(f[i])
    <3> DEFINE s == f[i-1]
               u == Redo(s, log[i])
    <3>1. u.skip = s.skip
      <4>1. CASE Table = {} BY <4>1, EngineWalAssumption
      <4>2. CASE Table # {} BY <2>6, <4>2, RedoTouched
      <4> QED BY <4>1, <4>2
    <3>2. ASSUME NEW t \in Table
          PROVE  /\ t \in u.touched => t \notin loaded.skip
                 /\ t \in loaded.skip \/ t \notin u.touched => u.rows[t] = loaded.rows[t]
      <4>1. /\ s.touched \subseteq u.touched
            /\ t \in u.touched => t \in s.touched \/ t \notin s.skip
            /\ t \in s.skip \/ t \notin u.touched => u.rows[t] = s.rows[t]
        BY <2>6, RedoTouched
      <4> HIDE DEF u
      <4> QED BY <2>5, <4>1
    <3> QED BY <2>5, <2>6, <3>1, <3>2
  <2> QED BY <2>1, <2>7
<1>3. Len(log) \in 0..Len(log) OBVIOUS
<1>4. P(f[Len(log)]) BY <1>2, <1>3
<1>5. f[Len(log)] \in State BY <1>1, <1>3 DEF Steps
<1> QED BY <1>1, <1>4, <1>5

(* The replay of a log with increasing versions onto a loaded table. *)
LEMMA ReplayOutcome ==
  ASSUME NEW loaded \in State, NEW log \in Seq(Txn), Increasing(log),
         \A i \in 1..Len(log) : DOMAIN log[i].more = {},
         NEW t \in Table, t \notin loaded.skip, NEW k \in Key,
         k \in loaded.index[t] <=> loaded.rows[t][k].live
  PROVE  RedoLog(loaded, log).rows[t][k] = Outcome(log, Len(log), loaded.rows[t][k], t, k)
<1>1. PICK f : Steps(f, loaded, log, Len(log)) /\ RedoLog(loaded, log) = f[Len(log)]
  BY RedoLogSteps
<1> DEFINE r == loaded.rows[t][k]
           P(i) == /\ f[i].skip = loaded.skip
                   /\ f[i].rows[t][k] = Outcome(log, i, r, t, k)
                   /\ k \in f[i].index[t] <=> r.live \/ Records(log, i, t, k) # {}
           Bad == {i \in 0..Len(log) : ~P(i)}
<1>0. r \in Row BY DEF State
<1>2. Bad = {}
  <2> SUFFICES ASSUME Bad # {} PROVE FALSE OBVIOUS
  <2>1. PICK i \in Bad : \A j \in Bad : i <= j
    <3>1. Bad \in SUBSET Nat OBVIOUS
    <3> QED BY <3>1, LeastExists
  <2>2. P(0)
    <3>1. Records(log, 0, t, k) = {} BY DEF Records
    <3> QED BY <1>1, <3>1 DEF Steps, Outcome
  <2>3. i \in 1..Len(log) BY <2>1, <2>2
  <2>4. i - 1 \in 0..Len(log) /\ ~(i <= i - 1) BY <2>3
  <2>5. P(i-1) BY <2>1, <2>4
  <2>6. f[i] = Redo(f[i-1], log[i]) /\ f[i-1] \in State /\ log[i] \in Txn
    BY <1>1, <2>3, <2>4 DEF Steps
  <2>7. f[i].skip = loaded.skip BY <2>5, <2>6, RedoTouched
  <2>8. t \notin f[i-1].skip BY <2>5
  <2>9. /\ f[i].rows[t][k] = Outcome(log, i, r, t, k)
        /\ k \in f[i].index[t] <=> r.live \/ Records(log, i, t, k) # {}
    BY <1>0, <2>3, <2>5, <2>6, <2>8, RedoOutcome
  <2> QED BY <2>1, <2>7, <2>9
<1>3. Len(log) \in 0..Len(log) OBVIOUS
<1>4. P(Len(log)) BY <1>2, <1>3
<1> QED BY <1>1, <1>4


(* The first n elements of a sequence. *)
LEMMA FirstElements ==
  ASSUME NEW D, NEW s \in Seq(D), NEW n \in 0..Len(s)
  PROVE  /\ SubSeq(s, 1, n) \in Seq(D) /\ Len(SubSeq(s, 1, n)) = n
         /\ \A i \in 1..n : SubSeq(s, 1, n)[i] = s[i]
<1>1. n \in Nat /\ Len(s) \in Nat /\ \A i \in 1..n : i \in 1..Len(s) /\ s[i] \in D OBVIOUS
<1>2. 1 \in Int /\ n \in Int OBVIOUS
<1>3. /\ SubSeq(s, 1, n) \in Seq(D)
      /\ Len(SubSeq(s, 1, n)) = IF 1 <= n THEN n - 1 + 1 ELSE 0
      /\ \A i \in 1..(n - 1 + 1) : SubSeq(s, 1, n)[i] = s[1 + i - 1]
  BY ONLY <1>1, <1>2, SubSeqProperties
<1>4. Len(SubSeq(s, 1, n)) = n BY <1>1, <1>3
<1>5. ASSUME NEW i \in 1..n PROVE SubSeq(s, 1, n)[i] = s[i]
  <2>1. i \in 1..(n - 1 + 1) /\ 1 + i - 1 = i BY <1>1
  <2> QED BY <1>3, <2>1
<1> QED BY <1>3, <1>4, <1>5

(* What the outcome of a row is. *)
LEMMA OutcomeRight ==
  ASSUME NEW log \in Seq(Txn), NEW n \in 0..Len(log), NEW t, NEW k, NEW r \in Row
  PROVE  /\ Outcome(log, n, r, t, k) \in Row
         /\ Records(log, n, t, k) = {} => Outcome(log, n, r, t, k) = r
         /\ Records(log, n, t, k) # {} =>
              /\ LastImage(log, n, t, k) \in Row
              /\ Outcome(log, n, r, t, k) =
                   IF r.live /\ r.ver >= LastImage(log, n, t, k).ver
                   THEN r ELSE LastImage(log, n, t, k)
<1>1. CASE Records(log, n, t, k) = {} BY <1>1 DEF Outcome
<1>2. CASE Records(log, n, t, k) # {}
  <2>1. LastImage(log, n, t, k) \in Row BY <1>2, LastRecord
  <2> QED BY <1>2, <2>1 DEF Outcome
<1> QED BY <1>1, <1>2

(* The outcome depends on the transactions that are replayed only. *)
LEMMA OutcomePrefix ==
  ASSUME NEW log \in Seq(Txn), NEW log2 \in Seq(Txn), NEW n \in Nat,
         \A i \in 1..n : log2[i] = log[i], NEW t, NEW k, NEW r
  PROVE  Outcome(log2, n, r, t, k) = Outcome(log, n, r, t, k)
<1>1. Records(log2, n, t, k) = Records(log, n, t, k) BY DEF Records
<1>2. CASE Records(log, n, t, k) = {} BY <1>1, <1>2 DEF Outcome
<1>3. CASE Records(log, n, t, k) # {}
  <2>1. Records(log, n, t, k) \in SUBSET (0..n) BY DEF Records
  <2>2. Max(Records(log, n, t, k)) \in Records(log, n, t, k) BY <1>3, <2>1, MaxRight
  <2>3. Max(Records(log, n, t, k)) \in 1..n BY <2>2 DEF Records
  <2>4. LastImage(log2, n, t, k) = LastImage(log, n, t, k) BY <1>1, <2>3 DEF LastImage
  <2> QED BY <1>1, <2>4 DEF Outcome
<1> QED BY <1>2, <1>3

(* The empty log leaves a row alone, and so does one without its table. *)
LEMMA NoRecords ==
  ASSUME NEW log, NEW n \in Nat, NEW t, NEW k, NEW r, \A i \in 1..n : log[i].t # t
  PROVE  Records(log, n, t, k) = {} /\ Outcome(log, n, r, t, k) = r
BY DEF Records, Outcome

(* A prefix of a log with increasing versions is one. *)
LEMMA IncreasingPrefix ==
  ASSUME NEW log \in Seq(Txn), Increasing(log), NEW n \in 0..Len(log)
  PROVE  Increasing(SubSeq(log, 1, n))
<1>1. Len(SubSeq(log, 1, n)) = n /\ \A i \in 1..n : SubSeq(log, 1, n)[i] = log[i] OBVIOUS
<1>2. \A i \in 1..n : i \in 1..Len(log) OBVIOUS
<1> QED BY <1>1, <1>2 DEF Increasing

(* The effects of the history. *)
Effects == [t : Table, vals : Shown]

(* The history: its values depend on the effects counted only. *)
LEMMA UptoPrefix ==
  ASSUME NEW h \in Seq(Effects), NEW g \in Seq(Effects), NEW m \in Nat,
         \A i \in 1..m : g[i] = h[i], NEW t, NEW k
  PROVE  Upto(g, m, t, k) = Upto(h, m, t, k)
<1> DEFINE S == {i \in 1..m : h[i].t = t /\ k \in DOMAIN h[i].vals}
<1>1. S = {i \in 1..m : g[i].t = t /\ k \in DOMAIN g[i].vals} OBVIOUS
<1>2. CASE S = {}
  <2>1. Upto(h, m, t, k) = 0 BY <1>2 DEF Upto
  <2>2. Upto(g, m, t, k) = 0 BY <1>1, <1>2 DEF Upto
  <2> QED BY <2>1, <2>2
<1>3. CASE S # {}
  <2>1. S \in SUBSET (0..m) OBVIOUS
  <2>2. Max(S) \in S BY <1>3, <2>1, MaxRight
  <2>3. Max(S) \in 1..m BY <2>2
  <2>4. Upto(h, m, t, k) = h[Max(S)].vals[k] BY <1>3 DEF Upto
  <2>5. Upto(g, m, t, k) = g[Max(S)].vals[k] BY <1>1, <1>3 DEF Upto
  <2> QED BY <2>3, <2>4, <2>5
<1> QED BY <1>2, <1>3

(* One more effect sets the values of its keys and leaves the others. *)
LEMMA UptoAppend ==
  ASSUME NEW h \in Seq(Effects), NEW g \in Seq(Effects), Len(g) = Len(h) + 1,
         \A i \in 1..Len(h) : g[i] = h[i], NEW e, g[Len(g)] = e, NEW t, NEW k
  PROVE  /\ Upto(g, Len(g), t, k) =
              IF e.t = t /\ k \in DOMAIN e.vals THEN e.vals[k] ELSE Upto(h, Len(h), t, k)
         /\ \A m \in 0..Len(h) : Upto(g, m, t, k) = Upto(h, m, t, k)
<1>2. ASSUME NEW m \in 0..Len(h) PROVE Upto(g, m, t, k) = Upto(h, m, t, k)
  <2>1. m \in Nat OBVIOUS
  <2>2. \A i \in 1..m : g[i] = h[i] OBVIOUS
  <2> QED BY <2>1, <2>2, UptoPrefix
<1> DEFINE n == Len(h) + 1
           S == {i \in 1..n : g[i].t = t /\ k \in DOMAIN g[i].vals}
<1>0. n \in Nat /\ Len(g) = n /\ g[n] = e /\ \A i \in 1..Len(h) : g[i] = h[i] OBVIOUS
<1>3. CASE e.t = t /\ k \in DOMAIN e.vals
  <2>1. n \in S BY <1>0, <1>3
  <2>2. S \in SUBSET (0..n) OBVIOUS
  <2>3. Max(S) \in S /\ n <= Max(S) BY <1>0, <2>1, <2>2, MaxRight
  <2>4. Max(S) \in 1..n BY <2>3
  <2>5. Max(S) = n BY <1>0, <2>3, <2>4
  <2>6. Upto(g, n, t, k) = g[Max(S)].vals[k] BY <2>1 DEF Upto
  <2> QED BY <1>0, <1>2, <1>3, <2>5, <2>6
<1>4. CASE ~(e.t = t /\ k \in DOMAIN e.vals)
  <2>1. \A i \in 1..n : i = n \/ i \in 1..Len(h) OBVIOUS
  <2>2. \A i \in 1..Len(h) : i \in 1..n OBVIOUS
  <2>3. S = {i \in 1..Len(h) : g[i].t = t /\ k \in DOMAIN g[i].vals}
    BY <1>0, <1>4, <2>1, <2>2
  <2>4. Upto(g, n, t, k) = Upto(g, Len(h), t, k) BY <2>3 DEF Upto
  <2>5. Len(h) \in 0..Len(h) OBVIOUS
  <2>6. Upto(g, Len(h), t, k) = Upto(h, Len(h), t, k) BY <1>2, <2>5
  <2> QED BY <1>0, <1>2, <1>4, <2>4, <2>6
<1> QED BY <1>3, <1>4

(* The load *)
LEMMA LoadedRight ==
  ASSUME FullTypeOK, NEW lk \in SUBSET Table
  PROVE  /\ Loaded(lk) \in State /\ Loaded(lk).touched = {}
         /\ Loaded(lk).skip = lk \cup {t \in Table : cat[t] = Absent}
         /\ \A t \in Table : Loaded(lk).rows[t] = IF t \in lk THEN NoRows ELSE snap[t]
         /\ \A t \in Table, k \in Key : k \in Loaded(lk).index[t] <=> Loaded(lk).rows[t][k].live
<1> DEFINE files == [t \in Table |-> IF t \in lk THEN NoRows ELSE snap[t]]
           index == [t \in Table |-> {k \in Key : files[t][k].live}]
           skip == lk \cup {t \in Table : cat[t] = Absent}
<1>1. NoRows \in [Key -> Row] BY DEF NoRows, NoRow, Row
<1>2. snap \in [Table -> [Key -> Row]] BY DEF FullTypeOK
<1>3. files \in [Table -> [Key -> Row]] /\ index \in [Table -> SUBSET Key] /\ skip \in SUBSET Table
  BY <1>1, <1>2
<1>4. Loaded(lk) = [rows |-> files, touched |-> {}, index |-> index, skip |-> skip]
  BY DEF Loaded
<1>5. \A t \in Table : files[t] = IF t \in lk THEN NoRows ELSE snap[t] OBVIOUS
<1>6. \A t \in Table, k \in Key : k \in index[t] <=> files[t][k].live OBVIOUS
<1>7. skip = lk \cup {t \in Table : cat[t] = Absent} OBVIOUS
<1> HIDE DEF files, index, skip
<1>8. Loaded(lk) \in State /\ Loaded(lk).touched = {} BY <1>3, <1>4 DEF State
<1> QED BY <1>4, <1>5, <1>6, <1>7, <1>8

(* What the replay makes of the tables, those in lk being locked. *)
LEMMA ReplayRight ==
  ASSUME FullTypeOK, NEW lk \in SUBSET Table
  PROVE  /\ Replayed(lk).rows \in [Table -> [Key -> Row]]
         /\ Replayed(lk).touched \in SUBSET Table
         /\ \A t \in Table :
              /\ t \in Replayed(lk).touched => t \notin lk /\ cat[t] # Absent
              /\ t \in lk => Replayed(lk).rows[t] = NoRows
              /\ t \notin lk /\ (cat[t] = Absent \/ t \notin Replayed(lk).touched) =>
                   Replayed(lk).rows[t] = snap[t]
         /\ Plain /\ Increasing(wal) => \A t \in Table \ lk, k \in Key : cat[t] # Absent =>
              Replayed(lk).rows[t][k] = Outcome(wal, Len(wal), snap[t][k], t, k)
<1> DEFINE l == Loaded(lk)
           s == RedoLog(l, wal)
<1>0. Replayed(lk) = s BY DEF Replayed
<1>1. wal \in Seq(Txn) BY DEF FullTypeOK, Txn
<1>2. /\ l \in State /\ l.touched = {} /\ l.skip = lk \cup {t \in Table : cat[t] = Absent}
      /\ \A t \in Table : l.rows[t] = IF t \in lk THEN NoRows ELSE snap[t]
      /\ \A t \in Table, k \in Key : k \in l.index[t] <=> l.rows[t][k].live
  BY LoadedRight
<1> HIDE DEF l
<1>3. /\ s \in State
      /\ \A t \in Table :
           /\ t \in s.touched => t \notin l.skip
           /\ t \in l.skip \/ t \notin s.touched => s.rows[t] = l.rows[t]
  BY <1>1, <1>2, ReplayTouched
<1>4. ASSUME Plain, Increasing(wal), NEW t \in Table \ lk, NEW k \in Key, cat[t] # Absent
      PROVE  s.rows[t][k] = Outcome(wal, Len(wal), snap[t][k], t, k)
  <2>1. t \notin l.skip /\ l.rows[t] = snap[t] BY <1>2, <1>4
  <2>2. k \in l.index[t] <=> l.rows[t][k].live BY <1>2
  <2>3. s.rows[t][k] = Outcome(wal, Len(wal), l.rows[t][k], t, k)
    BY <1>1, <1>2, <1>4, <2>1, <2>2, ReplayOutcome DEF Plain
  <2> QED BY <2>1, <2>3
<1> HIDE DEF s
<1>5. s.rows \in [Table -> [Key -> Row]] /\ s.touched \in SUBSET Table BY <1>3 DEF State
<1> QED BY <1>0, <1>2, <1>3, <1>4, <1>5

-----------------------------------------------------------------------------
(* Types *)

(* The empty rows. *)
LEMMA NoRowsType ==
  /\ NoRow \in Row /\ NoRows \in [Key -> Row] /\ NoRows \in Images
  /\ \A k \in Key : NoRows[k] = NoRow /\ ~NoRows[k].live /\ Value(NoRows[k]) = 0
  /\ Value(NoRow) = 0 /\ ~NoRow.live
<1>1. NoRow \in Row /\ ~NoRow.live /\ Value(NoRow) = 0 BY DEF NoRow, Row, Value
<1>2. NoRows \in [Key -> Row] /\ \A k \in Key : NoRows[k] = NoRow BY <1>1 DEF NoRows
<1>3. NoRows \in Images BY <1>2, IsImage
<1> QED BY <1>1, <1>2, <1>3

(* What a client sees of images. *)
LEMMA ValuesType ==
  ASSUME NEW new \in Images
  PROVE  /\ Values(new) \in Shown /\ DOMAIN Values(new) = DOMAIN new
         /\ \A k \in DOMAIN new : Values(new)[k] = Value(new[k])
<1>1. DOMAIN new \in SUBSET Key /\ \A k \in DOMAIN new : new[k] \in Row BY ImagesType
<1>2. \A k \in DOMAIN new : Value(new[k]) \in Nat BY <1>1 DEF Value, Row
<1>3. Values(new) = [k \in DOMAIN new |-> Value(new[k])] BY DEF Values
<1>4. Values(new) \in [DOMAIN new -> Nat] BY <1>2, <1>3
<1> QED BY <1>1, <1>3, <1>4 DEF Shown

(* The last images of a statement; without second images, its images. *)
LEMMA FinalType ==
  ASSUME NEW x \in Op
  PROVE  Final(x) \in Images /\ (DOMAIN x.more = {} => Final(x) = x.new)
<1>1. x.new \in Images /\ x.more \in Images BY DEF Op
<1>2. /\ DOMAIN x.new \in SUBSET Key /\ \A k \in DOMAIN x.new : x.new[k] \in Row
      /\ x.new = [k \in DOMAIN x.new |-> x.new[k]]
  BY <1>1, ImagesType
<1>3. \A k \in DOMAIN x.more : x.more[k] \in Row BY <1>1, ImagesType
<1>4. Final(x) \in [DOMAIN x.new -> Row] BY <1>2, <1>3 DEF Final
<1>5. Final(x) \in Images BY <1>2, <1>4, IsImage
<1>6. ASSUME DOMAIN x.more = {} PROVE Final(x) = x.new
  <2>1. Final(x) = [k \in DOMAIN x.new |-> x.new[k]] BY <1>6 DEF Final
  <2> QED BY <1>2, <2>1
<1> QED BY <1>5, <1>6

(* The effect of a statement names a table and shows values. *)
LEMMA EffectType ==
  ASSUME NEW x \in Op
  PROVE  [t |-> x.t, vals |-> Values(Final(x))] \in [t : Table, vals : Shown]
<1>1. Final(x) \in Images /\ x.t \in Table BY FinalType DEF Op
<1> QED BY <1>1, ValuesType

(* What a row statement hands to Start: its images carry the next version,  *)
(* and memory has what they show.                                           *)
Valid(t, new, mem, direct, saves) ==
  /\ direct => saves
  /\ \A k \in Key : k \notin DOMAIN new => mem[k] = rows[t][k]
  /\ \A k \in DOMAIN new :
       /\ new[k].ver = tv[t] + 1
       /\ Value(mem[k]) = Value(new[k]) /\ mem[k].live = new[k].live
       /\ mem[k].live => mem[k] = new[k]
       /\ direct => new[k].live

Started ==
  \E t \in Table, new, more \in Images, mem \in [Key -> Row], direct, saves \in BOOLEAN :
    /\ Start(t, new, more, mem, direct, saves)
    /\ DOMAIN more = {} => Valid(t, new, mem, direct, saves)

Refused == \E t \in Table, mem \in [Key -> Row] : Bail(t, mem)

(* The image a statement stamps. *)
LEMMA StampType ==
  ASSUME FullTypeOK, NEW t \in Table, Exists(t), NEW live \in BOOLEAN
  PROVE  /\ Stamp(t, live) \in Row /\ Stamp(t, live).live = live /\ Stamp(t, live).ver = tv[t] + 1
         /\ tv[t] \in Nat
<1>1. tv[t] \in Nat /\ stmts \in Nat BY DEF FullTypeOK, Exists, Absent
<1> QED BY <1>1 DEF Stamp, Row

(* The same image for some keys. *)
LEMMA StampsType ==
  ASSUME FullTypeOK, NEW t \in Table, Exists(t), NEW ks \in SUBSET Key, NEW live \in BOOLEAN
  PROVE  /\ Stamps(t, ks, live) \in Images /\ Over(rows[t], Stamps(t, ks, live)) \in [Key -> Row]
         /\ <<>> \in Images /\ DOMAIN <<>> = {}
<1>1. Stamp(t, live) \in Row BY StampType
<1>2. rows[t] \in [Key -> Row] BY DEF FullTypeOK
<1>3. Stamps(t, ks, live) \in [ks -> Row] BY <1>1 DEF Stamps
<1>4. Over(rows[t], Stamps(t, ks, live)) \in [Key -> Row] BY <1>2, <1>3 DEF Over
<1>5. {} \in SUBSET Key /\ <<>> \in [{} -> Row] /\ DOMAIN <<>> = {} OBVIOUS
<1> QED BY <1>3, <1>4, <1>5, IsImage

(* A statement that writes the same image to all its keys. *)
LEMMA WriteStarts ==
  ASSUME FullTypeOK, NEW t \in Table, NEW ks \in SUBSET Key, NEW live \in BOOLEAN,
         NEW direct \in BOOLEAN, NEW saves \in BOOLEAN, direct => saves /\ live,
         Write(t, ks, live, direct, saves)
  PROVE  Started
<1> DEFINE new == Stamps(t, ks, live)
           mem == Over(rows[t], new)
<1>1. Start(t, new, <<>>, mem, direct, saves) BY DEF Write
<1>2. Exists(t) BY <1>1 DEF Start
<1>3. Stamp(t, live) \in Row /\ Stamp(t, live).live = live /\ Stamp(t, live).ver = tv[t] + 1
  BY <1>2, StampType
<1>4. new \in Images /\ mem \in [Key -> Row] /\ <<>> \in Images BY <1>2, StampsType
<1>5. Valid(t, new, mem, direct, saves)
  <2>1. \A k \in ks : new[k] = Stamp(t, live) /\ mem[k] = Stamp(t, live) /\ k \in Key
    BY DEF Over, Stamps
  <2>2. \A k \in Key : k \notin ks => mem[k] = rows[t][k] BY DEF Over, Stamps
  <2>3. DOMAIN new = ks BY DEF Stamps
  <2> HIDE DEF new, mem
  <2> QED BY <1>3, <2>1, <2>2, <2>3 DEF Valid
<1> HIDE DEF new, mem
<1> QED BY <1>1, <1>4, <1>5 DEF Started

(* What an update writes. *)
LEMMA MovedType ==
  ASSUME FullTypeOK, NEW t \in Table, Exists(t), NEW ks \in SUBSET Key, NEW f \in [ks -> Key]
  PROVE  /\ FirstImages(t, f) \in Images /\ SecondImages(t, f) \in Images
         /\ Moved(t, f) \in [Key -> Row]
<1>1. \A l \in BOOLEAN : Stamp(t, l) \in Row BY StampType
<1>2. rows[t] \in [Key -> Row] BY DEF FullTypeOK
<1>3. DOMAIN f = ks /\ GivenUp(f) \in SUBSET Key /\ Taken(f) \in SUBSET Key BY DEF GivenUp, Taken
<1>4. DOMAIN f \cup Taken(f) \in SUBSET Key /\ GivenUp(f) \cap Taken(f) \in SUBSET Key BY <1>3
<1>5. \A k : (k \notin GivenUp(f)) \in BOOLEAN OBVIOUS
<1>6. FirstImages(t, f) \in [DOMAIN f \cup Taken(f) -> Row] BY <1>1, <1>5 DEF FirstImages
<1>7. SecondImages(t, f) \in [GivenUp(f) \cap Taken(f) -> Row] BY <1>1 DEF SecondImages
<1>8. Moved(t, f) \in [Key -> Row] BY <1>1, <1>2, NoRowsType DEF Moved
<1> QED BY <1>4, <1>6, <1>7, <1>8, IsImage

(* An update, which may move rows to other keys. *)
LEMMA UpdateStarts ==
  ASSUME FullTypeOK, NEW t \in Table, NEW ks \in SUBSET Key, NEW f \in [ks -> Key],
         Start(t, FirstImages(t, f), SecondImages(t, f), Moved(t, f), FALSE, TRUE)
  PROVE  Started
<1> DEFINE new == FirstImages(t, f)
           more == SecondImages(t, f)
           mem == Moved(t, f)
<1>1. Exists(t) BY DEF Start
<1>2. new \in Images /\ more \in Images /\ mem \in [Key -> Row] BY <1>1, MovedType
<1>3. \A l \in BOOLEAN : /\ Stamp(t, l) \in Row /\ Stamp(t, l).live = l
                         /\ Stamp(t, l).ver = tv[t] + 1
  BY <1>1, StampType
<1>4. ASSUME DOMAIN more = {} PROVE Valid(t, new, mem, FALSE, TRUE)
  <2>1. DOMAIN new = ks \cup Taken(f) /\ DOMAIN new \in SUBSET Key
    <3>1. DOMAIN new = DOMAIN f \cup Taken(f) BY DEF FirstImages
    <3> QED BY <3>1 DEF Taken
  <2>2. GivenUp(f) \cap Taken(f) = {} BY <1>4 DEF SecondImages
  <2>3. ASSUME NEW k \in Key, k \notin DOMAIN new PROVE mem[k] = rows[t][k]
    <3>1. k \notin Taken(f) /\ k \notin GivenUp(f) BY <2>1, <2>3 DEF GivenUp
    <3> QED BY <3>1 DEF Moved
  <2>4. ASSUME NEW k \in DOMAIN new
        PROVE  /\ new[k].ver = tv[t] + 1
               /\ Value(mem[k]) = Value(new[k]) /\ mem[k].live = new[k].live
               /\ mem[k].live => mem[k] = new[k]
    <3>1. CASE k \in Taken(f)
      <4>1. k \in Key /\ (k \notin GivenUp(f)) = TRUE BY <2>1, <2>2, <3>1
      <4>2. new[k] = Stamp(t, TRUE) BY <4>1 DEF FirstImages
      <4>3. mem[k] = Stamp(t, TRUE) BY <3>1, <4>1 DEF Moved
      <4> QED BY <1>3, <4>2, <4>3
    <3>2. CASE k \notin Taken(f)
      <4>1. k \in ks BY <2>1, <3>2
      <4>2. k \in GivenUp(f) BY <3>2, <4>1 DEF Taken, GivenUp
      <4>3. k \in Key /\ (k \notin GivenUp(f)) = FALSE BY <2>1, <4>2
      <4>4. new[k] = Stamp(t, FALSE) BY <4>3 DEF FirstImages
      <4>5. mem[k] = NoRow BY <3>2, <4>2, <4>3 DEF Moved
      <4>6. Value(Stamp(t, FALSE)) = 0 BY <1>3 DEF Value
      <4>7. Value(mem[k]) = 0 /\ mem[k].live = FALSE BY <4>5 DEF NoRow, Value
      <4> QED BY <1>3, <4>4, <4>6, <4>7
    <3> QED BY <3>1, <3>2
  <2> HIDE DEF new, mem
  <2> QED BY <2>3, <2>4 DEF Valid
<1> HIDE DEF new, more, mem
<1>5. Start(t, new, more, mem, FALSE, TRUE) BY DEF new, more, mem
<1> QED BY <1>2, <1>4, <1>5 DEF Started

(* Every row statement starts or is refused. *)
LEMMA StatementStarts ==
  ASSUME FullTypeOK, Statement
  PROVE  Started \/ Refused
<1>1. PICK t \in Table :
        \/ \E ks \in (SUBSET Key) \ {{}} :
             Insert(t, ks) \/ Delete(t, ks) \/ \E f \in [ks -> Key] : Update(t, f)
        \/ \E k \in Key : Merge(t, k)
  BY DEF Statement
<1>2. ASSUME NEW ks \in SUBSET Key, NEW live \in BOOLEAN, Bail(t, Over(rows[t], Stamps(t, ks, live)))
      PROVE  Refused
  <2>1. Exists(t) BY <1>2 DEF Bail
  <2> QED BY <1>2, <2>1, StampsType DEF Refused
<1>3. ASSUME NEW ks \in SUBSET Key, Insert(t, ks) PROVE Started \/ Refused
  <2>1. (t \in AutoInc) \in BOOLEAN OBVIOUS
  <2>2. CASE Write(t, ks, TRUE, FALSE, t \in AutoInc) BY <2>1, <2>2, WriteStarts
  <2> QED BY <1>2, <1>3, <2>2 DEF Insert
<1>4. ASSUME NEW ks \in SUBSET Key, Delete(t, ks) PROVE Started \/ Refused
  <2>1. CASE Write(t, ks, FALSE, FALSE, TRUE) BY <2>1, WriteStarts
  <2> QED BY <1>2, <1>4, <2>1 DEF Delete
<1>5. ASSUME NEW ks \in SUBSET Key, NEW f \in [ks -> Key], Update(t, f) PROVE Started \/ Refused
  <2>1. CASE Start(t, FirstImages(t, f), SecondImages(t, f), Moved(t, f), FALSE, TRUE)
    BY <2>1, UpdateStarts
  <2>2. CASE Bail(t, Moved(t, f))
    <3>1. Exists(t) BY <2>2 DEF Bail
    <3>2. Moved(t, f) \in [Key -> Row] BY <3>1, MovedType
    <3> QED BY <2>2, <3>2 DEF Refused
  <2> QED BY <1>5, <2>1, <2>2 DEF Update
<1>6. ASSUME NEW k \in Key, Merge(t, k) PROVE Started
  <2>1. {k} \in SUBSET Key OBVIOUS
  <2> QED BY <1>6, <2>1, WriteStarts DEF Merge
<1> QED BY <1>1, <1>3, <1>4, <1>5, <1>6

(* The part of the state that a step acknowledges with. *)
LEMMA AcknowledgeType ==
  ASSUME FullTypeOK, NEW forced \in BOOLEAN, Acknowledge(forced)
  PROVE  /\ acked' \in Seq([t : Table, vals : Shown]) /\ sure' \in 0..Len(acked')
         /\ odd' = odd
<1>1. Effect \in [t : Table, vals : Shown] BY EffectType DEF FullTypeOK, Effect
<1>2. acked \in Seq([t : Table, vals : Shown]) /\ sure \in 0..Len(acked) BY DEF FullTypeOK
<1>3. acked' = Append(acked, Effect) BY DEF Acknowledge
<1>4. acked' \in Seq([t : Table, vals : Shown]) /\ Len(acked') = Len(acked) + 1
  BY <1>1, <1>2, <1>3
<1> QED BY <1>2, <1>4 DEF Acknowledge

(* Every step keeps the types. *)
LEMMA TypeStep ==
  ASSUME FullTypeOK, Next
  PROVE  FullTypeOK'
<1> USE DEF Stage
<1>0. /\ Effect \in [t : Table, vals : Shown] /\ NoRows \in [Key -> Row] /\ NoRows \in Images
      /\ Absent \notin Nat
  BY EffectType, NoRowsType DEF FullTypeOK, Effect, Absent
<1>1. CASE Statement
  <2>1. CASE Started
    <3>1. PICK t \in Table, new \in Images, more \in Images, mem \in [Key -> Row],
               direct \in BOOLEAN, saves \in BOOLEAN : Start(t, new, more, mem, direct, saves)
      BY <2>1 DEF Started
    <3>2. tv[t] + 1 \in Nat BY <3>1 DEF Start, Exists, FullTypeOK, Absent
    <3>3. tv' \in [Table -> Nat \cup {Absent}] BY <3>1, <3>2 DEF Start, FullTypeOK
    <3>4. rows' \in [Table -> [Key -> Row]] BY <3>1 DEF Start, FullTypeOK
    <3>5. op' \in Op BY <3>1 DEF Start, Op
    <3>6. odd' \subseteq Ways BY <3>1 DEF Start, FullTypeOK, Ways
    <3>7. stage = "idle" /\ stage' \in Stage /\ stmts' \in Nat BY <3>1 DEF Start, FullTypeOK
    <3> QED BY <3>1, <3>3, <3>4, <3>5, <3>6, <3>7 DEF Start, FullTypeOK, disk
  <2>2. CASE Refused
    <3>1. PICK t \in Table, mem \in [Key -> Row] : Bail(t, mem) BY <2>2 DEF Refused
    <3>2. rows' \in [Table -> [Key -> Row]] BY <3>1 DEF Bail, FullTypeOK
    <3>3. odd' \subseteq Ways BY <3>1 DEF Bail, FullTypeOK, Ways
    <3> QED BY <3>1, <3>2, <3>3 DEF Bail, FullTypeOK, disk
  <2> QED BY <1>1, <2>1, <2>2, StatementStarts
<1>2. CASE PersistCatalog BY <1>2 DEF PersistCatalog, FullTypeOK, memory, history, bounds
<1>3. CASE LogRow
  <2>1. wal' \in Seq(Txn) /\ Len(wal') = Len(wal) + 1
    BY <1>3 DEF LogRow, FullTypeOK, Op, Txn
  <2>2. synced \in 0..Len(wal') /\ snapAt \in 0..Len(wal') BY <2>1 DEF FullTypeOK
  <2> QED BY <1>3, <2>1, <2>2 DEF LogRow, FullTypeOK, memory, history, bounds
<1>4. CASE Sync BY <1>4 DEF Sync, FullTypeOK, memory, history, bounds
<1>5. CASE Defer
  <2>1. since + 1 \in 0..Threshold /\ (since + 1 >= Threshold <=> since + 1 = Threshold)
    BY <1>5, EngineWalAssumption DEF Defer, FullTypeOK
  <2>2. CASE op.t \in locked BY <1>5, <2>2 DEF Defer, FullTypeOK, disk, history, bounds
  <2>3. CASE op.t \notin locked /\ since + 1 >= Threshold
    <3>1. dirty' \in SUBSET Table /\ since' = since + 1 /\ stage' = "flush"
      BY <1>5, <2>3 DEF Defer, FullTypeOK, Op
    <3>2. UNCHANGED <<disk, tv, rows, locked, op, bounds, history>> BY <1>5, <2>3 DEF Defer
    <3> QED BY <2>1, <3>1, <3>2 DEF FullTypeOK, disk, history, bounds
  <2>4. CASE op.t \notin locked /\ ~(since + 1 >= Threshold)
    <3>1. dirty' \in SUBSET Table /\ since' = since + 1 /\ stage' = "idle"
      BY <1>5, <2>4 DEF Defer, FullTypeOK, Op
    <3>2. UNCHANGED <<disk, tv, rows, locked, op, bounds>> BY <1>5, <2>4 DEF Defer
    <3>3. Acknowledge(synced = Len(wal)) /\ (synced = Len(wal)) \in BOOLEAN
      BY <1>5, <2>4 DEF Defer
    <3>4. acked' \in Seq([t : Table, vals : Shown]) /\ sure' \in 0..Len(acked') /\ odd' = odd
      BY <3>3, AcknowledgeType
    <3> QED BY <2>1, <2>4, <3>1, <3>2, <3>4 DEF FullTypeOK, disk, bounds
  <2> QED BY <2>2, <2>3, <2>4
<1>6. CASE PersistDirect
  <2>1. CASE op.t \in locked BY <1>6, <2>1 DEF PersistDirect, FullTypeOK, memory, history, bounds
  <2>2. CASE op.t \notin locked
    <3>1. Acknowledge(synced = Len(wal)) /\ (synced = Len(wal)) \in BOOLEAN
      BY <1>6, <2>2 DEF PersistDirect
    <3>2. acked' \in Seq([t : Table, vals : Shown]) /\ sure' \in 0..Len(acked') /\ odd' = odd
      BY <3>1, AcknowledgeType
    <3>3. snap' \in [Table -> [Key -> Row]] /\ snapAt' \in 0..Len(wal)
      <4>1. op.t \in Table /\ rows[op.t] \in [Key -> Row] /\ Len(wal) \in Nat
        BY DEF FullTypeOK, Op
      <4>2. snap' = [snap EXCEPT ![op.t] = rows[op.t]] /\ snapAt' = Len(wal)
        BY <1>6, <2>2 DEF PersistDirect, WriteFile
      <4>3. snap \in [Table -> [Key -> Row]] BY DEF FullTypeOK
      <4> QED BY <4>1, <4>2, <4>3
    <3> QED BY <1>6, <3>2, <3>3 DEF PersistDirect, FullTypeOK, memory, bounds
  <2> QED BY <2>1, <2>2
<1>7. CASE FlushEnd
  <2>1. acked' \in Seq([t : Table, vals : Shown]) /\ sure' \in 0..Len(acked') /\ odd' = odd
    BY <1>7, AcknowledgeType DEF FlushEnd
  <2>2. wal' = <<>> /\ synced' = 0 /\ snapAt' = 0 BY <1>7 DEF FlushEnd, Truncate
  <2> QED BY <1>7, <2>1, <2>2, EngineWalAssumption DEF FlushEnd, FullTypeOK, bounds
<1>8. CASE Unlist
  <2>1. Acknowledge(synced = Len(wal)) /\ (synced = Len(wal)) \in BOOLEAN BY <1>8 DEF Unlist
  <2>2. acked' \in Seq([t : Table, vals : Shown]) /\ sure' \in 0..Len(acked') /\ odd' = odd
    BY <2>1, AcknowledgeType
  <2> QED BY <1>8, <2>2 DEF Unlist, FullTypeOK, memory, bounds
<1>9. CASE ShutdownEnd
  BY <1>0, <1>9, EngineWalAssumption DEF ShutdownEnd, Truncate, FullTypeOK, history, bounds
<1>10. CASE RecoverEnd
  <2>1. wal' = <<>> /\ synced' = 0 /\ snapAt' = 0 BY <1>10 DEF RecoverEnd, Truncate
  <2>2. acked' \in Seq([t : Table, vals : Shown]) /\ sure' \in 0..Len(acked')
    <3>1. CASE Agreeing = {} BY <1>10, <3>1 DEF RecoverEnd, FullTypeOK
    <3>2. CASE Agreeing # {}
      <4> DEFINE n == Max(Agreeing)
      <4>1. Agreeing \in SUBSET (0..Len(acked)) /\ Len(acked) \in Nat BY DEF Agreeing, FullTypeOK
      <4>2. n \in 0..Len(acked) BY <3>2, <4>1, MaxRight
      <4>3. acked' = SubSeq(acked, 1, n) /\ sure' = n BY <1>10, <3>2 DEF RecoverEnd
      <4> HIDE DEF n
      <4>4. acked \in Seq([t : Table, vals : Shown]) BY DEF FullTypeOK
      <4>5. SubSeq(acked, 1, n) \in Seq([t : Table, vals : Shown]) /\ Len(SubSeq(acked, 1, n)) = n
        BY <4>2, <4>4, FirstElements
      <4> QED BY <4>2, <4>3, <4>5
    <3> QED BY <3>1, <3>2
  <2> QED BY <1>10, <2>1, <2>2 DEF RecoverEnd, FullTypeOK, memory, bounds
<1>11. ASSUME NEW t \in Table, FlushTable(t) PROVE FullTypeOK'
  <2>1. rows[t] \in [Key -> Row] /\ Len(wal) \in Nat BY DEF FullTypeOK
  <2>2. snap' \in [Table -> [Key -> Row]] /\ snapAt' \in 0..Len(wal)
    <3>1. CASE Exists(t)
      <4>1. snap' = [snap EXCEPT ![t] = rows[t]] /\ snapAt' = Len(wal)
        BY <1>11, <3>1 DEF FlushTable, WriteFile
      <4>2. snap \in [Table -> [Key -> Row]] BY DEF FullTypeOK
      <4> QED BY <2>1, <4>1, <4>2
    <3>2. CASE ~Exists(t) BY <1>11, <3>2 DEF FlushTable, FullTypeOK
    <3> QED BY <3>1, <3>2
  <2> QED BY <1>11, <2>2 DEF FlushTable, FullTypeOK, history, bounds
<1>12. ASSUME NEW t \in Table, DropTable(t) PROVE FullTypeOK'
  <2>1. op' \in Op
    <3>1. {} \in SUBSET Key /\ <<>> \in [{} -> Row] OBVIOUS
    <3>2. <<>> \in Images BY <3>1, IsImage
    <3> QED BY <1>0, <1>12, <3>2 DEF DropTable, Op
  <2>2. /\ tv' \in [Table -> Nat \cup {Absent}] /\ rows' \in [Table -> [Key -> Row]]
        /\ snap' \in [Table -> [Key -> Row]] /\ snapAt' \in 0..Len(wal)
    BY <1>0, <1>12 DEF DropTable, WriteFile, FullTypeOK
  <2> QED BY <1>12, <2>1, <2>2 DEF DropTable, FullTypeOK, history
<1>13. ASSUME NEW t \in Table, CreateTable(t) PROVE FullTypeOK'
  <2>1. odd' \subseteq Ways BY <1>13 DEF CreateTable, FullTypeOK, Ways
  <2> QED BY <1>13, <2>1 DEF CreateTable, FullTypeOK, bounds
<1>14. ASSUME NEW t \in Table, HistoryGc(t) PROVE FullTypeOK'
  <2>1. rows' \in [Table -> [Key -> Row]] BY <1>14, NoRowsType DEF HistoryGc, FullTypeOK
  <2>2. tv' \in [Table -> Nat \cup {Absent}] BY <1>14 DEF HistoryGc, Exists, Absent, FullTypeOK
  <2>3. snap' \in [Table -> [Key -> Row]] /\ snapAt' \in 0..Len(wal)
    BY <1>14, <2>1 DEF HistoryGc, WriteFile, FullTypeOK
  <2> QED BY <1>14, <2>1, <2>2, <2>3 DEF HistoryGc, FullTypeOK, history, bounds
<1>15. ASSUME NEW t \in Table, RewriteTable(t) PROVE FullTypeOK'
  BY <1>15 DEF RewriteTable, WriteFile, FullTypeOK, memory, history, bounds
<1>16. CASE RegisterKey BY <1>16 DEF RegisterKey, FullTypeOK, disk, history, bounds
<1>17. CASE Shutdown BY <1>17 DEF Shutdown, FullTypeOK, history, bounds
<1>18. CASE Crash
  <2>1. PICK n \in synced..Len(wal) :
          /\ wal' = SubSeq(wal, 1, n) /\ synced' = n /\ snapAt' = 0
          /\ odd' = odd \cup (IF stage = "unlist" THEN {"dropped"} ELSE {})
                        \cup (IF n < snapAt THEN {"ahead"} ELSE {})
    BY <1>18 DEF Crash
  <2>2. n \in 0..Len(wal) BY DEF FullTypeOK
  <2>3. wal' \in Seq(Txn) /\ Len(wal') = n
    BY <2>1, <2>2, FirstElements DEF FullTypeOK
  <2>4. acked' \in Seq([t : Table, vals : Shown]) /\ sure \in 0..Len(acked')
    <3>1. acked' = acked \/ acked' = Append(acked, Effect) BY <1>18 DEF Crash
    <3>2. acked \in Seq([t : Table, vals : Shown]) /\ sure \in 0..Len(acked) BY DEF FullTypeOK
    <3>3. CASE acked' = acked BY <3>2, <3>3
    <3>4. CASE acked' = Append(acked, Effect)
      <4>1. acked' \in Seq([t : Table, vals : Shown]) /\ Len(acked') = Len(acked) + 1
        BY <1>0, <3>2, <3>4
      <4> QED BY <3>2, <4>1
    <3> QED BY <3>1, <3>3, <3>4
  <2>5. synced' \in 0..Len(wal') /\ snapAt' \in 0..Len(wal') BY <2>1, <2>2, <2>3
  <2>6. odd' \subseteq Ways BY <2>1 DEF FullTypeOK, Ways
  <2> QED BY <1>0, <1>18, <2>3, <2>4, <2>5, <2>6, EngineWalAssumption DEF Crash, FullTypeOK
<1>19. ASSUME NEW keyless \in BOOLEAN, Open(keyless) PROVE FullTypeOK'
  <2> DEFINE lk == IF keyless THEN {t \in Encrypted : snap[t] # NoRows} ELSE {}
             rep == Replayed(lk)
  <2>1. lk \in SUBSET Encrypted /\ lk \in SUBSET Table BY EngineWalAssumption
  <2>2. /\ locked' = lk /\ rows' = rep.rows /\ dirty' = rep.touched /\ stage' = "recover"
        /\ tv' = [t \in Table |-> cat[t] + (IF t \in rep.touched THEN 1 ELSE 0)]
        /\ odd' = odd \cup (IF \E t \in lk : Logged(t) THEN {"locked"} ELSE {})
        /\ UNCHANGED <<disk, since, op, acked, sure, bounds>> /\ stage = "down"
    BY <1>19 DEF Open
  <2> HIDE DEF lk
  <2>3. /\ rep.rows \in [Table -> [Key -> Row]] /\ rep.touched \in SUBSET Table
        /\ \A t \in Table : t \in rep.touched => cat[t] # Absent
    BY <2>1, ReplayRight
  <2> HIDE DEF rep
  <2>4. tv' \in [Table -> Nat \cup {Absent}] BY <2>2, <2>3 DEF FullTypeOK, Absent
  <2>5. odd' \subseteq Ways BY <2>2 DEF FullTypeOK, Ways
  <2> QED BY <2>1, <2>2, <2>3, <2>4, <2>5 DEF FullTypeOK, disk, bounds
<1> QED
  BY <1>1, <1>2, <1>3, <1>4, <1>5, <1>6, <1>7, <1>8, <1>9, <1>10, <1>11, <1>12, <1>13, <1>14,
     <1>15, <1>16, <1>17, <1>18, <1>19 DEF Next, DiskStep, TableStep

(* Every step keeps the catalog right about the tables that exist. *)
LEMMA TablesStep ==
  ASSUME FullTypeOK, TablesRight, Next
  PROVE  TablesRight'
<1> USE DEF Exists
<1>0. /\ Absent \notin Nat /\ op.t \in Table /\ cat \in [Table -> Nat \cup {Absent}]
      /\ tv \in [Table -> Nat \cup {Absent}]
      /\ snap \in [Table -> [Key -> Row]] /\ rows \in [Table -> [Key -> Row]]
  BY DEF FullTypeOK, Absent, Op
<1>1. CASE Statement
  <2>1. CASE Started
    <3>1. PICK t \in Table, new \in Images, more \in Images, mem \in [Key -> Row],
               direct \in BOOLEAN, saves \in BOOLEAN : Start(t, new, more, mem, direct, saves)
      BY <2>1 DEF Started
    <3>2. tv[t] + 1 # Absent /\ tv[t] # Absent BY <1>0, <3>1 DEF Start, Absent
    <3>3. /\ stage = "idle" /\ op'.t = t /\ (stage' = "catalog" \/ stage' = "log")
          /\ cat' = cat /\ snap' = snap
          /\ \A u \in Table : u # t => tv'[u] = tv[u] /\ rows'[u] = rows[u]
          /\ tv'[t] = tv[t] + 1
      BY <1>0, <3>1 DEF Start, disk
    <3> QED BY <3>2, <3>3 DEF TablesRight
  <2>2. CASE Refused
    <3>1. PICK t \in Table, mem \in [Key -> Row] : Bail(t, mem) BY <2>2 DEF Refused
    <3>2. /\ stage = "idle" /\ stage' = stage /\ op' = op /\ tv[t] # Absent
          /\ cat' = cat /\ snap' = snap /\ tv' = tv
          /\ \A u \in Table : u # t => rows'[u] = rows[u]
      BY <1>0, <3>1 DEF Bail, disk
    <3> QED BY <3>2 DEF TablesRight
  <2> QED BY <1>1, <2>1, <2>2, StatementStarts
<1>2. CASE PersistCatalog BY <1>0, <1>2 DEF PersistCatalog, TablesRight, memory
<1>3. CASE LogRow BY <1>0, <1>3 DEF LogRow, TablesRight, memory
<1>4. CASE Sync BY <1>0, <1>4 DEF Sync, TablesRight, memory
<1>5. CASE Defer
  <2>1. stage = "defer" /\ stage' \in {"idle", "flush"} /\ UNCHANGED <<disk, tv, rows, op>>
    BY <1>5 DEF Defer
  <2> QED BY <1>0, <2>1 DEF TablesRight, disk
<1>6. CASE PersistDirect
  <2>1. /\ stage = "direct" /\ stage' = "idle" /\ cat' = cat /\ UNCHANGED memory
        /\ \A t \in Table : t # op.t => snap'[t] = snap[t]
    BY <1>0, <1>6 DEF PersistDirect, WriteFile
  <2> QED BY <1>0, <2>1 DEF TablesRight, memory
<1>7. CASE FlushEnd BY <1>0, <1>7 DEF FlushEnd, TablesRight
<1>8. CASE Unlist BY <1>0, <1>8 DEF Unlist, TablesRight, memory
<1>9. CASE ShutdownEnd BY <1>0, <1>9 DEF ShutdownEnd, TablesRight
<1>10. CASE RecoverEnd BY <1>0, <1>10 DEF RecoverEnd, TablesRight, memory
<1>11. ASSUME NEW t \in Table, FlushTable(t) PROVE TablesRight'
  <2>1. /\ stage \in {"flush", "recover", "shutdown"} /\ stage' = stage /\ cat' = cat
        /\ tv' = tv /\ rows' = rows /\ op' = op
        /\ \A u \in Table : tv[u] = Absent => snap'[u] = snap[u]
    BY <1>0, <1>11 DEF FlushTable, WriteFile
  <2> QED BY <1>0, <2>1 DEF TablesRight
<1>12. ASSUME NEW t \in Table, DropTable(t) PROVE TablesRight'
  <2>1. /\ stage = "idle" /\ stage' = "unlist" /\ op'.t = t /\ op'.new = NoRows
        /\ cat' = cat /\ tv'[t] = Absent /\ rows'[t] = NoRows /\ snap'[t] = NoRows
        /\ snapAt' = Len(wal') /\ t \in Table
        /\ \A u \in Table : u # t => tv'[u] = tv[u] /\ rows'[u] = rows[u] /\ snap'[u] = snap[u]
    BY <1>0, <1>12 DEF DropTable, WriteFile
  <2> QED BY <2>1 DEF TablesRight
<1>13. ASSUME NEW t \in Table, CreateTable(t) PROVE TablesRight'
  <2>1. /\ stage = "idle" /\ stage' = stage /\ cat' = tv' /\ snap' = snap /\ rows' = rows
        /\ tv'[t] # Absent /\ \A u \in Table : u # t => tv'[u] = tv[u]
    BY <1>0, <1>13 DEF CreateTable
  <2> QED BY <2>1 DEF TablesRight
<1>14. ASSUME NEW t \in Table, HistoryGc(t) PROVE TablesRight'
  <2>1. tv[t] # Absent /\ tv[t] + 1 # Absent BY <1>0, <1>14 DEF HistoryGc, Absent
  <2>2. /\ stage = "idle" /\ stage' = stage /\ cat' = cat
        /\ tv'[t] = tv[t] + 1
        /\ \A u \in Table : u # t => tv'[u] = tv[u] /\ rows'[u] = rows[u] /\ snap'[u] = snap[u]
    BY <1>0, <1>14 DEF HistoryGc, WriteFile
  <2> QED BY <2>1, <2>2 DEF TablesRight
<1>15. ASSUME NEW t \in Table, RewriteTable(t) PROVE TablesRight'
  <2>1. /\ stage = "idle" /\ stage' = stage /\ cat' = cat /\ UNCHANGED memory
        /\ tv[t] # Absent /\ \A u \in Table : u # t => snap'[u] = snap[u]
    BY <1>0, <1>15 DEF RewriteTable, WriteFile
  <2> QED BY <2>1 DEF TablesRight, memory
<1>16. CASE RegisterKey
  <2>1. /\ stage = "idle" /\ stage' = stage /\ cat' = cat /\ tv' = tv /\ snap' = snap
        /\ \A t \in Table : rows'[t] = IF t \in locked THEN snap[t] ELSE rows[t]
    BY <1>16 DEF RegisterKey, disk
  <2> QED BY <2>1 DEF TablesRight
<1>17. CASE Shutdown BY <1>0, <1>17 DEF Shutdown, TablesRight
<1>18. CASE Crash
  <2>1. stage # "down" /\ stage' = "down" /\ tv' = cat /\ cat' = cat /\ snap' = snap
    BY <1>18 DEF Crash
  <2> QED BY <1>0, <2>1 DEF TablesRight
<1>19. ASSUME NEW keyless \in BOOLEAN, Open(keyless) PROVE TablesRight'
  <2> DEFINE lk == IF keyless THEN {t \in Encrypted : snap[t] # NoRows} ELSE {}
             rep == Replayed(lk)
  <2>1. lk \in SUBSET Table BY EngineWalAssumption
  <2>2. /\ rows' = rep.rows /\ stage = "down" /\ stage' = "recover" /\ cat' = cat /\ snap' = snap
        /\ tv' = [t \in Table |-> cat[t] + (IF t \in rep.touched THEN 1 ELSE 0)]
    BY <1>19 DEF Open, disk
  <2> HIDE DEF lk
  <2>3. \A t \in Table :
          /\ t \in rep.touched => cat[t] # Absent
          /\ t \in lk => rep.rows[t] = NoRows
          /\ t \notin lk /\ cat[t] = Absent => rep.rows[t] = snap[t]
    BY <2>1, ReplayRight
  <2> HIDE DEF rep
  <2>4. \A t \in Table : tv'[t] = Absent <=> cat[t] = Absent
    BY <1>0, <2>2, <2>3 DEF Absent
  <2> QED BY <2>2, <2>3, <2>4 DEF TablesRight
<1> QED
  BY <1>1, <1>2, <1>3, <1>4, <1>5, <1>6, <1>7, <1>8, <1>9, <1>10, <1>11, <1>12, <1>13, <1>14,
     <1>15, <1>16, <1>17, <1>18, <1>19 DEF Next, DiskStep, TableStep

-----------------------------------------------------------------------------
(* Steps of a sound state *)

(* The counters. *)
LEMMA Counters ==
  ASSUME FullTypeOK
  PROVE  /\ Len(wal) \in Nat /\ Len(acked) \in Nat
         /\ synced \in Nat /\ synced <= Len(wal) /\ snapAt \in Nat /\ snapAt <= Len(wal)
         /\ sure \in Nat /\ sure <= Len(acked)
<1>1. wal \in Seq(Txn) /\ acked \in Seq(Effects) BY DEF FullTypeOK, Txn, Effects
<1>2. Len(wal) \in Nat /\ Len(acked) \in Nat BY <1>1
<1>3. synced \in 0..Len(wal) /\ snapAt \in 0..Len(wal) /\ sure \in 0..Len(acked) BY DEF FullTypeOK
<1> QED BY <1>2, <1>3

(* The log's transactions. *)
LEMMA WalType ==
  ASSUME FullTypeOK, NEW i \in 1..Len(wal)
  PROVE  /\ wal[i].t \in Table /\ DOMAIN wal[i].new \in SUBSET Key
         /\ \A k \in DOMAIN wal[i].new : wal[i].new[k].ver \in Nat
<1>0. wal \in Seq(Txn) BY DEF FullTypeOK, Txn
<1>1. wal[i] \in Txn BY <1>0
<1>2. wal[i].t \in Table /\ wal[i].new \in Images BY <1>1 DEF Txn
<1> QED BY <1>2, ImagesType DEF Row

(* The rows in files and in memory. *)
LEMMA RowType ==
  ASSUME FullTypeOK, NEW t \in Table, NEW k \in Key
  PROVE  /\ snap[t][k] \in Row /\ rows[t][k] \in Row
         /\ snap[t][k].ver \in Nat /\ rows[t][k].ver \in Nat
<1>1. snap[t][k] \in Row /\ rows[t][k] \in Row BY DEF FullTypeOK
<1> QED BY <1>1 DEF Row

(* What a client sees of a row. *)
LEMMA ValuesAt ==
  ASSUME NEW r \in [Key -> Row], NEW k \in Key
  PROVE  Values(r)[k] = Value(r[k])
BY DEF Values

(* What a client finds in a row. *)
LEMMA HeldAt ==
  ASSUME FullTypeOK, NEW t \in Table, NEW k \in Key
  PROVE  Held(t)[k] = IF t \in locked THEN Value(snap[t][k]) ELSE Value(rows[t][k])
BY ValuesAt DEF FullTypeOK, Held

(* The history with the running statement. *)
LEMMA HistoryType ==
  ASSUME FullTypeOK
  PROVE  /\ History \in Seq(Effects) /\ Effect \in Effects
         /\ Len(acked) \in Nat /\ Len(wal) \in Nat /\ wal \in Seq(Txn) /\ acked \in Seq(Effects)
         /\ stage \in Running => /\ History = Append(acked, Effect)
                                 /\ Len(History) = Len(acked) + 1
         /\ stage \notin Running => History = acked
<1>1. Effect \in Effects BY EffectType DEF FullTypeOK, Effect, Effects
<1>2. acked \in Seq(Effects) /\ wal \in Seq(Txn) BY DEF FullTypeOK, Effects, Txn
<1> QED BY <1>1, <1>2 DEF History

(* One more effect, that of a statement x. *)
Extends(g, h, x) == g = Append(h, [t |-> x.t, vals |-> Values(Final(x))])

(* It sets the values of the statement's keys, after those of h. *)
LEMMA EffectUpto ==
  ASSUME NEW h \in Seq(Effects), NEW x \in Op, DOMAIN x.more = {},
         NEW g, Extends(g, h, x)
  PROVE  /\ g \in Seq(Effects) /\ Len(g) = Len(h) + 1
         /\ \A t \in Table, k \in Key :
              /\ Upto(g, Len(g), t, k) =
                   IF x.t = t /\ k \in DOMAIN x.new THEN Value(x.new[k])
                   ELSE Upto(h, Len(h), t, k)
              /\ \A m \in 0..Len(h) : Upto(g, m, t, k) = Upto(h, m, t, k)
<1> DEFINE e == [t |-> x.t, vals |-> Values(Final(x))]
<1>1. e \in Effects BY EffectType DEF Effects
<1>2. x.new \in Images /\ e.t = x.t /\ e.vals = Values(x.new) BY FinalType DEF Op
<1>3. DOMAIN e.vals = DOMAIN x.new /\ \A k \in DOMAIN x.new : e.vals[k] = Value(x.new[k])
  BY <1>2, ValuesType
<1> HIDE DEF e
<1>4. /\ g \in Seq(Effects) /\ Len(g) = Len(h) + 1 /\ g[Len(g)] = e
      /\ \A i \in 1..Len(h) : g[i] = h[i]
  <2>1. g = Append(h, e) BY DEF e, Extends
  <2> QED BY <1>1, <2>1
<1>5. ASSUME NEW t \in Table, NEW k \in Key
      PROVE  /\ Upto(g, Len(g), t, k) =
                  IF x.t = t /\ k \in DOMAIN x.new THEN Value(x.new[k])
                  ELSE Upto(h, Len(h), t, k)
             /\ \A m \in 0..Len(h) : Upto(g, m, t, k) = Upto(h, m, t, k)
  <2>1. /\ Upto(g, Len(g), t, k) = IF e.t = t /\ k \in DOMAIN e.vals THEN e.vals[k]
                                   ELSE Upto(h, Len(h), t, k)
        /\ \A m \in 0..Len(h) : Upto(g, m, t, k) = Upto(h, m, t, k)
    BY ONLY h \in Seq(Effects), <1>4, UptoAppend
  <2> QED BY <1>2, <1>3, <2>1
<1> QED BY <1>4, <1>5

(* The values after the history: the running statement's, and before it     *)
(* those of the acknowledged ones.                                          *)
LEMMA HistoryUpto ==
  ASSUME FullTypeOK, Plain, stage \in Running
  PROVE  /\ Len(History) = Len(acked) + 1
         /\ \A t \in Table, k \in Key :
              /\ Upto(History, Len(History), t, k) =
                   IF op.t = t /\ k \in DOMAIN op.new THEN Value(op.new[k])
                   ELSE Upto(acked, Len(acked), t, k)
              /\ \A m \in 0..Len(acked) : Upto(History, m, t, k) = Upto(acked, m, t, k)
<1>1. /\ Extends(History, acked, op)
      /\ acked \in Seq(Effects) /\ op \in Op
  BY HistoryType DEF Extends, Effect, FullTypeOK
<1> QED BY <1>1, EffectUpto DEF Plain

(* The first stages of a statement keep the history: it gets the effect of  *)
(* the statement, which nothing on disk stands for.                         *)
LEMMA StartSound ==
  ASSUME FullTypeOK, FullTypeOK', TablesRight, Sound, odd' = {},
         NEW t \in Table, NEW new \in Images, NEW more \in Images, NEW mem \in [Key -> Row],
         NEW direct \in BOOLEAN, NEW saves \in BOOLEAN,
         Start(t, new, more, mem, direct, saves), DOMAIN more = {},
         Valid(t, new, mem, direct, saves)
  PROVE  Sound'
<1>1. /\ stage = "idle" /\ Exists(t) /\ t \notin locked
      /\ rows' = [rows EXCEPT ![t] = mem] /\ tv' = [tv EXCEPT ![t] = @ + 1]
      /\ op' = [t |-> t, new |-> new, more |-> more, direct |-> direct]
      /\ stage' = IF saves THEN "catalog" ELSE "log"
      /\ \A k \in DOMAIN new : ~(rows[t][k].ver > tv[t])
      /\ UNCHANGED <<disk, locked, dirty, since, acked, sure>>
  BY DEF Start
<1>2. /\ tv \in [Table -> Nat \cup {Absent}] /\ tv[t] \in Nat /\ tv'[t] = tv[t] + 1
      /\ \A u \in Table : u # t => tv'[u] = tv[u] /\ rows'[u] = rows[u]
      /\ rows'[t] = mem /\ \A u \in Table : Exists(u)' <=> Exists(u)
  BY <1>1 DEF FullTypeOK, Exists, Absent
<1>3. /\ snap' = snap /\ wal' = wal /\ cat' = cat /\ synced' = synced /\ snapAt' = snapAt
      /\ op'.t = t /\ op'.new = new /\ op'.more = more /\ op'.direct = direct
      /\ stage' \in {"catalog", "log"}
      /\ locked' = locked /\ dirty' = dirty /\ acked' = acked /\ sure' = sure
      /\ (stage' = "log" => ~direct)
  BY <1>1 DEF disk, Valid
<1>4. DOMAIN new \in SUBSET Key /\ \A k \in DOMAIN new : new[k] \in Row BY ImagesType
<1>5. CleanTables'
  BY <1>1, <1>2, <1>3 DEF Sound, CleanTables
<1>6. \A i \in 1..Len(wal) : /\ wal[i].t \in Table /\ DOMAIN wal[i].new \in SUBSET Key
                             /\ \A k \in DOMAIN wal[i].new : wal[i].new[k].ver \in Nat
  BY WalType
<1>7. LogRight'
  BY <1>1, <1>2, <1>3, <1>6 DEF Sound, LogRight, Up, Exists, Unwritten
<1>8. ASSUME NEW k \in DOMAIN new PROVE snap[t][k].live => snap[t][k].ver <= tv[t]
  <2>1. k \in Key /\ rows[t][k].ver \in Nat /\ snap[t][k].ver \in Nat
    BY <1>4, RowType
  <2>2. rows[t][k].ver <= tv[t] BY <1>1, <1>2, <2>1
  <2> QED BY <1>1, <1>2, <2>1, <2>2 DEF Sound, RowsRight
<1>9. OpRight'
  <2>1. ASSUME NEW k \in DOMAIN new
        PROVE  /\ new[k].ver = tv'[t]
               /\ snap[t][k].live => snap[t][k].ver < tv'[t]
               /\ Value(mem[k]) = Value(new[k]) /\ mem[k].live = new[k].live
               /\ mem[k].live => mem[k] = new[k]
               /\ direct => new[k].live
    <3>1. k \in Key /\ snap[t][k].ver \in Nat BY <1>4, RowType
    <3> QED BY <1>2, <1>8, <3>1 DEF Valid
  <2> QED BY <1>1, <1>2, <1>3, <2>1 DEF OpRight
<1>10. RowsRight'
  <2> SUFFICES ASSUME NEW u \in Table \ locked, Exists(u), NEW k \in Key
               PROVE  /\ snap[u][k].live => snap[u][k].ver <= tv'[u] \/ snap[u][k].ver <= rows'[u][k].ver
                      /\ Records(wal, Len(wal), u, k) # {} =>
                           /\ rows'[u][k].live => rows'[u][k].ver >= LastImage(wal, Len(wal), u, k).ver
                           /\ \/ u = t /\ k \in DOMAIN new /\ ~direct
                              \/ rows'[u][k].live
                              \/ ~LastImage(wal, Len(wal), u, k).live
    BY <1>2, <1>3 DEF RowsRight
  <2>1. /\ snap[u][k].live => snap[u][k].ver <= tv[u] \/ snap[u][k].ver <= rows[u][k].ver
        /\ Records(wal, Len(wal), u, k) # {} =>
             /\ rows[u][k].live => rows[u][k].ver >= LastImage(wal, Len(wal), u, k).ver
             /\ rows[u][k].live \/ ~LastImage(wal, Len(wal), u, k).live
    BY <1>1 DEF Sound, RowsRight
  <2>2. snap[u][k].ver \in Nat /\ tv[u] \in Nat BY RowType DEF FullTypeOK, Exists
  <2>3. CASE u # t BY <1>2, <2>1, <2>3
  <2>4. CASE u = t /\ k \notin DOMAIN new
    <3>1. mem[k] = rows[t][k] BY <2>4 DEF Valid
    <3> QED BY <1>2, <2>1, <2>2, <2>4, <3>1
  <2>5. CASE u = t /\ k \in DOMAIN new
    <3>1. new[k].ver = tv[t] + 1 /\ (mem[k].live => mem[k] = new[k])
          /\ mem[k].live = new[k].live /\ (direct => new[k].live)
      BY <2>5 DEF Valid
    <3>2. snap[u][k].live => snap[u][k].ver <= tv'[u] BY <1>2, <1>8, <2>2, <2>5
    <3>3. ASSUME Records(wal, Len(wal), t, k) # {}
          PROVE  /\ LastImage(wal, Len(wal), t, k).ver <= tv[t]
                 /\ LastImage(wal, Len(wal), t, k).ver \in Nat
      <4> DEFINE i == Max(Records(wal, Len(wal), t, k))
      <4>1. i \in Records(wal, Len(wal), t, k) BY <3>3, HistoryType, LastRecord
      <4>2. i \in 1..Len(wal) /\ wal[i].t = t /\ k \in DOMAIN wal[i].new BY <4>1 DEF Records
      <4>3. LastImage(wal, Len(wal), t, k) = wal[i].new[k] BY DEF LastImage
      <4> HIDE DEF i
      <4> QED BY <1>1, <1>6, <4>2, <4>3 DEF Sound, LogRight, Up
    <3> QED BY <1>2, <2>5, <3>1, <3>2, <3>3
  <2> QED BY <2>3, <2>4, <2>5
<1>11. HistoryRight'
  <2>1. stage' \in Running /\ stage' \in Unwritten /\ Up' /\ Up /\ stage \notin Running
    BY <1>1, <1>3 DEF Running, Unwritten, Up
  <2>2. History = acked /\ acked \in Seq(Effects) /\ Len(acked) \in Nat /\ Len(wal) \in Nat
    BY <2>1, HistoryType
  <2>3. Extends(History', acked, op')
    BY <1>3, <2>1 DEF History, Effect, Extends
  <2>4. /\ Len(History') = Len(acked) + 1
        /\ \A u \in Table, k \in Key :
             /\ Upto(History', Len(History'), u, k) =
                  IF t = u /\ k \in DOMAIN new THEN Value(new[k])
                  ELSE Upto(acked, Len(acked), u, k)
             /\ \A m \in 0..Len(acked) : Upto(History', m, u, k) = Upto(acked, m, u, k)
    <3>1. op' \in Op BY DEF FullTypeOK
    <3> QED BY <1>3, <2>2, <2>3, <3>1, EffectUpto
  <2>5. ASSUME NEW u \in Table, NEW k \in Key
        PROVE  Held(u)'[k] = Upto(History', Len(History'), u, k)
    <3>1. Held(u)[k] = Upto(acked, Len(acked), u, k) BY <2>1, <2>2 DEF Sound, HistoryRight
    <3>2. Held(u)' = Values(IF u \in locked THEN snap[u] ELSE rows'[u]) BY <1>3 DEF Held
    <3>3. CASE u # t
      <4>1. Held(u)' = Held(u) BY <1>2, <3>2, <3>3 DEF Held
      <4> QED BY <2>4, <3>1, <3>3, <4>1
    <3>4. CASE u = t
      <4>1. Held(u)'[k] = Value(mem[k]) BY <1>1, <1>2, <3>2, <3>4, ValuesAt
      <4>2. Held(u)[k] = Value(rows[t][k]) BY <1>1, <3>4, HeldAt
      <4>3. CASE k \in DOMAIN new BY <2>4, <3>4, <4>1, <4>3 DEF Valid
      <4>4. CASE k \notin DOMAIN new
        <5>1. mem[k] = rows[t][k] BY <4>4 DEF Valid
        <5> QED BY <2>4, <3>1, <3>4, <4>1, <4>2, <4>4, <5>1
      <4> QED BY <4>3, <4>4
    <3> QED BY <3>3, <3>4
  <2>6. ASSUME NEW n \in synced..Len(wal), n >= snapAt
        PROVE  /\ Mark(n)' \in sure..Len(History')
               /\ \A u \in Table, k \in Key : OnDisk(n, u, k)' = Upto(History', Mark(n)', u, k)
    <3>1. Mark(n) = Len(acked) - (Len(wal) - n) BY <2>1, <2>2 DEF Mark, Running, Unwritten
    <3>2. Mark(n)' = Len(acked) - (Len(wal) - n) BY <1>3, <2>1, <2>2, <2>4 DEF Mark
    <3>3. Mark(n) \in sure..Len(acked)
          /\ \A u \in Table, k \in Key : OnDisk(n, u, k) = Upto(acked, Mark(n), u, k)
      BY <1>1, <2>1, <2>2, <2>6 DEF Sound, HistoryRight
    <3>4. Mark(n) \in 0..Len(acked) /\ sure \in Nat BY <3>3, Counters
    <3>5. \A u \in Table, k \in Key : OnDisk(n, u, k)' = OnDisk(n, u, k) BY <1>3 DEF OnDisk
    <3> QED BY <2>2, <2>4, <3>1, <3>2, <3>3, <3>4, <3>5
  <2> QED BY <1>3, <2>1, <2>5, <2>6 DEF HistoryRight
<1> QED BY <1>5, <1>7, <1>9, <1>10, <1>11 DEF Sound

(* The catalog lists the same tables as before. *)
LEMMA PersistCatalogSound ==
  ASSUME FullTypeOK, TablesRight, Sound, PersistCatalog
  PROVE  Sound'
<1>1. /\ stage = "catalog" /\ cat' = tv
      /\ stage' = (IF op.direct THEN "direct" ELSE "log")
      /\ snap' = snap /\ wal' = wal /\ synced' = synced /\ snapAt' = snapAt /\ tv' = tv
      /\ rows' = rows /\ locked' = locked /\ dirty' = dirty /\ op' = op
      /\ acked' = acked /\ sure' = sure
  BY DEF PersistCatalog, memory, history
<1>2. CleanTables' BY <1>1 DEF Sound, CleanTables
<1>3. LogRight' BY <1>1 DEF Sound, LogRight, Up, Unwritten, Exists
<1>4. OpRight' BY <1>1 DEF Sound, OpRight, Unwritten
<1>5. RowsRight' BY <1>1 DEF Sound, RowsRight, Exists
<1>6. HistoryRight'
  <2>1. History' = History /\ Up /\ Up'
    BY <1>1 DEF History, Effect, Running, Unwritten, Up
  <2>2. \A n : Mark(n)' = Mark(n) BY <1>1, <2>1 DEF Mark, Unwritten
  <2>3. \A n, t, k : t \in Table => OnDisk(n, t, k)' = OnDisk(n, t, k)
    BY <1>1 DEF OnDisk, TablesRight
  <2>4. \A t : Held(t)' = Held(t) BY <1>1 DEF Held
  <2> QED BY <1>1, <2>1, <2>2, <2>3, <2>4 DEF Sound, HistoryRight
<1> QED BY <1>2, <1>3, <1>4, <1>5, <1>6 DEF Sound

(* The statement's transaction: its versions are above those of the log and *)
(* of the file, so that the replay of the longer log ends with its images.  *)
LEMMA LogRowSound ==
  ASSUME FullTypeOK, FullTypeOK', TablesRight, Plain, Sound, LogRow
  PROVE  Sound'
<1>1. /\ stage = "log" /\ stage' \in {"sync", "defer"}
      /\ cat' = cat /\ snap' = snap /\ synced' = synced /\ snapAt' = snapAt /\ tv' = tv
      /\ rows' = rows /\ locked' = locked /\ dirty' = dirty /\ op' = op
      /\ acked' = acked /\ sure' = sure
      /\ wal' = Append(wal, [t |-> op.t, new |-> op.new, more |-> op.more])
  BY DEF LogRow, memory, history
<1>2. /\ wal \in Seq(Txn) /\ wal' \in Seq(Txn) /\ Len(wal) \in Nat /\ Len(wal') = Len(wal) + 1
      /\ wal'[Len(wal')].t = op.t /\ wal'[Len(wal')].new = op.new
      /\ \A i \in 1..Len(wal) : wal'[i] = wal[i]
      /\ op.t \in Table /\ op.new \in Images
  BY <1>1 DEF FullTypeOK, Op, Txn
<1>3. /\ op.t \notin locked /\ ~op.direct /\ Exists(op.t) /\ cat[op.t] # Absent
      /\ tv[op.t] \in Nat
      /\ \A k \in DOMAIN op.new :
           /\ op.new[k].ver = tv[op.t]
           /\ snap[op.t][k].live => snap[op.t][k].ver < tv[op.t]
           /\ Value(rows[op.t][k]) = Value(op.new[k]) /\ rows[op.t][k].live = op.new[k].live
           /\ rows[op.t][k].live => rows[op.t][k] = op.new[k]
  BY <1>1 DEF Sound, OpRight, Unwritten, TablesRight, Exists, FullTypeOK, Op
<1>4. DOMAIN op.new \in SUBSET Key /\ \A k \in DOMAIN op.new : op.new[k] \in Row
  BY <1>2, ImagesType
<1>5. CleanTables' BY <1>1 DEF Sound, CleanTables
<1>6. \A i \in 1..Len(wal') : i \in 1..Len(wal) \/ i = Len(wal') BY <1>2
<1>7. LogRight'
  <2>1. Increasing(wal')
    <3> SUFFICES ASSUME NEW i \in 1..Len(wal'), NEW j \in 1..Len(wal'), i < j,
                        wal'[i].t = wal'[j].t,
                        NEW k \in DOMAIN wal'[i].new \cap DOMAIN wal'[j].new
                 PROVE  wal'[i].new[k].ver < wal'[j].new[k].ver
      BY DEF Increasing
    <3>1. i \in 1..Len(wal) /\ wal'[i] = wal[i] BY <1>2, <1>6
    <3>2. CASE j = Len(wal')
      <4>1. wal'[j].t = op.t /\ wal'[j].new = op.new BY <1>2, <3>2
      <4>2. wal[i].t = op.t /\ k \in DOMAIN wal[i].new BY <3>1, <4>1
      <4>3. Up /\ stage \in Unwritten BY <1>1 DEF Up, Unwritten
      <4>4. wal[i].new[k].ver < tv[wal[i].t]
        BY <1>3, <3>1, <4>2, <4>3 DEF Sound, LogRight
      <4> QED BY <1>3, <3>1, <4>1, <4>2, <4>4
    <3>3. CASE j # Len(wal')
      <4>1. j \in 1..Len(wal) /\ wal'[j] = wal[j] BY <1>2, <1>6, <3>3
      <4> QED BY <3>1, <4>1 DEF Sound, LogRight, Increasing
    <3> QED BY <3>2, <3>3
  <2>2. ASSUME NEW i \in 1..Len(wal'), Exists(wal'[i].t), NEW k \in DOMAIN wal'[i].new
        PROVE  wal'[i].new[k].ver <= tv[wal'[i].t]
    <3>1. CASE i \in 1..Len(wal)
      BY <1>1, <1>2, <2>2, <3>1 DEF Sound, LogRight, Up
    <3>2. CASE i = Len(wal')
      BY <1>2, <1>3, <2>2, <3>2
    <3> QED BY <1>6, <3>1, <3>2
  <2>3. \A i \in 1..Len(wal') : wal'[i].t \notin locked
    BY <1>2, <1>3, <1>6 DEF Sound, LogRight
  <2> QED BY <1>1, <2>1, <2>2, <2>3 DEF LogRight, Up, Unwritten, Exists
<1>8. OpRight' BY <1>1, <1>3 DEF OpRight, Unwritten
<1>9. ASSUME NEW t \in Table, NEW k \in Key
      PROVE  /\ ~(t = op.t /\ k \in DOMAIN op.new) =>
                  /\ Records(wal', Len(wal'), t, k) = Records(wal, Len(wal), t, k)
                  /\ Records(wal, Len(wal), t, k) # {} =>
                       LastImage(wal', Len(wal'), t, k) = LastImage(wal, Len(wal), t, k)
             /\ t = op.t /\ k \in DOMAIN op.new =>
                  /\ Records(wal', Len(wal'), t, k) # {}
                  /\ LastImage(wal', Len(wal'), t, k) = op.new[k]
  <2>1. Len(wal') \in 1..Len(wal') /\ Len(wal') - 1 = Len(wal) BY <1>2
  <2>2. Records(wal', Len(wal), t, k) = Records(wal, Len(wal), t, k) BY <1>2 DEF Records
  <2>3. ASSUME ~(t = op.t /\ k \in DOMAIN op.new)
        PROVE  Records(wal', Len(wal'), t, k) = Records(wal, Len(wal), t, k)
    BY <1>2, <2>1, <2>2, <2>3, NextRecord
  <2>4. ASSUME t = op.t /\ k \in DOMAIN op.new
        PROVE  /\ Records(wal', Len(wal'), t, k) # {}
               /\ LastImage(wal', Len(wal'), t, k) = op.new[k]
    BY <1>2, <2>1, <2>4, NextRecord
  <2>5. ASSUME Records(wal, Len(wal), t, k) # {}
        PROVE  Max(Records(wal, Len(wal), t, k)) \in 1..Len(wal)
    <3>1. Len(wal) \in 0..Len(wal) BY <1>2
    <3>2. Max(Records(wal, Len(wal), t, k)) \in Records(wal, Len(wal), t, k)
      BY <1>2, <2>5, <3>1, LastRecord
    <3> QED BY <3>2 DEF Records
  <2>6. ASSUME ~(t = op.t /\ k \in DOMAIN op.new), Records(wal, Len(wal), t, k) # {}
        PROVE  LastImage(wal', Len(wal'), t, k) = LastImage(wal, Len(wal), t, k)
    BY <1>2, <2>3, <2>5, <2>6 DEF LastImage
  <2> QED BY <2>3, <2>4, <2>6
<1>10. RowsRight'
  <2> SUFFICES ASSUME NEW t \in Table \ locked, Exists(t), NEW k \in Key
               PROVE  /\ snap[t][k].live => snap[t][k].ver <= tv[t] \/ snap[t][k].ver <= rows[t][k].ver
                      /\ Records(wal', Len(wal'), t, k) # {} =>
                           /\ rows[t][k].live => rows[t][k].ver >= LastImage(wal', Len(wal'), t, k).ver
                           /\ rows[t][k].live \/ ~LastImage(wal', Len(wal'), t, k).live
    BY <1>1 DEF RowsRight, Exists
  <2>1. /\ snap[t][k].live => snap[t][k].ver <= tv[t] \/ snap[t][k].ver <= rows[t][k].ver
        /\ Records(wal, Len(wal), t, k) # {} =>
             /\ rows[t][k].live => rows[t][k].ver >= LastImage(wal, Len(wal), t, k).ver
             /\ \/ t = op.t /\ k \in DOMAIN op.new
                \/ rows[t][k].live
                \/ ~LastImage(wal, Len(wal), t, k).live
    BY <1>1 DEF Sound, RowsRight
  <2>2. CASE t = op.t /\ k \in DOMAIN op.new
    <3>1. LastImage(wal', Len(wal'), t, k) = op.new[k] BY <1>9, <2>2
    <3>2. rows[t][k].live => rows[t][k] = op.new[k] BY <1>3, <2>2
    <3>3. rows[t][k].live = op.new[k].live BY <1>3, <2>2
    <3>4. op.new[k].ver \in Nat BY <1>4, <2>2 DEF Row
    <3> QED BY <2>1, <3>1, <3>2, <3>3, <3>4
  <2>3. CASE ~(t = op.t /\ k \in DOMAIN op.new) BY <1>9, <2>1, <2>3
  <2> QED BY <2>2, <2>3
<1>11. HistoryRight'
  <2>1. History' = History /\ Up /\ Up' /\ stage \in Running /\ stage \in Unwritten
        /\ stage' \notin Unwritten /\ stage # "unlist"
    BY <1>1 DEF History, Effect, Running, Unwritten, Up
  <2>2. Len(History) = Len(acked) + 1 /\ Len(acked) \in Nat BY <2>1, HistoryUpto, HistoryType
  <2>3. ASSUME NEW t \in Table, NEW k \in Key
        PROVE  Upto(History, Len(History), t, k) =
                 IF op.t = t /\ k \in DOMAIN op.new THEN Value(op.new[k])
                 ELSE Upto(History, Len(acked), t, k)
    <3>1. /\ Upto(History, Len(History), t, k) =
               IF op.t = t /\ k \in DOMAIN op.new THEN Value(op.new[k])
               ELSE Upto(acked, Len(acked), t, k)
          /\ \A m \in 0..Len(acked) : Upto(History, m, t, k) = Upto(acked, m, t, k)
      BY <2>1, HistoryUpto
    <3>2. Len(acked) \in 0..Len(acked) BY <2>2
    <3> QED BY <3>1, <3>2
  <2>4. \A t \in Table, k \in Key : Held(t)'[k] = Upto(History', Len(History'), t, k)
    <3>1. \A t : Held(t)' = Held(t) BY <1>1 DEF Held
    <3> QED BY <2>1, <3>1 DEF Sound, HistoryRight
  <2>5. ASSUME NEW n \in synced..Len(wal), n >= snapAt
        PROVE  /\ Mark(n) = Len(acked) - (Len(wal) - n) /\ Mark(n) \in sure..Len(History)
               /\ \A t \in Table, k \in Key : OnDisk(n, t, k) = Upto(History, Mark(n), t, k)
    BY <2>1, <2>2, <2>5 DEF Sound, HistoryRight, Mark
  <2>6. synced \in Nat /\ synced <= Len(wal) /\ snapAt \in Nat /\ snapAt <= Len(wal) /\ sure \in Nat
        /\ sure <= Len(acked)
    BY Counters
  <2>7. ASSUME NEW n \in synced..Len(wal), n >= snapAt
        PROVE  /\ Mark(n)' \in sure..Len(History)
               /\ \A t \in Table, k \in Key : OnDisk(n, t, k)' = Upto(History, Mark(n)', t, k)
    <3>0. n \in Nat BY <2>6
    <3>1. Mark(n)' = Len(acked) - (Len(wal) - n)
      BY <1>2, <2>1, <2>2, <2>6, <2>7 DEF Mark
    <3>2. \A i \in 1..n : wal'[i] = wal[i] BY <1>2, <2>6, <2>7
    <3>3. ASSUME NEW t \in Table, NEW k \in Key PROVE OnDisk(n, t, k)' = OnDisk(n, t, k)
      <4>1. Outcome(wal', n, snap[t][k], t, k) = Outcome(wal, n, snap[t][k], t, k)
        <5>1. wal \in Seq(Txn) /\ wal' \in Seq(Txn) BY <1>2
        <5> QED BY ONLY <3>0, <3>2, <5>1, OutcomePrefix
      <4> QED BY <1>1, <4>1 DEF OnDisk
    <3> QED BY <2>5, <2>7, <3>1, <3>3
  <2>8. ASSUME NEW n, n = Len(wal')
        PROVE  /\ Mark(n)' \in sure..Len(History)
               /\ \A t \in Table, k \in Key : OnDisk(n, t, k)' = Upto(History, Mark(n)', t, k)
    <3>1. Mark(n)' = Len(History) BY <1>2, <2>1, <2>2, <2>8 DEF Mark
    <3>2. ASSUME NEW t \in Table, NEW k \in Key
          PROVE  OnDisk(n, t, k)' = Upto(History, Len(History), t, k)
      <4>1. OnDisk(n, t, k)' = IF cat[t] = Absent THEN 0
                               ELSE Value(Outcome(wal', Len(wal'), snap[t][k], t, k))
        BY <1>1, <2>8 DEF OnDisk
      <4>2. CASE op.t = t /\ k \in DOMAIN op.new
        <5>1. Outcome(wal', Len(wal'), snap[t][k], t, k) = op.new[k]
          <6>1. /\ Records(wal', Len(wal'), t, k) # {}
                /\ LastImage(wal', Len(wal'), t, k) = op.new[k]
            BY <1>9, <4>2
          <6>2. snap[t][k].ver \in Nat BY RowType
          <6>3. ~(snap[t][k].live /\ snap[t][k].ver >= op.new[k].ver) BY <1>3, <4>2, <6>2
          <6> QED BY <6>1, <6>3 DEF Outcome
        <5> QED BY <1>3, <2>3, <4>1, <4>2, <5>1
      <4>3. CASE ~(op.t = t /\ k \in DOMAIN op.new)
        <5>1. Outcome(wal', Len(wal'), snap[t][k], t, k) = Outcome(wal, Len(wal), snap[t][k], t, k)
          BY <1>9, <4>3 DEF Outcome
        <5>2. OnDisk(n, t, k)' = OnDisk(Len(wal), t, k) BY <4>1, <5>1 DEF OnDisk
        <5>3. Mark(Len(wal)) = Len(acked)
              /\ OnDisk(Len(wal), t, k) = Upto(History, Mark(Len(wal)), t, k)
          BY <1>2, <2>2, <2>5, <2>6
        <5> QED BY <2>3, <4>3, <5>2, <5>3
      <4> QED BY <4>2, <4>3
    <3> QED BY <2>2, <2>6, <3>1, <3>2
  <2>9. \A n \in synced..Len(wal') : n \in synced..Len(wal) \/ n = Len(wal') BY <1>2, <2>6
  <2> QED BY <1>1, <2>1, <2>4, <2>7, <2>8, <2>9 DEF HistoryRight
<1> QED BY <1>5, <1>7, <1>8, <1>10, <1>11 DEF Sound

(* More of the log is forced to disk: less may be lost. *)
LEMMA SyncSound ==
  ASSUME FullTypeOK, Sound, Sync
  PROVE  Sound'
<1>1. /\ stage = "sync" /\ stage' = "defer" /\ synced' = Len(wal)
      /\ cat' = cat /\ snap' = snap /\ wal' = wal /\ snapAt' = snapAt /\ tv' = tv
      /\ rows' = rows /\ locked' = locked /\ dirty' = dirty /\ op' = op
      /\ acked' = acked /\ sure' = sure
  BY DEF Sync, memory, history
<1>2. CleanTables' BY <1>1 DEF Sound, CleanTables
<1>3. LogRight' BY <1>1 DEF Sound, LogRight, Up, Unwritten, Exists
<1>4. OpRight' BY <1>1 DEF Sound, OpRight, Unwritten
<1>5. RowsRight' BY <1>1 DEF Sound, RowsRight, Exists
<1>6. HistoryRight'
  <2>1. History' = History /\ Up /\ Up'
    BY <1>1 DEF History, Effect, Running, Unwritten, Up
  <2>2. \A n : Mark(n)' = Mark(n) BY <1>1, <2>1 DEF Mark, Unwritten
  <2>3. \A n, t, k : OnDisk(n, t, k)' = OnDisk(n, t, k) BY <1>1 DEF OnDisk
  <2>4. \A t : Held(t)' = Held(t) BY <1>1 DEF Held
  <2>5. \A n \in Len(wal)..Len(wal) : n \in synced..Len(wal) BY Counters
  <2> QED BY <1>1, <2>1, <2>2, <2>3, <2>4, <2>5 DEF Sound, HistoryRight
<1> QED BY <1>2, <1>3, <1>4, <1>5, <1>6 DEF Sound

(* An acknowledgement makes the effect of the statement part of the history *)
(* that it was the end of.                                                  *)
LEMMA Acknowledged ==
  ASSUME FullTypeOK, stage \in Running, stage' = "idle", NEW forced, Acknowledge(forced)
  PROVE  /\ acked' = History /\ History' = History /\ Len(acked') = Len(acked) + 1
         /\ sure' = IF forced THEN Len(History) ELSE sure
<1>1. History = Append(acked, Effect) /\ Len(History) = Len(acked) + 1
  BY HistoryType
<1>2. stage' \notin Running BY DEF Running, Unwritten
<1> QED BY <1>1, <1>2 DEF Acknowledge, History

(* The table is to be flushed, and the statement is acknowledged unless the *)
(* flush comes first.                                                       *)
LEMMA DeferSound ==
  ASSUME FullTypeOK, Sound, Defer
  PROVE  Sound'
<1>1. /\ stage = "defer" /\ op.t \notin locked
      /\ cat' = cat /\ snap' = snap /\ wal' = wal /\ synced' = synced /\ snapAt' = snapAt
      /\ tv' = tv /\ rows' = rows /\ locked' = locked /\ op' = op
  BY DEF Defer, disk, Sound, OpRight
<1>2. /\ dirty' = dirty \cup {op.t}
      /\ \/ stage' = "flush" /\ UNCHANGED history
         \/ stage' = "idle" /\ Acknowledge(synced = Len(wal))
  BY <1>1 DEF Defer
<1>3. CleanTables' BY <1>1, <1>2 DEF Sound, CleanTables
<1>4. LogRight' BY <1>1, <1>2 DEF Sound, LogRight, Up, Unwritten, Exists
<1>5. OpRight' BY <1>1, <1>2 DEF OpRight, Unwritten
<1>6. RowsRight' BY <1>1, <1>2 DEF Sound, RowsRight, Exists
<1>7. HistoryRight'
  <2>1. stage \in Running /\ Up /\ Up' /\ stage \notin Unwritten /\ stage' \notin Unwritten
        /\ stage # "unlist" /\ stage' # "unlist"
    BY <1>1, <1>2 DEF Running, Unwritten, Up
  <2>2. History' = History /\ (sure' = sure \/ (sure' = Len(History) /\ synced = Len(wal)))
    <3>1. CASE stage' = "flush" /\ UNCHANGED history
      BY <1>1, <3>1 DEF history, History, Effect, Running, Unwritten
    <3>2. CASE stage' = "idle" /\ Acknowledge(synced = Len(wal))
      BY <2>1, <3>2, Acknowledged
    <3> QED BY <1>2, <3>1, <3>2
  <2>3. \A n : Mark(n)' = Mark(n) /\ Mark(n) = Len(History) - 0 - (Len(wal) - n)
    BY <1>1, <2>1, <2>2 DEF Mark
  <2>4. \A n, t, k : OnDisk(n, t, k)' = OnDisk(n, t, k) BY <1>1 DEF OnDisk
  <2>5. \A t : Held(t)' = Held(t) BY <1>1 DEF Held
  <2>6. Len(History) \in Nat /\ Len(wal) \in Nat BY HistoryType
  <2>7. ASSUME NEW n \in synced..Len(wal), n >= snapAt PROVE Mark(n) \in sure'..Len(History)
    <3>1. Mark(n) \in sure..Len(History) BY <2>1, <2>7 DEF Sound, HistoryRight
    <3>2. CASE sure' = sure BY <3>1, <3>2
    <3>3. CASE sure' = Len(History) /\ synced = Len(wal)
      <4>1. n = Len(wal) BY <2>6, <3>3
      <4> QED BY <2>3, <2>6, <3>3, <4>1
    <3> QED BY <2>2, <3>2, <3>3
  <2> QED BY <1>1, <2>1, <2>2, <2>3, <2>4, <2>5, <2>7 DEF Sound, HistoryRight
<1> QED BY <1>3, <1>4, <1>5, <1>6, <1>7 DEF Sound

(* The log adds nothing to what a client sees of a row that is as new as    *)
(* its records and is gone only if the last of them says so.                *)
LEMMA RowCovered ==
  ASSUME NEW log \in Seq(Txn), NEW t, NEW k, NEW r \in Row,
         Records(log, Len(log), t, k) # {} =>
           /\ r.live => r.ver >= LastImage(log, Len(log), t, k).ver
           /\ r.live \/ ~LastImage(log, Len(log), t, k).live
  PROVE  Value(Outcome(log, Len(log), r, t, k)) = Value(r)
<1> DEFINE last == LastImage(log, Len(log), t, k)
<1>1. Len(log) \in 0..Len(log) OBVIOUS
<1>2. CASE Records(log, Len(log), t, k) = {} BY <1>1, <1>2, OutcomeRight
<1>3. CASE Records(log, Len(log), t, k) # {}
  <2>1. Outcome(log, Len(log), r, t, k) = IF r.live /\ r.ver >= last.ver THEN r ELSE last
    BY <1>1, <1>3, OutcomeRight
  <2>2. CASE r.live BY <1>3, <2>1, <2>2
  <2>3. CASE ~r.live BY <1>3, <2>1, <2>3 DEF Value
  <2> QED BY <2>2, <2>3
<1> QED BY <1>2, <1>3

(* So it is with a file of the rows in memory, once the running statement   *)
(* is in the log or does not need it.                                       *)
LEMMA FileHolds ==
  ASSUME FullTypeOK, Sound, stage \notin {"down", "catalog", "log"},
         NEW t \in Table \ locked, Exists(t), NEW k \in Key
  PROVE  Value(Outcome(wal, Len(wal), rows[t][k], t, k)) = Value(rows[t][k])
<1>1. rows[t][k] \in Row /\ wal \in Seq(Txn) BY RowType, HistoryType
<1>2. Records(wal, Len(wal), t, k) # {} =>
        /\ rows[t][k].live => rows[t][k].ver >= LastImage(wal, Len(wal), t, k).ver
        /\ rows[t][k].live \/ ~LastImage(wal, Len(wal), t, k).live
  BY DEF Sound, RowsRight
<1> QED BY <1>1, <1>2, RowCovered

(* What is on disk with the whole log. *)
LEMMA DiskNow ==
  ASSUME FullTypeOK, Sound, Up
  PROVE  /\ Mark(Len(wal)) = Len(History) - (IF stage \in Unwritten THEN 1 ELSE 0)
         /\ Mark(Len(wal)) \in sure..Len(History)
         /\ \A t \in Table, k \in Key :
              (stage = "unlist" /\ t = op.t)
              \/ OnDisk(Len(wal), t, k) = Upto(History, Mark(Len(wal)), t, k)
<1>1. Len(wal) \in synced..Len(wal) /\ Len(wal) >= snapAt BY Counters
<1>2. Len(wal) \in Nat /\ Len(History) \in Nat BY HistoryType
<1>3. Mark(Len(wal)) = Len(History) - (IF stage \in Unwritten THEN 1 ELSE 0) BY <1>2 DEF Mark
<1> QED BY <1>1, <1>3 DEF Sound, HistoryRight

(* A direct write puts the rows of the table into its file and needs no     *)
(* transaction.                                                             *)
LEMMA PersistDirectSound ==
  ASSUME FullTypeOK, FullTypeOK', TablesRight, Plain, Sound, PersistDirect
  PROVE  Sound'
<1>1. stage = "direct" /\ op.t \notin locked /\ Exists(op.t) /\ op.t \in Table /\ cat[op.t] # Absent
  BY DEF PersistDirect, Sound, OpRight, TablesRight, FullTypeOK, Op, Exists
<1>2. /\ stage' = "idle" /\ cat' = cat /\ wal' = wal /\ synced' = synced /\ tv' = tv
      /\ rows' = rows /\ locked' = locked /\ dirty' = dirty /\ op' = op
      /\ snap' = [snap EXCEPT ![op.t] = rows[op.t]] /\ snapAt' = Len(wal)
      /\ Acknowledge(synced = Len(wal))
  BY <1>1 DEF PersistDirect, WriteFile, memory
<1>3. snap'[op.t] = rows[op.t] /\ \A t \in Table : t # op.t => snap'[t] = snap[t]
  BY <1>1, <1>2 DEF FullTypeOK
<1>4. CleanTables' BY <1>1, <1>2, <1>3 DEF Sound, CleanTables
<1>5. LogRight' BY <1>1, <1>2 DEF Sound, LogRight, Up, Unwritten, Exists
<1>6. OpRight' BY <1>2 DEF OpRight, Unwritten
<1>7. RowsRight'
  <2>1. \A k \in Key : rows[op.t][k].ver \in Nat BY <1>1, RowType
  <2> QED BY <1>1, <1>2, <1>3, <2>1 DEF Sound, RowsRight, Exists
<1>8. HistoryRight'
  <2>1. stage \in Running /\ stage \in Unwritten /\ Up /\ Up' /\ stage' \notin Unwritten
        /\ stage # "unlist" /\ stage' # "unlist"
    BY <1>1, <1>2 DEF Running, Unwritten, Up
  <2>2. /\ History' = History /\ Len(History) = Len(acked) + 1
        /\ sure' \in sure..Len(History) /\ Len(acked) \in Nat /\ Len(wal) \in Nat
    <3>1. History' = History /\ sure' = (IF synced = Len(wal) THEN Len(History) ELSE sure)
      BY <1>2, <2>1, Acknowledged
    <3>2. Len(History) = Len(acked) + 1 /\ Len(acked) \in Nat /\ Len(wal) \in Nat
      BY <2>1, HistoryType
    <3>3. sure \in 0..Len(acked) BY Counters
    <3> QED BY <3>1, <3>2, <3>3
  <2>3. ASSUME NEW t \in Table, NEW k \in Key
        PROVE  /\ Held(t)'[k] = Upto(History, Len(History), t, k)
               /\ OnDisk(Len(wal), t, k)' = Upto(History, Len(History), t, k)
    <3>1. Held(t)[k] = Upto(History, Len(History), t, k) BY <2>1 DEF Sound, HistoryRight
    <3>2. CASE t = op.t
      <4>1. Held(t)' = Held(t) /\ Held(t)[k] = Value(rows[t][k])
        BY <1>1, <1>2, <3>2, HeldAt DEF Held
      <4>2. OnDisk(Len(wal), t, k)' = Value(Outcome(wal, Len(wal), rows[t][k], t, k))
        BY <1>1, <1>2, <1>3, <3>2 DEF OnDisk
      <4>3. Value(Outcome(wal, Len(wal), rows[t][k], t, k)) = Value(rows[t][k])
        BY <1>1, <3>2, FileHolds
      <4> QED BY <3>1, <4>1, <4>2, <4>3
    <3>3. CASE t # op.t
      <4>1. Held(t)' = Held(t) BY <1>2, <1>3, <3>3 DEF Held
      <4>2. OnDisk(Len(wal), t, k)' = OnDisk(Len(wal), t, k) BY <1>2, <1>3, <3>3 DEF OnDisk
      <4>3. OnDisk(Len(wal), t, k) = Upto(History, Len(acked), t, k)
        BY <2>1, <2>2, DiskNow
      <4>4. Len(acked) \in 0..Len(acked) BY <2>2
      <4>5. Upto(History, Len(History), t, k) = Upto(History, Len(acked), t, k)
        BY <2>1, <3>3, <4>4, HistoryUpto
      <4> QED BY <3>1, <4>1, <4>2, <4>3, <4>5
    <3> QED BY <3>2, <3>3
  <2>4. ASSUME NEW n \in synced..Len(wal), n >= Len(wal)
        PROVE  n = Len(wal) /\ Mark(n)' = Len(History)
    <3>1. n = Len(wal) BY <2>2, <2>4, Counters
    <3> QED BY <1>2, <2>1, <2>2, <3>1 DEF Mark
  <2>5. Len(History) \in sure'..Len(History) BY <2>2, Counters
  <2> QED BY <1>2, <2>1, <2>2, <2>3, <2>4, <2>5 DEF HistoryRight
<1> QED BY <1>4, <1>5, <1>6, <1>7, <1>8 DEF Sound

(* A flush, a shutdown or a recovery writes a table's file. *)
LEMMA FlushTableSound ==
  ASSUME FullTypeOK, TablesRight, Sound, NEW t \in Table, FlushTable(t)
  PROVE  Sound'
<1>1. /\ stage \in {"flush", "recover", "shutdown"} /\ t \in dirty /\ t \notin locked
      /\ stage' = stage /\ cat' = cat /\ wal' = wal /\ synced' = synced /\ tv' = tv
      /\ rows' = rows /\ locked' = locked /\ dirty' = dirty \ {t} /\ op' = op
      /\ acked' = acked /\ sure' = sure
  BY DEF FlushTable, history, Sound, CleanTables
<1>2. /\ Exists(t) => snap' = [snap EXCEPT ![t] = rows[t]] /\ snapAt' = Len(wal) /\ cat[t] # Absent
      /\ ~Exists(t) => snap' = snap /\ snapAt' = snapAt /\ snap[t] = rows[t]
  BY <1>1 DEF FlushTable, WriteFile, TablesRight, Exists
<1>3. snap'[t] = rows[t] /\ \A u \in Table : u # t => snap'[u] = snap[u]
  BY <1>2 DEF FullTypeOK
<1>4. CleanTables' BY <1>1, <1>3 DEF Sound, CleanTables
<1>5. LogRight' BY <1>1 DEF Sound, LogRight, Up, Unwritten, Exists
<1>6. OpRight' BY <1>1 DEF OpRight, Unwritten
<1>7. RowsRight'
  <2>1. \A k \in Key : rows[t][k].ver \in Nat BY RowType
  <2> QED BY <1>1, <1>3, <2>1 DEF Sound, RowsRight, Exists
<1>8. \A u \in Table : Held(u)' = Held(u) BY <1>1, <1>3 DEF Held
<1>9. ASSUME NEW u \in Table, NEW k \in Key, Exists(t)
      PROVE  OnDisk(Len(wal), u, k)' = IF u = t THEN Held(u)[k] ELSE OnDisk(Len(wal), u, k)
  <2>1. CASE u = t
    <3>1. OnDisk(Len(wal), u, k)' = Value(Outcome(wal, Len(wal), rows[t][k], t, k))
      BY <1>1, <1>2, <1>3, <1>9, <2>1 DEF OnDisk
    <3>2. Value(Outcome(wal, Len(wal), rows[t][k], t, k)) = Value(rows[t][k])
      BY <1>1, <1>9, FileHolds
    <3>3. Held(u)[k] = Value(rows[t][k]) BY <1>1, <2>1, HeldAt
    <3> QED BY <2>1, <3>1, <3>2, <3>3
  <2>2. CASE u # t BY <1>1, <1>3, <2>2 DEF OnDisk
  <2> QED BY <2>1, <2>2
<1>10. ASSUME ~Exists(t), NEW n, NEW u, NEW k PROVE OnDisk(n, u, k)' = OnDisk(n, u, k)
  BY <1>1, <1>2, <1>10 DEF OnDisk
<1>11. HistoryRight'
  <2>1. History' = History /\ (Up' <=> Up) /\ stage \notin Unwritten /\ stage # "unlist"
    BY <1>1 DEF History, Effect, Up, Unwritten
  <2>2. \A n : Mark(n)' = Mark(n) BY <1>1, <2>1 DEF Mark
  <2>3. CASE Up
    <3>1. \A u \in Table, k \in Key : Held(u)'[k] = Upto(History', Len(History'), u, k)
      BY <1>8, <2>1, <2>3 DEF Sound, HistoryRight
    <3>2. CASE Exists(t)
      <4>1. /\ Mark(Len(wal)) = Len(History) /\ Mark(Len(wal)) \in sure..Len(History)
            /\ \A u \in Table, k \in Key :
                 OnDisk(Len(wal), u, k) = Upto(History, Mark(Len(wal)), u, k)
        BY <2>1, <2>3, DiskNow, HistoryType
      <4>2. \A u \in Table, k \in Key :
              OnDisk(Len(wal), u, k)' = Upto(History, Mark(Len(wal)), u, k)
        BY <1>8, <1>9, <2>1, <3>1, <3>2, <4>1
      <4>3. \A n \in synced..Len(wal) : n >= Len(wal) => n = Len(wal) BY Counters
      <4> QED BY <1>1, <1>2, <2>1, <2>2, <2>3, <3>1, <3>2, <4>1, <4>2, <4>3 DEF HistoryRight
    <3>3. CASE ~Exists(t)
      BY <1>1, <1>2, <1>10, <2>1, <2>2, <2>3, <3>1, <3>3 DEF Sound, HistoryRight
    <3> QED BY <3>2, <3>3
  <2>4. CASE ~Up
    <3>1. stage = "recover" BY <1>1, <2>4 DEF Up
    <3>2. PICK m \in sure..Len(acked) : \A u \in Table, k \in Key :
            OnDisk(Len(wal), u, k) = Upto(acked, m, u, k) /\ Held(u)[k] = Upto(acked, m, u, k)
      BY <2>4, <3>1 DEF Sound, HistoryRight
    <3>3. \A u \in Table, k \in Key : /\ OnDisk(Len(wal), u, k)' = Upto(acked, m, u, k)
                                      /\ Held(u)'[k] = Upto(acked, m, u, k)
      <4>1. CASE Exists(t) BY <1>8, <1>9, <3>2, <4>1
      <4>2. CASE ~Exists(t)
        <5>1. \A u \in Table, k \in Key : OnDisk(Len(wal), u, k)' = OnDisk(Len(wal), u, k)
          BY <1>1, <1>2, <4>2 DEF OnDisk
        <5> QED BY <1>8, <3>2, <5>1
      <4> QED BY <4>1, <4>2
    <3>4. synced = Len(wal) BY <2>4 DEF Sound, HistoryRight
    <3> QED BY <1>1, <2>1, <2>4, <3>3, <3>4 DEF HistoryRight
  <2> QED BY <2>3, <2>4
<1> QED BY <1>4, <1>5, <1>6, <1>7, <1>11 DEF Sound

(* When every table to be flushed is, the files have all that a client      *)
(* finds, and the log is not needed.                                        *)
LEMMA FilesComplete ==
  ASSUME FullTypeOK, TablesRight, Sound, dirty = {}, stage \in {"flush", "recover", "shutdown"}
  PROVE  /\ \A t \in Table \ locked : snap[t] = rows[t]
         /\ \A t \in Table, k \in Key :
              Held(t)[k] = IF cat[t] = Absent THEN 0 ELSE Value(snap[t][k])
<1>1. \A t \in Table \ locked : snap[t] = rows[t] BY DEF Sound, CleanTables
<1>2. ASSUME NEW t \in Table, NEW k \in Key
      PROVE  Held(t)[k] = IF cat[t] = Absent THEN 0 ELSE Value(snap[t][k])
  <2>1. Held(t)[k] = Value(snap[t][k]) BY <1>1, HeldAt
  <2>2. cat[t] = Absent => snap[t] = NoRows BY DEF TablesRight
  <2> QED BY <2>1, <2>2, NoRowsType
<1> QED BY <1>1, <1>2

(* An empty log. *)
LEMMA EmptyLog ==
  /\ <<>> \in Seq(Txn) /\ Len(<<>>) = 0 /\ Increasing(<<>>)
  /\ \A t, k, r : Records(<<>>, 0, t, k) = {} /\ Outcome(<<>>, 0, r, t, k) = r
BY DEF Increasing, Records, Outcome

(* The end of a flush: the log goes, and everything is safe. *)
LEMMA FlushEndSound ==
  ASSUME FullTypeOK, TablesRight, Sound, FlushEnd
  PROVE  Sound'
<1>1. /\ stage = "flush" /\ dirty = {} /\ stage' = "idle" /\ cat' = cat /\ snap' = snap
      /\ wal' = <<>> /\ synced' = 0 /\ snapAt' = 0 /\ tv' = tv /\ rows' = rows
      /\ locked' = locked /\ dirty' = dirty /\ op' = op /\ Acknowledge(TRUE)
  BY DEF FlushEnd, Truncate
<1>2. /\ \A t \in Table \ locked : snap[t] = rows[t]
      /\ \A t \in Table, k \in Key :
           Held(t)[k] = IF cat[t] = Absent THEN 0 ELSE Value(snap[t][k])
  BY <1>1, FilesComplete
<1>3. Len(wal') = 0 /\ Increasing(wal') /\ \A t, k : Records(wal', Len(wal'), t, k) = {}
  BY <1>1, EmptyLog
<1>4. CleanTables' BY <1>1, <1>2 DEF CleanTables
<1>5. LogRight' BY <1>3 DEF LogRight
<1>6. OpRight' BY <1>1 DEF OpRight, Unwritten
<1>7. RowsRight'
  <2>1. \A t \in Table, k \in Key : rows[t][k].ver \in Nat BY RowType
  <2> QED BY <1>1, <1>2, <1>3, <2>1 DEF RowsRight
<1>8. HistoryRight'
  <2>1. stage \in Running /\ Up /\ Up' /\ stage' \notin Unwritten
    BY <1>1 DEF Running, Unwritten, Up
  <2>2. History' = History /\ sure' = Len(History) /\ Len(History) \in Nat
    <3>1. History' = History BY <1>1, <2>1, Acknowledged
    <3>2. Len(History) = Len(acked) + 1 /\ Len(acked) \in Nat BY <2>1, HistoryType
    <3>3. sure' = Len(acked) + 1 BY <1>1 DEF Acknowledge
    <3> QED BY <3>1, <3>2, <3>3
  <2>3. ASSUME NEW t \in Table, NEW k \in Key
        PROVE  /\ Held(t)'[k] = Upto(History, Len(History), t, k)
               /\ OnDisk(0, t, k)' = Upto(History, Len(History), t, k)
    <3>1. Held(t)[k] = Upto(History, Len(History), t, k) BY <2>1 DEF Sound, HistoryRight
    <3>2. Held(t)' = Held(t) BY <1>1 DEF Held
    <3>3. OnDisk(0, t, k)' = IF cat[t] = Absent THEN 0 ELSE Value(snap[t][k])
      BY <1>1, EmptyLog DEF OnDisk
    <3> QED BY <1>2, <3>1, <3>2, <3>3
  <2>4. Mark(0)' = Len(History) BY <1>3, <2>1, <2>2 DEF Mark
  <2>5. \A n \in 0..0 : n = 0 OBVIOUS
  <2> QED BY <1>1, <1>3, <2>1, <2>2, <2>3, <2>4, <2>5 DEF HistoryRight
<1> QED BY <1>4, <1>5, <1>6, <1>7, <1>8 DEF Sound

(* A drop: what is left of the table on disk does not matter until the      *)
(* catalog is saved.                                                        *)
LEMMA DropTableSound ==
  ASSUME FullTypeOK, FullTypeOK', Plain, Sound, NEW t \in Table, DropTable(t)
  PROVE  Sound'
<1>1. /\ stage = "idle" /\ stage' = "unlist" /\ cat' = cat /\ wal' = wal /\ synced' = synced
      /\ locked' = locked /\ dirty' = dirty /\ acked' = acked /\ sure' = sure
      /\ op' = [t |-> t, new |-> NoRows, more |-> <<>>, direct |-> TRUE] /\ snapAt' = Len(wal)
      /\ op'.t = t /\ op'.new = NoRows /\ DOMAIN op'.more = {}
  BY DEF DropTable, WriteFile, history
<1>2. /\ tv'[t] = Absent /\ rows'[t] = NoRows /\ snap'[t] = NoRows
      /\ \A u \in Table : u # t => tv'[u] = tv[u] /\ rows'[u] = rows[u] /\ snap'[u] = snap[u]
  BY DEF DropTable, WriteFile, FullTypeOK
<1>3. CleanTables' BY <1>1, <1>2 DEF Sound, CleanTables
<1>4. LogRight'
  <2>1. \A i \in 1..Len(wal) : wal[i].t \in Table BY WalType
  <2> QED BY <1>1, <1>2, <2>1 DEF Sound, LogRight, Up, Unwritten, Exists
<1>5. OpRight' BY <1>1 DEF OpRight, Unwritten
<1>6. RowsRight' BY <1>1, <1>2 DEF Sound, RowsRight, Exists
<1>7. HistoryRight'
  <2>1. Up /\ Up' /\ stage \notin Running /\ stage' \in Running /\ stage \notin Unwritten
        /\ stage' \notin Unwritten
    BY <1>1 DEF Running, Unwritten, Up
  <2>2. History = acked /\ acked \in Seq(Effects) /\ Len(acked) \in Nat /\ Len(wal) \in Nat
    BY <2>1, HistoryType
  <2>3. Extends(History', acked, op') BY <1>1, <2>1 DEF History, Effect, Extends
  <2>4. /\ Len(History') = Len(acked) + 1
        /\ \A u \in Table, k \in Key : Upto(History', Len(History'), u, k) =
             IF u = t THEN 0 ELSE Upto(acked, Len(acked), u, k)
    <3>1. op' \in Op BY DEF FullTypeOK
    <3>2. DOMAIN NoRows = Key /\ \A k \in Key : Value(NoRows[k]) = 0 BY NoRowsType
    <3>3. /\ Len(History') = Len(acked) + 1
          /\ \A u \in Table, k \in Key : Upto(History', Len(History'), u, k) =
               IF op'.t = u /\ k \in DOMAIN op'.new THEN Value(op'.new[k])
               ELSE Upto(acked, Len(acked), u, k)
      BY <1>1, <2>2, <2>3, <3>1, EffectUpto
    <3> QED BY <1>1, <3>2, <3>3
  <2>5. ASSUME NEW u \in Table, NEW k \in Key
        PROVE  Held(u)'[k] = Upto(History', Len(History'), u, k)
    <3>1. Held(u)[k] = Upto(acked, Len(acked), u, k) BY <2>1, <2>2 DEF Sound, HistoryRight
    <3>2. CASE u = t
      <4>1. Held(u)' = Values(NoRows) BY <1>1, <1>2, <3>2 DEF Held
      <4> QED BY <2>4, <3>2, <4>1, ValuesAt, NoRowsType
    <3>3. CASE u # t
      <4>1. Held(u)' = Held(u) BY <1>1, <1>2, <3>3 DEF Held
      <4> QED BY <2>4, <3>1, <3>3, <4>1
    <3> QED BY <3>2, <3>3
  <2>6. ASSUME NEW u \in Table, NEW k \in Key, u # t
        PROVE  OnDisk(Len(wal), u, k)' = Upto(History', Len(History'), u, k)
    <3>1. OnDisk(Len(wal), u, k)' = OnDisk(Len(wal), u, k) BY <1>1, <1>2, <2>6 DEF OnDisk
    <3>2. OnDisk(Len(wal), u, k) = Upto(acked, Len(acked), u, k)
      BY <1>1, <2>1, <2>2, DiskNow
    <3> QED BY <2>4, <2>6, <3>1, <3>2
  <2>7. ASSUME NEW n \in synced..Len(wal), n >= Len(wal)
        PROVE  n = Len(wal) /\ Mark(n)' = Len(History')
    <3>1. n = Len(wal) BY <2>2, <2>7, Counters
    <3> QED BY <1>1, <2>1, <2>2, <2>4, <3>1 DEF Mark
  <2>8. Len(History') \in sure..Len(History') BY <2>4, Counters
  <2> QED BY <1>1, <2>1, <2>5, <2>6, <2>7, <2>8 DEF HistoryRight
<1> QED BY <1>3, <1>4, <1>5, <1>6, <1>7 DEF Sound

(* The catalog without the table. *)
LEMMA UnlistSound ==
  ASSUME FullTypeOK, TablesRight, Sound, Unlist
  PROVE  Sound'
<1>1. /\ stage = "unlist" /\ stage' = "idle" /\ cat' = tv /\ snap' = snap /\ wal' = wal
      /\ synced' = synced /\ snapAt' = snapAt /\ tv' = tv /\ rows' = rows /\ locked' = locked
      /\ dirty' = dirty /\ op' = op /\ Acknowledge(synced = Len(wal))
  BY DEF Unlist, memory
<1>2. tv[op.t] = Absent /\ snapAt = Len(wal) /\ rows[op.t] = NoRows /\ snap[op.t] = NoRows
      /\ op.t \in Table
  BY <1>1 DEF TablesRight, FullTypeOK, Op
<1>3. CleanTables' BY <1>1 DEF Sound, CleanTables
<1>4. LogRight' BY <1>1 DEF Sound, LogRight, Up, Unwritten, Exists
<1>5. OpRight' BY <1>1 DEF OpRight, Unwritten
<1>6. RowsRight' BY <1>1 DEF Sound, RowsRight, Exists
<1>7. HistoryRight'
  <2>1. stage \in Running /\ Up /\ Up' /\ stage \notin Unwritten /\ stage' \notin Unwritten
    BY <1>1 DEF Running, Unwritten, Up
  <2>2. /\ History' = History /\ Len(History) \in Nat /\ Len(wal) \in Nat
        /\ sure' \in Nat /\ sure' <= Len(History)
    <3>1. History' = History /\ sure' = (IF synced = Len(wal) THEN Len(History) ELSE sure)
      BY <1>1, <2>1, Acknowledged
    <3>2. Len(History) = Len(acked) + 1 /\ Len(acked) \in Nat /\ Len(wal) \in Nat
      BY <2>1, HistoryType
    <3>3. sure \in 0..Len(acked) BY Counters
    <3> QED BY <3>1, <3>2, <3>3
  <2>3. ASSUME NEW t \in Table, NEW k \in Key
        PROVE  /\ Held(t)'[k] = Upto(History, Len(History), t, k)
               /\ OnDisk(Len(wal), t, k)' = Upto(History, Len(History), t, k)
    <3>1. Held(t)[k] = Upto(History, Len(History), t, k) BY <2>1 DEF Sound, HistoryRight
    <3>2. Held(t)' = Held(t) BY <1>1 DEF Held
    <3>3. CASE t = op.t
      <4>1. OnDisk(Len(wal), t, k)' = 0 BY <1>1, <1>2, <3>3 DEF OnDisk
      <4>2. Held(t)[k] = 0 BY <1>2, <3>3, HeldAt, NoRowsType
      <4> QED BY <3>1, <3>2, <4>1, <4>2
    <3>4. CASE t # op.t
      <4>1. cat[t] = Absent <=> tv[t] = Absent BY <3>4 DEF TablesRight
      <4>2. OnDisk(Len(wal), t, k)' = OnDisk(Len(wal), t, k) BY <1>1, <4>1 DEF OnDisk
      <4>3. OnDisk(Len(wal), t, k) = Upto(History, Len(History), t, k)
        BY <2>1, <2>2, <3>4, DiskNow
      <4> QED BY <3>1, <3>2, <4>2, <4>3
    <3> QED BY <3>3, <3>4
  <2>4. ASSUME NEW n \in synced..Len(wal), n >= Len(wal)
        PROVE  n = Len(wal) /\ Mark(n)' = Len(History)
    <3>1. n = Len(wal) BY <2>2, <2>4, Counters
    <3> QED BY <1>1, <2>1, <2>2, <3>1 DEF Mark
  <2>5. Len(History) \in sure'..Len(History) BY <2>2
  <2> QED BY <1>1, <1>2, <2>1, <2>2, <2>3, <2>4, <2>5 DEF HistoryRight
<1> QED BY <1>3, <1>4, <1>5, <1>6, <1>7 DEF Sound

(* A new table: the log has no records of an old one of its name. *)
LEMMA CreateTableSound ==
  ASSUME FullTypeOK, TablesRight, Sound, odd' = {}, NEW t \in Table, CreateTable(t)
  PROVE  Sound'
<1>1. /\ stage = "idle" /\ stage' = stage /\ ~Exists(t) /\ cat' = tv' /\ snap' = snap /\ wal' = wal
      /\ synced' = synced /\ snapAt' = snapAt /\ rows' = rows /\ locked' = locked
      /\ dirty' = dirty /\ op' = op /\ acked' = acked /\ sure' = sure /\ ~Logged(t)
  BY DEF CreateTable
<1>2. /\ tv'[t] = 0 /\ \A u \in Table : u # t => tv'[u] = tv[u]
      /\ snap[t] = NoRows /\ rows[t] = NoRows /\ cat[t] = Absent
      /\ \A u \in Table : u # t => (cat'[u] = Absent <=> cat[u] = Absent)
  BY <1>1 DEF CreateTable, TablesRight, FullTypeOK, Exists
<1>3. /\ Len(wal) \in Nat /\ \A i \in 1..Len(wal) : wal[i].t \in Table /\ wal[i].t # t
      /\ \A k \in Key : ~snap[t][k].live /\ Value(snap[t][k]) = 0
  BY <1>1, <1>2, WalType, HistoryType, NoRowsType DEF Logged
<1>4. CleanTables' BY <1>1 DEF Sound, CleanTables
<1>5. LogRight' BY <1>1, <1>2, <1>3 DEF Sound, LogRight, Up, Unwritten, Exists
<1>6. OpRight' BY <1>1 DEF OpRight, Unwritten
<1>7. RowsRight'
  <2>1. \A k \in Key : Records(wal, Len(wal), t, k) = {} BY <1>3, NoRecords
  <2> QED BY <1>1, <1>2, <1>3, <2>1 DEF Sound, RowsRight, Exists
<1>8. HistoryRight'
  <2>1. History' = History /\ Up /\ Up' BY <1>1 DEF History, Effect, Up
  <2>2. \A n : Mark(n)' = Mark(n) BY <1>1, <2>1 DEF Mark
  <2>3. \A u : Held(u)' = Held(u) BY <1>1 DEF Held
  <2>4. ASSUME NEW n \in synced..Len(wal), NEW u \in Table, NEW k \in Key
        PROVE  OnDisk(n, u, k)' = OnDisk(n, u, k)
    <3>1. CASE u # t BY <1>1, <1>2, <3>1 DEF OnDisk
    <3>2. CASE u = t
      <4>1. n \in Nat /\ \A i \in 1..n : wal[i].t # t BY <1>3, Counters
      <4>2. Outcome(wal, n, snap[t][k], t, k) = snap[t][k] BY <4>1, NoRecords
      <4>3. OnDisk(n, u, k)' = Value(snap[t][k]) BY <1>1, <1>2, <3>2, <4>2 DEF OnDisk, Absent
      <4>4. OnDisk(n, u, k) = 0 BY <1>2, <3>2 DEF OnDisk
      <4> QED BY <1>3, <4>3, <4>4
    <3> QED BY <3>1, <3>2
  <2> QED BY <1>1, <2>1, <2>2, <2>3, <2>4 DEF Sound, HistoryRight
<1> QED BY <1>4, <1>5, <1>6, <1>7, <1>8 DEF Sound

(* A file written while the engine is idle, of rows that show what the      *)
(* client found in the table before.                                        *)
LEMMA IdleFile ==
  ASSUME FullTypeOK, FullTypeOK', TablesRight, Sound, RowsRight', NEW t \in Table,
         stage = "idle", stage' = "idle", Exists(t), t \notin locked, locked' = locked,
         cat' = cat, wal' = wal, synced' = synced, snapAt' = Len(wal),
         op' = op, acked' = acked, sure' = sure, Exists(t)',
         snap'[t] = rows'[t], \A k \in Key : Value(rows'[t][k]) = Value(rows[t][k]),
         \A u \in Table : u # t => rows'[u] = rows[u] /\ snap'[u] = snap[u]
  PROVE  HistoryRight'
<1>1. History' = History /\ Up /\ Up' /\ stage' \notin Unwritten /\ stage \notin Unwritten
      /\ Len(History) \in Nat /\ Len(wal) \in Nat /\ wal \in Seq(Txn)
  BY HistoryType DEF History, Effect, Up, Unwritten, Running
<1>2. cat[t] # Absent BY DEF TablesRight, Exists
<1>3. ASSUME NEW u \in Table, NEW k \in Key
      PROVE  /\ Held(u)'[k] = Upto(History, Len(History), u, k)
             /\ OnDisk(Len(wal), u, k)' = Upto(History, Len(History), u, k)
  <2>1. Held(u)[k] = Upto(History, Len(History), u, k) BY <1>1 DEF Sound, HistoryRight
  <2>2. CASE u # t
    <3>1. Held(u)' = Held(u) BY <2>2 DEF Held
    <3>2. OnDisk(Len(wal), u, k)' = OnDisk(Len(wal), u, k) BY <2>2 DEF OnDisk
    <3>3. OnDisk(Len(wal), u, k) = Upto(History, Len(History), u, k) BY <1>1, DiskNow
    <3> QED BY <2>1, <3>1, <3>2, <3>3
  <2>3. CASE u = t
    <3> DEFINE r == rows'[t][k]
               last == LastImage(wal, Len(wal), t, k)
    <3>1. rows'[t] \in [Key -> Row] /\ r \in Row BY DEF FullTypeOK
    <3>2. Held(u)'[k] = Value(r) BY <2>3, <3>1, ValuesAt DEF Held
    <3>3. Held(u)[k] = Value(rows[t][k]) BY <2>3, HeldAt
    <3>4. OnDisk(Len(wal), u, k)' = Value(Outcome(wal, Len(wal), r, t, k))
      BY <1>2, <2>3 DEF OnDisk
    <3>5. Value(Outcome(wal, Len(wal), r, t, k)) = Value(r)
      <4>1. Records(wal, Len(wal), t, k) # {} => /\ r.live => r.ver >= last.ver
                                                 /\ r.live \/ ~last.live
        BY DEF RowsRight
      <4> QED BY <1>1, <3>1, <4>1, RowCovered
    <3> HIDE DEF r
    <3>6. Value(r) = Value(rows[t][k]) BY DEF r
    <3> QED BY <2>1, <3>2, <3>3, <3>4, <3>5, <3>6
  <2> QED BY <2>2, <2>3
<1>4. ASSUME NEW n \in synced..Len(wal), n >= Len(wal)
      PROVE  n = Len(wal) /\ Mark(n)' = Len(History)
  <2>1. n = Len(wal) BY <1>1, <1>4, Counters
  <2> QED BY <1>1, <2>1 DEF Mark
<1>5. Len(History) \in sure..Len(History)
  <2>1. Mark(Len(wal)) = Len(History) /\ Mark(Len(wal)) \in sure..Len(History)
    BY <1>1, DiskNow
  <2> QED BY <2>1
<1> QED BY <1>1, <1>3, <1>4, <1>5 DEF HistoryRight

(* The collector drops the tombstones. *)
LEMMA HistoryGcSound ==
  ASSUME FullTypeOK, FullTypeOK', TablesRight, Sound, NEW t \in Table, HistoryGc(t)
  PROVE  Sound'
<1>1. /\ stage = "idle" /\ stage' = "idle" /\ Exists(t) /\ t \notin locked /\ cat' = cat
      /\ wal' = wal /\ synced' = synced /\ snapAt' = Len(wal) /\ locked' = locked
      /\ dirty' = dirty /\ op' = op /\ acked' = acked /\ sure' = sure
  BY DEF HistoryGc, WriteFile, history
<1>2. /\ tv[t] \in Nat /\ tv'[t] = tv[t] + 1 /\ snap'[t] = rows'[t]
      /\ \A u \in Table : u # t => tv'[u] = tv[u] /\ rows'[u] = rows[u] /\ snap'[u] = snap[u]
      /\ \A k \in Key : rows'[t][k] = IF rows[t][k].live THEN rows[t][k] ELSE NoRow
  BY DEF HistoryGc, WriteFile, FullTypeOK, Exists
<1>3. \A u \in Table : Exists(u)' <=> Exists(u) BY <1>1, <1>2 DEF Exists, Absent
<1>4. CleanTables' BY <1>1, <1>2 DEF Sound, CleanTables
<1>5. LogRight'
  <2>1. \A i \in 1..Len(wal) : /\ wal[i].t \in Table
                               /\ \A k \in DOMAIN wal[i].new : wal[i].new[k].ver \in Nat
    BY WalType
  <2> QED BY <1>1, <1>2, <1>3, <2>1 DEF Sound, LogRight, Up, Unwritten
<1>6. OpRight' BY <1>1 DEF OpRight, Unwritten
<1>7. RowsRight'
  <2> SUFFICES ASSUME NEW u \in Table \ locked, Exists(u), NEW k \in Key
               PROVE  /\ snap'[u][k].live => \/ snap'[u][k].ver <= tv'[u]
                                                \/ snap'[u][k].ver <= rows'[u][k].ver
                      /\ Records(wal, Len(wal), u, k) # {} =>
                           /\ rows'[u][k].live => rows'[u][k].ver >= LastImage(wal, Len(wal), u, k).ver
                           /\ rows'[u][k].live \/ ~LastImage(wal, Len(wal), u, k).live
    BY <1>1, <1>3 DEF RowsRight
  <2>1. /\ snap[u][k].live => snap[u][k].ver <= tv[u] \/ snap[u][k].ver <= rows[u][k].ver
        /\ Records(wal, Len(wal), u, k) # {} =>
             /\ rows[u][k].live => rows[u][k].ver >= LastImage(wal, Len(wal), u, k).ver
             /\ rows[u][k].live \/ ~LastImage(wal, Len(wal), u, k).live
    BY <1>1 DEF Sound, RowsRight
  <2>2. CASE u # t BY <1>2, <2>1, <2>2
  <2>3. CASE u = t
    <3>1. rows[t][k].ver \in Nat BY RowType
    <3>2. CASE rows[t][k].live BY <1>2, <2>1, <2>3, <3>1, <3>2
    <3>3. CASE ~rows[t][k].live BY <1>2, <2>1, <2>3, <3>3, NoRowsType
    <3> QED BY <3>2, <3>3
  <2> QED BY <2>2, <2>3
<1>8. HistoryRight'
  <2>1. \A k \in Key : Value(rows'[t][k]) = Value(rows[t][k])
    BY <1>2, NoRowsType DEF Value
  <2> QED BY <1>1, <1>2, <1>3, <1>7, <2>1, IdleFile
<1> QED BY <1>4, <1>5, <1>6, <1>7, <1>8 DEF Sound

(* The rewrite of a table's file. *)
LEMMA RewriteTableSound ==
  ASSUME FullTypeOK, FullTypeOK', TablesRight, Sound, NEW t \in Table, RewriteTable(t)
  PROVE  Sound'
<1>1. /\ stage = "idle" /\ stage' = "idle" /\ Exists(t) /\ t \notin locked /\ cat' = cat
      /\ wal' = wal /\ synced' = synced /\ snapAt' = Len(wal) /\ locked' = locked
      /\ dirty' = dirty /\ op' = op /\ acked' = acked /\ sure' = sure /\ rows' = rows /\ tv' = tv
  BY DEF RewriteTable, WriteFile, history, memory
<1>2. snap'[t] = rows[t] /\ \A u \in Table : u # t => snap'[u] = snap[u]
  BY DEF RewriteTable, WriteFile, FullTypeOK
<1>3. \A u \in Table : Exists(u)' <=> Exists(u) BY <1>1 DEF Exists
<1>4. CleanTables' BY <1>1, <1>2 DEF Sound, CleanTables
<1>5. LogRight' BY <1>1 DEF Sound, LogRight, Up, Unwritten, Exists
<1>6. OpRight' BY <1>1 DEF OpRight, Unwritten
<1>7. RowsRight'
  <2>1. \A k \in Key : rows[t][k].ver \in Nat BY RowType
  <2> QED BY <1>1, <1>2, <1>3, <2>1 DEF Sound, RowsRight
<1>8. HistoryRight' BY <1>1, <1>2, <1>3, <1>7, IdleFile
<1> QED BY <1>4, <1>5, <1>6, <1>7, <1>8 DEF Sound

(* The locked tables are loaded: the log has no records of them. *)
LEMMA RegisterKeySound ==
  ASSUME FullTypeOK, Sound, RegisterKey
  PROVE  Sound'
<1>1. /\ stage = "idle" /\ stage' = stage /\ cat' = cat /\ snap' = snap /\ wal' = wal
      /\ synced' = synced /\ snapAt' = snapAt /\ tv' = tv /\ dirty' = dirty /\ op' = op
      /\ acked' = acked /\ sure' = sure /\ locked' = {}
      /\ \A t \in Table : rows'[t] = IF t \in locked THEN snap[t] ELSE rows[t]
  BY DEF RegisterKey, disk, history
<1>2. CleanTables' BY <1>1 DEF Sound, CleanTables
<1>3. LogRight' BY <1>1 DEF Sound, LogRight, Up, Unwritten, Exists
<1>4. OpRight' BY <1>1 DEF OpRight, Unwritten
<1>5. RowsRight'
  <2> SUFFICES ASSUME NEW t \in Table, Exists(t), NEW k \in Key
               PROVE  /\ snap[t][k].live => snap[t][k].ver <= tv[t] \/ snap[t][k].ver <= rows'[t][k].ver
                      /\ Records(wal, Len(wal), t, k) # {} =>
                           /\ rows'[t][k].live => rows'[t][k].ver >= LastImage(wal, Len(wal), t, k).ver
                           /\ rows'[t][k].live \/ ~LastImage(wal, Len(wal), t, k).live
    BY <1>1 DEF RowsRight, Exists
  <2>1. CASE t \in locked
    <3>1. Len(wal) \in Nat /\ \A i \in 1..Len(wal) : wal[i].t # t
      BY <2>1, HistoryType DEF Sound, LogRight
    <3>2. Records(wal, Len(wal), t, k) = {} BY <3>1, NoRecords
    <3>3. snap[t][k].ver \in Nat BY RowType
    <3> QED BY <1>1, <2>1, <3>2, <3>3
  <2>2. CASE t \notin locked BY <1>1, <2>2 DEF Sound, RowsRight
  <2> QED BY <2>1, <2>2
<1>6. HistoryRight'
  <2>1. History' = History /\ Up /\ Up' BY <1>1 DEF History, Effect, Up
  <2>2. \A n : Mark(n)' = Mark(n) BY <1>1, <2>1 DEF Mark
  <2>3. \A n, t, k : OnDisk(n, t, k)' = OnDisk(n, t, k) BY <1>1 DEF OnDisk
  <2>4. \A t \in Table : Held(t)' = Held(t) BY <1>1 DEF Held
  <2> QED BY <1>1, <2>1, <2>2, <2>3, <2>4 DEF Sound, HistoryRight
<1> QED BY <1>2, <1>3, <1>4, <1>5, <1>6 DEF Sound

(* A crash leaves some part of the log, and no file is ahead of it. *)
LEMMA CrashSound ==
  ASSUME FullTypeOK, FullTypeOK', Sound, odd' = {}, Crash
  PROVE  Sound'
<1>1. PICK n \in synced..Len(wal) :
        /\ wal' = SubSeq(wal, 1, n) /\ synced' = n
        /\ odd' = odd \cup (IF stage = "unlist" THEN {"dropped"} ELSE {})
                      \cup (IF n < snapAt THEN {"ahead"} ELSE {})
  BY DEF Crash
<1>2. n \in 0..Len(wal) /\ n \in Nat /\ wal \in Seq(Txn) /\ Len(wal) \in Nat
  <2>1. synced \in 0..Len(wal) BY DEF FullTypeOK
  <2> QED BY <2>1, HistoryType
<1>3. n >= snapAt /\ stage # "unlist"
  <2>1. /\ (IF stage = "unlist" THEN {"dropped"} ELSE {}) = {}
        /\ (IF n < snapAt THEN {"ahead"} ELSE {}) = {}
    BY <1>1
  <2>2. ~(n < snapAt) /\ stage # "unlist" BY <2>1
  <2> QED BY <1>2, <2>2, Counters
<1>4. wal' \in Seq(Txn) /\ Len(wal') = n /\ \A i \in 1..n : wal'[i] = wal[i]
  BY <1>1, <1>2, FirstElements
<1>5. /\ stage # "down" /\ stage' = "down" /\ cat' = cat /\ snap' = snap /\ locked' = {}
      /\ dirty' = {} /\ sure' = sure
  BY DEF Crash
<1>6. acked' = History BY <1>5 DEF Crash, History, Running, Unwritten, FullTypeOK, Stage
<1>7. CleanTables' BY <1>5 DEF CleanTables
<1>8. LogRight'
  <2>1. Increasing(wal') BY <1>1, <1>2, IncreasingPrefix DEF Sound, LogRight
  <2> QED BY <1>5, <2>1 DEF LogRight, Up
<1>9. OpRight' BY <1>5 DEF OpRight, Unwritten
<1>10. RowsRight' BY <1>5 DEF RowsRight
<1>11. HistoryRight'
  <2>1. ~Up' BY <1>5 DEF Up
  <2>2. ASSUME NEW t \in Table, NEW k \in Key PROVE OnDisk(n, t, k)' = OnDisk(n, t, k)
    <3>1. Outcome(wal', n, snap[t][k], t, k) = Outcome(wal, n, snap[t][k], t, k)
      <4>1. wal \in Seq(Txn) /\ wal' \in Seq(Txn) /\ n \in Nat /\ \A i \in 1..n : wal'[i] = wal[i]
        BY <1>2, <1>4
      <4> QED BY ONLY <4>1, OutcomePrefix
    <3> QED BY <1>5, <3>1 DEF OnDisk
  <2>3. \E m \in sure..Len(History) : \A t \in Table, k \in Key :
          OnDisk(n, t, k) = Upto(History, m, t, k)
    <3>1. CASE Up
      <4>1. Mark(n) \in sure..Len(History)
            /\ \A t \in Table, k \in Key : OnDisk(n, t, k) = Upto(History, Mark(n), t, k)
        BY <1>3, <3>1 DEF Sound, HistoryRight
      <4> QED BY <4>1
    <3>2. CASE ~Up
      <4>1. History = acked BY <3>2 DEF History, Up, Running, Unwritten
      <4>2. n = Len(wal) BY <1>2, <3>2 DEF Sound, HistoryRight
      <4> QED BY <3>2, <4>1, <4>2 DEF Sound, HistoryRight
    <3> QED BY <3>1, <3>2
  <2>4. PICK m \in sure'..Len(acked') : \A t \in Table, k \in Key :
          OnDisk(n, t, k) = Upto(acked', m, t, k)
    BY <1>5, <1>6, <2>3
  <2>5. \A t \in Table, k \in Key : OnDisk(Len(wal), t, k)' = Upto(acked', m, t, k)
    BY <1>4, <2>2, <2>4
  <2> QED BY <1>1, <1>4, <1>5, <2>1, <2>5 DEF HistoryRight
<1> QED BY <1>7, <1>8, <1>9, <1>10, <1>11 DEF Sound

(* The shutdown saves the catalog and is to write every table it can. *)
LEMMA ShutdownSound ==
  ASSUME FullTypeOK, TablesRight, Sound, Shutdown
  PROVE  Sound'
<1>1. /\ stage = "idle" /\ stage' = "shutdown" /\ cat' = tv /\ snap' = snap /\ wal' = wal
      /\ synced' = synced /\ snapAt' = snapAt /\ tv' = tv /\ rows' = rows /\ locked' = locked
      /\ dirty' = {t \in Table : Exists(t) /\ t \notin locked} /\ op' = op
      /\ acked' = acked /\ sure' = sure
  BY DEF Shutdown, history
<1>2. CleanTables'
  <2>1. \A t \in Table \ (dirty' \cup locked') : snap[t] = rows[t]
    BY <1>1 DEF TablesRight, Exists
  <2> QED BY <1>1, <2>1 DEF CleanTables
<1>3. LogRight' BY <1>1 DEF Sound, LogRight, Up, Unwritten, Exists
<1>4. OpRight' BY <1>1 DEF OpRight, Unwritten
<1>5. RowsRight' BY <1>1 DEF Sound, RowsRight, Exists
<1>6. HistoryRight'
  <2>1. History' = History /\ Up /\ Up'
    BY <1>1 DEF History, Effect, Running, Unwritten, Up
  <2>2. \A n : Mark(n)' = Mark(n) BY <1>1, <2>1 DEF Mark, Unwritten
  <2>3. \A n, t, k : t \in Table => OnDisk(n, t, k)' = OnDisk(n, t, k)
    BY <1>1 DEF OnDisk, TablesRight
  <2>4. \A t : Held(t)' = Held(t) BY <1>1 DEF Held
  <2> QED BY <1>1, <2>1, <2>2, <2>3, <2>4 DEF Sound, HistoryRight
<1> QED BY <1>2, <1>3, <1>4, <1>5, <1>6 DEF Sound

(* Its end: the files have everything. *)
LEMMA ShutdownEndSound ==
  ASSUME FullTypeOK, TablesRight, Sound, ShutdownEnd
  PROVE  Sound'
<1>1. /\ stage = "shutdown" /\ dirty = {} /\ stage' = "down" /\ cat' = cat /\ snap' = snap
      /\ wal' = <<>> /\ synced' = 0 /\ locked' = {} /\ dirty' = dirty
      /\ acked' = acked /\ sure' = sure
  BY DEF ShutdownEnd, Truncate, history
<1>2. \A t \in Table, k \in Key : Held(t)[k] = IF cat[t] = Absent THEN 0 ELSE Value(snap[t][k])
  BY <1>1, FilesComplete
<1>3. Len(wal') = 0 /\ Increasing(wal') BY <1>1, EmptyLog
<1>4. CleanTables' BY <1>1 DEF CleanTables
<1>5. LogRight' BY <1>3 DEF LogRight
<1>6. OpRight' BY <1>1 DEF OpRight, Unwritten
<1>7. RowsRight' BY <1>1 DEF RowsRight
<1>8. HistoryRight'
  <2>1. Up /\ ~Up' /\ History = acked BY <1>1 DEF Up, History, Running, Unwritten
  <2>2. ASSUME NEW t \in Table, NEW k \in Key
        PROVE  OnDisk(0, t, k)' = Upto(acked, Len(acked), t, k)
    <3>1. Held(t)[k] = Upto(acked, Len(acked), t, k) BY <2>1 DEF Sound, HistoryRight
    <3>2. OnDisk(0, t, k)' = IF cat[t] = Absent THEN 0 ELSE Value(snap[t][k])
      BY <1>1, EmptyLog DEF OnDisk
    <3> QED BY <1>2, <3>1, <3>2
  <2>3. \A t \in Table, k \in Key : OnDisk(Len(wal), t, k)' = Upto(acked, Len(acked), t, k)
    BY <1>3, <2>2
  <2>4. Len(acked) \in sure..Len(acked) BY Counters
  <2> QED BY <1>1, <1>3, <2>1, <2>3, <2>4 DEF HistoryRight
<1> QED BY <1>4, <1>5, <1>6, <1>7, <1>8 DEF Sound

(* The open replays the log onto the files of the tables that are not       *)
(* locked; the log has no records of those that are.                        *)
LEMMA OpenSound ==
  ASSUME FullTypeOK, FullTypeOK', TablesRight, Plain, Sound, odd' = {},
         NEW keyless \in BOOLEAN, Open(keyless)
  PROVE  Sound'
<1> DEFINE lk == IF keyless THEN {t \in Encrypted : snap[t] # NoRows} ELSE {}
           rep == Replayed(lk)
<1>1. lk \in SUBSET Table BY EngineWalAssumption
<1>2. /\ stage = "down" /\ stage' = "recover" /\ cat' = cat /\ snap' = snap /\ wal' = wal
      /\ synced' = synced /\ op' = op /\ acked' = acked /\ sure' = sure
      /\ locked' = lk /\ rows' = rep.rows /\ dirty' = rep.touched
      /\ tv' = [t \in Table |-> cat[t] + (IF t \in rep.touched THEN 1 ELSE 0)]
      /\ \A t \in lk : ~Logged(t)
  BY DEF Open, disk
<1> HIDE DEF lk
<1>3. /\ Increasing(wal) /\ wal \in Seq(Txn) /\ Len(wal) \in Nat BY HistoryType DEF Sound, LogRight
<1>4. \A t \in Table :
        /\ t \in rep.touched => t \notin lk /\ cat[t] # Absent
        /\ t \in lk => rep.rows[t] = NoRows
        /\ t \notin lk /\ (cat[t] = Absent \/ t \notin rep.touched) => rep.rows[t] = snap[t]
  BY <1>1, ReplayRight
<1>5. \A t \in Table \ lk, k \in Key : cat[t] # Absent =>
        rep.rows[t][k] = Outcome(wal, Len(wal), snap[t][k], t, k)
  BY <1>1, <1>3, ReplayRight
<1>6. rep.touched \in SUBSET Table BY <1>1, ReplayRight
<1> HIDE DEF rep
<1>7. \A t \in Table : Exists(t)' => cat[t] # Absent
  <2>1. \A t \in Table : tv'[t] = cat[t] + (IF t \in rep.touched THEN 1 ELSE 0) BY <1>2
  <2> QED BY <1>4, <2>1 DEF Exists, Absent
<1>8. CleanTables' BY <1>2, <1>4, <1>6 DEF CleanTables
<1>9. LogRight' BY <1>2, <1>3 DEF LogRight, Up, Logged
<1>10. OpRight' BY <1>2 DEF OpRight, Unwritten
<1>11. RowsRight'
  <2> SUFFICES ASSUME NEW t \in Table \ lk, Exists(t)', NEW k \in Key
               PROVE  /\ snap[t][k].live => snap[t][k].ver <= rep.rows[t][k].ver
                      /\ Records(wal, Len(wal), t, k) # {} =>
                           /\ rep.rows[t][k].live =>
                                rep.rows[t][k].ver >= LastImage(wal, Len(wal), t, k).ver
                           /\ rep.rows[t][k].live \/ ~LastImage(wal, Len(wal), t, k).live
    BY <1>2 DEF RowsRight
  <2> DEFINE r == snap[t][k]
             last == LastImage(wal, Len(wal), t, k)
  <2>1. rep.rows[t][k] = Outcome(wal, Len(wal), r, t, k) BY <1>5, <1>7
  <2>2. r \in Row /\ r.ver \in Nat /\ Len(wal) \in 0..Len(wal) BY <1>3, RowType
  <2>3. CASE Records(wal, Len(wal), t, k) = {}
    <3>1. rep.rows[t][k] = r BY <1>3, <2>1, <2>2, <2>3, OutcomeRight
    <3> QED BY <2>2, <2>3, <3>1
  <2>4. CASE Records(wal, Len(wal), t, k) # {}
    <3>1. last \in Row /\ rep.rows[t][k] = IF r.live /\ r.ver >= last.ver THEN r ELSE last
      BY <1>3, <2>1, <2>2, <2>4, OutcomeRight
    <3>2. last.ver \in Nat BY <3>1 DEF Row
    <3> HIDE DEF last, r
    <3>3. CASE r.live /\ r.ver >= last.ver
      <4>1. rep.rows[t][k] = r BY <3>1, <3>3
      <4> QED BY <2>2, <3>2, <3>3, <4>1 DEF r, last
    <3>4. CASE ~(r.live /\ r.ver >= last.ver)
      <4>1. rep.rows[t][k] = last BY <3>1, <3>4
      <4> QED BY <2>2, <3>2, <3>4, <4>1 DEF r, last
    <3> QED BY <3>3, <3>4
  <2> QED BY <2>3, <2>4
<1>12. HistoryRight'
  <2>1. ~Up /\ ~Up' BY <1>2 DEF Up
  <2>2. PICK m \in sure..Len(acked) : \A t \in Table, k \in Key :
          OnDisk(Len(wal), t, k) = Upto(acked, m, t, k)
    BY <2>1 DEF Sound, HistoryRight
  <2>3. \A t, k : OnDisk(Len(wal), t, k)' = OnDisk(Len(wal), t, k) BY <1>2 DEF OnDisk
  <2>4. ASSUME NEW t \in Table, NEW k \in Key PROVE Held(t)'[k] = OnDisk(Len(wal), t, k)
    <3>1. cat[t] = Absent => snap[t] = NoRows BY <1>2 DEF TablesRight
    <3>2. snap[t] \in [Key -> Row] /\ rep.rows[t] \in [Key -> Row] BY <1>2 DEF FullTypeOK
    <3>3. Held(t)'[k] = IF t \in lk THEN Value(snap[t][k]) ELSE Value(rep.rows[t][k])
      BY <1>2, <3>2, ValuesAt DEF Held
    <3>4. CASE t \in lk
      <4>1. \A i \in 1..Len(wal) : wal[i].t # t BY <1>2, <3>4 DEF Logged
      <4>2. Outcome(wal, Len(wal), snap[t][k], t, k) = snap[t][k] BY <1>3, <4>1, NoRecords
      <4> QED BY <3>1, <3>3, <3>4, <4>2, NoRowsType DEF OnDisk
    <3>5. CASE t \notin lk /\ cat[t] = Absent
      BY <1>4, <3>1, <3>3, <3>5, NoRowsType DEF OnDisk
    <3>6. CASE t \notin lk /\ cat[t] # Absent
      BY <1>5, <3>3, <3>6 DEF OnDisk
    <3> QED BY <3>4, <3>5, <3>6
  <2>5. synced = Len(wal) BY <2>1 DEF Sound, HistoryRight
  <2> QED BY <1>2, <2>1, <2>2, <2>3, <2>4, <2>5 DEF HistoryRight
<1> QED BY <1>8, <1>9, <1>10, <1>11, <1>12 DEF Sound

(* The values of the model's history are those of the invariant's. *)
LEMMA AfterUpto ==
  ASSUME NEW n, NEW t \in Table
  PROVE  After(n)[t] = [k \in Key |-> Upto(acked, n, t, k)]
BY DEF After, Upto

(* A client finds what a prefix of the history says. *)
LEMMA HeldAfter ==
  ASSUME FullTypeOK, NEW n
  PROVE  (\A t \in Table : Held(t) = After(n)[t]) <=>
           \A t \in Table, k \in Key : Held(t)[k] = Upto(acked, n, t, k)
<1>1. ASSUME NEW t \in Table
      PROVE  Held(t) = After(n)[t] <=> \A k \in Key : Held(t)[k] = Upto(acked, n, t, k)
  <2>1. After(n)[t] = [k \in Key |-> Upto(acked, n, t, k)] BY AfterUpto
  <2>2. \E r \in [Key -> Row] : Held(t) = Values(r) BY DEF Held, FullTypeOK
  <2>3. Held(t) = [k \in Key |-> Held(t)[k]] BY <2>2 DEF Values
  <2> QED BY <2>1, <2>3
<1> QED BY <1>1

(* The end of the recovery finds the prefix that was recovered. *)
LEMMA RecoverEndSound ==
  ASSUME FullTypeOK, FullTypeOK', TablesRight, Sound, RecoverEnd
  PROVE  Sound'
<1>1. /\ stage = "recover" /\ dirty = {} /\ stage' = "idle" /\ cat' = cat /\ snap' = snap
      /\ wal' = <<>> /\ synced' = 0 /\ snapAt' = 0 /\ tv' = tv /\ rows' = rows
      /\ locked' = locked /\ dirty' = dirty
  BY DEF RecoverEnd, Truncate, memory
<1>2. /\ \A t \in Table \ locked : snap[t] = rows[t]
      /\ \A t \in Table, k \in Key :
           Held(t)[k] = IF cat[t] = Absent THEN 0 ELSE Value(snap[t][k])
  BY <1>1, FilesComplete
<1>3. Len(wal') = 0 /\ Increasing(wal') /\ \A t, k : Records(wal', Len(wal'), t, k) = {}
  BY <1>1, EmptyLog
<1>4. CleanTables' BY <1>1, <1>2 DEF CleanTables
<1>5. LogRight' BY <1>3 DEF LogRight
<1>6. OpRight' BY <1>1 DEF OpRight, Unwritten
<1>7. RowsRight'
  <2>1. \A t \in Table, k \in Key : rows[t][k].ver \in Nat BY RowType
  <2> QED BY <1>1, <1>2, <1>3, <2>1 DEF RowsRight
<1>8. HistoryRight'
  <2>1. ~Up /\ Up' /\ stage' \notin Unwritten /\ stage' \notin Running /\ stage' # "unlist"
    BY <1>1 DEF Up, Running, Unwritten
  <2>2. PICK m \in sure..Len(acked) : \A t \in Table, k \in Key :
          Held(t)[k] = Upto(acked, m, t, k)
    BY <1>1, <2>1 DEF Sound, HistoryRight
  <2>3. m \in Agreeing BY <2>2, HeldAfter DEF Agreeing
  <2> DEFINE p == Max(Agreeing)
  <2>4. p \in Agreeing
    <3>1. Agreeing \in SUBSET (0..Len(acked)) /\ Len(acked) \in Nat BY Counters DEF Agreeing
    <3> QED BY <2>3, <3>1, MaxRight
  <2>5. acked' = SubSeq(acked, 1, p) /\ sure' = p BY <2>3 DEF RecoverEnd
  <2> HIDE DEF p
  <2>6. p \in sure..Len(acked) /\ \A t \in Table : Held(t) = After(p)[t] BY <2>4 DEF Agreeing
  <2>7. \A t \in Table, k \in Key : Held(t)[k] = Upto(acked, p, t, k) BY <2>6, HeldAfter
  <2>8. p \in 0..Len(acked) /\ p \in Nat /\ acked \in Seq(Effects)
    BY <2>6, Counters, HistoryType
  <2>9. acked' \in Seq(Effects) /\ Len(acked') = p /\ \A i \in 1..p : acked'[i] = acked[i]
    BY <2>5, <2>8, FirstElements
  <2>10. History' = acked' BY <2>1 DEF History
  <2>11. ASSUME NEW t \in Table, NEW k \in Key
         PROVE  /\ Held(t)'[k] = Upto(acked', p, t, k)
                /\ OnDisk(0, t, k)' = Upto(acked', p, t, k)
    <3>1. Upto(acked', p, t, k) = Upto(acked, p, t, k)
      <4>1. /\ acked \in Seq(Effects) /\ acked' \in Seq(Effects) /\ p \in Nat
            /\ \A i \in 1..p : acked'[i] = acked[i]
        BY <2>8, <2>9
      <4> QED BY ONLY <4>1, UptoPrefix
    <3>2. Held(t)' = Held(t) BY <1>1 DEF Held
    <3>3. OnDisk(0, t, k)' = IF cat[t] = Absent THEN 0 ELSE Value(snap[t][k])
      BY <1>1, EmptyLog DEF OnDisk
    <3> QED BY <1>2, <2>7, <3>1, <3>2, <3>3
  <2>12. Mark(0)' = p BY <1>3, <2>1, <2>8, <2>9, <2>10 DEF Mark
  <2>13. \A n \in 0..0 : n = 0 OBVIOUS
  <2>14. p \in sure'..Len(acked') BY <2>5, <2>8, <2>9
  <2> QED BY <1>1, <1>3, <2>1, <2>9, <2>10, <2>11, <2>12, <2>13, <2>14 DEF HistoryRight
<1> QED BY <1>4, <1>5, <1>6, <1>7, <1>8 DEF Sound

-----------------------------------------------------------------------------
(* The theorems *)

(* What went wrong once is remembered. *)
LEMMA OddStays ==
  ASSUME FullTypeOK, Next, odd' = {}
  PROVE  odd = {}
<1>1. CASE Statement BY <1>1, StatementStarts DEF Started, Start, Refused, Bail
<1>2. CASE DiskStep
  BY <1>2 DEF DiskStep, PersistCatalog, LogRow, Sync, Defer, PersistDirect, FlushEnd, Unlist,
              ShutdownEnd, RecoverEnd, FlushTable, Acknowledge, history
<1>3. CASE TableStep
  BY <1>3 DEF TableStep, DropTable, CreateTable, HistoryGc, RewriteTable, history
<1>4. CASE RegisterKey \/ Shutdown BY <1>4 DEF RegisterKey, Shutdown, history
<1>5. CASE Crash BY <1>5 DEF Crash
<1>6. CASE \E keyless \in BOOLEAN : Open(keyless) BY <1>6 DEF Open
<1> QED BY <1>1, <1>2, <1>3, <1>4, <1>5, <1>6 DEF Next

(* Second images are one of the ways out. *)
LEMMA PlainStep ==
  ASSUME FullTypeOK, Plain, Next, odd' = {}
  PROVE  Plain'
<1>0. wal \in Seq(Txn) /\ Len(wal) \in Nat BY HistoryType
<1>1. CASE Statement
  <2>1. Started BY <1>1, StatementStarts DEF Refused, Bail
  <2>2. PICK t \in Table, new \in Images, more \in Images, mem \in [Key -> Row],
             direct \in BOOLEAN, saves \in BOOLEAN : Start(t, new, more, mem, direct, saves)
    BY <2>1 DEF Started
  <2>3. op'.more = more /\ DOMAIN more = {} /\ wal' = wal BY <2>2 DEF Start, disk
  <2> QED BY <2>3 DEF Plain
<1>2. CASE LogRow
  <2>1. wal' = Append(wal, [t |-> op.t, new |-> op.new, more |-> op.more]) /\ op' = op
    BY <1>2 DEF LogRow
  <2>2. Len(wal') = Len(wal) + 1 /\ wal'[Len(wal')].more = op.more
        /\ \A i \in 1..Len(wal) : wal'[i] = wal[i]
    <3>1. [t |-> op.t, new |-> op.new, more |-> op.more] \in Txn BY DEF FullTypeOK, Op, Txn
    <3> QED BY <1>0, <2>1, <3>1
  <2>3. \A i \in 1..Len(wal') : i \in 1..Len(wal) \/ i = Len(wal') BY <1>0, <2>2
  <2> QED BY <2>1, <2>2, <2>3 DEF Plain
<1>3. CASE PersistCatalog \/ Sync \/ Defer \/ PersistDirect \/ Unlist \/ RegisterKey \/ Shutdown
  BY <1>3 DEF PersistCatalog, Sync, Defer, PersistDirect, Unlist, RegisterKey, Shutdown, disk, Plain
<1>4. CASE FlushEnd \/ ShutdownEnd \/ RecoverEnd
  <2>1. wal' = <<>> /\ op' = op BY <1>4 DEF FlushEnd, ShutdownEnd, RecoverEnd, Truncate
  <2> QED BY <2>1 DEF Plain
<1>5. ASSUME NEW t \in Table, FlushTable(t) PROVE Plain' BY <1>5 DEF FlushTable, Plain
<1>6. ASSUME NEW t \in Table, DropTable(t) PROVE Plain'
  <2>1. op'.more = <<>> /\ wal' = wal /\ DOMAIN <<>> = {} BY <1>6 DEF DropTable
  <2> QED BY <2>1 DEF Plain
<1>7. ASSUME NEW t \in Table, CreateTable(t) \/ HistoryGc(t) \/ RewriteTable(t) PROVE Plain'
  BY <1>7 DEF CreateTable, HistoryGc, RewriteTable, Plain
<1>8. CASE Crash
  <2>1. PICK n \in synced..Len(wal) : wal' = SubSeq(wal, 1, n) BY <1>8 DEF Crash
  <2>2. n \in 0..Len(wal) /\ n \in Nat BY Counters, <2>1
  <2>3. Len(wal') = n /\ \A i \in 1..n : wal'[i] = wal[i] BY <1>0, <2>1, <2>2, FirstElements
  <2>4. op' = op /\ \A i \in 1..n : i \in 1..Len(wal) BY <1>0, <1>8, <2>2 DEF Crash
  <2> QED BY <2>3, <2>4 DEF Plain
<1>9. ASSUME NEW keyless \in BOOLEAN, Open(keyless) PROVE Plain' BY <1>9 DEF Open, disk, Plain
<1> QED
  BY <1>1, <1>2, <1>3, <1>4, <1>5, <1>6, <1>7, <1>8, <1>9 DEF Next, DiskStep, TableStep

(* Every step of a sound state leads to one, unless the step is one of the  *)
(* known ways out.                                                          *)
LEMMA SoundStep ==
  ASSUME FullTypeOK, FullTypeOK', TablesRight, Plain, Sound, Next, odd' = {}
  PROVE  Sound'
<1>1. CASE Statement
  <2>1. Started BY <1>1, StatementStarts DEF Refused, Bail
  <2>2. PICK t \in Table, new \in Images, more \in Images, mem \in [Key -> Row],
             direct \in BOOLEAN, saves \in BOOLEAN :
          /\ Start(t, new, more, mem, direct, saves)
          /\ DOMAIN more = {} => Valid(t, new, mem, direct, saves)
    BY <2>1 DEF Started
  <2>3. DOMAIN more = {} BY <2>2 DEF Start
  <2> QED BY <2>2, <2>3, StartSound
<1>2. CASE PersistCatalog BY <1>2, PersistCatalogSound
<1>3. CASE LogRow BY <1>3, LogRowSound
<1>4. CASE Sync BY <1>4, SyncSound
<1>5. CASE Defer BY <1>5, DeferSound
<1>6. CASE PersistDirect BY <1>6, PersistDirectSound
<1>7. CASE FlushEnd BY <1>7, FlushEndSound
<1>8. CASE Unlist BY <1>8, UnlistSound
<1>9. CASE ShutdownEnd BY <1>9, ShutdownEndSound
<1>10. CASE RecoverEnd BY <1>10, RecoverEndSound
<1>11. ASSUME NEW t \in Table, FlushTable(t) PROVE Sound' BY <1>11, FlushTableSound
<1>12. ASSUME NEW t \in Table, DropTable(t) PROVE Sound' BY <1>12, DropTableSound
<1>13. ASSUME NEW t \in Table, CreateTable(t) PROVE Sound' BY <1>13, CreateTableSound
<1>14. ASSUME NEW t \in Table, HistoryGc(t) PROVE Sound' BY <1>14, HistoryGcSound
<1>15. ASSUME NEW t \in Table, RewriteTable(t) PROVE Sound' BY <1>15, RewriteTableSound
<1>16. CASE RegisterKey BY <1>16, RegisterKeySound
<1>17. CASE Shutdown BY <1>17, ShutdownSound
<1>18. CASE Crash BY <1>18, CrashSound
<1>19. ASSUME NEW keyless \in BOOLEAN, Open(keyless) PROVE Sound' BY <1>19, OpenSound
<1> QED
  BY <1>1, <1>2, <1>3, <1>4, <1>5, <1>6, <1>7, <1>8, <1>9, <1>10, <1>11, <1>12, <1>13, <1>14,
     <1>15, <1>16, <1>17, <1>18, <1>19 DEF Next, DiskStep, TableStep

(* A new engine: empty files, an empty log. *)
LEMMA InitInv ==
  ASSUME Init
  PROVE  IndInv
<1>1. NoOp \in Op /\ DOMAIN <<>> = {}
  <2>1. (CHOOSE t \in Table : TRUE) \in Table BY EngineWalAssumption
  <2>2. {} \in SUBSET Key /\ <<>> \in [{} -> Row] OBVIOUS
  <2>3. <<>> \in Images BY <2>2, IsImage
  <2> QED BY <2>1, <2>3 DEF NoOp, Op
<1>2. FullTypeOK /\ Plain
  <2>1. FullTypeOK BY <1>1, NoRowsType, EngineWalAssumption DEF Init, FullTypeOK, Stage
  <2>2. Plain BY DEF Init, NoOp, Plain
  <2> QED BY <2>1, <2>2
<1>3. TablesRight BY <1>2 DEF Init, TablesRight, Absent
<1>4. /\ wal = <<>> /\ Len(wal) = 0 /\ Increasing(wal) /\ stage = "idle" /\ acked = <<>>
      /\ synced = 0 /\ snapAt = 0 /\ sure = 0 /\ locked = {} /\ snap = rows
      /\ \A t \in Table : snap[t] = NoRows
      /\ \A t, k : Records(wal, Len(wal), t, k) = {}
  BY EmptyLog DEF Init
<1>5. CleanTables BY <1>4 DEF Init, CleanTables
<1>6. LogRight BY <1>4 DEF LogRight
<1>7. OpRight BY <1>4 DEF OpRight, Unwritten
<1>8. RowsRight BY <1>4, NoRowsType DEF RowsRight
<1>9. HistoryRight
  <2>1. Up /\ History = <<>> /\ Len(History) = 0 /\ stage \notin Unwritten
    BY <1>4 DEF Up, History, Running, Unwritten
  <2>2. \A t, k : Upto(History, 0, t, k) = 0 BY DEF Upto
  <2>3. Mark(0) = 0 BY <1>4, <2>1 DEF Mark
  <2>4. ASSUME NEW t \in Table, NEW k \in Key PROVE Held(t)[k] = 0 /\ OnDisk(0, t, k) = 0
    <3>1. Held(t)[k] = 0 BY <1>2, <1>4, HeldAt, NoRowsType
    <3>2. OnDisk(0, t, k) = 0 BY <1>4, EmptyLog, NoRowsType DEF OnDisk
    <3> QED BY <3>1, <3>2
  <2>5. \A n \in 0..0 : n = 0 OBVIOUS
  <2> QED BY <1>4, <2>1, <2>2, <2>3, <2>4, <2>5 DEF HistoryRight
<1> QED BY <1>2, <1>3, <1>5, <1>6, <1>7, <1>8, <1>9 DEF IndInv, Sound

(* Stuttering. *)
LEMMA StutterInv ==
  ASSUME IndInv, UNCHANGED vars
  PROVE  IndInv'
<1>1. /\ UNCHANGED <<cat, snap, wal, synced, snapAt, tv, rows, locked, dirty, since, stage, op>>
      /\ UNCHANGED <<acked, sure, odd, stmts, drops, crashes>>
  BY DEF vars, disk, memory, history, bounds
<1>2. FullTypeOK' BY <1>1 DEF IndInv, FullTypeOK
<1>3. TablesRight' BY <1>1 DEF IndInv, TablesRight, Exists
<1>4. ASSUME odd' = {} PROVE Plain' /\ Sound'
  <2>1. Sound BY <1>1, <1>4 DEF IndInv
  <2>2. CleanTables' /\ LogRight' /\ OpRight' /\ RowsRight'
    BY <1>1, <2>1 DEF Sound, CleanTables, LogRight, OpRight, RowsRight, Up, Exists
  <2>3. HistoryRight'
    <3>1. History' = History /\ (Up' <=> Up) BY <1>1 DEF History, Effect, Up
    <3>2. \A n : Mark(n)' = Mark(n) BY <1>1, <3>1 DEF Mark
    <3>3. \A n, t, k : OnDisk(n, t, k)' = OnDisk(n, t, k) BY <1>1 DEF OnDisk
    <3>4. \A t : Held(t)' = Held(t) BY <1>1 DEF Held
    <3> QED BY <1>1, <2>1, <3>1, <3>2, <3>3, <3>4 DEF Sound, HistoryRight
  <2>4. Plain' BY <1>1, <1>4 DEF IndInv, Plain
  <2> QED BY <2>2, <2>3, <2>4 DEF Sound
<1> QED BY <1>2, <1>3, <1>4 DEF IndInv

(* The invariant holds in every state of every run of the engine. *)
THEOREM Inductive == Spec => []IndInv
<1>1. Init => IndInv BY InitInv
<1>2. IndInv /\ [Next]_vars => IndInv'
  <2>1. ASSUME IndInv, Next PROVE IndInv'
    <3>1. FullTypeOK' BY <2>1, TypeStep DEF IndInv
    <3>2. TablesRight' BY <2>1, TablesStep DEF IndInv
    <3>3. ASSUME odd' = {} PROVE Plain' /\ Sound'
      <4>1. odd = {} BY <2>1, <3>3, OddStays DEF IndInv
      <4> QED BY <2>1, <3>1, <3>3, <4>1, PlainStep, SoundStep DEF IndInv
    <3> QED BY <3>1, <3>2, <3>3 DEF IndInv
  <2> QED BY <2>1, StutterInv
<1> QED BY <1>1, <1>2, PTL DEF Spec

(* Every variable has its type: the records of the log are images of rows   *)
(* of existing tables, the counters stay within the log and the history.    *)
THEOREM TypeCorrect == Spec => []TypeOK
<1>1. IndInv => TypeOK
  <2> SUFFICES ASSUME FullTypeOK PROVE TypeOK BY DEF IndInv
  <2>1. ASSUME NEW i \in 1..Len(wal) 
        PROVE  wal[i].t \in Table /\ IsImages(wal[i].new) /\ IsImages(wal[i].more)
    <3>1. wal \in Seq(Txn) BY HistoryType
    <3>2. wal[i] \in Txn BY <3>1
    <3>3. wal[i].t \in Table /\ wal[i].new \in Images /\ wal[i].more \in Images BY <3>2 DEF Txn
    <3> QED BY <3>3, ImagesType DEF IsImages
  <2>2. op.t \in Table /\ op.new \in Images /\ op.more \in Images /\ op.direct \in BOOLEAN
    BY DEF FullTypeOK, Op
  <2>3. IsImages(op.new) /\ IsImages(op.more) BY <2>2, ImagesType DEF IsImages
  <2> QED BY <2>1, <2>2, <2>3 DEF FullTypeOK, TypeOK, Ways
<1> QED BY <1>1, Inductive, PTL

(* No acknowledged write that was forced to disk is lost by any number of   *)
(* crashes, and no refused or undone one comes back: when the engine is     *)
(* idle, memory has the effects of the whole (cut) history, unless one of   *)
(* the six known ways out was taken: a version counter that went back, a    *)
(* dropped table, a locked one, a file ahead of the log, a key given up and *)
(* taken again by one update, or a statement refused midway.                *)
THEOREM AcknowledgedSurvive == Spec => []AcknowledgedSurvives
<1>1. IndInv => AcknowledgedSurvives
  <2> SUFFICES ASSUME FullTypeOK, Sound, stage = "idle"
               PROVE  \A t \in Table : Held(t) = After(Len(acked))[t]
    BY DEF IndInv, AcknowledgedSurvives, RecoversPrefix
  <2>1. Up /\ History = acked BY DEF Up, History, Running, Unwritten
  <2>2. \A t \in Table, k \in Key : Held(t)[k] = Upto(acked, Len(acked), t, k)
    BY <2>1 DEF Sound, HistoryRight
  <2> QED BY <2>2, HeldAfter
<1> QED BY <1>1, Inductive, PTL

(* The replay of the log onto the files gives the rows that are in memory,  *)
(* whenever the engine is idle.                                             *)
THEOREM LogCoversRows == Spec => []LogCoversMemory
<1>1. IndInv => LogCoversMemory
  <2> SUFFICES ASSUME FullTypeOK, TablesRight, Plain, Sound, stage = "idle", locked = {},
                      NEW t \in Table, Exists(t)
               PROVE  Values(Replayed({}).rows[t]) = Values(rows[t])
    BY DEF IndInv, LogCoversMemory
  <2> DEFINE rep == Replayed({}).rows[t]
  <2>1. {} \in SUBSET Table /\ cat[t] # Absent /\ Increasing(wal)
    BY DEF TablesRight, Exists, Sound, LogRight
  <2>2. /\ rep \in [Key -> Row]
        /\ \A k \in Key : rep[k] = Outcome(wal, Len(wal), snap[t][k], t, k)
    BY <2>1, ReplayRight
  <2> HIDE DEF rep
  <2>3. Up /\ stage \notin Unwritten BY DEF Up, Unwritten
  <2>4. ASSUME NEW k \in Key PROVE Value(rep[k]) = Value(rows[t][k])
    <3>1. Value(rep[k]) = OnDisk(Len(wal), t, k) BY <2>1, <2>2 DEF OnDisk
    <3>2. OnDisk(Len(wal), t, k) = Upto(History, Len(History), t, k)
      BY <2>3, DiskNow, HistoryType
    <3>3. Held(t)[k] = Upto(History, Len(History), t, k) BY <2>3 DEF Sound, HistoryRight
    <3>4. Held(t)[k] = Value(rows[t][k]) BY HeldAt
    <3> QED BY <3>1, <3>2, <3>3, <3>4
  <2>5. rows[t] \in [Key -> Row] BY DEF FullTypeOK
  <2> QED BY <2>2, <2>4, <2>5 DEF Values, rep
<1> QED BY <1>1, Inductive, PTL

(* With a forced log after every commit, no file is written while a         *)
(* transaction is not yet on disk.                                          *)
FilesBehind ==
  Batch = 1 => /\ snapAt <= synced
               /\ stage # "sync" => synced = Len(wal)
               /\ "ahead" \notin odd

(* Power loss never leaves a file ahead of the log when wal_sync_batch is   *)
(* 1: the fourth way out needs the group commit.                            *)
THEOREM NeverAhead == Spec => [](Batch = 1 => "ahead" \notin odd)
<1>1. Init => FilesBehind BY DEF Init, FilesBehind
<1>2. IndInv /\ FilesBehind /\ [Next]_vars => FilesBehind'
  <2> SUFFICES ASSUME FullTypeOK, FilesBehind, [Next]_vars, Batch = 1 PROVE FilesBehind'
    BY DEF IndInv, FilesBehind
  <2> USE DEF FilesBehind
  <2>0. /\ wal \in Seq(Txn) /\ Len(wal) \in Nat /\ synced \in 0..Len(wal) /\ snapAt \in 0..Len(wal)
    BY HistoryType DEF FullTypeOK
  <2>1. CASE Statement
    <3>1. UNCHANGED <<synced, snapAt, wal>> /\ (stage' = "sync" => stage = "sync")
      BY <2>1, StatementStarts DEF Started, Start, Refused, Bail, disk
    <3>2. stage = "idle" /\ ("ahead" \in odd' => "ahead" \in odd)
      BY <2>1, StatementStarts DEF Started, Start, Refused, Bail
    <3> QED BY <3>1, <3>2
  <2>2. CASE LogRow
    <3>1. synced = Len(wal) /\ Len(wal') = Len(wal) + 1 BY <2>0, <2>2 DEF LogRow
    <3>2. stage' = "sync" BY <2>0, <2>2, <3>1 DEF LogRow
    <3> QED BY <2>2, <3>2 DEF LogRow, history
  <2>3. CASE Sync BY <2>0, <2>3 DEF Sync, history
  <2>4. CASE PersistCatalog \/ Unlist
    BY <2>4 DEF PersistCatalog, Unlist, Acknowledge, history
  <2>5. CASE Defer BY <2>5 DEF Defer, Acknowledge, disk, history
  <2>6. CASE PersistDirect BY <2>0, <2>6 DEF PersistDirect, WriteFile, Acknowledge, history
  <2>7. CASE FlushEnd \/ ShutdownEnd \/ RecoverEnd
    <3>1. wal' = <<>> /\ synced' = 0 /\ snapAt' = 0 /\ odd' = odd
      BY <2>7 DEF FlushEnd, ShutdownEnd, RecoverEnd, Truncate, Acknowledge, history
    <3> QED BY <3>1
  <2>8. ASSUME NEW t \in Table, FlushTable(t) PROVE FilesBehind'
    BY <2>0, <2>8 DEF FlushTable, WriteFile, history
  <2>9. CASE TableStep
    BY <2>0, <2>9 DEF TableStep, DropTable, CreateTable, HistoryGc, RewriteTable, WriteFile,
                      history
  <2>10. CASE RegisterKey \/ Shutdown BY <2>10 DEF RegisterKey, Shutdown, disk, history
  <2>11. CASE Crash
    <3>1. PICK n \in synced..Len(wal) :
            /\ wal' = SubSeq(wal, 1, n) /\ synced' = n /\ snapAt' = 0
            /\ odd' = odd \cup (IF stage = "unlist" THEN {"dropped"} ELSE {})
                          \cup (IF n < snapAt THEN {"ahead"} ELSE {})
      BY <2>11 DEF Crash
    <3>2. n \in 0..Len(wal) /\ ~(n < snapAt) BY <2>0
    <3>3. Len(wal') = n BY <2>0, <3>1, <3>2, FirstElements
    <3> QED BY <3>1, <3>2, <3>3
  <2>12. CASE \E keyless \in BOOLEAN : Open(keyless) BY <2>12 DEF Open, disk
  <2>13. CASE UNCHANGED vars BY <2>13 DEF vars, disk, history
  <2> QED
    BY <2>1, <2>2, <2>3, <2>4, <2>5, <2>6, <2>7, <2>8, <2>9, <2>10, <2>11, <2>12, <2>13
    DEF Next, DiskStep
<1>3. FilesBehind => (Batch = 1 => "ahead" \notin odd) BY DEF FilesBehind
<1> QED BY <1>1, <1>2, <1>3, Inductive, PTL DEF Spec
=============================================================================
