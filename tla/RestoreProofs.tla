--------------------------- MODULE RestoreProofs ---------------------------
(***************************************************************************)
(* Theorems about Restore, for every schema whose tables are created after *)
(* the tables they refer to, every content, and any number of people.      *)
(***************************************************************************)
EXTENDS Restore, TLAPS

-----------------------------------------------------------------------------
(* Tables and their order *)

LEMMA Positions ==
  /\ Len(Order) \in Nat /\ DOMAIN Order = 1..Len(Order)
  /\ \A j \in 1..Len(Order) : Order[j] \in Tables /\ Position(Order[j]) = j
  /\ \A t \in Tables : Position(t) \in 1..Len(Order) /\ Order[Position(t)] = t
<1>1. Len(Order) \in Nat /\ DOMAIN Order = 1..Len(Order)
  <2>1. Order \in Seq(Tables)
    BY RestoreAssumption
  <2> QED
    BY <2>1
<1>2. \A t \in Tables : Position(t) \in DOMAIN Order /\ Order[Position(t)] = t
  <2>1. SUFFICES ASSUME NEW t \in Tables
                 PROVE  Position(t) \in DOMAIN Order /\ Order[Position(t)] = t
    OBVIOUS
  <2>2. \E i \in DOMAIN Order : Order[i] = t
    BY RestoreAssumption
  <2> QED
    BY <2>2 DEF Position
<1>3. \A j \in DOMAIN Order : Order[j] \in Tables
  BY RestoreAssumption
<1>4. \A j \in DOMAIN Order : Position(Order[j]) = j
  <2>1. SUFFICES ASSUME NEW j \in DOMAIN Order PROVE Position(Order[j]) = j
    OBVIOUS
  <2>2. Position(Order[j]) \in DOMAIN Order /\ Order[Position(Order[j])] = Order[j]
    BY <1>2, <1>3
  <2> QED
    BY <2>2, RestoreAssumption
<1> QED
  BY <1>1, <1>2, <1>3, <1>4

\* Every name has a place of its own, the tables' before that of a foreign one.
LEMMA Places ==
  /\ \A t \in Tables : t # Null /\ Place(t) = Position(t)
  /\ \A t \in Tables \cup {Null} : Place(t) \in Nat
  /\ \A t, u \in Tables \cup {Null} : Place(t) = Place(u) => t = u
<1>1. \A t \in Tables : t # Null /\ Place(t) = Position(t)
  BY RestoreAssumption DEF Place
<1>2. Place(Null) = Len(Order) + 1
  BY DEF Place
<1>3. \A t \in Tables \cup {Null} : Place(t) \in Nat
  BY <1>1, <1>2, Positions
<1>4. ASSUME NEW t \in Tables, NEW u \in Tables, Place(t) = Place(u) PROVE t = u
  BY <1>1, <1>4, Positions
<1>5. \A t \in Tables : Place(t) # Place(Null)
  BY <1>1, <1>2, Positions
<1> QED
  BY <1>3, <1>1, <1>4, <1>5

LEMMA Bounds == TTL \in Nat /\ MaxTokens \in Nat
BY RestoreAssumption

LEMMA ContentOf ==
  ASSUME NEW db \in Content, NEW t \in Tables, NEW r \in db[t]
  PROVE  /\ r \in Row /\ r.id \in Ids /\ r.refs \subseteq ForeignKeys \X Ids
         /\ \A f \in r.refs : /\ f[1] \in ForeignKeys /\ f[1].child = t
                              /\ f[1].parent \in Tables /\ f[2] \in Ids
<1>1. db \in [Tables -> SUBSET Row] /\ \A f \in r.refs : f[1].child = t
  BY DEF Content
<1>2. r \in Row
  BY <1>1
<1>3. r.id \in Ids /\ r.refs \in SUBSET (ForeignKeys \X Ids)
  BY <1>2 DEF Row
<1>4. \A f \in r.refs : f[1] \in ForeignKeys /\ f[2] \in Ids
  BY <1>3
<1>5. \A f \in r.refs : f[1].parent \in Tables
  BY <1>4, RestoreAssumption
<1> QED
  BY <1>1, <1>2, <1>3, <1>4, <1>5

LEMMA RowOf ==
  ASSUME NEW db, NEW x \in RowsOf(db)
  PROVE  x[1] \in Tables /\ x[2] \in db[x[1]]
BY DEF RowsOf

-----------------------------------------------------------------------------
(* DELETE FROM t reaches only tables created with t or after it. *)

LEMMA CascadesGoDown ==
  ASSUME NEW db \in Content, NEW t \in Tables
  PROVE  /\ {t} \X db[t] \subseteq Doomed(db, t)
         /\ \A x \in Doomed(db, t) : x \in RowsOf(db) /\ Position(t) <= Position(x[1])
<1> DEFINE below == {x \in RowsOf(db) : Position(t) <= Position(x[1])}
<1>1. {t} \X db[t] \subseteq below
  BY Positions DEF RowsOf
<1>2. Closed(db, below)
  <2>1. SUFFICES ASSUME NEW x \in below, NEW y \in RowsOf(db), NEW f \in y[2].refs, RefersTo(f, x)
                 PROVE  y \in below
    BY DEF Closed
  <2>2. y[1] \in Tables /\ y[2] \in db[y[1]] /\ x[1] \in Tables
    BY RowOf
  <2>3. f[1] \in ForeignKeys /\ f[1].child = y[1]
    BY <2>2, ContentOf
  <2>4. Position(f[1].parent) <= Position(y[1])
    BY <2>3, RestoreAssumption
  <2>5. Position(x[1]) <= Position(y[1])
    BY <2>1, <2>4 DEF RefersTo
  <2> QED
    BY <2>2, <2>5, Positions
<1>3. below \in SUBSET RowsOf(db)
  OBVIOUS
<1>4. \A x \in Doomed(db, t) : x \in RowsOf(db) /\ x \in below
  BY <1>1, <1>2, <1>3 DEF Doomed
<1>5. {t} \X db[t] \subseteq Doomed(db, t)
  BY DEF Doomed, RowsOf
<1> QED
  BY <1>4, <1>5

LEMMA UnlinkKeeps ==
  ASSUME NEW r \in Row, NEW gone
  PROVE  /\ Unlink(r, gone) \in Row /\ Unlink(r, gone).refs \subseteq r.refs
         /\ Unlink(r, gone).id = r.id
<1> DEFINE kept == {f \in r.refs : ~Dangling(f, gone)}
<1>1. r.id \in Ids /\ r.refs \in SUBSET (ForeignKeys \X Ids)
      /\ r = [id |-> r.id, refs |-> r.refs]
  BY DEF Row
<1>2. kept \in SUBSET (ForeignKeys \X Ids) /\ kept \subseteq r.refs
  BY <1>1
<1>3. [r EXCEPT !.refs = kept] = [id |-> r.id, refs |-> kept]
  BY <1>1
<1>4. [id |-> r.id, refs |-> kept] \in Row
  BY <1>1, <1>2 DEF Row
<1> QED
  BY <1>2, <1>3, <1>4 DEF Unlink

LEMMA DeleteFromContent ==
  ASSUME NEW db \in Content, NEW t \in Tables
  PROVE  DeleteFrom(db, t) \in Content
<1> DEFINE gone == Doomed(db, t)
           left(u) == {Unlink(r, gone) : r \in {s \in db[u] : <<u, s>> \notin gone}}
<1>1. ASSUME NEW u \in Tables, NEW r \in left(u)
      PROVE  r \in Row /\ \A f \in r.refs : f[1].child = u
  <2>1. PICK s \in db[u] : r = Unlink(s, gone)
    OBVIOUS
  <2>2. s \in Row /\ \A f \in s.refs : f[1].child = u
    BY ContentOf
  <2> QED
    BY <2>1, <2>2, UnlinkKeeps
<1>2. DeleteFrom(db, t) = [u \in Tables |-> left(u)]
  BY DEF DeleteFrom
<1> HIDE DEF left
<1>3. \A u \in Tables : left(u) \in SUBSET Row
  BY <1>1
<1> QED
  BY <1>1, <1>2, <1>3 DEF Content

LEMMA DeleteFromEmpties ==
  ASSUME NEW db \in Content, NEW t \in Tables
  PROVE  DeleteFrom(db, t)[t] = {}
<1>1. \A s \in db[t] : <<t, s>> \in Doomed(db, t)
  BY CascadesGoDown
<1> QED
  BY <1>1 DEF DeleteFrom

\* DELETE adds nothing to any table.
LEMMA DeleteFromKeeps ==
  ASSUME NEW db \in Content, NEW t \in Tables, NEW u \in Tables
  PROVE  KeptFrom(DeleteFrom(db, t)[u], db[u])
<1> DEFINE gone == Doomed(db, t)
<1> SUFFICES ASSUME NEW r \in DeleteFrom(db, t)[u]
             PROVE  \E s \in db[u] : s.id = r.id /\ r.refs \subseteq s.refs
  BY DEF KeptFrom
<1>1. PICK s \in db[u] : r = Unlink(s, gone)
  BY DEF DeleteFrom
<1> HIDE DEF gone
<1>2. s \in Row
  BY ContentOf
<1> QED
  BY <1>1, <1>2, UnlinkKeeps

LEMMA DeleteFromSpares ==
  ASSUME NEW db \in Content, NEW t \in Tables, NEW u \in Tables, Position(u) < Position(t)
  PROVE  DeleteFrom(db, t)[u] = db[u]
<1> DEFINE gone == Doomed(db, t)
<1>1. \A x \in gone : x[1] \in Tables /\ Position(t) <= Position(x[1])
  BY CascadesGoDown, RowOf
<1>2. \A s \in db[u] : <<u, s>> \notin gone
  BY <1>1, Positions
<1>3. ASSUME NEW s \in db[u] PROVE Unlink(s, gone) = s
  <2>1. ASSUME NEW f \in s.refs PROVE ~Dangling(f, gone)
    <3>1. f[1] \in ForeignKeys /\ f[1].child = u /\ f[1].parent \in Tables
      BY ContentOf
    <3>2. Position(f[1].parent) <= Position(u)
      BY <3>1, RestoreAssumption
    <3>3. \A x \in gone : x[1] # f[1].parent
      BY <1>1, <3>1, <3>2, Positions
    <3> QED
      BY <3>3 DEF Dangling, RefersTo
  <2> QED
    BY <2>1 DEF Unlink
<1>4. DeleteFrom(db, t)[u] = {Unlink(r, gone) : r \in {s \in db[u] : <<u, s>> \notin gone}}
  BY DEF DeleteFrom
<1> HIDE DEF gone
<1> QED
  BY <1>2, <1>3, <1>4

-----------------------------------------------------------------------------
(* Copying one table *)

LEMMA FileOf ==
  ASSUME NEW c \in File
  PROVE  c.data \in Content /\ c.extra \in BOOLEAN /\ c.missing \in SUBSET Tables /\ c.missing # Tables
BY DEF File

LEMMA InsertIntoContent ==
  ASSUME NEW db \in Content, NEW t \in Tables, NEW d \in Content
  PROVE  /\ InsertInto(db, t, d[t]) \in Content
         /\ \A u \in Tables :
              InsertInto(db, t, d[t])[u] = IF u = t THEN db[t] \cup d[t] ELSE db[u]
<1>1. db \in [Tables -> SUBSET Row] /\ d[t] \in SUBSET Row
  BY DEF Content
<1>2. InsertInto(db, t, d[t]) \in [Tables -> SUBSET Row]
  BY <1>1 DEF InsertInto
<1>3. InsertInto(db, t, d[t])[t] = db[t] \cup d[t]
  BY <1>1 DEF InsertInto
<1>4. \A u \in Tables : u # t => InsertInto(db, t, d[t])[u] = db[u]
  BY <1>1 DEF InsertInto
<1>5. ASSUME NEW u \in Tables, NEW r \in InsertInto(db, t, d[t])[u]
      PROVE  \A f \in r.refs : f[1].child = u
  BY <1>3, <1>4, ContentOf
<1> QED
  BY <1>2, <1>3, <1>4, <1>5 DEF Content

\* The table is as in the file, and the tables before it are as they were.
LEMMA OneTableCopied ==
  ASSUME NEW db \in Content, NEW t \in Tables, NEW d \in Content
  PROVE  /\ InsertInto(DeleteFrom(db, t), t, d[t]) \in Content
         /\ InsertInto(DeleteFrom(db, t), t, d[t])[t] = d[t]
         /\ \A u \in Tables : Position(u) < Position(t)
              => InsertInto(DeleteFrom(db, t), t, d[t])[u] = db[u]
         /\ \A u \in Tables \ {t} : KeptFrom(InsertInto(DeleteFrom(db, t), t, d[t])[u], db[u])
<1> DEFINE rest == DeleteFrom(db, t)
<1>1. rest \in Content /\ rest[t] = {}
  BY DeleteFromContent, DeleteFromEmpties
<1>2. \A u \in Tables : Position(u) < Position(t) => u # t
  BY Positions
<1>3. /\ \A u \in Tables : Position(u) < Position(t) => rest[u] = db[u]
      /\ \A u \in Tables : KeptFrom(rest[u], db[u])
  BY DeleteFromSpares, DeleteFromKeeps
<1> HIDE DEF rest
<1>4. /\ InsertInto(rest, t, d[t]) \in Content
      /\ \A u \in Tables :
           InsertInto(rest, t, d[t])[u] = IF u = t THEN rest[t] \cup d[t] ELSE rest[u]
  BY <1>1, InsertIntoContent
<1>5. /\ InsertInto(rest, t, d[t]) \in Content
      /\ InsertInto(rest, t, d[t])[t] = d[t]
      /\ \A u \in Tables : Position(u) < Position(t) => InsertInto(rest, t, d[t])[u] = db[u]
      /\ \A u \in Tables \ {t} : KeptFrom(InsertInto(rest, t, d[t])[u], db[u])
  BY <1>1, <1>2, <1>3, <1>4
<1> QED
  BY <1>5 DEF rest

-----------------------------------------------------------------------------
(* Type correctness *)

Works == {Idle} \cup Waiting \cup Restoring

\* The stage of a restore tells what it remembers.
LEMMA StageTypes ==
  ASSUME NEW w \in Works
  PROVE  /\ w.at \in {"lock", "check", "begin"} => w \in Waiting
         /\ w.at \in {"copy", "verify", "commit", "detach"} => w \in Restoring
         /\ w.at # "idle" => w.file \in File /\ w.token \in 0..MaxTokens
         /\ w.at = "idle" => w = Idle
<1>1. CASE w = Idle
  BY <1>1 DEF Idle
<1>2. CASE w \in Waiting
  BY <1>2 DEF Waiting
<1>3. CASE w \in Restoring
  BY <1>3 DEF Restoring
<1> QED
  BY <1>1, <1>2, <1>3 DEF Works

LEMMA Ended ==
  ASSUME RestoreTypeOK, NEW h \in Restorers, End(h)
  PROVE  apply' \in [Restorers -> Works] /\ restoreMu' \in Admins \cup {Null}
BY DEF RestoreTypeOK, End, Unlocked, Works

LEMMA Became ==
  ASSUME RestoreTypeOK, NEW h \in Restorers, NEW w \in Works, apply' = [apply EXCEPT ![h] = w]
  PROVE  apply' \in [Restorers -> Works]
BY DEF RestoreTypeOK, Works

LEMMA Moved ==
  ASSUME NEW w \in Waiting, NEW s \in {"lock", "check", "begin"}
  PROVE  [w EXCEPT !.at = s] \in Waiting
BY DEF Waiting

LEMMA MovedOn ==
  ASSUME NEW w \in Restoring, NEW s \in {"copy", "verify", "commit", "detach"}
  PROVE  /\ [w EXCEPT !.at = s] \in Restoring
         /\ [w EXCEPT !.at = s].done = w.done /\ [w EXCEPT !.at = s].copy = w.copy
         /\ [w EXCEPT !.at = s].file = w.file /\ [w EXCEPT !.at = s].token = w.token
BY DEF Restoring

LEMMA Staged ==
  ASSUME RestoreTypeOK
  PROVE  /\ cleanupExpiredPendingRestoresLocked \in [Tokens -> [file : File, age : 0..TTL + 1] \cup {Null}]
         /\ \A k \in Tokens : cleanupExpiredPendingRestoresLocked[k] \in {pending[k], Null}
BY DEF RestoreTypeOK, cleanupExpiredPendingRestoresLocked

Grown(w, c, n) == [w EXCEPT !.copy = c, !.done = n]
LEMMA CopyGrown ==
  ASSUME NEW w \in Restoring, NEW c \in Content, NEW n \in SUBSET (Tables \cup {Null})
  PROVE  /\ Grown(w, c, n) \in Restoring /\ Grown(w, c, n).at = w.at
         /\ Grown(w, c, n).file = w.file /\ Grown(w, c, n).token = w.token
         /\ Grown(w, c, n).done = n /\ Grown(w, c, n).copy = c
BY DEF Restoring, Grown

LEMMA NamesOf ==
  ASSUME NEW c \in File
  PROVE  /\ getRestoreTableNames(c) \subseteq Tables \cup {Null}
         /\ \A t \in Tables : t \in getRestoreTableNames(c) <=> t \notin c.missing
         /\ \E t \in Tables : t \in getRestoreTableNames(c)
BY FileOf, RestoreAssumption DEF getRestoreTableNames

\* What copying table t makes of the view v.
CopiedFrom(v, w, t, d) ==
  /\ t \in Tables => /\ w[t] = d[t]
                     /\ \A u \in Tables : Position(u) < Position(t) => w[u] = v[u]
                     /\ \A u \in Tables \ {t} : KeptFrom(w[u], v[u])
  /\ t \notin Tables => w = v

\* What a step of the copy loop leaves behind, when it does not end the restore.
LEMMA StepOfCopy ==
  ASSUME RestoreTypeOK, NEW h \in Restorers, copyTablesFromRestore(h), ~End(h)
  PROVE  \E w \in Restoring, t \in Left(apply[h]) :
           /\ apply' = [apply EXCEPT ![h] = w] /\ restoreMu' = restoreMu
           /\ w.at = "copy" /\ w.file = apply[h].file /\ w.token = apply[h].token
           /\ w.done = apply[h].done \cup {t}
           /\ \A u \in Left(apply[h]) : Place(t) <= Place(u)
           /\ \/ CopiedFrom(View(h), w.copy, t, apply[h].file.data)
              \/ t = Null /\ w.copy = apply[h].copy
<1> DEFINE old == apply[h]
<1>1. old \in Restoring /\ old.at = "copy" /\ old.file \in File
  BY StageTypes DEF RestoreTypeOK, Works, copyTablesFromRestore, At, Restoring
<1>2. PICK t \in Left(old) :
        /\ \A u \in Left(old) : Place(t) <= Place(u)
        /\ apply' = [apply EXCEPT ![h].copy = IF t = Null THEN @ ELSE Copied(h, t),
                                  ![h].done = @ \cup {t}]
        /\ restoreMu' = restoreMu
  BY DEF copyTablesFromRestore
<1> DEFINE c == IF t = Null THEN old.copy ELSE Copied(h, t)
           n == old.done \cup {t}
           w == Grown(old, c, n)
<1>3. t \in Tables \cup {Null}
  BY <1>1, NamesOf DEF Left
<1>4. View(h) \in Content /\ old.copy \in Content
  BY <1>1 DEF View, RestoreTypeOK, Restoring
<1>5. c \in Content /\ (t # Null => CopiedFrom(View(h), c, t, old.file.data))
  <2>1. CASE t = Null
    BY <1>4, <2>1
  <2>2. CASE t # Null
    <3> DEFINE v == View(h)
               d == old.file.data
    <3>1. v \in Content /\ d \in Content /\ t \in Tables
      BY <1>1, <1>3, <1>4, <2>2, FileOf
    <3>2. c = InsertInto(DeleteFrom(v, t), t, d[t])
      BY <2>2 DEF Copied
    <3> HIDE DEF v, d, c
    <3>3. c \in Content /\ CopiedFrom(v, c, t, d)
      <4>1. InsertInto(DeleteFrom(v, t), t, d[t]) \in Content
            /\ CopiedFrom(v, InsertInto(DeleteFrom(v, t), t, d[t]), t, d)
        BY <3>1, OneTableCopied DEF CopiedFrom
      <4> QED
        BY <3>2, <4>1
    <3> QED
      BY <3>3 DEF v, d
  <2> QED
    BY <2>1, <2>2
<1>6. n \in SUBSET (Tables \cup {Null})
  BY <1>1, <1>3 DEF Restoring
<1>7. apply' = [apply EXCEPT ![h] = w]
  BY <1>2 DEF Grown
<1> HIDE DEF c, n
<1>8. w \in Restoring /\ w.at = old.at /\ w.file = old.file /\ w.token = old.token
      /\ w.done = n /\ w.copy = c
  BY <1>1, <1>5, <1>6, CopyGrown
<1> HIDE DEF w
<1> QED
  BY <1>1, <1>2, <1>5, <1>7, <1>8 DEF c, n

LEMMA RestoreTypeInit == RestoreInit => RestoreTypeOK
<1> SUFFICES ASSUME RestoreInit PROVE RestoreTypeOK
  OBVIOUS
<1>1. live \in Content /\ archive \subseteq File
  BY RestoreAssumption DEF RestoreInit
<1>2. pending \in [Tokens -> [file : File, age : 0..TTL + 1] \cup {Null}] /\ issued \in 0..MaxTokens
  BY Bounds DEF RestoreInit
<1>3. apply \in [Restorers -> {Idle} \cup Waiting \cup Restoring]
  BY DEF RestoreInit
<1> QED
  BY <1>1, <1>2, <1>3 DEF RestoreInit, RestoreTypeOK

\* A step of ApplyRestoreCandidate.
LEMMA RestoreTypeStep ==
  ASSUME RestoreTypeOK, NEW h \in Restorers, RestoreStep(h)
  PROVE  RestoreTypeOK'
<1> USE DEF RestoreTypeOK
<1>0. apply[h] \in Works
  BY DEF Works
<1>1. CASE ApplyRestoreCandidate(h)
  <2>1. [apply[h] EXCEPT !.at = "begin"] \in Works
    BY <1>0, <1>1, StageTypes, Moved DEF ApplyRestoreCandidate, At, Works
  <2>2. apply' \in [Restorers -> Works] /\ restoreMu' \in Admins \cup {Null}
    BY <1>1, <2>1, Ended, Became DEF ApplyRestoreCandidate
  <2> QED
    BY <1>1, <2>2 DEF ApplyRestoreCandidate, Works
<1>2. CASE prepareRestoreTransaction(h)
  <2>1. ASSUME NEW conn \in Conns \cup {Null} PROVE Begun(h, conn) \in Works
    <3>1. apply[h].file \in File /\ apply[h].token \in 0..MaxTokens
      BY <1>0, <1>2, StageTypes DEF prepareRestoreTransaction, At
    <3> QED
      BY <3>1 DEF Begun, Restoring, Works
  <2>2. apply' \in [Restorers -> Works] /\ restoreMu' \in Admins \cup {Null}
    BY <1>2, <2>1, Ended, Became DEF prepareRestoreTransaction
  <2>3. attached' \subseteq Conns \cup {Null}
    BY <1>2 DEF prepareRestoreTransaction
  <2> QED
    BY <1>2, <2>2, <2>3 DEF prepareRestoreTransaction, Works
<1>3. CASE copyTablesFromRestore(h)
  <2>1. apply' \in [Restorers -> Works] /\ restoreMu' \in Admins \cup {Null}
    <3>1. CASE End(h)
      BY <3>1, Ended
    <3>2. CASE ~End(h)
      <4>1. PICK w \in Restoring : apply' = [apply EXCEPT ![h] = w] /\ restoreMu' = restoreMu
        BY <1>3, <3>2, StepOfCopy
      <4> QED
        BY <4>1, Became DEF Works
    <3> QED
      BY <3>1, <3>2
  <2> QED
    BY <1>3, <2>1 DEF copyTablesFromRestore, Works
<1>4. CASE Locked(h)
  BY <1>4, Ended DEF Locked, Works
<1>5. CASE CopyDone(h)
  <2>1. [apply[h] EXCEPT !.at = "verify"] \in Works
    BY <1>0, <1>5, StageTypes, MovedOn DEF CopyDone, At, Works
  <2> QED
    BY <1>5, <2>1, Became DEF CopyDone, Works
<1>6. CASE PostCheck(h)
  <2>1. [apply[h] EXCEPT !.at = "commit"] \in Works
    BY <1>0, <1>6, StageTypes, MovedOn DEF PostCheck, At, Works
  <2>2. apply' \in [Restorers -> Works] /\ restoreMu' \in Admins \cup {Null}
    BY <1>6, <2>1, Ended, Became DEF PostCheck
  <2> QED
    BY <1>6, <2>2 DEF PostCheck, Works
<1>7. CASE applyRestoreFromFile(h)
  <2>1. apply[h].copy \in Content /\ [apply[h] EXCEPT !.at = "detach"] \in Works
    BY <1>0, <1>7, StageTypes, MovedOn DEF applyRestoreFromFile, At, Works, Restoring
  <2> QED
    BY <1>7, <2>1, Became DEF applyRestoreFromFile, Works
<1>8. CASE detachRestoreDatabase(h)
  BY <1>8, Ended DEF detachRestoreDatabase, Works
<1> QED
  BY <1>1, <1>2, <1>3, <1>4, <1>5, <1>6, <1>7, <1>8 DEF RestoreStep

\* What a person does before the restore starts, and what else may happen to it.
LEMMA RestoreTypeAdmin ==
  ASSUME RestoreTypeOK, NEW h \in Admins,
         \/ handleDatabaseRestore(h) \/ storePendingRestore(h)
         \/ consumePendingRestore(h) \/ handleDatabaseRestoreApply(h) \/ TakeMutex(h)
         \/ CancelRequest(h)
  PROVE  RestoreTypeOK'
<1> USE DEF RestoreTypeOK
<1>0. h \in Restorers /\ apply[h] \in Works
  BY DEF Restorers, Works
<1>2. CASE handleDatabaseRestore(h)
  BY <1>2, Staged DEF handleDatabaseRestore
<1>3. CASE storePendingRestore(h)
  <2>1. PICK c \in archive :
          pending' = [cleanupExpiredPendingRestoresLocked EXCEPT ![issued + 1] = [file |-> c, age |-> 0]]
    BY <1>3 DEF storePendingRestore
  <2>2. [file |-> c, age |-> 0] \in [file : File, age : 0..TTL + 1]
    BY Bounds
  <2>3. pending' \in [Tokens -> [file : File, age : 0..TTL + 1] \cup {Null}]
    BY <2>1, <2>2, Staged
  <2>4. issued' \in 0..MaxTokens
    BY <1>3, Bounds DEF storePendingRestore
  <2> QED
    BY <1>3, <2>3, <2>4 DEF storePendingRestore
<1>4. CASE consumePendingRestore(h)
  <2>1. PICK k \in 1..issued :
          /\ pending' = deleteToken(cleanupExpiredPendingRestoresLocked, k)
          /\ apply' = IF cleanupExpiredPendingRestoresLocked[k] = Null THEN apply
                      ELSE [apply EXCEPT ![h] =
                              [at |-> "lock", file |-> cleanupExpiredPendingRestoresLocked[k].file,
                               token |-> k]]
    BY <1>4 DEF consumePendingRestore
  <2>2. k \in Tokens /\ k \in 0..MaxTokens
    BY Bounds DEF Tokens
  <2>3. pending' \in [Tokens -> [file : File, age : 0..TTL + 1] \cup {Null}]
    BY <2>1, <2>2, Staged DEF deleteToken
  <2>4. CASE cleanupExpiredPendingRestoresLocked[k] # Null
    <3>1. [at |-> "lock", file |-> cleanupExpiredPendingRestoresLocked[k].file, token |-> k] \in Waiting
      BY <2>2, <2>4, Staged DEF Waiting
    <3> QED
      BY <1>0, <1>4, <2>1, <2>3, <2>4, <3>1 DEF consumePendingRestore
  <2> QED
    BY <1>4, <2>1, <2>3, <2>4 DEF consumePendingRestore
<1>5. CASE handleDatabaseRestoreApply(h)
  <2>1. PICK c \in archive : apply' = [apply EXCEPT ![h] = [at |-> "lock", file |-> c, token |-> 0]]
    BY <1>5 DEF handleDatabaseRestoreApply
  <2>2. [at |-> "lock", file |-> c, token |-> 0] \in Waiting
    BY Bounds DEF Waiting
  <2> QED
    BY <1>0, <1>5, <2>1, <2>2 DEF handleDatabaseRestoreApply
<1>6. CASE TakeMutex(h)
  <2>1. [apply[h] EXCEPT !.at = "check"] \in Works
    BY <1>0, <1>6, StageTypes, Moved DEF TakeMutex, At, Works
  <2>2. apply' \in [Restorers -> Works]
    BY <1>0, <1>6, <2>1, Became DEF TakeMutex
  <2> QED
    BY <1>6, <2>2 DEF TakeMutex, Works
<1>7. CASE CancelRequest(h)
  <2>1. apply' \in [Restorers -> Works] /\ restoreMu' \in Admins \cup {Null}
    BY <1>0, <1>7, Ended DEF CancelRequest
  <2>2. attached' \subseteq Conns \cup {Null}
    BY <1>7 DEF CancelRequest
  <2> QED
    BY <1>7, <2>1, <2>2 DEF CancelRequest, Works
<1> QED
  BY <1>2, <1>3, <1>4, <1>5, <1>6, <1>7

\* A backup only adds a file of the committed tables, whoever makes it.
LEMMA DownloadKeeps ==
  ASSUME NEW h, handleDatabaseBackup(h) \/ runBackup(h)
  PROVE  /\ RestoreTypeOK => RestoreTypeOK'
         /\ UNCHANGED <<live, pending, issued, apply>>
<1>1. Download(h)
  BY DEF handleDatabaseBackup, runBackup
<1>2. RestoreTypeOK => CreateBackup \in File
  BY RestoreAssumption DEF RestoreTypeOK, CreateBackup, File
<1> QED
  BY <1>1, <1>2 DEF Download, RestoreTypeOK

LEMMA RestoreTypeRest ==
  ASSUME RestoreTypeOK,
         \/ \E h \in Operators : runRestore(h) \/ Killed(h)
         \/ Write \/ Age \/ RestartServer \/ UNCHANGED restoreVars
  PROVE  RestoreTypeOK'
<1> USE DEF RestoreTypeOK
<1>1. ASSUME NEW h \in Operators, runRestore(h) PROVE RestoreTypeOK'
  <2>1. PICK c \in archive : apply' = [apply EXCEPT ![h] = [at |-> "check", file |-> c, token |-> 0]]
    BY <1>1 DEF runRestore
  <2>2. [at |-> "check", file |-> c, token |-> 0] \in Waiting /\ h \in Restorers
    BY Bounds DEF Waiting, Restorers
  <2> QED
    BY <1>1, <2>1, <2>2 DEF runRestore
<1>2. ASSUME NEW h \in Operators, Killed(h) PROVE RestoreTypeOK'
  <2>1. apply' \in [Restorers -> Works] /\ restoreMu' \in Admins \cup {Null}
    BY <1>2, Ended DEF Killed, Restorers
  <2> QED
    BY <1>2, <2>1 DEF Killed, Works
<1>3. CASE Write
  BY <1>3, RestoreAssumption DEF Write
<1>4. CASE Age
  <2>1. ASSUME NEW k \in Tokens, pending[k] # Null, pending[k].age <= TTL
        PROVE  [pending[k] EXCEPT !.age = @ + 1] \in [file : File, age : 0..TTL + 1]
    BY <2>1, Bounds
  <2> QED
    BY <1>4, <2>1 DEF Age
<1>5. CASE RestartServer
  BY <1>5 DEF RestartServer
<1>6. CASE UNCHANGED restoreVars
  BY <1>6 DEF restoreVars
<1> QED
  BY <1>1, <1>2, <1>3, <1>4, <1>5, <1>6

\* The tables, the files, the staged files and what every restore holds keep their types.
THEOREM RestoreTypeCorrect == RestoreSpec => []RestoreTypeOK
<1>1. RestoreTypeOK /\ [RestoreNext]_restoreVars => RestoreTypeOK'
  BY RestoreTypeStep, RestoreTypeAdmin, RestoreTypeRest, DownloadKeeps
     DEF RestoreNext, WebRestore, CommandLine, Restorers
<1> QED
  BY <1>1, RestoreTypeInit, PTL DEF RestoreSpec

-----------------------------------------------------------------------------
(* What has been copied stays as it is in the file. *)

Writes(w) == w.at \in {"verify", "commit"} \/ (w.at = "copy" /\ w.done # {})

\* The inductive invariant: the tables are copied in their order, every DELETE cascades
\* only to tables that are still to come, so those that are done are the file's, and no
\* other has a row that the database db does not have.
SoFar(w, db) ==
  w.at \in {"copy", "verify", "commit"} =>
    /\ w.done \subseteq getRestoreTableNames(w.file)
    /\ w.at # "copy" => Left(w) = {}
    /\ \A t \in w.done, u \in Left(w) : Place(t) < Place(u)
    /\ \A t \in w.done \cap Tables : w.copy[t] = w.file.data[t]
    /\ w.done # {} => \A t \in Tables \ w.done : KeptFrom(w.copy[t], db[t])

\* The database does not change under a restore that has begun to write.
OneWriter == \A g, h \in Restorers : Writing(g) /\ Writing(h) => g = h
CopiedSoFar == OneWriter /\ \A h \in Restorers : SoFar(apply[h], live)

\* Steps that copy nothing.
Aside(h) ==
  \/ apply'[h].at \notin {"copy", "verify", "commit"}
  \/ apply'[h] = apply[h] /\ (live' = live \/ ~Writing(h))

LEMMA WritingIs == \A h : Writing(h) <=> Writes(apply[h])
BY DEF Writing, Writes, At

LEMMA CopiedAside ==
  ASSUME CopiedSoFar, \A h \in Restorers : Aside(h)
  PROVE  CopiedSoFar'
<1>1. ASSUME NEW h \in Restorers PROVE SoFar(apply'[h], live') /\ (Writing(h)' => Writing(h))
  <2>1. Aside(h) /\ SoFar(apply[h], live)
    BY DEF CopiedSoFar
  <2>2. CASE apply'[h].at \notin {"copy", "verify", "commit"}
    BY <2>2 DEF SoFar, Writing, At
  <2>3. CASE apply'[h] = apply[h] /\ (live' = live \/ ~Writing(h))
    <3>1. Writing(h)' => Writing(h)
      BY <2>3 DEF Writing, At
    <3>2. SoFar(apply[h], live')
      BY <2>1, <2>3 DEF SoFar, Writing, At
    <3> QED
      BY <2>3, <3>1, <3>2
  <2> QED
    BY <2>1, <2>2, <2>3 DEF Aside
<1> QED
  BY <1>1 DEF CopiedSoFar, OneWriter

LEMMA EndAside ==
  ASSUME RestoreTypeOK, NEW h \in Restorers, End(h), live' = live
  PROVE  \A g \in Restorers : Aside(g)
BY DEF RestoreTypeOK, End, Aside, Idle

\* One restore goes on, the others stay.
LEMMA CopiedOne ==
  ASSUME RestoreTypeOK, CopiedSoFar, NEW h \in Restorers, NEW w,
         apply' = [apply EXCEPT ![h] = w], live' = live, SoFar(w, live),
         Writes(w) => Writing(h) \/ MayWrite(h)
  PROVE  CopiedSoFar'
<1>1. apply'[h] = w /\ \A g \in Restorers \ {h} : apply'[g] = apply[g]
  BY DEF RestoreTypeOK
<1>2. \A g \in Restorers : SoFar(apply'[g], live')
  BY <1>1 DEF CopiedSoFar
<1>3. \A g \in Restorers \ {h} : Writing(g)' => Writing(g)
  BY <1>1 DEF Writing, At
<1>4. Writing(h)' => Writing(h) \/ MayWrite(h)
  BY <1>1 DEF Writing, Writes, At
<1>5. Writing(h)' => \A g \in Restorers \ {h} : ~Writing(g)
  BY <1>4 DEF MayWrite, CopiedSoFar, OneWriter
<1>6. OneWriter'
  BY <1>3, <1>5 DEF CopiedSoFar, OneWriter
<1> QED
  BY <1>2, <1>6 DEF CopiedSoFar

LEMMA KeptOn ==
  ASSUME NEW a, NEW b, NEW c, KeptFrom(a, b), KeptFrom(b, c)
  PROVE  KeptFrom(a, c)
BY DEF KeptFrom

\* One more table.
LEMMA CopiedFurther ==
  ASSUME RestoreTypeOK, CopiedSoFar, NEW h \in Restorers, At(h, "copy"),
         NEW w \in Restoring, NEW t \in Left(apply[h]),
         w.at = "copy", w.file = apply[h].file, w.done = apply[h].done \cup {t},
         \A u \in Left(apply[h]) : Place(t) <= Place(u),
         \/ CopiedFrom(View(h), w.copy, t, apply[h].file.data)
         \/ t = Null /\ w.copy = apply[h].copy
  PROVE  SoFar(w, live)
<1> DEFINE old == apply[h]
<1>0. /\ old \in Restoring /\ old.file \in File
      /\ getRestoreTableNames(old.file) \subseteq Tables \cup {Null}
  BY StageTypes, NamesOf DEF RestoreTypeOK, Works, At, Restoring
<1>1. /\ old.done \subseteq getRestoreTableNames(old.file)
      /\ \A s \in old.done, u \in Left(old) : Place(s) < Place(u)
      /\ \A s \in old.done \cap Tables : old.copy[s] = old.file.data[s]
      /\ old.done # {} => \A s \in Tables \ old.done : KeptFrom(old.copy[s], live[s])
  BY DEF CopiedSoFar, SoFar, At
<1>2. t \in getRestoreTableNames(old.file) /\ t \notin old.done /\ t \in Tables \cup {Null}
  BY <1>0 DEF Left
<1>3. Left(w) = Left(old) \ {t}
  BY DEF Left
<1>4. \A s \in w.done, u \in Left(w) : Place(s) < Place(u)
  <2>1. ASSUME NEW u \in Left(old), u # t PROVE Place(t) < Place(u)
    <3>1. u \in Tables \cup {Null}
      BY <1>0 DEF Left
    <3> QED
      BY <1>2, <2>1, <3>1, Places
  <2> QED
    BY <1>1, <1>3, <2>1
<1>5. CASE t \in Tables
  <2> DEFINE v == View(h)
  <2>1. /\ w.copy[t] = old.file.data[t]
        /\ \A u \in Tables : Position(u) < Position(t) => w.copy[u] = v[u]
        /\ \A u \in Tables \ {t} : KeptFrom(w.copy[u], v[u])
    <3>1. t # Null
      BY <1>5, Places
    <3> QED
      BY <1>5, <3>1 DEF CopiedFrom
  <2>2. \A s \in Tables \cap old.done : w.copy[s] = old.file.data[s]
    <3> SUFFICES ASSUME NEW s \in Tables, s \in old.done PROVE w.copy[s] = old.file.data[s]
      OBVIOUS
    <3>1. Position(s) < Position(t)
      BY <1>1, <1>5, Places
    <3>2. v = old.copy
      BY DEF View, Writing
    <3> QED
      BY <1>1, <2>1, <3>1, <3>2
  <2>3. \A s \in Tables \ w.done : KeptFrom(w.copy[s], live[s])
    <3> SUFFICES ASSUME NEW s \in Tables, s \notin old.done, s # t
                 PROVE  KeptFrom(w.copy[s], live[s])
      OBVIOUS
    <3>1. CASE old.done = {}
      <4>1. v = live
        BY <3>1 DEF View, Writing, At
      <4> QED
        BY <2>1, <4>1
    <3>2. CASE old.done # {}
      <4>1. v = old.copy
        BY <3>2 DEF View, Writing
      <4>2. KeptFrom(w.copy[s], v[s]) /\ KeptFrom(v[s], live[s])
        BY <1>1, <2>1, <3>2, <4>1
      <4> QED
        BY <4>2, KeptOn
    <3> QED
      BY <3>1, <3>2
  <2>4. \A s \in w.done \cap Tables : w.copy[s] = w.file.data[s]
    BY <2>1, <2>2
  <2>5. w.done \subseteq getRestoreTableNames(w.file)
    BY <1>1, <1>2
  <2> QED
    BY <1>4, <2>3, <2>4, <2>5 DEF SoFar
<1>6. CASE t = Null
  <2>0. t \notin Tables
    BY <1>6, Places
  <2>1. old.done # {}
    <3>1. PICK u \in Tables : u \in getRestoreTableNames(old.file)
      BY <1>0, NamesOf
    <3>2. Place(u) < Place(Null)
      BY <3>1, Positions, Places DEF Place
    <3>3. ~(Place(t) <= Place(u))
      BY <1>6, <3>1, <3>2, Places
    <3> QED
      BY <3>1, <3>3 DEF Left
  <2>2. w.copy = old.copy
    <3>1. View(h) = old.copy
      BY <2>1 DEF View, Writing
    <3> QED
      BY <2>0, <3>1 DEF CopiedFrom
  <2>3. \A s \in w.done \cap Tables : w.copy[s] = w.file.data[s]
    BY <1>1, <2>0, <2>2
  <2>4. \A s \in Tables \ w.done : KeptFrom(w.copy[s], live[s])
    BY <1>1, <2>1, <2>2
  <2>5. w.done \subseteq getRestoreTableNames(w.file)
    BY <1>1, <1>2
  <2> QED
    BY <1>4, <2>3, <2>4, <2>5 DEF SoFar
<1> QED
  BY <1>2, <1>5, <1>6

\* Each step of a restore that neither ends it nor copies a table only moves it on.
LEMMA CopiedOn ==
  ASSUME RestoreTypeOK, CopiedSoFar, NEW h \in Restorers, NEW b \in {"verify", "commit", "detach"},
         apply[h].at \in {"copy", "verify", "commit"}, Left(apply[h]) = {},
         apply' = [apply EXCEPT ![h] = [apply[h] EXCEPT !.at = b]]
  PROVE  /\ SoFar([apply[h] EXCEPT !.at = b], live)
         /\ Writing(h)
<1> DEFINE old == apply[h]
           w == [old EXCEPT !.at = b]
<1>1. old \in Restoring /\ old.file \in File
  BY StageTypes DEF RestoreTypeOK, Works, Restoring
<1>2. w.done = old.done /\ w.copy = old.copy /\ w.file = old.file
  BY <1>1, MovedOn
<1> HIDE DEF w
<1>3. Left(w) = {}
  BY <1>2 DEF Left
<1>4. SoFar(old, live)
  BY DEF CopiedSoFar
<1>5. SoFar(w, live)
  BY <1>2, <1>3, <1>4 DEF SoFar
<1>6. old.done # {}
  BY <1>1, NamesOf DEF Left
<1> QED
  BY <1>5, <1>6 DEF Writing, At, w

LEMMA CopiedStep ==
  ASSUME RestoreTypeOK, CopiedSoFar, NEW h \in Restorers, RestoreStep(h)
  PROVE  CopiedSoFar'
<1>0. apply[h] \in Works
  BY DEF RestoreTypeOK, Works
<1>1. CASE End(h) /\ ~applyRestoreFromFile(h)
  <2>1. live' = live
    BY <1>1 DEF RestoreStep, ApplyRestoreCandidate, prepareRestoreTransaction,
         copyTablesFromRestore, Locked, CopyDone, PostCheck, detachRestoreDatabase
  <2> QED
    BY <1>1, <2>1, EndAside, CopiedAside
<1>2. CASE ApplyRestoreCandidate(h) /\ ~End(h)
  <2> DEFINE w == [apply[h] EXCEPT !.at = "begin"]
  <2>1. apply' = [apply EXCEPT ![h] = w] /\ live' = live /\ w.at = "begin"
    BY <1>0, <1>2, StageTypes DEF ApplyRestoreCandidate, At, Waiting
  <2> HIDE DEF w
  <2>2. SoFar(w, live) /\ ~Writes(w)
    BY <2>1 DEF SoFar, Writes
  <2> QED
    BY <2>1, <2>2, CopiedOne
<1>3. CASE prepareRestoreTransaction(h) /\ ~End(h)
  <2>1. PICK conn : apply' = [apply EXCEPT ![h] = Begun(h, conn)] /\ live' = live
    BY <1>3 DEF prepareRestoreTransaction
  <2>2. Begun(h, conn).at = "copy" /\ Begun(h, conn).done = {}
    BY DEF Begun
  <2>3. SoFar(Begun(h, conn), live) /\ ~Writes(Begun(h, conn))
    BY <2>2 DEF SoFar, Writes
  <2> QED
    BY <2>1, <2>3, CopiedOne
<1>4. CASE copyTablesFromRestore(h) /\ ~End(h)
  <2>1. PICK w \in Restoring, t \in Left(apply[h]) :
           /\ apply' = [apply EXCEPT ![h] = w]
           /\ w.at = "copy" /\ w.file = apply[h].file
           /\ w.done = apply[h].done \cup {t}
           /\ \A u \in Left(apply[h]) : Place(t) <= Place(u)
           /\ \/ CopiedFrom(View(h), w.copy, t, apply[h].file.data)
              \/ t = Null /\ w.copy = apply[h].copy
    BY <1>4, StepOfCopy
  <2>2. At(h, "copy") /\ MayWrite(h) /\ live' = live
    BY <1>4 DEF copyTablesFromRestore
  <2>3. SoFar(w, live)
    BY <2>1, <2>2, CopiedFurther
  <2> QED
    BY <2>1, <2>2, <2>3, CopiedOne
<1>5. CASE CopyDone(h)
  <2>1. /\ apply' = [apply EXCEPT ![h] = [apply[h] EXCEPT !.at = "verify"]] /\ live' = live
        /\ apply[h].at = "copy" /\ Left(apply[h]) = {}
    BY <1>5 DEF CopyDone, At
  <2> QED
    BY <2>1, CopiedOn, CopiedOne
<1>6. CASE PostCheck(h) /\ ~End(h)
  <2>1. /\ apply' = [apply EXCEPT ![h] = [apply[h] EXCEPT !.at = "commit"]] /\ live' = live
        /\ apply[h].at = "verify" /\ Left(apply[h]) = {}
    BY <1>6 DEF PostCheck, At, CopiedSoFar, SoFar
  <2> QED
    BY <2>1, CopiedOn, CopiedOne
<1>7. CASE applyRestoreFromFile(h)
  <2>1. /\ apply' = [apply EXCEPT ![h] = [apply[h] EXCEPT !.at = "detach"]]
        /\ apply[h].at = "commit" /\ Writing(h)
    BY <1>7 DEF applyRestoreFromFile, At, Writing
  <2>2. apply'[h].at = "detach"
    BY <1>0, <2>1, StageTypes, MovedOn DEF Restoring, RestoreTypeOK
  <2>3. \A g \in Restorers \ {h} : apply'[g] = apply[g] /\ ~Writing(g)
    BY <2>1 DEF CopiedSoFar, OneWriter, RestoreTypeOK
  <2>4. \A g \in Restorers : Aside(g)
    BY <2>2, <2>3 DEF Aside
  <2> QED
    BY <2>4, CopiedAside
<1> QED
  BY <1>1, <1>2, <1>3, <1>4, <1>5, <1>6, <1>7
     DEF RestoreStep, Locked, detachRestoreDatabase

\* What a person does before the restore starts, and what else may happen, copies nothing.
LEMMA AdminAside ==
  ASSUME RestoreTypeOK, NEW h \in Admins,
         \/ handleDatabaseBackup(h) \/ handleDatabaseRestore(h) \/ storePendingRestore(h)
         \/ consumePendingRestore(h) \/ handleDatabaseRestoreApply(h) \/ TakeMutex(h)
         \/ CancelRequest(h)
  PROVE  \A g \in Restorers : Aside(g)
<1>0. h \in Restorers /\ apply[h] \in Works
  BY DEF Restorers, Works, RestoreTypeOK
<1>1. CASE handleDatabaseBackup(h) \/ handleDatabaseRestore(h) \/ storePendingRestore(h)
  BY <1>1, DownloadKeeps DEF handleDatabaseRestore, storePendingRestore, Aside
<1>2. CASE consumePendingRestore(h)
  BY <1>0, <1>2 DEF consumePendingRestore, Aside, RestoreTypeOK
<1>3. CASE handleDatabaseRestoreApply(h)
  BY <1>0, <1>3 DEF handleDatabaseRestoreApply, Aside, RestoreTypeOK
<1>4. CASE TakeMutex(h)
  BY <1>0, <1>4, StageTypes DEF TakeMutex, At, Waiting, Aside, RestoreTypeOK
<1>5. CASE CancelRequest(h)
  BY <1>0, <1>5, EndAside DEF CancelRequest
<1> QED
  BY <1>1, <1>2, <1>3, <1>4, <1>5

LEMMA RestAside ==
  ASSUME RestoreTypeOK,
         \/ \E h \in Operators : runBackup(h) \/ runRestore(h) \/ Killed(h)
         \/ Write \/ Age \/ RestartServer \/ UNCHANGED restoreVars
  PROVE  \A g \in Restorers : Aside(g)
<1>1. ASSUME NEW h \in Operators, runBackup(h) \/ runRestore(h)
      PROVE  \A g \in Restorers : Aside(g)
  BY <1>1, DownloadKeeps DEF runRestore, Aside, RestoreTypeOK, Restorers
<1>2. ASSUME NEW h \in Operators, Killed(h) PROVE \A g \in Restorers : Aside(g)
  BY <1>2, EndAside DEF Killed, Restorers
<1>3. CASE Write \/ Age \/ UNCHANGED restoreVars
  BY <1>3 DEF Write, Age, restoreVars, Aside
<1>4. CASE RestartServer
  BY <1>4 DEF RestartServer, Aside, Idle
<1> QED
  BY <1>1, <1>2, <1>3, <1>4

LEMMA CopiedInvariant == RestoreSpec => []CopiedSoFar
<1>1. RestoreInit => CopiedSoFar
  BY DEF RestoreInit, CopiedSoFar, OneWriter, Writing, At, SoFar, Idle
<1>2. RestoreTypeOK /\ CopiedSoFar /\ [RestoreNext]_restoreVars => CopiedSoFar'
  BY CopiedStep, AdminAside, RestAside, CopiedAside
     DEF RestoreNext, WebRestore, CommandLine, Restorers
<1> QED
  BY <1>1, <1>2, RestoreTypeCorrect, PTL DEF RestoreSpec

\* Whatever the tables, their references, the files and the people who restore: what
\* is committed of a table that the file has is the file's data, all of it and nothing
\* else, and of a table that it lacks at most what was there.
THEOREM RestoredIsTheFile == RestoreSpec => []RestoredIsTheBackup
<1>1. RestoreTypeOK /\ CopiedSoFar => RestoredIsTheBackup
  <2> SUFFICES ASSUME RestoreTypeOK, CopiedSoFar, NEW h \in Restorers,
                      apply[h].at \in {"verify", "commit"}, NEW t \in Tables
               PROVE  IF t \in apply[h].file.missing THEN KeptFrom(apply[h].copy[t], live[t])
                      ELSE apply[h].copy[t] = apply[h].file.data[t]
    BY DEF RestoredIsTheBackup
  <2>1. apply[h] \in Restoring /\ apply[h].file \in File
    BY StageTypes DEF RestoreTypeOK, Works, Restoring
  <2>2. SoFar(apply[h], live)
    BY DEF CopiedSoFar
  <2>3. Left(apply[h]) = {} /\ apply[h].done \subseteq getRestoreTableNames(apply[h].file)
    BY <2>2 DEF SoFar
  <2>4. t \in apply[h].done <=> t \notin apply[h].file.missing
    BY <2>1, <2>3, NamesOf DEF Left
  <2>5. apply[h].done # {}
    BY <2>1, <2>3, NamesOf DEF Left
  <2> QED
    BY <2>2, <2>4, <2>5 DEF SoFar
<1> QED
  BY <1>1, RestoreTypeCorrect, CopiedInvariant, PTL

-----------------------------------------------------------------------------
(* A staged file is handed to one request. *)

\* The inductive invariant: a token that was not issued stages nothing, nobody holds
\* one, and the ones that are held stage nothing any more.
TokensApart ==
  /\ \A k \in Tokens : k > issued => pending[k] = Null
  /\ \A h \in Admins : ~At(h, "idle") => apply[h].token <= issued
  /\ TokenIsSpent

\* Nothing is staged, and whoever holds a token held it before.
TokensKept ==
  /\ issued' = issued
  /\ \A k \in Tokens : pending[k] = Null => pending'[k] = Null
  /\ \A h \in Admins :
       \/ apply'[h].at = "idle" \/ apply'[h].token = 0
       \/ apply[h].at # "idle" /\ apply'[h].token = apply[h].token

LEMMA TokensTyped ==
  ASSUME RestoreTypeOK, NEW h \in Admins
  PROVE  /\ issued \in 0..MaxTokens
         /\ ~At(h, "idle") => apply[h].token \in 0..MaxTokens /\ apply[h].file \in File
         /\ ~At(h, "idle") /\ apply[h].token # 0 => apply[h].token \in Tokens
<1>1. apply[h] \in {Idle} \cup Waiting \cup Restoring /\ issued \in 0..MaxTokens
  BY DEF RestoreTypeOK, Restorers
<1>2. ~At(h, "idle") => apply[h].token \in 0..MaxTokens /\ apply[h].file \in File
  BY <1>1 DEF At, Idle, Waiting, Restoring
<1> QED
  BY <1>1, <1>2, Bounds DEF Tokens

LEMMA TokensKeptApart ==
  ASSUME RestoreTypeOK, TokensApart, TokensKept
  PROVE  TokensApart'
<1>1. \A k \in Tokens : k > issued' => pending'[k] = Null
  BY DEF TokensApart, TokensKept
<1>2. \A h \in Admins : ~At(h, "idle")' => apply'[h].token <= issued'
  BY Bounds, TokensTyped DEF TokensApart, TokensKept, At
<1>3. TokenIsSpent'
  BY TokensTyped DEF TokensApart, TokensKept, TokenIsSpent, At
<1> QED
  BY <1>1, <1>2, <1>3 DEF TokensApart

\* A request that goes on, or ends, keeps its token.
LEMMA StepKeepsTokens ==
  ASSUME RestoreTypeOK, NEW h \in Restorers, RestoreStep(h)
  PROVE  TokensKept
<1>0. apply[h] \in Works /\ issued' = issued /\ pending' = pending
  BY DEF RestoreTypeOK, Works, RestoreStep, ApplyRestoreCandidate, prepareRestoreTransaction,
         copyTablesFromRestore, Locked, CopyDone, PostCheck, applyRestoreFromFile,
         detachRestoreDatabase
<1>1. CASE End(h)
  BY <1>0, <1>1 DEF End, TokensKept, Idle, RestoreTypeOK, Restorers
<1>2. ASSUME NEW w, apply' = [apply EXCEPT ![h] = w], w.token = apply[h].token, ~At(h, "idle")
      PROVE  TokensKept
  BY <1>0, <1>2 DEF TokensKept, At, RestoreTypeOK, Restorers
<1>3. CASE ApplyRestoreCandidate(h) /\ ~End(h)
  <2>1. /\ apply' = [apply EXCEPT ![h] = [apply[h] EXCEPT !.at = "begin"]]
        /\ [apply[h] EXCEPT !.at = "begin"].token = apply[h].token /\ ~At(h, "idle")
    BY <1>0, <1>3, StageTypes DEF ApplyRestoreCandidate, At, Waiting
  <2> QED
    BY <1>2, <2>1
<1>4. CASE prepareRestoreTransaction(h) /\ ~End(h)
  <2>1. PICK conn : apply' = [apply EXCEPT ![h] = Begun(h, conn)]
    BY <1>4 DEF prepareRestoreTransaction
  <2>2. Begun(h, conn).token = apply[h].token /\ ~At(h, "idle")
    BY <1>4 DEF Begun, prepareRestoreTransaction, At
  <2> QED
    BY <1>2, <2>1, <2>2
<1>5. CASE copyTablesFromRestore(h) /\ ~End(h)
  <2>1. PICK w \in Restoring : apply' = [apply EXCEPT ![h] = w] /\ w.token = apply[h].token
    BY <1>5, StepOfCopy
  <2> QED
    BY <1>2, <1>5, <2>1 DEF copyTablesFromRestore, At
<1>6. CASE (CopyDone(h) \/ PostCheck(h) \/ applyRestoreFromFile(h)) /\ ~End(h)
  <2>1. apply[h] \in Restoring /\ ~At(h, "idle")
    BY <1>0, <1>6, StageTypes DEF CopyDone, PostCheck, applyRestoreFromFile, At
  <2>2. PICK s \in {"copy", "verify", "commit", "detach"} :
          apply' = [apply EXCEPT ![h] = [apply[h] EXCEPT !.at = s]]
    BY <1>6 DEF CopyDone, PostCheck, applyRestoreFromFile
  <2>3. [apply[h] EXCEPT !.at = s].token = apply[h].token
    BY <2>1, MovedOn
  <2> QED
    BY <1>2, <2>1, <2>2, <2>3
<1> QED
  BY <1>1, <1>3, <1>4, <1>5, <1>6 DEF RestoreStep, Locked, detachRestoreDatabase

LEMMA AdminKeepsTokens ==
  ASSUME RestoreTypeOK, NEW h \in Admins,
         \/ handleDatabaseBackup(h) \/ handleDatabaseRestore(h)
         \/ handleDatabaseRestoreApply(h) \/ TakeMutex(h) \/ CancelRequest(h)
  PROVE  TokensKept
<1>0. h \in Restorers /\ apply[h] \in Works
  BY DEF Restorers, Works, RestoreTypeOK
<1>1. CASE handleDatabaseBackup(h)
  BY <1>1, DownloadKeeps DEF TokensKept
<1>2. CASE handleDatabaseRestore(h)
  BY <1>2, Staged DEF handleDatabaseRestore, TokensKept
<1>3. CASE handleDatabaseRestoreApply(h)
  BY <1>0, <1>3 DEF handleDatabaseRestoreApply, TokensKept, RestoreTypeOK, Restorers
<1>4. CASE TakeMutex(h)
  <2>1. [apply[h] EXCEPT !.at = "check"].token = apply[h].token /\ ~At(h, "idle")
    BY <1>0, <1>4, StageTypes DEF TakeMutex, At, Waiting
  <2> QED
    BY <1>4, <2>1 DEF TakeMutex, TokensKept, At, RestoreTypeOK, Restorers
<1>5. CASE CancelRequest(h)
  BY <1>5 DEF CancelRequest, End, Idle, TokensKept, RestoreTypeOK, Restorers
<1> QED
  BY <1>1, <1>2, <1>3, <1>4, <1>5

LEMMA RestKeepsTokens ==
  ASSUME RestoreTypeOK,
         \/ \E h \in Operators : runBackup(h) \/ runRestore(h) \/ Killed(h)
         \/ Write \/ Age \/ RestartServer \/ UNCHANGED restoreVars
  PROVE  TokensKept
<1>1. ASSUME NEW h \in Operators, runBackup(h) \/ runRestore(h) \/ Killed(h)
      PROVE  TokensKept
  BY <1>1, RestoreAssumption, DownloadKeeps
     DEF runRestore, Killed, End, TokensKept, RestoreTypeOK, Restorers
<1>2. CASE Write \/ UNCHANGED restoreVars
  BY <1>2 DEF Write, restoreVars, TokensKept
<1>3. CASE Age
  BY <1>3 DEF Age, TokensKept
<1>4. CASE RestartServer
  BY <1>4 DEF RestartServer, Idle, TokensKept, Restorers
<1> QED
  BY <1>1, <1>2, <1>3, <1>4

\* A new token is above the ones that are held.
LEMMA StoringKeepsApart ==
  ASSUME RestoreTypeOK, TokensApart, NEW h \in Admins, storePendingRestore(h)
  PROVE  TokensApart'
<1>1. PICK v :
        /\ pending' = [cleanupExpiredPendingRestoresLocked EXCEPT ![issued + 1] = v]
        /\ issued' = issued + 1 /\ apply' = apply
  BY DEF storePendingRestore
<1>2. \A k \in Tokens : k # issued + 1 /\ pending[k] = Null => pending'[k] = Null
  BY <1>1, Staged
<1>3. issued \in Nat /\ \A k \in Tokens : k \in Nat
  BY Bounds DEF RestoreTypeOK, Tokens
<1>4. \A k \in Tokens : k > issued' => pending'[k] = Null
  BY <1>1, <1>2, <1>3 DEF TokensApart
<1>5. \A g \in Admins : ~At(g, "idle") => apply[g].token <= issued /\ apply[g].token \in Nat
  BY TokensTyped, Bounds DEF TokensApart
<1>6. \A g \in Admins : ~At(g, "idle")' => apply'[g].token <= issued'
  BY <1>1, <1>3, <1>5 DEF At
<1>7. TokenIsSpent'
  <2> SUFFICES ASSUME NEW g \in Admins, ~At(g, "idle"), apply[g].token # 0
               PROVE  /\ pending'[apply[g].token] = Null
                      /\ \A f \in Admins \ {g} :
                           At(f, "idle") \/ apply[f].token # apply[g].token
    BY <1>1 DEF TokenIsSpent, At
  <2>1. apply[g].token \in Tokens /\ apply[g].token # issued + 1
    BY <1>3, <1>5, TokensTyped
  <2> QED
    BY <1>2, <2>1 DEF TokensApart, TokenIsSpent
<1> QED
  BY <1>4, <1>6, <1>7 DEF TokensApart

\* A token that still stages a file is held by nobody.
LEMMA ConsumingKeepsApart ==
  ASSUME RestoreTypeOK, TokensApart, NEW h \in Admins, consumePendingRestore(h)
  PROVE  TokensApart'
<1> DEFINE staged == cleanupExpiredPendingRestoresLocked
<1>0. staged \in [Tokens -> [file : File, age : 0..TTL + 1] \cup {Null}]
      /\ \A k \in Tokens : pending[k] = Null => staged[k] = Null
  BY Staged
<1>1. PICK k \in 1..issued :
        /\ pending' = [staged EXCEPT ![k] = Null] /\ issued' = issued
        /\ apply' = IF staged[k] = Null THEN apply
                    ELSE [apply EXCEPT ![h] = [at |-> "lock", file |-> staged[k].file, token |-> k]]
  BY DEF consumePendingRestore, deleteToken
<1> HIDE DEF staged
<1>2. k \in Tokens /\ k <= issued /\ \A t \in Tokens : pending[t] = Null => pending'[t] = Null
  BY <1>0, <1>1, Bounds DEF RestoreTypeOK, Tokens
<1>3. CASE staged[k] = Null
  <2>1. TokensKept
    BY <1>1, <1>2, <1>3 DEF TokensKept
  <2> QED
    BY <2>1, TokensKeptApart
<1>4. CASE staged[k] # Null
  <2>1. pending[k] # Null /\ pending'[k] = Null
    BY <1>0, <1>1, <1>2, <1>4
  <2>2. \A g \in Admins : At(g, "idle") \/ apply[g].token # k
    BY <1>2, <2>1, TokensTyped, Bounds DEF TokensApart, TokenIsSpent, Tokens
  <2>3. /\ apply'[h].at = "lock" /\ apply'[h].token = k
        /\ \A g \in Admins \ {h} : apply'[g] = apply[g]
    BY <1>1, <1>4 DEF RestoreTypeOK, Restorers
  <2>4. \A t \in Tokens : t > issued' => pending'[t] = Null
    BY <1>1, <1>2 DEF TokensApart
  <2>5. \A g \in Admins : ~At(g, "idle")' => apply'[g].token <= issued'
    BY <1>1, <1>2, <2>3 DEF TokensApart, At
  <2>6. TokenIsSpent'
    BY <1>2, <2>1, <2>2, <2>3, TokensTyped DEF TokensApart, TokenIsSpent, At
  <2> QED
    BY <2>4, <2>5, <2>6 DEF TokensApart
<1> QED
  BY <1>3, <1>4

\* However many browsers and tokens there are, expired, restarted or cancelled: one
\* request at most applies a staged file.
THEOREM TokensAreSpentOnce == RestoreSpec => []TokenIsSpent
<1>1. RestoreInit => TokensApart
  BY DEF RestoreInit, TokensApart, TokenIsSpent, At, Idle, Restorers
<1>2. RestoreTypeOK /\ TokensApart /\ [RestoreNext]_restoreVars => TokensApart'
  BY StepKeepsTokens, AdminKeepsTokens, RestKeepsTokens, TokensKeptApart, StoringKeepsApart,
     ConsumingKeepsApart DEF RestoreNext, WebRestore, CommandLine, Restorers
<1>3. TokensApart => TokenIsSpent
  BY DEF TokensApart
<1> QED
  BY <1>1, <1>2, <1>3, RestoreTypeCorrect, PTL DEF RestoreSpec

=============================================================================
