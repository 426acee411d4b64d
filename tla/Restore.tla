------------------------------ MODULE Restore ------------------------------
(***************************************************************************)
(* Backup and restore (internal/database/restore_*.go, web/backup_handlers,*)
(* cmd/backup.go, cmd/restore.go): administrators download the database,   *)
(* have an uploaded file validated, and apply it by the token they got or  *)
(* by uploading it again; an operator applies one from the command line.   *)
(*                                                                         *)
(* A table is a set of rows, a row its id and the references it holds.  A  *)
(* restore runs in one transaction, whose view of the tables is `copy'; the*)
(* pragma that would turn foreign keys off has no effect inside one, so    *)
(* every DELETE still cascades.                                            *)
(***************************************************************************)
EXTENDS Naturals, Sequences, FiniteSets

CONSTANTS
  Tables, Order,     \* the tables, and their order in sqlite_master
  ForeignKeys,       \* of records: child, parent, column, onDelete
  Ids,
  Contents,          \* what the tables may hold while the program runs
  Uploads,           \* files the administrators and the operator start with
  Admins, Operators, \* who restores over the web, who from the command line
  Conns,             \* connections of the server's pool
  TTL, MaxTokens, MaxDownloads,
  Null

Row == [id : Ids, refs : SUBSET (ForeignKeys \X Ids)]

\* Every reference of a row is one of its table's.
Content == {d \in [Tables -> SUBSET Row] :
              \A t \in Tables : \A r \in d[t] : \A f \in r.refs : f[1].child = t}

\* A file: an empty one opens as a database of version 0 without a row.  missing are
\* the tables it lacks, of an older file those it lacks once it is migrated, never
\* schema_migrations; extra says whether it has a table that is not ours.
File == {c \in [kind : {"database", "empty", "other"},
                 version : {"older", "same", "newer", "dirty"},
                 missing : SUBSET Tables, extra : BOOLEAN, data : Content] :
           c.missing # Tables /\ \A t \in c.missing : c.data[t] = {}}

Position(t) == CHOOSE i \in DOMAIN Order : Order[i] = t

ASSUME RestoreAssumption ==
  /\ Order \in Seq(Tables) /\ {Order[i] : i \in DOMAIN Order} = Tables
  /\ \A i, j \in DOMAIN Order : Order[i] = Order[j] => i = j
  /\ ForeignKeys \subseteq [child : Tables, parent : Tables, column : STRING,
                            onDelete : {"cascade", "set null"}]
  \* The migrations create a table after the tables it refers to.
  /\ \A f \in ForeignKeys : Position(f.parent) <= Position(f.child)
  /\ Contents \subseteq Content /\ Contents # {} /\ Uploads \subseteq File
  /\ Tables # {}
  /\ TTL \in Nat /\ MaxTokens \in Nat /\ MaxDownloads \in Nat
  /\ Null \notin Tables \cup Admins \cup Conns /\ Admins \cap Operators = {}

VARIABLES
  live,       \* the committed tables
  archive,    \* the files people hold
  pending,    \* pendingRestore: by token, the file staged for it and its age, or Null
  issued,     \* tokens handed out
  apply,      \* what each person's restore is doing
  attached,   \* pooled connections that still have restore_db attached
  restoreMu   \* who holds the handler's mutex

restoreVars == <<live, archive, pending, issued, apply, attached, restoreMu>>

Restorers == Admins \cup Operators
Tokens == 1..MaxTokens
Idle == [at |-> "idle"]
At(h, stage) == apply[h].at = stage

-----------------------------------------------------------------------------
(* SQL on a transaction's view of the tables *)
RowsOf(db) == UNION {{t} \X db[t] : t \in Tables}
RefersTo(f, x) == f[1].parent = x[1] /\ f[2] = x[2].id
Closed(db, gone) ==
  \A x \in gone, y \in RowsOf(db) :
    (\E f \in y[2].refs : f[1].onDelete = "cascade" /\ RefersTo(f, x)) => y \in gone

\* What DELETE FROM t removes: the least set closed under ON DELETE CASCADE.
Doomed(db, t) ==
  LET sets == {gone \in SUBSET RowsOf(db) : {t} \X db[t] \subseteq gone /\ Closed(db, gone)}
  IN {x \in RowsOf(db) : \A gone \in sets : x \in gone}

Dangling(f, gone) == \E x \in gone : RefersTo(f, x)
Unlink(r, gone) == IF \E f \in r.refs : Dangling(f, gone)
                   THEN [r EXCEPT !.refs = {f \in r.refs : ~Dangling(f, gone)}] ELSE r

DeleteFrom(db, t) ==
  LET gone == Doomed(db, t)
  IN [u \in Tables |-> {Unlink(r, gone) : r \in {s \in db[u] : <<u, s>> \notin gone}}]

\* Mutation: every INSERT names the same table.
InsertFirst(db, t, rows) == [db EXCEPT ![Order[1]] = @ \cup rows]
InsertInto(db, t, rows) == [db EXCEPT ![t] = @ \cup rows]

\* PRAGMA foreign_key_check, of one table or of all.
Refers(db, t) ==
  \A r \in db[t] : \A f \in r.refs : \E s \in db[f[1].parent] : s.id = f[2]
postRestoreIntegrityChecksTx(db) == \A t \in Tables : Refers(db, t)

-----------------------------------------------------------------------------
(* Checks on a file *)
validateSQLiteHeader(c) == c.kind = "database"

\* An empty file is of version 0, the oldest.
GetMigrationVersion(c) == IF c.kind = "empty" THEN "older" ELSE c.version
MigrateToVersion(c) == [c EXCEPT !.version = "same"]
validateSchemaParity(c) == ~c.extra /\ c.missing = {}

\* Only a file that had to be migrated is compared table by table.
validateMigrationCompatibility(c) ==
  /\ GetMigrationVersion(c) \notin {"newer", "dirty"}
  /\ GetMigrationVersion(c) = "older" => validateSchemaParity(MigrateToVersion(c))

runRestoreCandidateChecks(c) == c.kind # "other" /\ validateMigrationCompatibility(c)
ValidateRestoreCandidate(c) == validateSQLiteHeader(c) /\ runRestoreCandidateChecks(c)

\* The tables of the upload, a table that is not ours among them (Null).
getRestoreTableNames(c) == (Tables \ c.missing) \cup (IF c.extra THEN {Null} ELSE {})

\* Mutation: the tables are listed by name, as the schema check lists them.
Alphabetical(t) == IF t = Null THEN 0 ELSE Len(Order) + 1 - Position(t)
\* The rows of sqlite_master come in the order in which the tables were made.
Place(t) == IF t = Null THEN Len(Order) + 1 ELSE Position(t)

-----------------------------------------------------------------------------
\* What is left once the expired ones are gone.
cleanupExpiredPendingRestoresLocked ==
  [k \in Tokens |-> IF pending[k] # Null /\ pending[k].age > TTL THEN Null ELSE pending[k]]

\* Mutation: the entry stays in the map.
StillThere(staged, k) == staged
deleteToken(staged, k) == [staged EXCEPT ![k] = Null]

\* VACUUM INTO reads what is committed.
CreateBackup == [kind |-> "database", version |-> "same", missing |-> {},
                 extra |-> FALSE, data |-> live]
Download(h) ==
  /\ At(h, "idle")
  /\ Cardinality(archive \ Uploads) < MaxDownloads
  /\ archive' = archive \cup {CreateBackup}
  /\ UNCHANGED <<live, pending, issued, apply, attached, restoreMu>>

handleDatabaseBackup(h) == Download(h)
runBackup(h) == Download(h)

handleDatabaseRestore(h) ==
  /\ At(h, "idle")
  /\ pending' = cleanupExpiredPendingRestoresLocked
  /\ UNCHANGED <<live, archive, issued, apply, attached, restoreMu>>

storePendingRestore(h) ==
  /\ At(h, "idle") /\ issued < MaxTokens
  /\ issued' = issued + 1
  /\ \E c \in archive :
       /\ ValidateRestoreCandidate(c)
       /\ pending' = [cleanupExpiredPendingRestoresLocked
                        EXCEPT ![issued + 1] = [file |-> c, age |-> 0]]
  /\ UNCHANGED <<live, archive, apply, attached, restoreMu>>

\* The file is taken before the mutex is, and is gone when the restore fails.
consumePendingRestore(h) ==
  /\ At(h, "idle")
  /\ \E k \in 1..issued :
       LET staged == cleanupExpiredPendingRestoresLocked
       IN /\ pending' = deleteToken(staged, k)
          /\ apply' = IF staged[k] = Null THEN apply
                      ELSE [apply EXCEPT ![h] = [at |-> "lock", file |-> staged[k].file, token |-> k]]
  /\ UNCHANGED <<live, archive, issued, attached, restoreMu>>

\* A file that is uploaded to be applied at once.
handleDatabaseRestoreApply(h) ==
  /\ At(h, "idle")
  /\ \E c \in archive : apply' = [apply EXCEPT ![h] = [at |-> "lock", file |-> c, token |-> 0]]
  /\ UNCHANGED <<live, archive, pending, issued, attached, restoreMu>>

\* restoreBusy is only looked at under the mutex, where it is never set.
TakeMutex(h) ==
  /\ At(h, "lock") /\ restoreMu = Null
  /\ restoreMu' = h /\ apply' = [apply EXCEPT ![h].at = "check"]
  /\ UNCHANGED <<live, archive, pending, issued, attached>>

\* The command line is another process: no mutex, and a connection of its own.
runRestore(h) ==
  /\ At(h, "idle")
  /\ \E c \in archive :
       c.kind # "empty" /\ apply' = [apply EXCEPT ![h] = [at |-> "check", file |-> c, token |-> 0]]
  /\ UNCHANGED <<live, archive, pending, issued, attached, restoreMu>>

-----------------------------------------------------------------------------
(* ApplyRestoreCandidate *)
\* Mutation: an early return before the deferred unlock.
Keep(h) == restoreMu
Unlocked(h) == IF restoreMu = h THEN Null ELSE restoreMu

End(h) == apply' = [apply EXCEPT ![h] = Idle] /\ restoreMu' = Unlocked(h)

\* The header is not looked at again.
ApplyRestoreCandidate(h) ==
  /\ At(h, "check")
  /\ IF runRestoreCandidateChecks(apply[h].file)
     THEN apply' = [apply EXCEPT ![h].at = "begin"] /\ UNCHANGED restoreMu ELSE End(h)
  /\ UNCHANGED <<live, archive, pending, issued, attached>>

\* ATTACH is refused on a connection that has restore_db already.
Begun(h, conn) == [at |-> "copy", file |-> apply[h].file, token |-> apply[h].token,
                   conn |-> conn, done |-> {}, copy |-> live]
Used == {apply[g].conn : g \in {g \in Restorers : apply[g].at \in {"copy", "verify", "commit", "detach"}}}

prepareRestoreTransaction(h) ==
  /\ At(h, "begin")
  /\ IF h \in Admins
     THEN \E conn \in Conns \ Used :
            IF conn \in attached THEN End(h) /\ UNCHANGED attached
            ELSE /\ attached' = attached \cup {conn}
                 /\ apply' = [apply EXCEPT ![h] = Begun(h, conn)]
                 /\ UNCHANGED restoreMu
     ELSE apply' = [apply EXCEPT ![h] = Begun(h, Null)] /\ UNCHANGED <<attached, restoreMu>>
  /\ UNCHANGED <<live, archive, pending, issued>>

\* SQLite lets one connection write: it holds the lock from its first DELETE.
Writing(h) == apply[h].at \in {"verify", "commit"} \/ (At(h, "copy") /\ apply[h].done # {})
MayWrite(h) == \A g \in Restorers \ {h} : ~Writing(g)

View(h) == IF Writing(h) THEN apply[h].copy ELSE live
Left(w) == getRestoreTableNames(w.file) \ w.done
Copied(h, t) == InsertInto(DeleteFrom(View(h), t), t, apply[h].file.data[t])

\* One table: DELETE, then INSERT ... SELECT.  The names are unqualified: a table that
\* live lacks is restore_db's own, which is emptied and filled from itself.
copyTablesFromRestore(h) ==
  /\ At(h, "copy") /\ MayWrite(h)
  /\ \E t \in Left(apply[h]) :
       /\ \A u \in Left(apply[h]) : Place(t) <= Place(u)
       /\ IF t # Null /\ ~Refers(Copied(h, t), t) THEN End(h)
          ELSE /\ apply' = [apply EXCEPT ![h].copy = IF t = Null THEN @ ELSE Copied(h, t),
                                         ![h].done = @ \cup {t}]
               /\ UNCHANGED restoreMu
  /\ UNCHANGED <<live, archive, pending, issued, attached>>

\* The lock is not given up in time: "database is locked".
Locked(h) ==
  /\ At(h, "copy") /\ ~MayWrite(h)
  /\ End(h)
  /\ UNCHANGED <<live, archive, pending, issued, attached>>

CopyDone(h) ==
  /\ At(h, "copy") /\ Left(apply[h]) = {}
  /\ apply' = [apply EXCEPT ![h].at = "verify"]
  /\ UNCHANGED <<live, archive, pending, issued, attached, restoreMu>>

PostCheck(h) ==
  /\ At(h, "verify")
  /\ IF postRestoreIntegrityChecksTx(apply[h].copy)
     THEN apply' = [apply EXCEPT ![h].at = "commit"] /\ UNCHANGED restoreMu ELSE End(h)
  /\ UNCHANGED <<live, archive, pending, issued, attached>>

applyRestoreFromFile(h) ==
  /\ At(h, "commit")
  /\ live' = apply[h].copy
  /\ apply' = [apply EXCEPT ![h].at = "detach"]
  /\ UNCHANGED <<archive, pending, issued, attached, restoreMu>>

detachRestoreDatabase(h) ==
  /\ At(h, "detach")
  /\ attached' = attached \ {apply[h].conn}
  /\ End(h)
  /\ UNCHANGED <<live, archive, pending, issued>>

\* The browser goes away: the statement that runs fails and the transaction is
\* rolled back; the connection is closed, or returns to the pool as it is.
CancelRequest(h) ==
  /\ h \in Admins /\ apply[h].at \in {"begin", "copy", "verify", "detach"}
  /\ \/ UNCHANGED attached
     \/ apply[h].at # "begin" /\ attached' = attached \ {apply[h].conn}
  /\ End(h)
  /\ UNCHANGED <<live, archive, pending, issued>>

-----------------------------------------------------------------------------
\* The rest of the program writes; half an hour passes; the server starts again.
Write ==
  /\ \A h \in Restorers : ~Writing(h)
  /\ live' \in Contents
  /\ UNCHANGED <<archive, pending, issued, apply, attached, restoreMu>>

Age ==
  /\ \E k \in Tokens : pending[k] # Null
  /\ pending' = [k \in Tokens |->
       IF pending[k] # Null /\ pending[k].age <= TTL
       THEN [pending[k] EXCEPT !.age = @ + 1] ELSE pending[k]]
  /\ UNCHANGED <<live, archive, issued, apply, attached, restoreMu>>

RestartServer ==
  /\ pending' = [k \in Tokens |-> Null]
  /\ apply' = [h \in Restorers |-> IF h \in Admins THEN Idle ELSE apply[h]]
  /\ attached' = {} /\ restoreMu' = Null
  /\ UNCHANGED <<live, archive, issued>>

Killed(h) ==
  /\ ~At(h, "idle") /\ End(h)
  /\ UNCHANGED <<live, archive, pending, issued, attached>>

RestoreInit ==
  /\ live \in Contents
  /\ archive = Uploads
  /\ pending = [k \in Tokens |-> Null] /\ issued = 0
  /\ apply = [h \in Restorers |-> Idle]
  /\ attached = {} /\ restoreMu = Null

RestoreStep(h) ==
  \/ ApplyRestoreCandidate(h) \/ prepareRestoreTransaction(h) \/ copyTablesFromRestore(h)
  \/ Locked(h) \/ CopyDone(h) \/ PostCheck(h) \/ applyRestoreFromFile(h) \/ detachRestoreDatabase(h)

WebRestore(h) ==
  \/ handleDatabaseBackup(h) \/ handleDatabaseRestore(h) \/ storePendingRestore(h)
  \/ consumePendingRestore(h) \/ handleDatabaseRestoreApply(h) \/ TakeMutex(h)
  \/ RestoreStep(h) \/ CancelRequest(h)

CommandLine(h) == runBackup(h) \/ runRestore(h) \/ RestoreStep(h) \/ Killed(h)

RestoreNext ==
  \/ \E h \in Admins : WebRestore(h)
  \/ \E h \in Operators : CommandLine(h)
  \/ Write \/ Age \/ RestartServer

\* A goroutine runs as long as it can, and the mutex is handed on.
RestoreFairness ==
  /\ \A h \in Restorers : WF_restoreVars(RestoreStep(h))
  /\ \A h \in Admins : SF_restoreVars(TakeMutex(h))

RestoreSpec == RestoreInit /\ [][RestoreNext]_restoreVars /\ RestoreFairness

-----------------------------------------------------------------------------
Waiting == [at : {"lock", "check", "begin"}, file : File, token : 0..MaxTokens]
Restoring == [at : {"copy", "verify", "commit", "detach"}, file : File, token : 0..MaxTokens,
              conn : Conns \cup {Null}, done : SUBSET (Tables \cup {Null}), copy : Content]

RestoreTypeOK ==
  /\ live \in Content /\ archive \subseteq File
  /\ pending \in [Tokens -> [file : File, age : 0..TTL + 1] \cup {Null}] /\ issued \in 0..MaxTokens
  /\ attached \subseteq Conns \cup {Null} /\ restoreMu \in Admins \cup {Null}
  /\ apply \in [Restorers -> {Idle} \cup Waiting \cup Restoring]

\* Each row was there before, with these references and perhaps more.
KeptFrom(rows, before) ==
  \A r \in rows : \E s \in before : s.id = r.id /\ r.refs \subseteq s.refs

\* restore_apply.go:42-142: with foreign keys still enforced and every DELETE
\* cascading, what is about to be committed is, of each table the uploaded file has,
\* the file's rows, all of them and nothing else.  A table the file lacks, and no
\* other, keeps rows of the database, at most those it has, and gets none.
RestoredIsTheBackup ==
  \A h \in Restorers : apply[h].at \in {"verify", "commit"} =>
    \A t \in Tables :
      IF t \in apply[h].file.missing THEN KeptFrom(apply[h].copy[t], live[t])
                                     ELSE apply[h].copy[t] = apply[h].file.data[t]

\* backup_handlers.go:217-233: a validated file is applied by one request at most,
\* even when the form is sent twice at once.
TokenIsSpent ==
  \A h \in Admins :
    (~At(h, "idle") /\ apply[h].token # 0)
      => /\ pending[apply[h].token] = Null
         /\ \A g \in Admins \ {h} : At(g, "idle") \/ apply[g].token # apply[h].token

\* backup_handlers.go:152-158: every restore that was started ends, whichever of its
\* checks or statements fails, and lets the next one in.
RestoreEnds == \A h \in Restorers : ~At(h, "idle") ~> At(h, "idle")

=============================================================================
