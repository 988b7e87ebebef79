---------------------------- MODULE WorkspaceSync ----------------------------
(***************************************************************************)
(* Synchronization of one desktop workspace: its records live in SQLite,   *)
(* where the application edits them, and in YSL files, where an editor or  *)
(* a version-control checkout edits them.  A job, run under the mutex of   *)
(* the workspace, reconciles the two through the stored baselines, and in  *)
(* mode "sync" then writes the database back to the files.                 *)
(*                                                                         *)
(* A step is what runs without an await between: snapshot of the database, *)
(* read of the files, decision and save, baselines, and then for each kind *)
(* a listing, one write per record and the clean-up.  Requests of the      *)
(* application and of other programs that touch the files take no part in  *)
(* the mutex and may land between any two of them (Interference).          *)
(*                                                                         *)
(* Named bounds: MaxDatabaseEdits, MaxFileEdits, MaxFaults.  The files of  *)
(* a job are read in one step although the program reads one at a time;    *)
(* groups are left to a module of their own; a kind without records, whose *)
(* listing and clean-up find nothing, is skipped.                          *)
(***************************************************************************)
EXTENDS Integers, Sequences, ThreeWay

CONSTANTS
  Records,             \* the record ids of the workspace
  KindOf,              \* the kind of each record
  Imported,            \* those whose file was there when it was imported
  Contents,            \* values of the part of a record both sides can carry
  DefaultContent,      \* the content at import and of a generated SMTP row
  Scripts, NoScript,   \* the test script, or a workspace's or SMTP's script
  Jobs,                \* concurrent calls of the synchronization service
  Modes,               \* what they ask for: subset of {"load", "sync"}
  Torn,                \* a file a crash left half written
  Sqlite,              \* the origin of a row no file is known to back
  Interference,        \* may edits land while a job is under way?
  CrashPhases,         \* the phases of a job in which a crash is considered
  MaxDatabaseEdits, MaxFileEdits, MaxFaults

Kinds == {"workspace", "rest", "graphql", "sse", "environment", "smtp"}
Executable == {"rest", "graphql", "sse"}

\* What a row and a file hold of a record, and what is compared of it.
Row == [content : Contents, script : Scripts, deps : SUBSET Records]
Snapshot == [content : Contents, script : Scripts, deps : SUBSET Records,
             origin : Row \cup {Sqlite}]
Baseline == [source : Snapshot, database : Snapshot \cup {Absent}]

ASSUME SyncAssumptions ==
  /\ KindOf \in [Records -> Kinds]
  /\ Imported \subseteq Records
  /\ \A r \in Records : KindOf[r] = "workspace" => r \in Imported
  /\ DefaultContent \in Contents
  /\ NoScript \in Scripts
  /\ Modes \subseteq {"load", "sync"}
  /\ Interference \in BOOLEAN
  /\ {MaxDatabaseEdits, MaxFileEdits, MaxFaults} \subseteq Nat

ASSUME SentinelAssumptions ==
  /\ Absent \notin Row /\ Torn \notin Row /\ Sqlite \notin Row /\ Absent # Torn
  /\ Absent \notin Snapshot
  /\ NoRevision \notin Baseline

VARIABLES
  db,                  \* the SQLite row of each record, or Absent
  file,                \* the YSL file of each record, or Absent, or Torn
  revision,            \* the stored baseline of each record, or NoRevision
  used,                \* ids handed out so far: a new record gets a fresh one
  inserts,             \* dependency rows still to be inserted, as <<id, ids>>
  job,                 \* the progress of each call
  locked, queue, stage,   \* the mutex of the workspace
  databaseEdits, fileEdits, faults   \* how much of the bounds is used up

Mutex == INSTANCE AsyncMutex WITH Callers <- Jobs

mutexVars == <<locked, queue, stage>>
store == <<db, file, revision>>
budget == <<databaseEdits, fileEdits, faults>>
vars == <<store, used, inserts, job, mutexVars, budget>>

Rows == [Records -> Row \cup {Absent}]
Nothing == [r \in Records |-> Absent]
IdleJob == [phase |-> "idle", mode |-> "load", verdict |-> "none",
            dbSeen |-> Nothing, sourceSeen |-> Nothing,
            kind |-> 0, listed |-> Nothing, todo |-> {}]

Phases == {"idle", "requested", "reading", "loaded", "saved", "listing", "writing", "ending"}
Verdicts == {"none", "invalid", "conflict", "loaded", "pushed", "failed"}
Progress == [phase : Phases, mode : Modes \cup {"load"}, verdict : Verdicts,
             dbSeen : Rows, sourceSeen : Rows,
             kind : 0..6, listed : Rows, todo : SUBSET Records]

TypeOK ==
  /\ db \in Rows
  /\ file \in [Records -> Row \cup {Absent, Torn}]
  /\ revision \in [Records -> Baseline \cup {NoRevision}]
  /\ used \subseteq Records
  /\ inserts \subseteq Records \X SUBSET Records
  /\ job \in [Jobs -> Progress]
  /\ Mutex!TypeOK
  /\ databaseEdits \in Nat /\ fileEdits \in Nat /\ faults \in Nat
-----------------------------------------------------------------------------
(***************************************************************************)
(* References, file forms and snapshots.                                   *)
(***************************************************************************)
Present(rows) == {r \in Records : rows[r] # Absent}
OfKind(kind) == {r \in Records : KindOf[r] = kind}

\* Every dependency names a record of the same kind that exists.
ReferencesResolveIn(rows) ==
  \A r \in Present(rows) :
    \A d \in rows[r].deps : d \in Present(rows) /\ KindOf[d] = KindOf[r]

\* What reading back the file yields that the pusher writes for a row: only
\* some kinds write the script, and only one its dependencies.
PushedForm(r, row) ==
  [content |-> row.content,
   script |-> IF KindOf[r] \in {"sse", "smtp"} THEN row.script ELSE NoScript,
   deps |-> IF KindOf[r] = "sse" THEN row.deps ELSE {}]

\* The loader accepts a set of files: all parse, the workspace file is there
\* and no entity depends on an id that no entity has, whatever its kind.
Loadable(files) ==
  /\ \A r \in Records : files[r] # Torn
  /\ \A r \in OfKind("workspace") : files[r] # Absent
  /\ \A r \in Present(files) : \A d \in files[r].deps :
       files[d] # Absent /\ KindOf[d] \in Executable

\* The snapshot of an environment or of the SMTP configuration also holds the
\* origin of the value: in a file, the hash of its text.  A row's origin is
\* that of the last file it was reconciled with, and "sqlite" before.
ShowsOrigin(r) == KindOf[r] \in {"environment", "smtp"}

SnapshotOf(row, origin) ==
  [content |-> row.content, script |-> row.script, deps |-> row.deps, origin |-> origin]

SourceSnapshot(r, form) ==
  IF form = Absent THEN Absent
  ELSE SnapshotOf(form, IF ShowsOrigin(r) THEN form ELSE Sqlite)

DatabaseSnapshot(r, row) ==
  IF row = Absent THEN Absent
  ELSE SnapshotOf(row, IF ShowsOrigin(r) /\ revision[r] # NoRevision
                       THEN revision[r].source.origin ELSE Sqlite)

\* applySnapshot and removeRecord: the row that a decision leaves.
RowOf(snapshot) ==
  IF snapshot = Absent THEN Absent
  ELSE [content |-> snapshot.content, script |-> snapshot.script, deps |-> snapshot.deps]

\* The call returns or throws; only its finally block is left to run.
EndsWith(j, verdict) ==
  job' = [job EXCEPT ![j] = [@ EXCEPT !.phase = "ending", !.verdict = verdict]]
-----------------------------------------------------------------------------
(***************************************************************************)
(* Faulty variants of operations below.  No behaviour uses them; each shows *)
(* that a property notices the mistake it makes.                            *)
(***************************************************************************)
\* delete() without the cascade to the dependency rows.
DeleteRecordAlone(r) ==
  /\ Interference \/ \A j \in Jobs : job[j].phase \in {"idle", "requested"}
  /\ databaseEdits < MaxDatabaseEdits
  /\ databaseEdits' = databaseEdits + 1
  /\ db[r] # Absent
  /\ db' = [db EXCEPT ![r] = Absent]
  /\ UNCHANGED <<file, revision, used, inserts, job, mutexVars, fileEdits, faults>>

\* The dependency rows are inserted with foreign keys unchecked.
InsertDependenciesUnchecked(r, D) ==
  /\ <<r, D>> \in inserts
  /\ inserts' = inserts \ {<<r, D>>}
  /\ db' = IF db[r] # Absent THEN [db EXCEPT ![r].deps = @ \cup D] ELSE db
  /\ UNCHANGED <<file, revision, used, job, mutexVars, budget>>

\* A call that starts without waiting for the lock.
BeginWithoutLock(j) ==
  /\ job[j].phase = "requested"
  /\ job' = [job EXCEPT ![j] = [@ EXCEPT !.phase = "reading", !.dbSeen = db]]
  /\ UNCHANGED <<store, used, inserts, mutexVars, budget>>

\* Baselines are written for every key, with or without a file.
NextBaselineOfAll(j, r) ==
  [source |-> SourceSnapshot(r, job[j].sourceSeen[r]), database |-> DatabaseSnapshot(r, db[r])]

\* Baselines that exist are never advanced.
NextBaselineKept(j, r) ==
  IF revision[r] # NoRevision \/ job[j].sourceSeen[r] = Absent THEN revision[r]
  ELSE NextBaselineOfAll(j, r)

\* The database half of the baseline is taken from the snapshot before the save.
NextBaselineBeforeSave(j, r) ==
  IF job[j].sourceSeen[r] = Absent THEN NoRevision
  ELSE [source |-> SourceSnapshot(r, job[j].sourceSeen[r]),
        database |-> DatabaseSnapshot(r, job[j].dbSeen[r])]

\* Only REST and GraphQL files are ever cleaned up.
StaleFilesOfRequests(j, kind) ==
  {r \in OfKind(kind) : kind \in {"rest", "graphql"} /\ job[j].listed[r] = Absent}

\* A call that could not load the files tries again, and keeps the lock.
EndRetrying(j) ==
  /\ job[j].phase = "ending"
  /\ IF job[j].verdict = "invalid"
     THEN /\ job' = [job EXCEPT ![j] = [@ EXCEPT !.phase = "reading", !.verdict = "none"]]
          /\ UNCHANGED mutexVars
     ELSE Mutex!Release(j) /\ job' = [job EXCEPT ![j] = IdleJob]
  /\ UNCHANGED <<store, used, inserts, budget>>
-----------------------------------------------------------------------------
FreshRow(content) == [content |-> content, script |-> NoScript, deps |-> {}]

\* A workspace just imported: files, rows and baselines agree, except that the
\* rows were read back before their origin was known.
Init ==
  /\ db = [r \in Records |-> IF r \in Imported THEN FreshRow(DefaultContent) ELSE Absent]
  /\ file = db
  /\ revision = [r \in Records |->
                   IF r \notin Imported THEN NoRevision
                   ELSE [source |-> SourceSnapshot(r, file[r]),
                         database |-> SnapshotOf(db[r], Sqlite)]]
  /\ used = Imported
  /\ inserts = {}
  /\ job = [j \in Jobs |-> IdleJob]
  /\ Mutex!Init
  /\ databaseEdits = 0 /\ fileEdits = 0 /\ faults = 0
-----------------------------------------------------------------------------
(***************************************************************************)
(* Requests of the application: one row at a time, outside the mutex.      *)
(***************************************************************************)
Undisturbed == Interference \/ \A j \in Jobs : job[j].phase \in {"idle", "requested"}

EditDatabase ==
  /\ Undisturbed
  /\ databaseEdits < MaxDatabaseEdits
  /\ databaseEdits' = databaseEdits + 1
  /\ UNCHANGED <<file, revision, job, mutexVars, fileEdits, faults>>

\* update(): any columns of the row but its dependencies; an environment has no
\* script.
UpdateRecord(r) ==
  /\ EditDatabase
  /\ db[r] # Absent
  /\ \E c \in Contents, s \in Scripts :
       /\ KindOf[r] = "environment" => s = db[r].script
       /\ <<c, s>> # <<db[r].content, db[r].script>>
       /\ db' = [db EXCEPT ![r] = [content |-> c, script |-> s, deps |-> db[r].deps]]
  /\ UNCHANGED <<used, inserts>>

\* update() of an SSE entity with dependencies: the old dependency rows are
\* deleted by one statement and the new ones inserted by a later one.
UpdateDependencies(r) ==
  /\ EditDatabase
  /\ KindOf[r] = "sse" /\ db[r] # Absent
  /\ db' = [db EXCEPT ![r].deps = {}]
  /\ \E D \in SUBSET OfKind("sse") : inserts' = inserts \cup {<<r, D>>}
  /\ UNCHANGED used

\* The insertion fails as a whole when a foreign key does not resolve.
InsertDependencies(r, D) ==
  /\ <<r, D>> \in inserts
  /\ inserts' = inserts \ {<<r, D>>}
  /\ db' = IF \A d \in D \cup {r} : KindOf[d] = "sse" /\ db[d] # Absent
           THEN [db EXCEPT ![r].deps = @ \cup D] ELSE db
  /\ UNCHANGED <<file, revision, used, job, mutexVars, budget>>

\* A created record has an id never used before, no script and no dependency.
CreateRecord(r) ==
  /\ EditDatabase
  /\ r \notin used
  /\ KindOf[r] \notin {"workspace", "smtp"}
  /\ \E c \in Contents : db' = [db EXCEPT ![r] = FreshRow(c)]
  /\ used' = used \cup {r}
  /\ UNCHANGED inserts

\* Whatever asks for the mail settings creates the SMTP row when there is none.
OpenMailbox(r) ==
  /\ EditDatabase
  /\ KindOf[r] = "smtp" /\ db[r] = Absent
  /\ db' = [db EXCEPT ![r] = FreshRow(DefaultContent)]
  /\ used' = used \cup {r}
  /\ UNCHANGED inserts

\* Deleting a row cascades to the dependency rows that mention it.
DeleteRecord(r) ==
  /\ EditDatabase
  /\ db[r] # Absent
  /\ KindOf[r] \notin {"workspace", "smtp"}
  /\ db' = [x \in Records |-> IF x = r \/ db[x] = Absent THEN Absent
                              ELSE [db[x] EXCEPT !.deps = @ \ {r}]]
  /\ UNCHANGED <<used, inserts>>
-----------------------------------------------------------------------------
(***************************************************************************)
(* Another program changes, adds, repairs or removes one YSL file.         *)
(***************************************************************************)
FileEdits(r) ==
  IF file[r] \notin Row THEN {FreshRow(c) : c \in Contents}
  ELSE {Absent}
    \cup {[file[r] EXCEPT !.content = c] : c \in Contents}
    \cup (IF KindOf[r] = "environment" THEN {}
          ELSE {[file[r] EXCEPT !.script = s] : s \in Scripts})
    \cup (IF KindOf[r] \notin Executable THEN {}
          ELSE {[file[r] EXCEPT !.deps = D] : D \in SUBSET {d \in Records : KindOf[d] \in Executable}})

EditFile(r) ==
  /\ Undisturbed
  /\ fileEdits < MaxFileEdits
  /\ \E form \in FileEdits(r) \ {file[r]} : file' = [file EXCEPT ![r] = form]
  /\ fileEdits' = fileEdits + 1
  /\ used' = used \cup {r}
  /\ UNCHANGED <<db, revision, inserts, job, mutexVars, databaseEdits, faults>>
-----------------------------------------------------------------------------
(***************************************************************************)
(* A job: loadFromFileSystem (mode "load", on activation) and              *)
(* synchronizeWorkspace (mode "sync", on request).                         *)
(***************************************************************************)
Request(j, mode) ==
  /\ Mutex!Acquire(j)
  /\ job' = [job EXCEPT ![j] = [IdleJob EXCEPT !.phase = "requested", !.mode = mode]]
  /\ UNCHANGED <<store, used, inserts, budget>>

\* The lock is ours: reconcile starts, and takes the database snapshot before
\* the first file is read.
Begin(j) ==
  /\ Mutex!Enter(j)
  /\ Interference \/ inserts = {}
  /\ job' = [job EXCEPT ![j] = [@ EXCEPT !.phase = "reading", !.dbSeen = db]]
  /\ UNCHANGED <<store, used, inserts, budget>>

ReadSource(j) ==
  /\ job[j].phase = "reading"
  /\ IF Loadable(file)
       THEN job' = [job EXCEPT ![j] = [@ EXCEPT !.phase = "loaded", !.sourceSeen = file]]
       ELSE EndsWith(j, "invalid")
  /\ UNCHANGED <<store, used, inserts, mutexVars, budget>>

\* What reconcileRecord says of r, and the row it wants.
Status(j, r) ==
  RecordStatus(revision[r], SourceSnapshot(r, job[j].sourceSeen[r]),
               DatabaseSnapshot(r, job[j].dbSeen[r]))

Desired(j) ==
  [r \in Records |->
     RowOf(RecordOutcome(revision[r], SourceSnapshot(r, job[j].sourceSeen[r]),
                         DatabaseSnapshot(r, job[j].dbSeen[r])))]

\* Removing the SMTP record would drop the mailbox: it must be explicit.
InConflict(j, r) ==
  \/ Status(j, r) = "conflict"
  \/ KindOf[r] = "smtp" /\ Status(j, r) = "source-deleted" /\ job[j].dbSeen[r] # Absent

\* The statuses on which applySnapshot or removeRecord is called.
Applied(j) == {r \in Records : Status(j, r) \in
                 {"source-added", "source-updated", "source-deleted", "auto-merged"}}

\* The script in an SMTP snapshot is an object, and applySnapshot trims it as a
\* string: the reconciliation throws.
ApplyThrows(j) == \E r \in Applied(j) : /\ KindOf[r] = "smtp"
                                        /\ Desired(j)[r] # Absent
                                        /\ Desired(j)[r].script # NoScript

\* The baseline of a record after a reconciliation: what its file held and what
\* its row now holds.  A record without a file has none.
NextBaseline(j, r) ==
  IF job[j].sourceSeen[r] = Absent THEN NoRevision
  ELSE [source |-> SourceSnapshot(r, job[j].sourceSeen[r]),
        database |-> DatabaseSnapshot(r, db[r])]

\* A faulty variant, as above: the baselines of the records free of conflicts
\* advance although the others refuse the job.
ReconcileStoringFirst(j) ==
  /\ job[j].phase = "loaded"
  /\ revision' = [r \in Records |-> IF InConflict(j, r) THEN revision[r] ELSE NextBaseline(j, r)]
  /\ IF \E r \in Records : InConflict(j, r)
       THEN EndsWith(j, "conflict") /\ UNCHANGED db
     ELSE /\ ReferencesResolveIn(Desired(j))
          /\ job' = [job EXCEPT ![j].phase = "saved"]
          /\ db' = Desired(j)
  /\ UNCHANGED <<file, used, inserts, mutexVars, budget>>

\* Decide on the snapshots; on any conflict stop, otherwise replace the rows of
\* the whole workspace in one transaction.
Reconcile(j) ==
  /\ job[j].phase = "loaded"
  /\ IF \E r \in Records : InConflict(j, r)
       THEN /\ EndsWith(j, "conflict")
            /\ UNCHANGED db
     ELSE IF ApplyThrows(j)
       THEN /\ EndsWith(j, "failed")
            /\ UNCHANGED db
     ELSE IF ~ReferencesResolveIn(Desired(j))
       THEN /\ EndsWith(j, "conflict")
            /\ UNCHANGED db
     ELSE /\ job' = [job EXCEPT ![j].phase = "saved"]
          /\ db' = IF Applied(j) = {} THEN db ELSE Desired(j)
  /\ UNCHANGED <<file, revision, used, inserts, mutexVars, budget>>

PushOrder == <<"workspace", "rest", "graphql", "sse", "environment", "smtp">>

\* Go on to the next kind that has records, or end.
Advance(j) ==
  LET left == {k \in (job[j].kind + 1)..6 : OfKind(PushOrder[k]) # {}}
  IN  IF left = {}
      THEN EndsWith(j, "pushed")
      ELSE \E k \in left : /\ \A m \in left : k <= m
                           /\ job' = [job EXCEPT ![j] = [@ EXCEPT !.phase = "listing", !.kind = k]]

PersistBaselines(j) ==
  /\ job[j].phase = "saved"
  /\ revision' = [r \in Records |-> NextBaseline(j, r)]
  /\ IF job[j].mode = "load"
     THEN EndsWith(j, "loaded")
     ELSE Advance(j)
  /\ UNCHANGED <<db, file, used, inserts, mutexVars, budget>>
-----------------------------------------------------------------------------
(***************************************************************************)
(* pushAll: for each kind list the rows, write a file for each, and remove *)
(* the files of rows that were not listed.                                 *)
(***************************************************************************)
\* Listing the SMTP configuration creates it when the workspace has none.
ListKind(j) ==
  /\ job[j].phase = "listing"
  /\ LET kind == PushOrder[job[j].kind]
         created == IF kind = "smtp" THEN {r \in OfKind(kind) : db[r] = Absent} ELSE {}
         rows == [r \in Records |-> IF r \in created THEN FreshRow(DefaultContent) ELSE db[r]]
     IN  /\ db' = rows
         /\ used' = used \cup created
         /\ job' = [job EXCEPT ![j] =
                      [@ EXCEPT !.phase = "writing",
                                !.listed = [r \in Records |-> IF KindOf[r] = kind THEN rows[r] ELSE Absent],
                                !.todo = {r \in OfKind(kind) : rows[r] # Absent}]]
  /\ UNCHANGED <<file, revision, inserts, mutexVars, budget>>

WriteFile(j, r) ==
  /\ job[j].phase = "writing"
  /\ r \in job[j].todo
  /\ file' = [file EXCEPT ![r] = PushedForm(r, job[j].listed[r])]
  /\ job' = [job EXCEPT ![j].todo = @ \ {r}]
  /\ UNCHANGED <<db, revision, used, inserts, mutexVars, budget>>

\* The files cleanupDeletedFiles removes: there is none for the workspace and
\* the SMTP configuration.
StaleFiles(j, kind) ==
  {r \in OfKind(kind) : kind \notin {"workspace", "smtp"} /\ job[j].listed[r] = Absent}

Cleanup(j) ==
  /\ job[j].phase = "writing"
  /\ job[j].todo = {}
  /\ file' = [r \in Records |-> IF r \in StaleFiles(j, PushOrder[job[j].kind])
                                THEN Absent ELSE file[r]]
  /\ Advance(j)
  /\ UNCHANGED <<db, revision, used, inserts, mutexVars, budget>>

\* The finally block of runExclusive, after success, conflict or error.
End(j) ==
  /\ job[j].phase = "ending"
  /\ Mutex!Release(j)
  /\ job' = [job EXCEPT ![j] = IdleJob]
  /\ UNCHANGED <<store, used, inserts, budget>>
-----------------------------------------------------------------------------
(***************************************************************************)
(* Faults.                                                                 *)
(***************************************************************************)
\* A file cannot be written: pushAll throws and the job ends early.
WriteFails(j) ==
  /\ job[j].phase = "writing"
  /\ job[j].todo # {}
  /\ faults < MaxFaults
  /\ faults' = faults + 1
  /\ EndsWith(j, "failed")
  /\ UNCHANGED <<store, used, inserts, mutexVars, databaseEdits, fileEdits>>

\* The application dies.  Jobs, requests and mutex are gone; the database keeps
\* what was committed.  While baselines are stored any part of them may be (new
\* ones first, removals last), and a file being written may be half written.
Crash ==
  /\ faults < MaxFaults
  /\ faults' = faults + 1
  /\ \E j \in Jobs :
       /\ job[j].phase \in CrashPhases
       /\ \/ UNCHANGED <<file, revision>>
          \/ /\ job[j].phase = "saved"
             /\ \E done \in SUBSET Records :
                  /\ \A r \in done : job[j].sourceSeen[r] = Absent
                       => Present(job[j].sourceSeen) \subseteq done
                  /\ revision' = [r \in Records |-> IF r \in done THEN NextBaseline(j, r)
                                                    ELSE revision[r]]
             /\ UNCHANGED file
          \/ /\ job[j].phase = "writing"
             /\ \E r \in job[j].todo : file' = [file EXCEPT ![r] = Torn]
             /\ UNCHANGED revision
  /\ job' = [j \in Jobs |-> IdleJob]
  /\ inserts' = {}
  /\ locked' = FALSE /\ queue' = << >> /\ stage' = [j \in Jobs |-> "outside"]
  /\ UNCHANGED <<db, used, databaseEdits, fileEdits>>
-----------------------------------------------------------------------------
JobStep(j) ==
  \/ Begin(j) \/ ReadSource(j) \/ Reconcile(j) \/ PersistBaselines(j)
  \/ ListKind(j) \/ (\E r \in Records : WriteFile(j, r)) \/ Cleanup(j) \/ End(j)

Next ==
  \/ \E r \in Records : \/ UpdateRecord(r) \/ UpdateDependencies(r)
                        \/ CreateRecord(r) \/ OpenMailbox(r) \/ DeleteRecord(r)
                        \/ EditFile(r)
  \/ \E pair \in inserts : InsertDependencies(pair[1], pair[2])
  \/ \E j \in Jobs : \/ \E mode \in Modes : Request(j, mode)
                     \/ JobStep(j)
                     \/ WriteFails(j)
  \/ Crash

Spec == Init /\ [][Next]_vars

\* The event loop keeps running the continuations of the job that holds the lock.
FairSpec == Spec /\ WF_vars(\E j \in Jobs : JobStep(j))
-----------------------------------------------------------------------------
Working(j) == job[j].phase \notin {"idle", "requested"}

\* No interleaving of jobs, requests, edits of files and crashes leaves a row
\* that depends on a row that is gone or of another kind: the execution of a
\* request resolves its dependencies without a further check.
ReferencesResolve == ReferencesResolveIn(db)

\* Two calls of the service never read, decide and write at the same time,
\* whether they come from an activation or a request, nor after a crash.
OneJobAtATime == \A j, k \in Jobs : Working(j) /\ Working(k) => j = k

\* When a job reports that it has pushed, the files say what the rows say.
PushedFilesAgree ==
  \A j \in Jobs : job[j].phase = "ending" /\ job[j].verdict = "pushed" => file = db

\* A job fails only when a file could not be written.
FailsOnlyOnFaults ==
  \A j \in Jobs : job[j].phase = "ending" /\ job[j].verdict = "failed" => faults > 0

\* Every call of the service comes to its end, however it ends, and so the
\* calls queued behind it get their turn.
EveryCallEnds == \A j \in Jobs : job[j].phase = "requested" ~> job[j].phase = "idle"
=============================================================================
