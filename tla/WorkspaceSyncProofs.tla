------------------------- MODULE WorkspaceSyncProofs -------------------------
(***************************************************************************)
(* Proofs about WorkspaceSync and its history, for every set of records,   *)
(* contents, scripts and calls, and for every bound.                       *)
(*                                                                         *)
(* The first part holds with edits and crashes at any moment: types,       *)
(* references, one call at a time, and that calls which work come nearer   *)
(* to their ends.  The second part is about a workspace                    *)
(* that nobody edits while a call works (~Interference), with crashes and  *)
(* failed writes at any moment: what a refused call leaves, what a push    *)
(* writes, and what becomes of the edits made since rows and files last    *)
(* agreed.  The last part is about the merge of nested values, which the   *)
(* decision on one record compares field by field.                         *)
(***************************************************************************)
EXTENDS SyncHistory, JsonMerge, SequenceTheorems, WellFoundedInduction, TLAPS

MutexFacts == INSTANCE AsyncMutexProofs WITH Callers <- Jobs

\* The invariant of the mutex that a job is run under.
MutexIInv == MutexFacts!IInv

\* Every step is a step of the mutex, leaves it alone, or resets it.
LEMMA MutexStep ==
  [Next]_vars => [Mutex!Next]_mutexVars \/ Mutex!Init'
<1> SUFFICES ASSUME [Next]_vars PROVE [Mutex!Next]_mutexVars \/ Mutex!Init'
  OBVIOUS
<1>1. ASSUME NEW r \in Records,
             UpdateRecord(r) \/ UpdateDependencies(r) \/ CreateRecord(r)
               \/ OpenMailbox(r) \/ DeleteRecord(r) \/ EditFile(r)
      PROVE  UNCHANGED mutexVars
  BY <1>1 DEF UpdateRecord, UpdateDependencies, CreateRecord, OpenMailbox, DeleteRecord,
              EditFile, EditDatabase
<1>2. ASSUME NEW pair \in inserts, InsertDependencies(pair[1], pair[2])
      PROVE  UNCHANGED mutexVars
  BY <1>2 DEF InsertDependencies
<1>3. ASSUME NEW j \in Jobs, NEW mode \in Modes, Request(j, mode)
      PROVE  Mutex!Next
  BY <1>3 DEF Request, Mutex!Next
<1>4. ASSUME NEW j \in Jobs, JobStep(j)
      PROVE  [Mutex!Next]_mutexVars
  <2>1. CASE Begin(j) \/ End(j)
    BY <2>1 DEF Begin, End, Mutex!Next
  <2>2. CASE ReadSource(j) \/ Reconcile(j) \/ PersistBaselines(j) \/ ListKind(j)
               \/ (\E r \in Records : WriteFile(j, r)) \/ Cleanup(j)
    BY <2>2 DEF ReadSource, Reconcile, PersistBaselines, ListKind, WriteFile, Cleanup
  <2> QED BY <1>4, <2>1, <2>2 DEF JobStep
<1>5. ASSUME NEW j \in Jobs, WriteFails(j)
      PROVE  UNCHANGED mutexVars
  BY <1>5 DEF WriteFails
<1>6. CASE Crash
  BY <1>6 DEF Crash, Mutex!Init
<1>7. CASE UNCHANGED vars
  BY <1>7 DEF vars
<1> QED BY <1>1, <1>2, <1>3, <1>4, <1>5, <1>6, <1>7 DEF Next

\* The mutex keeps its invariant whatever the jobs do, and across a crash.
LEMMA MutexKept == MutexIInv /\ [Next]_vars => MutexIInv'
<1>1. Mutex!Init => MutexIInv
  <2>1. Mutex!Init => MutexFacts!Init
    BY DEF Mutex!Init, MutexFacts!Init
  <2> QED BY <2>1, MutexFacts!InvariantInit DEF MutexIInv
<1>2. MutexIInv /\ [Mutex!Next]_mutexVars => MutexIInv'
  <2>1. [Mutex!Next]_mutexVars => [MutexFacts!Next]_(MutexFacts!vars)
    BY DEF Mutex!Next, MutexFacts!Next, mutexVars, MutexFacts!vars,
           Mutex!Acquire, MutexFacts!Acquire, Mutex!Enter, MutexFacts!Enter,
           Mutex!Release, MutexFacts!Release
  <2> QED BY <2>1, MutexFacts!InvariantStep DEF MutexIInv
<1> QED BY <1>1, <1>2, MutexStep, PTL
-----------------------------------------------------------------------------
(***************************************************************************)
(* What a decision about one record can put in the database.               *)
(***************************************************************************)
\* The snapshots of a row or a file form are snapshots.
LEMMA SnapshotsTyped ==
  ASSUME TypeOK, NEW r \in Records, NEW row \in Row \cup {Absent}
  PROVE  /\ SourceSnapshot(r, row) \in Snapshot \cup {Absent}
         /\ DatabaseSnapshot(r, row) \in Snapshot \cup {Absent}
         /\ SourceSnapshot(r, row) = Absent <=> row = Absent
<1>1. CASE row = Absent
  BY <1>1 DEF SourceSnapshot, DatabaseSnapshot
<1>2. CASE row # Absent
  <2>1. \A origin \in Row \cup {Sqlite} : SnapshotOf(row, origin) \in Snapshot
    BY <1>2 DEF SnapshotOf, Snapshot, Row
  <2>2. SourceSnapshot(r, row) \in Snapshot
    BY <1>2, <2>1 DEF SourceSnapshot
  <2>3. revision[r] # NoRevision => revision[r].source.origin \in Row \cup {Sqlite}
    BY DEF TypeOK, Baseline, Snapshot
  <2>4. DatabaseSnapshot(r, row) \in Snapshot
    BY <1>2, <2>1, <2>3 DEF DatabaseSnapshot
  <2> QED BY <1>2, <2>2, <2>4, SentinelAssumptions
<1> QED BY <1>1, <1>2

\* Merging three snapshots of a record field by field gives a snapshot of it.
LEMMA MergeTyped ==
  ASSUME NEW base \in Snapshot, NEW source \in Snapshot, NEW database \in Snapshot
  PROVE  MergeFields(base, source, database) \in Snapshot
<1>1. DOMAIN source = {"content", "script", "deps", "origin"}
  BY DEF Snapshot
<1>2. \A f \in DOMAIN source : MergeFields(base, source, database)[f] \in {source[f], database[f]}
  BY DEF MergeFields
<1>3. MergeFields(base, source, database)
        = [content |-> MergeFields(base, source, database).content,
           script |-> MergeFields(base, source, database).script,
           deps |-> MergeFields(base, source, database).deps,
           origin |-> MergeFields(base, source, database).origin]
  BY <1>1 DEF MergeFields
<1>4. /\ MergeFields(base, source, database).content \in Contents
      /\ MergeFields(base, source, database).script \in Scripts
      /\ MergeFields(base, source, database).deps \in SUBSET Records
      /\ MergeFields(base, source, database).origin \in Row \cup {Sqlite}
  BY <1>1, <1>2 DEF Snapshot
<1> QED BY <1>3, <1>4 DEF Snapshot

\* Whatever the three sides hold, what is decided is a row or no row.
LEMMA OutcomeTyped ==
  ASSUME NEW base \in Baseline \cup {NoRevision},
         NEW source \in Snapshot \cup {Absent}, NEW database \in Snapshot \cup {Absent}
  PROVE  RowOf(RecordOutcome(base, source, database)) \in Row \cup {Absent}
<1>1. MergeBase(base) \in Snapshot \cup {Absent}
  BY DEF MergeBase, Baseline
<1>2. RecordStatus(base, source, database) = "auto-merged"
        => MergeBase(base) \in Snapshot /\ source \in Snapshot /\ database \in Snapshot
  BY <1>1, SentinelAssumptions DEF RecordStatus, ThreeWayStatus
<1>3. RecordOutcome(base, source, database) \in Snapshot \cup {Absent}
  BY <1>2, MergeTyped DEF RecordOutcome
<1>4. \A s \in Snapshot : RowOf(s) \in Row \cup {Absent}
  BY DEF RowOf, Snapshot, Row
<1> QED BY <1>3, <1>4 DEF RowOf
-----------------------------------------------------------------------------
(***************************************************************************)
(* Types.  Those of the mutex follow from its own invariant.               *)
(***************************************************************************)
StoreTyped ==
  /\ db \in Rows
  /\ file \in [Records -> Row \cup {Absent, Torn}]
  /\ revision \in [Records -> Baseline \cup {NoRevision}]
  /\ used \subseteq Records
  /\ inserts \subseteq Records \X SUBSET Records

BudgetTyped == databaseEdits \in Nat /\ fileEdits \in Nat /\ faults \in Nat

DataTyped == StoreTyped /\ job \in [Jobs -> Progress] /\ BudgetTyped

\* A record is left to be written only if its row was listed.
TodoListed == \A j \in Jobs : \A r \in job[j].todo : job[j].listed[r] # Absent

\* A new row is a row, and so is an idle call's progress typed.
LEMMA FreshTyped ==
  /\ \A c \in Contents : FreshRow(c) \in Row
  /\ FreshRow(DefaultContent) \in Row
  /\ IdleJob \in Progress
<1>1. \A c \in Contents : FreshRow(c) \in Row
  BY SyncAssumptions DEF FreshRow, Row
<1>2. Nothing \in Rows
  BY DEF Nothing, Rows
<1>3. IdleJob \in Progress
  BY <1>2 DEF IdleJob, Progress, Phases, Verdicts
<1> QED BY <1>1, <1>3, SyncAssumptions

\* A workspace as imported is well typed.
LEMMA DataTypedInit == Init => DataTyped
<1> SUFFICES ASSUME Init PROVE DataTyped
  OBVIOUS
<1>1. db \in Rows
  BY FreshTyped DEF Init, Rows
<1>2. file \in [Records -> Row \cup {Absent, Torn}]
  BY <1>1 DEF Init, Rows
<1>3. ASSUME NEW r \in Imported
      PROVE  [source |-> SourceSnapshot(r, file[r]), database |-> SnapshotOf(db[r], Sqlite)] \in Baseline
  <2>1. db[r] \in Row /\ file[r] = db[r] /\ db[r] # Absent
    BY <1>3, FreshTyped, SyncAssumptions, SentinelAssumptions DEF Init
  <2>2. \A origin \in Row \cup {Sqlite} : SnapshotOf(db[r], origin) \in Snapshot
    BY <2>1 DEF SnapshotOf, Snapshot, Row
  <2>3. SourceSnapshot(r, file[r]) \in Snapshot
    BY <2>1, <2>2 DEF SourceSnapshot
  <2> QED BY <2>2, <2>3 DEF Baseline
<1>4. revision \in [Records -> Baseline \cup {NoRevision}]
  BY <1>3, SyncAssumptions DEF Init
<1>5. job \in [Jobs -> Progress]
  BY FreshTyped DEF Init
<1>6. used \subseteq Records /\ inserts \subseteq Records \X SUBSET Records
  BY SyncAssumptions DEF Init
<1>7. BudgetTyped
  BY DEF Init, BudgetTyped
<1> QED BY <1>1, <1>2, <1>4, <1>5, <1>6, <1>7 DEF DataTyped, StoreTyped

\* A request of the application leaves well-typed rows.
LEMMA RequestsTyped ==
  ASSUME DataTyped, NEW r \in Records,
         UpdateRecord(r) \/ UpdateDependencies(r) \/ CreateRecord(r) \/ OpenMailbox(r) \/ DeleteRecord(r)
  PROVE  DataTyped'
<1> USE DEF DataTyped, StoreTyped
<1>1. /\ UNCHANGED <<file, revision, job, fileEdits, faults>>
      /\ databaseEdits' = databaseEdits + 1
  BY DEF UpdateRecord, UpdateDependencies, CreateRecord, OpenMailbox, DeleteRecord, EditDatabase
<1>2. BudgetTyped'
  BY <1>1 DEF BudgetTyped
<1>3. CASE UpdateRecord(r)
  <2>1. db' \in Rows
    BY <1>3 DEF UpdateRecord, Rows, Row
  <2> QED BY <1>1, <1>2, <1>3, <2>1 DEF UpdateRecord
<1>4. CASE UpdateDependencies(r)
  <2>1. db' \in Rows
    BY <1>4 DEF UpdateDependencies, Rows, Row
  <2>2. inserts' \subseteq Records \X SUBSET Records /\ used' = used
    BY <1>4 DEF UpdateDependencies, OfKind
  <2> QED BY <1>1, <1>2, <2>1, <2>2
<1>5. CASE CreateRecord(r)
  <2>1. db' \in Rows
    BY <1>5, FreshTyped DEF CreateRecord, Rows
  <2> QED BY <1>1, <1>2, <1>5, <2>1 DEF CreateRecord
<1>6. CASE OpenMailbox(r)
  <2>1. db' \in Rows
    BY <1>6, FreshTyped DEF OpenMailbox, Rows
  <2> QED BY <1>1, <1>2, <1>6, <2>1 DEF OpenMailbox
<1>7. CASE DeleteRecord(r)
  <2>1. ASSUME NEW x \in Records, db[x] # Absent
        PROVE  [db[x] EXCEPT !.deps = @ \ {r}] \in Row
    BY <2>1 DEF Rows, Row
  <2>2. db' \in Rows
    BY <1>7, <2>1 DEF DeleteRecord, Rows
  <2> QED BY <1>1, <1>2, <1>7, <2>2 DEF DeleteRecord
<1> QED BY <1>3, <1>4, <1>5, <1>6, <1>7

\* So do a late insertion of dependencies and an edit of a file.
LEMMA OutsideTyped ==
  ASSUME DataTyped,
         \/ \E pair \in inserts : InsertDependencies(pair[1], pair[2])
         \/ \E r \in Records : EditFile(r)
  PROVE  DataTyped'
<1> USE DEF DataTyped, StoreTyped
<1>1. ASSUME NEW pair \in inserts, InsertDependencies(pair[1], pair[2])
      PROVE  DataTyped'
  <2>1. pair[1] \in Records /\ pair[2] \subseteq Records
    OBVIOUS
  <2>2. db' \in Rows
    BY <1>1, <2>1 DEF InsertDependencies, Rows, Row
  <2>3. inserts' \subseteq inserts /\ UNCHANGED <<file, revision, used, job, budget>>
    BY <1>1 DEF InsertDependencies
  <2> QED BY <2>2, <2>3 DEF budget, BudgetTyped
<1>2. ASSUME NEW r \in Records, EditFile(r)
      PROVE  DataTyped'
  <2>1. FileEdits(r) \subseteq Row \cup {Absent}
    <3>1. CASE file[r] \notin Row
      BY <3>1, FreshTyped DEF FileEdits
    <3>2. CASE file[r] \in Row
      <4>1. \A c \in Contents : [file[r] EXCEPT !.content = c] \in Row
        BY <3>2 DEF Row
      <4>2. \A x \in Scripts : [file[r] EXCEPT !.script = x] \in Row
        BY <3>2 DEF Row
      <4>3. \A D \in SUBSET Records : [file[r] EXCEPT !.deps = D] \in Row
        BY <3>2 DEF Row
      <4> QED BY <3>2, <4>1, <4>2, <4>3 DEF FileEdits
    <3> QED BY <3>1, <3>2
  <2>2. file' \in [Records -> Row \cup {Absent, Torn}]
    BY <1>2, <2>1 DEF EditFile
  <2>3. /\ UNCHANGED <<db, revision, inserts, job, databaseEdits, faults>>
        /\ used' = used \cup {r} /\ fileEdits' = fileEdits + 1
    BY <1>2 DEF EditFile
  <2>4. BudgetTyped'
    BY <2>3 DEF BudgetTyped
  <2> QED BY <2>2, <2>3, <2>4
<1> QED BY <1>1, <1>2

\* The wishes of a reconciliation are rows.
LEMMA DesiredTyped == ASSUME DataTyped, TypeOK, NEW j \in Jobs PROVE Desired(j) \in Rows
<1> SUFFICES ASSUME NEW r \in Records
             PROVE  RowOf(RecordOutcome(revision[r], SourceSnapshot(r, job[j].sourceSeen[r]),
                                        DatabaseSnapshot(r, job[j].dbSeen[r]))) \in Row \cup {Absent}
  BY DEF Desired, Rows
<1>1. job[j].sourceSeen[r] \in Row \cup {Absent} /\ job[j].dbSeen[r] \in Row \cup {Absent}
  BY DEF DataTyped, Progress, Rows
<1>2. revision[r] \in Baseline \cup {NoRevision}
  BY DEF DataTyped, StoreTyped
<1> QED BY <1>1, <1>2, SnapshotsTyped, OutcomeTyped

\* The next baseline of a record is one, or none when the record has no file.
LEMMA NextBaselineTyped ==
  ASSUME DataTyped, TypeOK, NEW j \in Jobs, NEW r \in Records
  PROVE  NextBaseline(j, r) \in Baseline \cup {NoRevision}
<1>1. job[j].sourceSeen[r] \in Row \cup {Absent} /\ db[r] \in Row \cup {Absent}
  BY DEF DataTyped, StoreTyped, Progress, Rows
<1>2. job[j].sourceSeen[r] # Absent => SourceSnapshot(r, job[j].sourceSeen[r]) \in Snapshot
  BY <1>1, SnapshotsTyped
<1>3. DatabaseSnapshot(r, db[r]) \in Snapshot \cup {Absent}
  BY <1>1, SnapshotsTyped
<1> QED BY <1>2, <1>3 DEF NextBaseline, Baseline

\* A file is written in the form of a row.
LEMMA PushedFormTyped ==
  ASSUME NEW r \in Records, NEW row \in Row PROVE PushedForm(r, row) \in Row
BY SyncAssumptions DEF PushedForm, Row

\* A call that ends keeps its progress typed.
LEMMA EndTyped ==
  ASSUME job \in [Jobs -> Progress], NEW j \in Jobs, NEW verdict \in Verdicts, EndsWith(j, verdict)
  PROVE  job' \in [Jobs -> Progress]
<1>1. [job[j] EXCEPT !.phase = "ending", !.verdict = verdict] \in Progress
  BY DEF Progress, Phases
<1> QED BY <1>1 DEF EndsWith

\* Going on to the next kind keeps the progress of the call typed.
LEMMA AdvanceTyped ==
  ASSUME job \in [Jobs -> Progress], NEW j \in Jobs, Advance(j)
  PROVE  job' \in [Jobs -> Progress]
<1>1. job[j].kind \in 0..6 /\ job[j] \in Progress
  BY DEF Progress
<1>2. CASE EndsWith(j, "pushed")
  BY <1>2, EndTyped DEF Verdicts
<1>3. ASSUME NEW k \in (job[j].kind + 1)..6,
             job' = [job EXCEPT ![j] = [@ EXCEPT !.phase = "listing", !.kind = k]]
      PROVE  job' \in [Jobs -> Progress]
  <2>1. k \in 0..6
    BY <1>1
  <2>2. [job[j] EXCEPT !.phase = "listing", !.kind = k] \in Progress
    BY <1>1, <2>1 DEF Progress, Phases
  <2> QED BY <1>3, <2>2
<1> QED BY <1>2, <1>3 DEF Advance

\* The steps of a call that read and decide.
LEMMA DecidingTyped ==
  ASSUME DataTyped, TypeOK, NEW j \in Jobs,
         \/ \E mode \in Modes : Request(j, mode)
         \/ Begin(j) \/ ReadSource(j) \/ Reconcile(j) \/ End(j)
  PROVE  DataTyped'
<1> USE DEF DataTyped, StoreTyped, BudgetTyped
<1>1. ASSUME NEW mode \in Modes, Request(j, mode)
      PROVE  DataTyped'
  <2>1. [IdleJob EXCEPT !.phase = "requested", !.mode = mode] \in Progress
    BY FreshTyped DEF Progress, Phases
  <2> QED BY <1>1, <2>1 DEF Request, store, budget
<1>2. CASE Begin(j)
  <2>0. [job[j] EXCEPT !.phase = "reading", !.dbSeen = db] \in Progress
    BY DEF Progress, Phases
  <2>1. job' \in [Jobs -> Progress]
    BY <1>2, <2>0 DEF Begin
  <2> QED BY <1>2, <2>1 DEF Begin, store, budget
<1>3. CASE ReadSource(j)
  <2>1. Loadable(file) => file \in Rows
    BY DEF Loadable, Rows
  <2>2. job' \in [Jobs -> Progress]
    <3>1. CASE Loadable(file)
      <4>1. [job[j] EXCEPT !.phase = "loaded", !.sourceSeen = file] \in Progress
        BY <2>1, <3>1 DEF Progress, Phases
      <4> QED BY <1>3, <3>1, <4>1 DEF ReadSource
    <3>2. CASE EndsWith(j, "invalid")
      BY <3>2, EndTyped DEF Verdicts
    <3> QED BY <1>3, <3>1, <3>2 DEF ReadSource
  <2> QED BY <1>3, <2>2 DEF ReadSource, store, budget
<1>4. CASE Reconcile(j)
  <2>1. db' \in Rows
    BY <1>4, DesiredTyped DEF Reconcile
  <2>2. job' \in [Jobs -> Progress]
    <3>1. CASE \E verdict \in Verdicts : EndsWith(j, verdict)
      BY <3>1, EndTyped
    <3>2. CASE job' = [job EXCEPT ![j].phase = "saved"]
      BY <3>2 DEF Progress, Phases
    <3> QED BY <1>4, <3>1, <3>2 DEF Reconcile, Verdicts
  <2>3. UNCHANGED <<file, revision, used, inserts, budget>>
    BY <1>4 DEF Reconcile
  <2> QED BY <2>1, <2>2, <2>3 DEF budget
<1>5. CASE End(j)
  <2>1. job' \in [Jobs -> Progress]
    BY <1>5, FreshTyped DEF End
  <2> QED BY <1>5, <2>1 DEF End, store, budget
<1> QED BY <1>1, <1>2, <1>3, <1>4, <1>5

\* The steps of a call that write.
LEMMA WritingTyped ==
  ASSUME DataTyped, TypeOK, TodoListed, NEW j \in Jobs,
         \/ PersistBaselines(j) \/ ListKind(j) \/ (\E r \in Records : WriteFile(j, r))
         \/ Cleanup(j) \/ WriteFails(j)
  PROVE  DataTyped'
<1> USE DEF DataTyped, StoreTyped, BudgetTyped
<1>1. CASE PersistBaselines(j)
  <2>1. revision' \in [Records -> Baseline \cup {NoRevision}]
    BY <1>1, NextBaselineTyped DEF PersistBaselines
  <2>2. job' \in [Jobs -> Progress]
    <3>1. CASE EndsWith(j, "loaded")
      BY <3>1, EndTyped DEF Verdicts
    <3>2. CASE Advance(j)
      BY <3>2, AdvanceTyped
    <3> QED BY <1>1, <3>1, <3>2 DEF PersistBaselines
  <2> QED BY <1>1, <2>1, <2>2 DEF PersistBaselines, budget
<1>2. CASE ListKind(j)
  <2> DEFINE kind == PushOrder[job[j].kind]
             created == IF kind = "smtp" THEN {r \in OfKind(kind) : db[r] = Absent} ELSE {}
             rows == [r \in Records |-> IF r \in created THEN FreshRow(DefaultContent) ELSE db[r]]
             listed == [r \in Records |-> IF KindOf[r] = kind THEN rows[r] ELSE Absent]
             todo == {r \in OfKind(kind) : rows[r] # Absent}
  <2>1. created \subseteq Records
    BY DEF OfKind
  <2>2. rows \in Rows
    BY FreshTyped DEF Rows
  <2>3. listed \in Rows
    BY <2>2 DEF Rows
  <2>4. todo \in SUBSET Records
    BY DEF OfKind
  <2>5. /\ db' = rows /\ used' = used \cup created
        /\ job' = [job EXCEPT ![j] = [@ EXCEPT !.phase = "writing", !.listed = listed, !.todo = todo]]
        /\ UNCHANGED <<file, revision, inserts, budget>>
    BY <1>2 DEF ListKind
  <2> HIDE DEF listed, todo, rows, created
  <2>6. [job[j] EXCEPT !.phase = "writing", !.listed = listed, !.todo = todo] \in Progress
    BY <2>3, <2>4 DEF Progress, Phases
  <2>7. job' \in [Jobs -> Progress]
    BY <2>5, <2>6
  <2> QED BY <2>1, <2>2, <2>5, <2>7 DEF budget
<1>3. ASSUME NEW r \in Records, WriteFile(j, r)
      PROVE  DataTyped'
  <2>1. job' \in [Jobs -> Progress]
    BY <1>3 DEF WriteFile, Progress
  <2>2. file' \in [Records -> Row \cup {Absent, Torn}]
    <3>1. job[j].todo \subseteq Records /\ job[j].listed \in Rows
      BY DEF Progress
    <3>2. job[j].listed[r] \in Row
      BY <1>3, <3>1 DEF TodoListed, WriteFile, Rows
    <3> QED BY <1>3, <3>2, PushedFormTyped DEF WriteFile
  <2> QED BY <1>3, <2>1, <2>2 DEF WriteFile, budget
<1>4. CASE Cleanup(j)
  <2>1. job' \in [Jobs -> Progress]
    BY <1>4, AdvanceTyped DEF Cleanup
  <2>2. file' \in [Records -> Row \cup {Absent, Torn}]
    BY <1>4 DEF Cleanup
  <2> QED BY <1>4, <2>1, <2>2 DEF Cleanup, budget
<1>5. CASE WriteFails(j)
  <2>1. job' \in [Jobs -> Progress]
    BY <1>5, EndTyped DEF WriteFails, Verdicts
  <2> QED BY <1>5, <2>1 DEF WriteFails, store
<1> QED BY <1>1, <1>2, <1>3, <1>4, <1>5

\* A crash leaves files and baselines of the expected forms.
LEMMA CrashTyped == ASSUME DataTyped, TypeOK, Crash PROVE DataTyped'
<1> USE DEF DataTyped, StoreTyped, BudgetTyped
<1>1. job' \in [Jobs -> Progress] /\ inserts' = {} /\ UNCHANGED <<db, used, databaseEdits, fileEdits>>
  BY FreshTyped DEF Crash
<1>2. faults' \in Nat
  BY DEF Crash
<1>3. file' \in [Records -> Row \cup {Absent, Torn}]
  BY DEF Crash
<1>4. revision' \in [Records -> Baseline \cup {NoRevision}]
  <2>1. CASE UNCHANGED revision
    BY <2>1
  <2>2. ASSUME NEW j \in Jobs, NEW done \in SUBSET Records,
               revision' = [r \in Records |-> IF r \in done THEN NextBaseline(j, r) ELSE revision[r]]
        PROVE  revision' \in [Records -> Baseline \cup {NoRevision}]
    BY <2>2, NextBaselineTyped
  <2> QED BY <2>1, <2>2 DEF Crash
<1> QED BY <1>1, <1>2, <1>3, <1>4

\* Only listed rows are ever left to be written.
LEMMA TodoKept == ASSUME DataTyped, TodoListed, [Next]_vars PROVE TodoListed'
<1> USE DEF DataTyped, TodoListed
<1>1. IdleJob.todo = {}
  BY DEF IdleJob
<1>2. CASE UNCHANGED job
  BY <1>2
<1>3. ASSUME NEW j \in Jobs, NEW p,
             p.todo \subseteq job[j].todo, p.listed = job[j].listed,
             job' = [job EXCEPT ![j] = p]
      PROVE  TodoListed'
  BY <1>3
<1>4. ASSUME NEW j \in Jobs, NEW verdict, EndsWith(j, verdict)
      PROVE  TodoListed'
  <2> DEFINE p == [job[j] EXCEPT !.phase = "ending", !.verdict = verdict]
  <2>1. p.todo = job[j].todo /\ p.listed = job[j].listed
    BY DEF Progress
  <2>2. job' = [job EXCEPT ![j] = p]
    BY <1>4 DEF EndsWith
  <2> HIDE DEF p
  <2> QED BY <1>3, <2>1, <2>2
<1>5. ASSUME NEW j \in Jobs, Advance(j)
      PROVE  TodoListed'
  <2>1. ASSUME NEW k, job' = [job EXCEPT ![j] = [@ EXCEPT !.phase = "listing", !.kind = k]]
        PROVE  TodoListed'
    <3> DEFINE p == [job[j] EXCEPT !.phase = "listing", !.kind = k]
    <3>1. p.todo = job[j].todo /\ p.listed = job[j].listed
      BY DEF Progress
    <3>2. job' = [job EXCEPT ![j] = p]
      BY <2>1
    <3> HIDE DEF p
    <3> QED BY <1>3, <3>1, <3>2
  <2> QED BY <1>4, <1>5, <2>1 DEF Advance
<1>6. ASSUME NEW j \in Jobs, NEW mode \in Modes, Request(j, mode)
      PROVE  TodoListed'
  <2> DEFINE p == [IdleJob EXCEPT !.phase = "requested", !.mode = mode]
  <2>1. p.todo = {}
    BY DEF IdleJob
  <2>2. job' = [job EXCEPT ![j] = p]
    BY <1>6 DEF Request
  <2> HIDE DEF p
  <2> QED BY <2>1, <2>2
<1>7. ASSUME NEW j \in Jobs, Begin(j)
      PROVE  TodoListed'
  <2> DEFINE p == [job[j] EXCEPT !.phase = "reading", !.dbSeen = db]
  <2>1. p.todo = job[j].todo /\ p.listed = job[j].listed
    BY DEF Progress
  <2>2. job' = [job EXCEPT ![j] = p]
    BY <1>7 DEF Begin
  <2> HIDE DEF p
  <2> QED BY <1>3, <2>1, <2>2
<1>8. ASSUME NEW j \in Jobs, ReadSource(j)
      PROVE  TodoListed'
  <2> DEFINE p == [job[j] EXCEPT !.phase = "loaded", !.sourceSeen = file]
  <2>1. p.todo = job[j].todo /\ p.listed = job[j].listed
    BY DEF Progress
  <2>2. job' = [job EXCEPT ![j] = p] \/ EndsWith(j, "invalid")
    BY <1>8 DEF ReadSource
  <2> HIDE DEF p
  <2> QED BY <1>3, <1>4, <2>1, <2>2
<1>9. ASSUME NEW j \in Jobs, Reconcile(j)
      PROVE  TodoListed'
  <2> DEFINE p == [job[j] EXCEPT !.phase = "saved"]
  <2>1. p.todo = job[j].todo /\ p.listed = job[j].listed
    BY DEF Progress
  <2>2. job' = [job EXCEPT ![j] = p] \/ \E verdict : EndsWith(j, verdict)
    BY <1>9 DEF Reconcile
  <2> HIDE DEF p
  <2> QED BY <1>3, <1>4, <2>1, <2>2
<1>10. ASSUME NEW j \in Jobs, ListKind(j)
       PROVE  TodoListed'
  <2> DEFINE kind == PushOrder[job[j].kind]
             created == IF kind = "smtp" THEN {r \in OfKind(kind) : db[r] = Absent} ELSE {}
             rows == [r \in Records |-> IF r \in created THEN FreshRow(DefaultContent) ELSE db[r]]
             listed == [r \in Records |-> IF KindOf[r] = kind THEN rows[r] ELSE Absent]
             todo == {r \in OfKind(kind) : rows[r] # Absent}
             p == [job[j] EXCEPT !.phase = "writing", !.listed = listed, !.todo = todo]
  <2>1. job' = [job EXCEPT ![j] = p]
    BY <1>10 DEF ListKind
  <2>2. p.todo = todo /\ p.listed = listed
    BY DEF Progress
  <2>3. \A r \in todo : listed[r] # Absent
    BY DEF OfKind
  <2> HIDE DEF p, todo, listed
  <2> QED BY <2>1, <2>2, <2>3
<1>11. ASSUME NEW j \in Jobs, NEW r \in Records, WriteFile(j, r)
       PROVE  TodoListed'
  <2> DEFINE p == [job[j] EXCEPT !.todo = job[j].todo \ {r}]
  <2>1. p.todo \subseteq job[j].todo /\ p.listed = job[j].listed
    BY DEF Progress
  <2>2. job' = [job EXCEPT ![j] = p]
    BY <1>11 DEF WriteFile
  <2> HIDE DEF p
  <2> QED BY <1>3, <2>1, <2>2
<1>12. ASSUME NEW j \in Jobs,
              job' = [job EXCEPT ![j] = IdleJob] \/ job' = [k \in Jobs |-> IdleJob]
       PROVE  TodoListed'
  BY <1>1, <1>12
<1>13. ASSUME NEW j \in Jobs, PersistBaselines(j) \/ Cleanup(j) \/ WriteFails(j)
       PROVE  TodoListed'
  BY <1>4, <1>5, <1>13 DEF PersistBaselines, Cleanup, WriteFails
<1>14. ASSUME NEW j \in Jobs, JobStep(j)
       PROVE  TodoListed'
  BY <1>7, <1>8, <1>9, <1>10, <1>11, <1>12, <1>13, <1>14 DEF JobStep, End
<1>15. CASE Crash
  BY <1>12, <1>15 DEF Crash
<1>16. ASSUME NEW r \in Records,
              UpdateRecord(r) \/ UpdateDependencies(r) \/ CreateRecord(r)
                \/ OpenMailbox(r) \/ DeleteRecord(r) \/ EditFile(r)
       PROVE  UNCHANGED job
  BY <1>16 DEF UpdateRecord, UpdateDependencies, CreateRecord, OpenMailbox, DeleteRecord,
               EditFile, EditDatabase
<1>17. ASSUME NEW pair \in inserts, InsertDependencies(pair[1], pair[2])
       PROVE  UNCHANGED job
  BY <1>17 DEF InsertDependencies
<1>18. CASE UNCHANGED vars
  BY <1>2, <1>18 DEF vars
<1> QED BY <1>2, <1>6, <1>13, <1>14, <1>15, <1>16, <1>17, <1>18 DEF Next

\* The invariant the types rest on.
TypedInv == DataTyped /\ TodoListed /\ MutexIInv

\* Types are what the data's own types and the mutex's invariant say.
LEMMA TypedInvGivesTypeOK == TypedInv => TypeOK
<1>1. MutexIInv => Mutex!TypeOK
  BY DEF MutexIInv, MutexFacts!IInv, MutexFacts!TypeOK, Mutex!TypeOK, MutexFacts!Stages, Mutex!Stages
<1> QED BY <1>1 DEF TypedInv, DataTyped, StoreTyped, BudgetTyped, TypeOK

\* Every step keeps the types.
LEMMA TypedInvStep == TypedInv /\ [Next]_vars => TypedInv'
<1> SUFFICES ASSUME TypedInv, [Next]_vars PROVE TypedInv'
  OBVIOUS
<1>1. DataTyped /\ TodoListed /\ TypeOK
  BY TypedInvGivesTypeOK DEF TypedInv
<1>2. TodoListed' /\ MutexIInv'
  BY <1>1, TodoKept, MutexKept DEF TypedInv
<1> SUFFICES DataTyped'
  BY <1>2 DEF TypedInv
<1>3. CASE UNCHANGED vars
  BY <1>1, <1>3 DEF vars, store, budget, DataTyped, StoreTyped, BudgetTyped
<1>4. CASE Crash
  BY <1>1, <1>4, CrashTyped
<1>5. ASSUME NEW j \in Jobs,
             (\E mode \in Modes : Request(j, mode)) \/ JobStep(j) \/ WriteFails(j)
      PROVE  DataTyped'
  <2>1. CASE \/ (\E mode \in Modes : Request(j, mode))
             \/ Begin(j) \/ ReadSource(j) \/ Reconcile(j) \/ End(j)
    BY <1>1, <2>1, DecidingTyped
  <2>2. CASE \/ PersistBaselines(j) \/ ListKind(j) \/ (\E r \in Records : WriteFile(j, r))
             \/ Cleanup(j) \/ WriteFails(j)
    BY <1>1, <2>2, WritingTyped
  <2> QED BY <1>5, <2>1, <2>2 DEF JobStep
<1>6. CASE \/ \E pair \in inserts : InsertDependencies(pair[1], pair[2])
           \/ \E r \in Records : EditFile(r)
  BY <1>1, <1>6, OutsideTyped
<1>7. ASSUME NEW r \in Records,
             \/ UpdateRecord(r) \/ UpdateDependencies(r) \/ CreateRecord(r)
             \/ OpenMailbox(r) \/ DeleteRecord(r)
      PROVE  DataTyped'
  BY <1>1, <1>7, RequestsTyped
<1> QED BY <1>3, <1>4, <1>5, <1>6, <1>7 DEF Next

\* It holds of a workspace just imported.
LEMMA TypedInvInit == Init => TypedInv
<1> SUFFICES ASSUME Init PROVE TypedInv
  OBVIOUS
<1>1. TodoListed
  BY DEF Init, TodoListed, IdleJob
<1>2. MutexIInv
  <2>1. MutexFacts!Init
    BY DEF Init, Mutex!Init, MutexFacts!Init
  <2> QED BY <2>1, MutexFacts!InvariantInit DEF MutexIInv
<1> QED BY <1>1, <1>2, DataTypedInit DEF TypedInv

\* Rows, files, baselines and the progress of every call keep their types: a
\* decision never leaves a row with a field of a wrong kind, and a file is
\* written only from a row that was listed.
THEOREM SyncTyped == Spec => []TypeOK
<1>1. Spec => []TypedInv
  BY TypedInvInit, TypedInvStep, PTL DEF Spec
<1> QED BY <1>1, TypedInvGivesTypeOK, PTL
-----------------------------------------------------------------------------
(***************************************************************************)
(* References: a decision is checked before it is saved, a deletion takes  *)
(* the dependency rows with it, and an insertion checks both its ends.     *)
(***************************************************************************)
\* Rows that were there before keep existing and gain no dependency.
LEMMA ReferencesSurvive ==
  ASSUME NEW old \in Rows, NEW new \in Rows, ReferencesResolveIn(old),
         Present(old) \subseteq Present(new),
         \A x \in Present(new) : new[x].deps = {} \/ (x \in Present(old) /\ new[x].deps = old[x].deps)
  PROVE  ReferencesResolveIn(new)
BY DEF ReferencesResolveIn

\* A request of the application leaves no dependency dangling.
LEMMA RequestsResolve ==
  ASSUME DataTyped, DataTyped', ReferencesResolve, NEW r \in Records,
         UpdateRecord(r) \/ UpdateDependencies(r) \/ CreateRecord(r) \/ OpenMailbox(r) \/ DeleteRecord(r)
  PROVE  ReferencesResolve'
<1> USE DEF DataTyped, StoreTyped, ReferencesResolve
<1>1. CASE UpdateRecord(r)
  <2>1. \A x \in Records : (db'[x] = Absent <=> db[x] = Absent) /\ (db[x] # Absent => db'[x].deps = db[x].deps)
    <3>1. db[r] \in Row
      BY <1>1 DEF UpdateRecord, Rows
    <3>2. PICK c \in Contents, s \in Scripts :
             db' = [db EXCEPT ![r] = [content |-> c, script |-> s, deps |-> db[r].deps]]
      BY <1>1 DEF UpdateRecord
    <3>3. PICK row \in Row : db' = [db EXCEPT ![r] = row] /\ row.deps = db[r].deps
      <4>1. [content |-> c, script |-> s, deps |-> db[r].deps] \in Row
        BY <3>1 DEF Row
      <4> QED BY <3>2, <4>1
    <3>4. db[r] # Absent /\ row # Absent
      BY <1>1, SentinelAssumptions DEF UpdateRecord
    <3>5. \A x \in Records : db'[x] = IF x = r THEN row ELSE db[x]
      BY <3>3 DEF Rows
    <3> QED BY <3>3, <3>4, <3>5
  <2> QED BY <2>1, ReferencesSurvive DEF Present
<1>2. CASE UpdateDependencies(r)
  <2>1. [db[r] EXCEPT !.deps = {}] \in Row /\ [db[r] EXCEPT !.deps = {}].deps = {}
    BY <1>2 DEF UpdateDependencies, Rows, Row
  <2>2. \A x \in Records : (db'[x] = Absent <=> db[x] = Absent) /\ (x # r => db'[x] = db[x]) /\ db'[r].deps = {}
    BY <1>2, <2>1, SentinelAssumptions DEF UpdateDependencies, Rows
  <2> QED BY <2>2, ReferencesSurvive DEF Present
<1>3. ASSUME NEW c \in Contents, db' = [db EXCEPT ![r] = FreshRow(c)]
      PROVE  ReferencesResolve'
  <2>1. FreshRow(c) # Absent /\ FreshRow(c).deps = {}
    BY FreshTyped, SentinelAssumptions DEF FreshRow
  <2>2. \A x \in Records : (x # r => db'[x] = db[x]) /\ db'[r] = FreshRow(c)
    BY <1>3 DEF Rows
  <2> QED BY <2>1, <2>2, ReferencesSurvive DEF Present
<1>4. CASE CreateRecord(r) \/ OpenMailbox(r)
  BY <1>3, <1>4, SyncAssumptions DEF CreateRecord, OpenMailbox
<1>5. CASE DeleteRecord(r)
  <2>1. \A x \in Records : db[x] # Absent => [db[x] EXCEPT !.deps = @ \ {r}].deps = db[x].deps \ {r}
    BY DEF Rows, Row
  <2>2. \A x \in Records : db[x] # Absent => [db[x] EXCEPT !.deps = @ \ {r}] \in Row
    BY DEF Rows, Row
  <2>3. \A x \in Records : db'[x] = Absent <=> (x = r \/ db[x] = Absent)
    BY <1>5, <2>2, SentinelAssumptions DEF DeleteRecord
  <2>4. \A x \in Present(db') : x \in Present(db) /\ db'[x].deps = db[x].deps \ {r}
    BY <1>5, <2>1, <2>3 DEF DeleteRecord, Present
  <2>5. Present(db') = Present(db) \ {r}
    BY <2>3 DEF Present
  <2> QED BY <2>4, <2>5 DEF ReferencesResolveIn
<1> QED BY <1>1, <1>2, <1>4, <1>5

\* Nor does any step of a call, of another program, or a crash.
LEMMA ReferencesStep ==
  ASSUME TypedInv, TypedInv', ReferencesResolve, [Next]_vars
  PROVE  ReferencesResolve'
<1> USE DEF TypedInv, DataTyped, StoreTyped, ReferencesResolve
<1>1. CASE UNCHANGED db
  BY <1>1 DEF ReferencesResolveIn, Present
<1>2. ASSUME NEW r \in Records,
             UpdateRecord(r) \/ UpdateDependencies(r) \/ CreateRecord(r) \/ OpenMailbox(r) \/ DeleteRecord(r)
      PROVE  ReferencesResolve'
  BY <1>2, RequestsResolve
<1>3. ASSUME NEW pair \in inserts, InsertDependencies(pair[1], pair[2])
      PROVE  ReferencesResolve'
  <2> DEFINE r == pair[1]
             D == pair[2]
  <2>1. r \in Records /\ D \subseteq Records
    OBVIOUS
  <2>2. CASE \A d \in D \cup {r} : KindOf[d] = "sse" /\ db[d] # Absent
    <3>1. [db[r] EXCEPT !.deps = @ \cup D] \in Row /\ [db[r] EXCEPT !.deps = @ \cup D].deps = db[r].deps \cup D
      BY <2>1, <2>2 DEF Rows, Row
    <3>2. db' = [db EXCEPT ![r] = [db[r] EXCEPT !.deps = @ \cup D]]
      BY <1>3, <2>2 DEF InsertDependencies
    <3>3. /\ \A x \in Records \ {r} : db'[x] = db[x]
          /\ db'[r] \in Row /\ db'[r].deps = db[r].deps \cup D
      BY <2>1, <3>1, <3>2 DEF Rows
    <3>4. Present(db') = Present(db)
      BY <2>1, <2>2, <3>3, SentinelAssumptions DEF Present
    <3>5. \A d \in D : d \in Present(db) /\ KindOf[d] = KindOf[r]
      BY <2>1, <2>2 DEF Present
    <3> QED BY <3>3, <3>4, <3>5 DEF ReferencesResolveIn, Present
  <2>3. CASE ~\A d \in D \cup {r} : KindOf[d] = "sse" /\ db[d] # Absent
    BY <1>1, <1>3, <2>3 DEF InsertDependencies
  <2> QED BY <2>2, <2>3
<1>4. ASSUME NEW j \in Jobs, Reconcile(j)
      PROVE  ReferencesResolve'
  <2>1. UNCHANGED db \/ (db' = Desired(j) /\ ReferencesResolveIn(Desired(j)))
    BY <1>4 DEF Reconcile
  <2> QED BY <1>1, <2>1 DEF ReferencesResolveIn, Present
<1>5. ASSUME NEW j \in Jobs, ListKind(j)
      PROVE  ReferencesResolve'
  <2> DEFINE kind == PushOrder[job[j].kind]
             created == IF kind = "smtp" THEN {r \in OfKind(kind) : db[r] = Absent} ELSE {}
  <2>1. db' = [r \in Records |-> IF r \in created THEN FreshRow(DefaultContent) ELSE db[r]]
    BY <1>5 DEF ListKind
  <2>2. created \subseteq Records /\ \A r \in created : db[r] = Absent
    BY DEF OfKind
  <2>3. FreshRow(DefaultContent) # Absent /\ FreshRow(DefaultContent).deps = {}
    BY FreshTyped, SentinelAssumptions DEF FreshRow
  <2> HIDE DEF created
  <2> QED BY <2>1, <2>2, <2>3, ReferencesSurvive DEF Present
<1>6. ASSUME NEW r \in Records, EditFile(r) PROVE UNCHANGED db
  BY <1>6 DEF EditFile
<1>7. ASSUME NEW j \in Jobs,
             \/ \E mode \in Modes : Request(j, mode)
             \/ Begin(j) \/ ReadSource(j) \/ PersistBaselines(j) \/ (\E r \in Records : WriteFile(j, r))
             \/ Cleanup(j) \/ End(j) \/ WriteFails(j)
      PROVE  UNCHANGED db
  BY <1>7 DEF Request, Begin, ReadSource, PersistBaselines, WriteFile, Cleanup, End, WriteFails, store
<1>8. CASE Crash
  BY <1>1, <1>8 DEF Crash
<1>9. CASE UNCHANGED vars
  BY <1>1, <1>9 DEF vars, store
<1> QED BY <1>1, <1>2, <1>3, <1>4, <1>5, <1>6, <1>7, <1>8, <1>9 DEF Next, JobStep

\* No interleaving leaves a dependency dangling or across kinds.
THEOREM SyncReferencesResolve == Spec => []ReferencesResolve
<1>1. Init => ReferencesResolve
  BY DEF Init, ReferencesResolve, ReferencesResolveIn, Present, FreshRow
<1>2. TypedInv /\ ReferencesResolve /\ [Next]_vars => (TypedInv /\ ReferencesResolve)'
  BY TypedInvStep, ReferencesStep
<1> QED BY <1>1, <1>2, TypedInvInit, PTL DEF Spec
-----------------------------------------------------------------------------
(***************************************************************************)
(* Exclusion: a call works exactly while it is inside the mutex.           *)
(***************************************************************************)
StageMatches ==
  \A j \in Jobs : /\ stage[j] = "inside" <=> Working(j)
                  /\ stage[j] = "outside" <=> job[j].phase = "idle"

\* The phase a step of one call leads to decides whether the call works.
LEMMA PhaseMoves ==
  ASSUME TypedInv, StageMatches, UNCHANGED stage, NEW j \in Jobs, Working(j),
         NEW p, p.phase \notin {"idle", "requested"}, job' = [job EXCEPT ![j] = p]
  PROVE  StageMatches'
BY DEF TypedInv, DataTyped, StageMatches, Working

\* A call that works goes on working until it ends.
LEMMA WorkKeepsStage ==
  ASSUME TypedInv, StageMatches, NEW j \in Jobs,
         \/ ReadSource(j) \/ Reconcile(j) \/ PersistBaselines(j) \/ ListKind(j)
         \/ (\E r \in Records : WriteFile(j, r)) \/ Cleanup(j) \/ WriteFails(j)
  PROVE  StageMatches'
<1> USE DEF TypedInv, DataTyped
<1>1. Working(j) /\ UNCHANGED stage
  BY DEF ReadSource, Reconcile, PersistBaselines, ListKind, WriteFile, Cleanup, WriteFails,
         Working, mutexVars
<1>2. ASSUME NEW verdict, EndsWith(j, verdict)
      PROVE  StageMatches'
  <2> DEFINE p == [job[j] EXCEPT !.phase = "ending", !.verdict = verdict]
  <2>1. p.phase = "ending" /\ job' = [job EXCEPT ![j] = p]
    BY <1>2 DEF EndsWith, Progress
  <2> HIDE DEF p
  <2> QED BY <1>1, <2>1, PhaseMoves
<1>3. ASSUME Advance(j)
      PROVE  StageMatches'
  <2>1. ASSUME NEW k, job' = [job EXCEPT ![j] = [@ EXCEPT !.phase = "listing", !.kind = k]]
        PROVE  StageMatches'
    <3> DEFINE p == [job[j] EXCEPT !.phase = "listing", !.kind = k]
    <3>1. p.phase = "listing" /\ job' = [job EXCEPT ![j] = p]
      BY <2>1 DEF Progress
    <3> HIDE DEF p
    <3> QED BY <1>1, <3>1, PhaseMoves
  <2> QED BY <1>2, <1>3, <2>1 DEF Advance
<1>4. CASE ReadSource(j)
  <2> DEFINE p == [job[j] EXCEPT !.phase = "loaded", !.sourceSeen = file]
  <2>1. p.phase = "loaded"
    BY DEF Progress
  <2>2. job' = [job EXCEPT ![j] = p] \/ EndsWith(j, "invalid")
    BY <1>4 DEF ReadSource
  <2> HIDE DEF p
  <2> QED BY <1>1, <1>2, <2>1, <2>2, PhaseMoves
<1>5. CASE Reconcile(j)
  <2> DEFINE p == [job[j] EXCEPT !.phase = "saved"]
  <2>1. p.phase = "saved"
    BY DEF Progress
  <2>2. job' = [job EXCEPT ![j] = p] \/ \E verdict : EndsWith(j, verdict)
    BY <1>5 DEF Reconcile
  <2> HIDE DEF p
  <2> QED BY <1>1, <1>2, <2>1, <2>2, PhaseMoves
<1>6. CASE PersistBaselines(j) \/ Cleanup(j) \/ WriteFails(j)
  BY <1>2, <1>3, <1>6 DEF PersistBaselines, Cleanup, WriteFails
<1>7. CASE ListKind(j)
  <2>1. PICK listed, todo :
          job' = [job EXCEPT ![j] = [@ EXCEPT !.phase = "writing", !.listed = listed, !.todo = todo]]
    BY <1>7 DEF ListKind
  <2> DEFINE p == [job[j] EXCEPT !.phase = "writing", !.listed = listed, !.todo = todo]
  <2>2. p.phase = "writing" /\ job' = [job EXCEPT ![j] = p]
    BY <2>1 DEF Progress
  <2> HIDE DEF p
  <2> QED BY <1>1, <2>2, PhaseMoves
<1>8. ASSUME NEW r \in Records, WriteFile(j, r)
      PROVE  StageMatches'
  <2> DEFINE p == [job[j] EXCEPT !.todo = job[j].todo \ {r}]
  <2>1. p.phase = job[j].phase /\ job' = [job EXCEPT ![j] = p]
    BY <1>8 DEF WriteFile, Progress
  <2> HIDE DEF p
  <2> QED BY <1>1, <2>1, PhaseMoves DEF Working
<1> QED BY <1>4, <1>5, <1>6, <1>7, <1>8

\* The mutex and the progress of the calls move together.
LEMMA StageStep ==
  ASSUME TypedInv, StageMatches, [Next]_vars PROVE StageMatches'
<1> USE DEF TypedInv, DataTyped
<1>1. stage \in [Jobs -> {"outside", "queued", "granted", "inside"}]
  BY TypedInvGivesTypeOK DEF TypeOK, Mutex!TypeOK, Mutex!Stages
<1>2. CASE UNCHANGED <<job, stage>>
  BY <1>2 DEF StageMatches, Working
<1>3. ASSUME NEW j \in Jobs, NEW mode \in Modes, Request(j, mode)
      PROVE  StageMatches'
  <2> DEFINE p == [IdleJob EXCEPT !.phase = "requested", !.mode = mode]
  <2>1. p.phase = "requested"
    BY DEF IdleJob
  <2>2. job' = [job EXCEPT ![j] = p]
    BY <1>3 DEF Request
  <2>3. stage[j] = "outside"
        /\ (stage' = [stage EXCEPT ![j] = "granted"] \/ stage' = [stage EXCEPT ![j] = "queued"])
    BY <1>3 DEF Request, Mutex!Acquire
  <2> HIDE DEF p
  <2> QED BY <1>1, <2>1, <2>2, <2>3 DEF StageMatches, Working
<1>4. ASSUME NEW j \in Jobs, Begin(j)
      PROVE  StageMatches'
  <2> DEFINE p == [job[j] EXCEPT !.phase = "reading", !.dbSeen = db]
  <2>1. p.phase = "reading"
    BY DEF Progress
  <2>2. job' = [job EXCEPT ![j] = p] /\ stage' = [stage EXCEPT ![j] = "inside"]
    BY <1>4 DEF Begin, Mutex!Enter
  <2> HIDE DEF p
  <2> QED BY <1>1, <2>1, <2>2 DEF StageMatches, Working
<1>5. ASSUME NEW j \in Jobs, End(j)
      PROVE  StageMatches'
  <2>1. IdleJob.phase = "idle" /\ job' = [job EXCEPT ![j] = IdleJob]
    BY <1>5 DEF End, IdleJob
  <2>2. CASE stage' = [stage EXCEPT ![j] = "outside"]
    BY <1>1, <2>1, <2>2 DEF StageMatches, Working
  <2>3. CASE /\ queue # << >>
             /\ stage' = [stage EXCEPT ![j] = "outside", ![Head(queue)] = "granted"]
    <3>1. queue \in Seq(Jobs) /\ \A i \in 1..Len(queue) : stage[queue[i]] = "queued"
      BY DEF MutexIInv, MutexFacts!IInv, MutexFacts!TypeOK, MutexFacts!NoOrphanedLock
    <3>2. Head(queue) \in Jobs /\ stage[Head(queue)] = "queued"
      <4>1. Len(queue) >= 1 /\ Head(queue) = queue[1]
        BY <2>3, <3>1
      <4> QED BY <3>1, <4>1
    <3>3. stage[j] = "inside"
      BY <1>5 DEF End, Mutex!Release
    <3>4. \A k \in Jobs : stage'[k] = IF k = Head(queue) THEN "granted"
                                      ELSE IF k = j THEN "outside" ELSE stage[k]
      BY <1>1, <2>3
    <3> HIDE DEF IdleJob
    <3> QED BY <1>1, <2>1, <3>2, <3>3, <3>4 DEF StageMatches, Working
  <2> QED BY <1>5, <2>2, <2>3 DEF End, Mutex!Release
<1>6. CASE Crash
  BY <1>6 DEF Crash, StageMatches, Working, IdleJob
<1>7. ASSUME NEW r \in Records,
             UpdateRecord(r) \/ UpdateDependencies(r) \/ CreateRecord(r)
               \/ OpenMailbox(r) \/ DeleteRecord(r) \/ EditFile(r)
      PROVE  UNCHANGED <<job, stage>>
  BY <1>7 DEF UpdateRecord, UpdateDependencies, CreateRecord, OpenMailbox, DeleteRecord,
              EditFile, EditDatabase, mutexVars
<1>8. ASSUME NEW pair \in inserts, InsertDependencies(pair[1], pair[2])
      PROVE  UNCHANGED <<job, stage>>
  BY <1>8 DEF InsertDependencies, mutexVars
<1>9. CASE UNCHANGED vars
  BY <1>2, <1>9 DEF vars, mutexVars
<1>10. ASSUME NEW j \in Jobs, JobStep(j) \/ WriteFails(j)
       PROVE  StageMatches'
  BY <1>4, <1>5, <1>10, WorkKeepsStage DEF JobStep
<1> QED BY <1>2, <1>3, <1>6, <1>7, <1>8, <1>9, <1>10 DEF Next

\* Two calls of the synchronization service never work at the same time: the
\* progress of a call follows its stage in the mutex, which admits one.
THEOREM SyncOneJobAtATime == Spec => []OneJobAtATime
<1>1. Init => StageMatches
  BY DEF Init, Mutex!Init, StageMatches, Working, IdleJob
<1>2. TypedInv /\ StageMatches /\ [Next]_vars => (TypedInv /\ StageMatches)'
  BY TypedInvStep, StageStep
<1>3. TypedInv /\ StageMatches => OneJobAtATime
  BY DEF TypedInv, MutexIInv, MutexFacts!IInv, MutexFacts!MutualExclusion, MutexFacts!Owners,
         StageMatches, OneJobAtATime
<1> QED BY <1>1, <1>2, <1>3, TypedInvInit, PTL DEF Spec
-----------------------------------------------------------------------------
(***************************************************************************)
(* One decision.  `s` and `d` are the snapshots of what the file (S) and   *)
(* the database (D) hold of a record.                                      *)
(***************************************************************************)
Origins == Row \cup {Sqlite}
SideOf(row, origin) == IF row = Absent THEN Absent ELSE SnapshotOf(row, origin)

\* A snapshot holds exactly a row and an origin.
LEMMA SnapshotHolds ==
  ASSUME NEW row \in Row, NEW origin \in Origins
  PROVE  /\ SnapshotOf(row, origin) \in Snapshot
         /\ SnapshotOf(row, origin) # Absent /\ row # Absent
         /\ RowOf(SnapshotOf(row, origin)) = row
         /\ DOMAIN SnapshotOf(row, origin) = Fields \cup {"origin"}
         /\ \A f \in Fields : SnapshotOf(row, origin)[f] = row[f]
         /\ SnapshotOf(row, origin)["origin"] = origin
         /\ \A other \in Row, o \in Origins :
              SnapshotOf(row, origin) = SnapshotOf(other, o) <=> row = other /\ origin = o
<1>1. SnapshotOf(row, origin) \in Snapshot
  BY DEF SnapshotOf, Snapshot, Row, Origins
<1>2. SnapshotOf(row, origin) # Absent /\ row # Absent
  BY <1>1, SentinelAssumptions
<1>3. RowOf(SnapshotOf(row, origin)) = row
  <2>1. RowOf(SnapshotOf(row, origin))
          = [content |-> row.content, script |-> row.script, deps |-> row.deps]
    BY <1>2 DEF RowOf, SnapshotOf
  <2> QED BY <2>1 DEF Row
<1>4. /\ DOMAIN SnapshotOf(row, origin) = Fields \cup {"origin"}
      /\ \A f \in Fields : SnapshotOf(row, origin)[f] = row[f]
      /\ SnapshotOf(row, origin)["origin"] = origin
  BY DEF SnapshotOf, Fields, Row
<1>5. ASSUME NEW other \in Row, NEW o \in Origins
      PROVE  SnapshotOf(row, origin) = SnapshotOf(other, o) <=> row = other /\ origin = o
  BY DEF SnapshotOf, Row
<1> QED BY <1>1, <1>2, <1>3, <1>4, <1>5

\* A row that takes each field from the side that changed it.
MergedRow(A, S, D, new) ==
  new \in Row /\ \A f \in Fields : new[f] = IF A[f] = S[f] THEN D[f] ELSE S[f]

\* Merging the snapshots of three rows merges the rows.
LEMMA MergeHolds ==
  ASSUME NEW A \in Row, NEW S \in Row, NEW D \in Row,
         NEW oa \in Origins, NEW os \in Origins, NEW od \in Origins
  PROVE  MergedRow(A, S, D,
           RowOf(MergeFields(SnapshotOf(A, oa), SnapshotOf(S, os), SnapshotOf(D, od))))
<1> DEFINE a == SnapshotOf(A, oa)
           s == SnapshotOf(S, os)
           d == SnapshotOf(D, od)
           m == MergeFields(a, s, d)
           new == RowOf(m)
<1>1. m \in Snapshot /\ m # Absent
  BY SnapshotHolds, MergeTyped, SentinelAssumptions
<1>2. new = [content |-> m.content, script |-> m.script, deps |-> m.deps]
  BY <1>1 DEF RowOf
<1>3. \A f \in Fields : new[f] = m[f]
  BY <1>2 DEF Fields
<1>4. \A f \in Fields : m[f] = IF a[f] = s[f] THEN d[f] ELSE s[f]
  BY SnapshotHolds DEF MergeFields
<1>5. \A f \in Fields : a[f] = A[f] /\ s[f] = S[f] /\ d[f] = D[f]
  BY SnapshotHolds
<1>6. new \in Row
  BY <1>1, <1>2 DEF Snapshot, Row
<1> QED BY <1>3, <1>4, <1>5, <1>6 DEF MergedRow

\* `new` is there when both sides are, with dependencies and a script that one of
\* them has.
KeptRow(S, D, new) ==
  /\ S # Absent /\ D # Absent => new # Absent
  /\ new # Absent => \/ S # Absent /\ new.deps = S.deps
                     \/ D # Absent /\ new.deps = D.deps
  /\ new # Absent => \/ S # Absent /\ new.script = S.script
                     \/ D # Absent /\ new.script = D.script

\* Only these statuses change the row.
Applying == {"source-added", "source-updated", "source-deleted", "auto-merged"}
LeavesRow(status, D, new) == status \notin Applying => new = D

\* Whatever the baseline says, a decision keeps a record that both sides have,
\* makes up no dependency and no script, and keeps the row unless it applies
\* something.
LEMMA DecisionKeeps ==
  ASSUME NEW S \in Row \cup {Absent}, NEW D \in Row \cup {Absent},
         NEW os \in Origins, NEW od \in Origins, NEW base \in Baseline \cup {NoRevision}
  PROVE  /\ KeptRow(S, D, RowOf(RecordOutcome(base, SideOf(S, os), SideOf(D, od))))
         /\ RecordStatus(base, SideOf(S, os), SideOf(D, od)) = "source-deleted"
              => S = Absent \/ D = Absent
         /\ LeavesRow(RecordStatus(base, SideOf(S, os), SideOf(D, od)), D,
                      RowOf(RecordOutcome(base, SideOf(S, os), SideOf(D, od))))
<1> DEFINE s == SideOf(S, os)
           d == SideOf(D, od)
           status == RecordStatus(base, s, d)
           new == RowOf(RecordOutcome(base, s, d))
<1>1. /\ s = Absent <=> S = Absent
      /\ d = Absent <=> D = Absent
      /\ RowOf(s) = S /\ RowOf(d) = D
  BY SnapshotHolds DEF SideOf, RowOf
<1>2. status = "source-deleted" => S = Absent \/ D = Absent
  BY <1>1 DEF RecordStatus, ThreeWayStatus
<1>3. status \in {"source-added", "source-updated"} => new = S /\ S # Absent
  BY <1>1 DEF RecordStatus, ThreeWayStatus, RecordOutcome
<1>4. status = "source-deleted" => new = Absent
  BY DEF RecordOutcome, RowOf
<1>5. ASSUME status = "auto-merged"
      PROVE  /\ S # Absent /\ D # Absent /\ new # Absent
             /\ new.deps \in {S.deps, D.deps} /\ new.script \in {S.script, D.script}
  <2>1. MergeBase(base) # Absent /\ s # Absent /\ d # Absent
    BY <1>5 DEF RecordStatus, ThreeWayStatus
  <2>2. MergeBase(base) \in Snapshot
    BY <2>1 DEF MergeBase, Baseline
  <2>3. PICK A \in Row, oa \in Origins : MergeBase(base) = SnapshotOf(A, oa)
    <3> DEFINE b == MergeBase(base)
               A == [content |-> b.content, script |-> b.script, deps |-> b.deps]
    <3>1. A \in Row /\ b.origin \in Origins
      BY <2>2 DEF Snapshot, Row, Origins
    <3>2. b = SnapshotOf(A, b.origin)
      BY <2>2 DEF Snapshot, SnapshotOf
    <3> QED BY <3>1, <3>2
  <2>4. S \in Row /\ D \in Row /\ s = SnapshotOf(S, os) /\ d = SnapshotOf(D, od)
    BY <1>1, <2>1 DEF SideOf
  <2>5. new = RowOf(MergeFields(SnapshotOf(A, oa), SnapshotOf(S, os), SnapshotOf(D, od)))
    BY <1>5, <2>3, <2>4 DEF RecordOutcome
  <2>6. new \in Row /\ \A f \in Fields : new[f] \in {S[f], D[f]}
    <3>1. MergedRow(A, S, D, new)
      BY <2>4, <2>5, MergeHolds
    <3> HIDE DEF new
    <3> QED BY <3>1 DEF MergedRow
  <2>7. new.deps \in {S.deps, D.deps} /\ new.script \in {S.script, D.script}
    BY <2>6 DEF Fields
  <2> QED BY <2>4, <2>6, <2>7, SentinelAssumptions
<1>6. LeavesRow(status, D, new)
  BY <1>1 DEF RecordOutcome, Applying, LeavesRow
<1> HIDE DEF new
<1>7. KeptRow(S, D, new)
  <2> HIDE DEF status
  <2> QED BY <1>2, <1>3, <1>4, <1>5, <1>6 DEF KeptRow, Applying, LeavesRow
<1> QED BY <1>2, <1>6, <1>7 DEF new

\* `status` and `new` are what a user expects of a record that was A and is now S
\* in the file and D in the database.
RightDecision(A, S, D, status, new) ==
  /\ status = "conflict" <=> Race(A, S, D)
  /\ ~Race(A, S, D) => Incorporates(A, S, D, new)

\* When the baseline is that of the value A both sides last had in common, a
\* decision is a conflict exactly when both sides moved away from A and cannot be
\* merged, and otherwise it carries every change of either side.
LEMMA DecisionIsRight ==
  ASSUME NEW A \in Row \cup {Absent}, NEW S \in Row \cup {Absent}, NEW D \in Row \cup {Absent},
         NEW os \in Origins, NEW od \in Origins, NEW base \in Baseline \cup {NoRevision},
         base = NoRevision => /\ A = Absent
                              /\ S # Absent /\ D # Absent => os = od,
         base # NoRevision => /\ A # Absent
                              /\ base.source = SnapshotOf(A, od)
                              /\ S = A => os = od
                              /\ \E o \in Origins : base.database = SnapshotOf(A, o)
  PROVE  RightDecision(A, S, D, RecordStatus(base, SideOf(S, os), SideOf(D, od)),
                       RowOf(RecordOutcome(base, SideOf(S, os), SideOf(D, od))))
<1> DEFINE s == SideOf(S, os)
           d == SideOf(D, od)
           a == SnapshotOf(A, od)
           status == RecordStatus(base, s, d)
           new == RowOf(RecordOutcome(base, s, d))
<1>1. /\ s = Absent <=> S = Absent
      /\ d = Absent <=> D = Absent
      /\ RowOf(s) = S /\ RowOf(d) = D
  BY SnapshotHolds DEF SideOf, RowOf
<1>2. s = d => S = D
  BY <1>1
<1>3. ASSUME base = NoRevision
      PROVE  (status = "conflict" <=> Race(A, S, D)) /\ (~Race(A, S, D) => Incorporates(A, S, D, new))
  <2>1. A = Absent /\ status = ThreeWayStatus(Absent, s, d)
    BY <1>3 DEF RecordStatus, SourceUnchanged, DatabaseUnchanged, MergeBase
  <2>2. S # Absent /\ D # Absent => (s = d <=> S = D)
    BY <1>2, <1>3 DEF SideOf
  <2>3. status = "conflict" <=> S # Absent /\ D # Absent /\ S # D
    BY <1>1, <2>1, <2>2 DEF ThreeWayStatus
  <2>4. Race(A, S, D) <=> S # Absent /\ D # Absent /\ S # D
    BY <2>1 DEF Race
  <2>5. S = Absent => new = D
    BY <1>1, <2>1 DEF ThreeWayStatus, RecordOutcome
  <2>6. D = Absent => new = S
    BY <1>1, <2>1 DEF ThreeWayStatus, RecordOutcome
  <2> HIDE DEF new
  <2> QED BY <2>1, <2>3, <2>4, <2>5, <2>6 DEF Incorporates
<1>4. ASSUME base # NoRevision
      PROVE  (status = "conflict" <=> Race(A, S, D)) /\ (~Race(A, S, D) => Incorporates(A, S, D, new))
  <2>1. /\ A \in Row /\ base.source = a /\ MergeBase(base) = a
        /\ \E o \in Origins : base.database = SnapshotOf(A, o)
    BY <1>4 DEF MergeBase
  <2>2. /\ a # Absent
        /\ s = a <=> S = A
        /\ d = a <=> D = A
        /\ DatabaseUnchanged(base, d) => D = A
    BY <1>4, <2>1, SnapshotHolds DEF SideOf, DatabaseUnchanged
  <2>3. SourceUnchanged(base, s) <=> S = A
    BY <1>4, <2>1, <2>2 DEF SourceUnchanged
  <2>4. CASE D = A
    <3>1. status # "conflict" /\ new = S
      <4>1. CASE S = A
        <5>1. status \in {"unchanged", "database-updated"}
          BY <4>1, <2>3 DEF RecordStatus
        <5> QED BY <5>1, <4>1, <2>4, <1>1 DEF RecordOutcome
      <4>2. CASE S # A
        <5>1. s # d
          BY <4>2, <2>4, <1>2
        <5>2. status = IF S = Absent THEN "source-deleted" ELSE "source-updated"
          BY <4>2, <2>1, <2>2, <2>3, <2>4, <1>1, <5>1 DEF RecordStatus, ThreeWayStatus
        <5> QED BY <5>2, <1>1 DEF RecordOutcome, RowOf
      <4> QED BY <4>1, <4>2
    <3>2. ~Race(A, S, D)
      BY <2>4 DEF Race
    <3>3. Incorporates(A, S, D, S)
      BY <2>4 DEF Incorporates
    <3> HIDE DEF status, new
    <3> QED BY <3>1, <3>2, <3>3
  <2>5. CASE D # A /\ S = A
    <3>1. status = "database-updated"
      BY <2>2, <2>3, <2>5 DEF RecordStatus
    <3>2. new = D
      BY <3>1, <1>1 DEF RecordOutcome
    <3>3. ~Race(A, S, D)
      BY <2>5 DEF Race
    <3>4. Incorporates(A, S, D, D)
      BY <2>5 DEF Incorporates
    <3> HIDE DEF new
    <3> QED BY <3>1, <3>2, <3>3, <3>4
  <2>6. CASE D # A /\ S # A
    <3>1. status = ThreeWayStatus(a, s, d)
      BY <2>1, <2>2, <2>3, <2>6 DEF RecordStatus
    <3>2. CASE S = Absent \/ D = Absent
      <4>1. status = IF s = d THEN "unchanged" ELSE "conflict"
        BY <3>1, <3>2, <2>2, <2>6, <1>1 DEF ThreeWayStatus
      <4>2. s = d <=> S = D
        BY <3>2, <1>1, <1>2
      <4>3. Race(A, S, D) <=> S # D
        BY <2>6, <3>2 DEF Race
      <4>4. Incorporates(A, S, D, new)
        BY <2>6, <3>2 DEF Incorporates
      <4> HIDE DEF new
      <4> QED BY <4>1, <4>2, <4>3, <4>4
    <3>3. CASE S # Absent /\ D # Absent
      <4>1. S \in Row /\ D \in Row /\ s = SnapshotOf(S, os) /\ d = SnapshotOf(D, od)
        BY <3>3 DEF SideOf
      <4>2. DOMAIN s = Fields \cup {"origin"} /\ a["origin"] = d["origin"]
            /\ \A f \in Fields : s[f] = S[f] /\ d[f] = D[f] /\ a[f] = A[f]
        BY <4>1, <2>1, SnapshotHolds
      <4>3. Conflicting(a, s, d) # {}
              <=> \E f \in Fields : S[f] # D[f] /\ A[f] # S[f] /\ A[f] # D[f]
        BY <4>2 DEF Conflicting
      <4>4. status = IF s = d THEN "unchanged"
                     ELSE IF Conflicting(a, s, d) = {} THEN "auto-merged" ELSE "conflict"
        BY <3>1, <3>3, <2>2, <2>6, <1>1 DEF ThreeWayStatus
      <4>5. s = d => \A f \in Fields : S[f] = D[f]
        BY <4>2
      <4>6. status = "conflict" <=> Conflicting(a, s, d) # {}
        BY <4>3, <4>4, <4>5
      <4>7. Race(A, S, D) <=> \E f \in Fields : S[f] # D[f] /\ A[f] # S[f] /\ A[f] # D[f]
        <5>1. (\E f \in Fields : S[f] # D[f]) => S # D
          OBVIOUS
        <5> QED BY <2>1, <2>6, <3>3, <5>1, SentinelAssumptions DEF Race
      <4>8. ASSUME status = "auto-merged" PROVE Incorporates(A, S, D, new)
        <5>1. new = RowOf(MergeFields(SnapshotOf(A, od), SnapshotOf(S, os), SnapshotOf(D, od)))
          BY <4>1, <4>8, <2>1 DEF RecordOutcome
        <5>2. MergedRow(A, S, D, new)
          BY <4>1, <2>1, <5>1, MergeHolds
        <5>3. \A f \in Fields : ~(S[f] # D[f] /\ A[f] # S[f] /\ A[f] # D[f])
          BY <4>3, <4>4, <4>8
        <5> HIDE DEF new
        <5>4. /\ new \in Row
              /\ \A f \in Fields : S[f] = A[f] => new[f] = D[f]
              /\ \A f \in Fields : D[f] = A[f] => new[f] = S[f]
          BY <5>2 DEF MergedRow
        <5> QED BY <5>4, <2>6, SentinelAssumptions DEF Incorporates
      <4>9. ASSUME status = "unchanged" PROVE Incorporates(A, S, D, new)
        <5>1. new = D /\ S = D
          BY <4>9, <4>4, <1>1, <1>2 DEF RecordOutcome
        <5> HIDE DEF new
        <5> QED BY <5>1, <2>6, <3>3 DEF Incorporates
      <4> HIDE DEF status, new
      <4> QED BY <4>3, <4>4, <4>6, <4>7, <4>8, <4>9
    <3> QED BY <3>2, <3>3
  <2> QED BY <2>4, <2>5, <2>6
<1> HIDE DEF status, new
<1>5. RightDecision(A, S, D, status, new)
  BY <1>3, <1>4 DEF RightDecision
<1> QED BY <1>5 DEF status, new
-----------------------------------------------------------------------------
(***************************************************************************)
(* What each step does to the progress of the call that takes it.          *)
(***************************************************************************)
\* No other call moves.
Others(j) == \A k \in Jobs \ {j} : job'[k] = job[k]

\* What the call has read stays what it has read.
KeepsSeen(j) == job'[j].dbSeen = job[j].dbSeen /\ job'[j].sourceSeen = job[j].sourceSeen

\* The call has come to its end with a verdict.
Ended(j, verdict) == KeepsSeen(j) /\ job'[j].phase = "ending" /\ job'[j].verdict = verdict

\* The kinds still to be pushed.
KindsLeft(j) == {k \in (job[j].kind + 1)..6 : OfKind(PushOrder[k]) # {}}

\* The call has gone on to the next kind, or has pushed them all.
Advanced(j) ==
  \/ KindsLeft(j) = {} /\ Ended(j, "pushed")
  \/ /\ KeepsSeen(j) /\ job'[j].phase = "listing" /\ job'[j].verdict = job[j].verdict
     /\ job'[j].kind \in KindsLeft(j) /\ \A m \in KindsLeft(j) : job'[j].kind <= m

\* A record of progress whose fields are known, put in the place of the old one.
LEMMA ProgressSet ==
  ASSUME DataTyped, NEW j \in Jobs, NEW p, job' = [job EXCEPT ![j] = p]
  PROVE  Others(j) /\ job'[j] = p
BY DEF DataTyped, Others

\* A call that ends keeps what it has seen.
LEMMA EndMoves ==
  ASSUME DataTyped, NEW j \in Jobs, NEW verdict, EndsWith(j, verdict)
  PROVE  Others(j) /\ Ended(j, verdict)
<1> DEFINE p == [job[j] EXCEPT !.phase = "ending", !.verdict = verdict]
<1>1. /\ job' = [job EXCEPT ![j] = p]
      /\ p.phase = "ending" /\ p.verdict = verdict
      /\ p.dbSeen = job[j].dbSeen /\ p.sourceSeen = job[j].sourceSeen
  BY DEF EndsWith, DataTyped, Progress
<1> HIDE DEF p
<1> QED BY <1>1, ProgressSet DEF Ended, KeepsSeen

\* Going on leads to the next kind that has records, or to the end.
LEMMA AdvanceMoves ==
  ASSUME DataTyped, NEW j \in Jobs, Advance(j)
  PROVE  Others(j) /\ Advanced(j)
<1>1. CASE KindsLeft(j) = {}
  <2>1. EndsWith(j, "pushed")
    BY <1>1 DEF Advance, KindsLeft
  <2> QED BY <1>1, <2>1, EndMoves DEF Advanced
<1>2. CASE KindsLeft(j) # {}
  <2>1. PICK k \in KindsLeft(j) :
          /\ \A m \in KindsLeft(j) : k <= m
          /\ job' = [job EXCEPT ![j] = [@ EXCEPT !.phase = "listing", !.kind = k]]
    BY <1>2 DEF Advance, KindsLeft
  <2> DEFINE p == [job[j] EXCEPT !.phase = "listing", !.kind = k]
  <2>2. /\ job' = [job EXCEPT ![j] = p]
        /\ p.phase = "listing" /\ p.kind = k /\ p.verdict = job[j].verdict
        /\ p.dbSeen = job[j].dbSeen /\ p.sourceSeen = job[j].sourceSeen
    BY <2>1 DEF DataTyped, Progress
  <2> HIDE DEF p
  <2> QED BY <2>1, <2>2, ProgressSet DEF Advanced, KeepsSeen
<1> QED BY <1>1, <1>2

\* A call starts with nothing seen, and changes nothing.
LEMMA RequestMoves ==
  ASSUME DataTyped, NEW j \in Jobs, NEW mode, Request(j, mode)
  PROVE  /\ Others(j) /\ job'[j].phase = "requested"
         /\ job'[j].dbSeen = Nothing /\ job'[j].sourceSeen = Nothing
         /\ job'[j].kind = 0 /\ job'[j].verdict = "none"
         /\ UNCHANGED <<store, used, inserts>>
<1> DEFINE p == [IdleJob EXCEPT !.phase = "requested", !.mode = mode]
<1>1. /\ job' = [job EXCEPT ![j] = p]
      /\ p.phase = "requested" /\ p.dbSeen = Nothing /\ p.sourceSeen = Nothing
      /\ p.kind = 0 /\ p.verdict = "none"
  BY DEF Request, IdleJob
<1> HIDE DEF p
<1> QED BY <1>1, ProgressSet DEF Request

\* The call that gets the lock sees the rows as they are.
LEMMA BeginMoves ==
  ASSUME DataTyped, NEW j \in Jobs, Begin(j)
  PROVE  /\ Others(j) /\ job'[j].phase = "reading"
         /\ job'[j].dbSeen = db /\ job'[j].sourceSeen = job[j].sourceSeen
         /\ job'[j].kind = job[j].kind /\ job'[j].verdict = job[j].verdict
         /\ UNCHANGED <<store, used, inserts>>
<1> DEFINE p == [job[j] EXCEPT !.phase = "reading", !.dbSeen = db]
<1>1. /\ job' = [job EXCEPT ![j] = p]
      /\ p.phase = "reading" /\ p.dbSeen = db /\ p.sourceSeen = job[j].sourceSeen
      /\ p.kind = job[j].kind /\ p.verdict = job[j].verdict
  BY DEF Begin, DataTyped, Progress
<1> HIDE DEF p
<1> QED BY <1>1, ProgressSet DEF Begin

\* The call sees the files as they are, or ends because they do not load.
LEMMA ReadMoves ==
  ASSUME DataTyped, NEW j \in Jobs, ReadSource(j)
  PROVE  /\ Others(j) /\ UNCHANGED <<store, used, inserts>>
         /\ \/ Ended(j, "invalid")
            \/ /\ job'[j].phase = "loaded" /\ Loadable(file)
               /\ job'[j].dbSeen = job[j].dbSeen /\ job'[j].sourceSeen = file
               /\ job'[j].kind = job[j].kind /\ job'[j].verdict = job[j].verdict
<1>1. CASE ~Loadable(file)
  BY <1>1, EndMoves DEF ReadSource
<1>2. CASE Loadable(file)
  <2> DEFINE p == [job[j] EXCEPT !.phase = "loaded", !.sourceSeen = file]
  <2>1. /\ job' = [job EXCEPT ![j] = p]
        /\ p.phase = "loaded" /\ p.dbSeen = job[j].dbSeen /\ p.sourceSeen = file
        /\ p.kind = job[j].kind /\ p.verdict = job[j].verdict
    BY <1>2 DEF ReadSource, DataTyped, Progress
  <2> HIDE DEF p
  <2> QED BY <1>2, <2>1, ProgressSet DEF ReadSource
<1> QED BY <1>1, <1>2

\* A decision replaces the rows as a whole, or ends the call and leaves them.
LEMMA ReconcileMoves ==
  ASSUME DataTyped, NEW j \in Jobs, Reconcile(j)
  PROVE  /\ Others(j) /\ UNCHANGED <<file, revision, used, inserts>>
         /\ job[j].phase = "loaded"
         /\ \/ /\ (\E r \in Records : InConflict(j, r)) \/ ~ReferencesResolveIn(Desired(j))
               /\ Ended(j, "conflict") /\ db' = db
            \/ Ended(j, "failed") /\ db' = db
            \/ /\ \A r \in Records : ~InConflict(j, r)
               /\ db' = IF Applied(j) = {} THEN db ELSE Desired(j)
               /\ job'[j].phase = "saved" /\ KeepsSeen(j)
               /\ job'[j].kind = job[j].kind /\ job'[j].verdict = job[j].verdict
<1>1. ASSUME NEW verdict, EndsWith(j, verdict)
      PROVE  Others(j) /\ Ended(j, verdict)
  BY <1>1, EndMoves
<1>2. ASSUME job' = [job EXCEPT ![j].phase = "saved"]
      PROVE  /\ Others(j) /\ job'[j].phase = "saved" /\ KeepsSeen(j)
             /\ job'[j].kind = job[j].kind /\ job'[j].verdict = job[j].verdict
  <2> DEFINE p == [job[j] EXCEPT !.phase = "saved"]
  <2>1. /\ job' = [job EXCEPT ![j] = p]
        /\ p.phase = "saved" /\ p.dbSeen = job[j].dbSeen /\ p.sourceSeen = job[j].sourceSeen
        /\ p.kind = job[j].kind /\ p.verdict = job[j].verdict
    BY <1>2 DEF DataTyped, Progress
  <2> HIDE DEF p
  <2> QED BY <2>1, ProgressSet DEF KeepsSeen
<1>3. CASE \E r \in Records : InConflict(j, r)
  BY <1>1, <1>3 DEF Reconcile
<1>4. CASE \A r \in Records : ~InConflict(j, r)
  BY <1>1, <1>2, <1>4 DEF Reconcile
<1> QED BY <1>3, <1>4

\* The baselines are replaced as a whole, and nothing else.
LEMMA PersistMoves ==
  ASSUME DataTyped, NEW j \in Jobs, PersistBaselines(j)
  PROVE  /\ Others(j) /\ UNCHANGED <<db, file, used, inserts>>
         /\ job[j].phase = "saved"
         /\ revision' = [r \in Records |-> NextBaseline(j, r)]
         /\ Ended(j, "loaded") \/ Advanced(j)
BY EndMoves, AdvanceMoves DEF PersistBaselines

\* Listing sees the rows as they are, after it has made up the mailbox.
LEMMA ListMoves ==
  ASSUME DataTyped, NEW j \in Jobs, ListKind(j)
  PROVE  LET kind == PushOrder[job[j].kind]
             created == {r \in OfKind(kind) : kind = "smtp" /\ db[r] = Absent}
         IN  /\ Others(j) /\ UNCHANGED <<file, revision, inserts>>
             /\ job[j].phase = "listing"
             /\ db' = [r \in Records |-> IF r \in created THEN FreshRow(DefaultContent) ELSE db[r]]
             /\ job'[j].phase = "writing" /\ KeepsSeen(j)
             /\ job'[j].kind = job[j].kind /\ job'[j].verdict = job[j].verdict
             /\ \A r \in OfKind(kind) : job'[j].listed[r] = db'[r]
             /\ job'[j].todo = {r \in OfKind(kind) : db'[r] # Absent}
<1> DEFINE kind == PushOrder[job[j].kind]
           created == IF kind = "smtp" THEN {r \in OfKind(kind) : db[r] = Absent} ELSE {}
           rows == [r \in Records |-> IF r \in created THEN FreshRow(DefaultContent) ELSE db[r]]
           listed == [r \in Records |-> IF KindOf[r] = kind THEN rows[r] ELSE Absent]
           todo == {r \in OfKind(kind) : rows[r] # Absent}
           p == [job[j] EXCEPT !.phase = "writing", !.listed = listed, !.todo = todo]
<1>1. /\ job' = [job EXCEPT ![j] = p] /\ db' = rows
      /\ job[j].phase = "listing" /\ UNCHANGED <<file, revision, inserts>>
  BY DEF ListKind
<1>2. created = {r \in OfKind(kind) : kind = "smtp" /\ db[r] = Absent}
  OBVIOUS
<1>3. \A r \in OfKind(kind) : listed[r] = rows[r]
  BY DEF OfKind
<1> HIDE DEF listed, todo
<1>4. /\ p.phase = "writing" /\ p.listed = listed /\ p.todo = todo
      /\ p.dbSeen = job[j].dbSeen /\ p.sourceSeen = job[j].sourceSeen
      /\ p.kind = job[j].kind /\ p.verdict = job[j].verdict
  BY DEF DataTyped, Progress
<1> HIDE DEF p, rows
<1>5. Others(j) /\ job'[j] = p
  BY <1>1, ProgressSet
<1>6. KeepsSeen(j)
  BY <1>4, <1>5 DEF KeepsSeen
<1>7. todo = {r \in OfKind(kind) : db'[r] # Absent}
  BY <1>1 DEF todo
<1>8. db' = [r \in Records |-> IF r \in created THEN FreshRow(DefaultContent) ELSE db[r]]
  BY <1>1 DEF rows
<1> HIDE DEF created
<1> QED BY <1>1, <1>2, <1>3, <1>4, <1>5, <1>6, <1>7, <1>8

\* A write replaces one file by what is written for the listed row.
LEMMA WriteMoves ==
  ASSUME DataTyped, NEW j \in Jobs, NEW r \in Records, WriteFile(j, r)
  PROVE  /\ Others(j) /\ UNCHANGED <<db, revision, used, inserts>>
         /\ job[j].phase = "writing" /\ r \in job[j].todo
         /\ \A x \in Records : file'[x] = IF x = r THEN PushedForm(r, job[j].listed[r]) ELSE file[x]
         /\ job'[j].phase = "writing" /\ KeepsSeen(j)
         /\ job'[j].kind = job[j].kind /\ job'[j].verdict = job[j].verdict
         /\ job'[j].listed = job[j].listed /\ job'[j].todo = job[j].todo \ {r}
<1> DEFINE p == [job[j] EXCEPT !.todo = job[j].todo \ {r}]
<1>1. /\ job' = [job EXCEPT ![j] = p]
      /\ p.phase = job[j].phase /\ p.dbSeen = job[j].dbSeen /\ p.sourceSeen = job[j].sourceSeen
      /\ p.kind = job[j].kind /\ p.verdict = job[j].verdict
      /\ p.listed = job[j].listed /\ p.todo = job[j].todo \ {r}
  BY DEF WriteFile, DataTyped, Progress
<1> HIDE DEF p
<1>2. file' = [file EXCEPT ![r] = PushedForm(r, job[j].listed[r])]
  BY DEF WriteFile
<1>3. \A x \in Records : file'[x] = IF x = r THEN PushedForm(r, job[j].listed[r]) ELSE file[x]
  BY <1>2 DEF DataTyped, StoreTyped
<1> QED BY <1>1, <1>3, ProgressSet DEF WriteFile, KeepsSeen

\* The clean-up removes the files of rows that were not listed.
LEMMA CleanupMoves ==
  ASSUME DataTyped, NEW j \in Jobs, Cleanup(j)
  PROVE  /\ Others(j) /\ UNCHANGED <<db, revision, used, inserts>>
         /\ job[j].phase = "writing" /\ job[j].todo = {}
         /\ file' = [r \in Records |-> IF r \in StaleFiles(j, PushOrder[job[j].kind])
                                       THEN Absent ELSE file[r]]
         /\ Advanced(j)
BY AdvanceMoves DEF Cleanup

\* A call that is over, and one whose write failed, changes nothing.
LEMMA LeaveMoves ==
  ASSUME DataTyped, NEW j \in Jobs
  PROVE  /\ End(j) => Others(j) /\ job'[j] = IdleJob /\ UNCHANGED <<store, used, inserts>>
         /\ WriteFails(j) => /\ Others(j) /\ Ended(j, "failed") /\ job[j].phase = "writing"
                             /\ UNCHANGED <<store, used, inserts>>
BY ProgressSet, EndMoves DEF End, WriteFails
-----------------------------------------------------------------------------
(***************************************************************************)
(* Why every call ends (EveryCallEnds), as far as it is a matter of        *)
(* safety: with edits and crashes at any moment, while a call is under way *)
(* some call has a turn, and each turn of a working call brings it nearer  *)
(* to its end.                                                             *)
(***************************************************************************)
\* Calls are counted in the queue of the mutex only while somebody owns it, and a
\* call that pushes is at one of the six kinds.
Queueing == MutexFacts!QueuedBehindALock
AtAKind == \A j \in Jobs : job[j].phase \in {"listing", "writing"} => job[j].kind \in 1..6

\* The mutex keeps its waiters waiting for somebody, also across a crash.
LEMMA QueueingStep == MutexIInv /\ Queueing /\ [Next]_vars => Queueing'
<1>1. Mutex!Init => Queueing
  BY DEF Mutex!Init, Queueing, MutexFacts!QueuedBehindALock
<1>2. MutexIInv /\ Queueing /\ [Mutex!Next]_mutexVars => Queueing'
  <2>1. [Mutex!Next]_mutexVars => [MutexFacts!Next]_(MutexFacts!vars)
    BY DEF Mutex!Next, MutexFacts!Next, mutexVars, MutexFacts!vars,
           Mutex!Acquire, MutexFacts!Acquire, Mutex!Enter, MutexFacts!Enter,
           Mutex!Release, MutexFacts!Release
  <2> QED BY <2>1, MutexFacts!WaitersStep DEF MutexIInv, Queueing
<1> QED BY <1>1, <1>2, MutexStep, PTL

\* What a step makes of the progress of every call: it stays, the call is asked for
\* or starts, it takes one of its steps, or it is over.
CallMoves(j) ==
  \/ job'[j] = job[j] \/ job'[j] = IdleJob
  \/ job[j].phase = "idle" /\ job'[j].phase = "requested"
  \/ job[j].phase = "requested" /\ job'[j].phase = "reading"
  \/ job[j].phase \in {"reading", "loaded", "saved", "writing"} /\ job'[j].phase = "ending"
  \/ job[j].phase = "reading" /\ job'[j].phase = "loaded"
  \/ job[j].phase = "loaded" /\ job'[j].phase = "saved"
  \/ /\ job[j].phase \in {"saved", "writing"} /\ job'[j].phase = "listing"
     /\ job'[j].kind \in KindsLeft(j)
  \/ job[j].phase = "listing" /\ job'[j].phase = "writing" /\ job'[j].kind = job[j].kind
  \/ /\ job[j].phase = "writing" /\ job'[j].phase = "writing" /\ job'[j].kind = job[j].kind
     /\ \E r \in job[j].todo : job'[j].todo = job[j].todo \ {r}

\* Every call moves along these ways.
LEMMA AllCallsMove ==
  ASSUME TypedInv, StageMatches, [Next]_vars PROVE \A j \in Jobs : CallMoves(j)
<1> USE DEF TypedInv
<1>1. CASE UNCHANGED job
  BY <1>1 DEF CallMoves
<1>2. ASSUME NEW j \in Jobs, Others(j), CallMoves(j) PROVE \A k \in Jobs : CallMoves(k)
  BY <1>2 DEF Others, CallMoves
<1>3. ASSUME NEW j \in Jobs, NEW mode, Request(j, mode) PROVE \A k \in Jobs : CallMoves(k)
  <2>1. job[j].phase = "idle"
    BY <1>3 DEF Request, Mutex!Acquire, StageMatches
  <2> QED BY <1>2, <1>3, <2>1, RequestMoves DEF CallMoves
<1>4. ASSUME NEW j \in Jobs, Begin(j) PROVE \A k \in Jobs : CallMoves(k)
  <2>1. job[j].phase = "requested"
    BY <1>4 DEF Begin, Mutex!Enter, StageMatches, Working
  <2> QED BY <1>2, <1>4, <2>1, BeginMoves DEF CallMoves
<1>5. ASSUME NEW j \in Jobs, ReadSource(j) PROVE \A k \in Jobs : CallMoves(k)
  BY <1>2, <1>5, ReadMoves DEF CallMoves, Ended, ReadSource
<1>6. ASSUME NEW j \in Jobs, Reconcile(j) PROVE \A k \in Jobs : CallMoves(k)
  BY <1>2, <1>6, ReconcileMoves DEF CallMoves, Ended
<1>7. ASSUME NEW j \in Jobs, PersistBaselines(j) PROVE \A k \in Jobs : CallMoves(k)
  BY <1>2, <1>7, PersistMoves DEF CallMoves, Ended, Advanced
<1>8. ASSUME NEW j \in Jobs, ListKind(j) PROVE \A k \in Jobs : CallMoves(k)
  BY <1>2, <1>8, ListMoves DEF CallMoves
<1>9. ASSUME NEW j \in Jobs, NEW r \in Records, WriteFile(j, r) PROVE \A k \in Jobs : CallMoves(k)
  BY <1>2, <1>9, WriteMoves DEF CallMoves
<1>10. ASSUME NEW j \in Jobs, Cleanup(j) PROVE \A k \in Jobs : CallMoves(k)
  BY <1>2, <1>10, CleanupMoves DEF CallMoves, Ended, Advanced
<1>11. ASSUME NEW j \in Jobs, End(j) \/ WriteFails(j) PROVE \A k \in Jobs : CallMoves(k)
  BY <1>2, <1>11, LeaveMoves DEF CallMoves, Ended
<1>12. CASE Crash
  BY <1>12 DEF Crash, CallMoves
<1>13. ASSUME NEW r \in Records,
              UpdateRecord(r) \/ UpdateDependencies(r) \/ CreateRecord(r)
                \/ OpenMailbox(r) \/ DeleteRecord(r) \/ EditFile(r)
       PROVE  UNCHANGED job
  BY <1>13 DEF UpdateRecord, UpdateDependencies, CreateRecord, OpenMailbox, DeleteRecord,
               EditFile, EditDatabase
<1>14. ASSUME NEW pair \in inserts, InsertDependencies(pair[1], pair[2]) PROVE UNCHANGED job
  BY <1>14 DEF InsertDependencies
<1>15. CASE UNCHANGED vars
  BY <1>1, <1>15 DEF vars
<1> QED BY <1>1, <1>3, <1>4, <1>5, <1>6, <1>7, <1>8, <1>9, <1>10, <1>11, <1>12, <1>13, <1>14, <1>15
        DEF Next, JobStep

\* A call pushes one of the six kinds at a time.
LEMMA AtAKindStep == ASSUME TypedInv, StageMatches, AtAKind, [Next]_vars PROVE AtAKind'
<1> SUFFICES ASSUME NEW j \in Jobs, job'[j].phase \in {"listing", "writing"}
             PROVE  job'[j].kind \in 1..6
  BY DEF AtAKind
<1>1. CallMoves(j)
  BY AllCallsMove
<1>2. job[j].kind \in 0..6
  BY DEF TypedInv, DataTyped, Progress
<1>3. KindsLeft(j) \subseteq 1..6
  BY <1>2 DEF KindsLeft
<1>4. IdleJob.phase = "idle"
  BY DEF IdleJob
<1> QED BY <1>1, <1>3, <1>4 DEF CallMoves, AtAKind

\* The guard of some step of the call holds.
HasTurn(j) ==
  \/ stage[j] = "granted" /\ (Interference \/ inserts = {})
  \/ job[j].phase \in {"reading", "loaded", "saved"}
  \/ job[j].phase \in {"listing", "writing"} /\ job[j].kind \in 1..6
  \/ job[j].phase = "ending" /\ stage[j] = "inside"

\* What the turns of calls rest on.
TurnInv == TypedInv /\ StageMatches /\ Queueing /\ AtAKind

\* It holds from the start.
LEMMA TurnInvHolds == Spec => []TurnInv
<1>1. Init => TurnInv
  <2>1. Init => StageMatches /\ AtAKind
    BY DEF Init, Mutex!Init, StageMatches, Working, AtAKind, IdleJob
  <2>2. Init => Queueing
    BY DEF Init, Mutex!Init, Queueing, MutexFacts!QueuedBehindALock
  <2> QED BY <2>1, <2>2, TypedInvInit DEF TurnInv
<1>2. TurnInv /\ [Next]_vars => TurnInv'
  BY TypedInvStep, StageStep, QueueingStep, AtAKindStep DEF TurnInv, TypedInv
<1> QED BY <1>1, <1>2, PTL DEF Spec

\* While a call is under way, some call can take a step by itself, or a request of
\* the application that no call may overtake is half done: no interleaving of calls,
\* edits, failures and crashes leaves all calls waiting for one another.
THEOREM SyncACallHasATurn ==
  Spec => []((\E j \in Jobs : job[j].phase # "idle")
               => (\E k \in Jobs : HasTurn(k)) \/ (~Interference /\ inserts # {}))
<1>1. ASSUME TurnInv, NEW j \in Jobs, job[j].phase # "idle"
      PROVE  (\E k \in Jobs : HasTurn(k)) \/ (~Interference /\ inserts # {})
  <2>1. job \in [Jobs -> Progress] /\ stage \in [Jobs -> Mutex!Stages]
    BY <1>1, TypedInvGivesTypeOK DEF TurnInv, TypedInv, DataTyped, TypeOK, Mutex!TypeOK
  <2>2. ASSUME NEW k \in Jobs, stage[k] = "inside" PROVE HasTurn(k)
    <3>1. job[k].phase \in Phases \ {"idle", "requested"}
      BY <1>1, <2>1, <2>2 DEF TurnInv, StageMatches, Working, Progress
    <3> QED BY <1>1, <2>2, <3>1 DEF TurnInv, AtAKind, HasTurn, Phases
  <2>3. ASSUME NEW k \in Jobs, stage[k] = "granted"
        PROVE  HasTurn(k) \/ (~Interference /\ inserts # {})
    BY <2>3 DEF HasTurn
  <2>4. stage[j] # "outside"
    BY <1>1 DEF TurnInv, StageMatches
  <2>5. \E k \in Jobs : stage[k] \in {"granted", "inside"}
    <3>1. CASE stage[j] # "queued"
      BY <2>1, <2>4, <3>1 DEF Mutex!Stages
    <3>2. CASE stage[j] = "queued"
      BY <1>1, <3>2 DEF TurnInv, TypedInv, MutexIInv, MutexFacts!IInv, MutexFacts!NoOrphanedLock,
                        MutexFacts!Owners, Queueing, MutexFacts!QueuedBehindALock
    <3> QED BY <3>1, <3>2
  <2> QED BY <2>2, <2>3, <2>5
<1>2. TurnInv => ((\E j \in Jobs : job[j].phase # "idle")
                    => (\E k \in Jobs : HasTurn(k)) \/ (~Interference /\ inserts # {}))
  BY <1>1
<1> QED BY <1>2, TurnInvHolds, PTL

\* How many phases are ahead of a call.  Within the push, which is one of them, the
\* call goes on to a later kind, from listing to writing, or has a file less to write.
Ahead(phase) ==
  CASE phase = "reading" -> 4
    [] phase = "loaded"  -> 3
    [] phase = "saved"   -> 2
    [] phase \in {"listing", "writing"} -> 1
    [] OTHER -> 0

Nearer(p, q) ==
  \/ Ahead(q.phase) < Ahead(p.phase)
  \/ /\ p.phase \in {"listing", "writing"} /\ q.phase \in {"listing", "writing"}
     /\ \/ q.kind > p.kind
        \/ q.kind = p.kind /\ p.phase = "listing" /\ q.phase = "writing"
        \/ /\ q.kind = p.kind /\ p.phase = "writing" /\ q.phase = "writing"
           /\ q.todo \subseteq p.todo /\ q.todo # p.todo

\* Each step of a working call brings it nearer to its end, whatever is edited, fails
\* or is refused: no call goes back to a phase or a kind it has been through.  There
\* are five phases, six kinds and a list of files, so a call of a finite workspace that
\* goes on getting its turn ends.
THEOREM SyncCallsComeDown ==
  Spec => [][\A j \in Jobs : Working(j) /\ job'[j] # job[j]
               => job'[j].phase = "idle" \/ Nearer(job[j], job'[j])]_vars
<1>1. ASSUME TurnInv, [Next]_vars, NEW j \in Jobs, Working(j), job'[j] # job[j]
      PROVE  job'[j].phase = "idle" \/ Nearer(job[j], job'[j])
  <2>1. CallMoves(j)
    BY <1>1, AllCallsMove DEF TurnInv
  <2>2. IdleJob.phase = "idle"
    BY DEF IdleJob
  <2>3. /\ Ahead("reading") = 4 /\ Ahead("loaded") = 3 /\ Ahead("saved") = 2
        /\ Ahead("listing") = 1 /\ Ahead("writing") = 1 /\ Ahead("ending") = 0
    BY DEF Ahead
  <2>4. job[j].kind \in 0..6
    BY <1>1 DEF TurnInv, TypedInv, DataTyped, Progress
  <2>5. \A k \in KindsLeft(j) : k > job[j].kind
    BY <2>4 DEF KindsLeft
  <2>6. job[j].phase \notin {"idle", "requested"}
    BY <1>1 DEF Working
  <2> QED BY <1>1, <2>1, <2>2, <2>3, <2>5, <2>6 DEF CallMoves, Nearer
<1>2. TurnInv /\ [Next]_vars
        => [\A j \in Jobs : Working(j) /\ job'[j] # job[j]
              => job'[j].phase = "idle" \/ Nearer(job[j], job'[j])]_vars
  BY <1>1
<1> QED BY <1>2, TurnInvHolds, PTL DEF Spec
-----------------------------------------------------------------------------
(***************************************************************************)
(* What no side ever holds: a dependency of a record that is not executed, *)
(* or a script of an environment.                                          *)
(***************************************************************************)
PlainRow(r, row) ==
  row \in Row => /\ KindOf[r] \notin Executable => row.deps = {}
                 /\ KindOf[r] = "environment" => row.script = NoScript

\* Every row is plain.
PlainRows(rows) == \A r \in Records : PlainRow(r, rows[r])

\* And so is every row and file there is or was seen.
Plain == /\ PlainRows(db) /\ PlainRows(file)
         /\ \A j \in Jobs : PlainRows(job[j].dbSeen) /\ PlainRows(job[j].sourceSeen)

\* A new row and a missing one are plain.
LEMMA FreshPlain ==
  ASSUME NEW r \in Records
  PROVE  /\ PlainRow(r, Absent) /\ PlainRow(r, Torn)
         /\ \A c \in Contents : PlainRow(r, FreshRow(c))
         /\ PlainRow(r, FreshRow(DefaultContent))
BY SentinelAssumptions DEF PlainRow, FreshRow

\* The application keeps rows plain.
LEMMA RequestsPlain ==
  ASSUME DataTyped, PlainRows(db), NEW r \in Records,
         UpdateRecord(r) \/ UpdateDependencies(r) \/ CreateRecord(r) \/ OpenMailbox(r) \/ DeleteRecord(r)
  PROVE  PlainRows(db') /\ UNCHANGED <<file, job>>
<1> USE DEF DataTyped, StoreTyped
<1>0. UNCHANGED <<file, job>>
  BY DEF UpdateRecord, UpdateDependencies, CreateRecord, OpenMailbox, DeleteRecord, EditDatabase
<1>1. ASSUME NEW row, PlainRow(r, row), db' = [db EXCEPT ![r] = row]
      PROVE  PlainRows(db')
  BY <1>1 DEF PlainRows, Rows
<1>2. CASE UpdateRecord(r)
  <2>1. PICK c \in Contents, s \in Scripts :
          /\ KindOf[r] = "environment" => s = db[r].script
          /\ db' = [db EXCEPT ![r] = [content |-> c, script |-> s, deps |-> db[r].deps]]
    BY <1>2 DEF UpdateRecord
  <2>2. db[r] \in Row /\ PlainRow(r, db[r])
    BY <1>2 DEF UpdateRecord, Rows, PlainRows
  <2>3. PlainRow(r, [content |-> c, script |-> s, deps |-> db[r].deps])
    BY <2>1, <2>2 DEF PlainRow
  <2> QED BY <1>0, <1>1, <2>1, <2>3
<1>3. CASE UpdateDependencies(r)
  <2>1. db[r] \in Row /\ KindOf[r] = "sse"
    BY <1>3 DEF UpdateDependencies, Rows
  <2>2. PlainRow(r, [db[r] EXCEPT !.deps = {}])
    BY <2>1 DEF PlainRow, Executable
  <2>3. db' = [db EXCEPT ![r] = [db[r] EXCEPT !.deps = {}]]
    BY <1>3, <2>1 DEF UpdateDependencies
  <2> QED BY <1>0, <1>1, <2>2, <2>3
<1>4. CASE CreateRecord(r) \/ OpenMailbox(r)
  <2>1. \E row : PlainRow(r, row) /\ db' = [db EXCEPT ![r] = row]
    BY <1>4, FreshPlain DEF CreateRecord, OpenMailbox
  <2> QED BY <1>0, <1>1, <2>1
<1>5. CASE DeleteRecord(r)
  <2>1. \A x \in Records : db[x] # Absent =>
           LET row == [db[x] EXCEPT !.deps = @ \ {r}]
           IN  row.deps = db[x].deps \ {r} /\ row.script = db[x].script
    BY DEF Rows, Row
  <2>2. ASSUME NEW x \in Records PROVE PlainRow(x, db'[x])
    <3>1. CASE x = r \/ db[x] = Absent
      BY <1>5, <3>1, FreshPlain DEF DeleteRecord
    <3>2. CASE x # r /\ db[x] # Absent
      <4>1. db'[x] = [db[x] EXCEPT !.deps = @ \ {r}] /\ db[x] \in Row
        BY <1>5, <3>2 DEF DeleteRecord, Rows
      <4>2. db'[x].deps = db[x].deps \ {r} /\ db'[x].script = db[x].script
        BY <2>1, <3>2, <4>1
      <4> QED BY <4>1, <4>2 DEF PlainRows, PlainRow
    <3> QED BY <3>1, <3>2
  <2> QED BY <1>0, <2>2 DEF PlainRows
<1> QED BY <1>0, <1>2, <1>3, <1>4, <1>5

\* So do a late insertion of dependencies and another program that edits a file.
LEMMA OutsidePlain ==
  ASSUME DataTyped, PlainRows(db), PlainRows(file)
  PROVE  /\ \A pair \in inserts : InsertDependencies(pair[1], pair[2])
              => PlainRows(db') /\ UNCHANGED <<file, job>>
         /\ \A r \in Records : EditFile(r) => PlainRows(file') /\ UNCHANGED <<db, job>>
<1> USE DEF DataTyped, StoreTyped
<1>1. ASSUME NEW pair \in inserts, InsertDependencies(pair[1], pair[2])
      PROVE  PlainRows(db') /\ UNCHANGED <<file, job>>
  <2> DEFINE r == pair[1]
             D == pair[2]
  <2>1. r \in Records /\ UNCHANGED <<file, job>>
    BY <1>1 DEF InsertDependencies
  <2>2. CASE \A d \in D \cup {r} : KindOf[d] = "sse" /\ db[d] # Absent
    <3>1. KindOf[r] = "sse" /\ db' = [db EXCEPT ![r] = [db[r] EXCEPT !.deps = @ \cup D]]
      BY <1>1, <2>2 DEF InsertDependencies
    <3>2. PlainRow(r, [db[r] EXCEPT !.deps = @ \cup D])
      BY <3>1 DEF PlainRow, Executable
    <3> QED BY <2>1, <3>1, <3>2 DEF PlainRows, Rows
  <2>3. CASE ~\A d \in D \cup {r} : KindOf[d] = "sse" /\ db[d] # Absent
    BY <1>1, <2>1, <2>3 DEF InsertDependencies
  <2> QED BY <2>2, <2>3
<1>2. ASSUME NEW r \in Records, EditFile(r)
      PROVE  PlainRows(file') /\ UNCHANGED <<db, job>>
  <2>1. PICK form \in FileEdits(r) : file' = [file EXCEPT ![r] = form]
    BY <1>2 DEF EditFile
  <2>2. PlainRow(r, form)
    <3>1. CASE file[r] \notin Row \/ form = Absent
      BY <2>1, <3>1, FreshPlain DEF FileEdits
    <3>2. CASE file[r] \in Row /\ form # Absent
      <4>1. PlainRow(r, file[r])
        BY DEF PlainRows
      <4>2. CASE \E c \in Contents : form = [file[r] EXCEPT !.content = c]
        <5>1. form.deps = file[r].deps /\ form.script = file[r].script
          BY <3>2, <4>2 DEF Row
        <5> QED BY <3>2, <4>1, <5>1 DEF PlainRow
      <4>3. CASE KindOf[r] # "environment" /\ \E s \in Scripts : form = [file[r] EXCEPT !.script = s]
        <5>1. form.deps = file[r].deps
          BY <3>2, <4>3 DEF Row
        <5> QED BY <3>2, <4>1, <4>3, <5>1 DEF PlainRow
      <4>4. CASE KindOf[r] \in Executable
        BY <4>4 DEF PlainRow, Executable
      <4> QED BY <2>1, <3>2, <4>2, <4>3, <4>4 DEF FileEdits
    <3> QED BY <3>1, <3>2
  <2>3. PlainRows(file')
    BY <2>1, <2>2 DEF PlainRows
  <2> QED BY <1>2, <2>3 DEF EditFile
<1> QED BY <1>1, <1>2

\* A decision takes dependencies and script from one of the two sides, and is
\* plain when both are.
LEMMA DesiredPlain ==
  ASSUME DataTyped, TypeOK, Plain, NEW j \in Jobs PROVE PlainRows(Desired(j))
<1> SUFFICES ASSUME NEW r \in Records PROVE PlainRow(r, Desired(j)[r])
  BY DEF PlainRows
<1> DEFINE S == job[j].sourceSeen[r]
           D == job[j].dbSeen[r]
           new == Desired(j)[r]
<1>1. /\ S \in Row \cup {Absent} /\ D \in Row \cup {Absent}
      /\ PlainRow(r, S) /\ PlainRow(r, D)
      /\ revision[r] \in Baseline \cup {NoRevision}
  BY DEF DataTyped, StoreTyped, Progress, Rows, Plain, PlainRows
<1>2. PICK os \in Origins : SourceSnapshot(r, S) = SideOf(S, os)
  BY <1>1 DEF SourceSnapshot, SideOf, Origins
<1>3. PICK od \in Origins : DatabaseSnapshot(r, D) = SideOf(D, od)
  BY <1>1 DEF DatabaseSnapshot, SideOf, Origins, Baseline, Snapshot
<1>4. new = RowOf(RecordOutcome(revision[r], SideOf(S, os), SideOf(D, od)))
  BY <1>2, <1>3 DEF Desired
<1> HIDE DEF S, D, new
<1>5. KeptRow(S, D, new)
  BY <1>1, <1>4, DecisionKeeps
<1> QED BY <1>1, <1>5, SentinelAssumptions DEF PlainRow, KeptRow, new

\* What a call writes, and what it puts aside to compare, is plain.
LEMMA PlainStep == ASSUME TypedInv, Plain, [Next]_vars PROVE Plain'
<1> USE DEF TypedInv
<1>0. PlainRows(Nothing)
  BY FreshPlain DEF PlainRows, Nothing
<1>1. ASSUME PlainRows(db'), PlainRows(file'), UNCHANGED job
      PROVE  Plain'
  BY <1>1 DEF Plain
<1>2. ASSUME NEW j \in Jobs, Others(j), KeepsSeen(j), PlainRows(db'), PlainRows(file')
      PROVE  Plain'
  BY <1>2 DEF Plain, Others, KeepsSeen
<1>3. ASSUME NEW r \in Records,
             UpdateRecord(r) \/ UpdateDependencies(r) \/ CreateRecord(r)
               \/ OpenMailbox(r) \/ DeleteRecord(r) \/ EditFile(r)
      PROVE  Plain'
  BY <1>1, <1>3, RequestsPlain, OutsidePlain DEF Plain
<1>4. ASSUME NEW pair \in inserts, InsertDependencies(pair[1], pair[2])
      PROVE  Plain'
  BY <1>1, <1>4, OutsidePlain DEF Plain
<1>5. ASSUME NEW j \in Jobs, NEW mode, Request(j, mode) PROVE Plain'
  BY <1>0, <1>5, RequestMoves DEF Plain, Others, store
<1>6. ASSUME NEW j \in Jobs, JobStep(j) \/ WriteFails(j) PROVE Plain'
  <2>1. CASE Begin(j)
    BY <2>1, BeginMoves DEF Plain, Others, store
  <2>2. CASE ReadSource(j)
    BY <1>2, <2>2, ReadMoves DEF Plain, Others, store, Ended
  <2>3. CASE Reconcile(j)
    <3>1. PlainRows(db')
      BY <2>3, ReconcileMoves, DesiredPlain, TypedInvGivesTypeOK DEF Plain
    <3>2. Others(j) /\ KeepsSeen(j) /\ file' = file
      BY <2>3, ReconcileMoves DEF Ended
    <3> QED BY <1>2, <3>1, <3>2 DEF Plain
  <2>4. CASE PersistBaselines(j)
    BY <1>2, <2>4, PersistMoves DEF Plain, Ended, Advanced
  <2>5. CASE ListKind(j)
    <3>1. PlainRows(db')
      BY <2>5, ListMoves, FreshPlain DEF Plain, PlainRows
    <3> QED BY <1>2, <2>5, <3>1, ListMoves DEF Plain
  <2>6. ASSUME NEW r \in Records, WriteFile(j, r) PROVE Plain'
    <3>1. PlainRow(r, PushedForm(r, job[j].listed[r]))
      BY DEF PlainRow, PushedForm, Executable
    <3>2. PlainRows(file')
      BY <2>6, <3>1, WriteMoves DEF Plain, PlainRows
    <3> QED BY <1>2, <2>6, <3>2, WriteMoves DEF Plain
  <2>7. CASE Cleanup(j)
    <3>1. PlainRows(file')
      BY <2>7, CleanupMoves, FreshPlain DEF Plain, PlainRows
    <3> QED BY <1>2, <2>7, <3>1, CleanupMoves DEF Plain, Ended, Advanced
  <2>8. CASE End(j)
    <3>1. IdleJob.dbSeen = Nothing /\ IdleJob.sourceSeen = Nothing
      BY DEF IdleJob
    <3> QED BY <1>0, <2>8, <3>1, LeaveMoves DEF Plain, Others, store
  <2>9. CASE WriteFails(j)
    BY <1>2, <2>9, LeaveMoves DEF Plain, Ended, store
  <2> QED BY <1>6, <2>1, <2>2, <2>3, <2>4, <2>5, <2>6, <2>7, <2>8, <2>9 DEF JobStep
<1>7. CASE Crash
  <2>1. /\ db' = db
        /\ file' = file \/ \E r \in Records : file' = [file EXCEPT ![r] = Torn]
    BY <1>7 DEF Crash, DataTyped, StoreTyped, Progress
  <2>2. PlainRows(file')
    BY <2>1, FreshPlain DEF Plain, PlainRows, DataTyped, StoreTyped
  <2>3. \A j \in Jobs : job'[j].dbSeen = Nothing /\ job'[j].sourceSeen = Nothing
    BY <1>7 DEF Crash, IdleJob
  <2> QED BY <1>0, <2>1, <2>2, <2>3 DEF Plain
<1>8. CASE UNCHANGED vars
  BY <1>8 DEF vars, store, Plain
<1> QED BY <1>3, <1>4, <1>5, <1>6, <1>7, <1>8 DEF Next
-----------------------------------------------------------------------------
(***************************************************************************)
(* A workspace that nobody edits while a call works (~Interference).       *)
(***************************************************************************)
\* One call at most works: its progress follows its stage in the mutex.
LEMMA OneWorks == TypedInv /\ StageMatches => OneJobAtATime
BY DEF TypedInv, MutexIInv, MutexFacts!IInv, MutexFacts!MutualExclusion, MutexFacts!Owners,
       StageMatches, OneJobAtATime

\* What is true of every working call says what the call has seen so far, and
\* that no request of the application is under way.
Seen(p) ==
  /\ inserts = {}
  /\ p.phase = "reading" => db = p.dbSeen
  /\ p.phase = "loaded" => db = p.dbSeen /\ file = p.sourceSeen
  /\ p.phase = "saved" => file = p.sourceSeen

\* This is so for every call at work.
Calm == \A j \in Jobs : Working(j) => Seen(job[j])

\* The steps of a call that works already.
Works(j) ==
  \/ ReadSource(j) \/ Reconcile(j) \/ PersistBaselines(j) \/ ListKind(j)
  \/ (\E r \in Records : WriteFile(j, r)) \/ Cleanup(j) \/ WriteFails(j)

\* No call is at work, the call at work is left alone, or it takes a step.
CalmCase ==
  \/ \A k \in Jobs : ~Working(k)'
  \/ UNCHANGED <<store, inserts>> /\ \A k \in Jobs : Working(k)' => job'[k] = job[k]
  \/ \E j \in Jobs : /\ (Begin(j) /\ (Interference \/ inserts = {})) \/ (Works(j) /\ Working(j))
                     /\ Others(j) /\ \A k \in Jobs \ {j} : ~Working(k)'

\* Without interference a step leaves no call at work, leaves what the working
\* call looks at alone, or is a step of the only call at work.
LEMMA CalmSteps ==
  ASSUME TypedInv, StageMatches, TypedInv', StageMatches', Calm, ~Interference, [Next]_vars
  PROVE  CalmCase
<1> USE DEF TypedInv
<1>0. OneJobAtATime /\ OneJobAtATime'
  BY OneWorks, PTL
<1>1. ASSUME NEW r \in Records,
             UpdateRecord(r) \/ UpdateDependencies(r) \/ CreateRecord(r)
               \/ OpenMailbox(r) \/ DeleteRecord(r) \/ EditFile(r)
      PROVE  \A k \in Jobs : ~Working(k)'
  BY <1>1 DEF UpdateRecord, UpdateDependencies, CreateRecord, OpenMailbox, DeleteRecord,
              EditFile, EditDatabase, Undisturbed, Working
<1>2. ASSUME NEW pair \in inserts, InsertDependencies(pair[1], pair[2])
      PROVE  \A k \in Jobs : ~Working(k)'
  <2>1. \A k \in Jobs : ~Working(k)
    BY DEF Calm, Seen
  <2> QED BY <1>2, <2>1 DEF InsertDependencies, Working
<1>3. ASSUME NEW j \in Jobs, NEW mode, Request(j, mode)
      PROVE  UNCHANGED <<store, inserts>> /\ \A k \in Jobs : Working(k)' => job'[k] = job[k]
  BY <1>3, RequestMoves DEF Others, Working
<1>4. ASSUME NEW j \in Jobs, Begin(j) PROVE CalmCase
  <2>1. Others(j) /\ Working(j)'
    BY <1>4, BeginMoves DEF Working
  <2>2. \A k \in Jobs \ {j} : ~Working(k)'
    BY <1>0, <2>1 DEF OneJobAtATime
  <2>3. Interference \/ inserts = {}
    BY <1>4 DEF Begin
  <2> QED BY <1>4, <2>1, <2>2, <2>3 DEF CalmCase
<1>5. ASSUME NEW j \in Jobs, Works(j) PROVE CalmCase
  <2>1. Others(j)
    BY <1>5, ReadMoves, ReconcileMoves, PersistMoves, ListMoves, WriteMoves, CleanupMoves,
       LeaveMoves DEF Works
  <2>2. Working(j)
    BY <1>5 DEF Works, ReadSource, Reconcile, PersistBaselines, ListKind, WriteFile, Cleanup,
                WriteFails, Working
  <2>3. \A k \in Jobs \ {j} : ~Working(k)'
    BY <1>0, <2>1, <2>2 DEF OneJobAtATime, Others, Working
  <2> QED BY <1>5, <2>1, <2>2, <2>3 DEF CalmCase
<1>6. ASSUME NEW j \in Jobs, End(j) PROVE \A k \in Jobs : ~Working(k)'
  <2>1. Others(j) /\ job'[j] = IdleJob /\ Working(j)
    BY <1>6, LeaveMoves DEF End, Working
  <2>2. IdleJob.phase = "idle"
    BY DEF IdleJob
  <2> QED BY <1>0, <2>1, <2>2 DEF OneJobAtATime, Others, Working
<1>7. CASE Crash
  BY <1>7 DEF Crash, Working, IdleJob, CalmCase
<1>8. CASE UNCHANGED vars
  BY <1>8 DEF vars, CalmCase
<1> QED BY <1>1, <1>2, <1>3, <1>4, <1>5, <1>6, <1>7, <1>8 DEF Next, JobStep, Works, CalmCase

\* A call that works keeps seeing what is there.
LEMMA CalmStep ==
  ASSUME TypedInv, StageMatches, TypedInv', StageMatches', Calm, ~Interference, [Next]_vars
  PROVE  Calm'
<1> USE DEF TypedInv
<1>1. CASE \A k \in Jobs : ~Working(k)'
  BY <1>1 DEF Calm
<1>2. CASE UNCHANGED <<store, inserts>> /\ \A k \in Jobs : Working(k)' => job'[k] = job[k]
  <2>1. \A k \in Jobs : Working(k)' => Working(k)
    BY <1>2 DEF Working
  <2> QED BY <1>2, <2>1 DEF Calm, Seen, store
<1>3. ASSUME NEW j \in Jobs, \A k \in Jobs \ {j} : ~Working(k)', Seen(job[j])'
      PROVE  Calm'
  BY <1>3 DEF Calm
<1>4. ASSUME NEW j \in Jobs, Begin(j), inserts = {}
      PROVE  Seen(job[j])'
  BY <1>4, BeginMoves DEF Seen, store
<1>5. ASSUME NEW j \in Jobs, Works(j), Working(j)
      PROVE  Seen(job[j])'
  <2>1. Seen(job[j])
    BY <1>5 DEF Calm
  <2>2. CASE ReadSource(j)
    <3>1. job[j].phase = "reading"
      BY <2>2 DEF ReadSource
    <3> QED BY <2>1, <2>2, <3>1, ReadMoves DEF Seen, Ended, KeepsSeen, store
  <2>3. CASE Reconcile(j)
    BY <2>1, <2>3, ReconcileMoves DEF Seen, Ended, KeepsSeen
  <2>4. CASE PersistBaselines(j)
    BY <2>1, <2>4, PersistMoves DEF Seen, Ended, Advanced, KeepsSeen
  <2>5. CASE ListKind(j)
    BY <2>1, <2>5, ListMoves DEF Seen, KeepsSeen
  <2>6. ASSUME NEW r \in Records, WriteFile(j, r) PROVE Seen(job[j])'
    BY <2>1, <2>6, WriteMoves DEF Seen, KeepsSeen
  <2>7. CASE Cleanup(j)
    BY <2>1, <2>7, CleanupMoves DEF Seen, Ended, Advanced, KeepsSeen
  <2>8. CASE WriteFails(j)
    BY <2>1, <2>8, LeaveMoves DEF Seen, Ended, KeepsSeen
  <2> QED BY <1>5, <2>2, <2>3, <2>4, <2>5, <2>6, <2>7, <2>8 DEF Works
<1> QED BY <1>1, <1>2, <1>3, <1>4, <1>5, CalmSteps DEF CalmCase

\* The invariant of a call at work that nobody disturbs.
CalmInv == TypedInv /\ StageMatches /\ Calm

\* Without interference a call at work sees what is there, at every moment.
LEMMA CalmInvHolds == ASSUME ~Interference PROVE Spec => []CalmInv
<1>1. Init => CalmInv
  <2>1. Init => StageMatches
    BY DEF Init, Mutex!Init, StageMatches, Working, IdleJob
  <2>2. Init => Calm
    BY DEF Init, Calm, Working, IdleJob
  <2> QED BY <2>1, <2>2, TypedInvInit DEF CalmInv
<1>2. CalmInv /\ [Next]_vars => CalmInv'
  BY TypedInvStep, StageStep, CalmStep DEF CalmInv
<1> QED BY <1>1, <1>2, PTL DEF Spec

-----------------------------------------------------------------------------
(***************************************************************************)
(* Pushing: each kind in its turn.                                         *)
(***************************************************************************)
\* The workspace record is always there, and so is what a call sees of it.
WorkspaceStays ==
  \A r \in OfKind("workspace") :
    /\ db[r] # Absent
    /\ \A j \in Jobs :
         /\ job[j].phase \in {"reading", "loaded"} => job[j].dbSeen[r] # Absent
         /\ job[j].phase = "loaded" => job[j].sourceSeen[r] # Absent

\* A call has no verdict and has listed nothing before it is time to.
Early == \A j \in Jobs : /\ job[j].phase \notin {"listing", "writing", "ending"} => job[j].kind = 0
                         /\ job[j].phase # "ending" => job[j].verdict = "none"

\* The snapshots a decision compares are those of what the call has seen.
LEMMA SidesOf ==
  ASSUME DataTyped, NEW j \in Jobs, NEW r \in Records
  PROVE  /\ job[j].sourceSeen[r] \in Row \cup {Absent} /\ job[j].dbSeen[r] \in Row \cup {Absent}
         /\ revision[r] \in Baseline \cup {NoRevision}
         /\ \E os, od \in Origins :
              /\ SourceSnapshot(r, job[j].sourceSeen[r]) = SideOf(job[j].sourceSeen[r], os)
              /\ DatabaseSnapshot(r, job[j].dbSeen[r]) = SideOf(job[j].dbSeen[r], od)
<1> DEFINE S == job[j].sourceSeen[r]
           D == job[j].dbSeen[r]
<1>1. S \in Row \cup {Absent} /\ D \in Row \cup {Absent} /\ revision[r] \in Baseline \cup {NoRevision}
  BY DEF DataTyped, StoreTyped, Progress, Rows
<1> HIDE DEF S, D
<1>2. PICK os \in Origins : SourceSnapshot(r, S) = SideOf(S, os)
  BY <1>1 DEF SourceSnapshot, SideOf, Origins
<1>3. PICK od \in Origins : DatabaseSnapshot(r, D) = SideOf(D, od)
  BY <1>1 DEF DatabaseSnapshot, SideOf, Origins, Baseline, Snapshot
<1> QED BY <1>1, <1>2, <1>3 DEF S, D

\* A decision keeps each record that both sides have, with dependencies one of
\* them has; where nothing is applied it is what was seen of the database.
LEMMA DesiredKeeps ==
  ASSUME DataTyped, NEW j \in Jobs, NEW r \in Records
  PROVE  /\ KeptRow(job[j].sourceSeen[r], job[j].dbSeen[r], Desired(j)[r])
         /\ Status(j, r) = "source-deleted"
              => job[j].sourceSeen[r] = Absent \/ job[j].dbSeen[r] = Absent
         /\ r \notin Applied(j) => Desired(j)[r] = job[j].dbSeen[r]
<1> DEFINE S == job[j].sourceSeen[r]
           D == job[j].dbSeen[r]
<1>1. /\ S \in Row \cup {Absent} /\ D \in Row \cup {Absent}
      /\ revision[r] \in Baseline \cup {NoRevision}
  BY SidesOf
<1>2. PICK os \in Origins, od \in Origins :
        SourceSnapshot(r, S) = SideOf(S, os) /\ DatabaseSnapshot(r, D) = SideOf(D, od)
  BY SidesOf
<1>3. /\ Desired(j)[r] = RowOf(RecordOutcome(revision[r], SideOf(S, os), SideOf(D, od)))
      /\ Status(j, r) = RecordStatus(revision[r], SideOf(S, os), SideOf(D, od))
  BY <1>2 DEF Desired, Status
<1>4. r \notin Applied(j) => Status(j, r) \notin Applying
  BY DEF Applied, Applying
<1> HIDE DEF S, D
<1>5. /\ KeptRow(S, D, RowOf(RecordOutcome(revision[r], SideOf(S, os), SideOf(D, od))))
      /\ RecordStatus(revision[r], SideOf(S, os), SideOf(D, od)) = "source-deleted"
           => S = Absent \/ D = Absent
      /\ LeavesRow(RecordStatus(revision[r], SideOf(S, os), SideOf(D, od)), D,
                   RowOf(RecordOutcome(revision[r], SideOf(S, os), SideOf(D, od))))
  BY <1>1, DecisionKeeps
<1>6. /\ KeptRow(S, D, Desired(j)[r])
      /\ Status(j, r) = "source-deleted" => S = Absent \/ D = Absent
      /\ r \notin Applied(j) => Desired(j)[r] = D
  BY <1>3, <1>4, <1>5 DEF LeavesRow
<1> QED BY <1>6 DEF S, D

\* Progress is made in the order of the phases.
LEMMA EarlyStep == ASSUME TypedInv, StageMatches, Early, [Next]_vars PROVE Early'
<1> USE DEF TypedInv
<1>0. IdleJob.phase = "idle" /\ IdleJob.kind = 0 /\ IdleJob.verdict = "none"
  BY DEF IdleJob
<1>1. CASE UNCHANGED job
  BY <1>1 DEF Early
<1>2. ASSUME NEW j \in Jobs, Others(j),
             \/ Ended(j, job'[j].verdict)
             \/ Advanced(j) /\ job[j].phase # "ending"
             \/ /\ job'[j].phase \in {"listing", "writing"} \/ job'[j].kind = 0
                /\ job'[j].verdict = "none"
      PROVE  Early'
  BY <1>2 DEF Early, Others, Ended, Advanced
<1>3. ASSUME NEW j \in Jobs, NEW mode, Request(j, mode) PROVE Early'
  BY <1>2, <1>3, RequestMoves
<1>4. ASSUME NEW j \in Jobs, Begin(j) PROVE Early'
  <2>1. job[j].phase = "requested"
    BY <1>4 DEF Begin, Mutex!Enter, StageMatches, Working
  <2> QED BY <1>2, <1>4, <2>1, BeginMoves DEF Early
<1>5. ASSUME NEW j \in Jobs, ReadSource(j) PROVE Early'
  BY <1>2, <1>5, ReadMoves DEF Early, Ended, ReadSource
<1>6. ASSUME NEW j \in Jobs, Reconcile(j) PROVE Early'
  BY <1>2, <1>6, ReconcileMoves DEF Early, Ended
<1>7. ASSUME NEW j \in Jobs, PersistBaselines(j) \/ Cleanup(j) PROVE Early'
  BY <1>2, <1>7, PersistMoves, CleanupMoves DEF Ended
<1>8. ASSUME NEW j \in Jobs, ListKind(j) PROVE Early'
  BY <1>2, <1>8, ListMoves DEF Early
<1>9. ASSUME NEW j \in Jobs, NEW r \in Records, WriteFile(j, r) PROVE Early'
  BY <1>2, <1>9, WriteMoves DEF Early
<1>10. ASSUME NEW j \in Jobs, End(j) \/ WriteFails(j) PROVE Early'
  BY <1>0, <1>2, <1>10, LeaveMoves DEF Ended
<1>11. CASE Crash
  BY <1>0, <1>11 DEF Crash, Early
<1>12. ASSUME NEW r \in Records,
              UpdateRecord(r) \/ UpdateDependencies(r) \/ CreateRecord(r)
                \/ OpenMailbox(r) \/ DeleteRecord(r) \/ EditFile(r)
       PROVE  UNCHANGED job
  BY <1>12 DEF UpdateRecord, UpdateDependencies, CreateRecord, OpenMailbox, DeleteRecord,
               EditFile, EditDatabase
<1>13. ASSUME NEW pair \in inserts, InsertDependencies(pair[1], pair[2]) PROVE UNCHANGED job
  BY <1>13 DEF InsertDependencies
<1>14. CASE UNCHANGED vars
  BY <1>1, <1>14 DEF vars
<1> QED BY <1>1, <1>3, <1>4, <1>5, <1>6, <1>7, <1>8, <1>9, <1>10, <1>11, <1>12, <1>13, <1>14
        DEF Next, JobStep

\* Nothing removes the workspace record, and without its file nothing is loaded.
LEMMA WorkspaceStep == ASSUME TypedInv, TypedInv', WorkspaceStays, [Next]_vars PROVE WorkspaceStays'
<1> USE DEF TypedInv, DataTyped, StoreTyped
<1> SUFFICES ASSUME NEW w \in OfKind("workspace")
             PROVE  /\ db'[w] # Absent
                    /\ \A j \in Jobs :
                         /\ job'[j].phase \in {"reading", "loaded"} => job'[j].dbSeen[w] # Absent
                         /\ job'[j].phase = "loaded" => job'[j].sourceSeen[w] # Absent
  BY DEF WorkspaceStays, OfKind
<1>0. /\ w \in Records /\ KindOf[w] = "workspace" /\ db[w] # Absent
      /\ \A j \in Jobs :
           /\ job[j].phase \in {"reading", "loaded"} => job[j].dbSeen[w] # Absent
           /\ job[j].phase = "loaded" => job[j].sourceSeen[w] # Absent
  BY DEF WorkspaceStays, OfKind
<1>1. ASSUME NEW r \in Records, UpdateRecord(r) PROVE db'[w] # Absent /\ UNCHANGED job
  <2>1. \E c \in Contents, s \in Scripts :
          db' = [db EXCEPT ![r] = [content |-> c, script |-> s, deps |-> db[r].deps]]
    BY <1>1 DEF UpdateRecord
  <2>2. db[r] \in Row
    BY <1>1 DEF UpdateRecord, Rows
  <2>3. \A c \in Contents, s \in Scripts : [content |-> c, script |-> s, deps |-> db[r].deps] # Absent
    BY <2>2, SentinelAssumptions DEF Row
  <2> QED BY <1>0, <1>1, <2>1, <2>3 DEF Rows, UpdateRecord, EditDatabase
<1>2. ASSUME NEW r \in Records,
             UpdateDependencies(r) \/ CreateRecord(r) \/ OpenMailbox(r)
      PROVE  db'[w] # Absent /\ UNCHANGED job
  <2>1. r # w
    BY <1>0, <1>2 DEF UpdateDependencies, CreateRecord, OpenMailbox
  <2>2. \A x \in Records \ {r} : db'[x] = db[x]
    BY <1>2 DEF UpdateDependencies, CreateRecord, OpenMailbox, Rows
  <2> QED BY <1>0, <1>2, <2>1, <2>2
          DEF UpdateDependencies, CreateRecord, OpenMailbox, EditDatabase
<1>3. ASSUME NEW r \in Records, DeleteRecord(r) PROVE db'[w] # Absent /\ UNCHANGED job
  <2>1. w # r /\ db'[w] = [db[w] EXCEPT !.deps = @ \ {r}] /\ UNCHANGED job
    BY <1>0, <1>3 DEF DeleteRecord, EditDatabase
  <2>2. db[w] \in Row
    BY <1>0 DEF Rows
  <2>3. [db[w] EXCEPT !.deps = @ \ {r}] \in Row
    BY <2>2 DEF Row
  <2> QED BY <2>1, <2>3, SentinelAssumptions
<1>4. ASSUME NEW r \in Records, EditFile(r) PROVE UNCHANGED <<db, job>>
  BY <1>4 DEF EditFile
<1>5. ASSUME NEW pair \in inserts, InsertDependencies(pair[1], pair[2])
      PROVE  db'[w] # Absent /\ UNCHANGED job
  <2>1. db' = db \/ (pair[1] # w /\ \A x \in Records \ {pair[1]} : db'[x] = db[x])
    BY <1>0, <1>5 DEF InsertDependencies, Rows
  <2> QED BY <1>0, <1>5, <2>1 DEF InsertDependencies
<1>6. ASSUME NEW j \in Jobs, NEW mode, Request(j, mode)
      PROVE  UNCHANGED db /\ Others(j) /\ job'[j].phase = "requested"
  BY <1>6, RequestMoves DEF store
<1>7. ASSUME NEW j \in Jobs, Begin(j)
      PROVE  UNCHANGED db /\ Others(j) /\ job'[j].phase = "reading" /\ job'[j].dbSeen = db
  BY <1>7, BeginMoves DEF store
<1>8. ASSUME NEW j \in Jobs, ReadSource(j)
      PROVE  /\ UNCHANGED db /\ Others(j) /\ job[j].phase = "reading"
             /\ \/ job'[j].phase = "ending"
                \/ job'[j].dbSeen = job[j].dbSeen /\ job'[j].sourceSeen[w] # Absent
  BY <1>0, <1>8, ReadMoves DEF store, Ended, Loadable, ReadSource
<1>9. ASSUME NEW j \in Jobs, Reconcile(j)
      PROVE  db'[w] # Absent /\ Others(j) /\ job'[j].phase \in {"ending", "saved"}
  <2>1. db' = db \/ db' = Desired(j)
    BY <1>9, ReconcileMoves
  <2>2. job[j].phase = "loaded" /\ Others(j) /\ job'[j].phase \in {"ending", "saved"}
    BY <1>9, ReconcileMoves DEF Ended
  <2>3. KeptRow(job[j].sourceSeen[w], job[j].dbSeen[w], Desired(j)[w])
    BY <1>0, DesiredKeeps
  <2>4. Desired(j)[w] # Absent
    BY <1>0, <2>2, <2>3 DEF KeptRow
  <2> QED BY <1>0, <2>1, <2>2, <2>4
<1>10. ASSUME NEW j \in Jobs, PersistBaselines(j) \/ Cleanup(j) \/ WriteFails(j)
       PROVE  UNCHANGED db /\ Others(j) /\ job'[j].phase \in {"ending", "listing"}
  BY <1>10, PersistMoves, CleanupMoves, LeaveMoves DEF store, Ended, Advanced
<1>11. ASSUME NEW j \in Jobs, NEW r \in Records, WriteFile(j, r)
       PROVE  UNCHANGED db /\ Others(j) /\ job'[j].phase = "writing"
  BY <1>11, WriteMoves
<1>12. ASSUME NEW j \in Jobs, ListKind(j)
       PROVE  db'[w] # Absent /\ Others(j) /\ job'[j].phase = "writing"
  BY <1>0, <1>12, ListMoves
<1>13. ASSUME NEW j \in Jobs, End(j)
       PROVE  UNCHANGED db /\ Others(j) /\ job'[j].phase = "idle"
  <2>1. IdleJob.phase = "idle"
    BY DEF IdleJob
  <2> QED BY <1>13, <2>1, LeaveMoves DEF store
<1>14. CASE Crash
  <2>1. \A j \in Jobs : job'[j].phase = "idle"
    BY <1>14 DEF Crash, IdleJob
  <2> QED BY <1>0, <1>14, <2>1 DEF Crash
<1>15. CASE UNCHANGED vars
  BY <1>0, <1>15 DEF vars, store
<1>16. CASE db'[w] # Absent /\ UNCHANGED job
  BY <1>0, <1>16
<1>17. ASSUME NEW j \in Jobs, db'[w] # Absent, Others(j),
              job'[j].phase \notin {"reading", "loaded"}
       PROVE  \A k \in Jobs :
                /\ job'[k].phase \in {"reading", "loaded"} => job'[k].dbSeen[w] # Absent
                /\ job'[k].phase = "loaded" => job'[k].sourceSeen[w] # Absent
  BY <1>0, <1>17 DEF Others
<1>18. ASSUME NEW j \in Jobs, Begin(j) \/ ReadSource(j)
       PROVE  \A k \in Jobs :
                /\ job'[k].phase \in {"reading", "loaded"} => job'[k].dbSeen[w] # Absent
                /\ job'[k].phase = "loaded" => job'[k].sourceSeen[w] # Absent
  BY <1>0, <1>7, <1>8, <1>18 DEF Others
<1> QED BY <1>0, <1>1, <1>2, <1>3, <1>4, <1>5, <1>6, <1>7, <1>8, <1>9, <1>10, <1>11, <1>12, <1>13,
           <1>14, <1>15, <1>16, <1>17, <1>18
        DEF Next, JobStep

\* The file of a record is what is written for its row, or gone like its row.
Written(r) == file[r] = IF db[r] = Absent THEN Absent ELSE PushedForm(r, db[r])

\* What a call that is pushing has behind it, and what it still has to do.
Pushing(p) ==
  /\ p.phase \in {"listing", "writing"} =>
       /\ p.kind \in 1..6
       /\ \A k \in 1..(p.kind - 1) : \A r \in OfKind(PushOrder[k]) : Written(r)
  /\ p.phase = "writing" =>
       /\ p.todo \subseteq OfKind(PushOrder[p.kind])
       /\ \A r \in OfKind(PushOrder[p.kind]) :
            /\ p.listed[r] = db[r]
            /\ r \in p.todo \/ db[r] = Absent \/ Written(r)
            /\ KindOf[r] = "smtp" => db[r] # Absent
  /\ p.phase = "ending" /\ p.verdict = "pushed" => \A r \in Records : Written(r)

\* This is so for every call at work.
Pushed == \A j \in Jobs : Working(j) => Pushing(job[j])

\* The kinds are those of the push order, each at one place.
LEMMA PushOrderFacts ==
  /\ \A r \in Records : \E k \in 1..6 : KindOf[r] = PushOrder[k]
  /\ \A k, m \in 1..6 : PushOrder[k] = PushOrder[m] => k = m
  /\ \A k \in 1..6 : PushOrder[k] = "smtp" => k = 6
<1>1. /\ PushOrder[1] = "workspace" /\ PushOrder[2] = "rest" /\ PushOrder[3] = "graphql"
      /\ PushOrder[4] = "sse" /\ PushOrder[5] = "environment" /\ PushOrder[6] = "smtp"
  BY DEF PushOrder
<1>2. \A r \in Records : KindOf[r] \in Kinds
  BY SyncAssumptions
<1>3. \A r \in Records : \E k \in 1..6 : KindOf[r] = PushOrder[k]
  BY <1>1, <1>2 DEF Kinds
<1>4. \A k \in 1..6 : k = 1 \/ k = 2 \/ k = 3 \/ k = 4 \/ k = 5 \/ k = 6
  OBVIOUS
<1>5. \A k, m \in 1..6 : PushOrder[k] = PushOrder[m] => k = m
  BY <1>1, <1>4
<1>6. \A k \in 1..6 : PushOrder[k] = "smtp" => k = 6
  BY <1>1, <1>4
<1> QED BY <1>3, <1>5, <1>6

\* Going on to the next kind passes over those that have no record.
LEMMA AdvancedPushes ==
  ASSUME NEW j \in Jobs, Advanced(j), job[j].kind \in 0..6,
         \A k \in 1..job[j].kind : \A r \in OfKind(PushOrder[k]) : Written(r)'
  PROVE  Pushing(job[j])'
<1>1. CASE KindsLeft(j) = {} /\ Ended(j, "pushed")
  <2>1. ASSUME NEW r \in Records PROVE Written(r)'
    <3>1. PICK k \in 1..6 : r \in OfKind(PushOrder[k])
      BY PushOrderFacts DEF OfKind
    <3>2. k \in 1..job[j].kind
      BY <1>1, <3>1 DEF KindsLeft
    <3> QED BY <3>1, <3>2
  <2> QED BY <1>1, <2>1 DEF Pushing, Ended
<1>2. CASE /\ job'[j].phase = "listing" /\ job'[j].kind \in KindsLeft(j)
           /\ \A m \in KindsLeft(j) : job'[j].kind <= m
  <2>1. job'[j].kind \in 1..6
    BY <1>2 DEF KindsLeft
  <2>2. ASSUME NEW k \in 1..(job'[j].kind - 1), NEW r \in OfKind(PushOrder[k]) PROVE Written(r)'
    <3>1. k \in 1..6 /\ k \notin KindsLeft(j)
      BY <1>2, <2>1
    <3>2. k \in 1..job[j].kind
      BY <3>1, <2>2 DEF KindsLeft
    <3> QED BY <2>2, <3>2
  <2> QED BY <1>2, <2>1, <2>2 DEF Pushing, OfKind
<1> QED BY <1>1, <1>2 DEF Advanced

\* A call that pushes leaves behind it only files that were written for their rows.
LEMMA PushedStep ==
  ASSUME CalmInv, CalmInv', Early, WorkspaceStays, Pushed, ~Interference, [Next]_vars
  PROVE  Pushed'
<1> USE DEF CalmInv, TypedInv
<1>1. CASE \A k \in Jobs : ~Working(k)'
  BY <1>1 DEF Pushed
<1>2. CASE UNCHANGED <<store, inserts>> /\ \A k \in Jobs : Working(k)' => job'[k] = job[k]
  <2>1. \A k \in Jobs : Working(k)' => Working(k)
    BY <1>2 DEF Working
  <2> QED BY <1>2, <2>1 DEF Pushed, Pushing, Written, store, OfKind
<1>3. ASSUME NEW j \in Jobs, \A k \in Jobs \ {j} : ~Working(k)', Pushing(job[j])'
      PROVE  Pushed'
  BY <1>3 DEF Pushed
<1>4. ASSUME NEW j \in Jobs, Begin(j)
      PROVE  Pushing(job[j])'
  BY <1>4, BeginMoves DEF Pushing
<1>5. ASSUME NEW j \in Jobs, Works(j), Working(j)
      PROVE  Pushing(job[j])'
  <2> DEFINE p == job[j]
             kind == PushOrder[p.kind]
  <2>1. Pushing(p)
    BY <1>5 DEF Pushed
  <2>2. CASE ReadSource(j) \/ Reconcile(j) \/ WriteFails(j)
    <3>1. job'[j].phase \in {"loaded", "saved", "ending"}
          /\ (job'[j].phase = "ending" => job'[j].verdict # "pushed")
      BY <2>2, ReadMoves, ReconcileMoves, LeaveMoves DEF Ended
    <3> QED BY <3>1 DEF Pushing
  <2>3. CASE PersistBaselines(j)
    <3>1. p.kind = 0
      BY <2>3, PersistMoves DEF Early
    <3>2. CASE Ended(j, "loaded")
      BY <3>2 DEF Ended, Pushing
    <3>3. CASE Advanced(j)
      BY <3>1, <3>3, AdvancedPushes
    <3> QED BY <2>3, <3>2, <3>3, PersistMoves
  <2>4. CASE ListKind(j)
    <3>1. /\ p.phase = "listing" /\ job'[j].phase = "writing" /\ job'[j].kind = p.kind
          /\ p.kind \in 1..6
      BY <2>1, <2>4, ListMoves DEF Pushing
    <3>2. \A k \in 1..(p.kind - 1) : \A r \in OfKind(PushOrder[k]) : Written(r)'
      <4> SUFFICES ASSUME NEW k \in 1..(p.kind - 1), NEW r \in OfKind(PushOrder[k])
                   PROVE  Written(r)'
        OBVIOUS
      <4>1. k \in 1..6 /\ r \in Records /\ KindOf[r] = PushOrder[k] /\ Written(r)
        BY <2>1, <3>1 DEF Pushing, OfKind
      <4>2. KindOf[r] # kind
        BY <3>1, <4>1, PushOrderFacts
      <4>3. file'[r] = file[r] /\ db'[r] = db[r]
        BY <2>4, <4>1, <4>2, ListMoves DEF OfKind
      <4> QED BY <4>1, <4>3 DEF Written
    <3>3. ASSUME NEW r \in OfKind(kind)
          PROVE  /\ job'[j].listed[r] = db'[r]
                 /\ r \in job'[j].todo \/ db'[r] = Absent
                 /\ KindOf[r] = "smtp" => db'[r] # Absent
      <4>1. r \in Records /\ KindOf[r] = kind
        BY DEF OfKind
      <4>2. FreshRow(DefaultContent) # Absent
        BY FreshTyped, SentinelAssumptions
      <4> QED BY <2>4, <4>1, <4>2, ListMoves
    <3>4. job'[j].todo \subseteq OfKind(kind)
      BY <2>4, ListMoves
    <3> QED BY <3>1, <3>2, <3>3, <3>4 DEF Pushing, OfKind
  <2>5. ASSUME NEW r \in Records, WriteFile(j, r) PROVE Pushing(job[j])'
    <3>1. /\ p.phase = "writing" /\ r \in p.todo /\ p.kind \in 1..6
          /\ r \in OfKind(kind) /\ p.listed[r] = db[r] /\ db[r] # Absent
      BY <2>1, <2>5, WriteMoves DEF Pushing, TodoListed
    <3>2. /\ job'[j].phase = "writing" /\ job'[j].kind = p.kind
          /\ job'[j].listed = p.listed /\ job'[j].todo = p.todo \ {r} /\ db' = db
          /\ \A x \in Records : file'[x] = IF x = r THEN PushedForm(r, p.listed[r]) ELSE file[x]
      BY <2>5, WriteMoves
    <3>3. Written(r)'
      BY <3>1, <3>2 DEF Written
    <3>4. \A x \in Records : Written(x) => Written(x)'
      <4>1. \A x \in Records : x # r /\ Written(x) => Written(x)'
        BY <3>2 DEF Written
      <4> QED BY <3>3, <4>1
    <3>5. \A k \in 1..(p.kind - 1) : \A x \in OfKind(PushOrder[k]) : Written(x)'
      BY <2>1, <3>1, <3>4 DEF Pushing, OfKind
    <3>6. ASSUME NEW x \in OfKind(kind)
          PROVE  /\ job'[j].listed[x] = db'[x]
                 /\ x \in job'[j].todo \/ db'[x] = Absent \/ Written(x)'
                 /\ KindOf[x] = "smtp" => db'[x] # Absent
      <4>1. /\ p.listed[x] = db[x]
            /\ x \in p.todo \/ db[x] = Absent \/ Written(x)
            /\ KindOf[x] = "smtp" => db[x] # Absent
            /\ x \in Records
        BY <2>1, <3>1 DEF Pushing, OfKind
      <4> QED BY <3>2, <3>3, <3>4, <4>1
    <3>7. job'[j].todo \subseteq OfKind(kind)
      BY <2>1, <3>1, <3>2 DEF Pushing
    <3> QED BY <3>1, <3>2, <3>5, <3>6, <3>7 DEF Pushing, OfKind
  <2>6. CASE Cleanup(j)
    <3>1. /\ p.phase = "writing" /\ p.todo = {} /\ p.kind \in 1..6 /\ db' = db
          /\ \A x \in Records : file'[x] = IF x \in StaleFiles(j, kind) THEN Absent ELSE file[x]
      BY <2>1, <2>6, CleanupMoves DEF Pushing
    <3>2. \A k \in 1..p.kind : \A r \in OfKind(PushOrder[k]) : Written(r)'
      <4> SUFFICES ASSUME NEW k \in 1..p.kind, NEW r \in OfKind(PushOrder[k])
                   PROVE  Written(r)'
        OBVIOUS
      <4>0. r \in Records /\ KindOf[r] = PushOrder[k] /\ k \in 1..6
        BY <3>1 DEF OfKind
      <4>1. CASE k # p.kind
        <5>1. Written(r)
          BY <2>1, <3>1, <4>1 DEF Pushing
        <5>2. r \notin StaleFiles(j, kind)
          BY <3>1, <4>0, <4>1, PushOrderFacts DEF StaleFiles, OfKind
        <5> QED BY <3>1, <4>0, <5>1, <5>2 DEF Written
      <4>2. CASE k = p.kind
        <5>1. /\ p.listed[r] = db[r]
              /\ db[r] = Absent \/ Written(r)
              /\ KindOf[r] = "smtp" => db[r] # Absent
          BY <2>1, <3>1, <4>2 DEF Pushing
        <5>2. KindOf[r] = "workspace" => db[r] # Absent
          BY <4>0 DEF WorkspaceStays, OfKind
        <5>3. r \in StaleFiles(j, kind) <=> db[r] = Absent
          BY <4>0, <4>2, <5>1, <5>2 DEF StaleFiles, OfKind
        <5> QED BY <3>1, <4>0, <5>1, <5>3 DEF Written
      <4> QED BY <4>1, <4>2
    <3> QED BY <2>6, <3>1, <3>2, AdvancedPushes, CleanupMoves
  <2> QED BY <1>5, <2>2, <2>3, <2>4, <2>5, <2>6 DEF Works
<1> QED BY <1>1, <1>2, <1>3, <1>4, <1>5, CalmSteps DEF CalmCase

\* The invariant of pushing: with what it needs of the earlier stages.
PushInv == CalmInv /\ Plain /\ Early /\ WorkspaceStays /\ Pushed

\* Nothing has been pushed of a workspace just imported.
LEMMA PushInvInit == Init => PushInv
<1> SUFFICES ASSUME Init PROVE PushInv
  OBVIOUS
<1>1. TypedInv /\ StageMatches
  BY TypedInvInit DEF Init, Mutex!Init, StageMatches, Working, IdleJob
<1>2. \A j \in Jobs : /\ ~Working(j) /\ job[j].phase = "idle"
                      /\ job[j].kind = 0 /\ job[j].verdict = "none"
                      /\ job[j].dbSeen = Nothing /\ job[j].sourceSeen = Nothing
  BY DEF Init, Working, IdleJob
<1>3. PlainRows(db) /\ PlainRows(Nothing) /\ file = db
  BY FreshPlain DEF PlainRows, Nothing, Init
<1>4. Plain
  BY <1>2, <1>3 DEF Plain
<1>5. WorkspaceStays
  <2>1. FreshRow(DefaultContent) # Absent
    BY FreshTyped, SentinelAssumptions
  <2> QED BY <1>2, <2>1, SyncAssumptions DEF Init, WorkspaceStays, OfKind
<1> QED BY <1>1, <1>2, <1>4, <1>5 DEF PushInv, CalmInv, Calm, Early, Pushed

\* Each part of the invariant of pushing is kept by every step.
LEMMA PushInvStep == ASSUME PushInv, ~Interference, [Next]_vars PROVE PushInv'
<1>1. TypedInv'
  BY TypedInvStep DEF PushInv, CalmInv
<1>2. CalmInv'
  BY <1>1, StageStep, CalmStep DEF PushInv, CalmInv
<1>3. Plain' /\ Early' /\ WorkspaceStays'
  BY <1>1, PlainStep, EarlyStep, WorkspaceStep DEF PushInv, CalmInv
<1>4. Pushed'
  BY <1>2, PushedStep DEF PushInv
<1> QED BY <1>2, <1>3, <1>4 DEF PushInv

\* The invariant of pushing holds at every moment.
LEMMA PushInvHolds == ASSUME ~Interference PROVE Spec => []PushInv
<1>1. PushInv /\ [Next]_vars => PushInv'
  BY PushInvStep
<1> QED BY <1>1, PushInvInit, PTL DEF Spec

\* Whatever its kind, the file of every record is the one written for its row when
\* a call reports that it has pushed.
THEOREM SyncPushWritesAll ==
  ASSUME ~Interference
  PROVE  Spec => [](\A j \in Jobs : job[j].phase = "ending" /\ job[j].verdict = "pushed"
                                      => \A r \in Records : Written(r))
<1>1. PushInv => \A j \in Jobs : job[j].phase = "ending" /\ job[j].verdict = "pushed"
                                   => \A r \in Records : Written(r)
  BY DEF PushInv, Pushed, Pushing, Working
<1> QED BY <1>1, PushInvHolds, PTL

\* The kinds whose files lose nothing: reading back what was written for a plain
\* row gives that row.
Lossless ==
  \A r \in Records : /\ KindOf[r] \notin {"rest", "graphql"}
                     /\ KindOf[r] = "workspace" => Scripts = {NoScript}

\* The file written for a plain row of such a kind holds the row.
LEMMA LosslessForms ==
  ASSUME Lossless, NEW r \in Records, NEW row \in Row, PlainRow(r, row)
  PROVE  PushedForm(r, row) = row
<1>1. KindOf[r] \in Kinds
  BY SyncAssumptions
<1>2. KindOf[r] \notin {"sse", "smtp"} => row.script = NoScript
  BY <1>1 DEF Lossless, PlainRow, Kinds, Row
<1>3. KindOf[r] # "sse" => row.deps = {}
  BY <1>1 DEF Lossless, PlainRow, Executable, Kinds
<1>4. row = [content |-> row.content, script |-> row.script, deps |-> row.deps]
  BY DEF Row
<1> QED BY <1>2, <1>3, <1>4 DEF PushedForm

\* Files that were written for their rows are the rows.
LEMMA WrittenAgree == ASSUME Lossless, DataTyped, Plain, \A r \in Records : Written(r) PROVE file = db
<1>1. ASSUME NEW r \in Records PROVE file[r] = db[r]
  <2>1. CASE db[r] = Absent
    BY <1>1, <2>1 DEF Written
  <2>2. CASE db[r] # Absent
    <3>1. db[r] \in Row /\ PlainRow(r, db[r])
      BY <2>2 DEF DataTyped, StoreTyped, Rows, Plain, PlainRows
    <3> QED BY <2>2, <3>1, LosslessForms DEF Written
  <2> QED BY <2>1, <2>2
<1> QED BY <1>1 DEF DataTyped, StoreTyped, Rows

\* The invariant of pushing says what a report of success says.
LEMMA PushInvAgrees == ASSUME Lossless PROVE PushInv => PushedFilesAgree
BY WrittenAgree DEF PushInv, CalmInv, TypedInv, Pushed, Pushing, Working, PushedFilesAgree

\* Where files lose nothing, they say what the rows say when a call has pushed.
THEOREM SyncPushedFilesAgree ==
  ASSUME ~Interference, Lossless PROVE Spec => []PushedFilesAgree
BY PushInvHolds, PushInvAgrees, PTL
-----------------------------------------------------------------------------
(***************************************************************************)
(* The history of the workspace.                                           *)
(***************************************************************************)
\* The state and its history.
everything == <<vars, historyVars>>

\* A call that has not decided yet, or was refused, has changed no row, no file and
\* no baseline since it began.
Untouched ==
  \A j \in Jobs : \/ job[j].phase \in {"reading", "loaded"}
                  \/ job[j].phase = "ending" /\ job[j].verdict \in {"invalid", "conflict"}
                  => store = found

\* No step of a call that nobody disturbs changes anything before its decision, and
\* none but a decision to accept lets it change anything later.
LEMMA UntouchedStep ==
  ASSUME CalmInv, CalmInv', Untouched, ~Interference, [HistoryNext]_everything
  PROVE  Untouched'
<1> USE DEF CalmInv, TypedInv
<1>1. [Next]_vars
  BY DEF HistoryNext, everything
<1>2. CalmCase
  BY <1>1, CalmSteps
<1>3. /\ (\E k \in Jobs : Working(k)) => found' = found
      /\ (\A k \in Jobs : ~Working(k)) => found' = store' \/ UNCHANGED everything
  BY DEF HistoryNext, RecordHistory, everything, historyVars
<1>4. CASE UNCHANGED everything
  BY <1>4 DEF everything, historyVars, vars, store, Untouched
<1>5. CASE \A k \in Jobs : ~Working(k)'
  BY <1>5 DEF Untouched, Working
<1>6. CASE UNCHANGED <<store, inserts>> /\ \A k \in Jobs : Working(k)' => job'[k] = job[k]
  <2>1. ASSUME NEW k \in Jobs, Working(k)' PROVE job'[k] = job[k] /\ found' = found
    BY <1>3, <1>6, <2>1 DEF Working
  <2> QED BY <1>6, <2>1 DEF Untouched, Working
<1>7. ASSUME NEW j \in Jobs, Others(j), \A k \in Jobs \ {j} : ~Working(k)', Begin(j)
      PROVE  Untouched'
  <2>1. job'[j] # job[j] /\ ~Working(j)
    <3>1. ~Working(j)
      BY <1>7 DEF Begin, Mutex!Enter, StageMatches
    <3>2. job'[j].phase = "reading"
      BY <1>7, BeginMoves
    <3> QED BY <3>1, <3>2 DEF Working
  <2>2. \A k \in Jobs : ~Working(k)
    BY <1>7, <2>1 DEF Others, Working
  <2>3. found' = store'
    BY <1>3, <2>1, <2>2 DEF everything, vars
  <2> QED BY <2>3 DEF Untouched
<1>8. ASSUME NEW j \in Jobs, Others(j), \A k \in Jobs \ {j} : ~Working(k)', Works(j), Working(j)
      PROVE  Untouched'
  <2>1. found' = found
    BY <1>3, <1>8
  <2>2. SUFFICES ASSUME \/ job'[j].phase \in {"reading", "loaded"}
                        \/ job'[j].phase = "ending" /\ job'[j].verdict \in {"invalid", "conflict"}
                 PROVE  job[j].phase \in {"reading", "loaded"} /\ store' = store
    BY <1>8, <2>1 DEF Untouched, Working
  <2>3. CASE ReadSource(j)
    BY <2>3, ReadMoves DEF ReadSource
  <2>4. CASE Reconcile(j)
    BY <2>2, <2>4, ReconcileMoves DEF Ended, store
  <2>5. CASE PersistBaselines(j)
    BY <2>2, <2>5, PersistMoves DEF Ended, Advanced
  <2>6. CASE ListKind(j)
    BY <2>2, <2>6, ListMoves
  <2>7. CASE \E r \in Records : WriteFile(j, r)
    BY <2>2, <2>7, WriteMoves
  <2>8. CASE Cleanup(j)
    BY <2>2, <2>8, CleanupMoves DEF Ended, Advanced
  <2>9. CASE WriteFails(j)
    BY <2>2, <2>9, LeaveMoves DEF Ended
  <2> QED BY <1>8, <2>3, <2>4, <2>5, <2>6, <2>7, <2>8, <2>9 DEF Works
<1> QED BY <1>2, <1>5, <1>6, <1>7, <1>8 DEF CalmCase

\* A refused job leaves all rows, files and baselines, both halves, as they were when it
\* began, when nobody edits while it works: also those of the records, and of the
\* files, that were not what it was refused for.
THEOREM SyncRefusalMutatesNothing ==
  ASSUME ~Interference PROVE HistorySpec => []RefusalMutatesNothing
<1>1. HistoryInit => CalmInv /\ Untouched
  <2>1. Init => StageMatches /\ \A j \in Jobs : job[j].phase = "idle"
    BY DEF Init, Mutex!Init, StageMatches, Working, IdleJob
  <2> QED BY <2>1, TypedInvInit DEF HistoryInit, CalmInv, Calm, Working, Untouched
<1>2. [HistoryNext]_everything => [Next]_vars
  BY DEF HistoryNext, everything
<1>3. CalmInv /\ Untouched /\ [HistoryNext]_everything => (CalmInv /\ Untouched)'
  <2> SUFFICES ASSUME CalmInv, Untouched, [HistoryNext]_everything PROVE CalmInv' /\ Untouched'
    OBVIOUS
  <2>1. CalmInv'
    BY <1>2, TypedInvStep, StageStep, CalmStep DEF CalmInv
  <2> QED BY <2>1, UntouchedStep
<1>4. Untouched => RefusalMutatesNothing
  BY DEF Untouched, RefusalMutatesNothing
<1> QED BY <1>1, <1>3, <1>4, PTL DEF HistorySpec, everything

\* The baseline of a settled record is that of what rows and files last had in
\* common, and while a call pushes the row is that, too.
Agrees(r) ==
  /\ revision[r] = NoRevision => agreed[r] = Absent
  /\ revision[r] # NoRevision =>
       /\ agreed[r] \in Row
       /\ revision[r].source = SourceSnapshot(r, agreed[r])
       /\ \E o \in Origins : revision[r].database = SnapshotOf(agreed[r], o)
  /\ ShowsOrigin(r) /\ revision[r] = NoRevision => db[r] = Absent
  /\ \A j \in Jobs : job[j].phase \in {"listing", "writing"} => db[r] = agreed[r]

\* The baselines of all settled records agree.
Agreement == settled \subseteq Records /\ \A r \in settled : Agrees(r)

\* Which steps store baselines, push and decide.
LEMMA HistorySteps ==
  ASSUME PushInv, PushInv', ~Interference, [Next]_vars, NEW j \in Jobs
  PROVE  /\ Stores(j) => PersistBaselines(j)
         /\ Pushes(j) => /\ PersistBaselines(j) \/ Cleanup(j)
                         /\ job'[j].phase = "ending"
         /\ Decides(j) => Reconcile(j)
<1> USE DEF PushInv, CalmInv, TypedInv
<1>1. Pushes(j) => job'[j].phase = "ending"
  BY DEF Pushes, Early
<1>2. Stores(j) \/ Pushes(j) \/ Decides(j) => Working(j)' /\ job'[j] # job[j]
  BY <1>1 DEF Stores, Pushes, Decides, Working
<1>3. Stores(j) \/ Pushes(j) \/ Decides(j) => Begin(j) \/ Works(j)
  BY <1>2, CalmSteps DEF CalmCase
<1>4. Begin(j) => /\ job'[j].phase = "reading" /\ job'[j].verdict = job[j].verdict
  BY BeginMoves
<1>5. ReadSource(j) => job[j].phase = "reading"
  BY DEF ReadSource
<1>6. Reconcile(j) => job[j].phase = "loaded" /\ ~Pushes(j)
  BY ReconcileMoves DEF Ended, Pushes
<1>7. PersistBaselines(j) => job[j].phase = "saved"
  BY PersistMoves
<1>8. ListKind(j) => job[j].phase = "listing" /\ job'[j].verdict = job[j].verdict
  BY ListMoves
<1>9. (\E r \in Records : WriteFile(j, r)) => job[j].phase = "writing" /\ job'[j].verdict = job[j].verdict
  BY WriteMoves
<1>10. Cleanup(j) => job[j].phase = "writing"
  BY CleanupMoves
<1>11. WriteFails(j) => job[j].phase = "writing" /\ job'[j].verdict = "failed"
  BY LeaveMoves DEF Ended
<1>12. ReadSource(j) /\ Pushes(j) => FALSE
  BY ReadMoves DEF Ended, Pushes
<1> QED BY <1>1, <1>3, <1>4, <1>5, <1>6, <1>7, <1>8, <1>9, <1>10, <1>11, <1>12
        DEF Works, Stores, Pushes, Decides

\* Nothing has happened to a workspace just imported.
LEMMA AgreementInit == HistoryInit => Agreement
<1> SUFFICES ASSUME HistoryInit, NEW r \in Records PROVE Agrees(r)
  BY DEF Agreement, HistoryInit
<1>1. \A j \in Jobs : job[j].phase = "idle"
  BY DEF HistoryInit, Init, IdleJob
<1>2. agreed = db /\ file = db
  BY DEF HistoryInit, Init
<1>3. CASE r \notin Imported
  BY <1>1, <1>2, <1>3 DEF HistoryInit, Init, Agrees
<1>4. CASE r \in Imported
  <2>1. db[r] = FreshRow(DefaultContent) /\ db[r] \in Row
    BY <1>4, FreshTyped DEF HistoryInit, Init
  <2>2. revision[r] = [source |-> SourceSnapshot(r, db[r]), database |-> SnapshotOf(db[r], Sqlite)]
    BY <1>2, <1>4 DEF HistoryInit, Init
  <2>3. revision[r] # NoRevision
    <3>1. DataTyped
      BY DataTypedInit DEF HistoryInit
    <3>2. SourceSnapshot(r, db[r]) \in Snapshot
      BY <2>1, SnapshotHolds, SentinelAssumptions DEF SourceSnapshot, Origins
    <3>3. SnapshotOf(db[r], Sqlite) \in Snapshot
      BY <2>1, SnapshotHolds DEF Origins
    <3> QED BY <2>2, <3>2, <3>3, SentinelAssumptions DEF Baseline
  <2> QED BY <1>1, <1>2, <2>1, <2>2, <2>3 DEF Agrees, Origins
<1> QED BY <1>3, <1>4

\* Storing the baselines of rows that equal their files settles them.
LEMMA StoringAgrees ==
  ASSUME PushInv, PushInv', Lossless, ~Interference, [Next]_vars, RecordHistory,
         NEW j \in Jobs, Stores(j), NEW r \in settled'
  PROVE  r \in Records /\ Agrees(r)'
<1> USE DEF PushInv, CalmInv, TypedInv, DataTyped, StoreTyped
<1>1. PersistBaselines(j)
  BY HistorySteps
<1>2. \A k \in Jobs : Stores(k) => k = j
  BY OneWorks DEF OneJobAtATime, Stores, Working
<1>3. r \in Records /\ job[j].sourceSeen[r] = db[r]
  BY <1>2 DEF RecordHistory
<1>4. db' = db /\ revision'[r] = NextBaseline(j, r)
  BY <1>1, <1>3, PersistMoves
<1>5. agreed'[r] = db[r]
  <2>1. CASE \E k \in Jobs : Pushes(k)
    <3>1. agreed' = file'
      BY <2>1 DEF RecordHistory
    <3>2. PICK k \in Jobs : Pushes(k)
      BY <2>1
    <3>3. file' = db'
      <4>1. job'[k].phase = "ending" /\ job'[k].verdict = "pushed"
        BY <3>2, HistorySteps DEF Pushes
      <4>2. PushedFilesAgree'
        BY PushInvAgrees, PTL
      <4> QED BY <4>1, <4>2 DEF PushedFilesAgree
    <3> QED BY <3>1, <3>3, <1>4
  <2>2. CASE ~\E k \in Jobs : Pushes(k)
    <3>1. (CHOOSE k \in Jobs : Stores(k)) = j
      BY <1>2
    <3>2. agreed' = job[j].sourceSeen
      BY <2>2, <3>1 DEF RecordHistory
    <3> QED BY <3>2, <1>3
  <2> QED BY <2>1, <2>2
<1>6. \A k \in Jobs : db'[r] = agreed'[r]
  BY <1>4, <1>5
<1>7. ~(ShowsOrigin(r) /\ db'[r] # Absent /\ revision'[r] = NoRevision)
  BY DEF RecordHistory
<1>8. CASE db[r] = Absent
  <2>1. revision'[r] = NoRevision /\ agreed'[r] = Absent
    BY <1>3, <1>4, <1>5, <1>8 DEF NextBaseline
  <2> QED BY <1>3, <1>6, <1>7, <2>1 DEF Agrees
<1>9. CASE db[r] # Absent
  <2>1. db[r] \in Row
    BY <1>3, <1>9 DEF Rows
  <2>2. revision'[r] = [source |-> SourceSnapshot(r, db[r]), database |-> DatabaseSnapshot(r, db[r])]
    BY <1>3, <1>4, <1>9 DEF NextBaseline
  <2>3. revision'[r] # NoRevision
    <3>1. SourceSnapshot(r, db[r]) \in Snapshot
      BY <1>9, <2>1, SnapshotHolds, SentinelAssumptions DEF SourceSnapshot, Origins
    <3>2. DatabaseSnapshot(r, db[r]) \in Snapshot
      BY <1>3, <1>9, <2>1, SnapshotHolds DEF DatabaseSnapshot, Origins, Baseline, Snapshot
    <3> QED BY <2>2, <3>1, <3>2, SentinelAssumptions DEF Baseline
  <2>4. SourceSnapshot(r, agreed'[r]) = SourceSnapshot(r, db[r])
    BY <1>5
  <2>5. \E o \in Origins : DatabaseSnapshot(r, db[r]) = SnapshotOf(agreed'[r], o)
    BY <1>3, <1>5, <1>9 DEF DatabaseSnapshot, Origins, Baseline, Snapshot
  <2> QED BY <1>3, <1>5, <1>6, <1>7, <2>1, <2>2, <2>3, <2>4, <2>5 DEF Agrees, SourceSnapshot
<1> QED BY <1>8, <1>9

\* A row stays what was agreed on until the call that pushes it has come to its end.
LEMMA PushingAgrees ==
  ASSUME PushInv, PushInv', ~Interference, [Next]_vars, RecordHistory, Agreement,
         NEW r \in settled, r \in settled', revision'[r] = revision[r],
         \A j \in Jobs : ~Stores(j),
         NEW k \in Jobs, job'[k].phase \in {"listing", "writing"}
  PROVE  db'[r] = agreed[r]
<1> USE DEF PushInv, CalmInv, TypedInv
<1>1. Working(k)'
  BY DEF Working
<1>2. r \in Records /\ Agrees(r)
  BY DEF Agreement
<1>3. CASE UNCHANGED <<store, inserts>> /\ job'[k] = job[k]
  BY <1>2, <1>3 DEF store, Agrees
<1>4. CASE Begin(k) \/ Works(k)
  <2>1. Begin(k) => job'[k].phase = "reading"
    BY BeginMoves
  <2>2. ReadSource(k) \/ Reconcile(k) \/ WriteFails(k)
          => job'[k].phase \notin {"listing", "writing"}
    BY ReadMoves, ReconcileMoves, LeaveMoves DEF Ended
  <2>3. ~PersistBaselines(k)
    <3>1. PersistBaselines(k) => Stores(k)
      BY PersistMoves DEF Stores, Ended, Advanced
    <3> QED BY <3>1
  <2>4. CASE ListKind(k)
    <3>1. job[k].phase = "listing" /\ db[r] = agreed[r]
      BY <1>2, <2>4, ListMoves DEF Agrees
    <3>2. CASE KindOf[r] = "smtp" /\ db[r] = Absent
      <4>1. revision[r] = NoRevision
        BY <1>2, <3>1, <3>2, SentinelAssumptions DEF Agrees
      <4>2. ~(ShowsOrigin(r) /\ db'[r] # Absent /\ revision'[r] = NoRevision)
        BY DEF RecordHistory
      <4> QED BY <3>1, <3>2, <4>1, <4>2 DEF ShowsOrigin
    <3>3. CASE ~(KindOf[r] = "smtp" /\ db[r] = Absent)
      <4>1. db'[r] = db[r]
        BY <1>2, <2>4, <3>3, ListMoves DEF OfKind
      <4> QED BY <3>1, <4>1
    <3> QED BY <3>2, <3>3
  <2>5. ASSUME NEW x \in Records, WriteFile(k, x) PROVE db'[r] = agreed[r]
    BY <1>2, <2>5, WriteMoves DEF Agrees
  <2>6. CASE Cleanup(k)
    BY <1>2, <2>6, CleanupMoves DEF Agrees
  <2> QED BY <1>4, <2>1, <2>2, <2>3, <2>4, <2>5, <2>6 DEF Works
<1>5. (UNCHANGED <<store, inserts>> /\ job'[k] = job[k]) \/ Begin(k) \/ Works(k)
  BY <1>1, CalmSteps DEF CalmCase
<1> QED BY <1>3, <1>4, <1>5

\* What the baselines say of the settled records is kept.
LEMMA AgreementStep ==
  ASSUME PushInv, PushInv', Lossless, ~Interference, Agreement, [HistoryNext]_everything
  PROVE  Agreement'
<1> USE DEF PushInv, CalmInv, TypedInv, DataTyped, StoreTyped
<1>1. CASE UNCHANGED everything
  BY <1>1 DEF everything, historyVars, vars, store, Agreement, Agrees
<1>2. ASSUME HistoryNext, NEW r \in settled' PROVE r \in Records /\ Agrees(r)'
  <2>1. Next /\ RecordHistory
    BY <1>2 DEF HistoryNext
  <2>2. CASE \E j \in Jobs : Stores(j)
    BY <2>1, <2>2, StoringAgrees
  <2>3. CASE \A j \in Jobs : ~Stores(j)
    <3>1. r \in settled /\ r \in Records /\ Agrees(r) /\ revision'[r] = revision[r]
      BY <2>1, <2>3 DEF RecordHistory, Agreement
    <3>2. ~(ShowsOrigin(r) /\ db'[r] # Absent /\ revision'[r] = NoRevision)
      BY <2>1 DEF RecordHistory
    <3>3. \A k \in Jobs : job'[k].phase \in {"listing", "writing"} => db'[r] = agreed[r]
      BY <2>1, <2>3, <3>1, PushingAgrees
    <3>4. agreed'[r] = agreed[r]
      <4>1. CASE \E k \in Jobs : Pushes(k)
        <5>1. PICK k \in Jobs : Pushes(k)
          BY <4>1
        <5>2. Cleanup(k) /\ job'[k].phase = "ending" /\ job'[k].verdict = "pushed"
          <6>1. ~PersistBaselines(k)
            BY <2>3, PersistMoves DEF Stores, Ended, Advanced
          <6> QED BY <2>1, <5>1, <6>1, HistorySteps DEF Pushes
        <5>3. file' = db'
          <6>1. PushedFilesAgree'
            BY PushInvAgrees, PTL
          <6> QED BY <5>2, <6>1 DEF PushedFilesAgree
        <5>4. db' = db /\ db[r] = agreed[r]
          BY <3>1, <5>2, CleanupMoves DEF Agrees
        <5>5. agreed' = file'
          BY <2>1, <4>1 DEF RecordHistory
        <5> QED BY <5>3, <5>4, <5>5
      <4>2. CASE \A k \in Jobs : ~Pushes(k)
        BY <2>1, <2>3, <4>2 DEF RecordHistory
      <4> QED BY <4>1, <4>2
    <3> QED BY <3>1, <3>2, <3>3, <3>4 DEF Agrees, SourceSnapshot
  <2> QED BY <2>2, <2>3
<1> QED BY <1>1, <1>2 DEF Agreement

\* What is decided of a settled record is right.
LEMMA SettledDecision ==
  ASSUME PushInv, Agreement, NEW j \in Jobs, job[j].phase = "loaded", NEW r \in settled
  PROVE  RightDecision(agreed[r], job[j].sourceSeen[r], job[j].dbSeen[r],
                       Status(j, r), Desired(j)[r])
<1> USE DEF PushInv, CalmInv, TypedInv
<1> DEFINE A == agreed[r]
           S == job[j].sourceSeen[r]
           D == job[j].dbSeen[r]
           base == revision[r]
           os == IF ShowsOrigin(r) /\ S # Absent THEN S ELSE Sqlite
           od == IF ShowsOrigin(r) /\ base # NoRevision THEN base.source.origin ELSE Sqlite
<1>1. r \in Records /\ Agrees(r)
  BY DEF Agreement
<1>2. /\ S \in Row \cup {Absent} /\ D \in Row \cup {Absent}
      /\ base \in Baseline \cup {NoRevision}
  BY <1>1, SidesOf
<1>3. D = db[r]
  BY DEF Calm, Working, Seen
<1>4. /\ base = NoRevision => A = Absent
      /\ base # NoRevision => A \in Row /\ base.source = SourceSnapshot(r, A)
                              /\ \E o \in Origins : base.database = SnapshotOf(A, o)
      /\ ShowsOrigin(r) /\ base = NoRevision => D = Absent
  BY <1>1, <1>3 DEF Agrees
<1>5. SourceSnapshot(r, S) = SideOf(S, os)
  BY DEF SourceSnapshot, SideOf
<1>6. DatabaseSnapshot(r, D) = SideOf(D, od)
  BY DEF DatabaseSnapshot, SideOf
<1>7. Status(j, r) = RecordStatus(base, SideOf(S, os), SideOf(D, od))
  BY <1>5, <1>6 DEF Status
<1>8. Desired(j)[r] = RowOf(RecordOutcome(base, SideOf(S, os), SideOf(D, od)))
  BY <1>1, <1>5, <1>6 DEF Desired
<1>9. base # NoRevision => /\ A # Absent
                           /\ base.source = SnapshotOf(A, IF ShowsOrigin(r) THEN A ELSE Sqlite)
  BY <1>4, SentinelAssumptions DEF SourceSnapshot
<1>10. base # NoRevision => od = IF ShowsOrigin(r) THEN A ELSE Sqlite
  BY <1>9 DEF SnapshotOf
<1>11. os \in Origins /\ od \in Origins
  BY <1>2, <1>4, <1>10 DEF Origins
<1>12. base # NoRevision => /\ base.source = SnapshotOf(A, od)
                            /\ S = A => os = od
  BY <1>9, <1>10
<1>13. base = NoRevision /\ S # Absent /\ D # Absent => os = od
  BY <1>4
<1> HIDE DEF A, S, D, base, os, od
<1>14. RightDecision(A, S, D, RecordStatus(base, SideOf(S, os), SideOf(D, od)),
                     RowOf(RecordOutcome(base, SideOf(S, os), SideOf(D, od))))
  BY <1>2, <1>4, <1>9, <1>11, <1>12, <1>13, DecisionIsRight
<1> QED BY <1>7, <1>8, <1>14 DEF A, S, D

\* A call that decides reconciles, and is refused for a conflict or replaces the
\* rows by those it wants.
LEMMA DecidingMoves ==
  ASSUME PushInv, PushInv', ~Interference, [Next]_vars, NEW j \in Jobs, Decides(j)
  PROVE  /\ job[j].phase = "loaded"
         /\ job'[j].phase = "saved" =>
              \A r \in Records : Status(j, r) # "conflict" /\ db'[r] = Desired(j)[r]
         /\ job'[j].verdict = "conflict" =>
              (\E r \in Records : InConflict(j, r)) \/ ~ReferencesResolveIn(Desired(j))
<1> USE DEF PushInv, CalmInv, TypedInv
<1>1. Reconcile(j)
  BY HistorySteps
<1>2. job[j].phase = "loaded" /\ job[j].verdict # "conflict"
  BY <1>1, ReconcileMoves DEF Early
<1>3. job[j].dbSeen = db
  BY <1>2 DEF Calm, Working, Seen
<1>4. ASSUME job'[j].phase = "saved", NEW r \in Records
      PROVE  Status(j, r) # "conflict" /\ db'[r] = Desired(j)[r]
  <2>1. /\ \A x \in Records : ~InConflict(j, x)
        /\ db' = IF Applied(j) = {} THEN db ELSE Desired(j)
    BY <1>1, <1>4, ReconcileMoves DEF Ended
  <2>2. r \notin Applied(j) => Desired(j)[r] = db[r]
    BY <1>3, DesiredKeeps
  <2> QED BY <2>1, <2>2 DEF InConflict
<1>5. job'[j].verdict = "conflict" =>
        (\E r \in Records : InConflict(j, r)) \/ ~ReferencesResolveIn(Desired(j))
  BY <1>1, <1>2, ReconcileMoves DEF Ended
<1> QED BY <1>2, <1>4, <1>5

\* References that a decision leaves open were open on one side, or name what the
\* other side lacks.
LEMMA DanglingExplained ==
  ASSUME DataTyped, NEW j \in Jobs, ~ReferencesResolveIn(Desired(j))
  PROVE  MayDangle(job[j].sourceSeen, job[j].dbSeen)
<1> DEFINE S == job[j].sourceSeen
           D == job[j].dbSeen
<1>0. PICK r \in Records :
        /\ Desired(j)[r] # Absent
        /\ \E d \in Desired(j)[r].deps : ~(d \in Present(Desired(j)) /\ KindOf[d] = KindOf[r])
  BY DEF ReferencesResolveIn, Present
<1>1. PICK d \in Desired(j)[r].deps : ~(d \in Present(Desired(j)) /\ KindOf[d] = KindOf[r])
  BY <1>0
<1>2. PICK rows \in {S, D} : rows[r] # Absent /\ d \in rows[r].deps
  BY <1>0, <1>1, DesiredKeeps DEF KeptRow
<1>3. d \in Records
  <2>1. rows[r] \in Row
    BY <1>2, SidesOf
  <2> QED BY <1>2, <2>1 DEF Row
<1>4. S[d] # Absent /\ D[d] # Absent => Desired(j)[d] # Absent
  BY <1>3, DesiredKeeps DEF KeptRow
<1>5. S[d] = Absent \/ D[d] = Absent \/ KindOf[d] # KindOf[r]
  BY <1>1, <1>3, <1>4 DEF Present
<1> QED BY <1>2, <1>5 DEF MayDangle

\* The invariant of the history.
HistoryInv == PushInv /\ Agreement

\* The history of a workspace nobody edits while a call works.
LEMMA HistoryInvHolds == ASSUME ~Interference, Lossless PROVE HistorySpec => []HistoryInv
<1>1. HistoryInit => HistoryInv
  BY AgreementInit, PushInvInit DEF HistoryInit, HistoryInv
<1>2. [HistoryNext]_everything => [Next]_vars
  BY DEF HistoryNext, everything
<1>3. HistoryInv /\ [HistoryNext]_everything => HistoryInv'
  <2> SUFFICES ASSUME HistoryInv, [HistoryNext]_everything PROVE HistoryInv'
    OBVIOUS
  <2>1. PushInv'
    BY <1>2, PushInvStep DEF HistoryInv
  <2> QED BY <1>2, <2>1, AgreementStep DEF HistoryInv
<1> QED BY <1>1, <1>3, PTL DEF HistorySpec, everything

\* Whatever either side changed since the two last agreed is in the row that a
\* reconciliation leaves, when nobody edits while a call works and files lose nothing.
THEOREM SyncSettledEditsSurvive ==
  ASSUME ~Interference, Lossless PROVE HistorySpec => SettledEditsSurvive
<1>1. ASSUME HistoryInv, HistoryInv', [HistoryNext]_everything PROVE Survive(settled)
  <2> SUFFICES ASSUME NEW j \in Jobs, Decides(j), job'[j].phase = "saved", NEW r \in settled
               PROVE  Incorporates(agreed[r], job[j].sourceSeen[r], job[j].dbSeen[r], db'[r])
    BY DEF Survive
  <2>1. [Next]_vars /\ PushInv /\ PushInv' /\ Agreement /\ r \in Records
    BY <1>1 DEF HistoryNext, everything, HistoryInv, Agreement
  <2>2. job[j].phase = "loaded" /\ Status(j, r) # "conflict" /\ db'[r] = Desired(j)[r]
    BY <2>1, DecidingMoves
  <2>3. RightDecision(agreed[r], job[j].sourceSeen[r], job[j].dbSeen[r],
                      Status(j, r), Desired(j)[r])
    BY <2>1, <2>2, SettledDecision
  <2> QED BY <2>2, <2>3 DEF RightDecision
<1> QED BY <1>1, HistoryInvHolds, PTL DEF HistorySpec, SettledEditsSurvive, everything

\* When both sides changed a settled record to different ends, no side is taken.
THEOREM SyncSettledRacesAreReported ==
  ASSUME ~Interference, Lossless PROVE HistorySpec => SettledRacesAreReported
<1>1. ASSUME HistoryInv, HistoryInv', [HistoryNext]_everything PROVE NoRaceDecided(settled)
  <2> SUFFICES ASSUME NEW j \in Jobs, Decides(j), job'[j].phase = "saved", NEW r \in settled
               PROVE  ~Race(agreed[r], job[j].sourceSeen[r], job[j].dbSeen[r])
    BY DEF NoRaceDecided
  <2>1. [Next]_vars /\ PushInv /\ PushInv' /\ Agreement /\ r \in Records
    BY <1>1 DEF HistoryNext, everything, HistoryInv, Agreement
  <2>2. job[j].phase = "loaded" /\ Status(j, r) # "conflict"
    BY <2>1, DecidingMoves
  <2>3. RightDecision(agreed[r], job[j].sourceSeen[r], job[j].dbSeen[r],
                      Status(j, r), Desired(j)[r])
    BY <2>1, <2>2, SettledDecision
  <2> QED BY <2>2, <2>3 DEF RightDecision
<1> QED BY <1>1, HistoryInvHolds, PTL DEF HistorySpec, SettledRacesAreReported, everything

\* A reconciliation of settled records is refused only over a race, a reference that
\* may dangle, or a mailbox whose file was removed.
THEOREM SyncSettledConflictsAreRaces ==
  ASSUME ~Interference, Lossless PROVE HistorySpec => SettledConflictsAreRaces
<1>1. ASSUME HistoryInv, HistoryInv', [HistoryNext]_everything PROVE ConflictsExplained(settled)
  <2> SUFFICES ASSUME NEW j \in Jobs, Decides(j), job'[j].verdict = "conflict",
                      Records \subseteq settled,
                      ~MayDangle(job[j].sourceSeen, job[j].dbSeen),
                      ~MailboxGone(job[j].sourceSeen)
               PROVE  \E r \in Records : Race(agreed[r], job[j].sourceSeen[r], job[j].dbSeen[r])
    BY DEF ConflictsExplained
  <2>1. [Next]_vars /\ PushInv /\ PushInv' /\ Agreement /\ DataTyped
    BY <1>1 DEF HistoryNext, everything, HistoryInv, PushInv, CalmInv, TypedInv
  <2>2. /\ job[j].phase = "loaded"
        /\ (\E r \in Records : InConflict(j, r)) \/ ~ReferencesResolveIn(Desired(j))
    BY <2>1, DecidingMoves
  <2>3. PICK r \in Records : InConflict(j, r)
    BY <2>1, <2>2, DanglingExplained
  <2>4. Status(j, r) = "conflict"
    <3>1. KindOf[r] = "smtp" => job[j].sourceSeen[r] # Absent
      BY DEF MailboxGone, OfKind
    <3>2. Status(j, r) = "source-deleted"
            => job[j].sourceSeen[r] = Absent \/ job[j].dbSeen[r] = Absent
      BY <2>1, DesiredKeeps
    <3> QED BY <2>3, <3>1, <3>2 DEF InConflict
  <2>5. r \in settled
    OBVIOUS
  <2>6. RightDecision(agreed[r], job[j].sourceSeen[r], job[j].dbSeen[r],
                      Status(j, r), Desired(j)[r])
    BY <2>1, <2>2, <2>5, SettledDecision
  <2> QED BY <2>4, <2>6 DEF RightDecision
<1> QED BY <1>1, HistoryInvHolds, PTL DEF HistorySpec, SettledConflictsAreRaces, everything
-----------------------------------------------------------------------------
(***************************************************************************)
(* The merge of nested values that the decision stands for (JsonMerge), for*)
(* trees of any depth.  Everything recursive in it recurs on a number, the *)
(* level of a value or the length of a path, and what is to be shown of all*)
(* numbers is shown by the least one that would be an exception.           *)
(***************************************************************************)
\* Pairs of numbers in order.
Less == {ss \in Nat \X Nat : ss[1] < ss[2]}

\* Numbers are well-founded.
LEMMA LessWF == IsWellFoundedOn(Less, Nat)
BY NatLessThanWellFounded DEF OpToRel, Less

\* A set of numbers that is not empty has a least one.
LEMMA LeastNumber ==
  ASSUME NEW T, T \subseteq Nat, T # {}
  PROVE  \E x \in T : \A y \in T : ~(y < x)
<1>1. \E x \in T : \A y \in T : <<y, x>> \notin Less
  BY LessWF, WFMin
<1> QED BY <1>1 DEF Less

\* Induction up to a bound, over a set instead of a predicate.
LEMMA InductTo ==
  ASSUME NEW m \in Nat, NEW S, 0 \in S, \A n \in 0..m - 1 : n \in S => n + 1 \in S
  PROVE  \A n \in 0..m : n \in S
<1> SUFFICES ASSUME (0..m) \ S # {} PROVE FALSE
  OBVIOUS
<1>1. PICK x \in (0..m) \ S : \A y \in (0..m) \ S : ~(y < x)
  <2>1. (0..m) \ S \subseteq Nat
    OBVIOUS
  <2> QED BY <2>1, LeastNumber
<1>2. x # 0 /\ x - 1 \in 0..m - 1 /\ x - 1 \in S
  BY <1>1
<1>3. (x - 1) + 1 \in S
  BY <1>2
<1> QED BY <1>1, <1>3

\* What the assumption says of the depth.
LEMMA DepthFacts == Depth \in Nat /\ Depth >= 1
BY JsonAssumptions

\* Levels satisfy the equation they are defined by.
LEMMA LevelDef ==
  \A n \in 0..Depth : Level[n] = IF n = 0 THEN Scalars ELSE Scalars \cup Objects(Level[n - 1])
<1> DEFINE Rule(g, n) == IF n = 0 THEN Scalars ELSE Scalars \cup Objects(g[n - 1])
           Solves(g, m) == g = [n \in 0..m |-> Rule(g, n)]
           S == {m \in Nat : \E g : Solves(g, m)}
<1>1. 0 \in S
  <2>1. Solves([n \in 0..0 |-> Scalars], 0)
    OBVIOUS
  <2> QED BY <2>1
<1>2. ASSUME NEW m \in 0..Depth - 1, m \in S
      PROVE  m + 1 \in S
  <2>1. PICK g : Solves(g, m)
    BY <1>2
  <2> DEFINE h == [n \in 0..m + 1 |-> Rule(g, n)]
  <2>2. Depth \in Nat /\ m \in Nat
    BY DepthFacts
  <2>3. \A n \in 0..m : h[n] = g[n]
    <3> SUFFICES ASSUME NEW n \in 0..m PROVE h[n] = g[n]
      OBVIOUS
    <3>1. n \in 0..m + 1
      BY <2>2
    <3>2. g[n] = Rule(g, n)
      BY <2>1
    <3> QED BY <3>1, <3>2
  <2>4. \A n \in 0..m + 1 : Rule(g, n) = Rule(h, n)
    <3> SUFFICES ASSUME NEW n \in 0..m + 1, n # 0 PROVE Rule(g, n) = Rule(h, n)
      OBVIOUS
    <3>1. n - 1 \in 0..m
      BY <2>2
    <3>2. g[n - 1] = h[n - 1]
      BY <2>3, <3>1
    <3> HIDE DEF h
    <3> QED BY <3>2
  <2>5. Solves(h, m + 1)
    BY <2>4
  <2>6. m + 1 \in Nat
    BY <2>2
  <2> HIDE DEF h, Solves
  <2> QED BY <2>5, <2>6
<1>3. Depth \in S
  <2>1. \A n \in 0..Depth : n \in S
    <3> HIDE DEF S
    <3> QED BY <1>1, <1>2, DepthFacts, InductTo
  <2> QED
    BY <2>1, DepthFacts
<1>4. Level = [n \in 0..Depth |-> Rule(Level, n)]
  BY <1>3 DEF Level
<1> QED BY <1>4

\* The lowest level.
LEMMA FirstLevel == Level[0] = Scalars
<1>1. 0 \in 0..Depth
  BY DepthFacts
<1> QED BY <1>1, LevelDef

\* A level, by the one below it.
LEMMA LevelBelow ==
  ASSUME NEW n \in 1..Depth
  PROVE  Level[n] = Scalars \cup Objects(Level[n - 1])
<1>1. n \in 0..Depth /\ n # 0
  BY DepthFacts
<1> QED BY <1>1, LevelDef

\* The same, seen from below.
LEMMA LevelAbove ==
  ASSUME NEW n \in 0..Depth - 1
  PROVE  Level[n + 1] = Scalars \cup Objects(Level[n])
<1>1. n + 1 \in 1..Depth /\ (n + 1) - 1 = n
  BY DepthFacts
<1>2. Level[n + 1] = Scalars \cup Objects(Level[(n + 1) - 1])
  BY <1>1, LevelBelow
<1> QED BY <1>1, <1>2

\* More values make more objects.
LEMMA ObjectsGrow ==
  ASSUME NEW A, NEW B, A \subseteq B
  PROVE  Objects(A) \subseteq Objects(B)
BY DEF Objects

\* A level holds the one below it.
LEMMA LevelGrows ==
  \A n \in 0..Depth - 1 : Level[n] \subseteq Level[n + 1]
<1> DEFINE S == {n \in Nat : n \in 0..Depth - 1 => Level[n] \subseteq Level[n + 1]}
<1>1. 0 \in S
  <2>1. 0 \in 0..Depth - 1 /\ 0 + 1 = 1
    BY DepthFacts
  <2>2. Level[0 + 1] = Scalars \cup Objects(Level[0])
    BY <2>1, LevelAbove
  <2> QED BY <2>2, FirstLevel
<1>2. ASSUME NEW n \in 0..Depth - 1, n \in S
      PROVE  n + 1 \in S
  <2> SUFFICES ASSUME n + 1 \in 0..Depth - 1 PROVE Level[n + 1] \subseteq Level[(n + 1) + 1]
    BY DepthFacts
  <2>1. Level[n] \subseteq Level[n + 1]
    BY <1>2
  <2>2. Objects(Level[n]) \subseteq Objects(Level[n + 1])
    BY <2>1, ObjectsGrow
  <2>3. Level[n + 1] = Scalars \cup Objects(Level[n])
    BY LevelAbove
  <2>4. Level[(n + 1) + 1] = Scalars \cup Objects(Level[n + 1])
    BY LevelAbove
  <2> QED BY <2>2, <2>3, <2>4
<1>3. \A n \in 0..Depth : n \in S
  <2> HIDE DEF S
  <2> QED BY <1>1, <1>2, DepthFacts, InductTo
<1> QED BY <1>3, DepthFacts

\* The values of a level, and nothing.
SidesAt(n) == Level[n] \cup {Undefined}

TriplesAt(n) == SidesAt(n) \X SidesAt(n) \X SidesAt(n)

\* So do the sides of a merge.
LEMMA SidesGrow ==
  \A n \in 1..Depth : SidesAt(n - 1) \subseteq SidesAt(n)
<1> SUFFICES ASSUME NEW n \in 1..Depth PROVE Level[n - 1] \subseteq Level[n]
  BY DEF SidesAt
<1>1. n - 1 \in 0..Depth - 1 /\ (n - 1) + 1 = n
  BY DepthFacts
<1> QED BY <1>1, LevelGrows

\* The lowest level has no objects.
LEMMA ScalarsAreLeaves ==
  \A v \in SidesAt(0) : ~IsRecord(v)
BY FirstLevel DEF SidesAt, IsRecord

\* What is neither a scalar nor missing is an object of values one level below.
LEMMA RecordsAreObjects ==
  ASSUME NEW n \in 1..Depth
  PROVE  /\ \A v \in SidesAt(n) : IsRecord(v) => v \in Objects(Level[n - 1])
         /\ \A v \in Objects(Level[n - 1]) : IsRecord(v) /\ v # Clash /\ v \in SidesAt(n)
<1>1. Level[n] = Scalars \cup Objects(Level[n - 1])
  BY LevelBelow
<1>2. Objects(Level[n - 1]) \cap (Scalars \cup {Undefined, Clash}) = {}
  <2>1. n - 1 \in 0..Depth - 1
    BY DepthFacts
  <2> QED BY <2>1, JsonAssumptions
<1> QED BY <1>1, <1>2 DEF SidesAt, IsRecord

\* No value is taken for a failed merge.
LEMMA NoSideIsClash ==
  \A n \in 0..Depth : Clash \notin SidesAt(n)
<1> SUFFICES ASSUME NEW n \in 0..Depth PROVE Clash \notin SidesAt(n)
  OBVIOUS
<1>1. CASE n = 0
  BY <1>1, FirstLevel, JsonAssumptions DEF SidesAt
<1>2. CASE n # 0
  <2>1. n \in 1..Depth
    BY <1>2, JsonAssumptions
  <2>2. Level[n] = Scalars \cup Objects(Level[n - 1])
    BY <2>1, LevelBelow
  <2> QED BY <2>1, <2>2, RecordsAreObjects, JsonAssumptions DEF SidesAt
<1> QED BY <1>1, <1>2

\* The values of the keys lie one level below.
LEMMA AtGoesDown ==
  ASSUME NEW n \in 1..Depth, NEW v \in SidesAt(n), NEW k
  PROVE  At(v, k) \in SidesAt(n - 1)
<1>1. CASE IsRecord(v) /\ k \in DOMAIN v
  <2>1. v \in Objects(Level[n - 1])
    BY <1>1, RecordsAreObjects
  <2> QED BY <1>1, <2>1 DEF Objects, At, SidesAt
<1>2. CASE ~(IsRecord(v) /\ k \in DOMAIN v)
  BY <1>2 DEF At, SidesAt
<1> QED BY <1>1, <1>2

\* What mergeValue makes of values of a level depends on its calls one level below.
LEMMA MergingIsLocal ==
  ASSUME NEW n \in 1..Depth, NEW g, NEW h, \A t \in TriplesAt(n - 1) : g[t] = h[t],
         NEW b \in SidesAt(n), NEW s \in SidesAt(n), NEW d \in SidesAt(n)
  PROVE  Merging(g, b, s, d) = Merging(h, b, s, d)
<1>1. \A k : g[<<At(b, k), At(s, k), At(d, k)>>] = h[<<At(b, k), At(s, k), At(d, k)>>]
  BY AtGoesDown DEF TriplesAt
<1> QED BY <1>1 DEF Merging

\* Hence there is a function that mergeValue calls for itself: the merge is what its
\* body says.
LEMMA MergeUnfolds ==
  \A b, s, d \in Sides : MergeValue[<<b, s, d>>] = Merging(MergeValue, b, s, d)
<1> DEFINE Solves(g, n) == g = [t \in TriplesAt(n) |-> Merging(g, t[1], t[2], t[3])]
           S == {n \in Nat : \E g : Solves(g, n)}
<1>1. 0 \in S
  <2> DEFINE h == [t \in TriplesAt(0) |-> Merging(<<>>, t[1], t[2], t[3])]
  <2>1. \A t \in TriplesAt(0) : Merging(<<>>, t[1], t[2], t[3]) = Merging(h, t[1], t[2], t[3])
    BY ScalarsAreLeaves DEF TriplesAt, Merging
  <2>2. Solves(h, 0)
    BY <2>1
  <2> QED BY <2>2
<1>2. ASSUME NEW n \in 0..Depth - 1, n \in S
      PROVE  n + 1 \in S
  <2>1. PICK g : Solves(g, n)
    BY <1>2
  <2> DEFINE h == [t \in TriplesAt(n + 1) |-> Merging(g, t[1], t[2], t[3])]
  <2>2. n + 1 \in 1..Depth /\ (n + 1) - 1 = n /\ n + 1 \in Nat
    BY DepthFacts
  <2>3. TriplesAt(n) \subseteq TriplesAt(n + 1)
    <3>1. SidesAt(n) \subseteq SidesAt(n + 1)
      BY <2>2, SidesGrow
    <3> QED BY <3>1 DEF TriplesAt
  <2>4. \A t \in TriplesAt(n) : g[t] = h[t]
    BY <2>1, <2>3
  <2>5. \A t \in TriplesAt(n + 1) : Merging(g, t[1], t[2], t[3]) = Merging(h, t[1], t[2], t[3])
    <3> SUFFICES ASSUME NEW t \in TriplesAt(n + 1)
                 PROVE  Merging(g, t[1], t[2], t[3]) = Merging(h, t[1], t[2], t[3])
      OBVIOUS
    <3>1. t[1] \in SidesAt(n + 1) /\ t[2] \in SidesAt(n + 1) /\ t[3] \in SidesAt(n + 1)
      BY DEF TriplesAt
    <3> HIDE DEF h
    <3> QED BY <2>2, <2>4, <3>1, MergingIsLocal
  <2>6. Solves(h, n + 1)
    BY <2>5
  <2> QED BY <2>2, <2>6
<1>3. Depth \in S
  <2>1. \A n \in 0..Depth : n \in S
    <3> HIDE DEF S
    <3> QED BY <1>1, <1>2, DepthFacts, InductTo
  <2> QED
    BY <2>1, DepthFacts
<1>4. TriplesAt(Depth) = Sides \X Sides \X Sides
  BY DEF TriplesAt, SidesAt, Sides
<1>5. MergeValue = [t \in Sides \X Sides \X Sides |-> Merging(MergeValue, t[1], t[2], t[3])]
  BY <1>3, <1>4 DEF MergeValue
<1> QED BY <1>5

\* Every level is within the domain of the merge.
LEMMA LevelsAreSides ==
  \A n \in 0..Depth : SidesAt(n) \subseteq Sides
<1> DEFINE S == {n \in Nat : n \in 0..Depth => SidesAt(Depth - n) \subseteq Sides}
<1>1. 0 \in S
  <2>1. Depth - 0 = Depth
    BY DepthFacts
  <2> QED BY <2>1 DEF SidesAt, Sides
<1>2. ASSUME NEW n \in 0..Depth - 1, n \in S
      PROVE  n + 1 \in S
  <2>1. Depth - n \in 1..Depth /\ (Depth - n) - 1 = Depth - (n + 1) /\ n \in 0..Depth /\ n + 1 \in Nat
    BY DepthFacts
  <2>2. SidesAt(Depth - n) \subseteq Sides
    BY <1>2, <2>1
  <2>3. SidesAt((Depth - n) - 1) \subseteq SidesAt(Depth - n)
    BY <2>1, SidesGrow
  <2> QED BY <2>1, <2>2, <2>3
<1>3. \A n \in 0..Depth : n \in S
  <2> HIDE DEF S
  <2> QED BY <1>1, <1>2, DepthFacts, InductTo
<1> SUFFICES ASSUME NEW n \in 0..Depth PROVE SidesAt(n) \subseteq Sides
  OBVIOUS
<1>4. Depth - n \in 0..Depth /\ Depth - (Depth - n) = n
  BY DepthFacts
<1>5. SidesAt(Depth - (Depth - n)) \subseteq Sides
  BY <1>3, <1>4
<1> QED BY <1>4, <1>5

\* The merge, written as an operator.
MergeOf(b, s, d) == MergeValue[<<b, s, d>>]

\* A merge with two equal sides.
LEMMA MergeOfEquals ==
  ASSUME NEW b \in Sides, NEW s \in Sides, NEW d \in Sides
  PROVE  /\ s = d => MergeOf(b, s, d) = s
         /\ b = s => MergeOf(b, s, d) = d
         /\ b = d => MergeOf(b, s, d) = s
<1>1. MergeOf(b, s, d) = Merging(MergeValue, b, s, d)
  BY MergeUnfolds DEF MergeOf
<1>2. CASE s = d
  BY <1>1, <1>2 DEF Merging
<1>3. CASE s # d /\ b = s
  BY <1>1, <1>3 DEF Merging
<1>4. CASE s # d /\ b # s
  BY <1>1, <1>4 DEF Merging
<1> QED BY <1>2, <1>3, <1>4

\* A merge of three different values that are not all objects.
LEMMA MergeOfLeaves ==
  ASSUME NEW b \in Sides, NEW s \in Sides, NEW d \in Sides, b # s, b # d, s # d,
         ~(IsRecord(b) /\ IsRecord(s) /\ IsRecord(d))
  PROVE  MergeOf(b, s, d) = Clash
BY MergeUnfolds DEF MergeOf, Merging

\* What the merge finds for a key.
MergeBelow(b, s, d, k) == MergeOf(At(b, k), At(s, k), At(d, k))

\* What the assumption says of Undefined.
LEMMA UndefinedIsASide == Undefined \in Sides /\ ~IsRecord(Undefined) /\ Undefined # Clash
BY JsonAssumptions DEF Sides, IsRecord

\* A merge of three different objects goes key by key.
LEMMA MergeOfObjects ==
  ASSUME NEW n \in 1..Depth, NEW b \in SidesAt(n), NEW s \in SidesAt(n), NEW d \in SidesAt(n),
         b # s, b # d, s # d, IsRecord(b), IsRecord(s), IsRecord(d),
         \A k \in Keys : MergeBelow(b, s, d, k) \in SidesAt(n - 1) \cup {Clash}
  PROVE  /\ (\E k \in Keys : MergeBelow(b, s, d, k) = Clash) => MergeOf(b, s, d) = Clash
         /\ (\A k \in Keys : MergeBelow(b, s, d, k) # Clash)
              => /\ MergeOf(b, s, d) \in Objects(Level[n - 1])
                 /\ \A k \in Keys : At(MergeOf(b, s, d), k) = MergeBelow(b, s, d, k)
<1> DEFINE fields == DOMAIN b \cup DOMAIN s \cup DOMAIN d
           merged == [k \in fields |-> MergeBelow(b, s, d, k)]
<1>1. b \in Sides /\ s \in Sides /\ d \in Sides
  <2>1. n \in 0..Depth
    BY DepthFacts
  <2> QED BY <2>1, LevelsAreSides
<1>2. fields \subseteq Keys
  <2>1. b \in Objects(Level[n - 1]) /\ s \in Objects(Level[n - 1]) /\ d \in Objects(Level[n - 1])
    BY RecordsAreObjects
  <2> QED BY <2>1 DEF Objects
<1>3. MergeOf(b, s, d) = IF \E k \in fields : merged[k] = Clash THEN Clash ELSE Defined(merged)
  <2>1. MergeOf(b, s, d) = Merging(MergeValue, b, s, d)
    BY <1>1, MergeUnfolds DEF MergeOf
  <2> QED BY <2>1 DEF Merging, MergeBelow, MergeOf
<1>4. \A k \in Keys \ fields : MergeBelow(b, s, d, k) = Undefined
  BY UndefinedIsASide, MergeOfEquals DEF MergeBelow, At
<1>5. ASSUME NEW k \in Keys, MergeBelow(b, s, d, k) = Clash
      PROVE  MergeOf(b, s, d) = Clash
  <2>1. k \in fields
    BY <1>4, <1>5, UndefinedIsASide
  <2> QED BY <1>3, <1>5, <2>1
<1>6. ASSUME \A k \in Keys : MergeBelow(b, s, d, k) # Clash
      PROVE  /\ MergeOf(b, s, d) \in Objects(Level[n - 1])
             /\ \A k \in Keys : At(MergeOf(b, s, d), k) = MergeBelow(b, s, d, k)
  <2> DEFINE kept == {k \in fields : MergeBelow(b, s, d, k) # Undefined}
             m == [k \in kept |-> MergeBelow(b, s, d, k)]
  <2>1. MergeOf(b, s, d) = m
    BY <1>2, <1>3, <1>6 DEF Defined
  <2>2. \A k \in kept : MergeBelow(b, s, d, k) \in Level[n - 1]
    BY <1>2, <1>6 DEF SidesAt
  <2>3. m \in [kept -> Level[n - 1]]
    <3> HIDE DEF kept
    <3> QED BY <2>2
  <2>4. m \in Objects(Level[n - 1])
    BY <1>2, <2>3 DEF Objects
  <2>5. IsRecord(m)
    BY <2>4, RecordsAreObjects
  <2>6. \A k \in Keys : At(m, k) = MergeBelow(b, s, d, k)
    BY <1>4, <2>5 DEF At
  <2> QED BY <2>1, <2>4, <2>6
<1> QED BY <1>5, <1>6

\* A merge of values of one level is one, if it does not fail.
MergesWithin(n) ==
  \A b, s, d \in SidesAt(n) : MergeOf(b, s, d) \in SidesAt(n) \cup {Clash}

\* Merging makes no value deeper.
LEMMA MergeStaysInLevel ==
  \A n \in 0..Depth : MergesWithin(n)
<1> DEFINE S == {n \in Nat : n \in 0..Depth => MergesWithin(n)}
<1>1. 0 \in S
  <2>1. 0 \in 0..Depth
    BY DepthFacts
  <2>2. SidesAt(0) \subseteq Sides
    BY <2>1, LevelsAreSides
  <2>3. MergesWithin(0)
    BY <2>2, ScalarsAreLeaves, MergeOfEquals, MergeOfLeaves DEF MergesWithin
  <2> QED BY <2>3
<1>2. ASSUME NEW n \in 0..Depth - 1, n \in S
      PROVE  n + 1 \in S
  <2>1. n + 1 \in 1..Depth /\ n + 1 \in 0..Depth /\ (n + 1) - 1 = n /\ n \in 0..Depth /\ n + 1 \in Nat
    BY DepthFacts
  <2>2. MergesWithin(n)
    BY <1>2, <2>1
  <2> DEFINE top == n + 1
  <2>3. ASSUME NEW b \in SidesAt(top), NEW s \in SidesAt(top), NEW d \in SidesAt(top)
        PROVE  MergeOf(b, s, d) \in SidesAt(top) \cup {Clash}
    <3>1. b \in Sides /\ s \in Sides /\ d \in Sides
      BY <2>1, LevelsAreSides
    <3>2. CASE s = d \/ b = s \/ b = d
      BY <3>1, <3>2, MergeOfEquals
    <3>3. CASE b # s /\ b # d /\ s # d /\ ~(IsRecord(b) /\ IsRecord(s) /\ IsRecord(d))
      BY <3>1, <3>3, MergeOfLeaves
    <3>4. CASE b # s /\ b # d /\ s # d /\ IsRecord(b) /\ IsRecord(s) /\ IsRecord(d)
      <4>1. \A k \in Keys : At(b, k) \in SidesAt(n) /\ At(s, k) \in SidesAt(n) /\ At(d, k) \in SidesAt(n)
        BY <2>1, AtGoesDown
      <4>2. \A k \in Keys : MergeBelow(b, s, d, k) \in SidesAt(top - 1) \cup {Clash}
        BY <2>1, <2>2, <4>1 DEF MergesWithin, MergeBelow
      <4>3. \A v \in Objects(Level[top - 1]) : v \in SidesAt(top)
        BY <2>1, RecordsAreObjects
      <4> HIDE DEF top
      <4>4. top \in 1..Depth
        BY <2>1 DEF top
      <4> QED BY <3>4, <4>2, <4>3, <4>4, MergeOfObjects
    <3> QED
      BY <3>2, <3>3, <3>4
  <2> QED BY <2>1, <2>3 DEF MergesWithin
<1>3. \A n \in 0..Depth : n \in S
  <2> HIDE DEF S
  <2> QED BY <1>1, <1>2, DepthFacts, InductTo
<1> QED BY <1>3

\* A path, and what is left of it after its first key.
LEMMA PathFacts ==
  ASSUME NEW n \in Nat, NEW p \in PathsTo(n)
  PROVE  /\ p \in Seq(Keys) /\ Len(p) \in 0..n
         /\ p # <<>> => n > 0 /\ p[1] \in Keys /\ Tail(p) \in PathsTo(n - 1)
<1>1. PICK m \in 0..n : p \in [1..m -> Keys]
  BY DEF PathsTo
<1>2. p \in Seq(Keys) /\ Len(p) = m
  BY <1>1
<1>3. ASSUME p # <<>>
      PROVE  n > 0 /\ p[1] \in Keys /\ Tail(p) \in PathsTo(n - 1)
  <2>1. m > 0
    BY <1>1, <1>2, <1>3
  <2>2. Tail(p) \in Seq(Keys) /\ Len(Tail(p)) = m - 1 /\ m - 1 \in 0..n - 1
    BY <1>1, <1>2, <1>3, <2>1
  <2>3. Tail(p) \in [1..m - 1 -> Keys]
    BY <2>2, LenProperties
  <2> QED BY <1>1, <2>1, <2>2, <2>3 DEF PathsTo
<1> QED BY <1>1, <1>2, <1>3

\* A path one level below is the rest of a path from above.
LEMMA LongerPath ==
  ASSUME NEW n \in Nat \ {0}, NEW k \in Keys, NEW q \in PathsTo(n - 1)
  PROVE  \E p \in PathsTo(n) : p # <<>> /\ p[1] = k /\ Tail(p) = q
<1> DEFINE p == <<k>> \o q
<1>1. q \in Seq(Keys) /\ Len(q) \in 0..n - 1
  BY PathFacts
<1>2. p \in Seq(Keys) /\ Len(p) = Len(q) + 1 /\ p[1] = k /\ p # <<>>
      /\ \A i \in 1..Len(q) : p[i + 1] = q[i]
  BY <1>1
<1> HIDE DEF p
<1>3. p \in [1..Len(q) + 1 -> Keys] /\ Len(q) + 1 \in 0..n
  BY <1>1, <1>2
<1>4. p \in PathsTo(n)
  BY <1>3 DEF PathsTo
<1>5. Tail(p) = q
  <2>1. Tail(p) \in Seq(Keys) /\ Len(Tail(p)) = Len(q)
        /\ \A i \in 1..Len(q) : Tail(p)[i] = p[i + 1]
    BY <1>1, <1>2
  <2>2. \A i \in 1..Len(q) : Tail(p)[i] = q[i]
    BY <1>2, <2>1
  <2> QED BY <1>1, <2>1, <2>2
<1> QED BY <1>2, <1>4, <1>5

\* The values met on a path.
IsWalk(walk, value, path) ==
  walk = [i \in 0..Len(path) |-> IF i = 0 THEN value ELSE At(walk[i - 1], path[i])]

\* Every path can be walked from every value.
LEMMA WalkExists ==
  ASSUME NEW value, NEW path \in Seq(Keys)
  PROVE  \E walk : IsWalk(walk, value, path)
<1> DEFINE Rule(g, i) == IF i = 0 THEN value ELSE At(g[i - 1], path[i])
           Solves(g, m) == g = [i \in 0..m |-> Rule(g, i)]
           S == {m \in Nat : \E g : Solves(g, m)}
<1>1. 0 \in S
  <2>1. Solves([i \in 0..0 |-> value], 0)
    OBVIOUS
  <2> QED BY <2>1
<1>2. ASSUME NEW m \in 0..Len(path) - 1, m \in S
      PROVE  m + 1 \in S
  <2>1. PICK g : Solves(g, m)
    BY <1>2
  <2> DEFINE h == [i \in 0..m + 1 |-> Rule(g, i)]
  <2>2. m \in Nat
    OBVIOUS
  <2>3. \A i \in 0..m : h[i] = g[i]
    <3> SUFFICES ASSUME NEW i \in 0..m PROVE h[i] = g[i]
      OBVIOUS
    <3>1. i \in 0..m + 1
      BY <2>2
    <3>2. g[i] = Rule(g, i)
      BY <2>1
    <3> QED BY <3>1, <3>2
  <2>4. \A i \in 0..m + 1 : Rule(g, i) = Rule(h, i)
    <3> SUFFICES ASSUME NEW i \in 0..m + 1, i # 0 PROVE Rule(g, i) = Rule(h, i)
      OBVIOUS
    <3>1. i - 1 \in 0..m
      BY <2>2
    <3>2. g[i - 1] = h[i - 1]
      BY <2>3, <3>1
    <3> HIDE DEF h
    <3> QED BY <3>2
  <2>5. Solves(h, m + 1)
    BY <2>4
  <2>6. m + 1 \in Nat
    BY <2>2
  <2> HIDE DEF h, Solves
  <2> QED BY <2>5, <2>6
<1>3. Len(path) \in S
  <2>1. \A m \in 0..Len(path) : m \in S
    <3> HIDE DEF S
    <3> QED BY <1>1, <1>2, InductTo
  <2> QED
    BY <2>1
<1> QED BY <1>3 DEF IsWalk

\* ValueAt is the end of a walk.
LEMMA ValueIsWalked ==
  ASSUME NEW value, NEW path \in Seq(Keys)
  PROVE  \E walk : IsWalk(walk, value, path) /\ ValueAt(value, path) = walk[Len(path)]
<1> DEFINE walk == CHOOSE w : IsWalk(w, value, path)
<1>1. IsWalk(walk, value, path)
  BY WalkExists
<1>2. ValueAt(value, path) = walk[Len(path)]
  BY DEF ValueAt, IsWalk
<1> QED BY <1>1, <1>2

\* At the end of the empty path is the value itself.
LEMMA ValueAtRoot ==
  \A value : ValueAt(value, <<>>) = value
<1> SUFFICES ASSUME NEW value PROVE ValueAt(value, <<>>) = value
  OBVIOUS
<1>1. <<>> \in Seq(Keys) /\ Len(<<>>) = 0
  OBVIOUS
<1>2. PICK walk : IsWalk(walk, value, <<>>) /\ ValueAt(value, <<>>) = walk[Len(<<>>)]
  BY <1>1, ValueIsWalked
<1>3. walk[0] = value
  BY <1>1, <1>2 DEF IsWalk
<1> QED BY <1>1, <1>2, <1>3

\* Walking a path is walking the rest of it from the value of its first key.
LEMMA ValueAtDown ==
  ASSUME NEW value, NEW path \in Seq(Keys), path # <<>>
  PROVE  ValueAt(value, path) = ValueAt(At(value, path[1]), Tail(path))
<1>1. Tail(path) \in Seq(Keys) /\ Len(path) \in Nat \ {0} /\ Len(Tail(path)) = Len(path) - 1
      /\ \A i \in 1..Len(Tail(path)) : Tail(path)[i] = path[i + 1]
  OBVIOUS
<1>2. PICK walk : IsWalk(walk, value, path) /\ ValueAt(value, path) = walk[Len(path)]
  BY ValueIsWalked
<1> DEFINE below == At(value, path[1])
<1>3. PICK rest : /\ IsWalk(rest, below, Tail(path))
                  /\ ValueAt(below, Tail(path)) = rest[Len(Tail(path))]
  BY <1>1, ValueIsWalked
<1> DEFINE S == {m \in Nat : m \in 0..Len(path) - 1 => walk[m + 1] = rest[m]}
<1>4. 0 \in S
  <2>1. rest[0] = below
    BY <1>1, <1>3 DEF IsWalk
  <2>2. walk[0] = value
    BY <1>1, <1>2 DEF IsWalk
  <2>3. walk[1] = At(walk[1 - 1], path[1])
    BY <1>1, <1>2 DEF IsWalk
  <2>4. walk[0 + 1] = rest[0]
    BY <2>1, <2>2, <2>3
  <2> QED BY <2>4
<1>5. ASSUME NEW m \in 0..(Len(path) - 1) - 1, m \in S
      PROVE  m + 1 \in S
  <2>1. m + 1 \in 0..Len(Tail(path)) /\ m \in 0..Len(path) - 1 /\ (m + 1) + 1 \in 0..Len(path)
        /\ (m + 1) - 1 = m /\ ((m + 1) + 1) - 1 = m + 1 /\ m + 1 # 0 /\ (m + 1) + 1 # 0 /\ m + 1 \in Nat
    BY <1>1
  <2>2. walk[m + 1] = rest[m]
    BY <1>5, <2>1
  <2>3. rest[m + 1] = At(rest[(m + 1) - 1], Tail(path)[m + 1])
    BY <1>3, <2>1 DEF IsWalk
  <2>4. walk[(m + 1) + 1] = At(walk[((m + 1) + 1) - 1], path[(m + 1) + 1])
    BY <1>2, <2>1 DEF IsWalk
  <2>5. Tail(path)[m + 1] = path[(m + 1) + 1]
    BY <1>1, <2>1
  <2>6. walk[(m + 1) + 1] = rest[m + 1]
    BY <2>1, <2>2, <2>3, <2>4, <2>5
  <2> QED BY <2>1, <2>6
<1>6. \A m \in 0..Len(path) - 1 : m \in S
  <2>1. Len(path) - 1 \in Nat
    BY <1>1
  <2> HIDE DEF S
  <2> QED BY <1>4, <1>5, <2>1, InductTo
<1>7. walk[(Len(path) - 1) + 1] = rest[Len(path) - 1]
  BY <1>1, <1>6
<1> QED BY <1>1, <1>2, <1>3, <1>7

-----------------------------------------------------------------------------
(***************************************************************************)
(* What a merge makes of the edits, at every path.                         *)
(***************************************************************************)
\* What the only side that changed a path has there.
Edited(b, s, d, p) == IF Leaf(s, p) = Leaf(b, p) THEN Leaf(d, p) ELSE Leaf(s, p)

FollowsEdits(b, s, d, n) ==
  MergeOf(b, s, d) # Clash => \A p \in PathsTo(n) : Leaf(MergeOf(b, s, d), p) = Edited(b, s, d, p)

FailsOnClashes(b, s, d, n) ==
  MergeOf(b, s, d) = Clash <=> \E p \in PathsTo(n) : ClashAt(b, s, d, p)

\* The leaf at the empty path.
LEMMA LeafRoot ==
  \A v : Leaf(v, <<>>) = IF IsRecord(v) THEN Undefined ELSE v
BY ValueAtRoot DEF Leaf

\* The leaf at a longer one.
LEMMA LeafDown ==
  ASSUME NEW v, NEW p \in Seq(Keys), p # <<>>
  PROVE  Leaf(v, p) = Leaf(At(v, p[1]), Tail(p))
BY ValueAtDown DEF Leaf

\* A clash at the empty path.
LEMMA ClashRoot ==
  \A b, s, d : ClashAt(b, s, d, <<>>) <=>
    b # s /\ b # d /\ s # d /\ ~(IsRecord(b) /\ IsRecord(s) /\ IsRecord(d))
BY ValueAtRoot DEF ClashAt

\* A clash at a longer one.
LEMMA ClashDown ==
  ASSUME NEW b, NEW s, NEW d, NEW p \in Seq(Keys), p # <<>>
  PROVE  ClashAt(b, s, d, p) <=> ClashAt(At(b, p[1]), At(s, p[1]), At(d, p[1]), Tail(p))
BY ValueAtDown DEF ClashAt

\* Two equal sides clash nowhere.
LEMMA NoClashOfEquals ==
  ASSUME NEW b, NEW s, NEW d, NEW p, b = s \/ b = d \/ s = d
  PROVE  ~ClashAt(b, s, d, p)
BY DEF ClashAt

\* What is to be shown, for two equal sides.
LEMMA EqualsFollow ==
  ASSUME NEW n \in Nat, NEW b \in Sides, NEW s \in Sides, NEW d \in Sides,
         s = d \/ b = s \/ b = d, Clash \notin Sides
  PROVE  FollowsEdits(b, s, d, n) /\ FailsOnClashes(b, s, d, n)
<1>1. MergeOf(b, s, d) # Clash
  BY MergeOfEquals
<1>2. \A p \in PathsTo(n) : ~ClashAt(b, s, d, p)
  BY NoClashOfEquals
<1>3. \A p \in PathsTo(n) : Leaf(MergeOf(b, s, d), p) = Edited(b, s, d, p)
  BY MergeOfEquals DEF Edited
<1> QED BY <1>1, <1>2, <1>3 DEF FollowsEdits, FailsOnClashes

\* The same for three values that are not all objects.
LEMMA LeavesClash ==
  ASSUME NEW n \in Nat, NEW b \in Sides, NEW s \in Sides, NEW d \in Sides, b # s, b # d, s # d,
         ~(IsRecord(b) /\ IsRecord(s) /\ IsRecord(d))
  PROVE  FollowsEdits(b, s, d, n) /\ FailsOnClashes(b, s, d, n)
<1>1. MergeOf(b, s, d) = Clash
  BY MergeOfLeaves
<1>2. <<>> \in PathsTo(n)
  <2>1. 0 \in 0..n /\ <<>> \in [1..0 -> Keys]
    OBVIOUS
  <2> QED BY <2>1 DEF PathsTo
<1>3. ClashAt(b, s, d, <<>>)
  BY ClashRoot
<1> QED BY <1>1, <1>2, <1>3 DEF FollowsEdits, FailsOnClashes

\* What the merge of two levels of values with one another owes to its edits.
MergeKeepsEdits(n) ==
  \A b, s, d \in SidesAt(n) : FollowsEdits(b, s, d, n) /\ FailsOnClashes(b, s, d, n)

\* The same for three objects, when it holds one level below.
LEMMA ObjectsFollow ==
  ASSUME NEW n \in 1..Depth, MergeKeepsEdits(n - 1),
         NEW b \in SidesAt(n), NEW s \in SidesAt(n), NEW d \in SidesAt(n), b # s, b # d, s # d,
         IsRecord(b), IsRecord(s), IsRecord(d)
  PROVE  FollowsEdits(b, s, d, n) /\ FailsOnClashes(b, s, d, n)
<1> DEFINE m == MergeOf(b, s, d)
<1>1. n \in Nat \ {0} /\ n - 1 \in Nat /\ n - 1 \in 0..Depth /\ n \in 0..Depth
  BY DepthFacts
<1>2. \A k : At(b, k) \in SidesAt(n - 1) /\ At(s, k) \in SidesAt(n - 1) /\ At(d, k) \in SidesAt(n - 1)
  BY AtGoesDown
<1>3. \A k \in Keys : MergeBelow(b, s, d, k) \in SidesAt(n - 1) \cup {Clash}
  BY <1>1, <1>2, MergeStaysInLevel DEF MergesWithin, MergeBelow
<1>4. \A k : /\ FollowsEdits(At(b, k), At(s, k), At(d, k), n - 1)
             /\ FailsOnClashes(At(b, k), At(s, k), At(d, k), n - 1)
  BY <1>2 DEF MergeKeepsEdits
<1>5. CASE \E k \in Keys : MergeBelow(b, s, d, k) = Clash
  <2>1. m = Clash
    BY <1>3, <1>5, MergeOfObjects
  <2>2. PICK k \in Keys : MergeBelow(b, s, d, k) = Clash
    BY <1>5
  <2>3. PICK q \in PathsTo(n - 1) : ClashAt(At(b, k), At(s, k), At(d, k), q)
    BY <1>4, <2>2 DEF FailsOnClashes, MergeBelow
  <2>4. PICK p \in PathsTo(n) : p # <<>> /\ p[1] = k /\ Tail(p) = q
    BY <1>1, LongerPath
  <2>5. p \in Seq(Keys)
    BY <1>1, PathFacts
  <2>6. ClashAt(b, s, d, p)
    BY <2>3, <2>4, <2>5, ClashDown
  <2> QED BY <2>1, <2>6 DEF FollowsEdits, FailsOnClashes
<1>6. CASE \A k \in Keys : MergeBelow(b, s, d, k) # Clash
  <2>1. m \in Objects(Level[n - 1]) /\ \A k \in Keys : At(m, k) = MergeBelow(b, s, d, k)
    BY <1>3, <1>6, MergeOfObjects
  <2>2. IsRecord(m) /\ m # Clash
    BY <2>1, RecordsAreObjects
  <2>3. ASSUME NEW p \in PathsTo(n), p # <<>>
        PROVE  Leaf(m, p) = Edited(b, s, d, p) /\ ~ClashAt(b, s, d, p)
    <3>1. p \in Seq(Keys) /\ p[1] \in Keys /\ Tail(p) \in PathsTo(n - 1)
      BY <1>1, <2>3, PathFacts
    <3> DEFINE k == p[1]
    <3>2. MergeBelow(b, s, d, k) # Clash
      BY <1>6, <3>1
    <3>3. Leaf(At(m, k), Tail(p)) = Edited(At(b, k), At(s, k), At(d, k), Tail(p))
      BY <1>4, <2>1, <3>1, <3>2 DEF FollowsEdits, MergeBelow
    <3>4. ~ClashAt(At(b, k), At(s, k), At(d, k), Tail(p))
      BY <1>4, <3>1, <3>2 DEF FailsOnClashes, MergeBelow
    <3>5. Leaf(m, p) = Edited(b, s, d, p)
      <4>1. \A v : Leaf(v, p) = Leaf(At(v, k), Tail(p))
        BY <2>3, <3>1, LeafDown
      <4> HIDE DEF m, k
      <4> QED BY <3>3, <4>1 DEF Edited
    <3> QED
      BY <2>3, <3>1, <3>4, <3>5, ClashDown
  <2>4. Leaf(m, <<>>) = Edited(b, s, d, <<>>) /\ ~ClashAt(b, s, d, <<>>)
    BY <2>2, LeafRoot, ClashRoot DEF Edited
  <2> QED BY <2>2, <2>3, <2>4 DEF FollowsEdits, FailsOnClashes
<1> QED BY <1>5, <1>6

\* The same for every level, by induction.
LEMMA MergesKeepEdits ==
  \A n \in 0..Depth : MergeKeepsEdits(n)
<1> DEFINE S == {n \in Nat : n \in 0..Depth => MergeKeepsEdits(n)}
<1>1. ASSUME NEW n \in 0..Depth, n = 0 \/ (n \in 1..Depth /\ MergeKeepsEdits(n - 1))
      PROVE  MergeKeepsEdits(n)
  <2>1. n \in Nat /\ SidesAt(n) \subseteq Sides
    BY DepthFacts, LevelsAreSides
  <2>2. Clash \notin Sides
    <3>1. Depth \in 0..Depth
      BY DepthFacts
    <3>2. Sides = SidesAt(Depth)
      BY DEF Sides, SidesAt
    <3> QED BY <3>1, <3>2, NoSideIsClash
  <2>3. ASSUME NEW b \in SidesAt(n), NEW s \in SidesAt(n), NEW d \in SidesAt(n)
        PROVE  FollowsEdits(b, s, d, n) /\ FailsOnClashes(b, s, d, n)
    <3>1. CASE s = d \/ b = s \/ b = d
      BY <2>1, <2>2, <3>1, EqualsFollow
    <3>2. CASE b # s /\ b # d /\ s # d /\ ~(IsRecord(b) /\ IsRecord(s) /\ IsRecord(d))
      BY <2>1, <3>2, LeavesClash
    <3>3. CASE b # s /\ b # d /\ s # d /\ IsRecord(b) /\ IsRecord(s) /\ IsRecord(d)
      <4>1. n # 0
        BY <3>3, ScalarsAreLeaves
      <4> QED BY <1>1, <3>3, <4>1, ObjectsFollow
    <3> QED
      BY <3>1, <3>2, <3>3
  <2> QED BY <2>3 DEF MergeKeepsEdits
<1>2. 0 \in S
  <2>1. 0 \in 0..Depth
    BY DepthFacts
  <2> QED BY <1>1, <2>1
<1>3. ASSUME NEW n \in 0..Depth - 1, n \in S
      PROVE  n + 1 \in S
  <2>1. n \in 0..Depth /\ n + 1 \in 1..Depth /\ n + 1 \in 0..Depth /\ (n + 1) - 1 = n /\ n + 1 \in Nat
    BY DepthFacts
  <2>2. MergeKeepsEdits((n + 1) - 1)
    BY <1>3, <2>1
  <2> QED BY <1>1, <2>1, <2>2
<1>4. \A n \in 0..Depth : n \in S
  <2> HIDE DEF S
  <2> QED BY <1>2, <1>3, DepthFacts, InductTo
<1> QED BY <1>4

\* The three trees are trees.
THEOREM MergeTypeCorrect == MergeSpec => []MergeTypeOK
<1>1. MergeInit => MergeTypeOK
  BY DEF MergeInit, MergeTypeOK
<1>2. MergeTypeOK /\ [MergeNext]_trees => MergeTypeOK'
  BY DEF MergeNext, EditSourceTree, EditDatabaseTree, trees, MergeTypeOK
<1> QED BY <1>1, <1>2, PTL DEF MergeSpec

\* The trees of the specification are on the highest level.
LEMMA TreesAreSides == Trees \subseteq SidesAt(Depth)
<1>1. Depth \in 1..Depth
  BY DepthFacts
<1> QED BY <1>1, LevelBelow DEF Trees, SidesAt

\* What was shown of all values, for the three trees.
LEMMA MergedKeepsEdits ==
  MergeTypeOK => /\ FollowsEdits(baseTree, sourceTree, databaseTree, Depth)
                 /\ FailsOnClashes(baseTree, sourceTree, databaseTree, Depth)
<1>1. Depth \in 0..Depth
  BY DepthFacts
<1> QED BY <1>1, TreesAreSides, MergesKeepEdits DEF MergeTypeOK, MergeKeepsEdits

\* A merge that succeeds holds at every path what the only side that changed it
\* put there.
THEOREM MergeFollowsEdits == MergeSpec => []LeavesFollowEdits
<1>1. MergeTypeOK => LeavesFollowEdits
  BY MergedKeepsEdits DEF LeavesFollowEdits, FollowsEdits, Edited, Merged, trees, MergeOf
<1> QED BY <1>1, MergeTypeCorrect, PTL

\* A merge fails exactly when both sides changed one path differently.
THEOREM MergeClashesAreReal == MergeSpec => []ClashesAreReal
<1>1. MergeTypeOK => ClashesAreReal
  BY MergedKeepsEdits DEF ClashesAreReal, FailsOnClashes, Merged, trees, MergeOf
<1> QED BY <1>1, MergeTypeCorrect, PTL

-----------------------------------------------------------------------------
(***************************************************************************)
(* The order of the two sides, a second merge, and the merge field by field.*)
(***************************************************************************)
\* The order of the two sides, when it does not matter for the keys.
LEMMA MergeCommutesAt ==
  ASSUME NEW b \in Sides, NEW s \in Sides, NEW d \in Sides,
         \A k : MergeBelow(b, s, d, k) = MergeBelow(b, d, s, k)
  PROVE  MergeOf(b, s, d) = MergeOf(b, d, s)
<1>1. CASE s = d \/ b = s \/ b = d
  BY <1>1, MergeOfEquals
<1>2. CASE b # s /\ b # d /\ s # d /\ ~(IsRecord(b) /\ IsRecord(s) /\ IsRecord(d))
  BY <1>2, MergeOfLeaves
<1>3. CASE b # s /\ b # d /\ s # d /\ IsRecord(b) /\ IsRecord(s) /\ IsRecord(d)
  <2> DEFINE fields == DOMAIN b \cup DOMAIN s \cup DOMAIN d
             merged == [k \in fields |-> MergeBelow(b, s, d, k)]
             swapped == [k \in DOMAIN b \cup DOMAIN d \cup DOMAIN s |-> MergeBelow(b, d, s, k)]
             Outcome(f) == IF \E k \in DOMAIN f : f[k] = Clash THEN Clash ELSE Defined(f)
  <2>1. MergeOf(b, s, d) = Outcome(merged)
    <3>1. MergeOf(b, s, d) = Merging(MergeValue, b, s, d)
      BY MergeUnfolds DEF MergeOf
    <3> QED BY <1>3, <3>1 DEF Merging, MergeBelow, MergeOf
  <2>2. MergeOf(b, d, s) = Outcome(swapped)
    <3>1. MergeOf(b, d, s) = Merging(MergeValue, b, d, s)
      BY MergeUnfolds DEF MergeOf
    <3> QED BY <1>3, <3>1 DEF Merging, MergeBelow, MergeOf
  <2>3. merged = swapped
    OBVIOUS
  <2> HIDE DEF merged, swapped, Outcome
  <2> QED BY <2>1, <2>2, <2>3
<1> QED BY <1>1, <1>2, <1>3

Commutes(n) == \A b, s, d \in SidesAt(n) : MergeOf(b, s, d) = MergeOf(b, d, s)

\* It does not matter on any level, by induction.
LEMMA LevelsCommute ==
  \A n \in 0..Depth : Commutes(n)
<1> DEFINE S == {n \in Nat : n \in 0..Depth => Commutes(n)}
<1>1. 0 \in S
  <2>1. 0 \in 0..Depth
    BY DepthFacts
  <2>2. SidesAt(0) \subseteq Sides
    BY <2>1, LevelsAreSides
  <2>3. ASSUME NEW b \in SidesAt(0), NEW s \in SidesAt(0), NEW d \in SidesAt(0)
        PROVE  MergeOf(b, s, d) = MergeOf(b, d, s)
    <3>1. CASE s = d \/ b = s \/ b = d
      BY <2>2, <3>1, MergeOfEquals
    <3>2. CASE b # s /\ b # d /\ s # d
      BY <2>2, <3>2, ScalarsAreLeaves, MergeOfLeaves
    <3> QED BY <3>1, <3>2
  <2> QED
    BY <2>3 DEF Commutes
<1>2. ASSUME NEW n \in 0..Depth - 1, n \in S
      PROVE  n + 1 \in S
  <2>1. n + 1 \in 1..Depth /\ n + 1 \in 0..Depth /\ (n + 1) - 1 = n /\ n \in 0..Depth /\ n + 1 \in Nat
    BY DepthFacts
  <2>2. Commutes(n)
    BY <1>2, <2>1
  <2>3. \A v \in SidesAt(n + 1) : v \in Sides /\ \A k : At(v, k) \in SidesAt(n)
    BY <2>1, LevelsAreSides, AtGoesDown
  <2>4. ASSUME NEW b \in SidesAt(n + 1), NEW s \in SidesAt(n + 1), NEW d \in SidesAt(n + 1)
        PROVE  MergeOf(b, s, d) = MergeOf(b, d, s)
    <3>1. \A k : MergeBelow(b, s, d, k) = MergeBelow(b, d, s, k)
      BY <2>2, <2>3 DEF Commutes, MergeBelow
    <3> QED BY <2>3, <3>1, MergeCommutesAt
  <2> QED
    BY <2>1, <2>4 DEF Commutes
<1>3. \A n \in 0..Depth : n \in S
  <2> HIDE DEF S
  <2> QED BY <1>1, <1>2, DepthFacts, InductTo
<1> QED BY <1>3

\* mergeValue: the merge does not depend on which of the two sides is the source.
THEOREM MergeCommutes ==
  \A b, s, d \in Sides : MergeValue[<<b, s, d>>] = MergeValue[<<b, d, s>>]
<1>1. Depth \in 0..Depth /\ SidesAt(Depth) = Sides
  BY DepthFacts DEF SidesAt, Sides
<1>2. Commutes(Depth)
  BY <1>1, LevelsCommute
<1>3. \A b, s, d \in Sides : MergeOf(b, s, d) = MergeOf(b, d, s)
  BY <1>1, <1>2 DEF Commutes
<1> QED BY <1>3 DEF MergeOf

\* Objects with the same values at every key are the same.
LEMMA SameObjects ==
  ASSUME NEW n \in 1..Depth, NEW v \in Objects(Level[n - 1]), NEW w \in Objects(Level[n - 1]),
         \A k \in Keys : At(v, k) = At(w, k)
  PROVE  v = w
<1>1. IsRecord(v) /\ IsRecord(w)
  BY RecordsAreObjects
<1>2. Undefined \notin Level[n - 1]
  <2>1. n - 1 \in 0..Depth
    BY DepthFacts
  <2>2. CASE n - 1 = 0
    BY <2>2, FirstLevel, JsonAssumptions
  <2>3. CASE n - 1 # 0
    <3>1. n - 1 \in 1..Depth
      BY <2>1, <2>3
    <3>2. Level[n - 1] = Scalars \cup Objects(Level[(n - 1) - 1])
      BY <3>1, LevelBelow
    <3>3. \A u \in Objects(Level[(n - 1) - 1]) : IsRecord(u)
      BY <3>1, RecordsAreObjects
    <3> QED BY <3>2, <3>3, UndefinedIsASide, JsonAssumptions
  <2> QED
    BY <2>2, <2>3
<1>3. PICK f \in SUBSET Keys : v \in [f -> Level[n - 1]]
  BY DEF Objects
<1>4. PICK g \in SUBSET Keys : w \in [g -> Level[n - 1]]
  BY DEF Objects
<1>5. f = g
  BY <1>1, <1>2, <1>3, <1>4 DEF At
<1>6. \A k \in f : v[k] = w[k]
  BY <1>1, <1>3, <1>4, <1>5 DEF At
<1> QED BY <1>3, <1>4, <1>5, <1>6

\* A merge that gives the base back had nothing to merge.
GivesBase(b, s, d) == MergeOf(b, s, d) = b => s = b /\ d = b

\* The same merge again, after one of the sides has taken its outcome.
Repeats(b, s, d) ==
  MergeOf(b, s, d) # Clash => MergeOf(b, s, MergeOf(b, s, d)) = MergeOf(b, s, d)

Settles(n) == \A b, s, d \in SidesAt(n) : GivesBase(b, s, d) /\ Repeats(b, s, d)

\* The two facts for three objects, when they hold one level below.
LEMMA ObjectsSettle ==
  ASSUME NEW n \in 1..Depth, Settles(n - 1),
         NEW b \in SidesAt(n), NEW s \in SidesAt(n), NEW d \in SidesAt(n), b # s, b # d, s # d,
         IsRecord(b), IsRecord(s), IsRecord(d)
  PROVE  GivesBase(b, s, d) /\ Repeats(b, s, d)
<1> DEFINE m == MergeOf(b, s, d)
<1>1. n - 1 \in 0..Depth /\ n \in 0..Depth
  BY DepthFacts
<1>2. \A k : At(b, k) \in SidesAt(n - 1) /\ At(s, k) \in SidesAt(n - 1) /\ At(d, k) \in SidesAt(n - 1)
  BY AtGoesDown
<1>3. \A k \in Keys : MergeBelow(b, s, d, k) \in SidesAt(n - 1) \cup {Clash}
  BY <1>1, <1>2, MergeStaysInLevel DEF MergesWithin, MergeBelow
<1>4. \A k : GivesBase(At(b, k), At(s, k), At(d, k)) /\ Repeats(At(b, k), At(s, k), At(d, k))
  BY <1>2 DEF Settles
<1>5. b # Clash
  BY <1>1, NoSideIsClash
<1>6. CASE \E k \in Keys : MergeBelow(b, s, d, k) = Clash
  <2>1. m = Clash
    BY <1>3, <1>6, MergeOfObjects
  <2> QED BY <1>5, <2>1 DEF GivesBase, Repeats
<1>7. CASE \A k \in Keys : MergeBelow(b, s, d, k) # Clash
  <2>1. m \in Objects(Level[n - 1]) /\ \A k \in Keys : At(m, k) = MergeBelow(b, s, d, k)
    BY <1>3, <1>7, MergeOfObjects
  <2>2. IsRecord(m) /\ m \in SidesAt(n)
    BY <2>1, RecordsAreObjects
  <2>3. b \in Objects(Level[n - 1]) /\ s \in Objects(Level[n - 1])
    BY RecordsAreObjects
  <2>4. m # b
    <3>1. SUFFICES ASSUME m = b PROVE b = s
      OBVIOUS
    <3>2. \A k \in Keys : At(b, k) = At(s, k)
      <4> HIDE DEF m
      <4> QED BY <1>4, <2>1, <3>1 DEF GivesBase, MergeBelow
    <3> QED
      BY <2>3, <3>2, SameObjects
  <2>5. MergeOf(b, s, m) = m
    <3>1. CASE s = m
      <4>1. b \in Sides /\ s \in Sides /\ m \in Sides
        BY <1>1, <2>2, LevelsAreSides
      <4> QED BY <3>1, <4>1, MergeOfEquals
    <3>2. CASE s # m
      <4>1. \A k \in Keys : MergeBelow(b, s, m, k) = At(m, k)
        <5> HIDE DEF m
        <5> QED BY <1>4, <1>7, <2>1 DEF Repeats, MergeBelow
      <4>2. \A k \in Keys : MergeBelow(b, s, m, k) # Clash
        BY <1>7, <2>1, <4>1
      <4>3. \A k \in Keys : MergeBelow(b, s, m, k) \in SidesAt(n - 1) \cup {Clash}
        BY <1>3, <2>1, <4>1
      <4>4. /\ MergeOf(b, s, m) \in Objects(Level[n - 1])
            /\ \A k \in Keys : At(MergeOf(b, s, m), k) = MergeBelow(b, s, m, k)
        <5> HIDE DEF m
        <5> QED BY <2>2, <2>4, <3>2, <4>2, <4>3, MergeOfObjects
      <4>5. \A k \in Keys : At(MergeOf(b, s, m), k) = At(m, k)
        BY <4>1, <4>4
      <4> QED BY <2>1, <4>4, <4>5, SameObjects
    <3> QED
      BY <3>1, <3>2
  <2> QED BY <2>4, <2>5 DEF GivesBase, Repeats
<1> QED BY <1>6, <1>7

\* The two facts for every level, by induction.
LEMMA LevelsSettle ==
  \A n \in 0..Depth : Settles(n)
<1> DEFINE S == {n \in Nat : n \in 0..Depth => Settles(n)}
<1>1. ASSUME NEW n \in 0..Depth, n = 0 \/ (n \in 1..Depth /\ Settles(n - 1))
      PROVE  Settles(n)
  <2>1. SidesAt(n) \subseteq Sides /\ Clash \notin SidesAt(n)
    BY LevelsAreSides, NoSideIsClash
  <2>2. ASSUME NEW b \in SidesAt(n), NEW s \in SidesAt(n), NEW d \in SidesAt(n)
        PROVE  GivesBase(b, s, d) /\ Repeats(b, s, d)
    <3>1. CASE s = d \/ b = s \/ b = d
      BY <2>1, <3>1, MergeOfEquals DEF GivesBase, Repeats
    <3>2. CASE b # s /\ b # d /\ s # d /\ ~(IsRecord(b) /\ IsRecord(s) /\ IsRecord(d))
      BY <2>1, <3>2, MergeOfLeaves DEF GivesBase, Repeats
    <3>3. CASE b # s /\ b # d /\ s # d /\ IsRecord(b) /\ IsRecord(s) /\ IsRecord(d)
      <4>1. n # 0
        BY <3>3, ScalarsAreLeaves
      <4> QED BY <1>1, <3>3, <4>1, ObjectsSettle
    <3> QED
      BY <3>1, <3>2, <3>3
  <2> QED BY <2>2 DEF Settles
<1>2. 0 \in S
  <2>1. 0 \in 0..Depth
    BY DepthFacts
  <2> QED BY <1>1, <2>1
<1>3. ASSUME NEW n \in 0..Depth - 1, n \in S
      PROVE  n + 1 \in S
  <2>1. n \in 0..Depth /\ n + 1 \in 1..Depth /\ n + 1 \in 0..Depth /\ (n + 1) - 1 = n /\ n + 1 \in Nat
    BY DepthFacts
  <2>2. Settles((n + 1) - 1)
    BY <1>3, <2>1
  <2> QED BY <1>1, <2>1, <2>2
<1>4. \A n \in 0..Depth : n \in S
  <2> HIDE DEF S
  <2> QED BY <1>2, <1>3, DepthFacts, InductTo
<1> QED BY <1>4

\* mergeValue: a merge repeated with the same base, after one of the two sides
\* has taken its outcome, has that outcome again: nothing is lost when the new
\* baseline could not be stored.
THEOREM MergeAgain ==
  \A b, s, d \in Sides : LET m == MergeValue[<<b, s, d>>] IN
    m # Clash => MergeValue[<<b, s, m>>] = m /\ MergeValue[<<b, m, d>>] = m
<1> SUFFICES ASSUME NEW b \in Sides, NEW s \in Sides, NEW d \in Sides, MergeOf(b, s, d) # Clash
             PROVE  /\ MergeOf(b, s, MergeOf(b, s, d)) = MergeOf(b, s, d)
                    /\ MergeOf(b, MergeOf(b, s, d), d) = MergeOf(b, s, d)
  BY DEF MergeOf
<1>1. Depth \in 0..Depth /\ SidesAt(Depth) = Sides
  BY DepthFacts DEF SidesAt, Sides
<1>2. \A x, y \in Sides : Repeats(b, x, y) /\ MergeOf(b, x, y) = MergeOf(b, y, x)
                          /\ MergeOf(b, x, y) \in Sides \cup {Clash}
  BY <1>1, LevelsSettle, LevelsCommute, MergeStaysInLevel DEF Settles, Commutes, MergesWithin
<1>3. MergeOf(b, s, MergeOf(b, s, d)) = MergeOf(b, s, d)
  BY <1>2 DEF Repeats
<1>4. MergeOf(b, d, MergeOf(b, d, s)) = MergeOf(b, d, s)
  BY <1>2 DEF Repeats
<1> QED BY <1>2, <1>3, <1>4

\* reconcileRecord: a record whose outcome was stored, and its new baseline was not,
\* is decided the same way again: a crash between the two writes costs nothing, if
\* both halves of the old baseline are the same.
THEOREM DecisionRepeats ==
  ASSUME NEW F, NEW V, Absent \notin [F -> V],
         NEW source \in [F -> V] \cup {Absent}, NEW database \in [F -> V] \cup {Absent},
         NEW baseline, baseline # NoRevision => /\ baseline.source \in [F -> V] \cup {Absent}
                                                /\ baseline.database = baseline.source,
         RecordStatus(baseline, source, database) # "conflict"
  PROVE  LET outcome == RecordOutcome(baseline, source, database) IN
           /\ RecordStatus(baseline, source, outcome) # "conflict"
           /\ RecordOutcome(baseline, source, outcome) = outcome
<1> DEFINE base == MergeBase(baseline)
           status == RecordStatus(baseline, source, database)
           outcome == RecordOutcome(baseline, source, database)
           merged == MergeFields(base, source, database)
<1> SUFFICES /\ RecordStatus(baseline, source, outcome) # "conflict"
             /\ RecordOutcome(baseline, source, outcome) = outcome
  OBVIOUS
<1>1. base \in [F -> V] \cup {Absent}
  BY DEF MergeBase
<1>2. ASSUME outcome = database
      PROVE  /\ RecordStatus(baseline, source, outcome) # "conflict"
             /\ RecordOutcome(baseline, source, outcome) = outcome
  BY <1>2
<1>3. ASSUME outcome = source
      PROVE  /\ RecordStatus(baseline, source, outcome) # "conflict"
             /\ RecordOutcome(baseline, source, outcome) = outcome
  <2>1. RecordStatus(baseline, source, source)
          \in {"unchanged", "source-updated", "source-deleted", "database-updated"}
    BY DEF RecordStatus, ThreeWayStatus
  <2>2. RecordStatus(baseline, source, source) = "source-deleted" => source = Absent
    BY DEF RecordStatus, ThreeWayStatus
  <2>3. RecordOutcome(baseline, source, source) = source
    BY <2>1, <2>2 DEF RecordOutcome
  <2> HIDE DEF outcome
  <2> QED
    BY <1>3, <2>1, <2>3
<1>4. CASE status = "auto-merged"
  <2>1. /\ baseline # NoRevision /\ base = baseline.source /\ base = baseline.database
        /\ source # base /\ database # base /\ source # database
        /\ Absent \notin {base, source, database}
        /\ Conflicting(base, source, database) = {}
    BY <1>4 DEF RecordStatus, ThreeWayStatus, DatabaseUnchanged, SourceUnchanged, MergeBase
  <2>2. outcome = merged
    BY <1>4 DEF RecordOutcome
  <2>3. base \in [F -> V] /\ source \in [F -> V] /\ database \in [F -> V]
    BY <1>1, <2>1
  <2>4. /\ merged \in [F -> V]
        /\ \A f \in F : merged[f] = IF base[f] = source[f] THEN database[f] ELSE source[f]
    <3> HIDE DEF base
    <3> QED
      BY <2>3 DEF MergeFields
  <2> HIDE DEF base, status, outcome, merged
  <2>5. merged # base
    <3>1. PICK f \in F : base[f] # source[f]
      BY <2>1, <2>3
    <3> QED
      BY <2>4, <3>1
  <2>6. Conflicting(base, source, merged) = {}
    BY <2>3, <2>4 DEF Conflicting
  <2>7. MergeFields(base, source, merged) = merged
    <3>1. MergeFields(base, source, merged) \in [F -> V]
      BY <2>3, <2>4 DEF MergeFields
    <3>2. \A f \in F : MergeFields(base, source, merged)[f] = merged[f]
      BY <2>3, <2>4 DEF MergeFields
    <3> QED
      BY <2>4, <3>1, <3>2
  <2>8. RecordStatus(baseline, source, merged) = ThreeWayStatus(base, source, merged)
    BY <2>1, <2>5 DEF RecordStatus, DatabaseUnchanged, SourceUnchanged, base
  <2>9. ThreeWayStatus(base, source, merged) = IF source = merged THEN "unchanged" ELSE "auto-merged"
    BY <1>1, <2>1, <2>3, <2>4, <2>5, <2>6 DEF ThreeWayStatus
  <2>10. RecordOutcome(baseline, source, merged) = merged
    BY <2>7, <2>8, <2>9 DEF RecordOutcome, base
  <2> QED
    BY <2>2, <2>8, <2>9, <2>10
<1>5. CASE status # "auto-merged"
  <2>1. status = "source-deleted" => source = Absent
    BY DEF RecordStatus, ThreeWayStatus, DatabaseUnchanged, SourceUnchanged, MergeBase
  <2>2. outcome = source \/ outcome = database
    BY <1>5, <2>1 DEF RecordOutcome
  <2> QED
    BY <1>2, <1>3, <2>2
<1> QED
  BY <1>4, <1>5

\* A tree as ThreeWay sees it: the leaf at each path.
LeavesOf(tree) == [p \in PathsTo(Depth) |-> Leaf(tree, p)]

\* Trees that are objects at the same paths.
SameShape(b, s, d) ==
  \A p \in PathsTo(Depth) : /\ IsRecord(ValueAt(b, p)) <=> IsRecord(ValueAt(s, p))
                            /\ IsRecord(ValueAt(b, p)) <=> IsRecord(ValueAt(d, p))

\* The three-way decision of WorkspaceSync compares and merges field by field
\* (ThreeWay); for trees of the same shape this is what mergeValue does.
THEOREM MergeIsFieldByField ==
  \A b, s, d \in Sides : LET m == MergeValue[<<b, s, d>>] IN
    /\ m # Clash => LeavesOf(m) = MergeFields(LeavesOf(b), LeavesOf(s), LeavesOf(d))
    /\ SameShape(b, s, d) => (m = Clash <=> Conflicting(LeavesOf(b), LeavesOf(s), LeavesOf(d)) # {})
<1> SUFFICES ASSUME NEW b \in Sides, NEW s \in Sides, NEW d \in Sides
             PROVE  /\ MergeOf(b, s, d) # Clash
                         => LeavesOf(MergeOf(b, s, d)) = MergeFields(LeavesOf(b), LeavesOf(s), LeavesOf(d))
                    /\ SameShape(b, s, d) =>
                         (MergeOf(b, s, d) = Clash <=> Conflicting(LeavesOf(b), LeavesOf(s), LeavesOf(d)) # {})
  BY DEF MergeOf
<1>1. Depth \in 0..Depth /\ SidesAt(Depth) = Sides
  BY DepthFacts DEF SidesAt, Sides
<1>2. FollowsEdits(b, s, d, Depth) /\ FailsOnClashes(b, s, d, Depth)
  BY <1>1, MergesKeepEdits DEF MergeKeepsEdits
<1>3. ASSUME MergeOf(b, s, d) # Clash
      PROVE  LeavesOf(MergeOf(b, s, d)) = MergeFields(LeavesOf(b), LeavesOf(s), LeavesOf(d))
  <2>1. \A p \in PathsTo(Depth) : Leaf(MergeOf(b, s, d), p) = Edited(b, s, d, p)
    BY <1>2, <1>3 DEF FollowsEdits
  <2>2. MergeFields(LeavesOf(b), LeavesOf(s), LeavesOf(d)) = [p \in PathsTo(Depth) |-> Edited(b, s, d, p)]
    BY DEF MergeFields, LeavesOf, Edited
  <2> QED BY <2>1, <2>2 DEF LeavesOf
<1>4. ASSUME SameShape(b, s, d)
      PROVE  MergeOf(b, s, d) = Clash <=> Conflicting(LeavesOf(b), LeavesOf(s), LeavesOf(d)) # {}
  <2>1. Conflicting(LeavesOf(b), LeavesOf(s), LeavesOf(d)) =
          {p \in PathsTo(Depth) : Leaf(s, p) # Leaf(d, p) /\ Leaf(b, p) # Leaf(s, p) /\ Leaf(b, p) # Leaf(d, p)}
    BY DEF Conflicting, LeavesOf
  <2>2. ASSUME NEW p \in PathsTo(Depth)
        PROVE  ClashAt(b, s, d, p) <=>
                 (Leaf(s, p) # Leaf(d, p) /\ Leaf(b, p) # Leaf(s, p) /\ Leaf(b, p) # Leaf(d, p))
    <3>1. CASE IsRecord(ValueAt(b, p))
      BY <1>4, <3>1 DEF SameShape, ClashAt, Leaf
    <3>2. CASE ~IsRecord(ValueAt(b, p))
      BY <1>4, <3>2 DEF SameShape, ClashAt, Leaf
    <3> QED BY <3>1, <3>2
  <2> QED
    BY <1>2, <2>1, <2>2 DEF FailsOnClashes
<1> QED BY <1>3, <1>4
==============================================================================
