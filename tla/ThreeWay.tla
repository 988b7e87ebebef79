------------------------------ MODULE ThreeWay ------------------------------
(***************************************************************************)
(* The comparison that decides what becomes of one record when a workspace *)
(* is reconciled: reconcileThreeWay of packages/headless, and the test on  *)
(* the stored baselines that the desktop puts in front of it.              *)
(*                                                                         *)
(* A snapshot is a function from the fields of the record to values, or    *)
(* Absent when that side does not have the record.  The three snapshots of *)
(* one record have the same fields.  A field is a leaf of the JSON         *)
(* snapshot: mergeValue descends into nested objects and treats arrays and *)
(* scalars as one value.  stableHash is taken to be injective, so equality *)
(* of revisions is equality of snapshots.                                  *)
(***************************************************************************)
CONSTANTS Absent,      \* a side that does not have the record
          NoRevision   \* a record with no stored baseline

\* A faulty variant of Conflicting, used by no definition: a merge that never
\* notices that both sides changed a field.
ConflictingNowhere(base, source, database) == {}

\* The fields both sides changed, each to a value of its own.
Conflicting(base, source, database) ==
  {f \in DOMAIN source : /\ source[f] # database[f]
                         /\ base[f] # source[f]
                         /\ base[f] # database[f]}

\* Field by field, the side that left the base alone gives way.
MergeFields(base, source, database) ==
  [f \in DOMAIN source |-> IF base[f] = source[f] THEN database[f] ELSE source[f]]

\* The status reconcileThreeWay reports.
ThreeWayStatus(base, source, database) ==
  IF source = database THEN "unchanged"
  ELSE IF base = Absent
    THEN IF source = Absent THEN "database-updated"
         ELSE IF database = Absent THEN "source-added"
         ELSE "conflict"
  ELSE IF Absent \in {source, database}
    THEN IF base \in {source, database} THEN "source-deleted" ELSE "conflict"
  ELSE IF base = source THEN "database-updated"
  ELSE IF base = database THEN "source-updated"
  ELSE IF Conflicting(base, source, database) = {} THEN "auto-merged"
  ELSE "conflict"
-----------------------------------------------------------------------------
(***************************************************************************)
(* A stored baseline holds the source snapshot and the database snapshot   *)
(* of the last reconciliation.  Each side is compared with its own first;  *)
(* only when both differ does the three-way merge run, on the SOURCE half. *)
(***************************************************************************)
MergeBase(revision) == IF revision = NoRevision THEN Absent ELSE revision.source

SourceUnchanged(revision, source) ==
  revision # NoRevision /\ source = revision.source

DatabaseUnchanged(revision, database) ==
  revision # NoRevision /\ database = revision.database

RecordStatus(revision, source, database) ==
  IF DatabaseUnchanged(revision, database)
    THEN IF SourceUnchanged(revision, source) THEN "unchanged"
         ELSE IF source = Absent THEN "source-deleted" ELSE "source-updated"
  ELSE IF SourceUnchanged(revision, source) THEN "database-updated"
  ELSE ThreeWayStatus(MergeBase(revision), source, database)

\* What the database holds for the record once the decision is applied.
RecordOutcome(revision, source, database) ==
  LET status == RecordStatus(revision, source, database)
  IN  IF status \in {"source-added", "source-updated"} THEN source
      ELSE IF status = "source-deleted" THEN Absent
      ELSE IF status = "auto-merged" THEN MergeFields(MergeBase(revision), source, database)
      ELSE database
=============================================================================
