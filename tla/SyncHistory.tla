----------------------------- MODULE SyncHistory -----------------------------
(***************************************************************************)
(* What a user may expect of synchronization, stated against the history   *)
(* of a workspace rather than against the baselines the program stores.    *)
(* Three history variables, which no action of WorkspaceSync reads:        *)
(*                                                                         *)
(*   agreed   what rows and files last had in common: what the files held  *)
(*            when a job stored its baselines, and what it pushed          *)
(*   settled  the records whose rows and files were equal at the moment    *)
(*            the baselines were stored, before anything was pushed; a row *)
(*            that shows its origin and has no baseline is not among them  *)
(*   found    the rows, files and baselines as they were when the job that *)
(*            is at work began                                             *)
(***************************************************************************)
EXTENDS WorkspaceSync

VARIABLES agreed, settled, found

historyVars == <<agreed, settled, found>>

HistoryInit == Init /\ agreed = db /\ settled = Records /\ found = store

Stores(j) == job[j].phase = "saved" /\ job'[j].phase \in {"listing", "ending"}
Pushes(j) == job[j].verdict # "pushed" /\ job'[j].verdict = "pushed"

RecordHistory ==
  /\ agreed' = IF \E j \in Jobs : Pushes(j) THEN file'
               ELSE IF \E j \in Jobs : Stores(j)
                    THEN job[CHOOSE j \in Jobs : Stores(j)].sourceSeen
               ELSE agreed
  /\ settled' = {r \in Records :
                   /\ IF \E j \in Jobs : Stores(j)
                      THEN \E j \in Jobs : Stores(j) /\ job[j].sourceSeen[r] = db[r]
                      ELSE r \in settled /\ revision'[r] = revision[r]
                   /\ ~(ShowsOrigin(r) /\ db'[r] # Absent /\ revision'[r] = NoRevision)}
  /\ found' = IF \A j \in Jobs : ~Working(j) THEN store' ELSE found

HistoryNext == Next /\ RecordHistory
HistorySpec == HistoryInit /\ [][HistoryNext]_<<vars, historyVars>>
-----------------------------------------------------------------------------
Fields == {"content", "script", "deps"}

\* `new` carries every change that `source` and `database` made to `base`.
Incorporates(base, source, database, new) ==
  /\ source = base => new = database
  /\ database = base => new = source
  /\ Absent \notin {base, source, database} =>
       /\ new # Absent
       /\ \A f \in Fields : /\ source[f] = base[f] => new[f] = database[f]
                            /\ database[f] = base[f] => new[f] = source[f]

\* Both sides changed the record, and not to the same end.
Race(base, source, database) ==
  /\ source # base /\ database # base /\ source # database
  /\ \/ Absent \in {base, source, database}
     \/ \E f \in Fields : source[f] # base[f] /\ database[f] # base[f] /\ source[f] # database[f]

\* Some dependency on either side names a record the other side lacks, or one
\* of another kind.
MayDangle(source, database) ==
  \E r \in Records : \E rows \in {source, database} :
    rows[r] # Absent /\ \E d \in rows[r].deps :
      \/ source[d] = Absent \/ database[d] = Absent
      \/ KindOf[d] # KindOf[r]

MailboxGone(source) == \E r \in OfKind("smtp") : source[r] = Absent

Decides(j) == job[j].phase = "loaded" /\ job'[j].phase \in {"saved", "ending"}

Survive(R) ==
  \A j \in Jobs : Decides(j) /\ job'[j].phase = "saved" =>
    \A r \in R : Incorporates(agreed[r], job[j].sourceSeen[r], job[j].dbSeen[r], db'[r])

NoRaceDecided(R) ==
  \A j \in Jobs : Decides(j) /\ job'[j].phase = "saved" =>
    \A r \in R : ~Race(agreed[r], job[j].sourceSeen[r], job[j].dbSeen[r])

ConflictsExplained(R) ==
  \A j \in Jobs : Decides(j) /\ job'[j].verdict = "conflict" =>
    \/ \E r \in Records : Race(agreed[r], job[j].sourceSeen[r], job[j].dbSeen[r])
    \/ ~(Records \subseteq R)
    \/ MayDangle(job[j].sourceSeen, job[j].dbSeen)
    \/ MailboxGone(job[j].sourceSeen)

\* Whatever either side changed since the two last agreed is in the row that a
\* reconciliation leaves: for the settled records.
SettledEditsSurvive == [][Survive(settled)]_<<vars, historyVars>>

\* A reconciliation is refused only over a record that both sides changed since
\* they last agreed, a reference that may dangle, or a removed mailbox: as long
\* as every record is settled.
SettledConflictsAreRaces == [][ConflictsExplained(settled)]_<<vars, historyVars>>

\* When both sides changed a settled record to different ends, no side is taken.
SettledRacesAreReported == [][NoRaceDecided(settled)]_<<vars, historyVars>>

\* A job that is refused, because a file cannot be loaded or over a conflict,
\* leaves every row, every file and both halves of every baseline as it found
\* them, those of the records that were free of conflicts included.
RefusalMutatesNothing ==
  \A j \in Jobs : job[j].phase = "ending" /\ job[j].verdict \in {"invalid", "conflict"} =>
    store = found

\* The three properties of settled records, for every record: what the documentation promises.
EditsSurvive == [][Survive(Records)]_<<vars, historyVars>>
ConflictsAreRaces == [][ConflictsExplained(Records)]_<<vars, historyVars>>
RacesAreReported == [][NoRaceDecided(Records)]_<<vars, historyVars>>

\* A job replaces a row only when it is still the row the job decided on: an
\* edit that the application makes in between is not lost.
OverwritesOnlyWhatItSaw ==
  [][\A j \in Jobs : Decides(j) => \A r \in Records :
       db'[r] # db[r] => db[r] = job[j].dbSeen[r]]_<<vars, historyVars>>
=============================================================================
