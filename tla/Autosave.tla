------------------------------- MODULE Autosave -------------------------------
(***************************************************************************)
(* The autosave hook of the editors (use-serialized-autosave.ts): the      *)
(* registry entry of one record, shared by every mounted hook that edits   *)
(* it.  Edits gather in `pending`; a flush takes them and persists them,   *)
(* one call at a time, until nothing is pending; a failed call puts what   *)
(* it took back under what came in meanwhile, reports an error and stops.  *)
(*                                                                         *)
(* The value of a field is the number of the edit that gave it, 0 meaning  *)
(* "not among these updates".  A step runs up to an await.  The end of the *)
(* loop and the finally block behind it are one step: only microtasks can  *)
(* come between them, and timers and event handlers are none.              *)
(* Named bound: MaxEdits, per field.                                       *)
(***************************************************************************)
EXTENDS Integers

CONSTANTS Fields,      \* the fields of the record
          Hooks,       \* the mounted or unmounted users of the entry
          MaxEdits     \* how often a field is edited

ASSUME MaxEditsAssumption == MaxEdits \in Nat

VARIABLES latest,      \* the edits made so far, field by field
          stored,      \* what the back end has of them
          pending,     \* entry.pending.updates
          sending,     \* the updates the loop has taken
          phase,       \* entry.inFlight: "idle", or what the loop awaits
          error,       \* is entry.error set?
          mounted,     \* the hooks that are mounted
          timer,       \* the hooks whose debounce timer runs
          flushing,    \* the hooks that await a flush() of theirs
          goal         \* the edits made when that flush was called

editor == <<mounted, timer, flushing, goal>>
vars == <<latest, stored, pending, sending, phase, error, editor>>

None == [f \in Fields |-> 0]
Phases == {"idle", "persisting", "reporting"}

TypeOK == /\ latest \in [Fields -> Nat]
          /\ stored \in [Fields -> Nat]
          /\ pending \in [Fields -> Nat]
          /\ sending \in [Fields -> Nat]
          /\ phase \in Phases
          /\ error \in BOOLEAN
          /\ mounted \subseteq Hooks /\ timer \subseteq Hooks /\ flushing \subseteq Hooks
          /\ goal \in [Hooks -> [Fields -> Nat]]

Init == /\ latest = None /\ stored = None /\ pending = None /\ sending = None
        /\ phase = "idle"
        /\ error = FALSE
        /\ mounted = {} /\ timer = {} /\ flushing = {}
        /\ goal = [h \in Hooks |-> None]

\* { ...base, ...updates }
Overlay(base, updates) == [f \in Fields |-> IF updates[f] # 0 THEN updates[f] ELSE base[f]]

\* A faulty variant of Restore: what came in meanwhile replaces what failed.
RestoreNewerOnly(failed, newer) == IF newer = None THEN failed ELSE newer

\* What is pending after a failure.
Restore(failed, newer) == Overlay(failed, newer)
-----------------------------------------------------------------------------
\* A faulty variant of StartSave: a new save does not join the running one but
\* overtakes it, and the updates of the older one wait behind.
StartSaveOvertaking ==
  IF pending = None
  THEN UNCHANGED <<pending, sending, phase>>
  ELSE /\ sending' = pending
       /\ pending' = sending
       /\ phase' = "persisting"

\* The head of flushSave: join the loop that runs, return when there is nothing
\* to save, and otherwise start a loop.
StartSave ==
  IF phase # "idle" \/ pending = None
  THEN UNCHANGED <<pending, sending, phase>>
  ELSE /\ sending' = pending
       /\ pending' = None
       /\ phase' = "persisting"

Mount(h) ==
  /\ h \notin mounted
  /\ mounted' = mounted \cup {h}
  /\ UNCHANGED <<latest, stored, pending, sending, phase, error, timer, flushing, goal>>

\* enqueue(): note the new values and restart the debounce timer.
Enqueue(h, F) ==
  /\ h \in mounted
  /\ \A f \in F : latest[f] < MaxEdits
  /\ latest' = [f \in Fields |-> IF f \in F THEN latest[f] + 1 ELSE latest[f]]
  /\ pending' = [f \in Fields |-> IF f \in F THEN latest[f] + 1 ELSE pending[f]]
  /\ error' = FALSE
  /\ timer' = timer \cup {h}
  /\ UNCHANGED <<stored, sending, phase, mounted, flushing, goal>>

TimerFires(h) ==
  /\ h \in timer
  /\ timer' = timer \ {h}
  /\ StartSave
  /\ UNCHANGED <<latest, stored, error, mounted, flushing, goal>>

\* flush(), for a save command or a retry: with nothing to do it returns at once.
Flush(h) ==
  /\ h \in mounted \ flushing
  /\ timer' = timer \ {h}
  /\ StartSave
  /\ IF phase = "idle" /\ pending = None
     THEN UNCHANGED <<flushing, goal>>
     ELSE /\ flushing' = flushing \cup {h}
          /\ goal' = [goal EXCEPT ![h] = latest]
  /\ UNCHANGED <<latest, stored, error, mounted>>

\* The clean-up of the effect: a last save, which nobody awaits.
Unmount(h) ==
  /\ h \in mounted
  /\ mounted' = mounted \ {h}
  /\ timer' = timer \ {h}
  /\ StartSave
  /\ UNCHANGED <<latest, stored, error, flushing, goal>>
-----------------------------------------------------------------------------
\* The back end has stored the updates and says so.
PersistSucceeds ==
  /\ phase = "persisting"
  /\ stored' = Overlay(stored, sending)
  /\ phase' = "reporting"
  /\ UNCHANGED <<latest, pending, sending, error, editor>>

\* The catch clause: keep the updates, report, and reject every flush.
GiveUp ==
  /\ pending' = Restore(sending, pending)
  /\ sending' = None
  /\ phase' = "idle"
  /\ error' = TRUE
  /\ flushing' = {}
  /\ UNCHANGED <<latest, mounted, timer, goal>>

\* persist() rejects; the updates may have been stored, the answer being lost.
PersistFails ==
  /\ phase = "persisting"
  /\ stored' \in {stored, Overlay(stored, sending)}
  /\ GiveUp

\* onSaved() rejects.
ReportFails ==
  /\ phase = "reporting"
  /\ GiveUp
  /\ UNCHANGED stored

\* A faulty variant of ReportSucceeds: one round, however much came in meanwhile.
ReportSucceedsOnce ==
  /\ phase = "reporting"
  /\ error' = FALSE
  /\ sending' = None /\ phase' = "idle" /\ flushing' = {}
  /\ UNCHANGED <<latest, stored, pending, mounted, timer, goal>>

\* onSaved() is done: go on with what came in meanwhile, or resolve.
ReportSucceeds ==
  /\ phase = "reporting"
  /\ error' = FALSE
  /\ sending' = pending
  /\ pending' = None
  /\ IF pending = None
     THEN phase' = "idle" /\ flushing' = {}
     ELSE phase' = "persisting" /\ UNCHANGED flushing
  /\ UNCHANGED <<latest, stored, mounted, timer, goal>>
-----------------------------------------------------------------------------
SaveStep == PersistSucceeds \/ PersistFails \/ ReportFails \/ ReportSucceeds

Next ==
  \/ \E h \in Hooks : \/ Mount(h) \/ TimerFires(h) \/ Flush(h) \/ Unmount(h)
                      \/ \E F \in SUBSET Fields \ {{}} : Enqueue(h, F)
  \/ SaveStep

Spec == Init /\ [][Next]_vars

\* Timers fire, and every call of the back end is answered or fails.
FairSpec == Spec /\ WF_vars(SaveStep) /\ \A h \in Hooks : WF_vars(TimerFires(h))
-----------------------------------------------------------------------------
\* When the editor shows neither unsaved changes nor an error, the back end has
\* every edit, through failures, retries and edits made during a save.
SavedMeansStored == pending = None /\ phase = "idle" /\ ~error => stored = latest

\* An edit that waits is not forgotten: a timer or a running save will take it,
\* or the editor shows an error and offers a retry.  An unmounted editor has no
\* timer, so this is why its clean-up must save.
NoForgottenEdit == pending # None => phase # "idle" \/ error \/ timer # {}

\* A flush that resolves has stored every edit made before it was called, those
\* that waited behind a save already under way included.
FlushStores ==
  [][\A h \in flushing : h \notin flushing' /\ ~error'
       => \A f \in Fields : goal[h][f] <= stored'[f]]_vars

\* The record never goes back to an older value of a field, not even by the
\* retry of a call that had failed or whose answer was lost.
Draft == INSTANCE DraftStore
ImplementsDraftStore == Draft!Spec

\* Every edit is stored, or an error is shown for the editor to retry.
EveryEditSettles ==
  \A f \in Fields : \A n \in 1..MaxEdits : latest[f] = n ~> (stored[f] >= n \/ error)
=============================================================================
