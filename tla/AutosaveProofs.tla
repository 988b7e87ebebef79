---------------------------- MODULE AutosaveProofs ----------------------------
(***************************************************************************)
(* Proofs about Autosave, for every set of fields and of hooks and for     *)
(* every bound on the edits.                                               *)
(*                                                                         *)
(* The inductive invariant says, field by field, where the last edit is:   *)
(* among the pending updates, or else among those being sent, or else in   *)
(* the back end; and what is being sent is never older than what is        *)
(* stored.  The second half is what a retry needs, and it follows from the *)
(* first: a failed update comes back only where nothing newer is pending.  *)
(***************************************************************************)
EXTENDS Autosave, TLAPS

\* Where the last edit of a field is, and in which order its values stand.
Chain(f) ==
  /\ stored[f] <= latest[f]
  /\ pending[f] # 0 => pending[f] = latest[f]
  /\ sending[f] # 0 => stored[f] <= sending[f] /\ sending[f] <= latest[f]
  /\ pending[f] = 0 /\ sending[f] # 0 => sending[f] = latest[f]
  /\ pending[f] = 0 /\ sending[f] = 0 => stored[f] = latest[f]

\* What the loop holds at each of its awaits.
LoopMatches ==
  /\ phase = "idle" => sending = None
  /\ phase = "reporting" => \A f \in Fields : sending[f] # 0 => stored[f] = sending[f]

\* No flush waits for an edit yet to be made.
GoalsMade == \A h \in Hooks, f \in Fields : goal[h][f] <= latest[f]

IInv == TypeOK /\ (\A f \in Fields : Chain(f)) /\ LoopMatches /\ GoalsMade

\* Overlaying updates on a base gives the fields numbers again.
LEMMA OverlayTyped ==
  ASSUME NEW b \in [Fields -> Nat], NEW u \in [Fields -> Nat]
  PROVE  /\ Overlay(b, u) \in [Fields -> Nat]
         /\ \A f \in Fields : Overlay(b, u)[f] = IF u[f] # 0 THEN u[f] ELSE b[f]
BY DEF Overlay

\* "No updates" is a function like any other.
LEMMA NoneTyped == None \in [Fields -> Nat] /\ \A f \in Fields : None[f] = 0
BY DEF None

\* The effect of the head of a save: nothing, or the pending updates are taken.
LEMMA StartSaveTyped ==
  ASSUME TypeOK, StartSave
  PROVE  /\ pending' \in [Fields -> Nat]
         /\ sending' \in [Fields -> Nat]
         /\ phase' \in Phases
BY NoneTyped DEF TypeOK, StartSave, Phases

\* The effect of a failure on the types.
LEMMA GiveUpTyped ==
  ASSUME TypeOK, GiveUp
  PROVE  /\ latest' \in [Fields -> Nat] /\ pending' \in [Fields -> Nat]
         /\ sending' \in [Fields -> Nat]
         /\ phase' \in Phases
         /\ error' \in BOOLEAN
         /\ mounted' \subseteq Hooks /\ timer' \subseteq Hooks /\ flushing' \subseteq Hooks
         /\ goal' \in [Hooks -> [Fields -> Nat]]
<1>1. Overlay(sending, pending) \in [Fields -> Nat]
  BY OverlayTyped DEF TypeOK
<1>2. pending' = Overlay(sending, pending)
  BY DEF GiveUp, Restore
<1>3. error' \in BOOLEAN
  BY DEF GiveUp
<1> QED BY <1>1, <1>2, <1>3, NoneTyped DEF TypeOK, GiveUp, Phases

\* Types are kept by every step, whatever the editors do.
LEMMA TypeStep == TypeOK /\ [Next]_vars => TypeOK'
<1> SUFFICES ASSUME TypeOK, [Next]_vars PROVE TypeOK'
  OBVIOUS
<1>1. ASSUME NEW h \in Hooks, Mount(h) PROVE TypeOK'
  BY <1>1 DEF TypeOK, Mount
<1>2. ASSUME NEW h \in Hooks, NEW F \in SUBSET Fields, Enqueue(h, F) PROVE TypeOK'
  <2>1. latest' \in [Fields -> Nat] /\ pending' \in [Fields -> Nat]
    BY <1>2 DEF TypeOK, Enqueue
  <2>2. error' \in BOOLEAN
    BY <1>2 DEF Enqueue
  <2> QED BY <1>2, <2>1, <2>2 DEF TypeOK, Enqueue
<1>3. ASSUME NEW h \in Hooks, TimerFires(h) PROVE TypeOK'
  BY <1>3, StartSaveTyped DEF TypeOK, TimerFires
<1>4. ASSUME NEW h \in Hooks, Flush(h) PROVE TypeOK'
  <2>1. flushing' \subseteq Hooks /\ goal' \in [Hooks -> [Fields -> Nat]]
    BY <1>4 DEF TypeOK, Flush
  <2> QED BY <1>4, <2>1, StartSaveTyped DEF TypeOK, Flush
<1>5. ASSUME NEW h \in Hooks, Unmount(h) PROVE TypeOK'
  BY <1>5, StartSaveTyped DEF TypeOK, Unmount
<1>6. CASE PersistSucceeds
  BY <1>6, OverlayTyped DEF TypeOK, PersistSucceeds, editor, Phases
<1>7. CASE PersistFails
  <2>1. stored' \in [Fields -> Nat]
    BY <1>7, OverlayTyped DEF TypeOK, PersistFails
  <2>2. GiveUp
    BY <1>7 DEF PersistFails
  <2> QED BY <2>1, <2>2, GiveUpTyped DEF TypeOK
<1>8. CASE ReportFails
  <2>1. GiveUp /\ stored' = stored
    BY <1>8 DEF ReportFails
  <2> QED BY <2>1, GiveUpTyped DEF TypeOK
<1>9. CASE ReportSucceeds
  <2>1. error' \in BOOLEAN
    BY <1>9 DEF ReportSucceeds
  <2>2. phase' \in Phases /\ flushing' \subseteq Hooks
    BY <1>9 DEF TypeOK, ReportSucceeds, Phases
  <2> QED BY <1>9, <2>1, <2>2, NoneTyped DEF TypeOK, ReportSucceeds
<1>10. CASE UNCHANGED vars
  BY <1>10 DEF TypeOK, vars, editor
<1> QED BY <1>1, <1>2, <1>3, <1>4, <1>5, <1>6, <1>7, <1>8, <1>9, <1>10
        DEF Next, SaveStep

\* The invariant holds of a new registry entry.
LEMMA InvariantInit == Init => IInv
<1> SUFFICES ASSUME Init PROVE IInv
  OBVIOUS
<1>1. error \in BOOLEAN
  BY DEF Init
<1>2. goal \in [Hooks -> [Fields -> Nat]] /\ GoalsMade
  BY NoneTyped DEF Init, GoalsMade
<1>3. TypeOK
  BY <1>1, <1>2, NoneTyped DEF Init, TypeOK, Phases
<1>4. \A f \in Fields : latest[f] = 0 /\ stored[f] = 0 /\ pending[f] = 0 /\ sending[f] = 0
  BY NoneTyped DEF Init
<1>5. ASSUME NEW f \in Fields PROVE Chain(f)
  BY <1>4 DEF Chain
<1>6. LoopMatches
  BY NoneTyped DEF Init, LoopMatches
<1> QED BY <1>2, <1>3, <1>5, <1>6 DEF IInv

\* The head of a save keeps the invariant: taking the updates hands the last edit
\* of their fields from `pending` to `sending`.
LEMMA StartSaveKeeps ==
  ASSUME IInv, TypeOK', StartSave, UNCHANGED <<latest, stored>>
  PROVE  (\A f \in Fields : Chain(f)') /\ LoopMatches'
<1>1. CASE UNCHANGED <<pending, sending, phase>>
  <2>1. ASSUME NEW f \in Fields PROVE Chain(f)'
    BY <1>1 DEF IInv, Chain
  <2>2. LoopMatches'
    BY <1>1 DEF IInv, LoopMatches
  <2> QED BY <2>1, <2>2
<1>2. CASE phase = "idle" /\ sending' = pending /\ pending' = None /\ phase' = "persisting"
  <2>1. ASSUME NEW f \in Fields PROVE Chain(f)'
    <3>1. sending[f] = 0 /\ pending'[f] = 0 /\ sending'[f] = pending[f]
      BY <1>2, NoneTyped DEF IInv, LoopMatches
    <3>2. Chain(f) /\ latest[f] \in Nat /\ stored[f] \in Nat /\ pending[f] \in Nat
      BY DEF IInv, TypeOK
    <3> QED BY <3>1, <3>2 DEF Chain
  <2>2. LoopMatches'
    BY <1>2 DEF LoopMatches
  <2> QED BY <2>1, <2>2
<1> QED BY <1>1, <1>2 DEF StartSave, IInv, TypeOK, Phases

\* So does a failure, whether or not the back end has stored the updates: they
\* come back only where nothing newer is pending.
LEMMA GiveUpKeeps ==
  ASSUME IInv, TypeOK', GiveUp, stored' \in {stored, Overlay(stored, sending)}
  PROVE  (\A f \in Fields : Chain(f)') /\ LoopMatches'
<1>1. ASSUME NEW f \in Fields PROVE Chain(f)'
  <2>1. /\ pending'[f] = IF pending[f] # 0 THEN pending[f] ELSE sending[f]
        /\ sending'[f] = 0
        /\ latest'[f] = latest[f]
    BY OverlayTyped, NoneTyped DEF GiveUp, Restore, IInv, TypeOK
  <2>2. stored'[f] = stored[f] \/ stored'[f] = Overlay(stored, sending)[f]
    OBVIOUS
  <2>3. Overlay(stored, sending)[f] = IF sending[f] # 0 THEN sending[f] ELSE stored[f]
    BY OverlayTyped DEF IInv, TypeOK
  <2>4. /\ Chain(f)
        /\ latest[f] \in Nat /\ stored[f] \in Nat /\ pending[f] \in Nat /\ sending[f] \in Nat
    BY DEF IInv, TypeOK
  <2> QED BY <2>1, <2>2, <2>3, <2>4 DEF Chain
<1>2. LoopMatches'
  BY DEF GiveUp, LoopMatches
<1> QED BY <1>1, <1>2

\* The invariant is inductive.
LEMMA InvariantStep == IInv /\ [Next]_vars => IInv'
<1> SUFFICES ASSUME IInv, [Next]_vars PROVE IInv'
  OBVIOUS
<1>0. TypeOK'
  BY TypeStep DEF IInv
<1>a. SUFFICES (\A f \in Fields : Chain(f)') /\ LoopMatches' /\ GoalsMade'
  BY <1>0 DEF IInv
<1>1. ASSUME NEW h \in Hooks, Mount(h)
      PROVE  (\A f \in Fields : Chain(f)') /\ LoopMatches' /\ GoalsMade'
  BY <1>1 DEF Mount, IInv, Chain, LoopMatches, GoalsMade
<1>2. ASSUME NEW h \in Hooks, NEW F \in SUBSET Fields, Enqueue(h, F)
      PROVE  (\A f \in Fields : Chain(f)') /\ LoopMatches' /\ GoalsMade'
  <2>1. ASSUME NEW f \in Fields PROVE Chain(f)'
    <3>1. /\ latest'[f] = IF f \in F THEN latest[f] + 1 ELSE latest[f]
          /\ pending'[f] = IF f \in F THEN latest[f] + 1 ELSE pending[f]
          /\ stored'[f] = stored[f] /\ sending'[f] = sending[f]
      BY <1>2 DEF Enqueue
    <3>2. /\ Chain(f)
          /\ latest[f] \in Nat /\ stored[f] \in Nat /\ pending[f] \in Nat /\ sending[f] \in Nat
      BY DEF IInv, TypeOK
    <3>3. stored[f] <= latest[f] /\ (sending[f] # 0 => sending[f] <= latest[f])
      BY <3>2 DEF Chain
    <3> QED BY <3>1, <3>2, <3>3 DEF Chain
  <2>2. LoopMatches'
    BY <1>2 DEF Enqueue, IInv, LoopMatches
  <2>3. GoalsMade'
    <3> SUFFICES ASSUME NEW g \in Hooks, NEW f \in Fields PROVE goal'[g][f] <= latest'[f]
      BY DEF GoalsMade
    <3>1. goal[g][f] \in Nat /\ latest[f] \in Nat /\ goal[g][f] <= latest[f]
      BY DEF IInv, TypeOK, GoalsMade
    <3>2. goal' = goal /\ latest'[f] \in {latest[f], latest[f] + 1}
      BY <1>2 DEF Enqueue
    <3> QED BY <3>1, <3>2
  <2> QED BY <2>1, <2>2, <2>3
<1>3. ASSUME NEW h \in Hooks, TimerFires(h)
      PROVE  (\A f \in Fields : Chain(f)') /\ LoopMatches' /\ GoalsMade'
  BY <1>0, <1>3, StartSaveKeeps DEF TimerFires, IInv, GoalsMade
<1>4. ASSUME NEW h \in Hooks, Flush(h)
      PROVE  (\A f \in Fields : Chain(f)') /\ LoopMatches' /\ GoalsMade'
  <2>1. (\A f \in Fields : Chain(f)') /\ LoopMatches'
    BY <1>0, <1>4, StartSaveKeeps DEF Flush
  <2>2. GoalsMade'
    <3> SUFFICES ASSUME NEW g \in Hooks, NEW f \in Fields PROVE goal'[g][f] <= latest'[f]
      BY DEF GoalsMade
    <3>1. latest' = latest /\ goal'[g] \in {goal[g], latest}
      BY <1>4 DEF Flush, IInv, TypeOK
    <3>2. goal[g][f] <= latest[f] /\ latest[f] \in Nat
      BY DEF IInv, TypeOK, GoalsMade
    <3> QED BY <3>1, <3>2
  <2> QED BY <2>1, <2>2
<1>5. ASSUME NEW h \in Hooks, Unmount(h)
      PROVE  (\A f \in Fields : Chain(f)') /\ LoopMatches' /\ GoalsMade'
  BY <1>0, <1>5, StartSaveKeeps DEF Unmount, IInv, GoalsMade
<1>6. ASSUME PersistSucceeds
      PROVE  (\A f \in Fields : Chain(f)') /\ LoopMatches' /\ GoalsMade'
  <2>0. \A f \in Fields : stored'[f] = IF sending[f] # 0 THEN sending[f] ELSE stored[f]
    BY <1>6, OverlayTyped DEF PersistSucceeds, IInv, TypeOK
  <2>1. ASSUME NEW f \in Fields PROVE Chain(f)'
    <3>1. latest' = latest /\ pending' = pending /\ sending' = sending
      BY <1>6 DEF PersistSucceeds
    <3>2. /\ Chain(f)
          /\ latest[f] \in Nat /\ stored[f] \in Nat /\ pending[f] \in Nat /\ sending[f] \in Nat
      BY DEF IInv, TypeOK
    <3> QED BY <2>0, <3>1, <3>2 DEF Chain
  <2>2. LoopMatches'
    BY <1>6, <2>0 DEF PersistSucceeds, LoopMatches
  <2> QED BY <1>6, <2>1, <2>2 DEF PersistSucceeds, editor, IInv, GoalsMade
<1>7. ASSUME PersistFails
      PROVE  (\A f \in Fields : Chain(f)') /\ LoopMatches' /\ GoalsMade'
  BY <1>0, <1>7, GiveUpKeeps DEF PersistFails, GiveUp, IInv, GoalsMade
<1>8. ASSUME ReportFails
      PROVE  (\A f \in Fields : Chain(f)') /\ LoopMatches' /\ GoalsMade'
  BY <1>0, <1>8, GiveUpKeeps DEF ReportFails, GiveUp, IInv, GoalsMade
<1>9. ASSUME ReportSucceeds
      PROVE  (\A f \in Fields : Chain(f)') /\ LoopMatches' /\ GoalsMade'
  <2>1. ASSUME NEW f \in Fields PROVE Chain(f)'
    <3>1. /\ sending'[f] = pending[f] /\ pending'[f] = 0
          /\ latest'[f] = latest[f] /\ stored'[f] = stored[f]
      BY <1>9, NoneTyped DEF ReportSucceeds
    <3>2. sending[f] # 0 => stored[f] = sending[f]
      BY <1>9 DEF ReportSucceeds, IInv, LoopMatches
    <3>3. /\ Chain(f)
          /\ latest[f] \in Nat /\ stored[f] \in Nat /\ pending[f] \in Nat /\ sending[f] \in Nat
      BY DEF IInv, TypeOK
    <3> QED BY <3>1, <3>2, <3>3 DEF Chain
  <2>2. LoopMatches'
    BY <1>9 DEF ReportSucceeds, LoopMatches
  <2> QED BY <1>9, <2>1, <2>2 DEF ReportSucceeds, IInv, GoalsMade
<1>10. CASE UNCHANGED vars
  <2>1. ASSUME NEW f \in Fields PROVE Chain(f)'
    BY <1>10 DEF vars, IInv, Chain
  <2>2. LoopMatches' /\ GoalsMade'
    BY <1>10 DEF vars, editor, IInv, LoopMatches, GoalsMade
  <2> QED BY <2>1, <2>2
<1> QED BY <1>1, <1>2, <1>3, <1>4, <1>5, <1>6, <1>7, <1>8, <1>9, <1>10
        DEF Next, SaveStep

\* The invariant holds in every reachable state.
LEMMA Invariant == Spec => []IInv
BY InvariantInit, InvariantStep, PTL DEF Spec

\* The registry entry, the back end and the editors keep their types.
THEOREM AutosaveTyped == Spec => []TypeOK
<1>1. IInv => TypeOK
  BY DEF IInv
<1> QED BY <1>1, Invariant, PTL

\* When the editor shows neither unsaved changes nor an error, the back end has
\* every edit.
THEOREM AutosaveSavedMeansStored == Spec => []SavedMeansStored
<1>1. IInv => SavedMeansStored
  <2> SUFFICES ASSUME IInv, pending = None, phase = "idle" PROVE stored = latest
    BY DEF SavedMeansStored
  <2>1. \A f \in Fields : pending[f] = 0 /\ sending[f] = 0
    BY NoneTyped DEF IInv, LoopMatches
  <2>2. \A f \in Fields : stored[f] = latest[f]
    BY <2>1 DEF IInv, Chain
  <2> QED BY <2>2 DEF IInv, TypeOK
<1> QED BY <1>1, Invariant, PTL

\* An edit that waits has a timer, a running save, or an error with a retry.
THEOREM AutosaveNoForgottenEdit == Spec => []NoForgottenEdit
<1>1. Init => NoForgottenEdit
  BY DEF Init, NoForgottenEdit
<1>2. NoForgottenEdit /\ [Next]_vars => NoForgottenEdit'
  <2> SUFFICES ASSUME NoForgottenEdit, [Next]_vars PROVE NoForgottenEdit'
    OBVIOUS
  <2>1. ASSUME StartSave PROVE NoForgottenEdit'
    <3>1. CASE phase # "idle" /\ UNCHANGED <<pending, phase>>
      BY <3>1 DEF NoForgottenEdit
    <3>2. CASE pending = None /\ UNCHANGED pending
      BY <3>2 DEF NoForgottenEdit, None
    <3>3. CASE phase' = "persisting"
      BY <3>3 DEF NoForgottenEdit
    <3> QED BY <2>1, <3>1, <3>2, <3>3 DEF StartSave
  <2>2. ASSUME NEW h \in Hooks, TimerFires(h) \/ Flush(h) \/ Unmount(h)
        PROVE  NoForgottenEdit'
    BY <2>1, <2>2 DEF TimerFires, Flush, Unmount
  <2>3. ASSUME NEW h \in Hooks, Mount(h) PROVE NoForgottenEdit'
    BY <2>3 DEF Mount, NoForgottenEdit, None
  <2>4. ASSUME NEW h \in Hooks, NEW F \in SUBSET Fields, Enqueue(h, F)
        PROVE  NoForgottenEdit'
    BY <2>4 DEF Enqueue, NoForgottenEdit
  <2>5. ASSUME GiveUp PROVE NoForgottenEdit'
    BY <2>5 DEF GiveUp, NoForgottenEdit
  <2>6. ASSUME PersistSucceeds PROVE NoForgottenEdit'
    BY <2>6 DEF PersistSucceeds, NoForgottenEdit
  <2>7. ASSUME ReportSucceeds PROVE NoForgottenEdit'
    BY <2>7 DEF ReportSucceeds, NoForgottenEdit, None
  <2>8. CASE UNCHANGED vars
    BY <2>8 DEF vars, editor, NoForgottenEdit, None
  <2> QED BY <2>2, <2>3, <2>4, <2>5, <2>6, <2>7, <2>8
          DEF Next, SaveStep, PersistFails, ReportFails
<1> QED BY <1>1, <1>2, PTL DEF Spec

\* A flush that resolves has stored every edit made before it was called.
THEOREM AutosaveFlushStores == Spec => FlushStores
<1> DEFINE Stores == \A h \in flushing : h \notin flushing' /\ ~error'
                       => \A f \in Fields : goal[h][f] <= stored'[f]
<1>1. IInv /\ [Next]_vars => [Stores]_vars
  <2> SUFFICES ASSUME IInv, [Next]_vars, NEW h \in flushing, h \notin flushing', ~error'
               PROVE  \A f \in Fields : goal[h][f] <= stored'[f]
    OBVIOUS
  <2>1. phase = "reporting" /\ pending = None /\ UNCHANGED <<latest, stored>>
    <3>1. CASE ReportSucceeds
      BY <3>1 DEF ReportSucceeds
    <3>2. ASSUME GiveUp PROVE FALSE
      BY <3>2 DEF GiveUp
    <3>3. ASSUME PersistSucceeds \/ UNCHANGED vars PROVE FALSE
      BY <3>3 DEF PersistSucceeds, vars, editor
    <3>4. ASSUME NEW g \in Hooks, Mount(g) \/ TimerFires(g) \/ Flush(g) \/ Unmount(g)
          PROVE  FALSE
      BY <3>4 DEF Mount, TimerFires, Flush, Unmount
    <3>5. ASSUME NEW g \in Hooks, NEW F \in SUBSET Fields, Enqueue(g, F)
          PROVE  FALSE
      BY <3>5 DEF Enqueue
    <3> QED BY <3>1, <3>2, <3>3, <3>4, <3>5 DEF Next, SaveStep, PersistFails, ReportFails
  <2>2. ASSUME NEW f \in Fields PROVE goal[h][f] <= stored'[f]
    <3>1. pending[f] = 0 /\ (sending[f] # 0 => stored[f] = sending[f])
      BY <2>1, NoneTyped DEF IInv, LoopMatches
    <3>2. stored[f] = latest[f]
      BY <3>1 DEF IInv, Chain
    <3>3. goal[h][f] <= latest[f]
      BY DEF IInv, GoalsMade, TypeOK
    <3> QED BY <2>1, <3>2, <3>3
  <2> QED BY <2>2
<1> QED BY <1>1, Invariant, PTL DEF Spec, FlushStores

\* The stored value of a field only moves forward along the edits.
THEOREM AutosaveImplementsDraftStore == Spec => ImplementsDraftStore
<1>1. Init => Draft!Init
  BY DEF Init, Draft!Init, None
<1>2. IInv /\ IInv' /\ [Next]_vars => [Draft!Next]_<<latest, stored>>
  <2> SUFFICES ASSUME IInv, IInv', [Next]_vars PROVE [Draft!Next]_<<latest, stored>>
    OBVIOUS
  <2>1. ASSUME latest' = latest, stored' \in {stored, Overlay(stored, sending)}
        PROVE  [Draft!Next]_<<latest, stored>>
    <3>1. ASSUME NEW f \in Fields PROVE stored[f] <= stored'[f] /\ stored'[f] <= latest[f]
      <4>1. stored'[f] = stored[f] \/ stored'[f] = Overlay(stored, sending)[f]
        BY <2>1
      <4>2. Overlay(stored, sending)[f] = IF sending[f] # 0 THEN sending[f] ELSE stored[f]
        BY OverlayTyped DEF IInv, TypeOK
      <4>3. Chain(f) /\ stored[f] \in Nat /\ sending[f] \in Nat
        BY DEF IInv, TypeOK
      <4> QED BY <4>1, <4>2, <4>3 DEF Chain
    <3>2. stored' \in [Fields -> Nat]
      BY DEF IInv, TypeOK
    <3> QED BY <2>1, <3>1, <3>2 DEF Draft!Next, Draft!Store
  <2>2. ASSUME NEW h \in Hooks, NEW F \in SUBSET Fields, Enqueue(h, F)
        PROVE  Draft!Next
    BY <2>2 DEF Enqueue, Draft!Next, Draft!Edit
  <2>3. ASSUME NEW h \in Hooks, Mount(h) \/ TimerFires(h) \/ Flush(h) \/ Unmount(h)
        PROVE  UNCHANGED <<latest, stored>>
    BY <2>3 DEF Mount, TimerFires, Flush, Unmount
  <2>4. ASSUME SaveStep
        PROVE  latest' = latest /\ stored' \in {stored, Overlay(stored, sending)}
    BY <2>4 DEF SaveStep, PersistSucceeds, PersistFails, ReportFails, ReportSucceeds, GiveUp
  <2>5. CASE UNCHANGED vars
    BY <2>5 DEF vars
  <2> QED BY <2>1, <2>2, <2>3, <2>4, <2>5 DEF Next
<1> QED BY <1>1, <1>2, Invariant, PTL DEF Spec, ImplementsDraftStore, Draft!Spec
=============================================================================
