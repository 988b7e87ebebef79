--------------------------- MODULE ExecutionProofs ---------------------------
(***************************************************************************)
(* Proofs about Execution, for every set of runs, every number of scripts  *)
(* and every nesting depth.                                                *)
(*                                                                         *)
(* A turn of a run is first classified (Classified): it goes on in its     *)
(* body, fails, or is one of a few turns that touch more.  The parts of    *)
(* the invariant are then kept class by class.  That an abort reaches all  *)
(* runs below rests on Linked being closed under the links of the          *)
(* controllers (LinkedClosed); that an early abort is reported, on the     *)
(* checks of the signal that lie between it and the response.              *)
(***************************************************************************)
EXTENDS Execution, TLAPS

\* Steps before the first terminal event, and those a run may fail from.
Unreported == Steps \ {"announcing", "reporting", "ended"}
Fallible == {"loading", "started", "opening", "building", "announced", "inHook",
             "hookDone", "sending", "received"}

\* One turn in the body, without a failure.
Proceeds(e) ==
  /\ step[e] \in Unreported \ {"inHook", "closing"}
  /\ \/ \E s \in Unreported \ {"idle", "asked", "started", "opening"} :
          /\ Step(e, s)
          /\ s \in {"sending", "inHook"} => e \notin aborted
          /\ s \in {"received", "closing"} => e \notin aborted \/ step[e] = "received"
          /\ step[e] \in {"idle", "asked"} => s = "loading"
          /\ s = "loading" => IF e \in Nested THEN step[e] = "asked" /\ plan[e].depth <= MaxDepth
                              ELSE step[e] = "idle"
     \/ Step(e, "opening") /\ step[e] = "started"
     \/ /\ step[e] \notin {"idle", "asked"}
        /\ \E k \in Hooks, n \in 1..(MaxScripts + 1) : Announce(e, k, n)

\* A failure in the body, other than that of a hook.
Fails(e) == step[e] \in Fallible /\ (step[e] = "inHook" => e \in aborted) /\ Fail(e)

\* The other turns.
HookEnds(e) == HookReturns(e) \/ HookThrows(e) \/ HookDies(e)
Others(e) == Load(e) \/ Open(e) \/ Close(e) \/ Record(e) \/ RecordFails(e)

\* Where a run comes from and how deep it is stays.
SameFamily == \A d \in Runs : plan'[d].parent = plan[d].parent /\ plan'[d].depth = plan[d].depth

\* The terminal events f, the result r and the record h of a run fit its step s.
Fit(s, f, r, h) ==
  /\ s \in Unreported => Len(f) = 0
  /\ s = "announcing" => Len(f) = 1 /\ f[1] = "completed"
  /\ s = "reporting" => Len(f) # 0 /\ f[Len(f)] # "completed"
  /\ Len(f) \in {0, 1, 2}
  /\ Len(f) = 2 => f[1] = "completed" /\ f[2] # "completed"
  /\ r \in Statuses => s = "ended" /\ Len(f) # 0 /\ h = r /\ f[Len(f)] = r

FinalsFit == \A e \in Runs : Fit(step[e], finals[e], result[e], history[e])

\* A run that was aborted early is on its way to a failure.
EarlyRunsFail ==
  \A e \in early :
    /\ step[e] \notin {"received", "announcing"}
    /\ step[e] = "closing" => e \in failed
    /\ Len(finals[e]) \in {0, 1}
    /\ Len(finals[e]) = 1 => finals[e][1] # "completed"

\* Runs under way are no deeper than allowed.
DepthBounded == \A e \in Runs : step[e] \notin {"asked", "ended"} => plan[e].depth <= MaxDepth

\* A nested run that has been asked for has a parent.
NestedHaveParents == \A c \in Nested : step[c] # "idle" => plan[c].parent \in Runs

IInv ==
  /\ TypeOK /\ DepthBounded /\ NestedHaveParents
  /\ SessionsAreDisposed /\ FinalsFit /\ EarlyRunsFail
  /\ AbortReachesChildren /\ ChildrenRunInsideTheirHook

-----------------------------------------------------------------------------
(* What the parts of a turn do.                                            *)

\* The linked controllers: those of S, others of runs under way, and with each
\* those of the runs it has asked for.
LEMMA LinkedClosed ==
  ASSUME NEW S \in SUBSET Runs
  PROVE  /\ Linked(S) \subseteq Runs /\ S \subseteq Linked(S)
         /\ \A d \in Linked(S) : d \in S \/ step[d] \notin {"idle", "ended"}
         /\ \A d \in Runs : step[d] \notin {"idle", "ended"} /\ plan[d].parent \in Linked(S)
                            => d \in Linked(S)
<1> DEFINE Closed == {U \in SUBSET Runs :
                        /\ S \subseteq U
                        /\ \A d \in Runs : step[d] \notin {"idle", "ended"} /\ plan[d].parent \in U
                                          => d \in U}
<1>1. Linked(S) = {d \in Runs : \A U \in Closed : d \in U}
  BY DEF Linked
<1>2. S \cup {d \in Runs : step[d] \notin {"idle", "ended"}} \in Closed
  OBVIOUS
<1>3. \A d \in Runs : step[d] \notin {"idle", "ended"} /\ plan[d].parent \in Linked(S)
                      => d \in Linked(S)
  BY <1>1
<1> QED BY <1>1, <1>2, <1>3

\* Leaving the body and catching an error keep the types and the family.
LEMMA LeaveTyped ==
  ASSUME TypeOK, NEW e \in Runs, Leave(e)
  PROVE  /\ plan' \in [Runs -> Plans] /\ SameFamily
         /\ at' \in [Runs -> Hooks] /\ next' \in [Runs -> 1..(MaxScripts + 1)]
         /\ mocked' \subseteq Runs
<1>1. plan[e] \in Plans
  BY DEF TypeOK
<1>2. Planned(0, 0, plan[e].parent, plan[e].depth) \in Plans
  BY <1>1, ExecutionAssumptions DEF Plans, Planned
<1>3. plan' \in [Runs -> Plans] /\ SameFamily
  BY <1>2 DEF TypeOK, Leave, SameFamily, Planned
<1> QED BY <1>3, ExecutionAssumptions DEF TypeOK, Leave, Hooks

\* An error disposes of the session first, if there is one.
LEMMA ThrowFacts ==
  ASSUME TypeOK, NEW e \in Runs, Throw(e)
  PROVE  /\ step' = [step EXCEPT ![e] = IF e \in session THEN "closing" ELSE "reporting"]
         /\ failed' = IF e \in session THEN failed \cup {e} ELSE failed
         /\ \/ e \in session /\ finals' = finals
            \/ e \notin session /\ \E s \in {"cancelled", "failed"} : finals' = [finals EXCEPT ![e] = Append(@, s)]
         /\ plan' \in [Runs -> Plans] /\ SameFamily
         /\ at' \in [Runs -> Hooks] /\ next' \in [Runs -> 1..(MaxScripts + 1)]
         /\ mocked' \subseteq Runs
<1>1. CASE e \in session
  BY <1>1 DEF TypeOK, Throw, Go, Keep, SameFamily
<1>2. CASE e \notin session
  <2>1. Catch(e) /\ failed' = failed
    BY <1>2 DEF Throw
  <2> QED BY <1>2, <2>1, LeaveTyped DEF Catch, Go, Emit
<1> QED BY <1>1, <1>2

\* A terminal event is one of the known ones.
LEMMA EmitTyped ==
  ASSUME TypeOK, NEW e \in Runs, NEW s \in Statuses, Emit(e, s)
  PROVE  finals' \in [Runs -> Seq(Statuses)]
<1>1. Append(finals[e], s) \in Seq(Statuses)
  BY DEF TypeOK
<1> QED BY <1>1 DEF TypeOK, Emit

\* Catching and throwing keep the types of all they change.
LEMMA CatchTyped ==
  ASSUME TypeOK, NEW e \in Runs, Catch(e)
  PROVE  /\ step' = [step EXCEPT ![e] = "reporting"] /\ step' \in [Runs -> Steps]
         /\ finals' \in [Runs -> Seq(Statuses)]
         /\ plan' \in [Runs -> Plans] /\ SameFamily
         /\ at' \in [Runs -> Hooks] /\ next' \in [Runs -> 1..(MaxScripts + 1)]
         /\ mocked' \subseteq Runs
<1>1. PICK s \in {"cancelled", "failed"} : Emit(e, s)
  BY DEF Catch
<1>2. finals' \in [Runs -> Seq(Statuses)]
  BY <1>1, EmitTyped DEF Statuses
<1>3. step' = [step EXCEPT ![e] = "reporting"] /\ step' \in [Runs -> Steps]
  BY DEF TypeOK, Catch, Go, Steps
<1> QED BY <1>2, <1>3, LeaveTyped DEF Catch

LEMMA ThrowTyped ==
  ASSUME TypeOK, NEW e \in Runs, Throw(e)
  PROVE  /\ step' \in [Runs -> Steps] /\ failed' \subseteq Runs
         /\ finals' \in [Runs -> Seq(Statuses)]
         /\ plan' \in [Runs -> Plans]
         /\ at' \in [Runs -> Hooks] /\ next' \in [Runs -> 1..(MaxScripts + 1)]
         /\ mocked' \subseteq Runs
<1>1. CASE e \in session
  BY <1>1 DEF TypeOK, Throw, Go, Keep, Steps
<1>2. CASE e \notin session
  BY <1>2, CatchTyped DEF TypeOK, Throw
<1> QED BY <1>1, <1>2

\* Every step is a turn of one of these classes.
LEMMA Classified ==
  ASSUME TypeOK, Next
  PROVE  \/ \E e \in Runs : Abort(e) \/ Proceeds(e) \/ Fails(e) \/ HookEnds(e) \/ Others(e)
         \/ \E e \in Runs, c \in Nested : HostExecute(e, c)
         \/ \E c \in Nested : step[c] = "asked" /\ Refused(c)
<1> USE DEF Unreported, Fallible, Steps
<1>1. ASSUME NEW e \in Roots, Start(e) PROVE e \in Runs /\ Proceeds(e)
  BY <1>1, ExecutionAssumptions DEF Start, Proceeds, Runs
<1>2. ASSUME NEW e \in Runs, LoadFails(e) \/ OpenFails(e) \/ BuildFails(e) \/ SendFails(e)
                             \/ AnswerFails(e) \/ HookRejected(e)
      PROVE  Fails(e)
  BY <1>2 DEF Fails, LoadFails, OpenFails, BuildFails, SendFails, AnswerFails, HookRejected
<1>3. ASSUME NEW e \in Runs, Started(e) \/ Invoke(e) \/ Respond(e) PROVE Proceeds(e) \/ Fails(e)
  BY <1>3 DEF Started, Invoke, Respond, Proceeds, Fails
<1>4. ASSUME NEW e \in Runs, NEW k \in Hooks, NEW n \in 1..(MaxScripts + 2), Hook(e, k, n),
             step[e] \in {"building", "received"} \/ (step[e] = "hookDone" /\ e \notin aborted),
             step[e] = "building" => k = "onRequest"
      PROVE  Proceeds(e) \/ Fails(e)
  <2>1. plan[e] \in Plans /\ Count(e, k) \in 0..(MaxScripts + 1)
    BY ExecutionAssumptions DEF TypeOK, Plans, Count
  <2>2. CASE n <= Count(e, k)
    <3>1. n \in 1..(MaxScripts + 1) /\ Announce(e, k, n)
      BY <1>4, <2>1, <2>2, ExecutionAssumptions DEF Hook
    <3> QED BY <1>4, <3>1 DEF Proceeds
  <2>3. CASE ~(n <= Count(e, k)) /\ k = "onRequest"
    <3>1. Dispatch(e)
      BY <1>4, <2>3 DEF Hook, After
    <3> QED BY <1>4, <3>1 DEF Dispatch, Proceeds, Fails
  <2>4. CASE ~(n <= Count(e, k)) /\ k # "onRequest"
    <3>1. After(e, k)
      BY <1>4, <2>4 DEF Hook
    <3>2. \/ Step(e, "closing")
          \/ Announce(e, "onTest", 1)
      BY <2>4, <3>1 DEF After, Hooks
    <3>3. 1 \in 1..(MaxScripts + 1) /\ "onTest" \in Hooks
      BY ExecutionAssumptions DEF Hooks
    <3> QED BY <1>4, <2>4, <3>2, <3>3 DEF Proceeds
  <2> QED BY <2>2, <2>3, <2>4
<1>5. ASSUME NEW e \in Runs, NEW k \in {"onRequest", "onResponse"}, Phase(e, k),
             step[e] = IF k = "onRequest" THEN "building" ELSE "received"
      PROVE  Proceeds(e) \/ Fails(e)
  <2>1. CASE Scripted(e)
    <3>1. Hook(e, k, 1)
      BY <1>5, <2>1 DEF Phase
    <3>2. k \in Hooks /\ 1 \in 1..(MaxScripts + 2)
      BY ExecutionAssumptions DEF Hooks
    <3>3. /\ step[e] \in {"building", "received"} \/ (step[e] = "hookDone" /\ e \notin aborted)
          /\ step[e] = "building" => k = "onRequest"
      BY <1>5
    <3> QED BY <1>4, <3>1, <3>2, <3>3, Zenon
  <2>2. CASE ~Scripted(e)
    <3>1. IF k = "onRequest" THEN Dispatch(e) ELSE Step(e, "closing")
      BY <1>5, <2>2 DEF Phase
    <3> QED BY <1>5, <3>1 DEF Dispatch, Proceeds, Fails
  <2> QED BY <2>1, <2>2
<1>6. ASSUME NEW e \in Runs, HookDone(e) PROVE Proceeds(e) \/ Fails(e)
  <2>1. CASE e \in aborted
    BY <1>6, <2>1 DEF HookDone, Fails
  <2>2. CASE e \notin aborted /\ e \in mocked /\ at[e] = "onRequest"
    <3>1. Dispatch(e) /\ step[e] = "hookDone"
      BY <1>6, <2>2 DEF HookDone, After
    <3> QED BY <3>1 DEF Dispatch, Proceeds, Fails
  <2>3. CASE e \notin aborted /\ ~(e \in mocked /\ at[e] = "onRequest")
    <3>1. Hook(e, at[e], next[e] + 1) /\ step[e] = "hookDone"
      BY <1>6, <2>3 DEF HookDone
    <3>2. at[e] \in Hooks /\ next[e] + 1 \in 1..(MaxScripts + 2)
      BY ExecutionAssumptions DEF TypeOK
    <3> QED BY <1>4, <2>3, <3>1, <3>2
  <2> QED BY <2>1, <2>2, <2>3
<1>7. ASSUME NEW c \in Nested, Launch(c) PROVE Proceeds(c) \/ (step[c] = "asked" /\ Refused(c))
  <2>1. plan[c].depth \in Nat
    BY ExecutionAssumptions DEF TypeOK, Plans, Runs
  <2> QED BY <1>7, <2>1, ExecutionAssumptions DEF Launch, Proceeds
<1>8. ASSUME NEW e \in Runs, Build(e) \/ Answered(e) PROVE Proceeds(e) \/ Fails(e)
  BY <1>5, <1>8 DEF Build, Answered
<1>9. \A c \in Nested : c \in Runs
  BY DEF Runs
<1> QED BY <1>1, <1>2, <1>3, <1>5, <1>6, <1>7, <1>8, <1>9 DEF Next, HookEnds, Others, Refuse

-----------------------------------------------------------------------------
(* The parts of the invariant are kept.                                    *)

\* An abort is noted for runs only.
LEMMA AbortTyped ==
  ASSUME TypeOK, NEW S \in SUBSET Runs, AbortAll(S)
  PROVE  aborted' \subseteq Runs /\ early' \subseteq aborted' /\ aborted \subseteq aborted'
BY LinkedClosed DEF TypeOK, AbortAll

\* Types are kept, as long as runs under way are not too deep.
LEMMA TypeStep == TypeOK /\ DepthBounded /\ FinalsFit /\ [Next]_vars => TypeOK'
<1> SUFFICES ASSUME TypeOK, DepthBounded, FinalsFit, [Next]_vars PROVE TypeOK'
  OBVIOUS
<1> USE ExecutionAssumptions
<1>1. ASSUME NEW e \in Runs, Abort(e) PROVE TypeOK'
  BY <1>1, AbortTyped DEF TypeOK, Abort
<1>2. ASSUME NEW e \in Runs, Proceeds(e) PROVE TypeOK'
  <2>1. ASSUME NEW s \in Steps, Step(e, s) PROVE TypeOK'
    BY <2>1 DEF TypeOK, Step, Go, Keep
  <2>2. ASSUME NEW k \in Hooks, NEW n \in 1..(MaxScripts + 1), Announce(e, k, n) PROVE TypeOK'
    BY <2>2 DEF TypeOK, Announce, Go, Steps
  <2>3. Unreported \subseteq Steps
    BY DEF Unreported
  <2> QED BY <1>2, <2>1, <2>2, <2>3 DEF Proceeds, Steps
<1>3. ASSUME NEW e \in Runs, Fails(e) PROVE TypeOK'
  BY <1>3, ThrowTyped DEF TypeOK, Fails, Fail
<1>4. ASSUME NEW e \in Runs, HookReturns(e) PROVE TypeOK'
  <2>1. aborted' \subseteq Runs /\ early' \subseteq aborted'
    BY <1>4, AbortTyped DEF TypeOK, HookReturns
  <2>2. loose' \subseteq Nested /\ mocked' \subseteq Runs
    BY <1>4 DEF TypeOK, HookReturns, Children
  <2> QED BY <1>4, <2>1, <2>2 DEF TypeOK, HookReturns, Go, Steps
<1>5. ASSUME NEW e \in Runs, HookThrows(e) PROVE TypeOK'
  BY <1>5, ThrowTyped DEF TypeOK, HookThrows, Children
<1>6. ASSUME NEW e \in Runs, HookDies(e) PROVE TypeOK'
  <2>1. Children(e) \in SUBSET Runs
    BY DEF Children, Runs
  <2> QED BY <1>6, <2>1, AbortTyped, ThrowTyped DEF TypeOK, HookDies
<1>7. ASSUME NEW e \in Runs, Load(e) PROVE TypeOK'
  <2>1. plan[e] \in Plans
    BY DEF TypeOK
  <2>2. ASSUME NEW n \in 0..MaxScripts, NEW extra \in 0..1, NEW test \in BOOLEAN
        PROVE  Planned(n, IF test THEN n + extra ELSE 0, plan[e].parent, plan[e].depth) \in Plans
    BY <2>1 DEF Plans, Planned
  <2>3. PICK n \in 0..MaxScripts, extra \in 0..1, test \in BOOLEAN :
          plan' = [plan EXCEPT ![e] = Planned(n, IF test THEN n + extra ELSE 0, plan[e].parent, plan[e].depth)]
    BY <1>7 DEF Load
  <2>4. plan' \in [Runs -> Plans]
    BY <2>2, <2>3 DEF TypeOK
  <2> QED BY <1>7, <2>4 DEF TypeOK, Load, Go, Steps
<1>8. ASSUME NEW e \in Runs, Open(e) PROVE TypeOK'
  BY <1>8 DEF TypeOK, Open, Go, Steps
<1>9. ASSUME NEW e \in Runs, Close(e) PROVE TypeOK'
  <2>1. CASE e \in failed
    BY <1>9, <2>1, CatchTyped DEF TypeOK, Close
  <2>2. CASE e \notin failed
    <3>1. finals' \in [Runs -> Seq(Statuses)]
      BY <1>9, <2>2, EmitTyped DEF Close, Statuses
    <3> QED BY <1>9, <2>2, <3>1, LeaveTyped DEF TypeOK, Close, Go, Steps
  <2> QED BY <2>1, <2>2
<1>10. ASSUME NEW e \in Runs, Record(e) PROVE TypeOK'
  <2>1. finals[e][Len(finals[e])] \in Statuses
    <3>1. finals[e] \in Seq(Statuses) /\ Len(finals[e]) # 0
      BY <1>10 DEF TypeOK, FinalsFit, Fit, Record
    <3>2. Len(finals[e]) \in Nat /\ \A i \in 1..Len(finals[e]) : finals[e][i] \in Statuses
      BY <3>1
    <3> QED BY <3>1, <3>2
  <2> QED BY <1>10, <2>1 DEF TypeOK, Record, Go, Steps
<1>11. ASSUME NEW e \in Runs, RecordFails(e) PROVE TypeOK'
  <2>1. CASE step[e] = "announcing" /\ Catch(e) /\ UNCHANGED result
    BY <1>11, <2>1, CatchTyped DEF TypeOK, RecordFails
  <2>2. CASE ~(step[e] = "announcing" /\ Catch(e) /\ UNCHANGED result)
    BY <1>11, <2>2 DEF TypeOK, RecordFails, Keep, Go, Steps
  <2> QED BY <2>1, <2>2
<1>12. ASSUME NEW e \in Runs, NEW c \in Nested, HostExecute(e, c) PROVE TypeOK'
  <2>1. plan[e] \in Plans /\ plan[e].depth <= MaxDepth
    BY <1>12 DEF TypeOK, DepthBounded, HostExecute
  <2>2. Planned(0, 0, e, plan[e].depth + 1) \in Plans
    BY <2>1 DEF Plans, Planned
  <2> QED BY <1>12, <2>2 DEF TypeOK, HostExecute, Go, Steps
<1>13. ASSUME NEW c \in Nested, Refused(c) PROVE TypeOK'
  BY <1>13 DEF TypeOK, Refused, Go, Steps
<1>14. CASE UNCHANGED vars
  BY <1>14 DEF TypeOK, vars
<1> QED BY <1>1, <1>2, <1>3, <1>4, <1>5, <1>6, <1>7, <1>8, <1>9, <1>10, <1>11, <1>12, <1>13, <1>14,
           Classified DEF HookEnds, Others

\* A turn changes the step of its own run only, and the family of none.
LEMMA TurnFacts ==
  ASSUME TypeOK, NEW e \in Runs, Proceeds(e) \/ Fails(e) \/ HookEnds(e) \/ Others(e)
  PROVE  /\ SameFamily
         /\ \A d \in Runs : d # e => step'[d] = step[d]
         /\ step'[e] \notin {"idle", "asked"} /\ step[e] # "ended"
         /\ step[e] \in {"idle", "asked"} => Proceeds(e)
<1>1. CASE Proceeds(e)
  <2>1. SameFamily /\ step[e] # "ended"
    BY <1>1 DEF Proceeds, SameFamily, Step, Announce, Keep, Unreported
  <2> QED BY <1>1, <2>1 DEF TypeOK, Proceeds, Unreported, Steps, Step, Announce, Go
<1>2. CASE Fails(e) \/ HookThrows(e) \/ HookDies(e)
  <2>1. Throw(e) /\ step[e] \in Fallible
    BY <1>2 DEF Fails, Fallible, Fail, HookThrows, HookDies
  <2> QED BY <2>1, ThrowFacts DEF TypeOK, Fallible
<1>3. CASE HookReturns(e)
  BY <1>3 DEF TypeOK, HookReturns, Go, SameFamily
<1>4. CASE Load(e)
  BY <1>4 DEF TypeOK, Load, Go, SameFamily, Planned
<1>5. CASE Open(e)
  BY <1>5 DEF TypeOK, Open, Go, SameFamily
<1>6. CASE Close(e)
  <2>1. CASE e \in failed
    BY <1>6, <2>1, CatchTyped DEF TypeOK, Close
  <2>2. CASE e \notin failed
    BY <1>6, <2>2, LeaveTyped DEF TypeOK, Close, Go
  <2> QED BY <2>1, <2>2
<1>7. CASE Record(e)
  BY <1>7 DEF TypeOK, Record, Go, SameFamily
<1>8. CASE RecordFails(e)
  <2>1. CASE step[e] = "announcing" /\ Catch(e) /\ UNCHANGED result
    BY <1>8, <2>1, CatchTyped DEF TypeOK, RecordFails
  <2>2. CASE ~(step[e] = "announcing" /\ Catch(e) /\ UNCHANGED result)
    BY <1>8, <2>2 DEF TypeOK, RecordFails, Keep, Go, SameFamily
  <2> QED BY <2>1, <2>2
<1> QED BY <1>1, <1>2, <1>3, <1>4, <1>5, <1>6, <1>7, <1>8 DEF HookEnds, Others

\* Runs under way are not too deep, and nested ones have parents.
LEMMA FamilyStep ==
  ASSUME TypeOK, DepthBounded, NestedHaveParents, [Next]_vars
  PROVE  DepthBounded' /\ NestedHaveParents'
<1> USE ExecutionAssumptions DEF DepthBounded, NestedHaveParents
<1>0. \A c \in Nested : c \in Runs
  BY DEF Runs
<1>1. ASSUME NEW e \in Runs, Abort(e) PROVE DepthBounded' /\ NestedHaveParents'
  BY <1>1 DEF Abort
<1>2. ASSUME NEW e \in Runs, Proceeds(e) \/ Fails(e) \/ HookEnds(e) \/ Others(e)
      PROVE  DepthBounded' /\ NestedHaveParents'
  <2>1. step[e] = "asked" => plan[e].depth <= MaxDepth
    BY <1>2, TurnFacts DEF TypeOK, Proceeds, Step, Go, Unreported, Steps
  <2>2. e \in Nested => step[e] # "idle"
    BY <1>2, TurnFacts DEF TypeOK, Proceeds, Step, Go, Unreported, Steps
  <2>3. DepthBounded'
    BY <1>2, <2>1, TurnFacts DEF SameFamily
  <2>4. NestedHaveParents'
    BY <1>0, <1>2, <2>2, TurnFacts DEF SameFamily
  <2> QED BY <2>3, <2>4
<1>3. ASSUME NEW e \in Runs, NEW c \in Nested, HostExecute(e, c)
      PROVE  DepthBounded' /\ NestedHaveParents'
  BY <1>0, <1>3 DEF TypeOK, HostExecute, Go, Planned
<1>4. ASSUME NEW c \in Nested, step[c] = "asked", Refused(c)
      PROVE  DepthBounded' /\ NestedHaveParents'
  BY <1>0, <1>4 DEF TypeOK, Refused, Go
<1>5. CASE UNCHANGED vars
  BY <1>5 DEF vars
<1> QED BY <1>1, <1>2, <1>3, <1>4, <1>5, Classified

\* No step leaves a session behind.
LEMMA SessionStep ==
  ASSUME TypeOK, SessionsAreDisposed, [Next]_vars
  PROVE  SessionsAreDisposed'
<1> USE DEF SessionsAreDisposed, TypeOK
<1>0. \A c \in Nested : c \in Runs
  BY DEF Runs
<1>1. ASSUME NEW e \in Runs, Abort(e) PROVE SessionsAreDisposed'
  BY <1>1 DEF Abort
<1>2. ASSUME NEW e \in Runs, Proceeds(e) PROVE SessionsAreDisposed'
  <2>1. /\ session' = session /\ \A d \in Runs : d # e => step'[d] = step[d]
        /\ step'[e] \in Unreported \ {"idle", "asked", "started"}
        /\ step'[e] = "loading" => step[e] \in {"idle", "asked"}
        /\ step'[e] = "opening" => step[e] = "started"
    BY <1>2 DEF Proceeds, Unreported, Steps, Step, Announce, Go
  <2> QED BY <2>1 DEF Unreported, Steps
<1>3. ASSUME NEW e \in Runs, Fails(e) \/ HookThrows(e) \/ HookDies(e) PROVE SessionsAreDisposed'
  BY <1>3, ThrowFacts DEF Fails, Fail, HookThrows, HookDies
<1>4. ASSUME NEW e \in Runs, HookReturns(e) \/ Open(e) \/ Load(e) PROVE SessionsAreDisposed'
  <2>1. CASE HookReturns(e)
    BY <2>1 DEF HookReturns, Go
  <2>2. CASE Open(e)
    BY <2>2 DEF Open, Go
  <2>3. CASE Load(e)
    BY <2>3 DEF Load, Go
  <2> QED BY <1>4, <2>1, <2>2, <2>3
<1>5. ASSUME NEW e \in Runs, Close(e) \/ Record(e) \/ RecordFails(e) PROVE SessionsAreDisposed'
  BY <1>5, TurnFacts DEF Close, Record, RecordFails, Others
<1>6. ASSUME NEW e \in Runs, NEW c \in Nested, HostExecute(e, c) PROVE SessionsAreDisposed'
  BY <1>0, <1>6 DEF HostExecute, Go
<1>7. ASSUME NEW c \in Nested, step[c] = "asked", Refused(c) PROVE SessionsAreDisposed'
  BY <1>0, <1>7 DEF Refused, Go
<1>8. CASE UNCHANGED vars
  BY <1>8 DEF vars
<1> QED BY <1>1, <1>2, <1>3, <1>4, <1>5, <1>6, <1>7, <1>8, Classified DEF HookEnds, Others

\* One event more.
LEMMA EmitAdds ==
  ASSUME TypeOK, NEW e \in Runs, NEW s \in Statuses, Emit(e, s)
  PROVE  /\ finals'[e][Len(finals'[e])] = s
         /\ Len(finals[e]) = 0 => Len(finals'[e]) = 1 /\ finals'[e][1] = s
         /\ Len(finals[e]) = 1 =>
              Len(finals'[e]) = 2 /\ finals'[e][1] = finals[e][1] /\ finals'[e][2] = s
         /\ \A d \in Runs : d # e => finals'[d] = finals[d]
<1>1. finals[e] \in Seq(Statuses)
  BY DEF TypeOK
<1>2. finals'[e] = Append(finals[e], s) /\ \A d \in Runs : d # e => finals'[d] = finals[d]
  BY DEF TypeOK, Emit
<1>3. ASSUME NEW f \in Seq(Statuses)
      PROVE  /\ Len(Append(f, s)) = Len(f) + 1 /\ Append(f, s)[Len(f) + 1] = s
             /\ \A i \in 1..Len(f) : Append(f, s)[i] = f[i]
  BY <1>3
<1>4. ASSUME NEW f \in Seq(Statuses), Len(f) = 0
      PROVE  Len(Append(f, s)) = 1 /\ Append(f, s)[1] = s
  BY <1>4
<1>5. ASSUME NEW f \in Seq(Statuses), Len(f) = 1
      PROVE  Len(Append(f, s)) = 2 /\ Append(f, s)[1] = f[1] /\ Append(f, s)[2] = s
  <2>1. Len(f) + 1 = 2 /\ 1 \in 1..Len(f)
    BY <1>5
  <2> QED BY <1>3, <1>5, <2>1
<1> QED BY <1>1, <1>2, <1>3, <1>4, <1>5

\* The catch block adds an event that reports a failure.
LEMMA CatchReports ==
  ASSUME TypeOK, NEW e \in Runs, Catch(e)
  PROVE  /\ finals'[e][Len(finals'[e])] # "completed"
         /\ Len(finals[e]) = 0 => Len(finals'[e]) = 1 /\ finals'[e][1] # "completed"
         /\ Len(finals[e]) = 1 =>
              Len(finals'[e]) = 2 /\ finals'[e][1] = finals[e][1] /\ finals'[e][2] # "completed"
         /\ step'[e] = "reporting"
         /\ \A d \in Runs : d # e => finals'[d] = finals[d] /\ step'[d] = step[d]
<1>1. step'[e] = "reporting" /\ \A d \in Runs : d # e => step'[d] = step[d]
  BY DEF TypeOK, Catch, Go
<1>2. PICK s \in Statuses : Emit(e, s) /\ s # "completed"
  BY DEF Catch, Statuses
<1> QED BY <1>1, <1>2, EmitAdds

\* What throwing does to the events: none before the session is disposed of.
LEMMA ThrowReports ==
  ASSUME TypeOK, FinalsFit, NEW e \in Runs, Throw(e), step[e] \in Unreported
  PROVE  /\ \A d \in Runs : d # e => step'[d] = step[d] /\ finals'[d] = finals[d]
         /\ \/ step'[e] = "closing" /\ Len(finals'[e]) = 0 /\ e \in failed'
            \/ /\ step'[e] = "reporting" /\ Len(finals'[e]) = 1
               /\ finals'[e][1] # "completed" /\ finals'[e][Len(finals'[e])] # "completed"
         /\ failed \subseteq failed'
<1>1. Len(finals[e]) = 0
  BY DEF FinalsFit, Fit
<1>2. CASE e \in session
  BY <1>1, <1>2 DEF TypeOK, Throw, Go
<1>3. CASE e \notin session
  BY <1>1, <1>3, CatchReports DEF Throw
<1> QED BY <1>2, <1>3

\* Events, results and history fit the step of each run.
LEMMA FinalsStep ==
  ASSUME TypeOK, FinalsFit, [Next]_vars
  PROVE  FinalsFit'
<1> USE DEF TypeOK, FinalsFit
<1>0. \A c \in Nested : c \in Runs
  BY DEF Runs
<1>1. ASSUME NEW e \in Runs,
             \A d \in Runs : d # e => /\ step'[d] = step[d] /\ finals'[d] = finals[d]
                                      /\ result'[d] = result[d] /\ history'[d] = history[d],
             Fit(step'[e], finals'[e], result'[e], history'[e])
      PROVE  FinalsFit'
  BY <1>1
<1>2. ASSUME NEW e \in Runs, UNCHANGED <<finals, result, history>>,
             \A d \in Runs : d # e => step'[d] = step[d],
             step[e] \in Unreported, step'[e] \in Unreported
      PROVE  FinalsFit'
  <2>1. Fit(step'[e], finals'[e], result'[e], history'[e])
    BY <1>2 DEF Fit, Unreported, Steps
  <2> QED BY <1>1, <1>2, <2>1
<1>3. ASSUME NEW e \in Runs, Abort(e) PROVE FinalsFit'
  BY <1>3 DEF Abort
<1>4. ASSUME NEW e \in Runs, Proceeds(e) \/ HookReturns(e) \/ Open(e) \/ Load(e) PROVE FinalsFit'
  <2>1. CASE Proceeds(e)
    <3>1. /\ UNCHANGED <<finals, history, result>> /\ \A d \in Runs : d # e => step'[d] = step[d]
          /\ step[e] \in Unreported /\ step'[e] \in Unreported
      BY <2>1 DEF Proceeds, Unreported, Steps, Step, Announce, Go
    <3> QED BY <1>2, <3>1
  <2>2. CASE HookReturns(e) \/ Open(e) \/ Load(e)
    BY <1>2, <2>2 DEF HookReturns, Open, Load, Go, Unreported, Steps
  <2> QED BY <1>4, <2>1, <2>2
<1>5. ASSUME NEW e \in Runs, Fails(e) \/ HookThrows(e) \/ HookDies(e) PROVE FinalsFit'
  <2>1. Throw(e) /\ step[e] \in Unreported /\ UNCHANGED <<result, history>>
    BY <1>5 DEF Fails, Fallible, Fail, HookThrows, HookDies, Unreported, Steps
  <2>2. result[e] \notin Statuses
    BY <2>1 DEF Fit, Unreported
  <2>3. Fit(step'[e], finals'[e], result'[e], history'[e])
    <3>1. \/ step'[e] = "closing" /\ Len(finals'[e]) = 0
          \/ /\ step'[e] = "reporting" /\ Len(finals'[e]) = 1
             /\ finals'[e][Len(finals'[e])] # "completed"
      BY <2>1, ThrowReports
    <3>2. result'[e] \notin Statuses
      BY <2>1, <2>2
    <3> HIDE DEF TypeOK, FinalsFit
    <3> QED BY <3>1, <3>2 DEF Fit, Unreported
  <2> QED BY <1>1, <2>1, <2>3, ThrowReports
<1>6. ASSUME NEW e \in Runs, Close(e) PROVE FinalsFit'
  <2>1. Len(finals[e]) = 0 /\ result[e] \notin Statuses /\ result' = result /\ history' = history
    BY <1>6 DEF Close, Fit, Unreported, Steps
  <2>2. CASE e \in failed
    <3>1. Fit(step'[e], finals'[e], result'[e], history'[e])
      <4>1. Catch(e)
        BY <1>6, <2>2 DEF Close
      <4>2. step'[e] = "reporting" /\ Len(finals'[e]) = 1 /\ finals'[e][Len(finals'[e])] # "completed"
        BY <2>1, <4>1, CatchReports
      <4>3. result'[e] \notin Statuses
        BY <2>1
      <4> HIDE DEF TypeOK, FinalsFit
      <4> QED BY <4>2, <4>3 DEF Fit, Unreported
    <3>2. Catch(e)
      BY <1>6, <2>2 DEF Close
    <3> HIDE DEF TypeOK
    <3> QED BY <1>1, <2>1, <3>1, <3>2, CatchReports
  <2>3. CASE e \notin failed
    <3>1. Emit(e, "completed") /\ Go(e, "announcing")
      BY <1>6, <2>3 DEF Close
    <3>2. Fit(step'[e], finals'[e], result'[e], history'[e])
      <4>1. step'[e] = "announcing" /\ Len(finals'[e]) = 1 /\ finals'[e][1] = "completed"
        BY <2>1, <3>1, EmitAdds DEF Go, Statuses
      <4>2. result'[e] \notin Statuses
        BY <2>1
      <4> HIDE DEF TypeOK, FinalsFit
      <4> QED BY <4>1, <4>2 DEF Fit, Unreported
    <3> QED BY <1>1, <2>1, <3>1, <3>2, EmitAdds DEF Go, Statuses
  <2> QED BY <2>2, <2>3
<1>7. ASSUME NEW e \in Runs, Record(e) PROVE FinalsFit'
  <2>1. Len(finals[e]) # 0 /\ step'[e] = "ended" /\ finals' = finals
    BY <1>7 DEF Record, Go, Fit
  <2>2. result'[e] = finals[e][Len(finals[e])] /\ history'[e] = finals[e][Len(finals[e])]
    BY <1>7 DEF Record
  <2>3. \A d \in Runs : d # e => step'[d] = step[d] /\ result'[d] = result[d] /\ history'[d] = history[d]
    BY <1>7 DEF Record, Go
  <2>4. Fit(step'[e], finals'[e], result'[e], history'[e])
    BY <2>1, <2>2 DEF Fit, Unreported, Steps
  <2> QED BY <1>1, <2>1, <2>3, <2>4
<1>8. ASSUME NEW e \in Runs, RecordFails(e) PROVE FinalsFit'
  <2>1. CASE step[e] = "announcing" /\ Catch(e) /\ UNCHANGED result
    <3>1. Len(finals[e]) = 1 /\ finals[e][1] = "completed" /\ result[e] \notin Statuses
      BY <2>1 DEF Fit
    <3>2. Fit(step'[e], finals'[e], result'[e], history'[e])
      BY <2>1, <3>1, CatchReports DEF Fit, Unreported
    <3> QED BY <1>1, <1>8, <2>1, <3>2, CatchReports DEF RecordFails
  <2>2. CASE ~(step[e] = "announcing" /\ Catch(e) /\ UNCHANGED result)
    <3>1. /\ step'[e] = "ended" /\ result'[e] = "rejected"
          /\ UNCHANGED <<finals, history>>
          /\ \A d \in Runs : d # e => step'[d] = step[d] /\ result'[d] = result[d]
      BY <1>8, <2>2 DEF RecordFails, Go
    <3>2. Fit(step'[e], finals'[e], result'[e], history'[e])
      BY <3>1 DEF Fit, Unreported, Statuses
    <3> QED BY <1>1, <3>1, <3>2
  <2> QED BY <2>1, <2>2
<1>9. ASSUME NEW e \in Runs, NEW c \in Nested, HostExecute(e, c) PROVE FinalsFit'
  BY <1>0, <1>2, <1>9 DEF HostExecute, Go, Unreported, Steps
<1>10. ASSUME NEW c \in Nested, step[c] = "asked", Refused(c) PROVE FinalsFit'
  <2>1. /\ step'[c] = "ended" /\ result'[c] = "rejected" /\ UNCHANGED <<finals, history>>
        /\ \A d \in Runs : d # c => step'[d] = step[d] /\ result'[d] = result[d]
    BY <1>0, <1>10 DEF Refused, Go
  <2>2. Fit(step'[c], finals'[c], result'[c], history'[c])
    BY <1>0, <2>1 DEF Fit, Unreported, Statuses
  <2> QED BY <1>0, <1>1, <2>1, <2>2
<1>11. CASE UNCHANGED vars
  BY <1>11 DEF vars
<1> QED BY <1>3, <1>4, <1>5, <1>6, <1>7, <1>8, <1>9, <1>10, <1>11, Classified DEF HookEnds, Others

\* Whom an abort of S reaches while a check lies ahead.
LEMMA AbortReaches ==
  ASSUME TypeOK, FinalsFit, NEW S \in SUBSET Runs, AbortAll(S),
         \A d \in S : step[d] \notin {"idle", "ended"}
  PROVE  \A d \in early' \ early :
           /\ Len(finals[d]) = 0 /\ d \in Runs
           /\ step[d] \notin {"received", "closing", "announcing", "reporting", "ended"}
<1>1. \A d \in early' \ early : d \in Linked(S) /\ step[d] \notin Unchecked
  BY DEF AbortAll
<1>2. \A d \in early' \ early : d \in Runs /\ step[d] \notin {"idle", "ended"} \cup Unchecked
  BY <1>1, LinkedClosed
<1> QED BY <1>2 DEF TypeOK, FinalsFit, Fit, Unchecked, Unreported, Steps

\* A run that is aborted early stays on its way to a failure.
LEMMA EarlyStep ==
  ASSUME TypeOK, FinalsFit, EarlyRunsFail, [Next]_vars
  PROVE  EarlyRunsFail'
<1> USE DEF TypeOK, EarlyRunsFail
<1>0. \A c \in Nested : c \in Runs
  BY DEF Runs
<1>1. ASSUME NEW e \in Runs, Abort(e) PROVE EarlyRunsFail'
  <2>1. AbortAll({e}) /\ {e} \in SUBSET Runs /\ step[e] \notin {"idle", "ended"}
    BY <1>1 DEF Abort, Active
  <2>2. \A d \in early' \ early : Len(finals[d]) = 0 /\ d \in Runs
           /\ step[d] \notin {"received", "closing", "announcing", "reporting", "ended"}
    BY <2>1, AbortReaches
  <2> QED BY <1>1, <2>2 DEF Abort
<1>2. ASSUME NEW e \in Runs, Proceeds(e) PROVE EarlyRunsFail'
  <2>1. /\ UNCHANGED <<early, failed, finals>> /\ \A d \in Runs : d # e => step'[d] = step[d]
        /\ e \in aborted /\ step'[e] \in {"received", "closing"} => step[e] = "received"
        /\ step'[e] # "announcing"
    BY <1>2 DEF Proceeds, Unreported, Steps, Step, Announce, Go
  <2> QED BY <2>1
<1>3. ASSUME NEW e \in Runs, Fails(e) \/ HookThrows(e) PROVE EarlyRunsFail'
  <2>1. Throw(e) /\ step[e] \in Unreported /\ early' = early
    BY <1>3 DEF Fails, Fallible, Fail, HookThrows, Unreported, Steps
  <2> QED BY <2>1, ThrowReports
<1>4. ASSUME NEW e \in Runs, HookDies(e) PROVE EarlyRunsFail'
  <2>1. Throw(e) /\ step[e] \in Unreported /\ AbortAll(Children(e))
    BY <1>4 DEF HookDies, Unreported, Steps
  <2>2. Children(e) \in SUBSET Runs /\ \A d \in Children(e) : step[d] \notin {"idle", "ended"}
    BY DEF Children, Runs
  <2>3. \A d \in early' \ early : Len(finals[d]) = 0 /\ d \in Runs
           /\ step[d] \notin {"received", "closing", "announcing", "reporting", "ended"}
    BY <2>1, <2>2, AbortReaches
  <2>4. early \subseteq Runs
    OBVIOUS
  <2>5. /\ \A d \in Runs : d # e => step'[d] = step[d] /\ finals'[d] = finals[d]
        /\ step'[e] \notin {"received", "announcing"}
        /\ step'[e] = "closing" => e \in failed'
        /\ Len(finals'[e]) \in {0, 1}
        /\ Len(finals'[e]) = 1 => finals'[e][1] # "completed"
        /\ failed \subseteq failed'
    BY <2>1, ThrowReports
  <2>6. ASSUME NEW d \in early', d # e
        PROVE  /\ step'[d] \notin {"received", "announcing"}
               /\ step'[d] = "closing" => d \in failed'
               /\ Len(finals'[d]) \in {0, 1}
               /\ Len(finals'[d]) = 1 => finals'[d][1] # "completed"
    <3>1. d \in Runs /\ step'[d] = step[d] /\ finals'[d] = finals[d]
      BY <2>3, <2>4, <2>5, <2>6
    <3>2. CASE d \in early
      BY <2>5, <3>1, <3>2
    <3>3. CASE d \notin early
      BY <2>3, <3>1, <3>3
    <3> QED BY <3>2, <3>3
  <2> QED BY <2>5, <2>6
<1>5. ASSUME NEW e \in Runs, HookReturns(e) PROVE EarlyRunsFail'
  <2>1. \A d \in early' \ early : Len(finals[d]) = 0 /\ d \in Runs
           /\ step[d] \notin {"received", "closing", "announcing", "reporting", "ended"}
    <3>1. CASE AbortAll({e})
      BY <1>5, <3>1, AbortReaches DEF HookReturns
    <3>2. CASE UNCHANGED <<aborted, early>>
      BY <3>2
    <3> QED BY <1>5, <3>1, <3>2 DEF HookReturns
  <2> QED BY <1>5, <2>1 DEF HookReturns, Go
<1>6. ASSUME NEW e \in Runs, Open(e) \/ Load(e) \/ Record(e) PROVE EarlyRunsFail'
  BY <1>6 DEF Open, Load, Record, Go
<1>7. ASSUME NEW e \in Runs, Close(e) PROVE EarlyRunsFail'
  <2>1. Len(finals[e]) = 0 /\ early' = early
    BY <1>7 DEF Close, FinalsFit, Fit, Unreported, Steps
  <2>2. e \in early => step'[e] = "reporting" /\ Len(finals'[e]) = 1 /\ finals'[e][1] # "completed"
    BY <1>7, <2>1, CatchReports DEF Close
  <2>3. \A d \in Runs : d # e => step'[d] = step[d] /\ finals'[d] = finals[d]
                                /\ (d \in failed' <=> d \in failed)
    BY <1>7, CatchReports, EmitAdds DEF Close, Go, Statuses
  <2> QED BY <2>1, <2>2, <2>3
<1>8. ASSUME NEW e \in Runs, RecordFails(e) PROVE EarlyRunsFail'
  <2>1. CASE step[e] = "announcing" /\ Catch(e) /\ UNCHANGED result
    <3>1. e \notin early /\ early' = early /\ failed' = failed
      BY <1>8, <2>1 DEF RecordFails
    <3>2. \A d \in Runs : d # e => step'[d] = step[d] /\ finals'[d] = finals[d]
      BY <2>1, CatchReports
    <3> QED BY <3>1, <3>2
  <2>2. CASE ~(step[e] = "announcing" /\ Catch(e) /\ UNCHANGED result)
    BY <1>8, <2>2 DEF RecordFails, Go
  <2> QED BY <2>1, <2>2
<1>9. ASSUME NEW e \in Runs, NEW c \in Nested, HostExecute(e, c) PROVE EarlyRunsFail'
  BY <1>0, <1>9 DEF HostExecute, Go
<1>10. ASSUME NEW c \in Nested, step[c] = "asked", Refused(c) PROVE EarlyRunsFail'
  BY <1>0, <1>10 DEF Refused, Go
<1>11. CASE UNCHANGED vars
  BY <1>11 DEF vars
<1> QED BY <1>1, <1>2, <1>3, <1>4, <1>5, <1>6, <1>7, <1>8, <1>9, <1>10, <1>11, Classified
        DEF HookEnds, Others

\* An aborted run stays aborted, and so do the nested runs below it.
LEMMA ChildrenStep ==
  ASSUME TypeOK, NestedHaveParents, AbortReachesChildren, ChildrenRunInsideTheirHook, [Next]_vars
  PROVE  AbortReachesChildren' /\ ChildrenRunInsideTheirHook' /\ aborted \subseteq aborted'
<1> DEFINE Under(d) == step[d] \notin {"idle", "ended"}
           Goal == AbortReachesChildren' /\ ChildrenRunInsideTheirHook' /\ aborted \subseteq aborted'
<1> USE DEF AbortReachesChildren, ChildrenRunInsideTheirHook
<1>0. \A c \in Nested : c \in Runs
  BY DEF Runs
\* A turn of e that aborts nobody, and leaves no hook or the hook of an aborted run.
<1>1. ASSUME NEW e \in Runs, SameFamily, aborted' = aborted, loose' = loose,
             \A d \in Runs : d # e => step'[d] = step[d],
             Under(e) \/ e \notin Nested, step[e] = "inHook" => e \in aborted
      PROVE  Goal
  <2>1. ASSUME NEW c \in Nested, step'[c] \notin {"idle", "ended"}
        PROVE  /\ Under(c) /\ plan'[c].parent = plan[c].parent /\ plan[c].parent \in Runs
    BY <1>0, <1>1, <2>1 DEF SameFamily, NestedHaveParents
  <2>2. AbortReachesChildren'
    BY <1>1, <2>1
  <2>3. ASSUME NEW c \in Nested, step'[c] \notin {"idle", "ended"}, c \notin loose \cup aborted
        PROVE  step'[plan[c].parent] = "inHook"
    <3>1. step[plan[c].parent] = "inHook" /\ plan[c].parent \notin aborted
      BY <2>1, <2>3
    <3> QED BY <1>1, <2>1, <2>3, <3>1
  <2> QED BY <1>1, <2>1, <2>2, <2>3
\* A step that aborts the controllers of S and those linked to them, and whose
\* run leaves its hook with all its nested runs loose or aborted.
<1>2. ASSUME NEW e \in Runs, SameFamily, NEW S \in SUBSET Runs, AbortAll(S),
             \A d \in Runs : d # e => step'[d] = step[d], Under(e),
             loose \subseteq loose',
             step'[e] = step[e] \/ Children(e) \subseteq loose' \cup aborted'
      PROVE  Goal
  <2>1. ASSUME NEW c \in Nested, step'[c] \notin {"idle", "ended"}
        PROVE  /\ Under(c) /\ plan'[c].parent = plan[c].parent /\ plan[c].parent \in Runs
    BY <1>0, <1>2, <2>1 DEF SameFamily, NestedHaveParents
  <2>2. aborted' = aborted \cup Linked(S)
    BY <1>2 DEF AbortAll
  <2>3. AbortReachesChildren'
    BY <1>0, <1>2, <2>1, <2>2, LinkedClosed
  <2>4. ASSUME NEW c \in Nested, step'[c] \notin {"idle", "ended"}, c \notin loose' \cup aborted'
        PROVE  step'[plan[c].parent] = "inHook"
    <3>1. c \notin loose \cup aborted /\ step[plan[c].parent] = "inHook"
      BY <1>2, <2>1, <2>2, <2>4
    <3>2. plan[c].parent # e \/ step'[e] = step[e]
      BY <1>2, <2>1, <2>4, <3>1 DEF Children
    <3> QED BY <1>2, <2>1, <2>4, <3>1, <3>2
  <2> QED BY <2>1, <2>2, <2>3, <2>4
<1>3. ASSUME NEW e \in Runs, Abort(e) PROVE Goal
  <2>1. /\ AbortAll({e}) /\ {e} \in SUBSET Runs /\ Under(e) /\ step' = step /\ loose' = loose
        /\ SameFamily
    BY <1>3 DEF Abort, Active, SameFamily
  <2> QED BY <1>2, <2>1
<1>4. ASSUME NEW e \in Runs, Proceeds(e) PROVE Goal
  <2>1. /\ aborted' = aborted /\ loose' = loose /\ step[e] # "inHook"
        /\ Under(e) \/ e \notin Nested
    BY <1>4 DEF Proceeds, Step, Announce, Unreported
  <2> QED BY <1>1, <1>4, <2>1, TurnFacts
<1>5. ASSUME NEW e \in Runs, Fails(e) \/ Others(e) PROVE Goal
  <2>1. aborted' = aborted /\ loose' = loose /\ (step[e] = "inHook" => e \in aborted)
    BY <1>5 DEF Fails, Fail, Others, Load, Open, Close, Record, RecordFails
  <2>2. Under(e)
    BY <1>5 DEF Fails, Fallible, Others, Load, Open, Close, Record, RecordFails
  <2> QED BY <1>1, <1>5, <2>1, <2>2, TurnFacts
<1>6. ASSUME NEW e \in Runs, HookReturns(e) \/ HookThrows(e) PROVE Goal
  <2>1. /\ loose' = loose \cup Children(e) /\ Under(e) /\ {} \in SUBSET Runs /\ {e} \in SUBSET Runs
        /\ AbortAll({e}) \/ UNCHANGED <<aborted, early>>
    BY <1>6 DEF HookReturns, HookThrows
  <2>2. SameFamily /\ \A d \in Runs : d # e => step'[d] = step[d]
    BY <1>6, TurnFacts DEF HookEnds
  <2>3. CASE AbortAll({e})
    BY <1>2, <2>1, <2>2, <2>3
  <2>4. CASE aborted' = aborted
    <3>1. ASSUME NEW c \in Nested, step'[c] \notin {"idle", "ended"}
          PROVE  /\ Under(c) /\ plan'[c].parent = plan[c].parent /\ plan[c].parent \in Runs
      BY <1>0, <2>1, <2>2, <3>1 DEF SameFamily, NestedHaveParents
    <3>2. AbortReachesChildren'
      BY <2>4, <3>1
    <3>3. ASSUME NEW c \in Nested, step'[c] \notin {"idle", "ended"}, c \notin loose' \cup aborted'
          PROVE  step'[plan[c].parent] = "inHook"
      <4>1. c \notin loose \cup aborted /\ step[plan[c].parent] = "inHook"
        BY <2>1, <2>4, <3>1, <3>3
      <4>2. plan[c].parent # e
        BY <2>1, <3>1, <3>3, <4>1 DEF Children
      <4> QED BY <2>2, <3>1, <3>3, <4>1, <4>2
    <3> QED BY <2>4, <3>1, <3>2, <3>3
  <2> QED BY <2>1, <2>3, <2>4
<1>7. ASSUME NEW e \in Runs, HookDies(e) PROVE Goal
  <2>1. /\ AbortAll(Children(e)) /\ Children(e) \in SUBSET Runs /\ Under(e) /\ loose' = loose
    BY <1>7 DEF HookDies, Children, Runs
  <2>2. Children(e) \subseteq aborted'
    BY <2>1, LinkedClosed DEF AbortAll
  <2> QED BY <1>2, <1>7, <2>1, <2>2, TurnFacts DEF HookEnds
<1>8. ASSUME NEW e \in Runs, NEW c \in Nested, HostExecute(e, c) PROVE Goal
  <2>1. /\ step[e] = "inHook" /\ e \notin aborted /\ step[c] = "idle" /\ c \in Runs /\ c # e
        /\ step' = [step EXCEPT ![c] = "asked"] /\ aborted' = aborted /\ loose' = loose
        /\ plan'[c].parent = e /\ \A d \in Runs : d # c => plan'[d] = plan[d]
    BY <1>0, <1>8 DEF TypeOK, HostExecute, Go, Planned
  <2>2. ASSUME NEW d \in Nested, d # c, step'[d] \notin {"idle", "ended"}
        PROVE  Under(d) /\ plan'[d] = plan[d] /\ d \in Runs /\ plan[d].parent \in Runs
    BY <1>0, <2>1, <2>2 DEF TypeOK, NestedHaveParents
  <2>3. AbortReachesChildren'
    BY <2>1, <2>2
  <2>4. ASSUME NEW d \in Nested, step'[d] \notin {"idle", "ended"}, d \notin loose' \cup aborted'
        PROVE  step'[plan'[d].parent] = "inHook"
    <3>1. CASE d = c
      BY <2>1, <3>1 DEF TypeOK
    <3>2. CASE d # c
      <4>1. step[plan[d].parent] = "inHook"
        BY <2>1, <2>2, <2>4, <3>2
      <4> QED BY <2>1, <2>2, <2>4, <3>2, <4>1 DEF TypeOK
    <3> QED BY <3>1, <3>2
  <2> QED BY <2>1, <2>3, <2>4
<1>9. ASSUME NEW c \in Nested, step[c] = "asked", Refused(c) PROVE Goal
  <2>1. /\ c \in Runs /\ SameFamily /\ aborted' = aborted /\ loose' = loose
        /\ \A d \in Runs : d # c => step'[d] = step[d]
    BY <1>0, <1>9 DEF TypeOK, Refused, Go, SameFamily
  <2> QED BY <1>1, <1>9, <2>1
<1>10. CASE UNCHANGED vars
  BY <1>10 DEF vars
<1> QED BY <1>3, <1>4, <1>5, <1>6, <1>7, <1>8, <1>9, <1>10, Classified DEF HookEnds

\* An aborted run neither sends its request nor starts a hook.
LEMMA WorkStep ==
  ASSUME TypeOK, [Next]_vars
  PROVE  \A e \in aborted : step'[e] \in {"sending", "inHook"} => step'[e] = step[e]
<1> USE DEF TypeOK
<1>0. \A c \in Nested : c \in Runs
  BY DEF Runs
<1> SUFFICES ASSUME NEW a \in aborted, step'[a] # step[a]
             PROVE  step'[a] \notin {"sending", "inHook"}
  OBVIOUS
<1>1. a \in Runs
  OBVIOUS
<1>2. ASSUME NEW e \in Runs, Proceeds(e) PROVE step'[a] \notin {"sending", "inHook"}
  <2>1. e # a => step'[a] = step[a]
    BY <1>1, <1>2, TurnFacts
  <2>2. step'[e] \in {"sending", "inHook"} => e \notin aborted
    BY <1>2 DEF Proceeds, Step, Announce, Go
  <2> QED BY <2>1, <2>2
<1>3. ASSUME NEW e \in Runs, Fails(e) \/ HookThrows(e) \/ HookDies(e)
      PROVE  step'[a] \notin {"sending", "inHook"}
  BY <1>1, <1>3, ThrowFacts DEF Fails, Fallible, Fail, HookThrows, HookDies
<1>4. ASSUME NEW e \in Runs, HookReturns(e) \/ Load(e) \/ Open(e) \/ Record(e)
      PROVE  step'[a] \notin {"sending", "inHook"}
  BY <1>1, <1>4 DEF HookReturns, Load, Open, Record, Go
<1>5. ASSUME NEW e \in Runs, Close(e) \/ RecordFails(e)
      PROVE  step'[a] \notin {"sending", "inHook"}
  BY <1>1, <1>5 DEF Close, RecordFails, Catch, Go
<1>6. ASSUME NEW e \in Runs, NEW c \in Nested, HostExecute(e, c)
      PROVE  step'[a] \notin {"sending", "inHook"}
  BY <1>0, <1>1, <1>6 DEF HostExecute, Go
<1>7. ASSUME NEW c \in Nested, Refused(c) PROVE step'[a] \notin {"sending", "inHook"}
  BY <1>0, <1>1, <1>7 DEF Refused, Go
<1>8. (\E e \in Runs : Abort(e)) \/ UNCHANGED vars => step' = step
  BY DEF Abort, vars
<1> QED BY <1>2, <1>3, <1>4, <1>5, <1>6, <1>7, <1>8, Classified DEF HookEnds, Others

-----------------------------------------------------------------------------
(* The results.                                                            *)

\* The invariant is inductive.
THEOREM ExecutionInductive == Spec => []IInv
<1>1. Init => IInv
  <2>1. Init => TypeOK
    <3>1. Planned(0, 0, None, 0) \in Plans
      BY ExecutionAssumptions DEF Plans, Planned
    <3>2. <<>> \in Seq(Statuses)
      OBVIOUS
    <3> QED BY <3>1, <3>2, ExecutionAssumptions DEF Init, TypeOK, Hooks, Steps, Statuses
  <2>2. Init => DepthBounded /\ NestedHaveParents /\ AbortReachesChildren /\ ChildrenRunInsideTheirHook
    BY ExecutionAssumptions DEF Init, DepthBounded, NestedHaveParents, AbortReachesChildren,
       ChildrenRunInsideTheirHook, Planned, Runs
  <2>3. Init => SessionsAreDisposed /\ EarlyRunsFail
    BY DEF Init, SessionsAreDisposed, EarlyRunsFail
  <2>4. Init => FinalsFit
    BY DEF Init, FinalsFit, Fit, Unreported, Statuses
  <2> QED BY <2>1, <2>2, <2>3, <2>4 DEF IInv
<1>2. IInv /\ [Next]_vars => IInv'
  BY TypeStep, FamilyStep, SessionStep, FinalsStep, EarlyStep, ChildrenStep DEF IInv
<1> QED BY <1>1, <1>2, PTL DEF Spec

\* Every variable keeps its type, whatever runs are started and aborted.
THEOREM ExecutionTyped == Spec => []TypeOK
<1>1. IInv => TypeOK
  BY DEF IInv
<1> QED BY <1>1, ExecutionInductive, PTL

\* No error path leaves a runtime session open.
THEOREM ExecutionSessionsAreDisposed == Spec => []SessionsAreDisposed
<1>1. IInv => SessionsAreDisposed
  BY DEF IInv
<1> QED BY <1>1, ExecutionInductive, PTL

\* The result, the history and the last event of a run agree.
THEOREM ExecutionResultIsRecorded == Spec => []ResultIsRecorded
<1>1. IInv => ResultIsRecorded
  <2> SUFFICES ASSUME IInv, NEW e \in Runs
               PROVE  /\ result[e] \in Statuses =>
                           /\ history[e] = result[e]
                           /\ finals[e] # <<>> /\ finals[e][Len(finals[e])] = result[e]
                      /\ Len(finals[e]) <= 2
                      /\ Len(finals[e]) = 2 => finals[e][1] = "completed" /\ finals[e][2] # "completed"
    BY DEF ResultIsRecorded
  <2>1. Fit(step[e], finals[e], result[e], history[e])
    BY DEF IInv, FinalsFit
  <2>2. Len(finals[e]) # 0 => finals[e] # <<>>
    OBVIOUS
  <2>3. Len(finals[e]) <= 2
    <3>1. Len(finals[e]) \in {0, 1, 2}
      BY <2>1 DEF Fit
    <3>2. \A n \in {0, 1, 2} : n <= 2
      OBVIOUS
    <3> QED BY <3>1, <3>2
  <2> QED BY <2>1, <2>2, <2>3 DEF Fit
<1> QED BY <1>1, ExecutionInductive, PTL

\* A run that is aborted before its response is there is never reported completed.
THEOREM ExecutionEarlyAbortIsReported == Spec => []EarlyAbortIsReported
<1>1. IInv => EarlyAbortIsReported
  <2> SUFFICES ASSUME IInv, NEW e \in early, NEW i \in DOMAIN finals[e]
               PROVE  finals[e][i] # "completed"
    BY DEF EarlyAbortIsReported
  <2>1. finals[e] \in Seq(Statuses)
    BY DEF IInv, TypeOK
  <2>2. i \in 1..Len(finals[e])
    BY <2>1
  <2>3. Len(finals[e]) \in {0, 1} /\ (Len(finals[e]) = 1 => finals[e][1] # "completed")
    BY DEF IInv, EarlyRunsFail
  <2>4. Len(finals[e]) = 1 /\ i = 1
    BY <2>2, <2>3
  <2> QED BY <2>3, <2>4
<1> QED BY <1>1, ExecutionInductive, PTL

\* An abort reaches the nested runs below, at any depth.
THEOREM ExecutionAbortReachesChildren == Spec => []AbortReachesChildren
<1>1. IInv => AbortReachesChildren
  BY DEF IInv
<1> QED BY <1>1, ExecutionInductive, PTL

\* A nested run is over with its hook, unless it was not waited for or is aborted.
THEOREM ExecutionChildrenRunInsideTheirHook == Spec => []ChildrenRunInsideTheirHook
<1>1. IInv => ChildrenRunInsideTheirHook
  BY DEF IInv
<1> QED BY <1>1, ExecutionInductive, PTL

\* Once a run is aborted it neither sends its request nor starts another hook.
THEOREM ExecutionNoWorkAfterAbort == Spec => NoWorkAfterAbort
<1>1. IInv /\ [Next]_vars
      => [\A e \in aborted : step'[e] \in {"sending", "inHook"} => step'[e] = step[e]]_vars
  BY WorkStep DEF IInv
<1> QED BY <1>1, ExecutionInductive, PTL DEF Spec, NoWorkAfterAbort

-----------------------------------------------------------------------------
(* How far an aborted run is from its end.  AbortedRunsEnd is left to TLC;  *)
(* proved are the two facts it rests on: an aborted run that is not over    *)
(* has a turn of its own that needs nobody else, and no turn takes it       *)
(* further from its end, whatever its number of scripts.                    *)

Distance(s) ==
  CASE s = "idle" -> 10 [] s = "asked" -> 9 [] s = "loading" -> 8 [] s = "started" -> 7 [] s = "opening" -> 6
    [] s \in {"building", "sending", "received"} -> 5
    [] s \in {"announced", "inHook", "hookDone"} -> 4
    [] s = "closing" -> 3 [] s = "announcing" -> 2 [] s = "reporting" -> 1 [] s = "ended" -> 0

\* The guards of Own.
OwnTurn(e) ==
  \/ step[e] \in {"asked", "loading", "started", "opening", "building", "announced", "hookDone",
                  "closing", "announcing", "reporting"}
  \/ e \in aborted /\ step[e] \in {"inHook", "sending", "received"}

\* Whoever is aborted has been asked for.
AbortedWereAsked == \A e \in aborted : step[e] # "idle"

LEMMA AskedStep ==
  ASSUME TypeOK, AbortedWereAsked, [Next]_vars
  PROVE  AbortedWereAsked'
<1> USE DEF TypeOK
<1>0. \A c \in Nested : c \in Runs
  BY DEF Runs
<1>1. ASSUME NEW S \in SUBSET Runs, AbortAll(S), \A d \in S : step[d] # "idle", NEW a \in aborted'
      PROVE  a \in Runs /\ step[a] # "idle"
  BY <1>1, LinkedClosed DEF AbortAll, AbortedWereAsked
<1>2. ASSUME NEW a \in Runs, step[a] # "idle" PROVE step'[a] # "idle"
  <2>1. ASSUME NEW e \in Runs, Proceeds(e) \/ Fails(e) \/ HookThrows(e) \/ HookDies(e) PROVE step'[a] # "idle"
    <3>1. CASE Proceeds(e)
      BY <1>2, <3>1 DEF Proceeds, Step, Announce, Go
    <3>2. CASE Fails(e) \/ HookThrows(e) \/ HookDies(e)
      BY <1>2, <3>2, ThrowFacts DEF Fails, Fail, HookThrows, HookDies
    <3> QED BY <2>1, <3>1, <3>2
  <2>2. ASSUME NEW e \in Runs, HookReturns(e) \/ Load(e) \/ Open(e) \/ Record(e) PROVE step'[a] # "idle"
    BY <1>2, <2>2 DEF HookReturns, Load, Open, Record, Go
  <2>3. ASSUME NEW e \in Runs, Close(e) \/ RecordFails(e) PROVE step'[a] # "idle"
    BY <1>2, <2>3 DEF Close, RecordFails, Catch, Go
  <2>4. ASSUME NEW e \in Runs, NEW c \in Nested, HostExecute(e, c) PROVE step'[a] # "idle"
    BY <1>0, <1>2, <2>4 DEF HostExecute, Go
  <2>5. ASSUME NEW c \in Nested, Refused(c) PROVE step'[a] # "idle"
    BY <1>0, <1>2, <2>5 DEF Refused, Go
  <2>6. (\E e \in Runs : Abort(e)) \/ UNCHANGED vars => step' = step
    BY DEF Abort, vars
  <2> QED BY <1>2, <2>1, <2>2, <2>3, <2>4, <2>5, <2>6, Classified DEF HookEnds, Others
<1>3. ASSUME NEW a \in aborted', a \notin aborted PROVE a \in Runs /\ step[a] # "idle"
  <2>1. ASSUME NEW e \in Runs, Abort(e) PROVE a \in Runs /\ step[a] # "idle"
    BY <1>1, <1>3, <2>1 DEF Abort, Active
  <2>2. ASSUME NEW e \in Runs, HookReturns(e) \/ HookDies(e) PROVE a \in Runs /\ step[a] # "idle"
    <3>1. Children(e) \in SUBSET Runs /\ (\A d \in Children(e) : step[d] # "idle") /\ step[e] # "idle"
      BY <1>0, <2>2 DEF Children, HookReturns, HookDies
    <3>2. AbortAll({e}) \/ AbortAll(Children(e)) \/ aborted' = aborted
      BY <2>2 DEF HookReturns, HookDies
    <3> QED BY <1>1, <1>3, <3>1, <3>2
  <2>3. ASSUME \/ UNCHANGED vars
               \/ \E e \in Runs : \/ Proceeds(e) \/ Fails(e) \/ HookThrows(e) \/ Load(e) \/ Open(e) \/ Close(e)
                                   \/ Record(e) \/ RecordFails(e)
               \/ \E e \in Runs, c \in Nested : HostExecute(e, c)
               \/ \E c \in Nested : Refused(c)
        PROVE  FALSE
    BY <1>3, <2>3 DEF vars, Proceeds, Step, Announce, Fails, Fail, HookThrows, Load, Open, Close, Record,
       RecordFails, HostExecute, Refused
  <2> QED BY <2>1, <2>2, <2>3, Classified DEF HookEnds, Others
<1> QED BY <1>2, <1>3 DEF AbortedWereAsked

\* cancel, executeInternal: at any moment an aborted run that is not over has a
\* turn of its own, whatever its servers, its scripts and its nested runs do.
THEOREM ExecutionAbortedRunsHaveATurn == Spec => [](\A e \in aborted : step[e] = "ended" \/ OwnTurn(e))
<1>1. Init => AbortedWereAsked
  BY DEF Init, AbortedWereAsked
<1>2. IInv /\ AbortedWereAsked /\ [Next]_vars => AbortedWereAsked'
  BY AskedStep DEF IInv
<1>3. IInv /\ AbortedWereAsked => \A e \in aborted : step[e] = "ended" \/ OwnTurn(e)
  BY DEF IInv, TypeOK, Steps, AbortedWereAsked, OwnTurn
<1> QED BY <1>1, <1>2, <1>3, ExecutionInductive, PTL DEF Spec

\* A failure takes a run to the end of its body.
LEMMA FailureNearer ==
  ASSUME TypeOK, NEW a \in Runs, NEW e \in Runs, Throw(e), step[e] \in Fallible
  PROVE  step'[a] = step[a] \/ Distance(step'[a]) < Distance(step[a])
<1>1. step'[a] = IF a = e THEN IF e \in session THEN "closing" ELSE "reporting" ELSE step[a]
  BY ThrowFacts DEF TypeOK
<1>2. Distance("closing") = 3 /\ Distance("reporting") = 1
  BY DEF Distance
<1>3. \A s \in Fallible : Distance(s) \in {4, 5, 6, 7, 8}
  BY DEF Distance, Fallible
<1> QED BY <1>1, <1>2, <1>3

\* The checks of the signal: what an aborted run does next.
LEMMA ChecksNearer ==
  ASSUME TypeOK, NEW a \in aborted, NEW e \in Runs,
         Started(e) \/ Build(e) \/ Invoke(e) \/ HookDone(e) \/ Respond(e) \/ Answered(e)
  PROVE  step'[a] = step[a] \/ Distance(step'[a]) < Distance(step[a])
<1> USE DEF TypeOK
<1> DEFINE Nearer == step'[a] = step[a] \/ Distance(step'[a]) < Distance(step[a])
<1>1. a \in Runs
  OBVIOUS
<1>2. ASSUME NEW d \in Runs, Fail(d), step[d] \in Fallible PROVE Nearer
  BY <1>1, <1>2, FailureNearer DEF Fail
<1>3. ASSUME NEW s \in Steps, NEW d \in Runs, step' = [step EXCEPT ![d] = s],
             d = a => Distance(s) < Distance(step[a])
      PROVE  Nearer
  BY <1>1, <1>3
<1>4. Distance("building") = 5 /\ Distance("received") = 5 /\ Distance("announced") = 4 /\ Distance("closing") = 3
  BY DEF Distance
<1> SUFFICES Nearer
  OBVIOUS
<1> HIDE DEF Nearer
<1>5. ASSUME NEW d \in Runs, Dispatch(d), step[d] \in Fallible PROVE Nearer
  <2>1. CASE d \in aborted
    BY <1>2, <1>5, <2>1 DEF Dispatch
  <2>2. CASE d \notin aborted
    BY <1>3, <1>5, <2>2 DEF Dispatch, Step, Go, Steps
  <2> QED BY <2>1, <2>2
<1>6. ASSUME NEW d \in Runs, NEW k \in Hooks, NEW n \in Nat, Hook(d, k, n),
             d = a => step[d] \in {"building", "received"}, step[d] \in Fallible
      PROVE  Nearer
  <2>0. ASSUME d = a PROVE Distance(step[a]) = 5
    BY <1>4, <1>6, <2>0
  <2>1. CASE \E j \in Hooks, i \in Nat : Announce(d, j, i)
    <3>1. step' = [step EXCEPT ![d] = "announced"] /\ "announced" \in Steps
      BY <2>1 DEF Announce, Go, Steps
    <3>2. d = a => Distance("announced") < Distance(step[a])
      BY <1>4, <2>0
    <3> QED BY <1>3, <3>1, <3>2
  <2>2. CASE Step(d, "closing")
    <3>1. step' = [step EXCEPT ![d] = "closing"] /\ "closing" \in Steps
      BY <2>2 DEF Step, Go, Steps
    <3>2. d = a => Distance("closing") < Distance(step[a])
      BY <1>4, <2>0
    <3> QED BY <1>3, <3>1, <3>2
  <2>3. CASE Dispatch(d)
    BY <1>5, <1>6, <2>3
  <2>4. 1 \in Nat /\ "onTest" \in Hooks
    BY DEF Hooks
  <2> QED BY <1>6, <2>1, <2>2, <2>3, <2>4 DEF Hook, After, Hooks
<1>7. CASE Build(e) \/ Answered(e)
  <2>1. step[e] \in {"building", "received"} /\ step[e] \in Fallible
        /\ \E k \in Hooks : Phase(e, k)
    BY <1>7 DEF Build, Answered, Fallible, Hooks
  <2>2. CASE Scripted(e)
    BY <1>6, <2>1, <2>2 DEF Phase
  <2>3. CASE ~Scripted(e) /\ Build(e)
    BY <1>5, <2>1, <2>3 DEF Build, Phase
  <2>4. CASE ~Scripted(e) /\ Answered(e)
    <3>1. Step(e, "closing") /\ step[e] = "received"
      BY <2>4 DEF Answered, Phase
    <3>2. step' = [step EXCEPT ![e] = "closing"] /\ "closing" \in Steps
      BY <3>1 DEF Step, Go, Steps
    <3>3. e = a => Distance("closing") < Distance(step[a])
      BY <1>4, <3>1
    <3> QED BY <1>3, <3>2, <3>3
  <2> QED BY <1>7, <2>2, <2>3, <2>4
<1>8. CASE Started(e) \/ Invoke(e) \/ Respond(e)
  <2>1. CASE e \in aborted
    BY <1>2, <1>8, <2>1 DEF Started, Invoke, Respond, Fallible
  <2>2. CASE e \notin aborted
    BY <1>3, <1>8, <2>2 DEF Started, Invoke, Respond, Step, Go, Steps
  <2> QED BY <2>1, <2>2
<1>9. CASE HookDone(e)
  <2>0. step[e] = "hookDone" /\ step[e] \in Fallible
    BY <1>9 DEF HookDone, Fallible
  <2>1. CASE e \in aborted
    BY <1>2, <1>9, <2>0, <2>1 DEF HookDone
  <2>2. CASE e \notin aborted /\ e \in mocked /\ at[e] = "onRequest"
    BY <1>5, <1>9, <2>0, <2>2 DEF HookDone, After
  <2>3. CASE e \notin aborted /\ ~(e \in mocked /\ at[e] = "onRequest")
    <3>1. Hook(e, at[e], next[e] + 1) /\ at[e] \in Hooks /\ next[e] + 1 \in Nat
      BY <1>9, <2>3, ExecutionAssumptions DEF HookDone
    <3> QED BY <1>6, <2>0, <2>3, <3>1
  <2> QED BY <2>1, <2>2, <2>3
<1> QED BY <1>7, <1>8, <1>9

LEMMA AbortedNearer ==
  ASSUME TypeOK, AbortedWereAsked, [Next]_vars, NEW a \in aborted
  PROVE  a \in aborted' /\ (step'[a] = step[a] \/ Distance(step'[a]) < Distance(step[a]))
<1> USE DEF TypeOK
<1> DEFINE Nearer == step'[a] = step[a] \/ Distance(step'[a]) < Distance(step[a])
<1>0. a \in Runs /\ step[a] # "idle" /\ (\A c \in Nested : c \in Runs) /\ (\A r \in Roots : r \in Runs)
  BY DEF AbortedWereAsked, Runs
<1>1. a \in aborted'
  <2>1. ASSUME NEW S \in SUBSET Runs, AbortAll(S) PROVE a \in aborted'
    BY <2>1 DEF AbortAll
  <2>2. \A e \in Runs : Children(e) \in SUBSET Runs /\ {e} \in SUBSET Runs
    BY <1>0 DEF Children
  <2>3. ASSUME NEW e \in Runs, Abort(e) \/ HookEnds(e) PROVE a \in aborted'
    <3>1. AbortAll({e}) \/ AbortAll(Children(e)) \/ aborted' = aborted
      BY <2>3 DEF Abort, HookEnds, HookReturns, HookThrows, HookDies
    <3> QED BY <2>1, <2>2, <3>1
  <2>4. ASSUME \/ UNCHANGED vars
               \/ \E e \in Runs : Proceeds(e) \/ Fails(e) \/ Others(e)
               \/ \E e \in Runs, c \in Nested : HostExecute(e, c)
               \/ \E c \in Nested : Refused(c)
        PROVE  a \in aborted'
    BY <2>4 DEF vars, Proceeds, Step, Announce, Fails, Fail, Others, Load, Open, Close, Record,
       RecordFails, HostExecute, Refused
  <2> QED BY <2>3, <2>4, Classified
<1>2. ASSUME NEW e \in Runs, \/ LoadFails(e) \/ OpenFails(e) \/ BuildFails(e) \/ HookThrows(e) \/ HookDies(e)
                             \/ HookRejected(e) \/ SendFails(e) \/ AnswerFails(e)
      PROVE  Nearer
  <2>1. Throw(e) /\ step[e] \in Fallible
    BY <1>2 DEF LoadFails, OpenFails, BuildFails, HookThrows, HookDies, HookRejected,
       SendFails, AnswerFails, Fail, Fallible
  <2> QED BY <1>0, <2>1, FailureNearer
<1>3. ASSUME NEW e \in Runs, Started(e) \/ Build(e) \/ Invoke(e) \/ HookDone(e) \/ Respond(e) \/ Answered(e)
      PROVE  Nearer
  BY <1>3, ChecksNearer
<1>4. ASSUME NEW e \in Runs, Load(e) \/ Open(e) \/ Record(e) PROVE Nearer
  <2>1. step' = [step EXCEPT ![e] = IF step[e] = "loading" THEN "started"
                                    ELSE IF step[e] = "opening" THEN "building" ELSE "ended"]
        /\ step[e] \in {"loading", "opening", "announcing", "reporting"}
    BY <1>4 DEF Load, Open, Record, Go
  <2> QED BY <1>0, <2>1 DEF Distance
<1>5. ASSUME NEW e \in Runs, Close(e) \/ RecordFails(e) PROVE Nearer
  <2>1. /\ step[e] \in {"closing", "announcing", "reporting"}
        /\ step' = [step EXCEPT ![e] = "announcing"] \/ step' = [step EXCEPT ![e] = "reporting"]
           \/ step' = [step EXCEPT ![e] = "ended"]
        /\ step[e] = "announcing" => step' = [step EXCEPT ![e] = "reporting"]
        /\ step[e] = "reporting" => step' = [step EXCEPT ![e] = "ended"]
    BY <1>5 DEF Close, RecordFails, Catch, Go
  <2> QED BY <1>0, <2>1 DEF Distance
<1>6. ASSUME NEW e \in Runs, HookReturns(e) PROVE Nearer
  <2>1. e # a /\ step' = [step EXCEPT ![e] = "hookDone"]
    BY <1>6 DEF HookReturns, Go
  <2> QED BY <1>0, <2>1
<1>7. ASSUME NEW c \in Nested, Launch(c) \/ Refuse(c) PROVE Nearer
  <2>1. step[c] = "asked" /\ \E s \in {"loading", "ended"} : step' = [step EXCEPT ![c] = s]
    BY <1>7 DEF Launch, Refuse, Refused, Step, Go
  <2> QED BY <1>0, <2>1 DEF Distance
<1>8. ASSUME \/ \E e \in Roots : Start(e)
             \/ \E e \in Runs, c \in Nested : HostExecute(e, c)
             \/ (\E e \in Runs : Abort(e)) \/ UNCHANGED vars
      PROVE  Nearer
  BY <1>0, <1>8 DEF Start, Step, HostExecute, Go, Abort, vars
<1> HIDE DEF Nearer
<1>9. Nearer
  BY <1>2, <1>3, <1>4, <1>5, <1>6, <1>7, <1>8 DEF Next
<1> QED BY <1>1, <1>9 DEF Nearer

\* throwIfAborted: an aborted run stays aborted, and every turn that moves it
\* takes it nearer to its end; no number of scripts, and no script that mocks a
\* response or asks for nested runs, makes it go on.
THEOREM ExecutionAbortedRunsComeDown ==
  Spec => [][\A e \in aborted : e \in aborted' /\ (step'[e] = step[e] \/ Distance(step'[e]) < Distance(step[e]))]_vars
<1>1. Init => AbortedWereAsked
  BY DEF Init, AbortedWereAsked
<1>2. IInv /\ AbortedWereAsked /\ [Next]_vars => AbortedWereAsked'
  BY AskedStep DEF IInv
<1>3. IInv /\ AbortedWereAsked /\ [Next]_vars
      => [\A e \in aborted : e \in aborted' /\ (step'[e] = step[e] \/ Distance(step'[e]) < Distance(step[e]))]_vars
  BY AbortedNearer DEF IInv
<1> QED BY <1>1, <1>2, <1>3, ExecutionInductive, PTL DEF Spec

=============================================================================
