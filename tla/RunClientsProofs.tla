--------------------------- MODULE RunClientsProofs ---------------------------
(***************************************************************************)
(* Proofs about RunClients, for every set of runs, every choice of ids by  *)
(* the clients and every bound on the events under way.                    *)
(*                                                                         *)
(* What makes the view safe is that it asks before it forgets: whatever    *)
(* takes `current` away has asked for the cancellation of the run it was,  *)
(* or has its result in hand (AnsweredRunsAreOver).  What makes the server *)
(* safe is that only calls that are under way are noted under an id, so    *)
(* that a cancellation never meets a call that has returned.               *)
(***************************************************************************)
EXTENDS RunClients, TLAPS

\* The run the view has in hand is one of its own, and the one it shows.
CurrentIsShown == current # None => call[current] = "idle" /\ run[current] # "none" /\ shown = current

\* A run whose result is under way has ended.
AnsweredRunsAreOver == \A r \in Runs : answers[r] # None => run[r] = "over"

\* A call that looks for its workspace has no run yet.
ResolvingCallsAreNew == \A r \in Runs : call[r] = "resolving" => run[r] = "none"

IInv ==
  /\ TypeOK
  /\ CurrentIsShown /\ AnsweredRunsAreOver /\ ResolvingCallsAreNew /\ NotedCallsAreActive
  /\ NoRunIsLeftBehind /\ AbortsAreForwarded /\ NoCancelOutlivesItsCall

\* What a step may do to the run the view shows, and to a phase "cancelled".
ShownStep == shown' # shown => shown' = None \/ shown' = current'
CancelledStep ==
  phase = "cancelled" /\ current = None /\ phase' # phase => (current' # None \/ shown' = None)

\* Types are kept by every step.
LEMMA TypeStep == TypeOK /\ [Next]_vars => TypeOK'
<1> SUFFICES ASSUME TypeOK, [Next]_vars PROVE TypeOK'
  OBVIOUS
<1> USE ClientAssumptions
<1>1. ASSUME NEW r \in Runs, Arrive(r) PROVE TypeOK'
  BY <1>1 DEF TypeOK, Ends, Events, Arrive, view, mcp
<1>2. ASSUME NEW r \in Runs, Begin(r) PROVE TypeOK'
  BY <1>2 DEF TypeOK, Ends, Events, Begin, view, mcp
<1>3. ASSUME NEW r \in Runs, CancelArrives(r) PROVE TypeOK'
  BY <1>3 DEF TypeOK, Ends, Events, CancelArrives, view, mcp
<1>4. ASSUME NEW r \in Runs, Progress(r) PROVE TypeOK'
  BY <1>4 DEF TypeOK, Ends, Events, Progress, Publish, view, mcp
<1>5. ASSUME NEW r \in Runs, End(r) PROVE TypeOK'
  BY <1>5 DEF TypeOK, Ends, Events, End, Publish, Ends, view, mcp
<1>6. ASSUME NEW r \in Runs, Execute(r) PROVE TypeOK'
  BY <1>6 DEF TypeOK, Ends, Events, Execute, CancelCurrent, AskCancel, view, mcp
<1>7. ASSUME NEW r \in Runs, AnswerArrives(r) PROVE TypeOK'
  BY <1>7 DEF TypeOK, Ends, Events, AnswerArrives, Sees, view, mcp
<1>8. ASSUME NEW r \in Runs, ToolCall(r) PROVE TypeOK'
  BY <1>8 DEF TypeOK, Ends, Events, ToolCall, view, mcp
<1>9. ASSUME NEW r \in Runs, ToolRun(r) PROVE TypeOK'
  BY <1>9 DEF TypeOK, Ends, Events, ToolRun, Forward, AskCancel, view, mcp
<1>10. ASSUME NEW r \in Runs, HttpAbort(r) PROVE TypeOK'
  BY <1>10 DEF TypeOK, Ends, Events, HttpAbort, Abort, AskCancel, view, mcp
<1>11. ASSUME NEW r \in Runs, Notify(r) PROVE TypeOK'
  BY <1>11 DEF TypeOK, Ends, Events, Notify, Abort, AskCancel, view, mcp
<1>12. ASSUME NEW r \in Runs, ToolLeaves(r) PROVE TypeOK'
  BY <1>12 DEF TypeOK, Ends, Events, ToolLeaves, view, mcp
<1>13. ASSUME NEW r \in Runs, ToolReturns(r) PROVE TypeOK'
  BY <1>13 DEF TypeOK, Ends, Events, ToolReturns, view, mcp
<1>14. CASE CancelClick
  BY <1>14 DEF TypeOK, Ends, Events, CancelClick, CancelCurrent, AskCancel, view, mcp
<1>15. CASE Leave
  BY <1>15 DEF TypeOK, Ends, Events, Leave, CancelCurrent, AskCancel, view, mcp
<1>16. CASE EventArrives
  <2>1. Head(events) \in Events /\ Tail(events) \in Seq(Events) /\ Len(Tail(events)) <= MaxQueue
    BY <1>16 DEF TypeOK, EventArrives
  <2> QED BY <1>16, <2>1 DEF TypeOK, Ends, Events, EventArrives, Sees, view, mcp
<1>17. CASE UNCHANGED vars
  BY <1>17 DEF TypeOK, Ends, Events, vars, view, mcp
<1>18. ASSUME NEW r \in Runs, CallBreaks(r) PROVE TypeOK'
  BY <1>18 DEF TypeOK, Ends, Events, CallBreaks, Sees, view, mcp
<1>19. ASSUME NEW r \in Runs, ToolFails(r) PROVE TypeOK'
  BY <1>19 DEF TypeOK, Ends, Events, ToolFails, view, mcp
<1> QED BY <1>1, <1>2, <1>3, <1>4, <1>5, <1>6, <1>7, <1>8, <1>9, <1>10, <1>11, <1>12, <1>13, <1>14, <1>15, <1>16, <1>17, <1>18, <1>19
        DEF Next, Service

\* The registry notes calls that are under way, and such a call has a run only once it runs.
LEMMA RegistryStep ==
  ASSUME TypeOK, ResolvingCallsAreNew, NotedCallsAreActive, [Next]_vars
  PROVE  ResolvingCallsAreNew' /\ NotedCallsAreActive'
<1> USE ClientAssumptions
<1>1. ASSUME NEW r \in Runs, Arrive(r) PROVE ResolvingCallsAreNew' /\ NotedCallsAreActive'
  BY <1>1 DEF TypeOK, ResolvingCallsAreNew, NotedCallsAreActive, Arrive, view, mcp
<1>2. ASSUME NEW r \in Runs, Begin(r) PROVE ResolvingCallsAreNew' /\ NotedCallsAreActive'
  BY <1>2 DEF TypeOK, ResolvingCallsAreNew, NotedCallsAreActive, Begin, view, mcp
<1>3. ASSUME NEW r \in Runs, CancelArrives(r) PROVE ResolvingCallsAreNew' /\ NotedCallsAreActive'
  BY <1>3 DEF TypeOK, ResolvingCallsAreNew, NotedCallsAreActive, CancelArrives, view, mcp
<1>4. ASSUME NEW r \in Runs, Progress(r) PROVE ResolvingCallsAreNew' /\ NotedCallsAreActive'
  BY <1>4 DEF TypeOK, ResolvingCallsAreNew, NotedCallsAreActive, Progress, Publish, view, mcp
<1>5. ASSUME NEW r \in Runs, End(r) PROVE ResolvingCallsAreNew' /\ NotedCallsAreActive'
  BY <1>5 DEF TypeOK, ResolvingCallsAreNew, NotedCallsAreActive, End, Publish, Ends, view, mcp
<1>6. ASSUME NEW r \in Runs, Execute(r) PROVE ResolvingCallsAreNew' /\ NotedCallsAreActive'
  BY <1>6 DEF TypeOK, ResolvingCallsAreNew, NotedCallsAreActive, Execute, CancelCurrent, AskCancel, view, mcp
<1>7. ASSUME NEW r \in Runs, AnswerArrives(r) PROVE ResolvingCallsAreNew' /\ NotedCallsAreActive'
  BY <1>7 DEF TypeOK, ResolvingCallsAreNew, NotedCallsAreActive, AnswerArrives, Sees, view, mcp
<1>8. ASSUME NEW r \in Runs, ToolCall(r) PROVE ResolvingCallsAreNew' /\ NotedCallsAreActive'
  BY <1>8 DEF TypeOK, ResolvingCallsAreNew, NotedCallsAreActive, ToolCall, view, mcp
<1>9. ASSUME NEW r \in Runs, ToolRun(r) PROVE ResolvingCallsAreNew' /\ NotedCallsAreActive'
  BY <1>9 DEF TypeOK, ResolvingCallsAreNew, NotedCallsAreActive, ToolRun, Forward, AskCancel, view, mcp
<1>10. ASSUME NEW r \in Runs, HttpAbort(r) PROVE ResolvingCallsAreNew' /\ NotedCallsAreActive'
  BY <1>10 DEF TypeOK, ResolvingCallsAreNew, NotedCallsAreActive, HttpAbort, Abort, AskCancel, view, mcp
<1>11. ASSUME NEW r \in Runs, Notify(r) PROVE ResolvingCallsAreNew' /\ NotedCallsAreActive'
  BY <1>11 DEF TypeOK, ResolvingCallsAreNew, NotedCallsAreActive, Notify, Abort, AskCancel, view, mcp
<1>12. ASSUME NEW r \in Runs, ToolLeaves(r) PROVE ResolvingCallsAreNew' /\ NotedCallsAreActive'
  BY <1>12 DEF TypeOK, ResolvingCallsAreNew, NotedCallsAreActive, ToolLeaves, view, mcp
<1>13. ASSUME NEW r \in Runs, ToolReturns(r) PROVE ResolvingCallsAreNew' /\ NotedCallsAreActive'
  BY <1>13 DEF TypeOK, ResolvingCallsAreNew, NotedCallsAreActive, ToolReturns, view, mcp
<1>14. CASE CancelClick
  BY <1>14 DEF TypeOK, ResolvingCallsAreNew, NotedCallsAreActive, CancelClick, CancelCurrent, AskCancel, view, mcp
<1>15. CASE Leave
  BY <1>15 DEF TypeOK, ResolvingCallsAreNew, NotedCallsAreActive, Leave, CancelCurrent, AskCancel, view, mcp
<1>16. CASE EventArrives
  BY <1>16 DEF TypeOK, ResolvingCallsAreNew, NotedCallsAreActive, EventArrives, Sees, view, mcp
<1>17. CASE UNCHANGED vars
  BY <1>17 DEF TypeOK, ResolvingCallsAreNew, NotedCallsAreActive, vars, view, mcp
<1>18. ASSUME NEW r \in Runs, CallBreaks(r) PROVE ResolvingCallsAreNew' /\ NotedCallsAreActive'
  BY <1>18 DEF TypeOK, ResolvingCallsAreNew, NotedCallsAreActive, CallBreaks, Sees, view, mcp
<1>19. ASSUME NEW r \in Runs, ToolFails(r) PROVE ResolvingCallsAreNew' /\ NotedCallsAreActive'
  BY <1>19 DEF TypeOK, ResolvingCallsAreNew, NotedCallsAreActive, ToolFails, view, mcp
<1> QED BY <1>1, <1>2, <1>3, <1>4, <1>5, <1>6, <1>7, <1>8, <1>9, <1>10, <1>11, <1>12, <1>13, <1>14, <1>15, <1>16, <1>17, <1>18, <1>19
        DEF Next, Service

\* The view keeps hold of its own run until it has asked to cancel it or has its result.
LEMMA ViewStep ==
  ASSUME TypeOK, CurrentIsShown, AnsweredRunsAreOver, ResolvingCallsAreNew, [Next]_vars
  PROVE  CurrentIsShown' /\ AnsweredRunsAreOver'
<1> USE ClientAssumptions
<1>1. ASSUME NEW r \in Runs, Arrive(r) PROVE CurrentIsShown' /\ AnsweredRunsAreOver'
  BY <1>1 DEF TypeOK, CurrentIsShown, AnsweredRunsAreOver, ResolvingCallsAreNew, Arrive, view, mcp
<1>2. ASSUME NEW r \in Runs, Begin(r) PROVE CurrentIsShown' /\ AnsweredRunsAreOver'
  BY <1>2 DEF TypeOK, CurrentIsShown, AnsweredRunsAreOver, ResolvingCallsAreNew, Begin, view, mcp
<1>3. ASSUME NEW r \in Runs, CancelArrives(r) PROVE CurrentIsShown' /\ AnsweredRunsAreOver'
  BY <1>3 DEF TypeOK, CurrentIsShown, AnsweredRunsAreOver, ResolvingCallsAreNew, CancelArrives, view, mcp
<1>4. ASSUME NEW r \in Runs, Progress(r) PROVE CurrentIsShown' /\ AnsweredRunsAreOver'
  BY <1>4 DEF TypeOK, CurrentIsShown, AnsweredRunsAreOver, ResolvingCallsAreNew, Progress, Publish, view, mcp
<1>5. ASSUME NEW r \in Runs, End(r) PROVE CurrentIsShown' /\ AnsweredRunsAreOver'
  BY <1>5 DEF TypeOK, CurrentIsShown, AnsweredRunsAreOver, ResolvingCallsAreNew, End, Publish, Ends, view, mcp
<1>6. ASSUME NEW r \in Runs, Execute(r) PROVE CurrentIsShown' /\ AnsweredRunsAreOver'
  BY <1>6 DEF TypeOK, CurrentIsShown, AnsweredRunsAreOver, ResolvingCallsAreNew, Execute, CancelCurrent, AskCancel, view, mcp
<1>7. ASSUME NEW r \in Runs, AnswerArrives(r) PROVE CurrentIsShown' /\ AnsweredRunsAreOver'
  BY <1>7 DEF TypeOK, CurrentIsShown, AnsweredRunsAreOver, ResolvingCallsAreNew, AnswerArrives, Sees, view, mcp
<1>8. ASSUME NEW r \in Runs, ToolCall(r) PROVE CurrentIsShown' /\ AnsweredRunsAreOver'
  BY <1>8 DEF TypeOK, CurrentIsShown, AnsweredRunsAreOver, ResolvingCallsAreNew, ToolCall, view, mcp
<1>9. ASSUME NEW r \in Runs, ToolRun(r) PROVE CurrentIsShown' /\ AnsweredRunsAreOver'
  BY <1>9 DEF TypeOK, CurrentIsShown, AnsweredRunsAreOver, ResolvingCallsAreNew, ToolRun, Forward, AskCancel, view, mcp
<1>10. ASSUME NEW r \in Runs, HttpAbort(r) PROVE CurrentIsShown' /\ AnsweredRunsAreOver'
  BY <1>10 DEF TypeOK, CurrentIsShown, AnsweredRunsAreOver, ResolvingCallsAreNew, HttpAbort, Abort, AskCancel, view, mcp
<1>11. ASSUME NEW r \in Runs, Notify(r) PROVE CurrentIsShown' /\ AnsweredRunsAreOver'
  BY <1>11 DEF TypeOK, CurrentIsShown, AnsweredRunsAreOver, ResolvingCallsAreNew, Notify, Abort, AskCancel, view, mcp
<1>12. ASSUME NEW r \in Runs, ToolLeaves(r) PROVE CurrentIsShown' /\ AnsweredRunsAreOver'
  BY <1>12 DEF TypeOK, CurrentIsShown, AnsweredRunsAreOver, ResolvingCallsAreNew, ToolLeaves, view, mcp
<1>13. ASSUME NEW r \in Runs, ToolReturns(r) PROVE CurrentIsShown' /\ AnsweredRunsAreOver'
  BY <1>13 DEF TypeOK, CurrentIsShown, AnsweredRunsAreOver, ResolvingCallsAreNew, ToolReturns, view, mcp
<1>14. CASE CancelClick
  BY <1>14 DEF TypeOK, CurrentIsShown, AnsweredRunsAreOver, ResolvingCallsAreNew, CancelClick, CancelCurrent, AskCancel, view, mcp
<1>15. CASE Leave
  BY <1>15 DEF TypeOK, CurrentIsShown, AnsweredRunsAreOver, ResolvingCallsAreNew, Leave, CancelCurrent, AskCancel, view, mcp
<1>16. CASE EventArrives
  BY <1>16 DEF TypeOK, CurrentIsShown, AnsweredRunsAreOver, ResolvingCallsAreNew, EventArrives, Sees, view, mcp
<1>17. CASE UNCHANGED vars
  BY <1>17 DEF TypeOK, CurrentIsShown, AnsweredRunsAreOver, ResolvingCallsAreNew, vars, view, mcp
<1>18. ASSUME NEW r \in Runs, CallBreaks(r) PROVE CurrentIsShown' /\ AnsweredRunsAreOver'
  BY <1>18 DEF TypeOK, CurrentIsShown, AnsweredRunsAreOver, ResolvingCallsAreNew, CallBreaks, Sees, view, mcp
<1>19. ASSUME NEW r \in Runs, ToolFails(r) PROVE CurrentIsShown' /\ AnsweredRunsAreOver'
  BY <1>19 DEF TypeOK, CurrentIsShown, AnsweredRunsAreOver, ResolvingCallsAreNew, ToolFails, view, mcp
<1> QED BY <1>1, <1>2, <1>3, <1>4, <1>5, <1>6, <1>7, <1>8, <1>9, <1>10, <1>11, <1>12, <1>13, <1>14, <1>15, <1>16, <1>17, <1>18, <1>19
        DEF Next, Service

\* No step leaves a run of the view behind.
LEMMA LeftBehindStep ==
  ASSUME TypeOK, CurrentIsShown, AnsweredRunsAreOver, NoRunIsLeftBehind, [Next]_vars
  PROVE  NoRunIsLeftBehind'
<1> USE ClientAssumptions
<1>1. ASSUME NEW r \in Runs, Arrive(r) PROVE NoRunIsLeftBehind'
  BY <1>1 DEF TypeOK, CurrentIsShown, AnsweredRunsAreOver, NoRunIsLeftBehind, Arrive, view, mcp
<1>2. ASSUME NEW r \in Runs, Begin(r) PROVE NoRunIsLeftBehind'
  BY <1>2 DEF TypeOK, CurrentIsShown, AnsweredRunsAreOver, NoRunIsLeftBehind, Begin, view, mcp
<1>3. ASSUME NEW r \in Runs, CancelArrives(r) PROVE NoRunIsLeftBehind'
  BY <1>3 DEF TypeOK, CurrentIsShown, AnsweredRunsAreOver, NoRunIsLeftBehind, CancelArrives, view, mcp
<1>4. ASSUME NEW r \in Runs, Progress(r) PROVE NoRunIsLeftBehind'
  BY <1>4 DEF TypeOK, CurrentIsShown, AnsweredRunsAreOver, NoRunIsLeftBehind, Progress, Publish, view, mcp
<1>5. ASSUME NEW r \in Runs, End(r) PROVE NoRunIsLeftBehind'
  BY <1>5 DEF TypeOK, CurrentIsShown, AnsweredRunsAreOver, NoRunIsLeftBehind, End, Publish, Ends, view, mcp
<1>6. ASSUME NEW r \in Runs, Execute(r) PROVE NoRunIsLeftBehind'
  BY <1>6 DEF TypeOK, CurrentIsShown, AnsweredRunsAreOver, NoRunIsLeftBehind, Execute, CancelCurrent, AskCancel, view, mcp
<1>7. ASSUME NEW r \in Runs, AnswerArrives(r) PROVE NoRunIsLeftBehind'
  BY <1>7 DEF TypeOK, CurrentIsShown, AnsweredRunsAreOver, NoRunIsLeftBehind, AnswerArrives, Sees, view, mcp
<1>8. ASSUME NEW r \in Runs, ToolCall(r) PROVE NoRunIsLeftBehind'
  BY <1>8 DEF TypeOK, CurrentIsShown, AnsweredRunsAreOver, NoRunIsLeftBehind, ToolCall, view, mcp
<1>9. ASSUME NEW r \in Runs, ToolRun(r) PROVE NoRunIsLeftBehind'
  BY <1>9 DEF TypeOK, CurrentIsShown, AnsweredRunsAreOver, NoRunIsLeftBehind, ToolRun, Forward, AskCancel, view, mcp
<1>10. ASSUME NEW r \in Runs, HttpAbort(r) PROVE NoRunIsLeftBehind'
  BY <1>10 DEF TypeOK, CurrentIsShown, AnsweredRunsAreOver, NoRunIsLeftBehind, HttpAbort, Abort, AskCancel, view, mcp
<1>11. ASSUME NEW r \in Runs, Notify(r) PROVE NoRunIsLeftBehind'
  BY <1>11 DEF TypeOK, CurrentIsShown, AnsweredRunsAreOver, NoRunIsLeftBehind, Notify, Abort, AskCancel, view, mcp
<1>12. ASSUME NEW r \in Runs, ToolLeaves(r) PROVE NoRunIsLeftBehind'
  BY <1>12 DEF TypeOK, CurrentIsShown, AnsweredRunsAreOver, NoRunIsLeftBehind, ToolLeaves, view, mcp
<1>13. ASSUME NEW r \in Runs, ToolReturns(r) PROVE NoRunIsLeftBehind'
  BY <1>13 DEF TypeOK, CurrentIsShown, AnsweredRunsAreOver, NoRunIsLeftBehind, ToolReturns, view, mcp
<1>14. CASE CancelClick
  BY <1>14 DEF TypeOK, CurrentIsShown, AnsweredRunsAreOver, NoRunIsLeftBehind, CancelClick, CancelCurrent, AskCancel, view, mcp
<1>15. CASE Leave
  BY <1>15 DEF TypeOK, CurrentIsShown, AnsweredRunsAreOver, NoRunIsLeftBehind, Leave, CancelCurrent, AskCancel, view, mcp
<1>16. CASE EventArrives
  BY <1>16 DEF TypeOK, CurrentIsShown, AnsweredRunsAreOver, NoRunIsLeftBehind, EventArrives, Sees, view, mcp
<1>17. CASE UNCHANGED vars
  BY <1>17 DEF TypeOK, CurrentIsShown, AnsweredRunsAreOver, NoRunIsLeftBehind, vars, view, mcp
<1>18. ASSUME NEW r \in Runs, CallBreaks(r) PROVE NoRunIsLeftBehind'
  BY <1>18 DEF TypeOK, CurrentIsShown, AnsweredRunsAreOver, NoRunIsLeftBehind, CallBreaks, Sees, view, mcp
<1>19. ASSUME NEW r \in Runs, ToolFails(r) PROVE NoRunIsLeftBehind'
  BY <1>19 DEF TypeOK, CurrentIsShown, AnsweredRunsAreOver, NoRunIsLeftBehind, ToolFails, view, mcp
<1> QED BY <1>1, <1>2, <1>3, <1>4, <1>5, <1>6, <1>7, <1>8, <1>9, <1>10, <1>11, <1>12, <1>13, <1>14, <1>15, <1>16, <1>17, <1>18, <1>19
        DEF Next, Service

\* No step forgets an abort or lets a cancellation outlive its call.
LEMMA CancelStep ==
  ASSUME TypeOK, CurrentIsShown, ResolvingCallsAreNew, NotedCallsAreActive, AbortsAreForwarded, NoCancelOutlivesItsCall, [Next]_vars
  PROVE  AbortsAreForwarded' /\ NoCancelOutlivesItsCall'
<1> USE ClientAssumptions
<1>1. ASSUME NEW r \in Runs, Arrive(r) PROVE AbortsAreForwarded' /\ NoCancelOutlivesItsCall'
  BY <1>1 DEF TypeOK, CurrentIsShown, ResolvingCallsAreNew, NotedCallsAreActive, AbortsAreForwarded, NoCancelOutlivesItsCall, Arrive, view, mcp
<1>2. ASSUME NEW r \in Runs, Begin(r) PROVE AbortsAreForwarded' /\ NoCancelOutlivesItsCall'
  BY <1>2 DEF TypeOK, CurrentIsShown, ResolvingCallsAreNew, NotedCallsAreActive, AbortsAreForwarded, NoCancelOutlivesItsCall, Begin, view, mcp
<1>3. ASSUME NEW r \in Runs, CancelArrives(r) PROVE AbortsAreForwarded' /\ NoCancelOutlivesItsCall'
  BY <1>3 DEF TypeOK, CurrentIsShown, ResolvingCallsAreNew, NotedCallsAreActive, AbortsAreForwarded, NoCancelOutlivesItsCall, CancelArrives, view, mcp
<1>4. ASSUME NEW r \in Runs, Progress(r) PROVE AbortsAreForwarded' /\ NoCancelOutlivesItsCall'
  BY <1>4 DEF TypeOK, CurrentIsShown, ResolvingCallsAreNew, NotedCallsAreActive, AbortsAreForwarded, NoCancelOutlivesItsCall, Progress, Publish, view, mcp
<1>5. ASSUME NEW r \in Runs, End(r) PROVE AbortsAreForwarded' /\ NoCancelOutlivesItsCall'
  BY <1>5 DEF TypeOK, CurrentIsShown, ResolvingCallsAreNew, NotedCallsAreActive, AbortsAreForwarded, NoCancelOutlivesItsCall, End, Publish, Ends, view, mcp
<1>6. ASSUME NEW r \in Runs, Execute(r) PROVE AbortsAreForwarded' /\ NoCancelOutlivesItsCall'
  BY <1>6 DEF TypeOK, CurrentIsShown, ResolvingCallsAreNew, NotedCallsAreActive, AbortsAreForwarded, NoCancelOutlivesItsCall, Execute, CancelCurrent, AskCancel, view, mcp
<1>7. ASSUME NEW r \in Runs, AnswerArrives(r) PROVE AbortsAreForwarded' /\ NoCancelOutlivesItsCall'
  BY <1>7 DEF TypeOK, CurrentIsShown, ResolvingCallsAreNew, NotedCallsAreActive, AbortsAreForwarded, NoCancelOutlivesItsCall, AnswerArrives, Sees, view, mcp
<1>8. ASSUME NEW r \in Runs, ToolCall(r) PROVE AbortsAreForwarded' /\ NoCancelOutlivesItsCall'
  BY <1>8 DEF TypeOK, CurrentIsShown, ResolvingCallsAreNew, NotedCallsAreActive, AbortsAreForwarded, NoCancelOutlivesItsCall, ToolCall, view, mcp
<1>9. ASSUME NEW r \in Runs, ToolRun(r) PROVE AbortsAreForwarded' /\ NoCancelOutlivesItsCall'
  BY <1>9 DEF TypeOK, CurrentIsShown, ResolvingCallsAreNew, NotedCallsAreActive, AbortsAreForwarded, NoCancelOutlivesItsCall, ToolRun, Forward, AskCancel, view, mcp
<1>10. ASSUME NEW r \in Runs, HttpAbort(r) PROVE AbortsAreForwarded' /\ NoCancelOutlivesItsCall'
  BY <1>10 DEF TypeOK, CurrentIsShown, ResolvingCallsAreNew, NotedCallsAreActive, AbortsAreForwarded, NoCancelOutlivesItsCall, HttpAbort, Abort, AskCancel, view, mcp
<1>11. ASSUME NEW r \in Runs, Notify(r) PROVE AbortsAreForwarded' /\ NoCancelOutlivesItsCall'
  BY <1>11 DEF TypeOK, CurrentIsShown, ResolvingCallsAreNew, NotedCallsAreActive, AbortsAreForwarded, NoCancelOutlivesItsCall, Notify, Abort, AskCancel, view, mcp
<1>12. ASSUME NEW r \in Runs, ToolLeaves(r) PROVE AbortsAreForwarded' /\ NoCancelOutlivesItsCall'
  BY <1>12 DEF TypeOK, CurrentIsShown, ResolvingCallsAreNew, NotedCallsAreActive, AbortsAreForwarded, NoCancelOutlivesItsCall, ToolLeaves, view, mcp
<1>13. ASSUME NEW r \in Runs, ToolReturns(r) PROVE AbortsAreForwarded' /\ NoCancelOutlivesItsCall'
  BY <1>13 DEF TypeOK, CurrentIsShown, ResolvingCallsAreNew, NotedCallsAreActive, AbortsAreForwarded, NoCancelOutlivesItsCall, ToolReturns, view, mcp
<1>14. CASE CancelClick
  BY <1>14 DEF TypeOK, CurrentIsShown, ResolvingCallsAreNew, NotedCallsAreActive, AbortsAreForwarded, NoCancelOutlivesItsCall, CancelClick, CancelCurrent, AskCancel, view, mcp
<1>15. CASE Leave
  BY <1>15 DEF TypeOK, CurrentIsShown, ResolvingCallsAreNew, NotedCallsAreActive, AbortsAreForwarded, NoCancelOutlivesItsCall, Leave, CancelCurrent, AskCancel, view, mcp
<1>16. CASE EventArrives
  BY <1>16 DEF TypeOK, CurrentIsShown, ResolvingCallsAreNew, NotedCallsAreActive, AbortsAreForwarded, NoCancelOutlivesItsCall, EventArrives, Sees, view, mcp
<1>17. CASE UNCHANGED vars
  BY <1>17 DEF TypeOK, CurrentIsShown, ResolvingCallsAreNew, NotedCallsAreActive, AbortsAreForwarded, NoCancelOutlivesItsCall, vars, view, mcp
<1>18. ASSUME NEW r \in Runs, CallBreaks(r) PROVE AbortsAreForwarded' /\ NoCancelOutlivesItsCall'
  BY <1>18 DEF TypeOK, CurrentIsShown, ResolvingCallsAreNew, NotedCallsAreActive, AbortsAreForwarded, NoCancelOutlivesItsCall, CallBreaks, Sees, view, mcp
<1>19. ASSUME NEW r \in Runs, ToolFails(r) PROVE AbortsAreForwarded' /\ NoCancelOutlivesItsCall'
  BY <1>19 DEF TypeOK, CurrentIsShown, ResolvingCallsAreNew, NotedCallsAreActive, AbortsAreForwarded, NoCancelOutlivesItsCall, ToolFails, view, mcp
<1> QED BY <1>1, <1>2, <1>3, <1>4, <1>5, <1>6, <1>7, <1>8, <1>9, <1>10, <1>11, <1>12, <1>13, <1>14, <1>15, <1>16, <1>17, <1>18, <1>19
        DEF Next, Service

\* The invariant holds at first and is kept.
THEOREM ClientsInductive == Spec => []IInv
<1>1. Init => IInv
  BY ClientAssumptions
     DEF Init, IInv, TypeOK, CurrentIsShown, AnsweredRunsAreOver, ResolvingCallsAreNew, Ends,
         NotedCallsAreActive, NoRunIsLeftBehind, AbortsAreForwarded, NoCancelOutlivesItsCall
<1>2. IInv /\ [Next]_vars => IInv'
  BY TypeStep, RegistryStep, ViewStep, LeftBehindStep, CancelStep DEF IInv
<1> QED BY <1>1, <1>2, PTL DEF Spec

\* Runs, calls, the registry and what is under way keep their types.
THEOREM ClientsTyped == Spec => []TypeOK
<1>1. IInv => TypeOK
  BY DEF IInv
<1> QED BY <1>1, ClientsInductive, PTL

\* No run that the view has left goes on without a request to cancel it, unless the
\* view left it because its call failed on the way.
THEOREM ClientsNoRunIsLeftBehind == Spec => []NoRunIsLeftBehind
<1>1. IInv => NoRunIsLeftBehind
  BY DEF IInv
<1> QED BY <1>1, ClientsInductive, PTL

\* No cancellation is under way for a call that has returned.
THEOREM ClientsNoCancelOutlivesItsCall == Spec => []NoCancelOutlivesItsCall
<1>1. IInv => NoCancelOutlivesItsCall
  BY DEF IInv
<1> QED BY <1>1, ClientsInductive, PTL

\* An abort of a call that comes before its run is not forgotten, and ids of
\* calls that have returned are not kept.
THEOREM ClientsForwardAborts == Spec => [](AbortsAreForwarded /\ NotedCallsAreActive)
<1>1. IInv => AbortsAreForwarded /\ NotedCallsAreActive
  BY DEF IInv
<1> QED BY <1>1, ClientsInductive, PTL

\* Events and results of a run the view has left change nothing it shows.
THEOREM ClientsShowNothingStale == Spec => NothingStaleIsShown
<1>1. IInv /\ [Next]_vars => [ShownStep]_vars
  <2> SUFFICES ASSUME IInv, Next PROVE ShownStep
    BY DEF ShownStep, vars
  <2> USE DEF ShownStep
  <2>1. CASE EventArrives
    <3>1. Head(events) \in Events
      BY <2>1 DEF IInv, TypeOK, EventArrives
    <3>2. Head(events).run \in Runs
      BY <3>1 DEF Events
    <3> QED BY <2>1, <3>2, ClientAssumptions DEF EventArrives, Sees, IInv, CurrentIsShown
  <2>2. ASSUME NEW r \in Runs, AnswerArrives(r) \/ CallBreaks(r) PROVE ShownStep
    BY <2>2, ClientAssumptions DEF AnswerArrives, CallBreaks, Sees, IInv, CurrentIsShown
  <2>3. ASSUME NEW r \in Runs, Execute(r) PROVE ShownStep
    BY <2>3, ClientAssumptions DEF Execute
  <2>4. CASE CancelClick \/ Leave
    BY <2>4 DEF CancelClick, Leave
  <2>5. ASSUME NEW r \in Runs,
               \/ Service(r) \/ Progress(r) \/ End(r) \/ ToolCall(r) \/ ToolRun(r)
               \/ ToolFails(r) \/ HttpAbort(r) \/ Notify(r) \/ ToolLeaves(r) \/ ToolReturns(r)
        PROVE  UNCHANGED <<current, phase, shown>>
    BY <2>5 DEF Service, Arrive, Begin, CancelArrives, Progress, End, ToolCall, ToolRun, ToolFails,
                HttpAbort, Notify, ToolLeaves, ToolReturns, view
  <2> QED BY <2>1, <2>2, <2>3, <2>4, <2>5 DEF Next
<1> QED BY <1>1, ClientsInductive, PTL DEF Spec, NothingStaleIsShown, ShownStep

\* A cancelled run stays cancelled in the view, whatever arrives of it.
THEOREM ClientsCancelledStays == Spec => CancelledStays
<1>1. IInv /\ [Next]_vars => [CancelledStep]_vars
  <2> SUFFICES ASSUME IInv, Next PROVE CancelledStep
    BY DEF CancelledStep, vars
  <2> USE DEF CancelledStep
  <2>1. CASE EventArrives
    <3>1. Head(events) \in Events
      BY <2>1 DEF IInv, TypeOK, EventArrives
    <3>2. Head(events).run \in Runs
      BY <3>1 DEF Events
    <3> QED BY <2>1, <3>2, ClientAssumptions DEF EventArrives, Sees, IInv, CurrentIsShown
  <2>2. ASSUME NEW r \in Runs, AnswerArrives(r) \/ CallBreaks(r) PROVE CancelledStep
    BY <2>2, ClientAssumptions DEF AnswerArrives, CallBreaks, Sees, IInv, CurrentIsShown
  <2>3. ASSUME NEW r \in Runs, Execute(r) PROVE CancelledStep
    BY <2>3, ClientAssumptions DEF Execute
  <2>4. CASE CancelClick \/ Leave
    BY <2>4 DEF CancelClick, Leave
  <2>5. ASSUME NEW r \in Runs,
               \/ Service(r) \/ Progress(r) \/ End(r) \/ ToolCall(r) \/ ToolRun(r)
               \/ ToolFails(r) \/ HttpAbort(r) \/ Notify(r) \/ ToolLeaves(r) \/ ToolReturns(r)
        PROVE  UNCHANGED <<current, phase, shown>>
    BY <2>5 DEF Service, Arrive, Begin, CancelArrives, Progress, End, ToolCall, ToolRun, ToolFails,
                HttpAbort, Notify, ToolLeaves, ToolReturns, view
  <2> QED BY <2>1, <2>2, <2>3, <2>4, <2>5 DEF Next
<1> QED BY <1>1, ClientsInductive, PTL DEF Spec, CancelledStays, CancelledStep

-----------------------------------------------------------------------------
(***************************************************************************)
(* Why the caller of a cancelled run is answered (CancelledRunsAnswer), as *)
(* far as it is a matter of safety.                                        *)
(***************************************************************************)
\* Only runs that are announced and not over are aborted, and a tool call leaves its
\* run only when that is over.
AbortsFit ==
  \A r \in Runs : /\ r \in aborted => run[r] = "started"
                  /\ call[r] \in {"leaving", "returned"} => run[r] = "over"

\* No step aborts a run that is over, or leaves one that is not.
LEMMA AbortsFitStep == TypeOK /\ ResolvingCallsAreNew /\ AbortsFit /\ [Next]_vars => AbortsFit'
<1> SUFFICES ASSUME TypeOK, ResolvingCallsAreNew, AbortsFit, [Next]_vars PROVE AbortsFit'
  OBVIOUS
<1>1. ASSUME NEW d \in Runs, Arrive(d) PROVE AbortsFit'
  BY <1>1 DEF TypeOK, ResolvingCallsAreNew, AbortsFit, Arrive, view, mcp
<1>2. ASSUME NEW d \in Runs, Begin(d) PROVE AbortsFit'
  BY <1>2 DEF TypeOK, ResolvingCallsAreNew, AbortsFit, Begin, view, mcp
<1>3. ASSUME NEW d \in Runs, CancelArrives(d) PROVE AbortsFit'
  BY <1>3 DEF TypeOK, ResolvingCallsAreNew, AbortsFit, CancelArrives, view, mcp
<1>4. ASSUME NEW d \in Runs, Progress(d) PROVE AbortsFit'
  BY <1>4 DEF TypeOK, ResolvingCallsAreNew, AbortsFit, Progress, Publish, view, mcp
<1>5. ASSUME NEW d \in Runs, End(d) PROVE AbortsFit'
  BY <1>5 DEF TypeOK, ResolvingCallsAreNew, AbortsFit, End, Publish, view, mcp
<1>6. ASSUME NEW d \in Runs, Execute(d) PROVE AbortsFit'
  BY <1>6 DEF TypeOK, ResolvingCallsAreNew, AbortsFit, Execute, CancelCurrent, AskCancel, view, mcp
<1>7. ASSUME NEW d \in Runs, AnswerArrives(d) PROVE AbortsFit'
  BY <1>7 DEF TypeOK, ResolvingCallsAreNew, AbortsFit, AnswerArrives, Sees, view, mcp
<1>8. ASSUME NEW d \in Runs, ToolCall(d) PROVE AbortsFit'
  BY <1>8 DEF TypeOK, ResolvingCallsAreNew, AbortsFit, ToolCall, view, mcp
<1>9. ASSUME NEW d \in Runs, ToolRun(d) PROVE AbortsFit'
  BY <1>9 DEF TypeOK, ResolvingCallsAreNew, AbortsFit, ToolRun, Forward, AskCancel, view, mcp
<1>10. ASSUME NEW d \in Runs, HttpAbort(d) PROVE AbortsFit'
  BY <1>10 DEF TypeOK, ResolvingCallsAreNew, AbortsFit, HttpAbort, Abort, AskCancel, view, mcp
<1>11. ASSUME NEW d \in Runs, Notify(d) PROVE AbortsFit'
  BY <1>11 DEF TypeOK, ResolvingCallsAreNew, AbortsFit, Notify, Abort, AskCancel, view, mcp
<1>12. ASSUME NEW d \in Runs, ToolLeaves(d) PROVE AbortsFit'
  BY <1>12 DEF TypeOK, ResolvingCallsAreNew, AbortsFit, ToolLeaves, view, mcp
<1>13. ASSUME NEW d \in Runs, ToolReturns(d) PROVE AbortsFit'
  BY <1>13 DEF TypeOK, ResolvingCallsAreNew, AbortsFit, ToolReturns, view, mcp
<1>14. CASE CancelClick
  BY <1>14 DEF TypeOK, ResolvingCallsAreNew, AbortsFit, CancelClick, CancelCurrent, AskCancel, view, mcp
<1>15. CASE Leave
  BY <1>15 DEF TypeOK, ResolvingCallsAreNew, AbortsFit, Leave, CancelCurrent, AskCancel, view, mcp
<1>16. CASE EventArrives
  BY <1>16 DEF TypeOK, ResolvingCallsAreNew, AbortsFit, EventArrives, Sees, view, mcp
<1>17. CASE UNCHANGED vars
  BY <1>17 DEF TypeOK, ResolvingCallsAreNew, AbortsFit, vars, view, mcp
<1>18. ASSUME NEW d \in Runs, CallBreaks(d) PROVE AbortsFit'
  BY <1>18 DEF TypeOK, ResolvingCallsAreNew, AbortsFit, CallBreaks, Sees, view, mcp
<1>19. ASSUME NEW d \in Runs, ToolFails(d) PROVE AbortsFit'
  BY <1>19 DEF TypeOK, ResolvingCallsAreNew, AbortsFit, ToolFails, view, mcp
<1> QED BY <1>1, <1>2, <1>3, <1>4, <1>5, <1>6, <1>7, <1>8, <1>9, <1>10, <1>11, <1>12, <1>13, <1>14, <1>15, <1>16, <1>17, <1>18, <1>19
     DEF Next, Service

\* It holds throughout.
LEMMA AbortsFitHolds == Spec => []AbortsFit
<1>1. Init => AbortsFit
  BY DEF Init, AbortsFit
<1>2. IInv /\ AbortsFit /\ [Next]_vars => AbortsFit'
  BY AbortsFitStep DEF IInv
<1> QED BY <1>1, <1>2, ClientsInductive, PTL DEF Spec

\* Calls of a run that is over on their way to the answer.
CallsLeft(s) == IF s = "running" THEN 2 ELSE IF s = "leaving" THEN 1 ELSE 0

\* From its cancellation to its answer a run goes one way: an aborted run stays aborted
\* until it is over, a run that is over is neither aborted nor run again, its result
\* is delivered at most once, and its tool call only comes nearer to its return.
AnswerStep ==
  \A r \in Runs :
    /\ r \in aborted => run[r] = "started" /\ (r \in aborted' \/ run'[r] = "over")
    /\ run[r] = "over" =>
         /\ run'[r] = "over" /\ r \notin aborted'
         /\ answers'[r] \in {answers[r], None}
         /\ call'[r] = call[r] \/ CallsLeft(call'[r]) < CallsLeft(call[r])

\* Nothing the view, the clients and their cancellations do turns a run back on the way
\* from its cancellation to the answer its caller waits for.
THEOREM ClientsCancelledRunsComeDown == Spec => [][AnswerStep]_vars
<1>1. IInv /\ AbortsFit /\ [Next]_vars => AnswerStep
  <2> SUFFICES ASSUME IInv, AbortsFit, [Next]_vars PROVE AnswerStep
    OBVIOUS
  <2> USE DEF IInv
  <2>1. ASSUME NEW d \in Runs, Arrive(d) PROVE AnswerStep
    BY <2>1 DEF TypeOK, ResolvingCallsAreNew, AbortsFit, AnswerStep, CallsLeft, Arrive, view, mcp
  <2>2. ASSUME NEW d \in Runs, Begin(d) PROVE AnswerStep
    BY <2>2 DEF TypeOK, ResolvingCallsAreNew, AbortsFit, AnswerStep, CallsLeft, Begin, view, mcp
  <2>3. ASSUME NEW d \in Runs, CancelArrives(d) PROVE AnswerStep
    BY <2>3 DEF TypeOK, ResolvingCallsAreNew, AbortsFit, AnswerStep, CallsLeft, CancelArrives, view, mcp
  <2>4. ASSUME NEW d \in Runs, Progress(d) PROVE AnswerStep
    BY <2>4 DEF TypeOK, ResolvingCallsAreNew, AbortsFit, AnswerStep, CallsLeft, Progress, Publish, view, mcp
  <2>5. ASSUME NEW d \in Runs, End(d) PROVE AnswerStep
    BY <2>5 DEF TypeOK, ResolvingCallsAreNew, AbortsFit, AnswerStep, CallsLeft, End, Publish, view, mcp
  <2>6. ASSUME NEW d \in Runs, Execute(d) PROVE AnswerStep
    BY <2>6 DEF TypeOK, ResolvingCallsAreNew, AbortsFit, AnswerStep, CallsLeft, Execute, CancelCurrent, AskCancel, view, mcp
  <2>7. ASSUME NEW d \in Runs, AnswerArrives(d) PROVE AnswerStep
    BY <2>7 DEF TypeOK, ResolvingCallsAreNew, AbortsFit, AnswerStep, CallsLeft, AnswerArrives, Sees, view, mcp
  <2>8. ASSUME NEW d \in Runs, ToolCall(d) PROVE AnswerStep
    BY <2>8 DEF TypeOK, ResolvingCallsAreNew, AbortsFit, AnswerStep, CallsLeft, ToolCall, view, mcp
  <2>9. ASSUME NEW d \in Runs, ToolRun(d) PROVE AnswerStep
    BY <2>9 DEF TypeOK, ResolvingCallsAreNew, AbortsFit, AnswerStep, CallsLeft, ToolRun, Forward, AskCancel, view, mcp
  <2>10. ASSUME NEW d \in Runs, HttpAbort(d) PROVE AnswerStep
    BY <2>10 DEF TypeOK, ResolvingCallsAreNew, AbortsFit, AnswerStep, CallsLeft, HttpAbort, Abort, AskCancel, view, mcp
  <2>11. ASSUME NEW d \in Runs, Notify(d) PROVE AnswerStep
    BY <2>11 DEF TypeOK, ResolvingCallsAreNew, AbortsFit, AnswerStep, CallsLeft, Notify, Abort, AskCancel, view, mcp
  <2>12. ASSUME NEW d \in Runs, ToolLeaves(d) PROVE AnswerStep
    BY <2>12 DEF TypeOK, ResolvingCallsAreNew, AbortsFit, AnswerStep, CallsLeft, ToolLeaves, view, mcp
  <2>13. ASSUME NEW d \in Runs, ToolReturns(d) PROVE AnswerStep
    BY <2>13 DEF TypeOK, ResolvingCallsAreNew, AbortsFit, AnswerStep, CallsLeft, ToolReturns, view, mcp
  <2>14. CASE CancelClick
    BY <2>14 DEF TypeOK, ResolvingCallsAreNew, AbortsFit, AnswerStep, CallsLeft, CancelClick, CancelCurrent, AskCancel, view, mcp
  <2>15. CASE Leave
    BY <2>15 DEF TypeOK, ResolvingCallsAreNew, AbortsFit, AnswerStep, CallsLeft, Leave, CancelCurrent, AskCancel, view, mcp
  <2>16. CASE EventArrives
    BY <2>16 DEF TypeOK, ResolvingCallsAreNew, AbortsFit, AnswerStep, CallsLeft, EventArrives, Sees, view, mcp
  <2>17. CASE UNCHANGED vars
    BY <2>17 DEF TypeOK, ResolvingCallsAreNew, AbortsFit, AnswerStep, CallsLeft, vars, view, mcp
  <2>18. ASSUME NEW d \in Runs, CallBreaks(d) PROVE AnswerStep
    BY <2>18 DEF TypeOK, ResolvingCallsAreNew, AbortsFit, AnswerStep, CallsLeft, CallBreaks, Sees, view, mcp
  <2>19. ASSUME NEW d \in Runs, ToolFails(d) PROVE AnswerStep
    BY <2>19 DEF TypeOK, ResolvingCallsAreNew, AbortsFit, AnswerStep, CallsLeft, ToolFails, view, mcp
  <2> QED BY <2>1, <2>2, <2>3, <2>4, <2>5, <2>6, <2>7, <2>8, <2>9, <2>10, <2>11, <2>12, <2>13, <2>14, <2>15, <2>16, <2>17, <2>18, <2>19
       DEF Next, Service
<1> QED BY <1>1, ClientsInductive, AbortsFitHolds, PTL DEF Spec
=============================================================================
