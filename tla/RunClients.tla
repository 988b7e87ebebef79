----------------------------- MODULE RunClients -----------------------------
(***************************************************************************)
(* Who asks the desktop for runs and cancels them: the request view of the *)
(* front end, which shows one run at a time, and MCP clients, whose calls  *)
(* carry JSON-RPC ids of their own choosing.  Both reach ExecutionService  *)
(* by messages; runs report to the view by events, and answer by the       *)
(* result of the call, over different channels.  Execution models a run.   *)
(***************************************************************************)
EXTENDS Naturals, Sequences

CONSTANTS
  Runs,      \* runs by their IDs: the view asks for some, tools/call for others
  Keys,      \* JSON-RPC ids
  KeyOf,     \* the id of the call for a run: other clients may choose the same
  MaxQueue,  \* bound on the events under way to the view
  None       \* no run

ASSUME ClientAssumptions ==
  None \notin Runs /\ KeyOf \in [Runs -> Keys] /\ MaxQueue \in Nat

VARIABLES
  run,        \* each run in the service
  aborted,    \* runs under way whose controller is aborted
  cancels,    \* execution.cancel requests under way
  wanted,     \* runs under way that someone asked to cancel (history)
  events,     \* events under way to the view
  answers,    \* results under way to the view
  lost,       \* runs of the view whose call has failed on the way
  current,    \* executionIdRef of the view
  phase,      \* state.phase of the view
  shown,      \* the run whose state it shows (history)
  call,       \* the tools/call for each run, "idle" for a run of the view
  entry,      \* activeToolCalls
  cut         \* calls under way whose controller is aborted

view == <<events, answers, lost, current, phase, shown>>
mcp == <<call, entry, cut>>
vars == <<run, aborted, cancels, wanted, events, answers, lost, current, phase, shown,
          call, entry, cut>>

\* How a run ends; the phase "completed" stands for "error" as well.
Ends == {"completed", "cancelled"}

Events == [run : Runs, phase : {"sending"} \cup Ends]

TypeOK ==
  /\ run \in [Runs -> {"none", "asked", "loading", "started", "over"}]
  /\ aborted \subseteq Runs /\ cancels \subseteq Runs /\ wanted \subseteq Runs
  /\ events \in Seq(Events) /\ Len(events) <= MaxQueue
  /\ answers \in [Runs -> Ends \cup {None}] /\ lost \subseteq Runs
  /\ current \in Runs \cup {None} /\ shown \in Runs \cup {None}
  /\ phase \in {"idle", "sending"} \cup Ends
  /\ call \in [Runs -> {"idle", "resolving", "running", "leaving", "returned"}]
  /\ entry \in [Keys -> Runs \cup {None}] /\ cut \subseteq Runs

Init ==
  /\ run = [r \in Runs |-> "none"] /\ aborted = {}
  /\ cancels = {} /\ wanted = {} /\ events = <<>> /\ answers = [r \in Runs |-> None]
  /\ lost = {} /\ current = None /\ phase = "idle" /\ shown = None
  /\ call = [c \in Runs |-> "idle"] /\ entry = [k \in Keys |-> None] /\ cut = {}

-----------------------------------------------------------------------------
(* The service.                                                            *)

\* The view hears of all runs.
Publish(r, p) ==
  Len(events) < MaxQueue /\ events' = Append(events, [run |-> r, phase |-> p])

\* The request has arrived: the run is looking up its entity.
Arrive(r) ==
  /\ run[r] = "asked" /\ run' = [run EXCEPT ![r] = "loading"]
  /\ UNCHANGED <<aborted, cancels, wanted, view, mcp>>

\* execution-started: from now on the run is in activeByWorkspace.
Begin(r) ==
  /\ run[r] = "loading" /\ run' = [run EXCEPT ![r] = "started"]
  /\ UNCHANGED <<aborted, cancels, wanted, view, mcp>>

\* Any event between the first and the last.
Progress(r) ==
  /\ run[r] = "started" /\ Publish(r, "sending")
  /\ UNCHANGED <<run, aborted, cancels, wanted, answers, lost, current, phase, shown, mcp>>

\* The last event, which takes the run off activeByWorkspace, then the result.  An
\* abort may come too late to count.
End(r) ==
  /\ run[r] \in {"loading", "started"}
  /\ run' = [run EXCEPT ![r] = "over"]
  /\ \E how \in Ends :
       /\ how = "cancelled" => r \in aborted
       /\ Publish(r, how)
       /\ answers' = IF call[r] = "idle" /\ r \notin lost
                     THEN [answers EXCEPT ![r] = how] ELSE answers
  /\ aborted' = aborted \ {r} /\ wanted' = wanted \ {r}
  /\ UNCHANGED <<cancels, lost, current, phase, shown, mcp>>

\* ExecutionService.cancel knows only what has been announced.
CancelArrives(r) ==
  /\ r \in cancels /\ cancels' = cancels \ {r}
  /\ aborted' = IF run[r] = "started" THEN aborted \cup {r} ELSE aborted
  /\ UNCHANGED <<run, wanted, view, mcp>>

AskCancel(R) ==
  /\ cancels' = cancels \cup R
  /\ wanted' = wanted \cup (R \ {r \in Runs : run[r] = "over"})

-----------------------------------------------------------------------------
(* The view.                                                               *)

\* Faulty: the run in hand is forgotten and not cancelled.
ForgetCurrent == UNCHANGED <<cancels, wanted>>

\* cancelActiveExecution.
CancelCurrent == AskCancel({current} \ {None})

Execute(r) ==
  /\ run[r] = "none" /\ call[r] = "idle" /\ run' = [run EXCEPT ![r] = "asked"]
  /\ CancelCurrent
  /\ current' = r /\ phase' = "sending" /\ shown' = r
  /\ UNCHANGED <<aborted, events, answers, lost, mcp>>

CancelClick ==
  /\ phase # "idle" /\ CancelCurrent
  /\ current' = None /\ phase' = "cancelled"
  /\ UNCHANGED <<run, aborted, events, answers, lost, shown, mcp>>

\* Another entity is selected, or the view is reset or unmounted.
Leave ==
  /\ CancelCurrent
  /\ current' = None /\ phase' = "idle" /\ shown' = None
  /\ UNCHANGED <<run, aborted, events, answers, lost, mcp>>

\* Faulty: events of any run of the view are shown.
SeesAll(r) == call[r] = "idle"

\* isCurrent.
Sees(r) == r = current

EventArrives ==
  /\ events # <<>> /\ events' = Tail(events)
  /\ LET e == Head(events) IN
     IF Sees(e.run) THEN phase' = e.phase /\ shown' = e.run ELSE UNCHANGED <<phase, shown>>
  /\ UNCHANGED <<run, aborted, cancels, wanted, answers, lost, current, mcp>>

\* Faulty: a result is shown whatever has happened since.
AnswerShown(r) ==
  /\ answers[r] # None /\ answers' = [answers EXCEPT ![r] = None]
  /\ phase' = answers[r] /\ shown' = r
  /\ current' = IF current = r THEN None ELSE current
  /\ UNCHANGED <<run, aborted, cancels, wanted, events, lost, mcp>>

\* The result; the view no longer listens to events of the run.
AnswerArrives(r) ==
  /\ answers[r] # None /\ answers' = [answers EXCEPT ![r] = None]
  /\ IF Sees(r) THEN phase' = answers[r] /\ shown' = r /\ current' = None
     ELSE UNCHANGED <<phase, shown, current>>
  /\ UNCHANGED <<run, aborted, cancels, wanted, events, lost, mcp>>

\* The call fails on the way, and the view shows an error: the run, if it is not over,
\* goes on, and its result goes nowhere.
CallBreaks(r) ==
  /\ run[r] # "none" /\ call[r] = "idle" /\ r \notin lost
  /\ run[r] = "over" => answers[r] # None
  /\ lost' = lost \cup {r} /\ answers' = [answers EXCEPT ![r] = None]
  /\ IF Sees(r) THEN phase' = "completed" /\ shown' = r /\ current' = None
     ELSE UNCHANGED <<phase, shown, current>>
  /\ UNCHANGED <<run, aborted, cancels, wanted, events, mcp>>

-----------------------------------------------------------------------------
(* The MCP server.                                                         *)

\* processRequest notes the controller under the id and resolves the workspace.
ToolCall(c) ==
  /\ run[c] = "none" /\ call[c] = "idle" /\ call' = [call EXCEPT ![c] = "resolving"]
  /\ entry' = [entry EXCEPT ![KeyOf[c]] = c]
  /\ UNCHANGED <<run, aborted, cancels, wanted, view, cut>>

\* An abort that came first is forwarded at once.
Forward(c) ==
  IF c \in cut THEN AskCancel({c}) ELSE UNCHANGED <<cancels, wanted>>

\* executeEntityTool asks for the run.
ToolRun(c) ==
  /\ call[c] = "resolving" /\ call' = [call EXCEPT ![c] = "running"]
  /\ run' = [run EXCEPT ![c] = "loading"]
  /\ Forward(c)
  /\ UNCHANGED <<aborted, view, entry, cut>>

\* The call throws and there is no run: its workspace or its input is at fault, or the
\* run is refused when an abort that came first has been forwarded.
ToolFails(c) ==
  /\ call[c] = "resolving" /\ call' = [call EXCEPT ![c] = "leaving"]
  /\ run' = [run EXCEPT ![c] = "over"]
  /\ cancels' \in {cancels, cancels \cup (cut \cap {c})}
  /\ UNCHANGED <<aborted, wanted, view, entry, cut>>

\* The controller of a call is aborted: a listener forwards it, once.
Abort(c) ==
  /\ cut' = cut \cup {c}
  /\ IF call[c] = "running" /\ c \notin cut
     THEN AskCancel({c}) ELSE UNCHANGED <<cancels, wanted>>

\* The HTTP request of a call is aborted.
HttpAbort(c) ==
  /\ call[c] \in {"resolving", "running", "leaving"} /\ c \notin cut
  /\ Abort(c)
  /\ UNCHANGED <<run, aborted, view, call, entry>>

\* notifications/cancelled, sent by the client of call c, goes to the call that is
\* noted under its id.
Notify(c) ==
  /\ call[c] \in {"resolving", "running", "leaving"} /\ entry[KeyOf[c]] # None
  /\ Abort(entry[KeyOf[c]])
  /\ UNCHANGED <<run, aborted, view, call, entry>>

\* Faulty: the caller of a cancelled run is not answered.
ToolLeavesUncut(c) ==
  /\ call[c] = "running" /\ run[c] = "over" /\ c \notin cut
  /\ call' = [call EXCEPT ![c] = "leaving"]
  /\ UNCHANGED <<run, aborted, cancels, wanted, view, entry, cut>>

\* The run is over.
ToolLeaves(c) ==
  /\ call[c] = "running" /\ run[c] = "over" /\ call' = [call EXCEPT ![c] = "leaving"]
  /\ UNCHANGED <<run, aborted, cancels, wanted, view, entry, cut>>

\* Faulty: the cancellation is not awaited.
ToolReturnsAtOnce(c) ==
  /\ call[c] = "leaving" /\ call' = [call EXCEPT ![c] = "returned"]
  /\ entry' = [entry EXCEPT ![KeyOf[c]] = None]
  /\ cut' = cut \ {c}
  /\ UNCHANGED <<run, aborted, cancels, wanted, view>>

\* The answer, when the cancellation has been answered, too; whatever is noted
\* under the id is removed.
ToolReturns(c) ==
  /\ call[c] = "leaving" /\ c \notin cancels /\ call' = [call EXCEPT ![c] = "returned"]
  /\ entry' = [entry EXCEPT ![KeyOf[c]] = None]
  /\ cut' = cut \ {c}
  /\ UNCHANGED <<run, aborted, cancels, wanted, view>>

-----------------------------------------------------------------------------

Service(r) == Arrive(r) \/ Begin(r) \/ CancelArrives(r)

\* A server may keep a run from ending unless the run is aborted.
Ending(r) == r \in aborted /\ End(r)

Next ==
  \/ \E r \in Runs : \/ Service(r) \/ Progress(r) \/ End(r)
                     \/ Execute(r) \/ AnswerArrives(r) \/ CallBreaks(r)
  \/ CancelClick \/ Leave \/ EventArrives
  \/ \E c \in Runs : \/ ToolCall(c) \/ ToolRun(c) \/ ToolFails(c)
                      \/ HttpAbort(c) \/ Notify(c)
                      \/ ToolLeaves(c) \/ ToolReturns(c)

Spec ==
  /\ Init /\ [][Next]_vars
  /\ WF_vars(EventArrives)
  /\ \A r \in Runs : WF_vars(Service(r)) /\ SF_vars(Ending(r)) /\ WF_vars(AnswerArrives(r))
  /\ \A c \in Runs : WF_vars(ToolRun(c) \/ ToolFails(c) \/ ToolLeaves(c) \/ ToolReturns(c))

-----------------------------------------------------------------------------

\* A view never shows the state of a run it has left: not by an event that was
\* under way, and not by a result that comes late.
NothingStaleIsShown ==
  [][shown' # shown => shown' = None \/ shown' = current']_vars

\* What the user has cancelled stays so until the user does something else: neither
\* a late event nor the result of the run replaces the phase.
CancelledStays ==
  [][phase = "cancelled" /\ current = None /\ phase' # phase
       => (current' # None \/ shown' = None)]_vars

\* Of the runs of the view at most the one it shows goes on without a request to
\* cancel it: superseding, leaving and unmounting leave no run behind.  Only a call that
\* fails on the way does.
NoRunIsLeftBehind ==
  \A r \in Runs : call[r] = "idle" /\ run[r] \in {"asked", "loading", "started"}
                  => r = current \/ r \in wanted \/ r \in lost

\* An aborted call has asked for the cancellation of its run as soon as it has one,
\* also when it was aborted first (server.ts:441).
AbortsAreForwarded ==
  \A c \in cut : call[c] = "running" /\ run[c] # "over" => c \in wanted

\* When a call has returned, no cancellation of its run is under way, which could
\* hit a later run with the same ID (server.ts:450).
NoCancelOutlivesItsCall == \A c \in Runs : call[c] = "returned" => c \notin cancels

\* The registry notes calls that are under way only.
NotedCallsAreActive ==
  \A k \in Keys : entry[k] # None =>
    KeyOf[entry[k]] = k /\ call[entry[k]] \in {"resolving", "running", "leaving"}

\* A run whose cancellation reached the service after it had been announced ends,
\* and its caller hears of it.
CancelledRunsAnswer ==
  \A r \in Runs : r \in aborted ~>
    run[r] = "over" /\ answers[r] = None /\ call[r] \in {"idle", "returned"}

\* requests.mdx:167: cancelling from the desktop aborts the run; a request to cancel
\* it is not dropped.
NoCancelIsLost ==
  [][\A r \in Runs : r \in wanted /\ run[r] = "started" /\ run'[r] = "over"
       => r \in aborted \/ r \in cancels]_vars

=============================================================================
