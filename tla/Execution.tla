----------------------------- MODULE Execution -----------------------------
(***************************************************************************)
(* HeadlessExecutionService: runs of requests with their hooks, the nested *)
(* runs that hooks start, cancellation and timeouts, the terminal event    *)
(* and the history record.  Each action is one turn of executeInternal,    *)
(* from the await that has settled to the next one.  Servers, scripts and  *)
(* the history store answer, fail, or never answer.                        *)
(***************************************************************************)
EXTENDS Naturals, Sequences

CONSTANTS
  Roots,       \* runs that callers ask for
  Nested,      \* runs that hooks ask for
  MaxScripts,  \* bound on the lifecycle scripts of a request
  MaxDepth,    \* maxNestingDepth
  None         \* the parent of a root

Runs == Roots \cup Nested

ASSUME ExecutionAssumptions ==
  /\ Roots \cap Nested = {} /\ None \notin Runs
  /\ MaxScripts \in Nat /\ MaxDepth \in Nat

VARIABLES
  step,     \* the await at which each run stands
  plan,     \* how many scripts and tests it has, its parent and depth
  at,       \* the kind of hook it has come to, and
  next,     \* the script of which it is the turn
  mocked,   \* runs whose response came from a hook
  session,  \* runs that hold an open runtime session
  failed,   \* runs whose body threw and whose session is being disposed
  aborted,  \* runs whose controller is aborted
  early,    \* those aborted while a check of the signal lay ahead (history)
  loose,    \* nested runs whose hook ended before them (history)
  finals,   \* terminal events emitted by each run
  result,   \* what execute resolved with
  history   \* the status in the run's history record

vars == <<step, plan, at, next, mocked, session, failed, aborted, early, loose,
          finals, result, history>>

Hooks == {"onRequest", "onResponse", "onTest"}
Statuses == {"completed", "cancelled", "failed"}
Steps == {"idle", "asked", "loading", "started", "opening", "building",
          "announced", "inHook", "hookDone", "sending", "received", "closing",
          "announcing", "reporting", "ended"}
\* The lifecycle scripts, and the sources to test with in test mode: the same
\* and perhaps one more.
Plans == [scripts : 0..MaxScripts, tests : 0..(MaxScripts + 1),
          parent : Runs \cup {None}, depth : 0..(MaxDepth + 1)]
Planned(n, t, p, d) == [scripts |-> n, tests |-> t, parent |-> p, depth |-> d]

TypeOK ==
  /\ step \in [Runs -> Steps]
  /\ plan \in [Runs -> Plans]
  /\ at \in [Runs -> Hooks] /\ next \in [Runs -> 1..(MaxScripts + 1)]
  /\ mocked \subseteq Runs /\ session \subseteq Runs /\ failed \subseteq Runs
  /\ aborted \subseteq Runs /\ early \subseteq aborted
  /\ loose \subseteq Nested
  /\ finals \in [Runs -> Seq(Statuses)]
  /\ result \in [Runs -> Statuses \cup {"none", "rejected"}]
  /\ history \in [Runs -> Statuses \cup {"none"}]

Init ==
  /\ step = [e \in Runs |-> "idle"]
  /\ plan = [e \in Runs |-> Planned(0, 0, None, 0)]
  /\ at = [e \in Runs |-> "onRequest"] /\ next = [e \in Runs |-> 1]
  /\ mocked = {} /\ session = {} /\ failed = {}
  /\ aborted = {} /\ early = {} /\ loose = {}
  /\ finals = [e \in Runs |-> <<>>]
  /\ result = [e \in Runs |-> "none"] /\ history = [e \in Runs |-> "none"]

-----------------------------------------------------------------------------
(* The controllers.                                                        *)

\* In the service's map of active executions.
Active(e) == step[e] \notin {"idle", "asked", "ended"}

\* Faulty: only the children that are under way are told.
LinkedActive(S) == S \cup {d \in Runs : Active(d) /\ plan[d].parent \in S}

\* Runs whose controller is, or will be at their start, linked to that of e:
\* children asked for or under way, and theirs while they are active.
Linked(S) ==
  LET Closed == {U \in SUBSET Runs :
                   /\ S \subseteq U
                   /\ \A d \in Runs : step[d] \notin {"idle", "ended"} /\ plan[d].parent \in U
                                     => d \in U}
  IN {d \in Runs : \A U \in Closed : d \in U}

\* Once the response is there, only hooks look at the signal.
Unchecked == {"received", "closing", "announcing", "reporting"}

\* The controllers of S are aborted, and every controller linked to them.
AbortAll(S) ==
  /\ aborted' = aborted \cup Linked(S)
  /\ early' = early \cup {d \in Linked(S) \ aborted : step[d] \notin Unchecked}

\* Nested runs asked for by the hook that e is in.
Children(e) == {c \in Nested \ loose : plan[c].parent = e /\ step[c] \notin {"idle", "ended"}}

\* cancel, the timer of options.timeoutMs, or the signal of the caller.
Abort(e) ==
  /\ Active(e) /\ e \notin aborted
  /\ AbortAll({e})
  /\ UNCHANGED <<step, plan, at, next, mocked, session, failed, loose, finals,
                 result, history>>

-----------------------------------------------------------------------------
(* The end of a run.                                                       *)

Go(e, s) == step' = [step EXCEPT ![e] = s]

Emit(e, status) == finals' = [finals EXCEPT ![e] = Append(@, status)]

\* The body is left, and its locals are gone.
Leave(e) ==
  /\ plan' = [plan EXCEPT ![e] = Planned(0, 0, plan[e].parent, plan[e].depth)]
  /\ at' = [at EXCEPT ![e] = "onRequest"] /\ next' = [next EXCEPT ![e] = 1]
  /\ mocked' = mocked \ {e}

Keep == UNCHANGED <<plan, at, next, mocked>>

\* The catch block.  An AbortError that is not of this run's signal counts as a
\* cancellation too.
Catch(e) ==
  /\ \/ Emit(e, "cancelled")
     \/ e \notin aborted /\ Emit(e, "failed")
  /\ Go(e, "reporting") /\ Leave(e)

\* Faulty: the error leaves the body without disposing of the session.
ThrowPastDispose(e) == Catch(e) /\ UNCHANGED failed

\* An error inside the body: the session is disposed of first.
Throw(e) ==
  IF e \in session
  THEN Go(e, "closing") /\ failed' = failed \cup {e} /\ UNCHANGED finals /\ Keep
  ELSE Catch(e) /\ UNCHANGED failed

\* The finally block around the hooks.
Close(e) ==
  /\ step[e] = "closing"
  /\ session' = session \ {e}
  /\ failed' = failed \ {e}
  /\ IF e \in failed THEN Catch(e)
     ELSE Emit(e, "completed") /\ Go(e, "announcing") /\ Leave(e)
  /\ UNCHANGED <<aborted, early, loose, result, history>>

\* Faulty: the result is that of the first event.
RecordFirst(e) ==
  /\ step[e] \in {"announcing", "reporting"}
  /\ history' = [history EXCEPT ![e] = finals[e][1]]
  /\ result' = [result EXCEPT ![e] = finals[e][Len(finals[e])]]
  /\ Go(e, "ended")
  /\ UNCHANGED <<plan, at, next, mocked, session, failed, aborted, early, loose,
                 finals>>

\* saveHistory, after the event: it may throw.  The first time the catch block
\* reports a failure, the second time the caller gets the error.
Record(e) ==
  /\ step[e] \in {"announcing", "reporting"}
  /\ LET status == finals[e][Len(finals[e])] IN
     /\ history' = [history EXCEPT ![e] = status]
     /\ result' = [result EXCEPT ![e] = status]
  /\ Go(e, "ended")
  /\ UNCHANGED <<plan, at, next, mocked, session, failed, aborted, early, loose,
                 finals>>

RecordFails(e) ==
  /\ \/ step[e] = "announcing" /\ Catch(e) /\ UNCHANGED result
     \/ /\ step[e] = "reporting" /\ Go(e, "ended")
        /\ result' = [result EXCEPT ![e] = "rejected"]
        /\ UNCHANGED finals /\ Keep
  /\ UNCHANGED <<session, failed, aborted, early, loose, history>>

-----------------------------------------------------------------------------
(* The body of a run.                                                      *)

Fail(e) == Throw(e) /\ UNCHANGED <<session, aborted, early, loose, result, history>>

Step(e, s) ==
  /\ Go(e, s) /\ Keep
  /\ UNCHANGED <<session, failed, aborted, early, loose, finals, result, history>>

\* executeInternal, called by a client.
Start(e) == step[e] = "idle" /\ Step(e, "loading")

\* The workspace and the entity with their scripts are there, and the start is
\* announced.
Load(e) ==
  /\ step[e] = "loading" /\ Go(e, "started")
  /\ \E n \in 0..MaxScripts, extra \in 0..1, test \in BOOLEAN :
       plan' = [plan EXCEPT ![e] = Planned(n, IF test THEN n + extra ELSE 0,
                                           plan[e].parent, plan[e].depth)]
  /\ UNCHANGED <<at, next, mocked, session, failed, aborted, early, loose, finals,
                 result, history>>

LoadFails(e) == step[e] = "loading" /\ Fail(e)

Scripted(e) == plan[e].scripts + plan[e].tests > 0

Started(e) ==
  /\ step[e] = "started"
  /\ IF e \in aborted THEN Fail(e)
     ELSE Step(e, IF Scripted(e) THEN "opening" ELSE "building")

Open(e) ==
  /\ step[e] = "opening" /\ Go(e, "building") /\ session' = session \cup {e}
  /\ UNCHANGED <<plan, at, next, mocked, failed, aborted, early, loose, finals,
                 result, history>>

OpenFails(e) == step[e] = "opening" /\ Fail(e)

\* The hooks of one kind, from script n on, then what follows them.  A hook is
\* announced before it is invoked.
Announce(e, kind, n) ==
  /\ Go(e, "announced")
  /\ at' = [at EXCEPT ![e] = kind] /\ next' = [next EXCEPT ![e] = n]
  /\ UNCHANGED <<plan, mocked, session, failed, aborted, early, loose, finals,
                 result, history>>

Count(e, kind) == IF kind = "onTest" THEN plan[e].tests ELSE plan[e].scripts

\* The check before the request goes out, unless a hook has answered it.
Dispatch(e) ==
  IF e \in aborted THEN Fail(e)
  ELSE Step(e, IF e \in mocked THEN "received" ELSE "sending")

After(e, kind) ==
  CASE kind = "onRequest" -> Dispatch(e)
    [] kind = "onResponse" ->
         IF plan[e].tests > 0 THEN Announce(e, "onTest", 1) ELSE Step(e, "closing")
    [] kind = "onTest" -> Step(e, "closing")

Hook(e, kind, n) ==
  IF n <= Count(e, kind) THEN Announce(e, kind, n) ELSE After(e, kind)

\* The body follows up with the hooks of a kind; without a session there are none.
Phase(e, kind) ==
  CASE Scripted(e) -> Hook(e, kind, 1)
    [] kind = "onRequest" /\ ~Scripted(e) -> Dispatch(e)
    [] kind = "onResponse" /\ ~Scripted(e) -> Step(e, "closing")

Build(e) == step[e] = "building" /\ Phase(e, "onRequest")
BuildFails(e) == step[e] = "building" /\ Fail(e)

Invoke(e) ==
  /\ step[e] = "announced"
  /\ IF e \in aborted THEN Fail(e) ELSE Step(e, "inHook")

\* The hook answers.  It may have mocked the response or cancelled the run; the
\* nested runs it did not wait for go on.
HookReturns(e) ==
  /\ step[e] = "inHook" /\ e \notin aborted
  /\ Go(e, "hookDone")
  /\ loose' = loose \cup Children(e)
  /\ \/ at[e] = "onRequest" /\ mocked' = mocked \cup {e}
     \/ UNCHANGED mocked
  /\ \/ AbortAll({e})
     \/ UNCHANGED <<aborted, early>>
  /\ UNCHANGED <<plan, at, next, session, failed, finals, result, history>>

HookThrows(e) ==
  /\ step[e] = "inHook" /\ e \notin aborted
  /\ Throw(e)
  /\ loose' = loose \cup Children(e)
  /\ UNCHANGED <<session, aborted, early, result, history>>

\* Faulty: what the hook has started goes on.
HookDiesAlone(e) ==
  /\ step[e] = "inHook" /\ e \notin aborted
  /\ Fail(e)

\* The hook takes too long, or its worker ends: the session aborts what the hook
\* has asked of the host.
HookDies(e) ==
  /\ step[e] = "inHook" /\ e \notin aborted
  /\ Throw(e)
  /\ AbortAll(Children(e))
  /\ UNCHANGED <<session, loose, result, history>>

\* The run is aborted: the session rejects the call.
HookRejected(e) == step[e] = "inHook" /\ e \in aborted /\ Fail(e)

\* Faulty: the signal is not looked at after a hook.
HookDoneUnchecked(e) ==
  /\ step[e] = "hookDone"
  /\ IF e \in mocked /\ at[e] = "onRequest" THEN After(e, "onRequest")
     ELSE Hook(e, at[e], next[e] + 1)

HookDone(e) ==
  /\ step[e] = "hookDone"
  /\ CASE e \in aborted -> Fail(e)
       [] e \notin aborted /\ e \in mocked /\ at[e] = "onRequest" -> After(e, "onRequest")
       [] OTHER -> Hook(e, at[e], next[e] + 1)

\* The transport has the response; its cookies and its body, which may be a stream
\* of events, come next.
Respond(e) == step[e] = "sending" /\ e \notin aborted /\ Step(e, "received")

\* Faulty: the transport is not given the signal.
SendFailsDeaf(e) == step[e] = "sending" /\ e \notin aborted /\ Fail(e)

\* The transport fails, or gives up because of the signal.
SendFails(e) == step[e] = "sending" /\ Fail(e)

Answered(e) == step[e] = "received" /\ Phase(e, "onResponse")
AnswerFails(e) == step[e] = "received" /\ Fail(e)

-----------------------------------------------------------------------------
(* Nested runs.                                                            *)

\* A hook asks for a run: the host looks up the entity first.
HostExecute(e, c) ==
  /\ step[e] = "inHook" /\ e \notin aborted /\ step[c] = "idle"
  /\ plan' = [plan EXCEPT ![c] = Planned(0, 0, e, plan[e].depth + 1)]
  /\ Go(c, "asked")
  /\ UNCHANGED <<at, next, mocked, session, failed, aborted, early, loose, finals,
                 result, history>>

Refused(c) ==
  /\ Go(c, "ended")
  /\ result' = [result EXCEPT ![c] = "rejected"]
  /\ UNCHANGED <<plan, at, next, mocked, session, failed, aborted, early, loose,
                 finals, history>>

\* executeInternal: a controller linked to that of the hook's call and of the run.
Launch(c) ==
  /\ step[c] = "asked"
  /\ IF plan[c].depth > MaxDepth THEN Refused(c) ELSE Step(c, "loading")

\* The entity is not there.
Refuse(c) == step[c] = "asked" /\ Refused(c)

-----------------------------------------------------------------------------

\* The turns the service takes by itself, with its own disk and workers; servers
\* and scripts owe nothing, but the signal ends the wait for a server.
Own(e) ==
  \/ Load(e) \/ Started(e) \/ Open(e) \/ Build(e) \/ Invoke(e) \/ HookRejected(e)
  \/ HookDone(e) \/ Close(e) \/ Record(e) \/ Launch(e)
  \/ e \in aborted /\ (SendFails(e) \/ AnswerFails(e))

Next ==
  \/ \E e \in Roots : Start(e)
  \/ \E e \in Runs :
       \/ Abort(e)
       \/ Load(e) \/ LoadFails(e) \/ Started(e) \/ Open(e) \/ OpenFails(e)
       \/ Build(e) \/ BuildFails(e) \/ Invoke(e)
       \/ HookReturns(e) \/ HookThrows(e) \/ HookDies(e) \/ HookRejected(e) \/ HookDone(e)
       \/ Respond(e) \/ SendFails(e) \/ Answered(e) \/ AnswerFails(e)
       \/ Close(e) \/ Record(e) \/ RecordFails(e)
  \/ \E e \in Runs, c \in Nested : HostExecute(e, c)
  \/ \E c \in Nested : Launch(c) \/ Refuse(c)

Spec == Init /\ [][Next]_vars /\ \A e \in Runs : WF_vars(Own(e))

-----------------------------------------------------------------------------

\* A run that is aborted ends the nested runs below it, those whose entity is
\* still being looked up included (execution.ts:155, 710; runtime-host.ts:43).
AbortReachesChildren ==
  \A c \in Nested :
    step[c] \notin {"idle", "ended"} /\ plan[c].parent \in aborted => c \in aborted

\* A nested run is under way only while the hook that asked for it runs, unless
\* the hook answered without waiting for it, or the nested run is aborted.
ChildrenRunInsideTheirHook ==
  \A c \in Nested :
    step[c] \notin {"idle", "ended"} /\ c \notin loose \cup aborted
      => step[plan[c].parent] = "inHook"

\* No error path leaves a runtime session, and its worker thread, behind: a
\* session is open only while the body of its run is being executed.
SessionsAreDisposed ==
  \A e \in session : step[e] \notin {"idle", "asked", "loading", "started", "opening",
                                    "announcing", "reporting", "ended"}

\* The result, the history and the last event agree, although storing the history
\* may fail after an event was emitted; a failure is then the second event.
ResultIsRecorded ==
  \A e \in Runs :
    /\ result[e] \in Statuses =>
         /\ history[e] = result[e]
         /\ finals[e] # <<>> /\ finals[e][Len(finals[e])] = result[e]
    /\ Len(finals[e]) <= 2
    /\ Len(finals[e]) = 2 => finals[e][1] = "completed" /\ finals[e][2] # "completed"

\* A run that is aborted before its response is there, or while a hook of its is
\* running, is never reported as completed (throwIfAborted at 240, 304 and 690).
EarlyAbortIsReported ==
  \A e \in early : \A i \in DOMAIN finals[e] : finals[e][i] # "completed"

\* Once a run is aborted it neither sends its request nor starts another hook.
NoWorkAfterAbort ==
  [][\A e \in aborted : step'[e] \in {"sending", "inHook"} => step'[e] = step[e]]_vars

\* An aborted run ends, whatever servers and scripts do.
AbortedRunsEnd == \A e \in Runs : (e \in aborted) ~> (step[e] = "ended")

\* What the documentation says of nested runs (scripting.mdx:263): they are over
\* when the run that asked for them is.
ChildrenEndWithTheirParent ==
  \A c \in Nested :
    step[c] \notin {"idle", "ended"} => step[plan[c].parent] # "ended"

=============================================================================
