--------------------------- MODULE ScriptSession ---------------------------
(***************************************************************************)
(* One scripting session of the desktop: the serial queue of hook calls of *)
(* TanxiumRuntimeSession, the ScriptWorker that owns the worker thread and *)
(* replaces it after a cancellation, a timeout or a crash, and the program *)
(* that runs inside the thread.  Host and worker exchange messages; a hook *)
(* may call back into the host while it runs.                              *)
(*                                                                         *)
(* An action is one turn of the host's event loop or of the worker's.  A   *)
(* promise that has settled is continued before the next event of the host *)
(* is taken, hence the guard Quiet of everything that is an event.         *)
(***************************************************************************)
EXTENDS Naturals, Sequences, FiniteSets

CONSTANTS
  Calls,        \* invokeHook calls on this session
  MaxWorkers,   \* worker threads; each call starts at most one
  None          \* no call

ASSUME SessionAssumptions ==
  /\ IsFiniteSet(Calls) /\ MaxWorkers \in Nat /\ MaxWorkers > Cardinality(Calls)
  /\ None \notin Calls

VARIABLES
  session,    \* "starting" inside createSession, then "open" or "disposed"
  queue,      \* calls chained on #queue; the head is the one being served
  stage,      \* where each call is
  outcome,    \* how each call was settled
  waits,      \* the worker whose readiness a call awaits or has awaited
  signalled,  \* calls whose AbortSignal is aborted
  expired,    \* calls whose own timer fired (history)
  dropped,    \* workers reset while starting: their promise never settles (history)
  state,      \* ScriptWorker.state
  started,    \* how many workers strategy.start has made; the last is current
  ready,      \* the readyPromise made with each worker
  life,       \* what became of each worker thread
  pending,    \* pendingRuntimeRequests
  inbox,      \* messages to each worker
  outbox,     \* messages from each worker
  running,    \* activeRuntimeState of each worker
  awaiting,   \* workers whose hook awaits the answer of a host call
  serving,    \* calls on whose behalf a host-call handler is running
  handlerCut  \* calls whose RuntimeExecutionRequest.controller is aborted

hostVars == <<session, queue, stage, outcome, waits, signalled, expired,
              dropped, state, started, ready, pending, serving, handlerCut>>
workerVars == <<life, inbox, outbox, running, awaiting>>
vars == <<session, queue, stage, outcome, waits, signalled, expired, dropped,
          state, started, ready, life, pending, inbox, outbox, running, awaiting,
          serving, handlerCut>>

Workers == 1..MaxWorkers
Failures == {"cancelled", "timeout", "exited", "broken", "silent", "disposed"}
Outcomes == {"result", "threw"} \cup Failures

ToWorker == [type : {"invoke", "host-result"}, call : Calls]
ToHost == [type : {"ready", "host-call", "result", "threw", "exited", "broken"},
           call : Calls \cup {None}]

TypeOK ==
  /\ session \in {"starting", "open", "disposed"}
  /\ queue \in Seq(Calls)
  /\ stage \in [Calls -> {"idle", "queued", "awaiting", "invoked", "settled"}]
  /\ outcome \in [Calls -> Outcomes \cup {"none"}]
  /\ waits \in [Calls -> 0..MaxWorkers]
  /\ signalled \subseteq Calls /\ expired \subseteq Calls /\ dropped \subseteq Workers
  /\ state \in {"terminated", "initializing", "ready", "executing"}
  /\ started \in Workers
  /\ ready \in [Workers -> {"pending", "resolved", "exited", "broken"}]
  /\ life \in [Workers -> {"unborn", "starting", "up", "died", "killed"}]
  /\ pending \subseteq Calls
  /\ inbox \in [Workers -> Seq(ToWorker)] /\ outbox \in [Workers -> Seq(ToHost)]
  /\ running \in [Workers -> Calls \cup {None}]
  /\ awaiting \subseteq Workers
  /\ serving \subseteq Calls /\ handlerCut \subseteq Calls

\* createSession has called session.start(), which starts the first worker.
Init ==
  /\ session = "starting"
  /\ queue = <<>>
  /\ stage = [c \in Calls |-> "idle"] /\ outcome = [c \in Calls |-> "none"]
  /\ waits = [c \in Calls |-> 0]
  /\ signalled = {} /\ expired = {} /\ dropped = {}
  /\ state = "initializing" /\ started = 1
  /\ ready = [w \in Workers |-> "pending"]
  /\ life = [w \in Workers |-> IF w = 1 THEN "starting" ELSE "unborn"]
  /\ pending = {}
  /\ inbox = [w \in Workers |-> <<>>] /\ outbox = [w \in Workers |-> <<>>]
  /\ running = [w \in Workers |-> None] /\ awaiting = {}
  /\ serving = {} /\ handlerCut = {}

-----------------------------------------------------------------------------
(* Parts of the handlers.                                                  *)

Live(w) == life[w] \in {"starting", "up"}
Message(type, c) == [type |-> type, call |-> c]

\* The promise of call c settles: the next call of the chain may begin.
Settle(c, how) ==
  /\ stage' = [stage EXCEPT ![c] = "settled"]
  /\ outcome' = [outcome EXCEPT ![c] = how]
  /\ queue' = Tail(queue)

\* Rejected calls are answered; only the first call of the chain can be pending.
Answered(how) ==
  /\ stage' = [c \in Calls |-> IF c \in pending THEN "settled" ELSE stage[c]]
  /\ outcome' = [c \in Calls |-> IF c \in pending THEN how ELSE outcome[c]]
  /\ pending' = {}
MoveOn == queue' = IF pending = {} THEN queue ELSE Tail(queue)

\* Faulty: the controllers of the requests are not aborted.
RejectAllKeepingHandlers(how) == Answered(how) /\ MoveOn /\ UNCHANGED handlerCut

\* Faulty: a rejected call is not followed by the next one of the chain.
RejectAllBreakingTheChain(how) ==
  Answered(how) /\ UNCHANGED queue /\ handlerCut' = handlerCut \cup pending

\* rejectRuntimeRequests: every pending request is taken, its controller
\* aborted, its promise rejected.
RejectAll(how) == Answered(how) /\ MoveOn /\ handlerCut' = handlerCut \cup pending

\* cleanupWorker: the thread is stopped, and with it what it was running and
\* every message to it and from it.
StopThread ==
  /\ life' = IF Live(started) THEN [life EXCEPT ![started] = "killed"] ELSE life
  /\ inbox' = [inbox EXCEPT ![started] = <<>>]
  /\ outbox' = [outbox EXCEPT ![started] = <<>>]
  /\ running' = [running EXCEPT ![started] = None]
  /\ awaiting' = awaiting \ {started}

\* resetWorker.  A promise of readiness that is still pending stays so.
ResetWorker(how) ==
  /\ RejectAll(how)
  /\ state' = "terminated"
  /\ IF state = "terminated" THEN UNCHANGED workerVars ELSE StopThread

DropStart == dropped' = IF state = "initializing" THEN dropped \cup {started} ELSE dropped

\* A continuation is due: a call whose turn it is, or whose awaited promise
\* has settled, or createSession.
MayBegin(c) == queue # <<>> /\ c = Head(queue) /\ stage[c] = "queued"
MayResume(c) == stage[c] = "awaiting" /\ ready[waits[c]] # "pending"
MayOpen == session = "starting" /\ ready[1] # "pending"
Quiet == ~MayOpen /\ \A c \in Calls : ~MayBegin(c) /\ ~MayResume(c)

-----------------------------------------------------------------------------
(* The session and the calls.                                              *)

\* createSession continues: the session is handed out, or disposed and the
\* error thrown.
Open ==
  /\ MayOpen
  /\ session' = IF ready[1] = "resolved" THEN "open" ELSE "disposed"
  /\ UNCHANGED <<queue, stage, outcome, waits, signalled, expired, dropped, state,
                 started, ready, pending, serving, handlerCut, workerVars>>

\* Faulty: does not wait for the calls before it.
InvokeAtOnce(c) ==
  /\ Quiet
  /\ session # "starting" /\ stage[c] = "idle"
  /\ stage' = [stage EXCEPT ![c] = "queued"]
  /\ queue' = <<c>> \o queue
  /\ UNCHANGED <<session, outcome, waits, signalled, expired, dropped, state, started,
                 ready, pending, serving, handlerCut, workerVars>>

\* invokeHook chains the call behind those made before.
Invoke(c) ==
  /\ Quiet
  /\ session # "starting" /\ stage[c] = "idle"
  /\ stage' = [stage EXCEPT ![c] = "queued"]
  /\ queue' = Append(queue, c)
  /\ UNCHANGED <<session, outcome, waits, signalled, expired, dropped, state, started,
                 ready, pending, serving, handlerCut, workerVars>>

\* The head of invokeNow and invokeRuntimeHook: refused, or ensureWorker
\* awaits the current worker.
BeginRefused(c) ==
  /\ MayBegin(c)
  /\ session = "disposed" \/ c \in signalled
  /\ Settle(c, IF session = "disposed" THEN "disposed" ELSE "cancelled")
  /\ UNCHANGED <<session, waits, signalled, expired, dropped, state, started, ready,
                 pending, serving, handlerCut, workerVars>>

BeginAwaiting(c) ==
  /\ MayBegin(c)
  /\ session # "disposed" /\ c \notin signalled
  /\ state # "terminated"
  /\ stage' = [stage EXCEPT ![c] = "awaiting"]
  /\ waits' = [waits EXCEPT ![c] = started]
  /\ UNCHANGED <<session, queue, outcome, signalled, expired, dropped, state, started,
                 ready, pending, serving, handlerCut, workerVars>>

\* ensureWorker starts a new worker first.
BeginStarting(c) ==
  /\ MayBegin(c)
  /\ session # "disposed" /\ c \notin signalled
  /\ state = "terminated" /\ started < MaxWorkers
  /\ state' = "initializing"
  /\ started' = started + 1
  /\ life' = [life EXCEPT ![started + 1] = "starting"]
  /\ stage' = [stage EXCEPT ![c] = "awaiting"]
  /\ waits' = [waits EXCEPT ![c] = started + 1]
  /\ UNCHANGED <<session, queue, outcome, signalled, expired, dropped, ready, pending,
                 inbox, outbox, running, awaiting, serving, handlerCut>>

Begin(c) == BeginRefused(c) \/ BeginAwaiting(c) \/ BeginStarting(c)

\* invokeRuntimeHook after its await: the signal is looked at again, then the
\* request is registered and posted.
ResumeRefused(c) ==
  /\ MayResume(c)
  /\ ready[waits[c]] # "resolved" \/ c \in signalled
  /\ Settle(c, IF ready[waits[c]] # "resolved" THEN ready[waits[c]] ELSE "cancelled")
  /\ UNCHANGED <<session, waits, signalled, expired, dropped, state, started, ready,
                 pending, serving, handlerCut, workerVars>>

ResumeInvoking(c) ==
  /\ MayResume(c)
  /\ ready[waits[c]] = "resolved" /\ c \notin signalled
  /\ stage' = [stage EXCEPT ![c] = "invoked"]
  /\ pending' = pending \cup {c}
  /\ state' = "executing"
  /\ inbox' = [inbox EXCEPT ![started] = Append(@, Message("invoke", c))]
  /\ UNCHANGED <<session, queue, outcome, waits, signalled, expired, dropped, started,
                 ready, life, outbox, running, awaiting, serving, handlerCut>>

Resume(c) == ResumeRefused(c) \/ ResumeInvoking(c)

-----------------------------------------------------------------------------
(* Events of the host.                                                     *)

\* Faulty: trusts the worker to stop the hook.
HardCancelKeepingWorker(c, how) ==
  /\ c \in pending
  /\ RejectAll(how)
  /\ state' = "ready"
  /\ UNCHANGED workerVars

\* A hard cancellation: the request is taken, its controller aborted, its
\* promise rejected, and the worker is reset whatever it is doing.
HardCancel(c, how) == c \in pending /\ ResetWorker(how)

\* The request's timer; the session always sets one.
TimeOut(c) ==
  /\ Quiet
  /\ HardCancel(c, "timeout")
  /\ expired' = expired \cup {c}
  /\ UNCHANGED <<session, waits, signalled, dropped, started, ready, serving>>

\* The caller aborts the signal it passed; the listener is there only while
\* the request is pending.
Abort(c) ==
  /\ Quiet
  /\ stage[c] # "settled" /\ c \notin signalled
  /\ signalled' = signalled \cup {c}
  /\ IF c \in pending
     THEN HardCancel(c, "cancelled")
     ELSE UNCHANGED <<stage, outcome, queue, handlerCut, pending, state, workerVars>>
  /\ UNCHANGED <<session, waits, expired, dropped, started, ready, serving>>

\* The monitor has seen no heartbeat for a minute.
GiveUp ==
  /\ Quiet
  /\ state # "terminated"
  /\ ResetWorker("silent") /\ DropStart
  /\ UNCHANGED <<session, waits, signalled, expired, started, ready, serving>>

Dispose ==
  /\ Quiet
  /\ session = "open"
  /\ session' = "disposed"
  /\ ResetWorker("disposed") /\ DropStart
  /\ UNCHANGED <<waits, signalled, expired, started, ready, serving>>

\* The next message of the worker is handled.
Arrives(type, c) ==
  /\ Quiet
  /\ outbox[started] # <<>> /\ Head(outbox[started]) = Message(type, c)
Taken == outbox' = [outbox EXCEPT ![started] = Tail(@)]

HandleReady ==
  /\ Arrives("ready", None) /\ Taken
  /\ state' = "ready"
  /\ ready' = [ready EXCEPT ![started] = "resolved"]
  /\ UNCHANGED <<session, queue, stage, outcome, waits, signalled, expired, dropped,
                 started, pending, life, inbox, running, awaiting, serving, handlerCut>>

\* "result" and "error" of a pending request.
HandleAnswer(c) ==
  /\ \E how \in {"result", "threw"} : Arrives(how, c) /\ Settle(c, how)
  /\ c \in pending
  /\ Taken
  /\ pending' = pending \ {c}
  /\ state' = "ready"
  /\ UNCHANGED <<session, waits, signalled, expired, dropped, started, ready, life,
                 inbox, running, awaiting, serving, handlerCut>>

\* A host call of a pending request starts a handler; of another it is dropped.
HandleHostCall(c) ==
  /\ Arrives("host-call", c) /\ Taken
  /\ serving' = IF c \in pending THEN serving \cup {c} ELSE serving
  /\ UNCHANGED <<session, queue, stage, outcome, waits, signalled, expired, dropped, state,
                 started, ready, pending, life, inbox, running, awaiting, handlerCut>>

\* handleError and handleExit: a start that is awaited fails, every request is
\* rejected, the worker is cleaned up.
HandleEnd(how) ==
  /\ Arrives(how, None)
  /\ ready' = IF state = "initializing" THEN [ready EXCEPT ![started] = how] ELSE ready
  /\ ResetWorker(how)
  /\ UNCHANGED <<session, waits, signalled, expired, dropped, started, serving>>

\* A handler of a host call ends; its answer is posted while the request lives.
HandlerEnds(c) ==
  /\ Quiet
  /\ c \in serving
  /\ serving' = serving \ {c}
  /\ inbox' = IF c \in pending /\ state # "terminated"
              THEN [inbox EXCEPT ![started] = Append(@, Message("host-result", c))]
              ELSE inbox
  /\ UNCHANGED <<session, queue, stage, outcome, waits, signalled, expired, dropped, state,
                 started, ready, pending, life, outbox, running, awaiting, handlerCut>>

-----------------------------------------------------------------------------
(* The worker thread.                                                      *)

Post(w, type, c) == outbox' = [outbox EXCEPT ![w] = Append(@, Message(type, c))]

\* The preload has been evaluated.
Boot(w) ==
  /\ life[w] = "starting"
  /\ life' = [life EXCEPT ![w] = "up"]
  /\ Post(w, "ready", None)
  /\ UNCHANGED <<inbox, running, awaiting, hostVars>>

\* handleRuntimeInvoke makes the hook the active one.
StartHook(w) ==
  /\ life[w] = "up" /\ inbox[w] # <<>> /\ Head(inbox[w]).type = "invoke"
  /\ running' = [running EXCEPT ![w] = Head(inbox[w]).call]
  /\ inbox' = [inbox EXCEPT ![w] = Tail(@)]
  /\ UNCHANGED <<life, outbox, awaiting, hostVars>>

\* callRuntimeHost, with or without an await.
CallHost(w) ==
  /\ life[w] = "up" /\ running[w] # None /\ w \notin awaiting
  /\ awaiting' = awaiting \cup {w}
  /\ Post(w, "host-call", running[w])
  /\ UNCHANGED <<life, inbox, running, hostVars>>

\* resolveRuntimeHostCall; the answer to a hook that has ended is dropped.
HostAnswered(w) ==
  /\ life[w] = "up" /\ inbox[w] # <<>> /\ Head(inbox[w]).type = "host-result"
  /\ inbox' = [inbox EXCEPT ![w] = Tail(@)]
  /\ awaiting' = IF running[w] = Head(inbox[w]).call THEN awaiting \ {w} ELSE awaiting
  /\ UNCHANGED <<life, outbox, running, hostVars>>

\* The hook returns or throws, and its host calls are forgotten.
FinishHook(w) ==
  /\ life[w] = "up" /\ running[w] # None
  /\ \E how \in {"result", "threw"} : Post(w, how, running[w])
  /\ running' = [running EXCEPT ![w] = None]
  /\ awaiting' = awaiting \ {w}
  /\ UNCHANGED <<life, inbox, hostVars>>

\* The thread exits (process.exit, or its preload fails), or breaks with an
\* uncaught error.
Die(w) ==
  /\ Live(w)
  /\ life' = [life EXCEPT ![w] = "died"]
  /\ \E how \in {"exited", "broken"} : Post(w, how, None)
  /\ running' = [running EXCEPT ![w] = None]
  /\ awaiting' = awaiting \ {w}
  /\ inbox' = [inbox EXCEPT ![w] = <<>>]
  /\ UNCHANGED hostVars

-----------------------------------------------------------------------------
Serve(c) == Begin(c) \/ Resume(c)
Handle ==
  \/ HandleReady
  \/ \E c \in Calls : HandleAnswer(c) \/ HandleHostCall(c)
  \/ \E how \in {"exited", "broken"} : HandleEnd(how)
WorkerStep(w) ==
  Boot(w) \/ StartHook(w) \/ CallHost(w) \/ HostAnswered(w) \/ FinishHook(w) \/ Die(w)

Next ==
  \/ Open
  \/ \E c \in Calls : Invoke(c) \/ Serve(c) \/ TimeOut(c) \/ Abort(c) \/ HandlerEnds(c)
  \/ GiveUp \/ Dispose \/ Handle
  \/ \E w \in Workers : WorkerStep(w)

\* Continuations, timers and messages are served; a worker that is started
\* boots or dies.  Nothing is assumed of hooks and of handlers: they may hang.
Fairness ==
  /\ WF_vars(Open) /\ WF_vars(Handle)
  /\ \A c \in Calls : WF_vars(Serve(c)) /\ WF_vars(TimeOut(c))
  /\ \A w \in Workers : WF_vars(Boot(w))

Spec == Init /\ [][Next]_vars /\ Fairness

-----------------------------------------------------------------------------
(* Properties.                                                             *)

\* A hook runs only in the current worker and only while its call is the one
\* pending request: no hook outlives its timeout, its cancellation or its
\* session, and the worker's single activeRuntimeState is never shared.
HookRunsForItsCall ==
  \A w \in Workers : running[w] # None => w = started /\ pending = {running[w]}

\* A call fails only of its own: its timer, its signal, the end of the worker
\* it was given, or the session's disposal; never because of an earlier call
\* whose failure made the worker be replaced.
FailuresAreOwn ==
  \A c \in Calls :
    /\ outcome[c] = "timeout" => c \in expired
    /\ outcome[c] = "cancelled" => c \in signalled
    /\ outcome[c] = "disposed" => session = "disposed"
    /\ outcome[c] \in {"exited", "broken"} => life[waits[c]] = "died"
    /\ outcome[c] = "silent" => life[waits[c]] \in {"killed", "died"}

\* A handler that works on a host call of a failed call has been told to stop:
\* this is how a cancellation reaches nested executions and waits for mail.
HandlersOfFailedCallsAreCut ==
  \A c \in serving : outcome[c] \in Failures => c \in handlerCut

\* ScriptWorker.state is right about the worker: executing exactly while a
\* request is pending, ready only if the worker said so, and terminated only
\* when nothing is left of the thread and no request waits for it.
StateTellsTheWorker ==
  /\ state = "executing" <=> pending # {}
  /\ state = "ready" => ready[started] = "resolved"
  /\ state = "terminated" =>
       ~Live(started) /\ outbox[started] = <<>> /\ running[started] = None

\* The worker that a call waits for was given up or disposed of while it was
\* starting: nobody will settle its promise.
Stranded == \E c \in Calls : stage[c] = "awaiting" /\ waits[c] \in dropped

\* Every hook call settles, though hooks and handlers may hang, unless a call
\* before it waits for a worker that was abandoned while it was starting.
EveryCallSettles ==
  \A c \in Calls : stage[c] = "queued" ~> (stage[c] = "settled" \/ Stranded)

\* The session answers calls in order and runs one hook at a time.
Promise == INSTANCE SerialCalls WITH
  line <- queue,
  answered <- {c \in Calls : stage[c] = "settled"},
  atWork <- {running[w] : w \in Workers} \ {None}
ImplementsSerialCalls == Promise!Spec

=============================================================================
