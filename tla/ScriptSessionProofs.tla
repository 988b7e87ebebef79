------------------------ MODULE ScriptSessionProofs ------------------------
(***************************************************************************)
(* Proofs about ScriptSession, for every set of calls and number of        *)
(* workers, with deaths, hangs, timeouts and aborts at any moment.         *)
(*                                                                         *)
(* What keeps a hook from outliving its call is TokensFit: a request that  *)
(* is pending has one token, which is the message that invokes it, then    *)
(* the hook that runs, then its answer; whatever takes the call off the    *)
(* pending requests has the answer in hand or stops the thread.  That the  *)
(* token is in the current worker rests on StateFits and WorkersFit: the   *)
(* state that the host keeps is right about the worker.                    *)
(***************************************************************************)
EXTENDS ScriptSession, FiniteSetTheorems, TLAPS

Answers == {"result", "threw"}

\* The queue holds the calls that are made and not settled, each once; only the
\* first is being served.
QueueFits ==
  /\ \A c \in Calls : stage[c] \in {"queued", "awaiting", "invoked"}
                      <=> \E i \in 1..Len(queue) : queue[i] = c
  /\ \A i, j \in 1..Len(queue) : queue[i] = queue[j] => i = j
  /\ \A c \in Calls : stage[c] \in {"awaiting", "invoked"} => queue # <<>> /\ c = queue[1]

CallsFit ==
  /\ pending = {c \in Calls : stage[c] = "invoked"}
  /\ \A c \in Calls : stage[c] \in {"awaiting", "invoked"} => waits[c] = started
  /\ \A c \in Calls : stage[c] # "settled" => outcome[c] = "none"

StateFits ==
  /\ state = "executing" <=> pending # {}
  /\ state \in {"ready", "executing"} => ready[started] = "resolved"
  /\ state = "initializing" => ready[started] = "pending"
  /\ state = "terminated" => ~Live(started) /\ outbox[started] = <<>>
  /\ \A c \in Calls : stage[c] = "awaiting" /\ ready[started] = "resolved" => state = "ready"

WorkersFit ==
  \A w \in Workers :
    /\ w > started => life[w] = "unborn" /\ ready[w] = "pending" /\ outbox[w] = <<>>
    /\ w < started => ~Live(w)
    /\ w <= started => life[w] # "unborn"
    /\ life[w] # "up" => running[w] = None
    /\ life[w] = "starting" => outbox[w] = <<>> /\ state = "initializing"
    /\ ready[w] \in {"exited", "broken"} => life[w] = "died"

MessagesFit ==
  \A w \in Workers : \A i \in 1..Len(outbox[w]) :
    /\ outbox[w][i].type \in {"exited", "broken"} => life[w] = "died"
    /\ outbox[w][i].type = "ready" /\ w = started => i = 1 /\ state = "initializing"
    /\ outbox[w][i].type \in Answers =>
         outbox[w][i].call \in Calls /\ stage[outbox[w][i].call] \in {"invoked", "settled"}

\* An answer of c is on its way from worker w; a message invokes it there.
Answering(w, c) == \E i \in 1..Len(outbox[w]) : outbox[w][i].type \in Answers /\ outbox[w][i].call = c
Invoking(w, c) == \E i \in 1..Len(inbox[w]) : inbox[w][i] = Message("invoke", c)

TokensFit ==
  \A w \in Workers :
    /\ running[w] # None =>
         /\ w = started /\ running[w] \in pending
         /\ ~Answering(w, running[w])
         /\ \A i \in 1..Len(inbox[w]) : inbox[w][i].type # "invoke"
    /\ \A i \in 1..Len(inbox[w]) : inbox[w][i].type = "invoke" =>
         /\ w = started /\ inbox[w][i].call \in pending
         /\ ~Answering(w, inbox[w][i].call)
         /\ \A j \in 1..Len(inbox[w]) : inbox[w][j].type = "invoke" => j = i

\* A call that its worker failed was given one.
FailuresFit ==
  /\ FailuresAreOwn
  /\ \A c \in Calls : outcome[c] \in {"exited", "broken", "silent"} => waits[c] \in Workers

HandlersFit ==
  /\ HandlersOfFailedCallsAreCut
  /\ \A c \in serving : stage[c] \in {"invoked", "settled"}

IInv ==
  /\ TypeOK /\ QueueFits /\ CallsFit /\ StateFits /\ WorkersFit /\ MessagesFit
  /\ TokensFit /\ FailuresFit /\ HandlersFit

-----------------------------------------------------------------------------
(* Facts about sequences and messages.                                     *)

LEMMA TailFacts ==
  ASSUME NEW S, NEW s \in Seq(S), s # <<>>
  PROVE  /\ Head(s) = s[1] /\ Len(s) \in Nat \ {0} /\ Head(s) \in S
         /\ Tail(s) \in Seq(S) /\ Len(Tail(s)) = Len(s) - 1
         /\ \A i \in 1..Len(Tail(s)) : Tail(s)[i] = s[i + 1] /\ i + 1 \in 1..Len(s)
         /\ \A i \in 1..Len(s) : i = 1 \/ (i - 1 \in 1..Len(Tail(s)) /\ s[i] = Tail(s)[i - 1])
<1>1. Len(s) \in Nat \ {0} /\ Head(s) = s[1] /\ Head(s) \in S
  OBVIOUS
<1>2. Tail(s) \in Seq(S) /\ Len(Tail(s)) = Len(s) - 1
  OBVIOUS
<1>3. \A i \in 1..Len(Tail(s)) : Tail(s)[i] = s[i + 1] /\ i + 1 \in 1..Len(s)
  BY <1>1, <1>2
<1>4. ASSUME NEW i \in 1..Len(s), i # 1
      PROVE  i - 1 \in 1..Len(Tail(s)) /\ s[i] = Tail(s)[i - 1]
  <2>1. i - 1 \in 1..Len(Tail(s))
    BY <1>1, <1>2, <1>4
  <2>2. (i - 1) + 1 = i
    BY <1>4
  <2> QED BY <1>3, <2>1, <2>2
<1> QED BY <1>1, <1>2, <1>3, <1>4

LEMMA AppendFacts ==
  ASSUME NEW S, NEW s \in Seq(S), NEW x \in S
  PROVE  /\ Append(s, x) \in Seq(S) /\ Len(Append(s, x)) = Len(s) + 1
         /\ \A i \in 1..Len(s) : Append(s, x)[i] = s[i] /\ i \in 1..Len(Append(s, x))
         /\ Append(s, x)[Len(s) + 1] = x /\ Len(s) + 1 \in 1..Len(Append(s, x))
         /\ \A i \in 1..Len(Append(s, x)) :
              i = Len(s) + 1 \/ (i \in 1..Len(s) /\ Append(s, x)[i] = s[i])
OBVIOUS

\* What is posted has a type.
LEMMA MessagesTyped ==
  /\ \A c \in Calls : \A t \in {"invoke", "host-result"} :
       Message(t, c) \in ToWorker /\ Message(t, c).type = t /\ Message(t, c).call = c
  /\ \A c \in Calls \cup {None} : \A t \in {"ready", "host-call", "result", "threw", "exited", "broken"} :
       Message(t, c) \in ToHost /\ Message(t, c).type = t /\ Message(t, c).call = c
BY DEF Message, ToWorker, ToHost

\* At most the first call of the queue is pending.
LEMMA OnePending ==
  ASSUME TypeOK, QueueFits, CallsFit
  PROVE  /\ \A c \in pending : queue # <<>> /\ c = Head(queue) /\ pending = {c}
         /\ pending \subseteq Calls
<1>1. \A c \in pending : queue # <<>> /\ c = queue[1]
  BY DEF QueueFits, CallsFit
<1>2. queue # <<>> => Head(queue) = queue[1]
  BY TailFacts DEF TypeOK
<1> QED BY <1>1, <1>2 DEF TypeOK

-----------------------------------------------------------------------------
(* Kinds of steps.                                                         *)

\* The call whose turn it is is answered without having been invoked.
Refuses(c, how) ==
  /\ MayBegin(c) \/ MayResume(c)
  /\ Settle(c, how)
  /\ how = "disposed" => session = "disposed"
  /\ how = "cancelled" => c \in signalled
  /\ how \in {"exited", "broken"} => stage[c] = "awaiting" /\ ready[waits[c]] = how
  /\ how \in {"disposed", "cancelled", "exited", "broken"}
  /\ UNCHANGED <<session, waits, signalled, expired, dropped, state, started, ready,
                 pending, serving, handlerCut, workerVars>>

\* What a reset of the worker leaves.
Resets(how) ==
  /\ ResetWorker(how) /\ Quiet
  /\ UNCHANGED <<waits, started, serving>>
  /\ session' \in {session, "disposed"} /\ (how = "disposed" => session' = "disposed")
  /\ signalled \subseteq signalled' /\ (how = "cancelled" => pending \subseteq signalled')
  /\ expired \subseteq expired' /\ (how = "timeout" => pending \subseteq expired')
  /\ signalled' \subseteq Calls /\ expired' \subseteq Calls /\ dropped' \subseteq Workers
  /\ how \in Failures
  /\ how \in {"exited", "broken"} => life[started] = "died"
  /\ \/ ready' = ready
     \/ /\ how \in {"exited", "broken"} /\ state = "initializing"
        /\ ready' = [ready EXCEPT ![started] = how]
  /\ dropped \subseteq dropped'
  /\ state = "initializing" => started \in dropped' \/ pending # {} \/ ready'[started] = how

\* Steps that touch what few parts speak of.
Quiets ==
  /\ UNCHANGED <<queue, stage, outcome, waits, expired, state, started, ready, life, pending,
                 inbox, outbox, running, serving, handlerCut>>
  /\ session' \in {session, "open", "disposed"} /\ (session = "disposed" => session' = "disposed")
  /\ signalled \subseteq signalled' /\ signalled' \subseteq Calls
  /\ dropped' = dropped /\ awaiting' = awaiting

\* Every step is of one of these kinds.
LEMMA Classified ==
  ASSUME TypeOK, QueueFits, CallsFit, MessagesFit, [Next]_vars
  PROVE  \/ Quiets
         \/ \E c \in Calls : Invoke(c) \/ BeginAwaiting(c) \/ BeginStarting(c) \/ ResumeInvoking(c)
         \/ \E c \in Calls, how \in Failures : Refuses(c, how)
         \/ \E how \in Failures : Resets(how)
         \/ HandleReady
         \/ \E c \in Calls : HandleAnswer(c) \/ HandleHostCall(c) \/ HandlerEnds(c)
         \/ \E w \in Workers : Boot(w) \/ StartHook(w) \/ CallHost(w) \/ HostAnswered(w)
                               \/ FinishHook(w) \/ Die(w)
<1>1. CASE Open
  BY <1>1 DEF TypeOK, Open, MayOpen, Quiets, workerVars
<1>2. ASSUME NEW c \in Calls, Serve(c)
      PROVE  \/ BeginAwaiting(c) \/ BeginStarting(c) \/ ResumeInvoking(c)
             \/ \E how \in Failures : Refuses(c, how)
  <2>1. CASE BeginRefused(c)
    <3>1. CASE session = "disposed"
      <4>1. Refuses(c, "disposed")
        BY <2>1, <3>1 DEF BeginRefused, Refuses
      <4> QED BY <4>1 DEF Failures
    <3>2. CASE session # "disposed"
      <4>1. Refuses(c, "cancelled")
        BY <2>1, <3>2 DEF BeginRefused, Refuses
      <4> QED BY <4>1 DEF Failures
    <3> QED BY <3>1, <3>2
  <2>2. CASE ResumeRefused(c)
    <3>1. CASE ready[waits[c]] # "resolved"
      <4>1. waits[c] \in Workers
        BY <2>2 DEF TypeOK, CallsFit, ResumeRefused, MayResume
      <4>2. ready[waits[c]] \in {"exited", "broken"}
        BY <2>2, <3>1, <4>1 DEF TypeOK, ResumeRefused, MayResume
      <4>3. Refuses(c, ready[waits[c]])
        BY <2>2, <3>1, <4>2 DEF ResumeRefused, MayResume, Refuses
      <4> QED BY <4>2, <4>3 DEF Failures
    <3>2. CASE ready[waits[c]] = "resolved"
      <4>1. Refuses(c, "cancelled")
        BY <2>2, <3>2 DEF ResumeRefused, Refuses
      <4> QED BY <4>1 DEF Failures
    <3> QED BY <3>1, <3>2
  <2> QED BY <1>2, <2>1, <2>2 DEF Serve, Begin, Resume
<1>3. ASSUME NEW c \in Calls, TimeOut(c) PROVE Resets("timeout")
  BY <1>3, OnePending DEF TypeOK, TimeOut, HardCancel, Resets, Failures
<1>4. ASSUME NEW c \in Calls, Abort(c) PROVE Quiets \/ Resets("cancelled")
  <2>1. CASE c \in pending
    BY <1>4, <2>1, OnePending DEF TypeOK, Abort, HardCancel, Resets, Failures
  <2>2. CASE c \notin pending
    BY <1>4, <2>2 DEF TypeOK, Abort, Quiets, workerVars
  <2> QED BY <2>1, <2>2
<1>5. CASE GiveUp
  BY <1>5 DEF TypeOK, GiveUp, DropStart, Resets, Failures
<1>6. CASE Dispose
  BY <1>6 DEF TypeOK, Dispose, DropStart, Resets, Failures
<1>7. ASSUME NEW how \in {"exited", "broken"}, HandleEnd(how) PROVE Resets(how)
  <2>1. life[started] = "died"
    <3>1. started \in Workers /\ outbox[started] \in Seq(ToHost) /\ outbox[started] # <<>>
          /\ Head(outbox[started]) = Message(how, None)
      BY <1>7 DEF TypeOK, HandleEnd, Arrives
    <3>2. 1 \in 1..Len(outbox[started]) /\ outbox[started][1].type = how
      BY <3>1, TailFacts DEF Message
    <3> QED BY <3>1, <3>2 DEF MessagesFit
  <2> QED BY <1>7, <2>1 DEF TypeOK, HandleEnd, Arrives, Resets, Failures
<1>8. CASE UNCHANGED vars
  BY <1>8 DEF TypeOK, vars, Quiets
<1> QED BY <1>1, <1>2, <1>3, <1>4, <1>5, <1>6, <1>7, <1>8 DEF Next, Handle, WorkerStep, Failures

\* A reset leaves no request, no hook and no thread.
LEMMA ResetFacts ==
  ASSUME TypeOK, QueueFits, CallsFit, StateFits, WorkersFit, NEW how, Resets(how)
  PROVE  /\ pending' = {} /\ state' = "terminated"
         /\ \A w \in Workers : w # started => /\ life'[w] = life[w] /\ inbox'[w] = inbox[w]
                                              /\ outbox'[w] = outbox[w] /\ running'[w] = running[w]
         /\ IF Live(started) THEN life'[started] = "killed" ELSE life'[started] = life[started]
         /\ outbox'[started] = <<>> \/ (outbox'[started] = outbox[started] /\ state = "terminated")
         /\ inbox'[started] = <<>> \/ (inbox'[started] = inbox[started] /\ pending = {})
         /\ running'[started] = None
         /\ \A w \in Workers : ready'[w] = ready[w] \/ (w = started /\ ready'[w] = how)
<1>1. started \in Workers
  BY DEF TypeOK
<1>2. pending' = {} /\ state' = "terminated" /\ IF state = "terminated" THEN UNCHANGED workerVars ELSE StopThread
  BY DEF Resets, ResetWorker, RejectAll, Answered
<1>3. \A w \in Workers : ready'[w] = ready[w] \/ (w = started /\ ready'[w] = how)
  BY <1>1 DEF Resets, TypeOK
<1>4. CASE state = "terminated"
  <2>1. pending = {} /\ ~Live(started)
    BY <1>4 DEF StateFits
  <2>2. life[started] # "up"
    BY <2>1 DEF Live
  <2>3. running[started] = None
    BY <1>1, <2>2 DEF WorkersFit
  <2> QED BY <1>1, <1>2, <1>3, <1>4, <2>1, <2>3 DEF workerVars
<1>5. CASE state # "terminated"
  BY <1>1, <1>2, <1>3, <1>5 DEF StopThread, TypeOK
<1> QED BY <1>4, <1>5

-----------------------------------------------------------------------------
(* Every part of the invariant is kept by every step.                      *)

LEMMA TypeStep ==
  ASSUME IInv, [Next]_vars
  PROVE  TypeOK'
<1> USE SessionAssumptions DEF IInv
<1>1. CASE Quiets
  BY <1>1 DEF TypeOK, Quiets
<1>2. ASSUME NEW c \in Calls, Invoke(c) PROVE TypeOK'
  <2>1. queue' \in Seq(Calls)
    BY <1>2 DEF TypeOK, Invoke
  <2> QED BY <1>2, <2>1 DEF TypeOK, Invoke, workerVars
<1>3. ASSUME NEW c \in Calls, BeginAwaiting(c) PROVE TypeOK'
  BY <1>3 DEF TypeOK, BeginAwaiting, workerVars, Workers
<1>4. ASSUME NEW c \in Calls, BeginStarting(c) PROVE TypeOK'
  <2>1. started + 1 \in Workers
    BY <1>4 DEF TypeOK, BeginStarting, Workers
  <2>2. started + 1 \in 0..MaxWorkers
    BY <2>1 DEF Workers
  <2> QED BY <1>4, <2>1, <2>2 DEF TypeOK, BeginStarting
<1>5. ASSUME NEW c \in Calls, ResumeInvoking(c) PROVE TypeOK'
  <2>1. inbox' \in [Workers -> Seq(ToWorker)]
    BY <1>5, MessagesTyped DEF TypeOK, ResumeInvoking
  <2> QED BY <1>5, <2>1 DEF TypeOK, ResumeInvoking
<1>6. ASSUME NEW c \in Calls, NEW how \in Failures, Refuses(c, how) PROVE TypeOK'
  <2>1. queue # <<>>
    BY <1>6 DEF Refuses, MayBegin, MayResume, QueueFits
  <2>2. queue' \in Seq(Calls)
    BY <1>6, <2>1, TailFacts DEF TypeOK, Refuses, Settle
  <2> QED BY <1>6, <2>2 DEF TypeOK, Refuses, Settle, workerVars, Outcomes
<1>7. ASSUME NEW how \in Failures, Resets(how) PROVE TypeOK'
  <2>1. queue' \in Seq(Calls)
    BY <1>7, TailFacts, OnePending DEF TypeOK, Resets, ResetWorker, RejectAll, MoveOn
  <2>2. /\ life' \in [Workers -> {"unborn", "starting", "up", "died", "killed"}]
        /\ inbox' \in [Workers -> Seq(ToWorker)] /\ outbox' \in [Workers -> Seq(ToHost)]
        /\ running' \in [Workers -> Calls \cup {None}] /\ awaiting' \subseteq Workers
    <3>1. CASE state = "terminated"
      BY <1>7, <3>1 DEF TypeOK, Resets, ResetWorker, workerVars
    <3>2. CASE state # "terminated"
      <4>1. StopThread
        BY <1>7, <3>2 DEF Resets, ResetWorker
      <4>2. <<>> \in Seq(ToWorker) /\ <<>> \in Seq(ToHost)
        OBVIOUS
      <4> QED BY <4>1, <4>2 DEF TypeOK, StopThread
    <3> QED BY <3>1, <3>2
  <2>3. /\ stage' \in [Calls -> {"idle", "queued", "awaiting", "invoked", "settled"}]
        /\ outcome' \in [Calls -> Outcomes \cup {"none"}]
        /\ handlerCut' \subseteq Calls /\ pending' \subseteq Calls
    BY <1>7 DEF TypeOK, Resets, ResetWorker, RejectAll, Answered, Outcomes
  <2>4. ready' \in [Workers -> {"pending", "resolved", "exited", "broken"}]
    BY <1>7 DEF TypeOK, Resets
  <2> QED BY <1>7, <2>1, <2>2, <2>3, <2>4 DEF TypeOK, Resets, ResetWorker
<1>8. CASE HandleReady
  BY <1>8, TailFacts DEF TypeOK, HandleReady, Arrives, Taken
<1>9. ASSUME NEW c \in Calls, HandleAnswer(c) PROVE TypeOK'
  <2>1. queue # <<>>
    BY <1>9, OnePending DEF HandleAnswer
  <2>2. queue' \in Seq(Calls) /\ outbox' \in [Workers -> Seq(ToHost)]
    BY <1>9, <2>1, TailFacts DEF TypeOK, HandleAnswer, Settle, Arrives, Taken
  <2> QED BY <1>9, <2>2 DEF TypeOK, HandleAnswer, Settle, Outcomes
<1>10. ASSUME NEW c \in Calls, HandleHostCall(c) PROVE TypeOK'
  BY <1>10, TailFacts DEF TypeOK, HandleHostCall, Arrives, Taken
<1>11. ASSUME NEW c \in Calls, HandlerEnds(c) PROVE TypeOK'
  <2>1. inbox' \in [Workers -> Seq(ToWorker)]
    BY <1>11, MessagesTyped DEF TypeOK, HandlerEnds
  <2> QED BY <1>11, <2>1 DEF TypeOK, HandlerEnds
<1>12. ASSUME NEW w \in Workers, WorkerStep(w) PROVE TypeOK'
  <2>1. CASE Boot(w)
    BY <1>12, <2>1, MessagesTyped DEF TypeOK, Boot, Post, hostVars
  <2>2. CASE StartHook(w)
    <3>1. Head(inbox[w]) \in ToWorker /\ Tail(inbox[w]) \in Seq(ToWorker)
      BY <2>2, TailFacts DEF TypeOK, StartHook
    <3> QED BY <2>2, <3>1 DEF TypeOK, StartHook, hostVars, ToWorker
  <2>3. CASE CallHost(w)
    BY <2>3, MessagesTyped DEF TypeOK, CallHost, Post, hostVars
  <2>4. CASE HostAnswered(w)
    BY <2>4, TailFacts DEF TypeOK, HostAnswered, hostVars
  <2>5. CASE FinishHook(w)
    BY <2>5, MessagesTyped DEF TypeOK, FinishHook, Post, hostVars
  <2>6. CASE Die(w)
    BY <2>6, MessagesTyped DEF TypeOK, Die, Post, hostVars
  <2> QED BY <1>12, <2>1, <2>2, <2>3, <2>4, <2>5, <2>6 DEF WorkerStep
<1> QED BY <1>1, <1>2, <1>3, <1>4, <1>5, <1>6, <1>7, <1>8, <1>9, <1>10, <1>11, <1>12,
           Classified DEF WorkerStep

\* What a step may do to the chain of calls.
Untouched == UNCHANGED <<queue, stage, outcome, waits, started, pending>>
Settles(c, how) ==
  /\ queue # <<>> /\ c = queue[1] /\ stage[c] \in {"queued", "awaiting", "invoked"}
  /\ Settle(c, how) /\ pending' = {}
  /\ UNCHANGED <<waits, started>>

LEMMA ChainKinds ==
  ASSUME IInv, [Next]_vars
  PROVE  \/ Untouched
         \/ \E c \in Calls : Invoke(c) \/ BeginAwaiting(c) \/ BeginStarting(c) \/ ResumeInvoking(c)
         \/ \E c \in Calls, how \in Outcomes : Settles(c, how)
<1> USE DEF IInv
<1>0. queue # <<>> => Head(queue) = queue[1]
  BY TailFacts DEF TypeOK
<1>1. ASSUME NEW c \in Calls, NEW how \in Failures, Refuses(c, how) PROVE Settles(c, how) /\ how \in Outcomes
  <2>1. queue # <<>> /\ c = queue[1] /\ stage[c] \in {"queued", "awaiting"}
    BY <1>0, <1>1 DEF Refuses, MayBegin, MayResume, QueueFits
  <2>2. pending = {}
    BY <1>0, <2>1, OnePending DEF CallsFit
  <2> QED BY <1>1, <2>1, <2>2 DEF Refuses, Settles, Outcomes
<1>2. ASSUME NEW how \in Failures, Resets(how)
      PROVE  Untouched \/ \E c \in Calls : Settles(c, how) /\ how \in Outcomes
  <2>1. CASE pending = {}
    <3>1. stage' = stage /\ outcome' = outcome
      BY <1>2, <2>1 DEF TypeOK, Resets, ResetWorker, RejectAll, Answered
    <3> QED BY <1>2, <2>1, <3>1 DEF Untouched, Resets, ResetWorker, RejectAll, Answered, MoveOn
  <2>2. ASSUME NEW c \in pending PROVE \E d \in Calls : Settles(d, how) /\ how \in Outcomes
    <3>1. pending = {c} /\ c \in Calls /\ queue # <<>> /\ c = queue[1] /\ stage[c] = "invoked"
      BY <1>0, <2>2, OnePending DEF CallsFit
    <3>2. stage' = [stage EXCEPT ![c] = "settled"] /\ outcome' = [outcome EXCEPT ![c] = how]
      BY <1>2, <3>1 DEF TypeOK, Resets, ResetWorker, RejectAll, Answered
    <3>3. queue' = Tail(queue) /\ pending' = {}
      BY <1>2, <3>1 DEF Resets, ResetWorker, RejectAll, Answered, MoveOn
    <3>4. Settles(c, how)
      BY <1>2, <3>1, <3>2, <3>3 DEF Settles, Settle, Resets
    <3> QED BY <3>1, <3>4 DEF Outcomes
  <2> QED BY <2>1, <2>2
<1>3. ASSUME NEW c \in Calls, HandleAnswer(c)
      PROVE  \E how \in {"result", "threw"} : Settles(c, how) /\ how \in Outcomes
  <2>1. pending = {c} /\ queue # <<>> /\ c = queue[1] /\ stage[c] = "invoked"
    BY <1>0, <1>3, OnePending DEF CallsFit, HandleAnswer
  <2> QED BY <1>3, <2>1 DEF HandleAnswer, Settles, Outcomes
<1>4. ASSUME NEW w \in Workers, WorkerStep(w) PROVE Untouched
  BY <1>4 DEF WorkerStep, Untouched, hostVars, Boot, StartHook, CallHost, HostAnswered, FinishHook, Die
<1>5. ASSUME Quiets \/ HandleReady \/ \E c \in Calls : HandleHostCall(c) \/ HandlerEnds(c)
      PROVE  Untouched
  BY <1>5 DEF Quiets, Untouched, HandleReady, HandleHostCall, HandlerEnds
<1> HIDE DEF IInv
<1>6. TypeOK /\ QueueFits /\ CallsFit /\ MessagesFit
  BY DEF IInv
<1> QED BY <1>1, <1>2, <1>3, <1>4, <1>5, <1>6, Classified DEF WorkerStep

LEMMA QueueStep ==
  ASSUME IInv, [Next]_vars
  PROVE  QueueFits'
<1>0. TypeOK /\ QueueFits /\ CallsFit
  BY DEF IInv
<1>1. CASE Untouched
  BY <1>0, <1>1 DEF QueueFits, Untouched
<1>2. ASSUME NEW c \in Calls, Invoke(c) PROVE QueueFits'
  <2>1. queue \in Seq(Calls) /\ queue' = Append(queue, c) /\ Len(queue) \in Nat
    BY <1>0, <1>2 DEF TypeOK, Invoke
  <2>2. /\ Len(queue') = Len(queue) + 1
        /\ \A i \in 1..Len(queue) : queue'[i] = queue[i] /\ i \in 1..Len(queue')
        /\ queue'[Len(queue) + 1] = c /\ Len(queue) + 1 \in 1..Len(queue')
        /\ \A i \in 1..Len(queue') : i = Len(queue) + 1 \/ (i \in 1..Len(queue) /\ queue'[i] = queue[i])
    BY <2>1, AppendFacts
  <2>3. stage[c] = "idle" /\ stage' = [stage EXCEPT ![c] = "queued"]
    BY <1>2 DEF Invoke
  <2>4. \A i \in 1..Len(queue) : queue[i] # c
    BY <1>0, <2>3 DEF QueueFits
  <2>5. \A d \in Calls : stage'[d] = IF d = c THEN "queued" ELSE stage[d]
    BY <1>0, <2>3 DEF TypeOK
  <2>6. \A d \in Calls : stage'[d] \in {"queued", "awaiting", "invoked"}
                          <=> \E i \in 1..Len(queue') : queue'[i] = d
    <3>1. ASSUME NEW d \in Calls, d # c
          PROVE  (\E i \in 1..Len(queue') : queue'[i] = d) <=> \E i \in 1..Len(queue) : queue[i] = d
      BY <2>2, <3>1
    <3> QED BY <1>0, <2>2, <2>5, <3>1 DEF QueueFits
  <2>7. \A i, j \in 1..Len(queue') : queue'[i] = queue'[j] => i = j
    BY <1>0, <2>2, <2>4 DEF QueueFits
  <2>8. \A d \in Calls : stage'[d] \in {"awaiting", "invoked"} => queue' # <<>> /\ d = queue'[1]
    <3>1. ASSUME NEW d \in Calls, stage'[d] \in {"awaiting", "invoked"} PROVE queue' # <<>> /\ d = queue'[1]
      <4>1. stage[d] \in {"awaiting", "invoked"}
        BY <2>5, <3>1
      <4>2. queue # <<>> /\ d = queue[1]
        BY <1>0, <4>1 DEF QueueFits
      <4>3. 1 \in 1..Len(queue)
        BY <2>1, <4>2
      <4> QED BY <2>1, <2>2, <4>2, <4>3
    <3> QED BY <3>1
  <2> QED BY <2>6, <2>7, <2>8 DEF QueueFits
<1>3. ASSUME NEW c \in Calls, BeginAwaiting(c) \/ BeginStarting(c) \/ ResumeInvoking(c) PROVE QueueFits'
  <2>1. queue # <<>> => Head(queue) = queue[1]
    BY <1>0, TailFacts DEF TypeOK
  <2>2. queue # <<>> /\ c = queue[1] /\ stage[c] \in {"queued", "awaiting"}
    BY <1>0, <1>3, <2>1 DEF QueueFits, BeginAwaiting, BeginStarting, ResumeInvoking, MayBegin, MayResume
  <2>3. queue' = queue /\ \E s \in {"awaiting", "invoked"} : stage' = [stage EXCEPT ![c] = s]
    BY <1>3 DEF BeginAwaiting, BeginStarting, ResumeInvoking
  <2>4. \A d \in Calls : IF d = c THEN stage'[d] \in {"awaiting", "invoked"} ELSE stage'[d] = stage[d]
    BY <1>0, <2>3 DEF TypeOK
  <2> QED BY <1>0, <2>2, <2>3, <2>4 DEF QueueFits
<1>4. ASSUME NEW c \in Calls, NEW how \in Outcomes, Settles(c, how) PROVE QueueFits'
  <2>1. queue \in Seq(Calls) /\ queue # <<>> /\ c = queue[1] /\ queue' = Tail(queue)
    BY <1>0, <1>4 DEF TypeOK, Settles, Settle
  <2>2. /\ Len(queue) \in Nat \ {0} /\ Len(queue') = Len(queue) - 1
        /\ \A i \in 1..Len(queue') : queue'[i] = queue[i + 1] /\ i + 1 \in 1..Len(queue)
        /\ \A i \in 1..Len(queue) : i = 1 \/ (i - 1 \in 1..Len(queue') /\ queue[i] = queue'[i - 1])
    BY <2>1, TailFacts
  <2>3. \A d \in Calls : stage'[d] = IF d = c THEN "settled" ELSE stage[d]
    BY <1>0, <1>4 DEF TypeOK, Settles, Settle
  <2>4. \A i \in 1..Len(queue') : queue'[i] # c
    <3>1. 1 \in 1..Len(queue)
      BY <2>2
    <3>2. \A i \in 1..Len(queue') : i + 1 # 1
      OBVIOUS
    <3> QED BY <1>0, <2>1, <2>2, <3>1, <3>2 DEF QueueFits
  <2>5. \A d \in Calls : stage'[d] \in {"queued", "awaiting", "invoked"}
                          <=> \E i \in 1..Len(queue') : queue'[i] = d
    <3>1. ASSUME NEW d \in Calls, d # c
          PROVE  (\E i \in 1..Len(queue') : queue'[i] = d) <=> \E i \in 1..Len(queue) : queue[i] = d
      BY <2>1, <2>2, <3>1
    <3> QED BY <1>0, <2>3, <2>4, <3>1 DEF QueueFits
  <2>6. \A i, j \in 1..Len(queue') : queue'[i] = queue'[j] => i = j
    <3>1. ASSUME NEW i \in 1..Len(queue'), NEW j \in 1..Len(queue'), queue'[i] = queue'[j] PROVE i = j
      <4>1. i + 1 = j + 1
        BY <1>0, <2>2, <3>1 DEF QueueFits
      <4> QED BY <4>1
    <3> QED BY <3>1
  <2>7. \A d \in Calls : stage'[d] \notin {"awaiting", "invoked"}
    BY <1>0, <2>1, <2>3 DEF QueueFits
  <2> QED BY <2>5, <2>6, <2>7 DEF QueueFits
<1> QED BY <1>1, <1>2, <1>3, <1>4, ChainKinds

LEMMA CallsStep ==
  ASSUME IInv, [Next]_vars
  PROVE  CallsFit'
<1>0. TypeOK /\ QueueFits /\ CallsFit
  BY DEF IInv
<1>1. CASE Untouched
  BY <1>0, <1>1 DEF CallsFit, Untouched
<1>2. ASSUME NEW c \in Calls, Invoke(c) PROVE CallsFit'
  BY <1>0, <1>2 DEF TypeOK, CallsFit, Invoke
<1>3. ASSUME NEW c \in Calls, BeginAwaiting(c) \/ BeginStarting(c) PROVE CallsFit'
  <2>1. queue # <<>> => Head(queue) = queue[1]
    BY <1>0, TailFacts DEF TypeOK
  <2>2. queue # <<>> /\ c = queue[1] /\ stage[c] = "queued"
    BY <1>0, <1>3, <2>1 DEF BeginAwaiting, BeginStarting, MayBegin
  <2>3. /\ stage' = [stage EXCEPT ![c] = "awaiting"] /\ outcome' = outcome /\ pending' = pending
        /\ waits' = [waits EXCEPT ![c] = started']
    BY <1>3 DEF BeginAwaiting, BeginStarting
  <2>4. \A d \in Calls : d # c => stage[d] \notin {"awaiting", "invoked"}
    BY <1>0, <2>2 DEF QueueFits
  <2> QED BY <1>0, <2>2, <2>3, <2>4 DEF TypeOK, CallsFit
<1>4. ASSUME NEW c \in Calls, ResumeInvoking(c) PROVE CallsFit'
  BY <1>0, <1>4 DEF TypeOK, CallsFit, ResumeInvoking, MayResume
<1>5. ASSUME NEW c \in Calls, NEW how \in Outcomes, Settles(c, how) PROVE CallsFit'
  <2>1. \A d \in Calls : stage'[d] = IF d = c THEN "settled" ELSE stage[d]
    BY <1>0, <1>5 DEF TypeOK, Settles, Settle
  <2>2. \A d \in Calls : stage'[d] \notin {"awaiting", "invoked"}
    BY <1>0, <1>5, <2>1 DEF QueueFits, Settles
  <2>3. \A d \in Calls : stage'[d] # "settled" => outcome'[d] = "none"
    BY <1>0, <1>5, <2>1 DEF TypeOK, CallsFit, Settles, Settle
  <2> QED BY <1>5, <2>2, <2>3 DEF CallsFit, Settles
<1> QED BY <1>1, <1>2, <1>3, <1>4, <1>5, ChainKinds

LEMMA StateStep ==
  ASSUME IInv, [Next]_vars
  PROVE  StateFits'
<1> USE DEF IInv
<1>0. started \in Workers
  BY DEF TypeOK
<1>1. CASE Quiets
  BY <1>1 DEF Quiets, StateFits, Live
<1>2. ASSUME NEW c \in Calls, Invoke(c) PROVE StateFits'
  BY <1>2 DEF TypeOK, StateFits, Invoke, Live, workerVars
<1>3. ASSUME NEW c \in Calls, stage[c] = "queued", MayBegin(c) PROVE pending = {}
  BY <1>3, OnePending DEF MayBegin, CallsFit
<1>4. ASSUME NEW c \in Calls, BeginAwaiting(c) PROVE StateFits'
  <2>1. pending = {} /\ state \in {"initializing", "ready"}
    BY <1>3, <1>4 DEF TypeOK, BeginAwaiting, MayBegin, StateFits
  <2>2. UNCHANGED <<state, pending, ready, started, life, outbox>>
    BY <1>4 DEF BeginAwaiting, workerVars
  <2> QED BY <2>1, <2>2 DEF StateFits, Live
<1>5. ASSUME NEW c \in Calls, BeginStarting(c) PROVE StateFits'
  <2>1. pending = {}
    BY <1>3, <1>5 DEF BeginStarting, MayBegin
  <2>2. started + 1 \in Workers /\ started + 1 > started
    BY <1>5, SessionAssumptions DEF TypeOK, BeginStarting, Workers
  <2>3. ready[started + 1] = "pending"
    BY <2>2 DEF WorkersFit
  <2>4. state' = "initializing" /\ pending' = {} /\ ready'[started'] = "pending"
    BY <1>5, <2>1, <2>3 DEF BeginStarting
  <2> QED BY <2>4 DEF StateFits
<1>6. ASSUME NEW c \in Calls, ResumeInvoking(c) PROVE StateFits'
  <2>1. state' = "executing" /\ c \in pending' /\ ready'[started'] = "resolved"
    BY <1>6 DEF ResumeInvoking, MayResume, CallsFit
  <2>2. \A d \in Calls : stage'[d] # "awaiting"
    <3>1. c = queue[1] /\ \A d \in Calls : stage[d] = "awaiting" => d = queue[1]
      BY <1>6 DEF QueueFits, ResumeInvoking, MayResume
    <3>2. stage' = [stage EXCEPT ![c] = "invoked"]
      BY <1>6 DEF ResumeInvoking
    <3> QED BY <3>1, <3>2 DEF TypeOK
  <2> QED BY <2>1, <2>2 DEF StateFits
<1>7. ASSUME NEW c \in Calls, NEW how \in Failures, Refuses(c, how) PROVE StateFits'
  BY <1>7 DEF TypeOK, StateFits, Refuses, Settle, Live, workerVars
<1>8. ASSUME NEW how \in Failures, Resets(how) PROVE StateFits'
  <2>1. pending' = {} /\ state' = "terminated" /\ started' = started /\ ~Live(started)'
        /\ outbox'[started] = <<>>
    BY <1>0, <1>8, ResetFacts DEF Resets, Live, StateFits
  <2>2. ASSUME NEW d \in Calls, stage'[d] = "awaiting", ready'[started'] = "resolved" PROVE FALSE
    <3>1. stage[d] = "awaiting"
      BY <1>8, <2>2 DEF Resets, ResetWorker, RejectAll, Answered
    <3>2. ready[started] = "resolved"
      BY <1>0, <1>8, <2>2 DEF TypeOK, Resets, Failures
    <3> QED BY <1>8, <3>1, <3>2 DEF Resets, Quiet, MayResume, CallsFit
  <2> QED BY <2>1, <2>2 DEF StateFits
<1>9. CASE HandleReady
  <2>1. outbox[started] \in Seq(ToHost) /\ outbox[started] # <<>>
        /\ Head(outbox[started]) = Message("ready", None)
    BY <1>0, <1>9 DEF TypeOK, HandleReady, Arrives
  <2>2. 1 \in 1..Len(outbox[started]) /\ outbox[started][1].type = "ready"
    BY <2>1, TailFacts DEF Message
  <2>3. pending = {}
    BY <1>0, <2>2 DEF MessagesFit, StateFits
  <2> QED BY <1>0, <1>9, <2>3 DEF TypeOK, StateFits, HandleReady
<1>10. ASSUME NEW c \in Calls, HandleAnswer(c) PROVE StateFits'
  <2>1. state = "executing" /\ pending' = {}
    BY <1>10, OnePending DEF HandleAnswer, StateFits
  <2> QED BY <1>10, <2>1 DEF StateFits, HandleAnswer
<1>11. ASSUME NEW c \in Calls, HandleHostCall(c) \/ HandlerEnds(c) PROVE StateFits'
  <2>1. UNCHANGED <<state, pending, ready, started, life, stage>>
    BY <1>11 DEF HandleHostCall, HandlerEnds
  <2>2. outbox' = outbox \/ outbox[started] # <<>>
    BY <1>11 DEF HandleHostCall, HandlerEnds, Arrives
  <2> QED BY <2>1, <2>2 DEF StateFits, Live
<1>12. ASSUME NEW w \in Workers, WorkerStep(w) PROVE StateFits'
  <2>1. UNCHANGED <<state, pending, ready, started, stage>>
    BY <1>12 DEF WorkerStep, hostVars, Boot, StartHook, CallHost, HostAnswered, FinishHook, Die
  <2>2. Live(w) /\ \A v \in Workers : v # w => life'[v] = life[v] /\ outbox'[v] = outbox[v]
    BY <1>12 DEF TypeOK, Live, Post, WorkerStep, Boot, StartHook, CallHost, HostAnswered, FinishHook, Die
  <2> QED BY <1>0, <2>1, <2>2 DEF StateFits, Live
<1> QED BY <1>1, <1>2, <1>4, <1>5, <1>6, <1>7, <1>8, <1>9, <1>10, <1>11, <1>12,
           Classified DEF WorkerStep

\* A message is taken; a message is posted.
LEMMA TakenFacts ==
  ASSUME TypeOK, NEW type, NEW c, Arrives(type, c), Taken
  PROVE  /\ started \in Workers /\ outbox[started] # <<>>
         /\ 1 \in 1..Len(outbox[started]) /\ outbox[started][1] = Message(type, c)
         /\ \A w \in Workers : w # started => outbox'[w] = outbox[w]
         /\ \A i \in 1..Len(outbox'[started]) :
              /\ i + 1 \in 1..Len(outbox[started]) /\ i + 1 # 1
              /\ outbox'[started][i] = outbox[started][i + 1]
<1>1. started \in Workers /\ outbox[started] \in Seq(ToHost) /\ outbox[started] # <<>>
      /\ Head(outbox[started]) = Message(type, c)
  BY DEF TypeOK, Arrives
<1>2. outbox'[started] = Tail(outbox[started]) /\ \A w \in Workers : w # started => outbox'[w] = outbox[w]
  BY <1>1 DEF TypeOK, Taken
<1>3. \A i \in 1..Len(outbox'[started]) : i + 1 # 1
  OBVIOUS
<1>4. 1 \in 1..Len(outbox[started])
  BY <1>1
<1>5. /\ Head(outbox[started]) = outbox[started][1]
      /\ \A i \in 1..Len(outbox'[started]) : outbox'[started][i] = outbox[started][i + 1]
                                           /\ i + 1 \in 1..Len(outbox[started])
  BY <1>1, <1>2, TailFacts
<1> QED BY <1>1, <1>2, <1>3, <1>4, <1>5

LEMMA PostFacts ==
  ASSUME TypeOK, NEW w \in Workers, NEW type, NEW c, Message(type, c) \in ToHost, Post(w, type, c)
  PROVE  /\ \A v \in Workers : v # w => outbox'[v] = outbox[v]
         /\ Len(outbox'[w]) = Len(outbox[w]) + 1
         /\ \A i \in 1..Len(outbox'[w]) :
              \/ i = Len(outbox[w]) + 1 /\ outbox'[w][i] = Message(type, c)
              \/ i \in 1..Len(outbox[w]) /\ outbox'[w][i] = outbox[w][i]
<1>1. outbox[w] \in Seq(ToHost) /\ outbox'[w] = Append(outbox[w], Message(type, c))
      /\ \A v \in Workers : v # w => outbox'[v] = outbox[v]
  BY DEF TypeOK, Post
<1> QED BY <1>1, AppendFacts

LEMMA WorkersStep ==
  ASSUME IInv, [Next]_vars
  PROVE  WorkersFit'
<1> USE DEF IInv
<1>0. started \in Workers
  BY DEF TypeOK
<1>a. \A w \in Workers : life[w] = "starting" => w = started /\ outbox[w] = <<>>
  BY <1>0 DEF WorkersFit, Live, Workers
<1>1. ASSUME Quiets \/ (\E c \in Calls : Invoke(c) \/ BeginAwaiting(c) \/ HandlerEnds(c))
             \/ \E c \in Calls, how \in Failures : Refuses(c, how)
      PROVE  WorkersFit'
  <2>1. UNCHANGED <<started, life, ready, outbox, running, state>>
    BY <1>1 DEF Quiets, Invoke, BeginAwaiting, Refuses, HandlerEnds, workerVars
  <2> QED BY <2>1 DEF WorkersFit, Live
<1>2. ASSUME NEW c \in Calls, BeginStarting(c) PROVE WorkersFit'
  <2>1. started + 1 \in Workers /\ started \in Nat /\ Workers \subseteq Nat
    BY <1>2, SessionAssumptions DEF TypeOK, BeginStarting, Workers
  <2>2. state' = "initializing" /\ started' = started + 1 /\ ready' = ready /\ outbox' = outbox
        /\ running' = running /\ ~Live(started)
    BY <1>2 DEF BeginStarting, StateFits
  <2>3. \A w \in Workers : life'[w] = IF w = started + 1 THEN "starting" ELSE life[w]
    BY <1>2, <2>1 DEF TypeOK, BeginStarting
  <2>4. ASSUME NEW w \in Workers, w < started + 1 PROVE ~Live(w) /\ life'[w] = life[w] /\ life[w] # "unborn"
    BY <2>1, <2>2, <2>3, <2>4 DEF WorkersFit
  <2>5. ASSUME NEW w \in Workers, w > started + 1
        PROVE  life'[w] = "unborn" /\ ready[w] = "pending" /\ outbox[w] = <<>> /\ running[w] = None
    BY <2>1, <2>3, <2>5 DEF WorkersFit
  <2>6. /\ life'[started + 1] = "starting" /\ ready[started + 1] = "pending"
        /\ outbox[started + 1] = <<>> /\ running[started + 1] = None
    BY <2>1, <2>3 DEF WorkersFit
  <2>7. ASSUME NEW w \in Workers
        PROVE  /\ w > started' => life'[w] = "unborn" /\ ready'[w] = "pending" /\ outbox'[w] = <<>>
               /\ w < started' => ~Live(w)'
               /\ w <= started' => life'[w] # "unborn"
               /\ life'[w] # "up" => running'[w] = None
               /\ life'[w] = "starting" => outbox'[w] = <<>> /\ state' = "initializing"
               /\ ready'[w] \in {"exited", "broken"} => life'[w] = "died"
    <3>1. CASE w < started + 1
      <4>1. ~(w > started + 1)
        BY <2>1, <3>1
      <4>2. /\ life[w] # "up" => running[w] = None
            /\ ready[w] \in {"exited", "broken"} => life[w] = "died"
        BY DEF WorkersFit
      <4> QED BY <2>2, <2>4, <3>1, <4>1, <4>2 DEF Live
    <3>2. CASE w = started + 1
      <4>1. ~(w > started + 1) /\ ~(w < started + 1)
        BY <2>1, <3>2
      <4> QED BY <2>2, <2>6, <3>2, <4>1
    <3>3. CASE w > started + 1
      <4>1. ~(w <= started + 1) /\ ~(w < started + 1)
        BY <2>1, <3>3
      <4> QED BY <2>2, <2>5, <3>3, <4>1
    <3>4. w < started + 1 \/ w = started + 1 \/ w > started + 1
      BY <2>1
    <3> QED BY <3>1, <3>2, <3>3, <3>4
  <2> QED BY <2>7 DEF WorkersFit
<1>3. ASSUME NEW c \in Calls, ResumeInvoking(c) PROVE WorkersFit'
  <2>1. ready[started] = "resolved"
    BY <1>3 DEF ResumeInvoking, MayResume, CallsFit
  <2>2. state # "initializing"
    BY <2>1 DEF StateFits
  <2>3. UNCHANGED <<started, life, ready, outbox, running>>
    BY <1>3 DEF ResumeInvoking
  <2> QED BY <2>2, <2>3 DEF WorkersFit, Live
<1>4. ASSUME NEW how \in Failures, Resets(how) PROVE WorkersFit'
  <2>1. started' = started /\ (ready' # ready => how \in {"exited", "broken"})
        /\ (how \in {"exited", "broken"} => life[started] = "died")
    BY <1>4 DEF Resets
  <2>2. /\ \A w \in Workers : w # started => life'[w] = life[w] /\ ready'[w] = ready[w]
                                /\ outbox'[w] = outbox[w] /\ running'[w] = running[w]
        /\ running'[started] = None
        /\ IF Live(started) THEN life'[started] = "killed" ELSE life'[started] = life[started]
        /\ ready'[started] \in {ready[started], how}
    BY <1>0, <1>4, ResetFacts
  <2>3. life'[started] # "unborn" /\ ~(life'[started] \in {"starting", "up"})
    BY <1>0, <2>2 DEF WorkersFit, Live, Workers
  <2>4. ready'[started] \in {"exited", "broken"} => life'[started] = "died"
    BY <1>0, <2>1, <2>2 DEF WorkersFit, Live
  <2>5. started \in Nat /\ Workers \subseteq Nat
    BY <1>0 DEF Workers
  <2>6. ASSUME NEW w \in Workers, w # started
        PROVE  /\ w > started => life'[w] = "unborn" /\ ready'[w] = "pending" /\ outbox'[w] = <<>>
               /\ w < started => ~Live(w)'
               /\ w <= started => life'[w] # "unborn"
               /\ life'[w] # "up" => running'[w] = None
               /\ life'[w] # "starting"
               /\ ready'[w] \in {"exited", "broken"} => life'[w] = "died"
    BY <1>a, <2>2, <2>6 DEF WorkersFit, Live
  <2>7. ~Live(started)'
    BY <2>1, <2>3 DEF Live
  <2>8. ASSUME NEW w \in Workers
        PROVE  /\ w > started' => life'[w] = "unborn" /\ ready'[w] = "pending" /\ outbox'[w] = <<>>
               /\ w < started' => ~Live(w)'
               /\ w <= started' => life'[w] # "unborn"
               /\ life'[w] # "up" => running'[w] = None
               /\ life'[w] = "starting" => outbox'[w] = <<>> /\ state' = "initializing"
               /\ ready'[w] \in {"exited", "broken"} => life'[w] = "died"
    <3>1. CASE w = started
      BY <2>1, <2>2, <2>3, <2>4, <2>5, <3>1
    <3>2. CASE w # started
      BY <2>1, <2>6, <3>2
    <3> QED BY <3>1, <3>2
  <2> QED BY <2>8 DEF WorkersFit
<1>5. CASE HandleReady
  <2>1. /\ outbox[started] # <<>> /\ \A w \in Workers : w # started => outbox'[w] = outbox[w]
    BY <1>5, TakenFacts DEF HandleReady
  <2>2. UNCHANGED <<started, life, running>> /\ ready' = [ready EXCEPT ![started] = "resolved"]
    BY <1>5 DEF HandleReady
  <2>3. \A w \in Workers : life[w] # "starting"
    BY <1>a, <2>1
  <2>4. \A w \in Workers : w > started => w # started
    BY <1>0 DEF Workers
  <2> QED BY <1>0, <2>1, <2>2, <2>3, <2>4 DEF TypeOK, WorkersFit, Live
<1>6. ASSUME NEW c \in Calls, HandleAnswer(c) \/ HandleHostCall(c) PROVE WorkersFit'
  <2>1. /\ outbox[started] # <<>> /\ \A w \in Workers : w # started => outbox'[w] = outbox[w]
    BY <1>6, TakenFacts DEF HandleAnswer, HandleHostCall
  <2>2. UNCHANGED <<started, life, running, ready>>
    BY <1>6 DEF HandleAnswer, HandleHostCall
  <2>3. \A w \in Workers : life[w] # "starting"
    BY <1>a, <2>1
  <2>4. \A w \in Workers : w > started => w # started
    BY <1>0 DEF Workers
  <2> QED BY <2>1, <2>2, <2>3, <2>4 DEF WorkersFit, Live
<1>7. ASSUME NEW w \in Workers, WorkerStep(w) PROVE WorkersFit'
  <2>1. UNCHANGED <<started, state, ready>>
    BY <1>7 DEF WorkerStep, hostVars, Boot, StartHook, CallHost, HostAnswered, FinishHook, Die
  <2>2. life[w] \in {"starting", "up"}
    BY <1>7 DEF WorkerStep, Live, Boot, StartHook, CallHost, HostAnswered, FinishHook, Die
  <2>3. \A v \in Workers : v # w => life'[v] = life[v] /\ running'[v] = running[v] /\ outbox'[v] = outbox[v]
    BY <1>7 DEF TypeOK, WorkerStep, Post, Boot, StartHook, CallHost, HostAnswered, FinishHook, Die
  <2>4. life'[w] \in {"up", "died"} /\ (life'[w] = "died" => running'[w] = None)
    BY <1>7 DEF TypeOK, WorkerStep, Post, Boot, StartHook, CallHost, HostAnswered, FinishHook, Die
  <2>5. w = started /\ ready[w] \notin {"exited", "broken"}
    BY <1>0, <2>2 DEF WorkersFit, Live, Workers
  <2>6. started \in Nat
    BY <1>0 DEF Workers
  <2>7. ASSUME NEW v \in Workers
        PROVE  /\ v > started' => life'[v] = "unborn" /\ ready'[v] = "pending" /\ outbox'[v] = <<>>
               /\ v < started' => ~Live(v)'
               /\ v <= started' => life'[v] # "unborn"
               /\ life'[v] # "up" => running'[v] = None
               /\ life'[v] = "starting" => outbox'[v] = <<>> /\ state' = "initializing"
               /\ ready'[v] \in {"exited", "broken"} => life'[v] = "died"
    <3>1. CASE v = w
      BY <2>1, <2>4, <2>5, <2>6, <3>1 DEF Live
    <3>2. CASE v # w
      BY <2>1, <2>3, <3>2 DEF WorkersFit, Live
    <3> QED BY <3>1, <3>2
  <2> QED BY <2>7 DEF WorkersFit
<1> QED BY <1>1, <1>2, <1>3, <1>4, <1>5, <1>6, <1>7, Classified DEF WorkerStep

\* What has happened to a call or to a thread is not undone.
LEMMA NothingUndone ==
  ASSUME IInv, [Next]_vars
  PROVE  /\ \A c \in Calls : stage[c] \in {"invoked", "settled"} => stage'[c] \in {"invoked", "settled"}
         /\ \A w \in Workers : life[w] \in {"died", "killed"} => life'[w] = life[w]
<1> USE DEF IInv
<1>1. ASSUME NEW c \in Calls, stage[c] \in {"invoked", "settled"} PROVE stage'[c] \in {"invoked", "settled"}
  <2>1. CASE Untouched
    BY <1>1, <2>1 DEF Untouched
  <2>2. ASSUME NEW d \in Calls, Invoke(d) \/ BeginAwaiting(d) \/ BeginStarting(d)
        PROVE  stage'[c] \in {"invoked", "settled"}
    <3>1. stage[d] \in {"idle", "queued"}
      BY <2>2 DEF Invoke, BeginAwaiting, BeginStarting, MayBegin
    <3>2. \E x \in {"queued", "awaiting"} : stage' = [stage EXCEPT ![d] = x]
      BY <2>2 DEF Invoke, BeginAwaiting, BeginStarting
    <3> QED BY <1>1, <3>1, <3>2 DEF TypeOK
  <2>3. ASSUME NEW d \in Calls, ResumeInvoking(d) PROVE stage'[c] \in {"invoked", "settled"}
    BY <1>1, <2>3 DEF TypeOK, ResumeInvoking
  <2>4. ASSUME NEW d \in Calls, NEW how \in Outcomes, Settles(d, how) PROVE stage'[c] \in {"invoked", "settled"}
    BY <1>1, <2>4 DEF TypeOK, Settles, Settle
  <2> HIDE DEF IInv
  <2> QED BY <2>1, <2>2, <2>3, <2>4, ChainKinds
<1>2. ASSUME NEW w \in Workers, life[w] \in {"died", "killed"} PROVE life'[w] = life[w]
  <2>1. ASSUME NEW c \in Calls, BeginStarting(c) PROVE life'[w] = life[w]
    <3>1. started + 1 \in Workers /\ started + 1 > started
      BY <2>1, SessionAssumptions DEF TypeOK, BeginStarting, Workers
    <3>2. life[started + 1] = "unborn"
      BY <3>1 DEF WorkersFit
    <3>3. w # started + 1
      BY <1>2, <3>2
    <3> QED BY <2>1, <3>3 DEF TypeOK, BeginStarting
  <2>2. ASSUME NEW how \in Failures, Resets(how) PROVE life'[w] = life[w]
    BY <1>2, <2>2, ResetFacts DEF Live
  <2>3. ASSUME NEW v \in Workers, WorkerStep(v) PROVE life'[w] = life[w]
    BY <1>2, <2>3 DEF TypeOK, WorkerStep, Live, Boot, StartHook, CallHost, HostAnswered, FinishHook, Die
  <2>4. ASSUME \/ Quiets \/ HandleReady
               \/ \E c \in Calls : \/ Invoke(c) \/ BeginAwaiting(c) \/ ResumeInvoking(c)
                                  \/ HandleAnswer(c) \/ HandleHostCall(c) \/ HandlerEnds(c)
               \/ \E c \in Calls, how \in Failures : Refuses(c, how)
        PROVE  life'[w] = life[w]
    BY <2>4 DEF Quiets, HandleReady, Invoke, BeginAwaiting, ResumeInvoking, HandleAnswer, HandleHostCall,
                HandlerEnds, Refuses, workerVars
  <2> HIDE DEF IInv
  <2>5. TypeOK /\ QueueFits /\ CallsFit /\ MessagesFit
    BY DEF IInv
  <2> QED BY <2>1, <2>2, <2>3, <2>4, <2>5, Classified DEF WorkerStep
<1> QED BY <1>1, <1>2

LEMMA MessagesStep ==
  ASSUME IInv, [Next]_vars
  PROVE  MessagesFit'
<1> DEFINE Kept(m, w) ==
      /\ m.type \in {"exited", "broken"} => life'[w] = "died"
      /\ m.type \in Answers => m.call \in Calls /\ stage'[m.call] \in {"invoked", "settled"}
<1>0. TypeOK /\ QueueFits /\ CallsFit /\ StateFits /\ WorkersFit /\ MessagesFit /\ TokensFit
      /\ started \in Workers
  BY DEF IInv, TypeOK
<1>1. ASSUME NEW w \in Workers, NEW i \in 1..Len(outbox[w]) PROVE Kept(outbox[w][i], w)
  BY <1>0, NothingUndone DEF MessagesFit
<1>2. ASSUME NEW i \in 1..Len(outbox[started]), outbox[started][i].type = "ready"
      PROVE  i = 1 /\ state = "initializing"
  BY <1>0, <1>2 DEF MessagesFit
<1> HIDE DEF Kept
<1>3. SUFFICES ASSUME NEW w \in Workers, NEW i \in 1..Len(outbox'[w])
               PROVE  /\ Kept(outbox'[w][i], w)
                      /\ outbox'[w][i].type = "ready" /\ w = started' => i = 1 /\ state' = "initializing"
  BY <1>3 DEF MessagesFit, Kept
<1> DEFINE Goal == /\ Kept(outbox'[w][i], w)
                   /\ outbox'[w][i].type = "ready" /\ w = started' => i = 1 /\ state' = "initializing"
<1>4. ASSUME \/ Quiets
             \/ \E c \in Calls : Invoke(c) \/ BeginAwaiting(c) \/ HandlerEnds(c)
             \/ \E c \in Calls, how \in Failures : Refuses(c, how)
             \/ \E v \in Workers : StartHook(v) \/ HostAnswered(v)
      PROVE  Goal
  <2>1. UNCHANGED <<outbox, started, state>>
    BY <1>4 DEF Quiets, Invoke, BeginAwaiting, HandlerEnds, Refuses, StartHook, HostAnswered, hostVars, workerVars
  <2> QED BY <1>1, <1>2, <1>3, <2>1
<1>5. ASSUME NEW c \in Calls, ResumeInvoking(c) PROVE Goal
  <2>1. state # "initializing"
    BY <1>0, <1>5 DEF ResumeInvoking, MayResume, CallsFit, StateFits
  <2>2. UNCHANGED <<outbox, started>>
    BY <1>5 DEF ResumeInvoking
  <2> QED BY <1>1, <1>2, <1>3, <2>1, <2>2
<1>6. ASSUME NEW c \in Calls, BeginStarting(c) PROVE Goal
  <2>1. started + 1 \in Workers /\ started + 1 > started
    BY <1>0, <1>6, SessionAssumptions DEF BeginStarting, Workers
  <2>2. outbox[started + 1] = <<>>
    BY <1>0, <2>1 DEF WorkersFit
  <2>3. outbox' = outbox /\ started' = started + 1
    BY <1>6 DEF BeginStarting
  <2>4. w # started'
    BY <1>3, <2>2, <2>3
  <2> QED BY <1>1, <1>3, <2>3, <2>4
<1>7. ASSUME NEW how \in Failures, Resets(how) PROVE Goal
  <2>1. CASE w = started
    <3>1. outbox'[w] = outbox[w] /\ state = "terminated"
      <4>1. outbox'[w] # <<>>
        BY <1>3
      <4> QED BY <1>0, <1>7, <2>1, <4>1, ResetFacts
    <3> QED BY <1>1, <1>2, <1>3, <2>1, <3>1
  <2>2. CASE w # started
    <3>1. outbox'[w] = outbox[w]
      BY <1>0, <1>7, <2>2, ResetFacts
    <3>2. w # started'
      BY <1>7, <2>2 DEF Resets
    <3> QED BY <1>1, <1>3, <3>1, <3>2
  <2> QED BY <2>1, <2>2
<1>8. ASSUME HandleReady \/ \E c \in Calls : HandleAnswer(c) \/ HandleHostCall(c) PROVE Goal
  <2>1. \E type, c : Arrives(type, c)
    BY <1>8 DEF HandleReady, HandleAnswer, HandleHostCall
  <2>2. Taken /\ started' = started
    BY <1>8 DEF HandleReady, HandleAnswer, HandleHostCall
  <2>3. /\ \A v \in Workers : v # started => outbox'[v] = outbox[v]
        /\ \A j \in 1..Len(outbox'[started]) :
              /\ j + 1 \in 1..Len(outbox[started]) /\ j + 1 # 1
              /\ outbox'[started][j] = outbox[started][j + 1]
    BY <1>0, <2>1, <2>2, TakenFacts
  <2>4. CASE w = started
    BY <1>1, <1>2, <1>3, <2>3, <2>4
  <2>5. CASE w # started
    BY <1>1, <1>3, <2>2, <2>3, <2>5
  <2> QED BY <2>4, <2>5
<1>9. ASSUME NEW v \in Workers, NEW type \in {"ready", "host-call", "result", "threw", "exited", "broken"},
             NEW c \in Calls \cup {None}, Post(v, type, c), Kept(Message(type, c), v),
             type = "ready" => outbox[v] = <<>> /\ state = "initializing", UNCHANGED <<started, state>>
      PROVE  Goal
  <2>1. Message(type, c) \in ToHost /\ Message(type, c).type = type
    BY MessagesTyped
  <2>2. /\ \A u \in Workers : u # v => outbox'[u] = outbox[u]
        /\ \A j \in 1..Len(outbox'[v]) :
              \/ j = Len(outbox[v]) + 1 /\ outbox'[v][j] = Message(type, c)
              \/ j \in 1..Len(outbox[v]) /\ outbox'[v][j] = outbox[v][j]
    BY <1>0, <1>9, <2>1, PostFacts
  <2>3. CASE w = v /\ i = Len(outbox[v]) + 1 /\ outbox'[v][i] = Message(type, c)
    <3>1. type = "ready" => i = 1
      BY <1>9, <2>3
    <3> QED BY <1>9, <2>1, <2>3, <3>1
  <2>4. CASE w # v \/ (i \in 1..Len(outbox[v]) /\ outbox'[v][i] = outbox[v][i])
    BY <1>1, <1>2, <1>3, <1>9, <2>2, <2>4
  <2> QED BY <1>3, <2>2, <2>3, <2>4
<1>10. ASSUME NEW v \in Workers, Boot(v) PROVE Goal
  <2>1. outbox[v] = <<>> /\ state = "initializing"
    BY <1>0, <1>10 DEF WorkersFit, Boot
  <2>2. Kept(Message("ready", None), v)
    BY DEF Kept, Message, Answers
  <2>3. Post(v, "ready", None) /\ UNCHANGED <<started, state>>
    BY <1>10 DEF Boot, hostVars
  <2> QED BY <1>9, <2>1, <2>2, <2>3
<1>11. ASSUME NEW v \in Workers, CallHost(v) PROVE Goal
  <2>1. Kept(Message("host-call", running[v]), v)
    BY DEF Kept, Message, Answers
  <2>2. Post(v, "host-call", running[v]) /\ running[v] \in Calls \cup {None} /\ UNCHANGED <<started, state>>
    BY <1>0, <1>11 DEF TypeOK, CallHost, hostVars
  <2> QED BY <1>9, <2>1, <2>2
<1>12. ASSUME NEW v \in Workers, FinishHook(v) PROVE Goal
  <2>1. running[v] \in Calls /\ stage[running[v]] = "invoked"
    BY <1>0, <1>12 DEF TypeOK, FinishHook, TokensFit, CallsFit
  <2>2. stage'[running[v]] = "invoked" /\ UNCHANGED <<started, state>>
    BY <1>12, <2>1 DEF FinishHook, hostVars
  <2>3. PICK how \in {"result", "threw"} : Post(v, how, running[v])
    BY <1>12 DEF FinishHook
  <2>4. Kept(Message(how, running[v]), v)
    BY <2>1, <2>2 DEF Kept, Message
  <2> QED BY <1>9, <2>1, <2>2, <2>3, <2>4
<1>13. ASSUME NEW v \in Workers, Die(v) PROVE Goal
  <2>1. life'[v] = "died" /\ UNCHANGED <<started, state>>
    BY <1>0, <1>13 DEF TypeOK, Die, hostVars
  <2>2. PICK how \in {"exited", "broken"} : Post(v, how, None)
    BY <1>13 DEF Die
  <2>3. Kept(Message(how, None), v)
    BY <2>1 DEF Kept, Message, Answers
  <2> QED BY <1>9, <2>1, <2>2, <2>3
<1> HIDE DEF Goal
<1> QED BY <1>0, <1>4, <1>5, <1>6, <1>7, <1>8, <1>10, <1>11, <1>12, <1>13, Classified DEF Goal

\* Without a pending request there is no token.
LEMMA NoToken ==
  ASSUME TokensFit, pending = {}
  PROVE  \A w \in Workers : /\ running[w] = None
                           /\ \A i \in 1..Len(inbox[w]) : inbox[w][i].type # "invoke"
BY DEF TokensFit

LEMMA TokensStep ==
  ASSUME IInv, [Next]_vars
  PROVE  TokensFit'
<1> DEFINE Later(w, c) == \E i \in 1..Len(outbox'[w]) : outbox'[w][i].type \in Answers /\ outbox'[w][i].call = c
<1> HIDE DEF Later
<1>0. /\ TypeOK /\ QueueFits /\ CallsFit /\ StateFits /\ WorkersFit /\ MessagesFit /\ TokensFit
      /\ started \in Workers
  BY DEF IInv, TypeOK
<1>1. ASSUME \/ Quiets
             \/ \E c \in Calls : Invoke(c) \/ BeginAwaiting(c)
             \/ \E c \in Calls, how \in Failures : Refuses(c, how)
      PROVE  TokensFit'
  <2>1. UNCHANGED <<started, pending, running, inbox, outbox>>
    BY <1>1 DEF Quiets, Invoke, BeginAwaiting, Refuses, workerVars
  <2> QED BY <1>0, <2>1 DEF TokensFit, Answering
<1>2. ASSUME NEW c \in Calls, BeginStarting(c) PROVE TokensFit'
  <2>1. pending = {}
    BY <1>0, <1>2, OnePending DEF BeginStarting, MayBegin, CallsFit
  <2>2. UNCHANGED <<running, inbox>>
    BY <1>2 DEF BeginStarting
  <2> QED BY <1>0, <2>1, <2>2, NoToken DEF TokensFit
<1>3. ASSUME NEW c \in Calls, ResumeInvoking(c) PROVE TokensFit'
  <2>1. stage[c] = "awaiting" /\ ready[started] = "resolved"
    BY <1>0, <1>3 DEF ResumeInvoking, MayResume, CallsFit
  <2>2. pending = {}
    BY <1>0, <2>1 DEF StateFits
  <2>3. \A w \in Workers : /\ running[w] = None
                          /\ \A i \in 1..Len(inbox[w]) : inbox[w][i].type # "invoke"
    BY <1>0, <2>2, NoToken
  <2>4. UNCHANGED <<running, outbox, started>> /\ c \in pending'
    BY <1>3 DEF ResumeInvoking
  <2>5. ~Answering(started, c)
    BY <1>0, <2>1 DEF MessagesFit, Answering
  <2>6. Message("invoke", c) \in ToWorker /\ Message("invoke", c).call = c
    BY MessagesTyped
  <2>7. inbox[started] \in Seq(ToWorker) /\ inbox'[started] = Append(inbox[started], Message("invoke", c))
        /\ \A w \in Workers : w # started => inbox'[w] = inbox[w]
    BY <1>0, <1>3 DEF TypeOK, ResumeInvoking
  <2>8. \A i \in 1..Len(inbox'[started]) : \/ i = Len(inbox[started]) + 1 /\ inbox'[started][i] = Message("invoke", c)
                                         \/ inbox'[started][i].type # "invoke"
    BY <2>3, <2>6, <2>7, AppendFacts, <1>0
  <2>9. ~Answering(started, c)'
    BY <2>4, <2>5 DEF Answering
  <2>10. ASSUME NEW w \in Workers, NEW i \in 1..Len(inbox'[w]), inbox'[w][i].type = "invoke"
         PROVE  /\ w = started' /\ inbox'[w][i].call \in pending' /\ ~Answering(w, inbox[w][i].call)'
                /\ \A j \in 1..Len(inbox'[w]) : inbox'[w][j].type = "invoke" => j = i
    <3>1. w = started
      BY <2>3, <2>7, <2>10
    <3>2. i = Len(inbox[started]) + 1 /\ inbox'[w][i].call = c
      BY <2>6, <2>8, <2>10, <3>1
    <3>3. \A j \in 1..Len(inbox'[w]) : inbox'[w][j].type = "invoke" => j = i
      BY <2>8, <3>1, <3>2
    <3>4. ~Answering(w, inbox[w][i].call)'
      BY <2>4, <2>9, <3>1, <3>2 DEF Answering
    <3> QED BY <2>4, <3>1, <3>2, <3>3, <3>4
  <2> QED BY <2>3, <2>4, <2>10 DEF TokensFit
<1>4. ASSUME NEW how \in Failures, Resets(how) PROVE TokensFit'
  <2>1. \A w \in Workers : running'[w] = None
    BY <1>0, <1>4, ResetFacts DEF TokensFit
  <2>2. ASSUME NEW w \in Workers, NEW i \in 1..Len(inbox'[w]) PROVE inbox'[w][i].type # "invoke"
    <3>1. CASE w = started
      <4>1. inbox'[w] # <<>>
        BY <2>2
      <4>2. inbox'[w] = inbox[w] /\ pending = {}
        BY <1>0, <1>4, <3>1, <4>1, ResetFacts
      <4> QED BY <1>0, <2>2, <4>2, NoToken
    <3>2. CASE w # started
      <4>1. inbox'[w] = inbox[w]
        BY <1>0, <1>4, <3>2, ResetFacts
      <4> QED BY <1>0, <2>2, <3>2, <4>1 DEF TokensFit
    <3> QED BY <3>1, <3>2
  <2> QED BY <2>1, <2>2 DEF TokensFit
<1>5. ASSUME HandleReady \/ \E c \in Calls : HandleHostCall(c) PROVE TokensFit'
  <2>1. \E type, c : Arrives(type, c)
    BY <1>5 DEF HandleReady, HandleHostCall
  <2>2. Taken /\ UNCHANGED <<started, pending, running, inbox>>
    BY <1>5 DEF HandleReady, HandleHostCall
  <2>3. \A w \in Workers : \A c : Later(w, c) => Answering(w, c)
    <3>1. ASSUME NEW w \in Workers, NEW c, Later(w, c) PROVE Answering(w, c)
      <4>1. CASE w = started
        BY <1>0, <2>1, <2>2, <3>1, <4>1, TakenFacts DEF Answering, Later
      <4>2. CASE w # started
        <5>1. outbox'[w] = outbox[w]
          BY <1>0, <2>1, <2>2, <4>2, TakenFacts
        <5> QED BY <3>1, <5>1 DEF Answering, Later
      <4> QED BY <4>1, <4>2
    <3> QED BY <3>1
  <2>4. ASSUME NEW w \in Workers, running'[w] # None PROVE ~Answering(w, running[w])'
    <3>1. running'[w] = running[w] /\ ~Answering(w, running[w])
      BY <1>0, <2>2, <2>4 DEF TokensFit
    <3>2. ~Later(w, running[w])
      BY <2>3, <3>1
    <3> QED BY <3>1, <3>2 DEF Later, Answering
  <2>5. ASSUME NEW w \in Workers, NEW i \in 1..Len(inbox'[w]), inbox'[w][i].type = "invoke"
        PROVE  ~Answering(w, inbox[w][i].call)'
    <3>1. inbox'[w][i] = inbox[w][i] /\ ~Answering(w, inbox[w][i].call)
      BY <1>0, <2>2, <2>5 DEF TokensFit
    <3>2. ~Later(w, inbox[w][i].call)
      BY <2>3, <3>1
    <3> QED BY <3>1, <3>2 DEF Later, Answering
  <2> QED BY <1>0, <2>2, <2>4, <2>5 DEF TokensFit
<1>6. ASSUME NEW c \in Calls, HandleAnswer(c) PROVE TokensFit'
  <2>1. pending = {c} /\ pending' = {} /\ UNCHANGED <<running, inbox>>
    BY <1>0, <1>6, OnePending DEF HandleAnswer
  <2>2. Answering(started, c)
    <3>1. PICK how \in Answers : Arrives(how, c)
      BY <1>6 DEF HandleAnswer, Answers
    <3>2. Taken
      BY <1>6 DEF HandleAnswer
    <3>3. 1 \in 1..Len(outbox[started]) /\ outbox[started][1] = Message(how, c)
      BY <1>0, <3>1, <3>2, TakenFacts
    <3> QED BY <3>1, <3>3 DEF Answering, Message
  <2>3. \A w \in Workers : running[w] = None
    BY <1>0, <2>1, <2>2 DEF TokensFit
  <2>4. \A w \in Workers : \A i \in 1..Len(inbox[w]) : inbox[w][i].type # "invoke"
    BY <1>0, <2>1, <2>2 DEF TokensFit
  <2> QED BY <2>1, <2>3, <2>4 DEF TokensFit
<1>7. ASSUME NEW c \in Calls, HandlerEnds(c) PROVE TokensFit'
  <2>1. UNCHANGED <<started, pending, running, outbox>>
    BY <1>7 DEF HandlerEnds
  <2>2. CASE inbox' = inbox
    BY <1>0, <2>1, <2>2 DEF TokensFit, Answering
  <2>3. CASE inbox' = [inbox EXCEPT ![started] = Append(@, Message("host-result", c))]
    <3>1. Message("host-result", c) \in ToWorker /\ Message("host-result", c).type # "invoke"
      BY MessagesTyped
    <3>2. inbox[started] \in Seq(ToWorker) /\ inbox'[started] = Append(inbox[started], Message("host-result", c))
          /\ \A w \in Workers : w # started => inbox'[w] = inbox[w]
      BY <1>0, <2>3 DEF TypeOK
    <3>3. \A w \in Workers : \A i \in 1..Len(inbox'[w]) : inbox'[w][i].type = "invoke" =>
            i \in 1..Len(inbox[w]) /\ inbox'[w][i] = inbox[w][i]
      BY <3>1, <3>2, AppendFacts
    <3>4. ASSUME NEW w \in Workers, NEW i \in 1..Len(inbox'[w]), inbox'[w][i].type = "invoke"
          PROVE  /\ w = started /\ inbox'[w][i].call \in pending /\ ~Answering(w, inbox'[w][i].call)
                 /\ \A j \in 1..Len(inbox'[w]) : inbox'[w][j].type = "invoke" => j = i
      <4>1. i \in 1..Len(inbox[w]) /\ inbox'[w][i] = inbox[w][i]
        BY <3>3, <3>4
      <4>2. /\ w = started /\ inbox[w][i].call \in pending /\ ~Answering(w, inbox[w][i].call)
            /\ \A j \in 1..Len(inbox[w]) : inbox[w][j].type = "invoke" => j = i
        BY <1>0, <3>4, <4>1 DEF TokensFit
      <4> QED BY <3>3, <4>1, <4>2
    <3>5. \A w \in Workers : running[w] # None => \A i \in 1..Len(inbox'[w]) : inbox'[w][i].type # "invoke"
      BY <1>0, <3>3 DEF TokensFit
    <3> QED BY <1>0, <2>1, <3>4, <3>5 DEF TokensFit, Answering
  <2> QED BY <1>7, <2>2, <2>3 DEF HandlerEnds
<1>8. ASSUME NEW v \in Workers, Boot(v) \/ CallHost(v) PROVE TokensFit'
  <2>1. UNCHANGED <<started, pending, running, inbox>>
    BY <1>8 DEF Boot, CallHost, hostVars
  <2>2. PICK type \in {"ready", "host-call"}, c \in Calls \cup {None} : Post(v, type, c)
    BY <1>0, <1>8 DEF TypeOK, Boot, CallHost
  <2>3. Message(type, c) \in ToHost /\ Message(type, c).type \notin Answers
    BY <2>2, MessagesTyped DEF Answers
  <2>4. \A w \in Workers : \A d : Later(w, d) => Answering(w, d)
    <3>1. ASSUME NEW w \in Workers, NEW d, Later(w, d) PROVE Answering(w, d)
      <4>1. CASE w = v
        BY <1>0, <2>2, <2>3, <3>1, <4>1, PostFacts DEF Answering, Later
      <4>2. CASE w # v
        <5>1. outbox'[w] = outbox[w]
          BY <1>0, <2>2, <2>3, <4>2, PostFacts
        <5> QED BY <3>1, <5>1 DEF Answering, Later
      <4> QED BY <4>1, <4>2
    <3> QED BY <3>1
  <2>5. ASSUME NEW w \in Workers, running'[w] # None PROVE ~Answering(w, running[w])'
    <3>1. running'[w] = running[w] /\ ~Answering(w, running[w])
      BY <1>0, <2>1, <2>5 DEF TokensFit
    <3>2. ~Later(w, running[w])
      BY <2>4, <3>1
    <3> QED BY <3>1, <3>2 DEF Later, Answering
  <2>6. ASSUME NEW w \in Workers, NEW i \in 1..Len(inbox'[w]), inbox'[w][i].type = "invoke"
        PROVE  ~Answering(w, inbox[w][i].call)'
    <3>1. inbox'[w][i] = inbox[w][i] /\ ~Answering(w, inbox[w][i].call)
      BY <1>0, <2>1, <2>6 DEF TokensFit
    <3>2. ~Later(w, inbox[w][i].call)
      BY <2>4, <3>1
    <3> QED BY <3>1, <3>2 DEF Later, Answering
  <2> QED BY <1>0, <2>1, <2>5, <2>6 DEF TokensFit
<1>9. ASSUME NEW v \in Workers, StartHook(v) PROVE TokensFit'
  <2>1. UNCHANGED <<started, pending, outbox>>
    BY <1>9 DEF StartHook, hostVars
  <2>2. inbox[v] \in Seq(ToWorker) /\ inbox[v] # <<>> /\ Head(inbox[v]).type = "invoke"
    BY <1>0, <1>9 DEF TypeOK, StartHook
  <2>3. 1 \in 1..Len(inbox[v]) /\ Head(inbox[v]) = inbox[v][1]
    BY <2>2, TailFacts
  <2>4. /\ v = started /\ Head(inbox[v]).call \in pending /\ ~Answering(v, Head(inbox[v]).call)
        /\ \A i \in 1..Len(inbox[v]) : inbox[v][i].type = "invoke" => i = 1
    BY <1>0, <2>2, <2>3 DEF TokensFit
  <2>5. /\ running'[v] = Head(inbox[v]).call /\ inbox'[v] = Tail(inbox[v])
        /\ \A w \in Workers : w # v => running'[w] = running[w] /\ inbox'[w] = inbox[w]
    BY <1>0, <1>9 DEF TypeOK, StartHook
  <2>6. \A i \in 1..Len(inbox'[v]) : inbox'[v][i].type # "invoke"
    <3>1. \A i \in 1..Len(inbox'[v]) : /\ inbox'[v][i] = inbox[v][i + 1] /\ i + 1 \in 1..Len(inbox[v])
                                      /\ i + 1 # 1
      BY <2>2, <2>5, TailFacts
    <3> QED BY <2>4, <3>1
  <2>7. \A w \in Workers : w # v => /\ running'[w] = None
                                   /\ \A i \in 1..Len(inbox'[w]) : inbox'[w][i].type # "invoke"
    BY <1>0, <2>4, <2>5 DEF TokensFit
  <2>8. ~Answering(v, running[v])'
    BY <2>1, <2>4, <2>5 DEF Answering
  <2> QED BY <2>1, <2>4, <2>5, <2>6, <2>7, <2>8 DEF TokensFit
<1>10. ASSUME NEW v \in Workers, HostAnswered(v) PROVE TokensFit'
  <2>1. UNCHANGED <<started, pending, outbox, running>>
    BY <1>10 DEF HostAnswered, hostVars
  <2>2. inbox[v] \in Seq(ToWorker) /\ inbox[v] # <<>> /\ inbox'[v] = Tail(inbox[v])
        /\ \A w \in Workers : w # v => inbox'[w] = inbox[w]
    BY <1>0, <1>10 DEF TypeOK, HostAnswered
  <2>3. \A i \in 1..Len(inbox'[v]) : inbox'[v][i] = inbox[v][i + 1] /\ i + 1 \in 1..Len(inbox[v])
    BY <2>2, TailFacts
  <2>4. ASSUME NEW w \in Workers, NEW i \in 1..Len(inbox'[w]), inbox'[w][i].type = "invoke"
        PROVE  /\ w = started /\ inbox'[w][i].call \in pending /\ ~Answering(w, inbox'[w][i].call)
               /\ \A j \in 1..Len(inbox'[w]) : inbox'[w][j].type = "invoke" => j = i
    <3>1. CASE w = v
      <4>1. i + 1 \in 1..Len(inbox[v]) /\ inbox[v][i + 1] = inbox'[w][i]
        BY <2>3, <2>4, <3>1
      <4>2. /\ w = started /\ inbox[v][i + 1].call \in pending /\ ~Answering(w, inbox[v][i + 1].call)
            /\ \A j \in 1..Len(inbox[v]) : inbox[v][j].type = "invoke" => j = i + 1
        BY <1>0, <2>4, <3>1, <4>1 DEF TokensFit
      <4>3. \A j \in 1..Len(inbox'[v]) : inbox'[v][j].type = "invoke" => j + 1 = i + 1
        BY <2>3, <4>2
      <4>4. \A j \in 1..Len(inbox'[v]) : inbox'[v][j].type = "invoke" => j = i
        BY <2>4, <3>1, <4>3
      <4> QED BY <3>1, <4>1, <4>2, <4>4
    <3>2. CASE w # v
      BY <1>0, <2>2, <2>4, <3>2 DEF TokensFit
    <3> QED BY <3>1, <3>2
  <2>5. ASSUME NEW w \in Workers, running[w] # None, NEW i \in 1..Len(inbox'[w]) PROVE inbox'[w][i].type # "invoke"
    <3>1. \A j \in 1..Len(inbox[w]) : inbox[w][j].type # "invoke"
      BY <1>0, <2>5 DEF TokensFit
    <3> QED BY <2>2, <2>3, <2>5, <3>1
  <2> QED BY <1>0, <2>1, <2>4, <2>5 DEF TokensFit, Answering
<1>11. ASSUME NEW v \in Workers, FinishHook(v) PROVE TokensFit'
  <2>1. UNCHANGED <<started, pending, inbox>>
    BY <1>11 DEF FinishHook, hostVars
  <2>2. v = started /\ \A i \in 1..Len(inbox[v]) : inbox[v][i].type # "invoke"
    BY <1>0, <1>11 DEF TokensFit, FinishHook
  <2>3. \A w \in Workers : running'[w] = None
    BY <1>0, <1>11, <2>2 DEF TypeOK, TokensFit, FinishHook
  <2>4. \A w \in Workers : \A i \in 1..Len(inbox[w]) : inbox[w][i].type # "invoke"
    BY <1>0, <2>2 DEF TokensFit
  <2> QED BY <2>1, <2>3, <2>4 DEF TokensFit
<1>12. ASSUME NEW v \in Workers, Die(v) PROVE TokensFit'
  <2>1. UNCHANGED <<started, pending>>
    BY <1>12 DEF Die, hostVars
  <2>2. v = started
    BY <1>0, <1>12 DEF Die, Live, WorkersFit, Workers
  <2>3. /\ running'[v] = None /\ inbox'[v] = <<>>
        /\ \A w \in Workers : w # v => running'[w] = running[w] /\ inbox'[w] = inbox[w]
    BY <1>0, <1>12 DEF TypeOK, Die
  <2>4. \A w \in Workers : /\ running'[w] = None
                          /\ \A i \in 1..Len(inbox'[w]) : inbox'[w][i].type # "invoke"
    BY <1>0, <2>2, <2>3 DEF TokensFit
  <2> QED BY <2>4 DEF TokensFit
<1> QED BY <1>0, <1>1, <1>2, <1>3, <1>4, <1>5, <1>6, <1>7, <1>8, <1>9, <1>10, <1>11, <1>12, Classified

LEMMA FailuresStep ==
  ASSUME IInv, [Next]_vars
  PROVE  FailuresFit'
<1>0. /\ TypeOK /\ QueueFits /\ CallsFit /\ StateFits /\ WorkersFit /\ MessagesFit /\ FailuresFit
      /\ started \in Workers
  BY DEF IInv, TypeOK
<1> DEFINE Own(c, how, at) ==
      /\ how = "timeout" => c \in expired'
      /\ how = "cancelled" => c \in signalled'
      /\ how = "disposed" => session' = "disposed"
      /\ how \in {"exited", "broken", "silent"} => at \in Workers
      /\ how \in {"exited", "broken"} => life'[at] = "died"
      /\ how = "silent" => life'[at] \in {"killed", "died"}
<1>1. expired \subseteq expired' /\ signalled \subseteq signalled' /\ (session = "disposed" => session' = "disposed")
  BY <1>0, Classified DEF Quiets, Invoke, BeginAwaiting, BeginStarting, ResumeInvoking, Refuses, Resets,
     HandleReady, HandleAnswer, HandleHostCall, HandlerEnds, hostVars, Boot, StartHook, CallHost,
     HostAnswered, FinishHook, Die
<1>2. ASSUME NEW c \in Calls PROVE Own(c, outcome[c], waits[c])
  <2>1. /\ outcome[c] = "timeout" => c \in expired
        /\ outcome[c] = "cancelled" => c \in signalled
        /\ outcome[c] = "disposed" => session = "disposed"
        /\ outcome[c] \in {"exited", "broken", "silent"} => waits[c] \in Workers
        /\ outcome[c] \in {"exited", "broken"} => life[waits[c]] = "died"
        /\ outcome[c] = "silent" => life[waits[c]] \in {"killed", "died"}
    BY <1>0 DEF FailuresFit, FailuresAreOwn
  <2>2. waits[c] \in Workers /\ life[waits[c]] \in {"died", "killed"} => life'[waits[c]] = life[waits[c]]
    BY NothingUndone
  <2> QED BY <1>1, <2>1, <2>2
<1>3. ASSUME NEW c \in Calls PROVE Own(c, "none", waits'[c])
  OBVIOUS
<1> HIDE DEF Own
<1>4. SUFFICES ASSUME NEW c \in Calls PROVE Own(c, outcome'[c], waits'[c])
  BY <1>4 DEF FailuresFit, FailuresAreOwn, Own
<1>5. ASSUME \/ Quiets \/ HandleReady
             \/ \E d \in Calls : Invoke(d) \/ ResumeInvoking(d) \/ HandleHostCall(d) \/ HandlerEnds(d)
             \/ \E w \in Workers : Boot(w) \/ StartHook(w) \/ CallHost(w) \/ HostAnswered(w) \/ FinishHook(w) \/ Die(w)
      PROVE  Own(c, outcome'[c], waits'[c])
  <2>1. UNCHANGED <<outcome, waits>>
    BY <1>5 DEF Quiets, HandleReady, Invoke, ResumeInvoking, HandleHostCall, HandlerEnds, hostVars, Boot,
       StartHook, CallHost, HostAnswered, FinishHook, Die
  <2> QED BY <1>2, <2>1
<1>6. ASSUME NEW d \in Calls, BeginAwaiting(d) \/ BeginStarting(d) PROVE Own(c, outcome'[c], waits'[c])
  <2>1. outcome' = outcome /\ outcome[d] = "none"
    BY <1>0, <1>6 DEF BeginAwaiting, BeginStarting, MayBegin, CallsFit
  <2>2. c # d => waits'[c] = waits[c]
    BY <1>0, <1>6 DEF TypeOK, BeginAwaiting, BeginStarting
  <2> QED BY <1>2, <1>3, <2>1, <2>2
<1>7. ASSUME NEW d \in Calls, NEW how \in Failures, Refuses(d, how) PROVE Own(c, outcome'[c], waits'[c])
  <2>1. waits' = waits /\ outcome' = [outcome EXCEPT ![d] = how]
    BY <1>7 DEF Refuses, Settle
  <2>2. Own(d, how, waits[d])
    <3>1. how \in {"exited", "broken"} => waits[d] = started /\ life'[waits[d]] = "died"
      BY <1>0, <1>7 DEF Refuses, CallsFit, WorkersFit, workerVars
    <3> QED BY <1>0, <1>1, <1>7, <3>1 DEF Refuses, Own
  <2> QED BY <1>0, <1>2, <2>1, <2>2 DEF TypeOK
<1>8. ASSUME NEW how \in Failures, Resets(how) PROVE Own(c, outcome'[c], waits'[c])
  <2>1. waits' = waits /\ outcome'[c] = IF c \in pending THEN how ELSE outcome[c]
    BY <1>8 DEF Resets, ResetWorker, RejectAll, Answered
  <2>2. CASE c \in pending
    <3>1. waits[c] = started
      BY <1>0, <2>2 DEF CallsFit
    <3>2. how = "silent" => life'[started] \in {"killed", "died"}
      <4>1. life[started] # "unborn"
        BY <1>0 DEF WorkersFit, Workers
      <4> QED BY <1>0, <1>8, <4>1, ResetFacts DEF TypeOK, Live
    <3>3. how \in {"exited", "broken"} => life'[started] = "died"
      BY <1>0, <1>8, NothingUndone DEF Resets
    <3> QED BY <1>0, <1>8, <2>1, <2>2, <3>1, <3>2, <3>3 DEF Resets, Own
  <2>3. CASE c \notin pending
    BY <1>2, <2>1, <2>3
  <2> QED BY <2>2, <2>3
<1>9. ASSUME NEW d \in Calls, HandleAnswer(d) PROVE Own(c, outcome'[c], waits'[c])
  <2>1. PICK how \in {"result", "threw"} : outcome' = [outcome EXCEPT ![d] = how]
    BY <1>9 DEF HandleAnswer, Settle
  <2>2. waits' = waits /\ Own(d, how, waits[d])
    BY <1>9 DEF HandleAnswer, Own
  <2> QED BY <1>0, <1>2, <2>1, <2>2 DEF TypeOK
<1> QED BY <1>0, <1>5, <1>6, <1>7, <1>8, <1>9, Classified

LEMMA HandlersStep ==
  ASSUME IInv, [Next]_vars
  PROVE  HandlersFit'
<1>0. /\ TypeOK /\ QueueFits /\ CallsFit /\ StateFits /\ WorkersFit /\ MessagesFit /\ HandlersFit
  BY DEF IInv
<1>1. ASSUME \/ Quiets \/ HandleReady
             \/ \E d \in Calls : Invoke(d) \/ BeginAwaiting(d) \/ BeginStarting(d) \/ ResumeInvoking(d) \/ HandlerEnds(d)
             \/ \E w \in Workers : Boot(w) \/ StartHook(w) \/ CallHost(w) \/ HostAnswered(w) \/ FinishHook(w) \/ Die(w)
      PROVE  HandlersFit'
  <2>1. outcome' = outcome /\ handlerCut' = handlerCut /\ serving' \subseteq serving
    BY <1>1 DEF Quiets, HandleReady, Invoke, BeginAwaiting, BeginStarting, ResumeInvoking, HandlerEnds,
       hostVars, Boot, StartHook, CallHost, HostAnswered, FinishHook, Die
  <2> QED BY <1>0, <2>1, NothingUndone DEF TypeOK, HandlersFit, HandlersOfFailedCallsAreCut
<1>2. ASSUME NEW d \in Calls, NEW how \in Failures, Refuses(d, how) PROVE HandlersFit'
  <2>1. d \notin serving
    BY <1>0, <1>2 DEF Refuses, MayBegin, MayResume, HandlersFit
  <2>2. outcome' = [outcome EXCEPT ![d] = how] /\ UNCHANGED <<handlerCut, serving>>
    BY <1>2 DEF Refuses, Settle
  <2> QED BY <1>0, <2>1, <2>2, NothingUndone DEF TypeOK, HandlersFit, HandlersOfFailedCallsAreCut
<1>3. ASSUME NEW how \in Failures, Resets(how) PROVE HandlersFit'
  <2>1. /\ \A c \in Calls : outcome'[c] = IF c \in pending THEN how ELSE outcome[c]
        /\ handlerCut' = handlerCut \cup pending /\ serving' = serving
    BY <1>3 DEF Resets, ResetWorker, RejectAll, Answered
  <2> QED BY <1>0, <2>1, NothingUndone DEF TypeOK, HandlersFit, HandlersOfFailedCallsAreCut
<1>4. ASSUME NEW d \in Calls, HandleAnswer(d) PROVE HandlersFit'
  <2>1. PICK how \in {"result", "threw"} : outcome' = [outcome EXCEPT ![d] = how]
    BY <1>4 DEF HandleAnswer, Settle
  <2>2. UNCHANGED <<handlerCut, serving>> /\ how \notin Failures
    BY <1>4 DEF HandleAnswer, Failures
  <2> QED BY <1>0, <2>1, <2>2, NothingUndone DEF TypeOK, HandlersFit, HandlersOfFailedCallsAreCut
<1>5. ASSUME NEW d \in Calls, HandleHostCall(d) PROVE HandlersFit'
  <2>1. UNCHANGED <<outcome, handlerCut, stage>> /\ serving' \subseteq serving \cup (pending \cap {d})
    BY <1>5 DEF HandleHostCall
  <2>2. d \in pending => stage[d] = "invoked" /\ outcome[d] \notin Failures
    BY <1>0 DEF CallsFit, Failures
  <2> QED BY <1>0, <2>1, <2>2 DEF HandlersFit, HandlersOfFailedCallsAreCut
<1> QED BY <1>0, <1>1, <1>2, <1>3, <1>4, <1>5, Classified

-----------------------------------------------------------------------------

\* The invariant holds whenever the session is in use.
THEOREM SessionInductive == Spec => []IInv
<1>1. Init => IInv
  <2>1. ASSUME Init PROVE TypeOK
    <3>1. 1 \in Workers /\ <<>> \in Seq(Calls) /\ <<>> \in Seq(ToWorker) /\ <<>> \in Seq(ToHost)
      <4>1. Cardinality(Calls) \in Nat
        BY SessionAssumptions, FS_CardinalityType
      <4> QED BY <4>1, SessionAssumptions DEF Workers
    <3>2. waits \in [Calls -> 0..MaxWorkers]
      <4>1. 0 \in 0..MaxWorkers
        BY SessionAssumptions
      <4> QED BY <2>1, <4>1 DEF Init
    <3>3. life \in [Workers -> {"unborn", "starting", "up", "died", "killed"}]
      BY <2>1 DEF Init
    <3>4. inbox \in [Workers -> Seq(ToWorker)] /\ outbox \in [Workers -> Seq(ToHost)]
      BY <2>1, <3>1 DEF Init
    <3> QED BY <2>1, <3>1, <3>2, <3>3, <3>4 DEF Init, TypeOK
  <2>2. ASSUME Init PROVE QueueFits /\ CallsFit /\ StateFits /\ MessagesFit /\ TokensFit /\ FailuresFit /\ HandlersFit
    BY <2>1, <2>2 DEF Init, QueueFits, CallsFit, StateFits, MessagesFit, TokensFit, FailuresFit, FailuresAreOwn,
       HandlersFit, HandlersOfFailedCallsAreCut, Workers, TypeOK
  <2>3. ASSUME Init PROVE WorkersFit
    BY <2>3 DEF Init, WorkersFit, Live, Workers
  <2> QED BY <2>1, <2>2, <2>3 DEF IInv
<1>2. IInv /\ [Next]_vars => IInv'
  BY TypeStep, QueueStep, CallsStep, StateStep, WorkersStep, MessagesStep, TokensStep, FailuresStep,
     HandlersStep DEF IInv
<1> QED BY <1>1, <1>2, PTL DEF Spec

\* The host's and the workers' variables keep their types.
THEOREM SessionTyped == Spec => []TypeOK
<1>1. IInv => TypeOK
  BY DEF IInv
<1> QED BY <1>1, SessionInductive, PTL

\* invokeRuntimeHook, resetWorker: a hook runs only in the current worker, and
\* only while its call is the one pending request.
THEOREM SessionHookRunsForItsCall == Spec => []HookRunsForItsCall
<1>1. IInv => HookRunsForItsCall
  <2>1. ASSUME IInv, NEW w \in Workers, running[w] # None PROVE w = started /\ pending = {running[w]}
    BY <2>1, OnePending DEF IInv, TokensFit
  <2> QED BY <2>1 DEF HookRunsForItsCall
<1> QED BY <1>1, SessionInductive, PTL

\* ScriptWorker.state is right about the worker.
THEOREM SessionStateTellsTheWorker == Spec => []StateTellsTheWorker
<1>1. IInv => StateTellsTheWorker
  <2>1. ASSUME IInv, state = "terminated" PROVE ~Live(started) /\ outbox[started] = <<>> /\ running[started] = None
    <3>1. ~Live(started) /\ outbox[started] = <<>> /\ started \in Workers
      BY <2>1 DEF IInv, StateFits, TypeOK
    <3> QED BY <2>1, <3>1 DEF IInv, WorkersFit, Live
  <2> QED BY <2>1 DEF IInv, StateFits, StateTellsTheWorker
<1> QED BY <1>1, SessionInductive, PTL

\* A call fails only of its own timer, signal, worker or session.
THEOREM SessionFailuresAreOwn == Spec => []FailuresAreOwn
<1>1. IInv => FailuresAreOwn
  BY DEF IInv, FailuresFit
<1> QED BY <1>1, SessionInductive, PTL

\* rejectRuntimeRequests: whoever works for a failed call has been told to stop.
THEOREM SessionHandlersAreCut == Spec => []HandlersOfFailedCallsAreCut
<1>1. IInv => HandlersOfFailedCallsAreCut
  BY DEF IInv, HandlersFit
<1> QED BY <1>1, SessionInductive, PTL

\* #queue and the single active hook: the session implements SerialCalls.
THEOREM SessionImplementsSerialCalls == Spec => ImplementsSerialCalls
<1> DEFINE done == {c \in Calls : stage[c] = "settled"}
           work == {running[w] : w \in Workers} \ {None}
<1>1. Init => Promise!Init
  BY DEF Init, Promise!Init
<1>2. IInv /\ IInv' /\ [Next]_vars => [Promise!Next]_(Promise!vars)
  <2> SUFFICES ASSUME IInv, IInv', [Next]_vars
               PROVE  Promise!Next \/ UNCHANGED Promise!vars
    OBVIOUS
  <2>0. /\ TypeOK /\ QueueFits /\ CallsFit /\ MessagesFit /\ TokensFit /\ started \in Workers
        /\ TypeOK' /\ CallsFit' /\ TokensFit'
    BY DEF IInv, TypeOK
  <2>1. work \subseteq pending /\ work' \subseteq pending'
    BY <2>0 DEF TokensFit
  <2>2. queue # <<>> => Head(queue) = queue[1]
    BY <2>0, TailFacts DEF TypeOK
  <2>3. ASSUME NEW c \in Calls, Invoke(c) PROVE Promise!Make(c)
    <3>1. stage[c] = "idle" /\ queue' = Append(queue, c) /\ stage' = [stage EXCEPT ![c] = "queued"]
          /\ running' = running
      BY <2>3 DEF Invoke, workerVars
    <3>2. \A i \in 1..Len(queue) : queue[i] # c
      BY <2>0, <3>1 DEF QueueFits
    <3>3. DOMAIN queue = 1..Len(queue)
      BY <2>0 DEF TypeOK
    <3>4. done' = done /\ c \notin done
      BY <2>0, <3>1 DEF TypeOK
    <3> QED BY <3>1, <3>2, <3>3, <3>4 DEF Promise!Make
  <2>4. ASSUME NEW c \in Calls, NEW how \in Outcomes, Settles(c, how) PROVE Promise!Answer
    <3>1. queue # <<>> /\ c = Head(queue) /\ queue' = Tail(queue) /\ pending' = {}
      BY <2>2, <2>4 DEF Settles, Settle
    <3>2. done' = done \cup {c}
      BY <2>0, <2>4 DEF TypeOK, Settles, Settle
    <3>3. work' = {}
      BY <2>1, <3>1
    <3> QED BY <3>1, <3>2, <3>3 DEF Promise!Answer
  <2>5. ASSUME NEW c \in Calls, BeginAwaiting(c) \/ BeginStarting(c) \/ ResumeInvoking(c)
        PROVE  UNCHANGED Promise!vars
    <3>1. UNCHANGED <<queue, running>> /\ stage[c] # "settled"
          /\ \E s \in {"awaiting", "invoked"} : stage' = [stage EXCEPT ![c] = s]
      BY <2>5 DEF BeginAwaiting, BeginStarting, ResumeInvoking, MayBegin, MayResume, workerVars
    <3>2. done' = done
      BY <2>0, <3>1 DEF TypeOK
    <3> QED BY <3>1, <3>2 DEF Promise!vars
  <2>6. ASSUME NEW w \in Workers, StartHook(w) PROVE Promise!Work
    <3>1. inbox[w] \in Seq(ToWorker) /\ inbox[w] # <<>> /\ Head(inbox[w]).type = "invoke"
      BY <2>0, <2>6 DEF TypeOK, StartHook
    <3>2. 1 \in 1..Len(inbox[w]) /\ Head(inbox[w]) = inbox[w][1]
      BY <3>1, TailFacts
    <3>3. w = started /\ Head(inbox[w]).call \in pending
      BY <2>0, <3>1, <3>2 DEF TokensFit
    <3>4. \A v \in Workers : running[v] = None
      BY <2>0, <3>1, <3>2, <3>3 DEF TokensFit
    <3>5. queue # <<>> /\ Head(inbox[w]).call = Head(queue) /\ Head(queue) # None
      BY <2>0, <3>3, OnePending, SessionAssumptions
    <3>6. \A v \in Workers : running'[v] = IF v = w THEN Head(queue) ELSE None
      BY <2>0, <2>6, <3>4, <3>5 DEF TypeOK, StartHook
    <3>7. work = {} /\ work' = {Head(queue)}
      BY <3>4, <3>5, <3>6
    <3>8. UNCHANGED <<queue, stage>>
      BY <2>6 DEF StartHook, hostVars
    <3> QED BY <3>5, <3>7, <3>8 DEF Promise!Work
  <2>7. ASSUME \/ Quiets \/ HandleReady \/ \E c \in Calls : HandleHostCall(c) \/ HandlerEnds(c)
               \/ \E w \in Workers : Boot(w) \/ CallHost(w) \/ HostAnswered(w)
        PROVE  UNCHANGED Promise!vars
    <3>1. UNCHANGED <<queue, stage, running>>
      BY <2>7 DEF Quiets, HandleReady, HandleHostCall, HandlerEnds, hostVars, Boot, CallHost, HostAnswered
    <3> QED BY <3>1 DEF Promise!vars
  <2>8. ASSUME NEW w \in Workers, FinishHook(w) \/ Die(w) PROVE Promise!Rest
    <3>1. UNCHANGED <<queue, stage>> /\ running' = [running EXCEPT ![w] = None]
      BY <2>8 DEF FinishHook, Die, hostVars
    <3>2. w = started
      BY <2>0, <2>8 DEF IInv, FinishHook, Die, Live, WorkersFit, Workers, TokensFit
    <3>3. \A v \in Workers : running'[v] = None
      BY <2>0, <3>1, <3>2 DEF TypeOK, TokensFit
    <3>4. work' = {}
      BY <3>3
    <3> QED BY <3>1, <3>4 DEF Promise!Rest
  <2>9. ASSUME NEW how \in Failures, Resets(how), Untouched PROVE Promise!Rest
    <3>1. work' = {}
      BY <2>0, <2>1, <2>9 DEF Resets, ResetWorker, RejectAll, Answered
    <3> QED BY <2>9, <3>1 DEF Promise!Rest, Untouched
  <2>10. ASSUME Untouched,
                (\E c \in Calls, how \in Failures : Refuses(c, how)) \/ \E c \in Calls : HandleAnswer(c)
         PROVE  FALSE
    <3>1. queue \in Seq(Calls) /\ queue # <<>> /\ queue' = Tail(queue)
      BY <2>0, <2>10, OnePending DEF TypeOK, QueueFits, Refuses, MayBegin, MayResume, HandleAnswer, Settle
    <3>2. Len(queue') # Len(queue)
      BY <3>1, TailFacts
    <3> QED BY <2>10, <3>2 DEF Untouched
  <2> HIDE DEF done, work
  <2>11. CASE Untouched
    BY <2>0, <2>3, <2>5, <2>6, <2>7, <2>8, <2>9, <2>10, <2>11, Classified DEF Promise!Next
  <2> QED BY <2>3, <2>4, <2>5, <2>11, ChainKinds DEF Promise!Next
<1> QED BY <1>1, <1>2, SessionInductive, PTL DEF Spec, ImplementsSerialCalls, Promise!Spec

-----------------------------------------------------------------------------
(* A call that is not settled waits for something the host or the worker   *)
(* is about to do.  EveryCallSettles itself is left to TLC; what is proved *)
(* here is that, with any number of calls and of workers, no state is      *)
(* reached in which a call is not settled and none of the actions whose    *)
(* fairness is assumed has its guard true.                                 *)

\* Messages that settle the promise of readiness.
Settlings == {"ready", "exited", "broken"}

\* A worker is started for a call only, and for each call once.
WaitsFit ==
  /\ \A c \in Calls : stage[c] \in {"idle", "queued"} => waits[c] = 0
  /\ started <= Cardinality({c \in Calls : waits[c] # 0}) + 1

\* What arrives from a worker names a call where it has to, and an answer of
\* the current worker is the one answer of a request that is still pending.
NewsNamed ==
  \A w \in Workers : \A i \in 1..Len(outbox[w]) :
    IF outbox[w][i].type \in Settlings THEN outbox[w][i].call = None ELSE outbox[w][i].call \in Calls
NewsFit ==
  \A i \in 1..Len(outbox[started]) : outbox[started][i].type \in Answers =>
    /\ outbox[started][i].call \in pending
    /\ \A j \in 1..Len(outbox[started]) : outbox[started][j].type \in Answers => i = j

\* A promise of readiness that nobody will settle is one that was dropped.
StartFits ==
  ready[started] = "pending" =>
    \/ started \in dropped \/ life[started] = "starting"
    \/ \E i \in 1..Len(outbox[started]) : outbox[started][i].type \in Settlings

DueInv == WaitsFit /\ NewsNamed /\ NewsFit /\ StartFits

\* The guards of the fair actions: of Serve, of TimeOut, of Handle.
ServeDue(c) ==
  \/ /\ MayBegin(c)
     /\ session = "disposed" \/ c \in signalled \/ state # "terminated" \/ started < MaxWorkers
  \/ MayResume(c)
TimerDue(c) == Quiet /\ c \in pending
HandledAs(m) ==
  \/ m = Message("ready", None)
  \/ \E c \in Calls : m = Message("host-call", c) \/ \E how \in Answers : m = Message(how, c) /\ c \in pending
  \/ \E how \in {"exited", "broken"} : m = Message(how, None)
MessageDue == Quiet /\ outbox[started] # <<>> /\ HandledAs(Head(outbox[started]))
SomethingDue ==
  \/ MayOpen
  \/ \E c \in Calls : ServeDue(c) \/ TimerDue(c)
  \/ MessageDue
  \/ life[started] = "starting"

LEMMA WaitsStep ==
  ASSUME IInv, [Next]_vars, WaitsFit
  PROVE  WaitsFit'
<1>0. TypeOK /\ CallsFit
  BY DEF IInv
<1>1. CASE Untouched
  BY <1>1 DEF WaitsFit, Untouched
<1>2. ASSUME NEW c \in Calls, Invoke(c) \/ ResumeInvoking(c) PROVE WaitsFit'
  <2>1. UNCHANGED <<waits, started>>
    BY <1>2 DEF Invoke, ResumeInvoking
  <2>2. \A d \in Calls : stage'[d] \in {"idle", "queued"} => stage[d] \in {"idle", "queued"}
    BY <1>0, <1>2 DEF TypeOK, Invoke, ResumeInvoking
  <2> QED BY <2>1, <2>2 DEF WaitsFit
<1>3. ASSUME NEW c \in Calls, NEW how \in Outcomes, Settles(c, how) PROVE WaitsFit'
  <2>1. \A d \in Calls : stage'[d] \in {"idle", "queued"} => stage[d] \in {"idle", "queued"}
    BY <1>0, <1>3 DEF TypeOK, Settles, Settle
  <2> QED BY <1>3, <2>1 DEF WaitsFit, Settles
<1>4. ASSUME NEW c \in Calls, BeginAwaiting(c) \/ BeginStarting(c) PROVE WaitsFit'
  <2> DEFINE Given == {d \in Calls : waits[d] # 0}
  <2>1. started \in Nat \ {0} /\ started' \in {started, started + 1}
    BY <1>0, <1>4 DEF TypeOK, Workers, BeginAwaiting, BeginStarting
  <2>2. waits[c] = 0 /\ waits' = [waits EXCEPT ![c] = started'] /\ stage' = [stage EXCEPT ![c] = "awaiting"]
    BY <1>4 DEF WaitsFit, BeginAwaiting, BeginStarting, MayBegin
  <2>3. {d \in Calls : waits'[d] # 0} = Given \cup {c}
    BY <1>0, <2>1, <2>2 DEF TypeOK
  <2>4. IsFiniteSet(Given) /\ c \notin Given
    <3>1. Given \subseteq Calls
      OBVIOUS
    <3> QED BY <2>2, <3>1, FS_Subset, SessionAssumptions
  <2>5. Cardinality(Given \cup {c}) = Cardinality(Given) + 1 /\ Cardinality(Given) \in Nat
    BY <2>4, FS_AddElement, FS_CardinalityType
  <2>6. \A d \in Calls : stage'[d] \in {"idle", "queued"} => stage[d] \in {"idle", "queued"} /\ d # c
    BY <1>0, <2>2 DEF TypeOK
  <2>7. \A d \in Calls : stage'[d] \in {"idle", "queued"} => waits'[d] = 0
    BY <1>0, <2>2, <2>6 DEF TypeOK, WaitsFit
  <2>8. started <= Cardinality(Given) + 1
    BY DEF WaitsFit
  <2>9. started' <= Cardinality(Given \cup {c}) + 1
    <3> HIDE DEF Given
    <3> QED BY <2>1, <2>5, <2>8
  <2> QED BY <2>3, <2>7, <2>9 DEF WaitsFit
<1> QED BY <1>1, <1>2, <1>3, <1>4, ChainKinds

\* There is a worker left for the call whose turn it is.
LEMMA WorkerLeft ==
  ASSUME TypeOK, WaitsFit, NEW c \in Calls, stage[c] = "queued"
  PROVE  started < MaxWorkers
<1> DEFINE Given == {d \in Calls : waits[d] # 0}
<1>1. Given \subseteq Calls /\ c \notin Given
  BY DEF WaitsFit
<1>2. Cardinality(Given) <= Cardinality(Calls) - 1 /\ Cardinality(Given) \in Nat /\ Cardinality(Calls) \in Nat
  <2>1. Given \subseteq Calls \ {c} /\ IsFiniteSet(Calls \ {c})
    BY <1>1, FS_RemoveElement, SessionAssumptions
  <2>2. Cardinality(Calls \ {c}) = Cardinality(Calls) - 1
    BY FS_RemoveElement, SessionAssumptions
  <2>3. Cardinality(Given) <= Cardinality(Calls \ {c}) /\ IsFiniteSet(Given)
    BY <2>1, FS_Subset
  <2> QED BY <2>2, <2>3, FS_CardinalityType, SessionAssumptions
<1>3. started \in Nat /\ started <= Cardinality(Given) + 1
  BY DEF TypeOK, Workers, WaitsFit
<1> HIDE DEF Given
<1> QED BY <1>2, <1>3, SessionAssumptions

\* Steps that leave or take what a worker has sent, and steps that post.
LEMMA NewsKinds ==
  ASSUME IInv, [Next]_vars
  PROVE  \/ UNCHANGED <<outbox, started, pending>>
         \/ outbox' = outbox /\ started' = started /\ pending = {}
         \/ \E c \in Calls : BeginStarting(c)
         \/ \E how \in Failures : Resets(how)
         \/ HandleReady \/ \E c \in Calls : HandleAnswer(c) \/ HandleHostCall(c)
         \/ \E w \in Workers : Boot(w) \/ CallHost(w) \/ FinishHook(w) \/ Die(w)
<1>0. TypeOK /\ QueueFits /\ CallsFit /\ StateFits /\ MessagesFit
  BY DEF IInv
<1>1. ASSUME \/ Quiets
             \/ \E c \in Calls : Invoke(c) \/ BeginAwaiting(c) \/ HandlerEnds(c)
             \/ \E c \in Calls, how \in Failures : Refuses(c, how)
             \/ \E w \in Workers : StartHook(w) \/ HostAnswered(w)
      PROVE  UNCHANGED <<outbox, started, pending>>
  BY <1>1 DEF Quiets, Invoke, BeginAwaiting, HandlerEnds, Refuses, StartHook, HostAnswered, hostVars, workerVars
<1>2. ASSUME NEW c \in Calls, ResumeInvoking(c)
      PROVE  outbox' = outbox /\ started' = started /\ pending = {}
  <2>1. stage[c] = "awaiting" /\ ready[started] = "resolved"
    BY <1>0, <1>2 DEF ResumeInvoking, MayResume, CallsFit
  <2>2. pending = {}
    BY <1>0, <2>1 DEF StateFits
  <2> QED BY <1>2, <2>2 DEF ResumeInvoking
<1> QED BY <1>0, <1>1, <1>2, Classified

\* What a post leaves of a property of every message of a worker.
LEMMA NamedStep ==
  ASSUME IInv, [Next]_vars, NewsNamed
  PROVE  NewsNamed'
<1> DEFINE Named(m) == IF m.type \in Settlings THEN m.call = None ELSE m.call \in Calls
<1>0. TypeOK /\ QueueFits /\ CallsFit /\ StateFits /\ WorkersFit /\ TokensFit /\ started \in Workers
  BY DEF IInv, TypeOK
<1>1. \A w \in Workers : \A i \in 1..Len(outbox[w]) : Named(outbox[w][i])
  BY DEF NewsNamed
<1>2. SUFFICES ASSUME NEW w \in Workers, NEW i \in 1..Len(outbox'[w]) PROVE Named(outbox'[w][i])
  BY DEF NewsNamed
<1> DEFINE Goal == Named(outbox'[w][i])
<1>3. ASSUME NEW v \in Workers, NEW type \in {"ready", "host-call", "result", "threw", "exited", "broken"},
             NEW c \in Calls \cup {None}, Post(v, type, c), Named(Message(type, c))
      PROVE  Goal
  <2>1. Message(type, c) \in ToHost
    BY MessagesTyped
  <2>2. \/ w # v /\ outbox'[w] = outbox[w]
        \/ w = v /\ outbox'[w][i] = Message(type, c)
        \/ w = v /\ i \in 1..Len(outbox[w]) /\ outbox'[w][i] = outbox[w][i]
    BY <1>0, <1>2, <1>3, <2>1, PostFacts
  <2> HIDE DEF Named
  <2> QED BY <1>1, <1>2, <1>3, <2>2
<1>4. ASSUME HandleReady \/ \E c \in Calls : HandleAnswer(c) \/ HandleHostCall(c) PROVE Goal
  <2>1. \E type, c : Arrives(type, c)
    BY <1>4 DEF HandleReady, HandleAnswer, HandleHostCall
  <2>2. Taken
    BY <1>4 DEF HandleReady, HandleAnswer, HandleHostCall
  <2>3. \/ w # started /\ outbox'[w] = outbox[w]
        \/ i + 1 \in 1..Len(outbox[w]) /\ outbox'[w][i] = outbox[w][i + 1]
    BY <1>0, <1>2, <2>1, <2>2, TakenFacts
  <2> HIDE DEF Named
  <2> QED BY <1>1, <1>2, <2>3
<1>5. ASSUME NEW how \in Failures, Resets(how) PROVE Goal
  <2>1. outbox'[w] = outbox[w] \/ outbox'[w] = <<>>
    BY <1>0, <1>5, ResetFacts
  <2>2. outbox'[w] # <<>>
    BY <1>2
  <2> HIDE DEF Named
  <2> QED BY <1>1, <1>2, <2>1, <2>2
<1>6. ASSUME outbox' = outbox PROVE Goal
  BY <1>1, <1>2, <1>6
<1>7. ASSUME NEW v \in Workers, Boot(v) \/ Die(v) PROVE Goal
  <2>1. \E type \in Settlings : Post(v, type, None)
    BY <1>7 DEF Boot, Die, Settlings
  <2>2. \A type \in Settlings : Named(Message(type, None))
    BY DEF Message, Settlings
  <2> HIDE DEF Named
  <2> QED BY <1>3, <2>1, <2>2 DEF Settlings
<1>8. ASSUME NEW v \in Workers, CallHost(v) \/ FinishHook(v) PROVE Goal
  <2>1. running[v] \in Calls /\ \E type \in {"host-call", "result", "threw"} : Post(v, type, running[v])
    BY <1>0, <1>8 DEF TypeOK, CallHost, FinishHook
  <2>2. \A type \in {"host-call", "result", "threw"} : Named(Message(type, running[v]))
    BY <2>1 DEF Message, Settlings
  <2> HIDE DEF Named
  <2> QED BY <1>3, <2>1, <2>2
<1>9. ASSUME NEW c \in Calls, BeginStarting(c) PROVE Goal
  BY <1>6, <1>9 DEF BeginStarting
<1> HIDE DEF Goal, Named
<1> QED BY <1>4, <1>5, <1>6, <1>7, <1>8, <1>9, NewsKinds DEF Goal

\* HandleAnswer: an answer that has been taken leaves none behind.
LEMMA NewsStep ==
  ASSUME IInv, [Next]_vars, NewsFit
  PROVE  NewsFit'
<1> DEFINE AnswerAt(i) == outbox[started][i].type \in Answers
           AnswerNext(i) == outbox'[started'][i].type \in Answers
<1>0. /\ TypeOK /\ QueueFits /\ CallsFit /\ StateFits /\ WorkersFit /\ TokensFit /\ started \in Workers
      /\ outbox[started] \in Seq(ToHost) /\ Len(outbox[started]) \in Nat
  BY DEF IInv, TypeOK
<1>a. ASSUME \A i \in 1..Len(outbox'[started']) : ~AnswerNext(i) PROVE NewsFit'
  BY <1>a DEF NewsFit
<1>1. CASE UNCHANGED <<outbox, started, pending>>
  BY <1>1 DEF NewsFit
<1>2. CASE outbox' = outbox /\ started' = started /\ pending = {}
  <2>1. \A i \in 1..Len(outbox[started]) : ~AnswerAt(i)
    BY <1>2 DEF NewsFit
  <2> QED BY <1>2, <1>a, <2>1
<1>3. ASSUME NEW c \in Calls, BeginStarting(c) PROVE NewsFit'
  <2>1. started + 1 \in Workers /\ started + 1 > started
    BY <1>0, <1>3, SessionAssumptions DEF BeginStarting, Workers
  <2>2. outbox'[started'] = <<>>
    BY <1>0, <1>3, <2>1 DEF WorkersFit, BeginStarting
  <2> QED BY <1>a, <2>2
<1>4. ASSUME NEW how \in Failures, Resets(how) PROVE NewsFit'
  <2>1. outbox'[started] = <<>>
    <3>1. state = "terminated" => outbox[started] = <<>>
      BY <1>0 DEF StateFits
    <3> QED BY <1>0, <1>4, <3>1, ResetFacts
  <2>2. started' = started
    BY <1>4 DEF Resets
  <2> QED BY <1>a, <2>1, <2>2
<1>5. ASSUME NEW c \in Calls, HandleAnswer(c) PROVE NewsFit'
  <2>1. PICK how \in {"result", "threw"} : Arrives(how, c)
    BY <1>5 DEF HandleAnswer
  <2>2. Taken /\ started' = started
    BY <1>5 DEF HandleAnswer
  <2>3. /\ 1 \in 1..Len(outbox[started]) /\ outbox[started][1] = Message(how, c)
        /\ \A i \in 1..Len(outbox'[started]) :
              i + 1 \in 1..Len(outbox[started]) /\ i + 1 # 1 /\ outbox'[started][i] = outbox[started][i + 1]
    BY <1>0, <2>1, <2>2, TakenFacts
  <2>4. AnswerAt(1)
    BY <2>1, <2>3 DEF Answers, Message
  <2>5. \A j \in 1..Len(outbox[started]) : j # 1 => ~AnswerAt(j)
    BY <2>3, <2>4 DEF NewsFit
  <2> QED BY <1>a, <2>2, <2>3, <2>5
<1>6. ASSUME HandleReady \/ \E c \in Calls : HandleHostCall(c) PROVE NewsFit'
  <2>1. \E type, c : Arrives(type, c)
    BY <1>6 DEF HandleReady, HandleHostCall
  <2>2. Taken /\ started' = started /\ pending' = pending
    BY <1>6 DEF HandleReady, HandleHostCall
  <2>3. \A i \in 1..Len(outbox'[started]) :
          i + 1 \in 1..Len(outbox[started]) /\ outbox'[started][i] = outbox[started][i + 1]
    BY <1>0, <2>1, <2>2, TakenFacts
  <2>4. \A i, j \in 1..Len(outbox'[started]) : i + 1 = j + 1 => i = j
    OBVIOUS
  <2> QED BY <2>2, <2>3, <2>4 DEF NewsFit
<1>7. ASSUME NEW w \in Workers, Boot(w) \/ CallHost(w) \/ Die(w) PROVE NewsFit'
  <2>1. PICK type \in {"ready", "host-call", "exited", "broken"}, c \in Calls \cup {None} : Post(w, type, c)
    BY <1>0, <1>7 DEF TypeOK, Boot, CallHost, Die
  <2>2. Message(type, c) \in ToHost /\ Message(type, c).type \notin Answers
    BY MessagesTyped DEF Answers
  <2>3. UNCHANGED <<started, pending>>
    BY <1>7 DEF Boot, CallHost, Die, hostVars
  <2>4. \A i \in 1..Len(outbox'[started]) :
          \/ i \in 1..Len(outbox[started]) /\ outbox'[started][i] = outbox[started][i]
          \/ outbox'[started][i].type \notin Answers
    BY <1>0, <2>1, <2>2, PostFacts
  <2> QED BY <2>3, <2>4 DEF NewsFit
<1>8. ASSUME NEW w \in Workers, FinishHook(w) PROVE NewsFit'
  <2>1. running[w] # None /\ w = started /\ running[w] \in pending /\ ~Answering(w, running[w])
    BY <1>0, <1>8 DEF FinishHook, TokensFit
  <2>2. pending = {running[w]}
    BY <1>0, <2>1, OnePending
  <2>3. \A i \in 1..Len(outbox[started]) : ~AnswerAt(i)
    BY <2>1, <2>2 DEF NewsFit, Answering
  <2>4. PICK how \in {"result", "threw"} : Post(w, how, running[w])
    BY <1>8 DEF FinishHook
  <2>5. running[w] \in Calls /\ Message(how, running[w]) \in ToHost /\ Message(how, running[w]).call = running[w]
    BY <1>0, <2>1, MessagesTyped DEF TypeOK
  <2>6. \A i \in 1..Len(outbox'[started]) :
          \/ i = Len(outbox[started]) + 1 /\ outbox'[started][i] = Message(how, running[w])
          \/ i \in 1..Len(outbox[started]) /\ outbox'[started][i] = outbox[started][i]
    BY <1>0, <2>1, <2>4, <2>5, PostFacts
  <2>7. UNCHANGED <<started, pending>>
    BY <1>8 DEF FinishHook, hostVars
  <2> QED BY <2>1, <2>3, <2>5, <2>6, <2>7 DEF NewsFit
<1> QED BY <1>1, <1>2, <1>3, <1>4, <1>5, <1>6, <1>7, <1>8, NewsKinds

\* What a worker has said about its start is there until it is handled.
LEMMA StartStep ==
  ASSUME IInv, [Next]_vars, StartFits
  PROVE  StartFits'
<1> DEFINE Tells(i) == outbox[started][i].type \in Settlings
           TellsNext(i) == outbox'[started][i].type \in Settlings
<1>0. /\ TypeOK /\ QueueFits /\ CallsFit /\ StateFits /\ WorkersFit /\ MessagesFit /\ started \in Workers
      /\ outbox[started] \in Seq(ToHost) /\ Len(outbox[started]) \in Nat
  BY DEF IInv, TypeOK
<1>1. ASSUME \/ Quiets
             \/ \E c \in Calls : Invoke(c) \/ BeginAwaiting(c) \/ ResumeInvoking(c) \/ HandlerEnds(c)
             \/ \E c \in Calls, how \in Failures : Refuses(c, how)
             \/ \E w \in Workers : StartHook(w) \/ HostAnswered(w)
      PROVE  StartFits'
  <2>1. UNCHANGED <<outbox, started, ready, dropped, life>>
    BY <1>1 DEF Quiets, Invoke, BeginAwaiting, ResumeInvoking, HandlerEnds, Refuses, StartHook, HostAnswered,
                hostVars, workerVars
  <2> QED BY <2>1 DEF StartFits
<1>2. ASSUME NEW c \in Calls, BeginStarting(c) PROVE StartFits'
  <2>1. started + 1 \in Workers
    BY <1>0, <1>2, SessionAssumptions DEF BeginStarting, Workers
  <2>2. life'[started'] = "starting"
    BY <1>0, <1>2, <2>1 DEF TypeOK, BeginStarting
  <2> QED BY <2>2 DEF StartFits
<1>3. ASSUME NEW how \in Failures, Resets(how), ready'[started] = "pending" PROVE started \in dropped'
  <2>1. ready[started] = "pending" /\ how # "pending"
    BY <1>0, <1>3, ResetFacts DEF Resets, TypeOK, Failures
  <2>2. pending = {}
    BY <1>0, <2>1 DEF StateFits
  <2>3. state \in {"initializing", "terminated"}
    BY <1>0, <2>1 DEF TypeOK, StateFits
  <2>4. CASE state = "initializing"
    BY <1>3, <2>1, <2>2, <2>4 DEF Resets, Failures
  <2>5. CASE state = "terminated"
    <3>1. outbox[started] = <<>> /\ life[started] # "starting"
      BY <1>0, <2>5 DEF StateFits, Live
    <3>2. \A i \in 1..Len(outbox[started]) : FALSE
      BY <3>1
    <3>3. started \in dropped
      BY <2>1, <3>1, <3>2 DEF StartFits
    <3> QED BY <1>3, <3>3 DEF Resets
  <2> QED BY <2>3, <2>4, <2>5
<1>4. ASSUME NEW how \in Failures, Resets(how) PROVE StartFits'
  BY <1>3, <1>4 DEF StartFits, Resets
<1>5. CASE HandleReady
  BY <1>0, <1>5 DEF StartFits, HandleReady, TypeOK
<1>6. ASSUME NEW c \in Calls, HandleAnswer(c) \/ HandleHostCall(c) PROVE StartFits'
  <2>1. PICK type \in {"result", "threw", "host-call"} : Arrives(type, c)
    BY <1>6 DEF HandleAnswer, HandleHostCall
  <2>2. Taken /\ UNCHANGED <<started, ready, dropped, life>>
    BY <1>6 DEF HandleAnswer, HandleHostCall
  <2>3. outbox[started] # <<>> /\ outbox[started][1] = Message(type, c) /\ outbox'[started] = Tail(outbox[started])
    BY <1>0, <2>1, <2>2, TakenFacts DEF TypeOK, Taken
  <2>4. ~Tells(1)
    BY <2>3 DEF Settlings, Message
  <2>5. \A i \in 1..Len(outbox[started]) :
          i = 1 \/ (i - 1 \in 1..Len(outbox'[started]) /\ outbox[started][i] = outbox'[started][i - 1])
    BY <1>0, <2>3, TailFacts
  <2>6. ASSUME NEW i \in 1..Len(outbox[started]), Tells(i)
        PROVE  \E j \in 1..Len(outbox'[started]) : TellsNext(j)
    BY <2>4, <2>5, <2>6
  <2> QED BY <2>2, <2>6 DEF StartFits
<1>7. ASSUME NEW w \in Workers, Boot(w) \/ CallHost(w) \/ FinishHook(w) \/ Die(w) PROVE StartFits'
  <2>1. PICK type \in {"ready", "host-call", "result", "threw", "exited", "broken"}, c \in Calls \cup {None} :
          Post(w, type, c) /\ (life'[w] # life[w] => type \in Settlings)
    BY <1>0, <1>7 DEF TypeOK, Boot, CallHost, FinishHook, Die, Settlings
  <2>2. /\ UNCHANGED <<started, ready, dropped>>
        /\ \A v \in Workers : v # w => life'[v] = life[v] /\ outbox'[v] = outbox[v]
    BY <1>0, <1>7 DEF Boot, CallHost, FinishHook, Die, hostVars, Post, TypeOK
  <2>3. CASE w # started
    BY <1>0, <2>2, <2>3 DEF StartFits
  <2>4. CASE w = started
    <3>1. Message(type, c) \in ToHost /\ Message(type, c).type = type
          /\ outbox'[started] = Append(outbox[started], Message(type, c))
      BY <1>0, <2>1, <2>4, MessagesTyped DEF Post, TypeOK
    <3>2. /\ \A i \in 1..Len(outbox[started]) : i \in 1..Len(outbox'[started]) /\ outbox'[started][i] = outbox[started][i]
          /\ Len(outbox[started]) + 1 \in 1..Len(outbox'[started])
          /\ outbox'[started][Len(outbox[started]) + 1] = Message(type, c)
      BY <1>0, <3>1, AppendFacts
    <3>3. CASE life'[started] # life[started]
      <4>1. TellsNext(Len(outbox[started]) + 1)
        BY <2>1, <2>4, <3>1, <3>2, <3>3
      <4> QED BY <2>2, <3>2, <4>1 DEF StartFits
    <3>4. CASE life'[started] = life[started]
      <4>1. \A i \in 1..Len(outbox[started]) : Tells(i) => i \in 1..Len(outbox'[started]) /\ TellsNext(i)
        BY <3>2
      <4> QED BY <2>2, <3>4, <4>1 DEF StartFits
    <3> QED BY <3>3, <3>4
  <2> QED BY <2>3, <2>4
<1> QED BY <1>0, <1>1, <1>2, <1>4, <1>5, <1>6, <1>7, Classified

\* Waits, messages and starts of workers fit the calls they belong to, at every moment.
THEOREM SessionDueInductive == Spec => []DueInv
<1>1. Init => DueInv
  <2> SUFFICES ASSUME Init PROVE DueInv
    OBVIOUS
  <2>1. started = 1 /\ 1 \in Workers /\ life[1] = "starting" /\ Workers \subseteq Nat
    <3>1. 1 \in Workers /\ Workers \subseteq Nat
      BY SessionAssumptions, FS_CardinalityType DEF Workers
    <3> QED BY <3>1 DEF Init
  <2>2. {c \in Calls : waits[c] # 0} = {} /\ Cardinality({}) = 0
    BY FS_EmptySet DEF Init
  <2>3. \A w \in Workers : \A i \in 1..Len(outbox[w]) : FALSE
    BY DEF Init
  <2>4. WaitsFit
    <3>1. Cardinality({c \in Calls : waits[c] # 0}) = 0
      BY <2>2
    <3>2. \A c \in Calls : waits[c] = 0
      BY DEF Init
    <3> QED BY <2>1, <3>1, <3>2 DEF WaitsFit
  <2>5. NewsNamed /\ NewsFit
    BY <2>1, <2>3 DEF NewsNamed, NewsFit
  <2>6. StartFits
    BY <2>1 DEF StartFits
  <2> QED BY <2>4, <2>5, <2>6 DEF DueInv
<1>2. IInv /\ DueInv /\ [Next]_vars => DueInv'
  BY WaitsStep, NamedStep, NewsStep, StartStep DEF DueInv
<1> QED BY <1>1, <1>2, SessionInductive, PTL DEF Spec

\* ScriptWorker.handleMessage: whatever has arrived from the current worker is
\* of a kind the host takes: no answer comes for a request that is not pending,
\* and none of the guards above stops the messages behind it.
THEOREM SessionMailIsTaken == Spec => [](Quiet /\ outbox[started] # <<>> => MessageDue)
<1>1. IInv /\ DueInv /\ Quiet /\ outbox[started] # <<>> => MessageDue
  <2> SUFFICES ASSUME IInv, DueInv, Quiet, outbox[started] # <<>> PROVE HandledAs(Head(outbox[started]))
    BY DEF MessageDue
  <2>1. started \in Workers /\ outbox[started] \in Seq(ToHost)
    BY DEF IInv, TypeOK
  <2> DEFINE m == Head(outbox[started])
  <2>2. m \in ToHost /\ 1 \in 1..Len(outbox[started]) /\ m = outbox[started][1]
    BY <2>1, TailFacts
  <2>3. m = Message(m.type, m.call) /\ m.type \in {"ready", "host-call", "result", "threw", "exited", "broken"}
    BY <2>2 DEF ToHost, Message
  <2>4. IF m.type \in Settlings THEN m.call = None ELSE m.call \in Calls
    BY <2>1, <2>2 DEF DueInv, NewsNamed
  <2>5. m.type \in Answers => m.call \in pending
    BY <2>2 DEF DueInv, NewsFit
  <2> HIDE DEF m
  <2> QED BY <2>3, <2>4, <2>5 DEF HandledAs, Settlings, Answers, m
<1> QED BY <1>1, SessionInductive, SessionDueInductive, PTL

\* TanxiumRuntimeSession.invokeHook: while a call is not settled, either it
\* waits behind a worker that was abandoned while it started, or a
\* continuation, a timer, a message or the start of a worker is due.  No
\* sequence of failures, aborts and disposals leaves a call with nothing to
\* wait for; fairness is needed only to make what is due happen.
THEOREM SessionSomethingIsDue ==
  Spec => []((\E c \in Calls : stage[c] \in {"queued", "awaiting", "invoked"}) => Stranded \/ SomethingDue)
<1>1. ASSUME IInv, DueInv, Quiet /\ outbox[started] # <<>> => MessageDue,
             NEW d \in Calls, stage[d] \in {"queued", "awaiting", "invoked"}
      PROVE  Stranded \/ SomethingDue
  <2>0. TypeOK /\ QueueFits /\ CallsFit /\ started \in Workers
    BY <1>1 DEF IInv, TypeOK
  <2>1. PICK i \in 1..Len(queue) : queue[i] = d
    BY <1>1, <2>0 DEF QueueFits
  <2>2. queue \in Seq(Calls) /\ queue # <<>> /\ 1 \in 1..Len(queue)
    <3>1. queue \in Seq(Calls) /\ Len(queue) \in Nat
      BY <2>0 DEF TypeOK
    <3> QED BY <2>1, <3>1
  <2> DEFINE c == Head(queue)
  <2>3. c \in Calls /\ c = queue[1] /\ stage[c] \in {"queued", "awaiting", "invoked"}
    BY <2>0, <2>2, TailFacts DEF QueueFits
  <2>4. CASE stage[c] = "queued"
    <3>1. started < MaxWorkers
      BY <1>1, <2>0, <2>3, <2>4, WorkerLeft DEF DueInv
    <3>2. ServeDue(c)
      BY <2>2, <2>4, <3>1 DEF ServeDue, MayBegin
    <3> QED BY <2>3, <3>2 DEF SomethingDue
  <2>5. CASE stage[c] = "invoked"
    <3>1. CASE Quiet
      BY <2>0, <2>3, <2>5, <3>1 DEF CallsFit, TimerDue, SomethingDue
    <3>2. ASSUME ~Quiet PROVE SomethingDue
      <4>1. MayOpen \/ \E e \in Calls : MayBegin(e) \/ MayResume(e)
        BY <3>2 DEF Quiet
      <4>2. \A e \in Calls : ~MayBegin(e)
        BY <2>3, <2>5 DEF MayBegin
      <4> QED BY <4>1, <4>2 DEF SomethingDue, ServeDue
    <3> QED BY <3>1, <3>2
  <2>6. CASE stage[c] = "awaiting"
    <3>1. waits[c] = started
      BY <2>0, <2>3, <2>6 DEF CallsFit
    <3>2. CASE ready[started] # "pending"
      BY <2>3, <2>6, <3>1, <3>2 DEF SomethingDue, ServeDue, MayResume
    <3>3. CASE started \in dropped
      BY <2>3, <2>6, <3>1, <3>3 DEF Stranded
    <3>4. CASE life[started] = "starting"
      BY <3>4 DEF SomethingDue
    <3>5. ASSUME NEW j \in 1..Len(outbox[started]) PROVE SomethingDue
      <4>1. outbox[started] # <<>>
        BY <3>5
      <4>2. CASE Quiet
        BY <1>1, <4>1, <4>2 DEF SomethingDue
      <4>3. ASSUME ~Quiet PROVE SomethingDue
        <5>1. MayOpen \/ \E e \in Calls : MayBegin(e) \/ MayResume(e)
          BY <4>3 DEF Quiet
        <5>2. \A e \in Calls : ~MayBegin(e)
          BY <2>3, <2>6 DEF MayBegin
        <5> QED BY <5>1, <5>2 DEF SomethingDue, ServeDue
      <4> QED BY <4>2, <4>3
    <3> QED BY <1>1, <3>2, <3>3, <3>4, <3>5 DEF DueInv, StartFits
  <2> QED BY <2>3, <2>4, <2>5, <2>6
<1>2. IInv /\ DueInv /\ (Quiet /\ outbox[started] # <<>> => MessageDue)
      => ((\E c \in Calls : stage[c] \in {"queued", "awaiting", "invoked"}) => Stranded \/ SomethingDue)
  BY <1>1
<1> QED BY <1>2, SessionInductive, SessionDueInductive, SessionMailIsTaken, PTL

=============================================================================
