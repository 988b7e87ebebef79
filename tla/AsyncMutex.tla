----------------------------- MODULE AsyncMutex -----------------------------
(***************************************************************************)
(* The asynchronous mutex of packages/tanxium/src/common/mutex.ts.         *)
(*                                                                         *)
(* acquire() either takes the lock or queues the resolver of the promise   *)
(* its caller awaits.  release() resolves the oldest queued promise        *)
(* WITHOUT clearing `locked`: the lock is handed over, and between the     *)
(* hand-over and the moment the new owner's continuation runs no caller    *)
(* can take it.  A caller is therefore "granted" (its promise is resolved) *)
(* before it is "inside" (its function has started).  runExclusive         *)
(* releases in a finally block, so a function that throws leaves the same  *)
(* way as one that returns.                                                *)
(***************************************************************************)
EXTENDS Integers, Sequences

CONSTANT Callers       \* the concurrent calls of runExclusive

VARIABLES locked,      \* the field `locked`
          queue,       \* the field `queue`: callers in arrival order
          stage        \* where each caller is in runExclusive

vars == <<locked, queue, stage>>

Stages == {"outside", "queued", "granted", "inside"}

TypeOK == /\ locked \in BOOLEAN
          /\ queue \in Seq(Callers)
          /\ stage \in [Callers -> Stages]

Init == /\ locked = FALSE
        /\ queue = << >>
        /\ stage = [c \in Callers |-> "outside"]

-----------------------------------------------------------------------------
(* Faulty variants of the operations below.  No behaviour of AsyncMutex uses *)
(* them; each shows that a property notices the mistake it makes.            *)

\* acquire() forgets to set `locked` on its fast path.
AcquireWithoutLocking(c) ==
  /\ stage[c] = "outside" /\ ~locked
  /\ stage' = [stage EXCEPT ![c] = "granted"]
  /\ UNCHANGED <<locked, queue>>

\* release() pops the newest waiter instead of shifting the oldest.
ReleaseNewestFirst(c) ==
  /\ stage[c] = "inside" /\ queue # << >>
  /\ stage' = [stage EXCEPT ![c] = "outside", ![queue[Len(queue)]] = "granted"]
  /\ queue' = SubSeq(queue, 1, Len(queue) - 1)
  /\ UNCHANGED locked

-----------------------------------------------------------------------------
\* acquire(): take a free lock, or wait behind the callers already queued.
Acquire(c) ==
  /\ stage[c] = "outside"
  /\ \/ /\ ~locked
        /\ locked' = TRUE
        /\ stage' = [stage EXCEPT ![c] = "granted"]
        /\ UNCHANGED queue
     \/ /\ locked
        /\ queue' = Append(queue, c)
        /\ stage' = [stage EXCEPT ![c] = "queued"]
        /\ UNCHANGED locked

\* The continuation of `await this.acquire()`: the exclusive function starts.
Enter(c) ==
  /\ stage[c] = "granted"
  /\ stage' = [stage EXCEPT ![c] = "inside"]
  /\ UNCHANGED <<locked, queue>>

\* release(), from the finally block: hand over to the oldest waiter, or unlock.
Release(c) ==
  /\ stage[c] = "inside"
  /\ \/ /\ queue = << >>
        /\ locked' = FALSE
        /\ stage' = [stage EXCEPT ![c] = "outside"]
        /\ UNCHANGED queue
     \/ /\ queue # << >>
        /\ stage' = [stage EXCEPT ![c] = "outside", ![Head(queue)] = "granted"]
        /\ queue' = Tail(queue)
        /\ UNCHANGED locked

Next == \E c \in Callers : Acquire(c) \/ Enter(c) \/ Release(c)

\* A resolved promise's continuation runs, and the functions run under the lock
\* end: that is what the event loop and finite critical sections provide.
Fairness == \A c \in Callers : WF_vars(Enter(c)) /\ WF_vars(Release(c))

Spec == Init /\ [][Next]_vars
FairSpec == Spec /\ Fairness
-----------------------------------------------------------------------------
Owners == {c \in Callers : stage[c] \in {"granted", "inside"}}

\* Two functions run under the same key never overlap, not even while the lock
\* travels from a releasing caller to the waiter it was handed to.
MutualExclusion == \A c, d \in Owners : c = d

\* `locked` is set exactly while some caller owns the lock, and the queue holds
\* exactly the callers that wait, each once.  A lock that stays set without an
\* owner would block every later synchronization of the workspace for ever.
NoOrphanedLock ==
  /\ locked <=> Owners # {}
  /\ \A i \in 1..Len(queue) : stage[queue[i]] = "queued"
  /\ \A c \in Callers : stage[c] = "queued" => \E i \in 1..Len(queue) : queue[i] = c
  /\ \A i, j \in 1..Len(queue) : queue[i] = queue[j] => i = j

\* Waiters are served in the order they came: a caller that waits leaves the
\* queue only from its front, so nobody queued behind it goes first.
ServedInOrder ==
  [][\A c \in Callers :
       stage[c] = "queued" /\ stage'[c] = "granted"
         => \A d \in Callers : stage[d] = "queued" /\ d # c
              => \E i, j \in 1..Len(queue) : queue[i] = c /\ queue[j] = d /\ i < j]_vars

\* Every call of runExclusive that waits gets its turn.
EveryWaiterEnters == \A c \in Callers : stage[c] = "queued" ~> stage[c] = "inside"
=============================================================================
