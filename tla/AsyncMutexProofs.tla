-------------------------- MODULE AsyncMutexProofs --------------------------
(***************************************************************************)
(* Proofs about AsyncMutex, for every set of callers.                      *)
(*                                                                         *)
(* The inductive invariant is NoOrphanedLock (the queue holds exactly the  *)
(* waiting callers, and `locked` is set exactly while someone owns the     *)
(* lock) together with MutualExclusion: a release hands the lock to the    *)
(* head of the queue, so it is the queue's agreement with `stage` that     *)
(* makes the new owner a caller that was waiting, and the only owner.      *)
(* With it a hand-over takes the head of the queue, which is the waiter    *)
(* that came first, and is the abstract lock passing to a waiting caller.  *)
(***************************************************************************)
EXTENDS AsyncMutexRefinement, TLAPS

IInv == TypeOK /\ NoOrphanedLock /\ MutualExclusion

\* Types are kept by every step, whatever the callers do.
LEMMA TypeStep == TypeOK /\ [Next]_vars => TypeOK'
<1> SUFFICES ASSUME TypeOK, [Next]_vars
             PROVE  TypeOK'
  OBVIOUS
<1>1. ASSUME NEW c \in Callers, Acquire(c) PROVE TypeOK'
  <2>1. locked' \in BOOLEAN
    BY <1>1 DEF Acquire, TypeOK
  <2>2. queue' \in Seq(Callers)
    BY <1>1 DEF Acquire, TypeOK
  <2>3. stage' \in [Callers -> Stages]
    BY <1>1 DEF Acquire, TypeOK, Stages
  <2> QED BY <2>1, <2>2, <2>3 DEF TypeOK
<1>2. ASSUME NEW c \in Callers, Enter(c) PROVE TypeOK'
  BY <1>2 DEF TypeOK, Enter, Stages
<1>3. ASSUME NEW c \in Callers, Release(c) PROVE TypeOK'
  <2>1. locked' \in BOOLEAN
    BY <1>3 DEF Release, TypeOK
  <2>2. queue' \in Seq(Callers)
    BY <1>3 DEF Release, TypeOK
  <2>3. stage' \in [Callers -> Stages]
    BY <1>3 DEF Release, TypeOK, Stages
  <2> QED BY <2>1, <2>2, <2>3 DEF TypeOK
<1>4. CASE UNCHANGED vars
  BY <1>4 DEF TypeOK, vars
<1> QED BY <1>1, <1>2, <1>3, <1>4 DEF Next

\* The initial state is well typed.
LEMMA TypeInit == Init => TypeOK
<1> SUFFICES ASSUME Init PROVE TypeOK
  OBVIOUS
<1>1. locked \in BOOLEAN
  BY DEF Init
<1>2. queue \in Seq(Callers) /\ stage \in [Callers -> Stages]
  BY DEF Init, Stages
<1> QED BY <1>1, <1>2 DEF TypeOK

\* The fields and the stages of the callers keep their types.
THEOREM MutexTyped == Spec => []TypeOK
BY TypeInit, TypeStep, PTL DEF Spec

\* The invariant holds when nobody has asked for the lock.
LEMMA InvariantInit == Init => IInv
<1> SUFFICES ASSUME Init PROVE IInv
  OBVIOUS
<1>1. Owners = {} /\ \A c \in Callers : stage[c] # "queued"
  BY DEF Init, Owners
<1>2. Len(queue) = 0 /\ ~locked
  BY DEF Init
<1> QED BY TypeInit, <1>1, <1>2 DEF IInv, NoOrphanedLock, MutualExclusion

\* The invariant that makes the mutex correct is inductive.
LEMMA InvariantStep == IInv /\ [Next]_vars => IInv'
<1> SUFFICES ASSUME IInv, [Next]_vars
             PROVE  IInv'
  OBVIOUS
<1> USE DEF IInv
<1>0. TypeOK'
  BY TypeStep
<1>1. ASSUME NEW c \in Callers, Acquire(c) PROVE IInv'
  <2>1. CASE ~locked
    <3>1. /\ queue' = queue
          /\ stage' = [stage EXCEPT ![c] = "granted"]
          /\ stage[c] = "outside"
          /\ locked'
      BY <1>1, <2>1 DEF Acquire
    <3>2. Owners = {} /\ Owners' = {c}
      BY <2>1, <3>1 DEF Owners, TypeOK, NoOrphanedLock
    <3>3. \A i \in 1..Len(queue) : queue[i] # c
      BY <3>1 DEF NoOrphanedLock
    <3>4. \A d \in Callers : stage'[d] = "queued" <=> stage[d] = "queued"
      BY <3>1 DEF TypeOK
    <3>5. \A i \in 1..Len(queue) : queue[i] \in Callers
      BY DEF TypeOK
    <3> QED BY <1>0, <3>1, <3>2, <3>3, <3>4, <3>5 DEF NoOrphanedLock, MutualExclusion
  <2>2. CASE locked
    <3>1. /\ queue' = Append(queue, c)
          /\ stage' = [stage EXCEPT ![c] = "queued"]
          /\ locked' = locked
          /\ stage[c] = "outside"
      BY <1>1, <2>2 DEF Acquire
    <3>2. Owners' = Owners
      BY <3>1 DEF Owners, TypeOK
    <3>3. MutualExclusion'
      BY <3>2 DEF MutualExclusion
    <3>4. \A i \in 1..Len(queue) : queue[i] # c
      BY <3>1 DEF NoOrphanedLock
    <3>5. /\ Len(queue') = Len(queue) + 1
          /\ queue'[Len(queue) + 1] = c
          /\ \A i \in 1..Len(queue) : queue'[i] = queue[i]
      BY <3>1 DEF TypeOK
    <3>6. \A i \in 1..Len(queue') : i \in 1..Len(queue) \/ i = Len(queue) + 1
      BY <3>5 DEF TypeOK
    <3>7. \A i \in 1..Len(queue) : queue[i] \in Callers
      BY DEF TypeOK
    <3>8. (\A i \in 1..Len(queue) : stage[queue[i]] = "queued")'
      BY <3>1, <3>4, <3>5, <3>6, <3>7 DEF TypeOK, NoOrphanedLock
    <3>9. (\A d \in Callers : stage[d] = "queued" => \E i \in 1..Len(queue) : queue[i] = d)'
      <4> SUFFICES ASSUME NEW d \in Callers, stage'[d] = "queued"
                   PROVE  \E i \in 1..Len(queue') : queue'[i] = d
        BY DEF TypeOK
      <4>1. CASE d = c
        BY <4>1, <3>5 DEF TypeOK
      <4>2. CASE d # c
        BY <4>2, <3>1, <3>5 DEF TypeOK, NoOrphanedLock
      <4> QED BY <4>1, <4>2
    <3>10. (\A i, j \in 1..Len(queue) : queue[i] = queue[j] => i = j)'
      BY <3>4, <3>5, <3>6 DEF NoOrphanedLock
    <3>11. NoOrphanedLock'
      BY <3>1, <3>2, <3>8, <3>9, <3>10 DEF NoOrphanedLock
    <3> QED BY <1>0, <3>3, <3>11
  <2> QED BY <2>1, <2>2
<1>2. ASSUME NEW c \in Callers, Enter(c) PROVE IInv'
  <2>1. /\ locked' = locked /\ queue' = queue
        /\ stage' = [stage EXCEPT ![c] = "inside"]
        /\ stage[c] = "granted"
    BY <1>2 DEF Enter
  <2>2. Owners' = Owners
    BY <2>1 DEF Owners, TypeOK
  <2>3. \A d \in Callers : stage'[d] = "queued" <=> stage[d] = "queued"
    BY <2>1 DEF TypeOK
  <2>4. \A i \in 1..Len(queue) : queue[i] \in Callers
    BY DEF TypeOK
  <2> QED BY <1>0, <2>1, <2>2, <2>3, <2>4 DEF NoOrphanedLock, MutualExclusion
<1>3. ASSUME NEW c \in Callers, Release(c) PROVE IInv'
  <2>0. Owners = {c}
    BY <1>3 DEF Release, MutualExclusion, Owners
  <2>1. CASE queue = << >>
    <3>1. /\ queue' = queue
          /\ stage' = [stage EXCEPT ![c] = "outside"]
          /\ ~locked'
      BY <1>3, <2>1 DEF Release
    <3>2. Owners' = {}
      BY <2>0, <3>1 DEF Owners, TypeOK
    <3>3. Len(queue) = 0 /\ \A d \in Callers : stage[d] # "queued"
      BY <2>1 DEF NoOrphanedLock
    <3>4. \A d \in Callers : stage'[d] # "queued"
      BY <3>1, <3>3 DEF TypeOK
    <3> QED BY <1>0, <3>1, <3>2, <3>3, <3>4 DEF NoOrphanedLock, MutualExclusion
  <2>2. CASE queue # << >>
    <3> DEFINE h == Head(queue)
    <3>1. /\ Len(queue) > 0
          /\ h = queue[1]
          /\ h \in Callers
          /\ stage[h] = "queued"
          /\ h # c
      BY <1>3, <2>2 DEF TypeOK, Release, NoOrphanedLock
    <3>2. /\ locked' = locked
          /\ queue' = Tail(queue)
          /\ stage' = [stage EXCEPT ![c] = "outside", ![h] = "granted"]
      BY <1>3, <2>2 DEF Release
    <3>3. Owners' = {h}
      BY <3>1, <3>2, <2>0 DEF Owners, TypeOK
    <3>4. /\ Len(queue') = Len(queue) - 1
          /\ \A i \in 1..Len(queue') : queue'[i] = queue[i + 1] /\ i + 1 \in 1..Len(queue)
      BY <3>1, <3>2 DEF TypeOK
    <3>5. \A i \in 1..Len(queue') : queue'[i] \in Callers /\ queue'[i] # h /\ queue'[i] # c
      <4> SUFFICES ASSUME NEW i \in 1..Len(queue')
                   PROVE  queue'[i] \in Callers /\ queue'[i] # h /\ queue'[i] # c
        OBVIOUS
      <4>1. i \in Nat \ {0} /\ i + 1 \in 1..Len(queue) /\ queue'[i] = queue[i + 1]
        BY <3>4 DEF TypeOK
      <4>2. queue[i + 1] \in Callers /\ stage[queue[i + 1]] = "queued"
        BY <4>1 DEF TypeOK, NoOrphanedLock
      <4>3. stage[c] = "inside"
        BY <1>3 DEF Release
      <4>4. 1 \in 1..Len(queue) /\ i + 1 # 1
        BY <3>1, <4>1 DEF TypeOK
      <4>5. queue[i + 1] # queue[1]
        BY <4>1, <4>4 DEF NoOrphanedLock
      <4> QED BY <4>1, <4>2, <4>3, <4>5, <3>1
    <3>6. (\A i \in 1..Len(queue) : stage[queue[i]] = "queued")'
      BY <3>2, <3>4, <3>5 DEF NoOrphanedLock, TypeOK
    <3>7. (\A d \in Callers : stage[d] = "queued" => \E i \in 1..Len(queue) : queue[i] = d)'
      <4> SUFFICES ASSUME NEW d \in Callers, stage'[d] = "queued"
                   PROVE  \E i \in 1..Len(queue') : queue'[i] = d
        BY DEF TypeOK
      <4>1. stage[d] = "queued" /\ d # h
        BY <3>1, <3>2 DEF TypeOK
      <4>2. PICK i \in 1..Len(queue) : queue[i] = d
        BY <4>1 DEF NoOrphanedLock
      <4>3. i # 1 /\ i - 1 \in 1..Len(queue') /\ queue'[i - 1] = d
        BY <4>1, <4>2, <3>1, <3>4 DEF TypeOK
      <4> QED BY <4>3
    <3>8. (\A i, j \in 1..Len(queue) : queue[i] = queue[j] => i = j)'
      BY <3>4 DEF NoOrphanedLock, TypeOK
    <3>9. locked' /\ Owners' # {}
      BY <1>3, <3>2, <3>3, <2>0 DEF NoOrphanedLock
    <3> QED BY <1>0, <3>3, <3>6, <3>7, <3>8, <3>9 DEF NoOrphanedLock, MutualExclusion
  <2> QED BY <2>1, <2>2
<1>4. CASE UNCHANGED vars
  BY <1>0, <1>4 DEF TypeOK, vars, NoOrphanedLock, MutualExclusion, Owners
<1> QED BY <1>1, <1>2, <1>3, <1>4 DEF Next

\* The invariant holds in every state.
THEOREM MutexInvariant == Spec => []IInv
BY InvariantInit, InvariantStep, PTL DEF Spec

\* Two functions run under one key never overlap.
THEOREM MutexExcludes == Spec => []MutualExclusion
BY MutexInvariant, PTL DEF IInv

\* The lock is never set without an owner, and no waiter is ever forgotten.
THEOREM MutexNotOrphaned == Spec => []NoOrphanedLock
BY MutexInvariant, PTL DEF IInv

\* A waiter gets the lock only from the front of the queue, before all who wait
\* behind it.
THEOREM MutexServedInOrder == Spec => ServedInOrder
<1> DEFINE Served(c) ==
             stage[c] = "queued" /\ stage'[c] = "granted"
               => \A d \in Callers : stage[d] = "queued" /\ d # c
                    => \E i, j \in 1..Len(queue) : queue[i] = c /\ queue[j] = d /\ i < j
<1>1. IInv /\ [Next]_vars => \A c \in Callers : Served(c)
  <2> SUFFICES ASSUME IInv, [Next]_vars, NEW c \in Callers,
                      stage[c] = "queued", stage'[c] = "granted",
                      NEW d \in Callers, stage[d] = "queued", d # c
               PROVE  \E i, j \in 1..Len(queue) : queue[i] = c /\ queue[j] = d /\ i < j
    OBVIOUS
  <2>1. PICK b \in Callers : Release(b)
    <3>1. \A b \in Callers : ~Acquire(b)
      BY DEF Acquire, IInv, TypeOK
    <3>2. \A b \in Callers : ~Enter(b)
      BY DEF Enter, IInv, TypeOK
    <3>3. ~UNCHANGED vars
      BY DEF vars
    <3> QED BY <3>1, <3>2, <3>3 DEF Next
  <2>2. queue # << >> /\ c = Head(queue)
    BY <2>1 DEF Release, IInv, TypeOK
  <2>3. 1 \in 1..Len(queue) /\ queue[1] = c
    BY <2>2 DEF IInv, TypeOK
  <2>4. PICK j \in 1..Len(queue) : queue[j] = d
    BY DEF IInv, NoOrphanedLock
  <2>5. 1 < j
    BY <2>3, <2>4
  <2> QED BY <2>3, <2>4, <2>5
<1> QED BY <1>1, MutexInvariant, PTL DEF Spec, ServedInOrder

\* Every behaviour of the mutex is a behaviour of the lock: a hand-over is the
\* lock passing to a waiting caller, and starting the function is a stutter.
THEOREM MutexImplementsLock == Spec => ImplementsLock
<1>1. Init => Abstract!Init
  BY DEF Init, Owners, LockWaiting, Abstract!Init
<1>2. IInv /\ [Next]_vars => [Abstract!Next]_(Abstract!vars)
  <2> SUFFICES ASSUME IInv, [Next]_vars
               PROVE  [Abstract!Next]_(Abstract!vars)
    OBVIOUS
  <2>1. ASSUME NEW c \in Callers, Acquire(c) PROVE Abstract!Next
    <3>1. c \notin Owners \cup LockWaiting
      BY <2>1 DEF Acquire, Owners, LockWaiting
    <3>2. CASE ~locked
      <4>1. stage' = [stage EXCEPT ![c] = "granted"]
        BY <2>1, <3>2 DEF Acquire
      <4>2. Owners = {}
        BY <3>2 DEF IInv, NoOrphanedLock
      <4>3. Owners' = {c} /\ LockWaiting' = LockWaiting
        BY <2>1, <4>1, <4>2 DEF Acquire, Owners, LockWaiting, IInv, TypeOK
      <4> QED BY <3>1, <4>2, <4>3 DEF Abstract!Next, Abstract!Request
    <3>3. CASE locked
      <4>1. stage' = [stage EXCEPT ![c] = "queued"]
        BY <2>1, <3>3 DEF Acquire
      <4>2. Owners' = Owners /\ LockWaiting' = LockWaiting \cup {c}
        BY <2>1, <4>1 DEF Acquire, Owners, LockWaiting, IInv, TypeOK
      <4>3. Owners # {}
        BY <3>3 DEF IInv, NoOrphanedLock
      <4> QED BY <3>1, <4>2, <4>3 DEF Abstract!Next, Abstract!Request
    <3> QED BY <3>2, <3>3
  <2>2. ASSUME NEW c \in Callers, Enter(c) PROVE UNCHANGED Abstract!vars
    <3>1. Owners' = Owners /\ LockWaiting' = LockWaiting
      BY <2>2 DEF Enter, Owners, LockWaiting, IInv, TypeOK
    <3> QED BY <3>1 DEF Abstract!vars
  <2>3. ASSUME NEW c \in Callers, Release(c) PROVE Abstract!Next
    <3>1. c \in Owners /\ Owners = {c}
      BY <2>3 DEF Release, Owners, IInv, MutualExclusion
    <3>2. CASE queue = << >>
      <4>1. stage' = [stage EXCEPT ![c] = "outside"]
        BY <2>3, <3>2 DEF Release
      <4>2. LockWaiting = {} /\ LockWaiting' = {}
        BY <3>2, <4>1 DEF LockWaiting, IInv, NoOrphanedLock, TypeOK
      <4>3. Owners' = {}
        BY <3>1, <4>1 DEF Owners, IInv, TypeOK
      <4> QED BY <3>1, <4>2, <4>3 DEF Abstract!Next, Abstract!Free
    <3>3. CASE queue # << >>
      <4> DEFINE h == Head(queue)
      <4>1. stage' = [stage EXCEPT ![c] = "outside", ![h] = "granted"]
        BY <2>3, <3>3 DEF Release
      <4>2. h \in Callers /\ stage[h] = "queued" /\ stage[c] = "inside"
        BY <2>3, <3>3 DEF Release, IInv, NoOrphanedLock, TypeOK
      <4>3. h \in LockWaiting /\ LockWaiting' = LockWaiting \ {h}
        BY <4>1, <4>2 DEF LockWaiting, IInv, TypeOK
      <4>4. Owners' = {h}
        BY <3>1, <4>1, <4>2 DEF Owners, IInv, TypeOK
      <4> QED BY <3>1, <4>3, <4>4 DEF Abstract!Next, Abstract!Free
    <3> QED BY <3>2, <3>3
  <2>4. CASE UNCHANGED vars
    BY <2>4 DEF vars, Owners, LockWaiting, Abstract!vars
  <2> QED BY <2>1, <2>2, <2>3, <2>4 DEF Next
<1> QED BY <1>1, <1>2, MutexInvariant, PTL DEF Spec, ImplementsLock, Abstract!Spec
-----------------------------------------------------------------------------
(***************************************************************************)
(* What a waiter waits for.  That every waiter gets in (EveryWaiterEnters) *)
(* needs fairness of the owner alone: as long as somebody waits there is   *)
(* one, and each time it is done every waiter moves up by one.             *)
(***************************************************************************)
QueuedBehindALock == \A c \in Callers : stage[c] = "queued" => locked

\* Only a caller that finds the lock set waits, and it stays set while anybody does.
LEMMA WaitersStep == IInv /\ QueuedBehindALock /\ [Next]_vars => QueuedBehindALock'
<1> SUFFICES ASSUME IInv, QueuedBehindALock, [Next]_vars, NEW c \in Callers, stage'[c] = "queued"
             PROVE  locked'
  BY DEF QueuedBehindALock
<1> USE DEF IInv, TypeOK, QueuedBehindALock
<1>1. ASSUME NEW d \in Callers, Acquire(d) PROVE locked'
  BY <1>1 DEF Acquire
<1>2. ASSUME NEW d \in Callers, Enter(d) PROVE locked'
  BY <1>2 DEF Enter
<1>3. ASSUME NEW d \in Callers, Release(d) PROVE locked'
  <2>1. CASE queue = << >>
    <3>1. stage[c] # "queued"
      BY <2>1 DEF NoOrphanedLock
    <3> QED BY <1>3, <2>1, <3>1 DEF Release
  <2>2. CASE queue # << >>
    <3>1. locked
      BY <1>3 DEF Release, NoOrphanedLock, Owners
    <3> QED BY <1>3, <2>2, <3>1 DEF Release
  <2> QED BY <2>1, <2>2
<1>4. CASE UNCHANGED vars
  BY <1>4 DEF vars
<1> QED BY <1>1, <1>2, <1>3, <1>4 DEF Next

\* Whoever waits waits for somebody: there is a caller that has been given the lock
\* and will start, or has started and will end.
THEOREM MutexWaitersHaveAnOwner == Spec => [](\A c \in Callers : stage[c] = "queued" => Owners # {})
<1>1. Init => QueuedBehindALock
  BY DEF Init, QueuedBehindALock
<1>2. IInv /\ QueuedBehindALock => \A c \in Callers : stage[c] = "queued" => Owners # {}
  BY DEF IInv, NoOrphanedLock, QueuedBehindALock
<1> QED BY <1>1, <1>2, WaitersStep, MutexInvariant, PTL DEF Spec

\* When the lock changes hands the first waiter has it and all others move up by
\* one; any other step leaves everybody's place alone.
THEOREM MutexWaitersMoveUp ==
  Spec => [][\A i \in 1..Len(queue) :
               IF Owners' = Owners THEN queue'[i] = queue[i]
               ELSE IF i = 1 THEN stage'[queue[i]] = "granted"
               ELSE queue'[i - 1] = queue[i]]_vars
<1> DEFINE MovesUp(i) == IF Owners' = Owners THEN queue'[i] = queue[i]
                         ELSE IF i = 1 THEN stage'[queue[i]] = "granted"
                         ELSE queue'[i - 1] = queue[i]
<1>1. Init => QueuedBehindALock
  BY DEF Init, QueuedBehindALock
<1>2. IInv /\ QueuedBehindALock /\ [Next]_vars => [\A i \in 1..Len(queue) : MovesUp(i)]_vars
  <2> SUFFICES ASSUME IInv, QueuedBehindALock, Next, NEW i \in 1..Len(queue)
               PROVE  MovesUp(i)
    OBVIOUS
  <2> USE DEF IInv, TypeOK
  <2>0. queue[i] \in Callers /\ stage[queue[i]] = "queued" /\ locked /\ Owners # {}
    BY DEF NoOrphanedLock, QueuedBehindALock
  <2>1. ASSUME NEW c \in Callers, Acquire(c) PROVE MovesUp(i)
    <3>1. /\ queue' = Append(queue, c)
          /\ stage' = [stage EXCEPT ![c] = "queued"]
          /\ stage[c] = "outside"
      BY <2>0, <2>1 DEF Acquire
    <3>2. Owners' = Owners
      BY <3>1 DEF Owners
    <3>3. queue'[i] = queue[i]
      BY <3>1
    <3> QED BY <3>2, <3>3
  <2>2. ASSUME NEW c \in Callers, Enter(c) PROVE MovesUp(i)
    <3>1. Owners' = Owners /\ queue' = queue
      BY <2>2 DEF Enter, Owners
    <3> QED BY <3>1
  <2>3. ASSUME NEW c \in Callers, Release(c) PROVE MovesUp(i)
    <3> DEFINE h == Head(queue)
    <3>1. /\ Len(queue) > 0 /\ h = queue[1] /\ h \in Callers
          /\ stage[h] = "queued" /\ stage[c] = "inside"
      BY <2>3 DEF Release, NoOrphanedLock
    <3>2. queue' = Tail(queue) /\ stage' = [stage EXCEPT ![c] = "outside", ![h] = "granted"]
      BY <2>3, <3>1 DEF Release
    <3>3. c \in Owners /\ c \notin Owners'
      BY <3>1, <3>2 DEF Owners
    <3>4. i = 1 => stage'[queue[i]] = "granted"
      BY <3>1, <3>2
    <3>5. i # 1 => queue'[i - 1] = queue[i]
      BY <3>1, <3>2
    <3> QED BY <3>3, <3>4, <3>5
  <2> QED BY <2>1, <2>2, <2>3 DEF Next
<1> HIDE DEF MovesUp
<1>3. Spec => [][\A i \in 1..Len(queue) : MovesUp(i)]_vars
  BY <1>1, <1>2, WaitersStep, MutexInvariant, PTL DEF Spec
<1> QED BY <1>3 DEF MovesUp
=============================================================================
