---------------------------- MODULE MailboxProofs ----------------------------
(***************************************************************************)
(* Proofs about Mailbox, for every set of messages, waits and timeouts.    *)
(*                                                                         *)
(* The heart of the invariant is LeftOnlyTwins: what a wait has not looked *)
(* at is still ahead of its cursor, or it is a twin.  A message that       *)
(* arrives keeps it because no row looked at is younger than the clock     *)
(* (NothingFromTheFuture); a look keeps it because it takes the first of   *)
(* all candidates.                                                         *)
(***************************************************************************)
EXTENDS Mailbox, TLAPS

NothingFromTheFuture ==
  /\ \A m \in Mail : stored[m] <= now
  /\ \A w \in Waits : \A s \in seen[w] : s[1] <= now

\* The cursor is the last row looked at; waits that have not begun have none.
CursorIsSeen ==
  \A w \in Waits :
    /\ stage[w] = "idle" => cursor[w] = None
    /\ cursor[w] = None => seen[w] = {}
    /\ cursor[w] # None => cursor[w] \in seen[w]

LeftOnlyTwins ==
  \A w \in Waits : cursor[w] # None =>
    \A m \in Pending(w) : Behind(Row(m), cursor[w]) \/ m \in Twins(w)

IInv == TypeOK /\ NothingFromTheFuture /\ CursorIsSeen /\ LeftOnlyTwins

\* The turns that touch nothing but the stage of a wait.
Moves(w, s) == Go(w, s) /\ UNCHANGED <<now, stored, since, deadline, cursor, seen>>

-----------------------------------------------------------------------------

\* A turn that only moves the stage keeps the invariant.
LEMMA MovesKeep ==
  ASSUME IInv, NEW w \in Waits, stage[w] # "idle",
         NEW s \in {"looping", "asking", "sleeping", "judging"} \cup Over, Moves(w, s)
  PROVE  IInv'
<1>1. TypeOK'
  BY DEF IInv, TypeOK, Moves, Go, Mail
<1>2. CursorIsSeen'
  BY DEF IInv, TypeOK, CursorIsSeen, Moves, Go, Over
<1>3. NothingFromTheFuture' /\ LeftOnlyTwins'
  BY DEF IInv, NothingFromTheFuture, LeftOnlyTwins, Pending, Twins, Row, Mail, Moves
<1> QED BY <1>1, <1>2, <1>3 DEF IInv

\* The clock goes on.
LEMMA TickKeeps == ASSUME IInv, Tick PROVE IInv'
<1> USE MailboxAssumptions DEF IInv
<1>1. TypeOK'
  BY DEF TypeOK, Tick, Times, Mail
<1>2. NothingFromTheFuture'
  <2>1. now \in Nat /\ now' = now + 1 /\ stored' = stored /\ seen' = seen
    BY DEF TypeOK, Tick, Times
  <2>2. \A m \in Mail : stored[m] \in Nat
    BY DEF TypeOK, Times
  <2>3. \A w \in Waits : \A s \in seen[w] : s[1] \in Nat
    BY DEF TypeOK, Times
  <2> QED BY <2>1, <2>2, <2>3 DEF NothingFromTheFuture, Mail
<1>3. CursorIsSeen' /\ LeftOnlyTwins'
  BY DEF Tick, CursorIsSeen, LeftOnlyTwins, Pending, Twins, Row, Mail
<1> QED BY <1>1, <1>2, <1>3

\* A message arrives: it is ahead of every cursor, or a twin.
LEMMA StoreKeeps == ASSUME IInv, NEW m \in Ids, Store(m) PROVE IInv'
<1> USE MailboxAssumptions DEF IInv
<1>1. /\ Mail' = Mail \cup {m} /\ stored'[m] = now /\ m \notin Mail
      /\ \A x \in Mail : stored'[x] = stored[x]
      /\ UNCHANGED <<now, since, deadline, cursor, seen, stage>>
  BY DEF Store, Mail
<1>2. TypeOK'
  <2>1. stored' \in [Mail' -> Times]
    BY DEF TypeOK, Store, Mail
  <2> QED BY <1>1, <2>1 DEF TypeOK
<1>3. NothingFromTheFuture'
  BY <1>1 DEF NothingFromTheFuture, TypeOK, Times
<1>4. CursorIsSeen'
  BY <1>1 DEF CursorIsSeen
<1>5. ASSUME NEW w \in Waits, cursor[w] # None, NEW x \in Pending(w)'
      PROVE  Behind(Row(x)', cursor[w]) \/ x \in Twins(w)'
  <2>1. CASE x \in Mail
    <3>1. x \in Pending(w) /\ Row(x)' = Row(x) /\ (x \in Twins(w) => x \in Twins(w)')
      BY <1>1, <1>5, <2>1 DEF Pending, Row, Twins
    <3> QED BY <1>5, <3>1 DEF LeftOnlyTwins
  <2>2. CASE x = m
    <3>1. /\ cursor[w] \in seen[w] /\ cursor[w] \in Times \X Ids /\ cursor[w][1] <= now
          /\ cursor[w][2] # m
      <4>1. cursor[w] \in seen[w] /\ cursor[w] \in Times \X Ids
        BY <1>5 DEF CursorIsSeen, TypeOK
      <4>2. cursor[w] = <<cursor[w][1], cursor[w][2]>> /\ cursor[w][1] \in Times
        BY <4>1
      <4>3. <<cursor[w][1], m>> \notin seen[w]
        BY <4>2 DEF Store
      <4> QED BY <4>1, <4>2, <4>3 DEF NothingFromTheFuture
    <3>2. Row(x)' = <<now, m>>
      BY <1>1, <2>2 DEF Row
    <3>3. now \in Nat /\ m \in Nat /\ cursor[w][1] \in Nat /\ cursor[w][2] \in Nat
      <4>1. cursor[w][1] \in Times /\ cursor[w][2] \in Ids /\ now \in Times
        BY <3>1 DEF TypeOK
      <4>2. Times \subseteq Nat /\ Ids \subseteq Nat
        BY DEF Times
      <4> QED BY <4>1, <4>2
    <3>4. CASE cursor[w][1] < now \/ (cursor[w][1] = now /\ cursor[w][2] < m)
      BY <3>2, <3>4 DEF Behind, Before
    <3>5. CASE cursor[w][1] = now /\ m < cursor[w][2]
      BY <1>1, <2>2, <3>1, <3>5 DEF Twins
    <3> QED BY <3>1, <3>3, <3>4, <3>5
  <2> QED BY <1>1, <1>5, <2>1, <2>2 DEF Pending
<1>6. LeftOnlyTwins'
  BY <1>1, <1>5 DEF LeftOnlyTwins
<1> QED BY <1>2, <1>3, <1>4, <1>6

\* A message is deleted.
LEMMA DeleteKeeps == ASSUME IInv, NEW m \in Ids, Delete(m) PROVE IInv'
<1> USE DEF IInv
<1>1. /\ Mail' = Mail \ {m} /\ \A x \in Mail' : stored'[x] = stored[x]
      /\ UNCHANGED <<now, since, deadline, cursor, seen, stage>>
  BY DEF Delete, Mail
<1>2. TypeOK'
  <2>1. stored' \in [Mail' -> Times]
    BY DEF TypeOK, Delete, Mail
  <2> QED BY <1>1, <2>1 DEF TypeOK
<1>3. NothingFromTheFuture' /\ CursorIsSeen'
  BY <1>1 DEF NothingFromTheFuture, CursorIsSeen
<1>4. ASSUME NEW w \in Waits, cursor[w] # None, NEW x \in Pending(w)'
      PROVE  Behind(Row(x)', cursor[w]) \/ x \in Twins(w)'
  <2>1. x \in Pending(w) /\ Row(x)' = Row(x) /\ (x \in Twins(w) => x \in Twins(w)')
    BY <1>1, <1>4 DEF Pending, Row, Twins
  <2> QED BY <1>4, <2>1 DEF LeftOnlyTwins
<1>5. LeftOnlyTwins'
  BY <1>1, <1>4 DEF LeftOnlyTwins
<1> QED BY <1>2, <1>3, <1>5

\* A wait begins, without a cursor.
LEMMA AwaitKeeps == ASSUME IInv, NEW w \in Waits, Await(w) PROVE IInv'
<1> USE DEF IInv
<1>1. PICK t \in 0..now, d \in (({now + l : l \in Limits} \cap Times) \cup {None}) :
        since' = [since EXCEPT ![w] = t] /\ deadline' = [deadline EXCEPT ![w] = d]
  BY DEF Await
<1>2. t \in Times /\ d \in Nat \cup {None}
  BY MailboxAssumptions, <1>1 DEF TypeOK, Times
<1>3. TypeOK'
  BY <1>1, <1>2 DEF TypeOK, Await, Go, Mail
<1>4. NothingFromTheFuture' /\ CursorIsSeen'
  BY DEF TypeOK, NothingFromTheFuture, CursorIsSeen, Await, Go, Mail
<1>5. cursor[w] = None /\ \A v \in Waits : v # w => since'[v] = since[v]
  BY <1>1 DEF TypeOK, CursorIsSeen, Await
<1>6. LeftOnlyTwins'
  BY <1>5 DEF LeftOnlyTwins, Await, Pending, Twins, Row, Mail
<1> QED BY <1>3, <1>4, <1>6

\* A look takes the first candidate: all that was ahead of the cursor still is.
LEMMA LookKeeps == ASSUME IInv, NEW w \in Waits, Look(w) PROVE IInv'
<1> USE MailboxAssumptions DEF IInv
<1>1. PICK m \in Candidates(w) :
        /\ \A x \in Candidates(w) : x = m \/ Before(Row(m), Row(x))
        /\ cursor' = [cursor EXCEPT ![w] = Row(m)]
        /\ seen' = [seen EXCEPT ![w] = @ \cup {Row(m)}]
  BY DEF Look
<1>2. /\ m \in Mail /\ Row(m) \in Times \X Ids /\ Row(m)[1] = stored[m] /\ Row(m) # None
      /\ UNCHANGED <<now, stored, since>> /\ stored[m] <= now
  <2>1. m \in Mail /\ m \in Ids /\ stored[m] \in Times
    BY <1>1 DEF Candidates, TypeOK
  <2>2. Row(m) \in Nat \X Nat /\ Row(m) \in Times \X Ids /\ Row(m)[1] = stored[m]
    BY <2>1 DEF Row, Times
  <2> QED BY <2>1, <2>2 DEF Look, NothingFromTheFuture
<1>3. TypeOK'
  BY <1>1, <1>2 DEF TypeOK, Look, Go, Mail
<1>4. /\ cursor'[w] = Row(m) /\ seen'[w] = seen[w] \cup {Row(m)}
      /\ \A v \in Waits : v # w => cursor'[v] = cursor[v] /\ seen'[v] = seen[v]
  BY <1>1 DEF TypeOK
<1>5. NothingFromTheFuture'
  BY <1>2, <1>4 DEF NothingFromTheFuture, Mail
<1>6. CursorIsSeen'
  BY <1>2, <1>4 DEF CursorIsSeen, Look, Go, TypeOK
<1>7. \A x : x \in Mail => Row(x)' = Row(x)
  BY <1>2 DEF Row
<1>8. Mail' = Mail
  BY <1>2 DEF Mail
<1>9. ASSUME NEW x \in Pending(w)' PROVE Behind(Row(x), Row(m)) \/ x \in Twins(w)'
  <2>1. x \in Pending(w) /\ Row(x) # Row(m) /\ x # m
    BY <1>2, <1>4, <1>7, <1>8, <1>9 DEF Pending
  <2>2. CASE x \in Candidates(w)
    BY <1>1, <2>1, <2>2 DEF Behind
  <2>3. CASE x \notin Candidates(w)
    <3>1. cursor[w] # None /\ ~Behind(Row(x), cursor[w])
      BY <2>1, <2>3 DEF Candidates, Pending
    <3>2. x \in Twins(w)
      BY <2>1, <3>1 DEF LeftOnlyTwins
    <3> QED BY <1>2, <1>4, <1>8, <3>2 DEF Twins
  <2> QED BY <2>2, <2>3
<1>10. LeftOnlyTwins'
  <2> SUFFICES ASSUME NEW v \in Waits, cursor'[v] # None, NEW x \in Pending(v)'
               PROVE  Behind(Row(x)', cursor'[v]) \/ x \in Twins(v)'
    BY DEF LeftOnlyTwins
  <2>1. x \in Mail /\ Row(x)' = Row(x)
    BY <1>7, <1>8 DEF Pending
  <2>2. CASE v = w
    BY <1>4, <1>9, <2>1, <2>2
  <2>3. CASE v # w
    <3>1. x \in Pending(v) /\ (x \in Twins(v) => x \in Twins(v)')
      BY <1>2, <1>4, <1>8, <2>1, <2>3 DEF Pending, Twins
    <3> QED BY <1>4, <2>1, <2>3, <3>1 DEF LeftOnlyTwins
  <2> QED BY <2>2, <2>3
<1> QED BY <1>3, <1>5, <1>6, <1>10

\* What a step is.
LEMMA Classified ==
  ASSUME IInv, [Next]_vars
  PROVE  \/ Tick \/ (\E m \in Ids : Store(m) \/ Delete(m)) \/ (\E w \in Waits : Await(w) \/ Look(w))
         \/ \E w \in Waits, s \in {"looping", "asking", "sleeping", "judging"} \cup Over :
              /\ stage[w] # "idle" /\ Moves(w, s)
              /\ s \in {"sleeping", "timedOut"} /\ stage[w] = "asking" => Candidates(w) = {}
         \/ UNCHANGED vars
<1>1. ASSUME NEW w \in Waits, Loop(w) \/ LookInVain(w) \/ Wake(w) \/ Judge(w) \/ Abort(w)
      PROVE  \E s \in {"looping", "asking", "sleeping", "judging"} \cup Over :
               /\ stage[w] # "idle" /\ Moves(w, s)
               /\ s \in {"sleeping", "timedOut"} /\ stage[w] = "asking" => Candidates(w) = {}
  BY <1>1 DEF Loop, LookInVain, Wake, Judge, Abort, Moves, Over
<1> QED BY <1>1 DEF Next, Host

\* The invariant is inductive.
THEOREM MailboxInductive == Spec => []IInv
<1>1. Init => IInv
  BY MailboxAssumptions DEF Init, IInv, TypeOK, Times, Mail, NothingFromTheFuture, CursorIsSeen, LeftOnlyTwins
<1>2. IInv /\ [Next]_vars => IInv'
  <2>1. UNCHANGED vars /\ IInv => IInv'
    BY DEF vars, IInv, TypeOK, Mail, NothingFromTheFuture, CursorIsSeen, LeftOnlyTwins, Pending, Twins, Row
  <2> QED BY <2>1, Classified, TickKeeps, StoreKeeps, DeleteKeeps, AwaitKeeps, LookKeeps, MovesKeep
<1> QED BY <1>1, <1>2, PTL DEF Spec

\* The clock, the table and the waits keep their types.
THEOREM MailboxTyped == Spec => []TypeOK
<1>1. IInv => TypeOK
  BY DEF IInv
<1> QED BY <1>1, MailboxInductive, PTL

\* No message is passed over but a twin, whatever arrives while a wait goes on.
THEOREM MailboxPassesNothingOver == Spec => []NothingIsPassedOver
<1>1. IInv => NothingIsPassedOver
  <2> SUFFICES ASSUME IInv, NEW w \in Waits, cursor[w] # None, NEW m \in Pending(w),
                      m \notin Twins(w)
               PROVE  stored[m] >= cursor[w][1]
    BY DEF NothingIsPassedOver
  <2>1. Behind(Row(m), cursor[w])
    BY DEF IInv, LeftOnlyTwins
  <2>2. cursor[w][1] \in Nat /\ stored[m] \in Nat
    BY DEF IInv, TypeOK, Times, Pending
  <2> QED BY <2>1, <2>2 DEF Behind, Before, Row
<1> QED BY <1>1, MailboxInductive, PTL

\* A wait that goes to sleep or gives up has looked at all mail but twins.
THEOREM MailboxMissesOnlyTwins == Spec => OnlyTwinsAreMissed
<1> DEFINE Step == \A w \in Waits : GivesUp(w) => Pending(w) \subseteq Twins(w)
<1>1. ASSUME IInv, [Next]_vars, NEW w \in Waits, GivesUp(w) PROVE Pending(w) \subseteq Twins(w)
  <2>1. Candidates(w) = {}
    <3>1. stage[w] = "asking" /\ stage'[w] \in {"sleeping", "timedOut"}
      BY <1>1 DEF GivesUp
    <3>2. stage \in [Waits -> {"idle", "looping", "asking", "sleeping", "judging"} \cup Over]
      BY <1>1 DEF IInv, TypeOK
    <3> QED BY <1>1, <3>1, <3>2, Classified DEF Tick, Store, Delete, Await, Look, Moves, Go, vars
  <2>2. CASE cursor[w] = None
    BY <2>1, <2>2 DEF Candidates, Pending
  <2>3. CASE cursor[w] # None
    BY <1>1, <2>1, <2>3 DEF IInv, LeftOnlyTwins, Candidates, Pending
  <2> QED BY <2>2, <2>3
<1>2. IInv /\ [Next]_vars => [Step]_vars
  BY <1>1
<1> QED BY <1>2, MailboxInductive, PTL DEF Spec, OnlyTwinsAreMissed

=============================================================================
