------------------------------ MODULE Mailbox ------------------------------
(***************************************************************************)
(* The mailbox of a workspace and the scripts that wait for mail: the SMTP *)
(* server stores messages, awaitEmail runs in a worker and asks the host   *)
(* for one candidate after another, and the host polls the database with a *)
(* cursor.  Several waits may be under way, each in a hook of its own.     *)
(***************************************************************************)
EXTENDS Naturals, FiniteSets

CONSTANTS
  Ids,      \* message IDs: random, hence in no relation to the order of arrival
  Waits,    \* calls of awaitEmail
  Limits,   \* timeouts that scripts ask for
  MaxTime,  \* bound on the clock, in milliseconds
  None      \* no deadline, no cursor

ASSUME MailboxAssumptions ==
  /\ Ids \subseteq Nat /\ Limits \subseteq Nat /\ MaxTime \in Nat
  /\ None \notin Nat /\ None \notin Nat \X Nat

VARIABLES
  now,       \* Date.now
  stored,    \* when each message in the table was created
  since,     \* normalizeRuntimeSince: where each wait begins
  deadline,  \* when it gives up, if it does
  cursor,    \* the message it has looked at last
  seen,      \* the rows it has looked at (history)
  stage      \* where it stands

vars == <<now, stored, since, deadline, cursor, seen, stage>>

Times == 0..MaxTime
Over == {"found", "timedOut", "aborted"}
Mail == DOMAIN stored
Row(m) == <<stored[m], m>>

TypeOK ==
  /\ now \in Times
  /\ Mail \subseteq Ids /\ stored \in [Mail -> Times]
  /\ since \in [Waits -> Times]
  /\ deadline \in [Waits -> Nat \cup {None}]
  /\ cursor \in [Waits -> (Times \X Ids) \cup {None}]
  /\ seen \in [Waits -> SUBSET (Times \X Ids)]
  /\ stage \in [Waits -> {"idle", "looping", "asking", "sleeping", "judging"} \cup Over]

Init ==
  /\ now = 0 /\ stored = [m \in {} |-> 0]
  /\ since = [w \in Waits |-> 0] /\ deadline = [w \in Waits |-> None]
  /\ cursor = [w \in Waits |-> None] /\ seen = [w \in Waits |-> {}]
  /\ stage = [w \in Waits |-> "idle"]

Tick == now < MaxTime /\ now' = now + 1 /\ UNCHANGED <<stored, since, deadline, cursor, seen, stage>>

\* createEmail: the row is created with a fresh ID and the time of its insertion.
Store(m) ==
  /\ m \notin Mail /\ \A w \in Waits, t \in Times : <<t, m>> \notin seen[w]
  /\ stored' = [x \in Mail \cup {m} |-> IF x = m THEN now ELSE stored[x]]
  /\ UNCHANGED <<now, since, deadline, cursor, seen, stage>>

\* deleteEmail.
Delete(m) ==
  /\ m \in Mail
  /\ stored' = [x \in Mail \ {m} |-> stored[x]]
  /\ UNCHANGED <<now, since, deadline, cursor, seen, stage>>

-----------------------------------------------------------------------------

Go(w, s) == stage' = [stage EXCEPT ![w] = s]

\* A hook may name a time; else it is the start of the execution.
Await(w) ==
  /\ stage[w] = "idle" /\ Go(w, "looping")
  /\ \E t \in 0..now : since' = [since EXCEPT ![w] = t]
  /\ \E t \in ({now + d : d \in Limits} \cap Times) \cup {None} : deadline' = [deadline EXCEPT ![w] = t]
  /\ UNCHANGED <<now, stored, cursor, seen>>

Expired(w) == deadline[w] # None /\ now >= deadline[w]

\* awaitEmail: out of time, or the host is asked for the next candidate.
Loop(w) ==
  /\ stage[w] = "looping"
  /\ Go(w, IF Expired(w) THEN "timedOut" ELSE "asking")
  /\ UNCHANGED <<now, stored, since, deadline, cursor, seen>>

Before(r, s) == r[1] < s[1] \/ (r[1] = s[1] /\ r[2] < s[2])

\* Faulty: of messages with one time only the first is looked at.
LaterThan(r, s) == r[1] > s[1]

\* The rows behind the cursor, by time and ID.
Behind(r, s) == Before(s, r)

Candidates(w) ==
  {m \in Mail : stored[m] >= since[w] /\ (cursor[w] = None \/ Behind(Row(m), cursor[w]))}

\* findNext, and next's answer.
Look(w) ==
  /\ stage[w] = "asking" /\ Candidates(w) # {}
  /\ \E m \in Candidates(w) :
       /\ \A x \in Candidates(w) : x = m \/ Before(Row(m), Row(x))
       /\ cursor' = [cursor EXCEPT ![w] = Row(m)]
       /\ seen' = [seen EXCEPT ![w] = @ \cup {Row(m)}]
  /\ Go(w, "judging")
  /\ UNCHANGED <<now, stored, since, deadline>>

\* Faulty: a poll at the deadline is not made.
LookInVainEarly(w) ==
  /\ stage[w] = "asking"
  /\ Expired(w) \/ Candidates(w) = {}
  /\ Go(w, IF Expired(w) THEN "timedOut" ELSE "sleeping")
  /\ UNCHANGED <<now, stored, since, deadline, cursor, seen>>

\* There is none: the host gives up at the deadline and sleeps before.
LookInVain(w) ==
  /\ stage[w] = "asking" /\ Candidates(w) = {}
  /\ Go(w, IF Expired(w) THEN "timedOut" ELSE "sleeping")
  /\ UNCHANGED <<now, stored, since, deadline, cursor, seen>>

\* Faulty: a wait that slept to the deadline does not wake.
WakeInTime(w) ==
  /\ stage[w] = "sleeping" /\ ~Expired(w) /\ Go(w, "asking")
  /\ UNCHANGED <<now, stored, since, deadline, cursor, seen>>

\* The poll interval is over, or the deadline has come.
Wake(w) ==
  /\ stage[w] = "sleeping" /\ Go(w, "asking")
  /\ UNCHANGED <<now, stored, since, deadline, cursor, seen>>

\* The predicate, in the worker, accepts the candidate or not.
Judge(w) ==
  /\ stage[w] = "judging"
  /\ Go(w, "found") \/ Go(w, "looping")
  /\ UNCHANGED <<now, stored, since, deadline, cursor, seen>>

\* The hook is cancelled or its worker ended: the host's wait is over, too.
Abort(w) ==
  /\ stage[w] \notin Over \cup {"idle"}
  /\ Go(w, "aborted")
  /\ UNCHANGED <<now, stored, since, deadline, cursor, seen>>

Host(w) == Loop(w) \/ Look(w) \/ LookInVain(w) \/ Wake(w)

Next ==
  \/ Tick
  \/ \E m \in Ids : Store(m) \/ Delete(m)
  \/ \E w \in Waits : Await(w) \/ Host(w) \/ Judge(w) \/ Abort(w)

\* Time passes and timers fire; a predicate need not return.
Spec == Init /\ [][Next]_vars /\ WF_vars(Tick) /\ \A w \in Waits : WF_vars(Host(w))

-----------------------------------------------------------------------------

Pending(w) == {m \in Mail : stored[m] >= since[w] /\ Row(m) \notin seen[w]}

\* A message of the very millisecond of one that was looked at, with a smaller ID.
Twins(w) == {m \in Mail : \E s \in seen[w] : s[1] = stored[m] /\ m < s[2]}

\* Messages are looked at in the order of their time: none but a twin is left out
\* that is older than the one looked at last, whatever arrives meanwhile.
NothingIsPassedOver ==
  \A w \in Waits : cursor[w] # None =>
    \A m \in Pending(w) : stored[m] >= cursor[w][1] \/ m \in Twins(w)

GivesUp(w) == stage[w] = "asking" /\ stage'[w] \in {"sleeping", "timedOut"}

\* When a wait goes to sleep or gives up, it has looked at all mail there is since
\* it was to begin, also at what came before the call; only twins may be left.
OnlyTwinsAreMissed == [][\A w \in Waits : GivesUp(w) => Pending(w) \subseteq Twins(w)]_vars

\* What the comment at email-provider.ts:12 says of the provider: race-free.
NoMailIsMissed == [][\A w \in Waits : GivesUp(w) => Pending(w) = {}]_vars

\* A wait with a deadline does not sleep for ever, and neither does one for which
\* there is mail.
SleepersWake ==
  \A w \in Waits :
    (stage[w] \in {"asking", "sleeping"} /\ (deadline[w] # None \/ Candidates(w) # {}))
      ~> (stage[w] \in Over \cup {"judging"} \/ (deadline[w] = None /\ Candidates(w) = {}))

=============================================================================
