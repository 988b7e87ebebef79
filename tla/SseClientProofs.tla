--------------------------- MODULE SseClientProofs ---------------------------
(***************************************************************************)
(* Proofs about SseClient, for every stream, filter, limit and size of the *)
(* chunks, with a server that closes or breaks a connection after any line *)
(* and an abort at any moment.                                             *)
(*                                                                         *)
(* The parser is at a place of the stream: the next line it looks at.  For *)
(* any stream, some of every wanted event in front of the place has been   *)
(* handed on, or is held (TornInv); hence none is skipped.                 *)
(*                                                                         *)
(* When no chunk ends inside a line ending (~SplitsLineEnds), the data, the*)
(* name and the ID that the parser holds follow from the place (Placed).   *)
(* A connection starts behind lastId, and what was handed on before it is  *)
(* not behind that (Behind); the IDs handed on over one connection climb   *)
(* (Climbing).  Hence none is repeated, and all are whole.                 *)
(***************************************************************************)
EXTENDS SseClient, SequenceTheorems, FiniteSetTheorems, TLAPS

Fields == {"head", "first", "last", "empty"}
Finishes == {"returned", "thrown"}
Begun == IF lastId = None THEN 0 ELSE lastId

\* The events handed on over this connection, by their place in received.
Mine == (Len(received) - here + 1)..Len(received)

\* What was handed on as number i is, or is part of, event n.
Carries(i, n) == \E d \in received[i].data : d.event = n

Part(n, p) == [part |-> p, event |-> n]
Both(n) == {Part(n, "first"), Part(n, "last")}

\* The line behind a line of the stream.
LineAfter(l) ==
  IF l.field = "head" THEN LineOf(l.event, "first")
  ELSE IF l.field = "first" THEN LineOf(l.event, "last")
  ELSE IF l.field = "last" THEN LineOf(l.event, "empty")
  ELSE LineOf(l.event + 1, "head")

\* Consecutive lines of the stream.
Flows(s) == \A i \in 1..(Len(s) - 1) : s[i + 1] = LineAfter(s[i])

Connected == phase \in {"parsing", "reading", "emitting"}
Waiting == phase \in {"opening", "delaying"}
-----------------------------------------------------------------------------
(* Sequences, lines and numbers.                                           *)

\* What a tail and an appended sequence hold.
LEMMA TailFacts ==
  ASSUME NEW S, NEW s \in Seq(S), s # <<>>
  PROVE  /\ Head(s) = s[1] /\ Len(s) \in Nat \ {0} /\ Head(s) \in S
         /\ Tail(s) \in Seq(S) /\ Len(Tail(s)) = Len(s) - 1
         /\ \A i \in 1..Len(Tail(s)) : Tail(s)[i] = s[i + 1]
OBVIOUS

LEMMA AppendFacts ==
  ASSUME NEW S, NEW s \in Seq(S), NEW x \in S
  PROVE  /\ Append(s, x) \in Seq(S) /\ Len(Append(s, x)) = Len(s) + 1 /\ Len(s) \in Nat
         /\ \A i \in 1..Len(s) : Append(s, x)[i] = s[i]
         /\ Append(s, x)[Len(s) + 1] = x
OBVIOUS

LEMMA EmptyFacts ==
  ASSUME NEW S, NEW s \in Seq(S) PROVE s = <<>> <=> Len(s) = 0
OBVIOUS

\* A chunk and what is left of the wire.
LEMMA CutFacts ==
  ASSUME NEW S, NEW s \in Seq(S), NEW k \in 1..Len(s)
  PROVE  LET left == SubSeq(s, 1, k)
             right == SubSeq(s, k + 1, Len(s))
         IN  /\ left \in Seq(S) /\ Len(left) = k /\ \A i \in 1..k : left[i] = s[i]
             /\ right \in Seq(S) /\ Len(right) = Len(s) - k
             /\ \A i \in 1..(Len(s) - k) : right[i] = s[k + i]
<1>1. Len(s) \in Nat /\ k \in Int /\ \A i \in 1..Len(s) : s[i] \in S
  OBVIOUS
<1>2. /\ SubSeq(s, 1, k) \in Seq(S) /\ Len(SubSeq(s, 1, k)) = k
      /\ \A i \in 1..k : SubSeq(s, 1, k)[i] = s[i]
  BY <1>1, SubSeqProperties
<1>3. /\ SubSeq(s, k + 1, Len(s)) \in Seq(S) /\ Len(SubSeq(s, k + 1, Len(s))) = Len(s) - k
      /\ \A i \in 1..(Len(s) - k) : SubSeq(s, k + 1, Len(s))[i] = s[k + i]
  <2>1. \A i \in (k + 1)..Len(s) : s[i] \in S
    BY <1>1
  <2>2. /\ SubSeq(s, k + 1, Len(s)) \in Seq(S)
        /\ Len(SubSeq(s, k + 1, Len(s))) = IF k + 1 <= Len(s) THEN Len(s) - (k + 1) + 1 ELSE 0
        /\ \A i \in 1..(Len(s) - (k + 1) + 1) : SubSeq(s, k + 1, Len(s))[i] = s[k + 1 + i - 1]
    BY <1>1, <2>1, SubSeqProperties
  <2> QED BY <1>1, <2>2
<1> QED BY <1>2, <1>3

\* Numbers and the absence of one.
LEMMA IdFacts ==
  /\ Length \in Nat \ {0} /\ MaxEvents \in Nat \ {0} /\ MaxChunk \in Nat \ {0}
  /\ MaxConnections \in Nat \ {0}
  /\ Events = 1..Length /\ Numbered \subseteq Events /\ Wanted \subseteq Events
  /\ None \notin Events /\ \A id \in Ids : id = None \/ (id \in Numbered /\ id \in Nat \ {0})
  /\ None \in Ids /\ Numbered \subseteq Ids
BY SseAssumptions DEF Events, Ids

\* The stream behind an ID starts with the next event and flows.
LEMMA AfterFacts ==
  ASSUME NEW id \in Ids
  PROVE  /\ After(id) \in Seq(Line) /\ Flows(After(id))
         /\ After(id) # <<>> => After(id)[1] = LineOf((IF id = None THEN 0 ELSE id) + 1, "head")
<1> DEFINE fields == <<"head", "first", "last", "empty">>
           skipped == IF id = None THEN 0 ELSE id
           N == 4 * (Length - skipped)
           Nth(i) == LineOf(skipped + 1 + ((i - 1) \div 4), fields[1 + ((i - 1) % 4)])
<1>1. skipped \in 0..Length /\ N \in Nat
  BY IdFacts
<1>2. After(id) = [i \in 1..N |-> Nth(i)]
  BY DEF After
<1>3. ASSUME NEW i \in 1..N
      PROVE  /\ (i - 1) \div 4 \in Nat /\ (i - 1) \div 4 < Length - skipped
             /\ (i - 1) % 4 \in 0..3
             /\ IF (i - 1) % 4 = 3 THEN i \div 4 = ((i - 1) \div 4) + 1 /\ i % 4 = 0
                ELSE i \div 4 = (i - 1) \div 4 /\ i % 4 = ((i - 1) % 4) + 1
  <2>1. i \in Nat \ {0} /\ i - 1 \in Nat /\ i - 1 < 4 * (Length - skipped)
    BY <1>1
  <2> QED BY <1>1, <2>1, IdFacts
<1>4. fields[1] = "head" /\ fields[2] = "first" /\ fields[3] = "last" /\ fields[4] = "empty"
  OBVIOUS
<1>5. \A m \in 0..3 : m = 0 \/ m = 1 \/ m = 2 \/ m = 3
  OBVIOUS
<1> HIDE DEF fields
<1>6. \A i \in 1..N : Nth(i) \in Line
  <2> SUFFICES ASSUME NEW i \in 1..N PROVE Nth(i) \in Line
    OBVIOUS
  <2>1. fields[1 + ((i - 1) % 4)] \in Fields
    BY <1>3, <1>4, <1>5 DEF Fields
  <2>2. skipped + 1 + ((i - 1) \div 4) \in Events
    BY <1>1, <1>3, IdFacts
  <2> HIDE DEF skipped
  <2> QED BY <2>1, <2>2 DEF LineOf, Line, Fields
<1>7. \A i \in 1..(N - 1) : Nth(i + 1) = LineAfter(Nth(i))
  <2> SUFFICES ASSUME NEW i \in 1..(N - 1) PROVE Nth(i + 1) = LineAfter(Nth(i))
    OBVIOUS
  <2> DEFINE n == skipped + 1 + ((i - 1) \div 4)
             m == (i - 1) % 4
  <2>1. i \in 1..N /\ (i + 1) - 1 = i
    BY <1>1
  <2>2. /\ n \in Nat /\ m \in 0..3
        /\ IF m = 3 THEN skipped + 1 + (i \div 4) = n + 1 /\ i % 4 = 0
           ELSE skipped + 1 + (i \div 4) = n /\ i % 4 = m + 1
    BY <1>1, <1>3, <2>1
  <2>3. /\ Nth(i) = LineOf(n, fields[1 + m])
        /\ Nth(i + 1) = LineOf(skipped + 1 + (i \div 4), fields[1 + (i % 4)])
    BY <2>1
  <2> HIDE DEF n, m, skipped, Nth
  <2>4. LineOf(n, fields[1 + m]).event = n /\ LineOf(n, fields[1 + m]).field = fields[1 + m]
    BY DEF LineOf
  <2>5. m = 0 \/ m = 1 \/ m = 2 \/ m = 3
    BY <1>5, <2>2
  <2> QED BY <1>4, <2>2, <2>3, <2>4, <2>5 DEF LineAfter
<1>8. After(id) \in Seq(Line) /\ Len(After(id)) = N
  <2>1. After(id) \in [1..N -> Line]
    BY <1>2, <1>6
  <2> HIDE DEF N
  <2> QED BY <1>1, <2>1
<1>9. Flows(After(id))
  BY <1>1, <1>2, <1>7, <1>8 DEF Flows
<1>10. After(id) # <<>> => After(id)[1] = LineOf(skipped + 1, "head")
  <2> SUFFICES ASSUME After(id) # <<>> PROVE After(id)[1] = LineOf(skipped + 1, "head")
    OBVIOUS
  <2>1. 1 \in 1..N
    BY <1>1, <1>8
  <2>2. 0 \div 4 = 0 /\ 0 % 4 = 0 /\ 1 - 1 = 0
    OBVIOUS
  <2>3. After(id)[1] = LineOf(skipped + 1 + (0 \div 4), fields[1 + (0 % 4)])
    BY <1>2, <2>1, <2>2
  <2> QED BY <1>1, <1>4, <2>2, <2>3
<1> QED BY <1>8, <1>9, <1>10
-----------------------------------------------------------------------------
(* Types.                                                                  *)

\* Once an event with an ID has come over a connection, all that follow have one.
Lasting ==
  \A i \in Mine : received[i].id # None =>
    parserId # None /\ \A j \in Mine : i < j => received[j].id # None

\* TypeOK with what it needs to be inductive.
TypedInv == TypeOK /\ Lasting

Handed == [id : Ids, data : SUBSET DataLine]

\* The steps that leave the stream and what was handed on alone.
Idles ==
  /\ UNCHANGED <<wire, chunk, data, name, parserId, received, here, lastId>>
  /\ eof' = eof \/ (phase = "reading" /\ eof' = TRUE)
  /\ Connected' => Connected
  /\ Waiting' => Waiting
  /\ phase' = "reading" => eof' = eof /\ (phase = "reading" \/ (chunk = <<>> /\ ~eof))

\* The steps that hand an event on.
HandsOn ==
  /\ received' = Append(received, [id |-> parserId, data |-> data])
  /\ here' = here + 1 /\ data' = {} /\ name /\ data # {}

\* The connection is over, or enough has come over it.
Leaves == Leave /\ Connected /\ chunk' = chunk

\* Every step is of one of these kinds.
LEMMA Steps ==
  ASSUME [Next]_vars PROVE Idles \/ Open \/ Read \/ TakeLine \/ Flush \/ Leaves
<1>1. CASE OpenFails \/ StartRead \/ ReadEnds \/ ReadFails \/ DelayOver \/ Abort
  BY <1>1 DEF OpenFails, StartRead, ReadEnds, ReadFails, DelayOver, Abort, End, Idles,
              Connected, Waiting, Finished
<1>2. CASE Emitted
  BY <1>2 DEF Emitted, Enough, End, Leave, Leaves, Idles, Connected, Waiting
<1>3. CASE Close
  BY <1>3 DEF Close, Leave, Leaves, Connected
<1>4. CASE UNCHANGED vars
  BY <1>4 DEF vars, Idles, Connected, Waiting
<1> QED BY <1>1, <1>2, <1>3, <1>4 DEF Next, Turn

\* What has been handed on before stays where it was.
LEMMA HandsOnFacts ==
  ASSUME TypeOK, HandsOn
  PROVE  /\ received' \in Seq(Handed) /\ here' \in 0..Len(received')
         /\ Len(received') = Len(received) + 1 /\ Len(received) \in Nat
         /\ \A i \in 1..Len(received) : received'[i] = received[i]
         /\ received'[Len(received) + 1] = [id |-> parserId, data |-> data]
         /\ \A i \in Mine' : i = Len(received) + 1 \/ (i \in Mine /\ i \in 1..Len(received))
         /\ Mine \subseteq Mine' /\ Mine \subseteq 1..Len(received)
         /\ Len(received') - here' = Len(received) - here
<1> DEFINE x == [id |-> parserId, data |-> data]
<1>1. x \in Handed /\ received \in Seq(Handed) /\ here \in 0..Len(received)
  BY DEF TypeOK, Handed
<1>2. received' = Append(received, x) /\ here' = here + 1
  BY DEF HandsOn
<1> HIDE DEF x
<1>3. /\ received' \in Seq(Handed) /\ Len(received') = Len(received) + 1 /\ Len(received) \in Nat
      /\ \A i \in 1..Len(received) : received'[i] = received[i]
      /\ received'[Len(received) + 1] = x
  BY <1>1, <1>2, AppendFacts
<1> QED BY <1>1, <1>2, <1>3 DEF Mine, x

\* Dispatching drops an event or hands it on.
LEMMA DispatchFacts ==
  ASSUME TypeOK, Dispatch
  PROVE  \/ UNCHANGED <<phase, data, name, received, here, latest>> /\ data = {}
         \/ /\ data # {} /\ ~name /\ UNCHANGED <<phase, received, here>>
            /\ data' = {} /\ name' = Unnamed /\ latest' = parserId
         \/ HandsOn /\ phase' = "emitting" /\ name' = Unnamed /\ latest' = parserId
BY DEF Dispatch, HandsOn, End

LEMMA DispatchTyped ==
  ASSUME TypedInv, Dispatch, UNCHANGED parserId, phase = "parsing"
  PROVE  /\ phase' \in {"parsing", "emitting"} /\ data' \subseteq DataLine
         /\ name' \in BOOLEAN /\ latest' \in Ids
         /\ received' \in Seq(Handed) /\ here' \in 0..Len(received') /\ Lasting'
<1>1. Unnamed \in BOOLEAN
  BY DEF Unnamed
<1>2. CASE UNCHANGED <<received, here>>
  BY <1>1, <1>2, DispatchFacts DEF TypedInv, TypeOK, Handed, Lasting, Mine, HandsOn
<1>3. CASE HandsOn /\ phase' = "emitting" /\ name' = Unnamed /\ latest' = parserId
  <2>1. Lasting'
    BY <1>3, HandsOnFacts DEF TypedInv, Lasting
  <2>2. received' \in Seq(Handed) /\ here' \in 0..Len(received') /\ data' \subseteq DataLine
    BY <1>3, HandsOnFacts DEF TypedInv, HandsOn
  <2> QED BY <1>1, <1>3, <2>1, <2>2 DEF TypedInv, TypeOK
<1> QED BY <1>2, <1>3, DispatchFacts DEF TypedInv

\* The ID of a connection is that of the last event that came over it.
LEMMA LatestFacts ==
  ASSUME TypedInv, NEW id
  PROVE  \/ /\ Latest(id) = id
            /\ \A i \in Mine : received[i].id = None
         \/ /\ Len(received) \in Mine /\ received[Len(received)].id # None
            /\ Latest(id) = received[Len(received)].id
<1> DEFINE mine == {i \in Mine : received[i].id # None}
           last == Len(received)
<1>1. Latest(id) = IF mine = {} THEN id
                   ELSE received[CHOOSE i \in mine : \A j \in mine : j <= i].id
  BY DEF Latest, Mine
<1>2. last \in Nat /\ here \in 0..last /\ Mine \subseteq 1..last
  BY DEF TypedInv, TypeOK, Mine
<1>3. CASE mine = {}
  BY <1>1, <1>3
<1>4. CASE mine # {}
  <2>1. PICK i \in Mine : received[i].id # None
    BY <1>4
  <2>2. last \in Mine /\ (i < last \/ i = last)
    BY <1>2, <2>1 DEF Mine
  <2>3. last \in mine
    BY <2>1, <2>2 DEF TypedInv, Lasting
  <2>4. \A j \in mine : j <= last
    BY <1>2
  <2>5. (CHOOSE k \in mine : \A j \in mine : j <= k) = last
    <3>1. \A k \in mine : (\A j \in mine : j <= k) => k = last
      BY <1>2, <2>3, <2>4
    <3> QED BY <2>3, <2>4, <3>1
  <2> QED BY <1>1, <1>4, <2>2, <2>3, <2>5
<1> QED BY <1>3, <1>4

\* Every step keeps the types.
LEMMA TypedStep == TypedInv /\ [Next]_vars => TypedInv'
<1> SUFFICES ASSUME TypedInv, [Next]_vars PROVE TypedInv'
  OBVIOUS
<1> USE DEF TypedInv
<1>1. CASE Open
  <2>1. opened' \in 0..MaxConnections
    BY <1>1, IdFacts DEF Open, TypeOK
  <2>2. wire' \in Seq(Line) /\ chunk' \in Seq(Line) /\ Unnamed \in BOOLEAN
    BY <1>1, AfterFacts DEF Open, TypeOK, Unnamed
  <2>3. Lasting' /\ here' \in 0..Len(received)
    BY <1>1 DEF Open, TypeOK, Lasting, Mine
  <2>4. /\ phase' = "parsing" /\ eof' = FALSE /\ data' = {} /\ name' = Unnamed /\ parserId' = lastId
        /\ UNCHANGED <<received, lastId, latest, aborted, deaf>>
    BY <1>1 DEF Open, End, Seed
  <2> QED BY <2>1, <2>2, <2>3, <2>4 DEF TypeOK
<1>2. CASE Read
  <2>1. PICK k \in 1..MaxChunk :
          /\ k <= Len(wire)
          /\ chunk' = SubSeq(wire, 1, k)
          /\ \/ wire' = SubSeq(wire, k + 1, Len(wire))
             \/ wire' = <<LineOf(wire[k].event, "empty")>> \o SubSeq(wire, k + 1, Len(wire))
    BY <1>2 DEF Read
  <2>2. k \in 1..Len(wire) /\ wire \in Seq(Line)
    BY <2>1, IdFacts DEF TypeOK
  <2>3. chunk' \in Seq(Line) /\ SubSeq(wire, k + 1, Len(wire)) \in Seq(Line)
    BY <2>1, <2>2, CutFacts
  <2>4. wire[k] \in Line
    BY <2>2
  <2>5. <<LineOf(wire[k].event, "empty")>> \in Seq(Line)
    BY <2>4 DEF LineOf, Line
  <2>6. wire' \in Seq(Line)
    <3> DEFINE extra == <<LineOf(wire[k].event, "empty")>>
               rest == SubSeq(wire, k + 1, Len(wire))
    <3>1. extra \in Seq(Line) /\ rest \in Seq(Line) /\ (wire' = rest \/ wire' = extra \o rest)
      BY <2>1, <2>3, <2>5
    <3> HIDE DEF extra, rest
    <3>2. extra \o rest \in Seq(Line)
      BY <3>1
    <3> QED BY <3>1, <3>2
  <2>7. /\ phase' = "parsing"
        /\ UNCHANGED <<opened, eof, data, name, parserId, received, here, lastId, latest,
                       aborted, deaf>>
    BY <1>2 DEF Read, End
  <2>8. Lasting'
    BY <2>7 DEF Lasting, Mine
  <2> QED BY <2>3, <2>6, <2>7, <2>8 DEF TypeOK
<1>3. CASE TakeLine
  <2> DEFINE line == Head(chunk)
  <2>1. line \in Line /\ chunk' \in Seq(Line)
    BY <1>3, TailFacts DEF TakeLine, TypeOK
  <2> HIDE DEF line
  <2>2. line.field \in Fields /\ line.event \in Events
    BY <2>1 DEF Line, Fields
  <2>3. UNCHANGED <<opened, wire, eof, lastId, aborted, deaf>> /\ phase = "parsing"
    BY <1>3 DEF TakeLine
  <2>4. CASE line.field = "head"
    <3>1. /\ name' = (line.event \in Wanted)
          /\ parserId' = IF line.event \in Numbered THEN line.event ELSE parserId
          /\ UNCHANGED <<phase, data, received, here, latest>>
      BY <1>3, <2>4 DEF TakeLine, line
    <3>2. parserId' \in Ids /\ (parserId # None => parserId' # None)
      BY <2>2, <3>1, IdFacts DEF TypeOK
    <3>3. Lasting'
      BY <3>1, <3>2 DEF Lasting, Mine
    <3> QED BY <2>1, <2>3, <3>1, <3>2, <3>3 DEF TypeOK
  <2>5. CASE line.field \in {"first", "last"}
    <3>1. /\ data' = data \cup {[part |-> line.field, event |-> line.event]}
          /\ UNCHANGED <<phase, name, parserId, received, here, latest>>
      BY <1>3, <2>5 DEF TakeLine, line
    <3>2. data' \subseteq DataLine
      BY <2>2, <2>5, <3>1 DEF TypeOK, DataLine
    <3>3. Lasting'
      BY <3>1 DEF Lasting, Mine
    <3> QED BY <2>1, <2>3, <3>1, <3>2, <3>3 DEF TypeOK
  <2>6. CASE line.field = "empty"
    <3>1. Dispatch /\ UNCHANGED parserId
      BY <1>3, <2>6 DEF TakeLine, line
    <3> QED BY <2>1, <2>3, <3>1, DispatchTyped DEF TypeOK, Handed
  <2> QED BY <2>2, <2>4, <2>5, <2>6 DEF Fields
<1>4. CASE Flush
  BY <1>4, DispatchTyped DEF Flush, TypeOK, Handed
<1>5. CASE Leaves
  <2>0. received \in Seq(Handed) /\ here \in 0..Len(received) /\ Len(received) \in Nat
    BY DEF TypeOK, Handed
  <2>1. Len(received) \in Mine => received[Len(received)].id \in Ids
    <3>1. Len(received) \in Mine => received[Len(received)] \in Handed
      BY <2>0 DEF Mine
    <3> QED BY <3>1 DEF Handed
  <2>2. Latest(lastId) \in Ids
    BY <2>1, LatestFacts DEF TypeOK
  <2> QED BY <1>5, <2>2 DEF Leaves, Leave, End, TypeOK, Lasting, Mine
<1>6. CASE OpenFails \/ StartRead \/ ReadEnds \/ ReadFails \/ DelayOver \/ Abort
  BY <1>6 DEF OpenFails, StartRead, ReadEnds, ReadFails, DelayOver, Abort, End, TypeOK,
              Lasting, Mine
<1>7. CASE Emitted /\ ~Enough
  BY <1>7 DEF Emitted, End, TypeOK, Lasting, Mine
<1>8. Emitted \/ Close => (Emitted /\ ~Enough) \/ Leaves
  BY DEF Emitted, Close, Leave, Leaves, Connected
<1>9. CASE UNCHANGED vars
  BY <1>9 DEF vars, TypeOK, Lasting, Mine
<1> QED BY <1>1, <1>2, <1>3, <1>4, <1>5, <1>6, <1>7, <1>8, <1>9 DEF Next, Turn

LEMMA TypedInit == Init => TypedInv
<1> SUFFICES ASSUME Init PROVE TypedInv
  OBVIOUS
<1>1. TypeOK
  <2>1. opened \in 0..MaxConnections /\ parserId \in Ids /\ lastId \in Ids /\ latest \in Ids
    BY IdFacts DEF Init
  <2>2. received \in Seq([id : Ids, data : SUBSET DataLine]) /\ here \in 0..Len(received)
    BY DEF Init
  <2>3. wire \in Seq(Line) /\ chunk \in Seq(Line) /\ data \subseteq DataLine /\ name \in BOOLEAN
    BY DEF Init, Unnamed
  <2> QED BY <2>1, <2>2, <2>3 DEF Init, TypeOK
<1>2. Lasting
  BY DEF Init, Lasting, Mine
<1> QED BY <1>1, <1>2 DEF TypedInv

\* The state of the client has its type, whatever the server sends and however it
\* divides it.
THEOREM SseTyped == Spec => []TypeOK
<1>1. TypedInv => TypeOK
  BY DEF TypedInv
<1> QED BY <1>1, TypedInit, TypedStep, PTL DEF Spec
-----------------------------------------------------------------------------
(* The invariant.                                                          *)

\* A line of the stream, or the one behind its end.
Place == [field : Fields, event : Nat \ {0}]

\* What is left of this connection starts at place l and flows.
Stream(l) ==
  /\ Flows(chunk) /\ Flows(wire)
  /\ chunk # <<>> => /\ chunk[1] = l
                     /\ wire # <<>> => wire[1] = LineAfter(chunk[Len(chunk)])
  /\ chunk = <<>> /\ wire # <<>> => wire[1] = l

\* What the parser holds in front of the line l.
Held(l) ==
  IF l.field \in {"head", "first"} THEN {}
  ELSE IF l.field = "last" THEN {Part(l.event, "first")}
  ELSE Both(l.event)

\* The parser has read what comes before l, and nothing else.
Parses(l) ==
  /\ data = Held(l)
  /\ l.field # "head" => name = (l.event \in Wanted)
  /\ l.field # "head" /\ l.event \in Numbered => parserId = l.event
  /\ parserId # None => parserId <= l.event /\ (l.field = "head" => parserId < l.event)

\* Event n is ahead: nothing of it has been handed on over this connection.
Covers(n) ==
  /\ n > Begun
  /\ \A i \in Mine : \A m \in Events : Carries(i, m) => m < n

\* Something may still be handed on over this connection.
Live == Connected /\ (~eof \/ data # {})

\* The client is at a place of the stream.
Placed == Live => \E l \in Place : Stream(l) /\ Parses(l) /\ Covers(l.event)

\* A chunk is read when the last one is used up, and none is left at the end.
Stage == /\ phase = "reading" => chunk = <<>> /\ ~eof
         /\ eof => chunk = <<>>

\* What the ID of an event handed on over this connection says.
Climbs(i) ==
  /\ \A m \in Numbered : Carries(i, m) => m > Begun /\ received[i].id = m
  /\ lastId # None => received[i].id # None /\ lastId <= received[i].id
  /\ received[i].id # None =>
       /\ parserId # None /\ received[i].id <= parserId
       /\ \A j \in Mine : i < j => received[i].id <= received[j].id

\* The IDs handed on over a connection climb, from the one it was asked to go on behind.
Climbing ==
  Connected => /\ lastId # None => parserId # None /\ lastId <= parserId
               /\ \A i \in Mine : Climbs(i)

\* What was handed on before this connection.
Behind ==
  \A i \in 1..Len(received) :
    Waiting \/ (Connected /\ i \notin Mine) => \A m \in Numbered : Carries(i, m) => m <= Begun

\* What is handed on is of one event.
OneEach == \A i \in 1..Len(received) : \A m, n \in Events : Carries(i, m) /\ Carries(i, n) => m = n

\* Numbered events were handed on in the order of the stream.
Ordered ==
  \A i, j \in 1..Len(received) : i < j =>
    \A m, n \in Numbered : Carries(i, m) /\ Carries(j, n) => m < n

\* The last event of a connection is handed on when nothing more comes over it.
Entire ==
  \A i \in Mine : (\E n \in Events : received[i].data = Both(n))
                  \/ (i = Len(received) /\ eof /\ data = {})

\* What holds of the events handed on.
Order == Behind /\ OneEach /\ Ordered /\ Entire

\* The inductive invariant.
IInv == TypedInv /\ Stage /\ Placed /\ Climbing /\ Order

-----------------------------------------------------------------------------
(* The place in the stream.                                                *)

\* Data of different events, and of one.
LEMMA PartFacts ==
  /\ \A n, m, p, q : Part(n, p) = Part(m, q) <=> n = m /\ p = q
  /\ \A n, p : Part(n, p).event = n
  /\ \A l \in Place : Held(l) \subseteq Both(l.event)
  /\ \A l \in Place : Held(l) # {} => l.field \in {"last", "empty"}
  /\ \A n, m : Both(n) = Both(m) => n = m
<1>1. \A n, m, p, q : Part(n, p) = Part(m, q) <=> n = m /\ p = q
  BY DEF Part
<1>2. \A n, p : Part(n, p).event = n
  BY DEF Part
<1>3. \A l \in Place : Held(l) \subseteq Both(l.event)
  BY DEF Held, Both
<1>4. \A l \in Place : Held(l) # {} => l.field \in {"last", "empty"}
  BY DEF Held, Place, Fields
<1>5. \A n, m : Both(n) = Both(m) => n = m
  BY <1>1 DEF Both
<1> QED BY <1>1, <1>2, <1>3, <1>4, <1>5

\* The line behind a place.
LEMMA LineFacts ==
  ASSUME NEW l \in Place
  PROVE  /\ LineAfter(l) \in Place
         /\ l.field = "head" => LineAfter(l).field = "first" /\ LineAfter(l).event = l.event
         /\ l.field = "first" => LineAfter(l).field = "last" /\ LineAfter(l).event = l.event
         /\ l.field = "last" => LineAfter(l).field = "empty" /\ LineAfter(l).event = l.event
         /\ l.field = "empty" => LineAfter(l).field = "head" /\ LineAfter(l).event = l.event + 1
BY DEF LineAfter, LineOf, Place, Fields

\* Taking a line leads to the place behind it.
LEMMA StreamTakes ==
  ASSUME TypeOK, chunk # <<>>, NEW l \in Place, Stream(l), chunk' = Tail(chunk), wire' = wire
  PROVE  Head(chunk) = l /\ Stream(LineAfter(l))' /\ l.event \in Events
<1>1. /\ Head(chunk) = l /\ chunk[1] = l /\ l \in Line
      /\ Len(chunk) \in Nat \ {0} /\ chunk' \in Seq(Line) /\ Len(chunk') = Len(chunk) - 1
      /\ \A i \in 1..Len(chunk') : chunk'[i] = chunk[i + 1]
  BY TailFacts DEF Stream, TypeOK
<1>2. \A i \in 1..(Len(chunk) - 1) : chunk[i + 1] = LineAfter(chunk[i])
  BY DEF Stream, Flows
<1>3. Flows(chunk')
  <2> SUFFICES ASSUME NEW i \in 1..(Len(chunk') - 1) PROVE chunk'[i + 1] = LineAfter(chunk'[i])
    BY DEF Flows
  <2> QED BY <1>1, <1>2
<1>4. CASE chunk' # <<>>
  <2>1. Len(chunk') \in Nat \ {0}
    BY <1>1, <1>4
  <2>2. chunk'[1] = LineAfter(l) /\ chunk'[Len(chunk')] = chunk[Len(chunk)]
    BY <1>1, <1>2, <2>1
  <2> QED BY <1>1, <1>3, <1>4, <2>2 DEF Stream, Line
<1>5. CASE chunk' = <<>>
  <2>1. Len(chunk) = 1
    <3>1. Len(chunk') = 0
      BY <1>1, <1>5, EmptyFacts
    <3> QED BY <1>1, <3>1
  <2> QED BY <1>1, <1>3, <1>5, <2>1 DEF Stream, Line
<1> QED BY <1>4, <1>5

\* A chunk that is read starts at the same place.
LEMMA StreamReads ==
  ASSUME TypeOK, chunk = <<>>, NEW l \in Place, Stream(l), NEW k \in 1..Len(wire),
         chunk' = SubSeq(wire, 1, k), wire' = SubSeq(wire, k + 1, Len(wire))
  PROVE  Stream(l)'
<1>1. wire \in Seq(Line) /\ Len(wire) \in Nat /\ wire # <<>> /\ wire[1] = l
  BY DEF TypeOK, Stream
<1>2. /\ chunk' \in Seq(Line) /\ Len(chunk') = k /\ \A i \in 1..k : chunk'[i] = wire[i]
      /\ wire' \in Seq(Line) /\ Len(wire') = Len(wire) - k
      /\ \A i \in 1..(Len(wire) - k) : wire'[i] = wire[k + i]
  BY <1>1, CutFacts
<1>3. \A i \in 1..(Len(wire) - 1) : wire[i + 1] = LineAfter(wire[i])
  BY DEF Stream, Flows
<1>4. Flows(chunk')
  <2> SUFFICES ASSUME NEW i \in 1..(Len(chunk') - 1) PROVE chunk'[i + 1] = LineAfter(chunk'[i])
    BY DEF Flows
  <2>1. i \in 1..(Len(wire) - 1) /\ i \in 1..k /\ i + 1 \in 1..k
    BY <1>1, <1>2
  <2> QED BY <1>2, <1>3, <2>1
<1>5. Flows(wire')
  <2> SUFFICES ASSUME NEW i \in 1..(Len(wire') - 1) PROVE wire'[i + 1] = LineAfter(wire'[i])
    BY DEF Flows
  <2>1. k + i \in 1..(Len(wire) - 1) /\ i \in 1..(Len(wire) - k) /\ i + 1 \in 1..(Len(wire) - k)
        /\ k + (i + 1) = (k + i) + 1
    BY <1>1, <1>2
  <2> QED BY <1>2, <1>3, <2>1
<1>6. chunk'[1] = l /\ chunk' # <<>>
  BY <1>1, <1>2
<1>7. wire' # <<>> => wire'[1] = LineAfter(chunk'[Len(chunk')])
  <2> SUFFICES ASSUME wire' # <<>> PROVE wire'[1] = LineAfter(chunk'[Len(chunk')])
    OBVIOUS
  <2>1. Len(wire) - k >= 1
    BY <1>1, <1>2
  <2>2. wire'[1] = wire[k + 1] /\ chunk'[k] = wire[k] /\ k \in 1..(Len(wire) - 1)
    BY <1>1, <1>2, <2>1
  <2> QED BY <1>2, <1>3, <2>2
<1> QED BY <1>4, <1>5, <1>6, <1>7 DEF Stream
-----------------------------------------------------------------------------
(* What has been handed on.                                                *)

\* Handing on a piece of event n adds that, and takes nothing back.
LEMMA HandsOnCarries ==
  ASSUME TypeOK, HandsOn, NEW n \in Events, data \subseteq Both(n),
         NEW last, last = Len(received) + 1
  PROVE  /\ \A i \in 1..Len(received) : \A m : Carries(i, m)' <=> Carries(i, m)
         /\ \A m : Carries(last, m)' <=> m = n
         /\ \A m : Of(m) # {} => Of(m)' # {}
         /\ Of(n)' # {}
<1>1. \A i \in 1..Len(received) : \A m : Carries(i, m)' <=> Carries(i, m)
  BY HandsOnFacts DEF Carries
<1>2. \A m : Carries(last, m)' <=> m = n
  <2>1. received'[last].data = data /\ data # {}
    BY HandsOnFacts DEF HandsOn
  <2>2. \A d \in data : d.event = n
    BY PartFacts DEF Both
  <2> QED BY <2>1, <2>2 DEF Carries
<1>3. /\ \A m : Of(m) = {i \in 1..Len(received) : Carries(i, m)}
      /\ \A m : Of(m)' = {i \in 1..Len(received') : Carries(i, m)'}
  <2>1. DOMAIN received = 1..Len(received) /\ DOMAIN received' = 1..Len(received')
    BY HandsOnFacts DEF TypeOK
  <2> QED BY <2>1 DEF Of, Carries
<1>4. \A i \in 1..Len(received) : i \in 1..Len(received')
  BY HandsOnFacts
<1>5. last \in 1..Len(received')
  BY HandsOnFacts
<1> HIDE DEF Of, Carries
<1>6. ASSUME NEW m, Of(m) # {} PROVE Of(m)' # {}
  BY <1>1, <1>3, <1>4, <1>6
<1>7. Of(n)' # {}
  <2>1. last \in {i \in 1..Len(received') : Carries(i, n)'}
    BY <1>2, <1>5
  <2> QED BY <1>3, <2>1
<1> QED BY <1>1, <1>2, <1>6, <1>7
-----------------------------------------------------------------------------
(***************************************************************************)
(* Nothing is skipped, whatever is split.  What a split line ending leaves *)
(* counts as an empty line, and dispatches a piece of an event before the  *)
(* rest of it has come.  The client then has another piece than the stream *)
(* has, but some of every wanted event that it is past.                    *)
(***************************************************************************)
\* The first e lines of s are what a split line ending leaves, the others lead
\* from the place l to the place m.
Leads(s, e, l, m) ==
  /\ e \in 0..1 /\ e <= Len(s) /\ (e = 1 => s[1].field = "empty")
  /\ IF Len(s) = e THEN m = l ELSE s[e + 1] = l /\ m = LineAfter(s[Len(s)])
  /\ \A i \in (e + 1)..(Len(s) - 1) : s[i + 1] = LineAfter(s[i])

\* What is left of this connection starts at place l, but for split line endings.
Torn(l) ==
  \E m, o \in Place : \E e, f \in 0..1 : Leads(chunk, e, l, m) /\ Leads(wire, f, m, o)

\* What the client has done in front of place l: a wanted event that has begun is being
\* assembled, or some of it has been handed on.
Reached(l) ==
  /\ data \subseteq Held(l)
  /\ l.field # "head" /\ l.event \in Wanted => Of(l.event) # {} \/ (name /\ data = Held(l))
  /\ parserId # None => parserId <= l.event
  /\ \A m \in Wanted : m < l.event => Of(m) # {}

\* The client is at a place of the stream.
Somewhere == Live => \E l \in Place : Torn(l) /\ Reached(l)

\* The ID of an event handed on over this connection tells that all up to it were.
Reports == Connected => \A i \in Mine : received[i].id # None =>
                          \A m \in Wanted : m <= received[i].id => Of(m) # {}

\* The invariant for any stream, whatever is split.
TornInv == TypedInv /\ Stage /\ Somewhere /\ Reports /\ NothingIsSkipped

\* A line of a chunk or the wire is a place.
LEMMA LinesArePlaces == \A x \in Line : x \in Place /\ x.event \in Events
<1>1. \A n \in Events : n \in Nat \ {0}
  BY IdFacts
<1> QED BY <1>1 DEF Line, Place, Fields

\* Taking a line leads to the place behind it, or stays in front of it.
LEMMA LeadsTakes ==
  ASSUME NEW s \in Seq(Line), s # <<>>, NEW l \in Place, NEW m \in Place, NEW e \in 0..1,
         Leads(s, e, l, m)
  PROVE  \/ Head(s) = l /\ l.event \in Events /\ Leads(Tail(s), 0, LineAfter(l), m)
         \/ Head(s).field = "empty" /\ Leads(Tail(s), 0, l, m)
<1>1. PICK t : t = Tail(s)
  OBVIOUS
<1>2. /\ Head(s) = s[1] /\ Len(s) \in Nat \ {0} /\ Len(t) = Len(s) - 1 /\ s[1] \in Line
      /\ \A i \in 1..Len(t) : t[i] = s[i + 1]
  BY <1>1, TailFacts
<1>3. CASE e = 0
  <2>1. s[1] = l /\ m = LineAfter(s[Len(s)]) /\ \A i \in 1..(Len(s) - 1) : s[i + 1] = LineAfter(s[i])
    BY <1>2, <1>3 DEF Leads
  <2>2. CASE Len(s) = 1
    <3>1. Leads(t, 0, LineAfter(l), m)
      BY <1>2, <2>1, <2>2 DEF Leads
    <3> QED BY <1>1, <1>2, <2>1, <3>1, LinesArePlaces
  <2>3. CASE Len(s) # 1
    <3>1. t[1] = LineAfter(l) /\ t[Len(t)] = s[Len(s)] /\ Len(t) # 0
      BY <1>2, <2>1, <2>3
    <3>2. \A i \in 1..(Len(t) - 1) : t[i + 1] = LineAfter(t[i])
      BY <1>2, <2>1
    <3>3. Leads(t, 0, LineAfter(l), m)
      BY <1>2, <2>1, <3>1, <3>2 DEF Leads
    <3> QED BY <1>1, <1>2, <2>1, <3>3, LinesArePlaces
  <2> QED BY <2>2, <2>3
<1>4. CASE e = 1
  <2>1. /\ s[1].field = "empty"
        /\ IF Len(s) = 1 THEN m = l ELSE s[2] = l /\ m = LineAfter(s[Len(s)])
        /\ \A i \in 2..(Len(s) - 1) : s[i + 1] = LineAfter(s[i])
    BY <1>2, <1>4 DEF Leads
  <2>2. \A i \in 1..(Len(t) - 1) : t[i + 1] = LineAfter(t[i])
    BY <1>2, <2>1
  <2>3. IF Len(t) = 0 THEN m = l ELSE t[1] = l /\ m = LineAfter(t[Len(t)])
    BY <1>2, <2>1
  <2>4. Leads(t, 0, l, m)
    BY <1>2, <2>2, <2>3 DEF Leads
  <2> QED BY <1>1, <1>2, <2>1, <2>4
<1> QED BY <1>3, <1>4

\* A chunk that is read leads on, and so does what is left of the wire.
LEMMA LeadsReads ==
  ASSUME NEW s \in Seq(Line), NEW l \in Place, NEW o \in Place, NEW e \in 0..1,
         Leads(s, e, l, o), NEW k \in 1..Len(s)
  PROVE  \E m \in Place : /\ Leads(SubSeq(s, 1, k), e, l, m)
                          /\ Leads(SubSeq(s, k + 1, Len(s)), 0, m, o)
<1>1. PICK left : left = SubSeq(s, 1, k)
  OBVIOUS
<1>2. PICK right : right = SubSeq(s, k + 1, Len(s))
  OBVIOUS
<1>3. /\ Len(left) = k /\ \A i \in 1..k : left[i] = s[i]
      /\ Len(right) = Len(s) - k /\ \A i \in 1..(Len(s) - k) : right[i] = s[k + i]
      /\ Len(s) \in Nat /\ k \in Nat \ {0} /\ k <= Len(s)
  BY <1>1, <1>2, CutFacts
<1>4. /\ e = 1 => s[1].field = "empty"
      /\ IF Len(s) = e THEN o = l ELSE s[e + 1] = l /\ o = LineAfter(s[Len(s)])
      /\ \A i \in (e + 1)..(Len(s) - 1) : s[i + 1] = LineAfter(s[i])
  BY DEF Leads
<1>5. \A i \in (e + 1)..(Len(left) - 1) : left[i + 1] = LineAfter(left[i])
  <2> SUFFICES ASSUME NEW i \in (e + 1)..(Len(left) - 1) PROVE left[i + 1] = LineAfter(left[i])
    OBVIOUS
  <2>1. i \in (e + 1)..(Len(s) - 1) /\ i \in 1..k /\ i + 1 \in 1..k
    BY <1>3
  <2> QED BY <1>3, <1>4, <2>1
<1>6. \A i \in 1..(Len(right) - 1) : right[i + 1] = LineAfter(right[i])
  <2> SUFFICES ASSUME NEW i \in 1..(Len(right) - 1) PROVE right[i + 1] = LineAfter(right[i])
    OBVIOUS
  <2>1. k + i \in (e + 1)..(Len(s) - 1) /\ i \in 1..(Len(s) - k) /\ i + 1 \in 1..(Len(s) - k)
        /\ k + (i + 1) = (k + i) + 1
    BY <1>3
  <2>2. right[i] = s[k + i] /\ right[i + 1] = s[k + (i + 1)]
    BY <1>3, <2>1
  <2>3. s[(k + i) + 1] = LineAfter(s[k + i])
    BY <1>4, <2>1
  <2> QED BY <2>1, <2>2, <2>3
<1>7. CASE k = e
  <2>1. Leads(left, e, l, l)
    BY <1>3, <1>4, <1>5, <1>7 DEF Leads
  <2>2. IF Len(right) = 0 THEN o = l ELSE right[1] = l /\ o = LineAfter(right[Len(right)])
    BY <1>3, <1>4, <1>7
  <2>3. Leads(right, 0, l, o)
    BY <1>3, <1>6, <2>2 DEF Leads
  <2> QED BY <1>1, <1>2, <2>1, <2>3
<1>8. CASE k # e
  <2>1. k > e /\ Len(s) # e
    BY <1>3, <1>8
  <2>2. PICK m : m = LineAfter(s[k])
    OBVIOUS
  <2>3. m \in Place
    <3>1. s[k] \in Place
      BY <1>3, LinesArePlaces
    <3> QED BY <2>2, <3>1, LineFacts
  <2>4. Leads(left, e, l, m)
    BY <1>3, <1>4, <1>5, <2>1, <2>2 DEF Leads
  <2>5. IF Len(right) = 0 THEN o = m ELSE right[1] = m /\ o = LineAfter(right[Len(right)])
    <3>1. CASE k = Len(s)
      BY <1>3, <1>4, <2>1, <2>2, <3>1
    <3>2. CASE k < Len(s)
      <4>1. k \in (e + 1)..(Len(s) - 1) /\ 1 \in 1..(Len(s) - k) /\ Len(s) - k \in 1..(Len(s) - k)
            /\ k + (Len(s) - k) = Len(s)
        BY <1>3, <2>1, <3>2
      <4>2. right[1] = s[k + 1] /\ right[Len(right)] = s[Len(s)] /\ s[k + 1] = LineAfter(s[k])
        BY <1>3, <1>4, <4>1
      <4> QED BY <1>3, <1>4, <2>1, <2>2, <3>2, <4>2
    <3> QED BY <1>3, <3>1, <3>2
  <2>6. Leads(right, 0, m, o)
    BY <1>3, <1>6, <2>5 DEF Leads
  <2> QED BY <1>1, <1>2, <2>3, <2>4, <2>6
<1> QED BY <1>7, <1>8

\* The rest of a line ending in front of the wire.
LEMMA LeadsSplit ==
  ASSUME NEW s \in Seq(Line), NEW x \in Line, x.field = "empty", NEW l \in Place, NEW m \in Place,
         Leads(s, 0, l, m)
  PROVE  Leads(<<x>> \o s, 1, l, m)
<1>1. PICK t : t = <<x>> \o s
  OBVIOUS
<1>2. Len(s) \in Nat /\ Len(t) = Len(s) + 1 /\ t[1] = x /\ \A i \in 1..Len(s) : t[i + 1] = s[i]
  BY <1>1
<1>3. /\ IF Len(s) = 0 THEN m = l ELSE s[1] = l /\ m = LineAfter(s[Len(s)])
      /\ \A i \in 1..(Len(s) - 1) : s[i + 1] = LineAfter(s[i])
  BY DEF Leads
<1>4. IF Len(t) = 1 THEN m = l ELSE t[2] = l /\ m = LineAfter(t[Len(t)])
  BY <1>2, <1>3
<1>5. \A i \in 2..(Len(t) - 1) : t[i + 1] = LineAfter(t[i])
  <2> SUFFICES ASSUME NEW i \in 2..(Len(t) - 1) PROVE t[i + 1] = LineAfter(t[i])
    OBVIOUS
  <2>1. i - 1 \in 1..(Len(s) - 1) /\ t[i] = s[i - 1] /\ t[i + 1] = s[(i - 1) + 1]
    BY <1>2
  <2> QED BY <1>3, <2>1
<1> QED BY <1>1, <1>2, <1>4, <1>5 DEF Leads

\* The steps that hand nothing on and do not begin or end a connection.
LEMMA NothingHandedOn ==
  ASSUME UNCHANGED <<received, here, lastId>>, Connected' => Connected
  PROVE  /\ Reports => Reports'
         /\ NothingIsSkipped => NothingIsSkipped'
         /\ \A n : Of(n)' = Of(n)
<1>1. Mine' = Mine /\ \A n : Of(n)' = Of(n)
  BY DEF Mine, Of
<1> QED BY <1>1 DEF Reports, NothingIsSkipped

\* Handing on a piece of an event at its place.
LEMMA TornHandsOn ==
  ASSUME TypedInv, Reports, NothingIsSkipped, HandsOn, NEW l \in Place, Reached(l), Connected,
         UNCHANGED <<lastId, parserId>>
  PROVE  Reports' /\ NothingIsSkipped' /\ \A m \in Wanted : m <= l.event => Of(m)' # {}
<1>last. PICK last : last = Len(received) + 1
  OBVIOUS
<1> USE DEF TypedInv
<1>1. data \subseteq Both(l.event) /\ data # {}
  BY PartFacts DEF Reached, HandsOn
<1>2. l.event \in Events
  <2>1. PICK d \in data : d \in Both(l.event) /\ d \in DataLine
    BY <1>1 DEF TypeOK
  <2> QED BY <2>1, PartFacts DEF Both, DataLine
<1>3. /\ \A m : Of(m) # {} => Of(m)' # {}
      /\ Of(l.event)' # {}
  BY <1>1, <1>2, <1>last, HandsOnCarries
<1>4. l.event \in Nat /\ \A m \in Wanted : m \in Nat
  BY <1>2, IdFacts
<1>5. \A m \in Wanted : m <= l.event => Of(m)' # {}
  BY <1>3, <1>4 DEF Reached
<1>6. ASSUME NEW i \in Mine', received'[i].id # None, NEW m \in Wanted, m <= received'[i].id
      PROVE  Of(m)' # {}
  <2>1. CASE i = last
    <3>1. received'[i].id = parserId
      BY <1>last, <2>1, HandsOnFacts
    <3>2. parserId \in Nat /\ parserId <= l.event
      BY <1>6, <3>1, IdFacts DEF Reached, TypeOK
    <3> QED BY <1>4, <1>5, <1>6, <3>1, <3>2
  <2>2. CASE i \in Mine /\ i \in 1..Len(received)
    <3>1. received'[i] = received[i]
      BY <2>2, HandsOnFacts
    <3> QED BY <1>3, <1>6, <2>2, <3>1 DEF Reports
  <2> QED BY <1>last, <2>1, <2>2, HandsOnFacts
<1> QED BY <1>3, <1>5, <1>6 DEF Reports, NothingIsSkipped

\* A line of the stream is taken, or the rest of a line ending.
LEMMA TornTakes ==
  ASSUME TornInv, TakeLine, TypedInv'
  PROVE  TornInv'
<1> USE DEF TornInv
<1>1. /\ phase = "parsing" /\ chunk # <<>> /\ ~eof /\ chunk' = Tail(chunk) /\ Live /\ Connected
      /\ UNCHANGED <<wire, eof, lastId>>
  BY DEF TakeLine, Stage, Live, Connected
<1>2. PICK l \in Place : Torn(l) /\ Reached(l)
  BY <1>1 DEF Somewhere
<1>3. PICK m \in Place, o \in Place, e \in 0..1, f \in 0..1 :
        Leads(chunk, e, l, m) /\ Leads(wire, f, m, o)
  BY <1>2 DEF Torn
<1>4. PICK next : next = LineAfter(l)
  OBVIOUS
<1>5. next \in Place /\ l.event \in Nat \ {0}
  BY <1>4, LineFacts DEF Place
<1>6. \/ Head(chunk) = l /\ l.event \in Events /\ Torn(next)'
      \/ Head(chunk).field = "empty" /\ Torn(l)'
  <2>1. \/ Head(chunk) = l /\ l.event \in Events /\ Leads(chunk', 0, next, m)
        \/ Head(chunk).field = "empty" /\ Leads(chunk', 0, l, m)
    BY <1>1, <1>3, <1>4, LeadsTakes DEF TypedInv, TypeOK
  <2> QED BY <1>1, <1>3, <2>1 DEF Torn
<1>7. phase' # "reading" => Stage'
  BY <1>1 DEF Stage
<1>8. /\ \A id \in Ids : id # None => id \in Nat
      /\ parserId \in Ids /\ parserId' \in Ids /\ \A n \in Wanted : n \in Nat
  BY IdFacts DEF TypedInv, TypeOK
<1>9. ASSUME UNCHANGED <<phase, received, here>>
      PROVE  /\ Reports' /\ NothingIsSkipped' /\ Stage' /\ (\A n : Of(n)' = Of(n))
             /\ \A k : k \in Place /\ Torn(k)' /\ Reached(k)' => Somewhere'
  BY <1>1, <1>7, <1>9, NothingHandedOn DEF Somewhere, Connected
<1>10. CASE Head(chunk) = l /\ l.field = "head" /\ Torn(next)'
  <2>1. /\ name' = (l.event \in Wanted)
        /\ parserId' = IF l.event \in Numbered THEN l.event ELSE parserId
        /\ UNCHANGED <<phase, data, received, here, latest>>
    BY <1>10 DEF TakeLine
  <2>2. next.field = "first" /\ next.event = l.event
    BY <1>4, <1>10, LineFacts
  <2>3. Reached(next)'
    <3>1. data' = Held(next) /\ Held(next) = {}
      BY <1>2, <1>10, <2>1, <2>2 DEF Reached, Held
    <3>2. parserId' # None => parserId' <= l.event
      BY <1>2, <1>5, <2>1 DEF Reached
    <3> QED BY <1>2, <1>9, <2>1, <2>2, <3>1, <3>2 DEF Reached
  <2> QED BY <1>5, <1>9, <1>10, <2>1, <2>3
<1>11. CASE Head(chunk) = l /\ l.field \in {"first", "last"} /\ Torn(next)'
  <2>1. /\ data' = data \cup {Part(l.event, l.field)}
        /\ UNCHANGED <<phase, name, parserId, received, here, latest>>
    BY <1>11 DEF TakeLine, Part
  <2>2. next.event = l.event /\ next.field = IF l.field = "first" THEN "last" ELSE "empty"
    BY <1>4, <1>11, LineFacts
  <2>3. Reached(next)'
    <3>1. data' \subseteq Held(next) /\ (data = Held(l) => data' = Held(next))
      BY <1>2, <1>11, <2>1, <2>2 DEF Reached, Held, Both
    <3> QED BY <1>2, <1>9, <1>11, <2>1, <2>2, <3>1 DEF Reached
  <2> QED BY <1>5, <1>9, <1>11, <2>1, <2>3
<1>12. CASE Head(chunk).field = "empty"
  <2>1. Dispatch /\ UNCHANGED parserId
    BY <1>12 DEF TakeLine
  <2>2. PICK k \in Place : /\ Torn(k)'
                           /\ k = l \/ (k.field = "head" /\ k.event = l.event + 1 /\ l.field = "empty")
    BY <1>4, <1>5, <1>6, <1>12, LineFacts
  <2>3. k.event \in Nat /\ (parserId' # None => parserId' <= k.event)
        /\ (k.field # "head" => k = l)
    BY <1>2, <1>5, <1>8, <2>1, <2>2 DEF Reached
  <2>4. CASE UNCHANGED <<phase, data, name, received, here>> /\ data = {}
    <3>1. \A n \in Wanted : n < k.event => Of(n)' # {}
      <4>1. CASE k = l
        BY <1>2, <1>9, <2>4, <4>1 DEF Reached
      <4>2. CASE k # l
        <5>1. l.event \in Wanted => Of(l.event) # {}
          BY <1>2, <2>2, <2>4, <4>2 DEF Reached, Held, Both
        <5> QED BY <1>2, <1>5, <1>8, <1>9, <2>2, <2>4, <4>2, <5>1 DEF Reached
      <4> QED BY <4>1, <4>2
    <3>2. k.field # "head" /\ k.event \in Wanted => Of(k.event)' # {} \/ (name' /\ data' = Held(k))
      BY <1>2, <1>9, <2>3, <2>4 DEF Reached
    <3>3. Reached(k)'
      BY <2>3, <2>4, <3>1, <3>2 DEF Reached
    <3> QED BY <1>9, <2>2, <2>4, <3>3
  <2>5. CASE ~name /\ UNCHANGED <<phase, received, here>> /\ data' = {} /\ data # {}
    <3>1. l.event \in Wanted => Of(l.event) # {}
      <4>1. l.field # "head"
        BY <1>2, <2>5 DEF Reached, Held
      <4> QED BY <1>2, <2>5, <4>1 DEF Reached
    <3>2. \A n \in Wanted : n < k.event => Of(n)' # {}
      BY <1>2, <1>5, <1>8, <1>9, <2>2, <2>5, <3>1 DEF Reached
    <3>3. Reached(k)'
      BY <1>9, <2>3, <2>5, <3>1, <3>2 DEF Reached
    <3> QED BY <1>9, <2>2, <2>5, <3>3
  <2>6. CASE HandsOn /\ phase' = "emitting"
    <3>1. Reports' /\ NothingIsSkipped' /\ \A n \in Wanted : n <= l.event => Of(n)' # {}
      BY <1>1, <1>2, <2>1, <2>6, TornHandsOn
    <3>2. \A n \in Wanted : n < k.event => Of(n)' # {}
      BY <1>5, <1>8, <2>2, <3>1
    <3>3. data' = {}
      BY <2>6 DEF HandsOn
    <3>4. k.field # "head" /\ k.event \in Wanted => Of(k.event)' # {}
      BY <1>5, <2>3, <3>1
    <3>5. Reached(k)'
      BY <2>3, <3>2, <3>3, <3>4 DEF Reached
    <3> QED BY <1>7, <2>2, <2>6, <3>1, <3>5 DEF Somewhere
  <2> QED BY <2>1, <2>4, <2>5, <2>6, DispatchFacts DEF TypedInv
<1> QED BY <1>6, <1>10, <1>11, <1>12 DEF Place, Fields

\* A chunk is read: the place stays, whatever is split.
LEMMA TornReads == ASSUME TornInv, Read, TypedInv' PROVE TornInv'
<1> USE DEF TornInv
<1>1. /\ phase = "reading" /\ phase' = "parsing" /\ chunk = <<>> /\ ~eof /\ Live
      /\ UNCHANGED <<eof, data, name, parserId, received, here, lastId>>
  BY DEF Read, End, Stage, Live, Connected
<1>2. PICK k \in 1..MaxChunk :
        /\ k <= Len(wire) /\ chunk' = SubSeq(wire, 1, k)
        /\ \/ wire' = SubSeq(wire, k + 1, Len(wire))
           \/ wire' = <<LineOf(wire[k].event, "empty")>> \o SubSeq(wire, k + 1, Len(wire))
  BY DEF Read
<1>3. k \in 1..Len(wire) /\ wire \in Seq(Line)
  BY <1>2, IdFacts DEF TypedInv, TypeOK
<1>4. PICK l \in Place : Torn(l) /\ Reached(l)
  BY <1>1 DEF Somewhere
<1>5. PICK o \in Place, f \in 0..1 : Leads(wire, f, l, o)
  <2>1. Len(chunk) = 0
    BY <1>1, EmptyFacts DEF TypedInv, TypeOK
  <2>2. \A e \in 0..1, m \in Place : Leads(chunk, e, l, m) => m = l
    BY <2>1 DEF Leads
  <2> QED BY <1>4, <2>2 DEF Torn
<1>6. PICK m \in Place : Leads(chunk', f, l, m) /\ Leads(SubSeq(wire, k + 1, Len(wire)), 0, m, o)
  BY <1>2, <1>3, <1>5, LeadsReads
<1>7. \E g \in 0..1 : Leads(wire', g, m, o)
  <2>1. PICK rest : rest = SubSeq(wire, k + 1, Len(wire))
    OBVIOUS
  <2>2. PICK x : x = LineOf(wire[k].event, "empty")
    OBVIOUS
  <2>3. rest \in Seq(Line) /\ Leads(rest, 0, m, o)
    BY <1>3, <1>6, <2>1, CutFacts
  <2>4. x \in Line /\ x.field = "empty"
    <3>1. wire[k] \in Line
      BY <1>3
    <3> QED BY <2>2, <3>1 DEF LineOf, Line
  <2>5. Leads(<<x>> \o rest, 1, m, o)
    BY <2>3, <2>4, LeadsSplit
  <2>6. wire' = rest \/ wire' = <<x>> \o rest
    BY <1>2, <2>1, <2>2
  <2>7. CASE wire' = rest
    <3>1. Leads(wire', 0, m, o)
      BY <2>3, <2>7
    <3> QED BY <3>1
  <2>8. CASE wire' = <<x>> \o rest
    <3>1. Leads(wire', 1, m, o)
      BY <2>5, <2>8
    <3> QED BY <3>1
  <2> QED BY <2>6, <2>7, <2>8
<1>8. Torn(l)'
  BY <1>5, <1>6, <1>7 DEF Torn
<1>9. /\ Reports' /\ NothingIsSkipped' /\ \A n : Of(n)' = Of(n)
  BY <1>1, NothingHandedOn DEF Connected
<1>10. Reached(l)'
  BY <1>1, <1>4, <1>9 DEF Reached
<1> QED BY <1>1, <1>8, <1>9, <1>10 DEF Somewhere, Stage

\* A connection starts behind the last ID.
LEMMA TornOpens == ASSUME TornInv, Open, TypedInv' PROVE TornInv'
<1> USE DEF TornInv
<1>1. /\ phase' = "parsing" /\ chunk' = <<>> /\ eof' = FALSE /\ data' = {}
      /\ wire' = After(lastId) /\ parserId' = lastId /\ here' = 0
      /\ UNCHANGED <<received, lastId>>
  BY DEF Open, End, Seed
<1>2. Mine' = {} /\ \A n : Of(n)' = Of(n)
  <2>1. Len(received) \in Nat
    BY DEF TypedInv, TypeOK
  <2> QED BY <1>1, <2>1 DEF Mine, Of
<1>3. lastId \in Ids /\ Begun \in Nat
  BY IdFacts DEF TypedInv, TypeOK, Begun
<1>4. PICK l : l = LineOf(Begun + 1, "head")
  OBVIOUS
<1>5. l \in Place /\ l.field = "head" /\ l.event = Begun + 1
  BY <1>3, <1>4 DEF LineOf, Place, Fields
<1>6. Torn(l)'
  <2>1. PICK s : s = After(lastId)
    OBVIOUS
  <2>2. /\ s \in Seq(Line) /\ Len(s) \in Nat /\ Flows(s) /\ (s # <<>> => s[1] = l)
    BY <1>3, <1>4, <2>1, AfterFacts DEF Begun
  <2>3. Leads(chunk', 0, l, l)
    <3>1. Len(chunk') = 0
      BY <1>1
    <3> QED BY <3>1 DEF Leads
  <2>4. \E o \in Place : Leads(s, 0, l, o)
    <3>1. CASE s = <<>>
      <4>1. Len(s) = 0
        BY <3>1
      <4> QED BY <1>5, <4>1 DEF Leads
    <3>2. CASE s # <<>>
      <4>1. Len(s) # 0 /\ s[Len(s)] \in Place
        <5>1. Len(s) # 0
          BY <2>2, <3>2, EmptyFacts
        <5>2. s[Len(s)] \in Line
          BY <2>2, <5>1
        <5> QED BY <5>1, <5>2, LinesArePlaces
      <4>2. LineAfter(s[Len(s)]) \in Place
        BY <4>1, LineFacts
      <4> QED BY <2>2, <3>2, <4>1, <4>2 DEF Leads, Flows
    <3> QED BY <3>1, <3>2
  <2> QED BY <1>1, <1>5, <2>1, <2>3, <2>4 DEF Torn
<1>7. Reached(l)'
  <2>1. parserId' # None => parserId' <= l.event
    BY <1>1, <1>3, <1>5, IdFacts DEF Begun
  <2>2. ASSUME NEW m \in Wanted, m < l.event PROVE Of(m) # {}
    <3>1. m \in Nat \ {0}
      BY IdFacts
    <3>2. m <= Begun /\ Begun # 0
      BY <1>3, <1>5, <2>2, <3>1
    <3> QED BY <3>2 DEF NothingIsSkipped, Begun
  <2> QED BY <1>1, <1>2, <1>5, <2>1, <2>2 DEF Reached, Held
<1>8. Stage'
  BY <1>1 DEF Stage
<1> QED BY <1>1, <1>2, <1>5, <1>6, <1>7, <1>8 DEF Somewhere, Reports, NothingIsSkipped

\* What came before the end of a connection is handed on, or was not wanted.
LEMMA TornFlushes == ASSUME TornInv, Flush, TypedInv' PROVE TornInv'
<1> USE DEF TornInv
<1>1. /\ phase = "parsing" /\ chunk = <<>> /\ eof /\ data # {} /\ Dispatch /\ Live /\ Connected
      /\ UNCHANGED <<wire, chunk, eof, parserId, lastId>>
  BY DEF Flush, Live, Connected
<1>2. PICK l \in Place : Reached(l)
  BY <1>1 DEF Somewhere
<1>3. phase' \in {"parsing", "emitting"} /\ data' = {}
  BY <1>1, DispatchFacts DEF TypedInv, HandsOn
<1>4. Stage' /\ Somewhere'
  BY <1>1, <1>3 DEF Stage, Somewhere, Live
<1>5. CASE UNCHANGED <<received, here>>
  BY <1>1, <1>4, <1>5, NothingHandedOn
<1>6. CASE HandsOn
  BY <1>1, <1>2, <1>4, <1>6, TornHandsOn
<1> QED BY <1>1, <1>5, <1>6, DispatchFacts DEF TypedInv

\* The steps that look at no line keep it; the last ID tells what was handed on.
LEMMA TornRests == ASSUME TornInv, Idles \/ Leaves, TypedInv' PROVE TornInv'
<1> USE DEF TornInv
<1>1. CASE Idles
  <2>1. /\ UNCHANGED <<wire, chunk, data, name, parserId, received, here, lastId>>
        /\ Connected' => Connected
    BY <1>1 DEF Idles
  <2>2. Reports' /\ NothingIsSkipped' /\ \A n : Of(n)' = Of(n)
    BY <2>1, NothingHandedOn
  <2>3. Stage' /\ (Live' => Live)
    BY <1>1 DEF Idles, Stage, Live, Connected
  <2>4. \A l : (Torn(l) => Torn(l)') /\ (Reached(l) => Reached(l)')
    BY <2>1, <2>2 DEF Torn, Reached
  <2> QED BY <2>2, <2>3, <2>4 DEF Somewhere
<1>2. CASE Leaves
  <2>1. /\ Connected /\ lastId' = Latest(lastId) /\ ~Connected'
        /\ UNCHANGED <<chunk, eof, received, here>> /\ phase' # "reading"
    BY <1>2 DEF Leaves, Leave, End, Connected
  <2>2. Mine' = Mine /\ \A n : Of(n)' = Of(n)
    BY <2>1 DEF Mine, Of
  <2>3. Stage' /\ Somewhere' /\ Reports'
    BY <2>1 DEF Stage, Somewhere, Live, Reports
  <2>4. NothingIsSkipped'
    BY <2>1, <2>2, LatestFacts DEF NothingIsSkipped, Reports
  <2> QED BY <2>3, <2>4
<1> QED BY <1>1, <1>2

\* Asking the server to go on behind an event never skips one that was wanted, even
\* when chunks split line endings and events with them.
THEOREM SseNothingIsSkipped == Spec => []NothingIsSkipped
<1>1. Init => TornInv
  <2> SUFFICES ASSUME Init PROVE TornInv
    OBVIOUS
  <2>1. /\ phase = "opening" /\ received = <<>> /\ lastId = None /\ chunk = <<>> /\ eof = FALSE
    BY DEF Init
  <2> QED BY <2>1, TypedInit DEF TornInv, Stage, Somewhere, Live, Reports, Connected, NothingIsSkipped
<1>2. TornInv /\ [Next]_vars => TornInv'
  <2> SUFFICES ASSUME TornInv, [Next]_vars PROVE TornInv'
    OBVIOUS
  <2>1. TypedInv'
    BY TypedStep DEF TornInv
  <2> QED BY <2>1, Steps, TornRests, TornOpens, TornReads, TornTakes, TornFlushes
<1>3. TornInv => NothingIsSkipped
  BY DEF TornInv
<1> QED BY <1>1, <1>2, <1>3, PTL DEF Spec
-----------------------------------------------------------------------------
(* Streams none of whose line endings is split: the order.                 *)

\* Handing on event n keeps the order, and what the IDs say.
LEMMA HandsOnKeeps ==
  ASSUME TypedInv, TypedInv', Climbing, Order, HandsOn,
         NEW l \in Place, l.event \in Events, Parses(l), Covers(l.event),
         phase = "parsing", phase' = "emitting", UNCHANGED <<lastId, parserId, eof>>,
         l.field = "empty" \/ eof
  PROVE  Climbing' /\ Order' /\ Covers(l.event + 1)'
<1> DEFINE n == l.event
<1>last. PICK last : last = Len(received) + 1
  OBVIOUS
<1> USE DEF TypedInv
<1>0. n \in Events /\ n \in Nat \ {0} /\ Begun' = Begun /\ Begun \in Nat
  BY IdFacts DEF Place, Begun, TypeOK
<1>1. data = Held(l) /\ data # {} /\ data \subseteq Both(n) /\ l.field \in {"last", "empty"}
  BY PartFacts DEF Parses, HandsOn
<1>2. /\ n \in Numbered => parserId = n
      /\ parserId # None => parserId <= n
  BY <1>1 DEF Parses
<1> HIDE DEF n
<1>4. /\ \A i \in 1..Len(received) : \A m : Carries(i, m)' <=> Carries(i, m)
      /\ \A m : Carries(last, m)' <=> m = n
  BY <1>0, <1>1, <1>last, HandsOnCarries
<1>5. /\ Len(received') = last /\ last \in Nat
      /\ \A i \in 1..Len(received) : received'[i] = received[i]
      /\ received'[last].id = parserId /\ received'[last].data = data
      /\ \A i \in Mine' : i = last \/ (i \in Mine /\ i \in 1..Len(received))
      /\ Mine \subseteq Mine' /\ Mine \subseteq 1..Len(received) /\ Len(received) \in Nat
      /\ \A i \in 1..Len(received') : i \in 1..Len(received) \/ i = last
  BY <1>last, HandsOnFacts
<1>6. /\ \A i \in Mine : \A m \in Events : Carries(i, m) => m < n
      /\ n > Begun
  BY DEF Covers, n
<1>8. \A i \in 1..Len(received) : \A m \in Numbered : Carries(i, m) => m < n \/ m <= Begun
  BY <1>6, IdFacts DEF Order, Behind, Connected
<1>9. Connected
  BY DEF Connected
<1>10. ASSUME NEW i \in Mine' PROVE Climbs(i)'
  <2>1. CASE i = last
    <3>1. \A m \in Numbered : Carries(i, m)' => m > Begun /\ received'[i].id = m
      BY <1>2, <1>4, <1>5, <1>6, <2>1
    <3>2. lastId # None => received'[i].id # None /\ lastId <= received'[i].id
      BY <1>5, <1>9, <2>1 DEF Climbing
    <3>3. ASSUME received'[i].id # None
          PROVE  /\ parserId # None /\ received'[i].id <= parserId
                 /\ \A j \in Mine' : i < j => received'[i].id <= received'[j].id
      <4>1. parserId # None /\ parserId \in Nat /\ parserId <= n /\ received'[i].id = parserId
        BY <1>2, <1>5, <2>1, <3>3, IdFacts DEF TypeOK
      <4>2. \A j \in Mine' : ~(i < j)
        BY <1>last, <1>5, <2>1
      <4> QED BY <1>0, <4>1, <4>2
    <3> QED BY <1>0, <3>1, <3>2, <3>3 DEF Climbs
  <2>2. CASE i \in Mine /\ i \in 1..Len(received)
    <3>1. Climbs(i) /\ received'[i] = received[i]
      BY <1>5, <1>9, <2>2 DEF Climbing
    <3>2. \A m \in Numbered : Carries(i, m)' => m > Begun /\ received'[i].id = m
      BY <1>4, <2>2, <3>1 DEF Climbs
    <3>3. lastId # None => received'[i].id # None /\ lastId <= received'[i].id
      BY <3>1 DEF Climbs
    <3>4. ASSUME received'[i].id # None
          PROVE  /\ parserId # None /\ received'[i].id <= parserId
                 /\ \A j \in Mine' : i < j => received'[i].id <= received'[j].id
      <4>1. /\ parserId # None /\ received[i].id <= parserId
            /\ \A j \in Mine : i < j => received[i].id <= received[j].id
        BY <3>1, <3>4 DEF Climbs
      <4>2. \A j \in Mine' : i < j => received'[i].id <= received'[j].id
        BY <1>5, <3>1, <4>1
      <4> QED BY <1>4, <3>1, <4>1, <4>2
    <3> QED BY <1>0, <3>2, <3>3, <3>4 DEF Climbs
  <2> QED BY <1>5, <2>1, <2>2
<1>11. Climbing'
  BY <1>9, <1>10 DEF Climbing
<1>12. Behind'
  <2> SUFFICES ASSUME NEW i \in 1..Len(received'), i \notin Mine', NEW m \in Numbered, Carries(i, m)'
               PROVE  m <= Begun
    BY <1>0 DEF Behind, Waiting
  <2>1. i \in 1..Len(received) /\ i \notin Mine
    <3>1. last \in Mine'
      BY <1>last, HandsOnFacts DEF Mine, TypeOK, HandsOn
    <3> QED BY <1>5, <3>1
  <2> QED BY <1>4, <1>9, <2>1 DEF Order, Behind
<1>13. OneEach'
  BY <1>4, <1>5 DEF Order, OneEach
<1>14. Ordered'
  <2> SUFFICES ASSUME NEW i \in 1..Len(received'), NEW j \in 1..Len(received'), i < j,
                      NEW m \in Numbered, NEW k \in Numbered, Carries(i, m)', Carries(j, k)'
               PROVE  m < k
    BY DEF Ordered
  <2>1. i \in 1..Len(received)
    BY <1>5
  <2>2. CASE j \in 1..Len(received)
    BY <1>4, <2>1, <2>2 DEF Order, Ordered
  <2>3. CASE j = last
    <3>1. k = n /\ Carries(i, m)
      BY <1>4, <2>1, <2>3
    <3>2. m \in Nat
      BY IdFacts
    <3> QED BY <1>0, <1>6, <1>8, <2>1, <3>1, <3>2
  <2> QED BY <1>5, <2>2, <2>3
<1>15. Entire'
  <2> SUFFICES ASSUME NEW i \in Mine'
               PROVE  \/ \E m \in Events : received'[i].data = Both(m)
                      \/ i = Len(received') /\ eof' /\ data' = {}
    BY DEF Entire
  <2>1. CASE i = last
    <3>1. CASE l.field = "empty"
      <4>1. Held(l) = Both(n)
        BY <3>1 DEF Held, n
      <4> QED BY <1>0, <1>1, <1>5, <2>1, <4>1
    <3>2. CASE eof
      BY <1>5, <2>1, <3>2 DEF HandsOn
    <3> QED BY <3>1, <3>2
  <2>2. CASE i \in Mine /\ i \in 1..Len(received)
    BY <1>1, <1>5, <2>2 DEF Order, Entire
  <2> QED BY <1>5, <2>1, <2>2
<1>16. Covers(n + 1)'
  <2>1. n + 1 > Begun'
    BY <1>0, <1>6
  <2>2. \A i \in Mine' : \A m \in Events : Carries(i, m)' => m < n + 1
    <3>1. \A m \in Events : m \in Nat
      BY IdFacts
    <3> QED BY <1>0, <1>4, <1>5, <1>6, <3>1
  <2> QED BY <2>1, <2>2 DEF Covers
<1> QED BY <1>11, <1>12, <1>13, <1>14, <1>15, <1>16 DEF Order, n
-----------------------------------------------------------------------------
(* Each kind of step keeps the invariant.                                  *)

\* Nothing has been handed on that the invariant would speak of otherwise.
LEMMA IdlesKeep == ASSUME IInv, Idles, TypedInv' PROVE IInv'
<1> USE DEF IInv
<1>1. /\ Mine' = Mine /\ Begun' = Begun
      /\ \A i, m : Carries(i, m)' <=> Carries(i, m)
      /\ UNCHANGED <<wire, chunk, data, name, parserId, received, here, lastId>>
  BY DEF Idles, Mine, Begun, Carries
<1>2. Stage'
  BY <1>1 DEF Idles, Stage
<1>3. Live' => Live
  BY <1>1 DEF Idles, Live, Stage, Connected
<1>4. Placed'
  <2>1. \A l \in Place : Stream(l) => Stream(l)'
    BY <1>1 DEF Stream
  <2>2. \A l \in Place : Parses(l) => Parses(l)'
    BY <1>1 DEF Parses
  <2>3. \A n : Covers(n) => Covers(n)'
    BY <1>1 DEF Covers
  <2> QED BY <1>3, <2>1, <2>2, <2>3 DEF Placed
<1>5. Climbing'
  <2>1. \A i \in Mine : Climbs(i) => Climbs(i)'
    BY <1>1 DEF Climbs
  <2> QED BY <1>1, <2>1 DEF Climbing, Idles
<1>6. Behind'
  BY <1>1 DEF Order, Behind, Idles
<1>7. OneEach' /\ Ordered'
  BY <1>1 DEF Order, OneEach, Ordered
<1>8. Entire'
  BY <1>1 DEF Order, Entire, Idles
<1> QED BY <1>2, <1>4, <1>5, <1>6, <1>7, <1>8 DEF Order

\* A connection starts behind the last ID, and nothing has come over it.
LEMMA OpenKeeps == ASSUME IInv, Open, TypedInv' PROVE IInv'
<1> USE DEF IInv
<1>1. /\ phase = "opening" /\ phase' = "parsing" /\ chunk' = <<>> /\ eof' = FALSE /\ data' = {}
      /\ wire' = After(lastId) /\ parserId' = lastId /\ here' = 0
      /\ UNCHANGED <<received, lastId>>
  BY DEF Open, End, Seed
<1>2. Mine' = {}
  <2>1. Len(received) \in Nat
    BY DEF TypedInv, TypeOK
  <2> QED BY <1>1, <2>1 DEF Mine
<1>3. Begun' = Begun /\ \A i, m : Carries(i, m)' <=> Carries(i, m)
  BY <1>1 DEF Begun, Carries
<1>4. lastId \in Ids /\ Begun \in Nat
  BY IdFacts DEF TypedInv, TypeOK, Begun
<1>5. PICK l : l = LineOf(Begun + 1, "head")
  OBVIOUS
<1>6. l \in Place /\ l.field = "head" /\ l.event = Begun + 1
  BY <1>4, <1>5 DEF LineOf, Place, Fields
<1>7. Stream(l)'
  <2>1. Flows(wire') /\ (wire' # <<>> => wire'[1] = l)
    BY <1>1, <1>4, <1>5, AfterFacts DEF Begun
  <2>2. Flows(chunk')
    BY <1>1 DEF Flows
  <2> QED BY <1>1, <2>1, <2>2 DEF Stream
<1>8. Parses(l)'
  <2>1. parserId' # None => parserId' <= l.event /\ parserId' < l.event
    BY <1>1, <1>4, <1>6, IdFacts DEF Begun
  <2> QED BY <1>1, <1>6, <2>1 DEF Parses, Held
<1>9. Covers(l.event)'
  BY <1>2, <1>3, <1>4, <1>6 DEF Covers
<1>10. Placed'
  BY <1>6, <1>7, <1>8, <1>9 DEF Placed
<1>11. Climbing'
  BY <1>1, <1>2, <1>4, IdFacts DEF Climbing
<1>12. Behind'
  BY <1>1, <1>2, <1>3 DEF Order, Behind, Waiting
<1>13. OneEach' /\ Ordered' /\ Entire'
  BY <1>1, <1>2, <1>3 DEF Order, OneEach, Ordered, Entire
<1> QED BY <1>1, <1>10, <1>11, <1>12, <1>13 DEF Stage, Order

\* A step on the parser alone: the received events mean what they meant.
Parser == UNCHANGED <<received, here, lastId, eof>> /\ Connected /\ Connected'

LEMMA ParserKeeps ==
  ASSUME Parser
  PROVE  /\ Mine' = Mine /\ Begun' = Begun
         /\ Behind => Behind'
         /\ OneEach => OneEach'
         /\ Ordered => Ordered'
         /\ \A n : Covers(n) => Covers(n)'
         /\ \A i, m : Carries(i, m)' <=> Carries(i, m)
<1>1. /\ Mine' = Mine /\ Begun' = Begun
      /\ \A i, m : Carries(i, m)' <=> Carries(i, m)
  BY DEF Parser, Mine, Begun, Carries
<1>2. Behind => Behind'
  BY <1>1 DEF Parser, Behind, Connected, Waiting
<1>3. OneEach => OneEach'
  BY <1>1 DEF Parser, OneEach
<1>4. Ordered => Ordered'
  BY <1>1 DEF Parser, Ordered
<1>5. \A n : Covers(n) => Covers(n)'
  BY <1>1 DEF Covers
<1> QED BY <1>1, <1>2, <1>3, <1>4, <1>5

\* When the ID of the parser grows or stays, the IDs climb on.
LEMMA ClimbingKeeps ==
  ASSUME TypedInv, TypedInv', Parser, Climbing,
         parserId # None => parserId' # None /\ parserId <= parserId'
  PROVE  Climbing'
<1>1. Mine' = Mine /\ Begun' = Begun /\ \A i, m : Carries(i, m)' <=> Carries(i, m)
  BY ParserKeeps
<1>2. UNCHANGED <<received, lastId>> /\ Connected
  BY DEF Parser
<1>3. \A id \in Ids : id # None => id \in Nat
  BY IdFacts
<1>4. parserId \in Ids /\ parserId' \in Ids /\ lastId \in Ids
  BY DEF TypedInv, TypeOK
<1>5. \A i \in Mine : received[i].id \in Ids
  <2>1. received \in Seq(Handed) /\ here \in 0..Len(received) /\ Len(received) \in Nat
    BY DEF TypedInv, TypeOK, Handed
  <2>2. \A i \in Mine : received[i] \in Handed
    BY <2>1 DEF Mine
  <2> QED BY <2>2 DEF Handed
<1>6. lastId # None => parserId' # None /\ lastId <= parserId'
  BY <1>2, <1>3, <1>4 DEF Climbing
<1>7. ASSUME NEW i \in Mine PROVE Climbs(i)'
  <2>1. Climbs(i)
    BY <1>2 DEF Climbing
  <2>2. received[i].id # None => parserId' # None /\ received[i].id <= parserId'
    BY <1>3, <1>4, <1>5, <2>1 DEF Climbs
  <2> QED BY <1>1, <1>2, <2>1, <2>2 DEF Climbs
<1> QED BY <1>1, <1>2, <1>6, <1>7 DEF Climbing

\* A chunk is read: the place stays.
LEMMA ReadKeeps == ASSUME IInv, Read, ~SplitsLineEnds, TypedInv' PROVE IInv'
<1> USE DEF IInv
<1>1. /\ phase = "reading" /\ phase' = "parsing" /\ chunk = <<>> /\ ~eof
      /\ UNCHANGED <<eof, data, name, parserId, received, here, lastId>>
  BY DEF Read, End, Stage
<1>2. PICK k \in 1..MaxChunk :
        k <= Len(wire) /\ chunk' = SubSeq(wire, 1, k) /\ wire' = SubSeq(wire, k + 1, Len(wire))
  BY DEF Read
<1>3. k \in 1..Len(wire)
  BY <1>2, IdFacts DEF TypedInv, TypeOK
<1>4. Parser
  BY <1>1 DEF Parser, Connected
<1>5. PICK l \in Place : Stream(l) /\ Parses(l) /\ Covers(l.event)
  BY <1>1 DEF Placed, Live, Connected
<1>6. Stream(l)'
  BY <1>1, <1>2, <1>3, <1>5, StreamReads DEF TypedInv
<1>7. Parses(l)' /\ Covers(l.event)'
  BY <1>1, <1>4, <1>5, ParserKeeps DEF Parses
<1>8. Placed' /\ Stage'
  BY <1>1, <1>6, <1>7 DEF Placed, Stage
<1>9. Climbing'
  <2>1. parserId # None => parserId <= parserId'
    BY <1>1, IdFacts DEF TypedInv, TypeOK
  <2> QED BY <1>1, <1>4, <2>1, ClimbingKeeps
<1>10. Entire'
  BY <1>1, <1>4, ParserKeeps DEF Order, Entire
<1> QED BY <1>4, <1>8, <1>9, <1>10, ParserKeeps DEF Order
\* A line is taken: the place moves on by one.
LEMMA TakeKeeps == ASSUME IInv, TakeLine, TypedInv' PROVE IInv'
<1> USE DEF IInv
<1>1. /\ phase = "parsing" /\ chunk # <<>> /\ ~eof /\ chunk' = Tail(chunk)
      /\ UNCHANGED <<wire, eof, lastId>>
  BY DEF TakeLine, Stage
<1>2. PICK l \in Place : Stream(l) /\ Parses(l) /\ Covers(l.event)
  BY <1>1 DEF Placed, Live, Connected
<1>3. PICK next : next = LineAfter(l)
  OBVIOUS
<1>4. Head(chunk) = l /\ Stream(next)' /\ l.event \in Events /\ next \in Place
  BY <1>1, <1>2, <1>3, StreamTakes, LineFacts DEF TypedInv
<1>5. /\ l.event \in Nat \ {0} /\ (\A id \in Ids : id # None => id \in Nat)
      /\ parserId \in Ids /\ parserId' \in Ids /\ lastId \in Ids
  BY IdFacts DEF Place, TypedInv, TypeOK
<1>6. phase' # "reading" => Stage'
  BY <1>1 DEF Stage
<1>7. \A i \in Mine : \E n \in Events : received[i].data = Both(n)
  BY <1>1 DEF Order, Entire
<1>8. CASE l.field = "head"
  <2>1. /\ name' = (l.event \in Wanted)
        /\ parserId' = IF l.event \in Numbered THEN l.event ELSE parserId
        /\ UNCHANGED <<phase, data, received, here, latest>>
    BY <1>4, <1>8 DEF TakeLine
  <2>2. Parser
    BY <1>1, <2>1 DEF Parser, Connected
  <2>3. next.field = "first" /\ next.event = l.event
    BY <1>3, <1>8, LineFacts
  <2>4. parserId # None => parserId < l.event
    BY <1>2, <1>8 DEF Parses
  <2>5. Parses(next)'
    <3>1. data' = Held(next)
      BY <1>2, <1>8, <2>1, <2>3 DEF Parses, Held
    <3>2. parserId' # None => parserId' <= l.event
      BY <1>5, <2>1, <2>4
    <3>3. l.event \in Numbered => parserId' = l.event
      BY <2>1
    <3> QED BY <2>1, <2>3, <3>1, <3>2, <3>3 DEF Parses
  <2>6. Covers(next.event)'
    BY <1>2, <2>2, <2>3, ParserKeeps
  <2>7. Climbing'
    <3>1. l.event # None
      BY <1>4, IdFacts
    <3>2. parserId # None => parserId' # None /\ parserId <= parserId'
      BY <1>5, <2>1, <2>4, <3>1
    <3> QED BY <2>2, <3>2, ClimbingKeeps
  <2>8. Entire'
    BY <1>7, <2>1, <2>2, ParserKeeps DEF Entire
  <2> QED BY <1>1, <1>4, <1>6, <2>1, <2>2, <2>5, <2>6, <2>7, <2>8, ParserKeeps DEF Placed, Order
<1>9. CASE l.field \in {"first", "last"}
  <2>1. /\ data' = data \cup {Part(l.event, l.field)}
        /\ UNCHANGED <<phase, name, parserId, received, here, latest>>
    BY <1>4, <1>9 DEF TakeLine, Part
  <2>2. Parser
    BY <1>1, <2>1 DEF Parser, Connected
  <2>3. next.event = l.event /\ next.field = IF l.field = "first" THEN "last" ELSE "empty"
    BY <1>3, <1>9, LineFacts
  <2>4. Parses(next)'
    <3>1. data' = Held(next)
      BY <1>2, <1>9, <2>1, <2>3 DEF Parses, Held, Both
    <3> QED BY <1>2, <1>9, <2>1, <2>3, <3>1 DEF Parses
  <2>5. Covers(next.event)'
    BY <1>2, <2>2, <2>3, ParserKeeps
  <2>6. Climbing'
    <3>1. parserId # None => parserId' # None /\ parserId <= parserId'
      BY <1>5, <2>1
    <3> QED BY <2>2, <3>1, ClimbingKeeps
  <2>7. Entire'
    BY <1>7, <2>1, <2>2, ParserKeeps DEF Entire
  <2> QED BY <1>1, <1>4, <1>6, <2>1, <2>2, <2>4, <2>5, <2>6, <2>7, ParserKeeps DEF Placed, Order
<1>10. CASE l.field = "empty"
  <2>1. Dispatch /\ UNCHANGED parserId
    BY <1>4, <1>10 DEF TakeLine
  <2>2. data # {} /\ next.field = "head" /\ next.event = l.event + 1
    BY <1>2, <1>3, <1>10, LineFacts DEF Parses, Held, Both
  <2>3. Parses(next)' <=> data' = {}
    <3>1. parserId # None => parserId <= l.event + 1 /\ parserId < l.event + 1
      BY <1>2, <1>5 DEF Parses
    <3> QED BY <2>1, <2>2, <3>1 DEF Parses, Held
  <2>4. CASE /\ ~name /\ UNCHANGED <<phase, received, here>> /\ data' = {}
    <3>1. Parser
      BY <1>1, <2>4 DEF Parser, Connected
    <3>2. Covers(next.event)'
      <4>1. \A m \in Events : m \in Nat
        BY IdFacts
      <4>2. Covers(l.event + 1)
        <5>1. Begun \in Nat
          BY IdFacts DEF TypedInv, TypeOK, Begun
        <5>2. \A i \in Mine : \A m \in Events : Carries(i, m) => m < l.event + 1
          BY <1>2, <1>5, <4>1 DEF Covers
        <5>3. l.event + 1 > Begun
          BY <1>2, <1>5, <5>1 DEF Covers
        <5> QED BY <5>2, <5>3 DEF Covers
      <4> QED BY <2>2, <3>1, <4>2, ParserKeeps
    <3>3. Climbing'
      <4>1. parserId # None => parserId' # None /\ parserId <= parserId'
        BY <1>5, <2>1
      <4> QED BY <3>1, <4>1, ClimbingKeeps
    <3>4. Entire'
      BY <1>7, <2>4, <3>1, ParserKeeps DEF Entire
    <3> QED BY <1>1, <1>4, <1>6, <2>3, <2>4, <3>1, <3>2, <3>3, <3>4, ParserKeeps DEF Placed, Order
  <2>5. CASE HandsOn /\ phase' = "emitting"
    <3>1. Climbing' /\ Order' /\ Covers(l.event + 1)'
      BY <1>1, <1>2, <1>4, <1>10, <2>1, <2>5, HandsOnKeeps
    <3>2. data' = {}
      BY <2>5 DEF HandsOn
    <3>3. Covers(next.event)'
      BY <2>2, <3>1
    <3> QED BY <1>4, <1>6, <2>3, <2>5, <3>1, <3>2, <3>3 DEF Placed
  <2> QED BY <2>1, <2>2, <2>4, <2>5, DispatchFacts DEF TypedInv
<1> QED BY <1>8, <1>9, <1>10 DEF Place, Fields

\* What came before the end of a connection is the last that comes over it.
LEMMA FlushKeeps == ASSUME IInv, Flush, TypedInv' PROVE IInv'
<1> USE DEF IInv
<1>1. /\ phase = "parsing" /\ chunk = <<>> /\ eof /\ data # {} /\ Dispatch
      /\ UNCHANGED <<wire, chunk, eof, parserId, lastId>>
  BY DEF Flush
<1>2. PICK l \in Place : Stream(l) /\ Parses(l) /\ Covers(l.event)
  BY <1>1 DEF Placed, Live, Connected
<1>3. l.event \in Events
  <2>1. Part(l.event, "first") \in data
    BY <1>1, <1>2, PartFacts DEF Parses, Held, Both
  <2>2. Part(l.event, "first") \in DataLine
    BY <2>1 DEF TypedInv, TypeOK
  <2>3. Part(l.event, "first").event \in Events
    BY <2>2 DEF DataLine
  <2> QED BY <2>3, PartFacts
<1>4. phase' \in {"parsing", "emitting"} /\ data' = {}
  BY <1>1, DispatchFacts DEF TypedInv, HandsOn
<1>5. Stage' /\ Placed'
  BY <1>1, <1>4 DEF Stage, Placed, Live
<1>6. CASE /\ ~name /\ UNCHANGED <<phase, received, here>>
  <2>1. Parser
    BY <1>1, <1>6 DEF Parser, Connected
  <2>2. Climbing'
    <3>1. parserId # None => parserId' # None /\ parserId <= parserId'
      BY <1>1, IdFacts DEF TypedInv, TypeOK
    <3> QED BY <2>1, <3>1, ClimbingKeeps
  <2>3. Entire'
    BY <1>1, <1>6, <2>1, ParserKeeps DEF Order, Entire
  <2> QED BY <1>5, <2>1, <2>2, <2>3, ParserKeeps DEF Order
<1>7. CASE HandsOn /\ phase' = "emitting"
  <2>1. Climbing' /\ Order'
    BY <1>1, <1>2, <1>3, <1>7, HandsOnKeeps
  <2> QED BY <1>5, <2>1
<1> QED BY <1>1, <1>6, <1>7, DispatchFacts DEF TypedInv

\* The last ID covers what came over the connection.
LEMMA LeavesKeep == ASSUME IInv, Leaves, TypedInv' PROVE IInv'
<1> USE DEF IInv
<1>1. /\ Connected /\ lastId' = Latest(lastId) /\ phase' \in {"returned", "delaying"}
      /\ UNCHANGED <<wire, chunk, eof, data, name, parserId, received, here>>
  BY DEF Leaves, Leave, End
<1>2. ~Connected' /\ Stage' /\ Placed' /\ Climbing'
  BY <1>1 DEF Connected, Stage, Placed, Live, Climbing
<1>3. Mine' = Mine /\ \A i, m : Carries(i, m)' <=> Carries(i, m)
  BY <1>1 DEF Mine, Carries
<1>4. OneEach' /\ Ordered' /\ Entire'
  BY <1>1, <1>3 DEF Order, OneEach, Ordered, Entire
<1>5. /\ Begun \in Nat /\ (\A m \in Numbered : m \in Nat /\ m # None)
      /\ lastId \in Ids /\ \A id \in Ids : id # None => id \in Nat
  BY IdFacts DEF TypedInv, TypeOK, Begun
<1>6. \A i \in Mine : Climbs(i)
  BY <1>1 DEF Climbing
<1>7. \A i \in 1..Len(received) : i \notin Mine => \A m \in Numbered : Carries(i, m) => m <= Begun
  BY <1>1 DEF Order, Behind
<1>8. CASE lastId' = lastId /\ \A i \in Mine : received[i].id = None
  <2>1. \A i \in Mine : \A m \in Numbered : ~Carries(i, m)
    BY <1>5, <1>6, <1>8 DEF Climbs
  <2>2. Behind'
    BY <1>1, <1>3, <1>7, <1>8, <2>1 DEF Behind, Begun
  <2> QED BY <1>2, <1>4, <2>2 DEF Order
<1>9. CASE /\ Len(received) \in Mine /\ received[Len(received)].id # None
           /\ lastId' = received[Len(received)].id
  <2>1. /\ Climbs(Len(received)) /\ lastId' # None /\ lastId' \in Nat /\ Begun' = lastId'
    <3>1. lastId' \in Ids
      BY DEF TypedInv, TypeOK
    <3> QED BY <1>5, <1>6, <1>9, <3>1 DEF Begun
  <2>2. Begun <= lastId'
    BY <1>5, <1>9, <2>1 DEF Climbs, Begun
  <2>3. ASSUME NEW i \in 1..Len(received), NEW m \in Numbered, Carries(i, m) PROVE m <= lastId'
    <3>1. CASE i \notin Mine
      BY <1>5, <1>7, <2>1, <2>2, <2>3, <3>1
    <3>2. CASE i \in Mine
      <4>1. received[i].id = m
        BY <1>6, <2>3, <3>2 DEF Climbs
      <4>2. i = Len(received) \/ i < Len(received)
        OBVIOUS
      <4>3. i < Len(received) => received[i].id <= received[Len(received)].id
        BY <1>5, <1>6, <1>9, <3>2, <4>1 DEF Climbs
      <4> QED BY <1>5, <1>9, <2>1, <4>1, <4>2, <4>3
    <3> QED BY <3>1, <3>2
  <2>4. Behind'
    BY <1>1, <1>3, <2>1, <2>3 DEF Behind
  <2> QED BY <1>2, <1>4, <2>4 DEF Order
<1> QED BY <1>1, <1>8, <1>9, LatestFacts

-----------------------------------------------------------------------------
(* Theorems.                                                               *)

\* The invariant holds of every stream no chunk of which ends inside a line ending.
LEMMA SseInv == ASSUME ~SplitsLineEnds PROVE Spec => []IInv
<1>1. Init => IInv
  <2> SUFFICES ASSUME Init PROVE IInv
    OBVIOUS
  <2>1. /\ phase = "opening" /\ received = <<>> /\ lastId = None /\ chunk = <<>> /\ eof = FALSE
        /\ here = 0
    BY DEF Init
  <2>2. Mine = {} /\ 1..Len(received) = {}
    BY <2>1 DEF Mine
  <2>3. Stage /\ Placed /\ Climbing
    BY <2>1 DEF Stage, Placed, Live, Climbing, Connected
  <2>4. Order
    BY <2>2 DEF Order, Behind, OneEach, Ordered, Entire
  <2> QED BY <2>3, <2>4, TypedInit DEF IInv
<1>2. IInv /\ [Next]_vars => IInv'
  <2> SUFFICES ASSUME IInv, [Next]_vars PROVE IInv'
    OBVIOUS
  <2>1. TypedInv'
    BY TypedStep DEF IInv
  <2> QED BY <2>1, Steps, IdlesKeep, OpenKeeps, ReadKeeps, TakeKeeps, FlushKeeps, LeavesKeep
<1> QED BY <1>1, <1>2, PTL DEF Spec

\* A numbered event is handed on once, and in the order of the stream, however often
\* the connection is made.
THEOREM SseNothingIsRepeated == ASSUME ~SplitsLineEnds PROVE Spec => []NothingIsRepeated
<1>1. ASSUME IInv PROVE NothingIsRepeated
  <2> USE <1>1 DEF IInv
  <2>1. \A n : Of(n) = {i \in 1..Len(received) : Carries(i, n)}
    <3>1. DOMAIN received = 1..Len(received)
      BY DEF TypedInv, TypeOK
    <3> QED BY <3>1 DEF Of, Carries
  <2>2. (\A n \in Numbered : n \in Nat /\ n \in Events) /\ Len(received) \in Nat
    BY IdFacts DEF TypedInv, TypeOK
  <2>3. ASSUME NEW n \in Numbered PROVE Cardinality(Of(n)) <= 1
    <3>1. \A i, j \in Of(n) : i = j
      <4>1. \A i, j \in Of(n) : ~(i < j)
        BY <2>1, <2>2 DEF Order, Ordered
      <4> QED BY <2>1, <4>1
    <3>2. CASE Of(n) = {}
      BY <3>2, FS_EmptySet
    <3>3. CASE Of(n) # {}
      <4>1. \E i : Of(n) = {i}
        BY <3>1, <3>3
      <4>2. Cardinality(Of(n)) = 1
        BY <4>1, FS_Singleton
      <4> QED BY <4>2
    <3> QED BY <3>2, <3>3
  <2>4. ASSUME NEW m \in Numbered, NEW n \in Numbered, m < n, NEW i \in Of(m), NEW j \in Of(n)
        PROVE  i < j
    <3>1. i \in 1..Len(received) /\ j \in 1..Len(received) /\ Carries(i, m) /\ Carries(j, n)
      BY <2>1
    <3>2. i # j
      BY <2>2, <2>4, <3>1 DEF Order, OneEach
    <3>3. ~(j < i)
      BY <2>2, <2>4, <3>1 DEF Order, Ordered
    <3> QED BY <2>2, <3>1, <3>2, <3>3
  <2> QED BY <2>3, <2>4 DEF NothingIsRepeated
<1> QED BY <1>1, SseInv, PTL

\* An event is handed on whole, the last of a connection excepted.
THEOREM SseEventsAreWhole == ASSUME ~SplitsLineEnds PROVE Spec => []EventsAreWhole
<1>1. ASSUME IInv PROVE EventsAreWhole
  <2>1. \A n : Cardinality(Both(n)) = 2
    <3> SUFFICES ASSUME NEW n PROVE Cardinality(Both(n)) = 2
      OBVIOUS
    <3>1. Both(n) = {Part(n, "first")} \cup {Part(n, "last")}
      BY DEF Both
    <3>2. Part(n, "last") \notin {Part(n, "first")}
      BY PartFacts
    <3>3. IsFiniteSet({Part(n, "first")}) /\ Cardinality({Part(n, "first")}) = 1
      BY FS_Singleton
    <3> QED BY <3>1, <3>2, <3>3, FS_AddElement
  <2> QED BY <1>1, <2>1 DEF IInv, Order, Entire, EventsAreWhole, Mine
<1> QED BY <1>1, SseInv, PTL
-----------------------------------------------------------------------------
(***************************************************************************)
(* Why an aborted stream ends (AbortedStreamsEnd), as far as it is a       *)
(* matter of safety.  Nobody looks at the signal between the lines of a    *)
(* chunk, so events are still handed on after the abort; but no line comes *)
(* in any more.                                                            *)
(***************************************************************************)
Delays == {"opening", "delaying"}

\* The steps there can be before the stream is over: those of the phase, four at
\* most for each line of the chunk, and two for an event held back.
PhasesLeft(s) ==
  IF s \in {"reading", "emitting"} THEN 3
  ELSE IF s = "parsing" THEN 2
  ELSE IF s \in Delays THEN 1 ELSE 0

StepsLeft == PhasesLeft(phase) + 4 * Len(chunk) + (IF data = {} THEN 0 ELSE 2)

\* A client whose signal is aborted opens no connection and reads no chunk: each of
\* its steps, and whatever the server or the transport does, leaves fewer steps to
\* come, until the stream has returned or thrown.
THEOREM SseAbortedStreamsComeDown ==
  Spec => [][aborted => aborted' /\ StepsLeft' < StepsLeft]_vars
<1>1. TypeOK /\ [Next]_vars => [aborted => aborted' /\ StepsLeft' < StepsLeft]_vars
  <2> SUFFICES ASSUME TypeOK, Next, aborted PROVE aborted' /\ StepsLeft' < StepsLeft
    OBVIOUS
  <2> DEFINE Goal == aborted' /\ StepsLeft' < StepsLeft
  <2> SUFFICES Goal
    OBVIOUS
  <2>0. chunk \in Seq(Line) /\ Len(chunk) \in Nat
    BY DEF TypeOK
  <2>1. ASSUME UNCHANGED <<chunk, data, aborted>>, PhasesLeft(phase') < PhasesLeft(phase) PROVE Goal
    BY <2>0, <2>1 DEF StepsLeft, PhasesLeft
  <2> HIDE DEF Goal
  <2>2. CASE OpenFails
    BY <2>1, <2>2 DEF OpenFails, End, PhasesLeft, Delays
  <2>3. CASE ReadEnds
    BY <2>1, <2>3 DEF ReadEnds, End, PhasesLeft, Delays
  <2>9. CASE ReadFails
    BY <2>1, <2>9 DEF ReadFails, End, PhasesLeft, Delays
  <2>4. CASE StartRead
    BY <2>1, <2>4 DEF StartRead, End, PhasesLeft, Delays
  <2>5. CASE DelayOver
    BY <2>1, <2>5 DEF DelayOver, End, PhasesLeft, Delays
  <2>11. ASSUME Leave PROVE phase' \in {"returned", "delaying"} /\ UNCHANGED <<chunk, data, aborted>>
    BY <2>11 DEF Leave, End
  <2>6. CASE Close
    <3>1. phase = "parsing" /\ phase' \in {"returned", "delaying"} /\ UNCHANGED <<chunk, data, aborted>>
      BY <2>6, <2>11 DEF Close
    <3> QED BY <2>1, <3>1 DEF PhasesLeft, Delays
  <2>10. CASE Emitted
    <3>1. phase = "emitting" /\ phase' \in {"returned", "delaying", "parsing"}
          /\ UNCHANGED <<chunk, data, aborted>>
      BY <2>10, <2>11 DEF Emitted, End
    <3> QED BY <2>1, <3>1 DEF PhasesLeft, Delays
  <2>7. CASE Flush
    <3>1. phase = "parsing" /\ data # {} /\ data' = {} /\ UNCHANGED <<chunk, aborted>>
      BY <2>7 DEF Flush, Dispatch
    <3>2. phase' = phase \/ phase' = "emitting"
      BY <2>7 DEF Flush, Dispatch, End
    <3> QED BY <2>0, <3>1, <3>2 DEF Goal, StepsLeft, PhasesLeft, Delays
  <2>8. CASE TakeLine
    <3>1. /\ phase = "parsing" /\ chunk # <<>> /\ chunk' = Tail(chunk) /\ UNCHANGED aborted
      BY <2>8 DEF TakeLine
    <3>2. Head(chunk).field \in {"head", "first", "last", "empty"}
      BY <2>0, <3>1, TailFacts DEF Line
    <3>3. phase' = phase \/ phase' = "emitting"
      BY <2>8, <3>2 DEF TakeLine, Dispatch, End
    <3>4. Len(chunk') = Len(chunk) - 1
      BY <2>0, <3>1, TailFacts
    <3> QED BY <2>0, <3>1, <3>3, <3>4 DEF Goal, StepsLeft, PhasesLeft, Delays
  <2> QED BY <2>2, <2>3, <2>4, <2>5, <2>6, <2>7, <2>8, <2>9, <2>10
          DEF Next, Turn, Open, Read, Abort
<1> QED BY <1>1, SseTyped, PTL DEF Spec
==============================================================================
