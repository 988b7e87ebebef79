----------------------------- MODULE SseClient -----------------------------
(***************************************************************************)
(* consumeSse: an event stream read over a chain of connections.  A chunk  *)
(* of the body is split into lines, the lines into events, the events are  *)
(* filtered and handed on; after a normal close the client waits and asks  *)
(* the server to go on behind the last event ID.  The server may close or  *)
(* break a connection after any line, the run may be aborted at any time.  *)
(*                                                                         *)
(* The stream holds events 1..Length.  Each is a head line (its name and,  *)
(* if it is numbered, its ID), two lines of data and an empty line.  A     *)
(* server resumes as the one of packages/echo-server does.                 *)
(***************************************************************************)
EXTENDS Naturals, Sequences, FiniteSets

CONSTANTS
  Length,          \* bound on the events of the stream
  Numbered,        \* events that have an ID
  Wanted,          \* events whose name the filter accepts
  MaxEvents,       \* options.maxEvents
  MaxChunk,        \* bound on the lines of a chunk
  MaxConnections,  \* bound on the connections
  SplitsLineEnds,  \* whether a chunk may end between the CR and the LF of a line
  None             \* no ID

Events == 1..Length

ASSUME SseAssumptions ==
  /\ {Length, MaxEvents, MaxChunk, MaxConnections} \subseteq Nat \ {0}
  /\ Numbered \subseteq Events /\ Wanted \subseteq Events
  /\ None \notin Events /\ SplitsLineEnds \in BOOLEAN

VARIABLES
  phase,      \* the await at which consumeSse stands
  opened,     \* connections made
  wire,       \* lines the server has not sent on this connection
  chunk,      \* lines of the chunk read and not yet looked at
  eof,        \* the body of this connection has ended
  data,       \* data lines of the event being assembled
  name,       \* whether the event name seen is one the filter accepts
  parserId,   \* lastEventId of parseSseStream
  received,   \* events handed on, of all connections
  here,       \* how many of them came over this connection
  lastId,     \* lastEventId of consumeSse
  latest,     \* ID of the latest event of the stream (history)
  aborted,    \* the signal
  deaf        \* a delay that began after the abort, hence not cut short

vars == <<phase, opened, wire, chunk, eof, data, name, parserId, received, here,
          lastId, latest, aborted, deaf>>

Ids == Numbered \cup {None}
Line == [field : {"head", "first", "last", "empty"}, event : Events]
DataLine == [part : {"first", "last"}, event : Events]

TypeOK ==
  /\ phase \in {"opening", "reading", "parsing", "emitting", "delaying", "returned",
                "thrown"}
  /\ opened \in 0..MaxConnections
  /\ wire \in Seq(Line) /\ chunk \in Seq(Line) /\ eof \in BOOLEAN
  /\ data \subseteq DataLine /\ name \in BOOLEAN /\ parserId \in Ids
  /\ received \in Seq([id : Ids, data : SUBSET DataLine])
  /\ here \in 0..Len(received)
  /\ lastId \in Ids /\ latest \in Ids
  /\ aborted \in BOOLEAN /\ deaf \in BOOLEAN

\* An empty filter accepts events without a name, too.
Unnamed == Wanted = Events

Init ==
  /\ phase = "opening" /\ opened = 0
  /\ wire = <<>> /\ chunk = <<>> /\ eof = FALSE
  /\ data = {} /\ name = Unnamed /\ parserId = None
  /\ received = <<>> /\ here = 0
  /\ lastId = None /\ latest = None
  /\ aborted = FALSE /\ deaf = FALSE

-----------------------------------------------------------------------------

LineOf(n, f) == [field |-> f, event |-> n]

\* What the server sends when it is asked for what follows an ID.
After(id) ==
  LET fields == <<"head", "first", "last", "empty">>
      skipped == IF id = None THEN 0 ELSE id
  IN [i \in 1..(4 * (Length - skipped)) |->
        LineOf(skipped + 1 + ((i - 1) \div 4), fields[1 + ((i - 1) % 4)])]

\* initialLastEventId: events without an ID are still those behind this one.
Seed(id) == id

Finished == phase \in {"returned", "thrown"}
End(how) == phase' = how

\* open and onOpen.
Open ==
  /\ phase = "opening" /\ ~aborted /\ opened < MaxConnections
  /\ End("parsing") /\ opened' = opened + 1
  /\ wire' = After(lastId) /\ chunk' = <<>> /\ eof' = FALSE
  /\ data' = {} /\ name' = Unnamed /\ parserId' = Seed(lastId) /\ here' = 0
  /\ UNCHANGED <<received, lastId, latest, aborted, deaf>>

\* The transport fails, because of the signal or not, or the response is no
\* event stream; a status that is not ok is a response like another.
OpenFails ==
  /\ phase = "opening"
  /\ \/ End("thrown")
     \/ ~aborted /\ End("returned")
  /\ UNCHANGED <<opened, wire, chunk, eof, data, name, parserId, received, here,
                 lastId, latest, aborted, deaf>>

\* throwIfAborted, then read.
StartRead ==
  /\ phase = "parsing" /\ chunk = <<>> /\ ~eof
  /\ IF aborted THEN End("thrown") ELSE End("reading")
  /\ UNCHANGED <<opened, wire, chunk, eof, data, name, parserId, received, here,
                 lastId, latest, aborted, deaf>>

\* Faulty: the event being assembled does not outlive its chunk.
ReadForgetting ==
  /\ phase = "reading" /\ ~aborted /\ wire # <<>>
  /\ \E k \in 1..MaxChunk :
       /\ k <= Len(wire)
       /\ chunk' = SubSeq(wire, 1, k) /\ wire' = SubSeq(wire, k + 1, Len(wire))
  /\ End("parsing") /\ data' = {}
  /\ UNCHANGED <<opened, eof, name, parserId, received, here, lastId, latest,
                 aborted, deaf>>

\* A chunk of whole lines.  If it ends between a CR and its LF, the LF at the
\* start of the next chunk reads as an empty line.
Read ==
  /\ phase = "reading" /\ ~aborted /\ wire # <<>>
  /\ \E k \in 1..MaxChunk :
       /\ k <= Len(wire)
       /\ chunk' = SubSeq(wire, 1, k)
       /\ LET rest == SubSeq(wire, k + 1, Len(wire)) IN
          \/ wire' = rest
          \/ /\ SplitsLineEnds
             /\ wire' = <<LineOf(wire[k].event, "empty")>> \o rest
  /\ End("parsing")
  /\ UNCHANGED <<opened, eof, data, name, parserId, received, here, lastId, latest,
                 aborted, deaf>>

\* Faulty: the reader is not cancelled.
ReadEndsDeaf ==
  /\ phase = "reading" /\ ~aborted
  /\ eof' = TRUE /\ End("parsing")
  /\ UNCHANGED <<opened, wire, chunk, data, name, parserId, received, here, lastId,
                 latest, aborted, deaf>>

\* The server closes the connection, or the abort listener cancels the reader.
ReadEnds ==
  /\ phase = "reading"
  /\ eof' = TRUE /\ End("parsing")
  /\ UNCHANGED <<opened, wire, chunk, data, name, parserId, received, here, lastId,
                 latest, aborted, deaf>>

\* The connection breaks: the error is thrown, there is no reconnection.
ReadFails ==
  /\ phase = "reading" /\ End("thrown")
  /\ UNCHANGED <<opened, wire, chunk, eof, data, name, parserId, received, here,
                 lastId, latest, aborted, deaf>>

-----------------------------------------------------------------------------

\* dispatch: an event without data is none.  One that the filter accepts is
\* handed on.
Dispatch ==
  IF data = {} THEN UNCHANGED <<phase, data, name, received, here, latest>>
  ELSE /\ data' = {} /\ name' = Unnamed /\ latest' = parserId
       /\ IF name
          THEN /\ received' = Append(received, [id |-> parserId, data |-> data])
               /\ here' = here + 1 /\ End("emitting")
          ELSE UNCHANGED <<phase, received, here>>

TakeLine ==
  /\ phase = "parsing" /\ chunk # <<>>
  /\ chunk' = Tail(chunk)
  /\ LET line == Head(chunk) IN
     CASE line.field = "head" ->
            /\ name' = (line.event \in Wanted)
            /\ parserId' = IF line.event \in Numbered THEN line.event ELSE parserId
            /\ UNCHANGED <<phase, data, received, here, latest>>
       [] line.field \in {"first", "last"} ->
            /\ data' = data \cup {[part |-> line.field, event |-> line.event]}
            /\ UNCHANGED <<phase, name, parserId, received, here, latest>>
       [] line.field = "empty" -> Dispatch /\ UNCHANGED parserId
  /\ UNCHANGED <<opened, wire, eof, lastId, aborted, deaf>>

\* What came before the end counts as an event.
Flush ==
  /\ phase = "parsing" /\ chunk = <<>> /\ eof /\ data # {}
  /\ Dispatch
  /\ UNCHANGED <<opened, wire, chunk, eof, parserId, lastId, aborted, deaf>>

\* Faulty: the ID behind the connection is that of the parser.
LatestSeen(id) == parserId

\* Faulty: only an ID that the last event brought with it counts.
FreshOnly(id) == IF here > 0 THEN received[Len(received)].id ELSE None

\* The ID of the last event of this connection that has one.
Latest(id) ==
  LET mine == {i \in (Len(received) - here + 1)..Len(received) : received[i].id # None}
  IN IF mine = {} THEN id
     ELSE received[CHOOSE i \in mine : \A j \in mine : j <= i].id

\* The abort listener of a delay comes too late if the signal is aborted.
Leave ==
  /\ lastId' = Latest(lastId)
  /\ IF Len(received) >= MaxEvents THEN End("returned") /\ UNCHANGED deaf
     ELSE End("delaying") /\ deaf' = aborted
  /\ UNCHANGED <<opened, wire, chunk, eof, data, name, parserId, received, here,
                 latest, aborted>>

\* consumeSseResponse has come to the end of the body.
Close == phase = "parsing" /\ chunk = <<>> /\ eof /\ data = {} /\ Leave

Enough == Len(received) >= MaxEvents

\* onEvent has been awaited; nobody looks at the signal before the rest of the
\* chunk is through.
Emitted ==
  /\ phase = "emitting"
  /\ IF Enough THEN Leave
     ELSE /\ End("parsing")
          /\ UNCHANGED <<opened, wire, chunk, eof, data, name, parserId, received,
                         here, lastId, latest, aborted, deaf>>

\* abortableDelay, and the check of the signal before the next connection.
DelayOver ==
  /\ phase = "delaying"
  /\ IF aborted THEN End("thrown") ELSE End("opening")
  /\ deaf' = FALSE
  /\ UNCHANGED <<opened, wire, chunk, eof, data, name, parserId, received, here,
                 lastId, latest, aborted>>

\* The run is cancelled or times out; a delay under way is cut short.
Abort ==
  /\ ~aborted /\ ~Finished
  /\ aborted' = TRUE
  /\ IF phase = "delaying" THEN End("thrown") ELSE UNCHANGED phase
  /\ UNCHANGED <<opened, wire, chunk, eof, data, name, parserId, received, here,
                 lastId, latest, deaf>>

\* The turns of the client: a server need not send nor close anything.
Turn == StartRead \/ TakeLine \/ Flush \/ Close \/ Emitted \/ DelayOver
Yield == aborted /\ (OpenFails \/ ReadEnds)

Next == Open \/ OpenFails \/ Read \/ ReadEnds \/ ReadFails \/ Turn \/ Abort

Spec == Init /\ [][Next]_vars /\ WF_vars(Turn) /\ WF_vars(Yield)

-----------------------------------------------------------------------------

Of(n) == {i \in DOMAIN received : \E d \in received[i].data : d.event = n}

\* Asking the server to go on behind an event never skips one that was wanted:
\* all up to it have been handed on (sse.ts:61).
NothingIsSkipped ==
  lastId # None => \A n \in Wanted : n <= lastId => Of(n) # {}

\* A numbered event is handed on once however often the client reconnects, and in
\* the order of the stream, even when the server closes inside an event.
NothingIsRepeated ==
  /\ \A n \in Numbered : Cardinality(Of(n)) <= 1
  /\ \A m, n \in Numbered : m < n => \A i \in Of(m), j \in Of(n) : i < j

\* An event is handed on whole however the chunks divide the stream, the last of a
\* connection excepted, which the server may have closed inside it (sse.ts:190).
EventsAreWhole ==
  \A i \in (Len(received) - here + 1)..Len(received) :
    Cardinality(received[i].data) # 2 => i = Len(received) /\ eof

\* An aborted stream is over at some time, whatever the server does.
AbortedStreamsEnd == aborted ~> Finished

\* sse.mdx:76-81: the IDs of events that the filter drops are tracked, and the most
\* recent one is sent with the next request.
LatestIdIsSent == phase = "opening" => lastId = latest

=============================================================================
