---------------------------- MODULE SerialCalls ----------------------------
(***************************************************************************)
(* What a scripting session promises: calls are answered in the order in   *)
(* which they were made, each once, and no hook runs but that of the first *)
(* unanswered call.                                                        *)
(***************************************************************************)
EXTENDS Sequences

CONSTANT Calls

VARIABLES
  line,      \* calls made and not answered, oldest first
  answered,  \* calls answered
  atWork     \* the call whose hook runs, if any

vars == <<line, answered, atWork>>

Init == line = <<>> /\ answered = {} /\ atWork = {}

Make(c) ==
  /\ c \notin answered /\ \A i \in DOMAIN line : line[i] # c
  /\ line' = Append(line, c)
  /\ UNCHANGED <<answered, atWork>>

Work ==
  /\ line # <<>> /\ atWork = {}
  /\ atWork' = {Head(line)}
  /\ UNCHANGED <<line, answered>>

Rest == atWork' = {} /\ UNCHANGED <<line, answered>>

\* An answer, or a refusal; the hook no longer runs.
Answer ==
  /\ line # <<>>
  /\ line' = Tail(line)
  /\ answered' = answered \cup {Head(line)}
  /\ atWork' = {}

Next == (\E c \in Calls : Make(c)) \/ Work \/ Rest \/ Answer

Spec == Init /\ [][Next]_vars

=============================================================================
