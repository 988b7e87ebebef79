-------------------------------- MODULE Lock --------------------------------
(***************************************************************************)
(* What the asynchronous mutex of packages/tanxium/src/common/mutex.ts     *)
(* promises to its callers, without the queue that implements it: one      *)
(* holder at a time, and a lock that is never free while a caller waits.   *)
(***************************************************************************)
CONSTANT Callers       \* the concurrent callers of runExclusive

VARIABLES holders,     \* the caller the lock belongs to, if there is one
          waiting      \* the callers whose acquire() has not resolved

vars == <<holders, waiting>>

TypeOK == /\ holders = {} \/ \E c \in Callers : holders = {c}
          /\ waiting \subseteq Callers

Init == /\ holders = {}
        /\ waiting = {}

\* A caller asks for the lock: it gets it at once when it is free.
Request(c) ==
  /\ c \notin holders \cup waiting
  /\ \/ /\ holders = {}
        /\ holders' = {c}
        /\ UNCHANGED waiting
     \/ /\ holders # {}
        /\ waiting' = waiting \cup {c}
        /\ UNCHANGED holders

\* The holder gives the lock up; it passes to a waiting caller if there is one.
Free(c) ==
  /\ c \in holders
  /\ \/ /\ waiting = {}
        /\ holders' = {}
        /\ UNCHANGED waiting
     \/ \E d \in waiting : /\ holders' = {d}
                           /\ waiting' = waiting \ {d}

Next == \E c \in Callers : Request(c) \/ Free(c)

Spec == Init /\ [][Next]_vars
=============================================================================
