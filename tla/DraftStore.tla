------------------------------ MODULE DraftStore ------------------------------
(***************************************************************************)
(* What autosaving promises about the record it edits: the stored value of *)
(* a field only ever moves forward along the values the editor gave it,    *)
(* and never past the last of them.  Values are numbered per field.        *)
(***************************************************************************)
EXTENDS Integers

CONSTANT Fields        \* the fields of the record

VARIABLES latest,      \* the number of the value last given to each field
          stored       \* the number of the value the back end has

TypeOK == /\ latest \in [Fields -> Nat]
          /\ stored \in [Fields -> Nat]

Init == /\ latest = [f \in Fields |-> 0]
        /\ stored = latest

\* Some fields get new values.
Edit(F) == /\ latest' = [f \in Fields |-> IF f \in F THEN latest[f] + 1 ELSE latest[f]]
           /\ UNCHANGED stored

\* Some fields are stored, each with a value at least as new as before.
Store == /\ stored' \in [Fields -> Nat]
         /\ \A f \in Fields : stored[f] <= stored'[f] /\ stored'[f] <= latest[f]
         /\ UNCHANGED latest

Next == Store \/ \E F \in SUBSET Fields : Edit(F)

Spec == Init /\ [][Next]_<<latest, stored>>
=============================================================================
