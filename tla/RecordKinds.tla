----------------------------- MODULE RecordKinds -----------------------------
(***************************************************************************)
(* The records of an instance for TLC, given kind by kind.                 *)
(***************************************************************************)
CONSTANTS Workspaces, Rests, Sses, Environments, Smtps

MCRecords == Workspaces \cup Rests \cup Sses \cup Environments \cup Smtps

MCKindOf ==
  [r \in MCRecords |-> CASE r \in Workspaces -> "workspace"
                         [] r \in Rests -> "rest"
                         [] r \in Sses -> "sse"
                         [] r \in Environments -> "environment"
                         [] r \in Smtps -> "smtp"]
=============================================================================
