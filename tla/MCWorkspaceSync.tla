--------------------------- MODULE MCWorkspaceSync ---------------------------
(***************************************************************************)
(* Instances of WorkspaceSync for TLC.                                     *)
(***************************************************************************)
EXTENDS WorkspaceSync, RecordKinds
=============================================================================
