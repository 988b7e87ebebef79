---------------------------- MODULE MCSyncHistory ----------------------------
(***************************************************************************)
(* Instances of SyncHistory for TLC.                                       *)
(***************************************************************************)
EXTENDS SyncHistory, RecordKinds
=============================================================================
