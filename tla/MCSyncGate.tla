----------------------------- MODULE MCSyncGate -----------------------------
(* The instances of SyncGate for TLC; their cfgs name the sets and the kind *)
(* of owner. *)
EXTENDS SyncGate
=============================================================================
