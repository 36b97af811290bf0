------------------------------- MODULE MCSync -------------------------------
(* Sync on a small instance: see MCSync.cfg and MCSyncWakeAll.cfg. *)
EXTENDS Sync
=============================================================================
