------------------------------- MODULE MCEcho -------------------------------
(* Echo on a small instance: see MCEcho.cfg and MCEchoBlocking.cfg. *)
EXTENDS Echo
=============================================================================
