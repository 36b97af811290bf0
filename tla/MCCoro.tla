------------------------------- MODULE MCCoro -------------------------------
(* Coro on a small instance: see MCCoro.cfg and MCCoroFree.cfg. *)
EXTENDS Coro
=============================================================================
