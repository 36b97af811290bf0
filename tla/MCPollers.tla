------------------------------ MODULE MCPollers ------------------------------
(* Pollers on a small instance: see MCPollers.cfg. *)
EXTENDS Pollers, TLC

\* Coroutines are only compared with each other, and no property is liveness.
CoroSymmetry == Permutations(Coros)
=============================================================================
