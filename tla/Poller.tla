------------------------------- MODULE Poller -------------------------------
(***************************************************************************)
(* What class poller of coro++.h promises to the coroutines that wait in   *)
(* wait_for_read and wait_for_write: each poll wakes some of those whose   *)
(* descriptor is ready, and nobody else.  Pollers.tla shows that the three *)
(* backends implement this module; Coro.tla uses it with the descriptors   *)
(* left out (Coro!PollWake).                                               *)
(***************************************************************************)
EXTENDS Integers

CONSTANTS
  Fds,      \* descriptors
  Coros,    \* coroutines
  NULL

\* A registration: a descriptor, and what its coroutine waits for.
Regs == [fd : Fds, dir : {"in", "out"}]

VARIABLES
  waits,    \* the coroutine registered for each of Regs, or NULL
  blocked,  \* the coroutines inside wait_for_read or wait_for_write
  ready     \* what the kernel says of each descriptor

pvars == <<waits, blocked, ready>>

\* A descriptor that has hung up does not block either.
Ready(r) == waits[r] # NULL /\ ready[r.fd] \cap {r.dir, "hup"} # {}

Init ==
  /\ waits = [r \in Regs |-> NULL]
  /\ blocked = {}
  /\ ready \in [Fds -> SUBSET {"in", "out", "hup"}]

\* wait_for_read, wait_for_write
WaitFor(r, c) ==
  /\ c \notin blocked
  /\ waits' = [waits EXCEPT ![r] = c]
  /\ blocked' = blocked \cup {c}
  /\ UNCHANGED ready

\* The registrations S are erased and their coroutines scheduled.
Serve(S) ==
  /\ waits' = [r \in Regs |-> IF r \in S THEN NULL ELSE waits[r]]
  /\ blocked' = blocked \ {waits[r] : r \in S}
  /\ UNCHANGED ready

Poll == \E S \in SUBSET {r \in Regs : Ready(r)} : Serve(S)

KernelChanges ==
  /\ ready' \in [Fds -> SUBSET {"in", "out", "hup"}]
  /\ UNCHANGED <<waits, blocked>>

Next == Poll \/ KernelChanges \/ \E r \in Regs, c \in Coros : WaitFor(r, c)

Safety == Init /\ [][Next]_pvars
=============================================================================
