---------------------------- MODULE SelectPoller ----------------------------
(***************************************************************************)
(* The select(2) backend of event_select.h: the maps of PollPoller.tla,    *)
(* and two sets of descriptors that each poll makes anew.                  *)
(***************************************************************************)
EXTENDS Integers, FiniteSets

CONSTANTS
  Fds,         \* descriptors, below FD_SETSIZE
  Coros,       \* coroutines
  Disciplined, \* nobody registers where another coroutine waits
  NULL

Regs == [fd : Fds, dir : {"in", "out"}]
Bits == {"in", "out", "hup"}

VARIABLES
  phase,    \* "run", "poll"; "lost": an iterator has gone wild
  waits,    \* _read_set and _write_set
  blocked,  \* the coroutines inside wait_for_read or wait_for_write
  ready     \* the conditions the kernel knows of

vars == <<phase, waits, blocked, ready>>

\* The writers are looked up in the set of the readers.
BadIsSet(r) == ready[r.fd] \cap {"in", "hup"} # {}

\* FD_ISSET: what has hung up is readable.
IsSet(r) == r.dir \in ready[r.fd] \/ (r.dir = "in" /\ "hup" \in ready[r.fd])

Found == {r \in Regs : waits[r] # NULL /\ IsSet(r)}

set_wait_for(r, c) ==
  /\ phase = "run"
  /\ c \notin blocked
  /\ Disciplined => waits[r] = NULL
  /\ waits' = [waits EXCEPT ![r] = c]
  /\ blocked' = blocked \cup {c}
  /\ UNCHANGED <<phase, ready>>

EndRun ==
  /\ phase = "run"
  /\ phase' = "poll"
  /\ UNCHANGED <<waits, blocked, ready>>

\* The loops over the maps go round until each of the n that select(2) has found
\* is scheduled and erased.
poll ==
  /\ phase = "poll"
  /\ phase' = "run"
  /\ waits' = [r \in Regs |-> IF r \in Found THEN NULL ELSE waits[r]]
  /\ blocked' = blocked \ {waits[r] : r \in Found}
  /\ UNCHANGED ready

\* They advance an iterator that they have erased, which is undefined: it may
\* read freed memory and crash, or never come to the end.
PollLost ==
  /\ phase = "poll"
  /\ Found # {}
  /\ phase' = "lost"
  /\ UNCHANGED <<waits, blocked, ready>>

\* select(2) is interrupted: poll reports it and returns.
PollFails ==
  /\ phase = "poll"
  /\ phase' = "run"
  /\ UNCHANGED <<waits, blocked, ready>>

KernelChanges ==
  /\ \E fd \in Fds, bits \in SUBSET Bits : ready' = [ready EXCEPT ![fd] = bits]
  /\ UNCHANGED <<phase, waits, blocked>>

Init ==
  /\ phase = "run"
  /\ waits = [r \in Regs |-> NULL]
  /\ blocked = {}
  /\ ready \in [Fds -> SUBSET Bits]

Next ==
  \/ \E r \in Regs, c \in Coros : set_wait_for(r, c)
  \/ EndRun \/ poll \/ PollLost \/ PollFails \/ KernelChanges
=============================================================================
