---------------------------- MODULE KqueuePoller ----------------------------
(***************************************************************************)
(* The kqueue(2) backend of event_kqueue.h.  The registrations are the     *)
(* kernel's, one-shot, each with its coroutine; new ones are gathered in   *)
(* _change_list and go to the kernel with the next poll.                   *)
(***************************************************************************)
EXTENDS Integers, Sequences, FiniteSets

CONSTANTS
  Fds,         \* descriptors
  Coros,       \* coroutines
  OutputMax,   \* _output_max: of events that one poll takes, and of _change_list
  Disciplined, \* nobody registers where another coroutine waits
  NULL

\* ident and filter: what a kernel event is known by.
Regs == [fd : Fds, dir : {"in", "out"}]
Bits == {"in", "out", "hup"}

VARIABLES
  phase,    \* "run", "poll"; "thrown": OS_Error has left event_loop; "lost":
            \* set_wait_for has written past the end of _change_list
  waits,    \* the udata of the kernel's events, NULL where there is none
  blocked,  \* the coroutines inside wait_for_read or wait_for_write
  ready,    \* the conditions the kernel knows of
  changes   \* _change_list up to _change_index

vars == <<phase, waits, blocked, ready, changes>>

\* The last change of r, if there is one.
ChangesOf(r) ==
  {i \in DOMAIN changes :
     changes[i].reg = r /\ \A j \in DOMAIN changes : changes[j].reg = r => j <= i}

\* The kernel's events once it has the changes, EV_ADD each.
Armed ==
  [r \in Regs |->
     IF ChangesOf(r) = {} THEN waits[r]
     ELSE changes[CHOOSE i \in ChangesOf(r) : TRUE].coro]

\* The events that kevent(2) reports, EV_EOF and errors with both filters.
Found == {r \in Regs : Armed[r] # NULL /\ ready[r.fd] \cap {r.dir, "hup"} # {}}

\* "check for overflow", says the code: a change that does not fit is written all
\* the same, and what becomes of the program is undefined.
set_wait_for(r, c) ==
  /\ phase = "run"
  /\ c \notin blocked
  /\ Disciplined => Armed[r] = NULL
  /\ changes' = Append(changes, [reg |-> r, coro |-> c])
  /\ phase' = IF Len(changes) < OutputMax THEN phase ELSE "lost"
  /\ blocked' = blocked \cup {c}
  /\ UNCHANGED <<waits, ready>>

EndRun ==
  /\ phase = "run"
  /\ phase' = "poll"
  /\ UNCHANGED <<waits, blocked, ready, changes>>

\* What kevent(2) fills event_list with.
Taken ==
  {S \in SUBSET Found :
     /\ Cardinality(S) <= OutputMax
     /\ S = Found \/ Cardinality(S) = OutputMax}

\* _change_list after kevent(2): _change_index goes back to 0, or stays.
BadLeftOver == changes
LeftOver == <<>>

\* poll gives the kernel the changes and takes up to _output_max events; those
\* are one-shot, and each schedules its coroutine, with an errno if it has one.
poll ==
  /\ phase = "poll"
  /\ phase' = "run"
  /\ \E S \in Taken :
       /\ waits' = [r \in Regs |-> IF r \in S THEN NULL ELSE Armed[r]]
       /\ blocked' = blocked \ {Armed[r] : r \in S}
  /\ changes' = LeftOver
  /\ UNCHANGED ready

\* kevent(2) is interrupted in its sleep: poll throws, and event_loop with it.
PollThrows ==
  /\ phase = "poll"
  /\ phase' = "thrown"
  /\ waits' = Armed
  /\ changes' = LeftOver
  /\ UNCHANGED <<blocked, ready>>

KernelChanges ==
  /\ \E fd \in Fds, bits \in SUBSET Bits : ready' = [ready EXCEPT ![fd] = bits]
  /\ UNCHANGED <<phase, waits, blocked, changes>>

Init ==
  /\ phase = "run"
  /\ waits = [r \in Regs |-> NULL]
  /\ blocked = {}
  /\ ready \in [Fds -> SUBSET Bits]
  /\ changes = <<>>

Next ==
  \/ \E r \in Regs, c \in Coros : set_wait_for(r, c)
  \/ EndRun \/ poll \/ PollThrows \/ KernelChanges
=============================================================================
