------------------------------- MODULE Pollers -------------------------------
(***************************************************************************)
(* The three backends behind class poller, of which main in                *)
(* echo_server.cc picks one by its options: what the coroutines see of     *)
(* them is the same (Poller.tla), whatever the kernel's interface.         *)
(***************************************************************************)
EXTENDS Integers, Sequences, FiniteSets

CONSTANTS
  Backends,    \* of {"poll", "select", "kqueue"}: Linux has no kqueue
  Fds, Coros, Disciplined, NULL,
  Size,        \* poll: the length of _poll_set
  OutputMax    \* kqueue: _output_max

ASSUME PollersAssumption ==
  /\ Backends \subseteq {"poll", "select", "kqueue"}
  /\ Fds \subseteq Nat /\ IsFiniteSet(Fds)
  /\ NULL \notin Coros
  /\ Disciplined \in BOOLEAN
  /\ Size \in Nat /\ OutputMax \in Nat \ {0}

VARIABLES
  ksp,      \* the backend
  phase, waits, blocked, ready, \* of all three
  events,   \* of PollPoller
  changes   \* of KqueuePoller

vars == <<ksp, phase, waits, blocked, ready, events, changes>>

Poll == INSTANCE PollPoller
Select == INSTANCE SelectPoller
Kqueue == INSTANCE KqueuePoller

NoEvents == [i \in 1..Size |-> {}]

Init ==
  /\ ksp \in Backends
  /\ changes = <<>>
  /\ \/ ksp = "poll" /\ Poll!Init
     \/ ksp = "select" /\ Select!Init /\ events = NoEvents
     \/ ksp = "kqueue" /\ Kqueue!Init /\ events = NoEvents

PollStep == ksp = "poll" /\ Poll!Next /\ UNCHANGED <<ksp, changes>>
SelectStep == ksp = "select" /\ Select!Next /\ UNCHANGED <<ksp, events, changes>>
KqueueStep == ksp = "kqueue" /\ Kqueue!Next /\ UNCHANGED <<ksp, events>>

Next == PollStep \/ SelectStep \/ KqueueStep

Spec == Init /\ [][Next]_vars

-----------------------------------------------------------------------------
(* Properties *)

\* The coroutine that each of Regs is to wake, changes to come included.
Registered == IF ksp = "kqueue" THEN Kqueue!Armed ELSE waits

\* The registrations whose descriptor is ready.
Due == {r \in Poll!Regs : Registered[r] # NULL /\ r.dir \in ready[r.fd]}

\* The types of the backends' state.
PollersTypeOK ==
  /\ ksp \in Backends
  /\ phase \in {"run", "poll", "lost"} \cup (IF ksp = "kqueue" THEN {"thrown"} ELSE {})
  /\ waits \in [Poll!Regs -> Coros \cup {NULL}]
  /\ blocked \subseteq Coros
  /\ ready \in [Fds -> SUBSET Poll!Bits]
  /\ events \in [1..Size -> SUBSET {"in", "out"}]
  /\ changes \in Seq([reg : Poll!Regs, coro : Coros])

\* kqueue: a waiting coroutine has at most one entry in _change_list, so that
\* the list does not run over while no more than _output_max coroutines wait.
ChangesFit == Len(changes) <= Cardinality(blocked)

\* No backend checks that its array has room for one more registration.  poll's
\* and kqueue's run over only when more coroutines wait than the array has room
\* for: whatever was waited for before, poll by poll, has left nothing behind
\* that takes up room.
OverrunsNeedWaiters ==
  phase = "lost" =>
    \/ ksp = "poll" /\ Cardinality(blocked) > Size
    \/ ksp = "kqueue" /\ Cardinality(blocked) > OutputMax
    \/ ksp = "select"

\* A coroutine inside wait_for_read or wait_for_write has one registration, and
\* nobody else has any: poll wakes exactly those whose registration it erases.
BlockedIsRegistered ==
  LET Regs == {r \in Poll!Regs : Registered[r] # NULL}
  IN  phase \in {"run", "poll"} =>
        /\ blocked = {Registered[r] : r \in Regs}
        /\ \A r, s \in Regs : Registered[r] = Registered[s] => r = s

\* A poll that returns leaves no ready registration behind: with kqueue(2) as far
\* as the events fit, with select(2), and with poll(2) no reader's when all that
\* is registered is ready, whatever bits the slots have kept.
ReadyAreServed ==
  [][ /\ ksp = "poll" => Poll!AllReadersServed
      /\ ksp = "select" /\ Select!poll => \A r \in Due : Registered'[r] = NULL
      /\ ksp = "kqueue" /\ Kqueue!poll =>
           \/ \A r \in Due : Registered'[r] = NULL
           \/ Cardinality(blocked) - Cardinality(blocked') = OutputMax ]_vars

\* Whichever the backend, only coroutines whose descriptor is ready are woken,
\* and waking one and erasing its registration go together.
Contract == INSTANCE Poller WITH waits <- Registered
OnlyReadyAreWoken == Contract!Safety
=============================================================================
