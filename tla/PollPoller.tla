----------------------------- MODULE PollPoller -----------------------------
(***************************************************************************)
(* The poll(2) backend of event_poll.h: its two maps of registrations, and *)
(* the array of struct pollfd that it refills on every poll and never      *)
(* clears.  The thread alternates between coroutines, which register, and  *)
(* poll; nothing else of the program runs meanwhile, so a poll is a step.  *)
(* The kernel changes its mind about descriptors at any time.              *)
(***************************************************************************)
EXTENDS Integers, FiniteSets

CONSTANTS
  Fds,         \* descriptors: std::map keeps them in order
  Coros,       \* coroutines
  Size,        \* length of _poll_set
  Disciplined, \* nobody registers where another coroutine waits
  NULL

Regs == [fd : Fds, dir : {"in", "out"}]

VARIABLES
  phase,    \* "run": coroutines run; "poll": event_loop is to call poll;
            \* "lost": poll has written past the end of _poll_set
  waits,    \* _read_set and _write_set: their coroutine for each of Regs
  blocked,  \* the coroutines inside wait_for_read or wait_for_write
  ready,    \* the conditions the kernel reports of each descriptor
  events    \* the events fields of _poll_set, from index 1

vars == <<phase, waits, blocked, ready, events>>

\* POLLIN and POLLOUT, and POLLHUP for what is reported without being asked.
Bits == {"in", "out", "hup"}

Registered == {r \in Regs : waits[r] # NULL}
Count == Cardinality(Registered)

\* The slots are filled from the last one used to the first, reads before
\* writes and each by ascending descriptor: r's slot comes after s's.
After(r, s) ==
  \/ r.dir = "in" /\ s.dir = "out"
  \/ r.dir = s.dir /\ r.fd < s.fd

\* A descriptor has one slot, whatever is waited for.
BadSlotOf(r) == Cardinality({s \in Registered : s = r \/ r.fd < s.fd})

SlotOf(r) == Cardinality({s \in Registered : s = r \/ After(r, s)})

\* Whose registration slot i is filled for.
InSlot(i) == CHOOSE r \in Registered : SlotOf(r) = i

\* Every slot asks for POLLHUP as well.
BadFilled ==
  [i \in 1..Size |->
     IF i <= Count THEN events[i] \cup {InSlot(i).dir, "hup"} ELSE events[i]]

\* The events fields as poll(2) gets them: a slot keeps the bits of its past.
Filled ==
  [i \in 1..Size |->
     IF i <= Count THEN events[i] \cup {InSlot(i).dir} ELSE events[i]]

\* What poll(2) writes into revents.
Revents(i) == ready[InSlot(i).fd] \cap (Filled[i] \cup {"hup"})

\* The loop counts down before it tests.
BadPollResult == Cardinality({i \in 1..Count : Revents(i) # {}}) - 1

PollResult == Cardinality({i \in 1..Count : Revents(i) # {}})

\* As many slots are looked at as poll(2) has found ready, the first ones.  A
\* slot with POLLIN wakes the reader of its descriptor if there is one; only a
\* slot without wakes the writer.
Served ==
  {r \in Registered :
     \E i \in 1..PollResult :
       /\ InSlot(i).fd = r.fd
       /\ \/ r.dir = "in" /\ "in" \in Revents(i)
          \/ r.dir = "out" /\ "in" \notin Revents(i) /\ "out" \in Revents(i)}

\* The maps once the served are erased, or are not.
BadErased == waits
Erased == [r \in Regs |-> IF r \in Served THEN NULL ELSE waits[r]]

-----------------------------------------------------------------------------
\* wait_for_read and wait_for_write of the running coroutine
set_wait_for(r, c) ==
  /\ phase = "run"
  /\ c \notin blocked
  /\ Disciplined => waits[r] = NULL
  /\ waits' = [waits EXCEPT ![r] = c]
  /\ blocked' = blocked \cup {c}
  /\ UNCHANGED <<phase, ready, events>>

\* run_pending is done.
EndRun ==
  /\ phase = "run"
  /\ phase' = "poll"
  /\ UNCHANGED <<waits, blocked, ready, events>>

\* poll, whose poll(2) returns what it finds at this moment: nothing, when its
\* timeout is over.
poll ==
  /\ phase = "poll"
  /\ Count <= Size
  /\ phase' = "run"
  /\ events' = Filled
  /\ waits' = Erased
  /\ blocked' = blocked \ {waits[r] : r \in Served}
  /\ UNCHANGED ready

\* poll(2) is interrupted: poll reports it and returns.
PollFails ==
  /\ phase = "poll"
  /\ Count <= Size
  /\ phase' = "run"
  /\ events' = Filled
  /\ UNCHANGED <<waits, blocked, ready>>

\* There are more registrations than slots: what becomes of the program when
\* poll has filled those that are not there is undefined.
PollOverruns ==
  /\ phase = "poll"
  /\ Count > Size
  /\ phase' = "lost"
  /\ UNCHANGED <<waits, blocked, ready, events>>

KernelChanges ==
  /\ \E fd \in Fds, bits \in SUBSET Bits : ready' = [ready EXCEPT ![fd] = bits]
  /\ UNCHANGED <<phase, waits, blocked, events>>

Init ==
  /\ phase = "run"
  /\ waits = [r \in Regs |-> NULL]
  /\ blocked = {}
  /\ ready \in [Fds -> SUBSET Bits]
  \* new struct pollfd[size] leaves the array as the memory was
  /\ events \in [1..Size -> SUBSET {"in", "out"}]

Next ==
  \/ \E r \in Regs, c \in Coros : set_wait_for(r, c)
  \/ EndRun \/ poll \/ PollFails \/ PollOverruns \/ KernelChanges

\* The event loop goes on; poll(2) is not interrupted for ever.
Spec == Init /\ [][Next]_vars /\ WF_vars(EndRun) /\ SF_vars(poll)

-----------------------------------------------------------------------------
(* Properties *)

\* When everything that is registered is ready, a poll leaves no reader waiting,
\* whatever bits the slots have kept.
AllReadersServed ==
  poll /\ (\A r \in Registered : r.dir \in ready[r.fd])
    => \A r \in Registered : r.dir = "in" => waits'[r] = NULL

\* A registration whose descriptor stays ready does not keep waiting.
IsServed(r) ==
  LET Due == waits[r] # NULL /\ r.dir \in ready[r.fd] IN Due ~> ~Due

\* A coroutine in wait_for_read whose descriptor stays readable is woken.
ReadersAreServed == \A fd \in Fds : IsServed([fd |-> fd, dir |-> "in"])
=============================================================================
