------------------------------ MODULE Threads ------------------------------
(***************************************************************************)
(* What the scheduler of coro++.h promises, without its two lists, its     *)
(* shared stack and its event loop: a single processor and a first-in      *)
(* first-out queue of wake-ups.  Coro.tla implements this module (see      *)
(* Coro!Abstract).                                                         *)
(*                                                                         *)
(* A wake-up names a coroutine and carries the value that the call it      *)
(* wakes returns.  A coroutine may have any number of wake-ups queued;     *)
(* that a well-behaved program never has more than one is a property of    *)
(* Coro, not of this contract.                                             *)
(***************************************************************************)
EXTENDS Sequences

CONSTANTS
  Coros,    \* coroutine objects
  Values,   \* what a wake-up may carry
  NULL      \* neither a coroutine nor a value

VARIABLES
  ready,    \* wake-ups granted and not yet delivered, oldest first
  running,  \* the coroutine that holds the processor, or NULL (the scheduler)
  got,      \* the value its last wake-up delivered, NULL when nothing runs
  ended     \* coroutines whose thread function is over

tvars == <<ready, running, got, ended>>

WakeUps == [co : Coros, arg : Values]

Init ==
  /\ ready = <<>>
  /\ running = NULL
  /\ got = NULL
  /\ ended = {}

\* A coroutine that is not over may be woken by anybody, at any time.
Wake ==
  \E w \in WakeUps :
    /\ w.co \notin ended
    /\ ready' = Append(ready, w)
    /\ UNCHANGED <<running, got, ended>>

\* The oldest wake-up gets the free processor, unless its coroutine is over.
Dispatch ==
  /\ running = NULL
  /\ ready # <<>>
  /\ Head(ready).co \notin ended
  /\ running' = Head(ready).co
  /\ got' = Head(ready).arg
  /\ ready' = Tail(ready)
  /\ UNCHANGED ended

\* Only the running coroutine gives the processor up: nothing preempts it.
Yield ==
  /\ running # NULL
  /\ running' = NULL
  /\ got' = NULL
  /\ UNCHANGED <<ready, ended>>

Finish ==
  /\ running # NULL
  /\ running' = NULL
  /\ got' = NULL
  /\ ended' = ended \cup {running}
  /\ UNCHANGED ready

Next == Wake \/ Dispatch \/ Yield \/ Finish

Safety == Init /\ [][Next]_tvars

Spec ==
  /\ Safety
  /\ WF_tvars(Dispatch)
  /\ WF_tvars(Yield \/ Finish)
=============================================================================
