-------------------------------- MODULE Coro --------------------------------
(***************************************************************************)
(* The scheduler of coro++.h: the lists _pending and _staging, the timer   *)
(* queue _events, the one stack that all coroutines share, and the event   *)
(* loop.  The operating system runs one thread, so the state is the place  *)
(* of that thread (pc), the objects of coro++.h, and the clock.            *)
(*                                                                         *)
(*   pc         where the thread is                                        *)
(*   "main"     in main(), before event_loop()                             *)
(*   "loop"     at the test of event_loop's while                          *)
(*   "expire"   in schedule_events, whose gettimeofday returned tv         *)
(*   "drain"    at the test of run_pending's while                         *)
(*   "dispatch" at the test of run_pending's for                           *)
(*   "coro"     in the coroutine _current                                  *)
(*   "back"     in run_pending, where resume has just returned             *)
(*   "timeout"  in event_loop, where time_to_next_event has just returned  *)
(*   "poll"     in the poller's poll                                       *)
(*   "exited"   event_loop has returned                                    *)
(*   "thrown"   Dead_Coro has left event_loop                              *)
(*                                                                         *)
(* A coroutine's thread function is any sequence of the calls coro++.h     *)
(* offers.  The poller is its contract only: it keeps one coroutine for    *)
(* each registration and gives back some of them; the poll(2) backend has  *)
(* its own module.  Time is in ticks; SecTicks of them are a second.       *)
(***************************************************************************)
EXTENDS Integers, Sequences

CONSTANTS
  Coros,       \* coroutine objects the program may create
  Events,      \* event objects insert_event may allocate
  Waits,       \* poller registrations: a descriptor and a direction
  Durations,   \* arguments of sleep
  SecTicks,    \* ticks in a second: 1000000 in the code
  IdleTicks,   \* poll's timeout when no event is queued: 30s in the code
  MaxTime,     \* bound: the clock stops here
  MaxQueued,   \* bound: length of _pending that explicit schedule calls reach
  Disciplined, \* coroutines schedule only what they have just created
  NULL

ASSUME CoroAssumption ==
  /\ NULL \notin Coros
  /\ Durations \subseteq Nat
  /\ SecTicks \in Nat \ {0}
  /\ IdleTicks \in Nat \ {0}
  /\ MaxTime \in Nat
  /\ MaxQueued \in Nat
  /\ Disciplined \in BOOLEAN

VARIABLES
  pc,       \* see above
  now,      \* what gettimeofday returns
  tv,       \* the gettimeofday of the running schedule_events, else 0
  timeout,  \* event_loop's local until, in microseconds, else 0
  wakeAt,   \* when the running poll times out, else 0
  exiting,  \* coro::_exit
  current,  \* coro::_current
  pending,  \* coro::_pending
  staging,  \* coro::_staging, from run_pending's iterator on
  events,   \* coro::_events: the queued events among the event objects
  waits,    \* the coroutine the poller holds for each registration
  created,  \* the coroutines made so far
  started,  \* c->started
  dead,     \* c->dead
  value,    \* c->_value
  state,    \* c->_state: where c continues
  copy,     \* c->_stack_copy
  stack     \* the frames that lie on the shared stack

objects == <<created, started, dead, value, state, copy, stack>>
vars == <<pc, now, tv, timeout, wakeAt, exiting, current, pending, staging, events, waits, objects>>

-----------------------------------------------------------------------------
(* Data *)

\* What a wake-up carries: a null pointer, or the errno that kqueue's poller
\* sends (no other caller of schedule in the library passes an argument).
Values == {"null", "errno"}

\* pending_entry
Entry(c, arg) == [co |-> c, arg |-> arg]
Entries == [co : Coros, arg : Values]

\* The calls in which a coroutine leaves the processor ("cv": see Sync).
Places == {"entry", "sleep", "wait", "cv", "yield", "done"}

\* The frames of coroutine c as it left them in call `at`; `until` is sleep's
\* local tv1.  Their bytes are never looked at by anybody else.
Frame(c, at, until) == [co |-> c, at |-> at, until |-> until]
Frames == [co : Coros, at : Places, until : Nat]

\* The event objects that are queued.
TimerEvents == [t : Nat, co : Coros]

ASSUME NullAssumption == NULL \notin Frames /\ NULL \notin TimerEvents

Queued == {e \in Events : events[e] # NULL}

\* compare_events the other way round: the latest event is at the top.
BadIsTop(e) == e \in Queued /\ \A f \in Queued : events[e].t >= events[f].t

\* The event priority_queue::top may return: none is earlier.
IsTop(e) == e \in Queued /\ \A f \in Queued : events[e].t <= events[f].t

-----------------------------------------------------------------------------
(* Pieces of the handlers.  An operator named Bad... is a plausible mistake *)
(* in the one after it: a property is worth its run when it notices one.    *)

\* The argument is dropped from the pair.
BadSchedule(c, arg) == pending' = Append(pending, c)

\* The entry goes to the front: last in, first out.
BadPushFront(c, arg) == pending' = <<Entry(c, arg)>> \o pending

\* coro::schedule, when it does not throw.
schedule(c, arg) == ~dead[c] /\ pending' = Append(pending, Entry(c, arg))

\* gettimeofday has moved on to the event's own microsecond, not past it.
BadExpired(e) == IsTop(e) /\ events[e].t <= tv

\* The test of schedule_events' loop.
Expired(e) == IsTop(e) /\ events[e].t < tv

\* timersub, and 0 when the microseconds part is not positive: so it is for an
\* event a whole number of seconds away.
TimeLeft(e) ==
  LET left == events[e].t - now
  IN  IF left > 0 /\ left % SecTicks > 0 THEN left ELSE 0

\* What it may return: several events may be at the top.
time_to_next_event ==
  IF Queued = {} THEN {IdleTicks} ELSE {TimeLeft(e) : e \in {f \in Events : IsTop(f)}}

\* The copy is made before the coroutine has run, not after.
BadUnpacked(c) == IF started[c] THEN stack ELSE Frame(c, "entry", 0)

\* The shared stack once create and restore have prepared it for c.
Unpacked(c) ==
  IF copy[c] # NULL THEN copy[c]
  ELSE IF started[c] THEN stack ELSE Frame(c, "entry", 0)

\* c->resume (arg), for a c that is not dead.
resume(c, arg) ==
  /\ current' = c
  /\ started' = [started EXCEPT ![c] = TRUE]
  /\ state' = [state EXCEPT ![c] = IF started[c] THEN @ ELSE "entry"]
  /\ stack' = Unpacked(c)
  /\ copy' = [copy EXCEPT ![c] = NULL]
  /\ value' = [value EXCEPT ![c] = arg]

\* c->preserve(): the slice from the saved stack pointer to the stack's top.
preserve(c) == copy' = [copy EXCEPT ![c] = stack]

\* _current->yield() inside call `at`: __swap records where to continue, and
\* the frames stay on the shared stack until main preserves them.
Leave(at, until) ==
  /\ pc' = "back"
  /\ state' = [state EXCEPT ![current] = at]
  /\ stack' = Frame(current, at, until)
  /\ value' = [value EXCEPT ![current] = "null"]
  /\ UNCHANGED <<current, created, started, copy>>

-----------------------------------------------------------------------------
(* main() and event_loop *)

\* new coro (...), then schedule().
Create(c) ==
  /\ c \notin created
  /\ created' = created \cup {c}
  /\ schedule(c, "null")
  /\ UNCHANGED <<started, dead, value, state, copy, stack>>

MainSpawn ==
  /\ pc = "main"
  /\ \E c \in Coros : Create(c)
  /\ UNCHANGED <<pc, now, tv, timeout, wakeAt, exiting, current, staging,
                 events, waits>>

EnterLoop ==
  /\ pc = "main"
  /\ pc' = "loop"
  /\ UNCHANGED <<now, tv, timeout, wakeAt, exiting, current, pending, staging,
                 events, waits, objects>>

\* while (!_exit) run_pending(), which begins with schedule_events().
EventLoop ==
  /\ pc = "loop"
  /\ IF exiting
       THEN pc' = "exited" /\ UNCHANGED tv
       ELSE pc' = "expire" /\ tv' = now
  /\ UNCHANGED <<now, timeout, wakeAt, exiting, current, pending, staging,
                 events, waits, objects>>

\* The event stays queued.
BadFireEvent ==
  /\ pc = "expire"
  /\ \E e \in Events : Expired(e) /\ schedule(events[e].co, "null")
  /\ UNCHANGED <<pc, now, tv, timeout, wakeAt, exiting, current, staging,
                 events, waits, objects>>

\* The event is popped and forgotten.
BadPopEvent ==
  /\ pc = "expire"
  /\ \E e \in Events : Expired(e) /\ events' = [events EXCEPT ![e] = NULL]
  /\ UNCHANGED <<pc, now, tv, timeout, wakeAt, exiting, current, pending,
                 staging, waits, objects>>

\* An iteration of schedule_events: the top event is over.
FireEvent ==
  /\ pc = "expire"
  /\ \E e \in Events :
       /\ Expired(e)
       /\ events' = [events EXCEPT ![e] = NULL]
       /\ \/ schedule(events[e].co, "null") /\ UNCHANGED pc
          \/ dead[events[e].co] /\ pc' = "thrown" /\ UNCHANGED pending
  /\ UNCHANGED <<now, tv, timeout, wakeAt, exiting, current, staging, waits, objects>>

EventsDone ==
  /\ pc = "expire"
  /\ \A e \in Events : ~Expired(e)
  /\ pc' = "drain"
  /\ tv' = 0
  /\ UNCHANGED <<now, timeout, wakeAt, exiting, current, pending, staging,
                 events, waits, objects>>

-----------------------------------------------------------------------------
(* run_pending *)

\* The round takes the first entry and clears the list.
BadTakeOne ==
  /\ pc = "drain"
  /\ pending # <<>>
  /\ staging' = <<Head(pending)>>
  /\ pending' = <<>>
  /\ pc' = "dispatch"
  /\ UNCHANGED <<now, tv, timeout, wakeAt, exiting, current, events, waits, objects>>

\* The round's entries stay scheduled: _staging is swapped back uncleared.
BadSwapLists ==
  /\ pc = "drain"
  /\ pending # <<>>
  /\ staging' = pending
  /\ UNCHANGED pending
  /\ pc' = "dispatch"
  /\ UNCHANGED <<now, tv, timeout, wakeAt, exiting, current, events, waits, objects>>

\* std::swap (_staging, _pending)
SwapLists ==
  /\ pc = "drain"
  /\ pending # <<>>
  /\ staging' = pending
  /\ pending' = staging
  /\ pc' = "dispatch"
  /\ UNCHANGED <<now, tv, timeout, wakeAt, exiting, current, events, waits, objects>>

\* resume does not look at c->dead.
BadResume ==
  /\ pc = "dispatch"
  /\ staging # <<>>
  /\ resume(Head(staging).co, Head(staging).arg)
  /\ pc' = "coro"
  /\ UNCHANGED <<now, tv, timeout, wakeAt, exiting, pending, staging, events,
                 waits, created, dead>>

\* co->resume ((*i).second)
Resume ==
  /\ pc = "dispatch"
  /\ staging # <<>>
  /\ \/ /\ ~dead[Head(staging).co]
        /\ resume(Head(staging).co, Head(staging).arg)
        /\ pc' = "coro"
     \/ /\ dead[Head(staging).co]
        /\ pc' = "thrown"
        /\ UNCHANGED <<current, started, state, stack, copy, value>>
  /\ UNCHANGED <<now, tv, timeout, wakeAt, exiting, pending, staging, events,
                 waits, created, dead>>

\* if (!co->dead) co->preserve(), and the iterator moves on.
Preserve ==
  /\ pc = "back"
  /\ IF dead[Head(staging).co] THEN UNCHANGED copy ELSE preserve(Head(staging).co)
  /\ staging' = Tail(staging)
  /\ pc' = "dispatch"
  /\ UNCHANGED <<now, tv, timeout, wakeAt, exiting, current, pending, events, waits>>
  /\ UNCHANGED <<created, started, dead, value, state, stack>>

\* The round is over: _staging->clear(), then schedule_events().
EndRound ==
  /\ pc = "dispatch"
  /\ staging = <<>>
  /\ pc' = "expire"
  /\ tv' = now
  /\ UNCHANGED <<now, timeout, wakeAt, exiting, current, pending, staging,
                 events, waits, objects>>

\* Nothing is left to run: back in event_loop, which exits or asks how long to
\* poll.
AskTimeout ==
  /\ pc = "drain"
  /\ pending = <<>>
  /\ IF exiting
       THEN pc' = "exited" /\ UNCHANGED timeout
       ELSE pc' = "timeout" /\ timeout' \in time_to_next_event
  /\ UNCHANGED <<now, tv, wakeAt, exiting, current, pending, staging, events,
                 waits, objects>>

\* The timeout runs from here on, whatever the clock did since it was asked for.
StartPoll ==
  /\ pc = "timeout"
  /\ pc' = "poll"
  /\ wakeAt' = now + timeout
  /\ timeout' = 0
  /\ UNCHANGED <<now, tv, exiting, current, pending, staging, events, waits, objects>>

-----------------------------------------------------------------------------
(* The poller, by its contract *)

\* The registration is over: its coroutine is scheduled, and the registration
\* erased unless schedule throws.
PollWake ==
  /\ pc = "poll"
  /\ \E w \in Waits, arg \in Values :
       /\ waits[w] # NULL
       /\ \/ /\ schedule(waits[w], arg)
             /\ waits' = [waits EXCEPT ![w] = NULL]
             /\ UNCHANGED pc
          \/ /\ dead[waits[w]]
             /\ pc' = "thrown"
             /\ UNCHANGED <<pending, waits>>
  /\ UNCHANGED <<now, tv, timeout, wakeAt, exiting, current, staging, events, objects>>

\* poll returns when it has scheduled something or its timeout is over; past
\* the clock's bound every timeout is.
PollReturn ==
  /\ pc = "poll"
  /\ pending # <<>> \/ now >= wakeAt \/ now = MaxTime
  /\ pc' = "loop"
  /\ wakeAt' = 0
  /\ UNCHANGED <<now, tv, timeout, exiting, current, pending, staging, events,
                 waits, objects>>

\* A signal, or the milliseconds that some backends count in, make poll return
\* before its timeout.
PollEarly ==
  /\ pc = "poll"
  /\ now < wakeAt
  /\ pc' = "loop"
  /\ wakeAt' = 0
  /\ UNCHANGED <<now, tv, timeout, exiting, current, pending, staging, events,
                 waits, objects>>

-----------------------------------------------------------------------------
(* The calls of the running coroutine *)

Spawn ==
  /\ pc = "coro"
  /\ \E c \in Coros : Create(c)
  /\ UNCHANGED <<pc, now, tv, timeout, wakeAt, exiting, current, staging,
                 events, waits>>

\* schedule is public: any coroutine that is not dead will do.  (Of a dead one
\* it throws into the caller, which catches it or ends: see Return.)
Schedule ==
  /\ pc = "coro"
  /\ ~Disciplined
  /\ Len(pending) < MaxQueued
  /\ \E c \in created : schedule(c, "null")
  /\ UNCHANGED <<pc, now, tv, timeout, wakeAt, exiting, current, staging,
                 events, waits, objects>>

Sleep ==
  /\ pc = "coro"
  /\ \E d \in Durations :
       LET e == CHOOSE f \in Events : events[f] = NULL
       IN  /\ \E f \in Events : events[f] = NULL
           /\ now + d < MaxTime
           /\ events' = [events EXCEPT ![e] = [t |-> now + d, co |-> current]]
           /\ Leave("sleep", now + d)
  /\ UNCHANGED <<now, tv, timeout, wakeAt, exiting, pending, staging, waits, dead>>

\* wait_for_read and wait_for_write: whoever held the registration loses it.
WaitFor ==
  /\ pc = "coro"
  /\ \E w \in Waits :
       /\ Disciplined => waits[w] = NULL
       /\ waits' = [waits EXCEPT ![w] = current]
  /\ Leave("wait", 0)
  /\ UNCHANGED <<now, tv, timeout, wakeAt, exiting, pending, staging, events, dead>>

\* yield() with no wake-up arranged.
YieldOnly ==
  /\ pc = "coro"
  /\ ~Disciplined
  /\ Leave("yield", 0)
  /\ UNCHANGED <<now, tv, timeout, wakeAt, exiting, pending, staging, events,
                 waits, dead>>

\* coro::exit()
Exit ==
  /\ pc = "coro"
  /\ ~exiting
  /\ exiting' = TRUE
  /\ UNCHANGED <<pc, now, tv, timeout, wakeAt, current, pending, staging,
                 events, waits, objects>>

\* The thread function returns, or throws: _wrap1 marks the coroutine dead and
\* _wrap0 yields for the last time.
Return ==
  /\ pc = "coro"
  /\ dead' = [dead EXCEPT ![current] = TRUE]
  /\ Leave("done", 0)
  /\ UNCHANGED <<now, tv, timeout, wakeAt, exiting, pending, staging, events, waits>>

-----------------------------------------------------------------------------
Tick ==
  /\ now < MaxTime
  /\ now' = now + 1
  /\ UNCHANGED <<pc, tv, timeout, wakeAt, exiting, current, pending, staging,
                 events, waits, objects>>

\* event_loop has returned or thrown; main() ends the program.
Over == pc \in {"exited", "thrown"} /\ UNCHANGED vars

Init ==
  /\ pc = "main"
  /\ now = 0
  /\ tv = 0
  /\ timeout = 0
  /\ wakeAt = 0
  /\ exiting = FALSE
  /\ current = NULL
  /\ pending = <<>>
  /\ staging = <<>>
  /\ events = [e \in Events |-> NULL]
  /\ waits = [w \in Waits |-> NULL]
  /\ created = {}
  /\ started = [c \in Coros |-> FALSE]
  /\ dead = [c \in Coros |-> FALSE]
  /\ value = [c \in Coros |-> "null"]
  /\ state = [c \in Coros |-> NULL]
  /\ copy = [c \in Coros |-> NULL]
  /\ stack = NULL

MainStep ==
  \/ EnterLoop \/ EventLoop \/ FireEvent \/ EventsDone \/ SwapLists
  \/ Resume \/ Preserve \/ EndRound \/ AskTimeout \/ StartPoll \/ PollReturn

CoroStep ==
  Spawn \/ Schedule \/ Sleep \/ WaitFor \/ YieldOnly \/ Exit \/ Return

Next == MainSpawn \/ MainStep \/ PollWake \/ PollEarly \/ CoroStep \/ Tick \/ Over

Safety == Init /\ [][Next]_vars

\* The thread runs, a coroutine's bursts end, and time passes.  Nothing makes a
\* descriptor ready.
Spec == Safety /\ WF_vars(MainStep) /\ WF_vars(CoroStep) /\ WF_vars(Tick)

-----------------------------------------------------------------------------
(* Properties *)

Pcs == {"main", "loop", "expire", "drain", "dispatch", "coro", "back", "timeout",
        "poll", "exited", "thrown"}

\* The types of the state of coro++.h.
TypeOK ==
  /\ pc \in Pcs
  /\ now \in Nat /\ tv \in Nat /\ timeout \in Nat /\ wakeAt \in Nat
  /\ exiting \in BOOLEAN
  /\ current \in Coros \cup {NULL}
  /\ pending \in Seq(Entries)
  /\ staging \in Seq(Entries)
  /\ events \in [Events -> TimerEvents \cup {NULL}]
  /\ waits \in [Waits -> Coros \cup {NULL}]
  /\ created \subseteq Coros
  /\ started \in [Coros -> BOOLEAN]
  /\ dead \in [Coros -> BOOLEAN]
  /\ value \in [Coros -> Values]
  /\ state \in [Coros -> Places \cup {NULL}]
  /\ copy \in [Coros -> Frames \cup {NULL}]
  /\ stack \in Frames \cup {NULL}

Running(c) == pc = "coro" /\ current = c

\* The coroutine whose frames are on the shared stack and in no copy: it runs,
\* or it has just yielded and run_pending has not preserved it yet.
OnStack(c) == pc \in {"coro", "back"} /\ current = c

\* The entries of the round under way that are still to be resumed.
Remaining == IF pc \in {"coro", "back"} THEN Tail(staging) ELSE staging

\* Everything that will make run_pending resume c one day.
WakeUps(c) ==
  {<<"pending", i>> : i \in {j \in DOMAIN pending : pending[j].co = c}}
  \cup {<<"staging", i>> : i \in {j \in DOMAIN Remaining : Remaining[j].co = c}}
  \cup {<<"event", e>> : e \in {f \in Queued : events[f].co = c}}
  \cup {<<"wait", w>> : w \in {v \in Waits : waits[v] = c}}

\* A coroutine that lives and does not run has exactly one wake-up to its name,
\* in the list, the timer queue or the poller: it is neither lost nor resumed
\* twice.  A coroutine that runs, is over or is not yet made has none.  This is
\* what nothing in coro++.h checks (coro::scheduled is never used) and what all
\* of it relies on.
OneWakeUp ==
  \A c \in Coros :
    IF c \in created /\ ~dead[c] /\ ~Running(c)
      THEN \E s \in WakeUps(c) : WakeUps(c) = {s}
      ELSE WakeUps(c) = {}

\* Dead_Coro never leaves event_loop: nothing schedules a coroutine that is
\* over, and none ends with a wake-up outstanding.
NoDeadCoro == pc # "thrown"

\* A coroutine that has the processor finds its own frames on the shared stack,
\* in the call it left from: create, preserve and restore lose nothing and mix
\* nothing up.  Whoever is off the stack and alive has a copy of exactly that
\* frame; nobody else has one, so preserve leaks none.
FramesIntact ==
  \A c \in Coros :
    IF OnStack(c) THEN
      /\ stack # NULL /\ stack.co = c /\ stack.at = state[c]
      /\ copy[c] = NULL
    ELSE IF started[c] /\ ~dead[c] THEN
      copy[c] # NULL /\ copy[c].co = c /\ copy[c].at = state[c]
    ELSE copy[c] = NULL

\* A coroutine back from sleep(msec) has slept past its deadline, which is the
\* one in its own frame, and was not handed some other wake-up's value.
SleepersSleepEnough ==
  pc = "coro" /\ stack.at = "sleep" =>
    stack.until < now /\ value[current] = "null"

Sleeps(c) == copy[c] # NULL /\ copy[c].at = "sleep"

\* Coroutines come back from sleep in the order of their deadlines, across
\* rounds, polls and the two lists, whenever each went to sleep and for however
\* long: in what is scheduled no deadline comes before an earlier one, and none
\* that is still in the timer queue is earlier.
SleepersInOrder ==
  LET ready == Remaining \o pending
      deadline(i) == copy[ready[i].co].until
  IN  \A j \in DOMAIN ready :
        Sleeps(ready[j].co) =>
          /\ \A i \in 1..j : Sleeps(ready[i].co) => deadline(i) <= deadline(j)
          /\ \A e \in Queued : deadline(j) <= events[e].t

\* A coroutine that is over never gets the processor again.
DeadStaysDead ==
  [][\A c \in Coros : dead[c] => dead'[c] /\ ~Running(c)']_vars

\* A scheduled coroutine is resumed, even after coro::exit().
ScheduledRuns ==
  \A c \in Coros : (\E i \in DOMAIN pending : pending[i].co = c) ~> Running(c)

\* A sleeping coroutine wakes up, unless coro::exit() abandons it.
SleepersWake ==
  \A c \in Coros :
    (\E e \in Queued : events[e].co = c) ~> Running(c) \/ pc = "exited"

\* coro::exit() stops the loop, once what is scheduled has run.
ExitStops == exiting ~> pc = "exited"

\* The scheduler is a first-in first-out queue and a processor that nobody is
\* preempted from.
Abstract == INSTANCE Threads WITH
  ready <- Remaining \o pending,
  running <- IF pc = "coro" THEN current ELSE NULL,
  got <- IF pc = "coro" THEN value[current] ELSE NULL,
  ended <- {c \in Coros : dead[c]}

\* Wake-ups are delivered in the order in which they were granted, each with
\* its own argument, whatever coroutines schedule (see Threads).
FifoSafety == Abstract!Safety

\* And each is delivered, when programs are disciplined.
FifoScheduler == Abstract!Spec
=============================================================================
