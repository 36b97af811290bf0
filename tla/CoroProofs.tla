----------------------------- MODULE CoroProofs -----------------------------
(***************************************************************************)
(* Theorems about the scheduler of Coro.tla, for any number of coroutines, *)
(* events, registrations and durations, disciplined programs or not.       *)
(***************************************************************************)
EXTENDS Coro, SequenceTheorems, TLAPS

\* Where run_pending's iterator is.  It points at the coroutine that runs or has
\* just yielded, which is not over while it runs; outside of run_pending's for
\* there is no round.
LoopInv ==
  /\ pc \notin {"dispatch", "coro", "back", "thrown"} => staging = <<>>
  /\ pc \in {"coro", "back"} =>
       staging # <<>> /\ Head(staging).co = current /\ started[current]
  /\ pc = "coro" => ~dead[current]

Inv == TypeOK /\ LoopInv

\* A coroutine that has the processor is a coroutine, and so is one that is
\* about to get it.
LEMMA HeadType ==
  ASSUME TypeOK, staging # <<>>
  PROVE  /\ Head(staging) \in Entries
         /\ Head(staging).co \in Coros
         /\ Head(staging).arg \in Values
         /\ Tail(staging) \in Seq(Entries)
<1>1. /\ Head(staging) \in Entries
      /\ Tail(staging) \in Seq(Entries)
  BY HeadTailProperties DEF TypeOK
<1> QED
  BY <1>1 DEF Entries

LEMMA CurrentType ==
  ASSUME Inv, pc \in {"coro", "back"}
  PROVE  current \in Coros
BY HeadType DEF Inv, LoopInv

\* schedule keeps the list a list of entries.
LEMMA ScheduleType ==
  ASSUME TypeOK, NEW c \in Coros, NEW arg \in Values, schedule(c, arg)
  PROVE  pending' \in Seq(Entries)
BY DEF TypeOK, schedule, Entry, Entries

\* What Leave does to the types.
LEMMA LeaveType ==
  ASSUME Inv, pc = "coro", NEW at \in Places, NEW until \in Nat, Leave(at, until)
  PROVE  /\ pc' \in Pcs
         /\ current' \in Coros \cup {NULL}
         /\ created' \subseteq Coros
         /\ started' \in [Coros -> BOOLEAN]
         /\ value' \in [Coros -> Values]
         /\ state' \in [Coros -> Places \cup {NULL}]
         /\ copy' \in [Coros -> Frames \cup {NULL}]
         /\ stack' \in Frames \cup {NULL}
<1>1. current \in Coros
  BY CurrentType
<1> QED
  BY <1>1 DEF Inv, TypeOK, Leave, Pcs, Values, Frame, Frames

\* The initial state has the types, and no round.
LEMMA InitInv == Init => Inv
<1>1. <<>> \in Seq(Entries)
  BY EmptySeq
<1> SUFFICES ASSUME Init PROVE Inv
  OBVIOUS
<1>2. TypeOK
  BY <1>1 DEF Init, TypeOK, Pcs, Values
<1>3. LoopInv
  BY DEF Init, LoopInv
<1> QED
  BY <1>2, <1>3 DEF Inv

\* Every step keeps the types.
LEMMA TypeStep == Inv /\ [Next]_vars => TypeOK'
<1> SUFFICES ASSUME Inv, [Next]_vars PROVE TypeOK'
  OBVIOUS
<1> USE DEF Pcs, TimerEvents
<1>1. CASE MainSpawn
  <2>1. PICK c \in Coros : Create(c)
    BY <1>1 DEF MainSpawn
  <2>2. pending' \in Seq(Entries)
    BY <2>1, ScheduleType DEF Create, Inv, Values
  <2> QED
    BY <1>1, <2>1, <2>2 DEF MainSpawn, Create, Inv, TypeOK
<1>2. CASE EnterLoop \/ EventLoop \/ EventsDone \/ EndRound \/ Tick
  BY <1>2 DEF EnterLoop, EventLoop, EventsDone, EndRound, Tick, Inv, TypeOK, objects
<1>3. CASE FireEvent
  <2>1. PICK e \in Events :
          /\ Expired(e)
          /\ events' = [events EXCEPT ![e] = NULL]
          /\ \/ schedule(events[e].co, "null") /\ UNCHANGED pc
             \/ dead[events[e].co] /\ pc' = "thrown" /\ UNCHANGED pending
    BY <1>3 DEF FireEvent
  <2>2. events[e].co \in Coros
    BY <2>1 DEF Expired, IsTop, Queued, Inv, TypeOK
  <2>3. pending' \in Seq(Entries)
    BY <2>1, <2>2, ScheduleType DEF Inv, TypeOK, Values
  <2>4. pc' \in Pcs /\ events' \in [Events -> TimerEvents \cup {NULL}]
    BY <2>1 DEF Inv, TypeOK
  <2> QED
    BY <1>3, <2>3, <2>4 DEF FireEvent, Inv, TypeOK, objects
<1>4. CASE SwapLists
  BY <1>4 DEF SwapLists, Inv, TypeOK, objects
<1>5. CASE Resume
  <2>1. CASE /\ resume(Head(staging).co, Head(staging).arg)
             /\ pc' = "coro"
    <3>1. Unpacked(Head(staging).co) \in Frames \cup {NULL}
      BY <1>5, HeadType DEF Resume, Unpacked, Frame, Frames, Places, Inv, TypeOK
    <3> QED
      BY <1>5, <2>1, <3>1, HeadType DEF Resume, resume, Places, Inv, TypeOK
  <2>2. CASE /\ pc' = "thrown"
             /\ UNCHANGED <<current, started, state, stack, copy, value>>
    BY <1>5, <2>2 DEF Resume, Inv, TypeOK
  <2> QED
    BY <1>5, <2>1, <2>2 DEF Resume
<1>6. CASE Preserve
  <2>1. staging # <<>>
    BY <1>6 DEF Preserve, Inv, LoopInv
  <2> QED
    BY <1>6, <2>1, HeadType DEF Preserve, preserve, Inv, TypeOK
<1>7. CASE AskTimeout \/ StartPoll
  <2>1. \A t \in time_to_next_event : t \in Nat
    <3> SUFFICES ASSUME NEW t \in time_to_next_event PROVE t \in Nat
      OBVIOUS
    <3>1. CASE Queued = {}
      BY <3>1, CoroAssumption DEF time_to_next_event
    <3>2. CASE Queued # {}
      <4>1. PICK e \in Events : IsTop(e) /\ t = TimeLeft(e)
        BY <3>2 DEF time_to_next_event
      <4>2. events[e].t - now \in Int
        BY <4>1 DEF IsTop, Queued, Inv, TypeOK
      <4> QED
        BY <4>1, <4>2 DEF TimeLeft
    <3> QED
      BY <3>1, <3>2
  <2> QED
    BY <1>7, <2>1 DEF AskTimeout, StartPoll, Inv, TypeOK, objects
<1>8. CASE PollWake
  <2>1. PICK w \in Waits, arg \in Values :
          /\ waits[w] # NULL
          /\ \/ /\ schedule(waits[w], arg)
                /\ waits' = [waits EXCEPT ![w] = NULL]
                /\ UNCHANGED pc
             \/ /\ dead[waits[w]]
                /\ pc' = "thrown"
                /\ UNCHANGED <<pending, waits>>
    BY <1>8 DEF PollWake
  <2>2. waits[w] \in Coros
    BY <2>1 DEF Inv, TypeOK
  <2>3. pending' \in Seq(Entries)
    BY <2>1, <2>2, ScheduleType DEF Inv, TypeOK
  <2> QED
    BY <1>8, <2>1, <2>3 DEF PollWake, Inv, TypeOK, objects
<1>9. CASE PollReturn \/ PollEarly
  BY <1>9 DEF PollReturn, PollEarly, Inv, TypeOK, objects
<1>10. CASE Spawn
  <2>1. PICK c \in Coros : Create(c)
    BY <1>10 DEF Spawn
  <2>2. pending' \in Seq(Entries)
    BY <2>1, ScheduleType DEF Create, Inv, Values
  <2> QED
    BY <1>10, <2>1, <2>2 DEF Spawn, Create, Inv, TypeOK
<1>11. CASE Schedule
  <2>1. PICK c \in created : schedule(c, "null")
    BY <1>11 DEF Schedule
  <2>2. pending' \in Seq(Entries)
    BY <2>1, ScheduleType DEF Inv, TypeOK, Values
  <2> QED
    BY <1>11, <2>2 DEF Schedule, Inv, TypeOK, objects
<1>12. CASE Sleep
  <2>1. PICK d \in Durations, e \in Events :
          /\ events' = [events EXCEPT ![e] = [t |-> now + d, co |-> current]]
          /\ Leave("sleep", now + d)
    BY <1>12 DEF Sleep
  <2>2. now + d \in Nat
    BY CoroAssumption DEF Inv, TypeOK
  <2>3. events' \in [Events -> TimerEvents \cup {NULL}]
    BY <1>12, <2>1, <2>2, CurrentType DEF Sleep, Inv, TypeOK
  <2> QED
    BY <1>12, <2>1, <2>2, <2>3, LeaveType DEF Sleep, Places, Inv, TypeOK
<1>13. CASE WaitFor
  <2>1. waits' \in [Waits -> Coros \cup {NULL}]
    BY <1>13, CurrentType DEF WaitFor, Inv, TypeOK
  <2> QED
    BY <1>13, <2>1, LeaveType DEF WaitFor, Places, Inv, TypeOK
<1>14. CASE YieldOnly
  BY <1>14, LeaveType DEF YieldOnly, Places, Inv, TypeOK
<1>15. CASE Exit
  BY <1>15 DEF Exit, Inv, TypeOK, objects
<1>16. CASE Return
  <2>1. dead' \in [Coros -> BOOLEAN]
    BY <1>16 DEF Return, Inv, TypeOK
  <2> QED
    BY <1>16, <2>1, LeaveType DEF Return, Places, Inv, TypeOK
<1>17. CASE Over \/ UNCHANGED vars
  BY <1>17 DEF Over, vars, Inv, TypeOK, objects
<1> QED
  BY <1>1, <1>2, <1>3, <1>4, <1>5, <1>6, <1>7, <1>8, <1>9, <1>10, <1>11,
     <1>12, <1>13, <1>14, <1>15, <1>16, <1>17
     DEF Next, MainStep, CoroStep

\* Every step keeps run_pending's iterator where it belongs.
LEMMA IteratorStep == Inv /\ [Next]_vars => LoopInv'
<1> SUFFICES ASSUME Inv, [Next]_vars PROVE LoopInv'
  OBVIOUS
<1>1. CASE MainSpawn \/ Spawn \/ Schedule \/ Exit
  BY <1>1 DEF MainSpawn, Spawn, Schedule, Exit, Create, Inv, LoopInv, objects
<1>2. CASE \/ EnterLoop \/ EventLoop \/ FireEvent \/ EventsDone \/ SwapLists
           \/ EndRound \/ AskTimeout \/ StartPoll \/ PollWake \/ PollReturn \/ PollEarly
  BY <1>2 DEF EnterLoop, EventLoop, FireEvent, EventsDone, SwapLists, EndRound,
              AskTimeout, StartPoll, PollWake, PollReturn, PollEarly, Inv, LoopInv, objects
<1>3. CASE Resume
  BY <1>3, HeadType DEF Resume, resume, Inv, TypeOK, LoopInv
<1>4. CASE Preserve
  BY <1>4 DEF Preserve, Inv, LoopInv
<1>5. CASE Sleep \/ WaitFor \/ YieldOnly \/ Return
  BY <1>5 DEF Sleep, WaitFor, YieldOnly, Return, Leave, Inv, LoopInv
<1>6. CASE Tick \/ Over \/ UNCHANGED vars
  BY <1>6 DEF Tick, Over, vars, objects, Inv, LoopInv
<1> QED
  BY <1>1, <1>2, <1>3, <1>4, <1>5, <1>6 DEF Next, MainStep, CoroStep

LEMMA InvStep == Inv /\ [Next]_vars => Inv'
BY TypeStep, IteratorStep DEF Inv

LEMMA InvHolds == Safety => []Inv
BY InitInv, InvStep, PTL DEF Safety

\* The state of coro++.h has its types, whatever coroutines do.
THEOREM TypeCorrect == Spec => []TypeOK
<1>1. Inv => TypeOK
  BY DEF Inv
<1> QED
  BY <1>1, InvHolds, PTL DEF Spec
-----------------------------------------------------------------------------
(* The shared stack *)

\* Every step keeps the frames of each coroutine, on the stack or in its copy.
LEMMA FramesStep ==
  Inv /\ FramesIntact /\ [Next]_vars => FramesIntact'
<1> SUFFICES ASSUME Inv, FramesIntact, [Next]_vars PROVE FramesIntact'
  OBVIOUS
<1>1. CASE MainSpawn \/ Spawn \/ Schedule \/ Exit
  BY <1>1 DEF MainSpawn, Spawn, Schedule, Exit, Create, FramesIntact, OnStack, objects
<1>2. CASE \/ EnterLoop \/ EventLoop \/ FireEvent \/ EventsDone \/ SwapLists
           \/ EndRound \/ AskTimeout \/ StartPoll \/ PollWake \/ PollReturn \/ PollEarly
  BY <1>2 DEF EnterLoop, EventLoop, FireEvent, EventsDone, SwapLists, EndRound,
              AskTimeout, StartPoll, PollWake, PollReturn, PollEarly, FramesIntact, OnStack, objects
<1>3. CASE Resume
  <2>1. CASE UNCHANGED <<current, started, state, stack, copy, value>> /\ pc' = "thrown"
    BY <1>3, <2>1 DEF Resume, FramesIntact, OnStack
  <2>2. CASE /\ ~dead[Head(staging).co]
             /\ resume(Head(staging).co, Head(staging).arg)
             /\ pc' = "coro"
    <3> DEFINE r == Head(staging).co
    <3>1. r \in Coros /\ ~dead[r] /\ current' = r /\ pc = "dispatch"
      BY <1>3, <2>2, HeadType DEF Resume, resume, Inv
    <3>2. /\ state'[r] = IF started[r] THEN state[r] ELSE "entry"
          /\ copy'[r] = NULL
          /\ started'[r]
      BY <2>2, <3>1 DEF resume, Inv, TypeOK
    <3>3. stack' # NULL /\ stack'.co = r /\ stack'.at = state'[r]
      <4>1. CASE started[r]
        BY <2>2, <3>1, <3>2, <4>1 DEF resume, Unpacked, FramesIntact, OnStack
      <4>2. CASE ~started[r]
        <5>1. copy[r] = NULL
          BY <3>1, <4>2 DEF FramesIntact, OnStack
        <5>2. stack' = Frame(r, "entry", 0)
          BY <2>2, <4>2, <5>1 DEF resume, Unpacked
        <5>3. Frame(r, "entry", 0) # NULL
          BY <3>1, NullAssumption DEF Frame, Frames, Places
        <5> QED
          BY <3>2, <4>2, <5>2, <5>3 DEF Frame
      <4> QED
        BY <4>1, <4>2
    <3>4. \A c \in Coros \ {r} :
            /\ state'[c] = state[c] /\ copy'[c] = copy[c]
            /\ started'[c] = started[c] /\ dead'[c] = dead[c]
      BY <1>3, <2>2 DEF Resume, resume, Inv, TypeOK
    <3> QED
      BY <2>2, <3>1, <3>2, <3>3, <3>4 DEF FramesIntact, OnStack
  <2> QED
    BY <1>3, <2>1, <2>2 DEF Resume
<1>4. CASE Preserve
  <2>1. /\ pc = "back" /\ current \in Coros /\ Head(staging).co = current
        /\ pc' = "dispatch"
    BY <1>4, CurrentType DEF Preserve, Inv, LoopInv
  <2>2. CASE dead[current]
    BY <1>4, <2>1, <2>2 DEF Preserve, FramesIntact, OnStack
  <2>3. CASE ~dead[current]
    <3>1. /\ copy' = [copy EXCEPT ![current] = stack]
          /\ UNCHANGED <<current, started, dead, state, stack>>
      BY <1>4, <2>1, <2>3 DEF Preserve, preserve
    <3>2. started[current]
      BY <2>1 DEF Inv, LoopInv
    <3> QED
      BY <2>1, <2>3, <3>1, <3>2 DEF FramesIntact, OnStack, Inv, TypeOK
  <2> QED
    BY <2>2, <2>3
<1>5. ASSUME pc = "coro", NEW at \in Places, NEW until \in Nat, Leave(at, until),
             \A c \in Coros \ {current} : dead'[c] = dead[c]
      PROVE  FramesIntact'
  <2>1. current \in Coros
    BY <1>5, CurrentType
  <2>2. Frame(current, at, until) # NULL
    BY <1>5, <2>1, NullAssumption DEF Frame, Frames
  <2> QED
    BY <1>5, <2>1, <2>2 DEF Leave, Frame, FramesIntact, OnStack, Inv, TypeOK
<1>6. CASE Sleep
  <2>1. PICK d \in Durations : Leave("sleep", now + d)
    BY <1>6 DEF Sleep
  <2>2. now + d \in Nat
    BY CoroAssumption DEF Inv, TypeOK
  <2> QED
    BY <1>5, <1>6, <2>1, <2>2 DEF Sleep, Places
<1>8. CASE WaitFor \/ YieldOnly \/ Return
  <2>1. PICK at \in Places : Leave(at, 0)
    BY <1>8 DEF WaitFor, YieldOnly, Return, Places
  <2>2. \A c \in Coros \ {current} : dead'[c] = dead[c]
    BY <1>8 DEF WaitFor, YieldOnly, Return, Inv, TypeOK
  <2> QED
    BY <1>5, <1>8, <2>1, <2>2 DEF WaitFor, YieldOnly, Return
<1>7. CASE Tick \/ Over \/ UNCHANGED vars
  BY <1>7 DEF Tick, Over, vars, objects, FramesIntact, OnStack
<1> QED
  BY <1>1, <1>2, <1>3, <1>4, <1>6, <1>7, <1>8 DEF Next, MainStep, CoroStep

\* Every coroutine finds its own frames on the shared stack, and nobody leaks a
\* copy: stack copying is sound for any program.
THEOREM FramesAreIntact == Spec => []FramesIntact
<1>1. Init => FramesIntact
  BY DEF Init, FramesIntact, OnStack
<1> QED
  BY <1>1, FramesStep, InvHolds, PTL DEF Spec, Safety
-----------------------------------------------------------------------------
(* Dead coroutines *)

\* A coroutine that is over stays over and off the processor.
LEMMA DeadStep ==
  Inv /\ [Next]_vars => \A c \in Coros : dead[c] => dead'[c] /\ ~Running(c)'
<1> SUFFICES ASSUME Inv, [Next]_vars, NEW c \in Coros, dead[c]
             PROVE  dead'[c] /\ ~Running(c)'
  OBVIOUS
<1>1. dead'[c]
  BY DEF Next, MainStep, CoroStep, MainSpawn, EnterLoop, EventLoop, FireEvent,
     EventsDone, SwapLists, Resume, Preserve, EndRound, AskTimeout, StartPoll, PollWake,
     PollReturn, PollEarly, Spawn, Schedule, Sleep, WaitFor, YieldOnly, Exit,
     Return, Tick, Over, Create, vars, objects, Inv, TypeOK
<1>2. LoopInv'
  BY IteratorStep
<1> QED
  BY <1>1, <1>2 DEF LoopInv, Running

\* Nothing gives the processor back to a coroutine that is over, however often
\* it was scheduled before it ended.
THEOREM DeadNeverRun == Spec => DeadStaysDead
<1>1. Inv /\ [Next]_vars => [\A c \in Coros : dead[c] => dead'[c] /\ ~Running(c)']_vars
  BY DeadStep
<1> QED
  BY <1>1, InvHolds, PTL DEF Spec, Safety, DeadStaysDead
-----------------------------------------------------------------------------
(* The scheduler is the queue of Threads.tla *)

LEMMA RemainingType ==
  ASSUME Inv
  PROVE  Remaining \in Seq(Entries) /\ pending \in Seq(Entries)
BY HeadTailProperties DEF Inv, TypeOK, LoopInv, Remaining

\* schedule is Wake, and nothing else: the round under way, the processor and
\* the dead stay as they are.
LEMMA ScheduleIsWake ==
  ASSUME Inv, NEW c \in Coros, NEW arg \in Values, schedule(c, arg),
         Remaining' = Remaining,
         pc' = "coro" <=> pc = "coro",
         pc = "coro" => current' = current /\ value' = value,
         dead' = dead
  PROVE  Abstract!Next
<1> DEFINE w == Entry(c, arg)
<1>1. w \in Abstract!WakeUps /\ w.co = c
  BY DEF Abstract!WakeUps, Entry
<1>2. Remaining' \o pending' = Append(Remaining \o pending, w)
  <2>1. pending' = Append(pending, w)
    BY DEF schedule
  <2>2. w \in Entries
    BY DEF Entry, Entries
  <2>3. Remaining \o Append(pending, w) = Append(Remaining \o pending, w)
    BY <2>2, RemainingType, AppendIsConcat, ConcatAssociative, ConcatProperties
  <2> QED
    BY <2>1, <2>3
<1>3. Abstract!Wake
  BY <1>1, <1>2 DEF Abstract!Wake, schedule
<1> QED
  BY <1>3 DEF Abstract!Next

\* A step that leaves the queue, the processor and the dead alone is a stutter.
LEMMA Stutter ==
  ASSUME Remaining' \o pending' = Remaining \o pending,
         pc' = "coro" <=> pc = "coro",
         pc = "coro" => current' = current /\ value' = value,
         dead' = dead
  PROVE  UNCHANGED Abstract!tvars
BY DEF Abstract!tvars

\* The coroutine that leaves the processor leaves the queue alone.
LEMMA LeaveIsYield ==
  ASSUME Inv, pc = "coro", NEW at, NEW until, Leave(at, until),
         pending' = pending, staging' = staging
  PROVE  /\ dead' = dead => Abstract!Yield
         /\ dead' = [dead EXCEPT ![current] = TRUE] => Abstract!Finish
<1>1. current \in Coros /\ current # NULL
  BY CurrentType, CoroAssumption
<1>2. Remaining' \o pending' = Remaining \o pending /\ pc' = "back"
  BY DEF Leave, Remaining
<1>3. dead' = [dead EXCEPT ![current] = TRUE] =>
        {c \in Coros : dead'[c]} = {c \in Coros : dead[c]} \cup {current}
  BY <1>1 DEF Inv, TypeOK
<1> QED
  BY <1>1, <1>2, <1>3 DEF Abstract!Yield, Abstract!Finish

\* Resuming the next entry of the round is Dispatch.
LEMMA ResumeIsDispatch ==
  ASSUME Inv, Resume, pc' = "coro"
  PROVE  Abstract!Dispatch
<1> DEFINE w == Head(staging)
<1>1. /\ pc = "dispatch" /\ staging # <<>> /\ staging' = staging
      /\ ~dead[w.co] /\ resume(w.co, w.arg)
      /\ pending' = pending /\ dead' = dead
  BY DEF Resume
<1>2. w \in Entries /\ w.co \in Coros /\ Tail(staging) \in Seq(Entries)
  BY <1>1, HeadType DEF Inv
<1>3. current' = w.co /\ value'[w.co] = w.arg
  BY <1>1, <1>2 DEF resume, Inv, TypeOK
<1>4. Remaining = staging /\ Remaining' = Tail(staging)
  BY <1>1 DEF Remaining
<1>5. /\ staging \o pending # <<>>
      /\ Head(staging \o pending) = w
      /\ Tail(staging \o pending) = Tail(staging) \o pending
  BY <1>1, <1>2 DEF Inv, TypeOK
<1> QED
  BY <1>1, <1>2, <1>3, <1>4, <1>5 DEF Abstract!Dispatch

\* Each step of the scheduler is a step of Threads, or none.
LEMMA FifoStep == Inv /\ [Next]_vars => [Abstract!Next]_(Abstract!tvars)
<1> SUFFICES ASSUME Inv, [Next]_vars
             PROVE  Abstract!Next \/ UNCHANGED Abstract!tvars
  OBVIOUS
<1>1. CASE MainSpawn
  <2>1. PICK c \in Coros : Create(c)
    BY <1>1 DEF MainSpawn
  <2> QED
    BY <1>1, <2>1, ScheduleIsWake DEF MainSpawn, Create, Remaining, Values
<1>2. CASE Spawn
  <2>1. PICK c \in Coros : Create(c)
    BY <1>2 DEF Spawn
  <2> QED
    BY <1>2, <2>1, ScheduleIsWake DEF Spawn, Create, Remaining, Values
<1>3. CASE Schedule
  <2>1. PICK c \in created : schedule(c, "null")
    BY <1>3 DEF Schedule
  <2> QED
    BY <1>3, <2>1, ScheduleIsWake DEF Schedule, Remaining, Values, objects, Inv, TypeOK
<1>4. CASE FireEvent
  <2>1. PICK e \in Events :
          /\ Expired(e)
          /\ \/ schedule(events[e].co, "null") /\ UNCHANGED pc
             \/ dead[events[e].co] /\ pc' = "thrown" /\ UNCHANGED pending
    BY <1>4 DEF FireEvent
  <2>2. events[e].co \in Coros
    BY <2>1 DEF Expired, IsTop, Queued, TimerEvents, Inv, TypeOK
  <2>3. Remaining' = Remaining /\ pc = "expire" /\ dead' = dead /\ pc' # "coro"
    BY <1>4, <2>1 DEF FireEvent, Remaining, objects
  <2> QED
    BY <2>1, <2>2, <2>3, ScheduleIsWake, Stutter DEF Values
<1>5. CASE PollWake
  <2>1. PICK w \in Waits, arg \in Values :
          /\ waits[w] # NULL
          /\ \/ schedule(waits[w], arg) /\ UNCHANGED pc
             \/ pc' = "thrown" /\ UNCHANGED pending
    BY <1>5 DEF PollWake
  <2>2. waits[w] \in Coros
    BY <2>1 DEF Inv, TypeOK
  <2>3. Remaining' = Remaining /\ pc = "poll" /\ dead' = dead /\ pc' # "coro"
    BY <1>5, <2>1 DEF PollWake, Remaining, objects
  <2> QED
    BY <2>1, <2>2, <2>3, ScheduleIsWake, Stutter
<1>6. CASE SwapLists
  <2>1. staging = <<>> /\ pending \in Seq(Entries)
    BY <1>6 DEF SwapLists, Inv, LoopInv, TypeOK
  <2>2. Remaining \o pending = pending /\ Remaining' \o pending' = pending
    BY <1>6, <2>1, ConcatEmptySeq DEF SwapLists, Remaining
  <2> QED
    BY <1>6, <2>2, Stutter DEF SwapLists, objects
<1>7. CASE Resume
  <2>1. CASE pc' = "coro"
    BY <1>7, <2>1, ResumeIsDispatch DEF Abstract!Next
  <2>2. CASE pc' # "coro"
    BY <1>7, <2>2, Stutter DEF Resume, Remaining
  <2> QED
    BY <2>1, <2>2
<1>8. CASE Preserve
  BY <1>8, Stutter DEF Preserve, Remaining
<1>9. CASE \/ EnterLoop \/ EventLoop \/ EventsDone \/ EndRound \/ AskTimeout \/ StartPoll
           \/ PollReturn \/ PollEarly
  BY <1>9, Stutter DEF EnterLoop, EventLoop, EventsDone, EndRound, AskTimeout, StartPoll,
     PollReturn, PollEarly, Remaining, objects
<1>10. CASE Sleep \/ WaitFor \/ YieldOnly
  BY <1>10, LeaveIsYield DEF Sleep, WaitFor, YieldOnly, Abstract!Next
<1>11. CASE Return
  BY <1>11, LeaveIsYield DEF Return, Abstract!Next
<1>12. CASE Exit \/ Tick \/ Over \/ UNCHANGED vars
  BY <1>12, Stutter DEF Exit, Tick, Over, vars, objects, Remaining
<1> QED
  BY <1>1, <1>2, <1>3, <1>4, <1>5, <1>6, <1>7, <1>8, <1>9, <1>10, <1>11, <1>12
     DEF Next, MainStep, CoroStep

\* Two lists that are swapped, a timer queue and a poller make one first-in
\* first-out queue, for any program and any poller.
THEOREM SchedulerIsFifo == Spec => FifoSafety
<1>1. Init => Abstract!Init
  BY DEF Init, Abstract!Init, Remaining
<1> QED
  BY <1>1, FifoStep, InvHolds, PTL DEF Spec, Safety, FifoSafety, Abstract!Safety
=============================================================================
