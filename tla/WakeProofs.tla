----------------------------- MODULE WakeProofs -----------------------------
(***************************************************************************)
(* Theorems about the wake-ups of disciplined programs: that each waiting  *)
(* coroutine has exactly one, that none is left to a coroutine that is     *)
(* over, and what comes of it for sleep.  The wake-ups in run_pending's    *)
(* two lists are looked at as the one queue they make.                     *)
(***************************************************************************)
EXTENDS CoroProofs

\* The entries that are still to be resumed, oldest first.
Queue == Remaining \o pending

InQueue(c) == \E i \in DOMAIN Queue : Queue[i].co = c
InEvents(c) == \E e \in Queued : events[e].co = c
InWaits(c) == \E w \in Waits : waits[w] = c

\* c lives and does not run: somebody must wake it.
Asleep(c) == c \in created /\ ~dead[c] /\ ~Running(c)

\* No list, timer queue or map names a coroutine twice ...
Distinct ==
  /\ \A i, j \in DOMAIN Queue : Queue[i].co = Queue[j].co => i = j
  /\ \A e, f \in Queued : events[e].co = events[f].co => e = f
  /\ \A v, w \in Waits : waits[v] # NULL /\ waits[v] = waits[w] => v = w

\* ... no two of them name the same one, nor one of P ...
Exclusive(P) ==
  \A c \in Coros :
    /\ ~(InQueue(c) /\ InEvents(c))
    /\ ~(InQueue(c) /\ InWaits(c))
    /\ ~(InEvents(c) /\ InWaits(c))
    /\ c \in P => ~InQueue(c) /\ ~InEvents(c) /\ ~InWaits(c)

\* ... and together with P they name those that need it.
Awaited(P) ==
  \A c \in Coros :
    InQueue(c) \/ InEvents(c) \/ InWaits(c) \/ c \in P <=> Asleep(c)

\* P are the coroutines that something outside of coro++.h is to wake: nobody in
\* a program of coro++.h alone.
WakeInv(P) ==
  /\ Distinct
  /\ Exclusive(P)
  /\ Awaited(P)
  /\ pc \in {"coro", "back"} => current \in created
  /\ pc # "thrown"

\* The frame that c left, or is to find: sleep's local tv1.
Until(c) == IF OnStack(c) THEN stack.until ELSE copy[c].until

\* The deadline of c is the time of its event; once that is over, so is the
\* deadline, and what is queued for c carries nothing.
Counted(c) ==
  /\ \A e \in Queued : events[e].co = c => events[e].t = Until(c)
  /\ \A i \in DOMAIN Queue :
       Queue[i].co = c => Queue[i].arg = "null" /\ Until(c) < now
  /\ ~InWaits(c)

\* So it is for every coroutine in sleep.
SleepInv ==
  /\ SleepersSleepEnough
  /\ tv <= now
  /\ \A c \in Coros : started[c] => c \in created
  /\ \A c \in Coros : started[c] /\ state[c] = "sleep" => Counted(c)

-----------------------------------------------------------------------------
(* The queue *)

LEMMA QueueType ==
  ASSUME Inv
  PROVE  Queue \in Seq(Entries)
BY RemainingType, ConcatProperties DEF Queue

\* schedule puts an entry at the end.
LEMMA Granted ==
  ASSUME Inv, NEW c \in Coros, NEW arg \in Values, schedule(c, arg),
         Remaining' = Remaining
  PROVE  /\ DOMAIN Queue' = DOMAIN Queue \cup {Len(Queue) + 1}
         /\ Len(Queue) + 1 \notin DOMAIN Queue
         /\ \A i \in DOMAIN Queue : Queue'[i] = Queue[i]
         /\ Queue'[Len(Queue) + 1].co = c
         /\ Queue'[Len(Queue) + 1].arg = arg
<1>1. Queue' = Append(Queue, Entry(c, arg))
  <2>1. Entry(c, arg) \in Entries
    BY DEF Entry, Entries
  <2> QED
    BY <2>1, RemainingType, AppendIsConcat, ConcatAssociative, ConcatProperties
       DEF Queue, schedule
<1> QED
  BY <1>1, QueueType DEF Entry, Entries

\* Resume takes the one in front.
LEMMA Taken ==
  ASSUME Inv, pc = "dispatch", staging # <<>>, pc' = "coro",
         UNCHANGED <<staging, pending>>
  PROVE  /\ Queue # <<>> /\ Queue' = Tail(Queue)
         /\ Queue[1] = Head(staging)
         /\ \A i \in DOMAIN Queue' :
              i \in Nat \ {0} /\ i + 1 \in DOMAIN Queue /\ Queue'[i] = Queue[i + 1]
         /\ \A i \in DOMAIN Queue :
              i = 1 \/ (i - 1 \in DOMAIN Queue' /\ Queue'[i - 1] = Queue[i])
<1>1. Queue = staging \o pending /\ Queue' = Tail(staging) \o pending
  BY DEF Queue, Remaining
<1>2. staging \in Seq(Entries) /\ pending \in Seq(Entries)
  BY DEF Inv, TypeOK
<1>3. Queue' = Tail(Queue) /\ Queue[1] = Head(staging) /\ Queue # <<>>
  BY <1>1, <1>2
<1>4. Queue \in Seq(Entries)
  BY QueueType
<1> QED
  BY <1>3, <1>4

\* The iterator moves on, the lists are swapped: the queue stays.
LEMMA Swapped ==
  ASSUME Inv, SwapLists \/ Preserve
  PROVE  UNCHANGED Queue
<1>1. CASE SwapLists
  <2>1. staging = <<>> /\ pending \in Seq(Entries)
    BY <1>1 DEF SwapLists, Inv, LoopInv, TypeOK
  <2> QED
    BY <1>1, <2>1, ConcatEmptySeq DEF SwapLists, Remaining, Queue
<1>2. CASE Preserve
  BY <1>2 DEF Preserve, Remaining, Queue
<1> QED
  BY <1>1, <1>2
-----------------------------------------------------------------------------
(* One wake-up for each coroutine that waits *)

LEMMA WakeInit == Init => WakeInv({})
<1> SUFFICES ASSUME Init PROVE WakeInv({})
  OBVIOUS
<1>1. Queue = <<>> /\ DOMAIN Queue = {}
  BY DEF Init, Queue, Remaining
<1>2. Queued = {} /\ \A w \in Waits : waits[w] = NULL
  BY DEF Init, Queued
<1> QED
  BY <1>1, <1>2, CoroAssumption DEF Init, WakeInv, Distinct, Exclusive, Awaited,
     InQueue, InEvents, InWaits, Asleep

\* A step that moves no wake-up and neither makes, ends, runs nor stops a
\* coroutine.
LEMMA WakeStutter ==
  ASSUME NEW P, WakeInv(P), UNCHANGED <<Queue, events, waits, created, dead>>,
         pc' = "coro" <=> pc = "coro",
         pc' \in {"coro", "back"} => pc \in {"coro", "back"} /\ current' = current,
         pc' # "thrown"
  PROVE  WakeInv(P)'
BY DEF WakeInv, Distinct, Exclusive, Awaited, InQueue, InEvents, InWaits, Asleep,
   Running, Queued

\* A coroutine is made, and scheduled.
LEMMA WakeCreate ==
  ASSUME NEW P, Inv, WakeInv(P), NEW c \in Coros, Create(c), Remaining' = Remaining,
         UNCHANGED <<pc, current, events, waits>>
  PROVE  WakeInv(P)'
<1>1. /\ c \notin created /\ created' = created \cup {c} /\ dead' = dead
      /\ ~dead[c] /\ schedule(c, "null")
  BY DEF Create, schedule
<1>2. ~InQueue(c) /\ ~InEvents(c) /\ ~InWaits(c) /\ c \notin P
  BY <1>1 DEF WakeInv, Awaited, Asleep
<1>3. /\ DOMAIN Queue' = DOMAIN Queue \cup {Len(Queue) + 1}
      /\ Len(Queue) + 1 \notin DOMAIN Queue
      /\ \A i \in DOMAIN Queue : Queue'[i] = Queue[i]
      /\ Queue'[Len(Queue) + 1].co = c
  <2>1. "null" \in Values
    BY DEF Values
  <2> QED
    BY <1>1, <2>1, Granted
<1>4. \A d \in Coros : InQueue(d)' <=> InQueue(d) \/ d = c
  BY <1>3 DEF InQueue
<1>5. \A d \in Coros : (InEvents(d)' <=> InEvents(d)) /\ (InWaits(d)' <=> InWaits(d))
  BY DEF InEvents, InWaits, Queued
<1>6. Distinct'
  BY <1>2, <1>3 DEF WakeInv, Distinct, InQueue, Queued
<1>7. Exclusive(P)'
  BY <1>2, <1>4, <1>5 DEF WakeInv, Exclusive
<1>8. Awaited(P)'
  BY <1>1, <1>4, <1>5 DEF WakeInv, Awaited, Asleep, Running
<1> QED
  BY <1>1, <1>6, <1>7, <1>8 DEF WakeInv

\* The timer or the poller passes a wake-up on to the scheduler.
LEMMA WakePassed ==
  ASSUME NEW P, Inv, WakeInv(P), NEW c \in Coros, NEW arg \in Values, schedule(c, arg),
         Remaining' = Remaining, ~InQueue(c),
         \A d \in Coros : InEvents(d)' \/ InWaits(d)' <=>
                            (InEvents(d) \/ InWaits(d)) /\ d # c,
         \A d \in Coros : (InEvents(d)' => InEvents(d)) /\ (InWaits(d)' => InWaits(d)),
         InEvents(c) \/ InWaits(c),
         \A e, f \in Queued' : events'[e].co = events'[f].co => e = f,
         \A v, w \in Waits : waits'[v] # NULL /\ waits'[v] = waits'[w] => v = w,
         UNCHANGED <<pc, current, created, dead>>
  PROVE  WakeInv(P)'
<1>1. /\ DOMAIN Queue' = DOMAIN Queue \cup {Len(Queue) + 1}
      /\ Len(Queue) + 1 \notin DOMAIN Queue
      /\ \A i \in DOMAIN Queue : Queue'[i] = Queue[i]
      /\ Queue'[Len(Queue) + 1].co = c
  BY Granted
<1>2. \A d \in Coros : InQueue(d)' <=> InQueue(d) \/ d = c
  BY <1>1 DEF InQueue
<1>3. \A i, j \in DOMAIN Queue' : Queue'[i].co = Queue'[j].co => i = j
  BY <1>1 DEF WakeInv, Distinct, InQueue
<1>4. Distinct'
  BY <1>3 DEF Distinct
<1>5. Exclusive(P)'
  BY <1>2 DEF WakeInv, Exclusive
<1>6. Awaited(P)'
  BY <1>2 DEF WakeInv, Awaited, Asleep, Running
<1> QED
  BY <1>4, <1>5, <1>6 DEF WakeInv

LEMMA WakeFireEvent ==
  ASSUME NEW P, Inv, WakeInv(P), FireEvent
  PROVE  WakeInv(P)'
<1>1. PICK e \in Events :
        /\ e \in Queued
        /\ events' = [events EXCEPT ![e] = NULL]
        /\ \/ schedule(events[e].co, "null") /\ UNCHANGED pc
           \/ dead[events[e].co] /\ pc' = "thrown" /\ UNCHANGED pending
  BY DEF FireEvent, Expired, IsTop
<1> DEFINE c == events[e].co
<1>2. c \in Coros /\ InEvents(c)
  BY <1>1 DEF Queued, InEvents, TimerEvents, Inv, TypeOK
<1>3. ~dead[c] /\ ~InQueue(c) /\ ~InWaits(c)
  BY <1>2 DEF WakeInv, Awaited, Exclusive, Asleep
<1>4. schedule(c, "null") /\ UNCHANGED <<pc, current, staging, waits, created, dead>>
  BY <1>1, <1>3 DEF FireEvent, objects
<1>5. Queued' = Queued \ {e} /\ \A f \in Queued' : events'[f] = events[f]
  BY <1>1 DEF Queued, Inv, TypeOK
<1>6. \A d \in Coros : InEvents(d)' <=> InEvents(d) /\ d # c
  BY <1>1, <1>5 DEF InEvents, WakeInv, Distinct
<1>7. \A d \in Coros : InWaits(d)' <=> InWaits(d)
  BY <1>4 DEF InWaits
<1>8. Remaining' = Remaining
  BY <1>4 DEF Remaining
<1>9. \A f, g \in Queued' : events'[f].co = events'[g].co => f = g
  BY <1>5 DEF WakeInv, Distinct
<1> HIDE DEF c
<1> QED
  BY <1>2, <1>3, <1>4, <1>6, <1>7, <1>8, <1>9, WakePassed
     DEF Values, WakeInv, Distinct

LEMMA WakePollWake ==
  ASSUME NEW P, Inv, WakeInv(P), PollWake
  PROVE  WakeInv(P)'
<1>1. PICK w \in Waits, arg \in Values :
        /\ waits[w] # NULL
        /\ \/ /\ schedule(waits[w], arg)
              /\ waits' = [waits EXCEPT ![w] = NULL]
              /\ UNCHANGED pc
           \/ dead[waits[w]]
  BY DEF PollWake
<1> DEFINE c == waits[w]
<1>2. c \in Coros /\ InWaits(c)
  BY <1>1 DEF InWaits, Inv, TypeOK
<1>3. ~dead[c] /\ ~InQueue(c) /\ ~InEvents(c)
  BY <1>2 DEF WakeInv, Awaited, Exclusive, Asleep
<1>4. /\ schedule(c, arg) /\ waits' = [waits EXCEPT ![w] = NULL]
      /\ UNCHANGED <<pc, current, staging, events, created, dead>>
  BY <1>1, <1>3 DEF PollWake, objects
<1>5. /\ waits'[w] = NULL
      /\ \A v \in Waits \ {w} : waits'[v] = waits[v]
  BY <1>4 DEF Inv, TypeOK
<1>6. \A d \in Coros : InWaits(d)' <=> InWaits(d) /\ d # c
  <2> SUFFICES ASSUME NEW d \in Coros PROVE InWaits(d)' <=> InWaits(d) /\ d # c
    OBVIOUS
  <2>1. d # NULL
    BY CoroAssumption
  <2> QED
    BY <1>1, <1>5, <2>1 DEF InWaits, WakeInv, Distinct
<1>7. \A d \in Coros : InEvents(d)' <=> InEvents(d)
  BY <1>4 DEF InEvents, Queued
<1>8. Remaining' = Remaining
  BY <1>4 DEF Remaining
<1>9. \A u, v \in Waits : waits'[u] # NULL /\ waits'[u] = waits'[v] => u = v
  BY <1>5 DEF WakeInv, Distinct
<1>10. \A f, g \in Queued' : events'[f].co = events'[g].co => f = g
  BY <1>4 DEF WakeInv, Distinct, Queued
<1> HIDE DEF c
<1> QED
  BY <1>2, <1>3, <1>4, <1>6, <1>7, <1>8, <1>9, <1>10, WakePassed

\* The next coroutine of the round is resumed.
LEMMA WakeResume ==
  ASSUME NEW P, Inv, WakeInv(P), Resume
  PROVE  WakeInv(P)'
<1> DEFINE c == Head(staging).co
<1>1. c \in Coros /\ pc = "dispatch" /\ staging # <<>>
  BY HeadType DEF Resume, Inv
<1>2. 1 \in DOMAIN Queue /\ Queue[1].co = c
  <2>1. Queue = staging \o pending
    BY <1>1 DEF Queue, Remaining
  <2>2. staging \in Seq(Entries) /\ pending \in Seq(Entries)
    BY DEF Inv, TypeOK
  <2> QED
    BY <1>1, <2>1, <2>2
<1>3. InQueue(c)
  BY <1>2 DEF InQueue
<1>4. c \in created /\ ~dead[c] /\ ~InEvents(c) /\ ~InWaits(c) /\ c \notin P
  BY <1>1, <1>3 DEF WakeInv, Awaited, Exclusive, Asleep
<1>5. pc' = "coro" /\ current' = c /\ UNCHANGED <<staging, pending, events, waits, created, dead>>
  BY <1>4 DEF Resume, resume
<1>6. /\ \A i \in DOMAIN Queue' :
           i \in Nat \ {0} /\ i + 1 \in DOMAIN Queue /\ Queue'[i] = Queue[i + 1]
      /\ \A i \in DOMAIN Queue :
           i = 1 \/ (i - 1 \in DOMAIN Queue' /\ Queue'[i - 1] = Queue[i])
  BY <1>1, <1>5, Taken
<1>7. \A d \in Coros : InQueue(d)' <=> InQueue(d) /\ d # c
  <2> SUFFICES ASSUME NEW d \in Coros PROVE InQueue(d)' <=> InQueue(d) /\ d # c
    OBVIOUS
  <2>1. ASSUME NEW i \in DOMAIN Queue', Queue'[i].co = d
        PROVE  InQueue(d) /\ d # c
    <3>1. i \in Nat /\ i + 1 \in DOMAIN Queue /\ Queue[i + 1].co = d
      BY <1>6, <2>1
    <3>2. i + 1 # 1
      BY <1>6
    <3> QED
      BY <1>2, <3>1, <3>2 DEF InQueue, WakeInv, Distinct
  <2>2. ASSUME NEW i \in DOMAIN Queue, Queue[i].co = d, d # c
        PROVE  InQueue(d)'
    BY <1>2, <1>6, <2>2 DEF InQueue
  <2> QED
    BY <2>1, <2>2 DEF InQueue
<1>8. \A d \in Coros : (InEvents(d)' <=> InEvents(d)) /\ (InWaits(d)' <=> InWaits(d))
  BY <1>5 DEF InEvents, InWaits, Queued
<1>9. \A i, j \in DOMAIN Queue' : Queue'[i].co = Queue'[j].co => i = j
  <2> SUFFICES ASSUME NEW i \in DOMAIN Queue', NEW j \in DOMAIN Queue',
                      Queue'[i].co = Queue'[j].co
               PROVE  i = j
    OBVIOUS
  <2>1. i + 1 = j + 1
    BY <1>6 DEF WakeInv, Distinct
  <2> QED
    BY <1>6, <2>1
<1>10. Distinct'
  BY <1>5, <1>9 DEF WakeInv, Distinct, Queued
<1>11. Exclusive(P)'
  BY <1>7, <1>8 DEF WakeInv, Exclusive
<1>12. Awaited(P)'
  BY <1>1, <1>4, <1>5, <1>7, <1>8 DEF WakeInv, Awaited, Asleep, Running
<1> QED
  BY <1>4, <1>5, <1>10, <1>11, <1>12 DEF WakeInv

\* The running coroutine is in no list, and goes to sleep in one of them.
LEMMA WakeLeave ==
  ASSUME NEW P, Inv, WakeInv(P), pc = "coro", pc' = "back",
         UNCHANGED <<staging, pending, current, created, dead>>,
         \A d \in Coros : InEvents(d)' \/ InWaits(d)' <=>
                            InEvents(d) \/ InWaits(d) \/ d = current,
         \A d \in Coros \ {current} :
           (InEvents(d)' => InEvents(d)) /\ (InWaits(d)' => InWaits(d)),
         ~(InEvents(current)' /\ InWaits(current)'),
         \A e, f \in Queued' : events'[e].co = events'[f].co => e = f,
         \A v, w \in Waits : waits'[v] # NULL /\ waits'[v] = waits'[w] => v = w
  PROVE  WakeInv(P)'
<1>1. current \in Coros /\ Running(current) /\ ~InQueue(current) /\ current \notin P
  BY CurrentType DEF Running, WakeInv, Awaited, Asleep
<1>2. Queue' = Queue
  BY DEF Queue, Remaining
<1>3. \A d \in Coros : InQueue(d)' <=> InQueue(d)
  BY <1>2 DEF InQueue
<1>4. Distinct'
  BY <1>2 DEF WakeInv, Distinct
<1>5. Exclusive(P)'
  BY <1>1, <1>3 DEF WakeInv, Exclusive
<1>6. current \in created /\ ~dead[current]
  BY DEF WakeInv, Inv, LoopInv
<1>7. Awaited(P)'
  BY <1>1, <1>3, <1>6 DEF WakeInv, Awaited, Asleep, Running
<1> QED
  BY <1>4, <1>5, <1>6, <1>7 DEF WakeInv

LEMMA WakeSleep ==
  ASSUME NEW P, Inv, WakeInv(P), Sleep
  PROVE  WakeInv(P)'
<1>1. PICK e \in Events, t \in Nat :
        /\ events[e] = NULL
        /\ events' = [events EXCEPT ![e] = [t |-> t, co |-> current]]
  <2>1. PICK d \in Durations, e \in Events :
          /\ events[e] = NULL
          /\ events' = [events EXCEPT ![e] = [t |-> now + d, co |-> current]]
    BY DEF Sleep
  <2>2. now + d \in Nat
    BY CoroAssumption DEF Inv, TypeOK
  <2> QED
    BY <2>1, <2>2
<1>2. /\ pc = "coro" /\ pc' = "back"
      /\ UNCHANGED <<staging, pending, current, waits, created, dead>>
  BY DEF Sleep, Leave
<1>3. /\ current \in Coros /\ Running(current)
      /\ ~InEvents(current) /\ ~InWaits(current)
  BY <1>2, CurrentType DEF Running, WakeInv, Awaited, Asleep
<1>4. /\ events'[e] # NULL /\ events'[e].co = current
      /\ \A f \in Events \ {e} : events'[f] = events[f]
  BY <1>1, <1>3, NullAssumption DEF TimerEvents, Inv, TypeOK
<1>5. Queued' = Queued \cup {e} /\ e \notin Queued
  BY <1>1, <1>4 DEF Queued
<1>6. \A d \in Coros : InEvents(d)' <=> InEvents(d) \/ d = current
  BY <1>4, <1>5 DEF InEvents, Queued
<1>7. \A d \in Coros : InWaits(d)' <=> InWaits(d)
  BY <1>2 DEF InWaits
<1>8. \A f, g \in Queued' : events'[f].co = events'[g].co => f = g
  BY <1>3, <1>4, <1>5 DEF WakeInv, Distinct, InEvents, Queued
<1> QED
  BY <1>2, <1>3, <1>6, <1>7, <1>8, WakeLeave DEF WakeInv, Distinct

LEMMA WakeWaitFor ==
  ASSUME NEW P, Disciplined, Inv, WakeInv(P), WaitFor
  PROVE  WakeInv(P)'
<1>1. PICK w \in Waits :
        /\ waits[w] = NULL
        /\ waits' = [waits EXCEPT ![w] = current]
  BY DEF WaitFor
<1>2. /\ pc = "coro" /\ pc' = "back"
      /\ UNCHANGED <<staging, pending, current, events, created, dead>>
  BY DEF WaitFor, Leave
<1>3. /\ current \in Coros /\ Running(current)
      /\ ~InEvents(current) /\ ~InWaits(current)
  BY <1>2, CurrentType DEF Running, WakeInv, Awaited, Asleep
<1>4. /\ waits'[w] = current
      /\ \A v \in Waits \ {w} : waits'[v] = waits[v]
  BY <1>1 DEF Inv, TypeOK
<1>5. \A d \in Coros : InWaits(d)' <=> InWaits(d) \/ d = current
  BY <1>1, <1>4, CoroAssumption DEF InWaits
<1>6. \A d \in Coros : InEvents(d)' <=> InEvents(d)
  BY <1>2 DEF InEvents, Queued
<1>7. \A u, v \in Waits : waits'[u] # NULL /\ waits'[u] = waits'[v] => u = v
  BY <1>3, <1>4 DEF WakeInv, Distinct, InWaits
<1>8. \A f, g \in Queued' : events'[f].co = events'[g].co => f = g
  BY <1>2 DEF WakeInv, Distinct, Queued
<1> QED
  BY <1>2, <1>3, <1>5, <1>6, <1>7, <1>8, WakeLeave

\* The thread function is over: nobody will wake its coroutine, and nobody is
\* to.
LEMMA WakeReturn ==
  ASSUME NEW P, Inv, WakeInv(P), Return
  PROVE  WakeInv(P)'
<1>1. /\ pc = "coro" /\ pc' = "back"
      /\ UNCHANGED <<staging, pending, current, events, waits, created>>
      /\ dead' = [dead EXCEPT ![current] = TRUE]
  BY DEF Return, Leave
<1>2. /\ current \in Coros /\ Running(current)
      /\ ~InQueue(current) /\ ~InEvents(current) /\ ~InWaits(current)
  BY <1>1, CurrentType DEF Running, WakeInv, Awaited, Asleep
<1>3. Queue' = Queue
  BY <1>1 DEF Queue, Remaining
<1>4. \A d \in Coros : /\ InQueue(d)' <=> InQueue(d)
                       /\ InEvents(d)' <=> InEvents(d)
                       /\ InWaits(d)' <=> InWaits(d)
  BY <1>1, <1>3 DEF InQueue, InEvents, InWaits, Queued
<1>5. Distinct'
  BY <1>1, <1>3 DEF WakeInv, Distinct, Queued
<1>6. dead'[current] /\ \A d \in Coros \ {current} : dead'[d] = dead[d]
  BY <1>1, <1>2 DEF Inv, TypeOK
<1>7. Awaited(P)'
  BY <1>1, <1>2, <1>4, <1>6 DEF WakeInv, Awaited, Asleep, Running
<1> QED
  BY <1>1, <1>4, <1>5, <1>7 DEF WakeInv, Exclusive

\* Every step of a disciplined program keeps the wake-ups in order.
LEMMA WakeStep ==
  ASSUME NEW P, Disciplined, Inv, WakeInv(P), [Next]_vars
  PROVE  WakeInv(P)'
<1>1. CASE MainSpawn \/ Spawn
  <2>1. PICK c \in Coros : Create(c)
    BY <1>1 DEF MainSpawn, Spawn
  <2> QED
    BY <1>1, <2>1, WakeCreate DEF MainSpawn, Spawn, Remaining
<1>2. CASE SwapLists \/ Preserve
  BY <1>2, Swapped, WakeStutter DEF SwapLists, Preserve, objects
<1>3. CASE \/ EnterLoop \/ EventLoop \/ EventsDone \/ EndRound \/ AskTimeout \/ StartPoll
           \/ PollReturn \/ PollEarly
  BY <1>3, WakeStutter DEF EnterLoop, EventLoop, EventsDone, EndRound, AskTimeout, StartPoll,
     PollReturn, PollEarly, Queue, Remaining, objects
<1>4. CASE Exit \/ Tick \/ Over \/ UNCHANGED vars
  BY <1>4, WakeStutter DEF Exit, Tick, Over, Queue, Remaining, objects, vars, WakeInv
<1>5. CASE Schedule \/ YieldOnly
  BY <1>5 DEF Schedule, YieldOnly
<1> QED
  BY <1>1, <1>2, <1>3, <1>4, <1>5, WakeFireEvent, WakePollWake, WakeResume,
     WakeSleep, WakeWaitFor, WakeReturn DEF Next, MainStep, CoroStep

LEMMA WakeHolds == Disciplined => (Safety => []WakeInv({}))
<1> SUFFICES ASSUME Disciplined PROVE Safety => []WakeInv({})
  OBVIOUS
<1>1. Inv /\ WakeInv({}) /\ [Next]_vars => WakeInv({})'
  BY WakeStep
<1> QED
  BY <1>1, WakeInit, InvHolds, PTL DEF Safety

\* The entries of the two lists are those of the queue.
LEMMA ListsAreQueue ==
  ASSUME Inv
  PROVE  /\ \A i \in DOMAIN Remaining : i \in DOMAIN Queue /\ Queue[i] = Remaining[i]
         /\ \A j \in DOMAIN pending :
              /\ Len(Remaining) + j \in DOMAIN Queue
              /\ Len(Remaining) + j \notin DOMAIN Remaining
              /\ Queue[Len(Remaining) + j] = pending[j]
         /\ \A k \in DOMAIN Queue :
              k \in DOMAIN Remaining \/ k - Len(Remaining) \in DOMAIN pending
BY RemainingType DEF Queue

\* A coroutine that has a wake-up has it in one place.
LEMMA WakeUpIsOne ==
  ASSUME NEW P, Inv, WakeInv(P), NEW c \in Coros,
         InQueue(c) \/ InEvents(c) \/ InWaits(c)
  PROVE  \E s \in WakeUps(c) : WakeUps(c) = {s}
<1> DEFINE L == {<<"pending", i>> : i \in {j \in DOMAIN pending : pending[j].co = c}}
           S == {<<"staging", i>> : i \in {j \in DOMAIN Remaining : Remaining[j].co = c}}
           E == {<<"event", e>> : e \in {f \in Queued : events[f].co = c}}
           W == {<<"wait", w>> : w \in {v \in Waits : waits[v] = c}}
<1>1. WakeUps(c) = L \cup S \cup E \cup W
  BY DEF WakeUps
<1>2. c # NULL
  BY CoroAssumption
<1>3. CASE InQueue(c)
  <2>1. E = {} /\ W = {}
    BY <1>3 DEF WakeInv, Exclusive, InEvents, InWaits
  <2>2. PICK k \in DOMAIN Queue : Queue[k].co = c
    BY <1>3 DEF InQueue
  <2>3. \A i \in DOMAIN Queue : Queue[i].co = c => i = k
    BY <2>2 DEF WakeInv, Distinct
  <2>4. CASE k \in DOMAIN Remaining
    <3>1. S = {<<"staging", k>>}
      BY <2>2, <2>3, <2>4, ListsAreQueue
    <3>2. L = {}
      BY <2>3, <2>4, ListsAreQueue
    <3> QED
      BY <1>1, <2>1, <3>1, <3>2
  <2>5. CASE k \notin DOMAIN Remaining
    <3> DEFINE j == k - Len(Remaining)
    <3>1. j \in DOMAIN pending /\ pending[j] = Queue[k]
      BY <2>5, ListsAreQueue, QueueType, RemainingType
    <3>2. \A i \in DOMAIN pending : pending[i].co = c => i = j
      <4>1. \A i \in DOMAIN pending : pending[i].co = c => Len(Remaining) + i = k
        BY <2>3, ListsAreQueue
      <4> QED
        BY <4>1, RemainingType
    <3>3. L = {<<"pending", j>>}
      BY <2>2, <3>1, <3>2
    <3>4. S = {}
      BY <2>3, <2>5, ListsAreQueue
    <3> QED
      BY <1>1, <2>1, <3>3, <3>4
  <2> QED
    BY <2>4, <2>5
<1>4. ASSUME ~InQueue(c) PROVE L = {} /\ S = {}
  BY <1>4, ListsAreQueue DEF InQueue
<1>5. CASE InEvents(c)
  <2>1. ~InQueue(c) /\ ~InWaits(c)
    BY <1>5 DEF WakeInv, Exclusive
  <2>2. PICK e \in Queued : events[e].co = c
    BY <1>5 DEF InEvents
  <2>3. E = {<<"event", e>>}
    BY <2>2 DEF WakeInv, Distinct
  <2>4. W = {}
    BY <2>1 DEF InWaits
  <2> QED
    BY <1>1, <1>4, <2>1, <2>3, <2>4
<1>6. CASE InWaits(c)
  <2>1. ~InQueue(c) /\ ~InEvents(c)
    BY <1>6 DEF WakeInv, Exclusive
  <2>2. PICK w \in Waits : waits[w] = c
    BY <1>6 DEF InWaits
  <2>3. W = {<<"wait", w>>}
    BY <1>2, <2>2 DEF WakeInv, Distinct
  <2>4. E = {}
    BY <2>1 DEF InEvents
  <2> QED
    BY <1>1, <1>4, <2>1, <2>3, <2>4
<1> QED
  BY <1>3, <1>5, <1>6

LEMMA NoWakeUp ==
  ASSUME Inv, NEW c \in Coros, ~InQueue(c), ~InEvents(c), ~InWaits(c)
  PROVE  WakeUps(c) = {}
BY ListsAreQueue DEF InQueue, InEvents, InWaits, WakeUps

\* In a disciplined program each coroutine that waits has one wake-up and nobody
\* else has any: none is lost, doubled, or left behind by a coroutine that is
\* over, however long the program runs.
THEOREM EachHasOneWakeUp == Disciplined => (Spec => []OneWakeUp)
<1>1. Inv /\ WakeInv({}) => OneWakeUp
  BY WakeUpIsOne, NoWakeUp DEF WakeInv, Awaited, Asleep, OneWakeUp
<1> QED
  BY <1>1, InvHolds, WakeHolds, PTL DEF Spec

\* And so Dead_Coro never leaves the event loop.
THEOREM NeverThrows == Disciplined => (Spec => []NoDeadCoro)
<1>1. WakeInv({}) => NoDeadCoro
  BY DEF WakeInv, NoDeadCoro
<1> QED
  BY <1>1, WakeHolds, PTL DEF Spec
-----------------------------------------------------------------------------
(* sleep *)

\* The deadline is a time.
LEMMA UntilType ==
  ASSUME Inv, FramesIntact, NEW c \in Coros, started[c], Asleep(c)
  PROVE  Until(c) \in Nat
<1>1. CASE OnStack(c)
  BY <1>1 DEF Until, FramesIntact, Frames, Inv, TypeOK
<1>2. CASE ~OnStack(c)
  BY <1>2 DEF Until, FramesIntact, Asleep, Frames, Inv, TypeOK
<1> QED
  BY <1>1, <1>2

\* A step that moves no wake-up.
LEMMA SleepStutter ==
  ASSUME Inv, FramesIntact, SleepInv,
         UNCHANGED <<Queue, events, waits, started, state, created>>,
         \A c \in Coros : Asleep(c) => Until(c)' = Until(c),
         \A c \in Coros :
           InQueue(c)' \/ InEvents(c)' \/ InWaits(c)' => Asleep(c),
         now' \in Nat, now <= now', tv' <= now', SleepersSleepEnough'
  PROVE  SleepInv'
<1>1. ASSUME NEW c \in Coros, started[c], state[c] = "sleep"
      PROVE  Counted(c)'
  <2>1. Counted(c)
    BY <1>1 DEF SleepInv
  <2>2. CASE ~Asleep(c)
    BY <2>2 DEF Counted, InQueue, InEvents
  <2>3. CASE Asleep(c)
    <3>1. Until(c)' = Until(c) /\ Until(c) \in Nat /\ now \in Nat
      BY <1>1, <2>3, UntilType DEF Inv, TypeOK
    <3>2. \A i \in DOMAIN Queue : Queue[i].co = c => Until(c) < now'
      BY <2>1, <3>1 DEF Counted
    <3> QED
      BY <2>1, <3>1, <3>2 DEF Counted, InWaits, Queued
  <2> QED
    BY <2>2, <2>3
<1> QED
  BY <1>1 DEF SleepInv

\* An entry is put at the end of the queue, for a coroutine that does not sleep
\* or whose deadline is over.
LEMMA SleepGranted ==
  ASSUME Inv, SleepInv, NEW c \in Coros, NEW arg \in Values, schedule(c, arg),
         Remaining' = Remaining,
         started[c] /\ state[c] = "sleep" => arg = "null" /\ Until(c) < now,
         UNCHANGED <<pc, now, tv, current, dead, started, state, copy, stack, value>>,
         created \subseteq created',
         \A e \in Queued' : e \in Queued /\ events'[e] = events[e],
         \A w \in Waits : waits'[w] \in {waits[w], NULL}
  PROVE  SleepInv'
<1>1. /\ DOMAIN Queue' = DOMAIN Queue \cup {Len(Queue) + 1}
      /\ \A i \in DOMAIN Queue : Queue'[i] = Queue[i]
      /\ Queue'[Len(Queue) + 1].co = c /\ Queue'[Len(Queue) + 1].arg = arg
  BY Granted
<1>2. ASSUME NEW d \in Coros, started[d], state[d] = "sleep"
      PROVE  Counted(d)'
  <2>1. Counted(d) /\ d # NULL
    BY <1>2, CoroAssumption DEF SleepInv
  <2>2. Until(d)' = Until(d)
    BY DEF Until, OnStack
  <2> QED
    BY <1>1, <1>2, <2>1, <2>2 DEF Counted, InWaits
<1>3. SleepersSleepEnough'
  BY DEF SleepInv, SleepersSleepEnough
<1> QED
  BY <1>2, <1>3 DEF SleepInv

LEMMA SleepCreate ==
  ASSUME Inv, SleepInv, NEW c \in Coros, Create(c), Remaining' = Remaining,
         UNCHANGED <<pc, now, tv, current, events, waits>>
  PROVE  SleepInv'
<1>1. ~started[c]
  BY DEF Create, SleepInv
<1>2. "null" \in Values
  BY DEF Values
<1> QED
  BY <1>1, <1>2, SleepGranted DEF Create, Queued

\* The timer's entry is the only one that a sleeping coroutine gets.
LEMMA SleepFireEvent == Inv /\ WakeInv({}) /\ SleepInv /\ FireEvent => SleepInv'
<1> SUFFICES ASSUME Inv, WakeInv({}), SleepInv, FireEvent PROVE SleepInv'
  OBVIOUS
<1>1. PICK e \in Queued :
        /\ events[e].t < tv
        /\ events' = [events EXCEPT ![e] = NULL]
        /\ \/ schedule(events[e].co, "null") /\ UNCHANGED pc
           \/ dead[events[e].co] /\ pc' = "thrown" /\ UNCHANGED pending
  BY DEF FireEvent, Expired, IsTop
<1> DEFINE c == events[e].co
<1>2. c \in Coros /\ InEvents(c) /\ events[e].t \in Nat /\ tv \in Nat /\ now \in Nat
  BY <1>1 DEF Queued, InEvents, TimerEvents, Inv, TypeOK
<1>3. ~dead[c]
  BY <1>2 DEF WakeInv, Awaited, Asleep
<1>4. /\ schedule(c, "null")
      /\ UNCHANGED <<pc, current, staging, waits, created, dead>>
  BY <1>1, <1>3 DEF FireEvent, objects
<1>5. \A f \in Queued' : f \in Queued /\ events'[f] = events[f]
  BY <1>1 DEF Queued, Inv, TypeOK
<1>6. started[c] /\ state[c] = "sleep" => Until(c) < now
  BY <1>1, <1>2 DEF SleepInv, Counted
<1>7. Remaining' = Remaining /\ "null" \in Values
  BY <1>4 DEF Remaining, Values
<1> HIDE DEF c
<1> QED
  BY <1>2, <1>4, <1>5, <1>6, <1>7, SleepGranted DEF FireEvent, objects

\* The poller wakes nobody who sleeps.
LEMMA SleepPollWake == Inv /\ WakeInv({}) /\ SleepInv /\ PollWake => SleepInv'
<1> SUFFICES ASSUME Inv, WakeInv({}), SleepInv, PollWake PROVE SleepInv'
  OBVIOUS
<1>1. PICK w \in Waits, arg \in Values :
        /\ waits[w] # NULL
        /\ \/ /\ schedule(waits[w], arg)
              /\ waits' = [waits EXCEPT ![w] = NULL]
              /\ UNCHANGED pc
           \/ dead[waits[w]]
  BY DEF PollWake
<1> DEFINE c == waits[w]
<1>2. c \in Coros /\ InWaits(c)
  BY <1>1 DEF InWaits, Inv, TypeOK
<1>3. ~dead[c] /\ ~(started[c] /\ state[c] = "sleep")
  BY <1>2 DEF WakeInv, Awaited, Asleep, SleepInv, Counted
<1>4. schedule(c, arg) /\ waits' = [waits EXCEPT ![w] = NULL] /\ UNCHANGED pc
  BY <1>1, <1>3
<1>5. \A v \in Waits : waits'[v] \in {waits[v], NULL}
  BY <1>4 DEF Inv, TypeOK
<1>6. Remaining' = Remaining
  BY <1>4 DEF PollWake, Remaining
<1> HIDE DEF c
<1> QED
  BY <1>2, <1>3, <1>4, <1>5, <1>6, SleepGranted DEF PollWake, Queued, objects

\* A coroutine that gets the processor back in sleep finds its deadline over.
LEMMA SleepResume ==
  Inv /\ FramesIntact /\ WakeInv({}) /\ SleepInv /\ Resume /\ WakeInv({})' => SleepInv'
<1> SUFFICES ASSUME Inv, FramesIntact, WakeInv({}), SleepInv, Resume, WakeInv({})'
             PROVE  SleepInv'
  OBVIOUS
<1> DEFINE c == Head(staging).co
<1>1. /\ c \in Coros /\ pc = "dispatch" /\ staging # <<>>
      /\ Head(staging).arg \in Values
  BY HeadType DEF Resume, Inv
<1>2. /\ pc' = "coro" /\ ~dead[c] /\ resume(c, Head(staging).arg)
      /\ UNCHANGED <<now, tv, pending, staging, events, waits, created, dead>>
  BY DEF Resume, WakeInv
<1>3. /\ current' = c /\ started'[c]
      /\ value'[c] = Head(staging).arg
      /\ state'[c] = IF started[c] THEN state[c] ELSE "entry"
      /\ \A d \in Coros \ {c} : /\ state'[d] = state[d] /\ copy'[d] = copy[d]
                                /\ started'[d] = started[d]
  BY <1>1, <1>2 DEF resume, Inv, TypeOK
<1>4. /\ Queue # <<>> /\ Queue[1] = Head(staging)
      /\ \A i \in DOMAIN Queue' : i + 1 \in DOMAIN Queue /\ Queue'[i] = Queue[i + 1]
  BY <1>1, <1>2, Taken
<1>5. InQueue(c) /\ 1 \in DOMAIN Queue
  BY <1>4, QueueType DEF InQueue
<1>6. c \in created /\ \A d \in Coros : started'[d] => d \in created'
  BY <1>1, <1>2, <1>3, <1>5 DEF WakeInv, Awaited, Asleep, SleepInv
<1>7. ASSUME NEW d \in Coros, started'[d], state'[d] = "sleep"
      PROVE  Counted(d)'
  <2>1. CASE d = c
    <3>1. ~Asleep(d)'
      BY <1>2, <1>3, <2>1 DEF Asleep, Running
    <3>2. ~InQueue(d)' /\ ~InEvents(d)' /\ ~InWaits(d)'
      BY <3>1 DEF WakeInv, Awaited
    <3> QED
      BY <3>2 DEF Counted, InQueue, InEvents
  <2>2. CASE d # c
    <3>1. Counted(d)
      BY <1>3, <1>7, <2>2 DEF SleepInv
    <3>2. Until(d)' = Until(d)
      BY <1>1, <1>3, <2>2 DEF Until, OnStack
    <3> QED
      BY <1>2, <1>4, <3>1, <3>2 DEF Counted, InWaits, Queued
  <2> QED
    BY <2>1, <2>2
<1>8. ASSUME stack'.at = "sleep"
      PROVE  stack'.until < now' /\ value'[c] = "null"
  <2>1. started[c] /\ copy[c] # NULL /\ stack' = copy[c] /\ copy[c].at = state[c]
    <3>1. CASE ~started[c]
      BY <1>1, <1>2, <1>8, <3>1 DEF FramesIntact, OnStack, resume, Unpacked, Frame
    <3>2. CASE started[c]
      BY <1>1, <1>2, <3>2 DEF FramesIntact, OnStack, resume, Unpacked
    <3> QED
      BY <3>1, <3>2
  <2>2. Counted(c) /\ Until(c) = stack'.until
    BY <1>1, <1>8, <2>1 DEF SleepInv, Until, OnStack
  <2> QED
    BY <1>2, <1>3, <1>4, <1>5, <2>2 DEF Counted
<1>9. SleepersSleepEnough'
  BY <1>3, <1>8 DEF SleepersSleepEnough
<1> QED
  BY <1>2, <1>6, <1>7, <1>9 DEF SleepInv

\* The timer and the poller keep what they have for the coroutines that do not
\* run ...
OthersKept ==
  \A d \in Coros \ {current} :
    /\ \A e \in Queued' : events'[e].co = d => e \in Queued /\ events'[e] = events[e]
    /\ InWaits(d)' => InWaits(d)

\* ... and the one that does has an event, if anything.
TimerSet(until) ==
  /\ ~InWaits(current)'
  /\ \A e \in Queued' : events'[e].co = current => events'[e].t = until

\* The running coroutine leaves the processor; if it sleeps, its event has the
\* deadline of its frame.
LEMMA SleepLeave ==
  ASSUME Inv, WakeInv({}), SleepInv, WakeInv({})', pc = "coro",
         NEW at, NEW until, Leave(at, until),
         UNCHANGED <<now, tv, pending, staging>>,
         OthersKept, at = "sleep" => TimerSet(until)
  PROVE  SleepInv'
<1>1. current \in Coros /\ Running(current) /\ ~InQueue(current)
  BY CurrentType DEF Running, WakeInv, Awaited, Asleep
<1>2. Queue' = Queue /\ pc' = "back" /\ current' = current
  BY DEF Queue, Remaining, Leave
<1>3. ASSUME NEW d \in Coros, started'[d], state'[d] = "sleep"
      PROVE  Counted(d)'
  <2>1. CASE d = current
    <3>1. at = "sleep"
      BY <1>1, <1>3, <2>1 DEF Leave, Inv, TypeOK
    <3>2. Until(d)' = until
      BY <1>2, <2>1 DEF Until, OnStack, Leave, Frame
    <3> QED
      BY <1>1, <1>2, <2>1, <3>1, <3>2 DEF Counted, InQueue, TimerSet
  <2>2. CASE d # current
    <3>1. Counted(d)
      BY <1>1, <1>3, <2>2 DEF Leave, SleepInv, Inv, TypeOK
    <3>2. Until(d)' = Until(d)
      BY <1>2, <2>2 DEF Until, OnStack, Leave
    <3> QED
      BY <1>2, <2>2, <3>1, <3>2 DEF Counted, OthersKept
  <2> QED
    BY <2>1, <2>2
<1>4. SleepersSleepEnough'
  BY <1>2 DEF SleepersSleepEnough
<1> QED
  BY <1>3, <1>4 DEF SleepInv, Leave

LEMMA SleepSleep == Inv /\ WakeInv({}) /\ SleepInv /\ Sleep /\ WakeInv({})' => SleepInv'
<1> SUFFICES ASSUME Inv, WakeInv({}), SleepInv, Sleep, WakeInv({})' PROVE SleepInv'
  OBVIOUS
<1>1. PICK e \in Events, t \in Nat :
        /\ events[e] = NULL
        /\ events' = [events EXCEPT ![e] = [t |-> t, co |-> current]]
        /\ Leave("sleep", t)
  <2>1. PICK d \in Durations, e \in Events :
          /\ events[e] = NULL
          /\ events' = [events EXCEPT ![e] = [t |-> now + d, co |-> current]]
          /\ Leave("sleep", now + d)
    BY DEF Sleep
  <2>2. now + d \in Nat
    BY CoroAssumption DEF Inv, TypeOK
  <2> QED
    BY <2>1, <2>2
<1>2. pc = "coro" /\ UNCHANGED <<now, tv, pending, staging, waits>>
  BY DEF Sleep
<1>3. current \in Coros /\ ~InEvents(current) /\ ~InWaits(current)
  BY <1>2, CurrentType DEF Running, WakeInv, Awaited, Asleep
<1>4. /\ events'[e] = [t |-> t, co |-> current]
      /\ \A f \in Events \ {e} : events'[f] = events[f]
  BY <1>1 DEF Inv, TypeOK
<1>5. \A f \in Queued' : IF f = e THEN events'[f].co = current /\ events'[f].t = t
                                  ELSE f \in Queued /\ events'[f] = events[f]
  BY <1>4 DEF Queued
<1>6. \A f \in Queued' : events'[f].co = current => events'[f].t = t
  BY <1>3, <1>5 DEF InEvents
<1>7. \A d \in Coros : InWaits(d)' <=> InWaits(d)
  BY <1>2 DEF InWaits
<1>8. OthersKept
  BY <1>5, <1>7 DEF OthersKept
<1>9. TimerSet(t)
  <2>1. current' = current
    BY <1>1 DEF Leave
  <2> QED
    BY <1>3, <1>6, <1>7, <2>1 DEF TimerSet
<1> QED
  BY <1>1, <1>2, <1>8, <1>9, SleepLeave

LEMMA SleepWaitFor ==
  Inv /\ WakeInv({}) /\ SleepInv /\ (WaitFor \/ Return) /\ WakeInv({})' => SleepInv'
<1> SUFFICES ASSUME Inv, WakeInv({}), SleepInv, WaitFor \/ Return, WakeInv({})'
             PROVE  SleepInv'
  OBVIOUS
<1>1. /\ pc = "coro" /\ UNCHANGED <<now, tv, pending, staging, events>>
      /\ Leave("wait", 0) \/ Leave("done", 0)
  BY DEF WaitFor, Return
<1>2. current \in Coros
  BY <1>1, CurrentType
<1>3. \A d \in Coros \ {current} : InWaits(d)' => InWaits(d)
  BY <1>2 DEF WaitFor, Return, InWaits, Inv, TypeOK
<1>4. OthersKept
  BY <1>1, <1>3 DEF OthersKept, Queued
<1> QED
  BY <1>1, <1>4, SleepLeave

\* Every step of a disciplined program keeps the deadlines.
LEMMA SleepStep ==
  Inv /\ FramesIntact /\ WakeInv({}) /\ SleepInv /\ [Next]_vars /\ Inv' /\ WakeInv({})'
    /\ Disciplined => SleepInv'
<1> SUFFICES ASSUME Inv, FramesIntact, WakeInv({}), SleepInv, [Next]_vars, Inv',
                    WakeInv({})', Disciplined
             PROVE  SleepInv'
  OBVIOUS
<1>1. now \in Nat /\ now' \in Nat /\ tv \in Nat /\ tv <= now
  BY DEF Inv, TypeOK, SleepInv
<1>2. CASE MainSpawn \/ Spawn
  <2>1. PICK c \in Coros : Create(c)
    BY <1>2 DEF MainSpawn, Spawn
  <2> QED
    BY <1>2, <2>1, SleepCreate DEF MainSpawn, Spawn, Remaining
<1>3. CASE \/ SwapLists \/ EnterLoop \/ EventLoop \/ EventsDone \/ EndRound
           \/ AskTimeout \/ StartPoll \/ PollReturn \/ PollEarly
  <2>1. /\ UNCHANGED <<events, waits, started, state, created, dead, copy, now>>
        /\ pc \notin {"coro", "back"} /\ pc' \notin {"coro", "back"}
        /\ tv' \in {tv, now, 0}
    BY <1>3 DEF SwapLists, EnterLoop, EventLoop, EventsDone, EndRound, AskTimeout, StartPoll,
       PollReturn, PollEarly, objects
  <2>2. Queue' = Queue
    BY <1>3, Swapped DEF EnterLoop, EventLoop, EventsDone, EndRound, AskTimeout, StartPoll,
       PollReturn, PollEarly, Queue, Remaining
  <2>3. \A c \in Coros : Until(c)' = Until(c) /\ (Asleep(c)' <=> Asleep(c))
    BY <2>1 DEF Until, OnStack, Asleep, Running
  <2>4. \A c \in Coros : InQueue(c)' \/ InEvents(c)' \/ InWaits(c)' => Asleep(c)
    BY <2>3 DEF WakeInv, Awaited
  <2>5. SleepersSleepEnough'
    BY <2>1 DEF SleepersSleepEnough
  <2> QED
    BY <1>1, <2>1, <2>2, <2>3, <2>4, <2>5, SleepStutter
<1>4. CASE Preserve
  <2>1. /\ pc = "back" /\ pc' = "dispatch" /\ Head(staging).co = current
        /\ UNCHANGED <<events, waits, started, state, created, dead, current, stack, now, tv>>
        /\ copy' = IF dead[current] THEN copy ELSE [copy EXCEPT ![current] = stack]
    BY <1>4 DEF Preserve, preserve, Inv, LoopInv
  <2>2. Queue' = Queue
    BY <1>4, Swapped
  <2>3. \A c \in Coros : Asleep(c)' <=> Asleep(c)
    BY <2>1 DEF Asleep, Running
  <2>4. \A c \in Coros : Asleep(c) => Until(c)' = Until(c)
    BY <2>1 DEF Until, OnStack, Asleep, Inv, TypeOK
  <2>5. \A c \in Coros : InQueue(c)' \/ InEvents(c)' \/ InWaits(c)' => Asleep(c)
    BY <2>3 DEF WakeInv, Awaited
  <2>6. SleepersSleepEnough'
    BY <2>1 DEF SleepersSleepEnough
  <2> QED
    BY <1>1, <2>1, <2>2, <2>4, <2>5, <2>6, SleepStutter
<1>5. CASE Exit \/ Tick \/ Over \/ UNCHANGED vars
  <2>1. /\ UNCHANGED <<pc, current, staging, pending, events, waits, tv>>
        /\ UNCHANGED <<started, state, created, dead, copy, stack, value>>
        /\ now' \in {now, now + 1}
    BY <1>5 DEF Exit, Tick, Over, vars, objects
  <2>2. Queue' = Queue
    BY <2>1 DEF Queue, Remaining
  <2>3. \A c \in Coros : Until(c)' = Until(c) /\ (Asleep(c)' <=> Asleep(c))
    BY <2>1 DEF Until, OnStack, Asleep, Running
  <2>4. \A c \in Coros : InQueue(c)' \/ InEvents(c)' \/ InWaits(c)' => Asleep(c)
    BY <2>3 DEF WakeInv, Awaited
  <2>5. SleepersSleepEnough'
    <3> SUFFICES ASSUME pc = "coro", stack.at = "sleep"
                 PROVE  stack.until < now' /\ value[current] = "null"
      BY <2>1 DEF SleepersSleepEnough
    <3>1. current \in Coros
      BY CurrentType
    <3>2. stack.until \in Nat
      BY <3>1 DEF FramesIntact, OnStack, Frames, Inv, TypeOK
    <3>3. stack.until < now /\ value[current] = "null"
      BY DEF SleepInv, SleepersSleepEnough
    <3> QED
      BY <1>1, <2>1, <3>2, <3>3
  <2> QED
    BY <1>1, <2>1, <2>2, <2>3, <2>4, <2>5, SleepStutter
<1>6. CASE Schedule \/ YieldOnly
  BY <1>6 DEF Schedule, YieldOnly
<1> QED
  BY <1>2, <1>3, <1>4, <1>5, <1>6, SleepFireEvent, SleepPollWake, SleepResume,
     SleepSleep, SleepWaitFor DEF Next, MainStep, CoroStep

LEMMA SleepInit == Init => SleepInv
<1> SUFFICES ASSUME Init PROVE SleepInv
  OBVIOUS
<1>1. SleepersSleepEnough
  BY DEF Init, SleepersSleepEnough
<1> QED
  BY <1>1 DEF Init, SleepInv

\* In a disciplined program sleep returns after its deadline and to nobody's
\* signal but its own timer's, whatever else is scheduled and however late.
THEOREM SleepersAreLate == Disciplined => (Spec => []SleepersSleepEnough)
<1> SUFFICES ASSUME Disciplined PROVE Spec => []SleepersSleepEnough
  OBVIOUS
<1>1. Init => SleepInv
  BY SleepInit
<1>2. Init => FramesIntact
  BY DEF Init, FramesIntact, OnStack
<1>3. Inv /\ FramesIntact /\ WakeInv({}) /\ SleepInv /\ [Next]_vars /\ Inv' /\ WakeInv({})'
        => SleepInv'
  BY SleepStep
<1>4. SleepInv => SleepersSleepEnough
  BY DEF SleepInv
<1>5. Safety => []WakeInv({})
  BY WakeHolds
<1> QED
  BY <1>1, <1>2, <1>3, <1>4, <1>5, FramesStep, InvHolds, PTL DEF Spec, Safety
-----------------------------------------------------------------------------
(* The order of deadlines *)

\* The entry at place i is for a coroutine in sleep, whose deadline is Due(i).
SleptAt(i) == started[Queue[i].co] /\ state[Queue[i].co] = "sleep"
Due(i) == Until(Queue[i].co)

\* The sleepers that are scheduled are in the order of their deadlines, and ahead
\* of those that are not yet.
Ordered ==
  \A j \in DOMAIN Queue :
    SleptAt(j) =>
      /\ \A i \in 1..j : SleptAt(i) => Due(i) <= Due(j)
      /\ \A e \in Queued : Due(j) <= events[e].t

QueueIsList == Queue \in Seq(Entries)

LEMMA NextQueueType == Inv' => Queue' \in Seq(Entries)
<1>1. Inv => QueueIsList
  BY QueueType DEF QueueIsList
<1>2. Inv' => QueueIsList'
  BY <1>1, PTL
<1> QED
  BY <1>2 DEF QueueIsList

LEMMA InQueueType ==
  ASSUME Inv, NEW i \in DOMAIN Queue
  PROVE  Queue[i].co \in Coros
<1>1. Queue[i] \in Entries
  BY QueueType
<1> QED
  BY <1>1 DEF Entries

\* A step that schedules nobody: k entries leave the front of the queue, and an
\* event that is new is later than the sleepers that are scheduled.
LEMMA OrderKept ==
  ASSUME Inv, Inv', Ordered, NEW k \in {0, 1},
         \A i \in DOMAIN Queue' :
           i + k \in DOMAIN Queue /\ (SleptAt(i)' => SleptAt(i + k) /\ Due(i)' = Due(i + k)),
         \A e \in Queued' :
           \/ e \in Queued /\ events'[e] = events[e]
           \/ \A i \in DOMAIN Queue : SleptAt(i) => Due(i) <= events'[e].t
  PROVE  Ordered'
<1> SUFFICES ASSUME NEW j \in DOMAIN Queue', SleptAt(j)'
             PROVE  /\ \A i \in 1..j : SleptAt(i)' => Due(i)' <= Due(j)'
                    /\ \A e \in Queued' : Due(j)' <= events'[e].t
  BY DEF Ordered
<1>1. j + k \in DOMAIN Queue /\ SleptAt(j + k) /\ Due(j)' = Due(j + k)
  OBVIOUS
<1>2. \A i \in 1..j : i \in DOMAIN Queue' /\ i + k \in 1..(j + k)
  <2>1. Queue' \in Seq(Entries)
    BY NextQueueType
  <2> QED
    BY <2>1
<1>3. \A i \in 1..(j + k) : SleptAt(i) => Due(i) <= Due(j + k)
  BY <1>1 DEF Ordered
<1>4. \A e \in Queued : Due(j + k) <= events[e].t
  BY <1>1 DEF Ordered
<1>5. ASSUME NEW i \in 1..j, SleptAt(i)' PROVE Due(i)' <= Due(j)'
  BY <1>1, <1>2, <1>3, <1>5
<1>6. ASSUME NEW e \in Queued' PROVE Due(j)' <= events'[e].t
  BY <1>1, <1>4
<1> QED
  BY <1>5, <1>6

\* A step that schedules one more coroutine: if it sleeps, the others that do
\* were due before, and the events are later.
LEMMA OrderGranted ==
  ASSUME Inv, Ordered, NEW c \in Coros, NEW arg \in Values, schedule(c, arg),
         Remaining' = Remaining,
         UNCHANGED <<pc, current, started, state, copy, stack>>,
         \A e \in Queued' : e \in Queued /\ events'[e] = events[e],
         started[c] /\ state[c] = "sleep" =>
           /\ Until(c) \in Nat
           /\ \A i \in DOMAIN Queue : SleptAt(i) => Due(i) <= Until(c)
           /\ \A e \in Queued' : Until(c) <= events[e].t
  PROVE  Ordered'
<1> PICK n : n = Len(Queue) + 1
  OBVIOUS
<1>1. /\ DOMAIN Queue' = DOMAIN Queue \cup {n} /\ n \notin DOMAIN Queue
      /\ \A i \in DOMAIN Queue : Queue'[i] = Queue[i]
      /\ Queue'[n].co = c
  BY Granted
<1>2. \A d \in Coros : Until(d)' = Until(d)
  BY DEF Until, OnStack
<1>3. Queue \in Seq(Entries) /\ \A i \in DOMAIN Queue : Queue[i].co \in Coros
  BY QueueType, InQueueType
<1>4. \A i \in DOMAIN Queue : (SleptAt(i)' <=> SleptAt(i)) /\ Due(i)' = Due(i)
  BY <1>1, <1>2, <1>3 DEF SleptAt, Due
<1>5. /\ SleptAt(n)' <=> started[c] /\ state[c] = "sleep"
      /\ Due(n)' = Until(c)
  BY <1>1, <1>2 DEF SleptAt, Due
<1> SUFFICES ASSUME NEW j \in DOMAIN Queue', SleptAt(j)'
             PROVE  /\ \A i \in 1..j : SleptAt(i)' => Due(i)' <= Due(j)'
                    /\ \A e \in Queued' : Due(j)' <= events'[e].t
  BY DEF Ordered
<1>6. CASE j = n
  <2>1. ASSUME NEW i \in 1..n, SleptAt(i)' PROVE Due(i)' <= Due(n)'
    <3>1. i = n \/ i \in DOMAIN Queue
      BY <1>3
    <3> QED
      BY <1>4, <1>5, <1>6, <2>1, <3>1
  <2>2. \A e \in Queued' : Due(n)' <= events'[e].t
    BY <1>5, <1>6
  <2> QED
    BY <1>6, <2>1, <2>2
<1>7. CASE j \in DOMAIN Queue
  <2>1. \A i \in 1..j : i \in DOMAIN Queue
    BY <1>3, <1>7
  <2> QED
    BY <1>4, <1>7, <2>1 DEF Ordered
<1> QED
  BY <1>1, <1>6, <1>7

\* A scheduled coroutine in sleep: its deadline is a time, and is over.
LEMMA DueIsOver ==
  ASSUME Inv, FramesIntact, WakeInv({}), SleepInv, NEW i \in DOMAIN Queue
  PROVE  /\ Queue[i].co \in Coros /\ InQueue(Queue[i].co) /\ Asleep(Queue[i].co)
         /\ SleptAt(i) => Due(i) \in Nat /\ Due(i) < now
<1>1. Queue[i].co \in Coros /\ InQueue(Queue[i].co)
  BY InQueueType DEF InQueue
<1>2. Asleep(Queue[i].co)
  BY <1>1 DEF WakeInv, Awaited
<1> QED
  BY <1>1, <1>2, UntilType DEF SleptAt, Due, SleepInv, Counted

LEMMA OrderFireEvent ==
  Inv /\ FramesIntact /\ WakeInv({}) /\ SleepInv /\ Ordered /\ FireEvent => Ordered'
<1> SUFFICES ASSUME Inv, FramesIntact, WakeInv({}), SleepInv, Ordered, FireEvent
             PROVE  Ordered'
  OBVIOUS
<1>1. PICK e \in Queued :
        /\ \A f \in Queued : events[e].t <= events[f].t
        /\ events' = [events EXCEPT ![e] = NULL]
        /\ \/ schedule(events[e].co, "null") /\ UNCHANGED pc
           \/ dead[events[e].co] /\ pc' = "thrown" /\ UNCHANGED pending
  BY DEF FireEvent, Expired, IsTop
<1> DEFINE c == events[e].co
<1>2. c \in Coros /\ InEvents(c) /\ events[e].t \in Nat
  BY <1>1 DEF Queued, InEvents, TimerEvents, Inv, TypeOK
<1>3. ~dead[c]
  BY <1>2 DEF WakeInv, Awaited, Asleep
<1>4. /\ schedule(c, "null")
      /\ UNCHANGED <<pc, current, staging, started, state, copy, stack>>
  BY <1>1, <1>3 DEF FireEvent, objects
<1>5. \A f \in Queued' : f \in Queued /\ events'[f] = events[f]
  BY <1>1 DEF Queued, Inv, TypeOK
<1>6. started[c] /\ state[c] = "sleep" => Until(c) = events[e].t
  BY <1>1, <1>2 DEF SleepInv, Counted
<1>7. \A i \in DOMAIN Queue : SleptAt(i) => Due(i) <= events[e].t
  <2>1. \A i \in DOMAIN Queue : i \in 1..i
    BY QueueType
  <2> QED
    BY <1>1, <2>1 DEF Ordered
<1>8. Remaining' = Remaining /\ "null" \in Values
  BY <1>4 DEF Remaining, Values
<1> HIDE DEF c
<1> QED
  BY <1>1, <1>2, <1>4, <1>5, <1>6, <1>7, <1>8, OrderGranted

\* The poller wakes nobody who sleeps.
LEMMA OrderPollWake == Inv /\ WakeInv({}) /\ SleepInv /\ Ordered /\ PollWake => Ordered'
<1> SUFFICES ASSUME Inv, WakeInv({}), SleepInv, Ordered, PollWake PROVE Ordered'
  OBVIOUS
<1>1. PICK w \in Waits, arg \in Values :
        /\ waits[w] # NULL
        /\ (schedule(waits[w], arg) /\ UNCHANGED pc) \/ dead[waits[w]]
  BY DEF PollWake
<1> DEFINE c == waits[w]
<1>2. c \in Coros /\ InWaits(c)
  BY <1>1 DEF InWaits, Inv, TypeOK
<1>3. ~dead[c] /\ ~(started[c] /\ state[c] = "sleep")
  BY <1>2 DEF WakeInv, Awaited, Asleep, SleepInv, Counted
<1>4. schedule(c, arg) /\ UNCHANGED pc
  BY <1>1, <1>3
<1>5. Remaining' = Remaining
  BY <1>4 DEF PollWake, Remaining
<1> HIDE DEF c
<1> QED
  BY <1>2, <1>3, <1>4, <1>5, OrderGranted DEF PollWake, Queued, objects

LEMMA OrderResume ==
  ASSUME Inv, Inv', WakeInv({}), Ordered, Resume
  PROVE  Ordered'
<1> DEFINE c == Head(staging).co
<1>1. c \in Coros /\ pc = "dispatch" /\ staging # <<>>
  BY HeadType DEF Resume, Inv
<1>2. InQueue(c) /\ 1 \in DOMAIN Queue /\ Queue[1].co = c
  <2>1. Queue = staging \o pending
    BY <1>1 DEF Queue, Remaining
  <2>2. staging \in Seq(Entries) /\ pending \in Seq(Entries)
    BY DEF Inv, TypeOK
  <2>3. 1 \in DOMAIN Queue /\ Queue[1].co = c
    BY <1>1, <2>1, <2>2
  <2> QED
    BY <2>3 DEF InQueue
<1>3. ~dead[c]
  BY <1>1, <1>2 DEF WakeInv, Awaited, Asleep
<1>4. /\ pc' = "coro" /\ resume(c, Head(staging).arg)
      /\ UNCHANGED <<pending, staging, events>>
  BY <1>3 DEF Resume
<1>5. \A d \in Coros \ {c} : /\ state'[d] = state[d] /\ started'[d] = started[d]
                             /\ Until(d)' = Until(d)
  BY <1>1, <1>4 DEF resume, Until, OnStack, Inv, TypeOK
<1>6. \A i \in DOMAIN Queue' :
        i \in Nat \ {0} /\ i + 1 \in DOMAIN Queue /\ Queue'[i] = Queue[i + 1]
  BY <1>1, <1>4, Taken
<1>7. ASSUME NEW i \in DOMAIN Queue'
      PROVE  /\ i + 1 \in DOMAIN Queue
             /\ SleptAt(i)' => SleptAt(i + 1) /\ Due(i)' = Due(i + 1)
  <2>1. i + 1 \in DOMAIN Queue /\ i + 1 # 1 /\ Queue'[i] = Queue[i + 1]
    BY <1>6
  <2>2. Queue[i + 1].co \in Coros \ {c}
    <3>1. Queue[i + 1].co \in Coros
      BY <2>1, InQueueType
    <3>2. Queue[i + 1].co # c
      BY <1>2, <2>1 DEF WakeInv, Distinct
    <3> QED
      BY <3>1, <3>2
  <2> QED
    BY <1>5, <2>1, <2>2 DEF SleptAt, Due
<1>8. \A e \in Queued' : e \in Queued /\ events'[e] = events[e]
  BY <1>4 DEF Queued
<1> QED
  BY <1>7, <1>8, OrderKept

\* The queue stays, and so does what belongs to the coroutines in it.
LEMMA OrderStutter ==
  ASSUME Inv, Inv', FramesIntact, WakeInv({}), SleepInv, Ordered, Queue' = Queue,
         \A c \in Coros : InQueue(c) =>
           started'[c] = started[c] /\ state'[c] = state[c] /\ Until(c)' = Until(c),
         \A e \in Queued' : \/ e \in Queued /\ events'[e] = events[e]
                            \/ events'[e].t \in Nat /\ now <= events'[e].t
  PROVE  Ordered'
<1>1. ASSUME NEW i \in DOMAIN Queue'
      PROVE  i + 0 \in DOMAIN Queue /\ (SleptAt(i)' => SleptAt(i + 0) /\ Due(i)' = Due(i + 0))
  <2>1. i \in DOMAIN Queue /\ i + 0 = i
    BY QueueType
  <2> QED
    BY <2>1, DueIsOver DEF SleptAt, Due
<1>2. \A e \in Queued' :
        \/ e \in Queued /\ events'[e] = events[e]
        \/ \A i \in DOMAIN Queue : SleptAt(i) => Due(i) <= events'[e].t
  <2>1. now \in Nat
    BY DEF Inv, TypeOK
  <2> QED
    BY <2>1, DueIsOver
<1> QED
  BY <1>1, <1>2, OrderKept

\* Whoever goes to sleep has its deadline ahead.
LEMMA OrderLeave ==
  ASSUME Inv, Inv', FramesIntact, WakeInv({}), SleepInv, Ordered,
         Sleep \/ WaitFor \/ Return
  PROVE  Ordered'
<1>1. /\ pc = "coro" /\ pc' = "back" /\ UNCHANGED <<pending, staging, current, started, copy>>
      /\ \E at \in Places : state' = [state EXCEPT ![current] = at]
  BY DEF Sleep, WaitFor, Return, Leave, Places
<1>2. current \in Coros /\ ~InQueue(current)
  BY <1>1, CurrentType DEF Running, WakeInv, Awaited, Asleep
<1>3. Queue' = Queue
  BY <1>1 DEF Queue, Remaining
<1>4. \A c \in Coros : InQueue(c) => state'[c] = state[c] /\ Until(c)' = Until(c)
  BY <1>1, <1>2 DEF Until, OnStack, Inv, TypeOK
<1>5. \A e \in Queued' : \/ e \in Queued /\ events'[e] = events[e]
                         \/ events'[e].t \in Nat /\ now <= events'[e].t
  <2>1. CASE Sleep
    <3>1. PICK d \in Durations, e \in Events :
            events' = [events EXCEPT ![e] = [t |-> now + d, co |-> current]]
      BY <2>1 DEF Sleep
    <3>2. now \in Nat /\ d \in Nat
      BY CoroAssumption DEF Inv, TypeOK
    <3> QED
      BY <3>1, <3>2 DEF Queued, Inv, TypeOK
  <2>2. CASE WaitFor \/ Return
    BY <2>2 DEF WaitFor, Return, Queued
  <2> QED
    BY <2>1, <2>2
<1> QED
  BY <1>1, <1>3, <1>4, <1>5, OrderStutter

\* Every step of a disciplined program keeps the order.
LEMMA OrderStep ==
  Inv /\ FramesIntact /\ WakeInv({}) /\ SleepInv /\ Ordered /\ [Next]_vars /\ Inv'
    /\ Disciplined => Ordered'
<1> SUFFICES ASSUME Inv, FramesIntact, WakeInv({}), SleepInv, Ordered, [Next]_vars, Inv',
                    Disciplined
             PROVE  Ordered'
  OBVIOUS
<1>1. CASE MainSpawn \/ Spawn
  <2>1. PICK c \in Coros : Create(c)
    BY <1>1 DEF MainSpawn, Spawn
  <2>2. ~started[c] /\ "null" \in Values
    BY <2>1 DEF Create, SleepInv, Values
  <2> QED
    BY <1>1, <2>1, <2>2, OrderGranted DEF MainSpawn, Spawn, Create, Remaining, Queued
<1>2. CASE \/ SwapLists \/ EnterLoop \/ EventLoop \/ EventsDone \/ EndRound
           \/ AskTimeout \/ StartPoll \/ PollReturn \/ PollEarly
  <2>1. /\ UNCHANGED <<events, started, state, copy>>
        /\ pc \notin {"coro", "back"} /\ pc' \notin {"coro", "back"}
    BY <1>2 DEF SwapLists, EnterLoop, EventLoop, EventsDone, EndRound, AskTimeout,
       StartPoll, PollReturn, PollEarly, objects
  <2>2. Queue' = Queue
    BY <1>2, Swapped DEF EnterLoop, EventLoop, EventsDone, EndRound, AskTimeout,
       StartPoll, PollReturn, PollEarly, Queue, Remaining
  <2>3. \A c \in Coros : Until(c)' = Until(c)
    BY <2>1 DEF Until, OnStack
  <2> QED
    BY <2>1, <2>2, <2>3, OrderStutter DEF Queued
<1>3. CASE Preserve
  <2>1. /\ pc = "back" /\ pc' = "dispatch" /\ Head(staging).co = current
        /\ UNCHANGED <<events, started, state, dead, current, stack>>
        /\ copy' = IF dead[current] THEN copy ELSE [copy EXCEPT ![current] = stack]
    BY <1>3 DEF Preserve, preserve, Inv, LoopInv
  <2>2. Queue' = Queue
    BY <1>3, Swapped
  <2>3. \A c \in Coros : InQueue(c) => Until(c)' = Until(c)
    BY <2>1 DEF Until, OnStack, WakeInv, Awaited, Asleep, Inv, TypeOK
  <2> QED
    BY <2>1, <2>2, <2>3, OrderStutter DEF Queued
<1>4. CASE Exit \/ Tick \/ Over \/ UNCHANGED vars
  <2>1. /\ UNCHANGED <<pc, current, staging, pending, events>>
        /\ UNCHANGED <<started, state, copy, stack>>
    BY <1>4 DEF Exit, Tick, Over, vars, objects
  <2>2. Queue' = Queue /\ \A c \in Coros : Until(c)' = Until(c)
    BY <2>1 DEF Queue, Remaining, Until, OnStack
  <2> QED
    BY <2>1, <2>2, OrderStutter DEF Queued
<1>5. CASE Schedule \/ YieldOnly
  BY <1>5 DEF Schedule, YieldOnly
<1> QED
  BY <1>1, <1>2, <1>3, <1>4, <1>5, OrderFireEvent, OrderPollWake, OrderResume,
     OrderLeave DEF Next, MainStep, CoroStep

\* The frame in a copy is the one that Until looks at.
LEMMA OrderedIsOrder == Inv /\ FramesIntact /\ Ordered => SleepersInOrder
<1> SUFFICES ASSUME Inv, FramesIntact, Ordered PROVE SleepersInOrder
  OBVIOUS
<1>1. Queue \in Seq(Entries) /\ \A i \in DOMAIN Queue : Queue[i].co \in Coros
  BY QueueType, InQueueType
<1>2. \A i \in DOMAIN Queue :
        Sleeps(Queue[i].co) => SleptAt(i) /\ Due(i) = copy[Queue[i].co].until
  BY <1>1 DEF Sleeps, SleptAt, Due, Until, FramesIntact
<1>3. \A j \in DOMAIN Queue : \A i \in 1..j : i \in DOMAIN Queue
  BY <1>1
<1> SUFFICES ASSUME NEW j \in DOMAIN Queue, Sleeps(Queue[j].co)
             PROVE  /\ \A i \in 1..j : Sleeps(Queue[i].co) =>
                         copy[Queue[i].co].until <= copy[Queue[j].co].until
                    /\ \A e \in Queued : copy[Queue[j].co].until <= events[e].t
  BY DEF SleepersInOrder, Queue
<1> QED
  BY <1>2, <1>3 DEF Ordered

\* In a disciplined program coroutines come back from sleep in the order of their
\* deadlines, for any number of them and any durations.
THEOREM SleepersWakeInOrder == Disciplined => (Spec => []SleepersInOrder)
<1> SUFFICES ASSUME Disciplined PROVE Spec => []SleepersInOrder
  OBVIOUS
<1>1. Init => FramesIntact /\ SleepInv
  BY SleepInit DEF Init, FramesIntact, OnStack
<1>2. Init => Ordered
  <2> SUFFICES ASSUME Init PROVE Ordered
    OBVIOUS
  <2>1. Queue = <<>>
    BY DEF Init, Queue, Remaining
  <2> QED
    BY <2>1 DEF Ordered
<1>3. Inv /\ FramesIntact /\ WakeInv({}) /\ SleepInv /\ [Next]_vars /\ Inv' /\ WakeInv({})'
        => SleepInv'
  BY SleepStep
<1>4. Inv /\ FramesIntact /\ WakeInv({}) /\ SleepInv /\ Ordered /\ [Next]_vars /\ Inv'
        => Ordered'
  BY OrderStep
<1>5. Safety => []WakeInv({})
  BY WakeHolds
<1> QED
  BY <1>1, <1>2, <1>3, <1>4, <1>5, FramesStep, InvHolds, OrderedIsOrder, PTL
     DEF Spec, Safety
=============================================================================
