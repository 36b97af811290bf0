----------------------------- MODULE SyncProofs -----------------------------
(***************************************************************************)
(* Theorems about the condition variable, latch and fifo of Sync.tla, for  *)
(* any number of coroutines and items.                                     *)
(***************************************************************************)
EXTENDS Sync, WakeProofs, FiniteSetTheorems

Cvs == {"fifo", "latch"}

\* The scheduler's state is as it should be, and so is sync.h's.
SyncInv == Inv /\ SyncTypeOK

AllParked == Parked("fifo") \cup Parked("latch")

\* Each coroutine is parked once ...
OnePlace ==
  \A v, w \in Cvs : \A i \in DOMAIN waiting[v], j \in DOMAIN waiting[w] :
    waiting[v][i] = waiting[w][j] => v = w /\ i = j

\* ... and on the condition variable of its call.
ParkedOnce ==
  /\ OnePlace
  /\ \A c \in Parked("fifo") : call[c] = "pop"
  /\ \A c \in Parked("latch") : call[c] = "latch"

\* Who waits on a closed latch is parked there.
LatchInv ==
  \A c \in Coros : call[c] = "latch" => done \/ c \in Parked("latch")

\* The coroutines inside a call are finitely many, so they can be counted.
Callers ==
  /\ IsFiniteSet(created)
  /\ \A c \in Coros : call[c] # "none" => c \in created

\* What disciplined programs keep.
ParkInv ==
  /\ WakeInv(AllParked)
  /\ ParkedOnce
  /\ LatchInv
  /\ Callers
  /\ NoLostItem
-----------------------------------------------------------------------------
(* Types *)

\* The coroutine that wake_one wakes.
LEMMA FrontType ==
  ASSUME SyncTypeOK, NEW v \in Cvs, waiting[v] # <<>>
  PROVE  /\ Head(waiting[v]) \in Coros
         /\ Tail(waiting[v]) \in Seq(Coros)
<1>1. waiting[v] \in Seq(Coros)
  BY DEF SyncTypeOK, Cvs
<1> QED
  BY <1>1, HeadTailProperties

\* wake_one finds nobody, throws, or passes the front on to the scheduler.
LEMMA WakeOneType ==
  ASSUME SyncInv, NEW v \in Cvs, wake_one(v)
  PROVE  /\ waiting' \in [Cvs -> Seq(Coros)]
         /\ pending' \in Seq(Entries)
<1>1. CASE waiting[v] = <<>>
  BY <1>1 DEF wake_one, SyncInv, SyncTypeOK, Inv, TypeOK, Cvs
<1>2. CASE waiting[v] # <<>>
  <2>1. /\ waiting' = [waiting EXCEPT ![v] = Tail(@)]
        /\ pending' = pending \/ schedule(Head(waiting[v]), "null")
    BY <1>2 DEF wake_one
  <2>2. waiting' \in [Cvs -> Seq(Coros)]
    BY <1>2, <2>1, FrontType DEF SyncInv, SyncTypeOK, Cvs
  <2>3. "null" \in Values
    BY DEF Values
  <2>4. pending' \in Seq(Entries)
    BY <1>2, <2>1, <2>3, FrontType, ScheduleType DEF SyncInv, Inv, TypeOK
  <2> QED
    BY <2>2, <2>4
<1> QED
  BY <1>1, <1>2

\* cv_wait puts the running coroutine at the end of the queue.
LEMMA CvWaitType ==
  ASSUME SyncInv, pc = "coro", NEW v \in Cvs, cv_wait(v)
  PROVE  waiting' \in [Cvs -> Seq(Coros)]
<1>1. current \in Coros /\ waiting[v] \in Seq(Coros)
  BY CurrentType DEF SyncInv, SyncTypeOK, Cvs
<1>2. Append(waiting[v], current) \in Seq(Coros)
  BY <1>1, AppendProperties
<1> QED
  BY <1>2 DEF cv_wait, SyncInv, SyncTypeOK, Cvs

\* The steps that sync.h adds keep what CoroProofs shows of those of coro++.h.
LEMMA CoroInvStep == SyncInv /\ [SyncNext]_allvars => Inv'
<1> SUFFICES ASSUME SyncInv, [SyncNext]_allvars PROVE Inv'
  OBVIOUS
<1>1. CASE Push \/ LatchOpen
  <2>1. PICK v \in Cvs : wake_one(v)
    BY <1>1 DEF Push, LatchOpen, wake_all, Cvs
  <2>2. /\ pending' \in Seq(Entries)
        /\ UNCHANGED <<pc, now, tv, timeout, wakeAt, exiting, current, staging, events, waits, objects>>
    BY <1>1, <2>1, WakeOneType DEF Push, LatchOpen
  <2> QED
    BY <2>2 DEF SyncInv, Inv, TypeOK, LoopInv, objects
<1>2. CASE PopWait \/ LatchWait
  <2>1. /\ pc = "coro" /\ Leave("cv", 0)
        /\ UNCHANGED <<now, tv, timeout, wakeAt, exiting, pending, staging, events, waits, dead>>
    BY <1>2 DEF PopWait, LatchWait, InCall, cv_wait
  <2>2. "cv" \in Places /\ 0 \in Nat
    BY DEF Places
  <2>3. TypeOK'
    BY <2>1, <2>2, LeaveType DEF SyncInv, Inv, TypeOK
  <2>4. LoopInv'
    BY <2>1 DEF SyncInv, Inv, LoopInv, Leave
  <2> QED
    BY <2>3, <2>4 DEF Inv
<1>3. CASE [Next]_vars
  BY <1>3, InvStep DEF SyncInv
<1>4. CASE PopItem \/ LatchPass
  BY <1>3, <1>4 DEF PopItem, LatchPass
<1> QED
  BY <1>1, <1>2, <1>3, <1>4
     DEF SyncNext, SyncStep, LoopStep, OtherCall, Environment, Next, allvars

LEMMA SyncTypeStep == SyncInv /\ [SyncNext]_allvars => SyncTypeOK'
<1> SUFFICES ASSUME SyncInv, [SyncNext]_allvars PROVE SyncTypeOK'
  OBVIOUS
<1> USE DEF Calls
<1>1. CASE Push
  <2>1. waiting' \in [Cvs -> Seq(Coros)]
    BY <1>1, WakeOneType DEF Push, Cvs
  <2>2. pushed + 1 \in 1..MaxItems /\ pushed' = pushed + 1
    BY <1>1, MaxItemsAssumption DEF Push, SyncInv, SyncTypeOK
  <2>3. q' \in Seq(1..MaxItems)
    BY <1>1, <2>2, AppendProperties DEF Push, SyncInv, SyncTypeOK
  <2> QED
    BY <1>1, <2>1, <2>2, <2>3 DEF Push, SyncInv, SyncTypeOK, Cvs
<1>2. CASE LatchOpen
  <2>1. waiting' \in [Cvs -> Seq(Coros)]
    BY <1>2, WakeOneType DEF LatchOpen, wake_all, Cvs
  <2> QED
    BY <1>2, <2>1 DEF LatchOpen, SyncInv, SyncTypeOK, Cvs
<1>3. CASE PopWait \/ LatchWait
  <2>1. pc = "coro"
    BY <1>3 DEF PopWait, LatchWait, InCall
  <2>2. waiting' \in [Cvs -> Seq(Coros)]
    BY <1>3, <2>1, CvWaitType DEF PopWait, LatchWait, Cvs
  <2> QED
    BY <1>3, <2>2 DEF PopWait, LatchWait, SyncInv, SyncTypeOK, Cvs
<1>4. CASE PopItem
  <2>1. q' \in Seq(1..MaxItems)
    BY <1>4, HeadTailProperties DEF PopItem, SyncInv, SyncTypeOK
  <2> QED
    BY <1>4, <2>1 DEF PopItem, SyncInv, SyncTypeOK
<1>5. CASE LatchPass
  BY <1>5 DEF LatchPass, SyncInv, SyncTypeOK
<1>6. CASE UNCHANGED syncvars
  BY <1>6 DEF syncvars, SyncInv, SyncTypeOK
<1> QED
  BY <1>1, <1>2, <1>3, <1>4, <1>5, <1>6
     DEF SyncNext, SyncStep, LoopStep, OtherCall, Environment, allvars

LEMMA SyncInvHolds == SyncSpec => []SyncInv
<1>1. SyncInit => SyncInv
  <2> SUFFICES ASSUME SyncInit PROVE SyncInv
    OBVIOUS
  <2>1. Inv
    BY InitInv DEF SyncInit
  <2>2. <<>> \in Seq(Coros) /\ <<>> \in Seq(1..MaxItems)
    BY EmptySeq
  <2>3. /\ waiting \in [{"fifo", "latch"} -> Seq(Coros)]
        /\ call \in [Coros -> Calls]
    BY <2>2 DEF SyncInit, Calls
  <2>4. pushed \in 0..MaxItems
    BY MaxItemsAssumption DEF SyncInit
  <2>5. SyncTypeOK
    BY <2>2, <2>3, <2>4 DEF SyncInit, SyncTypeOK
  <2> QED
    BY <2>1, <2>5 DEF SyncInv
<1>2. SyncInv /\ [SyncNext]_allvars => SyncInv'
  BY CoroInvStep, SyncTypeStep DEF SyncInv
<1> QED
  BY <1>1, <1>2, PTL DEF SyncSpec

\* The queues of sync.h hold coroutines and items, whatever coroutines do.
THEOREM SyncTypeCorrect == SyncSpec => []SyncTypeOK
<1>1. SyncInv => SyncTypeOK
  BY DEF SyncInv
<1> QED
  BY <1>1, SyncInvHolds, PTL
-----------------------------------------------------------------------------
(* The fifo is the queue of Channel.tla *)

\* Each step of sync.h is a step of the blocking queue, or none.
LEMMA FifoQueueStep ==
  SyncInv /\ [SyncNext]_allvars => [Fifo!Next]_(Fifo!cvars)
<1> SUFFICES ASSUME SyncInv, [SyncNext]_allvars
             PROVE  Fifo!Next \/ UNCHANGED Fifo!cvars
  OBVIOUS
<1> DEFINE asking == {c \in Coros : call[c] = "pop"}
<1>1. CASE Push
  <2>1. pushed + 1 \in 1..MaxItems
    BY <1>1, MaxItemsAssumption DEF Push, SyncInv, SyncTypeOK
  <2> QED
    BY <1>1, <2>1 DEF Push, Fifo!Push, Fifo!Next
<1>2. ASSUME InCall("none") \/ InCall("pop")
      PROVE  /\ current \in Coros
             /\ call' = [call EXCEPT ![current] = "pop"] =>
                  asking' = asking \cup {current}
             /\ call' = [call EXCEPT ![current] = "none"] =>
                  asking' = asking \ {current}
  <2>1. current \in Coros
    BY <1>2, CurrentType DEF InCall, SyncInv
  <2> QED
    BY <2>1 DEF SyncInv, SyncTypeOK
<1>3. CASE PopWait
  <2>1. /\ q = <<>> /\ q' = q /\ current \in Coros
        /\ asking' = asking \cup {current}
    BY <1>2, <1>3 DEF PopWait
  <2>2. CASE current \in asking
    BY <2>1, <2>2 DEF Fifo!cvars
  <2>3. CASE current \notin asking
    BY <2>1, <2>3 DEF Fifo!Ask, Fifo!Next
  <2> QED
    BY <2>2, <2>3
<1>4. CASE PopItem
  <2>1. /\ q # <<>> /\ q' = Tail(q) /\ current \in Coros
        /\ asking' = asking \ {current}
    BY <1>2, <1>4 DEF PopItem
  <2>2. CASE current \in asking
    BY <2>1, <2>2 DEF Fifo!Serve, Fifo!Next
  <2>3. CASE current \notin asking
    BY <2>1, <2>3 DEF Fifo!TakeNow, Fifo!Next
  <2> QED
    BY <2>2, <2>3
<1>5. CASE LatchWait \/ LatchPass \/ LatchOpen
  <2>1. q' = q /\ asking' = asking
    BY <1>5, CurrentType
       DEF LatchWait, LatchPass, LatchOpen, InCall, SyncInv, SyncTypeOK
  <2> QED
    BY <2>1 DEF Fifo!cvars
<1>6. CASE UNCHANGED syncvars
  BY <1>6 DEF syncvars, Fifo!cvars
<1> QED
  BY <1>1, <1>3, <1>4, <1>5, <1>6
     DEF SyncNext, SyncStep, LoopStep, OtherCall, Environment, allvars

\* Items come out of the fifo once each, in the order of their pushes, and only
\* to a coroutine that finds it not empty, whatever other coroutines do and
\* whoever is scheduled by mistake.  (That blocked coroutines are served in the
\* end, which Fifo!Spec says too, is left to the runs.)
THEOREM FifoIsQueue == SyncSpec => Fifo!Init /\ [][Fifo!Next]_(Fifo!cvars)
<1>1. SyncInit => Fifo!Init
  BY DEF SyncInit, Fifo!Init
<1> QED
  BY <1>1, FifoQueueStep, SyncInvHolds, PTL DEF SyncSpec
-----------------------------------------------------------------------------
(* Parking *)

\* wake_one takes the front from its queue, where it was parked, and from
\* nowhere else.
LEMMA ParkedTail ==
  ASSUME SyncTypeOK, OnePlace, NEW v \in Cvs, waiting[v] # <<>>,
         waiting' = [waiting EXCEPT ![v] = Tail(@)]
  PROVE  /\ OnePlace'
         /\ Head(waiting[v]) \in Parked(v)
         /\ \A w \in Cvs : Parked(w)' = Parked(w) \ {Head(waiting[v])}
<1> DEFINE s == waiting[v]
<1>1. s \in Seq(Coros) /\ s # <<>>
  BY DEF SyncTypeOK, Cvs
<1>2. /\ 1 \in DOMAIN s /\ s[1] = Head(s)
      /\ \A i \in DOMAIN Tail(s) :
           i \in Nat \ {0} /\ i + 1 \in DOMAIN s /\ Tail(s)[i] = s[i + 1]
      /\ \A i \in DOMAIN s :
           i = 1 \/ (i - 1 \in DOMAIN Tail(s) /\ Tail(s)[i - 1] = s[i])
  BY <1>1
<1>3. waiting'[v] = Tail(s) /\ \A w \in Cvs \ {v} : waiting'[w] = waiting[w]
  BY DEF SyncTypeOK, Cvs
<1>4. Head(s) \in Parked(v)
  BY <1>2 DEF Parked
<1>5. \A w \in Cvs \ {v} : Head(s) \notin Parked(w)
  BY <1>2 DEF OnePlace, Parked
<1>6. Parked(v)' = Parked(v) \ {Head(s)}
  <2>1. ASSUME NEW i \in DOMAIN Tail(s)
        PROVE  Tail(s)[i] \in Parked(v) /\ Tail(s)[i] # Head(s)
    <3>1. i + 1 \in DOMAIN s /\ Tail(s)[i] = s[i + 1] /\ i + 1 # 1
      BY <1>2
    <3> QED
      BY <1>2, <3>1 DEF Parked, OnePlace
  <2>2. ASSUME NEW i \in DOMAIN s, s[i] # Head(s)
        PROVE  s[i] \in Parked(v)'
    <3>1. i - 1 \in DOMAIN Tail(s) /\ Tail(s)[i - 1] = s[i]
      BY <1>2, <2>2
    <3> QED
      BY <1>3, <3>1 DEF Parked
  <2>3. Parked(v)' \subseteq Parked(v) \ {Head(s)}
    BY <1>3, <2>1 DEF Parked
  <2>4. Parked(v) \ {Head(s)} \subseteq Parked(v)'
    BY <2>2 DEF Parked
  <2> QED
    BY <2>3, <2>4
<1>7. \A w \in Cvs \ {v} : Parked(w)' = Parked(w)
  BY <1>3 DEF Parked
<1>8. OnePlace'
  <2> SUFFICES ASSUME NEW u \in Cvs, NEW w \in Cvs,
                      NEW i \in DOMAIN waiting'[u], NEW j \in DOMAIN waiting'[w],
                      waiting'[u][i] = waiting'[w][j]
               PROVE  u = w /\ i = j
    BY DEF OnePlace
  <2>1. CASE u = v /\ w = v
    <3>1. i + 1 = j + 1
      BY <1>2, <1>3, <2>1 DEF OnePlace
    <3>2. i \in Nat /\ j \in Nat
      BY <1>2, <1>3, <2>1
    <3> QED
      BY <2>1, <3>1, <3>2
  <2>2. CASE u = v /\ w # v
    BY <1>2, <1>3, <2>2 DEF OnePlace
  <2>3. CASE u # v /\ w = v
    BY <1>2, <1>3, <2>3 DEF OnePlace
  <2>4. CASE u # v /\ w # v
    BY <1>3, <2>4 DEF OnePlace
  <2> QED
    BY <2>1, <2>2, <2>3, <2>4
<1> QED
  BY <1>4, <1>5, <1>6, <1>7, <1>8

\* cv_wait parks the running coroutine, which is parked nowhere.
LEMMA ParkedAppend ==
  ASSUME SyncTypeOK, OnePlace, NEW v \in Cvs, NEW c \in Coros, c \notin AllParked,
         waiting' = [waiting EXCEPT ![v] = Append(@, c)]
  PROVE  /\ OnePlace'
         /\ Parked(v)' = Parked(v) \cup {c}
         /\ \A w \in Cvs \ {v} : Parked(w)' = Parked(w)
<1> DEFINE s == waiting[v]
           t == Append(s, c)
<1>1. s \in Seq(Coros)
  BY DEF SyncTypeOK, Cvs
<1>2. /\ DOMAIN t = DOMAIN s \cup {Len(s) + 1} /\ Len(s) + 1 \notin DOMAIN s
      /\ t[Len(s) + 1] = c /\ \A i \in DOMAIN s : t[i] = s[i]
  BY <1>1
<1>3. waiting'[v] = t /\ \A w \in Cvs \ {v} : waiting'[w] = waiting[w]
  BY DEF SyncTypeOK, Cvs
<1>4. \A w \in Cvs : \A i \in DOMAIN waiting[w] : waiting[w][i] # c
  BY DEF AllParked, Parked, Cvs
<1> HIDE DEF t
<1>5. Parked(v)' = Parked(v) \cup {c}
  BY <1>2, <1>3 DEF Parked
<1>6. \A w \in Cvs \ {v} : Parked(w)' = Parked(w)
  BY <1>3 DEF Parked
<1>7. OnePlace'
  BY <1>2, <1>3, <1>4 DEF OnePlace
<1> QED
  BY <1>5, <1>6, <1>7

\* A coroutine that is parked is scheduled: one wake-up for another.
LEMMA WakeUnparked ==
  ASSUME NEW P, Inv, WakeInv(P), NEW c \in Coros, c \in P, schedule(c, "null"),
         UNCHANGED <<pc, current, staging, events, waits, created, dead>>
  PROVE  WakeInv(P \ {c})'
<1>1. ~InQueue(c) /\ ~InEvents(c) /\ ~InWaits(c)
  BY DEF WakeInv, Exclusive
<1>2. /\ DOMAIN Queue' = DOMAIN Queue \cup {Len(Queue) + 1}
      /\ Len(Queue) + 1 \notin DOMAIN Queue
      /\ \A i \in DOMAIN Queue : Queue'[i] = Queue[i]
      /\ Queue'[Len(Queue) + 1].co = c
  <2>1. "null" \in Values /\ Remaining' = Remaining
    BY DEF Values, Remaining
  <2> QED
    BY <2>1, Granted
<1>3. \A d \in Coros : InQueue(d)' <=> InQueue(d) \/ d = c
  BY <1>2 DEF InQueue
<1>4. \A d \in Coros : (InEvents(d)' <=> InEvents(d)) /\ (InWaits(d)' <=> InWaits(d))
  BY DEF InEvents, InWaits, Queued
<1>5. Distinct'
  BY <1>1, <1>2 DEF WakeInv, Distinct, InQueue, Queued
<1>6. Exclusive(P \ {c})'
  BY <1>1, <1>3, <1>4 DEF WakeInv, Exclusive
<1>7. Awaited(P \ {c})'
  BY <1>3, <1>4 DEF WakeInv, Awaited, Asleep, Running
<1> QED
  BY <1>5, <1>6, <1>7 DEF WakeInv

\* The running coroutine parks.
LEMMA WakeParked ==
  ASSUME NEW P, Inv, WakeInv(P), pc = "coro", pc' = "back",
         UNCHANGED <<current, staging, pending, events, waits, created, dead>>
  PROVE  WakeInv(P \cup {current})'
<1>1. /\ current \in Coros /\ Running(current)
      /\ ~InQueue(current) /\ ~InEvents(current) /\ ~InWaits(current)
  BY CurrentType DEF Running, WakeInv, Awaited, Asleep
<1>2. Queue' = Queue
  BY DEF Queue, Remaining
<1>3. \A d \in Coros : /\ InQueue(d)' <=> InQueue(d)
                       /\ InEvents(d)' <=> InEvents(d)
                       /\ InWaits(d)' <=> InWaits(d)
  BY <1>2 DEF InQueue, InEvents, InWaits, Queued
<1>4. Distinct'
  BY <1>2 DEF WakeInv, Distinct, Queued
<1>5. Exclusive(P \cup {current})'
  BY <1>1, <1>3 DEF WakeInv, Exclusive
<1>6. current \in created /\ ~dead[current]
  BY DEF WakeInv, Inv, LoopInv
<1>7. Awaited(P \cup {current})'
  BY <1>1, <1>3, <1>6 DEF WakeInv, Awaited, Asleep, Running
<1> QED
  BY <1>4, <1>5, <1>6, <1>7 DEF WakeInv
-----------------------------------------------------------------------------
(* Who is parked, who is signalled *)

\* A coroutine that runs is parked nowhere, and is not in the next round.
LEMMA RunnerFree ==
  ASSUME SyncInv, WakeInv(AllParked), pc = "coro"
  PROVE  /\ current \in Coros /\ current \in created
         /\ current \notin Parked("fifo") /\ current \notin Parked("latch")
<1>1. current \in Coros /\ Running(current)
  BY CurrentType DEF SyncInv, Running
<1> QED
  BY <1>1 DEF WakeInv, Awaited, Asleep, AllParked

\* The coroutines that pop's callers are make a finite set.
LEMMA SignalledFinite ==
  ASSUME Callers
  PROVE  IsFiniteSet(Signalled)
<1>1. Signalled \subseteq created
  BY DEF Callers, Signalled
<1> QED
  BY <1>1, FS_Subset DEF Callers

\* The calls that push and wake_all make.
LEMMA SignalParks ==
  ASSUME SyncInv, ParkInv, NEW v \in Cvs, wake_one(v),
         UNCHANGED <<pc, current, staging, events, waits, created, dead, call>>
  PROVE  /\ WakeInv(AllParked)'
         /\ ParkedOnce'
         /\ waiting[v] = <<>> => waiting' = waiting
         /\ waiting[v] # <<>> =>
              /\ Head(waiting[v]) \in Parked(v)
              /\ \A w \in Cvs : Parked(w)' = Parked(w) \ {Head(waiting[v])}
<1>1. PICK P : P = AllParked
  OBVIOUS
<1>2. WakeInv(P)
  BY <1>1 DEF ParkInv
<1>3. CASE waiting[v] = <<>>
  <2>1. UNCHANGED <<waiting, pending>>
    BY <1>3 DEF wake_one
  <2>2. AllParked' = P /\ \A w : Parked(w)' = Parked(w)
    BY <1>1, <2>1 DEF AllParked, Parked
  <2>3. UNCHANGED Queue
    BY <2>1 DEF Queue, Remaining
  <2>4. pc' # "thrown"
    BY DEF ParkInv, WakeInv
  <2>5. WakeInv(P)'
    BY <1>2, <2>3, <2>4, WakeStutter
  <2>6. WakeInv(AllParked)'
    BY <2>2, <2>5 DEF WakeInv, Exclusive, Awaited
  <2>7. ParkedOnce'
    BY <2>1, <2>2 DEF ParkInv, ParkedOnce, OnePlace
  <2> QED
    BY <1>3, <2>1, <2>6, <2>7
<1>4. CASE waiting[v] # <<>>
  <2>1. PICK c : c = Head(waiting[v])
    OBVIOUS
  <2>2. /\ waiting' = [waiting EXCEPT ![v] = Tail(@)] /\ c \in Coros
        /\ IF dead[c] THEN UNCHANGED pending ELSE schedule(c, "null")
    BY <1>4, <2>1, FrontType DEF wake_one, SyncInv
  <2>3. /\ OnePlace'
        /\ c \in Parked(v)
        /\ \A w \in Cvs : Parked(w)' = Parked(w) \ {c}
    BY <1>4, <2>1, <2>2, ParkedTail DEF SyncInv, ParkInv, ParkedOnce
  <2>4. c \in P /\ AllParked' = P \ {c}
    BY <1>1, <2>3 DEF AllParked, Cvs
  <2>5. schedule(c, "null")
    BY <1>2, <2>2, <2>4 DEF WakeInv, Awaited, Asleep
  <2>6. WakeInv(P \ {c})'
    BY <1>2, <2>2, <2>4, <2>5, WakeUnparked DEF SyncInv
  <2>7. WakeInv(AllParked)'
    BY <2>4, <2>6 DEF WakeInv, Exclusive, Awaited
  <2>8. ParkedOnce'
    BY <2>3 DEF ParkInv, ParkedOnce, Cvs
  <2> QED
    BY <1>4, <2>1, <2>3, <2>7, <2>8
<1> QED
  BY <1>3, <1>4

\* The calls that pop and wait make.
LEMMA WaitParks ==
  ASSUME SyncInv, ParkInv, pc = "coro", NEW v \in Cvs, cv_wait(v),
         UNCHANGED <<staging, pending, events, waits, dead>>,
         call' = [call EXCEPT ![current] = IF v = "fifo" THEN "pop" ELSE "latch"]
  PROVE  /\ WakeInv(AllParked)'
         /\ ParkedOnce'
         /\ Parked(v)' = Parked(v) \cup {current}
         /\ \A w \in Cvs \ {v} : Parked(w)' = Parked(w)
         /\ created' = created
<1>1. PICK P, c : P = AllParked /\ c = current
  OBVIOUS
<1>2. /\ c \in Coros /\ c \notin AllParked
      /\ c \notin Parked("fifo") /\ c \notin Parked("latch")
  BY <1>1, RunnerFree DEF ParkInv, AllParked
<1>3. /\ waiting' = [waiting EXCEPT ![v] = Append(@, c)]
      /\ pc' = "back" /\ UNCHANGED <<current, created>>
  BY <1>1 DEF cv_wait, Leave
<1>4. /\ OnePlace'
      /\ Parked(v)' = Parked(v) \cup {c}
      /\ \A w \in Cvs \ {v} : Parked(w)' = Parked(w)
  BY <1>2, <1>3, ParkedAppend DEF SyncInv, ParkInv, ParkedOnce
<1>5. AllParked' = P \cup {c}
  BY <1>1, <1>4 DEF AllParked, Cvs
<1>6. WakeInv(P)
  BY <1>1 DEF ParkInv
<1>7. WakeInv(P \cup {current})'
  BY <1>3, <1>6, WakeParked DEF SyncInv
<1>8. WakeInv(AllParked)'
  BY <1>1, <1>3, <1>5, <1>7 DEF WakeInv, Exclusive, Awaited
<1>9. /\ call'[c] = IF v = "fifo" THEN "pop" ELSE "latch"
      /\ \A d \in Coros \ {c} : call'[d] = call[d]
  BY <1>1, <1>2 DEF SyncInv, SyncTypeOK
<1>10. \A w \in Cvs : Parked(w) \subseteq Coros
  BY DEF Parked, SyncInv, SyncTypeOK, Cvs
<1>11. ParkedOnce'
  BY <1>2, <1>4, <1>9, <1>10 DEF ParkInv, ParkedOnce, Cvs
<1> QED
  BY <1>1, <1>3, <1>4, <1>8, <1>11

\* A step of coro++.h alone.
LEMMA ParkOther ==
  SyncInv /\ ParkInv /\ Disciplined /\ [Next]_vars /\ UNCHANGED syncvars => ParkInv'
<1> SUFFICES ASSUME SyncInv, ParkInv, Disciplined, [Next]_vars, UNCHANGED syncvars
             PROVE  ParkInv'
  OBVIOUS
<1>1. PICK P : P = AllParked
  OBVIOUS
<1>2. AllParked' = P /\ \A w : Parked(w)' = Parked(w)
  BY <1>1 DEF AllParked, Parked, syncvars
<1>3. WakeInv(AllParked)'
  <2>1. WakeInv(P)
    BY <1>1 DEF ParkInv
  <2>2. WakeInv(P)'
    BY <2>1, WakeStep DEF SyncInv
  <2> QED
    BY <1>2, <2>2 DEF WakeInv, Exclusive, Awaited
<1>4. ParkedOnce' /\ LatchInv'
  BY <1>2 DEF ParkInv, ParkedOnce, OnePlace, LatchInv, syncvars
<1>5. Callers'
  <2>1. created' = created \/ \E c \in Coros : created' = created \cup {c}
    BY DEF Next, MainStep, CoroStep, MainSpawn, EnterLoop, EventLoop, FireEvent,
       EventsDone, SwapLists, Resume, Preserve, EndRound, AskTimeout, StartPoll, PollWake,
       PollReturn, PollEarly, Spawn, Schedule, Sleep, WaitFor, YieldOnly, Exit,
       Return, Leave, Tick, Over, Create, vars, objects
  <2>2. IsFiniteSet(created')
    BY <2>1, FS_AddElement DEF ParkInv, Callers
  <2> QED
    BY <2>1, <2>2 DEF ParkInv, Callers, syncvars
<1>6. NoLostItem'
  BY <1>2 DEF ParkInv, NoLostItem, Signalled, syncvars
<1> QED
  BY <1>3, <1>4, <1>5, <1>6 DEF ParkInv

\* A step of sync.h in which nobody is parked or woken.
LEMMA ParkStays ==
  ASSUME SyncInv, ParkInv, UNCHANGED vars, waiting' = waiting
  PROVE  /\ WakeInv(AllParked)'
         /\ \A w : Parked(w)' = Parked(w)
         /\ OnePlace'
<1>1. PICK P : P = AllParked
  OBVIOUS
<1>2. AllParked' = P /\ \A w : Parked(w)' = Parked(w)
  BY <1>1 DEF AllParked, Parked
<1>3. UNCHANGED <<pc, current, Queue, events, waits, created, dead>>
  BY DEF vars, objects, Queue, Remaining
<1>4. WakeInv(P) /\ pc' # "thrown"
  BY <1>1, <1>3 DEF ParkInv, WakeInv
<1>5. WakeInv(P)'
  BY <1>3, <1>4, WakeStutter
<1>6. WakeInv(AllParked)'
  BY <1>2, <1>5 DEF WakeInv, Exclusive, Awaited
<1>7. OnePlace'
  BY DEF ParkInv, ParkedOnce, OnePlace
<1> QED
  BY <1>2, <1>6, <1>7

\* push adds an item and, if somebody is left parked, a coroutine to take it.
LEMMA ParkPush == SyncInv /\ ParkInv /\ Push => ParkInv'
<1> SUFFICES ASSUME SyncInv, ParkInv, Push PROVE ParkInv'
  OBVIOUS
<1>1. /\ wake_one("fifo") /\ "fifo" \in Cvs /\ q' = Append(q, pushed + 1)
      /\ UNCHANGED <<pc, current, staging, events, waits, created, dead, call, done>>
  BY DEF Push, objects, Cvs
<1>2. /\ WakeInv(AllParked)' /\ ParkedOnce'
      /\ waiting["fifo"] = <<>> => waiting' = waiting
      /\ waiting["fifo"] # <<>> =>
           /\ Head(waiting["fifo"]) \in Parked("fifo")
           /\ \A w \in Cvs : Parked(w)' = Parked(w) \ {Head(waiting["fifo"])}
  BY <1>1, SignalParks
<1>3. Parked("latch")' = Parked("latch")
  <2>1. CASE waiting["fifo"] = <<>>
    BY <1>2, <2>1 DEF Parked
  <2>2. CASE waiting["fifo"] # <<>>
    <3>1. Head(waiting["fifo"]) \notin Parked("latch")
      BY <1>2, <2>2 DEF ParkInv, ParkedOnce
    <3> QED
      BY <1>2, <2>2, <3>1 DEF Cvs
  <2> QED
    BY <2>1, <2>2
<1>4. LatchInv' /\ Callers'
  BY <1>1, <1>3 DEF ParkInv, LatchInv, Callers
<1>5. ASSUME waiting'["fifo"] # <<>>
      PROVE  Len(q') <= Cardinality(Signalled')
  <2>1. PICK c : c = Head(waiting["fifo"])
    OBVIOUS
  <2>2. waiting["fifo"] # <<>>
    BY <1>2, <1>5
  <2>3. /\ c \in Parked("fifo") /\ Parked("fifo")' = Parked("fifo") \ {c}
        /\ c \in Coros /\ call[c] = "pop"
    BY <1>1, <1>2, <2>1, <2>2, FrontType DEF SyncInv, ParkInv, ParkedOnce
  <2>4. Signalled' = Signalled \cup {c} /\ c \notin Signalled
    BY <1>1, <2>3 DEF Signalled
  <2>5. IsFiniteSet(Signalled)
    BY SignalledFinite DEF ParkInv
  <2>6. /\ Cardinality(Signalled') = Cardinality(Signalled) + 1
        /\ Cardinality(Signalled) \in Nat
    BY <2>4, <2>5, FS_AddElement, FS_CardinalityType
  <2>7. Len(q) <= Cardinality(Signalled)
    BY <2>2 DEF ParkInv, NoLostItem
  <2>8. Len(q') = Len(q) + 1 /\ Len(q) \in Nat
    BY <1>1, MaxItemsAssumption DEF Push, SyncInv, SyncTypeOK
  <2> QED
    BY <2>6, <2>7, <2>8
<1>6. NoLostItem'
  BY <1>5 DEF NoLostItem
<1> QED
  BY <1>2, <1>4, <1>6 DEF ParkInv

\* wake_all opens the latch before it wakes anybody.
LEMMA ParkLatchOpen == SyncInv /\ ParkInv /\ LatchOpen => ParkInv'
<1> SUFFICES ASSUME SyncInv, ParkInv, LatchOpen PROVE ParkInv'
  OBVIOUS
<1>1. /\ wake_one("latch") /\ "latch" \in Cvs /\ done' = TRUE
      /\ UNCHANGED <<pc, current, staging, events, waits, created, dead, call, q>>
  BY DEF LatchOpen, wake_all, objects, Cvs
<1>2. /\ WakeInv(AllParked)' /\ ParkedOnce'
      /\ waiting["latch"] = <<>> => waiting' = waiting
      /\ waiting["latch"] # <<>> =>
           /\ Head(waiting["latch"]) \in Parked("latch")
           /\ \A w \in Cvs : Parked(w)' = Parked(w) \ {Head(waiting["latch"])}
  BY <1>1, SignalParks
<1>3. LatchInv' /\ Callers'
  BY <1>1 DEF ParkInv, LatchInv, Callers
<1>4. waiting'["fifo"] = waiting["fifo"]
  BY <1>1 DEF wake_one, SyncInv, SyncTypeOK
<1>5. Signalled' = Signalled
  BY <1>1, <1>4 DEF Signalled, Parked
<1>6. NoLostItem'
  BY <1>1, <1>4, <1>5 DEF ParkInv, NoLostItem
<1> QED
  BY <1>2, <1>3, <1>6 DEF ParkInv

\* pop parks its caller while there is nothing to pop.
LEMMA ParkPopWait == SyncInv /\ ParkInv /\ PopWait => ParkInv'
<1> SUFFICES ASSUME SyncInv, ParkInv, PopWait PROVE ParkInv'
  OBVIOUS
<1>1. /\ pc = "coro" /\ q = <<>> /\ cv_wait("fifo") /\ "fifo" \in Cvs
      /\ call' = [call EXCEPT ![current] = "pop"]
      /\ UNCHANGED <<staging, pending, events, waits, dead, q, done>>
  BY DEF PopWait, InCall, Cvs
<1>2. /\ WakeInv(AllParked)' /\ ParkedOnce'
      /\ Parked("latch")' = Parked("latch") /\ created' = created
  BY <1>1, WaitParks DEF Cvs
<1>3. /\ current \in Coros /\ current \in created
      /\ call'[current] = "pop" /\ \A d \in Coros \ {current} : call'[d] = call[d]
  BY <1>1, RunnerFree DEF SyncInv, SyncTypeOK, ParkInv
<1>4. LatchInv'
  BY <1>1, <1>2, <1>3 DEF ParkInv, LatchInv
<1>5. Callers'
  BY <1>2, <1>3 DEF ParkInv, Callers
<1>6. NoLostItem'
  <2>1. Signalled' \subseteq created
    BY <1>2, <1>5 DEF Callers, Signalled
  <2>2. Cardinality(Signalled') \in Nat
    BY <2>1, FS_Subset, FS_CardinalityType DEF ParkInv, Callers
  <2>3. Len(q') = 0
    BY <1>1
  <2>4. Len(q') <= Cardinality(Signalled')
    BY <2>2, <2>3
  <2> QED
    BY <2>4 DEF NoLostItem
<1> QED
  BY <1>2, <1>4, <1>5, <1>6 DEF ParkInv

\* latch::wait parks its caller while the latch is closed.
LEMMA ParkLatchWait == SyncInv /\ ParkInv /\ LatchWait => ParkInv'
<1> SUFFICES ASSUME SyncInv, ParkInv, LatchWait PROVE ParkInv'
  OBVIOUS
<1>1. /\ pc = "coro" /\ call[current] = "none" /\ cv_wait("latch") /\ "latch" \in Cvs
      /\ call' = [call EXCEPT ![current] = "latch"]
      /\ UNCHANGED <<staging, pending, events, waits, dead, q, done>>
  BY DEF LatchWait, InCall, Cvs
<1>2. /\ WakeInv(AllParked)' /\ ParkedOnce'
      /\ Parked("latch")' = Parked("latch") \cup {current}
      /\ Parked("fifo")' = Parked("fifo") /\ created' = created
  BY <1>1, WaitParks DEF Cvs
<1>3. /\ current \in Coros /\ current \in created
      /\ call'[current] = "latch" /\ \A d \in Coros \ {current} : call'[d] = call[d]
  BY <1>1, RunnerFree DEF SyncInv, SyncTypeOK, ParkInv
<1>4. LatchInv'
  BY <1>1, <1>2, <1>3 DEF ParkInv, LatchInv
<1>5. Callers'
  BY <1>2, <1>3 DEF ParkInv, Callers
<1>6. NoLostItem'
  <2>1. Signalled' = Signalled
    BY <1>1, <1>2, <1>3 DEF Signalled
  <2>2. waiting'["fifo"] = waiting["fifo"]
    BY <1>1 DEF cv_wait, SyncInv, SyncTypeOK
  <2> QED
    BY <1>1, <2>1, <2>2 DEF ParkInv, NoLostItem
<1> QED
  BY <1>2, <1>4, <1>5, <1>6 DEF ParkInv

\* An item and a coroutine that was to take it go, or the item alone, to one
\* that found it there.
LEMMA ParkPopItem == SyncInv /\ ParkInv /\ PopItem => ParkInv'
<1> SUFFICES ASSUME SyncInv, ParkInv, PopItem PROVE ParkInv'
  OBVIOUS
<1>1. /\ pc = "coro" /\ call[current] \in {"none", "pop"} /\ q # <<>> /\ q' = Tail(q)
      /\ call' = [call EXCEPT ![current] = "none"]
      /\ UNCHANGED <<vars, waiting, done>> /\ created' = created
  BY DEF PopItem, InCall, vars, objects
<1>2. /\ WakeInv(AllParked)' /\ OnePlace'
      /\ Parked("fifo")' = Parked("fifo") /\ Parked("latch")' = Parked("latch")
  BY <1>1, ParkStays
<1>3. /\ current \in Coros
      /\ current \notin Parked("fifo") /\ current \notin Parked("latch")
      /\ call'[current] = "none" /\ \A d \in Coros \ {current} : call'[d] = call[d]
  BY <1>1, RunnerFree DEF SyncInv, SyncTypeOK, ParkInv
<1>4. Parked("fifo") \subseteq Coros /\ Parked("latch") \subseteq Coros
  BY DEF Parked, SyncInv, SyncTypeOK
<1>5. ParkedOnce' /\ LatchInv' /\ Callers'
  BY <1>1, <1>2, <1>3, <1>4 DEF ParkInv, ParkedOnce, LatchInv, Callers
<1>6. Len(q') = Len(q) - 1 /\ Len(q) \in Nat
  BY <1>1 DEF SyncInv, SyncTypeOK
<1>7. IsFiniteSet(Signalled)
  BY SignalledFinite DEF ParkInv
<1>8. Signalled' = Signalled \ {current}
  BY <1>2, <1>3 DEF Signalled
<1>9. ASSUME waiting["fifo"] # <<>>
      PROVE  Len(q') <= Cardinality(Signalled')
  <2>1. Len(q) <= Cardinality(Signalled) /\ Cardinality(Signalled) \in Nat
    BY <1>7, <1>9, FS_CardinalityType DEF ParkInv, NoLostItem
  <2>2. \/ Cardinality(Signalled') = Cardinality(Signalled)
        \/ Cardinality(Signalled') = Cardinality(Signalled) - 1
    BY <1>7, <1>8, FS_RemoveElement
  <2> QED
    BY <1>6, <2>1, <2>2
<1>10. NoLostItem'
  BY <1>1, <1>9 DEF NoLostItem
<1> QED
  BY <1>2, <1>5, <1>10 DEF ParkInv

\* latch::wait returns.
LEMMA ParkLatchPass == SyncInv /\ ParkInv /\ LatchPass => ParkInv'
<1> SUFFICES ASSUME SyncInv, ParkInv, LatchPass PROVE ParkInv'
  OBVIOUS
<1>1. /\ pc = "coro" /\ call[current] = "latch"
      /\ call' = [call EXCEPT ![current] = "none"]
      /\ UNCHANGED <<vars, waiting, q, done>> /\ created' = created
  BY DEF LatchPass, InCall, vars, objects
<1>2. /\ WakeInv(AllParked)' /\ OnePlace'
      /\ Parked("fifo")' = Parked("fifo") /\ Parked("latch")' = Parked("latch")
  BY <1>1, ParkStays
<1>3. /\ current \in Coros
      /\ current \notin Parked("fifo") /\ current \notin Parked("latch")
      /\ call'[current] = "none" /\ \A d \in Coros \ {current} : call'[d] = call[d]
  BY <1>1, RunnerFree DEF SyncInv, SyncTypeOK, ParkInv
<1>4. Parked("fifo") \subseteq Coros /\ Parked("latch") \subseteq Coros
  BY DEF Parked, SyncInv, SyncTypeOK
<1>5. ParkedOnce' /\ LatchInv' /\ Callers'
  BY <1>1, <1>2, <1>3, <1>4 DEF ParkInv, ParkedOnce, LatchInv, Callers
<1>6. Signalled' = Signalled
  BY <1>1, <1>2, <1>3 DEF Signalled
<1>7. NoLostItem'
  BY <1>1, <1>6 DEF ParkInv, NoLostItem
<1> QED
  BY <1>2, <1>5, <1>7 DEF ParkInv

LEMMA ParkHolds == Disciplined => (SyncSpec => []ParkInv)
<1> SUFFICES ASSUME Disciplined PROVE SyncSpec => []ParkInv
  OBVIOUS
<1>1. SyncInit => ParkInv
  <2> SUFFICES ASSUME SyncInit PROVE ParkInv
    OBVIOUS
  <2>1. Parked("fifo") = {} /\ Parked("latch") = {}
    BY DEF SyncInit, Parked
  <2>2. AllParked = {} /\ WakeInv({})
    BY <2>1, WakeInit DEF AllParked, SyncInit
  <2>3. WakeInv(AllParked)
    BY <2>2
  <2>4. ParkedOnce /\ LatchInv /\ NoLostItem
    BY <2>1 DEF SyncInit, ParkedOnce, OnePlace, Cvs, LatchInv, NoLostItem
  <2>5. Callers
    BY FS_EmptySet DEF SyncInit, Init, Callers
  <2> QED
    BY <2>3, <2>4, <2>5 DEF ParkInv
<1>2. SyncInv /\ ParkInv /\ [SyncNext]_allvars => ParkInv'
  <2> SUFFICES ASSUME SyncInv, ParkInv, [SyncNext]_allvars PROVE ParkInv'
    OBVIOUS
  <2>1. CASE SyncStep
    BY <2>1, ParkPush, ParkPopWait, ParkPopItem, ParkLatchWait, ParkLatchPass,
       ParkLatchOpen DEF SyncStep
  <2>2. CASE LoopStep \/ OtherCall \/ Environment \/ UNCHANGED allvars
    <3>1. [Next]_vars /\ UNCHANGED syncvars
      BY <2>2 DEF LoopStep, OtherCall, Environment, Next, allvars
    <3> QED
      BY <3>1, ParkOther
  <2> QED
    BY <2>1, <2>2 DEF SyncNext
<1> QED
  BY <1>1, <1>2, SyncInvHolds, PTL DEF SyncSpec

\* However many items are pushed by however many coroutines, nobody stays parked
\* on the fifo for want of a signal.
THEOREM NoItemIsLost == Disciplined => (SyncSpec => []NoLostItem)
<1>1. ParkInv => NoLostItem
  BY DEF ParkInv
<1> QED
  BY <1>1, ParkHolds, PTL

\* In a disciplined program a coroutine leaves latch::wait only after wake_all.
THEOREM ClosedLatchHolds == Disciplined => (SyncSpec => []LatchHolds)
<1>1. SyncInv /\ ParkInv => LatchHolds
  <2> SUFFICES ASSUME SyncInv, ParkInv, pc = "coro", call[current] = "latch"
               PROVE  done
    BY DEF LatchHolds, InCall
  <2> QED
    BY RunnerFree DEF ParkInv, LatchInv
<1> QED
  BY <1>1, SyncInvHolds, ParkHolds, PTL

\* A coroutine is parked in one place, or in none.
LEMMA ParkedIsOne ==
  ASSUME OnePlace, NEW c \in Coros
  PROVE  /\ c \in AllParked => \E s \in ParkedAt(c) : ParkedAt(c) = {s}
         /\ c \notin AllParked => ParkedAt(c) = {}
<1>1. ASSUME NEW v \in Cvs, NEW i \in DOMAIN waiting[v], waiting[v][i] = c
      PROVE  <<v, i>> \in ParkedAt(c)
  BY <1>1 DEF ParkedAt, Cvs
<1>2. ASSUME NEW s \in ParkedAt(c)
      PROVE  \E v \in Cvs : \E i \in DOMAIN waiting[v] :
               s = <<v, i>> /\ waiting[v][i] = c
  BY <1>2 DEF ParkedAt, Cvs
<1>3. ASSUME c \in AllParked
      PROVE  \E s \in ParkedAt(c) : ParkedAt(c) = {s}
  <2>1. PICK v \in Cvs : \E i \in DOMAIN waiting[v] : waiting[v][i] = c
    BY <1>3 DEF AllParked, Parked, Cvs
  <2>2. PICK i \in DOMAIN waiting[v] : waiting[v][i] = c
    BY <2>1
  <2>3. \A s \in ParkedAt(c) : s = <<v, i>>
    BY <1>2, <2>2 DEF OnePlace
  <2> QED
    BY <1>1, <2>2, <2>3
<1>4. ASSUME c \notin AllParked
      PROVE  ParkedAt(c) = {}
  <2>1. \A v \in Cvs : \A i \in DOMAIN waiting[v] : waiting[v][i] # c
    BY <1>4 DEF AllParked, Parked, Cvs
  <2> QED
    BY <1>2, <2>1
<1> QED
  BY <1>3, <1>4

\* In a disciplined program who waits inside sync.h is parked in one place, or
\* signalled once; nobody else is parked, and everybody else has the wake-up
\* that OneWakeUp promises.
THEOREM EachWaitsOnce == Disciplined => (SyncSpec => []OneWakeUpOrParked)
<1>1. SyncInv /\ ParkInv => OneWakeUpOrParked
  <2> SUFFICES ASSUME SyncInv, ParkInv, NEW c \in Coros
               PROVE  IF Asleep(c)
                        THEN \E s \in WakeUps(c) \cup ParkedAt(c) :
                               WakeUps(c) \cup ParkedAt(c) = {s}
                        ELSE WakeUps(c) \cup ParkedAt(c) = {}
    BY DEF OneWakeUpOrParked, Asleep
  <2>1. /\ c \in AllParked => \E s \in ParkedAt(c) : ParkedAt(c) = {s}
        /\ c \notin AllParked => ParkedAt(c) = {}
    BY ParkedIsOne DEF ParkInv, ParkedOnce
  <2>2. PICK P : P = AllParked
    OBVIOUS
  <2>3. Inv /\ WakeInv(P)
    BY <2>2 DEF SyncInv, ParkInv
  <2>4. CASE InQueue(c) \/ InEvents(c) \/ InWaits(c)
    <3>1. Asleep(c) /\ c \notin AllParked
      BY <2>2, <2>3, <2>4 DEF WakeInv, Awaited, Exclusive
    <3>2. \E s \in WakeUps(c) : WakeUps(c) = {s}
      BY <2>3, <2>4, WakeUpIsOne
    <3> QED
      BY <2>1, <3>1, <3>2
  <2>5. CASE ~(InQueue(c) \/ InEvents(c) \/ InWaits(c))
    <3>1. WakeUps(c) = {}
      BY <2>3, <2>5, NoWakeUp
    <3>2. Asleep(c) <=> c \in AllParked
      BY <2>2, <2>3, <2>5 DEF WakeInv, Awaited
    <3> QED
      BY <2>1, <3>1, <3>2
  <2> QED
    BY <2>4, <2>5
<1> QED
  BY <1>1, SyncInvHolds, ParkHolds, PTL
=============================================================================
