-------------------------------- MODULE Sync --------------------------------
(***************************************************************************)
(* The condition variable, latch and fifo of sync.h, used by coroutines    *)
(* that the scheduler of Coro.tla runs.  One fifo and one latch, each with *)
(* the condition variable it owns.                                         *)
(***************************************************************************)
EXTENDS Coro, FiniteSets

CONSTANT MaxItems   \* bound: how many items are pushed in all

ASSUME MaxItemsAssumption == MaxItems \in Nat

VARIABLES
  waiting,  \* condition_variable::_waiting, of the fifo's _cv and the latch's
  q,        \* fifo::_q
  pushed,   \* how many items have been pushed; the next one's name
  done,     \* latch::_done
  call      \* the call of sync.h that each coroutine is inside of

syncvars == <<waiting, q, pushed, done, call>>
allvars == <<vars, syncvars>>

Calls == {"none", "pop", "latch"}

InCall(name) == pc = "coro" /\ call[current] = name

-----------------------------------------------------------------------------
(* class condition_variable *)

\* The queue is given nobody.
Badcv_wait(v) ==
  /\ waiting' = [waiting EXCEPT ![v] = Append(@, NULL)]
  /\ Leave("cv", 0)

cv_wait(v) ==
  /\ waiting' = [waiting EXCEPT ![v] = Append(@, current)]
  /\ Leave("cv", 0)

\* The front is scheduled and stays where it is.
Badwake_one(v) ==
  IF waiting[v] = <<>>
    THEN UNCHANGED <<waiting, pending>>
    ELSE UNCHANGED waiting /\ schedule(Head(waiting[v]), "null")

\* With no coroutine waiting, the signal is lost.  So it is when the front is
\* over: it has been popped when schedule throws Dead_Coro into the caller, who
\* catches it or ends.
wake_one(v) ==
  IF waiting[v] = <<>>
    THEN UNCHANGED <<waiting, pending>>
    ELSE /\ waiting' = [waiting EXCEPT ![v] = Tail(@)]
         /\ IF dead[Head(waiting[v])]
              THEN UNCHANGED pending
              ELSE schedule(Head(waiting[v]), "null")

\* The loop returns from its first iteration.
wake_all(v) == wake_one(v)

-----------------------------------------------------------------------------
(* class fifo *)

\* The signal is sent only when the queue was empty.
BadPush ==
  /\ InCall("none")
  /\ pushed < MaxItems
  /\ pushed' = pushed + 1
  /\ q' = Append(q, pushed + 1)
  /\ IF q = <<>> THEN wake_one("fifo") ELSE UNCHANGED <<waiting, pending>>
  /\ UNCHANGED <<pc, now, tv, timeout, wakeAt, exiting, current, staging,
                 events, waits, objects, done, call>>

Push ==
  /\ InCall("none")
  /\ pushed < MaxItems
  /\ pushed' = pushed + 1
  /\ q' = Append(q, pushed + 1)
  /\ wake_one("fifo")
  /\ UNCHANGED <<pc, now, tv, timeout, wakeAt, exiting, current, staging,
                 events, waits, objects, done, call>>

\* The size is tested once: whoever was woken takes what is there.
BadPopWait ==
  /\ InCall("none") \/ InCall("pop")
  /\ q = <<>>
  /\ IF InCall("none")
       THEN cv_wait("fifo") /\ call' = [call EXCEPT ![current] = "pop"] /\ UNCHANGED dead
       ELSE call' = [call EXCEPT ![current] = "none"] /\ UNCHANGED <<waiting, pc, objects>>
  /\ UNCHANGED <<now, tv, timeout, wakeAt, exiting, current, pending, staging,
                 events, waits, q, pushed, done>>

\* pop's while: entered, or woken, with nothing to pop.
PopWait ==
  /\ InCall("none") \/ InCall("pop")
  /\ q = <<>>
  /\ cv_wait("fifo")
  /\ call' = [call EXCEPT ![current] = "pop"]
  /\ UNCHANGED <<now, tv, timeout, wakeAt, exiting, pending, staging, events,
                 waits, dead, q, pushed, done>>

\* pop returns.
PopItem ==
  /\ InCall("none") \/ InCall("pop")
  /\ q # <<>>
  /\ q' = Tail(q)
  /\ call' = [call EXCEPT ![current] = "none"]
  /\ UNCHANGED <<vars, waiting, pushed, done>>

-----------------------------------------------------------------------------
(* class latch *)

\* wait, when the latch is closed (it does nothing when it is open).
LatchWait ==
  /\ InCall("none")
  /\ ~done
  /\ cv_wait("latch")
  /\ call' = [call EXCEPT ![current] = "latch"]
  /\ UNCHANGED <<now, tv, timeout, wakeAt, exiting, pending, staging, events,
                 waits, dead, q, pushed, done>>

\* wait returns.
LatchPass ==
  /\ InCall("latch")
  /\ call' = [call EXCEPT ![current] = "none"]
  /\ UNCHANGED <<vars, waiting, q, pushed, done>>

\* The flag is forgotten.
BadLatchOpen ==
  /\ InCall("none")
  /\ wake_all("latch")
  /\ UNCHANGED <<pc, now, tv, timeout, wakeAt, exiting, current, staging,
                 events, waits, objects, q, pushed, done, call>>

\* wake_all
LatchOpen ==
  /\ InCall("none")
  /\ done' = TRUE
  /\ wake_all("latch")
  /\ UNCHANGED <<pc, now, tv, timeout, wakeAt, exiting, current, staging,
                 events, waits, objects, q, pushed, call>>

-----------------------------------------------------------------------------
SyncInit ==
  /\ Init
  /\ waiting = [v \in {"fifo", "latch"} |-> <<>>]
  /\ q = <<>>
  /\ pushed = 0
  /\ done = FALSE
  /\ call = [c \in Coros |-> "none"]

SyncStep == Push \/ PopWait \/ PopItem \/ LatchWait \/ LatchPass \/ LatchOpen

\* The steps of coro++.h.  A coroutine inside a call of sync.h makes no other.
LoopStep == MainStep /\ UNCHANGED syncvars
OtherCall == InCall("none") /\ CoroStep /\ UNCHANGED syncvars
Environment ==
  (MainSpawn \/ PollWake \/ PollEarly \/ Tick \/ Over) /\ UNCHANGED syncvars

SyncNext == SyncStep \/ LoopStep \/ OtherCall \/ Environment

\* As Coro!Spec: the thread runs and a coroutine's bursts end.  Nothing makes a
\* coroutine push, open the latch, or wait.
SyncSpec ==
  /\ SyncInit
  /\ [][SyncNext]_allvars
  /\ WF_allvars(LoopStep)
  /\ WF_allvars(SyncStep \/ OtherCall)
  /\ WF_allvars(Tick /\ UNCHANGED syncvars)

-----------------------------------------------------------------------------
(* Properties *)

\* The types of the state of sync.h.
SyncTypeOK ==
  /\ waiting \in [{"fifo", "latch"} -> Seq(Coros)]
  /\ q \in Seq(1..MaxItems)
  /\ pushed \in 0..MaxItems
  /\ done \in BOOLEAN
  /\ call \in [Coros -> Calls]

Parked(v) == {waiting[v][i] : i \in DOMAIN waiting[v]}

\* The coroutines inside pop that have been signalled, or have not waited yet.
Signalled == {c \in Coros : call[c] = "pop"} \ Parked("fifo")

\* push signals once for each item, and a pop that did not wait may take the
\* item that another was signalled for.  Even so there are never coroutines
\* left parked on the fifo while it holds more items than signalled coroutines
\* will take.
NoLostItem ==
  waiting["fifo"] # <<>> => Len(q) <= Cardinality(Signalled)

\* The places in _waiting where c is.
ParkedAt(c) ==
  UNION {{<<v, i>> : i \in {j \in DOMAIN waiting[v] : waiting[v][j] = c}} :
         v \in {"fifo", "latch"}}

\* A coroutine inside wait() is parked in one place of one queue and nobody else
\* will wake it, or it has been signalled and has its one wake-up.  Everybody
\* else is as OneWakeUp says.  So no signal goes to a coroutine that is over or
\* waits for something else.
OneWakeUpOrParked ==
  \A c \in Coros :
    LET ups == WakeUps(c) \cup ParkedAt(c)
    IN  IF c \in created /\ ~dead[c] /\ ~Running(c)
          THEN \E s \in ups : ups = {s}
          ELSE ups = {}

\* A coroutine comes back from latch::wait only when the latch is open.
LatchHolds == InCall("latch") => done

\* wake_all leaves nobody waiting: the latch is open, so nobody will be back to
\* signal them.
LatchReleasesAll == done => waiting["latch"] = <<>>

\* The fifo is a blocking queue: items come out once each in the order of their
\* pushes, and blocked coroutines are served while there are items.
Fifo == INSTANCE Channel WITH
  Clients <- Coros,
  Items <- 1..MaxItems,
  items <- q,
  asking <- {c \in Coros : call[c] = "pop"}

BlockingQueue == Fifo!Spec
=============================================================================
