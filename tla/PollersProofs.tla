---------------------------- MODULE PollersProofs ----------------------------
(***************************************************************************)
(* Theorems about the three poller backends of Pollers.tla, for any        *)
(* descriptors, coroutines and sizes of their arrays.                      *)
(***************************************************************************)
EXTENDS Pollers, FiniteSetTheorems, SequenceTheorems, TLAPS

Regs == Poll!Regs

\* A module that is instantiated has operators of its own for what it extends.
LEMMA SameCardinality ==
  /\ \A S : Poll!Cardinality(S) = Cardinality(S)
  /\ \A S : Kqueue!Cardinality(S) = Cardinality(S)
BY DEF Poll!Cardinality, Kqueue!Cardinality, Cardinality

\* There are finitely many registrations: two for each descriptor.
LEMMA RegsFinite == IsFiniteSet(Regs)
<1> DEFINE D == {"in", "out"}
           f == [p \in Fds \X D |-> [fd |-> p[1], dir |-> p[2]]]
<1>1. IsFiniteSet(D)
  <2>1. IsFiniteSet({"in"}) /\ D = {"in"} \cup {"out"}
    BY FS_Singleton
  <2> HIDE DEF D
  <2> QED
    BY <2>1, FS_AddElement
<1>2. IsFiniteSet(Fds \X D)
  BY <1>1, FS_Product, PollersAssumption
<1>3. f \in Surjection(Fds \X D, Regs)
  <2>1. f \in [Fds \X D -> Regs]
    BY DEF Poll!Regs, Regs
  <2>2. ASSUME NEW r \in Regs PROVE \E p \in Fds \X D : f[p] = r
    <3>1. <<r.fd, r.dir>> \in Fds \X D /\ r = [fd |-> r.fd, dir |-> r.dir]
      BY DEF Poll!Regs, Regs
    <3> QED
      BY <3>1
  <2> QED
    BY <2>1, <2>2 DEF Surjection
<1> HIDE DEF f
<1> QED
  BY <1>2, <1>3, FS_Surjection

\* poll's slots are in an order in which no two registrations are level.
LEMMA AfterIsOrder ==
  /\ \A r, s \in Regs : r # s => Poll!After(r, s) \/ Poll!After(s, r)
  /\ \A r, s \in Regs : Poll!After(r, s) => r # s /\ ~Poll!After(s, r)
  /\ \A r, s, t \in Regs :
       Poll!After(r, s) /\ Poll!After(s, t) => Poll!After(r, t)
<1>1. \A r \in Regs : r.fd \in Nat /\ r.dir \in {"in", "out"}
  <2>1. \A r \in Regs : r.fd \in Fds /\ r.dir \in {"in", "out"}
    BY DEF Poll!Regs, Regs
  <2> QED
    BY <2>1, PollersAssumption
<1>2. \A r, s \in Regs : r = s <=> r.fd = s.fd /\ r.dir = s.dir
  BY DEF Poll!Regs, Regs
<1> QED
  BY <1>1, <1>2 DEF Poll!After

\* A function from a finite set to as many numbers that meets none twice meets
\* them all.
LEMMA NumberingIsOnto ==
  ASSUME NEW S, IsFiniteSet(S), NEW f \in [S -> 1..Cardinality(S)],
         \A x, y \in S : f[x] = f[y] => x = y
  PROVE  \A i \in 1..Cardinality(S) : \E x \in S : f[x] = i
<1>1. Cardinality(S) \in Nat
  BY FS_CardinalityType
<1>2. /\ IsFiniteSet(1..Cardinality(S))
      /\ Cardinality(1..Cardinality(S)) = Cardinality(S)
  BY <1>1, FS_Interval
<1>3. f \in Injection(S, 1..Cardinality(S))
  BY DEF Injection, IsInjective
<1>4. f \in Surjection(S, 1..Cardinality(S))
  BY <1>2, <1>3, FS_Injection
<1> QED
  BY <1>4 DEF Surjection

\* The slots of any registrations number them from 1.
LEMMA SlotsNumber ==
  /\ Poll!Count \in Nat
  /\ \A r \in Poll!Registered : Poll!SlotOf(r) \in 1..Poll!Count
  /\ \A r, s \in Poll!Registered : Poll!SlotOf(r) = Poll!SlotOf(s) => r = s
  /\ \A i \in 1..Poll!Count : \E r \in Poll!Registered : Poll!SlotOf(r) = i
<1> DEFINE S == Poll!Registered
           Below(r) == {s \in S : s = r \/ Poll!After(r, s)}
           f == [r \in S |-> Cardinality(Below(r))]
<1>1. S \subseteq Regs /\ IsFiniteSet(S) /\ Cardinality(S) \in Nat
  <2>1. S \in SUBSET Regs
    BY DEF Poll!Registered, Regs
  <2> QED
    BY <2>1, RegsFinite, FS_Subset, FS_CardinalityType
<1> HIDE DEF S
<1>2. ASSUME NEW r \in S
      PROVE  IsFiniteSet(Below(r)) /\ Cardinality(Below(r)) \in 1..Cardinality(S)
  <2>1. Below(r) \in SUBSET S /\ Below(r) # {}
    OBVIOUS
  <2>2. /\ IsFiniteSet(Below(r)) /\ Cardinality(Below(r)) \in Nat
        /\ Cardinality(Below(r)) <= Cardinality(S)
    BY <1>1, <2>1, FS_Subset, FS_CardinalityType
  <2>3. Cardinality(Below(r)) # 0
    BY <2>1, <2>2, FS_EmptySet
  <2> QED
    BY <1>1, <2>2, <2>3
<1>3. ASSUME NEW r \in S, NEW s \in S, Poll!After(r, s)
      PROVE  Cardinality(Below(s)) < Cardinality(Below(r))
  <2>1. Below(s) \in SUBSET Below(r)
    BY <1>1, <1>3, AfterIsOrder
  <2>2. r \in Below(r) /\ r \notin Below(s)
    BY <1>1, <1>3, AfterIsOrder
  <2>3. /\ Cardinality(Below(s)) <= Cardinality(Below(r))
        /\ Cardinality(Below(s)) # Cardinality(Below(r))
    BY <1>2, <2>1, <2>2, FS_Subset
  <2> QED
    BY <1>2, <2>3
<1>4. \A r, s \in S : f[r] = f[s] => r = s
  <2> SUFFICES ASSUME NEW r \in S, NEW s \in S, r # s PROVE f[r] # f[s]
    OBVIOUS
  <2>1. Poll!After(r, s) \/ Poll!After(s, r)
    BY <1>1, AfterIsOrder
  <2>2. Cardinality(Below(r)) \in Nat /\ Cardinality(Below(s)) \in Nat
    BY <1>1, <1>2
  <2> QED
    BY <1>3, <2>1, <2>2
<1>5. f \in [S -> 1..Cardinality(S)]
  BY <1>2
<1>6. \A i \in 1..Cardinality(S) : \E r \in S : f[r] = i
  <2> HIDE DEF f
  <2> QED
    BY <1>1, <1>4, <1>5, NumberingIsOnto
<1>7. \A r \in S : f[r] = Poll!SlotOf(r)
  BY SameCardinality DEF S, Poll!SlotOf
<1>8. Poll!Count = Cardinality(S)
  BY SameCardinality DEF S, Poll!Count
<1> HIDE DEF f
<1> QED
  BY <1>1, <1>4, <1>5, <1>6, <1>7, <1>8 DEF S

\* InSlot and SlotOf are inverse to each other.
LEMMA SlotsMatch ==
  /\ \A r \in Poll!Registered :
       Poll!SlotOf(r) \in 1..Poll!Count /\ Poll!InSlot(Poll!SlotOf(r)) = r
  /\ \A i \in 1..Poll!Count : Poll!InSlot(i) \in Poll!Registered
BY SlotsNumber DEF Poll!InSlot

-----------------------------------------------------------------------------
(* Types *)

\* What the steps need to know besides the types: only kqueue's poller gathers
\* changes.
Inv ==
  /\ PollersTypeOK
  /\ ksp # "kqueue" => changes = <<>>

LEMMA SameRegs ==
  /\ Select!Regs = Regs /\ Kqueue!Regs = Regs /\ Contract!Regs = Regs
  /\ Regs = [fd : Fds, dir : {"in", "out"}]
BY DEF Regs, Poll!Regs, Select!Regs, Kqueue!Regs, Contract!Regs

\* The bits that poll keeps in its slots are POLLIN and POLLOUT.
LEMMA FilledType ==
  ASSUME PollersTypeOK
  PROVE  Poll!Filled \in [1..Size -> SUBSET {"in", "out"}]
<1> SUFFICES ASSUME NEW i \in 1..Size, i <= Poll!Count
             PROVE  Poll!InSlot(i).dir \in {"in", "out"}
  BY DEF PollersTypeOK, Poll!Filled
<1>1. Poll!InSlot(i) \in Regs
  BY SlotsNumber, SlotsMatch DEF Poll!Registered, Regs
<1> QED
  BY <1>1, SameRegs

\* What the kernel is to have is a coroutine for each registration, or none.
LEMMA ArmedType ==
  PollersTypeOK => Kqueue!Armed \in [Regs -> Coros \cup {NULL}]
<1> SUFFICES ASSUME PollersTypeOK, NEW r \in Regs, Kqueue!ChangesOf(r) # {}
             PROVE  changes[CHOOSE j \in Kqueue!ChangesOf(r) : TRUE].coro \in Coros
  BY SameRegs DEF Kqueue!Armed, PollersTypeOK, Regs
<1> DEFINE i == CHOOSE j \in Kqueue!ChangesOf(r) : TRUE
<1>1. i \in DOMAIN changes
  BY DEF Kqueue!ChangesOf
<1>2. changes \in Seq([reg : Regs, coro : Coros])
  BY DEF PollersTypeOK, Regs
<1> HIDE DEF i
<1>3. changes[i] \in [reg : Regs, coro : Coros]
  BY <1>1, <1>2, LenProperties
<1> QED
  BY <1>3 DEF i

\* The last change of a registration is what the kernel will have.
LEMMA ArmedAfterChange ==
  ASSUME PollersTypeOK, PollersTypeOK', NEW r \in Regs, NEW c \in Coros,
         changes' = Append(changes, [reg |-> r, coro |-> c]), waits' = waits
  PROVE  Kqueue!Armed' = [Kqueue!Armed EXCEPT ![r] = c]
<1> DEFINE n == Len(changes) + 1
<1>1. /\ DOMAIN changes = 1..Len(changes) /\ Len(changes) \in Nat
      /\ DOMAIN changes' = 1..n
      /\ changes'[n].reg = r /\ changes'[n].coro = c
      /\ \A i \in 1..Len(changes) : changes'[i] = changes[i]
  BY DEF PollersTypeOK, Regs
<1>2. Kqueue!ChangesOf(r)' = {n}
  BY <1>1 DEF Kqueue!ChangesOf
<1>3. ASSUME NEW s \in Regs, s # r
      PROVE  Kqueue!ChangesOf(s)' = Kqueue!ChangesOf(s)
  BY <1>1, <1>3 DEF Kqueue!ChangesOf
<1>4. Kqueue!Armed'[r] = c
  BY <1>1, <1>2, SameRegs DEF Kqueue!Armed
<1>5. ASSUME NEW s \in Regs, s # r
      PROVE  Kqueue!Armed'[s] = Kqueue!Armed[s]
  <2>1. CASE Kqueue!ChangesOf(s) = {}
    BY <1>3, <1>5, <2>1, SameRegs DEF Kqueue!Armed
  <2>2. CASE Kqueue!ChangesOf(s) # {}
    <3> DEFINE i == CHOOSE j \in Kqueue!ChangesOf(s) : TRUE
    <3>1. i \in 1..Len(changes)
      BY <1>1, <2>2 DEF Kqueue!ChangesOf
    <3>2. Kqueue!Armed[s] = changes[i].coro /\ Kqueue!Armed'[s] = changes'[i].coro
      BY <1>3, <1>5, <2>2, SameRegs DEF Kqueue!Armed
    <3> HIDE DEF i
    <3> QED
      BY <1>1, <3>1, <3>2
  <2> QED
    BY <2>1, <2>2
<1>6. Kqueue!Armed \in [Regs -> Coros \cup {NULL}]
  BY ArmedType
<1>7. (Kqueue!Armed \in [Regs -> Coros \cup {NULL}])'
  BY ArmedType, PTL
<1> QED
  BY <1>4, <1>5, <1>6, <1>7

\* Without changes the kernel has what it has.
LEMMA ArmedWithoutChanges ==
  waits \in [Regs -> Coros \cup {NULL}] /\ changes = <<>> => Kqueue!Armed = waits
<1>1. changes = <<>> => \A r : Kqueue!ChangesOf(r) = {}
  BY DEF Kqueue!ChangesOf
<1> QED
  BY <1>1, SameRegs DEF Kqueue!Armed

\* The kernel says something of each descriptor, and changes its mind.
LEMMA ReadyType ==
  ASSUME PollersTypeOK, NEW fd \in Fds, NEW bits \in SUBSET {"in", "out", "hup"},
         ready' = [ready EXCEPT ![fd] = bits]
  PROVE  ready' \in [Fds -> SUBSET {"in", "out", "hup"}]
BY DEF PollersTypeOK, Poll!Bits

\* The type invariant, part by part.
LEMMA TypeParts ==
  ASSUME ksp' = ksp, ksp \in Backends,
         phase' \in {"run", "poll", "lost"} \/ (ksp = "kqueue" /\ phase' = "thrown"),
         waits' \in [Regs -> Coros \cup {NULL}],
         blocked' \subseteq Coros,
         ready' \in [Fds -> SUBSET {"in", "out", "hup"}],
         events' \in [1..Size -> SUBSET {"in", "out"}],
         changes' \in Seq([reg : Regs, coro : Coros])
  PROVE  PollersTypeOK'
<1>1. ksp \in {"poll", "select", "kqueue"}
  BY PollersAssumption
<1> QED
  BY <1>1 DEF PollersTypeOK, Regs, Poll!Bits

LEMMA TypeFacts ==
  ASSUME PollersTypeOK
  PROVE  /\ ksp \in {"poll", "select", "kqueue"} /\ ksp \in Backends
         /\ phase \in {"run", "poll", "lost"} \/ (ksp = "kqueue" /\ phase = "thrown")
         /\ waits \in [Regs -> Coros \cup {NULL}]
         /\ blocked \subseteq Coros
         /\ ready \in [Fds -> SUBSET {"in", "out", "hup"}]
         /\ events \in [1..Size -> SUBSET {"in", "out"}]
         /\ changes \in Seq([reg : Regs, coro : Coros])
<1>1. ksp \in {"poll", "select", "kqueue"}
  BY PollersAssumption DEF PollersTypeOK
<1> QED
  BY <1>1 DEF PollersTypeOK, Regs, Poll!Bits

LEMMA InitInv == Init => Inv
<1> SUFFICES ASSUME Init PROVE Inv
  OBVIOUS
<1>1. ksp \in {"poll", "select", "kqueue"} /\ ksp \in Backends
  BY PollersAssumption DEF Init
<1>2. /\ phase = "run" /\ waits = [r \in Regs |-> NULL] /\ blocked = {}
      /\ ready \in [Fds -> SUBSET {"in", "out", "hup"}] /\ changes = <<>>
      /\ events \in [1..Size -> SUBSET {"in", "out"}]
  BY SameRegs DEF Init, Poll!Init, Select!Init, Kqueue!Init, NoEvents, Poll!Bits,
     Select!Bits, Kqueue!Bits, Regs
<1>3. changes \in Seq([reg : Regs, coro : Coros])
  BY <1>2
<1>4. PollersTypeOK
  BY <1>1, <1>2, <1>3 DEF PollersTypeOK, Regs, Poll!Bits
<1> QED
  BY <1>2, <1>4 DEF Inv

LEMMA PollKeepsInv == Inv /\ PollStep => Inv'
<1> SUFFICES ASSUME Inv, PollStep PROVE Inv'
  OBVIOUS
<1>1. ksp = "poll" /\ UNCHANGED <<ksp, changes>> /\ Poll!Next
  BY DEF PollStep
<1> USE TypeFacts DEF Inv
<1>2. ASSUME NEW r \in Regs, NEW c \in Coros, Poll!set_wait_for(r, c)
      PROVE  PollersTypeOK'
  BY <1>1, <1>2, TypeParts DEF Poll!set_wait_for
<1>3. CASE Poll!poll
  BY <1>1, <1>3, TypeParts, FilledType, SameRegs DEF Poll!poll, Poll!Erased, Regs
<1>4. CASE Poll!PollFails
  BY <1>1, <1>4, TypeParts, FilledType DEF Poll!PollFails
<1>5. CASE Poll!KernelChanges
  <2>1. ready' \in [Fds -> SUBSET {"in", "out", "hup"}]
    BY <1>5, ReadyType DEF Poll!KernelChanges, Poll!Bits
  <2> QED
    BY <1>1, <1>5, <2>1, TypeParts DEF Poll!KernelChanges
<1>6. CASE Poll!EndRun \/ Poll!PollOverruns
  BY <1>1, <1>6, TypeParts DEF Poll!EndRun, Poll!PollOverruns
<1> QED
  BY <1>1, <1>2, <1>3, <1>4, <1>5, <1>6 DEF Poll!Next, Regs

LEMMA SelectKeepsInv == Inv /\ SelectStep => Inv'
<1> SUFFICES ASSUME Inv, SelectStep PROVE Inv'
  OBVIOUS
<1>1. ksp = "select" /\ UNCHANGED <<ksp, events, changes>> /\ Select!Next
  BY DEF SelectStep
<1> USE TypeFacts, SameRegs DEF Inv
<1>2. ASSUME NEW r \in Regs, NEW c \in Coros, Select!set_wait_for(r, c)
      PROVE  PollersTypeOK'
  BY <1>1, <1>2, TypeParts DEF Select!set_wait_for
<1>3. CASE Select!poll
  BY <1>1, <1>3, TypeParts DEF Select!poll
<1>4. CASE Select!KernelChanges
  <2>1. ready' \in [Fds -> SUBSET {"in", "out", "hup"}]
    BY <1>4, ReadyType DEF Select!KernelChanges, Select!Bits
  <2> QED
    BY <1>1, <1>4, <2>1, TypeParts DEF Select!KernelChanges
<1>5. CASE Select!EndRun \/ Select!PollLost \/ Select!PollFails
  BY <1>1, <1>5, TypeParts DEF Select!EndRun, Select!PollLost, Select!PollFails
<1> QED
  BY <1>1, <1>2, <1>3, <1>4, <1>5 DEF Select!Next

LEMMA KqueueKeepsInv == Inv /\ KqueueStep => Inv'
<1> SUFFICES ASSUME Inv, KqueueStep PROVE Inv'
  OBVIOUS
<1>1. ksp = "kqueue" /\ UNCHANGED <<ksp, events>> /\ Kqueue!Next
  BY DEF KqueueStep
<1> USE TypeFacts, SameRegs DEF Inv
<1>2. ASSUME NEW r \in Regs, NEW c \in Coros, Kqueue!set_wait_for(r, c)
      PROVE  PollersTypeOK'
  <2>1. [reg |-> r, coro |-> c] \in [reg : Regs, coro : Coros]
    OBVIOUS
  <2>2. changes' \in Seq([reg : Regs, coro : Coros])
    BY <1>2, <2>1, AppendProperties DEF Kqueue!set_wait_for
  <2> QED
    BY <1>1, <1>2, <2>2, TypeParts DEF Kqueue!set_wait_for
<1>3. <<>> \in Seq([reg : Regs, coro : Coros])
  BY EmptySeq
<1>4. CASE Kqueue!poll
  <2>1. PICK S \in Kqueue!Taken :
          /\ waits' = [r \in Regs |-> IF r \in S THEN NULL ELSE Kqueue!Armed[r]]
          /\ blocked' = blocked \ {Kqueue!Armed[r] : r \in S}
    BY <1>4 DEF Kqueue!poll
  <2>2. waits' \in [Regs -> Coros \cup {NULL}]
    BY <2>1, ArmedType
  <2> QED
    BY <1>1, <1>3, <1>4, <2>1, <2>2, TypeParts DEF Kqueue!poll, Kqueue!LeftOver
<1>5. CASE Kqueue!PollThrows
  BY <1>1, <1>3, <1>5, ArmedType, TypeParts DEF Kqueue!PollThrows, Kqueue!LeftOver
<1>6. CASE Kqueue!KernelChanges
  <2>1. ready' \in [Fds -> SUBSET {"in", "out", "hup"}]
    BY <1>6, ReadyType DEF Kqueue!KernelChanges, Kqueue!Bits
  <2> QED
    BY <1>1, <1>6, <2>1, TypeParts DEF Kqueue!KernelChanges
<1>7. CASE Kqueue!EndRun
  BY <1>1, <1>7, TypeParts DEF Kqueue!EndRun
<1> QED
  BY <1>1, <1>2, <1>4, <1>5, <1>6, <1>7 DEF Kqueue!Next

\* Every step of every backend keeps the types.
LEMMA InvStep == Inv /\ [Next]_vars => Inv'
<1>1. Inv /\ UNCHANGED vars => Inv'
  BY DEF vars, Inv, PollersTypeOK
<1> QED
  BY <1>1, PollKeepsInv, SelectKeepsInv, KqueueKeepsInv DEF Next

LEMMA InvHolds == Spec => []Inv
BY InitInv, InvStep, PTL DEF Spec

\* The backends' state has its types: poll(2)'s slots never get a bit that is
\* not POLLIN or POLLOUT, whatever the array held.
THEOREM PollersTypeCorrect == Spec => []PollersTypeOK
<1>1. Inv => PollersTypeOK
  BY DEF Inv
<1> QED
  BY <1>1, InvHolds, PTL

-----------------------------------------------------------------------------
(* kqueue's _change_list *)

\* Finitely many coroutines wait.
FitInv == IsFiniteSet(blocked) /\ ChangesFit

LEMMA FitStep == Inv /\ FitInv /\ [Next]_vars => FitInv'
<1> SUFFICES ASSUME Inv, FitInv, [Next]_vars PROVE FitInv'
  OBVIOUS
<1>1. Len(changes) \in Nat /\ Len(<<>>) = 0
  BY TypeFacts, LenProperties DEF Inv
<1>2. ASSUME NEW T, IsFiniteSet(T)
      PROVE  Cardinality(T) \in Nat
  BY <1>2, FS_CardinalityType
<1>3. ASSUME NEW c, c \notin blocked, blocked' = blocked \cup {c},
             Len(changes') <= Len(changes) + 1, Len(changes') \in Nat
      PROVE  FitInv'
  <2>1. IsFiniteSet(blocked) /\ Cardinality(blocked) \in Nat
    BY <1>2 DEF FitInv
  <2>2. IsFiniteSet(blocked') /\ Cardinality(blocked') = Cardinality(blocked) + 1
    BY <1>3, <2>1, FS_AddElement
  <2>3. Len(changes) <= Cardinality(blocked)
    BY DEF FitInv, ChangesFit
  <2>4. Len(changes') <= Cardinality(blocked')
    BY <1>1, <1>3, <2>1, <2>2, <2>3
  <2> QED
    BY <2>2, <2>4 DEF FitInv, ChangesFit
<1>4. ASSUME blocked' \subseteq blocked, changes' = <<>>
      PROVE  FitInv'
  BY <1>1, <1>2, <1>4, FS_Subset DEF FitInv, ChangesFit
<1>5. CASE PollStep \/ SelectStep
  <2>1. changes' = <<>> /\ changes = <<>>
    BY <1>5 DEF PollStep, SelectStep, Inv
  <2>2. blocked' \subseteq blocked \/ \E c : c \notin blocked /\ blocked' = blocked \cup {c}
    BY <1>5 DEF PollStep, SelectStep, Poll!Next, Select!Next, Poll!set_wait_for,
       Poll!EndRun, Poll!poll, Poll!PollFails, Poll!PollOverruns, Poll!KernelChanges,
       Select!set_wait_for, Select!EndRun, Select!poll, Select!PollLost,
       Select!PollFails, Select!KernelChanges
  <2> QED
    BY <1>1, <1>3, <1>4, <2>1, <2>2
<1>6. CASE KqueueStep
  <2>1. CASE \E r \in Kqueue!Regs, c \in Coros : Kqueue!set_wait_for(r, c)
    <3>1. PICK r \in Regs, c \in Coros : Kqueue!set_wait_for(r, c)
      BY <2>1, SameRegs
    <3>2. [reg |-> r, coro |-> c] \in [reg : Regs, coro : Coros]
      OBVIOUS
    <3>3. Len(changes') = Len(changes) + 1
      BY <3>1, <3>2, TypeFacts, AppendProperties DEF Kqueue!set_wait_for, Inv
    <3> QED
      BY <1>1, <1>3, <3>1, <3>3 DEF Kqueue!set_wait_for
  <2>2. CASE Kqueue!EndRun \/ Kqueue!KernelChanges
    BY <2>2 DEF Kqueue!EndRun, Kqueue!KernelChanges, FitInv, ChangesFit
  <2>3. CASE Kqueue!poll \/ Kqueue!PollThrows
    BY <1>4, <2>3 DEF Kqueue!poll, Kqueue!PollThrows, Kqueue!LeftOver
  <2> QED
    BY <1>6, <2>1, <2>2, <2>3 DEF KqueueStep, Kqueue!Next
<1>7. CASE UNCHANGED vars
  BY <1>7 DEF vars, FitInv, ChangesFit
<1> QED
  BY <1>5, <1>6, <1>7 DEF Next

LEMMA FitHolds == Spec => []FitInv
<1>1. Init => FitInv
  <2> SUFFICES ASSUME Init PROVE FitInv
    OBVIOUS
  <2>1. blocked = {} /\ changes = <<>>
    BY DEF Init, Poll!Init, Select!Init, Kqueue!Init
  <2> QED
    BY <2>1, FS_EmptySet DEF FitInv, ChangesFit
<1> QED
  BY <1>1, FitStep, InvHolds, PTL DEF Spec

\* _change_list never has more entries than coroutines wait: it does not run over
\* while no more than _output_max do.
THEOREM ChangeListFits == Spec => []ChangesFit
<1>1. FitInv => ChangesFit
  BY DEF FitInv
<1> QED
  BY <1>1, FitHolds, PTL
-----------------------------------------------------------------------------
(* Arrays that run over *)

\* poll: each registration is of a coroutine that waits, and no other is of the
\* same.
HeldInv ==
  ksp = "poll" =>
    /\ \A r \in Regs : waits[r] # NULL => waits[r] \in blocked
    /\ \A r, s \in Regs : waits[r] # NULL /\ waits[r] = waits[s] => r = s

\* An array that has run over had no room.
LostInv ==
  phase = "lost" =>
    /\ ksp = "poll" => Poll!Count > Size
    /\ ksp = "kqueue" => Len(changes) > OutputMax

LEMMA OverrunStep == Inv /\ HeldInv /\ LostInv /\ [Next]_vars => HeldInv' /\ LostInv'
<1> SUFFICES ASSUME Inv, HeldInv, LostInv, [Next]_vars PROVE HeldInv' /\ LostInv'
  OBVIOUS
<1> USE TypeFacts DEF Inv
<1>1. CASE PollStep
  <2>1. ksp = "poll" /\ ksp' = "poll" /\ Poll!Next
    BY <1>1 DEF PollStep
  <2>2. ASSUME NEW r \in Regs, NEW c \in Coros, Poll!set_wait_for(r, c)
        PROVE  HeldInv' /\ LostInv'
    BY <2>1, <2>2, PollersAssumption DEF Poll!set_wait_for, HeldInv, LostInv
  <2>3. CASE Poll!poll
    <3>1. /\ \A r \in Regs : waits'[r] # NULL => r \notin Poll!Served /\ waits'[r] = waits[r]
          /\ blocked' = blocked \ {waits[r] : r \in Poll!Served}
          /\ phase' = "run"
      BY <2>3 DEF Poll!poll, Poll!Erased, Regs
    <3>2. \A r \in Poll!Served : r \in Regs /\ waits[r] # NULL
      BY DEF Poll!Served, Poll!Registered, Regs
    <3> QED
      BY <2>1, <3>1, <3>2 DEF HeldInv, LostInv
  <2>4. CASE Poll!EndRun \/ Poll!PollFails
    BY <2>1, <2>4 DEF Poll!EndRun, Poll!PollFails, HeldInv, LostInv
  <2>5. CASE Poll!PollOverruns \/ Poll!KernelChanges
    <3>1. Poll!Count' = Poll!Count
      BY <2>5 DEF Poll!PollOverruns, Poll!KernelChanges, Poll!Count, Poll!Registered
    <3> QED
      BY <2>1, <2>5, <3>1 DEF Poll!PollOverruns, Poll!KernelChanges, HeldInv, LostInv
  <2> QED
    BY <2>1, <2>2, <2>3, <2>4, <2>5 DEF Poll!Next, Regs
<1>2. CASE SelectStep
  BY <1>2 DEF SelectStep, HeldInv, LostInv
<1>3. CASE KqueueStep
  <2>1. ksp = "kqueue" /\ ksp' = "kqueue" /\ Kqueue!Next
    BY <1>3 DEF KqueueStep
  <2>2. ASSUME NEW r \in Regs, NEW c \in Coros, Kqueue!set_wait_for(r, c)
        PROVE  LostInv'
    <3>1. [reg |-> r, coro |-> c] \in [reg : Regs, coro : Coros]
      OBVIOUS
    <3>2. Len(changes') = Len(changes) + 1 /\ Len(changes) \in Nat
      BY <2>2, <3>1, AppendProperties, LenProperties DEF Kqueue!set_wait_for
    <3>3. phase' = "lost" => Len(changes) >= OutputMax
      BY <2>2, <3>2, PollersAssumption DEF Kqueue!set_wait_for
    <3> QED
      BY <2>1, <3>2, <3>3, PollersAssumption DEF LostInv
  <2>3. CASE Kqueue!EndRun \/ Kqueue!poll \/ Kqueue!PollThrows \/ Kqueue!KernelChanges
    <3>1. phase' \in {"run", "poll", "thrown"} \/ UNCHANGED <<phase, changes>>
      BY <2>3 DEF Kqueue!EndRun, Kqueue!poll, Kqueue!PollThrows, Kqueue!KernelChanges
    <3> QED
      BY <2>1, <3>1 DEF HeldInv, LostInv
  <2> QED
    BY <2>1, <2>2, <2>3, SameRegs DEF Kqueue!Next, HeldInv
<1>4. CASE UNCHANGED vars
  BY <1>4 DEF vars, HeldInv, LostInv, Poll!Count, Poll!Registered
<1> QED
  BY <1>1, <1>2, <1>3, <1>4 DEF Next

\* As many coroutines wait as there are registrations, at least.
LEMMA CountWaiters ==
  ASSUME HeldInv, IsFiniteSet(blocked), ksp = "poll"
  PROVE  Poll!Count <= Cardinality(blocked)
<1> DEFINE S == Poll!Registered
           f == [r \in S |-> waits[r]]
<1>1. S \subseteq Regs /\ \A r \in S : waits[r] # NULL
  BY DEF Poll!Registered, Regs
<1> HIDE DEF S
<1>2. f \in Injection(S, blocked)
  BY <1>1 DEF HeldInv, Injection, IsInjective
<1>3. Cardinality(S) <= Cardinality(blocked)
  BY <1>2, FS_Injection
<1> QED
  BY <1>3, SameCardinality DEF S, Poll!Count

\* The arrays of poll(2) and kqueue(2) run over only when more coroutines wait
\* than they have room for, whoever waited before, disciplined or not.
THEOREM OverrunsAreByWaiters == Spec => []OverrunsNeedWaiters
<1>1. Init => HeldInv /\ LostInv
  <2> SUFFICES ASSUME Init PROVE HeldInv /\ LostInv
    OBVIOUS
  <2>1. waits = [r \in Regs |-> NULL] /\ phase = "run"
    BY SameRegs DEF Init, Poll!Init, Select!Init, Kqueue!Init, Regs
  <2> QED
    BY <2>1 DEF HeldInv, LostInv
<1>2. Inv /\ FitInv /\ HeldInv /\ LostInv => OverrunsNeedWaiters
  <2> SUFFICES ASSUME Inv, FitInv, HeldInv, LostInv, phase = "lost"
               PROVE  OverrunsNeedWaiters
    BY DEF OverrunsNeedWaiters
  <2>1. Cardinality(blocked) \in Nat /\ Len(changes) \in Nat /\ Poll!Count \in Nat
    BY TypeFacts, FS_CardinalityType, LenProperties, SlotsNumber DEF FitInv, Inv
  <2>2. CASE ksp = "poll"
    BY <2>1, <2>2, CountWaiters, PollersAssumption
       DEF LostInv, FitInv, OverrunsNeedWaiters
  <2>3. CASE ksp = "kqueue"
    BY <2>1, <2>3, PollersAssumption
       DEF LostInv, FitInv, ChangesFit, OverrunsNeedWaiters
  <2> QED
    BY <2>2, <2>3, TypeFacts DEF Inv, OverrunsNeedWaiters
<1> QED
  BY <1>1, <1>2, OverrunStep, FitHolds, InvHolds, PTL DEF Spec
-----------------------------------------------------------------------------
(* Each backend keeps the contract of Poller.tla *)

LEMMA RegisteredType ==
  PollersTypeOK => Registered \in [Regs -> Coros \cup {NULL}]
BY ArmedType DEF Registered, PollersTypeOK, Regs

\* What a step of a backend is to the coroutines.
ContractStep ==
  \/ \E r \in Regs, c \in Coros :
       Contract!WaitFor(r, c) /\ (Disciplined => Registered[r] = NULL)
  \/ Contract!Poll
  \/ Contract!KernelChanges
  \/ UNCHANGED Contract!pvars

\* poll(2): a slot's revents are of the descriptor it was filled for.
LEMMA PollStepKeepsContract == Inv /\ PollStep => ContractStep
<1> SUFFICES ASSUME Inv, PollStep PROVE ContractStep
  OBVIOUS
<1>1. ksp = "poll" /\ ksp' = "poll"
  BY DEF PollStep
<1>2. Registered = waits /\ Registered' = waits'
  BY <1>1 DEF Registered
<1>3. CASE \E r \in Poll!Regs, c \in Coros : Poll!set_wait_for(r, c)
  BY <1>2, <1>3 DEF Poll!set_wait_for, ContractStep, Contract!WaitFor, Regs
<1>4. CASE Poll!poll
  <2>1. Poll!Served \subseteq {r \in Regs : Contract!Ready(r)}
    <3> SUFFICES ASSUME NEW r \in Poll!Served
                 PROVE  r \in Regs /\ waits[r] # NULL /\ r.dir \in ready[r.fd]
      BY <1>2 DEF Contract!Ready
    <3> QED
      BY DEF Poll!Served, Poll!Registered, Poll!Revents, Regs
  <2>2. Contract!Serve(Poll!Served)
    BY <1>2, <1>4, SameRegs DEF Poll!poll, Poll!Erased, Contract!Serve, Regs
  <2>3. Poll!Served \in SUBSET {r \in Contract!Regs : Contract!Ready(r)}
    BY <2>1, SameRegs
  <2> QED
    BY <2>2, <2>3 DEF Contract!Poll, ContractStep
<1>5. CASE Poll!EndRun \/ Poll!PollFails \/ Poll!PollOverruns
  BY <1>2, <1>5 DEF Poll!EndRun, Poll!PollFails, Poll!PollOverruns, ContractStep,
     Contract!pvars
<1>6. CASE Poll!KernelChanges
  <2>1. ready' \in [Fds -> SUBSET {"in", "out", "hup"}]
    BY <1>6, ReadyType DEF Inv, Poll!KernelChanges, Poll!Bits
  <2> QED
    BY <1>2, <1>6, <2>1 DEF Poll!KernelChanges, ContractStep, Contract!KernelChanges
<1> QED
  BY <1>3, <1>4, <1>5, <1>6 DEF PollStep, Poll!Next

\* select(2)
LEMMA SelectStepKeepsContract == Inv /\ SelectStep => ContractStep
<1> SUFFICES ASSUME Inv, SelectStep PROVE ContractStep
  OBVIOUS
<1>1. ksp = "select" /\ ksp' = "select"
  BY DEF SelectStep
<1>2. Registered = waits /\ Registered' = waits'
  BY <1>1 DEF Registered
<1>3. CASE \E r \in Select!Regs, c \in Coros : Select!set_wait_for(r, c)
  BY <1>2, <1>3, SameRegs DEF Select!set_wait_for, ContractStep, Contract!WaitFor
<1>4. CASE Select!poll
  <2>1. Select!Found \in SUBSET {r \in Contract!Regs : Contract!Ready(r)}
    BY <1>2, SameRegs DEF Select!Found, Select!IsSet, Contract!Ready
  <2>2. Contract!Serve(Select!Found)
    BY <1>2, <1>4, SameRegs DEF Select!poll, Contract!Serve
  <2> QED
    BY <2>1, <2>2 DEF Contract!Poll, ContractStep
<1>5. CASE Select!EndRun \/ Select!PollFails \/ Select!PollLost
  BY <1>2, <1>5 DEF Select!EndRun, Select!PollFails, Select!PollLost,
     ContractStep, Contract!pvars
<1>6. CASE Select!KernelChanges
  <2>1. ready' \in [Fds -> SUBSET {"in", "out", "hup"}]
    BY <1>6, ReadyType DEF Inv, Select!KernelChanges, Select!Bits
  <2> QED
    BY <1>2, <1>6, <2>1
       DEF Select!KernelChanges, ContractStep, Contract!KernelChanges
<1> QED
  BY <1>3, <1>4, <1>5, <1>6 DEF SelectStep, Select!Next

\* kqueue(2): what poll gives the kernel has been promised since set_wait_for.
LEMMA KqueueStepKeepsContract == Inv /\ Inv' /\ KqueueStep => ContractStep
<1> SUFFICES ASSUME Inv, Inv', KqueueStep PROVE ContractStep
  OBVIOUS
<1>1. ksp = "kqueue" /\ ksp' = "kqueue"
  BY DEF KqueueStep
<1>2. Registered = Kqueue!Armed /\ Registered' = Kqueue!Armed'
  BY <1>1 DEF Registered
<1>3. PollersTypeOK /\ PollersTypeOK'
  BY DEF Inv
<1>4. ASSUME changes' = <<>> PROVE Kqueue!Armed' = waits'
  <2>1. (waits \in [Regs -> Coros \cup {NULL}] /\ changes = <<>>)'
    BY <1>3, <1>4 DEF PollersTypeOK, Regs
  <2>2. (Kqueue!Armed = waits)'
    BY <2>1, ArmedWithoutChanges, PTL
  <2> QED
    BY <2>2
<1>5. ASSUME changes' = changes, waits' = waits PROVE Kqueue!Armed' = Kqueue!Armed
  BY <1>5 DEF Kqueue!Armed, Kqueue!ChangesOf
<1>6. CASE \E r \in Kqueue!Regs, c \in Coros : Kqueue!set_wait_for(r, c)
  <2>1. PICK r \in Regs, c \in Coros : Kqueue!set_wait_for(r, c)
    BY <1>6, SameRegs
  <2>2. Kqueue!Armed' = [Kqueue!Armed EXCEPT ![r] = c]
    BY <1>3, <2>1, ArmedAfterChange DEF Kqueue!set_wait_for
  <2> QED
    BY <1>2, <2>1, <2>2 DEF Kqueue!set_wait_for, ContractStep, Contract!WaitFor
<1>7. CASE Kqueue!poll
  <2>1. PICK S \in Kqueue!Taken :
          /\ waits' = [r \in Kqueue!Regs |-> IF r \in S THEN NULL ELSE Kqueue!Armed[r]]
          /\ blocked' = blocked \ {Kqueue!Armed[r] : r \in S}
    BY <1>7 DEF Kqueue!poll
  <2>2. S \in SUBSET {r \in Contract!Regs : Contract!Ready(r)}
    BY <1>2, SameRegs DEF Kqueue!Taken, Kqueue!Found, Contract!Ready
  <2>3. Registered' = waits' /\ ready' = ready
    BY <1>2, <1>4, <1>7 DEF Kqueue!poll, Kqueue!LeftOver
  <2>4. Contract!Serve(S)
    BY <1>2, <2>1, <2>3, SameRegs DEF Contract!Serve
  <2> QED
    BY <2>2, <2>4 DEF Contract!Poll, ContractStep
<1>8. CASE Kqueue!PollThrows
  BY <1>2, <1>4, <1>8 DEF Kqueue!PollThrows, Kqueue!LeftOver, ContractStep,
     Contract!pvars
<1>9. CASE Kqueue!EndRun
  BY <1>2, <1>5, <1>9 DEF Kqueue!EndRun, ContractStep, Contract!pvars
<1>10. CASE Kqueue!KernelChanges
  <2>1. ready' \in [Fds -> SUBSET {"in", "out", "hup"}]
    BY <1>3, <1>10, ReadyType DEF Kqueue!KernelChanges, Kqueue!Bits
  <2> QED
    BY <1>2, <1>5, <1>10, <2>1
       DEF Kqueue!KernelChanges, ContractStep, Contract!KernelChanges
<1> QED
  BY <1>6, <1>7, <1>8, <1>9, <1>10 DEF KqueueStep, Kqueue!Next

LEMMA StepKeepsContract == Inv /\ Inv' /\ [Next]_vars => ContractStep
<1>1. ASSUME UNCHANGED vars PROVE ContractStep
  BY <1>1 DEF vars, ContractStep, Contract!pvars, Registered, Kqueue!Armed,
     Kqueue!ChangesOf
<1> QED
  BY <1>1, PollStepKeepsContract, SelectStepKeepsContract, KqueueStepKeepsContract
     DEF Next

\* Every backend is a poller: whatever the kernel's interface, a poll wakes some
\* of the coroutines whose descriptors are ready and erases just their
\* registrations, and nothing else wakes one.
THEOREM BackendsArePollers == Spec => OnlyReadyAreWoken
<1>1. Init => Contract!Init
  <2> SUFFICES ASSUME Init PROVE Contract!Init
    OBVIOUS
  <2>1. /\ waits = [r \in Regs |-> NULL] /\ blocked = {} /\ changes = <<>>
        /\ ready \in [Fds -> SUBSET {"in", "out", "hup"}]
    BY SameRegs DEF Init, Poll!Init, Select!Init, Kqueue!Init, Poll!Bits,
       Select!Bits, Kqueue!Bits, Regs
  <2>2. Registered = waits
    BY <2>1, ArmedWithoutChanges DEF Registered
  <2> QED
    BY <2>1, <2>2, SameRegs DEF Contract!Init
<1>2. ContractStep => [Contract!Next]_(Contract!pvars)
  BY SameRegs DEF ContractStep, Contract!Next
<1> QED
  BY <1>1, <1>2, StepKeepsContract, InvHolds, PTL
     DEF Spec, OnlyReadyAreWoken, Contract!Safety
-----------------------------------------------------------------------------
(* A waiting coroutine and its registration *)

\* f registers each coroutine of B once, and nobody else.
Matches(f, B) ==
  /\ \A c : c \in B <=> \E r \in Regs : f[r] = c /\ f[r] # NULL
  /\ \A r, s \in Regs : f[r] # NULL /\ f[r] = f[s] => r = s

\* No registration is lost or doubled, in whatever state the poller is.
MatchInv == Matches(Registered, blocked)

\* A coroutine that does not wait takes a free registration.
LEMMA MatchesMore ==
  ASSUME NEW f \in [Regs -> Coros \cup {NULL}], NEW B, Matches(f, B),
         NEW r \in Regs, NEW c \in Coros, c \notin B, f[r] = NULL
  PROVE  Matches([f EXCEPT ![r] = c], B \cup {c})
BY PollersAssumption DEF Matches

\* Erasing registrations and waking their coroutines go together.
LEMMA MatchesLess ==
  ASSUME NEW f \in [Regs -> Coros \cup {NULL}], NEW B, Matches(f, B),
         NEW S, \A r \in S : r \in Regs /\ f[r] # NULL
  PROVE  Matches([r \in Regs |-> IF r \in S THEN NULL ELSE f[r]],
                 B \ {f[r] : r \in S})
<1> DEFINE g == [r \in Regs |-> IF r \in S THEN NULL ELSE f[r]]
<1>1. ASSUME NEW c, c \in B, c \notin {f[r] : r \in S}
      PROVE  \E r \in Regs : g[r] = c /\ g[r] # NULL
  BY <1>1 DEF Matches
<1>2. ASSUME NEW r \in Regs, g[r] # NULL
      PROVE  g[r] \in B /\ g[r] \notin {f[s] : s \in S}
  BY <1>2 DEF Matches
<1>3. \A r, s \in Regs : g[r] # NULL /\ g[r] = g[s] => r = s
  BY DEF Matches
<1> QED
  BY <1>1, <1>2, <1>3 DEF Matches

LEMMA MatchStep ==
  ASSUME Disciplined, Inv, MatchInv, ContractStep
  PROVE  MatchInv'
<1>1. Registered \in [Regs -> Coros \cup {NULL}]
  BY RegisteredType DEF Inv
<1>2. ASSUME NEW r \in Regs, NEW c \in Coros, Contract!WaitFor(r, c),
             Registered[r] = NULL
      PROVE  MatchInv'
  BY <1>1, <1>2, MatchesMore DEF MatchInv, Contract!WaitFor
<1>3. CASE Contract!Poll
  <2>1. PICK S \in SUBSET {r \in Regs : Contract!Ready(r)} : Contract!Serve(S)
    BY <1>3, SameRegs DEF Contract!Poll
  <2>2. \A r \in S : r \in Regs /\ Registered[r] # NULL
    BY DEF Contract!Ready
  <2>3. Matches([r \in Regs |-> IF r \in S THEN NULL ELSE Registered[r]],
                blocked \ {Registered[r] : r \in S})
    BY <1>1, <2>2, MatchesLess DEF MatchInv
  <2> QED
    BY <2>1, <2>3, SameRegs DEF Contract!Serve, MatchInv
<1>4. CASE Contract!KernelChanges \/ UNCHANGED Contract!pvars
  BY <1>4 DEF Contract!KernelChanges, Contract!pvars, MatchInv
<1> QED
  BY <1>2, <1>3, <1>4 DEF ContractStep

LEMMA MatchHolds == Disciplined => (Spec => []MatchInv)
<1> SUFFICES ASSUME Disciplined PROVE Spec => []MatchInv
  OBVIOUS
<1>1. Init => MatchInv
  <2> SUFFICES ASSUME Init PROVE MatchInv
    OBVIOUS
  <2>1. waits = [r \in Regs |-> NULL] /\ blocked = {} /\ changes = <<>>
    BY SameRegs DEF Init, Poll!Init, Select!Init, Kqueue!Init, Regs
  <2>2. Registered = waits
    BY <2>1, ArmedWithoutChanges DEF Registered
  <2> QED
    BY <2>1, <2>2 DEF MatchInv, Matches
<1>2. Inv /\ Inv' /\ MatchInv /\ [Next]_vars => MatchInv'
  BY StepKeepsContract, MatchStep
<1> QED
  BY <1>1, <1>2, InvHolds, PTL DEF Spec

\* Where nobody waits for what another waits for, each coroutine inside
\* wait_for_read or wait_for_write has exactly one registration, and there are
\* no others: none is lost, and none is left behind to wake a coroutine twice.
THEOREM WaitingIsRegistered == Disciplined => (Spec => []BlockedIsRegistered)
<1>1. MatchInv => BlockedIsRegistered
  <2> SUFFICES ASSUME MatchInv PROVE BlockedIsRegistered
    OBVIOUS
  <2> DEFINE R == {r \in Poll!Regs : Registered[r] # NULL}
  <2>1. blocked = {Registered[r] : r \in R}
    BY DEF MatchInv, Matches, Regs
  <2>2. \A r, s \in R : Registered[r] = Registered[s] => r = s
    BY DEF MatchInv, Matches, Regs
  <2> QED
    BY <2>1, <2>2 DEF BlockedIsRegistered
<1> QED
  BY <1>1, MatchHolds, PTL
-----------------------------------------------------------------------------
(* What a poll leaves behind *)

\* poll(2): a slot asks at least for what its registration waits for.
LEMMA PollServesReaders == Inv /\ ksp = "poll" => Poll!AllReadersServed
<1> SUFFICES ASSUME Inv, ksp = "poll", Poll!poll,
                    \A r \in Poll!Registered : r.dir \in ready[r.fd],
                    NEW r \in Poll!Registered, r.dir = "in"
             PROVE  waits'[r] = NULL
  BY DEF Poll!AllReadersServed
<1> DEFINE n == Poll!Count
<1>1. n \in Nat /\ n <= Size /\ Size \in Nat
  BY SlotsNumber, PollersAssumption DEF Poll!poll
<1>2. \A i \in 1..n : Poll!InSlot(i).dir \in Poll!Revents(i)
  BY <1>1, SlotsMatch DEF Poll!Revents, Poll!Filled
<1>3. Poll!PollResult = n
  <2>1. {i \in 1..n : Poll!Revents(i) # {}} = 1..n
    BY <1>2
  <2>2. Cardinality(1..n) = n
    BY <1>1, FS_Interval
  <2> QED
    BY <2>1, <2>2, SameCardinality DEF Poll!PollResult
<1>4. Poll!SlotOf(r) \in 1..n /\ Poll!InSlot(Poll!SlotOf(r)) = r
  BY SlotsMatch
<1> HIDE DEF n
<1>5. r \in Poll!Served
  BY <1>2, <1>3, <1>4 DEF Poll!Served
<1> QED
  BY <1>5 DEF Poll!poll, Poll!Erased, Poll!Served, Poll!Registered

\* kqueue(2): an event that does not fit is left behind by _output_max others.
LEMMA KqueueServesMany ==
  ASSUME Inv, Inv', MatchInv, FitInv, ksp = "kqueue", Kqueue!poll, ksp' = ksp
  PROVE  \/ \A r \in Due : Registered'[r] = NULL
         \/ Cardinality(blocked) - Cardinality(blocked') = OutputMax
<1>1. Registered = Kqueue!Armed /\ Registered' = Kqueue!Armed'
  BY DEF Registered
<1>2. Kqueue!Armed' = waits'
  <2>1. (waits \in [Regs -> Coros \cup {NULL}] /\ changes = <<>>)'
    BY DEF Inv, PollersTypeOK, Regs, Kqueue!poll, Kqueue!LeftOver
  <2>2. (Kqueue!Armed = waits)'
    BY <2>1, ArmedWithoutChanges, PTL
  <2> QED
    BY <2>2
<1>3. PICK S \in Kqueue!Taken :
        /\ waits' = [r \in Kqueue!Regs |-> IF r \in S THEN NULL ELSE Kqueue!Armed[r]]
        /\ blocked' = blocked \ {Kqueue!Armed[r] : r \in S}
  BY DEF Kqueue!poll
<1>4. CASE S = Kqueue!Found
  <2>1. Due \subseteq S
    BY <1>1, <1>4, SameRegs DEF Due, Kqueue!Found, Regs
  <2>2. \A r \in S : Registered'[r] = NULL
    BY <1>1, <1>2, <1>3, <1>4, SameRegs DEF Kqueue!Found
  <2> QED
    BY <2>1, <2>2
<1>5. CASE Cardinality(S) = OutputMax
  <2> DEFINE W == {Registered[r] : r \in S}
             f == [r \in S |-> Registered[r]]
  <2>1. \A r \in S : r \in Regs /\ Registered[r] # NULL
    BY <1>1, SameRegs DEF Kqueue!Taken, Kqueue!Found
  <2>2. f \in Bijection(S, W)
    <3>1. \A r, s \in S : f[r] = f[s] => r = s
      BY <2>1 DEF MatchInv, Matches
    <3> QED
      BY <3>1 DEF Bijection, Injection, Surjection, IsInjective
  <2>3. IsFiniteSet(S)
    <3>1. S \in SUBSET Regs
      BY <2>1
    <3> QED
      BY <3>1, RegsFinite, FS_Subset
  <2>4. Cardinality(W) = OutputMax
    BY <1>5, <2>2, <2>3, FS_Bijection DEF ExistsBijection
  <2>5. W \subseteq blocked
    BY <2>1 DEF MatchInv, Matches
  <2>6. blocked' = blocked \ W /\ blocked \cap W = W
    BY <1>1, <1>3, <2>5
  <2>7. Cardinality(blocked') = Cardinality(blocked) - OutputMax
    BY <2>4, <2>6, FS_Difference DEF FitInv
  <2>8. Cardinality(blocked) \in Nat
    BY FS_CardinalityType DEF FitInv
  <2> QED
    BY <2>7, <2>8, PollersAssumption
<1> QED
  BY <1>3, <1>4, <1>5, SameCardinality DEF Kqueue!Taken

\* No poll that returns forgets a ready registration: with select(2) none is
\* left, with kqueue(2) none as far as the events fit, and with poll(2) no
\* reader's when all are ready, whatever bits the slots have kept.
THEOREM ReadyAreNotLeft == Disciplined => (Spec => ReadyAreServed)
<1> SUFFICES ASSUME Disciplined PROVE Spec => ReadyAreServed
  OBVIOUS
<1> DEFINE Served ==
      /\ ksp = "poll" => Poll!AllReadersServed
      /\ ksp = "select" /\ Select!poll => \A r \in Due : Registered'[r] = NULL
      /\ ksp = "kqueue" /\ Kqueue!poll =>
           \/ \A r \in Due : Registered'[r] = NULL
           \/ Cardinality(blocked) - Cardinality(blocked') = OutputMax
<1>1. Inv /\ Inv' /\ MatchInv /\ FitInv /\ [Next]_vars => [Served]_vars
  <2> SUFFICES ASSUME Inv, Inv', MatchInv, FitInv, Next PROVE Served
    BY DEF vars
  <2>1. ksp' = ksp
    BY DEF Next, PollStep, SelectStep, KqueueStep
  <2>2. ASSUME ksp = "select", Select!poll
        PROVE  \A r \in Due : Registered'[r] = NULL
    <3>1. Registered = waits /\ Registered' = waits'
      BY <2>1, <2>2 DEF Registered
    <3>2. Due \subseteq Select!Found
      BY <3>1, SameRegs DEF Due, Select!Found, Select!IsSet, Regs
    <3> QED
      BY <2>2, <3>1, <3>2 DEF Select!poll, Select!Found
  <2> QED
    BY <2>1, <2>2, PollServesReaders, KqueueServesMany
<1> QED
  BY <1>1, FitHolds, MatchHolds, InvHolds, PTL DEF Spec, ReadyAreServed
=============================================================================
