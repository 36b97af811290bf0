--------------------------- MODULE RepliesProofs ---------------------------
(***************************************************************************)
(* Theorems about what the peers of Sessions.tla are told: replies arrive  *)
(* whole, each command gets its own, and an accepted MAIL stays accepted.  *)
(***************************************************************************)
EXTENDS SessionsProofs

-----------------------------------------------------------------------------
(* Sequences, element by element *)

\* t is a and then b.
Cat(t, a, b) ==
  /\ Len(a) \in Nat /\ Len(b) \in Nat /\ Len(t) = Len(a) + Len(b)
  /\ DOMAIN a = 1..Len(a) /\ DOMAIN b = 1..Len(b) /\ DOMAIN t = 1..(Len(a) + Len(b))
  /\ \A i \in 1..Len(a) : t[i] = a[i]
  /\ \A i \in 1..Len(b) : t[Len(a) + i] = b[i]

LEMMA Concatenated ==
  ASSUME NEW S, NEW a \in Seq(S), NEW b \in Seq(S)
  PROVE  a \o b \in Seq(S) /\ Cat(a \o b, a, b)
<1> DEFINE t == a \o b
<1>1. /\ t \in Seq(S) /\ Len(t) = Len(a) + Len(b)
      /\ \A i \in 1..Len(a) + Len(b) :
           t[i] = IF i <= Len(a) THEN a[i] ELSE b[i - Len(a)]
  BY ConcatProperties
<1>2. /\ Len(a) \in Nat /\ Len(b) \in Nat /\ Len(t) \in Nat
      /\ DOMAIN a = 1..Len(a) /\ DOMAIN b = 1..Len(b) /\ DOMAIN t = 1..Len(t)
  BY <1>1, LenProperties
<1> HIDE DEF t
<1>3. ASSUME NEW i \in 1..Len(b) PROVE t[Len(a) + i] = b[i]
  <2>1. /\ Len(a) + i \in 1..Len(a) + Len(b) /\ ~(Len(a) + i <= Len(a))
        /\ (Len(a) + i) - Len(a) = i
    BY <1>2
  <2> QED
    BY <1>1, <2>1
<1>4. ASSUME NEW i \in 1..Len(a) PROVE t[i] = a[i]
  <2>1. i \in 1..Len(a) + Len(b) /\ i <= Len(a)
    BY <1>2
  <2> QED
    BY <1>1, <2>1
<1>5. Cat(t, a, b)
  BY <1>1, <1>2, <1>3, <1>4 DEF Cat
<1> QED
  BY <1>1, <1>5 DEF t

\* What is left after the first element.
LEMMA Rests ==
  ASSUME NEW S, NEW t \in Seq(S), t # <<>>
  PROVE  /\ Tail(t) \in Seq(S) /\ Head(t) = t[1] /\ t[1] \in S
         /\ Len(t) \in Nat \ {0} /\ Len(Tail(t)) = Len(t) - 1
         /\ DOMAIN t = 1..Len(t) /\ DOMAIN Tail(t) = 1..Len(t) - 1
         /\ \A i \in 1..Len(t) - 1 : Tail(t)[i] = t[i + 1]
<1>1. /\ Tail(t) \in Seq(S) /\ Len(Tail(t)) = Len(t) - 1 /\ Head(t) \in S
      /\ \A i \in 1..Len(Tail(t)) : Tail(t)[i] = t[i + 1]
  BY HeadTailProperties
<1>2. Len(t) \in Nat \ {0} /\ DOMAIN t = 1..Len(t)
  BY EmptySeq, LenProperties
<1>3. DOMAIN Tail(t) = 1..Len(Tail(t))
  BY <1>1, LenProperties
<1>4. Head(t) = t[1]
  BY <1>2
<1> QED
  BY <1>1, <1>2, <1>3, <1>4

-----------------------------------------------------------------------------
(* What a sequence asks for *)

\* Commands that keep their order wherever they are moved are the same ones.
LEMMA Moved ==
  ASSUME NEW s, NEW t, NEW u, AsksFor(t, s), NEW h \in [Asks(t) -> Asks(u)],
         \A i, j \in Asks(t) : i < j => h[i] < h[j],
         \A k \in Asks(u) : \E i \in Asks(t) : h[i] = k,
         \A i \in Asks(t) : u[h[i]] = t[i]
  PROVE  AsksFor(u, s)
<1>1. PICK f \in [DOMAIN s -> Asks(t)] :
        /\ \A i, j \in DOMAIN s : i < j => f[i] < f[j]
        /\ \A k \in Asks(t) : \E i \in DOMAIN s : f[i] = k
        /\ \A i \in DOMAIN s : s[i] = t[f[i]]
  BY DEF AsksFor
<1> DEFINE g == [i \in DOMAIN s |-> h[f[i]]]
<1>2. g \in [DOMAIN s -> Asks(u)] /\ \A i \in DOMAIN s : g[i] = h[f[i]]
  OBVIOUS
<1> HIDE DEF g
<1>3. \A i, j \in DOMAIN s : i < j => g[i] < g[j]
  BY <1>1, <1>2
<1>4. \A k \in Asks(u) : \E i \in DOMAIN s : g[i] = k
  BY <1>1, <1>2
<1>5. \A i \in DOMAIN s : s[i] = u[g[i]]
  BY <1>1, <1>2
<1> QED
  BY <1>2, <1>3, <1>4, <1>5 DEF AsksFor

\* u is t, of N elements, with R more after the first A.
Spliced(t, u, A, N, R) ==
  /\ A \in Nat /\ N \in Nat /\ R \in Nat /\ A <= N
  /\ DOMAIN t = 1..N /\ DOMAIN u = 1..N + R
  /\ \A i \in 1..A : u[i] = t[i]
  /\ \A i \in A + 1..N : u[i + R] = t[i]

\* Those R elements, where they ask for nothing,
Silent(u, A, R) == \A i \in A + 1..A + R : u[i] \in {"part", "shake", "end"}

\* may come
LEMMA Inserted ==
  ASSUME NEW t, NEW u, NEW A, NEW N, NEW R, NEW s, Spliced(t, u, A, N, R),
         Silent(u, A, R), AsksFor(t, s)
  PROVE  AsksFor(u, s)
<1> DEFINE h == [i \in Asks(t) |-> IF i <= A THEN i ELSE i + R]
<1>1. ASSUME NEW i \in Asks(t)
      PROVE  i \in 1..N /\ h[i] \in Asks(u) /\ u[h[i]] = t[i]
  <2>1. i \in 1..N /\ t[i] \notin {"part", "shake", "end"}
    BY DEF Spliced, Asks
  <2>2. CASE i <= A
    <3>1. i \in 1..A /\ h[i] = i /\ i \in 1..N + R
      BY <2>1, <2>2 DEF Spliced
    <3> HIDE DEF h
    <3> QED
      BY <2>1, <3>1 DEF Spliced, Asks
  <2>3. CASE ~(i <= A)
    <3>1. i \in A + 1..N /\ h[i] = i + R /\ i + R \in 1..N + R
      BY <2>1, <2>3 DEF Spliced
    <3> HIDE DEF h
    <3> QED
      BY <2>1, <3>1 DEF Spliced, Asks
  <2> QED
    BY <2>2, <2>3
<1>2. \A i, j \in Asks(t) : i < j => h[i] < h[j]
  BY <1>1 DEF Spliced
<1>3. ASSUME NEW m \in Asks(u) PROVE \E i \in Asks(t) : h[i] = m
  <2>1. m \in 1..N + R /\ u[m] \notin {"part", "shake", "end"}
    BY DEF Spliced, Asks
  <2>2. CASE m <= A
    <3>1. m \in 1..A /\ m \in 1..N
      BY <2>1, <2>2 DEF Spliced
    <3>2. m \in Asks(t)
      BY <2>1, <3>1 DEF Spliced, Asks
    <3> QED
      BY <2>2, <3>2
  <2>3. CASE ~(m <= A)
    <3>1. ~(m <= A + R)
      BY <2>1, <2>3 DEF Spliced, Silent
    <3> DEFINE i == m - R
    <3>2. i \in A + 1..N /\ i \in 1..N /\ m = i + R /\ ~(i <= A)
      BY <2>1, <3>1 DEF Spliced
    <3> HIDE DEF i
    <3>3. i \in Asks(t)
      BY <2>1, <3>2 DEF Spliced, Asks
    <3> QED
      BY <3>2, <3>3
  <2> QED
    BY <2>2, <2>3
<1>4. h \in [Asks(t) -> Asks(u)]
  BY <1>1
<1> HIDE DEF h
<1> QED
  BY <1>1, <1>2, <1>3, <1>4, Moved

\* and go.
LEMMA Removed ==
  ASSUME NEW t, NEW u, NEW A, NEW N, NEW R, NEW s, Spliced(t, u, A, N, R),
         Silent(u, A, R), AsksFor(u, s)
  PROVE  AsksFor(t, s)
<1> DEFINE h == [i \in Asks(u) |-> IF i <= A THEN i ELSE i - R]
<1>1. ASSUME NEW i \in Asks(u)
      PROVE  /\ i \in 1..N + R /\ (i <= A \/ A + R < i)
             /\ h[i] \in Asks(t) /\ t[h[i]] = u[i]
  <2>1. i \in 1..N + R /\ u[i] \notin {"part", "shake", "end"}
    BY DEF Spliced, Asks
  <2>2. CASE i <= A
    <3>1. i \in 1..A /\ h[i] = i /\ i \in 1..N
      BY <2>1, <2>2 DEF Spliced
    <3> HIDE DEF h
    <3> QED
      BY <2>1, <2>2, <3>1 DEF Spliced, Asks
  <2>3. CASE ~(i <= A)
    <3>1. ~(i <= A + R)
      BY <2>1, <2>3 DEF Spliced, Silent
    <3> DEFINE j == i - R
    <3>2. j \in A + 1..N /\ j \in 1..N /\ i = j + R /\ h[i] = j
      BY <2>1, <2>3, <3>1 DEF Spliced
    <3> HIDE DEF j, h
    <3>3. j \in Asks(t) /\ t[j] = u[i]
      BY <2>1, <3>2 DEF Spliced, Asks
    <3>4. A + R < i
      BY <2>1, <3>1 DEF Spliced
    <3> QED
      BY <2>1, <3>2, <3>3, <3>4
  <2> QED
    BY <2>2, <2>3
<1>2. \A i, j \in Asks(u) : i < j => h[i] < h[j]
  BY <1>1 DEF Spliced
<1>3. ASSUME NEW m \in Asks(t) PROVE \E i \in Asks(u) : h[i] = m
  <2>1. m \in 1..N /\ t[m] \notin {"part", "shake", "end"}
    BY DEF Spliced, Asks
  <2>2. CASE m <= A
    <3>1. m \in 1..A /\ m \in 1..N + R
      BY <2>1, <2>2 DEF Spliced
    <3>2. m \in Asks(u)
      BY <2>1, <3>1 DEF Spliced, Asks
    <3> QED
      BY <2>2, <3>2
  <2>3. CASE ~(m <= A)
    <3> DEFINE i == m + R
    <3>1. i \in 1..N + R /\ m \in A + 1..N /\ ~(i <= A) /\ m = i - R /\ i = m + R
      BY <2>1, <2>3 DEF Spliced
    <3> HIDE DEF i
    <3>2. i \in Asks(u)
      BY <2>1, <3>1 DEF Spliced, Asks
    <3> QED
      BY <3>1, <3>2
  <2> QED
    BY <2>2, <2>3
<1>4. h \in [Asks(u) -> Asks(t)]
  BY <1>1
<1> HIDE DEF h
<1> QED
  BY <1>1, <1>2, <1>3, <1>4, Moved

\* u is t without its first element.
Rest1(t, u) ==
  \E n \in Nat \ {0} :
    /\ DOMAIN t = 1..n /\ DOMAIN u = 1..n - 1
    /\ \A i \in 1..n - 1 : u[i] = t[i + 1]

\* It asks for the same, if that asks for nothing,
LEMMA SkipsFirst ==
  ASSUME NEW t, NEW u, NEW s, Rest1(t, u), t[1] \in {"part", "shake", "end"}, AsksFor(t, s)
  PROVE  AsksFor(u, s)
<1>1. PICK n \in Nat \ {0} :
        /\ DOMAIN t = 1..n /\ DOMAIN u = 1..n - 1
        /\ \A i \in 1..n - 1 : u[i] = t[i + 1]
  BY DEF Rest1
<1>2. Spliced(u, t, 0, n - 1, 1) /\ Silent(t, 0, 1)
  BY <1>1 DEF Spliced, Silent
<1> QED
  BY <1>2, Removed

\* and without a command and the reply to it, if that is one.
LEMMA TakesFirst ==
  ASSUME NEW t, NEW u, NEW S, NEW s \in Seq(S), Rest1(t, u),
         t[1] \notin {"part", "shake", "end"}, AsksFor(t, s)
  PROVE  s # <<>> /\ AsksFor(u, Tail(s))
<1> DEFINE r == Tail(s)
<1>1. PICK n \in Nat \ {0} :
        /\ DOMAIN t = 1..n /\ DOMAIN u = 1..n - 1
        /\ \A i \in 1..n - 1 : u[i] = t[i + 1]
  BY DEF Rest1
<1>2. PICK f \in [DOMAIN s -> Asks(t)] :
        /\ \A i, j \in DOMAIN s : i < j => f[i] < f[j]
        /\ \A k \in Asks(t) : \E i \in DOMAIN s : f[i] = k
        /\ \A i \in DOMAIN s : s[i] = t[f[i]]
  BY DEF AsksFor
<1>3. 1 \in Asks(t) /\ \A k \in Asks(t) : k \in 1..n
  BY <1>1 DEF Asks
<1>4. s # <<>>
  BY <1>2, <1>3
<1>5. /\ Len(s) \in Nat \ {0} /\ DOMAIN s = 1..Len(s)
      /\ DOMAIN r = 1..Len(s) - 1
      /\ \A i \in 1..Len(s) - 1 : r[i] = s[i + 1]
  BY <1>4, Rests
<1> HIDE DEF r
<1>6. f[1] = 1
  <2>1. PICK i \in 1..Len(s) : f[i] = 1
    BY <1>2, <1>3, <1>5
  <2>2. i # 1 => f[1] < f[i]
    BY <1>2, <1>5
  <2>3. f[1] \in 1..n
    BY <1>2, <1>3, <1>5
  <2> QED
    BY <2>1, <2>2, <2>3
<1> DEFINE g == [i \in DOMAIN r |-> f[i + 1] - 1]
<1>7. ASSUME NEW i \in DOMAIN r
      PROVE  /\ i + 1 \in 1..Len(s) /\ f[i + 1] \in Asks(t) /\ f[i + 1] \in 2..n
             /\ f[i + 1] - 1 \in Asks(u) /\ u[f[i + 1] - 1] = t[f[i + 1]]
  <2>1. i + 1 \in 1..Len(s) /\ 1 \in 1..Len(s) /\ 1 < i + 1
    BY <1>5
  <2>2. f[i + 1] \in Asks(t) /\ f[1] < f[i + 1]
    BY <1>2, <1>5, <2>1
  <2>3. f[i + 1] \in 2..n
    BY <1>3, <1>6, <2>2
  <2> DEFINE j == f[i + 1]
  <2> HIDE DEF j
  <2>4. j \in 2..n => j - 1 \in 1..n - 1 /\ u[j - 1] = t[(j - 1) + 1] /\ (j - 1) + 1 = j
    BY <1>1
  <2>5. j \in 2..n => j - 1 \in DOMAIN u /\ u[j - 1] = t[j]
    BY <1>1, <2>4
  <2>6. j \in 2..n /\ t[j] \notin {"part", "shake", "end"}
    BY <2>2, <2>3 DEF Asks, j
  <2>7. j - 1 \in Asks(u) /\ u[j - 1] = t[j]
    BY <2>5, <2>6 DEF Asks
  <2> QED
    BY <2>1, <2>2, <2>3, <2>7 DEF j
<1>8. g \in [DOMAIN r -> Asks(u)]
  BY <1>7
<1>9. \A i \in DOMAIN r : r[i] = u[g[i]]
  <2> SUFFICES ASSUME NEW i \in DOMAIN r PROVE r[i] = u[f[i + 1] - 1]
    OBVIOUS
  <2>1. r[i] = s[i + 1] /\ s[i + 1] = t[f[i + 1]]
    BY <1>2, <1>5, <1>7
  <2> QED
    BY <1>7, <2>1
<1>10. \A i, j \in DOMAIN r : i < j => g[i] < g[j]
  <2> SUFFICES ASSUME NEW i \in DOMAIN r, NEW j \in DOMAIN r, i < j
               PROVE  f[i + 1] - 1 < f[j + 1] - 1
    OBVIOUS
  <2>1. i + 1 < j + 1 /\ i + 1 \in DOMAIN s /\ j + 1 \in DOMAIN s
    BY <1>5, <1>7
  <2>2. f[i + 1] < f[j + 1]
    BY <1>2, <2>1
  <2> QED
    BY <1>7, <2>2
<1>11. ASSUME NEW m \in Asks(u) PROVE \E i \in DOMAIN r : g[i] = m
  <2>1. m \in 1..n - 1 /\ u[m] \notin {"part", "shake", "end"}
    BY <1>1 DEF Asks
  <2>2. m + 1 \in 1..n /\ u[m] = t[m + 1]
    BY <1>1, <2>1
  <2>3. m + 1 \in Asks(t)
    BY <1>1, <2>1, <2>2 DEF Asks
  <2>4. PICK j \in 1..Len(s) : f[j] = m + 1
    BY <1>2, <1>5, <2>3
  <2>5. j # 1
    BY <1>6, <2>1, <2>4
  <2>6. j - 1 \in DOMAIN r /\ (j - 1) + 1 = j
    BY <1>5, <2>4, <2>5
  <2>7. f[(j - 1) + 1] - 1 = m
    BY <2>1, <2>4, <2>6
  <2> QED
    BY <2>6, <2>7
<1> HIDE DEF g
<1>12. AsksFor(u, r)
  BY <1>8, <1>9, <1>10, <1>11 DEF AsksFor
<1> QED
  BY <1>4, <1>12 DEF r

\* u is t with w after it.
Plus1(t, u, w) ==
  \E n \in Nat :
    /\ DOMAIN t = 1..n /\ DOMAIN u = 1..n + 1
    /\ (\A i \in 1..n : u[i] = t[i]) /\ u[n + 1] = w

\* It asks for w, too.
LEMMA AddsLast ==
  ASSUME NEW t, NEW u, NEW S, NEW s \in Seq(S), NEW w \in S, Plus1(t, u, w),
         w \notin {"part", "shake", "end"}, AsksFor(t, s)
  PROVE  AsksFor(u, Append(s, w))
<1> DEFINE r == Append(s, w)
<1>1. PICK n \in Nat :
        /\ DOMAIN t = 1..n /\ DOMAIN u = 1..n + 1
        /\ (\A i \in 1..n : u[i] = t[i]) /\ u[n + 1] = w
  BY DEF Plus1
<1>2. /\ Len(s) \in Nat /\ DOMAIN s = 1..Len(s) /\ DOMAIN r = 1..Len(s) + 1
      /\ (\A i \in 1..Len(s) : r[i] = s[i]) /\ r[Len(s) + 1] = w
  OBVIOUS
<1> HIDE DEF r
<1>3. PICK f \in [DOMAIN s -> Asks(t)] :
        /\ \A i, j \in DOMAIN s : i < j => f[i] < f[j]
        /\ \A k \in Asks(t) : \E i \in DOMAIN s : f[i] = k
        /\ \A i \in DOMAIN s : s[i] = t[f[i]]
  BY DEF AsksFor
<1>4. /\ \A k \in Asks(t) : k \in 1..n /\ k \in Asks(u) /\ u[k] = t[k]
      /\ n + 1 \in Asks(u)
      /\ \A k \in Asks(u) : k = n + 1 \/ k \in Asks(t)
  BY <1>1 DEF Asks
<1> DEFINE g == [i \in DOMAIN r |-> IF i = Len(s) + 1 THEN n + 1 ELSE f[i]]
<1>5. /\ g \in [DOMAIN r -> Asks(u)] /\ g[Len(s) + 1] = n + 1
      /\ \A i \in DOMAIN s : i \in DOMAIN r /\ g[i] = f[i] /\ g[i] \in 1..n
      /\ \A i \in DOMAIN r : i = Len(s) + 1 \/ i \in DOMAIN s
  BY <1>2, <1>3, <1>4
<1> HIDE DEF g
<1>6. \A i, j \in DOMAIN r : i < j => g[i] < g[j]
  BY <1>1, <1>2, <1>3, <1>5
<1>7. \A k \in Asks(u) : \E i \in DOMAIN r : g[i] = k
  <2> SUFFICES ASSUME NEW k \in Asks(u) PROVE \E i \in DOMAIN r : g[i] = k
    OBVIOUS
  <2>1. CASE k = n + 1
    BY <1>2, <1>5, <2>1
  <2>2. CASE k \in Asks(t)
    BY <1>3, <1>5, <2>2
  <2> QED
    BY <1>4, <2>1, <2>2
<1>8. \A i \in DOMAIN r : r[i] = u[g[i]]
  BY <1>1, <1>2, <1>3, <1>4, <1>5
<1>9. AsksFor(u, r)
  BY <1>5, <1>6, <1>7, <1>8 DEF AsksFor
<1> QED
  BY <1>9 DEF r

-----------------------------------------------------------------------------
(* Units that follow on each other *)

LEMMA AfterLast ==
  Length % Length = 0 /\ \A i \in 1..Length - 1 : i % Length = i
BY SocketsAssumption

\* Units of replies with none of a reply between them.
Neighbours(t, k, l) ==
  /\ k \in DOMAIN t /\ l \in DOMAIN t /\ k < l /\ t[k] # 0 /\ t[l] # 0
  /\ \A j \in k + 1..l - 1 : t[j] = 0

LEMMA FollowsOn ==
  ASSUME NEW t, NEW k, NEW l, Consecutive(t), Neighbours(t, k, l)
  PROVE  t[l] = (t[k] % Length) + 1
BY DEF Consecutive, Neighbours

\* A unit of no reply comes between.
LEMMA ZeroInserted ==
  ASSUME NEW t, NEW u, NEW A, NEW N, Spliced(t, u, A, N, 1), u[A + 1] = 0,
         Consecutive(t)
  PROVE  Consecutive(u)
<1>1. /\ A \in Nat /\ N \in Nat /\ A <= N
      /\ DOMAIN t = 1..N /\ DOMAIN u = 1..N + 1
      /\ \A i \in 1..A : u[i] = t[i]
      /\ \A i \in A + 1..N : u[i + 1] = t[i]
  BY DEF Spliced
<1> SUFFICES ASSUME NEW k \in 1..N + 1, NEW l \in 1..N + 1, k < l, u[k] # 0, u[l] # 0,
                    \A j \in k + 1..l - 1 : u[j] = 0
             PROVE  u[l] = (u[k] % Length) + 1
  BY <1>1 DEF Consecutive
<1> DEFINE K == IF k <= A THEN k ELSE k - 1
           M == IF l <= A THEN l ELSE l - 1
<1>2. k # A + 1 /\ l # A + 1
  BY <1>1
<1>3. ASSUME NEW m \in 1..N + 1, m # A + 1, ~(m <= A)
      PROVE  m - 1 \in 1..N /\ t[m - 1] = u[m]
  <2>1. m - 1 \in A + 1..N /\ (m - 1) + 1 = m
    BY <1>1, <1>3
  <2>2. u[m] = t[m - 1]
    BY <1>1, <2>1
  <2> QED
    BY <1>1, <2>1, <2>2
<1>4. K \in 1..N /\ t[K] = u[k]
  <2>1. CASE k <= A
    BY <1>1, <2>1
  <2>2. CASE ~(k <= A)
    BY <1>2, <1>3, <2>2
  <2> QED
    BY <2>1, <2>2
<1>5. M \in 1..N /\ t[M] = u[l]
  <2>1. CASE l <= A
    BY <1>1, <2>1
  <2>2. CASE ~(l <= A)
    BY <1>2, <1>3, <2>2
  <2> QED
    BY <2>1, <2>2
<1>6. K < M
  BY <1>1, <1>2
<1>7. ASSUME NEW j \in K + 1..M - 1 PROVE t[j] = 0
  <2>1. CASE j <= A
    <3>1. j \in 1..A /\ j \in k + 1..l - 1
      BY <1>1, <1>2, <1>4, <1>5, <2>1
    <3> QED
      BY <1>1, <3>1
  <2>2. CASE ~(j <= A)
    <3>1. j \in A + 1..N /\ j + 1 \in k + 1..l - 1
      BY <1>1, <1>2, <1>4, <1>5, <2>2
    <3> QED
      BY <1>1, <3>1
  <2> QED
    BY <2>1, <2>2
<1> HIDE DEF K, M
<1>8. Neighbours(t, K, M)
  BY <1>1, <1>4, <1>5, <1>6, <1>7 DEF Neighbours
<1>9. t[M] = (t[K] % Length) + 1
  BY <1>8, FollowsOn
<1> QED
  BY <1>4, <1>5, <1>9

\* Where t ends with p, u has R units from p on, and the one after them.
Ran(t, u, A, R) ==
  LET p == t[A + 1]
  IN  /\ A \in Nat /\ R \in Nat \ {0} /\ p \in 1..Length /\ p + R <= Length + 1
      /\ DOMAIN t = 1..A + 1 /\ DOMAIN u = 1..A + R + 1
      /\ \A i \in 1..A : u[i] = t[i]
      /\ \A i \in 1..R : u[A + i] = p + i - 1
      /\ u[A + R + 1] = IF p + R <= Length THEN p + R ELSE 1

\* write writes them.
LEMMA RunWritten ==
  ASSUME NEW t, NEW u, NEW A, NEW R, Ran(t, u, A, R), Consecutive(t)
  PROVE  Consecutive(u)
<1> DEFINE p == t[A + 1]
<1>1. /\ A \in Nat /\ R \in Nat \ {0} /\ p \in 1..Length /\ p + R <= Length + 1
      /\ Length \in Nat \ {0}
      /\ DOMAIN t = 1..A + 1 /\ DOMAIN u = 1..A + R + 1
      /\ \A i \in 1..A : u[i] = t[i]
      /\ t[A + 1] = p
      /\ \A i \in 1..R : u[A + i] = p + i - 1
      /\ u[A + R + 1] = IF p + R <= Length THEN p + R ELSE 1
  BY SocketsAssumption DEF Ran
<1> HIDE DEF p
<1> SUFFICES ASSUME NEW k \in 1..A + R + 1, NEW l \in 1..A + R + 1, k < l,
                    u[k] # 0, u[l] # 0, \A j \in k + 1..l - 1 : u[j] = 0
             PROVE  u[l] = (u[k] % Length) + 1
  BY <1>1 DEF Consecutive
<1>2. CASE l <= A + 1
  <2>1. k \in 1..A /\ u[k] = t[k] /\ u[A + 1] = p
    BY <1>1, <1>2
  <2>2. l \in 1..A + 1 /\ u[l] = t[l]
    <3>1. CASE l = A + 1
      <4>1. u[A + 1] = t[A + 1]
        BY <1>1, <2>1
      <4> QED
        BY <1>1, <3>1, <4>1
    <3>2. CASE l # A + 1
      BY <1>1, <1>2, <3>2
    <3> QED
      BY <3>1, <3>2
  <2>3. \A j \in k + 1..l - 1 : t[j] = 0
    BY <1>1, <1>2
  <2>4. k \in 1..A + 1 /\ t[k] # 0 /\ t[l] # 0
    BY <1>1, <2>1, <2>2
  <2>5. Neighbours(t, k, l)
    BY <1>1, <2>2, <2>3, <2>4 DEF Neighbours
  <2>6. t[l] = (t[k] % Length) + 1
    BY <2>5, FollowsOn
  <2> QED
    BY <2>1, <2>2, <2>6
<1>3. CASE A + 1 < l
  <2>1. k = l - 1
    <3> SUFFICES ASSUME k # l - 1 PROVE FALSE
      OBVIOUS
    <3> DEFINE j == l - 1
               i == j - A
    <3>1. j \in k + 1..l - 1 /\ i \in 1..R /\ j = A + i
      BY <1>1, <1>3
    <3> HIDE DEF i, j
    <3>2. u[j] = p + i - 1
      BY <1>1, <3>1
    <3> QED
      BY <1>1, <3>1, <3>2
  <2> DEFINE i == k - A
  <2>2. i \in 1..R /\ k = A + i
    BY <1>1, <1>3, <2>1
  <2> HIDE DEF i
  <2>3. u[k] = p + i - 1
    BY <1>1, <2>2
  <2>4. CASE i < R
    <3>1. i + 1 \in 1..R /\ l = A + (i + 1)
      BY <1>1, <2>1, <2>2, <2>4
    <3>2. u[l] = p + (i + 1) - 1
      BY <1>1, <3>1
    <3>3. u[k] \in 1..Length - 1 /\ u[l] = u[k] + 1
      BY <1>1, <2>2, <2>3, <2>4, <3>2
    <3> QED
      BY <3>3, AfterLast
  <2>5. CASE i = R
    <3>1. l = A + R + 1 /\ u[k] = p + R - 1
      BY <1>1, <2>1, <2>2, <2>3, <2>5
    <3>2. CASE p + R <= Length
      <4>1. u[l] = p + R /\ u[k] \in 1..Length - 1 /\ u[l] = u[k] + 1
        BY <1>1, <3>1, <3>2
      <4> QED
        BY <4>1, AfterLast
    <3>3. CASE ~(p + R <= Length)
      <4>1. u[l] = 1 /\ u[k] = Length
        BY <1>1, <3>1, <3>3
      <4> QED
        BY <4>1, AfterLast
    <3> QED
      BY <3>2, <3>3
  <2> QED
    BY <1>1, <2>2, <2>4, <2>5
<1> QED
  BY <1>1, <1>2, <1>3

\* The peer takes the first unit of t, after which u is.
Took(t, u) ==
  \E n \in Nat \ {0, 1} :
    /\ DOMAIN t = 1..n /\ DOMAIN u = 1..n - 1 /\ u[1] = IF t[2] = 0 THEN t[1] ELSE t[2]
    /\ \A i \in 2..n - 1 : u[i] = t[i + 1]

LEMMA UnitTaken ==
  ASSUME NEW t, NEW u, Took(t, u), Consecutive(t)
  PROVE  Consecutive(u)
<1>0. PICK n \in Nat \ {0, 1} :
        /\ DOMAIN t = 1..n /\ DOMAIN u = 1..n - 1
        /\ u[1] = IF t[2] = 0 THEN t[1] ELSE t[2]
        /\ \A i \in 2..n - 1 : u[i] = t[i + 1]
  BY DEF Took
<1> SUFFICES ASSUME NEW k \in 1..n - 1, NEW l \in 1..n - 1, k < l, u[k] # 0, u[l] # 0,
                    \A j \in k + 1..l - 1 : u[j] = 0
             PROVE  u[l] = (u[k] % Length) + 1
  BY <1>0 DEF Consecutive
<1> DEFINE K == IF k = 1 /\ t[2] = 0 THEN 1 ELSE k + 1
<1>1. K \in 1..n /\ t[K] = u[k] /\ K < l + 1
  <2>1. CASE k = 1
    BY <1>0, <2>1
  <2>2. CASE k # 1
    BY <1>0, <2>2
  <2> QED
    BY <2>1, <2>2
<1>2. l + 1 \in 1..n /\ t[l + 1] = u[l]
  BY <1>0
<1>3. ASSUME NEW j \in K + 1..(l + 1) - 1 PROVE t[j] = 0
  <2>1. CASE j = 2
    <3>1. k = 1 /\ t[2] = 0
      BY <1>0, <2>1
    <3> QED
      BY <2>1, <3>1
  <2>2. CASE j # 2
    <3>1. j - 1 \in 2..n - 1 /\ (j - 1) + 1 = j /\ j - 1 \in k + 1..l - 1
      BY <1>0, <1>1, <2>2
    <3>2. u[j - 1] = t[j]
      BY <1>0, <3>1
    <3> QED
      BY <3>1, <3>2
  <2> QED
    BY <2>1, <2>2
<1> HIDE DEF K
<1> DEFINE m == l + 1
<1>4. t[m] = u[l] /\ Neighbours(t, K, m)
  BY <1>0, <1>1, <1>2, <1>3 DEF Neighbours
<1> HIDE DEF m
<1>5. t[m] = (t[K] % Length) + 1
  BY <1>4, FollowsOn
<1> QED
  BY <1>1, <1>4, <1>5

-----------------------------------------------------------------------------
(* The sequences of which the properties speak *)

Words == SmtpCommands \cup {"line", "hello", "shake", "end"}
Told == [i : 0..Length, to : Words, code : Codes]

\* What may be between two of them.
Maybe(n, w) == IF n = 1 THEN <<w>> ELSE <<>>

\* t is the ends of what is in o, with w after them or not, and b.
Laid(t, o, n, w, b) ==
  /\ Len(o) \in Nat /\ Len(b) \in Nat /\ n \in {0, 1}
  /\ DOMAIN o = 1..Len(o) /\ DOMAIN b = 1..Len(b)
  /\ DOMAIN t = 1..(Len(o) + n + Len(b))
  /\ \A i \in 1..Len(o) : t[i] = IF Final(o[i]) THEN o[i].to ELSE "part"
  /\ n = 1 => t[Len(o) + 1] = w
  /\ \A i \in 1..Len(b) : t[Len(o) + n + i] = b[i]

LEMMA OwedIsLaid ==
  ASSUME NEW o \in Seq(Told), NEW n \in {0, 1}, NEW w \in Words, NEW b \in Seq(Words)
  PROVE  Laid(Ends(o) \o Maybe(n, w) \o b, o, n, w, b)
<1> DEFINE e == Ends(o)
           m == Maybe(n, w)
           v == e \o m
           t == v \o b
           S == Words \cup {"part"}
<1>1. Len(o) \in Nat /\ DOMAIN o = 1..Len(o) /\ \A i \in 1..Len(o) : o[i] \in Told
  BY LenProperties, ElementOfSeq
<1>2. \A i \in 1..Len(o) : (IF Final(o[i]) THEN o[i].to ELSE "part") \in S
  BY <1>1 DEF Told
<1>3. /\ e \in Seq(S) /\ Len(e) = Len(o)
      /\ \A i \in 1..Len(o) : e[i] = IF Final(o[i]) THEN o[i].to ELSE "part"
  <2>1. e = [i \in 1..Len(o) |-> IF Final(o[i]) THEN o[i].to ELSE "part"]
    BY <1>1 DEF Ends
  <2> HIDE DEF e, S
  <2> QED
    BY <1>1, <1>2, <2>1
<1>4. m \in Seq(S) /\ Len(m) = n /\ (n = 1 => m[1] = w) /\ b \in Seq(S)
  <2>1. CASE n = 1
    BY <2>1 DEF Maybe
  <2>2. CASE n = 0
    BY <2>2 DEF Maybe
  <2> QED
    BY <2>1, <2>2
<1> HIDE DEF e, m, S
<1>5. v \in Seq(S) /\ Cat(v, e, m)
  BY <1>3, <1>4, Concatenated
<1> HIDE DEF v
<1>6. Cat(t, v, b)
  BY <1>4, <1>5, Concatenated
<1> HIDE DEF t
<1>7. Len(v) = Len(o) + n /\ \A i \in 1..Len(o) : v[i] = e[i]
  BY <1>3, <1>4, <1>5 DEF Cat
<1>8. n = 1 => v[Len(o) + 1] = w
  <2>1. \A i \in 1..n : v[Len(o) + i] = m[i]
    BY <1>3, <1>4, <1>5 DEF Cat
  <2> QED
    BY <1>4, <2>1
<1>9. /\ Len(b) \in Nat /\ DOMAIN b = 1..Len(b) /\ DOMAIN t = 1..(Len(o) + n + Len(b))
      /\ \A i \in 1..Len(o) + n : t[i] = v[i]
      /\ \A i \in 1..Len(b) : t[Len(o) + n + i] = b[i]
  BY <1>6, <1>7 DEF Cat
<1>10. /\ \A i \in 1..Len(o) : t[i] = v[i]
       /\ n = 1 => t[Len(o) + 1] = v[Len(o) + 1]
  BY <1>1, <1>9
<1>11. Laid(t, o, n, w, b)
  BY <1>1, <1>3, <1>7, <1>8, <1>9, <1>10 DEF Laid
<1> QED
  BY <1>11 DEF t, v, e, m

\* t is the number of the last unit, those of o, and the next one.
Streamed(t, l, o, p) ==
  /\ Len(o) \in Nat /\ DOMAIN o = 1..Len(o)
  /\ DOMAIN t = 1..Len(o) + 2 /\ t[1] = l /\ t[Len(o) + 2] = p
  /\ \A i \in 1..Len(o) : t[i + 1] = o[i].i

LEMMA StreamIsStreamed ==
  ASSUME NEW o \in Seq(Told), NEW l \in 1..Length, NEW p \in 1..Length
  PROVE  Streamed(<<l>> \o Numbers(o) \o <<p>>, l, o, p)
<1> DEFINE a == <<l>>
           e == Numbers(o)
           v == a \o e
           z == <<p>>
           t == v \o z
           S == 0..Length
<1>1. Len(o) \in Nat /\ DOMAIN o = 1..Len(o) /\ \A i \in 1..Len(o) : o[i].i \in S
  <2>1. \A i \in 1..Len(o) : o[i] \in Told
    BY ElementOfSeq
  <2>2. \A u \in Told : u.i \in S
    BY DEF Told
  <2> QED
    BY <2>1, <2>2, LenProperties
<1>2. /\ e \in Seq(S) /\ Len(e) = Len(o)
      /\ \A i \in 1..Len(o) : e[i] = o[i].i
  <2>1. e = [i \in 1..Len(o) |-> o[i].i]
    BY <1>1 DEF Numbers
  <2> HIDE DEF e, S
  <2> QED
    BY <1>1, <2>1
<1>3. /\ a \in Seq(S) /\ Len(a) = 1 /\ a[1] = l
      /\ z \in Seq(S) /\ Len(z) = 1 /\ z[1] = p
  BY SocketsAssumption
<1> HIDE DEF a, e, z, S
<1>4. v \in Seq(S) /\ Cat(v, a, e)
  BY <1>2, <1>3, Concatenated
<1> HIDE DEF v
<1>5. Cat(t, v, z)
  BY <1>3, <1>4, Concatenated
<1> HIDE DEF t
<1>6. Len(v) = Len(o) + 1 /\ v[1] = l /\ \A i \in 1..Len(o) : v[1 + i] = e[i]
  BY <1>1, <1>2, <1>3, <1>4 DEF Cat
<1>7. /\ DOMAIN t = 1..Len(o) + 2 /\ \A i \in 1..Len(o) + 1 : t[i] = v[i]
      /\ \A i \in 1..1 : t[Len(o) + 1 + i] = z[i]
  BY <1>1, <1>3, <1>5, <1>6 DEF Cat
<1>8. t[1] = l /\ \A i \in 1..Len(o) : t[i + 1] = o[i].i
  <2>1. 1 \in 1..Len(o) + 1
    BY <1>1
  <2>2. ASSUME NEW i \in 1..Len(o) PROVE t[i + 1] = o[i].i
    <3>1. 1 + i \in 1..Len(o) + 1 /\ 1 + i = i + 1
      BY <1>1
    <3>2. t[1 + i] = v[1 + i] /\ v[1 + i] = e[i]
      BY <1>6, <1>7, <3>1
    <3> QED
      BY <1>2, <3>1, <3>2
  <2> QED
    BY <1>6, <1>7, <2>1, <2>2
<1>9. t[Len(o) + 2] = p
  <2>1. t[Len(o) + 1 + 1] = z[1] /\ Len(o) + 1 + 1 = Len(o) + 2
    BY <1>1, <1>7
  <2> QED
    BY <1>3, <2>1
<1>10. Streamed(t, l, o, p)
  BY <1>1, <1>7, <1>8, <1>9 DEF Streamed
<1> QED
  BY <1>10 DEF t, v, e, a, z

\* t is o, with w after it or not.
Followed(t, o, n, w) ==
  /\ Len(o) \in Nat /\ DOMAIN o = 1..Len(o) /\ n \in {0, 1}
  /\ Len(t) = Len(o) + n /\ DOMAIN t = 1..Len(o) + n
  /\ \A i \in 1..Len(o) : t[i] = o[i]
  /\ n = 1 => t[Len(o) + 1] = w

LEMMA MaybeFollows ==
  ASSUME NEW S, NEW o \in Seq(S), NEW n \in {0, 1}, NEW w \in S
  PROVE  Followed(o \o Maybe(n, w), o, n, w)
<1> DEFINE m == Maybe(n, w)
           t == o \o m
<1>1. m \in Seq(S) /\ Len(m) = n /\ (n = 1 => m[1] = w)
  BY DEF Maybe
<1> HIDE DEF m
<1>2. Cat(t, o, m) /\ t \in Seq(S)
  BY <1>1, Concatenated
<1> HIDE DEF t
<1>3. Len(t) = Len(o) + n /\ n = 1 => t[Len(o) + 1] = w
  BY <1>1, <1>2 DEF Cat
<1>4. Followed(t, o, n, w)
  BY <1>1, <1>2, <1>3 DEF Cat, Followed
<1> QED
  BY <1>4 DEF t, m

-----------------------------------------------------------------------------
(* What a peer knows of its transaction *)

\* Whether it knows its MAIL accepted when it has u, if it has known m.
Learns(m, u) ==
  IF ~Final(u) THEN m
  ELSE u.to \notin Bodies \cup {"rset"} /\ (m \/ (u.to = "mail" /\ u.code = 250))

\* A peer that knows m, and is to have the n units of t, is told of no RCPT that
\* it comes too early, and knows no more than e in the end.
Knows(m, t, n, e) ==
  \E f \in [0..n -> BOOLEAN] :
    /\ f[0] = m
    /\ \A j \in 1..n : f[j] = Learns(f[j - 1], t[j])
    /\ \A j \in 1..n : t[j].to = "rcpt" /\ f[j - 1] => t[j].code = 250
    /\ f[n] => e

LEMMA KnowsLess ==
  ASSUME NEW m, NEW t, NEW n, NEW e, NEW d, Knows(m, t, n, e), e => d
  PROVE  Knows(m, t, n, d)
BY DEF Knows

\* One more unit.
LEMMA KnowsMore ==
  ASSUME NEW m, NEW t, NEW u, NEW n \in Nat, NEW e, NEW d, Knows(m, t, n, e),
         \A i \in 1..n : u[i] = t[i],
         u[n + 1].to = "rcpt" /\ e => u[n + 1].code = 250,
         \A b \in BOOLEAN : (b => e) /\ Learns(b, u[n + 1]) => d
  PROVE  Knows(m, u, n + 1, d)
<1>1. PICK f \in [0..n -> BOOLEAN] :
        /\ f[0] = m
        /\ \A j \in 1..n : f[j] = Learns(f[j - 1], t[j])
        /\ \A j \in 1..n : t[j].to = "rcpt" /\ f[j - 1] => t[j].code = 250
        /\ f[n] => e
  BY DEF Knows
<1> DEFINE b == f[n]
           last == Learns(b, u[n + 1])
           g == [j \in 0..n + 1 |-> IF j = n + 1 THEN last ELSE f[j]]
<1>2. b \in BOOLEAN /\ last \in BOOLEAN
  <2>1. b \in BOOLEAN
    BY <1>1
  <2> HIDE DEF b
  <2>2. CASE Final(u[n + 1])
    BY <2>1, <2>2 DEF Learns
  <2>3. CASE ~Final(u[n + 1])
    BY <2>1, <2>3 DEF Learns
  <2> QED
    BY <2>1, <2>2, <2>3
<1>3. /\ g \in [0..n + 1 -> BOOLEAN] /\ g[n + 1] = last
      /\ \A j \in 0..n : g[j] = f[j]
  <2> HIDE DEF last, b
  <2> QED
    BY <1>1, <1>2
<1>4. last => d
  BY <1>1, <1>2
<1>5. b /\ u[n + 1].to = "rcpt" => u[n + 1].code = 250
  BY <1>1
<1>6. last = Learns(b, u[n + 1]) /\ g[n] = b
  BY <1>3
<1> HIDE DEF b, last, g
<1>7. ASSUME NEW j \in 1..n + 1
      PROVE  /\ g[j] = Learns(g[j - 1], u[j])
             /\ u[j].to = "rcpt" /\ g[j - 1] => u[j].code = 250
  <2>1. CASE j = n + 1
    <3>1. j - 1 = n
      BY <2>1
    <3> QED
      BY <1>3, <1>5, <1>6, <2>1, <3>1
  <2>2. CASE j # n + 1
    <3>1. j \in 1..n /\ j - 1 \in 0..n /\ j \in 0..n
      BY <2>2
    <3>2. g[j] = f[j] /\ g[j - 1] = f[j - 1] /\ u[j] = t[j]
      BY <1>3, <3>1
    <3>3. /\ f[j] = Learns(f[j - 1], t[j])
          /\ t[j].to = "rcpt" /\ f[j - 1] => t[j].code = 250
      BY <1>1, <3>1
    <3> QED
      BY <3>2, <3>3
  <2> QED
    BY <2>1, <2>2
<1>8. g[0] = m
  BY <1>1, <1>3
<1> QED
  BY <1>3, <1>4, <1>7, <1>8 DEF Knows

\* The first unit, when the peer takes it.
LEMMA KnowsRest ==
  ASSUME NEW m, NEW t, NEW u, NEW n \in Nat \ {0}, NEW e, Knows(m, t, n, e),
         \A i \in 1..n - 1 : u[i] = t[i + 1]
  PROVE  Knows(Learns(m, t[1]), u, n - 1, e)
<1>1. PICK f \in [0..n -> BOOLEAN] :
        /\ f[0] = m
        /\ \A j \in 1..n : f[j] = Learns(f[j - 1], t[j])
        /\ \A j \in 1..n : t[j].to = "rcpt" /\ f[j - 1] => t[j].code = 250
        /\ f[n] => e
  BY DEF Knows
<1> DEFINE g == [j \in 0..n - 1 |-> f[j + 1]]
<1>2. g \in [0..n - 1 -> BOOLEAN] /\ \A j \in 0..n - 1 : g[j] = f[j + 1]
  BY <1>1
<1> HIDE DEF g
<1>3. ASSUME NEW j \in 1..n - 1
      PROVE  /\ g[j] = Learns(g[j - 1], u[j])
             /\ u[j].to = "rcpt" /\ g[j - 1] => u[j].code = 250
  <2>1. j + 1 \in 1..n /\ j - 1 \in 0..n - 1 /\ j \in 0..n - 1 /\ (j - 1) + 1 = j
        /\ (j + 1) - 1 = j
    OBVIOUS
  <2>2. g[j] = f[j + 1] /\ g[j - 1] = f[j] /\ u[j] = t[j + 1]
    BY <1>2, <2>1
  <2> DEFINE k == j + 1
  <2>3. k \in 1..n /\ k - 1 = j
    BY <2>1
  <2> HIDE DEF k
  <2>4. /\ f[k] = Learns(f[k - 1], t[k])
        /\ t[k].to = "rcpt" /\ f[k - 1] => t[k].code = 250
    BY <1>1, <2>3
  <2>5. /\ f[k] = Learns(f[j], t[k])
        /\ t[k].to = "rcpt" /\ f[j] => t[k].code = 250
    BY <2>3, <2>4
  <2> QED
    BY <2>2, <2>5 DEF k
<1>4. g[0] = Learns(m, t[1])
  <2>1. 1 \in 1..n /\ 1 - 1 = 0 /\ 0 \in 0..n - 1 /\ 0 + 1 = 1
    OBVIOUS
  <2>2. g[0] = f[1]
    BY <1>2, <2>1
  <2>3. f[1] = Learns(f[1 - 1], t[1])
    BY <1>1, <2>1
  <2> QED
    BY <1>1, <2>1, <2>2, <2>3
<1>5. g[n - 1] => e
  <2>1. n - 1 \in 0..n - 1 /\ (n - 1) + 1 = n
    OBVIOUS
  <2>2. g[n - 1] = f[n]
    BY <1>2, <2>1
  <2> QED
    BY <1>1, <2>2
<1> QED
  BY <1>2, <1>3, <1>4, <1>5 DEF Knows

\* The first units of the reply that is the last one of t.
LEMMA KnowsRun ==
  ASSUME NEW m, NEW t, NEW u, NEW A \in Nat, NEW R \in Nat, NEW e, Knows(m, t, A + 1, e),
         \A i \in 1..A : u[i] = t[i],
         \A i \in A + 1..A + R :
           ~Final(u[i]) /\ u[i].to = t[A + 1].to /\ u[i].code = t[A + 1].code,
         u[A + R + 1] = t[A + 1]
  PROVE  Knows(m, u, A + R + 1, e)
<1>1. PICK f \in [0..A + 1 -> BOOLEAN] :
        /\ f[0] = m
        /\ \A j \in 1..A + 1 : f[j] = Learns(f[j - 1], t[j])
        /\ \A j \in 1..A + 1 : t[j].to = "rcpt" /\ f[j - 1] => t[j].code = 250
        /\ f[A + 1] => e
  BY DEF Knows
<1> DEFINE b == f[A]
           last == f[A + 1]
           w == t[A + 1]
           g == [j \in 0..A + R + 1 |->
                   IF j <= A THEN f[j] ELSE IF j = A + R + 1 THEN last ELSE b]
<1>2. b \in BOOLEAN /\ last \in BOOLEAN
  OBVIOUS
<1>3. last = Learns(b, w) /\ (w.to = "rcpt" /\ b => w.code = 250) /\ (last => e)
  <2>1. A + 1 \in 1..A + 1 /\ (A + 1) - 1 = A
    OBVIOUS
  <2>2. /\ f[A + 1] = Learns(f[(A + 1) - 1], t[A + 1])
        /\ t[A + 1].to = "rcpt" /\ f[(A + 1) - 1] => t[A + 1].code = 250
    BY <1>1, <2>1
  <2> QED
    BY <1>1, <2>1, <2>2
<1>4. /\ \A i \in A + 1..A + R : ~Final(u[i]) /\ u[i].to = w.to /\ u[i].code = w.code
      /\ u[A + R + 1] = w
  OBVIOUS
<1>5. b = f[A]
  OBVIOUS
<1> HIDE DEF b, last, w
<1>6. /\ g \in [0..A + R + 1 -> BOOLEAN] /\ g[A + R + 1] = last
      /\ \A j \in 0..A : g[j] = f[j]
      /\ \A j \in A + 1..A + R : g[j] = b
  BY <1>2
<1>7. \A j \in A..A + R : g[j] = b
  BY <1>5, <1>6
<1> HIDE DEF g
<1>8. ASSUME NEW j \in 1..A + R + 1
      PROVE  /\ g[j] = Learns(g[j - 1], u[j])
             /\ u[j].to = "rcpt" /\ g[j - 1] => u[j].code = 250
  <2>1. CASE j <= A
    <3>1. j \in 1..A + 1 /\ j \in 1..A /\ j \in 0..A /\ j - 1 \in 0..A
      BY <2>1
    <3>2. g[j] = f[j] /\ g[j - 1] = f[j - 1] /\ u[j] = t[j]
      BY <1>6, <3>1
    <3>3. /\ f[j] = Learns(f[j - 1], t[j])
          /\ t[j].to = "rcpt" /\ f[j - 1] => t[j].code = 250
      BY <1>1, <3>1
    <3> QED
      BY <3>2, <3>3
  <2>2. CASE A < j /\ j <= A + R
    <3>1. j \in A + 1..A + R /\ j \in A..A + R /\ j - 1 \in A..A + R
      BY <2>2
    <3>2. g[j] = b /\ g[j - 1] = b
      BY <1>7, <3>1
    <3>3. ~Final(u[j]) /\ u[j].to = w.to /\ u[j].code = w.code
      BY <1>4, <3>1
    <3> QED
      BY <1>3, <3>2, <3>3 DEF Learns
  <2>3. CASE j = A + R + 1
    <3>1. j - 1 \in A..A + R
      BY <2>3
    <3>2. g[j] = last /\ g[j - 1] = b /\ u[j] = w
      BY <1>4, <1>6, <1>7, <2>3, <3>1
    <3> QED
      BY <1>3, <3>2
  <2> QED
    BY <2>1, <2>2, <2>3
<1>9. g[0] = m /\ (g[A + R + 1] => e)
  BY <1>1, <1>3, <1>6
<1> QED
  BY <1>6, <1>8, <1>9 DEF Knows

-----------------------------------------------------------------------------
(* What each step does to what is asked for *)

\* A session takes a command into its hands,
LEMMA LaidRead ==
  ASSUME NEW S, NEW b \in Seq(S), b # <<>>, NEW t, NEW u, NEW o, NEW w, NEW s,
         Laid(t, o, 0, w, b), Laid(u, o, 1, Head(b), Tail(b)), AsksFor(t, s)
  PROVE  AsksFor(u, s)
<1> DEFINE A == Len(o)
           B == Len(b)
<1>1. /\ Head(b) = b[1] /\ B \in Nat \ {0} /\ Len(Tail(b)) = B - 1
      /\ \A i \in 1..B - 1 : Tail(b)[i] = b[i + 1]
  BY Rests
<1>2. /\ A \in Nat /\ DOMAIN t = 1..(A + B)
      /\ \A i \in 1..A : t[i] = IF Final(o[i]) THEN o[i].to ELSE "part"
      /\ \A i \in 1..B : t[A + 0 + i] = b[i]
  BY DEF Laid
<1>3. /\ DOMAIN u = 1..(A + 1 + (B - 1))
      /\ \A i \in 1..A : u[i] = IF Final(o[i]) THEN o[i].to ELSE "part"
      /\ u[A + 1] = b[1]
      /\ \A i \in 1..B - 1 : u[A + 1 + i] = Tail(b)[i]
  BY <1>1 DEF Laid
<1> HIDE DEF A, B
<1>4. ASSUME NEW i \in 1..A + B PROVE u[i] = t[i]
  <2>1. CASE i <= A
    BY <1>2, <1>3, <2>1
  <2>2. CASE i = A + 1
    <3>1. 1 \in 1..B /\ A + 0 + 1 = A + 1
      BY <1>1, <1>2
    <3>2. t[A + 0 + 1] = b[1]
      BY <1>2, <3>1
    <3> QED
      BY <1>3, <2>2, <3>1, <3>2
  <2>3. CASE A + 1 < i
    <3> DEFINE j == i - A - 1
    <3>1. j \in 1..B - 1 /\ j + 1 \in 1..B /\ A + 1 + j = i /\ A + 0 + (j + 1) = i
      BY <1>1, <1>2, <2>3
    <3> HIDE DEF j
    <3>2. u[A + 1 + j] = Tail(b)[j] /\ t[A + 0 + (j + 1)] = b[j + 1]
      BY <1>2, <1>3, <3>1
    <3> QED
      BY <1>1, <3>1, <3>2
  <2> QED
    BY <1>2, <2>1, <2>2, <2>3
<1>5. Spliced(t, u, A + B, A + B, 0) /\ Silent(u, A + B, 0)
  BY <1>1, <1>2, <1>3, <1>4 DEF Spliced, Silent
<1> QED
  BY <1>5, Inserted

\* or the end of the stream.
LEMMA LaidEnd ==
  ASSUME NEW b, NEW t, NEW u, NEW o, NEW w, NEW s,
         Laid(t, o, 0, w, b), Laid(u, o, 1, "end", b), AsksFor(t, s)
  PROVE  AsksFor(u, s)
<1> DEFINE A == Len(o)
           B == Len(b)
<1>1. /\ A \in Nat /\ B \in Nat /\ DOMAIN t = 1..(A + B)
      /\ \A i \in 1..A : t[i] = IF Final(o[i]) THEN o[i].to ELSE "part"
      /\ \A i \in 1..B : t[A + 0 + i] = b[i]
  BY DEF Laid
<1>2. /\ DOMAIN u = 1..(A + 1 + B)
      /\ \A i \in 1..A : u[i] = IF Final(o[i]) THEN o[i].to ELSE "part"
      /\ u[A + 1] = "end"
      /\ \A i \in 1..B : u[A + 1 + i] = b[i]
  BY DEF Laid
<1> HIDE DEF A, B
<1>3. ASSUME NEW i \in A + 1..A + B PROVE u[i + 1] = t[i]
  <2> DEFINE j == i - A
  <2>0. A \in Nat /\ B \in Nat
    BY <1>1
  <2>1. j \in 1..B /\ A + 1 + j = i + 1 /\ A + 0 + j = i
    BY <2>0
  <2> HIDE DEF j
  <2> QED
    BY <1>1, <1>2, <2>1
<1>4. Spliced(t, u, A, A + B, 1)
  BY <1>1, <1>2, <1>3 DEF Spliced
<1>5. Silent(u, A, 1)
  BY <1>1, <1>2 DEF Silent
<1> QED
  BY <1>4, <1>5, Inserted

\* A handshake reads.
LEMMA LaidShaken ==
  ASSUME NEW S, NEW b \in Seq(S), b # <<>>, Head(b) = "shake", NEW t, NEW u, NEW o,
         NEW w, NEW v, NEW s,
         Laid(t, o, 0, w, b), Laid(u, o, 0, v, Tail(b)), AsksFor(t, s)
  PROVE  AsksFor(u, s)
<1> DEFINE A == Len(o)
           B == Len(b)
<1>1. /\ Head(b) = b[1] /\ B \in Nat \ {0} /\ Len(Tail(b)) = B - 1
      /\ \A i \in 1..B - 1 : Tail(b)[i] = b[i + 1]
  BY Rests
<1>2. /\ A \in Nat /\ DOMAIN t = 1..(A + B)
      /\ \A i \in 1..A : t[i] = IF Final(o[i]) THEN o[i].to ELSE "part"
      /\ \A i \in 1..B : t[A + 0 + i] = b[i]
  BY DEF Laid
<1>3. /\ DOMAIN u = 1..(A + (B - 1))
      /\ \A i \in 1..A : u[i] = IF Final(o[i]) THEN o[i].to ELSE "part"
      /\ \A i \in 1..B - 1 : u[A + 0 + i] = Tail(b)[i]
  BY <1>1 DEF Laid
<1> HIDE DEF A, B
<1>4. ASSUME NEW i \in A + 1..A + (B - 1) PROVE t[i + 1] = u[i]
  <2> DEFINE j == i - A
  <2>1. j \in 1..B - 1 /\ j + 1 \in 1..B /\ A + 0 + j = i /\ A + 0 + (j + 1) = i + 1
    BY <1>1, <1>2
  <2> HIDE DEF j
  <2>2. u[A + 0 + j] = Tail(b)[j] /\ t[A + 0 + (j + 1)] = b[j + 1]
    BY <1>2, <1>3, <2>1
  <2> QED
    BY <1>1, <2>1, <2>2
<1>5. Spliced(u, t, A, A + (B - 1), 1)
  BY <1>1, <1>2, <1>3, <1>4 DEF Spliced
<1>6. Silent(t, A, 1)
  <2>1. 1 \in 1..B /\ A + 0 + 1 = A + 1
    BY <1>1, <1>2
  <2>2. t[A + 1] = "shake"
    BY <1>1, <1>2, <2>1
  <2> QED
    BY <1>2, <2>2 DEF Silent
<1> QED
  BY <1>5, <1>6, Removed

\* Something is added to what is to be read.
LEMMA LaidPlus ==
  ASSUME NEW S, NEW b \in Seq(S), NEW c \in S, NEW t, NEW u, NEW o, NEW n, NEW w,
         Laid(t, o, n, w, b), Laid(u, o, n, w, Append(b, c))
  PROVE  /\ Len(o) + n + Len(b) \in Nat
         /\ DOMAIN t = 1..(Len(o) + n + Len(b)) /\ DOMAIN u = 1..(Len(o) + n + Len(b)) + 1
         /\ \A i \in 1..(Len(o) + n + Len(b)) : u[i] = t[i]
         /\ u[(Len(o) + n + Len(b)) + 1] = c
<1> DEFINE A == Len(o)
           B == Len(b)
           d == Append(b, c)
<1>1. B \in Nat /\ Len(d) = B + 1 /\ d[B + 1] = c /\ \A i \in 1..B : d[i] = b[i]
  OBVIOUS
<1>2. /\ A \in Nat /\ n \in {0, 1} /\ DOMAIN t = 1..(A + n + B)
      /\ \A i \in 1..A : t[i] = IF Final(o[i]) THEN o[i].to ELSE "part"
      /\ n = 1 => t[A + 1] = w
      /\ \A i \in 1..B : t[A + n + i] = b[i]
  BY DEF Laid
<1>3. /\ DOMAIN u = 1..(A + n + (B + 1))
      /\ \A i \in 1..A : u[i] = IF Final(o[i]) THEN o[i].to ELSE "part"
      /\ n = 1 => u[A + 1] = w
      /\ \A i \in 1..B + 1 : u[A + n + i] = d[i]
  BY <1>1 DEF Laid
<1> HIDE DEF A, B, d
<1>4. ASSUME NEW i \in 1..A + n + B PROVE u[i] = t[i]
  <2>1. CASE i <= A
    BY <1>2, <1>3, <2>1
  <2>2. CASE n = 1 /\ i = A + 1
    BY <1>2, <1>3, <2>2
  <2>3. CASE A + n < i
    <3> DEFINE j == i - A - n
    <3>0. A \in Int /\ n \in Int /\ B \in Nat /\ i \in A..A + n + B
      BY <1>1, <1>2, <2>3
    <3>1. j \in 1..B /\ j \in 1..B + 1 /\ A + n + j = i
      BY <2>3, <3>0
    <3> HIDE DEF j
    <3>2. u[A + n + j] = d[j] /\ t[A + n + j] = b[j]
      BY <1>2, <1>3, <3>1
    <3> QED
      BY <1>1, <3>1, <3>2
  <2> QED
    BY <1>2, <2>1, <2>2, <2>3
<1>5. u[(A + n + B) + 1] = c
  <2>0. A \in Int /\ n \in Int /\ B \in Nat
    BY <1>1, <1>2
  <2>1. B + 1 \in 1..B + 1 /\ A + n + (B + 1) = (A + n + B) + 1
    BY <2>0
  <2>2. u[A + n + (B + 1)] = d[B + 1]
    BY <1>3, <2>1
  <2> QED
    BY <1>1, <2>1, <2>2
<1>6. A + n + B \in Nat /\ DOMAIN u = 1..(A + n + B) + 1
  BY <1>1, <1>2, <1>3
<1> QED
  BY <1>2, <1>4, <1>5, <1>6 DEF A, B

\* The peer of a handshake says more,
LEMMA LaidShakes ==
  ASSUME NEW S, NEW b \in Seq(S), "shake" \in S, NEW t, NEW u, NEW o, NEW n, NEW w, NEW s,
         Laid(t, o, n, w, b), Laid(u, o, n, w, Append(b, "shake")), AsksFor(t, s)
  PROVE  AsksFor(u, s)
<1> DEFINE N == Len(o) + n + Len(b)
<1>1. /\ N \in Nat /\ DOMAIN t = 1..N /\ DOMAIN u = 1..N + 1
      /\ \A i \in 1..N : u[i] = t[i]
      /\ u[N + 1] = "shake"
  BY LaidPlus
<1> HIDE DEF N
<1>2. Spliced(t, u, N, N, 1) /\ Silent(u, N, 1)
  BY <1>1 DEF Spliced, Silent
<1> QED
  BY <1>2, Inserted

\* and another one its command.
LEMMA LaidSays ==
  ASSUME NEW S, NEW b \in Seq(S), NEW c \in S, NEW t, NEW u, NEW o, NEW n, NEW w,
         NEW R, NEW s \in Seq(R), c \in R, c \notin {"part", "shake", "end"},
         Laid(t, o, n, w, b), Laid(u, o, n, w, Append(b, c)), AsksFor(t, s)
  PROVE  AsksFor(u, Append(s, c))
<1> DEFINE N == Len(o) + n + Len(b)
<1>1. /\ N \in Nat /\ DOMAIN t = 1..N /\ DOMAIN u = 1..N + 1
      /\ \A i \in 1..N : u[i] = t[i]
      /\ u[N + 1] = c
  BY LaidPlus
<1> HIDE DEF N
<1>2. Plus1(t, u, c)
  BY <1>1 DEF Plus1
<1> QED
  BY <1>2, AddsLast

\* Units of a reply, of which none is the last one, go before what comes after it:
\* those of a handshake,
LEMMA LaidParts ==
  ASSUME NEW t, NEW u, NEW o, NEW q, NEW y, NEW n, NEW w, NEW b, NEW s,
         Laid(t, o, n, w, b), Laid(u, q, n, w, b), Cat(q, o, y),
         \A i \in 1..Len(y) : ~Final(y[i]), AsksFor(t, s)
  PROVE  AsksFor(u, s)
<1> DEFINE A == Len(o)
           B == Len(b)
           R == Len(y)
<1>1. /\ A \in Nat /\ R \in Nat /\ Len(q) = A + R
      /\ \A i \in 1..A : q[i] = o[i]
      /\ \A i \in 1..R : q[A + i] = y[i]
  BY DEF Cat
<1>2. /\ B \in Nat /\ n \in {0, 1} /\ DOMAIN t = 1..(A + n + B)
      /\ \A i \in 1..A : t[i] = IF Final(o[i]) THEN o[i].to ELSE "part"
      /\ n = 1 => t[A + 1] = w
      /\ \A i \in 1..B : t[A + n + i] = b[i]
  BY DEF Laid
<1>3. /\ DOMAIN u = 1..((A + R) + n + B)
      /\ \A i \in 1..A + R : u[i] = IF Final(q[i]) THEN q[i].to ELSE "part"
      /\ n = 1 => u[(A + R) + 1] = w
      /\ \A i \in 1..B : u[(A + R) + n + i] = b[i]
  BY <1>1 DEF Laid
<1>4. \A i \in 1..R : ~Final(y[i])
  OBVIOUS
<1> HIDE DEF A, B, R
<1>5. n \in Nat /\ A + n + B \in Nat
  <2>1. n \in Nat
    BY <1>2
  <2> QED
    BY <1>1, <1>2, <2>1
<1>6. ASSUME NEW i \in A + 1..A + n + B PROVE u[i + R] = t[i]
  <2>1. CASE n = 1 /\ i = A + 1
    <3>1. i + R = (A + R) + 1
      BY <1>1, <2>1
    <3> QED
      BY <1>2, <1>3, <2>1, <3>1
  <2>2. CASE A + n < i
    <3> DEFINE j == i - A - n
    <3>0. A \in Int /\ n \in Int /\ R \in Int /\ B \in Nat /\ i \in Int
      BY <1>1, <1>2, <1>5
    <3>1. j \in 1..B /\ A + n + j = i /\ (A + R) + n + j = i + R
      BY <2>2, <3>0
    <3> HIDE DEF j
    <3> QED
      BY <1>2, <1>3, <3>1
  <2> QED
    BY <1>1, <1>2, <1>5, <2>1, <2>2
<1>7. \A i \in 1..A : u[i] = t[i]
  BY <1>1, <1>2, <1>3
<1>8. Spliced(t, u, A, A + n + B, R)
  <2>0. A \in Nat /\ n \in Nat /\ R \in Nat /\ B \in Nat
    BY <1>1, <1>2, <1>5
  <2>1. (A + R) + n + B = (A + n + B) + R /\ A <= A + n + B
    BY <2>0
  <2> QED
    BY <1>1, <1>2, <1>3, <1>5, <1>6, <1>7, <2>1 DEF Spliced
<1>9. Silent(u, A, R)
  <2> SUFFICES ASSUME NEW i \in A + 1..A + R PROVE u[i] = "part"
    BY DEF Silent
  <2> DEFINE j == i - A
  <2>1. j \in 1..R /\ A + j = i /\ i \in 1..A + R
    BY <1>1
  <2> HIDE DEF j
  <2>2. q[i] = y[j] /\ ~Final(y[j])
    BY <1>1, <1>4, <2>1
  <2> QED
    BY <1>3, <2>1, <2>2
<1> QED
  BY <1>8, <1>9, Inserted

\* and with its last unit a reply goes out of the hands of its session.
LEMMA LaidReply ==
  ASSUME NEW t, NEW u, NEW o, NEW q, NEW y, NEW w, NEW v, NEW b, NEW s, NEW r \in Nat,
         Laid(t, o, 1, w, b), Laid(u, q, 0, v, b), Cat(q, o, y), Len(y) = r + 1,
         \A i \in 1..r : ~Final(y[i]), Final(y[r + 1]), y[r + 1].to = w, AsksFor(t, s)
  PROVE  AsksFor(u, s)
<1> DEFINE A == Len(o)
           B == Len(b)
<1>1. /\ A \in Nat /\ Len(q) = A + (r + 1)
      /\ \A i \in 1..A : q[i] = o[i]
      /\ \A i \in 1..r + 1 : q[A + i] = y[i]
  BY DEF Cat
<1>2. /\ B \in Nat /\ DOMAIN t = 1..(A + 1 + B)
      /\ \A i \in 1..A : t[i] = IF Final(o[i]) THEN o[i].to ELSE "part"
      /\ t[A + 1] = w
      /\ \A i \in 1..B : t[A + 1 + i] = b[i]
  BY DEF Laid
<1>3. /\ DOMAIN u = 1..((A + (r + 1)) + 0 + B)
      /\ \A i \in 1..A + (r + 1) : u[i] = IF Final(q[i]) THEN q[i].to ELSE "part"
      /\ \A i \in 1..B : u[(A + (r + 1)) + 0 + i] = b[i]
  BY <1>1 DEF Laid
<1> HIDE DEF A, B
<1>4. ASSUME NEW i \in A + 1..A + 1 + B PROVE u[i + r] = t[i]
  <2>1. CASE i = A + 1
    <3>1. i + r \in 1..A + (r + 1) /\ i + r = A + (r + 1) /\ r + 1 \in 1..r + 1
      BY <1>1, <2>1
    <3>2. q[A + (r + 1)] = y[r + 1]
      BY <1>1, <3>1
    <3>3. u[i + r] = w
      BY <1>3, <3>1, <3>2
    <3> QED
      BY <1>2, <2>1, <3>3
  <2>2. CASE A + 1 < i
    <3> DEFINE j == i - A - 1
    <3>0. A \in Int /\ B \in Nat /\ i \in Int /\ i <= A + 1 + B
      BY <1>1, <1>2
    <3>1. j \in 1..B /\ A + 1 + j = i /\ (A + (r + 1)) + 0 + j = i + r
      BY <2>2, <3>0
    <3> HIDE DEF j
    <3> QED
      BY <1>2, <1>3, <3>1
  <2> QED
    BY <1>1, <2>1, <2>2
<1>5. \A i \in 1..A : u[i] = t[i]
  BY <1>1, <1>2, <1>3
<1>6. Spliced(t, u, A, A + 1 + B, r)
  <2>1. DOMAIN u = 1..(A + 1 + B) + r /\ A <= A + 1 + B /\ A + 1 + B \in Nat
    BY <1>1, <1>2, <1>3
  <2> QED
    BY <1>1, <1>2, <1>4, <1>5, <2>1 DEF Spliced
<1>7. Silent(u, A, r)
  <2> SUFFICES ASSUME NEW i \in A + 1..A + r PROVE u[i] = "part"
    BY DEF Silent
  <2> DEFINE j == i - A
  <2>1. j \in 1..r /\ j \in 1..r + 1 /\ A + j = i /\ i \in 1..A + (r + 1)
    BY <1>1
  <2> HIDE DEF j
  <2>2. q[i] = y[j] /\ ~Final(y[j])
    BY <1>1, <2>1
  <2> QED
    BY <1>3, <2>1, <2>2
<1> QED
  BY <1>6, <1>7, Inserted

\* The peer takes a unit.
LEMMA LaidTaken ==
  ASSUME NEW S, NEW o \in Seq(S), o # <<>>, NEW t, NEW u, NEW n, NEW w, NEW b,
         Laid(t, o, n, w, b), Laid(u, Tail(o), n, w, b)
  PROVE  Rest1(t, u) /\ t[1] = IF Final(Head(o)) THEN Head(o).to ELSE "part"
<1> DEFINE A == Len(o)
           B == Len(b)
           d == Tail(o)
<1>1. /\ Head(o) = o[1] /\ A \in Nat \ {0} /\ Len(d) = A - 1
      /\ \A i \in 1..A - 1 : d[i] = o[i + 1]
  BY Rests
<1>2. /\ B \in Nat /\ n \in {0, 1} /\ DOMAIN t = 1..(A + n + B)
      /\ \A i \in 1..A : t[i] = IF Final(o[i]) THEN o[i].to ELSE "part"
      /\ n = 1 => t[A + 1] = w
      /\ \A i \in 1..B : t[A + n + i] = b[i]
  BY DEF Laid
<1>3. /\ DOMAIN u = 1..((A - 1) + n + B)
      /\ \A i \in 1..A - 1 : u[i] = IF Final(d[i]) THEN d[i].to ELSE "part"
      /\ n = 1 => u[(A - 1) + 1] = w
      /\ \A i \in 1..B : u[(A - 1) + n + i] = b[i]
  BY <1>1 DEF Laid
<1> HIDE DEF A, B, d
<1>4. n \in Nat /\ A + n + B \in Nat \ {0}
  BY <1>1, <1>2
<1>5. ASSUME NEW i \in 1..(A + n + B) - 1 PROVE u[i] = t[i + 1]
  <2>1. CASE i <= A - 1
    <3>1. i \in 1..A - 1 /\ i + 1 \in 1..A
      BY <1>1, <2>1
    <3>2. d[i] = o[i + 1]
      BY <1>1, <3>1
    <3> QED
      BY <1>2, <1>3, <3>1, <3>2
  <2>2. CASE n = 1 /\ i = A
    <3>1. (A - 1) + 1 = i /\ A + 1 = i + 1
      BY <1>1, <2>2
    <3> QED
      BY <1>2, <1>3, <2>2, <3>1
  <2>3. CASE (A - 1) + n < i
    <3> DEFINE j == i - (A - 1) - n
    <3>0. A \in Int /\ n \in Int /\ B \in Nat /\ i \in Int
      BY <1>1, <1>2, <1>4
    <3>1. j \in 1..B /\ A + n + j = i + 1 /\ (A - 1) + n + j = i
      BY <2>3, <3>0
    <3> HIDE DEF j
    <3> QED
      BY <1>2, <1>3, <3>1
  <2> QED
    BY <1>1, <1>2, <1>4, <2>1, <2>2, <2>3
<1>6. Rest1(t, u)
  <2>1. DOMAIN u = 1..(A + n + B) - 1
    BY <1>1, <1>2, <1>3, <1>4
  <2> QED
    BY <1>2, <1>4, <1>5, <2>1 DEF Rest1
<1>7. t[1] = IF Final(o[1]) THEN o[1].to ELSE "part"
  BY <1>1, <1>2
<1> QED
  BY <1>1, <1>6, <1>7

\* A connection of smtp_server's is to have a greeting.
LEMMA LaidHello ==
  ASSUME NEW t, NEW u, NEW w, NEW R, NEW s \in Seq(R), "hello" \in R,
         Laid(t, <<>>, 0, w, <<>>), Laid(u, <<>>, 1, "hello", <<>>), AsksFor(t, s)
  PROVE  AsksFor(u, Append(s, "hello"))
<1>1. DOMAIN t = 1..0 /\ DOMAIN u = 1..1 /\ u[1] = "hello"
  BY DEF Laid
<1>2. Plus1(t, u, "hello")
  BY <1>1 DEF Plus1
<1> QED
  BY <1>2, AddsLast

-----------------------------------------------------------------------------
(* What each step does to the stream of units *)

\* write writes the units of y.
LEMMA StreamedRun ==
  ASSUME NEW t, NEW u, NEW l, NEW o, NEW p \in 1..Length, NEW q, NEW d, NEW y,
         Streamed(t, l, o, p), Streamed(u, l, q, d), Cat(q, o, y),
         Len(y) \in 1..(Length + 1 - p), \A i \in 1..Len(y) : y[i].i = p + i - 1,
         d = IF p + Len(y) <= Length THEN p + Len(y) ELSE 1
  PROVE  Ran(t, u, Len(o) + 1, Len(y))
<1> DEFINE A == Len(o)
           R == Len(y)
<1>1. /\ A \in Nat /\ DOMAIN t = 1..A + 2 /\ t[1] = l /\ t[A + 2] = p
      /\ \A i \in 1..A : t[i + 1] = o[i].i
  BY DEF Streamed
<1>2. /\ R \in Nat /\ Len(q) = A + R
      /\ \A i \in 1..A : q[i] = o[i]
      /\ \A i \in 1..R : q[A + i] = y[i]
  BY DEF Cat
<1>3. /\ DOMAIN u = 1..A + R + 2 /\ u[1] = l /\ u[A + R + 2] = d
      /\ \A i \in 1..A + R : u[i + 1] = q[i].i
  BY <1>2 DEF Streamed
<1>4. R \in 1..(Length + 1 - p) /\ \A i \in 1..R : y[i].i = p + i - 1
  OBVIOUS
<1>5. Length \in Nat /\ d = IF p + R <= Length THEN p + R ELSE 1
  BY SocketsAssumption
<1> HIDE DEF A, R
<1>6. R \in Nat \ {0} /\ p + R <= Length + 1
  BY <1>4, <1>5
<1>7. ASSUME NEW i \in 1..A + 1 PROVE u[i] = t[i]
  <2>1. CASE i = 1
    BY <1>1, <1>3, <2>1
  <2>2. CASE i # 1
    <3> DEFINE j == i - 1
    <3>1. j \in 1..A /\ j \in 1..A + R /\ j + 1 = i
      BY <1>1, <1>2, <2>2
    <3> HIDE DEF j
    <3> QED
      BY <1>1, <1>2, <1>3, <3>1
  <2> QED
    BY <2>1, <2>2
<1>8. ASSUME NEW i \in 1..R PROVE u[(A + 1) + i] = p + i - 1
  <2>1. A + i \in 1..A + R /\ (A + i) + 1 = (A + 1) + i
    BY <1>1, <1>2
  <2>2. u[(A + i) + 1] = q[A + i].i
    BY <1>3, <2>1
  <2> QED
    BY <1>2, <1>4, <2>1, <2>2
<1>9. Ran(t, u, A + 1, R)
  <2>1. A + 1 \in Nat /\ (A + 1) + 1 = A + 2 /\ (A + 1) + R + 1 = A + R + 2
    BY <1>1, <1>6
  <2> QED
    BY <1>1, <1>3, <1>5, <1>6, <1>7, <1>8, <2>1 DEF Ran
<1> QED
  BY <1>9 DEF A, R

\* A unit of no reply is written.
LEMMA StreamedZero ==
  ASSUME NEW t, NEW u, NEW l, NEW o, NEW p, NEW q, NEW y,
         Streamed(t, l, o, p), Streamed(u, l, q, p), Cat(q, o, y), Len(y) = 1, y[1].i = 0
  PROVE  Spliced(t, u, Len(o) + 1, Len(o) + 2, 1) /\ u[(Len(o) + 1) + 1] = 0
<1> DEFINE A == Len(o)
<1>1. /\ A \in Nat /\ DOMAIN t = 1..A + 2 /\ t[1] = l /\ t[A + 2] = p
      /\ \A i \in 1..A : t[i + 1] = o[i].i
  BY DEF Streamed
<1>2. /\ Len(q) = A + 1
      /\ \A i \in 1..A : q[i] = o[i]
      /\ \A i \in 1..1 : q[A + i] = y[i]
  BY DEF Cat
<1>3. /\ DOMAIN u = 1..A + 1 + 2 /\ u[1] = l /\ u[A + 1 + 2] = p
      /\ \A i \in 1..A + 1 : u[i + 1] = q[i].i
  BY <1>2 DEF Streamed
<1> HIDE DEF A
<1>4. ASSUME NEW i \in 1..A + 1 PROVE u[i] = t[i]
  <2>1. CASE i = 1
    BY <1>1, <1>3, <2>1
  <2>2. CASE i # 1
    <3> DEFINE j == i - 1
    <3>1. j \in 1..A /\ j \in 1..A + 1 /\ j + 1 = i
      BY <1>1, <2>2
    <3> HIDE DEF j
    <3> QED
      BY <1>1, <1>2, <1>3, <3>1
  <2> QED
    BY <2>1, <2>2
<1>5. u[(A + 1) + 1] = 0
  <2>1. A + 1 \in 1..A + 1
    BY <1>1
  <2>2. q[A + 1] = y[1]
    BY <1>2
  <2> QED
    BY <1>3, <2>1, <2>2
<1>6. \A i \in (A + 1) + 1..A + 2 : u[i + 1] = t[i]
  <2>1. A + 2 + 1 = A + 1 + 2 /\ \A i \in (A + 1) + 1..A + 2 : i = A + 2
    BY <1>1
  <2> QED
    BY <1>1, <1>3, <2>1
<1>7. Spliced(t, u, A + 1, A + 2, 1)
  <2>1. A + 1 + 2 = (A + 2) + 1 /\ A + 1 \in Nat /\ A + 2 \in Nat /\ A + 1 <= A + 2
    BY <1>1
  <2> QED
    BY <1>1, <1>3, <1>4, <1>6, <2>1 DEF Spliced
<1> QED
  BY <1>5, <1>7 DEF A

\* The peer takes a unit.
LEMMA StreamedTaken ==
  ASSUME NEW S, NEW o \in Seq(S), o # <<>>, NEW t, NEW u, NEW l, NEW m, NEW p,
         Streamed(t, l, o, p), Streamed(u, m, Tail(o), p),
         m = IF Head(o).i = 0 THEN l ELSE Head(o).i
  PROVE  Took(t, u)
<1> DEFINE A == Len(o)
           d == Tail(o)
<1>1. /\ Head(o) = o[1] /\ A \in Nat \ {0} /\ Len(d) = A - 1
      /\ \A i \in 1..A - 1 : d[i] = o[i + 1]
  BY Rests
<1>2. /\ DOMAIN t = 1..A + 2 /\ t[1] = l /\ t[A + 2] = p
      /\ \A i \in 1..A : t[i + 1] = o[i].i
  BY DEF Streamed
<1>3. /\ DOMAIN u = 1..(A - 1) + 2 /\ u[1] = m /\ u[(A - 1) + 2] = p
      /\ \A i \in 1..A - 1 : u[i + 1] = d[i].i
  BY <1>1 DEF Streamed
<1> HIDE DEF A, d
<1>4. t[2] = o[1].i
  <2>1. 1 \in 1..A /\ 1 + 1 = 2
    BY <1>1
  <2>2. t[1 + 1] = o[1].i
    BY <1>2, <2>1
  <2> QED
    BY <2>1, <2>2
<1>5. u[1] = IF t[2] = 0 THEN t[1] ELSE t[2]
  BY <1>1, <1>2, <1>3, <1>4
<1>6. ASSUME NEW i \in 2..(A + 2) - 1 PROVE u[i] = t[i + 1]
  <2>1. CASE i = A + 1
    <3>1. (A - 1) + 2 = i /\ i + 1 = A + 2
      BY <1>1, <2>1
    <3> QED
      BY <1>2, <1>3, <3>1
  <2>2. CASE i # A + 1
    <3> DEFINE j == i - 1
    <3>1. j \in 1..A - 1 /\ j + 1 \in 1..A /\ j + 1 = i
      BY <1>1, <2>2
    <3> HIDE DEF j
    <3>2. u[j + 1] = d[j].i /\ d[j] = o[j + 1] /\ t[(j + 1) + 1] = o[j + 1].i
      BY <1>1, <1>2, <1>3, <3>1
    <3> QED
      BY <3>1, <3>2
  <2> QED
    BY <2>1, <2>2
<1>7. A + 2 \in Nat \ {0, 1} /\ DOMAIN u = 1..(A + 2) - 1
  BY <1>1, <1>3
<1> QED
  BY <1>2, <1>5, <1>6, <1>7 DEF Took

-----------------------------------------------------------------------------
(* What each step does to what a peer is to know *)

\* A session takes a command into its hands.
LEMMA FollowedRead ==
  ASSUME NEW t, NEW u, NEW o, NEW v, NEW w, NEW m, NEW e, NEW d,
         Followed(t, o, 0, v), Followed(u, o, 1, w), Knows(m, t, Len(o) + 0, e),
         w.to = "rcpt" /\ e => w.code = 250, \A b \in BOOLEAN : (b => e) /\ Learns(b, w) => d
  PROVE  Knows(m, u, Len(o) + 1, d)
<1> DEFINE A == Len(o)
<1>1. A \in Nat /\ A + 0 = A /\ (\A i \in 1..A : u[i] = t[i]) /\ u[A + 1] = w
  BY DEF Followed
<1> HIDE DEF A
<1>2. Knows(m, t, A, e)
  BY <1>1 DEF A
<1>3. Knows(m, u, A + 1, d)
  BY <1>1, <1>2, KnowsMore
<1> QED
  BY <1>3 DEF A

\* It writes units of its reply, but not the last one,
LEMMA FollowedParts ==
  ASSUME NEW t, NEW u, NEW o, NEW q, NEW y, NEW v, NEW m, NEW e,
         Followed(t, o, 1, v), Followed(u, q, 1, v), Cat(q, o, y),
         \A i \in 1..Len(y) : ~Final(y[i]) /\ y[i].to = v.to /\ y[i].code = v.code,
         Knows(m, t, Len(o) + 1, e)
  PROVE  Knows(m, u, Len(q) + 1, e)
<1> DEFINE A == Len(o)
           R == Len(y)
<1>1. /\ A \in Nat /\ R \in Nat /\ Len(q) = A + R
      /\ \A i \in 1..A : q[i] = o[i]
      /\ \A i \in 1..R : q[A + i] = y[i]
  BY DEF Cat
<1>2. (\A i \in 1..A : t[i] = o[i]) /\ t[A + 1] = v
  BY DEF Followed
<1>3. (\A i \in 1..A + R : u[i] = q[i]) /\ u[A + R + 1] = v
  BY <1>1 DEF Followed
<1>4. \A i \in 1..R : ~Final(y[i]) /\ y[i].to = v.to /\ y[i].code = v.code
  OBVIOUS
<1>5. Knows(m, t, A + 1, e)
  OBVIOUS
<1> HIDE DEF A, R
<1>6. ASSUME NEW i \in A + 1..A + R
      PROVE  ~Final(u[i]) /\ u[i].to = t[A + 1].to /\ u[i].code = t[A + 1].code
  <2> DEFINE j == i - A
  <2>1. j \in 1..R /\ A + j = i /\ i \in 1..A + R
    BY <1>1
  <2> HIDE DEF j
  <2>2. u[i] = y[j]
    BY <1>1, <1>3, <2>1
  <2> QED
    BY <1>2, <1>4, <2>1, <2>2
<1>7. \A i \in 1..A : u[i] = t[i]
  BY <1>1, <1>2, <1>3
<1>8. u[A + R + 1] = t[A + 1] /\ A \in Nat /\ R \in Nat
  BY <1>1, <1>2, <1>3
<1>9. Knows(m, u, A + R + 1, e)
  BY <1>5, <1>6, <1>7, <1>8, KnowsRun
<1> QED
  BY <1>1, <1>9

\* or that too.
LEMMA FollowedReply ==
  ASSUME NEW t, NEW u, NEW o, NEW q, NEW y, NEW v, NEW w, NEW m, NEW e, NEW r \in Nat,
         Followed(t, o, 1, v), Followed(u, q, 0, w), Cat(q, o, y), Len(y) = r + 1,
         \A i \in 1..r : ~Final(y[i]) /\ y[i].to = v.to /\ y[i].code = v.code,
         y[r + 1] = v, Knows(m, t, Len(o) + 1, e)
  PROVE  Knows(m, u, Len(q) + 0, e)
<1> DEFINE A == Len(o)
<1>1. /\ A \in Nat /\ Len(q) = A + (r + 1)
      /\ \A i \in 1..A : q[i] = o[i]
      /\ \A i \in 1..r + 1 : q[A + i] = y[i]
  BY DEF Cat
<1>2. (\A i \in 1..A : t[i] = o[i]) /\ t[A + 1] = v
  BY DEF Followed
<1>3. \A i \in 1..A + (r + 1) : u[i] = q[i]
  BY <1>1 DEF Followed
<1>4. Knows(m, t, A + 1, e)
  OBVIOUS
<1> HIDE DEF A
<1>5. ASSUME NEW i \in A + 1..A + r
      PROVE  ~Final(u[i]) /\ u[i].to = t[A + 1].to /\ u[i].code = t[A + 1].code
  <2> DEFINE j == i - A
  <2>1. j \in 1..r /\ j \in 1..r + 1 /\ A + j = i /\ i \in 1..A + (r + 1)
    BY <1>1
  <2> HIDE DEF j
  <2>2. u[i] = y[j]
    BY <1>1, <1>3, <2>1
  <2> QED
    BY <1>2, <2>1, <2>2
<1>6. \A i \in 1..A : u[i] = t[i]
  BY <1>1, <1>2, <1>3
<1>7. u[A + r + 1] = t[A + 1]
  <2>1. r + 1 \in 1..r + 1 /\ A + (r + 1) = A + r + 1 /\ A + (r + 1) \in 1..A + (r + 1)
    BY <1>1
  <2>2. q[A + (r + 1)] = y[r + 1]
    BY <1>1, <2>1
  <2>3. u[A + (r + 1)] = q[A + (r + 1)]
    BY <1>3, <2>1
  <2> QED
    BY <1>2, <2>1, <2>2, <2>3
<1>8. Knows(m, u, A + r + 1, e)
  <2>1. A \in Nat /\ r \in Nat
    BY <1>1
  <2> QED
    BY <2>1, <1>4, <1>5, <1>6, <1>7, KnowsRun
<1>9. A + r + 1 = Len(q) + 0
  BY <1>1
<1> QED
  BY <1>8, <1>9

\* The peer takes a unit.
LEMMA FollowedTaken ==
  ASSUME NEW S, NEW o \in Seq(S), o # <<>>, NEW t, NEW u, NEW n, NEW v, NEW m, NEW e,
         Followed(t, o, n, v), Followed(u, Tail(o), n, v), Knows(m, t, Len(o) + n, e)
  PROVE  Knows(Learns(m, Head(o)), u, Len(Tail(o)) + n, e)
<1> DEFINE A == Len(o)
           d == Tail(o)
           N == A + n
<1>1. /\ Head(o) = o[1] /\ A \in Nat \ {0} /\ Len(d) = A - 1
      /\ \A i \in 1..A - 1 : d[i] = o[i + 1]
  BY Rests
<1>2. /\ n \in {0, 1}
      /\ \A i \in 1..A : t[i] = o[i]
      /\ n = 1 => t[A + 1] = v
  BY DEF Followed
<1>3. /\ \A i \in 1..A - 1 : u[i] = d[i]
      /\ n = 1 => u[(A - 1) + 1] = v
  BY <1>1 DEF Followed
<1>4. Knows(m, t, N, e)
  OBVIOUS
<1> HIDE DEF A, d
<1>5. N \in Nat \ {0} /\ N - 1 = (A - 1) + n
  <2>1. n \in Nat
    BY <1>2
  <2> QED
    BY <1>1, <2>1
<1>6. ASSUME NEW i \in 1..N - 1 PROVE u[i] = t[i + 1]
  <2>1. CASE i <= A - 1
    <3>1. i \in 1..A - 1 /\ i + 1 \in 1..A
      BY <1>1, <2>1
    <3> QED
      BY <1>1, <1>2, <1>3, <3>1
  <2>2. CASE ~(i <= A - 1)
    <3>1. n = 1 /\ i = (A - 1) + 1 /\ i + 1 = A + 1
      BY <1>1, <1>2, <1>5, <2>2
    <3> QED
      BY <1>2, <1>3, <3>1
  <2> QED
    BY <2>1, <2>2
<1> HIDE DEF N
<1>7. Knows(Learns(m, t[1]), u, N - 1, e)
  BY <1>4, <1>5, <1>6, KnowsRest
<1>8. t[1] = Head(o)
  <2>1. 1 \in 1..A
    BY <1>1
  <2> QED
    BY <1>1, <1>2, <2>1
<1> QED
  BY <1>1, <1>5, <1>7, <1>8 DEF d

-----------------------------------------------------------------------------
(* The invariant, of the records k and s of a connection to a program x *)

Typed(k, s) ==
  /\ k.inbox \in Seq(Words) /\ k.outbox \in Seq(Told) /\ k.pending \in Seq(Words)
  /\ k.last \in 1..Length /\ k.mailed \in BOOLEAN
  /\ s.p \in 1..Length /\ s.env \in BOOLEAN
  /\ s.reply.to \in Words /\ s.reply.code \in Codes

\* The reply in the hands of the session, or the greeting that it will begin with.
Replying(x, k, s) ==
  IF s.pc \in {"write", "alert"} \/ (s.pc = "none" /\ x = "smtp" /\ k.peer # "none")
    THEN 1 ELSE 0
ReplyTo(s) == IF s.pc = "none" THEN "hello" ELSE s.reply.to

Due(x, k, s) == Ends(k.outbox) \o Maybe(Replying(x, k, s), ReplyTo(s)) \o k.inbox
Line(k, s) == <<k.last>> \o Numbers(k.outbox) \o <<s.p>>

\* The units that the peer is to have at least, and what it may know after them:
\* a session that reads on has an _env_from if the peer takes its MAIL for accepted.
Writing(s) == IF s.pc = "write" THEN 1 ELSE 0
LastUnit(s) == Unit(Length, s.reply)
Book(k, s) == k.outbox \o Maybe(Writing(s), LastUnit(s))
Minds(k, s) == s.env \/ s.pc = "over" \/ (k.inbox = <<>> /\ k.peer # "open")

AnswersAll(x, k, s) ==
  ~k.stray /\ (x = "smtp" \/ (x = "s2n" /\ s.pc \notin {"shut", "over"}))
  => AsksFor(Due(x, k, s), k.pending)

Remembers(k, s) == Knows(k.mailed, Book(k, s), Len(k.outbox) + Writing(s), Minds(k, s))

\* Nothing of a handshake after the first n of t.
NoShake(t, n) == \A i \in DOMAIN t : n < i => t[i] # "shake"

\* What a peer has said of its handshake is at the beginning.
Shaken(x, k, s) ==
  IF x = "smtp" THEN NoShake(k.inbox, 0) /\ s.pc \notin {"shake", "alert", "shut"}
  ELSE /\ k.shakes \in {0, 2, 3, 4} => k.inbox = <<>>
       /\ k.shakes = 1 => k.inbox = <<"shake">>
       /\ k.shakes = 5 => k.inbox # <<>> /\ k.inbox[1] = "shake" /\ NoShake(k.inbox, 1)
       /\ k.shakes = 6 => NoShake(k.inbox, 0)
       /\ s.pc \in {"read", "body", "astray", "write", "alert", "shut"} => k.shakes = 6

\* Units of a handshake are not the last ones of replies.
NoneFinal(o) == \A i \in DOMAIN o : o[i].to = "shake" => o[i].i = 0
Named(k, s) ==
  (s.pc \in {"write", "alert"} => s.reply.to # "shake") /\ NoneFinal(k.outbox)

Rested(k, s) ==
  /\ s.pc # "write" => s.p = 1
  /\ s.pc = "none" => k.outbox = <<>> /\ k.mailed = FALSE /\ s.env = FALSE
  /\ k.peer = "none" => k = NoPeer /\ s.pc = "none"

Healthy(x, k, s) ==
  /\ Consecutive(Line(k, s)) /\ AnswersAll(x, k, s) /\ Shaken(x, k, s) /\ Named(k, s)
  /\ x = "smtp" /\ ~k.stray => Remembers(k, s)

Gone(k) == k.peer \in {"gone", "reset"}

Fits(x, k, s) ==
  /\ Rested(k, s)
  /\ Gone(k) => k.mailed = FALSE
  /\ ~Gone(k) => Healthy(x, k, s)

LEMMA DueIsLaid ==
  ASSUME NEW x, NEW k, NEW s, Typed(k, s)
  PROVE  Laid(Due(x, k, s), k.outbox, Replying(x, k, s), ReplyTo(s), k.inbox)
<1>1. /\ Replying(x, k, s) \in {0, 1} /\ ReplyTo(s) \in Words
      /\ k.outbox \in Seq(Told) /\ k.inbox \in Seq(Words)
  BY DEF Typed, Replying, ReplyTo, Words
<1> QED
  BY <1>1, OwedIsLaid DEF Due

LEMMA LineIsStreamed ==
  ASSUME NEW k, NEW s, Typed(k, s)
  PROVE  Streamed(Line(k, s), k.last, k.outbox, s.p)
BY StreamIsStreamed DEF Typed, Line

LEMMA BookIsFollowed ==
  ASSUME NEW k, NEW s, Typed(k, s)
  PROVE  Followed(Book(k, s), k.outbox, Writing(s), LastUnit(s))
<1>1. Writing(s) \in {0, 1} /\ k.outbox \in Seq(Told)
  BY DEF Typed, Writing
<1>2. LastUnit(s) \in Told
  BY SocketsAssumption DEF Typed, LastUnit, Unit, Told
<1> QED
  BY <1>1, <1>2, MaybeFollows DEF Book

-----------------------------------------------------------------------------
(* Each step keeps it *)

\* Waiting, and waking up.
LEMMA WaitFits ==
  ASSUME NEW x, NEW k, NEW s, NEW z, Fits(x, k, s),
         z.pc = s.pc, z.p = s.p, z.env = s.env, z.reply = s.reply
  PROVE  Fits(x, k, z)
<1>1. /\ Due(x, k, z) = Due(x, k, s) /\ Line(k, z) = Line(k, s)
      /\ Book(k, z) = Book(k, s) /\ Writing(z) = Writing(s) /\ Minds(k, z) = Minds(k, s)
  BY DEF Due, Line, Book, Writing, Minds, Replying, ReplyTo, LastUnit
<1>2. Healthy(x, k, s) => Healthy(x, k, z)
  BY <1>1 DEF Healthy, AnswersAll, Shaken, Named, Remembers
<1> QED
  BY <1>2 DEF Fits, Rested

\* A session ends in the middle.
LEMMA OverFits ==
  ASSUME NEW x, NEW k, NEW s, NEW z, Fits(x, k, s), z.pc = "over", z.p = 1,
         s.pc # "none", Gone(k) \/ (x # "smtp" /\ s.pc # "write")
  PROVE  Fits(x, k, z)
<1>1. Rested(k, z)
  BY DEF Fits, Rested
<1>2. ASSUME ~Gone(k) PROVE Healthy(x, k, z)
  <2>1. Healthy(x, k, s) /\ x # "smtp" /\ s.p = 1
    BY <1>2 DEF Fits, Rested
  <2>2. Line(k, z) = Line(k, s)
    BY <2>1 DEF Line
  <2> QED
    BY <2>1, <2>2 DEF Healthy, AnswersAll, Shaken, Named
<1> QED
  BY <1>1, <1>2 DEF Fits

\* A session begins.
LEMMA FirstFits ==
  ASSUME NEW x, NEW k, NEW s, NEW z, Typed(k, s), Typed(k, z), Fits(x, k, s),
         s.pc = "none", k.peer # "none", z.p = 1, z.env = FALSE,
         IF x = "smtp" THEN z.pc = "write" /\ z.reply.to = "hello" ELSE z.pc = "shake"
  PROVE  Fits(x, k, z)
<1>1. Rested(k, z)
  BY DEF Fits, Rested
<1>2. ASSUME ~Gone(k) PROVE Healthy(x, k, z)
  <2>1. /\ Healthy(x, k, s) /\ s.p = 1 /\ s.env = FALSE
    BY <1>2 DEF Fits, Rested
  <2>2. Line(k, z) = Line(k, s)
    BY <2>1 DEF Line
  <2>3. Due(x, k, z) = Due(x, k, s)
    <3>1. CASE x = "smtp"
      BY <3>1 DEF Due, Replying, ReplyTo
    <3>2. CASE x # "smtp"
      <4>1. Replying(x, k, s) = 0 /\ Replying(x, k, z) = 0
        BY <3>2 DEF Replying
      <4>2. Maybe(0, ReplyTo(s)) = Maybe(0, ReplyTo(z))
        BY DEF Maybe
      <4> QED
        BY <4>1, <4>2 DEF Due
    <3> QED
      BY <3>1, <3>2
  <2>4. x = "smtp" /\ ~k.stray => Remembers(k, z)
    <3> SUFFICES ASSUME x = "smtp", ~k.stray PROVE Remembers(k, z)
      OBVIOUS
    <3> DEFINE w == LastUnit(z)
               t == Book(k, s)
               u == Book(k, z)
               v == LastUnit(s)
    <3>1. Writing(s) = 0 /\ Writing(z) = 1 /\ w.to = "hello"
      BY DEF Writing, LastUnit, Unit
    <3>2. Followed(t, k.outbox, 0, v) /\ Followed(u, k.outbox, 1, w)
      BY <3>1, BookIsFollowed
    <3>3. Knows(k.mailed, t, Len(k.outbox) + 0, Minds(k, s))
      BY <2>1, <3>1 DEF Healthy, Remembers
    <3> HIDE DEF w, t, u, v
    <3>4. \A b \in BOOLEAN : (b => Minds(k, s)) /\ Learns(b, w) => Minds(k, z)
      <4>1. \A b \in BOOLEAN : Learns(b, w) => b
        BY <3>1 DEF Learns
      <4>2. Minds(k, s) => Minds(k, z)
        BY <2>1 DEF Minds
      <4> QED
        BY <4>1, <4>2
    <3>5. Knows(k.mailed, u, Len(k.outbox) + 1, Minds(k, z))
      BY <3>1, <3>2, <3>3, <3>4, FollowedRead
    <3> QED
      BY <3>1, <3>5 DEF Remembers, u
  <2> QED
    BY <2>1, <2>2, <2>3, <2>4 DEF Healthy, AnswersAll, Shaken, Named
<1> QED
  BY <1>1, <1>2 DEF Fits

\* What is left of a handshake when some of it has been read.
LEMMA NoShakeRest ==
  ASSUME NEW S, NEW b \in Seq(S), b # <<>>, NEW n \in {0, 1}, NoShake(b, n)
  PROVE  NoShake(Tail(b), 0)
<1>1. /\ Len(b) \in Nat /\ DOMAIN b = 1..Len(b) /\ DOMAIN Tail(b) = 1..Len(b) - 1
      /\ \A i \in 1..Len(b) - 1 : Tail(b)[i] = b[i + 1]
  BY Rests
<1> SUFFICES ASSUME NEW i \in 1..Len(b) - 1 PROVE Tail(b)[i] # "shake"
  BY <1>1 DEF NoShake
<1>2. i + 1 \in DOMAIN b /\ n < i + 1
  BY <1>1
<1>3. b[i + 1] # "shake"
  BY <1>2 DEF NoShake
<1> QED
  BY <1>1, <1>3

\* The handshake reads.
LEMMA ShakeInFits ==
  ASSUME NEW x, NEW k, NEW s, NEW h, NEW z, Typed(k, s), Typed(h, z), Fits(x, k, s),
         s.pc = "shake", k.inbox # <<>>, k.shakes \in 0..5, k.shakes \notin {2, 3},
         h.peer = k.peer, h.outbox = k.outbox, h.pending = k.pending, h.last = k.last,
         h.mailed = k.mailed, h.stray = k.stray, h.inbox = Tail(k.inbox), h.shakes = k.shakes + 1,
         z.pc = IF k.shakes = 5 THEN "read" ELSE "shake",
         z.p = s.p, z.env = s.env, z.reply = s.reply
  PROVE  Fits(x, h, z)
<1>1. Rested(h, z)
  BY DEF Fits, Rested
<1>2. ASSUME ~Gone(h) PROVE Healthy(x, h, z)
  <2>1. Healthy(x, k, s)
    BY <1>2 DEF Fits, Gone
  <2>2. x # "smtp" /\ k.shakes \in {1, 5} /\ k.inbox[1] = "shake"
    BY <2>1 DEF Healthy, Shaken
  <2>3. k.inbox \in Seq(Words) /\ Head(k.inbox) = "shake"
    BY <2>2, Rests DEF Typed
  <2>4. Line(h, z) = Line(k, s)
    BY DEF Line
  <2>5. Shaken(x, h, z)
    <3>1. CASE k.shakes = 1
      <4>1. k.inbox = <<"shake">> /\ z.pc = "shake" /\ h.shakes = 2
        BY <2>1, <2>2, <3>1 DEF Healthy, Shaken
      <4>2. h.inbox = <<>>
        BY <4>1
      <4> QED
        BY <2>2, <4>1, <4>2 DEF Shaken
    <3>2. CASE k.shakes = 5
      <4>1. NoShake(k.inbox, 1) /\ h.shakes = 6
        BY <2>1, <2>2, <3>2 DEF Healthy, Shaken
      <4>2. NoShake(h.inbox, 0)
        BY <2>3, <4>1, NoShakeRest
      <4> QED
        BY <2>2, <4>1, <4>2 DEF Shaken
    <3> QED
      BY <2>2, <3>1, <3>2
  <2>6. ASSUME AsksFor(Due(x, k, s), k.pending) PROVE AsksFor(Due(x, h, z), h.pending)
    <3> DEFINE t == Due(x, k, s)
               u == Due(x, h, z)
               w == ReplyTo(s)
               v == ReplyTo(z)
    <3>1. Replying(x, k, s) = 0 /\ Replying(x, h, z) = 0
      BY DEF Replying
    <3>2. Laid(t, k.outbox, 0, w, k.inbox) /\ Laid(u, k.outbox, 0, v, Tail(k.inbox))
      BY <3>1, DueIsLaid
    <3>3. AsksFor(t, k.pending)
      BY <2>6
    <3> HIDE DEF t, u, w, v
    <3>4. AsksFor(u, k.pending)
      BY <2>3, <3>2, <3>3, LaidShaken
    <3> QED
      BY <3>4 DEF u
  <2>7. AnswersAll(x, h, z)
    BY <2>1, <2>6 DEF Healthy, AnswersAll
  <2> QED
    BY <2>1, <2>2, <2>4, <2>5, <2>7 DEF Healthy, Named
<1> QED
  BY <1>1, <1>2 DEF Fits, Gone

\* A unit of no reply is written.
LEMMA ZeroWritten ==
  ASSUME NEW k, NEW s, NEW h, NEW z, Typed(k, s), Typed(h, z), NEW v \in Told, v.i = 0,
         h.outbox = k.outbox \o <<v>>, h.last = k.last, z.p = s.p,
         Consecutive(Line(k, s)),
         NoneFinal(k.outbox)
  PROVE  /\ Cat(h.outbox, k.outbox, <<v>>)
         /\ Consecutive(Line(h, z)) /\ NoneFinal(h.outbox)
<1> DEFINE o == k.outbox
           q == h.outbox
           y == <<v>>
           t == Line(k, s)
           u == Line(h, z)
<1>1. y \in Seq(Told) /\ Len(y) = 1 /\ y[1] = v /\ o \in Seq(Told)
  BY DEF Typed
<1>2. Cat(q, o, y)
  BY <1>1, Concatenated
<1>3. Streamed(t, k.last, o, s.p) /\ Streamed(u, k.last, q, s.p)
  <2>1. Streamed(u, h.last, h.outbox, z.p)
    BY LineIsStreamed
  <2> QED
    BY <2>1, LineIsStreamed
<1>4. NoneFinal(o)
  OBVIOUS
<1>5. Consecutive(t)
  OBVIOUS
<1> HIDE DEF o, q, y, t, u
<1>6. Spliced(t, u, Len(o) + 1, Len(o) + 2, 1) /\ u[(Len(o) + 1) + 1] = 0
  BY <1>1, <1>2, <1>3, StreamedZero
<1>7. Consecutive(u)
  BY <1>5, <1>6, ZeroInserted
<1>8. ASSUME NEW i \in DOMAIN q, q[i].to = "shake" PROVE q[i].i = 0
  <2>1. /\ Len(o) \in Nat /\ DOMAIN q = 1..Len(o) + 1 /\ DOMAIN o = 1..Len(o)
        /\ \A j \in 1..Len(o) : q[j] = o[j]
        /\ \A j \in 1..1 : q[Len(o) + j] = y[j]
    BY <1>1, <1>2 DEF Cat
  <2>2. CASE i <= Len(o)
    BY <1>4, <1>8, <2>1, <2>2 DEF NoneFinal
  <2>3. CASE i = Len(o) + 1
    BY <1>1, <2>1, <2>3
  <2> QED
    BY <2>1, <2>2, <2>3
<1>9. NoneFinal(q)
  BY <1>8 DEF NoneFinal
<1> QED
  BY <1>2, <1>7, <1>9 DEF o, q, y, u

\* The handshake answers.
LEMMA ShakeOutFits ==
  ASSUME NEW x, NEW k, NEW s, NEW h, Typed(k, s), Typed(h, s), Fits(x, k, s),
         s.pc = "shake", k.shakes \in {2, 3}, k.peer # "none", h.shakes = k.shakes + 1,
         IF k.peer = "gone" THEN h.peer = "reset" /\ h.mailed = k.mailed
         ELSE /\ h.peer = k.peer /\ h.outbox = k.outbox \o <<Unit(0, NoReply)>>
              /\ h.inbox = k.inbox /\ h.pending = k.pending /\ h.last = k.last
              /\ h.mailed = k.mailed /\ h.stray = k.stray
  PROVE  Fits(x, h, s)
<1>1. Rested(h, s)
  BY DEF Fits, Rested
<1>2. Gone(h) => h.mailed = FALSE
  BY DEF Fits, Gone
<1>3. ASSUME ~Gone(h) PROVE Healthy(x, h, s)
  <2>1. /\ h.peer = k.peer /\ h.outbox = k.outbox \o <<Unit(0, NoReply)>>
        /\ h.inbox = k.inbox /\ h.pending = k.pending /\ h.last = k.last
        /\ h.mailed = k.mailed /\ h.stray = k.stray /\ ~Gone(k)
    BY <1>3 DEF Gone
  <2>2. Healthy(x, k, s)
    BY <2>1 DEF Fits
  <2> DEFINE v == Unit(0, NoReply)
  <2>3. v \in Told /\ v.i = 0 /\ ~Final(v)
    BY SocketsAssumption DEF Unit, NoReply, Told, Words, Codes, Final
  <2>4. h.outbox = k.outbox \o <<v>>
    BY <2>1
  <2> HIDE DEF v
  <2>5. Consecutive(Line(k, s)) /\ NoneFinal(k.outbox)
    BY <2>2 DEF Healthy, Named
  <2>6. /\ Cat(h.outbox, k.outbox, <<v>>) /\ Consecutive(Line(h, s)) /\ NoneFinal(h.outbox)
    BY <2>1, <2>3, <2>4, <2>5, ZeroWritten
  <2>7. x # "smtp" /\ k.inbox = <<>>
    BY <2>2 DEF Healthy, Shaken
  <2>8. Shaken(x, h, s)
    BY <2>1, <2>7 DEF Shaken
  <2>9. ASSUME AsksFor(Due(x, k, s), k.pending) PROVE AsksFor(Due(x, h, s), h.pending)
    <3> DEFINE t == Due(x, k, s)
               u == Due(x, h, s)
               w == ReplyTo(s)
               y == <<v>>
    <3>1. Replying(x, k, s) = 0 /\ Replying(x, h, s) = 0
      BY DEF Replying
    <3>2. Laid(t, k.outbox, 0, w, k.inbox) /\ Laid(u, h.outbox, 0, w, k.inbox)
      BY <2>1, <3>1, DueIsLaid
    <3>3. AsksFor(t, k.pending) /\ Cat(h.outbox, k.outbox, y)
      BY <2>6, <2>9
    <3>4. \A i \in 1..Len(y) : ~Final(y[i])
      BY <2>3
    <3> HIDE DEF t, u, w, y
    <3>5. AsksFor(u, k.pending)
      BY <3>2, <3>3, <3>4, LaidParts
    <3> QED
      BY <2>1, <3>5 DEF u
  <2>10. AnswersAll(x, h, s)
    BY <2>1, <2>2, <2>9 DEF Healthy, AnswersAll
  <2> QED
    BY <2>6, <2>7, <2>8, <2>10 DEF Healthy, Named
<1> QED
  BY <1>1, <1>2, <1>3 DEF Fits

\* shutdown sends its alert.
LEMMA AlertFits ==
  ASSUME NEW x, NEW k, NEW s, NEW h, NEW z, Typed(k, s), Typed(h, z), Fits(x, k, s),
         s.pc = "alert", k.peer # "none", z.pc \in {"shut", "over"}, z.p = 1,
         h.shakes = k.shakes,
         IF k.peer = "gone" THEN h.peer = "reset" /\ h.mailed = k.mailed
         ELSE /\ h.peer = k.peer /\ h.outbox = k.outbox \o <<Unit(0, s.reply)>>
              /\ h.inbox = k.inbox /\ h.last = k.last /\ h.mailed = k.mailed
  PROVE  Fits(x, h, z)
<1>1. Rested(h, z)
  BY DEF Fits, Rested
<1>2. Gone(h) => h.mailed = FALSE
  BY DEF Fits, Gone
<1>3. ASSUME ~Gone(h) PROVE Healthy(x, h, z)
  <2>1. /\ h.peer = k.peer /\ h.outbox = k.outbox \o <<Unit(0, s.reply)>>
        /\ h.inbox = k.inbox /\ h.last = k.last /\ ~Gone(k)
    BY <1>3 DEF Gone
  <2>2. Healthy(x, k, s) /\ z.p = s.p
    BY <2>1 DEF Fits, Rested
  <2> DEFINE v == Unit(0, s.reply)
  <2>3. v \in Told /\ v.i = 0
    <3>1. s.reply.to \in Words /\ s.reply.code \in Codes /\ 0 \in 0..Length
      BY SocketsAssumption DEF Typed
    <3> QED
      BY <3>1 DEF Unit, Told
  <2>4. h.outbox = k.outbox \o <<v>>
    BY <2>1
  <2> HIDE DEF v
  <2>5. Consecutive(Line(k, s)) /\ NoneFinal(k.outbox)
    BY <2>2 DEF Healthy, Named
  <2>6. /\ Consecutive(Line(h, z)) /\ NoneFinal(h.outbox)
    BY <2>1, <2>2, <2>3, <2>4, <2>5, ZeroWritten
  <2>7. x # "smtp" /\ k.shakes = 6
    BY <2>2 DEF Healthy, Shaken
  <2>8. Shaken(x, h, z)
    BY <2>1, <2>2, <2>7 DEF Healthy, Shaken
  <2>9. AnswersAll(x, h, z)
    BY <2>7 DEF AnswersAll
  <2> QED
    BY <2>6, <2>7, <2>8, <2>9 DEF Healthy, Named
<1> QED
  BY <1>1, <1>2, <1>3 DEF Fits

\* What an OpenSSL session reads is a record, and what shutdown reads is dropped.
LEMMA DropFits ==
  ASSUME NEW x, NEW k, NEW s, NEW h, NEW z, Typed(k, s), Typed(h, z), Fits(x, k, s),
         s.pc \in {"read", "shut"}, z.pc \in {"read", "write", "alert", "shut"}, z.p = s.p,
         x = "ssl" \/ (x # "smtp" /\ z.pc = "shut"),
         z.pc \in {"write", "alert"} => z.reply.to # "shake",
         k.inbox # <<>>, h.inbox = Tail(k.inbox), h.peer = k.peer, h.outbox = k.outbox,
         h.last = k.last, h.mailed = k.mailed, h.shakes = k.shakes
  PROVE  Fits(x, h, z)
<1>1. Rested(h, z)
  BY DEF Fits, Rested
<1>2. ASSUME ~Gone(h) PROVE Healthy(x, h, z)
  <2>1. Healthy(x, k, s) /\ x # "smtp"
    BY <1>2 DEF Fits, Gone
  <2>2. Line(h, z) = Line(k, s)
    BY DEF Line
  <2>3. k.shakes = 6 /\ NoShake(k.inbox, 0) /\ k.inbox \in Seq(Words)
    BY <2>1 DEF Healthy, Shaken, Typed
  <2>4. NoShake(h.inbox, 0)
    BY <2>3, NoShakeRest
  <2>5. Shaken(x, h, z)
    BY <2>1, <2>3, <2>4 DEF Shaken
  <2>6. AnswersAll(x, h, z)
    BY DEF AnswersAll
  <2> QED
    BY <2>1, <2>2, <2>5, <2>6 DEF Healthy, Named
<1> QED
  BY <1>1, <1>2 DEF Fits, Gone

\* A session of smtp_server or of coro_s2n reads a command and begins the reply.
LEMMA ReadFits ==
  ASSUME NEW x \in {"smtp", "s2n"}, NEW k, NEW s, NEW h, NEW z, Typed(k, s), Typed(h, z),
         Fits(x, k, s), s.pc \in {"read", "body", "astray"}, k.inbox # <<>>, z.p = s.p,
         z.pc = "write" \/ (x # "smtp" /\ z.pc = "alert"), z.reply.to = Head(k.inbox),
         x = "smtp" =>
           /\ z.reply.to = "rcpt" /\ s.env => z.reply.code = 250
           /\ /\ z.reply.to \notin Bodies \cup {"rset"}
              /\ s.env \/ (z.reply.to = "mail" /\ z.reply.code = 250)
              => z.env,
         h.inbox = Tail(k.inbox), h.peer = k.peer, h.outbox = k.outbox,
         h.pending = k.pending, h.last = k.last, h.mailed = k.mailed, h.stray = k.stray,
         h.shakes = k.shakes
  PROVE  Fits(x, h, z)
<1>1. Rested(h, z)
  BY DEF Fits, Rested
<1>2. ASSUME ~Gone(h) PROVE Healthy(x, h, z)
  <2>1. Healthy(x, k, s)
    BY <1>2 DEF Fits, Gone
  <2>2. Line(h, z) = Line(k, s)
    BY DEF Line
  <2>3. k.inbox \in Seq(Words) /\ NoShake(k.inbox, 0) /\ (x # "smtp" => k.shakes = 6)
    BY <2>1 DEF Healthy, Shaken, Typed
  <2>4. NoShake(h.inbox, 0)
    BY <2>3, NoShakeRest
  <2>5. Shaken(x, h, z)
    BY <2>3, <2>4 DEF Shaken
  <2>6. Head(k.inbox) # "shake"
    <3>1. 1 \in DOMAIN k.inbox /\ 0 < 1 /\ Head(k.inbox) = k.inbox[1]
      BY <2>3, Rests
    <3> QED
      BY <2>3, <3>1 DEF NoShake
  <2>7. Named(h, z)
    BY <2>1, <2>6 DEF Healthy, Named
  <2>8. ASSUME AsksFor(Due(x, k, s), k.pending) PROVE AsksFor(Due(x, h, z), h.pending)
    <3> DEFINE t == Due(x, k, s)
               u == Due(x, h, z)
               w == ReplyTo(s)
               b == k.inbox
    <3>1. Replying(x, k, s) = 0 /\ Replying(x, h, z) = 1 /\ ReplyTo(z) = Head(b)
      BY DEF Replying, ReplyTo
    <3>2. Laid(t, k.outbox, 0, w, b) /\ Laid(u, k.outbox, 1, Head(b), Tail(b))
      BY <3>1, DueIsLaid
    <3>3. AsksFor(t, k.pending) /\ b \in Seq(Words) /\ b # <<>>
      BY <2>3, <2>8
    <3> HIDE DEF t, u, w, b
    <3>4. AsksFor(u, k.pending)
      BY <3>2, <3>3, LaidRead
    <3> QED
      BY <3>4 DEF u
  <2>9. AnswersAll(x, h, z)
    BY <2>1, <2>8 DEF Healthy, AnswersAll
  <2>10. ASSUME x = "smtp", ~h.stray PROVE Remembers(h, z)
    <3> DEFINE w == LastUnit(z)
               t == Book(k, s)
               u == Book(h, z)
               v == LastUnit(s)
    <3>1. Writing(s) = 0 /\ Writing(z) = 1 /\ w.to = z.reply.to /\ w.code = z.reply.code
      BY <2>10 DEF Writing, LastUnit, Unit
    <3>2. Followed(t, k.outbox, 0, v) /\ Followed(u, k.outbox, 1, w)
      BY <3>1, BookIsFollowed
    <3>3. Knows(k.mailed, t, Len(k.outbox) + 0, Minds(k, s))
      BY <2>1, <2>10, <3>1 DEF Healthy, Remembers
    <3>4. Final(w)
      BY DEF LastUnit, Unit, Final
    <3> HIDE DEF w, t, u, v
    <3>5. Minds(k, s) => s.env
      BY DEF Minds
    <3>6. \A b \in BOOLEAN : (b => Minds(k, s)) /\ Learns(b, w) => Minds(h, z)
      <4> SUFFICES ASSUME NEW b \in BOOLEAN, b => Minds(k, s), Learns(b, w) PROVE z.env
        BY DEF Minds
      <4>1. w.to \notin Bodies \cup {"rset"} /\ (b \/ (w.to = "mail" /\ w.code = 250))
        BY <3>4 DEF Learns
      <4>2. s.env \/ (z.reply.to = "mail" /\ z.reply.code = 250)
        BY <3>1, <3>5, <4>1
      <4>3. z.reply.to \notin Bodies \cup {"rset"}
        BY <3>1, <4>1
      <4> QED
        BY <2>10, <4>2, <4>3
    <3>7. w.to = "rcpt" /\ Minds(k, s) => w.code = 250
      BY <2>10, <3>1, <3>5
    <3>8. Knows(k.mailed, u, Len(k.outbox) + 1, Minds(h, z))
      BY <3>2, <3>3, <3>6, <3>7, FollowedRead
    <3> QED
      BY <3>1, <3>8 DEF Remembers, u
  <2> QED
    BY <2>1, <2>2, <2>5, <2>7, <2>9, <2>10 DEF Healthy
<1> QED
  BY <1>1, <1>2 DEF Fits, Gone

\* get has missed the end of a body, and reads on.
LEMMA OnFits ==
  ASSUME NEW k, NEW s, NEW h, NEW z, Typed(k, s), Fits("smtp", k, s),
         s.pc \in {"body", "astray"}, k.inbox # <<>>, z.pc = "astray", z.p = s.p,
         h.inbox = Tail(k.inbox), h.peer = k.peer, h.outbox = k.outbox, h.last = k.last,
         h.mailed = k.mailed, h.stray
  PROVE  Fits("smtp", h, z)
<1>1. Rested(h, z)
  BY DEF Fits, Rested
<1>2. ASSUME ~Gone(h) PROVE Healthy("smtp", h, z)
  <2>1. Healthy("smtp", k, s)
    BY <1>2 DEF Fits, Gone
  <2>2. Line(h, z) = Line(k, s)
    BY DEF Line
  <2>3. k.inbox \in Seq(Words) /\ NoShake(k.inbox, 0)
    BY <2>1 DEF Healthy, Shaken, Typed
  <2>4. NoShake(h.inbox, 0)
    BY <2>3, NoShakeRest
  <2>5. Shaken("smtp", h, z) /\ Named(h, z)
    BY <2>1, <2>4 DEF Shaken, Healthy, Named
  <2> QED
    BY <2>1, <2>2, <2>5 DEF Healthy, AnswersAll
<1> QED
  BY <1>1, <1>2 DEF Fits, Gone

\* smtp_session reads past the end of its stream.
LEMMA EndFits ==
  ASSUME NEW k, NEW s, NEW z, Typed(k, s), Typed(k, z), Fits("smtp", k, s),
         s.pc \in {"read", "body", "astray"}, k.inbox = <<>>, k.peer # "open", z.p = s.p,
         z.pc = "write", z.reply.to = "end"
  PROVE  Fits("smtp", k, z)
<1>1. Rested(k, z)
  BY DEF Fits, Rested
<1>2. ASSUME ~Gone(k) PROVE Healthy("smtp", k, z)
  <2>1. Healthy("smtp", k, s)
    BY <1>2 DEF Fits
  <2>2. Line(k, z) = Line(k, s)
    BY DEF Line
  <2>3. Shaken("smtp", k, z) /\ Named(k, z)
    BY <2>1 DEF Healthy, Shaken, Named
  <2>4. ASSUME ~k.stray PROVE AnswersAll("smtp", k, z)
    <3> DEFINE t == Due("smtp", k, s)
               u == Due("smtp", k, z)
               w == ReplyTo(s)
    <3>1. Replying("smtp", k, s) = 0 /\ Replying("smtp", k, z) = 1 /\ ReplyTo(z) = "end"
      BY DEF Replying, ReplyTo
    <3>2. Laid(t, k.outbox, 0, w, k.inbox) /\ Laid(u, k.outbox, 1, "end", k.inbox)
      BY <3>1, DueIsLaid
    <3>3. AsksFor(t, k.pending)
      BY <2>1, <2>4 DEF Healthy, AnswersAll
    <3> HIDE DEF t, u, w
    <3>4. AsksFor(u, k.pending)
      BY <3>2, <3>3, LaidEnd
    <3> QED
      BY <3>4 DEF u, AnswersAll
  <2>5. ASSUME ~k.stray PROVE Remembers(k, z)
    <3> DEFINE w == LastUnit(z)
               t == Book(k, s)
               u == Book(k, z)
               v == LastUnit(s)
    <3>1. Writing(s) = 0 /\ Writing(z) = 1 /\ w.to = "end"
      BY DEF Writing, LastUnit, Unit
    <3>2. Followed(t, k.outbox, 0, v) /\ Followed(u, k.outbox, 1, w)
      BY <3>1, BookIsFollowed
    <3>3. Knows(k.mailed, t, Len(k.outbox) + 0, Minds(k, s))
      BY <2>1, <2>5, <3>1 DEF Healthy, Remembers
    <3> HIDE DEF w, t, u, v
    <3>4. Minds(k, z)
      BY DEF Minds
    <3>5. Knows(k.mailed, u, Len(k.outbox) + 1, Minds(k, z))
      BY <3>1, <3>2, <3>3, <3>4, FollowedRead
    <3> QED
      BY <3>1, <3>5 DEF Remembers, u
  <2> QED
    BY <2>1, <2>2, <2>3, <2>4, <2>5 DEF Healthy, AnswersAll
<1> QED
  BY <1>1, <1>2 DEF Fits

\* What write writes.
UnitsOf(s, n) == [i \in 1..n |-> Unit(s.p + i - 1, s.reply)]

LEMMA UnitsWritten ==
  ASSUME NEW k, NEW s, Typed(k, s), NEW n \in 1..(Length + 1 - s.p), NEW y,
         y = UnitsOf(s, n)
  PROVE  /\ y \in Seq(Told) /\ Len(y) = n
         /\ \A i \in 1..n : /\ y[i].i = s.p + i - 1
                            /\ y[i].to = s.reply.to /\ y[i].code = s.reply.code
                            /\ s.p + i - 1 # Length => ~Final(y[i])
         /\ s.p + n - 1 = Length => y[n] = LastUnit(s) /\ Final(y[n])
<1>1. /\ s.p \in 1..Length /\ Length \in Nat
      /\ s.reply.to \in Words /\ s.reply.code \in Codes
  BY SocketsAssumption DEF Typed
<1>2. n \in Nat
  BY <1>1
<1>3. ASSUME NEW i \in 1..n PROVE Unit(s.p + i - 1, s.reply) \in Told
  <2>1. s.p + i - 1 \in 0..Length
    BY <1>1
  <2> QED
    BY <1>1, <2>1 DEF Unit, Told
<1>4. y \in Seq(Told) /\ Len(y) = n
  BY <1>2, <1>3 DEF UnitsOf
<1>5. ASSUME NEW i \in 1..n
      PROVE  /\ y[i].i = s.p + i - 1
             /\ y[i].to = s.reply.to /\ y[i].code = s.reply.code
             /\ s.p + i - 1 # Length => ~Final(y[i])
  <2>1. y[i] = Unit(s.p + i - 1, s.reply) /\ s.p + i - 1 # 0
    BY <1>1 DEF UnitsOf
  <2>2. y[i].i = s.p + i - 1 /\ y[i].to = s.reply.to /\ y[i].code = s.reply.code
    BY <2>1 DEF Unit
  <2> QED
    BY <2>1, <2>2 DEF Final
<1>6. s.p + n - 1 = Length => y[n] = LastUnit(s) /\ Final(y[n])
  <2>1. y[n] = Unit(s.p + n - 1, s.reply)
    BY <1>1 DEF UnitsOf
  <2> QED
    BY <2>1 DEF LastUnit, Unit, Final
<1> QED
  BY <1>4, <1>5, <1>6

\* A session writes units of its reply.
LEMMA WriteFits ==
  ASSUME NEW x, NEW k, NEW s, NEW h, NEW z, Typed(k, s), Typed(h, z), Fits(x, k, s),
         s.pc = "write", k.peer # "none", NEW n \in 1..(Length + 1 - s.p),
         IF s.p + n <= Length
           THEN z.pc = "write" /\ z.p = s.p + n /\ z.reply = s.reply /\ z.env = s.env
           ELSE /\ z.pc \in {"read", "body", "over"} /\ z.p = 1
                /\ z.env = s.env \/ z.pc = "over",
         h.shakes = k.shakes,
         IF k.peer = "gone" THEN h.peer = "reset" /\ h.mailed = k.mailed
         ELSE /\ h.peer = k.peer
              /\ h.outbox = k.outbox \o UnitsOf(s, n)
              /\ h.inbox = k.inbox /\ h.pending = k.pending /\ h.last = k.last
              /\ h.mailed = k.mailed /\ h.stray = k.stray
  PROVE  Fits(x, h, z)
<1>1. Rested(h, z)
  <2>1. z.pc # "none" /\ h.peer # "none" /\ (z.pc # "write" => z.p = 1)
    OBVIOUS
  <2> QED
    BY <2>1 DEF Rested
<1>2. Gone(h) => h.mailed = FALSE
  BY DEF Fits, Gone
<1>3. ASSUME ~Gone(h) PROVE Healthy(x, h, z)
  <2> DEFINE y == UnitsOf(s, n)
             o == k.outbox
             q == h.outbox
             b == k.inbox
  <2>1. /\ h.peer = k.peer /\ q = o \o y
        /\ h.inbox = b /\ h.pending = k.pending /\ h.last = k.last
        /\ h.mailed = k.mailed /\ h.stray = k.stray /\ ~Gone(k)
    BY <1>3 DEF Gone
  <2>2. Healthy(x, k, s)
    BY <2>1 DEF Fits
  <2>3. /\ y \in Seq(Told) /\ Len(y) = n
        /\ \A i \in 1..n : /\ y[i].i = s.p + i - 1
                           /\ y[i].to = s.reply.to /\ y[i].code = s.reply.code
                           /\ s.p + i - 1 # Length => ~Final(y[i])
        /\ s.p + n - 1 = Length => y[n] = LastUnit(s) /\ Final(y[n])
    BY UnitsWritten
  <2>4. s.p \in 1..Length /\ Length \in Nat /\ n \in Nat \ {0} /\ o \in Seq(Told)
        /\ s.p + n <= Length + 1
    BY SocketsAssumption DEF Typed
  <2>5. /\ Laid(Due(x, k, s), o, Replying(x, k, s), ReplyTo(s), b)
        /\ Laid(Due(x, h, z), q, Replying(x, h, z), ReplyTo(z), b)
        /\ Followed(Book(k, s), o, Writing(s), LastUnit(s))
        /\ Followed(Book(h, z), q, Writing(z), LastUnit(z))
        /\ Streamed(Line(k, s), k.last, o, s.p)
        /\ Streamed(Line(h, z), k.last, q, z.p)
    <3>1. /\ Laid(Due(x, k, s), o, Replying(x, k, s), ReplyTo(s), b)
          /\ Laid(Due(x, h, z), q, Replying(x, h, z), ReplyTo(z), h.inbox)
          /\ Streamed(Line(h, z), h.last, q, z.p)
      BY DueIsLaid, LineIsStreamed
    <3> QED
      BY <2>1, <3>1, BookIsFollowed, LineIsStreamed
  <2> HIDE DEF y, o, q, b
  <2>6. Cat(q, o, y)
    BY <2>1, <2>3, <2>4, Concatenated
  <2>7. Consecutive(Line(h, z))
    <3> DEFINE t == Line(k, s)
               u == Line(h, z)
               l == k.last
               p == s.p
               d == z.p
    <3>1. d = IF p + Len(y) <= Length THEN p + Len(y) ELSE 1
      BY <2>3
    <3>2. p \in 1..Length /\ Len(y) \in 1..(Length + 1 - p)
          /\ \A i \in 1..Len(y) : y[i].i = p + i - 1
      BY <2>3, <2>4
    <3>3. Consecutive(t) /\ Streamed(t, l, o, p) /\ Streamed(u, l, q, d)
      BY <2>2, <2>5 DEF Healthy
    <3> HIDE DEF t, u, l, p, d
    <3>4. Ran(t, u, Len(o) + 1, Len(y))
      BY <2>6, <3>1, <3>2, <3>3, StreamedRun
    <3>5. Consecutive(u)
      BY <3>3, <3>4, RunWritten
    <3> QED
      BY <3>5 DEF u
  <2>8. NoneFinal(q)
    <3> SUFFICES ASSUME NEW i \in DOMAIN q, q[i].to = "shake" PROVE q[i].i = 0
      BY DEF NoneFinal
    <3>1. /\ Len(o) \in Nat /\ DOMAIN q = 1..(Len(o) + n) /\ DOMAIN o = 1..Len(o)
          /\ \A j \in 1..Len(o) : q[j] = o[j]
          /\ \A j \in 1..n : q[Len(o) + j] = y[j]
      BY <2>3, <2>6 DEF Cat
    <3>2. CASE i <= Len(o)
      BY <2>2, <3>1, <3>2 DEF Healthy, Named, NoneFinal, o
    <3>3. CASE Len(o) < i
      <4> DEFINE j == i - Len(o)
      <4>1. j \in 1..n /\ Len(o) + j = i
        <5>1. i \in 1..(Len(o) + n)
          BY <3>1
        <5>2. Len(o) \in Nat /\ n \in Nat
          BY <2>4, <3>1
        <5> QED
          BY <3>3, <5>1, <5>2
      <4> HIDE DEF j
      <4>2. q[Len(o) + j] = y[j]
        BY <3>1, <4>1
      <4>3. q[i].to = s.reply.to
        BY <2>3, <4>1, <4>2
      <4>4. s.reply.to # "shake"
        BY <2>2 DEF Healthy, Named
      <4> QED
        BY <4>3, <4>4
    <3> QED
      BY <3>1, <3>2, <3>3
  <2>9. Shaken(x, h, z) /\ Named(h, z)
    <3>1. z.pc \in {"read", "body", "over", "write"}
          /\ (z.pc = "write" => z.reply = s.reply)
      OBVIOUS
    <3> QED
      BY <2>1, <2>2, <2>8, <3>1 DEF Healthy, Shaken, Named, b, q
  <2>10. Replying(x, k, s) = 1 /\ ReplyTo(s) = s.reply.to /\ Writing(s) = 1
    BY DEF Replying, ReplyTo, Writing
  <2>11. Minds(k, s) => Minds(h, z)
    <3>1. z.env = s.env \/ z.pc = "over"
      OBVIOUS
    <3> QED
      BY <2>1, <3>1 DEF Minds, b
  <2>12. /\ AsksFor(Due(x, k, s), k.pending) => AsksFor(Due(x, h, z), k.pending)
         /\ Remembers(k, s) => Knows(h.mailed, Book(h, z), Len(q) + Writing(z), Minds(k, s))
    <3> DEFINE t == Due(x, k, s)
               u == Due(x, h, z)
               v == ReplyTo(z)
               w == s.reply.to
               g == k.pending
               f == Book(k, s)
               c == Book(h, z)
               a == LastUnit(s)
               e == Minds(k, s)
               m == k.mailed
    <3>1. a.to = s.reply.to /\ a.code = s.reply.code
      BY DEF LastUnit, Unit
    <3>2. Remembers(k, s) => Knows(m, f, Len(o) + 1, e)
      BY <2>10 DEF Remembers, o
    <3>3. CASE s.p + n <= Length
      <4>1. /\ z.pc = "write" /\ z.reply = s.reply
            /\ Replying(x, h, z) = 1 /\ v = w /\ Writing(z) = 1 /\ LastUnit(z) = a
        BY <3>3 DEF Replying, ReplyTo, Writing, LastUnit
      <4>2. /\ Laid(t, o, 1, w, b) /\ Laid(u, q, 1, w, b)
            /\ Followed(f, o, 1, a) /\ Followed(c, q, 1, a)
        BY <2>5, <2>10, <4>1
      <4>3. \A i \in 1..Len(y) : ~Final(y[i]) /\ y[i].to = a.to /\ y[i].code = a.code
        BY <2>3, <2>4, <3>1, <3>3
      <4> HIDE DEF t, u, v, w, g, f, c, a, e, m
      <4>4. AsksFor(t, g) => AsksFor(u, g)
        BY <2>6, <4>2, <4>3, LaidParts
      <4>5. Knows(m, f, Len(o) + 1, e) => Knows(m, c, Len(q) + 1, e)
        BY <2>6, <4>2, <4>3, FollowedParts
      <4> QED
        BY <2>1, <3>2, <4>1, <4>4, <4>5 DEF t, u, g, c, e, m
    <3>4. CASE ~(s.p + n <= Length)
      <4> DEFINE r == n - 1
      <4>1. /\ z.pc \in {"read", "body", "over"}
            /\ Replying(x, h, z) = 0 /\ Writing(z) = 0
        BY <3>4 DEF Replying, Writing
      <4>2. r \in Nat /\ r + 1 = n /\ s.p + n - 1 = Length
        BY <2>4, <3>4
      <4>3. Len(y) = r + 1 /\ y[r + 1] = a /\ Final(y[r + 1]) /\ a.to = w
        BY <2>3, <3>1, <4>2
      <4>4. \A i \in 1..r : ~Final(y[i]) /\ y[i].to = a.to /\ y[i].code = a.code
        <5> SUFFICES ASSUME NEW i \in 1..r
                     PROVE  ~Final(y[i]) /\ y[i].to = a.to /\ y[i].code = a.code
          OBVIOUS
        <5>1. i \in 1..n /\ s.p + i - 1 # Length
          BY <2>4, <4>2
        <5> QED
          BY <2>3, <3>1, <5>1
      <4> DEFINE a2 == LastUnit(z)
      <4>5. /\ Laid(t, o, 1, w, b) /\ Laid(u, q, 0, v, b)
            /\ Followed(f, o, 1, a) /\ Followed(c, q, 0, a2)
        BY <2>5, <2>10, <4>1
      <4> HIDE DEF t, u, v, w, g, f, c, a, e, m, r, a2
      <4>6. AsksFor(t, g) => AsksFor(u, g)
        BY <2>6, <4>2, <4>3, <4>4, <4>5, LaidReply
      <4>7. Knows(m, f, Len(o) + 1, e) => Knows(m, c, Len(q) + 0, e)
        BY <2>6, <4>2, <4>3, <4>4, <4>5, FollowedReply
      <4> QED
        BY <2>1, <3>2, <4>1, <4>6, <4>7 DEF t, u, g, c, e, m
    <3> QED
      BY <3>3, <3>4
  <2>13. AnswersAll(x, h, z)
    <3>1. x = "s2n" => s.pc \notin {"shut", "over"}
      OBVIOUS
    <3> QED
      BY <2>1, <2>2, <2>12, <3>1 DEF Healthy, AnswersAll
  <2>14. x = "smtp" /\ ~h.stray => Remembers(h, z)
    BY <2>1, <2>2, <2>11, <2>12, KnowsLess DEF Healthy, Remembers, q
  <2> QED
    BY <2>7, <2>9, <2>13, <2>14 DEF Healthy
<1> QED
  BY <1>1, <1>2, <1>3 DEF Fits

-----------------------------------------------------------------------------
(* The steps of the peers *)

\* A peer connects.
LEMMA ConnectFits ==
  ASSUME NEW x, NEW k, NEW s, NEW h, Typed(k, s), Typed(h, s), Fits(x, k, s),
         k.peer = "none", h.peer = "open", h.shakes = k.shakes, h.inbox = k.inbox,
         h.outbox = k.outbox, h.last = k.last, h.mailed = k.mailed,
         h.stray = k.stray,
         h.pending = IF x = "smtp" THEN <<"hello">> ELSE <<>>
  PROVE  Fits(x, h, s)
<1>1. k = NoPeer /\ s.pc = "none"
  BY DEF Fits, Rested
<1>2. /\ k.inbox = <<>> /\ k.outbox = <<>> /\ k.pending = <<>>
      /\ k.mailed = FALSE /\ k.stray = FALSE
  BY <1>1 DEF NoPeer
<1>3. Rested(h, s) /\ ~Gone(h)
  BY <1>1, <1>2 DEF Fits, Rested, Gone
<1>4. Healthy(x, k, s)
  BY DEF Fits, Gone
<1>5. Line(h, s) = Line(k, s)
  BY DEF Line
<1>6. AnswersAll(x, h, s)
  <2>1. CASE x = "smtp"
    <3> DEFINE t == Due(x, k, s)
               u == Due(x, h, s)
               w == ReplyTo(s)
    <3>1. Replying(x, k, s) = 0 /\ Replying(x, h, s) = 1 /\ w = "hello"
      BY <1>1, <2>1 DEF Replying, ReplyTo
    <3>2. Laid(t, <<>>, 0, w, <<>>) /\ Laid(u, <<>>, 1, "hello", <<>>)
      BY <1>2, <3>1, DueIsLaid
    <3>3. AsksFor(t, <<>>)
      BY <1>2, <1>4, <2>1 DEF Healthy, AnswersAll
    <3>4. <<>> \in Seq(Words) /\ "hello" \in Words /\ h.pending = Append(<<>>, "hello")
      BY <2>1 DEF Words
    <3> HIDE DEF t, u, w
    <3>5. AsksFor(u, Append(<<>>, "hello"))
      BY <3>2, <3>3, <3>4, LaidHello
    <3> QED
      BY <3>4, <3>5 DEF AnswersAll, u
  <2>2. CASE x # "smtp"
    <3>1. Replying(x, k, s) = Replying(x, h, s)
      BY <1>1, <2>2 DEF Replying
    <3>2. Due(x, h, s) = Due(x, k, s) /\ h.pending = k.pending
      BY <1>2, <2>2, <3>1 DEF Due
    <3> QED
      BY <1>4, <3>2 DEF Healthy, AnswersAll
  <2> QED
    BY <2>1, <2>2
<1>7. Remembers(h, s)
  <2>1. Len(h.outbox) + Writing(s) = 0 /\ h.mailed = FALSE
    BY <1>1, <1>2 DEF Writing
  <2> DEFINE f == [i \in 0..0 |-> FALSE]
  <2>2. f \in [0..0 -> BOOLEAN] /\ f[0] = FALSE /\ 1..0 = {}
    OBVIOUS
  <2> HIDE DEF f
  <2>3. Knows(FALSE, Book(h, s), 0, Minds(h, s))
    BY <2>2 DEF Knows
  <2> QED
    BY <2>1, <2>3 DEF Remembers
<1> QED
  BY <1>2, <1>3, <1>4, <1>5, <1>6, <1>7 DEF Fits, Healthy, Shaken, Named

\* A peer says something of a handshake.
LEMMA PeerShakesFits ==
  ASSUME NEW x, NEW k, NEW s, NEW h, Typed(k, s), Typed(h, s), Fits(x, k, s),
         x # "smtp", k.peer = "open", k.shakes \in {0, 4},
         h.peer = k.peer, h.shakes = k.shakes + 1, h.inbox = Append(k.inbox, "shake"),
         h.outbox = k.outbox, h.pending = k.pending, h.last = k.last, h.mailed = k.mailed,
         h.stray = k.stray
  PROVE  Fits(x, h, s)
<1>1. Rested(h, s) /\ ~Gone(h)
  BY DEF Fits, Rested, Gone
<1>2. Healthy(x, k, s)
  BY DEF Fits, Gone
<1>3. Line(h, s) = Line(k, s)
  BY DEF Line
<1>4. k.inbox = <<>> /\ s.pc \notin {"read", "body", "astray", "write", "alert", "shut"}
  BY <1>2 DEF Healthy, Shaken
<1>5. Shaken(x, h, s)
  <2>1. h.inbox = <<"shake">> /\ h.inbox # <<>> /\ h.inbox[1] = "shake"
    BY <1>4
  <2>2. NoShake(h.inbox, 1)
    BY <2>1 DEF NoShake
  <2> QED
    BY <1>4, <2>1, <2>2 DEF Shaken
<1>6. ASSUME AsksFor(Due(x, k, s), k.pending) PROVE AsksFor(Due(x, h, s), h.pending)
  <2> DEFINE t == Due(x, k, s)
             u == Due(x, h, s)
             w == ReplyTo(s)
             n == Replying(x, k, s)
             b == k.inbox
  <2>1. Replying(x, h, s) = n
    BY DEF Replying
  <2>2. Laid(t, k.outbox, n, w, b) /\ Laid(u, k.outbox, n, w, Append(b, "shake"))
    BY <2>1, DueIsLaid
  <2>3. AsksFor(t, k.pending) /\ b \in Seq(Words) /\ "shake" \in Words
    BY <1>6 DEF Typed, Words
  <2> HIDE DEF t, u, w, n, b
  <2>4. AsksFor(u, k.pending)
    BY <2>2, <2>3, LaidShakes
  <2> QED
    BY <2>4 DEF u
<1>7. AnswersAll(x, h, s)
  BY <1>2, <1>6 DEF Healthy, AnswersAll
<1> QED
  BY <1>1, <1>2, <1>3, <1>5, <1>7 DEF Fits, Healthy, Named

\* What a peer appends to what it has said.
LEMMA NoShakeSaid ==
  ASSUME NEW S, NEW b \in Seq(S), NEW c \in S, c # "shake", NEW n \in {0, 1}, NoShake(b, n)
  PROVE  NoShake(Append(b, c), n) /\ (b # <<>> => Append(b, c)[1] = b[1])
<1>1. /\ Len(b) \in Nat /\ DOMAIN b = 1..Len(b) /\ DOMAIN Append(b, c) = 1..Len(b) + 1
      /\ \A i \in 1..Len(b) : Append(b, c)[i] = b[i]
      /\ Append(b, c)[Len(b) + 1] = c
  BY AppendProperties, LenProperties
<1>2. ASSUME NEW i \in 1..Len(b) + 1, n < i PROVE Append(b, c)[i] # "shake"
  <2>1. CASE i \in 1..Len(b)
    BY <1>1, <1>2, <2>1 DEF NoShake
  <2>2. CASE i = Len(b) + 1
    BY <1>1, <2>2
  <2> QED
    BY <1>1, <2>1, <2>2
<1>3. b # <<>> => 1 \in 1..Len(b)
  BY <1>1, EmptySeq
<1> QED
  BY <1>1, <1>2, <1>3 DEF NoShake

\* A peer sends a command.
LEMMA SendsFits ==
  ASSUME NEW x, NEW k, NEW s, NEW h, Typed(k, s), Typed(h, s), Fits(x, k, s),
         NEW c \in Words, c \notin {"part", "shake", "end"},
         k.peer = "open", x = "smtp" \/ k.shakes \in {5, 6},
         h.peer = k.peer, h.shakes = k.shakes, h.inbox = Append(k.inbox, c),
         h.outbox = k.outbox, h.pending = Append(k.pending, c), h.last = k.last,
         h.mailed = k.mailed, h.stray = k.stray
  PROVE  Fits(x, h, s)
<1>1. Rested(h, s) /\ ~Gone(h)
  BY DEF Fits, Rested, Gone
<1>2. Healthy(x, k, s)
  BY DEF Fits, Gone
<1>3. Line(h, s) = Line(k, s)
  BY DEF Line
<1>4. k.inbox \in Seq(Words) /\ k.pending \in Seq(Words)
  BY DEF Typed
<1>5. Shaken(x, h, s)
  <2>1. CASE x = "smtp"
    <3>1. NoShake(k.inbox, 0) /\ s.pc \notin {"shake", "alert", "shut"}
      BY <1>2, <2>1 DEF Healthy, Shaken
    <3>2. NoShake(h.inbox, 0)
      BY <1>4, <3>1, NoShakeSaid
    <3> QED
      BY <2>1, <3>1, <3>2 DEF Shaken
  <2>2. CASE x # "smtp" /\ k.shakes = 5
    <3>1. /\ k.inbox # <<>> /\ k.inbox[1] = "shake" /\ NoShake(k.inbox, 1)
          /\ s.pc \notin {"read", "body", "astray", "write", "alert", "shut"}
      BY <1>2, <2>2 DEF Healthy, Shaken
    <3>2. NoShake(h.inbox, 1) /\ h.inbox[1] = "shake"
      BY <1>4, <3>1, NoShakeSaid
    <3>3. h.inbox # <<>>
      BY <1>4, AppendProperties
    <3> QED
      BY <2>2, <3>1, <3>2, <3>3 DEF Shaken
  <2>3. CASE x # "smtp" /\ k.shakes = 6
    <3>1. NoShake(k.inbox, 0)
      BY <1>2, <2>3 DEF Healthy, Shaken
    <3>2. NoShake(h.inbox, 0)
      BY <1>4, <3>1, NoShakeSaid
    <3> QED
      BY <2>3, <3>2 DEF Shaken
  <2> QED
    BY <2>1, <2>2, <2>3
<1>6. ASSUME AsksFor(Due(x, k, s), k.pending) PROVE AsksFor(Due(x, h, s), h.pending)
  <2> DEFINE t == Due(x, k, s)
             u == Due(x, h, s)
             w == ReplyTo(s)
             n == Replying(x, k, s)
             b == k.inbox
             g == k.pending
  <2>1. Replying(x, h, s) = n
    BY DEF Replying
  <2>2. Laid(t, k.outbox, n, w, b) /\ Laid(u, k.outbox, n, w, Append(b, c))
    BY <2>1, DueIsLaid
  <2>3. AsksFor(t, g) /\ b \in Seq(Words) /\ g \in Seq(Words)
    BY <1>4, <1>6
  <2> HIDE DEF t, u, w, n, b, g
  <2>4. AsksFor(u, Append(g, c))
    BY <2>2, <2>3, LaidSays
  <2> QED
    BY <2>4 DEF u, g
<1>7. AnswersAll(x, h, s)
  BY <1>2, <1>6 DEF Healthy, AnswersAll
<1>8. Book(h, s) = Book(k, s) /\ (Minds(k, s) => Minds(h, s))
  BY DEF Book, Minds
<1>9. Remembers(k, s) => Remembers(h, s)
  BY <1>8, KnowsLess DEF Remembers
<1> QED
  BY <1>1, <1>2, <1>3, <1>5, <1>7, <1>9 DEF Fits, Healthy, Named

\* A peer shuts its end down, or leaves.
LEMMA HalfFits ==
  ASSUME NEW x, NEW k, NEW s, NEW h, Typed(k, s), Typed(h, s), Fits(x, k, s),
         k.peer = "open", h.peer = "half", h.shakes = k.shakes, h.inbox = k.inbox,
         h.outbox = k.outbox, h.pending = k.pending, h.last = k.last,
         h.mailed = k.mailed, h.stray = k.stray
  PROVE  Fits(x, h, s)
<1>1. Rested(h, s) /\ ~Gone(h)
  BY DEF Fits, Rested, Gone
<1>2. Healthy(x, k, s)
  BY DEF Fits, Gone
<1>3. Line(h, s) = Line(k, s) /\ Replying(x, h, s) = Replying(x, k, s)
  BY DEF Line, Replying
<1>4. Due(x, h, s) = Due(x, k, s)
  BY <1>3 DEF Due
<1>5. Book(h, s) = Book(k, s) /\ (Minds(k, s) => Minds(h, s))
  BY DEF Book, Minds
<1>6. Remembers(k, s) => Remembers(h, s)
  BY <1>5, KnowsLess DEF Remembers
<1> QED
  BY <1>1, <1>2, <1>3, <1>4, <1>6 DEF Fits, Healthy, Named, Shaken, AnswersAll

LEMMA LeavesFits ==
  ASSUME NEW x, NEW k, NEW s, NEW h, Fits(x, k, s),
         k.peer \in {"open", "half"}, h.peer \in {"gone", "reset"},
         h.outbox = <<>>, h.mailed = FALSE
  PROVE  Fits(x, h, s)
<1>1. Rested(h, s)
  BY DEF Fits, Rested
<1> QED
  BY <1>1 DEF Fits, Gone

\* A peer takes a unit.
Taken(k, h, u) ==
  /\ k.peer \in {"open", "half"} /\ k.outbox # <<>> /\ u = Head(k.outbox)
  /\ h.peer = k.peer /\ h.shakes = k.shakes /\ h.inbox = k.inbox /\ h.stray = k.stray
  /\ h.outbox = Tail(k.outbox) /\ h.last = IF u.i = 0 THEN k.last ELSE u.i
  /\ IF ~Final(u) \/ u.to = "end" \/ k.pending = <<>>
       THEN h.pending = k.pending /\ h.mailed = k.mailed
       ELSE /\ h.pending = Tail(k.pending)
            /\ h.mailed = IF u.to \in Bodies \cup {"rset"} THEN FALSE
                          ELSE k.mailed \/ (u.to = "mail" /\ u.code = 250)

LEMMA TakesFits ==
  ASSUME NEW x, NEW k, NEW s, NEW h, NEW u, Typed(k, s), Typed(h, s), Fits(x, k, s),
         Taken(k, h, u)
  PROVE  Fits(x, h, s)
<1> USE DEF Taken
<1>1. Rested(h, s) /\ ~Gone(h)
  BY DEF Fits, Rested, Gone
<1>2. Healthy(x, k, s)
  BY DEF Fits, Gone
<1> DEFINE o == k.outbox
           q == h.outbox
           p == s.p
           b == k.inbox
           g == k.pending
<1>3. /\ Len(o) \in Nat \ {0} /\ DOMAIN o = 1..Len(o) /\ o[1] = u /\ u \in Told
      /\ DOMAIN q = 1..Len(o) - 1 /\ \A i \in 1..Len(o) - 1 : q[i] = o[i + 1]
  BY Rests, ElementOfSeq DEF Typed
<1>4. o \in Seq(Told) /\ q = Tail(o) /\ o # <<>> /\ u = Head(o) /\ g \in Seq(Words)
  BY DEF Typed
<1>5. Consecutive(Line(h, s))
  <2> DEFINE t == Line(k, s)
             v == Line(h, s)
             l == k.last
             m == h.last
  <2>1. Streamed(t, l, o, p) /\ Streamed(v, m, q, p)
    BY LineIsStreamed
  <2>2. Consecutive(t) /\ m = IF u.i = 0 THEN l ELSE u.i
    BY <1>2 DEF Healthy
  <2> HIDE DEF o, q, p, t, v, l, m
  <2>3. Took(t, v)
    BY <1>4, <2>1, <2>2, StreamedTaken
  <2>4. Consecutive(v)
    BY <2>2, <2>3, UnitTaken
  <2> QED
    BY <2>4 DEF v
<1>6. NoneFinal(o) /\ NoneFinal(q)
  <2>1. NoneFinal(o)
    BY <1>2 DEF Healthy, Named
  <2> SUFFICES ASSUME NEW i \in DOMAIN q, q[i].to = "shake" PROVE q[i].i = 0
    BY <2>1 DEF NoneFinal
  <2> HIDE DEF o, q
  <2>2. i + 1 \in DOMAIN o /\ q[i] = o[i + 1]
    BY <1>3
  <2> QED
    BY <2>1, <2>2 DEF NoneFinal
<1>7. Final(u) => u.to # "shake" /\ u.to # "part"
  <2>1. u.to = "shake" => u.i = 0
    BY <1>3, <1>6 DEF NoneFinal
  <2>2. u.to \in Words /\ 0 # Length
    BY <1>3, SocketsAssumption DEF Told
  <2> QED
    BY <2>1, <2>2 DEF Final, Words, SmtpCommands, Bodies
<1>8. ASSUME AsksFor(Due(x, k, s), g)
      PROVE  /\ Final(u) /\ u.to # "end" => g # <<>>
             /\ AsksFor(Due(x, h, s), h.pending)
  <2> DEFINE t == Due(x, k, s)
             v == Due(x, h, s)
             w == ReplyTo(s)
             n == Replying(x, k, s)
  <2>1. Replying(x, h, s) = n
    BY DEF Replying
  <2>2. Laid(t, o, n, w, b) /\ Laid(v, q, n, w, b)
    BY <2>1, DueIsLaid
  <2>3. AsksFor(t, g)
    BY <1>8
  <2> HIDE DEF o, q, b, t, v, w, n, g
  <2>4. Rest1(t, v) /\ t[1] = IF Final(u) THEN u.to ELSE "part"
    BY <1>4, <2>2, LaidTaken
  <2>5. CASE ~Final(u) \/ u.to = "end"
    <3>1. t[1] \in {"part", "shake", "end"}
      BY <2>4, <2>5
    <3>2. AsksFor(v, g)
      BY <2>3, <2>4, <3>1, SkipsFirst
    <3> QED
      BY <2>5, <3>2 DEF v, g
  <2>6. CASE Final(u) /\ u.to # "end"
    <3>1. t[1] \notin {"part", "shake", "end"}
      BY <1>7, <2>4, <2>6
    <3>2. g # <<>> /\ AsksFor(v, Tail(g))
      BY <1>4, <2>3, <2>4, <3>1, TakesFirst
    <3> QED
      BY <2>6, <3>2 DEF v, g
  <2> QED
    BY <2>5, <2>6
<1>9. AnswersAll(x, h, s)
  BY <1>2, <1>8 DEF Healthy, AnswersAll
<1>10. x = "smtp" /\ ~h.stray => Remembers(h, s)
  <2> SUFFICES ASSUME x = "smtp", ~h.stray PROVE Remembers(h, s)
    OBVIOUS
  <2>1. Final(u) /\ u.to # "end" => g # <<>>
    BY <1>2, <1>8 DEF Healthy, AnswersAll
  <2>2. h.mailed = Learns(k.mailed, u)
    <3>1. CASE ~Final(u)
      BY <3>1 DEF Learns
    <3>2. CASE Final(u) /\ u.to = "end"
      <4>1. h.mailed = k.mailed /\ k.mailed \in BOOLEAN
        BY <3>2 DEF Typed
      <4> QED
        BY <3>2, <4>1 DEF Learns, Bodies
    <3>3. CASE Final(u) /\ u.to # "end"
      <4>1. h.mailed = IF u.to \in Bodies \cup {"rset"} THEN FALSE
                       ELSE k.mailed \/ (u.to = "mail" /\ u.code = 250)
        BY <2>1, <3>3
      <4>2. CASE u.to \in Bodies \cup {"rset"}
        BY <3>3, <4>1, <4>2 DEF Learns
      <4>3. CASE u.to \notin Bodies \cup {"rset"}
        BY <3>3, <4>1, <4>3 DEF Learns
      <4> QED
        BY <4>2, <4>3
    <3> QED
      BY <3>1, <3>2, <3>3
  <2> DEFINE t == Book(k, s)
             v == Book(h, s)
             n == Writing(s)
             w == LastUnit(s)
             e == Minds(k, s)
             m == k.mailed
  <2>3. Followed(t, o, n, w) /\ Followed(v, q, n, w)
    BY BookIsFollowed
  <2>4. Knows(m, t, Len(o) + n, e)
    BY <1>2 DEF Healthy, Remembers
  <2>5. Minds(h, s) = e
    BY DEF Minds
  <2> HIDE DEF o, q, t, v, n, w, e, m
  <2>6. Knows(Learns(m, u), v, Len(q) + n, e)
    BY <1>4, <2>3, <2>4, FollowedTaken
  <2> QED
    BY <2>2, <2>5, <2>6 DEF Remembers, v, n, m, q
<1> QED
  BY <1>1, <1>2, <1>5, <1>6, <1>9, <1>10 DEF Fits, Healthy, Shaken, Named

-----------------------------------------------------------------------------
(* Each action is one of those steps *)

FitsInv == \A c \in Conns : Fits(kind, conn[c], sess[c])

\* A sequence of some elements is one of more.
LEMMA WiderSeq ==
  ASSUME NEW A, NEW B, A \subseteq B, NEW t \in Seq(A)
  PROVE  t \in Seq(B)
<1>1. Len(t) \in Nat /\ t = [i \in 1..Len(t) |-> t[i]] /\ \A i \in 1..Len(t) : t[i] \in B
  BY LenProperties, ElementOfSeq
<1>2. [i \in 1..Len(t) |-> t[i]] \in Seq(B)
  BY <1>1
<1> QED
  BY <1>1, <1>2

\* Records of the right types, whatever the program's commands.
LEMMA RecordsTyped ==
  ASSUME NEW C, C \subseteq SmtpCommands \cup {"line"}, NEW k, NEW s,
         k.inbox \in Seq(C \cup {"shake"}), k.pending \in Seq(C \cup {"hello"}),
         k.outbox \in Seq([i : 0..Length, to : C \cup {"hello", "shake", "end"}, code : Codes]),
         k.last \in 1..Length, k.mailed \in BOOLEAN, s.p \in 1..Length, s.env \in BOOLEAN,
         s.reply.to \in C \cup {"hello", "shake", "end"}, s.reply.code \in Codes
  PROVE  Typed(k, s)
<1> DEFINE D == [i : 0..Length, to : C \cup {"hello", "shake", "end"}, code : Codes]
<1>1. C \cup {"shake"} \subseteq Words /\ C \cup {"hello"} \subseteq Words
      /\ C \cup {"hello", "shake", "end"} \subseteq Words
  BY DEF Words
<1>2. D \subseteq Told
  BY <1>1 DEF Told
<1>3. k.inbox \in Seq(Words) /\ k.pending \in Seq(Words)
  BY <1>1, WiderSeq
<1>4. k.outbox \in Seq(Told)
  <2> HIDE DEF D
  <2>1. k.outbox \in Seq(D)
    BY DEF D
  <2> QED
    BY <1>2, <2>1, WiderSeq
<1> QED
  BY <1>1, <1>3, <1>4 DEF Typed

\* The records of a connection before a step and after it.
LEMMA Ground ==
  ASSUME Inv, Inv', NEW c \in Conns
  PROVE  /\ Typed(conn[c], sess[c]) /\ Typed(conn'[c], sess'[c])
         /\ conn[c] \in ConnType /\ sess[c] \in SessType
         /\ kind \in {"smtp", "s2n", "ssl"}
         /\ \A k : conn' = [conn EXCEPT ![c] = k] => conn'[c] = k
         /\ \A s : sess' = [sess EXCEPT ![c] = s] => sess'[c] = s
<1>1. /\ conn \in [Conns -> ConnType] /\ sess \in [Conns -> SessType]
      /\ conn' \in [Conns -> ConnType'] /\ sess' \in [Conns -> SessType']
      /\ kind \in {"smtp", "s2n", "ssl"}
  BY SocketsAssumption DEF Inv, TypeInv
<1>2. Commands \subseteq SmtpCommands \cup {"line"}
  BY DEF Commands, SmtpCommands, Bodies
<1>3. Commands' \subseteq SmtpCommands \cup {"line"}
  BY DEF Commands, SmtpCommands, Bodies
<1>4. Typed(conn[c], sess[c])
  <2> DEFINE C == Commands
             k == conn[c]
             s == sess[c]
  <2>1. k \in ConnType /\ s \in SessType
    BY <1>1
  <2>2. /\ k.inbox \in Seq(C \cup {"shake"}) /\ k.pending \in Seq(C \cup {"hello"})
        /\ k.outbox \in Seq([i : 0..Length, to : C \cup {"hello", "shake", "end"}, code : Codes])
        /\ k.last \in 1..Length /\ k.mailed \in BOOLEAN
        /\ s.p \in 1..Length /\ s.env \in BOOLEAN /\ s.reply \in Replies
    BY <2>1 DEF ConnType, SessType, Units, Tos
  <2>3. s.reply.to \in C \cup {"hello", "shake", "end"} /\ s.reply.code \in Codes
    BY <2>2 DEF Replies, Tos
  <2> HIDE DEF C, k, s
  <2>4. Typed(k, s)
    BY <1>2, <2>2, <2>3, RecordsTyped DEF C
  <2> QED
    BY <2>4 DEF k, s
<1>5. Typed(conn'[c], sess'[c])
  <2> DEFINE C == Commands'
             k == conn'[c]
             s == sess'[c]
  <2>1. k \in ConnType' /\ s \in SessType'
    BY <1>1
  <2>2. /\ k.inbox \in Seq(C \cup {"shake"}) /\ k.pending \in Seq(C \cup {"hello"})
        /\ k.outbox \in Seq([i : 0..Length, to : C \cup {"hello", "shake", "end"}, code : Codes])
        /\ k.last \in 1..Length /\ k.mailed \in BOOLEAN
        /\ s.p \in 1..Length /\ s.env \in BOOLEAN /\ s.reply \in Replies'
    BY <2>1 DEF ConnType, SessType, Units, Tos, Codes
  <2>3. s.reply.to \in C \cup {"hello", "shake", "end"} /\ s.reply.code \in Codes
    BY <2>2 DEF Replies, Tos, Codes
  <2> HIDE DEF C, k, s
  <2>4. Typed(k, s)
    BY <1>3, <2>2, <2>3, RecordsTyped DEF C
  <2> QED
    BY <2>4 DEF k, s
<1> QED
  BY <1>1, <1>4, <1>5

\* The handshake's actions.
LEMMA FitsHandshake ==
  ASSUME Inv, Inv', FitsInv, NEW c \in Conns, ShakeIn(c) \/ ShakeOut(c) \/ ShakeFails(c)
  PROVE  Fits(kind, conn'[c], sess'[c])
<1> DEFINE x == kind
           k == conn[c]
           s == sess[c]
           h == conn'[c]
           z == sess'[c]
<1>1. /\ Typed(k, s) /\ Typed(h, z) /\ k \in ConnType /\ s \in SessType /\ Fits(x, k, s)
      /\ s.pc \in {"none", "shake"} => k.shakes <= 5
      /\ s.pc # "none" => k.peer # "none"
  BY Ground, Records DEF FitsInv, Inv, BacklogInv
<1>2. CASE ShakeIn(c)
  <2>1. /\ s.pc = "shake" /\ k.inbox # <<>> /\ k.shakes \notin {2, 3}
        /\ conn' = [conn EXCEPT ![c] = [k EXCEPT !.inbox = Tail(k.inbox), !.shakes = k.shakes + 1]]
        /\ sess' = IF k.shakes = 5 THEN [sess EXCEPT ![c] = [s EXCEPT !.pc = "read"]] ELSE sess
    <3>1. /\ s.pc = "shake" /\ k.inbox # <<>> /\ ~Answering(c)
          /\ conn' = [conn EXCEPT ![c].inbox = Tail(@), ![c].shakes = @ + 1]
          /\ sess' = IF k.shakes = 5 THEN [sess EXCEPT ![c] = [s EXCEPT !.pc = "read"]] ELSE sess
      BY <1>2 DEF ShakeIn, Is
    <3>2. k.shakes \notin {2, 3}
      BY <3>1 DEF Answering
    <3>3. conn \in [Conns -> ConnType] /\ k \in ConnType
      BY <1>1 DEF Inv, TypeInv
    <3>4. conn' = [conn EXCEPT ![c] = [k EXCEPT !.inbox = Tail(k.inbox), !.shakes = k.shakes + 1]]
      BY <3>1, <3>3 DEF ConnType
    <3> QED
      BY <3>1, <3>2, <3>4
  <2>2. h = [k EXCEPT !.inbox = Tail(k.inbox), !.shakes = k.shakes + 1]
        /\ z = IF k.shakes = 5 THEN [s EXCEPT !.pc = "read"] ELSE s
    BY <2>1, Ground
  <2>3. k.shakes \in 0..5
    BY <1>1, <2>1 DEF ConnType
  <2>4. /\ h.peer = k.peer /\ h.outbox = k.outbox /\ h.pending = k.pending
        /\ h.last = k.last /\ h.mailed = k.mailed /\ h.inbox = Tail(k.inbox)
        /\ h.shakes = k.shakes + 1 /\ h.stray = k.stray
        /\ z.pc = IF k.shakes = 5 THEN "read" ELSE "shake"
        /\ z.p = s.p /\ z.env = s.env /\ z.reply = s.reply
    <3>1. /\ h.peer = k.peer /\ h.outbox = k.outbox /\ h.pending = k.pending
          /\ h.last = k.last /\ h.mailed = k.mailed /\ h.inbox = Tail(k.inbox)
          /\ h.shakes = k.shakes + 1 /\ h.stray = k.stray
      <4> DEFINE t == Tail(k.inbox)
                 n == k.shakes + 1
      <4>1. h = [k EXCEPT !.inbox = t, !.shakes = n] /\ k \in ConnType
        BY <1>1, <2>2
      <4> HIDE DEF h, k, t, n
      <4>2. /\ h.peer = k.peer /\ h.outbox = k.outbox /\ h.pending = k.pending
            /\ h.last = k.last /\ h.mailed = k.mailed /\ h.inbox = t /\ h.shakes = n
            /\ h.stray = k.stray
        BY <4>1 DEF ConnType
      <4> QED
        BY <4>2 DEF t, n
    <3>2. CASE k.shakes = 5
      <4>1. z = [s EXCEPT !.pc = "read"] /\ s \in SessType
        BY <1>1, <2>2, <3>2
      <4>2. z.pc = "read" /\ z.p = s.p /\ z.env = s.env /\ z.reply = s.reply
        BY <4>1 DEF SessType
      <4> QED
        BY <3>1, <3>2, <4>2
    <3>3. CASE k.shakes # 5
      BY <2>1, <2>2, <3>1, <3>3
    <3> QED
      BY <3>2, <3>3
  <2> HIDE DEF x, k, s, h, z
  <2>5. Fits(x, h, z)
    BY <1>1, <2>1, <2>3, <2>4, ShakeInFits
  <2> QED
    BY <2>5 DEF x, h, z
<1>3. CASE ShakeOut(c)
  <2> DEFINE w == Wrote(c, <<Unit(0, NoReply)>>)
  <2>1. /\ s.pc = "shake" /\ k.shakes \in {2, 3} /\ sess' = sess
        /\ conn' = [conn EXCEPT ![c] = [w EXCEPT !.shakes = w.shakes + 1]]
    BY <1>3 DEF ShakeOut, Answering
  <2>2. h = [w EXCEPT !.shakes = w.shakes + 1] /\ z = s
    BY <2>1, Ground
  <2>3. w = IF k.peer = "gone" THEN [k EXCEPT !.peer = "reset"]
            ELSE [k EXCEPT !.outbox = k.outbox \o <<Unit(0, NoReply)>>]
    BY DEF Wrote
  <2>4. /\ h.shakes = k.shakes + 1
        /\ IF k.peer = "gone" THEN h.peer = "reset" /\ h.mailed = k.mailed
           ELSE /\ h.peer = k.peer /\ h.outbox = k.outbox \o <<Unit(0, NoReply)>>
                /\ h.inbox = k.inbox /\ h.pending = k.pending /\ h.last = k.last
                /\ h.mailed = k.mailed /\ h.stray = k.stray
    <3> DEFINE o == k.outbox \o <<Unit(0, NoReply)>>
    <3>1. CASE k.peer = "gone"
      <4>1. w = [k EXCEPT !.peer = "reset"]
        BY <2>3, <3>1
      <4> QED
        BY <1>1, <2>2, <3>1, <4>1 DEF ConnType
    <3>2. CASE k.peer # "gone"
      <4>1. w = [k EXCEPT !.outbox = o]
        BY <2>3, <3>2
      <4> HIDE DEF o
      <4>2. /\ h.shakes = k.shakes + 1 /\ h.peer = k.peer /\ h.outbox = o
            /\ h.inbox = k.inbox /\ h.pending = k.pending /\ h.last = k.last
            /\ h.mailed = k.mailed /\ h.stray = k.stray
        BY <1>1, <2>2, <4>1 DEF ConnType
      <4> QED
        BY <3>2, <4>2 DEF o
    <3> QED
      BY <3>1, <3>2
  <2> HIDE DEF x, k, s, h, z
  <2>5. Fits(x, h, s)
    BY <1>1, <2>1, <2>2, <2>4, ShakeOutFits
  <2> QED
    BY <2>2, <2>5 DEF x, h, z
<1>4. CASE ShakeFails(c)
  <2>1. s.pc = "shake" /\ conn' = conn
        /\ \/ sess' = [sess EXCEPT ![c] = Over]
           \/ sess' = [sess EXCEPT ![c] = [s EXCEPT !.parked = Wants(c)]]
    BY <1>4 DEF ShakeFails, Is
  <2>2. CASE sess' = [sess EXCEPT ![c] = Over]
    <3>1. h = k /\ z = Over
      BY <2>1, <2>2, Ground
    <3>2. z.pc = "over" /\ z.p = 1
      BY <3>1 DEF Over, Idle
    <3>3. Gone(k) \/ (x # "smtp" /\ s.pc # "write")
      BY <1>1, <2>1 DEF Fits, Healthy, Shaken
    <3> HIDE DEF x, k, s, h, z
    <3>4. Fits(x, k, z)
      BY <1>1, <2>1, <3>2, <3>3, OverFits
    <3> QED
      BY <3>1, <3>4 DEF x, h, z
  <2>3. CASE sess' = [sess EXCEPT ![c] = [s EXCEPT !.parked = Wants(c)]]
    <3>1. h = k /\ z = [s EXCEPT !.parked = Wants(c)]
      BY <2>1, <2>3, Ground
    <3>2. z.pc = s.pc /\ z.p = s.p /\ z.env = s.env /\ z.reply = s.reply
      BY <1>1, <3>1 DEF SessType
    <3> HIDE DEF x, k, s, h, z
    <3>3. Fits(x, k, z)
      BY <1>1, <3>2, WaitFits
    <3> QED
      BY <3>1, <3>3 DEF x, h, z
  <2> QED
    BY <2>1, <2>2, <2>3
<1> QED
  BY <1>2, <1>3, <1>4

\* Waiting, waking up, and the end of the process.
LEMMA FitsWaiting ==
  ASSUME Inv, Inv', FitsInv, NEW c \in Conns, Parks(c) \/ Woken(c) \/ Killed(c)
  PROVE  Fits(kind, conn'[c], sess'[c])
<1> DEFINE x == kind
           k == conn[c]
           s == sess[c]
           z == sess'[c]
<1>1. s \in SessType /\ Fits(x, k, s)
  BY Ground DEF FitsInv
<1>2. conn'[c] = k /\ (sess' = sess \/ \E dir : sess' = [sess EXCEPT ![c] = [s EXCEPT !.parked = dir]])
  BY DEF Parks, Woken, Killed
<1>3. z = s \/ \E dir : z = [s EXCEPT !.parked = dir]
  BY <1>2, Ground
<1>4. z.pc = s.pc /\ z.p = s.p /\ z.env = s.env /\ z.reply = s.reply
  BY <1>1, <1>3 DEF SessType
<1> HIDE DEF x, k, s, z
<1>5. Fits(x, k, z)
  BY <1>1, <1>4, WaitFits
<1> QED
  BY <1>2, <1>5 DEF x, z

\* What a session writes.
LEMMA FitsWrite ==
  ASSUME Inv, Inv', FitsInv, NEW c \in Conns, Write(c)
  PROVE  Fits(kind, conn'[c], sess'[c])
<1> DEFINE x == kind
           k == conn[c]
           s == sess[c]
           h == conn'[c]
           z == sess'[c]
<1>1. /\ Typed(k, s) /\ Typed(h, z) /\ k \in ConnType /\ s \in SessType /\ Fits(x, k, s)
      /\ s.pc # "none" => k.peer # "none"
  BY Ground DEF FitsInv, Inv, BacklogInv
<1>2. s.pc = "write"
  BY DEF Write, Is
<1>3. PICK n \in 1..(Length + 1 - s.p) :
        /\ conn' = [conn EXCEPT ![c] = Wrote(c, UnitsOf(s, n))]
        /\ sess' = [sess EXCEPT ![c] =
                      IF s.p + n <= Length THEN [s EXCEPT !.p = s.p + n]
                      ELSE IF s.reply.next = "over" THEN Over
                      ELSE [s EXCEPT !.pc = s.reply.next, !.p = 1, !.reply = NoReply,
                                     !.got = "none"]]
  BY DEF Write, Advanced, UnitsOf
<1>4. h = Wrote(c, UnitsOf(s, n))
  BY <1>3, Ground
<1>5. /\ h.shakes = k.shakes
      /\ IF k.peer = "gone" THEN h.peer = "reset" /\ h.mailed = k.mailed
         ELSE /\ h.peer = k.peer
              /\ h.outbox = k.outbox \o UnitsOf(s, n)
              /\ h.inbox = k.inbox /\ h.pending = k.pending /\ h.last = k.last
              /\ h.mailed = k.mailed /\ h.stray = k.stray
  <2>1. h = IF k.peer = "gone" THEN [k EXCEPT !.peer = "reset"]
            ELSE [k EXCEPT !.outbox = k.outbox \o UnitsOf(s, n)]
    BY <1>4 DEF Wrote
  <2> QED
    BY <1>1, <2>1 DEF ConnType
<1>6. z = IF s.p + n <= Length THEN [s EXCEPT !.p = s.p + n]
          ELSE IF s.reply.next = "over" THEN Over
          ELSE [s EXCEPT !.pc = s.reply.next, !.p = 1, !.reply = NoReply, !.got = "none"]
  BY <1>3, Ground
<1>7. s.reply.next \in {"read", "body", "over"}
  BY <1>1 DEF SessType, Replies
<1>8. IF s.p + n <= Length
        THEN z.pc = "write" /\ z.p = s.p + n /\ z.reply = s.reply /\ z.env = s.env
        ELSE /\ z.pc \in {"read", "body", "over"} /\ z.p = 1
             /\ z.env = s.env \/ z.pc = "over"
  <2>1. CASE s.p + n <= Length
    BY <1>1, <1>2, <1>6, <2>1 DEF SessType
  <2>2. CASE ~(s.p + n <= Length) /\ s.reply.next = "over"
    BY <1>6, <2>2 DEF Over, Idle
  <2>3. CASE ~(s.p + n <= Length) /\ s.reply.next # "over"
    BY <1>1, <1>6, <1>7, <2>3 DEF SessType
  <2> QED
    BY <2>1, <2>2, <2>3
<1>9. k.peer # "none"
  BY <1>1, <1>2
<1> HIDE DEF x, k, s, h, z
<1>10. Fits(x, h, z)
  BY <1>1, <1>2, <1>3, <1>5, <1>8, <1>9, WriteFits
<1> QED
  BY <1>10 DEF x, h, z

\* shutdown, and what ends a session that writes.
LEMMA FitsShutdown ==
  ASSUME Inv, Inv', FitsInv, NEW c \in Conns, WriteThrows(c) \/ Alert(c) \/ Shut(c)
  PROVE  Fits(kind, conn'[c], sess'[c])
<1> DEFINE x == kind
           k == conn[c]
           s == sess[c]
           h == conn'[c]
           z == sess'[c]
<1>1. /\ Typed(k, s) /\ Typed(h, z) /\ k \in ConnType /\ s \in SessType /\ Fits(x, k, s)
      /\ s.pc # "none" => k.peer # "none"
      /\ Over.pc = "over" /\ Over.p = 1
  BY Ground DEF FitsInv, Inv, BacklogInv, Over, Idle
<1>2. CASE WriteThrows(c)
  <2>1. s.pc \in {"write", "alert"} /\ k.peer = "reset" /\ conn' = conn
        /\ sess' = [sess EXCEPT ![c] = Over]
    BY <1>2 DEF WriteThrows, Is, AfterError
  <2>2. h = k /\ z = Over /\ Gone(k)
    BY <2>1, Ground DEF Gone
  <2> HIDE DEF x, k, s, h, z
  <2>3. Fits(x, k, z)
    BY <1>1, <2>1, <2>2, OverFits
  <2> QED
    BY <2>2, <2>3 DEF x, h, z
<1>3. CASE Alert(c)
  <2> DEFINE y == <<Unit(0, s.reply)>>
  <2>1. s.pc = "alert"
        /\ conn' = [conn EXCEPT ![c] = Wrote(c, y)]
        /\ sess' = [sess EXCEPT ![c] = IF x = "ssl" THEN Over ELSE [s EXCEPT !.pc = "shut"]]
    BY <1>3 DEF Alert, Is
  <2>2. h = Wrote(c, y) /\ z = IF x = "ssl" THEN Over ELSE [s EXCEPT !.pc = "shut"]
    BY <2>1, Ground
  <2>3. /\ h.shakes = k.shakes
        /\ IF k.peer = "gone" THEN h.peer = "reset" /\ h.mailed = k.mailed
           ELSE /\ h.peer = k.peer /\ h.outbox = k.outbox \o y
                /\ h.inbox = k.inbox /\ h.last = k.last /\ h.mailed = k.mailed
    <3>1. h = IF k.peer = "gone" THEN [k EXCEPT !.peer = "reset"]
              ELSE [k EXCEPT !.outbox = k.outbox \o y]
      BY <2>2 DEF Wrote
    <3> HIDE DEF y
    <3> QED
      BY <1>1, <3>1 DEF ConnType
  <2>4. s.p = 1 /\ k.peer # "none"
    BY <1>1, <2>1 DEF Fits, Rested
  <2>5. z.pc \in {"shut", "over"} /\ z.p = 1
    BY <1>1, <2>2, <2>4 DEF SessType
  <2> HIDE DEF x, k, s, h, z
  <2>6. Fits(x, h, z)
    BY <1>1, <2>1, <2>3, <2>4, <2>5, AlertFits DEF y
  <2> QED
    BY <2>6 DEF x, h, z
<1>4. CASE Shut(c)
  <2>1. s.pc = "shut" /\ (x # "smtp" \/ Gone(k))
    BY <1>1, <1>4 DEF Shut, Is, Fits, Healthy, Shaken
  <2>2. CASE AtEnd(c)
    <3>1. conn' = conn /\ sess' = [sess EXCEPT ![c] = Over]
      BY <1>4, <2>2 DEF Shut
    <3>2. h = k /\ z = Over
      BY <3>1, Ground
    <3> HIDE DEF x, k, s, h, z
    <3>3. Fits(x, k, z)
      BY <1>1, <2>1, <3>2, OverFits
    <3> QED
      BY <3>2, <3>3 DEF x, h, z
  <2>3. CASE ~AtEnd(c)
    <3>1. /\ conn' = [conn EXCEPT ![c] = [k EXCEPT !.inbox = Tail(k.inbox)]] /\ sess' = sess
          /\ k.inbox # <<>>
      BY <1>4, <2>3 DEF Shut, KernelReady, AtEnd
    <3>2. h = [k EXCEPT !.inbox = Tail(k.inbox)] /\ z = s
      BY <3>1, Ground
    <3>3. /\ h.inbox = Tail(k.inbox) /\ h.peer = k.peer /\ h.outbox = k.outbox
          /\ h.last = k.last /\ h.mailed = k.mailed /\ h.shakes = k.shakes
      BY <1>1, <3>2 DEF ConnType
    <3>4. CASE x # "smtp"
      <4> HIDE DEF x, k, s, h, z
      <4>1. Fits(x, h, s)
        BY <1>1, <2>1, <3>1, <3>2, <3>3, <3>4, DropFits
      <4> QED
        BY <3>2, <4>1 DEF x, h, z
    <3>5. CASE x = "smtp"
      <4>1. Gone(k) /\ Gone(h) /\ Rested(h, z)
        BY <1>1, <2>1, <3>2, <3>3, <3>5 DEF Fits, Rested, Gone
      <4> QED
        BY <1>1, <3>3, <4>1 DEF Fits
    <3> QED
      BY <3>4, <3>5
  <2> QED
    BY <2>2, <2>3
<1> QED
  BY <1>2, <1>3, <1>4

\* What smtp_session makes of a command: a transaction that has its MAIL keeps it.
LEMMA AnswerKeeps ==
  ASSUME NEW cmd, NEW env \in BOOLEAN
  PROVE  /\ cmd = "rcpt" /\ env => Answer(cmd, env).code = 250
         /\ /\ cmd \notin Bodies \cup {"rset"}
            /\ env \/ (cmd = "mail" /\ Answer(cmd, env).code = 250)
            => Answer(cmd, env).env
<1>1. CASE cmd \in {"mail", "mail1", "mail0"}
  <2>1. Found(cmd, env) = env \/ Found(cmd, env) = TRUE
    BY DEF Found
  <2>2. Answer(cmd, env).env = Found(cmd, env) /\ (cmd = "mail" => Found(cmd, env) = TRUE)
    BY <1>1 DEF Answer, Bodies, Found
  <2>3. cmd # "rcpt"
    BY <1>1
  <2>4. env => Found(cmd, env)
    BY <2>1
  <2> QED
    BY <2>2, <2>3, <2>4
<1>2. CASE cmd = "rcpt"
  BY <1>2 DEF Answer, Bodies
<1>3. CASE cmd \in {"data", "quit"}
  BY <1>3 DEF Answer, Bodies
<1>4. CASE cmd \in Bodies \cup {"rset"}
  BY <1>4 DEF Bodies
<1>5. CASE cmd \notin {"mail", "mail1", "mail0", "rcpt", "data", "quit", "rset"} \cup Bodies
  BY <1>5 DEF Answer, Bodies
<1> QED
  BY <1>1, <1>2, <1>3, <1>4, <1>5

\* What a session reads.
LEMMA FitsReads ==
  ASSUME Inv, Inv', FitsInv, NEW c \in Conns,
         \/ ReadCommand(c) \/ ReadOn(c) \/ ReadPastEnd(c) \/ ReadLine(c)
         \/ ReadRecord(c) \/ ReadEnd(c) \/ ReadThrows(c)
  PROVE  Fits(kind, conn'[c], sess'[c])
<1> DEFINE x == kind
           k == conn[c]
           s == sess[c]
           h == conn'[c]
           z == sess'[c]
           Left == /\ h.inbox = Tail(k.inbox) /\ h.peer = k.peer /\ h.outbox = k.outbox
                   /\ h.pending = k.pending /\ h.last = k.last /\ h.mailed = k.mailed
                   /\ h.shakes = k.shakes /\ h.stray = k.stray
<1>1. /\ Typed(k, s) /\ Typed(h, z) /\ k \in ConnType /\ s \in SessType /\ Fits(x, k, s)
      /\ Over.pc = "over" /\ Over.p = 1 /\ s.env \in BOOLEAN
  BY Ground DEF FitsInv, Over, Idle, SessType
<1>2. ASSUME conn' = [conn EXCEPT ![c] = [k EXCEPT !.inbox = Tail(k.inbox)]] PROVE Left
  <2>1. h = [k EXCEPT !.inbox = Tail(k.inbox)]
    BY <1>2, Ground
  <2> QED
    BY <1>1, <2>1 DEF ConnType
<1>3. CASE ReadCommand(c)
  <2> DEFINE cmd == Head(k.inbox)
             a == Answer(cmd, s.env)
  <2>1. /\ x = "smtp" /\ s.pc \in {"read", "body", "astray"} /\ k.inbox # <<>>
        /\ sess' = [sess EXCEPT ![c] = Handled(c, cmd, cmd)]
        /\ conn' = [conn EXCEPT ![c] = [k EXCEPT !.inbox = Tail(k.inbox)]]
    BY <1>3 DEF ReadCommand, Finds, InBody, Is, Rest
  <2>2. z = Handled(c, cmd, cmd)
    BY <2>1, Ground
  <2>3. Left
    BY <1>2, <2>1
  <2>4. /\ z.pc = "write" /\ z.p = s.p /\ z.env = a.env
        /\ z.reply = [to |-> cmd, code |-> a.code, next |-> a.next]
    <3> HIDE DEF cmd
    <3> QED
      BY <1>1, <2>2 DEF Handled, SessType
  <2>5. z.reply.to = cmd /\ z.reply.code = a.code
    BY <2>4
  <2>6. /\ cmd = "rcpt" /\ s.env => a.code = 250
        /\ /\ cmd \notin Bodies \cup {"rset"}
           /\ s.env \/ (cmd = "mail" /\ a.code = 250)
           => a.env
    BY <1>1, AnswerKeeps
  <2> HIDE DEF x, k, s, h, z, cmd, a
  <2>7. Fits(x, h, z)
    BY <1>1, <2>1, <2>3, <2>4, <2>5, <2>6, ReadFits DEF cmd
  <2> QED
    BY <2>7 DEF x, h, z
<1>4. CASE ReadPastEnd(c)
  <2>1. /\ x = "smtp" /\ s.pc \in {"read", "body", "astray"} /\ k.inbox = <<>>
        /\ k.peer # "open"
        /\ conn' = conn
        /\ \E cmd : sess' = [sess EXCEPT ![c] = Handled(c, cmd, "end")]
    BY <1>4 DEF ReadPastEnd, InBody, Is, AtEnd
  <2>2. PICK cmd : z = Handled(c, cmd, "end")
    BY <2>1, Ground
  <2>3. h = k
    BY <2>1
  <2>4. z.pc = "write" /\ z.p = s.p /\ z.reply.to = "end"
    BY <1>1, <2>2 DEF Handled, SessType
  <2> HIDE DEF x, k, s, h, z
  <2>5. Fits("smtp", k, z)
    BY <1>1, <2>1, <2>3, <2>4, EndFits
  <2> QED
    BY <2>1, <2>3, <2>5 DEF x, h, z
<1>5. CASE ReadLine(c)
  <2> DEFINE cmd == Head(k.inbox)
  <2>1. /\ x = "s2n" /\ s.pc = "read" /\ k.inbox # <<>>
        /\ sess' = [sess EXCEPT ![c] = [s EXCEPT
             !.got = "text", !.pc = IF cmd = "quit" THEN "alert" ELSE "write",
             !.reply = [to |-> cmd, code |-> 0, next |-> "read"]]]
        /\ conn' = [conn EXCEPT ![c] = [k EXCEPT !.inbox = Tail(k.inbox)]]
    <3>1. /\ x = "s2n" /\ s.pc = "read" /\ k.inbox # <<>> /\ Echoing(c, "text", cmd)
          /\ conn' = [conn EXCEPT ![c] = [k EXCEPT !.inbox = Tail(k.inbox)]]
      BY <1>5 DEF ReadLine, Is, Rest
    <3> HIDE DEF cmd
    <3> QED
      BY <3>1 DEF Echoing
  <2>2. Left
    BY <1>2, <2>1
  <2>3. z = [s EXCEPT
             !.got = "text", !.pc = IF cmd = "quit" THEN "alert" ELSE "write",
             !.reply = [to |-> cmd, code |-> 0, next |-> "read"]]
    BY <2>1, Ground
  <2>4. z.pc \in {"write", "alert"} /\ z.p = s.p /\ z.reply.to = cmd
    <3> HIDE DEF cmd
    <3> QED
      BY <1>1, <2>3 DEF SessType
  <2> HIDE DEF x, k, s, h, z, cmd
  <2>5. Fits(x, h, z)
    BY <1>1, <2>1, <2>2, <2>4, ReadFits DEF cmd
  <2> QED
    BY <2>5 DEF x, h, z
<1>6. CASE ReadRecord(c)
  <2>1. /\ x = "ssl" /\ s.pc = "read" /\ k.inbox # <<>>
        /\ \/ \E cmd \in Commands : Echoing(c, "cipher", cmd)
           \/ sess' = [sess EXCEPT ![c] = [s EXCEPT !.got = "cipher"]]
        /\ conn' = [conn EXCEPT ![c] = [k EXCEPT !.inbox = Tail(k.inbox)]]
    BY <1>6 DEF ReadRecord, Is
  <2>2. Left
    BY <1>2, <2>1
  <2>3. /\ z.pc \in {"read", "write", "alert"} /\ z.p = s.p
        /\ z.pc \in {"write", "alert"} => z.reply.to # "shake"
    <3>1. ASSUME NEW cmd \in Commands, Echoing(c, "cipher", cmd)
          PROVE  /\ z.pc \in {"write", "alert"} /\ z.p = s.p /\ z.reply.to # "shake"
      <4>1. sess' = [sess EXCEPT ![c] = [s EXCEPT
              !.got = "cipher", !.pc = IF cmd = "quit" THEN "alert" ELSE "write",
              !.reply = [to |-> cmd, code |-> 0, next |-> "read"]]]
        BY <3>1 DEF Echoing
      <4>2. z = [s EXCEPT
              !.got = "cipher", !.pc = IF cmd = "quit" THEN "alert" ELSE "write",
              !.reply = [to |-> cmd, code |-> 0, next |-> "read"]]
        BY <4>1, Ground
      <4>3. cmd # "shake"
        BY DEF Commands, SmtpCommands, Bodies
      <4> QED
        BY <1>1, <4>2, <4>3 DEF SessType
    <3>2. ASSUME sess' = [sess EXCEPT ![c] = [s EXCEPT !.got = "cipher"]]
          PROVE  z.pc = "read" /\ z.p = s.p
      <4>1. z = [s EXCEPT !.got = "cipher"]
        BY <3>2, Ground
      <4> QED
        BY <1>1, <2>1, <4>1 DEF SessType
    <3> QED
      BY <2>1, <3>1, <3>2
  <2> HIDE DEF x, k, s, h, z
  <2>4. Fits(x, h, z)
    BY <1>1, <2>1, <2>2, <2>3, DropFits
  <2> QED
    BY <2>4 DEF x, h, z
<1>7. CASE ReadEnd(c) \/ ReadThrows(c)
  <2>1. /\ s.pc \in {"read", "body", "astray"} /\ conn' = conn
        /\ sess' = [sess EXCEPT ![c] = Over]
        /\ x # "smtp" \/ k.peer = "reset"
    BY <1>7 DEF ReadEnd, ReadThrows, InBody, Is
  <2>2. h = k /\ z = Over
    BY <2>1, Ground
  <2>3. Gone(k) \/ (x # "smtp" /\ s.pc # "write")
    BY <2>1 DEF Gone
  <2> HIDE DEF x, k, s, h, z
  <2>4. Fits(x, k, z)
    BY <1>1, <2>1, <2>2, <2>3, OverFits
  <2> QED
    BY <2>2, <2>4 DEF x, h, z
<1>8. CASE ReadOn(c)
  <2> DEFINE b == Tail(k.inbox)
  <2>1. /\ x = "smtp" /\ s.pc \in {"body", "astray"} /\ k.inbox # <<>>
        /\ conn' = [conn EXCEPT ![c] = [k EXCEPT !.inbox = b, !.stray = TRUE]]
        /\ sess' = [sess EXCEPT ![c] = [s EXCEPT !.pc = "astray"]]
    BY <1>8 DEF ReadOn, Misses, InBody, Is
  <2>2. h = [k EXCEPT !.inbox = b, !.stray = TRUE] /\ z = [s EXCEPT !.pc = "astray"]
    BY <2>1, Ground
  <2>3. /\ h.inbox = b /\ h.peer = k.peer /\ h.outbox = k.outbox /\ h.last = k.last
        /\ h.mailed = k.mailed /\ h.stray
    <3> HIDE DEF b
    <3> QED
      BY <1>1, <2>2 DEF ConnType
  <2>4. z.pc = "astray" /\ z.p = s.p
    BY <1>1, <2>2 DEF SessType
  <2> HIDE DEF x, k, s, h, z
  <2>5. Fits("smtp", h, z)
    BY <1>1, <2>1, <2>3, <2>4, OnFits
  <2> QED
    BY <2>1, <2>5 DEF x, h, z
<1> QED
  BY <1>3, <1>4, <1>5, <1>6, <1>7, <1>8

\* What peers do.
LEMMA FitsPeers ==
  ASSUME Inv, Inv', FitsInv, NEW c \in Conns, PeerStep(c)
  PROVE  Fits(kind, conn'[c], sess'[c])
<1> DEFINE x == kind
           k == conn[c]
           s == sess[c]
           h == conn'[c]
<1>1. /\ Typed(k, s) /\ k \in ConnType /\ Fits(x, k, s)
      /\ s.pc \in {"none", "shake"} => k.shakes <= 5
      /\ k.shakes \in 0..6
  BY Ground, Records DEF FitsInv, ConnType
<1>2. sess'[c] = s /\ Typed(h, s)
  <2>1. sess' = sess
    BY DEF PeerStep, Connect, PeerShakes, PeerTakes, PeerEnds, PeerLeaves, PeerSends, Peer
  <2> QED
    BY <2>1, Ground
<1>3. \A r : Peer(c, r) => h = r
  BY Ground DEF Peer
<1>4. CASE Connect(c)
  <2> DEFINE g == IF x = "smtp" THEN <<"hello">> ELSE <<>>
  <2>1. k.peer = "none" /\ Peer(c, [k EXCEPT !.peer = "open", !.pending = g])
    BY <1>4 DEF Connect
  <2>2. h = [k EXCEPT !.peer = "open", !.pending = g]
    BY <1>3, <2>1
  <2>3. /\ h.peer = "open" /\ h.shakes = k.shakes /\ h.inbox = k.inbox
        /\ h.outbox = k.outbox /\ h.last = k.last /\ h.mailed = k.mailed /\ h.pending = g
        /\ h.stray = k.stray
    <3> HIDE DEF g
    <3> QED
      BY <1>1, <2>2 DEF ConnType
  <2> HIDE DEF x, k, s, h
  <2>4. Fits(x, h, s)
    BY <1>1, <1>2, <2>1, <2>3, ConnectFits DEF g
  <2> QED
    BY <1>2, <2>4 DEF x, h
<1>5. CASE PeerShakes(c)
  <2> DEFINE b == Append(k.inbox, "shake")
             n == k.shakes + 1
  <2>1. /\ x # "smtp" /\ k.peer = "open" /\ k.shakes \in {0, 4}
        /\ Peer(c, [k EXCEPT !.inbox = b, !.shakes = n])
    BY <1>5 DEF PeerShakes
  <2>2. h = [k EXCEPT !.inbox = b, !.shakes = n]
    BY <1>3, <2>1
  <2>3. /\ h.peer = k.peer /\ h.shakes = n /\ h.inbox = b
        /\ h.outbox = k.outbox /\ h.last = k.last /\ h.mailed = k.mailed
        /\ h.pending = k.pending /\ h.stray = k.stray
    <3> HIDE DEF b, n
    <3> QED
      BY <1>1, <2>2 DEF ConnType
  <2> HIDE DEF x, k, s, h
  <2>4. Fits(x, h, s)
    BY <1>1, <1>2, <2>1, <2>3, PeerShakesFits
  <2> QED
    BY <1>2, <2>4 DEF x, h
<1>6. ASSUME NEW cmd \in Commands, PeerSends(c, cmd) PROVE Fits(x, h, s)
  <2> DEFINE b == Append(k.inbox, cmd)
             g == Append(k.pending, cmd)
             d == (cmd = "data")
  <2>1. /\ k.peer = "open" /\ (x # "smtp" => k.shakes >= 5)
        /\ Peer(c, [k EXCEPT !.inbox = b, !.body = d, !.pending = g])
    BY <1>6 DEF PeerSends
  <2>2. h = [k EXCEPT !.inbox = b, !.body = d, !.pending = g]
    BY <1>3, <2>1
  <2>3. /\ h.peer = k.peer /\ h.shakes = k.shakes /\ h.inbox = b
        /\ h.outbox = k.outbox /\ h.last = k.last /\ h.mailed = k.mailed
        /\ h.pending = g /\ h.stray = k.stray
    <3> HIDE DEF b, g, d
    <3> QED
      BY <1>1, <2>2 DEF ConnType
  <2>4. x = "smtp" \/ k.shakes \in {5, 6}
    BY <1>1, <2>1
  <2>5. cmd \in Words /\ cmd \notin {"part", "shake", "end"}
    BY DEF Commands, SmtpCommands, Bodies, Words
  <2> HIDE DEF x, k, s, h
  <2> QED
    BY <1>1, <1>2, <2>1, <2>3, <2>4, <2>5, SendsFits
<1>7. CASE PeerTakes(c)
  <2>0. PICK u : u = Head(k.outbox)
    OBVIOUS
  <2> DEFINE o == Tail(k.outbox)
             l == IF u.i = 0 THEN k.last ELSE u.i
             g == Tail(k.pending)
             m == IF u.to \in Bodies \cup {"rset"} THEN FALSE
                  ELSE k.mailed \/ (u.to = "mail" /\ u.code = 250)
             same == ~Final(u) \/ u.to = "end" \/ k.pending = <<>>
             r == [k EXCEPT !.outbox = o, !.last = l]
  <2>1. r.pending = k.pending /\ r.mailed = k.mailed
    <3> HIDE DEF o, l
    <3> QED
      BY <1>1 DEF ConnType
  <2>2. /\ k.peer \in {"open", "half"} /\ k.outbox # <<>>
        /\ Peer(c, IF same THEN r ELSE [r EXCEPT !.pending = g, !.mailed = m])
    <3>1. /\ k.peer \in {"open", "half"} /\ k.outbox # <<>>
          /\ LET v == Head(k.outbox)
                 q == [k EXCEPT !.outbox = Tail(k.outbox),
                                !.last = IF v.i = 0 THEN k.last ELSE v.i]
             IN  Peer(c, IF ~Final(v) \/ v.to = "end" \/ q.pending = <<>> THEN q
                         ELSE [q EXCEPT !.pending = Tail(q.pending),
                                        !.mailed = IF v.to \in Bodies \cup {"rset"} THEN FALSE
                                                   ELSE q.mailed \/ (v.to = "mail" /\ v.code = 250)])
      BY <1>7 DEF PeerTakes
    <3> QED
      BY <2>0, <2>1, <3>1
  <2>3. h = IF same THEN r ELSE [r EXCEPT !.pending = g, !.mailed = m]
    BY <1>3, <2>2
  <2>4. /\ h.peer = k.peer /\ h.shakes = k.shakes /\ h.inbox = k.inbox
        /\ h.outbox = o /\ h.last = l /\ h.stray = k.stray
        /\ IF same THEN h.pending = k.pending /\ h.mailed = k.mailed
           ELSE h.pending = g /\ h.mailed = m
    <3> HIDE DEF o, l, g, m
    <3>1. /\ r.peer = k.peer /\ r.shakes = k.shakes /\ r.inbox = k.inbox
          /\ r.outbox = o /\ r.last = l /\ r.stray = k.stray
          /\ r = [k EXCEPT !.outbox = o, !.last = l]
      BY <1>1 DEF ConnType
    <3> DEFINE e == [r EXCEPT !.pending = g, !.mailed = m]
    <3>2. /\ e.peer = r.peer /\ e.shakes = r.shakes /\ e.inbox = r.inbox
          /\ e.outbox = r.outbox /\ e.last = r.last /\ e.pending = g /\ e.mailed = m
          /\ e.stray = r.stray
      BY <1>1 DEF ConnType
    <3>3. IF same THEN h = r ELSE h = e
      BY <2>3
    <3> HIDE DEF same, r, e
    <3>4. CASE same
      BY <2>1, <3>1, <3>3, <3>4
    <3>5. CASE ~same
      BY <3>1, <3>2, <3>3, <3>5
    <3> QED
      BY <3>4, <3>5
  <2>5. Typed(k, s) /\ Typed(h, s) /\ Fits(x, k, s) /\ k.peer \in {"open", "half"}
        /\ k.outbox # <<>>
    BY <1>1, <1>2, <2>2
  <2>6. Taken(k, h, u)
    BY <2>0, <2>4, <2>5 DEF Taken
  <2>7. Fits(x, h, s)
    BY <2>5, <2>6, TakesFits
  <2> QED
    BY <1>2, <2>7 DEF x, h
<1>8. CASE PeerEnds(c)
  <2>1. k.peer = "open" /\ h = [k EXCEPT !.peer = "half"]
    BY <1>3, <1>8 DEF PeerEnds
  <2>2. /\ h.peer = "half" /\ h.shakes = k.shakes /\ h.inbox = k.inbox
        /\ h.outbox = k.outbox /\ h.last = k.last /\ h.mailed = k.mailed
        /\ h.pending = k.pending /\ h.stray = k.stray
    BY <1>1, <2>1 DEF ConnType
  <2> HIDE DEF x, k, s, h
  <2>3. Fits(x, h, s)
    BY <1>1, <1>2, <2>1, <2>2, HalfFits
  <2> QED
    BY <1>2, <2>3 DEF x, h
<1>9. CASE PeerLeaves(c)
  <2> DEFINE r == [NoPeer EXCEPT !.peer = "gone", !.shakes = k.shakes, !.inbox = k.inbox]
  <2>1. /\ k.peer \in {"open", "half"}
        /\ h = r \/ h = [r EXCEPT !.peer = "reset", !.inbox = <<>>]
    BY <1>3, <1>9 DEF PeerLeaves
  <2>2. h.peer \in {"gone", "reset"} /\ h.outbox = <<>> /\ h.mailed = FALSE
    BY <2>1 DEF NoPeer
  <2> HIDE DEF x, k, s, h, r
  <2>3. Fits(x, h, s)
    BY <1>1, <2>1, <2>2, LeavesFits
  <2> QED
    BY <1>2, <2>3 DEF x, h
<1> QED
  BY <1>2, <1>4, <1>5, <1>6, <1>7, <1>8, <1>9 DEF PeerStep

\* A connection is accepted, and its session begins.
LEMMA FitsAccept ==
  ASSUME Inv, Inv', FitsInv, Accept
  PROVE  FitsInv'
<1> DEFINE c == Head(backlog)
<1>1. /\ backlog # <<>> /\ sess' = [sess EXCEPT ![c] = First]
      /\ conn' = conn /\ kind' = kind
  BY DEF Accept
<1>2. c \in Conns /\ 1 \in DOMAIN backlog /\ backlog[1] = c
  BY <1>1 DEF Inv, TypeInv
<1>3. sess[c].pc = "none" /\ conn[c].peer # "none"
  BY <1>2 DEF Inv, BacklogInv
<1> HIDE DEF c
<1>4. sess'[c] = First /\ \A d \in Conns \ {c} : sess'[d] = sess[d]
  BY <1>1, <1>2 DEF Inv, TypeInv
<1>5. Fits(kind, conn[c], First)
  <2> DEFINE x == kind
             k == conn[c]
             s == sess[c]
             z == First
  <2>1. /\ Typed(k, s) /\ Typed(k, z) /\ Fits(x, k, s)
    BY <1>1, <1>2, <1>4, Ground DEF FitsInv
  <2>2. /\ z.p = 1 /\ z.env = FALSE
        /\ IF x = "smtp" THEN z.pc = "write" /\ z.reply.to = "hello" ELSE z.pc = "shake"
    BY DEF First, Idle
  <2> HIDE DEF x, k, s, z
  <2>3. Fits(x, k, z)
    BY <1>3, <2>1, <2>2, FirstFits DEF k, s
  <2> QED
    BY <2>3 DEF x, k, z
<1> QED
  BY <1>1, <1>4, <1>5 DEF FitsInv

-----------------------------------------------------------------------------
(* The invariant, and what follows from it *)

\* A connection's step leaves the others as they are.
LEMMA OthersFit ==
  ASSUME Inv, FitsInv, NEW c \in Conns, kind' = kind,
         Fits(kind, conn'[c], sess'[c]),
         Killed(c) \/ \E k, s : Change(c, k, s)
  PROVE  FitsInv'
<1>1. \A d \in Conns \ {c} : conn'[d] = conn[d] /\ sess'[d] = sess[d]
  <2>1. CASE Killed(c)
    BY <2>1 DEF Killed
  <2>2. CASE \E k, s : Change(c, k, s)
    BY <2>2, ChangeType
  <2> QED
    BY <2>1, <2>2
<1> QED
  BY <1>1 DEF FitsInv

LEMMA FitsStep == Inv /\ Inv' /\ FitsInv /\ [Next]_vars => FitsInv'
<1> SUFFICES ASSUME Inv, Inv', FitsInv, [Next]_vars PROVE FitsInv'
  OBVIOUS
<1>1. ASSUME NEW c \in Conns, Session(c) PROVE FitsInv'
  <2>1. Fits(kind, conn'[c], sess'[c])
    BY <1>1, FitsHandshake, FitsWaiting, FitsWrite, FitsShutdown, FitsReads DEF Session
  <2>2. kind' = kind
    BY <1>1 DEF Session, ShakeIn, ShakeOut, ShakeFails, Parks, Woken, Write, WriteThrows,
       Killed, Alert, Shut, ReadCommand, ReadOn, ReadPastEnd, ReadLine, ReadRecord, ReadEnd,
       ReadThrows
  <2>3. Killed(c) \/ \E k, s : Change(c, k, s)
    BY <1>1, HandshakeSteps, WaitSteps, WriteSteps, ReadSteps DEF Session
  <2> QED
    BY <2>1, <2>2, <2>3, OthersFit
<1>2. ASSUME NEW c \in Conns, PeerStep(c) PROVE FitsInv'
  <2>1. Fits(kind, conn'[c], sess'[c])
    BY <1>2, FitsPeers
  <2>2. kind' = kind
    BY <1>2 DEF PeerStep, Connect, PeerShakes, PeerTakes, PeerEnds, PeerLeaves, PeerSends, Peer
  <2>3. \E k, s : Change(c, k, s)
    BY <1>2, PeerSteps
  <2> QED
    BY <2>1, <2>2, <2>3, OthersFit
<1>3. CASE Accept
  BY <1>3, FitsAccept
<1>4. CASE AcceptWaits \/ AcceptWoken \/ AcceptFails \/ UNCHANGED vars
  <2>1. kind' = kind /\ conn' = conn /\ sess' = sess
    BY <1>4 DEF AcceptWaits, AcceptWoken, AcceptFails, vars
  <2> QED
    BY <2>1 DEF FitsInv
<1> QED
  BY <1>1, <1>2, <1>3, <1>4 DEF Next, Acceptor

LEMMA FitsInit == Init => FitsInv
<1> SUFFICES ASSUME Init, NEW c \in Conns PROVE Fits(kind, conn[c], sess[c])
  BY DEF FitsInv
<1> DEFINE x == kind
           k == NoPeer
           s == Idle
<1>1. conn[c] = k /\ sess[c] = s
  BY DEF Init
<1>2. /\ k.inbox = <<>> /\ k.outbox = <<>> /\ k.pending = <<>> /\ k.mailed = FALSE
      /\ k.peer = "none" /\ k.shakes = 0 /\ k.last = Length
      /\ s.pc = "none" /\ s.p = 1 /\ s.env = FALSE
  BY DEF NoPeer, Idle
<1>3. Typed(k, s)
  <2>1. 1 \in 1..Length /\ Length \in 1..Length
    BY SocketsAssumption
  <2>2. s.reply.to \in Words /\ s.reply.code \in Codes
    BY DEF Idle, NoReply, Words, Codes
  <2>3. <<>> \in Seq(Words) /\ <<>> \in Seq(Told)
    OBVIOUS
  <2> HIDE DEF k, s
  <2> QED
    BY <1>2, <2>1, <2>2, <2>3 DEF Typed
<1>4. Rested(k, s) /\ ~Gone(k)
  BY <1>2 DEF Rested, Gone
<1>5. Shaken(x, k, s) /\ Named(k, s)
  BY <1>2 DEF Shaken, Named, NoShake, NoneFinal
<1> HIDE DEF x, k, s
<1>6. Consecutive(Line(k, s))
  <2> DEFINE t == Line(k, s)
  <2>1. Streamed(t, Length, <<>>, 1)
    BY <1>2, <1>3, LineIsStreamed
  <2> HIDE DEF t
  <2>2. DOMAIN t = 1..2 /\ t[1] = Length /\ t[2] = 1
    BY <2>1 DEF Streamed
  <2>3. Length % Length = 0
    BY SocketsAssumption
  <2>4. Consecutive(t)
    <3> SUFFICES ASSUME NEW i \in 1..2, NEW j \in 1..2, i < j
                 PROVE  t[j] = (t[i] % Length) + 1
      BY <2>2 DEF Consecutive
    <3>1. i = 1 /\ j = 2
      OBVIOUS
    <3> QED
      BY <2>2, <2>3, <3>1
  <2> QED
    BY <2>4 DEF t
<1>7. AnswersAll(x, k, s)
  <2> DEFINE t == Due(x, k, s)
  <2>1. Replying(x, k, s) = 0
    BY <1>2 DEF Replying
  <2>2. Laid(t, <<>>, 0, ReplyTo(s), <<>>)
    BY <1>2, <1>3, <2>1, DueIsLaid
  <2> HIDE DEF t
  <2>3. DOMAIN t = 1..0
    BY <2>2 DEF Laid
  <2>4. Asks(t) = {}
    BY <2>3 DEF Asks
  <2> DEFINE f == [i \in DOMAIN k.pending |-> 0]
  <2>5. f \in [DOMAIN k.pending -> Asks(t)] /\ DOMAIN k.pending = {}
    BY <1>2, <2>4
  <2> HIDE DEF f
  <2>6. AsksFor(t, k.pending)
    BY <2>4, <2>5 DEF AsksFor
  <2> QED
    BY <2>6 DEF AnswersAll, t
<1>8. Remembers(k, s)
  <2>1. Len(k.outbox) + Writing(s) = 0
    BY <1>2 DEF Writing
  <2> DEFINE f == [i \in 0..0 |-> FALSE]
  <2>2. f \in [0..0 -> BOOLEAN] /\ f[0] = FALSE /\ 1..0 = {}
    OBVIOUS
  <2> HIDE DEF f
  <2>3. Knows(FALSE, Book(k, s), 0, Minds(k, s))
    BY <2>2 DEF Knows
  <2> QED
    BY <1>2, <2>1, <2>3 DEF Remembers
<1>9. Fits(x, k, s)
  BY <1>4, <1>5, <1>6, <1>7, <1>8 DEF Fits, Healthy
<1> QED
  BY <1>1, <1>9 DEF x

LEMMA FitsHolds == Spec => [](Inv /\ FitsInv)
<1>1. Init => Inv /\ FitsInv
  BY InitInv, FitsInit
<1>2. Inv /\ FitsInv /\ [Next]_vars => (Inv /\ FitsInv)'
  BY InvStep, FitsStep
<1> QED
  BY <1>1, <1>2, PTL DEF Spec

\* A reply that the kernel takes in parts, with the parts of a handshake or of
\* shutdown anywhere between them, arrives whole and in order: write keeps its
\* place over every wait, and begins the next one at its first unit.
THEOREM RepliesArriveWhole == Spec => []WholeReplies
<1>1. Inv /\ FitsInv => WholeReplies
  <2> SUFFICES ASSUME FitsInv, NEW c \in Conns, ~Broken(c) PROVE Consecutive(Stream(c))
    BY DEF WholeReplies
  <2>1. Healthy(kind, conn[c], sess[c])
    BY DEF FitsInv, Fits, Gone, Broken
  <2> QED
    BY <2>1 DEF Healthy, Line, Stream
<1> QED
  BY <1>1, FitsHolds, PTL

\* Each command that a peer of smtp_server or of coro_s2n has sent, however far it
\* is ahead, gets one reply, its own, in its order, as long as get has missed the
\* end of none of its bodies: none is lost between get, the handlers and write, and
\* none is answered twice.
THEOREM EachCommandAnswered == Spec => []RepliesMatch
<1>1. Inv /\ FitsInv => RepliesMatch
  <2> SUFFICES ASSUME Inv, FitsInv, NEW c \in Conns, ~Broken(c), sess[c].pc # "none",
                      ~conn[c].stray,
                      kind = "smtp" \/ (kind = "s2n" /\ sess[c].pc \notin {"shut", "over"})
               PROVE  AsksFor(Owed(c), conn[c].pending)
    BY DEF RepliesMatch
  <2> DEFINE k == conn[c]
             s == sess[c]
  <2>1. AsksFor(Due(kind, k, s), k.pending)
    BY DEF FitsInv, Fits, Gone, Broken, Healthy, AnswersAll
  <2>2. Owed(c) = Due(kind, k, s)
    <3>1. Maybe(Replying(kind, k, s), ReplyTo(s))
            = IF s.pc \in {"write", "alert"} THEN <<s.reply.to>> ELSE <<>>
      BY DEF Replying, ReplyTo, Maybe
    <3> QED
      BY <3>1 DEF Owed, Due
  <2> QED
    BY <2>1, <2>2
<1> QED
  BY <1>1, FitsHolds, PTL

\* smtp_session does not tell a peer to send MAIL first that it has told that its
\* MAIL is accepted, and whose transaction has not ended since: _env_from outlives
\* whatever other commands come between them, get having found the end of each body.
THEOREM AcceptedMailHolds == Spec => []TransactionHolds
<1>1. Inv /\ FitsInv => TransactionHolds
  <2> SUFFICES ASSUME Inv, FitsInv, NEW c \in Conns, conn[c].outbox # <<>>,
                      Head(conn[c].outbox).to = "rcpt", conn[c].mailed,
                      ~conn[c].stray
               PROVE  Head(conn[c].outbox).code = 250
    BY DEF TransactionHolds
  <2> DEFINE k == conn[c]
             s == sess[c]
             o == k.outbox
  <2>1. k.mailed = TRUE /\ o \in Seq(Units) /\ k \in ConnType
    BY Records DEF ConnType
  <2>2. Head(o) = o[1] /\ Head(o) \in Units /\ Len(o) \in Nat \ {0}
    BY <2>1, Rests, HeadTailProperties
  <2>3. kind = "smtp"
    <3>1. Head(o).to \in Tos
      BY <2>2 DEF Units
    <3>2. "rcpt" \in Commands
      BY <3>1 DEF Tos
    <3> QED
      BY <3>2 DEF Commands
  <2>4. Healthy(kind, k, s)
    BY <2>1 DEF FitsInv, Fits
  <2>5. Knows(k.mailed, Book(k, s), Len(o) + Writing(s), Minds(k, s))
    BY <2>3, <2>4 DEF Healthy, Remembers
  <2>6. Typed(k, s)
    <3> DEFINE C == Commands
    <3>1. C \subseteq SmtpCommands \cup {"line"}
      BY DEF Commands, SmtpCommands, Bodies
    <3>2. s \in SessType
      BY Records
    <3>3. /\ k.inbox \in Seq(C \cup {"shake"}) /\ k.pending \in Seq(C \cup {"hello"})
          /\ k.outbox \in Seq([i : 0..Length, to : C \cup {"hello", "shake", "end"}, code : Codes])
          /\ k.last \in 1..Length /\ k.mailed \in BOOLEAN
          /\ s.p \in 1..Length /\ s.env \in BOOLEAN /\ s.reply \in Replies
      BY <2>1, <3>2 DEF ConnType, SessType, Units, Tos
    <3>4. s.reply.to \in C \cup {"hello", "shake", "end"} /\ s.reply.code \in Codes
      BY <3>3 DEF Replies, Tos
    <3> HIDE DEF C, k, s, o
    <3> QED
      BY <3>1, <3>3, <3>4, RecordsTyped
  <2>7. Followed(Book(k, s), o, Writing(s), LastUnit(s))
    BY <2>6, BookIsFollowed
  <2> DEFINE t == Book(k, s)
             n == Len(o) + Writing(s)
  <2>8. 1 \in 1..n /\ t[1] = o[1]
    <3>1. Writing(s) \in {0, 1} /\ 1 \in 1..Len(o) /\ Len(o) \in Nat \ {0}
      BY <2>2 DEF Writing
    <3>2. \A i \in 1..Len(o) : t[i] = o[i]
      BY <2>7 DEF Followed
    <3> HIDE DEF o, t, k, s
    <3> QED
      BY <3>1, <3>2
  <2> HIDE DEF t, n
  <2>9. Knows(TRUE, t, n, Minds(k, s))
    BY <2>1, <2>5 DEF t, n
  <2>10. PICK f \in [0..n -> BOOLEAN] :
           /\ f[0] = TRUE
           /\ \A j \in 1..n : t[j].to = "rcpt" /\ f[j - 1] => t[j].code = 250
    BY <2>9 DEF Knows
  <2>11. t[1].to = "rcpt" /\ f[1 - 1] => t[1].code = 250
    BY <2>8, <2>10
  <2> QED
    BY <2>2, <2>8, <2>10, <2>11
<1> QED
  BY <1>1, FitsHolds, PTL
=============================================================================
