---------------------------- MODULE BufferProofs ----------------------------
(***************************************************************************)
(* Theorems about coro_buffer, for any stream of bytes, any delimiter and  *)
(* any way to cut the stream into reads.                                   *)
(***************************************************************************)
EXTENDS Buffer, SequenceTheorems, WellFoundedInduction, TLAPS

\* Induction, for a set of numbers: its complement has no least element.
LEMMA SetInduction ==
  ASSUME NEW T, 0 \in T, \A n \in Nat : n \in T => n + 1 \in T
  PROVE  \A n \in Nat : n \in T
<1> DEFINE Less == OpToRel(<, Nat)
           Others == Nat \ T
<1>1. SUFFICES ASSUME Others # {} PROVE FALSE
  OBVIOUS
<1>2. IsWellFoundedOn(Less, Nat)
  BY NatLessThanWellFounded
<1>3. \A i, j \in Nat : i < j => <<i, j>> \in Less
  BY DEF OpToRel
<1> HIDE DEF Less
<1>4. PICK n \in Others : \A i \in Others : <<i, n>> \notin Less
  BY <1>1, <1>2, WFMin
<1>5. n \in Nat /\ n # 0 /\ n - 1 \in Nat /\ n - 1 < n
  OBVIOUS
<1>6. <<n - 1, n>> \in Less
  BY <1>3, <1>5
<1>7. n - 1 \in T
  BY <1>4, <1>5, <1>6
<1>8. (n - 1) + 1 \in T
  BY <1>5, <1>7
<1> QED
  BY <1>5, <1>8

-----------------------------------------------------------------------------
(* Sequences of bytes *)

\* A sequence is its beginning and the rest.
LEMMA Split ==
  ASSUME NEW s \in Seq(Bytes), NEW n \in 0..Len(s)
  PROVE  /\ SubSeq(s, 1, n) \in Seq(Bytes) /\ SubSeq(s, n + 1, Len(s)) \in Seq(Bytes)
         /\ Len(SubSeq(s, 1, n)) = n
         /\ \A i \in 1..n : SubSeq(s, 1, n)[i] = s[i]
         /\ SubSeq(s, 1, n) \o SubSeq(s, n + 1, Len(s)) = s
<1>1. Len(s) \in Nat /\ \A i \in 1..Len(s) : s[i] \in Bytes
  BY LenProperties
<1>2. /\ SubSeq(s, 1, n) \in Seq(Bytes)
      /\ Len(SubSeq(s, 1, n)) = IF 1 <= n THEN n - 1 + 1 ELSE 0
      /\ \A i \in 1 .. n - 1 + 1 : SubSeq(s, 1, n)[i] = s[1 + i - 1]
  <2>1. \A i \in 1..n : s[i] \in Bytes
    BY <1>1
  <2> QED
    BY <2>1, SubSeqProperties
<1>3. SubSeq(s, n + 1, Len(s)) \in Seq(Bytes)
  <2>1. n + 1 \in Int /\ Len(s) \in Int /\ \A i \in n + 1 .. Len(s) : s[i] \in Bytes
    BY <1>1
  <2> QED
    BY <2>1, SubSeqProperties
<1>4. SubSeq(s, 1, n) \o SubSeq(s, n + 1, Len(s)) = SubSeq(s, 1, Len(s))
  <2>1. /\ 1 \in 1 .. Len(s) + 1 /\ n \in 1 - 1 .. Len(s)
        /\ Len(s) \in n .. Len(s)
    BY <1>1
  <2> QED
    BY <2>1, ConcatAdjacentSubSeq
<1>5. Len(SubSeq(s, 1, n)) = n /\ \A i \in 1..n : SubSeq(s, 1, n)[i] = s[i]
  BY <1>1, <1>2
<1>6. SubSeq(s, 1, Len(s)) = s
  BY SubSeqFull
<1> QED
  BY <1>2, <1>3, <1>4, <1>5, <1>6

\* Concatenation, for sequences of bytes.
LEMMA Concat ==
  ASSUME NEW s \in Seq(Bytes), NEW t \in Seq(Bytes)
  PROVE  /\ <<>> \in Seq(Bytes) /\ s \o t \in Seq(Bytes)
         /\ s \o <<>> = s /\ <<>> \o s = s
BY ConcatProperties, ConcatEmptySeq, EmptySeq

\* How the parts of what is accounted for may be grouped.
LEMMA Regroup ==
  ASSUME NEW s \in Seq(Bytes), NEW t \in Seq(Bytes), NEW u \in Seq(Bytes)
  PROVE  s \o (t \o u) \in Seq(Bytes) /\ s \o (t \o u) = (s \o t) \o u
<1>1. s \o t \in Seq(Bytes) /\ t \o u \in Seq(Bytes)
  BY Concat
<1>2. s \o (t \o u) \in Seq(Bytes)
  BY <1>1, Concat
<1>3. (s \o t) \o u = s \o (t \o u)
  BY ConcatAssociative
<1> QED
  BY <1>2, <1>3

\* s is a beginning of t.
Begins(s, t) == Len(s) <= Len(t) /\ s = SubSeq(t, 1, Len(s))

LEMMA BeginsItself ==
  ASSUME NEW s \in Seq(Bytes)
  PROVE  Begins(s, s)
BY LenProperties, SubSeqFull DEF Begins

\* What begins a beginning of t begins t.
LEMMA BeginsLess ==
  ASSUME NEW s \in Seq(Bytes), NEW t \in Seq(Bytes), NEW u \in Seq(Bytes),
         Begins(s \o t, u)
  PROVE  Begins(s, u)
<1>1. /\ Len(s) \in Nat /\ Len(t) \in Nat /\ Len(u) \in Nat
      /\ Len(s \o t) = Len(s) + Len(t) /\ s \o t \in Seq(Bytes)
      /\ \A i \in 1..Len(s) + Len(t) : (s \o t)[i] =
           IF i <= Len(s) THEN s[i] ELSE t[i - Len(s)]
  BY LenProperties, ConcatProperties
<1>2. Len(s) \in 0..Len(u) /\ Len(s \o t) \in 0..Len(u)
  BY <1>1 DEF Begins
<1>3. ASSUME NEW i \in 1..Len(s)
      PROVE  s[i] = u[i]
  <2>1. (s \o t)[i] = s[i] /\ i \in 1..Len(s \o t)
    BY <1>1
  <2>2. SubSeq(u, 1, Len(s \o t))[i] = u[i]
    BY <1>2, <2>1, Split
  <2> QED
    BY <2>1, <2>2 DEF Begins
<1>4. /\ SubSeq(u, 1, Len(s)) \in Seq(Bytes)
      /\ Len(SubSeq(u, 1, Len(s))) = Len(s)
      /\ \A i \in 1..Len(s) : SubSeq(u, 1, Len(s))[i] = u[i]
  BY <1>2, Split
<1>5. s = SubSeq(u, 1, Len(s))
  BY <1>3, <1>4, SeqEqual
<1> QED
  BY <1>1, <1>2, <1>5 DEF Begins

-----------------------------------------------------------------------------
(* The matcher *)

L == Len(Delim)

LEMMA DelimType == Delim \in Seq(Bytes) /\ L \in Nat \ {0}
BY BufferAssumption, EmptySeq DEF L

\* f is what Matcher defines, up to n.
Follows(f, m, s, n) ==
  f = [i \in 0..n |->
         IF i = 0 THEN m
         ELSE IF f[i - 1] = L THEN L
         ELSE NextMatch(f[i - 1], s[i])]

\* There is such a function, so that Matcher is one.
LEMMA MatcherFollows ==
  ASSUME NEW m, NEW s, Len(s) \in Nat
  PROVE  Follows(Matcher(m, s), m, s, Len(s))
<1> DEFINE T == {n \in Nat : \E f : Follows(f, m, s, n)}
<1>1. 0 \in T
  <2> DEFINE f == [i \in 0..0 |-> m]
  <2>1. Follows(f, m, s, 0)
    BY DEF Follows
  <2> QED
    BY <2>1
<1>2. ASSUME NEW n \in Nat, n \in T
      PROVE  n + 1 \in T
  <2>1. PICK f : Follows(f, m, s, n)
    BY <1>2
  <2> DEFINE g == [i \in 0..n + 1 |->
                     IF i <= n THEN f[i]
                     ELSE IF f[n] = L THEN L ELSE NextMatch(f[n], s[n + 1])]
  <2>2. \A i \in 0..n : g[i] = f[i]
    OBVIOUS
  <2>3. \A i \in 0..n + 1 :
          g[i] = IF i = 0 THEN m
                 ELSE IF g[i - 1] = L THEN L
                 ELSE NextMatch(g[i - 1], s[i])
    <3> SUFFICES ASSUME NEW i \in 0..n + 1
                 PROVE  g[i] = IF i = 0 THEN m
                               ELSE IF g[i - 1] = L THEN L
                               ELSE NextMatch(g[i - 1], s[i])
      OBVIOUS
    <3>1. CASE i = n + 1
      <4>1. i # 0 /\ i - 1 = n /\ g[i - 1] = f[n]
        BY <3>1, <2>2
      <4>2. g[i] = IF f[n] = L THEN L ELSE NextMatch(f[n], s[n + 1])
        BY <3>1
      <4> QED
        BY <3>1, <4>1, <4>2
    <3>2. CASE i \in 0..n
      <4>1. f[i] = IF i = 0 THEN m
                   ELSE IF f[i - 1] = L THEN L
                   ELSE NextMatch(f[i - 1], s[i])
        BY <2>1, <3>2 DEF Follows
      <4>2. i # 0 => i - 1 \in 0..n
        BY <3>2
      <4> HIDE DEF g
      <4> QED
        BY <2>2, <3>2, <4>1, <4>2
    <3> QED
      BY <3>1, <3>2
  <2>4. Follows(g, m, s, n + 1)
    BY <2>3 DEF Follows
  <2> QED
    BY <2>4
<1>3. \E f : Follows(f, m, s, Len(s))
  <2> HIDE DEF T
  <2>1. Len(s) \in T
    BY <1>1, <1>2, SetInduction
  <2> QED
    BY <2>1 DEF T
<1> QED
  BY <1>3 DEF Matcher, Follows, L

\* matched after no byte, and after one more.
LEMMA MatcherSteps ==
  ASSUME NEW m, NEW s \in Seq(Bytes)
  PROVE  /\ Matcher(m, s)[0] = m
         /\ \A i \in 1..Len(s) :
              Matcher(m, s)[i] =
                IF Matcher(m, s)[i - 1] = L THEN L
                ELSE NextMatch(Matcher(m, s)[i - 1], s[i])
<1> DEFINE f == Matcher(m, s)
<1>1. f = [i \in 0..Len(s) |->
             IF i = 0 THEN m
             ELSE IF f[i - 1] = L THEN L
             ELSE NextMatch(f[i - 1], s[i])]
  BY LenProperties, MatcherFollows DEF Follows
<1> HIDE DEF f
<1>2. /\ f[0] = m
      /\ \A i \in 1..Len(s) :
           f[i] = IF f[i - 1] = L THEN L ELSE NextMatch(f[i - 1], s[i])
  BY <1>1
<1> QED
  BY <1>2 DEF f

\* matched counts bytes of the delimiter.
LEMMA MatcherType ==
  ASSUME NEW m \in 0..L, NEW s \in Seq(Bytes)
  PROVE  \A i \in 0..Len(s) : Matcher(m, s)[i] \in 0..L
<1> DEFINE T == {i \in Nat : i <= Len(s) => Matcher(m, s)[i] \in 0..L}
<1>1. 0 \in T
  BY MatcherSteps
<1>2. ASSUME NEW n \in Nat, n \in T
      PROVE  n + 1 \in T
  <2> SUFFICES ASSUME n + 1 <= Len(s)
               PROVE  Matcher(m, s)[n + 1] \in 0..L
    OBVIOUS
  <2>1. n + 1 \in 1..Len(s) /\ (n + 1) - 1 = n
    OBVIOUS
  <2>2. Matcher(m, s)[n] \in 0..L
    BY <1>2
  <2>3. Matcher(m, s)[n + 1] =
          IF Matcher(m, s)[n] = L THEN L ELSE NextMatch(Matcher(m, s)[n], s[n + 1])
    BY <2>1, MatcherSteps
  <2> QED
    BY <2>2, <2>3, DelimType DEF NextMatch
<1> HIDE DEF T
<1>3. \A i \in Nat : i \in T
  BY <1>1, <1>2, SetInduction
<1> QED
  BY <1>3 DEF T

\* A sequence of two parts, byte by byte.
LEMMA ConcatBytes ==
  ASSUME NEW s \in Seq(Bytes), NEW t \in Seq(Bytes)
  PROVE  /\ Len(s) \in Nat /\ Len(t) \in Nat /\ Len(s \o t) = Len(s) + Len(t)
         /\ \A i \in 1..Len(s) : (s \o t)[i] = s[i]
         /\ \A i \in 1..Len(t) : (s \o t)[Len(s) + i] = t[i]
<1> DEFINE u == s \o t
<1>1. /\ Len(s) \in Nat /\ Len(t) \in Nat /\ Len(u) = Len(s) + Len(t)
      /\ \A i \in 1..Len(s) + Len(t) :
           u[i] = IF i <= Len(s) THEN s[i] ELSE t[i - Len(s)]
  BY LenProperties, ConcatProperties
<1> HIDE DEF u
<1>2. ASSUME NEW i \in 1..Len(t) PROVE u[Len(s) + i] = t[i]
  <2>1. /\ Len(s) + i \in 1..Len(s) + Len(t) /\ ~(Len(s) + i <= Len(s))
        /\ (Len(s) + i) - Len(s) = i
    BY <1>1
  <2> QED
    BY <1>1, <2>1
<1>3. ASSUME NEW i \in 1..Len(s) PROVE u[i] = s[i]
  BY <1>1
<1> QED
  BY <1>1, <1>2, <1>3 DEF u

\* u is s and then t, byte by byte.
Joins(s, t, u) ==
  /\ Len(u) = Len(s) + Len(t)
  /\ \A i \in 1..Len(s) : u[i] = s[i]
  /\ \A i \in 1..Len(t) : u[Len(s) + i] = t[i]

\* Where the bytes are cut makes no difference: the matcher goes on from where
\* it was.
LEMMA MatcherGoesOn ==
  ASSUME NEW m, NEW s \in Seq(Bytes), NEW t \in Seq(Bytes), NEW u \in Seq(Bytes),
         Joins(s, t, u)
  PROVE  /\ \A i \in 0..Len(s) : Matcher(m, u)[i] = Matcher(m, s)[i]
         /\ \A i \in 0..Len(t) :
              Matcher(m, u)[Len(s) + i] = Matcher(Matcher(m, s)[Len(s)], t)[i]
<1> DEFINE k == Matcher(m, s)[Len(s)]
           f == Matcher(m, u)
           T == {i \in Nat : i <= Len(s) => f[i] = Matcher(m, s)[i]}
           U == {i \in Nat : i <= Len(t) => f[Len(s) + i] = Matcher(k, t)[i]}
<1>1. /\ Len(s) \in Nat /\ Len(t) \in Nat /\ Len(u) \in Nat
      /\ Len(u) = Len(s) + Len(t)
      /\ \A i \in 1..Len(s) : u[i] = s[i]
      /\ \A i \in 1..Len(t) : u[Len(s) + i] = t[i]
  BY LenProperties DEF Joins
<1>2. /\ f[0] = m
      /\ \A i \in 1..Len(u) :
           f[i] = IF f[i - 1] = L THEN L ELSE NextMatch(f[i - 1], u[i])
  BY MatcherSteps
<1>3. /\ Matcher(m, s)[0] = m
      /\ \A i \in 1..Len(s) :
           Matcher(m, s)[i] = IF Matcher(m, s)[i - 1] = L THEN L
                              ELSE NextMatch(Matcher(m, s)[i - 1], s[i])
  BY MatcherSteps
<1>4. /\ Matcher(k, t)[0] = k
      /\ \A i \in 1..Len(t) :
           Matcher(k, t)[i] = IF Matcher(k, t)[i - 1] = L THEN L
                              ELSE NextMatch(Matcher(k, t)[i - 1], t[i])
  BY MatcherSteps
<1> HIDE DEF f
<1>5. \A i \in Nat : i \in T
  <2>1. 0 \in T
    BY <1>2, <1>3
  <2>2. ASSUME NEW n \in Nat, n \in T PROVE n + 1 \in T
    <3> SUFFICES ASSUME n + 1 <= Len(s) PROVE f[n + 1] = Matcher(m, s)[n + 1]
      OBVIOUS
    <3>1. /\ n + 1 \in 1..Len(s) /\ n + 1 \in 1..Len(u) /\ (n + 1) - 1 = n
          /\ f[n] = Matcher(m, s)[n] /\ u[n + 1] = s[n + 1]
      BY <1>1, <2>2
    <3> QED
      BY <1>2, <1>3, <3>1
  <2> HIDE DEF T
  <2> QED
    BY <2>1, <2>2, SetInduction
<1>6. \A i \in Nat : i \in U
  <2>1. 0 \in U
    BY <1>1, <1>4, <1>5
  <2>2. ASSUME NEW n \in Nat, n \in U PROVE n + 1 \in U
    <3> SUFFICES ASSUME n + 1 <= Len(t)
                 PROVE  f[Len(s) + (n + 1)] = Matcher(k, t)[n + 1]
      OBVIOUS
    <3> DEFINE j == Len(s) + (n + 1)
    <3>1. /\ n + 1 \in 1..Len(t) /\ (n + 1) - 1 = n /\ n <= Len(t)
          /\ j \in 1..Len(u) /\ j - 1 = Len(s) + n
      BY <1>1
    <3>2. f[Len(s) + n] = Matcher(k, t)[n] /\ u[j] = t[n + 1]
      BY <1>1, <2>2, <3>1
    <3> HIDE DEF j
    <3>3. f[j] = Matcher(k, t)[n + 1]
      BY <1>2, <1>4, <3>1, <3>2
    <3> QED
      BY <3>3 DEF j
  <2> HIDE DEF U
  <2> QED
    BY <2>1, <2>2, SetInduction
<1> QED
  BY <1>5, <1>6 DEF f

LEMMA MatcherOfConcat ==
  ASSUME NEW m, NEW s \in Seq(Bytes), NEW t \in Seq(Bytes)
  PROVE  /\ \A i \in 0..Len(s) : Matcher(m, s \o t)[i] = Matcher(m, s)[i]
         /\ \A i \in 0..Len(t) :
              Matcher(m, s \o t)[Len(s) + i] = Matcher(Matcher(m, s)[Len(s)], t)[i]
<1> DEFINE u == s \o t
<1>1. u \in Seq(Bytes) /\ Joins(s, t, u)
  BY ConcatBytes, Concat DEF Joins
<1> HIDE DEF u
<1>2. /\ \A i \in 0..Len(s) : Matcher(m, u)[i] = Matcher(m, s)[i]
      /\ \A i \in 0..Len(t) :
           Matcher(m, u)[Len(s) + i] = Matcher(Matcher(m, s)[Len(s)], t)[i]
  BY <1>1, MatcherGoesOn
<1> QED
  BY <1>2 DEF u

\* Until it has met the delimiter, the matcher has met as many bytes of it as it
\* says, and they are the last ones.
LEMMA MatchIsAtEnd ==
  ASSUME NEW s \in Seq(Bytes), NEW n \in 0..Len(s),
         \A i \in 0..n - 1 : Matcher(0, s)[i] # L
  PROVE  /\ Matcher(0, s)[n] \in 0..n
         /\ \A j \in 1..Matcher(0, s)[n] : s[n - Matcher(0, s)[n] + j] = Delim[j]
<1> DEFINE f == Matcher(0, s)
           T == {i \in Nat : i <= n =>
                   f[i] \in 0..i /\ \A j \in 1..f[i] : s[i - f[i] + j] = Delim[j]}
<1>1. Len(s) \in Nat
  BY LenProperties
<1>2. /\ f[0] = 0
      /\ \A i \in 1..Len(s) :
           f[i] = IF f[i - 1] = L THEN L ELSE NextMatch(f[i - 1], s[i])
  BY <1>1, MatcherSteps
<1>3. \A i \in 0..n - 1 : f[i] # L
  OBVIOUS
<1> HIDE DEF f
<1>4. 0 \in T
  BY <1>2
<1>5. ASSUME NEW i \in Nat, i \in T PROVE i + 1 \in T
  <2> SUFFICES ASSUME i + 1 <= n
               PROVE  /\ f[i + 1] \in 0..i + 1
                      /\ \A j \in 1..f[i + 1] : s[(i + 1) - f[i + 1] + j] = Delim[j]
    OBVIOUS
  <2>1. /\ f[i] \in 0..i /\ f[i] # L
        /\ \A j \in 1..f[i] : s[i - f[i] + j] = Delim[j]
    BY <1>3, <1>5
  <2>2. f[i + 1] = IF s[i + 1] = Delim[f[i] + 1] THEN f[i] + 1 ELSE 0
    <3>1. i + 1 \in 1..Len(s) /\ (i + 1) - 1 = i
      BY <1>1
    <3> QED
      BY <1>2, <2>1, <3>1 DEF NextMatch
  <2>3. CASE s[i + 1] = Delim[f[i] + 1]
    <3>1. f[i + 1] = f[i] + 1 /\ f[i + 1] \in 0..i + 1
      BY <2>1, <2>2, <2>3
    <3>2. ASSUME NEW j \in 1..f[i + 1]
          PROVE  s[(i + 1) - f[i + 1] + j] = Delim[j]
      <4>1. (i + 1) - f[i + 1] + j = i - f[i] + j
        <5>1. f[i] \in Int /\ j \in Int /\ f[i + 1] = f[i] + 1
          BY <2>1, <3>1
        <5> HIDE DEF T
        <5> QED
          BY <5>1
      <4>2. CASE j = f[i + 1]
        <5>1. i - f[i] + j = i + 1
          BY <2>1, <3>1, <4>2
        <5> QED
          BY <2>3, <3>1, <4>1, <4>2, <5>1
      <4>3. CASE j # f[i + 1]
        <5>1. j \in 1..f[i]
          BY <2>1, <3>1, <4>3
        <5> QED
          BY <2>1, <4>1, <5>1
      <4> QED
        BY <4>2, <4>3
    <3> QED
      BY <3>1, <3>2
  <2>4. CASE s[i + 1] # Delim[f[i] + 1]
    BY <2>2, <2>4
  <2> QED
    BY <2>3, <2>4
<1> HIDE DEF T
<1>6. n \in T
  BY <1>1, <1>4, <1>5, SetInduction
<1> QED
  BY <1>6 DEF T, f

-----------------------------------------------------------------------------
(* Types, and what the connection holds *)

\* Outside a call nothing is left of one, and what is accounted for is a
\* beginning of what was sent: all of it unless the connection was reset.
Inv ==
  /\ BufferTypeOK
  /\ call = "idle" => matched = 0 /\ pieces = <<>>
  /\ Begins(Accounted, sent)
  /\ peer \in {"open", "closed"} => Accounted = sent

LEMMA AccountedType ==
  ASSUME BufferTypeOK
  PROVE  Accounted \in Seq(Bytes)
<1>1. /\ given \in Seq(Bytes) /\ pieces \in Seq(Bytes)
      /\ buffer \in Seq(Bytes) /\ inbox \in Seq(Bytes)
  BY DEF BufferTypeOK
<1>2. given \o pieces \in Seq(Bytes)
  BY <1>1, Concat
<1>3. given \o pieces \o buffer \in Seq(Bytes)
  BY <1>1, <1>2, Concat
<1> QED
  BY <1>1, <1>3, Concat DEF Accounted

\* A step that only moves bytes on.
LEMMA MovesOn ==
  ASSUME Inv, BufferTypeOK', Accounted' = Accounted, sent' = sent, peer' = peer,
         call' = "idle" => matched' = 0 /\ pieces' = <<>>
  PROVE  Inv'
BY DEF Inv, Begins

LEMMA GetKeepsInv == Inv /\ Get => Inv'
<1> SUFFICES ASSUME Inv, Get PROVE Inv'
  OBVIOUS
<1>1. BufferTypeOK' /\ Accounted' = Accounted
  BY DEF Get, Inv, BufferTypeOK, Accounted
<1> QED
  BY <1>1, MovesOn DEF Get

LEMMA ScanHitKeepsInv == Inv /\ ScanHit => Inv'
<1> SUFFICES ASSUME Inv, ScanHit PROVE Inv'
  OBVIOUS
<1>1. PICK i \in Hits :
        /\ buffer' = SubSeq(buffer, i + 1, Len(buffer))
        /\ Finish(pieces \o SubSeq(buffer, 1, i))
  BY DEF ScanHit
<1>2. /\ given \in Seq(Bytes) /\ pieces \in Seq(Bytes)
      /\ buffer \in Seq(Bytes) /\ inbox \in Seq(Bytes)
  BY DEF Inv, BufferTypeOK
<1> DEFINE a == SubSeq(buffer, 1, i)
           b == SubSeq(buffer, i + 1, Len(buffer))
<1>3. a \in Seq(Bytes) /\ b \in Seq(Bytes) /\ a \o b = buffer
  <2>1. i \in 0..Len(buffer)
    BY <1>2, LenProperties DEF Hits
  <2> QED
    BY <1>2, <2>1, Split
<1>4. given' = given \o (pieces \o a) /\ pieces' = <<>> /\ buffer' = b
  BY <1>1 DEF Finish
<1> HIDE DEF a, b
<1>5. given' \in Seq(Bytes) /\ pieces' \in Seq(Bytes) /\ buffer' \in Seq(Bytes)
  BY <1>2, <1>3, <1>4, Regroup, EmptySeq
<1>6. matched' \in 0..L /\ need' \in Nat /\ call' = "idle" /\ matched' = 0
  BY <1>1, DelimType DEF Finish
<1>7. BufferTypeOK'
  BY <1>5, <1>6 DEF ScanHit, Inv, BufferTypeOK, L
<1>8. Accounted' = Accounted
  <2>1. given' \o pieces' = given'
    BY <1>4, <1>5, Concat
  <2>2. given \o (pieces \o a) = (given \o pieces) \o a
    <3>1. given \in Seq(Bytes) /\ pieces \in Seq(Bytes) /\ a \in Seq(Bytes)
      BY <1>2, <1>3
    <3> QED
      BY <3>1, Regroup, Zenon
  <2>3. given \o pieces \in Seq(Bytes)
    BY <1>2, Concat
  <2>4. (given \o pieces) \o (a \o b) = ((given \o pieces) \o a) \o b
    <3>1. given \o pieces \in Seq(Bytes) /\ a \in Seq(Bytes) /\ b \in Seq(Bytes)
      BY <1>3, <2>3
    <3> QED
      BY <3>1, Regroup, Zenon
  <2>5. (given' \o pieces') \o buffer' = (given \o pieces) \o buffer
    <3>1. (given' \o pieces') \o buffer' = ((given \o pieces) \o a) \o b
      BY <1>4, <2>1, <2>2
    <3> QED
      BY <1>3, <2>4, <3>1
  <2>6. inbox' = inbox
    BY DEF ScanHit
  <2> QED
    BY <2>5, <2>6 DEF Accounted
<1> QED
  BY <1>4, <1>7, <1>8, MovesOn DEF ScanHit, Finish

LEMMA ScanMissKeepsInv == Inv /\ ScanMiss => Inv'
<1> SUFFICES ASSUME Inv, ScanMiss PROVE Inv'
  OBVIOUS
<1>1. /\ given \in Seq(Bytes) /\ pieces \in Seq(Bytes) /\ buffer \in Seq(Bytes)
      /\ pieces' = pieces \o buffer /\ buffer' = <<>> /\ given' = given
  BY DEF Inv, BufferTypeOK, ScanMiss
<1>2. Len(buffer) \in Nat /\ matched \in 0..L
  BY <1>1, LenProperties DEF Inv, BufferTypeOK, L
<1>3. matched' \in 0..L
  <2>1. \A i \in 0..Len(buffer) : Matcher(matched, buffer)[i] \in 0..L
    BY <1>1, <1>2, MatcherType
  <2> QED
    BY <1>2, <2>1 DEF ScanMiss
<1>4. pieces' \in Seq(Bytes) /\ buffer' \in Seq(Bytes)
  BY <1>1, Concat
<1>5. BufferTypeOK'
  BY <1>3, <1>4 DEF ScanMiss, Inv, BufferTypeOK, L
<1>6. Accounted' = Accounted
  <2>1. given' \o pieces' = (given \o pieces) \o buffer
    BY <1>1, Regroup
  <2>2. given' \o pieces' \in Seq(Bytes)
    BY <1>1, Regroup
  <2>3. (given' \o pieces') \o buffer' = given' \o pieces'
    BY <1>1, <2>2, Concat
  <2> QED
    BY <2>1, <2>3 DEF Accounted, ScanMiss
<1> QED
  BY <1>5, <1>6, MovesOn DEF ScanMiss

LEMMA TakeBufferedKeepsInv == Inv /\ TakeBuffered => Inv'
<1> SUFFICES ASSUME Inv, TakeBuffered PROVE Inv'
  OBVIOUS
<1>1. /\ given \in Seq(Bytes) /\ buffer \in Seq(Bytes) /\ pieces = <<>>
      /\ Len(buffer) \in Nat
  BY LenProperties DEF TakeBuffered, Inv, BufferTypeOK
<1>2. PICK n \in Lengths \cup {Len(buffer)} :
        /\ n <= Len(buffer)
        /\ given' = given \o SubSeq(buffer, 1, n)
        /\ buffer' = SubSeq(buffer, n + 1, Len(buffer))
  BY DEF TakeBuffered
<1> DEFINE a == SubSeq(buffer, 1, n)
           b == SubSeq(buffer, n + 1, Len(buffer))
<1>3. a \in Seq(Bytes) /\ b \in Seq(Bytes) /\ a \o b = buffer
  <2>1. n \in 0..Len(buffer)
    BY <1>1, <1>2, BufferAssumption
  <2> QED
    BY <1>1, <2>1, Split
<1>4. given' = given \o a /\ buffer' = b /\ pieces' = <<>>
  BY <1>1, <1>2 DEF TakeBuffered
<1> HIDE DEF a, b
<1>5. given' \in Seq(Bytes) /\ given' \o <<>> = given' /\ given \o <<>> = given
  BY <1>1, <1>3, <1>4, Concat
<1>6. BufferTypeOK'
  BY <1>3, <1>4, <1>5 DEF TakeBuffered, Inv, BufferTypeOK
<1>7. Accounted' = Accounted
  <2>1. given \o (a \o b) = (given \o a) \o b
    <3>1. given \in Seq(Bytes) /\ a \in Seq(Bytes) /\ b \in Seq(Bytes)
      BY <1>1, <1>3
    <3> QED
      BY <3>1, Regroup, Zenon
  <2>2. given' \o pieces' \o buffer' = given \o pieces \o buffer
    <3>1. given' \o pieces' = given \o a
      BY <1>4, <1>5
    <3>2. given \o pieces = given
      BY <1>1, <1>5
    <3> QED
      BY <1>3, <1>4, <2>1, <3>1, <3>2
  <2>3. inbox' = inbox
    BY DEF TakeBuffered
  <2> QED
    BY <2>2, <2>3 DEF Accounted
<1> QED
  BY <1>1, <1>4, <1>6, <1>7, MovesOn DEF TakeBuffered, Inv

\* read_exact and read_to_eof begin with all of _buffer.
LEMMA ReadBeginsKeepsInv == Inv /\ (ReadExact \/ ReadToEof) => Inv'
<1> SUFFICES ASSUME Inv, ReadExact \/ ReadToEof PROVE Inv'
  OBVIOUS
<1>1. /\ given \in Seq(Bytes) /\ buffer \in Seq(Bytes) /\ pieces = <<>>
      /\ Len(buffer) \in Nat
      /\ given' = given /\ pieces' = buffer /\ buffer' = <<>> /\ inbox' = inbox
  BY LenProperties DEF ReadExact, ReadToEof, Inv, BufferTypeOK
<1>2. need' \in Nat /\ call' \in {"exact", "feed", "eof"}
  <2>1. CASE ReadExact
    BY <1>1, <2>1, BufferAssumption DEF ReadExact
  <2>2. CASE ReadToEof
    BY <2>2 DEF ReadToEof, Inv, BufferTypeOK
  <2> QED
    BY <2>1, <2>2
<1>3. BufferTypeOK'
  BY <1>1, <1>2, EmptySeq DEF ReadExact, ReadToEof, Inv, BufferTypeOK
<1>4. Accounted' = Accounted
  <2>1. given \o buffer \in Seq(Bytes) /\ given \o <<>> = given
    BY <1>1, Concat
  <2>2. (given \o buffer) \o <<>> = given \o buffer
    BY <2>1, Concat
  <2> QED
    BY <1>1, <2>1, <2>2 DEF Accounted
<1> QED
  BY <1>2, <1>3, <1>4, MovesOn DEF ReadExact, ReadToEof

LEMMA ReadSomeKeepsInv == Inv /\ ReadSome => Inv'
<1> SUFFICES ASSUME Inv, ReadSome PROVE Inv'
  OBVIOUS
<1>1. /\ given \in Seq(Bytes) /\ pieces \in Seq(Bytes) /\ inbox \in Seq(Bytes)
      /\ Len(inbox) \in Nat /\ buffer = <<>> /\ call # "idle"
  BY LenProperties DEF ReadSome, Reading, Inv, BufferTypeOK
<1>2. PICK n \in 1..Len(inbox) :
        /\ inbox' = SubSeq(inbox, n + 1, Len(inbox))
        /\ LET bytes == SubSeq(inbox, 1, n)
            IN  \/ /\ call = "get"
                   /\ buffer' = bytes
                   /\ UNCHANGED <<call, matched, need, pieces, given>>
                \/ /\ call = "eof"
                   /\ pieces' = pieces \o bytes
                   /\ UNCHANGED <<call, buffer, matched, need, given>>
                \/ /\ call \in {"exact", "feed"}
                   /\ n < need
                   /\ need' = need - n
                   /\ pieces' = pieces \o bytes
                   /\ UNCHANGED <<call, buffer, matched, given>>
                \/ /\ call \in {"exact", "feed"}
                   /\ n = need
                   /\ Finish(pieces \o bytes)
                   /\ UNCHANGED buffer
  BY DEF ReadSome
<1> DEFINE a == SubSeq(inbox, 1, n)
           b == SubSeq(inbox, n + 1, Len(inbox))
<1>3. a \in Seq(Bytes) /\ b \in Seq(Bytes) /\ a \o b = inbox
  BY <1>1, Split
<1>4. \/ /\ buffer' = a
         /\ UNCHANGED <<call, matched, need, pieces, given>>
      \/ /\ pieces' = pieces \o a
         /\ need' \in Nat
         /\ UNCHANGED <<call, buffer, matched, given>>
      \/ Finish(pieces \o a) /\ UNCHANGED buffer
  <2>1. need \in Nat /\ n \in Nat /\ (n < need => need - n \in Nat)
    BY <1>1 DEF Inv, BufferTypeOK
  <2> HIDE DEF a
  <2> QED
    BY <1>2, <2>1 DEF a
<1>5. inbox' = b
  BY <1>2
<1> HIDE DEF a, b
<1>6. pieces \o a \in Seq(Bytes) /\ given \o (pieces \o a) \in Seq(Bytes)
  BY <1>1, <1>3, Concat, Regroup
<1>7. BufferTypeOK'
  <2>1. UNCHANGED <<peer, sent, waiting>>
    BY DEF ReadSome
  <2>2. /\ pieces' \in Seq(Bytes) /\ given' \in Seq(Bytes)
        /\ buffer' \in Seq(Bytes) /\ inbox' \in Seq(Bytes)
    BY <1>1, <1>3, <1>4, <1>5, <1>6, EmptySeq DEF Finish
  <2>3. /\ call' \in {"idle", "get", "exact", "feed", "eof"} /\ need' \in Nat
        /\ matched' \in 0..Len(Delim)
    BY <1>4, DelimType DEF Finish, Inv, BufferTypeOK, L
  <2> QED
    BY <2>1, <2>2, <2>3 DEF Inv, BufferTypeOK
<1>8. Accounted' = Accounted
  <2>1. given \o pieces \in Seq(Bytes) /\ (given \o pieces) \o <<>> = given \o pieces
    BY <1>1, Concat
  <2>2. (given \o (pieces \o a)) \o <<>> = given \o (pieces \o a)
    BY <1>6, Concat
  <2>3. given \o (pieces \o a) = (given \o pieces) \o a
    <3>1. given \in Seq(Bytes) /\ pieces \in Seq(Bytes) /\ a \in Seq(Bytes)
      BY <1>1, <1>3
    <3> QED
      BY <3>1, Regroup, Zenon
  <2>4. (given \o pieces) \o (a \o b) = ((given \o pieces) \o a) \o b
    <3>1. given \o pieces \in Seq(Bytes) /\ a \in Seq(Bytes) /\ b \in Seq(Bytes)
      BY <1>3, <2>1
    <3> QED
      BY <3>1, Regroup, Zenon
  <2>5. Accounted = (given \o pieces) \o (a \o b)
    <3>1. given \o pieces \o buffer = given \o pieces
      BY <1>1, <2>1
    <3> QED
      BY <1>3, <3>1 DEF Accounted
  <2>6. \/ given' = given /\ pieces' = pieces /\ buffer' = a
        \/ given' = given /\ pieces' = pieces \o a /\ buffer' = <<>>
        \/ given' = given \o (pieces \o a) /\ pieces' = <<>> /\ buffer' = <<>>
    BY <1>1, <1>4 DEF Finish
  <2>7. (given' \o pieces') \o buffer' = (given \o pieces) \o a
    BY <2>2, <2>3, <2>6
  <2> QED
    BY <1>5, <2>4, <2>5, <2>7 DEF Accounted
<1>9. call' = "idle" => matched' = 0 /\ pieces' = <<>>
  BY <1>1, <1>4 DEF Finish
<1> QED
  BY <1>7, <1>8, <1>9, MovesOn DEF ReadSome

\* What read does when there is nothing to hand over; the peer and the poller
\* but for Send and Reset.
LEMMA OthersKeepInv ==
  Inv /\ (ReadEnd \/ ReadBlocks \/ Close \/ Wake) => Inv'
<1> SUFFICES ASSUME Inv, ReadEnd \/ ReadBlocks \/ Close \/ Wake PROVE Inv'
  OBVIOUS
<1>1. CASE ReadEnd /\ call # "feed"
  <2>1. /\ given \in Seq(Bytes) /\ pieces \in Seq(Bytes)
        /\ buffer = <<>> /\ inbox = <<>>
    BY <1>1 DEF ReadEnd, AtEnd, Reading, Inv, BufferTypeOK
  <2>2. /\ given' = given \o pieces /\ pieces' = <<>> /\ matched' = 0
        /\ need' = 0 /\ call' = "idle"
        /\ UNCHANGED <<peer, sent, inbox, waiting, buffer>>
    BY <1>1 DEF ReadEnd, Finish
  <2>3. given' \in Seq(Bytes) /\ given' \o <<>> = given \o pieces
    BY <2>1, <2>2, Concat
  <2>4. BufferTypeOK'
    BY <2>2, <2>3, EmptySeq, DelimType DEF Inv, BufferTypeOK, L
  <2>5. Accounted' = Accounted
    BY <2>1, <2>2, <2>3 DEF Accounted
  <2> QED
    BY <2>2, <2>4, <2>5, MovesOn
<1>2. CASE (ReadEnd /\ call = "feed") \/ ReadBlocks \/ Wake
  <2>1. BufferTypeOK' /\ Accounted' = Accounted
    BY <1>2 DEF ReadEnd, ReadBlocks, Wake, Inv, BufferTypeOK, Accounted
  <2> QED
    BY <1>2, <2>1, MovesOn DEF ReadEnd, ReadBlocks, Wake, Inv
<1>3. CASE Close
  BY <1>3 DEF Close, Inv, BufferTypeOK, Accounted, Begins
<1> QED
  BY <1>1, <1>2, <1>3

\* The pieces of get (s, delim) are lost, or none are: a beginning is left.
LEMMA ReadThrowsKeepsInv == Inv /\ ReadThrows => Inv'
<1> SUFFICES ASSUME Inv, ReadThrows PROVE Inv'
  OBVIOUS
<1>1. /\ given \in Seq(Bytes) /\ pieces \in Seq(Bytes) /\ sent \in Seq(Bytes)
      /\ buffer = <<>> /\ inbox = <<>> /\ Begins(Accounted, sent)
  BY DEF ReadThrows, Reading, Inv, BufferTypeOK
<1>2. /\ given' = given \o (IF call = "get" THEN <<>> ELSE pieces)
      /\ pieces' = <<>> /\ matched' = 0 /\ need' = 0 /\ call' = "idle"
      /\ peer' = "failed" /\ UNCHANGED <<sent, inbox, waiting, buffer>>
  BY DEF ReadThrows, Finish
<1>3. /\ given \o <<>> = given /\ given \o pieces \in Seq(Bytes)
      /\ (given \o pieces) \o <<>> = given \o pieces
  BY <1>1, Concat
<1>4. given' \in Seq(Bytes) /\ given' \o <<>> = given'
  BY <1>1, <1>2, <1>3
<1>5. BufferTypeOK'
  BY <1>2, <1>4, EmptySeq, DelimType DEF Inv, BufferTypeOK, L
<1>6. Accounted = given \o pieces /\ Accounted' = given'
  BY <1>1, <1>2, <1>3, <1>4 DEF Accounted
<1>7. Begins(given', sent)
  <2>1. CASE given' = given
    BY <1>1, <1>6, <2>1, BeginsLess
  <2>2. CASE given' = given \o pieces
    BY <1>1, <1>6, <2>2
  <2> QED
    BY <1>2, <1>3, <2>1, <2>2
<1> QED
  BY <1>2, <1>5, <1>6, <1>7 DEF Inv, Begins

LEMMA SendKeepsInv == Inv /\ Send => Inv'
<1> SUFFICES ASSUME Inv, Send PROVE Inv'
  OBVIOUS
<1>1. PICK c \in Bytes : sent' = Append(sent, c) /\ inbox' = Append(inbox, c)
  BY DEF Send
<1>2. /\ sent \in Seq(Bytes) /\ inbox \in Seq(Bytes) /\ given \in Seq(Bytes)
      /\ pieces \in Seq(Bytes) /\ buffer \in Seq(Bytes) /\ Accounted = sent
  BY DEF Send, Inv, BufferTypeOK
<1> DEFINE front == (given \o pieces) \o buffer
<1>3. front \in Seq(Bytes) /\ <<c>> \in Seq(Bytes)
  <2>1. given \o pieces \in Seq(Bytes)
    BY <1>2, Concat
  <2> QED
    BY <1>2, <2>1, Concat
<1>4. sent' = sent \o <<c>> /\ inbox' = inbox \o <<c>>
  BY <1>1, <1>2, AppendIsConcat
<1>5. sent = front \o inbox /\ Accounted' = front \o inbox'
  BY <1>2 DEF Accounted, Send
<1> HIDE DEF front
<1>6. front \o (inbox \o <<c>>) = (front \o inbox) \o <<c>>
  BY <1>2, <1>3, Regroup
<1>7. Accounted' = sent'
  BY <1>4, <1>5, <1>6
<1>8. sent' \in Seq(Bytes) /\ inbox' \in Seq(Bytes)
  BY <1>1, <1>2, AppendProperties
<1>9. BufferTypeOK'
  BY <1>8 DEF Send, Inv, BufferTypeOK
<1>10. Begins(sent', sent')
  BY <1>8, BeginsItself
<1> QED
  BY <1>2, <1>7, <1>9, <1>10 DEF Send, Inv, Begins

\* What the kernel forgets is the end of what was sent.
LEMMA ResetKeepsInv == Inv /\ Reset => Inv'
<1> SUFFICES ASSUME Inv, Reset PROVE Inv'
  OBVIOUS
<1>1. /\ sent \in Seq(Bytes) /\ inbox \in Seq(Bytes) /\ given \in Seq(Bytes)
      /\ pieces \in Seq(Bytes) /\ buffer \in Seq(Bytes)
      /\ Begins(Accounted, sent)
  BY DEF Inv, BufferTypeOK
<1>2. /\ inbox' \in {inbox, <<>>} /\ peer' = "reset" /\ UNCHANGED <<sent, call,
         waiting, buffer, matched, need, pieces, given>>
  BY DEF Reset
<1>3. BufferTypeOK'
  BY <1>1, <1>2, EmptySeq DEF Inv, BufferTypeOK
<1> DEFINE front == (given \o pieces) \o buffer
<1>4. front \in Seq(Bytes) /\ front \o <<>> = front
  <2>1. given \o pieces \in Seq(Bytes)
    BY <1>1, Concat
  <2>2. front \in Seq(Bytes)
    BY <1>1, <2>1, Concat
  <2> QED
    BY <2>2, Concat
<1>5. Accounted = front \o inbox /\ Accounted' = front \o inbox'
  BY <1>2 DEF Accounted
<1> HIDE DEF front
<1>6. Begins(front, sent)
  BY <1>1, <1>4, <1>5, BeginsLess
<1>7. Begins(Accounted', sent)
  BY <1>1, <1>2, <1>4, <1>5, <1>6
<1> QED
  BY <1>2, <1>3, <1>7 DEF Inv, Begins

LEMMA InvStep == Inv /\ [Next]_vars => Inv'
<1>1. ASSUME Inv, UNCHANGED vars PROVE Inv'
  BY <1>1 DEF vars, Inv, BufferTypeOK, Accounted, Begins
<1> QED
  BY <1>1, GetKeepsInv, ScanHitKeepsInv, ScanMissKeepsInv, TakeBufferedKeepsInv,
     ReadBeginsKeepsInv, ReadSomeKeepsInv, OthersKeepInv, ReadThrowsKeepsInv,
     SendKeepsInv, ResetKeepsInv DEF Next, Step

LEMMA InvHolds == Spec => []Inv
<1>1. Init => Inv
  <2> SUFFICES ASSUME Init PROVE Inv
    OBVIOUS
  <2>1. /\ sent = <<>> /\ inbox = <<>> /\ given = <<>> /\ pieces = <<>>
        /\ buffer = <<>> /\ <<>> \in Seq(Bytes) /\ matched \in 0..Len(Delim)
    BY DelimType, EmptySeq DEF Init, L
  <2>2. BufferTypeOK
    BY <2>1 DEF Init, BufferTypeOK
  <2>3. Accounted = sent
    BY <2>1, Concat DEF Accounted
  <2>4. Begins(sent, sent)
    BY <2>1, BeginsItself
  <2> QED
    BY <2>2, <2>3, <2>4 DEF Init, Inv
<1> QED
  BY <1>1, InvStep, PTL DEF Spec

\* The state of coro_buffer has its types; matched never passes the delimiter's
\* end, which get indexes with it.
THEOREM BufferTypeCorrect == Spec => []BufferTypeOK
<1>1. Inv => BufferTypeOK
  BY DEF Inv
<1> QED
  BY <1>1, InvHolds, PTL

\* However the calls are mixed and the stream is cut, no byte is lost, given
\* twice or out of order, and the end of the stream loses none either: only an
\* error of the connection does.
THEOREM NoByteIsLost == Spec => []NothingLost
<1>1. Inv => NothingLost
  BY DEF Inv, NothingLost, Begins
<1> QED
  BY <1>1, InvHolds, PTL
-----------------------------------------------------------------------------
(* What get finds *)

\* matched is what the matcher says of the pieces, and none of them ended with
\* the delimiter met.
MatchInv ==
  call = "get" =>
    /\ matched = Matcher(0, pieces)[Len(pieces)]
    /\ \A i \in 0..Len(pieces) : Matcher(0, pieces)[i] # L

LEMMA MatchStep == Inv /\ MatchInv /\ [Next]_vars => MatchInv'
<1> SUFFICES ASSUME Inv, MatchInv, [Next]_vars, call' = "get" PROVE MatchInv'
  BY DEF MatchInv
<1>1. pieces \in Seq(Bytes) /\ buffer \in Seq(Bytes)
  BY DEF Inv, BufferTypeOK
<1>2. CASE Get
  <2>1. pieces' = <<>> /\ matched' = 0
    BY <1>2 DEF Get, Inv
  <2>2. Matcher(0, <<>>)[0] = 0 /\ Len(<<>>) = 0 /\ 0 # L
    BY EmptySeq, MatcherSteps, DelimType
  <2>3. \A i \in 0..0 : i = 0
    OBVIOUS
  <2> QED
    BY <2>1, <2>2, <2>3 DEF MatchInv
<1>3. CASE ScanMiss
  <2> DEFINE m == Len(pieces)
             n == Len(buffer)
             f == Matcher(0, pieces \o buffer)
  <2>1. /\ m \in Nat /\ n \in Nat /\ Len(pieces \o buffer) = m + n
    BY <1>1, ConcatBytes
  <2>2. /\ \A i \in 0..m : f[i] = Matcher(0, pieces)[i]
        /\ \A i \in 0..n : f[m + i] = Matcher(matched, buffer)[i]
    <3>1. matched = Matcher(0, pieces)[m]
      BY <1>3 DEF ScanMiss, MatchInv
    <3> QED
      BY <1>1, <3>1, MatcherOfConcat
  <2>3. /\ matched' = Matcher(matched, buffer)[n] /\ pieces' = pieces \o buffer
        /\ \A i \in 1..n : Matcher(matched, buffer)[i] # L
        /\ \A i \in 0..m : Matcher(0, pieces)[i] # L
    BY <1>1, <1>3, LenProperties DEF ScanMiss, Hits, MatchInv, L
  <2> HIDE DEF m, n, f
  <2>4. matched' = f[m + n]
    BY <2>1, <2>2, <2>3
  <2>5. ASSUME NEW i \in 0..m + n PROVE f[i] # L
    <3>1. CASE i <= m
      BY <2>1, <2>2, <2>3, <3>1
    <3>2. CASE i > m
      <4>1. i - m \in 1..n /\ i - m \in 0..n /\ m + (i - m) = i
        BY <2>1, <3>2
      <4> QED
        BY <2>2, <2>3, <4>1
    <3> QED
      BY <2>1, <3>1, <3>2
  <2>6. matched' = f[Len(pieces')] /\ \A i \in 0..Len(pieces') : f[i] # L
    BY <2>1, <2>3, <2>4, <2>5
  <2> QED
    BY <2>3, <2>6 DEF MatchInv, f
<1>4. CASE call = "get" /\ UNCHANGED <<pieces, matched>>
  BY <1>4 DEF MatchInv
<1>5. Get \/ ScanMiss \/ (call = "get" /\ UNCHANGED <<pieces, matched>>)
  BY DEF Next, vars, Step, Get, TakeBuffered, ReadExact, ReadToEof, ScanHit,
     ScanMiss, ReadSome, ReadEnd, ReadBlocks, ReadThrows, Send, Close, Reset,
     Wake, Finish
<1> QED
  BY <1>2, <1>3, <1>4, <1>5

LEMMA MatchHolds == Spec => []MatchInv
<1>1. Init => MatchInv
  BY DEF Init, MatchInv
<1> QED
  BY <1>1, MatchStep, InvHolds, PTL DEF Spec

\* What get has matched is the same wherever the reads cut the stream.
THEOREM CutsDoNotMatter == Spec => []MatchIgnoresCuts
<1>1. MatchInv => MatchIgnoresCuts
  BY DEF MatchInv, MatchIgnoresCuts
<1> QED
  BY <1>1, MatchHolds, PTL

\* A sequence of which the delimiter is the end, byte by byte, ends with it,
\* whatever it follows.
LEMMA EndsAfter ==
  ASSUME NEW r \in Seq(Bytes), NEW s \in Seq(Bytes), L <= Len(s),
         \A j \in 1..L : s[Len(s) - L + j] = Delim[j]
  PROVE  EndsWith(r \o s, Delim)
<1> DEFINE w == r \o s
           n == Len(w)
           e == SubSeq(w, n - L + 1, n)
<1>1. /\ Len(r) \in Nat /\ Len(s) \in Nat /\ n = Len(r) + Len(s)
      /\ \A i \in 1..Len(s) : w[Len(r) + i] = s[i]
      /\ w \in Seq(Bytes)
  BY ConcatBytes, Concat
<1> HIDE DEF w
<1>2. \A i \in 1..n : w[i] \in Bytes
  BY <1>1, LenProperties
<1> HIDE DEF n
<1>3. n - L + 1 \in Int /\ n \in Int /\ \A i \in n - L + 1 .. n : w[i] \in Bytes
  BY <1>1, <1>2, DelimType
<1>4. /\ e \in Seq(Bytes)
      /\ Len(e) = IF n - L + 1 <= n THEN n - (n - L + 1) + 1 ELSE 0
      /\ \A j \in 1 .. n - (n - L + 1) + 1 : e[j] = w[(n - L + 1) + j - 1]
  BY <1>3, SubSeqProperties
<1> HIDE DEF e
<1>5. Len(e) = L /\ \A j \in 1..L : e[j] = w[(n - L + 1) + j - 1]
  <2>1. n - L + 1 <= n /\ n - (n - L + 1) + 1 = L
    BY <1>1, DelimType
  <2> QED
    BY <1>4, <2>1
<1>6. ASSUME NEW j \in 1..L PROVE e[j] = Delim[j]
  <2>1. /\ (n - L + 1) + j - 1 = Len(r) + (Len(s) - L + j)
        /\ Len(s) - L + j \in 1..Len(s)
    BY <1>1, DelimType
  <2> QED
    BY <1>1, <1>5, <2>1
<1>7. e = Delim
  BY <1>4, <1>5, <1>6, DelimType, SeqEqual DEF L
<1> QED
  BY <1>1, <1>7, DelimType DEF EndsWith, e, n, w, L

\* Where the loop over _buffer first finds the delimiter met, it is the end of
\* what get gives.
LEMMA HitIsAtEnd ==
  ASSUME Inv, MatchInv, ScanHit
  PROVE  EndsWith(given', Delim)
<1>1. PICK i \in Hits :
        /\ \A j \in Hits : i <= j
        /\ Finish(pieces \o SubSeq(buffer, 1, i))
  BY DEF ScanHit
<1> DEFINE a == SubSeq(buffer, 1, i)
           b == SubSeq(buffer, i + 1, Len(buffer))
           s == pieces \o a
           m == Len(pieces)
           f == Matcher(0, s)
<1>2. /\ given \in Seq(Bytes) /\ pieces \in Seq(Bytes) /\ buffer \in Seq(Bytes)
  BY DEF Inv, BufferTypeOK
<1>3. i \in 1..Len(buffer) /\ Len(buffer) \in Nat
  BY <1>2, LenProperties DEF Hits
<1>4. a \in Seq(Bytes) /\ b \in Seq(Bytes) /\ Len(a) = i /\ a \o b = buffer
  BY <1>2, <1>3, Split
<1>5. given' = given \o s
  BY <1>1 DEF Finish
<1>6. \A j \in 0..i : Matcher(matched, a)[j] = Matcher(matched, buffer)[j]
  <2> HIDE DEF a, b
  <2>1. \A j \in 0..Len(a) : Matcher(matched, a \o b)[j] = Matcher(matched, a)[j]
    <3>1. a \in Seq(Bytes) /\ b \in Seq(Bytes)
      BY <1>4
    <3> QED
      BY <3>1, MatcherOfConcat, Zenon
  <2> QED
    BY <1>4, <2>1
<1>7. Matcher(matched, buffer)[i] = L /\ \A j \in 1..i - 1 : Matcher(matched, buffer)[j] # L
  <2>1. \A j \in 1..i - 1 : j \in DOMAIN buffer /\ ~(i <= j)
    BY <1>2, <1>3, LenProperties
  <2> QED
    BY <1>1, <2>1 DEF Hits, L
<1> HIDE DEF a, b
<1>8. m \in Nat /\ Len(s) = m + i /\ s \in Seq(Bytes)
  BY <1>2, <1>4, ConcatBytes, Concat
<1>9. /\ \A j \in 0..m : f[j] = Matcher(0, pieces)[j]
      /\ \A j \in 0..i : f[m + j] = Matcher(matched, a)[j]
  <2>1. matched = Matcher(0, pieces)[m]
    BY DEF ScanHit, MatchInv
  <2> QED
    BY <1>2, <1>4, <2>1, MatcherOfConcat
<1>10. \A j \in 0..m : Matcher(0, pieces)[j] # L
  BY DEF ScanHit, MatchInv
<1> HIDE DEF m, f
<1>11. f[m + i] = L
  BY <1>3, <1>6, <1>7, <1>9
<1>12. ASSUME NEW j \in 0..m + i - 1 PROVE f[j] # L
  <2>1. CASE j <= m
    BY <1>8, <1>9, <1>10, <2>1
  <2>2. CASE j > m
    <3>1. j - m \in 1..i - 1 /\ j - m \in 0..i /\ m + (j - m) = j
      BY <1>3, <1>8, <2>2
    <3> QED
      BY <1>6, <1>7, <1>9, <3>1
  <2> QED
    BY <1>8, <2>1, <2>2
<1>13. Len(s) \in Nat /\ f[Len(s)] = L /\ \A j \in 0..Len(s) - 1 : f[j] # L
  BY <1>3, <1>8, <1>11, <1>12
<1> HIDE DEF s
<1>14. L <= Len(s) /\ \A j \in 1..L : s[Len(s) - L + j] = Delim[j]
  <2>1. Len(s) \in 0..Len(s) /\ \A j \in 0..Len(s) - 1 : Matcher(0, s)[j] # L
    BY <1>13 DEF f
  <2>2. /\ Matcher(0, s)[Len(s)] \in 0..Len(s)
        /\ \A j \in 1..Matcher(0, s)[Len(s)] :
             s[Len(s) - Matcher(0, s)[Len(s)] + j] = Delim[j]
    BY <1>8, <2>1, MatchIsAtEnd
  <2>3. Matcher(0, s)[Len(s)] = L
    BY <1>13 DEF f
  <2> QED
    BY <1>13, <2>2, <2>3
<1>15. EndsWith(given \o s, Delim)
  BY <1>2, <1>8, <1>14, EndsAfter
<1> QED
  BY <1>5, <1>15

\* What a get gives that has not met the end of the stream ends with the
\* delimiter.
THEOREM GetFindsDelim == Spec => GetEndsWithDelim
<1>1. Inv /\ MatchInv /\ [Next]_vars =>
        [call = "get" /\ call' = "idle" /\ buffer # <<>> => EndsWith(given', Delim)]_vars
  <2> SUFFICES ASSUME Inv, MatchInv, Next,
                      call = "get", call' = "idle", buffer # <<>>
               PROVE  EndsWith(given', Delim)
    OBVIOUS
  <2>1. ScanHit
    BY DEF Next, Step, Get, TakeBuffered, ReadExact, ReadToEof, ScanMiss,
       ReadSome, ReadEnd, ReadBlocks, ReadThrows, Send, Close, Reset, Wake, Reading
  <2> QED
    BY <2>1, HitIsAtEnd
<1> QED
  BY <1>1, MatchHolds, InvHolds, PTL DEF Spec, GetEndsWithDelim

-----------------------------------------------------------------------------
(* What get passes over *)

\* The delimiter is one byte, or the same one again and again.
Uniform == \A i, j \in 1..L : Delim[i] = Delim[j]

\* Such a delimiter does not go by unseen: with each byte of it the match is one
\* byte longer, even where it began before.
LEMMA UniformIsMet ==
  ASSUME Uniform, NEW s \in Seq(Bytes), Contains(s, Delim)
  PROVE  \E i \in 0..Len(s) : Matcher(0, s)[i] = L
<1> DEFINE f == Matcher(0, s)
<1>1. SUFFICES ASSUME \A i \in 0..Len(s) : f[i] # L PROVE FALSE
  OBVIOUS
<1>2. PICK k \in 0..Len(s) - L : SubSeq(s, k + 1, k + L) = Delim
  BY DEF Contains, L
<1>3. Len(s) \in Nat /\ L \in Nat \ {0} /\ k \in Nat /\ k + L <= Len(s)
  BY <1>2, LenProperties, DelimType
<1>4. \A j \in 1..L : s[k + j] = Delim[j]
  <2>1. \A i \in k + 1 .. k + L : s[i] \in Bytes
    BY <1>3, LenProperties
  <2>2. \A j \in 1..(k + L) - (k + 1) + 1 :
          SubSeq(s, k + 1, k + L)[j] = s[(k + 1) + j - 1]
    BY <1>3, <2>1, SubSeqProperties
  <2>3. \A j \in 1..L : j \in 1..(k + L) - (k + 1) + 1 /\ (k + 1) + j - 1 = k + j
    BY <1>3
  <2> QED
    BY <1>2, <2>2, <2>3
<1>5. \A i \in 0..Len(s) : f[i] \in 0..L
  BY <1>3, MatcherType
<1>6. \A i \in 1..Len(s) :
        f[i] = IF f[i - 1] = L THEN L ELSE NextMatch(f[i - 1], s[i])
  BY <1>3, MatcherSteps
<1> HIDE DEF f
<1> DEFINE T == {j \in Nat : j <= L => f[k + j] >= j}
<1>7. 0 \in T
  BY <1>3, <1>5
<1>8. ASSUME NEW j \in Nat, j \in T PROVE j + 1 \in T
  <2> SUFFICES ASSUME j + 1 <= L PROVE f[k + (j + 1)] >= j + 1
    OBVIOUS
  <2>1. /\ k + j \in 0..Len(s) /\ k + (j + 1) \in 1..Len(s)
        /\ (k + (j + 1)) - 1 = k + j /\ j + 1 \in 1..L
    BY <1>3
  <2>2. f[k + j] >= j /\ f[k + j] \in 0..L /\ f[k + j] # L
    BY <1>1, <1>3, <1>5, <1>8, <2>1
  <2>3. f[k + j] + 1 \in 1..L
    BY <1>3, <2>2
  <2>4. s[k + (j + 1)] = Delim[f[k + j] + 1]
    BY <1>4, <2>1, <2>3 DEF Uniform
  <2>5. f[k + (j + 1)] = f[k + j] + 1
    BY <1>6, <2>1, <2>2, <2>4 DEF NextMatch
  <2> QED
    BY <2>2, <2>5
<1> HIDE DEF T
<1>9. L \in T
  BY <1>3, <1>7, <1>8, SetInduction
<1>10. f[k + L] >= L /\ k + L \in 0..Len(s)
  BY <1>3, <1>9 DEF T
<1> QED
  BY <1>1, <1>3, <1>5, <1>10

\* Where the delimiter is one byte, or the same one again and again, a get that
\* is still looking has not passed it over.  That the matcher does not look again
\* at a byte that ends a match is a flaw for delimiters of different bytes only.
THEOREM UniformDelimStops == Uniform => (Spec => []GetStopsAtDelim)
<1> SUFFICES ASSUME Uniform PROVE Spec => []GetStopsAtDelim
  OBVIOUS
<1>1. Inv /\ MatchInv => GetStopsAtDelim
  <2> SUFFICES ASSUME Inv, MatchInv, call = "get", Contains(pieces, Delim) PROVE FALSE
    BY DEF GetStopsAtDelim
  <2>1. pieces \in Seq(Bytes)
    BY DEF Inv, BufferTypeOK
  <2> QED
    BY <2>1, UniformIsMet DEF MatchInv
<1> QED
  BY <1>1, MatchHolds, InvHolds, PTL
=============================================================================
