--------------------------- MODULE SessionsProofs ---------------------------
(***************************************************************************)
(* Theorems about the servers of Sessions.tla, for any kinds of program,   *)
(* any number of connections and peers that say anything.                  *)
(***************************************************************************)
EXTENDS Sessions, SequenceTheorems, TLAPS

\* The records of conn and sess.
Units == [i : 0..Length, to : Tos, code : Codes]
Replies == [to : Tos, code : Codes, next : {"read", "body", "over"}]
ConnType ==
  [peer : {"none", "open", "half", "gone", "reset"}, shakes : 0..6,
   inbox : Seq(Commands \cup {"shake"}), outbox : Seq(Units),
   pending : Seq(Commands \cup {"hello"}), body : BOOLEAN, last : 1..Length,
   mailed : BOOLEAN, stray : BOOLEAN]
SessType ==
  [pc : {"none", "shake", "read", "body", "astray", "write", "alert", "shut", "over"},
   parked : {"no", "in", "out"}, p : 1..Length, env : BOOLEAN,
   reply : Replies, got : {"none", "text", "cipher"}]

TypeInv ==
  /\ kind \in Kinds
  /\ backlog \in Seq(Conns)
  /\ acceptor \in {"run", "wait", "over"} \cup Conns
  /\ refused \in BOOLEAN /\ down \in BOOLEAN
  /\ sent \in 0..MaxSent[kind]
  /\ conn \in [Conns -> ConnType]
  /\ sess \in [Conns -> SessType]
  /\ \A c \in Conns : Len(conn[c].outbox) <= Room

\* A connection waits once to be accepted, and nobody waits who is not there.
BacklogInv ==
  /\ \A i \in DOMAIN backlog :
       sess[backlog[i]].pc = "none" /\ conn[backlog[i]].peer # "none"
  /\ \A i, j \in DOMAIN backlog : backlog[i] = backlog[j] => i = j
  /\ \A c \in Conns : conn[c].peer = "none" => sess[c].pc = "none"

\* The handshake has its six steps.
ShakesInv ==
  \A c \in Conns : sess[c].pc \in {"none", "shake"} => conn[c].shakes <= 5

Inv == TypeInv /\ BacklogInv /\ ShakesInv

-----------------------------------------------------------------------------
(* The data *)

\* What a session reads.
LEMMA InboxType ==
  ASSUME TypeInv, NEW c \in Conns, conn[c].inbox # <<>>
  PROVE  /\ Head(conn[c].inbox) \in Commands \cup {"shake"}
         /\ Tail(conn[c].inbox) \in Seq(Commands \cup {"shake"})
<1>1. conn[c].inbox \in Seq(Commands \cup {"shake"})
  BY DEF TypeInv, ConnType
<1> QED
  BY <1>1, HeadTailProperties

\* What a session says first.
LEMMA FirstType ==
  ASSUME TypeInv
  PROVE  First \in SessType /\ Idle \in SessType /\ Over \in SessType
<1>1. 1 \in 1..Length
  BY SocketsAssumption
<1>2. NoReply \in Replies
  BY DEF NoReply, Replies, Tos, Codes
<1>3. Idle \in SessType /\ Over \in SessType
  BY <1>1, <1>2 DEF Idle, Over, SessType
<1>4. [to |-> "hello", code |-> 250, next |-> "read"] \in Replies
  BY DEF Replies, Tos, Codes
<1>5. First \in SessType
  <2>1. CASE kind = "smtp"
    BY <1>1, <1>4, <2>1 DEF First, Idle, SessType
  <2>2. CASE kind # "smtp"
    BY <1>1, <1>2, <2>2 DEF First, Idle, SessType
  <2> QED
    BY <2>1, <2>2
<1> QED
  BY <1>3, <1>5

\* What the handler of a command makes of its session.
LEMMA HandledType ==
  ASSUME TypeInv, NEW c \in Conns, NEW cmd, NEW to \in Tos
  PROVE  Handled(c, cmd, to) \in SessType
<1> DEFINE a == Answer(cmd, sess[c].env)
<1>1. sess[c] \in SessType /\ sess[c].env \in BOOLEAN
  BY DEF TypeInv, SessType
<1>2. Found(cmd, sess[c].env) \in BOOLEAN
  BY <1>1 DEF Found
<1>3. a.code \in Codes /\ a.next \in {"read", "body", "over"} /\ a.env \in BOOLEAN
  <2> DEFINE env == sess[c].env
             Go(code, next, e) == [code |-> code, next |-> next, env |-> e]
  <2>1. \E code \in Codes, next \in {"read", "body", "over"}, e \in BOOLEAN :
          a = Go(code, next, e)
    <3>1. CASE cmd = "mail"
      <4>1. a = Go(250, "read", Found(cmd, env))
        BY <3>1 DEF Answer, Bodies
      <4> QED
        BY <1>2, <4>1 DEF Codes
    <3>2. CASE cmd \in {"mail1", "mail0"}
      <4>1. a = Go(501, "read", Found(cmd, env))
        BY <3>2 DEF Answer, Bodies
      <4> QED
        BY <1>2, <4>1 DEF Codes
    <3>3. CASE cmd = "rcpt"
      <4>1. a = Go(IF env THEN 250 ELSE 503, "read", env)
        BY <3>3 DEF Answer, Bodies
      <4> QED
        BY <1>1, <4>1 DEF Codes
    <3>4. CASE cmd = "data"
      <4>1. a = Go(354, "body", env)
        BY <3>4 DEF Answer, Bodies
      <4> QED
        BY <1>1, <4>1 DEF Codes
    <3>5. CASE cmd \in {"body", "blank", "rset"}
      <4>1. a = Go(250, "read", FALSE)
        BY <3>5 DEF Answer, Bodies
      <4>2. 250 \in Codes /\ "read" \in {"read", "body", "over"} /\ FALSE \in BOOLEAN
        BY DEF Codes
      <4> QED
        BY <4>1, <4>2, Zenon
    <3>6. CASE cmd = "quit"
      <4>1. a = Go(221, "over", env)
        BY <3>6 DEF Answer, Bodies
      <4> QED
        BY <1>1, <4>1 DEF Codes
    <3>7. CASE cmd \notin {"mail", "mail1", "mail0", "rcpt", "data", "body", "blank",
                           "rset", "quit"}
      <4>1. a = Go(502, "read", env)
        BY <3>7 DEF Answer, Bodies
      <4> QED
        BY <1>1, <4>1 DEF Codes
    <3> QED
      BY <3>1, <3>2, <3>3, <3>4, <3>5, <3>6, <3>7
  <2> HIDE DEF a
  <2> QED
    BY <2>1
<1>4. [to |-> to, code |-> a.code, next |-> a.next] \in Replies
  BY <1>3 DEF Replies
<1> HIDE DEF a
<1>5. Handled(c, cmd, to) =
        [sess[c] EXCEPT !.pc = "write", !.env = a.env, !.got = "text",
                        !.reply = [to |-> to, code |-> a.code, next |-> a.next]]
  BY DEF Handled, a
<1> QED
  BY <1>1, <1>3, <1>4, <1>5 DEF SessType

\* What the kernel and the peer's absence make of a write.
LEMMA WroteType ==
  ASSUME TypeInv, NEW c \in Conns, NEW units \in Seq(Units),
         conn[c].peer = "gone" \/ Len(conn[c].outbox) + Len(units) <= Room
  PROVE  /\ Wrote(c, units) \in ConnType
         /\ Len(Wrote(c, units).outbox) <= Room
         /\ Wrote(c, units).shakes = conn[c].shakes
         /\ Wrote(c, units).inbox = conn[c].inbox
         /\ Wrote(c, units).peer = "none" <=> conn[c].peer = "none"
<1>1. conn[c] \in ConnType /\ conn[c].outbox \in Seq(Units)
  BY DEF TypeInv, ConnType
<1>2. Len(conn[c].outbox) <= Room
  BY DEF TypeInv
<1>3. CASE conn[c].peer = "gone"
  BY <1>1, <1>2, <1>3 DEF Wrote, ConnType
<1>4. CASE conn[c].peer # "gone"
  <2> DEFINE o == conn[c].outbox \o units
  <2>1. o \in Seq(Units) /\ Len(o) <= Room
    BY <1>1, <1>4, ConcatProperties
  <2> HIDE DEF o
  <2>2. Wrote(c, units) = [conn[c] EXCEPT !.outbox = o]
    BY <1>4 DEF Wrote, o
  <2> QED
    BY <1>1, <2>1, <2>2 DEF ConnType
<1> QED
  BY <1>3, <1>4

-----------------------------------------------------------------------------
(* Each step is one connection's *)

\* A step of connection c, which has the records k and s after it.
Change(c, k, s) ==
  /\ k \in ConnType /\ s \in SessType /\ Len(k.outbox) <= Room
  /\ conn' = [conn EXCEPT ![c] = k] /\ sess' = [sess EXCEPT ![c] = s]
  /\ s.pc = "none" <=> sess[c].pc = "none"
  /\ k.peer = "none" => conn[c].peer = "none"
  /\ s.pc \in {"none", "shake"} => k.shakes <= 5

\* The records as they are.
LEMMA Records ==
  ASSUME Inv, NEW c \in Conns
  PROVE  /\ conn[c] \in ConnType /\ Len(conn[c].outbox) <= Room
         /\ sess[c] \in SessType
         /\ conn = [conn EXCEPT ![c] = conn[c]]
         /\ sess = [sess EXCEPT ![c] = sess[c]]
         /\ sess[c].pc \in {"none", "shake"} => conn[c].shakes <= 5
BY DEF Inv, TypeInv, ShakesInv

\* A session's step that leaves the connection alone.
LEMMA SessChange ==
  ASSUME Inv, NEW c \in Conns, NEW s \in SessType, conn' = conn,
         sess' = [sess EXCEPT ![c] = s],
         s.pc = "none" <=> sess[c].pc = "none",
         s.pc = "shake" => sess[c].pc = "shake"
  PROVE  Change(c, conn[c], s)
BY Records DEF Change

\* A peer's step.
LEMMA ConnChange ==
  ASSUME Inv, NEW c \in Conns, NEW k \in ConnType, sess' = sess,
         conn' = [conn EXCEPT ![c] = k], Len(k.outbox) <= Room,
         k.peer = "none" => conn[c].peer = "none",
         sess[c].pc \in {"none", "shake"} => k.shakes <= 5
  PROVE  Change(c, k, sess[c])
BY Records DEF Change

LEMMA HandshakeSteps ==
  ASSUME Inv, NEW c \in Conns, ShakeIn(c) \/ ShakeOut(c) \/ ShakeFails(c)
  PROVE  \E k, s : Change(c, k, s)
<1>1. CASE ShakeIn(c)
  <2> DEFINE t == Tail(conn[c].inbox)
             n == conn[c].shakes + 1
             k == [conn[c] EXCEPT !.inbox = t, !.shakes = n]
  <2>1. t \in Seq(Commands \cup {"shake"}) /\ sess[c].pc = "shake"
    BY <1>1, InboxType DEF ShakeIn, Is, Inv
  <2>2. n \in 0..6 /\ (conn[c].shakes # 5 => n <= 5)
    <3>1. conn[c] \in ConnType /\ conn[c].shakes <= 5
      BY <2>1, Records
    <3>2. conn[c].shakes \in 0..6
      BY <3>1 DEF ConnType
    <3> QED
      BY <3>1, <3>2
  <2>3. conn' = [conn EXCEPT ![c] = k]
    BY <1>1 DEF ShakeIn
  <2>4. k \in ConnType /\ k.outbox = conn[c].outbox /\ k.peer = conn[c].peer
        /\ k.shakes = n
    <3> HIDE DEF t, n
    <3> QED
      BY <2>1, <2>2, Records DEF ConnType
  <2>5. CASE conn[c].shakes = 5
    <3>1. sess' = [sess EXCEPT ![c] = [sess[c] EXCEPT !.pc = "read"]]
      BY <1>1, <2>5 DEF ShakeIn
    <3>2. [sess[c] EXCEPT !.pc = "read"] \in SessType
      BY Records DEF SessType
    <3> HIDE DEF k
    <3>3. Change(c, k, [sess[c] EXCEPT !.pc = "read"])
      BY <2>1, <2>3, <2>4, <3>1, <3>2, Records DEF Change
    <3> QED
      BY <3>3
  <2>6. CASE conn[c].shakes # 5
    <3>1. sess' = sess
      BY <1>1, <2>6 DEF ShakeIn
    <3> HIDE DEF k, n
    <3>2. Change(c, k, sess[c])
      BY <2>2, <2>3, <2>4, <2>6, <3>1, ConnChange, Records
    <3> QED
      BY <3>2
  <2> QED
    BY <2>5, <2>6
<1>2. CASE ShakeOut(c)
  <2> DEFINE w == Wrote(c, <<Unit(0, NoReply)>>)
             n == w.shakes + 1
             k == [w EXCEPT !.shakes = n]
  <2>1. conn[c].shakes \in {2, 3} /\ sess' = sess
    BY <1>2 DEF ShakeOut, Answering
  <2>2. <<Unit(0, NoReply)>> \in Seq(Units) /\ Len(<<Unit(0, NoReply)>>) = 1
    <3>1. Unit(0, NoReply) \in Units
      BY SocketsAssumption DEF Unit, NoReply, Units, Tos, Codes
    <3> QED
      BY <3>1
  <2>3. conn[c].peer = "gone" \/ Len(conn[c].outbox) + 1 <= Room
    <3>1. Len(conn[c].outbox) \in Nat /\ Room \in Nat
      BY Records, SocketsAssumption DEF ConnType
    <3> QED
      BY <1>2, <3>1 DEF ShakeOut, KernelReady, HasRoom, Broken
  <2>4. /\ w \in ConnType /\ Len(w.outbox) <= Room
        /\ w.peer = "none" <=> conn[c].peer = "none"
        /\ w.shakes = conn[c].shakes
    BY <2>2, <2>3, WroteType DEF Inv
  <2>5. conn' = [conn EXCEPT ![c] = k]
    BY <1>2 DEF ShakeOut
  <2>6. n \in 0..6 /\ n <= 5 /\ sess' = sess
    BY <2>1, <2>4
  <2> HIDE DEF w, n
  <2>7. k \in ConnType /\ Len(k.outbox) <= Room /\ k.shakes = n /\ k.peer = w.peer
    BY <2>4, <2>6 DEF ConnType
  <2> HIDE DEF k
  <2>8. Change(c, k, sess[c])
    BY <2>4, <2>5, <2>6, <2>7, ConnChange
  <2> QED
    BY <2>8
<1>3. CASE ShakeFails(c)
  <2>1. sess[c].pc = "shake" /\ conn' = conn
    BY <1>3 DEF ShakeFails, Is
  <2>2. CASE sess' = [sess EXCEPT ![c] = Over]
    <3>1. Over \in SessType /\ Over.pc = "over"
      BY FirstType DEF Inv, Over, Idle
    <3>2. Change(c, conn[c], Over)
      BY <2>1, <2>2, <3>1, SessChange
    <3> QED
      BY <3>2
  <2>3. CASE sess' = [sess EXCEPT ![c].parked = Wants(c)]
    <3> DEFINE s == [sess[c] EXCEPT !.parked = Wants(c)]
    <3>1. s \in SessType /\ s.pc = sess[c].pc /\ sess' = [sess EXCEPT ![c] = s]
      BY <2>3, Records DEF SessType, Wants
    <3> HIDE DEF s
    <3>2. Change(c, conn[c], s)
      BY <2>1, <3>1, SessChange
    <3> QED
      BY <3>2
  <2> QED
    BY <1>3, <2>2, <2>3 DEF ShakeFails
<1> QED
  BY <1>1, <1>2, <1>3

LEMMA WaitSteps ==
  ASSUME Inv, NEW c \in Conns, Parks(c) \/ Woken(c)
  PROVE  \E k, s : Change(c, k, s)
<1>1. PICK dir \in {"no", "in", "out"} : sess' = [sess EXCEPT ![c].parked = dir]
  BY DEF Parks, Woken, Wants
<1> DEFINE s == [sess[c] EXCEPT !.parked = dir]
<1>2. conn' = conn
  BY DEF Parks, Woken
<1>3. s \in SessType /\ s.pc = sess[c].pc /\ sess' = [sess EXCEPT ![c] = s]
  BY <1>1, Records DEF SessType
<1> HIDE DEF s
<1>4. Change(c, conn[c], s)
  BY <1>2, <1>3, SessChange
<1> QED
  BY <1>4

\* What write writes.
LEMMA UnitsType ==
  ASSUME Inv, NEW c \in Conns, NEW n \in 1..(Length + 1 - sess[c].p)
  PROVE  /\ [i \in 1..n |-> Unit(sess[c].p + i - 1, sess[c].reply)] \in Seq(Units)
         /\ Len([i \in 1..n |-> Unit(sess[c].p + i - 1, sess[c].reply)]) = n
         /\ sess[c].p + n \in 2..(Length + 1)
<1>1. sess[c].p \in 1..Length /\ sess[c].reply \in Replies /\ Length \in Nat
  BY Records, SocketsAssumption DEF SessType
<1>2. \A i \in 1..n : Unit(sess[c].p + i - 1, sess[c].reply) \in Units
  <2> SUFFICES ASSUME NEW i \in 1..n
               PROVE  Unit(sess[c].p + i - 1, sess[c].reply) \in Units
    OBVIOUS
  <2>1. sess[c].p + i - 1 \in 0..Length
    BY <1>1
  <2> QED
    BY <1>1, <2>1 DEF Unit, Units, Replies
<1>3. n \in Nat /\ sess[c].p + n \in 2..(Length + 1)
  BY <1>1
<1> QED
  BY <1>2, <1>3

LEMMA WriteSteps ==
  ASSUME Inv, NEW c \in Conns, Write(c) \/ WriteThrows(c) \/ Alert(c) \/ Shut(c)
  PROVE  \E k, s : Change(c, k, s)
<1>0. Over \in SessType /\ Over.pc = "over"
  BY FirstType DEF Inv, Over, Idle
<1>1. CASE Write(c)
  <2>1. PICK n \in 1..(Length + 1 - sess[c].p) :
          LET s == sess[c] IN
          /\ conn[c].peer = "gone" \/ Len(conn[c].outbox) + n <= Room
          /\ conn' = [conn EXCEPT ![c] = Wrote(c, [i \in 1..n |-> Unit(s.p + i - 1, s.reply)])]
          /\ sess' = [sess EXCEPT ![c] =
                        IF s.p + n <= Length THEN [s EXCEPT !.p = Advanced(s.p, n)]
                        ELSE IF s.reply.next = "over" THEN Over
                        ELSE [s EXCEPT !.pc = s.reply.next, !.p = 1, !.reply = NoReply,
                                       !.got = "none"]]
    BY <1>1 DEF Write
  <2> DEFINE units == [i \in 1..n |-> Unit(sess[c].p + i - 1, sess[c].reply)]
             k == Wrote(c, units)
             s == IF sess[c].p + n <= Length THEN [sess[c] EXCEPT !.p = Advanced(sess[c].p, n)]
                  ELSE IF sess[c].reply.next = "over" THEN Over
                  ELSE [sess[c] EXCEPT !.pc = sess[c].reply.next, !.p = 1,
                                       !.reply = NoReply, !.got = "none"]
  <2>2. units \in Seq(Units) /\ Len(units) = n /\ sess[c].p + n \in 2..(Length + 1)
    BY UnitsType
  <2>3. conn' = [conn EXCEPT ![c] = k] /\ sess' = [sess EXCEPT ![c] = s]
    BY <2>1
  <2>4. sess[c].pc = "write"
    BY <1>1 DEF Write, Is
  <2>5. s \in SessType /\ s.pc \notin {"none", "shake"}
    <3>1. sess[c] \in SessType /\ NoReply \in Replies /\ 1 \in 1..Length
      BY Records, SocketsAssumption DEF NoReply, Replies, Tos, Codes
    <3>2. sess[c].reply.next \in {"read", "body", "over"}
      BY <3>1 DEF SessType, Replies
    <3>3. sess[c].p + n <= Length => sess[c].p + n \in 1..Length
      BY <2>2
    <3> HIDE DEF units, k
    <3> QED
      BY <1>0, <2>4, <3>1, <3>2, <3>3 DEF SessType, Advanced
  <2> HIDE DEF units, s
  <2>6. /\ k \in ConnType /\ Len(k.outbox) <= Room
        /\ k.peer = "none" <=> conn[c].peer = "none"
    BY <2>1, <2>2, WroteType DEF Inv
  <2> HIDE DEF k
  <2>7. Change(c, k, s)
    BY <2>3, <2>4, <2>5, <2>6 DEF Change
  <2> QED
    BY <2>7
<1>2. CASE WriteThrows(c)
  <2>1. /\ conn' = conn /\ sess' = [sess EXCEPT ![c] = Over]
        /\ sess[c].pc \in {"write", "alert"}
    BY <1>2 DEF WriteThrows, AfterError, Is
  <2>2. Change(c, conn[c], Over)
    BY <1>0, <2>1, SessChange
  <2> QED
    BY <2>2
<1>3. CASE Alert(c)
  <2> DEFINE units == <<Unit(0, sess[c].reply)>>
             k == Wrote(c, units)
             s == IF kind = "ssl" THEN Over ELSE [sess[c] EXCEPT !.pc = "shut"]
  <2>1. units \in Seq(Units) /\ Len(units) = 1
    <3>1. Unit(0, sess[c].reply) \in Units
      BY Records, SocketsAssumption DEF Unit, Units, SessType, Replies
    <3> QED
      BY <3>1
  <2>2. conn[c].peer = "gone" \/ Len(conn[c].outbox) + Len(units) <= Room
    <3>1. Len(conn[c].outbox) \in Nat /\ Room \in Nat
      BY Records, SocketsAssumption DEF ConnType
    <3> QED
      BY <1>3, <2>1, <3>1 DEF Alert, KernelReady, HasRoom, Broken
  <2>3. conn' = [conn EXCEPT ![c] = k] /\ sess' = [sess EXCEPT ![c] = s]
    BY <1>3 DEF Alert
  <2>4. s \in SessType /\ s.pc \notin {"none", "shake"} /\ sess[c].pc = "alert"
    BY <1>0, <1>3, Records DEF Alert, Is, SessType
  <2> HIDE DEF units, s
  <2>5. /\ k \in ConnType /\ Len(k.outbox) <= Room
        /\ k.peer = "none" <=> conn[c].peer = "none"
    BY <2>1, <2>2, WroteType DEF Inv
  <2> HIDE DEF k
  <2>6. Change(c, k, s)
    BY <2>3, <2>4, <2>5 DEF Change
  <2> QED
    BY <2>6
<1>4. CASE Shut(c)
  <2>1. sess[c].pc = "shut"
    BY <1>4 DEF Shut, Is
  <2>2. CASE AtEnd(c)
    <3>1. conn' = conn /\ sess' = [sess EXCEPT ![c] = Over]
      BY <1>4, <2>2 DEF Shut
    <3>2. Change(c, conn[c], Over)
      BY <1>0, <2>1, <3>1, SessChange
    <3> QED
      BY <3>2
  <2>3. CASE ~AtEnd(c)
    <3> DEFINE t == Tail(conn[c].inbox)
               k == [conn[c] EXCEPT !.inbox = t]
    <3>1. conn[c].inbox # <<>>
      BY <1>4, <2>3 DEF Shut, AtEnd, KernelReady
    <3>2. t \in Seq(Commands \cup {"shake"})
      BY <3>1, InboxType DEF Inv
    <3>3. conn' = [conn EXCEPT ![c] = k] /\ sess' = sess
      BY <1>4, <2>3 DEF Shut
    <3> HIDE DEF t
    <3>4. k \in ConnType /\ k.outbox = conn[c].outbox /\ k.peer = conn[c].peer
      BY <3>2, Records DEF ConnType
    <3> HIDE DEF k
    <3>5. Change(c, k, sess[c])
      BY <2>1, <3>3, <3>4, Records, ConnChange
    <3> QED
      BY <3>5
  <2> QED
    BY <2>2, <2>3
<1> QED
  BY <1>1, <1>2, <1>3, <1>4

\* A session reads, and leaves the rest of its inbox.
LEMMA ReadChange ==
  ASSUME Inv, NEW c \in Conns, NEW s \in SessType, conn[c].inbox # <<>>,
         conn' = [conn EXCEPT ![c].inbox = Tail(@)],
         sess' = [sess EXCEPT ![c] = s],
         sess[c].pc \notin {"none", "shake"}, s.pc \notin {"none", "shake"}
  PROVE  \E k : Change(c, k, s)
<1> DEFINE t == Tail(conn[c].inbox)
           k == [conn[c] EXCEPT !.inbox = t]
<1>1. t \in Seq(Commands \cup {"shake"})
  BY InboxType DEF Inv
<1>2. conn' = [conn EXCEPT ![c] = k]
  OBVIOUS
<1> HIDE DEF t
<1>3. k \in ConnType /\ k.outbox = conn[c].outbox /\ k.peer = conn[c].peer
  BY <1>1, Records DEF ConnType
<1> HIDE DEF k
<1>4. Change(c, k, s)
  BY <1>2, <1>3, Records DEF Change
<1> QED
  BY <1>4

\* What echo_session makes of a line.
LEMMA EchoingType ==
  ASSUME Inv, NEW c \in Conns, NEW got \in {"text", "cipher"}, NEW next \in Tos,
         Echoing(c, got, next)
  PROVE  \E s \in SessType : /\ sess' = [sess EXCEPT ![c] = s]
                             /\ s.pc \in {"alert", "write"}
<1> DEFINE pc == IF next = "quit" THEN "alert" ELSE "write"
           reply == [to |-> next, code |-> 0, next |-> "read"]
           s == [sess[c] EXCEPT !.got = got, !.pc = pc, !.reply = reply]
<1>1. reply \in Replies
  BY DEF Replies, Codes
<1>2. sess' = [sess EXCEPT ![c] = s]
  BY DEF Echoing
<1> HIDE DEF reply
<1>3. s \in SessType /\ s.pc \in {"alert", "write"}
  BY <1>1, Records DEF SessType
<1> QED
  BY <1>2, <1>3

LEMMA ReadSteps ==
  ASSUME Inv, NEW c \in Conns,
         \/ ReadCommand(c) \/ ReadOn(c) \/ ReadPastEnd(c) \/ ReadLine(c)
         \/ ReadRecord(c) \/ ReadEnd(c) \/ ReadThrows(c)
  PROVE  \E k, s : Change(c, k, s)
<1>1. CASE ReadCommand(c)
  <2> DEFINE cmd == Head(conn[c].inbox)
             s == Handled(c, cmd, cmd)
  <2>1. /\ conn[c].inbox # <<>> /\ sess[c].pc \in {"read", "body", "astray"}
        /\ sess' = [sess EXCEPT ![c] = s]
        /\ conn' = [conn EXCEPT ![c].inbox = Tail(@)]
    BY <1>1 DEF ReadCommand, Finds, InBody, Is, Rest
  <2>2. cmd \in Tos
    BY <2>1, InboxType DEF Inv, Tos
  <2>3. s \in SessType
    BY <2>2, HandledType DEF Inv
  <2>4. s.pc = "write"
    <3>1. sess[c] \in SessType
      BY Records
    <3> QED
      BY <3>1 DEF Handled, SessType
  <2> HIDE DEF s
  <2>5. \E k : Change(c, k, s)
    BY <2>1, <2>3, <2>4, ReadChange
  <2> QED
    BY <2>5
<1>2. CASE ReadPastEnd(c)
  <2> DEFINE s == Handled(c, IF sess[c].pc = "read" THEN "other" ELSE "body", "end")
  <2>1. /\ sess[c].pc \in {"read", "body", "astray"} /\ conn' = conn
        /\ sess' = [sess EXCEPT ![c] = s]
    BY <1>2 DEF ReadPastEnd, InBody, Is
  <2>2. s \in SessType
    BY HandledType DEF Inv, Tos
  <2>3. s.pc = "write"
    <3>1. sess[c] \in SessType
      BY Records
    <3> QED
      BY <3>1 DEF Handled, SessType
  <2> HIDE DEF s
  <2>4. Change(c, conn[c], s)
    BY <2>1, <2>2, <2>3, SessChange
  <2> QED
    BY <2>4
<1>3. CASE ReadLine(c)
  <2>1. /\ conn[c].inbox # <<>> /\ sess[c].pc = "read"
        /\ Echoing(c, "text", Head(conn[c].inbox))
        /\ conn' = [conn EXCEPT ![c].inbox = Tail(@)]
    BY <1>3 DEF ReadLine, Is, Rest
  <2>2. Head(conn[c].inbox) \in Tos
    BY <2>1, InboxType DEF Inv, Tos
  <2>3. PICK s \in SessType : /\ sess' = [sess EXCEPT ![c] = s]
                              /\ s.pc \in {"alert", "write"}
    BY <2>1, <2>2, EchoingType
  <2>4. \E k : Change(c, k, s)
    BY <2>1, <2>3, ReadChange
  <2> QED
    BY <2>4
<1>4. CASE ReadRecord(c)
  <2>1. /\ conn[c].inbox # <<>> /\ sess[c].pc = "read"
        /\ conn' = [conn EXCEPT ![c].inbox = Tail(@)]
    BY <1>4 DEF ReadRecord, Is
  <2>2. \E s \in SessType : /\ sess' = [sess EXCEPT ![c] = s]
                            /\ s.pc \notin {"none", "shake"}
    <3>1. CASE \E cmd \in Commands : Echoing(c, "cipher", cmd)
      <4>1. PICK cmd \in Tos : Echoing(c, "cipher", cmd)
        BY <3>1 DEF Tos
      <4>2. \E s \in SessType : /\ sess' = [sess EXCEPT ![c] = s]
                                /\ s.pc \in {"alert", "write"}
        BY <4>1, EchoingType
      <4> QED
        BY <4>2
    <3>2. CASE sess' = [sess EXCEPT ![c].got = "cipher"]
      <4> DEFINE s == [sess[c] EXCEPT !.got = "cipher"]
      <4>1. s \in SessType /\ s.pc = "read" /\ sess' = [sess EXCEPT ![c] = s]
        BY <2>1, <3>2, Records DEF SessType
      <4> QED
        BY <4>1
    <3> QED
      BY <1>4, <3>1, <3>2 DEF ReadRecord
  <2>3. PICK s \in SessType : /\ sess' = [sess EXCEPT ![c] = s]
                              /\ s.pc \notin {"none", "shake"}
    BY <2>2
  <2>4. \E k : Change(c, k, s)
    BY <2>1, <2>3, ReadChange
  <2> QED
    BY <2>4
<1>5. CASE ReadEnd(c) \/ ReadThrows(c)
  <2>1. /\ conn' = conn /\ sess' = [sess EXCEPT ![c] = Over]
        /\ sess[c].pc \in {"read", "body", "astray"}
    BY <1>5 DEF ReadEnd, ReadThrows, InBody, Is
  <2>2. Over \in SessType /\ Over.pc = "over"
    BY FirstType DEF Inv, Over, Idle
  <2>3. Change(c, conn[c], Over)
    BY <2>1, <2>2, SessChange
  <2> QED
    BY <2>3
<1>6. CASE ReadOn(c)
  <2> DEFINE t == Tail(conn[c].inbox)
             k == [conn[c] EXCEPT !.inbox = t, !.stray = TRUE]
             s == [sess[c] EXCEPT !.pc = "astray"]
  <2>1. conn[c].inbox # <<>> /\ sess[c].pc \in {"body", "astray"}
    BY <1>6 DEF ReadOn, Misses, InBody, Is
  <2>2. t \in Seq(Commands \cup {"shake"})
    BY <2>1, InboxType DEF Inv
  <2>3. conn' = [conn EXCEPT ![c] = k] /\ sess' = [sess EXCEPT ![c] = s]
    BY <1>6 DEF ReadOn
  <2> HIDE DEF t
  <2>4. k \in ConnType /\ k.outbox = conn[c].outbox /\ k.peer = conn[c].peer
    BY <2>2, Records DEF ConnType
  <2>5. s \in SessType /\ s.pc = "astray"
    BY Records DEF SessType
  <2> HIDE DEF k, s
  <2>6. Change(c, k, s)
    BY <2>1, <2>3, <2>4, <2>5, Records DEF Change
  <2> QED
    BY <2>6
<1> QED
  BY <1>1, <1>2, <1>3, <1>4, <1>5, <1>6

LEMMA NoPeerType ==
  ASSUME TypeInv
  PROVE  NoPeer \in ConnType /\ Len(NoPeer.outbox) = 0 /\ NoPeer.outbox = <<>>
<1>1. /\ <<>> \in Seq(Commands \cup {"shake"}) /\ <<>> \in Seq(Units)
      /\ <<>> \in Seq(Commands \cup {"hello"}) /\ Length \in 1..Length
  BY SocketsAssumption
<1> QED
  BY <1>1 DEF NoPeer, ConnType

LEMMA PeerSteps ==
  ASSUME Inv, NEW c \in Conns, PeerStep(c)
  PROVE  \E k, s : Change(c, k, s)
<1>0. /\ conn[c] \in ConnType /\ Len(conn[c].outbox) <= Room
      /\ sess[c].pc \in {"none", "shake"} => conn[c].shakes <= 5
      /\ conn[c].shakes \in 0..6
  BY Records DEF ConnType
<1>1. CASE Connect(c)
  <2> DEFINE t == IF kind = "smtp" THEN <<"hello">> ELSE <<>>
             k == [conn[c] EXCEPT !.peer = "open", !.pending = t]
  <2>1. conn' = [conn EXCEPT ![c] = k] /\ sess' = sess
    BY <1>1 DEF Connect, Peer
  <2>2. t \in Seq(Commands \cup {"hello"})
    <3> DEFINE S == Commands \cup {"hello"}
    <3>1. "hello" \in S
      OBVIOUS
    <3> HIDE DEF S
    <3>2. <<"hello">> \in Seq(S) /\ <<>> \in Seq(S)
      BY <3>1
    <3> QED
      BY <3>2 DEF S
  <2> HIDE DEF t
  <2>3. /\ k \in ConnType /\ k.outbox = conn[c].outbox /\ k.peer = "open"
        /\ k.shakes = conn[c].shakes
    BY <1>0, <2>2 DEF ConnType
  <2> HIDE DEF k
  <2>4. Change(c, k, sess[c])
    BY <1>0, <2>1, <2>3, ConnChange
  <2> QED
    BY <2>4
<1>2. CASE PeerShakes(c)
  <2> DEFINE t == Append(conn[c].inbox, "shake")
             n == conn[c].shakes + 1
             k == [conn[c] EXCEPT !.inbox = t, !.shakes = n]
  <2>1. conn' = [conn EXCEPT ![c] = k] /\ sess' = sess /\ conn[c].shakes \in {0, 4}
    BY <1>2 DEF PeerShakes, Peer
  <2>2. t \in Seq(Commands \cup {"shake"})
    BY <1>0 DEF ConnType
  <2>3. n \in 0..6 /\ n <= 5
    BY <2>1
  <2> HIDE DEF t, n
  <2>4. /\ k \in ConnType /\ k.outbox = conn[c].outbox /\ k.peer = conn[c].peer
        /\ k.shakes = n
    BY <1>0, <2>2, <2>3 DEF ConnType
  <2> HIDE DEF k
  <2>5. Change(c, k, sess[c])
    BY <1>0, <2>1, <2>3, <2>4, ConnChange
  <2> QED
    BY <2>5
<1>3. ASSUME NEW cmd \in Commands, PeerSends(c, cmd)
      PROVE  \E k, s : Change(c, k, s)
  <2> DEFINE t == Append(conn[c].inbox, cmd)
             r == Append(conn[c].pending, cmd)
             k == [conn[c] EXCEPT !.inbox = t, !.body = (cmd = "data"), !.pending = r]
  <2>1. conn' = [conn EXCEPT ![c] = k] /\ sess' = sess
    BY <1>3 DEF PeerSends, Peer
  <2>2. t \in Seq(Commands \cup {"shake"}) /\ r \in Seq(Commands \cup {"hello"})
    BY <1>0 DEF ConnType
  <2> HIDE DEF t, r
  <2>3. /\ k \in ConnType /\ k.outbox = conn[c].outbox /\ k.peer = conn[c].peer
        /\ k.shakes = conn[c].shakes
    BY <1>0, <2>2 DEF ConnType
  <2> HIDE DEF k
  <2>4. Change(c, k, sess[c])
    BY <1>0, <2>1, <2>3, ConnChange
  <2> QED
    BY <2>4
<1>4. CASE PeerTakes(c)
  <2> DEFINE u == Head(conn[c].outbox)
             o == Tail(conn[c].outbox)
             l == IF u.i = 0 THEN conn[c].last ELSE u.i
             k1 == [conn[c] EXCEPT !.outbox = o, !.last = l]
             m == IF u.to \in Bodies \cup {"rset"} THEN FALSE
                  ELSE conn[c].mailed \/ (u.to = "mail" /\ u.code = 250)
             k2 == [k1 EXCEPT !.pending = Tail(k1.pending), !.mailed = m]
             k == IF ~Final(u) \/ u.to = "end" \/ k1.pending = <<>> THEN k1 ELSE k2
  <2>1. /\ conn[c].outbox # <<>> /\ sess' = sess
        /\ conn' = [conn EXCEPT ![c] = k]
    <3>1. conn[c].outbox # <<>> /\ sess' = sess
      BY <1>4 DEF PeerTakes, Peer
    <3>2. k1.mailed = conn[c].mailed
      BY <1>0 DEF ConnType
    <3>3. conn' = [conn EXCEPT ![c] = k]
      BY <1>4, <3>2 DEF PeerTakes, Peer
    <3> QED
      BY <3>1, <3>3
  <2>2. /\ u \in Units /\ o \in Seq(Units)
        /\ Len(o) <= Room
    <3>1. conn[c].outbox \in Seq(Units) /\ Room \in Nat
      BY <1>0, SocketsAssumption DEF ConnType
    <3>2. u \in Units /\ o \in Seq(Units) /\ Len(o) = Len(conn[c].outbox) - 1
      BY <2>1, <3>1, HeadTailProperties
    <3>3. Len(conn[c].outbox) \in Nat
      BY <3>1
    <3> QED
      BY <1>0, <3>1, <3>2, <3>3
  <2>3. l \in 1..Length
    BY <1>0, <2>2 DEF ConnType, Units
  <2>4. m \in BOOLEAN
    BY <1>0, <2>2 DEF ConnType, Units
  <2> HIDE DEF u, o, l, m
  <2>5. /\ k1 \in ConnType /\ k1.outbox = o /\ k1.peer = conn[c].peer
        /\ k1.shakes = conn[c].shakes /\ k1.pending = conn[c].pending
    BY <1>0, <2>2, <2>3 DEF ConnType
  <2> HIDE DEF k1
  <2>6. ASSUME k1.pending # <<>>
        PROVE  /\ k2 \in ConnType /\ k2.outbox = o /\ k2.peer = conn[c].peer
               /\ k2.shakes = conn[c].shakes
    <3> DEFINE r == Tail(k1.pending)
    <3>1. r \in Seq(Commands \cup {"hello"})
      BY <2>5, <2>6, HeadTailProperties DEF ConnType
    <3> HIDE DEF r
    <3>2. k2 = [k1 EXCEPT !.pending = r, !.mailed = m]
      BY DEF r
    <3> HIDE DEF k2
    <3> QED
      BY <2>4, <2>5, <3>1, <3>2 DEF ConnType
  <2> HIDE DEF k2
  <2>7. /\ k \in ConnType /\ k.outbox = o /\ k.peer = conn[c].peer
        /\ k.shakes = conn[c].shakes
    BY <2>5, <2>6
  <2> HIDE DEF k
  <2>8. Change(c, k, sess[c])
    BY <1>0, <2>1, <2>2, <2>7, ConnChange
  <2> QED
    BY <2>8
<1>5. CASE PeerEnds(c)
  <2> DEFINE k == [conn[c] EXCEPT !.peer = "half"]
  <2>1. conn' = [conn EXCEPT ![c] = k] /\ sess' = sess
    BY <1>5 DEF PeerEnds, Peer
  <2>2. /\ k \in ConnType /\ k.outbox = conn[c].outbox /\ k.peer = "half"
        /\ k.shakes = conn[c].shakes
    BY <1>0 DEF ConnType
  <2> HIDE DEF k
  <2>3. Change(c, k, sess[c])
    BY <1>0, <2>1, <2>2, ConnChange
  <2> QED
    BY <2>3
<1>6. CASE PeerLeaves(c)
  <2> DEFINE k1 == [NoPeer EXCEPT !.peer = "gone", !.shakes = conn[c].shakes,
                                  !.inbox = conn[c].inbox]
             k2 == [k1 EXCEPT !.peer = "reset", !.inbox = <<>>]
  <2>1. sess' = sess /\ (conn' = [conn EXCEPT ![c] = k1] \/ conn' = [conn EXCEPT ![c] = k2])
    BY <1>6 DEF PeerLeaves, Peer
  <2>2. /\ k1 \in ConnType /\ k1.outbox = <<>> /\ k1.peer = "gone"
        /\ k1.shakes = conn[c].shakes
    BY <1>0, NoPeerType DEF ConnType, Inv
  <2> HIDE DEF k1
  <2>3. /\ k2 \in ConnType /\ k2.outbox = <<>> /\ k2.peer = "reset"
        /\ k2.shakes = conn[c].shakes
    <3>1. <<>> \in Seq(Commands \cup {"shake"})
      OBVIOUS
    <3> QED
      BY <2>2, <3>1 DEF ConnType
  <2> HIDE DEF k2
  <2>4. Len(<<>>) <= Room
    BY SocketsAssumption
  <2>5. PICK k \in {k1, k2} : conn' = [conn EXCEPT ![c] = k]
    BY <2>1
  <2>6. Change(c, k, sess[c])
    BY <1>0, <2>1, <2>2, <2>3, <2>4, <2>5, ConnChange
  <2> QED
    BY <2>6
<1> QED
  BY <1>1, <1>2, <1>3, <1>4, <1>5, <1>6 DEF PeerStep

-----------------------------------------------------------------------------
(* Types *)

\* The rest of the state.
OthersOK ==
  /\ kind' = kind
  /\ acceptor' \in {"run", "wait", "over"} \cup Conns
  /\ refused' \in BOOLEAN /\ down' \in BOOLEAN
  /\ sent' \in 0..MaxSent[kind]

\* What changing one connection's records does to all of them.
LEMMA ChangeType ==
  ASSUME Inv, NEW c \in Conns, NEW k, NEW s, Change(c, k, s), kind' = kind
  PROVE  /\ conn' \in [Conns -> ConnType'] /\ sess' \in [Conns -> SessType']
         /\ \A d \in Conns : Len(conn'[d].outbox) <= Room
         /\ conn'[c] = k /\ sess'[c] = s
         /\ \A d \in Conns \ {c} : conn'[d] = conn[d] /\ sess'[d] = sess[d]
         /\ \A d \in Conns : conn'[d].peer = "none" => conn[d].peer = "none"
         /\ \A d \in Conns : sess'[d].pc = "none" <=> sess[d].pc = "none"
         /\ ShakesInv'
<1>1. ConnType' = ConnType /\ SessType' = SessType
  BY DEF ConnType, SessType, Units, Replies, Tos, Codes, Commands
<1>2. /\ conn \in [Conns -> ConnType] /\ sess \in [Conns -> SessType]
      /\ k \in ConnType /\ s \in SessType
      /\ conn' = [conn EXCEPT ![c] = k] /\ sess' = [sess EXCEPT ![c] = s]
  BY DEF Inv, TypeInv, Change
<1>3. /\ conn' \in [Conns -> ConnType] /\ sess' \in [Conns -> SessType]
      /\ conn'[c] = k /\ sess'[c] = s
      /\ \A d \in Conns \ {c} : conn'[d] = conn[d] /\ sess'[d] = sess[d]
  BY <1>2
<1>4. \A d \in Conns : Len(conn'[d].outbox) <= Room
  BY <1>3 DEF Change, Inv, TypeInv
<1>5. /\ \A d \in Conns : conn'[d].peer = "none" => conn[d].peer = "none"
      /\ \A d \in Conns : sess'[d].pc = "none" <=> sess[d].pc = "none"
  BY <1>3 DEF Change
<1>6. ShakesInv'
  BY <1>3 DEF Change, Inv, ShakesInv
<1> QED
  BY <1>1, <1>3, <1>4, <1>5, <1>6

\* A step that leaves the backlog alone.
LEMMA ChangeInv ==
  ASSUME Inv, NEW c \in Conns, NEW k, NEW s, Change(c, k, s), OthersOK,
         backlog' = backlog
  PROVE  Inv'
<1>1. kind' = kind
  BY DEF OthersOK
<1>2. TypeInv'
  BY <1>1, ChangeType DEF OthersOK, Inv, TypeInv
<1>3. BacklogInv'
  <2>1. \A i \in DOMAIN backlog : backlog[i] \in Conns
    BY DEF Inv, TypeInv
  <2> QED
    BY <1>1, <2>1, ChangeType DEF Inv, BacklogInv
<1>4. ShakesInv'
  BY <1>1, ChangeType
<1> QED
  BY <1>2, <1>3, <1>4 DEF Inv

LEMMA SessionStep == Inv /\ (\E c \in Conns : Session(c)) => Inv'
<1> SUFFICES ASSUME Inv, NEW c \in Conns, Session(c) PROVE Inv'
  OBVIOUS
<1>1. /\ backlog' = backlog /\ OthersOK
  <2> USE DEF Inv, TypeInv, OthersOK
  <2>1. CASE ShakeIn(c) \/ ShakeOut(c) \/ ShakeFails(c) \/ Parks(c) \/ Woken(c)
    BY <2>1 DEF ShakeIn, ShakeOut, ShakeFails, Parks, Woken
  <2>2. CASE Write(c) \/ WriteThrows(c) \/ Killed(c) \/ Alert(c) \/ Shut(c)
    BY <2>2 DEF Write, WriteThrows, Killed, Alert, Shut
  <2>3. CASE \/ ReadCommand(c) \/ ReadOn(c) \/ ReadPastEnd(c) \/ ReadLine(c)
             \/ ReadRecord(c) \/ ReadEnd(c) \/ ReadThrows(c)
    BY <2>3 DEF ReadCommand, ReadOn, ReadPastEnd, ReadLine, ReadRecord, ReadEnd, ReadThrows
  <2> QED
    BY <2>1, <2>2, <2>3 DEF Session
<1>2. CASE Killed(c)
  <2>1. Change(c, conn[c], sess[c])
    BY <1>2, Records, ConnChange DEF Killed
  <2> QED
    BY <1>1, <2>1, ChangeInv
<1>3. CASE ~Killed(c)
  <2>1. \E k, s : Change(c, k, s)
    BY <1>3, HandshakeSteps, WaitSteps, WriteSteps, ReadSteps DEF Session
  <2> QED
    BY <1>1, <2>1, ChangeInv
<1> QED
  BY <1>2, <1>3

LEMMA PeersStep == Inv /\ (\E c \in Conns : PeerStep(c)) => Inv'
<1> SUFFICES ASSUME Inv, NEW c \in Conns, PeerStep(c) PROVE Inv'
  OBVIOUS
<1>1. PICK k, s : Change(c, k, s)
  BY PeerSteps
<1>2. OthersOK
  <2>1. CASE \/ Connect(c) \/ PeerShakes(c) \/ PeerTakes(c) \/ PeerEnds(c)
             \/ PeerLeaves(c)
    BY <2>1 DEF Connect, PeerShakes, PeerTakes, PeerEnds, PeerLeaves, Peer, OthersOK,
       Inv, TypeInv
  <2>2. ASSUME NEW cmd \in Commands, PeerSends(c, cmd) PROVE OthersOK
    <3>1. MaxSent[kind] \in Nat /\ sent \in 0..MaxSent[kind]
      BY SocketsAssumption DEF Inv, TypeInv
    <3>2. sent' = sent + 1 /\ sent < MaxSent[kind]
      BY <2>2 DEF PeerSends
    <3>3. sent' \in 0..MaxSent[kind]
      BY <3>1, <3>2
    <3> QED
      BY <2>2, <3>3 DEF PeerSends, Peer, OthersOK, Inv, TypeInv
  <2> QED
    BY <2>1, <2>2 DEF PeerStep
<1>3. CASE Connect(c)
  <2>1. /\ conn[c].peer = "none" /\ backlog' = Append(backlog, c)
        /\ conn' = [conn EXCEPT ![c] = [conn[c] EXCEPT !.peer = "open",
                      !.pending = IF kind = "smtp" THEN <<"hello">> ELSE <<>>]]
    BY <1>3 DEF Connect, Peer
  <2>2. kind' = kind
    BY <1>2 DEF OthersOK
  <2>3. conn'[c].peer = "open"
    BY <2>1 DEF Inv, TypeInv, ConnType
  <2>4. sess[c].pc = "none" /\ \A i \in DOMAIN backlog : backlog[i] # c
    BY <2>1 DEF Inv, BacklogInv
  <2>5. /\ backlog \in Seq(Conns) /\ backlog' \in Seq(Conns)
        /\ DOMAIN backlog' = DOMAIN backlog \cup {Len(backlog) + 1}
        /\ Len(backlog) + 1 \notin DOMAIN backlog
        /\ \A i \in DOMAIN backlog : backlog'[i] = backlog[i] /\ backlog[i] \in Conns
        /\ backlog'[Len(backlog) + 1] = c
    BY <2>1 DEF Inv, TypeInv
  <2>6. TypeInv'
    BY <1>1, <1>2, <2>2, <2>5, ChangeType DEF OthersOK, Inv, TypeInv
  <2>7. BacklogInv'
    <3>1. /\ \A d \in Conns : conn'[d].peer = "none" => conn[d].peer = "none"
          /\ \A d \in Conns : sess'[d].pc = "none" <=> sess[d].pc = "none"
      BY <1>1, <2>2, ChangeType
    <3> QED
      BY <2>3, <2>4, <2>5, <3>1 DEF Inv, BacklogInv
  <2>8. ShakesInv'
    BY <1>1, <2>2, ChangeType
  <2> QED
    BY <2>6, <2>7, <2>8 DEF Inv
<1>4. CASE ~Connect(c)
  <2>1. backlog' = backlog
    BY <1>4 DEF PeerStep, PeerShakes, PeerTakes, PeerEnds, PeerLeaves, PeerSends
  <2> QED
    BY <1>1, <1>2, <2>1, ChangeInv
<1> QED
  BY <1>3, <1>4

\* A connection leaves the backlog for its session.
LEMMA AcceptStep == Inv /\ (Acceptor \/ AcceptFails) => Inv'
<1> SUFFICES ASSUME Inv, Acceptor \/ AcceptFails PROVE Inv'
  OBVIOUS
<1>0. kind' = kind => ConnType' = ConnType /\ SessType' = SessType
  BY DEF ConnType, SessType, Units, Replies, Tos, Codes, Commands
<1>1. CASE Accept
  <2> DEFINE c == Head(backlog)
  <2>1. /\ backlog # <<>> /\ backlog' = Tail(backlog)
        /\ acceptor' = Accepting(c) /\ sess' = [sess EXCEPT ![c] = First]
        /\ UNCHANGED <<kind, refused, down, sent, conn>>
    BY <1>1 DEF Accept
  <2>2. backlog \in Seq(Conns)
    BY DEF Inv, TypeInv
  <2>3. /\ c \in Conns /\ 1 \in DOMAIN backlog /\ backlog[1] = c
        /\ backlog' \in Seq(Conns)
        /\ \A i \in DOMAIN backlog' :
             i \in Nat \ {0} /\ i + 1 \in DOMAIN backlog /\ backlog'[i] = backlog[i + 1]
    BY <2>1, <2>2
  <2>4. sess[c].pc = "none" /\ conn[c].peer # "none"
    BY <2>3 DEF Inv, BacklogInv
  <2>5. First \in SessType
    BY FirstType DEF Inv
  <2> HIDE DEF c
  <2>6. sess'[c] = First /\ \A d \in Conns \ {c} : sess'[d] = sess[d]
    BY <2>1, <2>3 DEF Inv, TypeInv
  <2>7. TypeInv'
    <3>1. sess' \in [Conns -> SessType] /\ acceptor' \in {"run"} \cup Conns
      BY <2>1, <2>3, <2>5 DEF Inv, TypeInv, Accepting
    <3> QED
      BY <1>0, <2>1, <2>3, <3>1 DEF Inv, TypeInv
  <2>8. \A i \in DOMAIN backlog' : backlog'[i] \in Conns /\ backlog'[i] # c
    <3> SUFFICES ASSUME NEW i \in DOMAIN backlog'
                 PROVE  backlog'[i] \in Conns /\ backlog'[i] # c
      OBVIOUS
    <3>1. i \in Nat \ {0} /\ i + 1 \in DOMAIN backlog /\ backlog'[i] = backlog[i + 1]
      BY <2>3
    <3>2. i + 1 # 1
      BY <3>1
    <3> QED
      BY <2>2, <2>3, <3>1, <3>2 DEF Inv, BacklogInv
  <2>9. \A i, j \in DOMAIN backlog' : backlog'[i] = backlog'[j] => i = j
    <3> SUFFICES ASSUME NEW i \in DOMAIN backlog', NEW j \in DOMAIN backlog',
                        backlog'[i] = backlog'[j]
                 PROVE  i = j
      OBVIOUS
    <3>1. i + 1 = j + 1
      BY <2>3 DEF Inv, BacklogInv
    <3> QED
      BY <2>3, <3>1
  <2>10. \A i \in DOMAIN backlog' :
           sess[backlog'[i]].pc = "none" /\ conn[backlog'[i]].peer # "none"
    BY <2>3 DEF Inv, BacklogInv
  <2>11. BacklogInv'
    BY <2>1, <2>4, <2>6, <2>8, <2>9, <2>10 DEF Inv, BacklogInv
  <2>12. ShakesInv'
    BY <2>1, <2>4, <2>6 DEF Inv, ShakesInv
  <2> QED
    BY <2>7, <2>11, <2>12 DEF Inv
<1>2. CASE AcceptWaits \/ AcceptWoken \/ AcceptFails
  <2>1. /\ UNCHANGED <<kind, backlog, down, sent, conn, sess>>
        /\ acceptor' \in {"wait", "run", "over"} /\ refused' \in {refused, TRUE}
    BY <1>2 DEF AcceptWaits, AcceptWoken, AcceptFails
  <2> QED
    BY <1>0, <2>1 DEF Inv, TypeInv, BacklogInv, ShakesInv
<1> QED
  BY <1>1, <1>2 DEF Acceptor

LEMMA InvStep == Inv /\ [Next]_vars => Inv'
<1>1. ASSUME Inv, UNCHANGED vars PROVE Inv'
  <2>1. UNCHANGED <<kind, backlog, acceptor, refused, down, sent, conn, sess>>
    BY <1>1 DEF vars
  <2>2. ConnType' = ConnType /\ SessType' = SessType
    BY <2>1 DEF ConnType, SessType, Units, Replies, Tos, Codes, Commands
  <2>3. TypeInv'
    BY <1>1, <2>1, <2>2 DEF Inv, TypeInv
  <2>4. BacklogInv' /\ ShakesInv'
    BY <1>1, <2>1 DEF Inv, BacklogInv, ShakesInv
  <2> QED
    BY <2>3, <2>4 DEF Inv
<1> QED
  BY <1>1, SessionStep, PeersStep, AcceptStep DEF Next

LEMMA InitInv == Init => Inv
<1> SUFFICES ASSUME Init PROVE Inv
  OBVIOUS
<1>1. conn \in [Conns -> ConnType] /\ sess \in [Conns -> SessType]
      /\ \A c \in Conns : Len(conn[c].outbox) <= Room
  <2> DEFINE k == NoPeer
             s == Idle
  <2>1. k \in ConnType /\ Len(k.outbox) = 0 /\ s \in SessType
    <3>1. 1 \in 1..Length /\ NoReply \in Replies
      BY SocketsAssumption DEF NoReply, Replies, Tos, Codes
    <3>2. s \in SessType
      BY <3>1 DEF Idle, SessType
    <3>3. /\ <<>> \in Seq(Commands \cup {"shake"}) /\ <<>> \in Seq(Units)
          /\ <<>> \in Seq(Commands \cup {"hello"}) /\ Length \in 1..Length
      BY SocketsAssumption
    <3>4. k \in ConnType /\ k.outbox = <<>>
      BY <3>3 DEF NoPeer, ConnType
    <3> QED
      BY <3>2, <3>4
  <2>2. conn = [c \in Conns |-> k] /\ sess = [c \in Conns |-> s]
    BY DEF Init
  <2> HIDE DEF k, s
  <2>3. 0 <= Room
    BY SocketsAssumption
  <2> QED
    BY <2>1, <2>2, <2>3
<1>2. /\ MaxSent[kind] \in Nat /\ <<>> \in Seq(Conns)
  BY SocketsAssumption DEF Init
<1>3. TypeInv
  <2>1. kind \in Kinds /\ backlog \in Seq(Conns) /\ sent \in 0..MaxSent[kind]
    BY <1>2 DEF Init
  <2>2. /\ acceptor \in {"run", "wait", "over"} \cup Conns
        /\ refused \in BOOLEAN /\ down \in BOOLEAN
    BY DEF Init
  <2> QED
    BY <1>1, <2>1, <2>2 DEF TypeInv
<1>4. BacklogInv /\ ShakesInv
  BY DEF Init, BacklogInv, ShakesInv, NoPeer, Idle
<1> QED
  BY <1>3, <1>4 DEF Inv

LEMMA InvHolds == Spec => []Inv
BY InitInv, InvStep, PTL DEF Spec

\* The sessions' and the kernel's state has its types, whatever peers say or
\* leave undone; the send buffer is never overrun.
THEOREM SessionsTypeCorrect == Spec => []SessionsTypeOK
<1>1. Inv => SessionsTypeOK
  BY DEF Inv, TypeInv, SessionsTypeOK, ConnType, SessType, Units, Replies
<1> QED
  BY <1>1, InvHolds, PTL
=============================================================================
