------------------------------ MODULE EchoProofs ------------------------------
(***************************************************************************)
(* Theorems about the echo demo, for any number of clients and lines, and  *)
(* any number of lost connections.                                         *)
(***************************************************************************)
EXTENDS Echo, FiniteSetTheorems, SequenceTheorems, TLAPS

\* A client that waits for an echo has a line on its way, there or back, or has
\* lost it with the connection.
OneLine(c) ==
  \/ toServer[c] = <<>> /\ toClient[c] \in {<<>>, <<Line(left[c])>>}
  \/ toServer[c] = <<Line(left[c])>> /\ toClient[c] = <<>>

\* A queue with the line that stops the server.
Stops(q) == \E i \in DOMAIN q : q[i].cmd = "!s"

\* A client and its connection: nothing is sent before the first line, and only
\* the last client asks the server to stop.
ClientOK(c) ==
  /\ client[c] \in {"start", "connect"} => toServer[c] = <<>> /\ toClient[c] = <<>>
  /\ client[c] = "echo" => left[c] > 0 /\ OneLine(c)
  /\ client[c] = "bench" => last[c]
  /\ Stops(toServer[c]) => last[c]

\* The clients that have not counted down for sure.  Where NTrans is 0 a client
\* that died when it connected has not either.
Fresh == {c \in Clients : left[c] > 0 \/ client[c] \in {"start", "connect"}}

\* The counter does not come to 0 before they have.
CountInv ==
  /\ Cardinality(Fresh) <= counter
  /\ \A c \in Clients : last[c] => counter = 0
  /\ \A c, d \in Clients : last[c] /\ last[d] => c = d
  /\ serverExit => counter = 0

Inv == EchoTypeOK /\ CountInv /\ \A c \in Clients : ClientOK(c)

-----------------------------------------------------------------------------
(* Lemmas *)

LEMMA FreshFinite ==
  /\ IsFiniteSet(Clients) /\ Cardinality(Clients) \in Nat
  /\ IsFiniteSet(Fresh) /\ Cardinality(Fresh) \in Nat
  /\ Cardinality(Fresh) = 0 <=> Fresh = {}
<1>1. IsFiniteSet(Clients) /\ Fresh \in SUBSET Clients
  BY EchoAssumption DEF Fresh
<1> QED
  BY <1>1, FS_Subset, FS_CardinalityType, FS_EmptySet

\* A queue with one more line, and with one less.
LEMMA Appended ==
  ASSUME NEW q \in Seq(Lines), NEW l \in Lines
  PROVE  /\ Append(q, l) \in Seq(Lines)
         /\ Stops(Append(q, l)) => Stops(q) \/ l.cmd = "!s"
<1>1. /\ Append(q, l) \in Seq(Lines) /\ Len(q) \in Nat /\ DOMAIN q = 1..Len(q)
      /\ Len(Append(q, l)) = Len(q) + 1
      /\ \A i \in 1..Len(q) : Append(q, l)[i] = q[i]
      /\ Append(q, l)[Len(q) + 1] = l
  BY AppendProperties, LenProperties
<1>2. DOMAIN Append(q, l) = 1..Len(q) + 1
  BY <1>1, LenProperties
<1>3. ASSUME NEW i \in 1..Len(q) + 1, Append(q, l)[i].cmd = "!s", l.cmd # "!s"
      PROVE  Stops(q)
  <2>1. i \in 1..Len(q)
    BY <1>1, <1>3
  <2> QED
    BY <1>1, <1>3, <2>1 DEF Stops
<1> QED
  BY <1>1, <1>2, <1>3 DEF Stops

LEMMA Taken ==
  ASSUME NEW q \in Seq(Lines), q # <<>>
  PROVE  /\ Head(q) \in Lines /\ Tail(q) \in Seq(Lines)
         /\ Stops(Tail(q)) => Stops(q)
         /\ Head(q).cmd = "!s" => Stops(q)
<1>1. /\ Head(q) \in Lines /\ Tail(q) \in Seq(Lines)
      /\ Len(Tail(q)) = Len(q) - 1
      /\ \A i \in 1..Len(Tail(q)) : Tail(q)[i] = q[i + 1]
  BY HeadTailProperties
<1>2. /\ Len(q) \in Nat \ {0} /\ DOMAIN q = 1..Len(q)
      /\ DOMAIN Tail(q) = 1..Len(q) - 1
  BY <1>1, LenProperties, EmptySeq
<1>3. ASSUME NEW i \in 1..Len(q) - 1, Tail(q)[i].cmd = "!s"
      PROVE  Stops(q)
  <2>1. i + 1 \in DOMAIN q /\ q[i + 1].cmd = "!s"
    BY <1>1, <1>2, <1>3
  <2> QED
    BY <2>1 DEF Stops
<1>4. 1 \in DOMAIN q /\ Head(q) = q[1]
  BY <1>2
<1> QED
  BY <1>1, <1>2, <1>3, <1>4 DEF Stops

\* Empty queues, and queues of one line.
LEMMA ShortQueues ==
  /\ <<>> \in Seq(Lines) /\ ~Stops(<<>>)
  /\ \A l \in Lines :
       /\ <<l>> \in Seq(Lines) /\ <<l>> # <<>>
       /\ Head(<<l>>) = l /\ Tail(<<l>>) = <<>> /\ Append(<<>>, l) = <<l>>
       /\ Stops(<<l>>) => l.cmd = "!s"
BY DEF Stops

LEMMA LineTypes ==
  /\ \A n \in 0..NTrans : Line(n) \in Lines /\ Line(n).cmd = "line"
  /\ \A x \in {"!b", "!q", "!s"} : Cmd(x) \in Lines /\ Cmd(x).cmd = x
BY EchoAssumption DEF Lines, Line, Cmd

\* A client that a step does not touch.
LEMMA Untouched ==
  ASSUME NEW c \in Clients, ClientOK(c),
         client'[c] = client[c], left'[c] = left[c], last'[c] = last[c],
         toServer'[c] = toServer[c], toClient'[c] = toClient[c]
  PROVE  ClientOK(c)'
BY DEF ClientOK, OneLine

\* A step at which nobody counts down.
LEMMA NobodyCounts ==
  ASSUME Inv, counter' = counter, last' = last, Fresh' \subseteq Fresh,
         serverExit' => counter = 0
  PROVE  CountInv'
<1>1. Cardinality(Fresh') <= Cardinality(Fresh) /\ Cardinality(Fresh') \in Nat
  BY FreshFinite, FS_Subset, FS_CardinalityType
<1>2. Cardinality(Fresh) <= counter /\ counter \in Int
  BY DEF Inv, CountInv, EchoTypeOK
<1>3. Cardinality(Fresh') <= counter'
  BY <1>1, <1>2, FreshFinite
<1> QED
  BY <1>3 DEF Inv, CountInv

\* A client counts down: it is the last one if it takes the counter to 0.
LEMMA OneCounts ==
  ASSUME Inv, NEW c \in Fresh, Fresh' = Fresh \ {c}, counter' = counter - 1,
         last' = [last EXCEPT ![c] = (counter' = 0)], serverExit' = serverExit
  PROVE  CountInv' /\ counter' \in 0..Cardinality(Clients) /\ last' \in [Clients -> BOOLEAN]
<1>1. Cardinality(Fresh') = Cardinality(Fresh) - 1
  BY FreshFinite, FS_RemoveElement
<1>2. /\ counter \in 0..Cardinality(Clients) /\ Cardinality(Fresh) <= counter
      /\ last \in [Clients -> BOOLEAN]
  BY DEF Inv, CountInv, EchoTypeOK
<1>3. counter # 0 /\ counter' \in 0..Cardinality(Clients)
  BY <1>2, FreshFinite
<1>4. ~serverExit /\ \A d \in Clients : ~last[d]
  BY <1>3 DEF Inv, CountInv
<1>5. Cardinality(Fresh') <= counter'
  BY <1>1, <1>2, FreshFinite
<1>6. \A d \in Clients : last'[d] => d = c /\ counter' = 0
  BY <1>2, <1>4
<1>7. last' \in [Clients -> BOOLEAN]
  BY <1>2
<1> QED
  BY <1>3, <1>4, <1>5, <1>6, <1>7 DEF CountInv

-----------------------------------------------------------------------------
(* The server *)

\* The steps that leave the lines and the clients alone.
LEMMA QuietServerKeepsInv ==
  ASSUME Inv, \/ Acceptor \/ ServerEnds
              \/ \E c \in Clients : \/ SessionEnds(c) \/ SessionKilled(c)
                                   \/ SessionWaits(c) \/ SessionWoken(c)
  PROVE  Inv'
<1>1. UNCHANGED <<clientvars, toServer, toClient, serverExit, lost>>
  BY DEF Acceptor, Accept, AcceptWaits, AcceptWoken, ServerEnds, SessionEnds,
     SessionKilled, SessionWaits, SessionWoken, EndSession, netvars
<1>2. backlog \in Seq(Clients) /\ (backlog # <<>> =>
        Head(backlog) \in Clients /\ Tail(backlog) \in Seq(Clients))
  BY HeadTailProperties DEF Inv, EchoTypeOK
<1>3. EchoTypeOK'
  <2> USE DEF Inv, EchoTypeOK, clientvars
  <2>1. CASE Acceptor
    BY <1>1, <1>2, <2>1 DEF Acceptor, Accept, AcceptWaits, AcceptWoken, netvars
  <2>2. CASE ServerEnds
    BY <1>1, <2>2 DEF ServerEnds, ServerGone
  <2>3. ASSUME NEW c \in Clients, SessionEnds(c) PROVE EchoTypeOK'
    BY <1>1, <2>3 DEF SessionEnds, EndSession
  <2>4. ASSUME NEW c \in Clients, SessionWaits(c) PROVE EchoTypeOK'
    BY <1>1, <2>4 DEF SessionWaits, netvars
  <2>5. ASSUME NEW c \in Clients, SessionWoken(c) PROVE EchoTypeOK'
    BY <1>1, <2>5 DEF SessionWoken, netvars
  <2>6. ASSUME NEW c \in Clients, SessionKilled(c) PROVE EchoTypeOK'
    BY <1>1, <2>6 DEF SessionKilled, ServerGone
  <2> QED
    BY <2>1, <2>2, <2>3, <2>4, <2>5, <2>6
<1>4. CountInv'
  BY <1>1, NobodyCounts DEF Fresh, clientvars, Inv, CountInv
<1>5. \A c \in Clients : ClientOK(c)'
  BY <1>1, Untouched DEF Inv, clientvars
<1> QED
  BY <1>3, <1>4, <1>5 DEF Inv

\* A line goes back to who has sent it.
LEMMA EchoLineKeepsInv ==
  ASSUME Inv, NEW c \in Clients, EchoLine(c)
  PROVE  Inv'
<1> DEFINE q == toServer[c]
           l == Head(q)
<1>1. /\ UNCHANGED <<servervars, clientvars, backlog, shut, lost>>
      /\ q # <<>>
      /\ toServer' = [toServer EXCEPT ![c] = Tail(q)]
      /\ toClient' = [toClient EXCEPT ![c] = Append(toClient[c], l)]
  BY DEF EchoLine, servervars
<1>2. /\ q \in Seq(Lines) /\ toClient[c] \in Seq(Lines)
      /\ toServer \in [Clients -> Seq(Lines)] /\ toClient \in [Clients -> Seq(Lines)]
  BY DEF Inv, EchoTypeOK
<1>3. /\ l \in Lines /\ Tail(q) \in Seq(Lines) /\ (Stops(Tail(q)) => Stops(q))
      /\ Append(toClient[c], l) \in Seq(Lines)
  BY <1>1, <1>2, Taken, Appended
<1> HIDE DEF l
<1>4. /\ toServer'[c] = Tail(q) /\ toClient'[c] = Append(toClient[c], l)
      /\ \A d \in Clients \ {c} : toServer'[d] = toServer[d] /\ toClient'[d] = toClient[d]
      /\ toServer' \in [Clients -> Seq(Lines)] /\ toClient' \in [Clients -> Seq(Lines)]
  BY <1>1, <1>2, <1>3
<1>5. EchoTypeOK'
  BY <1>1, <1>4 DEF Inv, EchoTypeOK, servervars, clientvars
<1>6. CountInv'
  BY <1>1, NobodyCounts DEF Fresh, clientvars, servervars, Inv, CountInv
<1>7. ASSUME NEW d \in Clients, d # c PROVE ClientOK(d)'
  BY <1>1, <1>4, <1>7, Untouched DEF Inv, clientvars
<1>8. ClientOK(c)'
  <2>1. ClientOK(c) /\ UNCHANGED <<client, left, last>>
    BY <1>1 DEF Inv, clientvars
  <2>2. ASSUME client[c] = "echo" PROVE OneLine(c)'
    <3>1. left[c] \in 0..NTrans
      BY DEF Inv, EchoTypeOK
    <3>2. q = <<Line(left[c])>> /\ toClient[c] = <<>> /\ Line(left[c]) \in Lines
      BY <1>1, <2>1, <2>2, <3>1, LineTypes DEF ClientOK, OneLine
    <3>3. Tail(q) = <<>> /\ Append(toClient[c], l) = <<Line(left[c])>>
      BY <3>2, ShortQueues DEF l
    <3> QED
      BY <1>4, <2>1, <3>3 DEF OneLine
  <2>3. Stops(toServer'[c]) => last[c]
    <3>1. Stops(Tail(q)) => last[c]
      BY <1>3, <2>1 DEF ClientOK
    <3> QED
      BY <1>4, <3>1
  <2>4. client[c] \notin {"start", "connect"}
    BY <1>1, <2>1 DEF ClientOK
  <2> QED
    BY <2>1, <2>2, <2>3, <2>4 DEF ClientOK
<1> QED
  BY <1>5, <1>6, <1>7, <1>8 DEF Inv

\* Only the last client's line stops the server.
LEMMA SessionQuitKeepsInv ==
  ASSUME Inv, NEW c \in Clients, SessionQuit(c)
  PROVE  Inv'
<1> DEFINE q == toServer[c]
<1>1. /\ UNCHANGED <<acceptor, inherits, serverDown, clientvars, backlog, toClient, lost>>
      /\ q # <<>> /\ Head(q).cmd \in {"!q", "!s"}
      /\ toServer' = [toServer EXCEPT ![c] = Tail(q)]
      /\ serverExit' = (serverExit \/ Head(q).cmd = "!s")
      /\ session' = [session EXCEPT ![c] = "over"]
      /\ shut' = shut \cup {<<"server", c>>}
      /\ stuck' = NULL
  BY DEF SessionQuit, EndSession
<1>2. q \in Seq(Lines) /\ toServer \in [Clients -> Seq(Lines)] /\ left[c] \in 0..NTrans
  BY DEF Inv, EchoTypeOK
<1>3. /\ Tail(q) \in Seq(Lines) /\ (Stops(Tail(q)) => Stops(q))
      /\ Head(q).cmd = "!s" => Stops(q)
  BY <1>1, <1>2, Taken
<1>4. /\ toServer'[c] = Tail(q) /\ toServer' \in [Clients -> Seq(Lines)]
      /\ \A d \in Clients \ {c} : toServer'[d] = toServer[d]
  BY <1>1, <1>2, <1>3
<1>5. EchoTypeOK'
  BY <1>1, <1>4 DEF Inv, EchoTypeOK, clientvars
<1>6. serverExit' => counter = 0
  BY <1>1, <1>3 DEF Inv, CountInv, ClientOK
<1>7. CountInv'
  BY <1>1, <1>6, NobodyCounts DEF Fresh, clientvars
<1>8. ASSUME NEW d \in Clients, d # c PROVE ClientOK(d)'
  BY <1>1, <1>4, <1>8, Untouched DEF Inv, clientvars
<1>9. ClientOK(c)'
  <2>1. ClientOK(c) /\ UNCHANGED <<client, left, last>>
    BY <1>1 DEF Inv, clientvars
  <2>2. client[c] \notin {"start", "connect"}
    BY <1>1, <2>1 DEF ClientOK
  <2>3. client[c] # "echo"
    <3>1. q # <<Line(left[c])>>
      BY <1>1, <1>2, LineTypes, ShortQueues
    <3> QED
      BY <1>1, <2>1, <3>1 DEF ClientOK, OneLine
  <2>4. Stops(toServer'[c]) => last[c]
    <3>1. Stops(Tail(q)) => last[c]
      BY <1>3, <2>1 DEF ClientOK
    <3> QED
      BY <1>4, <3>1
  <2> QED
    BY <2>1, <2>2, <2>3, <2>4 DEF ClientOK
<1> QED
  BY <1>5, <1>7, <1>8, <1>9 DEF Inv

-----------------------------------------------------------------------------
(* The clients *)

\* A client that does not send: it connects, ends or dies.
LEMMA QuietClientKeepsInv ==
  ASSUME Inv, NEW c \in Clients,
         Connect(c) \/ Bye(c) \/ EchoEnds(c) \/ ClientThrows(c)
  PROVE  Inv'
<1>1. /\ UNCHANGED <<left, counter, last, servervars, toServer, toClient, lost>>
      /\ \E p \in {"connect", "over", "dead"} :
           /\ client' = [client EXCEPT ![c] = p]
           /\ client[c] = "start" \/ p # "connect"
  BY DEF Connect, Bye, EchoEnds, ClientThrows, netvars
<1>2. client \in [Clients -> Places] /\ backlog \in Seq(Clients)
  BY DEF Inv, EchoTypeOK
<1>3. EchoTypeOK'
  <2> USE DEF Inv, EchoTypeOK, servervars, Places
  <2>1. CASE Connect(c)
    <3>1. backlog' \in Seq(Clients)
      BY <1>2, <2>1, AppendProperties DEF Connect
    <3> QED
      BY <2>1, <3>1 DEF Connect
  <2>2. CASE Bye(c)
    BY <2>2 DEF Bye
  <2>3. CASE EchoEnds(c)
    BY <2>3 DEF EchoEnds
  <2>4. CASE ClientThrows(c)
    BY <2>4 DEF ClientThrows, netvars
  <2> QED
    BY <2>1, <2>2, <2>3, <2>4
<1>4. Fresh' \subseteq Fresh
  BY <1>1, <1>2 DEF Fresh
<1>5. CountInv'
  BY <1>1, <1>4, NobodyCounts DEF servervars, Inv, CountInv
<1>6. ASSUME NEW d \in Clients, d # c PROVE ClientOK(d)'
  <2>1. client'[d] = client[d]
    BY <1>1, <1>2, <1>6
  <2> QED
    BY <1>1, <2>1, Untouched DEF Inv
<1>7. ClientOK(c)'
  <2>1. ClientOK(c)
    BY DEF Inv
  <2>2. client'[c] \in {"over", "dead"} \/ (client'[c] = "connect" /\ client[c] = "start")
    BY <1>1, <1>2
  <2> QED
    BY <1>1, <2>1, <2>2 DEF ClientOK
<1> QED
  BY <1>3, <1>5, <1>6, <1>7 DEF Inv

\* A client whose n'th last line is to be sent, with nothing under way: it sends
\* it, or counts down.
LEMMA SendNextKeepsInv ==
  ASSUME Inv, NEW c \in Fresh, NEW n \in 0..NTrans, SendNext(c, n),
         left' = [left EXCEPT ![c] = n],
         toServer[c] = <<>>, toClient'[c] = <<>>,
         toClient' \in [Clients -> Seq(Lines)],
         \A d \in Clients \ {c} : toClient'[d] = toClient[d],
         UNCHANGED <<clientExit, clientDown, servervars, backlog, shut, lost>>
  PROVE  Inv'
<1>1. /\ c \in Clients /\ client \in [Clients -> Places] /\ left \in [Clients -> 0..NTrans]
      /\ toServer \in [Clients -> Seq(Lines)] /\ last \in [Clients -> BOOLEAN]
      /\ counter \in 0..Cardinality(Clients)
  BY DEF Inv, EchoTypeOK, Fresh
<1>2. PICK l \in Lines, p \in {"echo", "bench", "bye"} :
        /\ toServer' = [toServer EXCEPT ![c] = Append(toServer[c], l)]
        /\ client' = [client EXCEPT ![c] = p]
        /\ l.cmd # "!s"
        /\ p = "echo" => n > 0 /\ l = Line(n)
        /\ p # "echo" => /\ n = 0 /\ counter' = counter - 1
                         /\ last' = [last EXCEPT ![c] = (counter' = 0)]
                         /\ p = "bench" => last'[c]
        /\ p = "echo" => counter' = counter /\ last' = last
  <2>1. CASE n > 0
    BY <2>1, LineTypes DEF SendNext, Write
  <2>2. CASE n = 0
    <3>1. /\ counter' = counter - 1
          /\ last' = [last EXCEPT ![c] = (counter' = 0)]
          /\ Write(c, Cmd(IF last'[c] THEN "!b" ELSE "!q"))
          /\ client' = [client EXCEPT ![c] = IF last'[c] THEN "bench" ELSE "bye"]
      BY <2>2 DEF SendNext
    <3>2. CASE last'[c]
      BY <2>2, <3>1, <3>2, LineTypes DEF Write
    <3>3. CASE ~last'[c]
      BY <2>2, <3>1, <3>3, LineTypes DEF Write
    <3> QED
      BY <3>2, <3>3
  <2> QED
    BY <2>1, <2>2
<1>3. /\ toServer'[c] = <<l>> /\ client'[c] = p /\ left'[c] = n
      /\ toServer' \in [Clients -> Seq(Lines)] /\ client' \in [Clients -> Places]
      /\ left' \in [Clients -> 0..NTrans]
      /\ \A d \in Clients \ {c} :
           toServer'[d] = toServer[d] /\ client'[d] = client[d] /\ left'[d] = left[d]
  BY <1>1, <1>2, ShortQueues DEF Places
<1>4. /\ CountInv' /\ counter' \in 0..Cardinality(Clients)
      /\ last' \in [Clients -> BOOLEAN]
  <2>1. CASE p = "echo"
    <3>1. Fresh' \subseteq Fresh
      BY <1>3 DEF Fresh
    <3> QED
      BY <1>1, <1>2, <2>1, <3>1, NobodyCounts DEF servervars, Inv, CountInv
  <2>2. CASE p # "echo"
    <3>1. Fresh' = Fresh \ {c}
      BY <1>2, <1>3, <2>2 DEF Fresh
    <3> QED
      BY <1>2, <2>2, <3>1, OneCounts DEF servervars
  <2> QED
    BY <2>1, <2>2
<1>5. EchoTypeOK'
  BY <1>3, <1>4 DEF Inv, EchoTypeOK, servervars
<1>6. ASSUME NEW d \in Clients, d # c PROVE ClientOK(d)'
  <2>1. last'[d] = last[d]
    BY <1>1, <1>2, <1>6
  <2> QED
    BY <1>3, <1>6, <2>1, Untouched DEF Inv
<1>7. ClientOK(c)'
  <2>1. ~Stops(toServer'[c])
    <3>1. ~Stops(<<l>>)
      BY <1>2, ShortQueues
    <3> QED
      BY <1>3, <3>1
  <2>2. p = "echo" => left'[c] > 0 /\ OneLine(c)'
    BY <1>2, <1>3 DEF OneLine
  <2> QED
    BY <1>2, <1>3, <2>1, <2>2 DEF ClientOK
<1> QED
  BY <1>4, <1>5, <1>6, <1>7 DEF Inv

LEMMA ConnectedKeepsInv ==
  ASSUME Inv, NEW c \in Clients, Connected(c)
  PROVE  Inv'
<1>1. /\ client[c] = "connect" /\ SendNext(c, left[c])
      /\ UNCHANGED <<left, clientExit, clientDown, servervars, backlog, toClient, shut, lost>>
  BY DEF Connected
<1>2. /\ ClientOK(c) /\ left \in [Clients -> 0..NTrans]
      /\ toClient \in [Clients -> Seq(Lines)]
  BY DEF Inv, EchoTypeOK
<1>3. /\ toServer[c] = <<>> /\ toClient'[c] = <<>>
      /\ c \in Fresh /\ left[c] \in 0..NTrans /\ left' = [left EXCEPT ![c] = left[c]]
  BY <1>1, <1>2 DEF ClientOK, Fresh
<1> QED
  BY <1>1, <1>2, <1>3, SendNextKeepsInv

LEMMA EchoedKeepsInv ==
  ASSUME Inv, NEW c \in Clients, Echoed(c)
  PROVE  Inv'
<1>1. /\ client[c] = "echo" /\ toClient[c] # <<>> /\ SendNext(c, left[c] - 1)
      /\ toClient' = [toClient EXCEPT ![c] = Tail(toClient[c])]
      /\ left' = [left EXCEPT ![c] = left[c] - 1]
      /\ UNCHANGED <<clientExit, clientDown, servervars, backlog, shut, lost>>
  BY DEF Echoed
<1>2. /\ ClientOK(c) /\ left \in [Clients -> 0..NTrans]
      /\ toClient \in [Clients -> Seq(Lines)]
  BY DEF Inv, EchoTypeOK
<1>3. /\ left[c] > 0 /\ toServer[c] = <<>> /\ toClient[c] = <<Line(left[c])>>
  BY <1>1, <1>2 DEF ClientOK, OneLine
<1>4. c \in Fresh /\ left[c] - 1 \in 0..NTrans
  BY <1>2, <1>3, EchoAssumption DEF Fresh
<1>5. Tail(toClient[c]) = <<>>
  BY <1>2, <1>3, LineTypes, ShortQueues
<1>6. /\ toClient'[c] = <<>> /\ toClient' \in [Clients -> Seq(Lines)]
      /\ \A d \in Clients \ {c} : toClient'[d] = toClient[d]
  BY <1>1, <1>2, <1>5, ShortQueues
<1> QED
  BY <1>1, <1>3, <1>4, <1>6, SendNextKeepsInv

LEMMA BenchedKeepsInv ==
  ASSUME Inv, NEW c \in Clients, Benched(c)
  PROVE  Inv'
<1> DEFINE l == Cmd("!s")
           q == toServer[c]
<1>1. /\ client[c] = "bench"
      /\ toClient' = [toClient EXCEPT ![c] = <<>>]
      /\ toServer' = [toServer EXCEPT ![c] = Append(q, l)]
      /\ client' = [client EXCEPT ![c] = "bye"]
      /\ UNCHANGED <<left, counter, last, clientExit, clientDown, servervars,
                     backlog, shut, lost>>
  BY DEF Benched, Write
<1>2. /\ client \in [Clients -> Places] /\ toServer \in [Clients -> Seq(Lines)]
      /\ toClient \in [Clients -> Seq(Lines)]
      /\ q \in Seq(Lines) /\ ClientOK(c)
  BY DEF Inv, EchoTypeOK
<1>3. Append(q, l) \in Seq(Lines)
  BY <1>2, LineTypes, Appended
<1> HIDE DEF l
<1>4. /\ client' \in [Clients -> Places] /\ toServer' \in [Clients -> Seq(Lines)]
      /\ toClient' \in [Clients -> Seq(Lines)]
      /\ client'[c] = "bye"
      /\ \A d \in Clients \ {c} :
           /\ client'[d] = client[d] /\ toServer'[d] = toServer[d]
           /\ toClient'[d] = toClient[d]
  BY <1>1, <1>2, <1>3, ShortQueues DEF Places
<1>5. EchoTypeOK'
  BY <1>1, <1>4 DEF Inv, EchoTypeOK, servervars
<1>6. Fresh' \subseteq Fresh
  BY <1>1, <1>4 DEF Fresh
<1>7. CountInv'
  BY <1>1, <1>6, NobodyCounts DEF servervars, Inv, CountInv
<1>8. ASSUME NEW d \in Clients, d # c PROVE ClientOK(d)'
  BY <1>1, <1>4, <1>8, Untouched DEF Inv
<1>9. ClientOK(c)'
  BY <1>1, <1>2, <1>4 DEF ClientOK
<1> QED
  BY <1>5, <1>7, <1>8, <1>9 DEF Inv

\* It may have counted down, and even been the last one.
LEMMA WriteThrowsKeepsInv ==
  ASSUME Inv, NEW c \in Clients, WriteThrows(c)
  PROVE  Inv'
<1>1. /\ client[c] = "echo"
      /\ toClient' = [toClient EXCEPT ![c] = <<>>]
      /\ left' = [left EXCEPT ![c] = left[c] - 1]
      /\ counter' = IF left'[c] = 0 THEN counter - 1 ELSE counter
      /\ last' = [last EXCEPT ![c] = left'[c] = 0 /\ counter' = 0]
      /\ client' = [client EXCEPT ![c] = "dead"]
      /\ UNCHANGED <<clientExit, clientDown, servervars, backlog, toServer, shut, lost>>
  BY DEF WriteThrows
<1>2. /\ client \in [Clients -> Places] /\ left \in [Clients -> 0..NTrans]
      /\ toClient \in [Clients -> Seq(Lines)] /\ last \in [Clients -> BOOLEAN]
      /\ counter \in 0..Cardinality(Clients)
      /\ left[c] > 0 /\ OneLine(c) /\ ClientOK(c)
  BY <1>1 DEF Inv, EchoTypeOK, ClientOK
<1>3. c \in Fresh /\ left[c] - 1 \in 0..NTrans
  BY <1>2, EchoAssumption DEF Fresh
<1>4. /\ client' \in [Clients -> Places] /\ left' \in [Clients -> 0..NTrans]
      /\ toClient' \in [Clients -> Seq(Lines)]
      /\ client'[c] = "dead" /\ left'[c] = left[c] - 1
      /\ \A d \in Clients \ {c} :
           client'[d] = client[d] /\ left'[d] = left[d] /\ toClient'[d] = toClient[d]
  BY <1>1, <1>2, <1>3, ShortQueues DEF Places
<1>5. counter # 0
  BY <1>2, <1>3, FreshFinite DEF Inv, CountInv
<1>6. ~last[c]
  BY <1>5 DEF Inv, CountInv
<1>7. /\ CountInv' /\ counter' \in 0..Cardinality(Clients)
      /\ last' \in [Clients -> BOOLEAN]
  <2>1. CASE left'[c] = 0
    <3>1. Fresh' = Fresh \ {c}
      BY <1>4, <2>1 DEF Fresh
    <3>2. counter' = counter - 1 /\ last' = [last EXCEPT ![c] = (counter' = 0)]
      BY <1>1, <2>1
    <3> QED
      BY <1>1, <1>3, <3>1, <3>2, OneCounts DEF servervars
  <2>2. CASE left'[c] # 0
    <3>1. Fresh' \subseteq Fresh
      BY <1>3, <1>4 DEF Fresh
    <3>2. counter' = counter /\ last' = last
      BY <1>1, <1>2, <1>6, <2>2
    <3> QED
      BY <1>1, <1>2, <3>1, <3>2, NobodyCounts DEF servervars, Inv, CountInv
  <2> QED
    BY <2>1, <2>2
<1>8. EchoTypeOK'
  BY <1>1, <1>4, <1>7 DEF Inv, EchoTypeOK, servervars
<1>9. ASSUME NEW d \in Clients, d # c PROVE ClientOK(d)'
  <2>1. last'[d] = last[d]
    BY <1>1, <1>2, <1>9
  <2> QED
    BY <1>1, <1>4, <1>9, <2>1, Untouched DEF Inv
<1>10. ClientOK(c)'
  <2>1. ~Stops(toServer[c])
    BY <1>2, <1>6 DEF ClientOK
  <2> QED
    BY <1>1, <1>4, <2>1 DEF ClientOK
<1> QED
  BY <1>7, <1>8, <1>9, <1>10 DEF Inv

\* The network: lines are lost, never changed.
LEMMA LoseKeepsInv ==
  ASSUME Inv, NEW c \in Clients, Lose(c)
  PROVE  Inv'
<1>1. /\ toServer' \in {toServer, [toServer EXCEPT ![c] = <<>>]}
      /\ toClient' \in {toClient, [toClient EXCEPT ![c] = <<>>]}
      /\ lost' = lost \cup {c}
      /\ UNCHANGED <<backlog, shut, servervars, clientvars>>
  BY DEF Lose
<1>2. toServer \in [Clients -> Seq(Lines)] /\ toClient \in [Clients -> Seq(Lines)]
  BY DEF Inv, EchoTypeOK
<1>3. /\ toServer' \in [Clients -> Seq(Lines)] /\ toClient' \in [Clients -> Seq(Lines)]
      /\ toServer'[c] \in {toServer[c], <<>>} /\ toClient'[c] \in {toClient[c], <<>>}
      /\ \A d \in Clients \ {c} : toServer'[d] = toServer[d] /\ toClient'[d] = toClient[d]
  BY <1>1, <1>2, ShortQueues
<1>4. EchoTypeOK'
  BY <1>1, <1>3 DEF Inv, EchoTypeOK, servervars, clientvars
<1>5. CountInv'
  BY <1>1, NobodyCounts DEF Fresh, servervars, clientvars, Inv, CountInv
<1>6. ASSUME NEW d \in Clients, d # c PROVE ClientOK(d)'
  BY <1>1, <1>3, <1>6, Untouched DEF Inv, clientvars
<1>7. ClientOK(c)'
  <2>1. ClientOK(c) /\ UNCHANGED <<client, left, last>>
    BY <1>1 DEF Inv, clientvars
  <2>2. Stops(toServer'[c]) => last[c]
    <3>1. ~Stops(<<>>)
      BY ShortQueues
    <3> QED
      BY <1>3, <2>1, <3>1 DEF ClientOK
  <2>3. client[c] = "echo" => OneLine(c)'
    BY <1>3, <2>1 DEF ClientOK, OneLine
  <2> QED
    BY <1>3, <2>1, <2>2, <2>3 DEF ClientOK
<1> QED
  BY <1>4, <1>5, <1>6, <1>7 DEF Inv

-----------------------------------------------------------------------------
(* The theorems *)

LEMMA InvStep == Inv /\ [Next]_vars => Inv'
<1> SUFFICES ASSUME Inv, [Next]_vars PROVE Inv'
  OBVIOUS
<1>1. CASE Acceptor \/ ServerEnds
  BY <1>1, QuietServerKeepsInv
<1>2. ASSUME NEW c \in Clients, Session(c) PROVE Inv'
  BY <1>2, QuietServerKeepsInv, EchoLineKeepsInv, SessionQuitKeepsInv DEF Session
<1>3. ASSUME NEW c \in Clients, Client(c), ~ClientKilled(c) PROVE Inv'
  BY <1>3, QuietClientKeepsInv, ConnectedKeepsInv, EchoedKeepsInv, BenchedKeepsInv,
     WriteThrowsKeepsInv DEF Client
<1>4. ASSUME NEW c \in Clients, Lose(c) PROVE Inv'
  BY <1>4, LoseKeepsInv
<1>5. CASE ClientEnds \/ (\E c \in Clients : ClientKilled(c)) \/ UNCHANGED vars
  <2>1. /\ UNCHANGED <<servervars, client, left, counter, last, clientExit, backlog,
                       toServer, toClient, lost>>
        /\ clientDown' \in BOOLEAN /\ shut' \subseteq {"server", "client"} \X Clients
    BY <1>5 DEF ClientEnds, ClientKilled, ClientGone, vars, servervars, clientvars,
                netvars, Inv, EchoTypeOK
  <2>2. EchoTypeOK'
    BY <2>1 DEF Inv, EchoTypeOK, servervars
  <2>3. CountInv'
    BY <2>1, NobodyCounts DEF Fresh, servervars, Inv, CountInv
  <2>4. \A c \in Clients : ClientOK(c)'
    BY <2>1, Untouched DEF Inv
  <2> QED
    BY <2>2, <2>3, <2>4 DEF Inv
<1> QED
  BY <1>1, <1>2, <1>3, <1>4, <1>5 DEF Next

LEMMA InvHolds == Spec => []Inv
<1>1. Init => Inv
  <2> SUFFICES ASSUME Init PROVE Inv
    OBVIOUS
  <2>1. EchoTypeOK
    <3>1. /\ <<>> \in Seq(Clients) /\ <<>> \in Seq(Lines)
          /\ Cardinality(Clients) \in 0..Cardinality(Clients) /\ NTrans \in 0..NTrans
      BY FreshFinite, EchoAssumption, EmptySeq
    <3>2. inherits \in BOOLEAN
      BY EchoAssumption DEF Init
    <3>3. /\ session \in [Clients -> {"none", "run", "wait", "over"}]
          /\ client \in [Clients -> Places] /\ left \in [Clients -> 0..NTrans]
          /\ toServer \in [Clients -> Seq(Lines)] /\ toClient \in [Clients -> Seq(Lines)]
          /\ last \in [Clients -> BOOLEAN]
      BY <3>1 DEF Init, Places
    <3> QED
      BY <3>1, <3>2, <3>3 DEF Init, EchoTypeOK
  <2>2. CountInv
    <3>1. Fresh \in SUBSET Clients
      BY DEF Fresh
    <3>2. Cardinality(Fresh) <= Cardinality(Clients)
      BY <3>1, FreshFinite, FS_Subset
    <3> QED
      BY <3>2 DEF Init, CountInv
  <2>3. \A c \in Clients : ClientOK(c)
    <3>1. ~Stops(<<>>)
      BY ShortQueues
    <3> QED
      BY <3>1 DEF Init, ClientOK
  <2> QED
    BY <2>1, <2>2, <2>3 DEF Inv
<1> QED
  BY <1>1, InvStep, PTL DEF Spec

\* The two programs' state has its types; the client's counter never goes below
\* 0, whichever connections are lost.
THEOREM EchoTypeCorrect == Spec => []EchoTypeOK
<1>1. Inv => EchoTypeOK
  BY DEF Inv
<1> QED
  BY <1>1, InvHolds, PTL

\* What comes back to a client is the line it has sent, once.
THEOREM EchoesAreOwn == Spec => []EchoesMatch
<1>1. Inv => EchoesMatch
  <2> SUFFICES ASSUME Inv, NEW c \in Clients, client[c] = "echo"
               PROVE  /\ Len(toServer[c]) + Len(toClient[c]) <= 1
                      /\ toClient[c] # <<>> => Head(toClient[c]) = Line(left[c])
    BY DEF EchoesMatch
  <2>1. OneLine(c)
    BY DEF Inv, ClientOK
  <2> DEFINE l == Line(left[c])
  <2> HIDE DEF l
  <2>2. Len(<<>>) = 0 /\ Len(<<l>>) = 1 /\ Head(<<l>>) = l /\ 0 + 0 <= 1 /\ 0 + 1 <= 1
    OBVIOUS
  <2>3. \/ toServer[c] = <<>> /\ toClient[c] = <<>>
        \/ toServer[c] = <<>> /\ toClient[c] = <<l>>
        \/ toServer[c] = <<l>> /\ toClient[c] = <<>>
    BY <2>1 DEF OneLine, l
  <2>4. /\ Len(toServer[c]) + Len(toClient[c]) <= 1
        /\ toClient[c] # <<>> => Head(toClient[c]) = l
    <3>1. CASE toServer[c] = <<>> /\ toClient[c] = <<>>
      <4>1. Len(toServer[c]) = 0 /\ Len(toClient[c]) = 0
        BY <2>2, <3>1, Zenon
      <4> QED
        BY <3>1, <4>1
    <3>2. CASE toServer[c] = <<>> /\ toClient[c] = <<l>>
      <4>1. Len(toServer[c]) = 0 /\ Len(toClient[c]) = 1 /\ Head(toClient[c]) = l
        BY <2>2, <3>2, Zenon
      <4> QED
        BY <4>1
    <3>3. CASE toServer[c] = <<l>> /\ toClient[c] = <<>>
      <4>1. Len(toServer[c]) = 1 /\ Len(toClient[c]) = 0
        BY <2>2, <3>3, Zenon
      <4> QED
        BY <3>3, <4>1
    <3> QED
      BY <2>3, <3>1, <3>2, <3>3, Zenon
  <2> QED
    BY <2>4 DEF l
<1> QED
  BY <1>1, InvHolds, PTL

\* At most one client takes itself for the last, and the server is not told to
\* stop while a client has lines to send, whichever connections are lost.
THEOREM LastOneShutsDown == Spec => []ShutdownComesLast
<1>1. Inv => ShutdownComesLast
  <2> SUFFICES ASSUME Inv PROVE ShutdownComesLast
    OBVIOUS
  <2>1. counter = 0 => Fresh = {}
    BY FreshFinite DEF Inv, CountInv
  <2>2. Fresh = {} => \A c \in Clients : left[c] = 0
    BY DEF Fresh, Inv, EchoTypeOK
  <2> QED
    BY <2>1, <2>2 DEF Inv, CountInv, ShutdownComesLast
<1> QED
  BY <1>1, InvHolds, PTL
=============================================================================
