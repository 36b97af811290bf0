-------------------------------- MODULE Echo --------------------------------
(***************************************************************************)
(* The demo's two programs over coro_socket: echo_server.cc, with its      *)
(* accepting coroutine and one coroutine for each session, and             *)
(* echo_client.cc, with one coroutine for each client.  Each program is    *)
(* one thread; a coroutine's burst, from a wake-up to the next call that   *)
(* waits, is one step, and the bursts of different coroutines come in any  *)
(* order.  Lines are whole (Buffer.tla takes them apart), and the sockets' *)
(* buffers hold what one exchange sends, so no write waits.                *)
(***************************************************************************)
EXTENDS Integers, Sequences, FiniteSets

CONSTANTS
  Clients,         \* the clients that echo_client spawns
  NTrans,          \* ntrans: how many lines each of them sends
  Inherits,        \* whether accept(2) hands the listener's O_NONBLOCK on: BSD's does
                   \* ({TRUE}), Linux's does not ({FALSE})
  MaxLost,         \* bound: connections the network resets
  NULL

ASSUME EchoAssumption ==
  /\ IsFiniteSet(Clients) /\ NULL \notin Clients
  /\ NTrans \in Nat /\ MaxLost \in Nat
  /\ Inherits \subseteq BOOLEAN

VARIABLES
  backlog,    \* connections that wait to be accepted
  acceptor,   \* echo_server: "run", "wait" (inside wait_for_read)
  session,    \* echo_session: "none", "run", "wait", "over"
  inherits,   \* which of Inherits the kernel does: both programs run on one kind
  stuck,      \* the session whose ::read has blocked the thread, or NULL
  serverExit, \* coro::_exit of the server
  serverDown, \* its main has returned, or SIGPIPE has killed it
  client,     \* where each client is: see Places
  left,       \* lines it has still to send
  counter,    \* the client's counter
  last,       \* its last
  clientExit, \* coro::_exit of the client
  clientDown, \* as serverDown
  toServer,   \* the lines under way on each connection
  toClient,
  shut,       \* the ends of connections that are closed: <<"server", c>>, <<"client", c>>
  lost        \* the connections the network has reset

servervars == <<acceptor, session, inherits, stuck, serverExit, serverDown>>
clientvars == <<client, left, counter, last, clientExit, clientDown>>
netvars == <<backlog, toServer, toClient, shut, lost>>
vars == <<servervars, clientvars, netvars>>

\* The waits of client(): for connect, for the echo of a line, for the answers
\* to !bench and to !quit or !shutdown.  "over" and "dead": it has returned, or
\* an exception has ended it.
Places == {"start", "connect", "echo", "bench", "bye", "over", "dead"}

Line(n) == [cmd |-> "line", n |-> n]
Cmd(x) == [cmd |-> x, n |-> 0]
Lines == [cmd : {"line", "!b", "!q", "!s"}, n : 0..NTrans]

-----------------------------------------------------------------------------
(* echo_server.cc *)

\* A coroutine of the server may run: nothing preempts a session in ::read, or
\* before its next one.
ServerRuns == ~serverDown /\ stuck = NULL
SessionRuns(c) == ~serverDown /\ stuck \in {NULL, c} /\ session[c] = "run"

\* ::accept has a connection: new coro_socket (fd), and a coroutine for it.
Accept ==
  /\ ServerRuns
  /\ acceptor = "run"
  /\ backlog # <<>>
  /\ session' = [session EXCEPT ![Head(backlog)] = "run"]
  /\ backlog' = Tail(backlog)
  /\ UNCHANGED <<acceptor, inherits, stuck, serverExit, serverDown, clientvars,
                 toServer, toClient, shut, lost>>

\* It has none: the listening socket does not block.
AcceptWaits ==
  /\ ServerRuns
  /\ acceptor = "run"
  /\ backlog = <<>>
  /\ acceptor' = "wait"
  /\ UNCHANGED <<session, inherits, stuck, serverExit, serverDown, clientvars, netvars>>

AcceptWoken ==
  /\ ServerRuns
  /\ acceptor = "wait"
  /\ backlog # <<>>
  /\ acceptor' = "run"
  /\ UNCHANGED <<session, inherits, stuck, serverExit, serverDown, clientvars, netvars>>

\* ::read has something to return.
Readable(c) ==
  toServer[c] # <<>> \/ <<"client", c>> \in shut \/ c \in lost

\* The session ends and its socket is closed.
EndSession(c) ==
  /\ session' = [session EXCEPT ![c] = "over"]
  /\ shut' = shut \cup {<<"server", c>>}
  /\ stuck' = NULL

\* A line comes back without being read.
BadEcho(c) ==
  /\ SessionRuns(c) /\ c \notin lost
  /\ toServer[c] # <<>>
  /\ Head(toServer[c]).cmd = "line"
  /\ toClient' = [toClient EXCEPT ![c] = Append(@, Head(toServer[c]))]
  /\ UNCHANGED <<session, shut, serverExit, toServer>>
  /\ UNCHANGED <<acceptor, inherits, stuck, serverDown, clientvars, backlog, lost>>

\* echo_session has a line and writes it back.
EchoLine(c) ==
  /\ SessionRuns(c) /\ c \notin lost
  /\ toServer[c] # <<>>
  /\ Head(toServer[c]).cmd \in {"line", "!b"}
  /\ toServer' = [toServer EXCEPT ![c] = Tail(@)]
  /\ toClient' = [toClient EXCEPT ![c] = Append(@, Head(toServer[c]))]
  /\ UNCHANGED <<acceptor, inherits, session, stuck, serverExit, serverDown,
                 clientvars, backlog, shut, lost>>

\* coro::exit is not called.
BadSessionQuit(c) ==
  /\ SessionRuns(c) /\ c \notin lost
  /\ toServer[c] # <<>>
  /\ Head(toServer[c]).cmd \in {"!q", "!s"}
  /\ toServer' = [toServer EXCEPT ![c] = Tail(@)]
  /\ EndSession(c)
  /\ UNCHANGED <<acceptor, inherits, serverExit, serverDown, clientvars,
                 backlog, toClient, lost>>

\* !quit and !shutdown: the socket is shut down and closed; !shutdown also ends
\* the server.
SessionQuit(c) ==
  /\ SessionRuns(c) /\ c \notin lost
  /\ toServer[c] # <<>>
  /\ Head(toServer[c]).cmd \in {"!q", "!s"}
  /\ toServer' = [toServer EXCEPT ![c] = Tail(@)]
  /\ EndSession(c)
  /\ serverExit' = (serverExit \/ Head(toServer[c]).cmd = "!s")
  /\ UNCHANGED <<acceptor, inherits, serverDown, clientvars, backlog, toClient, lost>>

\* get returns true, or read, write or shutdown throws OS_Error: in each case the
\* session closes, and has not called coro::exit.
SessionEnds(c) ==
  /\ SessionRuns(c)
  /\ c \in lost \/ (toServer[c] = <<>> /\ <<"client", c>> \in shut)
  /\ EndSession(c)
  /\ UNCHANGED <<acceptor, inherits, serverExit, serverDown, clientvars,
                 backlog, toServer, toClient, lost>>

\* The kernel closes what a process leaves open.
ServerGone == serverDown' = TRUE /\ shut' = shut \cup ({"server"} \X Clients)
ClientGone == clientDown' = TRUE /\ shut' = shut \cup ({"client"} \X Clients)

\* A line that had come before the reset is answered, and SIGPIPE comes with the
\* write that fails.  Nobody ignores it.
SessionKilled(c) ==
  /\ SessionRuns(c) /\ c \in lost
  /\ toServer[c] # <<>>
  /\ Head(toServer[c]).cmd \in {"line", "!b"}
  /\ ServerGone
  /\ UNCHANGED <<acceptor, inherits, session, stuck, serverExit, clientvars,
                 backlog, toServer, toClient, lost>>

\* coro_socket's constructor sets O_NONBLOCK on the sockets it makes, and leaves
\* those it is given, accept's, as they are.
SessionWaits(c) ==
  /\ SessionRuns(c)
  /\ ~Readable(c)
  /\ IF inherits
       THEN session' = [session EXCEPT ![c] = "wait"] /\ UNCHANGED stuck
       ELSE stuck' = c /\ UNCHANGED session
  /\ UNCHANGED <<acceptor, inherits, serverExit, serverDown, clientvars, netvars>>

SessionWoken(c) ==
  /\ ServerRuns
  /\ session[c] = "wait"
  /\ Readable(c)
  /\ session' = [session EXCEPT ![c] = "run"]
  /\ UNCHANGED <<acceptor, inherits, stuck, serverExit, serverDown, clientvars,
                 netvars>>

\* event_loop returns, and main.
ServerEnds ==
  /\ ServerRuns
  /\ serverExit
  /\ ServerGone
  /\ UNCHANGED <<acceptor, inherits, session, stuck, serverExit, clientvars,
                 backlog, toServer, toClient, lost>>

-----------------------------------------------------------------------------
(* echo_client.cc *)

ClientRuns == ~clientDown

Write(c, line) == toServer' = [toServer EXCEPT ![c] = Append(@, line)]

\* ::read has nothing and will have nothing.
Ended(c) == toClient[c] = <<>> /\ <<"server", c>> \in shut

\* The server has gone before it has accepted the connection.
Refused(c) == serverDown /\ session[c] = "none"

\* A call on the connection may fail: the network has reset it, or the server's
\* end, which was closed with a line unread or not to be read.
Reset(c) ==
  \/ c \in lost
  \/ Refused(c)
  \/ <<"server", c>> \in shut /\ toServer[c] # <<>>

Connect(c) ==
  /\ ClientRuns
  /\ client[c] = "start"
  /\ client' = [client EXCEPT ![c] = "connect"]
  /\ backlog' = Append(backlog, c)
  /\ UNCHANGED <<left, counter, last, clientExit, clientDown, servervars,
                 toServer, toClient, shut, lost>>

\* The counter is read before it is changed.
BadSendNext(c, n) ==
  IF n > 0
    THEN /\ Write(c, Line(n))
         /\ client' = [client EXCEPT ![c] = "echo"]
         /\ UNCHANGED <<counter, last>>
    ELSE /\ counter' = counter - 1
         /\ last' = [last EXCEPT ![c] = counter <= 2]
         /\ Write(c, Cmd(IF last'[c] THEN "!b" ELSE "!q"))
         /\ client' = [client EXCEPT ![c] = IF last'[c] THEN "bench" ELSE "bye"]

\* The rest of a client's burst: it writes its next line; or, its lines sent, it
\* counts down, and the last one asks for the benchmark.
SendNext(c, n) ==
  IF n > 0
    THEN /\ Write(c, Line(n))
         /\ client' = [client EXCEPT ![c] = "echo"]
         /\ UNCHANGED <<counter, last>>
    ELSE /\ counter' = counter - 1
         /\ last' = [last EXCEPT ![c] = (counter' = 0)]
         /\ Write(c, Cmd(IF last'[c] THEN "!b" ELSE "!q"))
         /\ client' = [client EXCEPT ![c] = IF last'[c] THEN "bench" ELSE "bye"]

Connected(c) ==
  /\ ClientRuns
  /\ client[c] = "connect" /\ c \notin lost /\ ~Refused(c)
  /\ SendNext(c, left[c])
  /\ UNCHANGED <<left, clientExit, clientDown, servervars, backlog, toClient,
                 shut, lost>>

\* The echo of a line is there.
Echoed(c) ==
  /\ ClientRuns
  /\ client[c] = "echo" /\ c \notin lost
  /\ toClient[c] # <<>>
  /\ toClient' = [toClient EXCEPT ![c] = Tail(@)]
  /\ left' = [left EXCEPT ![c] = @ - 1]
  /\ SendNext(c, left[c] - 1)
  /\ UNCHANGED <<clientExit, clientDown, servervars, backlog, shut, lost>>

\* The benchmark is there, or will not come: !shutdown all the same.
Benched(c) ==
  /\ ClientRuns
  /\ client[c] = "bench" /\ c \notin lost
  /\ toClient[c] # <<>> \/ Ended(c)
  /\ toClient' = [toClient EXCEPT ![c] = <<>>]
  /\ Write(c, Cmd("!s"))
  /\ client' = [client EXCEPT ![c] = "bye"]
  /\ UNCHANGED <<left, counter, last, clientExit, clientDown, servervars,
                 backlog, shut, lost>>

\* The server has closed the connection, which a reset that comes after does not
\* hide: so does the client, and the last one ends the program.
Bye(c) ==
  /\ ClientRuns
  /\ client[c] = "bye"
  /\ toClient[c] # <<>> \/ Ended(c)
  /\ client' = [client EXCEPT ![c] = "over"]
  /\ shut' = shut \cup {<<"client", c>>}
  /\ clientExit' = (clientExit \/ last[c])
  /\ UNCHANGED <<left, counter, last, clientDown, servervars, backlog,
                 toServer, toClient, lost>>

\* The end of the stream inside of the loop over the echo, where a session has
\* ended with a lost connection or the server was killed: "client closed
\* unexpectedly" is caught, and the socket deleted.
EchoEnds(c) ==
  /\ ClientRuns
  /\ client[c] = "echo"
  /\ Ended(c)
  /\ client' = [client EXCEPT ![c] = "over"]
  /\ shut' = shut \cup {<<"client", c>>}
  /\ UNCHANGED <<left, counter, last, clientExit, clientDown, servervars,
                 backlog, toServer, toClient, lost>>

\* The failed client is counted, whether it had counted down or not.
BadClientThrows(c) ==
  /\ ClientRuns
  /\ client[c] \in {"connect", "echo", "bench", "bye"}
  /\ Reset(c)
  /\ client' = [client EXCEPT ![c] = "dead"]
  /\ counter' = counter - 1
  /\ UNCHANGED <<left, last, clientExit, clientDown, servervars, netvars>>

\* read or write throws OS_Error, which client() does not catch: _wrap1 does.
\* Nobody counts down, and nobody closes the socket.
ClientThrows(c) ==
  /\ ClientRuns
  /\ client[c] \in {"connect", "echo", "bench", "bye"}
  /\ Reset(c)
  /\ client' = [client EXCEPT ![c] = "dead"]
  /\ UNCHANGED <<left, counter, last, clientExit, clientDown, servervars, netvars>>

\* What had come before the reset is read, and the write that follows throws:
\* the client may have counted down by then.
WriteThrows(c) ==
  /\ ClientRuns
  /\ client[c] = "echo" /\ c \in lost
  /\ toClient[c] # <<>>
  /\ toClient' = [toClient EXCEPT ![c] = <<>>]
  /\ left' = [left EXCEPT ![c] = @ - 1]
  /\ counter' = IF left'[c] = 0 THEN counter - 1 ELSE counter
  /\ last' = [last EXCEPT ![c] = left'[c] = 0 /\ counter' = 0]
  /\ client' = [client EXCEPT ![c] = "dead"]
  /\ UNCHANGED <<clientExit, clientDown, servervars, backlog, toServer, shut, lost>>

\* A write follows on what the client waits for.
WritesNext(c) ==
  \/ client[c] = "connect"
  \/ client[c] \in {"echo", "bench"} /\ toClient[c] # <<>>
  \/ client[c] = "bench" /\ Ended(c)

\* Or SIGPIPE comes with it, and takes all of the clients along.
ClientKilled(c) ==
  /\ ClientRuns
  /\ WritesNext(c) /\ Reset(c)
  /\ ClientGone
  /\ UNCHANGED <<client, left, counter, last, clientExit, servervars, backlog,
                 toServer, toClient, lost>>

ClientEnds ==
  /\ ClientRuns
  /\ clientExit
  /\ ClientGone
  /\ UNCHANGED <<client, left, counter, last, clientExit, servervars, backlog,
                 toServer, toClient, lost>>

-----------------------------------------------------------------------------
\* The network resets a connection.  What has arrived at either end may be read
\* even so, or be dropped.
Lose(c) ==
  /\ Cardinality(lost) < MaxLost
  /\ client[c] # "start" /\ c \notin lost
  /\ lost' = lost \cup {c}
  /\ toServer' \in {toServer, [toServer EXCEPT ![c] = <<>>]}
  /\ toClient' \in {toClient, [toClient EXCEPT ![c] = <<>>]}
  /\ UNCHANGED <<backlog, shut, servervars, clientvars>>

Init ==
  /\ backlog = <<>>
  /\ acceptor = "run"
  /\ session = [c \in Clients |-> "none"]
  /\ inherits \in Inherits
  /\ stuck = NULL
  /\ serverExit = FALSE /\ serverDown = FALSE
  /\ client = [c \in Clients |-> "start"]
  /\ left = [c \in Clients |-> NTrans]
  /\ counter = Cardinality(Clients)
  /\ last = [c \in Clients |-> FALSE]
  /\ clientExit = FALSE /\ clientDown = FALSE
  /\ toServer = [c \in Clients |-> <<>>]
  /\ toClient = [c \in Clients |-> <<>>]
  /\ shut = {} /\ lost = {}

Acceptor == Accept \/ AcceptWaits \/ AcceptWoken

Session(c) ==
  \/ EchoLine(c) \/ SessionQuit(c) \/ SessionEnds(c) \/ SessionKilled(c)
  \/ SessionWaits(c) \/ SessionWoken(c)

Client(c) ==
  \/ Connect(c) \/ Connected(c) \/ Echoed(c) \/ Benched(c) \/ Bye(c)
  \/ EchoEnds(c) \/ ClientThrows(c) \/ WriteThrows(c) \/ ClientKilled(c)

Next ==
  \/ Acceptor \/ ServerEnds \/ ClientEnds
  \/ \E c \in Clients : Session(c) \/ Client(c) \/ Lose(c)

\* What the poller that both programs take on BSD promises: kevent(2) tells of
\* every ready waiter, and poll wakes all that it tells of (see KqueuePoller).
\* Linux has no kqueue(2), and its echo_client no poller but poll(2), whose scan
\* may pass a ready waiter over for ever (see PollPoller): nothing is promised
\* there.
Served(A) == inherits /\ A

\* Coro's scheduler runs every coroutine that is scheduled, and the poller wakes
\* those that wait; both event loops end when they are told to.
Spec ==
  /\ Init
  /\ [][Next]_vars
  /\ WF_vars(Served(Acceptor)) /\ WF_vars(Served(ServerEnds)) /\ WF_vars(Served(ClientEnds))
  /\ \A c \in Clients : WF_vars(Served(Session(c))) /\ WF_vars(Served(Client(c)))

-----------------------------------------------------------------------------
(* Properties *)

\* The types of the two programs' state.
EchoTypeOK ==
  /\ backlog \in Seq(Clients)
  /\ acceptor \in {"run", "wait"}
  /\ session \in [Clients -> {"none", "run", "wait", "over"}]
  /\ inherits \in BOOLEAN
  /\ stuck \in Clients \cup {NULL}
  /\ serverExit \in BOOLEAN /\ serverDown \in BOOLEAN
  /\ client \in [Clients -> Places]
  /\ left \in [Clients -> 0..NTrans]
  /\ counter \in 0..Cardinality(Clients)
  /\ last \in [Clients -> BOOLEAN]
  /\ clientExit \in BOOLEAN /\ clientDown \in BOOLEAN
  /\ toServer \in [Clients -> Seq(Lines)]
  /\ toClient \in [Clients -> Seq(Lines)]
  /\ shut \subseteq {"server", "client"} \X Clients
  /\ lost \subseteq Clients

\* What comes back to a client is the line it has sent, once.
EchoesMatch ==
  \A c \in Clients :
    /\ client[c] = "echo" => Len(toServer[c]) + Len(toClient[c]) <= 1
    /\ client[c] = "echo" /\ toClient[c] # <<>> => Head(toClient[c]) = Line(left[c])

\* At most one client takes itself for the last, and then everybody has counted
\* down: the server is not told to stop while a client has lines to send, even
\* when connections are lost.
ShutdownComesLast ==
  /\ \A c, d \in Clients : last[c] /\ last[d] => c = d
  /\ (serverExit \/ \E c \in Clients : last[c]) => \A c \in Clients : left[c] = 0

\* If no connection is lost both programs end, where the poller serves every
\* ready waiter: on BSD.
BothEnd == inherits => <>(lost # {} \/ (serverDown /\ clientDown))

\* No call of a coroutine blocks the server's thread.
NoCallBlocks == stuck = NULL
=============================================================================
