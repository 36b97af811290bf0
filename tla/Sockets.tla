------------------------------ MODULE Sockets ------------------------------
(***************************************************************************)
(* The sockets of a server's coroutines: coro_socket, and coro_s2n and     *)
(* coro_ssl over it.  They accept, shake hands, wait in the direction that *)
(* a library asks for, and write what the kernel takes in parts.  What a   *)
(* session does with them is in Sessions.tla.  Accepted sockets do not     *)
(* block here (BSD; Echo.tla has the other case).  A step is a call of the *)
(* system's or of a library's; sessions share nothing, so that it does not *)
(* matter whose calls come between those of a coroutine that does not wait.*)
(***************************************************************************)
EXTENDS Integers, Sequences

CONSTANTS
  Clients,  \* for each kind of program, the connections that are made to it:
            \* "smtp": smtp_server, over coro_socket;
            \* "s2n", "ssl": echo_server, over coro_s2n or coro_ssl
  Says,     \* for each, the commands that its peers know
  MaxSent,  \* bound for each: how many they send in all
  Room,     \* units that the kernel's send buffer holds
  Length    \* units of a reply

Kinds == DOMAIN Clients
Conns == UNION {Clients[k] : k \in Kinds}

ASSUME SocketsAssumption ==
  /\ Kinds \subseteq {"smtp", "s2n", "ssl"}
  /\ DOMAIN Says = Kinds /\ MaxSent \in [Kinds -> Nat]
  /\ Conns \cap {"run", "wait", "over"} = {}
  /\ Room \in Nat \ {0} /\ Length \in Nat \ {0}

VARIABLES
  kind,     \* which of Kinds the program is
  backlog,  \* connections that wait to be accepted
  acceptor, \* "run", "wait", "over", or the connection it shakes hands with
  refused,  \* accept(2) has failed
  down,     \* SIGPIPE has killed the process
  sent,     \* how much the peers have sent
  conn,     \* the kernel's and the peer's end of each connection
  sess      \* the server's end of each: its session

vars == <<kind, backlog, acceptor, refused, down, sent, conn, sess>>

(* conn[c] is a record of                                                  *)
(*   peer     "none", "open", "half" (sends no more), "gone", "reset"      *)
(*   shakes   the handshake so far: see PeerShakes                         *)
(*   inbox    commands, and "shake" for what the peer says in a handshake  *)
(*   outbox   units of replies that the peer has not taken                 *)
(*   pending  commands whose reply the peer has not had whole              *)
(*   body     the peer has said DATA and not yet its body                  *)
(*   last     the last unit of a reply that the peer has taken             *)
(*   mailed   the peer knows a MAIL of its transaction to be accepted      *)
(*   stray    get has missed the end of a body (see Sessions!ReadOn)       *)
(* and sess[c] of                                                          *)
(*   pc       the call it is in: "none", "shake" (the handshake), "read",  *)
(*            "body", "astray" (a body whose end it has missed), "write",  *)
(*            "alert" and "shut" (shutdown), "over"                        *)
(*   parked   "no", or the direction it waits in                           *)
(*   p        the unit that write is to write next: its p                  *)
(*   reply    what it writes, and its pc after that                        *)
(*   env      whether _env_from is not empty                               *)
(*   got      what its line was made of: "none", "text", "cipher"          *)

NoReply == [to |-> "shake", code |-> 0, next |-> "read"]
Unit(i, reply) == [i |-> i, to |-> reply.to, code |-> reply.code]

Idle == [pc |-> "none", parked |-> "no", p |-> 1, env |-> FALSE, got |-> "none",
         reply |-> NoReply]

\* The session has ended and closed its socket.
Over == [Idle EXCEPT !.pc = "over"]

Runs(c) == ~down /\ sess[c].parked = "no"
Is(c, pc) == Runs(c) /\ sess[c].pc = pc

Broken(c) == conn[c].peer \in {"gone", "reset"}
HasRoom(c) == Len(conn[c].outbox) < Room

\* The stream has ended and all of it has been read.
AtEnd(c) == conn[c].inbox = <<>> /\ conn[c].peer # "open"

\* What the poller waits for.
KernelReady(c, dir) ==
  IF dir = "in" THEN conn[c].inbox # <<>> \/ conn[c].peer # "open"
                ELSE HasRoom(c) \/ Broken(c)

\* A handshake answers in two parts.
Answering(c) == sess[c].pc = "shake" /\ conn[c].shakes \in {2, 3}


\* The direction the call of the session needs, as EWOULDBLOCK, SSL_get_error and
\* s2n_blocked_status give it.
Wants(c) == IF sess[c].pc \in {"write", "alert"} \/ Answering(c) THEN "out" ELSE "in"

\* The connection once its session has written: to a peer that is gone, nothing,
\* which the kernel hears of.
Wrote(c, units) ==
  IF conn[c].peer = "gone" THEN [conn[c] EXCEPT !.peer = "reset"]
  ELSE [conn[c] EXCEPT !.outbox = @ \o units]

-----------------------------------------------------------------------------
(* accept *)

\* The connection gets no coroutine of its own: the acceptor goes on with it.
BadAccepting(c) == c

\* coro_ssl::accept calls ssl_accept; the others return.
Accepting(c) == IF kind = "ssl" THEN c ELSE "run"

\* p starts before what is to be written.
BadFirst == [Idle EXCEPT !.pc = "write", !.p = 0]

\* A session's first call: smtp_session::go greets.
First ==
  IF kind = "smtp"
    THEN [Idle EXCEPT !.pc = "write", !.reply = [to |-> "hello", code |-> 250, next |-> "read"]]
    ELSE [Idle EXCEPT !.pc = "shake"]

\* A connection, and a coroutine for it.
Accept ==
  /\ ~down /\ acceptor = "run" /\ backlog # <<>>
  /\ LET c == Head(backlog) IN
       /\ acceptor' = Accepting(c)
       /\ sess' = [sess EXCEPT ![c] = First]
  /\ backlog' = Tail(backlog)
  /\ UNCHANGED <<kind, refused, down, sent, conn>>

AcceptWaits ==
  /\ ~down /\ acceptor = "run" /\ backlog = <<>>
  /\ acceptor' = "wait"
  /\ UNCHANGED <<kind, backlog, refused, down, sent, conn, sess>>

AcceptWoken ==
  /\ ~down /\ acceptor = "wait" /\ backlog # <<>>
  /\ acceptor' = "run"
  /\ UNCHANGED <<kind, backlog, refused, down, sent, conn, sess>>

\* An error other than EWOULDBLOCK leaves the loop of both servers.
AcceptFails ==
  /\ ~down /\ acceptor = "run"
  /\ acceptor' = "over"
  /\ refused' = TRUE
  /\ UNCHANGED <<kind, backlog, down, sent, conn, sess>>

-----------------------------------------------------------------------------
(* The handshake: ssl_accept, or _check_negotiate in the first read *)

ShakeIn(c) ==
  /\ Is(c, "shake") /\ ~Answering(c) /\ conn[c].inbox # <<>>
  /\ conn' = [conn EXCEPT ![c].inbox = Tail(@), ![c].shakes = @ + 1]
  /\ IF conn[c].shakes = 5
       THEN /\ sess' = [sess EXCEPT ![c].pc = "read"]
            /\ acceptor' = IF acceptor = c THEN "run" ELSE acceptor
       ELSE UNCHANGED <<sess, acceptor>>
  /\ UNCHANGED <<kind, backlog, refused, down, sent>>

ShakeOut(c) ==
  /\ Runs(c) /\ Answering(c) /\ conn[c].peer # "reset" /\ KernelReady(c, "out")
  /\ conn' = [conn EXCEPT ![c] = [Wrote(c, <<Unit(0, NoReply)>>) EXCEPT !.shakes = @ + 1]]
  /\ UNCHANGED <<kind, backlog, acceptor, refused, down, sent, sess>>

\* The library fails.  The exception ends the session, or with OpenSSL the
\* acceptor, which loses the connection; but the end of the stream sets no errno,
\* and _check takes an EWOULDBLOCK of before for a reason to wait.
ShakeFails(c) ==
  /\ Is(c, "shake")
  /\ IF Answering(c) THEN conn[c].peer = "reset" ELSE AtEnd(c)
  /\ \/ /\ sess' = [sess EXCEPT ![c] = Over]
        /\ acceptor' = IF acceptor = c THEN "over" ELSE acceptor
     \/ /\ kind = "s2n" /\ conn[c].peer # "reset"
        /\ sess' = [sess EXCEPT ![c].parked = Wants(c)]
        /\ UNCHANGED acceptor
  /\ UNCHANGED <<kind, backlog, refused, down, sent, conn>>

-----------------------------------------------------------------------------
(* Waiting and writing *)

\* wait_for_read, wait_for_write
Parks(c) ==
  /\ Runs(c) /\ sess[c].pc \notin {"none", "over"}
  /\ ~KernelReady(c, Wants(c))
  /\ sess' = [sess EXCEPT ![c].parked = Wants(c)]
  /\ UNCHANGED <<kind, backlog, acceptor, refused, down, sent, conn>>

\* The poller wakes it, and it tries again.
Woken(c) ==
  /\ ~down /\ sess[c].parked # "no"
  /\ KernelReady(c, sess[c].parked)
  /\ sess' = [sess EXCEPT ![c].parked = "no"]
  /\ UNCHANGED <<kind, backlog, acceptor, refused, down, sent, conn>>

\* p stays at the beginning of what it writes.
BadAdvanced(p, n) == p
Advanced(p, n) == p + n

\* The kernel takes n units of what is left; write returns after the last one.
Write(c) ==
  /\ Is(c, "write") /\ conn[c].peer # "reset" /\ KernelReady(c, "out")
  /\ \E n \in 1..(Length + 1 - sess[c].p) :
       LET s == sess[c] IN
       /\ conn[c].peer = "gone" \/ Len(conn[c].outbox) + n <= Room
       /\ conn' = [conn EXCEPT ![c] = Wrote(c, [i \in 1..n |-> Unit(s.p + i - 1, s.reply)])]
       /\ sess' = [sess EXCEPT ![c] =
                     IF s.p + n <= Length THEN [s EXCEPT !.p = Advanced(s.p, n)]
                     ELSE IF s.reply.next = "over" THEN Over
                     ELSE [s EXCEPT !.pc = s.reply.next, !.p = 1, !.reply = NoReply, !.got = "none"]]
  /\ UNCHANGED <<kind, backlog, acceptor, refused, down, sent>>

AfterError(c) == Over

\* write(2) fails: OS_Error, SSL_Error or S2N_Error ends the session.
WriteThrows(c) ==
  /\ Is(c, "write") \/ Is(c, "alert")
  /\ conn[c].peer = "reset"
  /\ sess' = [sess EXCEPT ![c] = AfterError(c)]
  /\ UNCHANGED <<kind, backlog, acceptor, refused, down, sent, conn>>

\* Or SIGPIPE comes with it, which nobody ignores.
Killed(c) ==
  /\ Runs(c) /\ sess[c].pc \notin {"none", "over"}
  /\ Wants(c) = "out" /\ conn[c].peer = "reset"
  /\ down' = TRUE
  /\ UNCHANGED <<kind, backlog, acceptor, refused, sent, conn, sess>>

\* shutdown sends its alert.  SSL_shutdown then returns 0, and that is enough.
Alert(c) ==
  /\ Is(c, "alert") /\ conn[c].peer # "reset" /\ KernelReady(c, "out")
  /\ conn' = [conn EXCEPT ![c] = Wrote(c, <<Unit(0, sess[c].reply)>>)]
  /\ sess' = [sess EXCEPT ![c] = IF kind = "ssl" THEN Over ELSE [@ EXCEPT !.pc = "shut"]]
  /\ UNCHANGED <<kind, backlog, acceptor, refused, down, sent>>

\* s2n_shutdown waits for the peer's.
Shut(c) ==
  /\ Is(c, "shut") /\ KernelReady(c, "in")
  /\ IF AtEnd(c)
       THEN sess' = [sess EXCEPT ![c] = Over] /\ UNCHANGED conn
       ELSE conn' = [conn EXCEPT ![c].inbox = Tail(@)] /\ UNCHANGED sess
  /\ UNCHANGED <<kind, backlog, acceptor, refused, down, sent>>
=============================================================================
