------------------------------ MODULE Sessions ------------------------------
(***************************************************************************)
(* The servers of the demo over Sockets.tla: smtp_server.cc, and           *)
(* echo_server.cc where it is built with s2n or with OpenSSL, with peers   *)
(* that send commands ahead of the replies, end or leave at any moment.    *)
(* The poller is one that wakes whoever is ready, as kqueue_poller does.   *)
(***************************************************************************)
EXTENDS Sockets

\* What smtp_session tells apart: MAIL with an address, with one of a single
\* character, without one; RCPT with an address; DATA, and its body, "blank" if it
\* is empty or ends in an empty line; RSET; QUIT; and whatever changes nothing:
\* HELO, RCPT without an address, unknown commands.  No line has a CR before its
\* CR LF: Buffer.tla has what get makes of that.
Bodies == {"body", "blank"}
SmtpCommands == {"mail", "mail1", "mail0", "rcpt", "data", "rset", "quit", "other"} \cup Bodies
Commands == IF kind = "smtp" THEN SmtpCommands ELSE {"line", "quit"}

-----------------------------------------------------------------------------
(* smtp_server.cc *)

\* find_email_addr clears its result before it looks.
BadFound(cmd, env) == cmd # "mail0"

\* Whether _env_from has something after find_email_addr, which may set it and
\* return 0 all the same.
Found(cmd, env) == IF cmd = "mail0" THEN env ELSE TRUE

\* The code of the reply, where go goes after it, and _env_from's new value.
Answer(cmd, env) ==
  LET Go(code, next, e) == [code |-> code, next |-> next, env |-> e]
  IN  CASE cmd = "mail"               -> Go(250, "read", Found(cmd, env))
        [] cmd \in {"mail1", "mail0"} -> Go(501, "read", Found(cmd, env))
        [] cmd = "rcpt"               -> Go(IF env THEN 250 ELSE 503, "read", env)
        [] cmd = "data"               -> Go(354, "body", env)
        [] cmd \in Bodies \cup {"rset"} -> Go(250, "read", FALSE)
        [] cmd = "quit"               -> Go(221, "over", env)
        [] OTHER                      -> Go(502, "read", env)

\* The session of c after it has read cmd, and its reply is told for "to".
Handled(c, cmd, to) ==
  LET a == Answer(cmd, sess[c].env)
  IN  [sess[c] EXCEPT !.pc = "write", !.env = a.env, !.got = "text",
                      !.reply = [to |-> to, code |-> a.code, next |-> a.next]]

\* What a line leaves in the buffer.
BadRest(s) == <<>>
Rest(s) == Tail(s)

\* get is at a body.  Where it has missed the end of one it is "astray": it takes
\* what comes for more of the body.
InBody(c) == Is(c, "body") \/ Is(c, "astray")

\* get finds the end of a line, and of a body where a CR LF.CR LF ends it that
\* comes after something else than CR or LF: astray, what comes before a body that
\* is empty will do.
Finds(c, cmd) ==
  \/ Is(c, "read")
  \/ InBody(c) /\ cmd = "body"
  \/ Is(c, "astray") /\ cmd = "blank"

\* It may miss the end of a blank one, and a line does not end a body.
Misses(c, cmd) == InBody(c) /\ cmd # "body"

\* get has a line, or the body; its handler begins the reply.
ReadCommand(c) ==
  /\ kind = "smtp" /\ conn[c].inbox # <<>> /\ Finds(c, Head(conn[c].inbox))
  /\ sess' = [sess EXCEPT ![c] = Handled(c, Head(conn[c].inbox), Head(conn[c].inbox))]
  /\ conn' = [conn EXCEPT ![c].inbox = Rest(@)]
  /\ UNCHANGED <<kind, backlog, acceptor, refused, down, sent>>

\* get puts it into the list of pieces and reads on.
ReadOn(c) ==
  /\ kind = "smtp" /\ conn[c].inbox # <<>> /\ Misses(c, Head(conn[c].inbox))
  /\ sess' = [sess EXCEPT ![c].pc = "astray"]
  /\ conn' = [conn EXCEPT ![c].inbox = Tail(@), ![c].stray = TRUE]
  /\ UNCHANGED <<kind, backlog, acceptor, refused, down, sent>>

\* get says that the stream has closed, and nobody listens: what there is of the
\* body is the body, and an empty line is a command.
ReadPastEnd(c) ==
  /\ kind = "smtp" /\ (Is(c, "read") \/ InBody(c)) /\ AtEnd(c)
  /\ sess' = [sess EXCEPT ![c] = Handled(c, IF @.pc = "read" THEN "other" ELSE "body", "end")]
  /\ UNCHANGED <<kind, backlog, acceptor, refused, down, sent, conn>>

-----------------------------------------------------------------------------
(* echo_server.cc over coro_s2n and coro_ssl *)

Echoing(c, got, next) ==
  sess' = [sess EXCEPT ![c].got = got,
                       ![c].pc = IF next = "quit" THEN "alert" ELSE "write",
                       ![c].reply = [to |-> next, code |-> 0, next |-> "read"]]

\* s2n_recv gives get a line.
ReadLine(c) ==
  /\ kind = "s2n" /\ Is(c, "read") /\ conn[c].inbox # <<>>
  /\ Echoing(c, "text", Head(conn[c].inbox))
  /\ conn' = [conn EXCEPT ![c].inbox = Rest(@)]
  /\ UNCHANGED <<kind, backlog, acceptor, refused, down, sent>>

\* coro_ssl::read does not override coro_file::read, which get calls: what it
\* reads is a record of TLS, that has a CR LF in it or not, and a "!" or not.
ReadRecord(c) ==
  /\ kind = "ssl" /\ Is(c, "read") /\ conn[c].inbox # <<>>
  /\ \/ \E cmd \in Commands : Echoing(c, "cipher", cmd)
     \/ sess' = [sess EXCEPT ![c].got = "cipher"]
  /\ conn' = [conn EXCEPT ![c].inbox = Tail(@)]
  /\ UNCHANGED <<kind, backlog, acceptor, refused, down, sent>>

\* get says that the stream has closed.
ReadEnd(c) ==
  /\ kind # "smtp" /\ Is(c, "read") /\ AtEnd(c)
  /\ sess' = [sess EXCEPT ![c] = Over]
  /\ UNCHANGED <<kind, backlog, acceptor, refused, down, sent, conn>>

\* read(2) fails: the exception ends the session.  smtp_session_entry closes
\* the socket once more, which the exception has deleted: in freed memory it
\* finds no descriptor that is open.
ReadThrows(c) ==
  /\ Is(c, "read") \/ InBody(c)
  /\ AtEnd(c) /\ conn[c].peer = "reset"
  /\ sess' = [sess EXCEPT ![c] = Over]
  /\ UNCHANGED <<kind, backlog, acceptor, refused, down, sent, conn>>

-----------------------------------------------------------------------------
(* The peers *)

Peer(c, r) ==
  /\ conn' = [conn EXCEPT ![c] = r]
  /\ UNCHANGED <<kind, acceptor, refused, down, sess>>

NoPeer == [peer |-> "none", shakes |-> 0, inbox |-> <<>>, outbox |-> <<>>,
           pending |-> <<>>, body |-> FALSE, last |-> Length, mailed |-> FALSE,
           stray |-> FALSE]

Connect(c) ==
  /\ c \in Clients[kind] /\ conn[c].peer = "none"
  /\ Peer(c, [conn[c] EXCEPT !.peer = "open",
                             !.pending = IF kind = "smtp" THEN <<"hello">> ELSE <<>>])
  /\ backlog' = Append(backlog, c)
  /\ UNCHANGED sent

\* The six steps of a handshake: the peer says something, the server reads it and
\* answers in two parts, the peer says something more, and the server reads that.
PeerShakes(c) ==
  /\ kind # "smtp" /\ conn[c].peer = "open"
  /\ conn[c].shakes = 0 \/ (conn[c].shakes = 4 /\ conn[c].outbox = <<>>)
  /\ Peer(c, [conn[c] EXCEPT !.inbox = Append(@, "shake"), !.shakes = @ + 1])
  /\ UNCHANGED <<backlog, sent>>

\* It may say more than the server has answered, but DATA has one body.
PeerSends(c, cmd) ==
  /\ cmd \in Says[kind] /\ conn[c].peer = "open" /\ sess[c].pc # "over" /\ sent < MaxSent[kind]
  /\ IF kind = "smtp" THEN conn[c].body <=> (cmd \in Bodies)
                      ELSE conn[c].shakes >= 5
  /\ Peer(c, [conn[c] EXCEPT !.inbox = Append(@, cmd), !.body = (cmd = "data"),
                             !.pending = Append(@, cmd)])
  /\ sent' = sent + 1
  /\ UNCHANGED backlog

\* It has a reply when it has the last unit, or shutdown's alert.
Final(u) == u.i = Length \/ (u.i = 0 /\ u.to # "shake")

PeerTakes(c) ==
  /\ conn[c].peer \in {"open", "half"} /\ conn[c].outbox # <<>>
  /\ LET u == Head(conn[c].outbox)
         k == [conn[c] EXCEPT !.outbox = Tail(@), !.last = IF u.i = 0 THEN @ ELSE u.i]
     IN  Peer(c, IF ~Final(u) \/ u.to = "end" \/ k.pending = <<>> THEN k
                 ELSE [k EXCEPT !.pending = Tail(@),
                                !.mailed = IF u.to \in Bodies \cup {"rset"} THEN FALSE
                                           ELSE @ \/ (u.to = "mail" /\ u.code = 250)])
  /\ UNCHANGED <<backlog, sent>>

\* It shuts its end down, or is gone, with or without a reset.
PeerEnds(c) ==
  /\ conn[c].peer = "open"
  /\ Peer(c, [conn[c] EXCEPT !.peer = "half"])
  /\ UNCHANGED <<backlog, sent>>

PeerLeaves(c) ==
  /\ conn[c].peer \in {"open", "half"}
  /\ LET k == [NoPeer EXCEPT !.peer = "gone", !.shakes = conn[c].shakes,
                             !.inbox = conn[c].inbox]
     IN  Peer(c, k) \/ Peer(c, [k EXCEPT !.peer = "reset", !.inbox = <<>>])
  /\ UNCHANGED <<backlog, sent>>

-----------------------------------------------------------------------------
Init ==
  /\ kind \in Kinds
  /\ backlog = <<>> /\ acceptor = "run" /\ refused = FALSE
  /\ down = FALSE /\ sent = 0
  /\ conn = [c \in Conns |-> NoPeer]
  /\ sess = [c \in Conns |-> Idle]

Acceptor == Accept \/ AcceptWaits \/ AcceptWoken

Session(c) ==
  \/ ShakeIn(c) \/ ShakeOut(c) \/ ShakeFails(c) \/ Parks(c) \/ Woken(c)
  \/ Write(c) \/ WriteThrows(c) \/ Killed(c) \/ Alert(c) \/ Shut(c)
  \/ ReadCommand(c) \/ ReadOn(c) \/ ReadPastEnd(c) \/ ReadLine(c)
  \/ ReadRecord(c) \/ ReadEnd(c) \/ ReadThrows(c)

PeerStep(c) ==
  \/ Connect(c) \/ PeerShakes(c) \/ PeerTakes(c) \/ PeerEnds(c) \/ PeerLeaves(c)
  \/ \E cmd \in Commands : PeerSends(c, cmd)

Next == Acceptor \/ AcceptFails \/ \E c \in Conns : Session(c) \/ PeerStep(c)

\* Past the end of its stream smtp_session reads and replies for ever, and waits
\* only when the kernel takes no more: until then nothing else runs.
Spins(c) == kind = "smtp" /\ Runs(c) /\ sess[c].pc \notin {"none", "over"}
            /\ AtEnd(c) /\ conn[c].peer = "half"
Spinning(cs) == \E c \in cs : Spins(c)

\* Whenever no other session spins, the event loop runs whoever is scheduled and
\* the poller wakes whoever is ready; of the peers, that they read what they have
\* been sent.
Spec ==
  /\ Init /\ [][Next]_vars
  /\ SF_vars(Acceptor /\ ~Spinning(Conns))
  /\ \A c \in Conns : SF_vars(Session(c) /\ ~Spinning(Conns \ {c})) /\ WF_vars(PeerTakes(c))

-----------------------------------------------------------------------------
(* Properties *)

Tos == Commands \cup {"hello", "shake", "end"}
Codes == {0, 221, 250, 354, 501, 502, 503}

\* The types of the records of conn and sess.
SessionsTypeOK ==
  /\ kind \in Kinds
  /\ backlog \in Seq(Conns)
  /\ acceptor \in {"run", "wait", "over"} \cup Conns
  /\ refused \in BOOLEAN /\ down \in BOOLEAN
  /\ sent \in 0..MaxSent[kind]
  /\ \A c \in Conns :
       /\ conn[c].peer \in {"none", "open", "half", "gone", "reset"}
       /\ conn[c].shakes \in 0..6
       /\ conn[c].inbox \in Seq(Commands \cup {"shake"})
       /\ conn[c].outbox \in Seq([i : 0..Length, to : Tos, code : Codes])
       /\ Len(conn[c].outbox) <= Room
       /\ conn[c].pending \in Seq(Commands \cup {"hello"})
       /\ conn[c].last \in 1..Length
       /\ conn[c].body \in BOOLEAN /\ conn[c].mailed \in BOOLEAN /\ conn[c].stray \in BOOLEAN
       /\ sess[c].pc \in {"none", "shake", "read", "body", "astray", "write", "alert",
                          "shut", "over"}
       /\ sess[c].parked \in {"no", "in", "out"}
       /\ sess[c].p \in 1..Length /\ sess[c].env \in BOOLEAN
       /\ sess[c].reply \in [to : Tos, code : Codes, next : {"read", "body", "over"}]
       /\ sess[c].got \in {"none", "text", "cipher"}

\* Numbers of units; what belongs to no reply has 0.
Numbers(outbox) == [k \in DOMAIN outbox |-> outbox[k].i]

\* The unit that the peer has had last, those under way, and the next one that
\* write writes.
Stream(c) == <<conn[c].last>> \o Numbers(conn[c].outbox) \o <<sess[c].p>>

\* After each unit comes the next one of its reply, after its last one a first.
Consecutive(n) ==
  \A k, l \in DOMAIN n :
    /\ k < l /\ n[k] # 0 /\ n[l] # 0
    /\ \A j \in k + 1..l - 1 : n[j] = 0
    => n[l] = (n[k] % Length) + 1

\* A reply that the kernel takes in parts arrives whole, whatever comes between
\* them.
WholeReplies == \A c \in Conns : ~Broken(c) => Consecutive(Stream(c))

\* What units that are under way are the end of a reply to, or "part".
Ends(outbox) ==
  [k \in DOMAIN outbox |-> IF Final(outbox[k]) THEN outbox[k].to ELSE "part"]

\* What c's peer is to have a reply to: what is under way, what is in the hands of
\* the session, and what it has not read yet.
Owed(c) ==
  Ends(conn[c].outbox)
  \o (IF sess[c].pc \in {"write", "alert"} THEN <<sess[c].reply.to>> ELSE <<>>)
  \o conn[c].inbox

\* Where t has a command.
Asks(t) == {k \in DOMAIN t : t[k] \notin {"part", "shake", "end"}}

\* The commands in t are s, in its order.
AsksFor(t, s) ==
  \E f \in [DOMAIN s -> Asks(t)] :
    /\ \A i, j \in DOMAIN s : i < j => f[i] < f[j]
    /\ \A k \in Asks(t) : \E i \in DOMAIN s : f[i] = k
    /\ \A i \in DOMAIN s : s[i] = t[f[i]]

\* Each command gets one reply, its own, in the order in which the peer has sent
\* them, however far it is ahead and even after it has shut its end down, unless
\* get has missed the end of a body of its; those that an s2n session finds while
\* it shuts down get none.
RepliesMatch ==
  \A c \in Conns :
    /\ ~Broken(c) /\ sess[c].pc # "none" /\ ~conn[c].stray
    /\ kind = "smtp" \/ (kind = "s2n" /\ sess[c].pc \notin {"shut", "over"})
    => AsksFor(Owed(c), conn[c].pending)

\* A peer that knows its MAIL accepted, and has not ended the transaction since,
\* is not told to send MAIL first: other replies in between change nothing.  It
\* knows which replies are whose if get has missed the end of no body.
TransactionHolds ==
  \A c \in Conns :
    /\ conn[c].outbox # <<>> /\ Head(conn[c].outbox).to = "rcpt"
    /\ conn[c].mailed /\ ~conn[c].stray
    => Head(conn[c].outbox).code = 250

\* Whatever its peers do or leave undone, of a handshake too, echo_server over s2n
\* accepts each connection, until accept(2) fails or a signal has ended all.  Not
\* with OpenSSL, whose accept waits for the handshake, nor is it so of smtp_server,
\* where a session that spins for good keeps the acceptor waiting.
AcceptsAll ==
  kind = "s2n" =>
    \A c \in Conns :
      (\E i \in DOMAIN backlog : backlog[i] = c)
        ~> (sess[c].pc # "none" \/ refused \/ down)



\* What echo_session takes for a line is what the peer has sent, not what TLS has
\* made of it.
ReadsText == \A c \in Conns : sess[c].got # "cipher"
=============================================================================
