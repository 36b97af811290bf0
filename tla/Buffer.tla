------------------------------- MODULE Buffer -------------------------------
(***************************************************************************)
(* coro_buffer of coro_buffer.h, over the read and read_exact of           *)
(* coro_file.h: one coroutine takes a byte stream apart that its peer      *)
(* sends, and that the kernel hands over in pieces of any size.            *)
(*                                                                         *)
(*   call    the call the coroutine is inside of                           *)
(*   "idle"  none                                                          *)
(*   "get"   get (s, delim)                                                *)
(*   "exact" read_exact (nbytes, s)                                        *)
(*   "feed"  read_exact (nbytes, c), c a consumer                          *)
(*   "eof"   read_to_eof (c)                                               *)
(***************************************************************************)
EXTENDS Integers, Sequences

CONSTANTS
  Bytes,    \* what the stream is made of
  Delim,    \* get's delimiter
  Lengths,  \* arguments of read_exact
  MaxSent   \* bound: the bytes the peer sends in all

ASSUME BufferAssumption ==
  /\ Delim \in Seq(Bytes) /\ Delim # <<>>
  /\ Lengths \subseteq Nat
  /\ MaxSent \in Nat

VARIABLES
  peer,     \* "open", "closed", "reset": then read fails, or "failed": it has
  sent,     \* all that the peer has sent
  inbox,    \* what the kernel has received and not handed over
  call,     \* see above
  waiting,  \* the coroutine is inside wait_for_read
  buffer,   \* _buffer
  matched,  \* get's matched
  need,     \* read_exact's nbytes
  pieces,   \* what the call has taken so far: sl, s
  given     \* all that the calls so far have returned, or fed to a consumer

vars == <<peer, sent, inbox, call, waiting, buffer, matched, need, pieces, given>>

-----------------------------------------------------------------------------
(* The delimiter's matcher *)

\* A byte that does not go on the match is passed over.
BadNextMatch(m, b) == IF b = Delim[m + 1] THEN m + 1 ELSE m

\* matched after one more byte: a byte that does not go on the match ends it.
NextMatch(m, b) == IF b = Delim[m + 1] THEN m + 1 ELSE 0

\* matched after the first i bytes of s, from m on, until the delimiter is seen.
Matcher(m, s) ==
  LET after[i \in 0..Len(s)] ==
        IF i = 0 THEN m
        ELSE IF after[i - 1] = Len(Delim) THEN Len(Delim)
        ELSE NextMatch(after[i - 1], s[i])
  IN  after

\* Where the loop over _buffer may return: at the first of these.
Hits == {i \in DOMAIN buffer : Matcher(matched, buffer)[i] = Len(Delim)}

\* The call returns, and its caller has its bytes.
Finish(bytes) ==
  /\ call' = "idle"
  /\ given' = given \o bytes
  /\ pieces' = <<>>
  /\ matched' = 0
  /\ need' = 0

-----------------------------------------------------------------------------
(* The calls *)

\* get, up to its first read or scan.
Get ==
  /\ call = "idle"
  /\ call' = "get"
  /\ UNCHANGED <<peer, sent, inbox, waiting, buffer, matched, need, pieces, given>>

\* get's loop over _buffer finds the delimiter and returns false.
ScanHit ==
  /\ call = "get"
  /\ buffer # <<>>
  /\ \E i \in Hits :
       /\ \A j \in Hits : i <= j
       /\ buffer' = SubSeq(buffer, i + 1, Len(buffer))
       /\ Finish(pieces \o SubSeq(buffer, 1, i))
  /\ UNCHANGED <<peer, sent, inbox, waiting>>

\* matched is a variable of the loop.
BadScanMiss ==
  /\ call = "get"
  /\ buffer # <<>>
  /\ Hits = {}
  /\ matched' = 0
  /\ pieces' = pieces \o buffer
  /\ buffer' = <<>>
  /\ UNCHANGED <<peer, sent, inbox, call, waiting, need, given>>

\* It does not, and all of _buffer is a piece.
ScanMiss ==
  /\ call = "get"
  /\ buffer # <<>>
  /\ Hits = {}
  /\ matched' = Matcher(matched, buffer)[Len(buffer)]
  /\ pieces' = pieces \o buffer
  /\ buffer' = <<>>
  /\ UNCHANGED <<peer, sent, inbox, call, waiting, need, given>>

\* read_exact, with enough in _buffer, and flush, which takes all of it.
TakeBuffered ==
  /\ call = "idle"
  /\ \E n \in Lengths \cup {Len(buffer)} :
       /\ n <= Len(buffer)
       /\ given' = given \o SubSeq(buffer, 1, n)
       /\ buffer' = SubSeq(buffer, n + 1, Len(buffer))
  /\ UNCHANGED <<peer, sent, inbox, call, waiting, matched, need, pieces>>

\* What was buffered is counted twice.
BadReadExact ==
  /\ call = "idle"
  /\ \E n \in Lengths :
       /\ n > Len(buffer)
       /\ need' = n - 2 * Len(buffer)
       /\ call' \in {"exact", "feed"}
  /\ pieces' = buffer
  /\ buffer' = <<>>
  /\ UNCHANGED <<peer, sent, inbox, waiting, matched, given>>

\* read_exact, with too little in _buffer: the rest comes from the file.
ReadExact ==
  /\ call = "idle"
  /\ \E n \in Lengths :
       /\ n > Len(buffer)
       /\ need' = n - Len(buffer)
       /\ call' \in {"exact", "feed"}
  /\ pieces' = buffer
  /\ buffer' = <<>>
  /\ UNCHANGED <<peer, sent, inbox, waiting, matched, given>>

ReadToEof ==
  /\ call = "idle"
  /\ call' = "eof"
  /\ pieces' = buffer
  /\ buffer' = <<>>
  /\ UNCHANGED <<peer, sent, inbox, waiting, matched, need, given>>

-----------------------------------------------------------------------------
(* coro_file::read, called with nothing left in _buffer *)

\* The coroutine is in the loop of read.
Reading == call # "idle" /\ buffer = <<>> /\ ~waiting

\* ::read returns n > 0 bytes: no more than there are or are asked for.
ReadSome ==
  /\ Reading
  /\ \E n \in 1..Len(inbox) :
       /\ inbox' = SubSeq(inbox, n + 1, Len(inbox))
       /\ LET bytes == SubSeq(inbox, 1, n)
          IN  \/ /\ call = "get"
                 /\ buffer' = bytes
                 /\ UNCHANGED <<call, matched, need, pieces, given>>
              \/ /\ call = "eof"
                 /\ pieces' = pieces \o bytes
                 /\ UNCHANGED <<call, buffer, matched, need, given>>
              \/ /\ call \in {"exact", "feed"}
                 /\ n < need
                 /\ need' = need - n
                 /\ pieces' = pieces \o bytes
                 /\ UNCHANGED <<call, buffer, matched, given>>
              \/ /\ call \in {"exact", "feed"}
                 /\ n = need
                 /\ Finish(pieces \o bytes)
                 /\ UNCHANGED buffer
  /\ UNCHANGED <<peer, sent, waiting>>

\* The stream has ended: read finds nothing more, and nothing to wait for.
AtEnd == inbox = <<>> /\ peer \in {"closed", "failed"}

\* The end of the stream is taken for a read that would block.
BadReadEnd ==
  /\ Reading
  /\ AtEnd
  /\ waiting' = TRUE
  /\ UNCHANGED <<peer, sent, inbox, call, buffer, matched, need, pieces, given>>

\* What get has taken goes when it returns true.
BadReadEndDrops ==
  /\ Reading
  /\ AtEnd
  /\ IF call = "feed"
       THEN UNCHANGED <<call, matched, need, pieces, given>>
       ELSE Finish(IF call = "get" THEN <<>> ELSE pieces)
  /\ UNCHANGED <<peer, sent, inbox, waiting, buffer>>

\* ::read returns 0: get returns true, and its caller has the pieces.  The
\* read_exact of a consumer does not look: it asks again, for ever.
ReadEnd ==
  /\ Reading
  /\ AtEnd
  /\ IF call = "feed"
       THEN UNCHANGED <<call, matched, need, pieces, given>>
       ELSE Finish(pieces)
  /\ UNCHANGED <<peer, sent, inbox, waiting, buffer>>

\* ::read fails with EWOULDBLOCK.
ReadBlocks ==
  /\ Reading
  /\ inbox = <<>>
  /\ peer = "open"
  /\ waiting' = TRUE
  /\ UNCHANGED <<peer, sent, inbox, call, buffer, matched, need, pieces, given>>

\* ::read fails with another errno, and OS_Error leaves the call.  The pieces of
\* get (s, delim) go with its locals; those of read_exact are its caller's.  The
\* next read finds the end of the stream.
ReadThrows ==
  /\ Reading
  /\ inbox = <<>>
  /\ peer = "reset"
  /\ peer' = "failed"
  /\ Finish(IF call = "get" THEN <<>> ELSE pieces)
  /\ UNCHANGED <<sent, inbox, waiting, buffer>>

-----------------------------------------------------------------------------
(* The peer, and the poller *)

Send ==
  /\ peer = "open"
  /\ Len(sent) < MaxSent
  /\ \E b \in Bytes :
       /\ sent' = Append(sent, b)
       /\ inbox' = Append(inbox, b)
  /\ UNCHANGED <<peer, call, waiting, buffer, matched, need, pieces, given>>

Close ==
  /\ peer = "open"
  /\ peer' = "closed"
  /\ UNCHANGED <<sent, inbox, call, waiting, buffer, matched, need, pieces, given>>

\* The kernel may forget what it has received.
Reset ==
  /\ peer = "open"
  /\ peer' = "reset"
  /\ inbox' \in {inbox, <<>>}
  /\ UNCHANGED <<sent, call, waiting, buffer, matched, need, pieces, given>>

\* The descriptor is readable (see Poller).
Wake ==
  /\ waiting
  /\ inbox # <<>> \/ peer # "open"
  /\ waiting' = FALSE
  /\ UNCHANGED <<peer, sent, inbox, call, buffer, matched, need, pieces, given>>

Init ==
  /\ peer = "open"
  /\ sent = <<>>
  /\ inbox = <<>>
  /\ call = "idle"
  /\ waiting = FALSE
  /\ buffer = <<>>
  /\ matched = 0
  /\ need = 0
  /\ pieces = <<>>
  /\ given = <<>>

\* What the coroutine does inside a call.
Step == ScanHit \/ ScanMiss \/ ReadSome \/ ReadEnd \/ ReadBlocks \/ ReadThrows

Next ==
  \/ Get \/ TakeBuffered \/ ReadExact \/ ReadToEof
  \/ Step \/ Send \/ Close \/ Reset \/ Wake

\* Inside a call the coroutine runs; the poller wakes it.
Spec == Init /\ [][Next]_vars /\ WF_vars(Step) /\ WF_vars(Wake)

-----------------------------------------------------------------------------
(* Properties *)

\* The types of the state of coro_buffer.
BufferTypeOK ==
  /\ peer \in {"open", "closed", "reset", "failed"}
  /\ sent \in Seq(Bytes) /\ inbox \in Seq(Bytes)
  /\ call \in {"idle", "get", "exact", "feed", "eof"}
  /\ waiting \in BOOLEAN
  /\ buffer \in Seq(Bytes)
  /\ matched \in 0..Len(Delim)
  /\ need \in Nat
  /\ pieces \in Seq(Bytes) /\ given \in Seq(Bytes)

\* However the calls are mixed and the stream is cut, no byte is lost, given
\* twice or out of order: what was given, taken, buffered and received is all
\* that was sent, after the peer has closed as well, whichever call meets the end
\* of the stream.  Of a connection that was reset it is a beginning.
Accounted == given \o pieces \o buffer \o inbox

NothingLost ==
  /\ Len(Accounted) <= Len(sent)
  /\ Accounted = SubSeq(sent, 1, Len(Accounted))
  /\ peer \in {"open", "closed"} => Len(Accounted) = Len(sent)

\* What get has matched depends on the bytes since it was called, not on where
\* the reads have cut them.
MatchIgnoresCuts ==
  call = "get" => matched = Matcher(0, pieces)[Len(pieces)]

\* A get that has not met the end of the stream gives bytes that end with the
\* delimiter.
EndsWith(s, t) ==
  Len(t) <= Len(s) /\ SubSeq(s, Len(s) - Len(t) + 1, Len(s)) = t

GetEndsWithDelim ==
  [][call = "get" /\ call' = "idle" /\ buffer # <<>> => EndsWith(given', Delim)]_vars

\* A get that is still looking has not met the delimiter.
Contains(s, t) ==
  \E i \in 0..(Len(s) - Len(t)) : SubSeq(s, i + 1, i + Len(t)) = t

GetStopsAtDelim == call = "get" => ~Contains(pieces, Delim)

\* Once the peer is gone, get, read_exact (nbytes, s) and read_to_eof return.
CallsReturn ==
  \A c \in {"get", "exact", "eof"} : call = c /\ peer # "open" ~> call # c
=============================================================================
