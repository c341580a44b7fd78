----------------------------- MODULE SslContext -----------------------------
(***************************************************************************)
(* The context of a TLS connection: the state of the handshake and of the  *)
(* shutdown, the buffer of what is to be sent (bout) and what was received *)
(* and not been read (bin, with what OpenSSL keeps of it).  A record is    *)
(* one or several pieces of ciphertext, and a buffer counts pieces.        *)
(* Every operation is a function from a context to a context.              *)
(***************************************************************************)
EXTENDS CircularBuffer, FiniteSets, SequencesExt

CONSTANTS
    Length          \* how many pieces a record of each kind has

Flights == <<"flight1", "flight2", "flight3", "flight4">>

DataKinds == {"short", "long"}

Kinds == ToSet(Flights) \cup DataKinds \cup {"bye"}

ASSUME LengthAssumption == Length \in [Kinds -> Nat \ {0}]

Piece(kind, no, last) == [kind |-> kind, no |-> no, last |-> last]

\* Context::Context().  hs, made, wedged, sentBye and gotBye are OpenSSL's: the
\* flights of the handshake that went by, the pieces that were produced, and
\* whether a record did not fit in bout, so that every later write fails.  The
\* histories: written, the data records that SSL_write() took, ignored, those
\* that it did not take while the caller was told nothing, given, those passed
\* to the delegate, read, did SSL_read() see the last piece that came.
NewContext(state) ==
    [state |-> state, blocked |-> FALSE,
     bin |-> <<>>, bout |-> EmptyBuffer(Piece("bye", 0, FALSE)),
     hs |-> 0, made |-> 0, wedged |-> FALSE, sentBye |-> FALSE, gotBye |-> FALSE,
     written |-> 0, ignored |-> 0, given |-> 0, read |-> TRUE]

Pending(c) == Available(c.bout)

-----------------------------------------------------------------------------
(***************************************************************************)
(* OpenSSL.                                                                *)
(***************************************************************************)

\* A record is encrypted, and written to bout.
Put(c, kind) ==
    LET record == [i \in 1 .. Length[kind] |->
                     Piece(kind, c.made + i, i = Length[kind])]
        n == Least(Len(record), Left(c.bout)) IN
    IF c.wedged THEN c
    ELSE [c EXCEPT !.bout = Write(@, record), !.made = @ + n, !.wedged = n < Len(record)]

\* The records of bin that are complete, by their last piece.
Complete(c) == {i \in 1 .. Len(c.bin) : c.bin[i].last}

\* SSL_connect() and SSL_accept(): a flight that is complete is answered by the
\* next one.  The client sends the first, the server the last.
Handshake(c) ==
    LET here == Complete(c) # {} IN
    IF c.state = "Connect" /\ c.hs = 0
    THEN [Put(c, Flights[1]) EXCEPT !.hs = 1]
    ELSE IF ~ here THEN c
    ELSE LET end == CHOOSE i \in Complete(c) : \A j \in Complete(c) : i <= j
             took == [c EXCEPT !.bin = SubSeq(@, end + 1, Len(@)), !.hs = @ + 1]
         IN IF took.hs = 4 THEN took
            ELSE [Put(took, Flights[took.hs + 1]) EXCEPT !.hs = @ + 1]

HandshakeOver(c) == c.hs = 4

\* SSL_write() works between the handshake and the shutdown.
Writable(c) == HandshakeOver(c) /\ ~ c.sentBye /\ ~ c.wedged

\* What the delegate hands over in a callback: the result is not looked at.
WriteAnswer(c) ==
    LET d == Put(c, "short") IN
    IF ~ Writable(c)  THEN [c EXCEPT !.ignored = @ + 1]
    ELSE IF d.wedged THEN [d EXCEPT !.ignored = @ + 1]
                     ELSE [d EXCEPT !.written = @ + 1]

\* SSL_read(), n times: n records are read.
Read(c, n) ==
    [c EXCEPT !.bin = IF n = 0 THEN @
                      ELSE SubSeq(@, 1 + CHOOSE i \in Complete(c) :
                                  Cardinality({j \in Complete(c) : j <= i}) = n, Len(@)),
              !.given = @ + n]

DataRecords(c) == Cardinality({i \in Complete(c) : c.bin[i].kind \in DataKinds})

ByeCame(c) == \E i \in 1 .. Len(c.bin) : c.bin[i].kind = "bye"

SayBye(c) == IF c.sentBye THEN c ELSE [Put(c, "bye") EXCEPT !.sentBye = TRUE]

-----------------------------------------------------------------------------
(***************************************************************************)
(* Context.  An operation in a callback yields the context and the action  *)
(* it returns to TCP.                                                      *)
(***************************************************************************)

Result(c, action) == [c |-> c, action |-> action]

\* abortOrClose(): the second SSL_shutdown() wants the answer of the peer.  Data
\* that came, or a shutdown that came, make it fail.
AbortOrClose(c, action) ==
    IF /\ action = "Close" /\ HandshakeOver(c) /\ ~ c.gotBye
       /\ Complete(c) = {} /\ ~ SayBye(c).wedged
    THEN Result([SayBye(c) EXCEPT !.state = "Shutdown"], "Continue")
    ELSE Result(c, "Abort")

\* What a delegate may answer.
Answers == {"Continue", "Respond", "Close", "Abort"}

\* onAcked() that may answer.  What is pending goes first; else the delegate is
\* called, whatever the state.
Acked(c, answer) ==
    LET d == [c EXCEPT !.blocked = FALSE] IN
    CASE Pending(c) > 0       -> Result(d, "Continue")
      [] answer = "Continue"  -> Result(d, "Continue")
      [] answer = "Respond"   -> Result(WriteAnswer(d), "Continue")
      [] OTHER                -> AbortOrClose(d, answer)

\* A shutdown that comes is answered, or the connection aborted if the answer
\* does not fit.
AnswerBye(c) ==
    CASE ~ ByeCame(c)     -> Result(c, "Continue")
      [] SayBye(c).wedged -> Result(c, "Abort")
      [] OTHER            -> Result([SayBye(c) EXCEPT !.gotBye = TRUE, !.bin = <<>>], "Continue")

\* Mutation: one record is read at a time.
ReadDataOnce(c, n, answer) ==
    LET m == Least(n, 1)
        d == [Read(c, m) EXCEPT !.read = TRUE] IN
    CASE answer = "Continue" -> AnswerBye(d)
      [] answer = "Respond"  -> AnswerBye(WriteAnswer(d))
      [] OTHER               -> AbortOrClose(d, answer)

\* Ready: every data record is passed to the delegate, up to the one, the n-th,
\* that it answers with Close or Abort.
ReadData(c, n, answer) ==
    LET d == [Read(c, n) EXCEPT !.read = TRUE] IN
    CASE answer = "Continue" -> AnswerBye(d)
      [] answer = "Respond"  -> AnswerBye(WriteAnswer(d))
      [] OTHER               -> AbortOrClose(d, answer)

\* The numbers of records that may be read when the delegate gives the answer.
Reads(c, answer) ==
    CASE answer = "Continue" -> {DataRecords(c)}
      [] answer = "Respond"  -> {DataRecords(c)} \ {0}
      [] OTHER               -> 1 .. DataRecords(c)

\* Mutation: what comes replaces what was left.
ReceiveFresh(c, pieces) == [c EXCEPT !.bin = pieces, !.read = FALSE]

Receive(c, pieces) == [c EXCEPT !.bin = @ \o pieces, !.read = FALSE]

\* SSL_shutdown() in Shutdown: it completes if the next record is that of the peer.
FinishShutdown(c) ==
    LET end == {i \in Complete(c) : \A j \in Complete(c) : i <= j} IN
    IF c.sentBye /\ ~ c.wedged /\ \E i \in end : c.bin[i].kind = "bye"
    THEN Result([c EXCEPT !.gotBye = TRUE, !.bin = <<>>], "Close")
    ELSE Result(c, "Abort")

\* onNewData() that may answer.
NewData(c, n, answer) ==
    CASE c.state \in {"Connect", "Accept"} ->
            LET d == Handshake(c) IN
            Result(IF HandshakeOver(d) THEN [d EXCEPT !.state = "Ready"] ELSE d, "Continue")
      [] c.state = "Ready"    -> ReadData(c, n, answer)
      [] c.state = "Shutdown" -> FinishShutdown(c)

\* onNewData() that may not: it only takes Ready, has no Close, and flushes
\* nothing.
NewDataNoAnswer(c, n, answer) ==
    IF c.state # "Ready" \/ answer \in {"Close", "Abort"} THEN Result(c, "Abort")
    ELSE ReadData(c, n, "Continue")
=============================================================================
