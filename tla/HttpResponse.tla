---------------------------- MODULE HttpResponse ----------------------------
(***************************************************************************)
(* How http::perform (src/http.cpp) turns what arrives on a connection     *)
(* into a Response: read_headers, the loops of read_body, and BodySink.    *)
(*                                                                         *)
(* After the headers come tokens: pieces of data, and in a chunked body    *)
(* the sizes of the chunks and the ends of lines.  `arrived` of them come  *)
(* before the connection ends, is reset, or stays silent for the timeout,  *)
(* `early` of them together with the headers and the others a few to a     *)
(* recv.  TLS is a transport like the other: its errors are those of a     *)
(* connection.                                                             *)
(***************************************************************************)
EXTENDS Naturals, Sequences

CONSTANTS
    Pieces,     \* the number of pieces of a complete body
    MaxRead     \* bound on the tokens that a recv returns

ASSUME PiecesAssumption == Pieces \in Nat \ {0} /\ MaxRead \in Nat \ {0}

\* How the peer delimits the body: Transfer-Encoding, Content-Length, or its end of the connection.
Framings == {"chunked", "length", "none"}
\* The peer keeps the connection, ends it, or it is reset or silent for the timeout.
Endings  == {"open", "eof", "broken"}
\* What becomes of the file a body is streamed to.
Sinks    == {"sound", "unopened", "full", "unflushed"}

Data(i) == [kind |-> "data", n |-> i]
Size(n) == [kind |-> "size", n |-> n]
Crlf    == [kind |-> "crlf", n |-> 0]

Take(s, n) == SubSeq(s, 1, n)
Drop(s, n) == SubSeq(s, n + 1, Len(s))
Least(m, n) == IF m < n THEN m ELSE n

Whole == [i \in 1..Pieces |-> Data(i)]

\* A body in chunks of c pieces, and the empty chunk that ends it.
Chunked(c) ==
    LET upTo[i \in 0..Pieces] ==
            IF i = 0 THEN <<>>
            ELSE upTo[i - 1]
                 \o (IF (i - 1) % c = 0 THEN <<Size(Least(c, Pieces - i + 1)), Crlf>> ELSE <<>>)
                 \o <<Data(i)>>
                 \o (IF i % c = 0 \/ i = Pieces THEN <<Crlf>> ELSE <<>>)
    IN  upTo[Pieces] \o <<Size(0), Crlf>>

Message(a) == IF a.framing = "chunked" THEN Chunked(a.chunk) ELSE Whole

\* What arrives: nothing up to the headers, or the headers and some of the message.
PossibleArrivals ==
    {a \in [headers : BOOLEAN, framing : Framings, chunk : 1..Pieces, arrived : 0..4 * Pieces + 2,
            ending : Endings, early : 0..MaxRead, read : 1..MaxRead] :
        a.arrived <= Len(Message(a)) /\ a.early <= a.arrived}

\* All of it, up to the end of the connection when that is what ends the body.
WholeArrivals ==
    {a \in PossibleArrivals :
        /\ a.headers /\ a.arrived = Len(Message(a)) /\ a.ending # "broken"
        /\ a.framing = "none" => a.ending = "eof"}

-----------------------------------------------------------------------------
(* read_body.  A state `s` of its loops has what is pending in the buffer  *)
(* and what is still on the wire; `left` is what remains of the chunk or   *)
(* of the length.                                                          *)

Fail(s) == [s EXCEPT !.at = "failed"]

\* BodySink::finish.
Finish(s) == IF s.sink = "unflushed" THEN Fail(s) ELSE [s EXCEPT !.at = "done"]

\* BodySink::append, with the first n tokens of the buffer.
Store(s, n) ==
    IF s.sink = "full" THEN Fail(s)
    ELSE [s EXCEPT !.body = @ \o Take(s.pending, n), !.pending = Drop(@, n)]

\* Mutant: the end of the connection ends a body of any framing.
EofEnds(a, s) == Finish(s)

\* The connection ends: the "truncated" errors, but for a body that nothing else delimits.
Ended(a, s) == IF a.framing = "none" THEN Finish(s) ELSE Fail(s)

\* One read of fill, or of the last loop.
Fill(a, s) ==
    CASE s.wire # <<>> ->
           LET n == Least(a.read, Len(s.wire))
           IN  [s EXCEPT !.pending = @ \o Take(s.wire, n), !.wire = Drop(@, n)]
      [] s.wire = <<>> /\ a.ending = "eof" -> Ended(a, s)
      [] OTHER -> Fail(s)

\* The line with the size of a chunk; one without a number is a size of zero.
ReadSize(a, s) ==
    LET ends == {i \in DOMAIN s.pending : s.pending[i] = Crlf}
        nl   == CHOOSE i \in ends : \A j \in ends : i <= j
        size == IF nl > 1 /\ s.pending[1].kind = "size" THEN s.pending[1].n ELSE 0
    IN  CASE ends = {} -> Fill(a, s)
          [] ends # {} /\ size = 0 -> Finish(s)
          [] OTHER -> [s EXCEPT !.at = "data", !.left = size, !.pending = Drop(@, nl)]

\* The data of a chunk or of a length, as far as it is in the buffer, or all there is.
ReadData(a, s) ==
    CASE a.framing # "none" /\ s.left = 0 ->
           IF a.framing = "chunked" THEN [s EXCEPT !.at = "crlf"] ELSE Finish(s)
      [] a.framing # "none" /\ s.left > 0 /\ s.pending # <<>> ->
           LET n == Least(s.left, Len(s.pending)) IN Store([s EXCEPT !.left = @ - n], n)
      [] a.framing = "none" /\ s.pending # <<>> -> Store(s, Len(s.pending))
      [] OTHER -> Fill(a, s)

\* The end of the line after a chunk.
ReadCrlf(a, s) ==
    IF s.pending = <<>> THEN Fill(a, s) ELSE [s EXCEPT !.at = "size", !.pending = Drop(@, 1)]

\* A state of the loops is followed by another until the body is done or has failed.
Iterate(a, s) ==
    CASE s.at = "size" -> ReadSize(a, s)
      [] s.at = "data" -> ReadData(a, s)
      [] s.at = "crlf" -> ReadCrlf(a, s)
      [] OTHER -> s

\* More iterations than any message needs.
Iterations == 16 * (Pieces + 1)

ReadBody(a, sink) ==
    LET came == Take(Message(a), a.arrived)
        after[n \in 0..Iterations] ==
            IF n > 0 THEN Iterate(a, after[n - 1])
            ELSE [at      |-> CASE sink = "unopened" -> "failed"
                                [] sink # "unopened" /\ a.framing = "chunked" -> "size"
                                [] OTHER -> "data",
                  pending |-> Take(came, a.early), wire |-> Drop(came, a.early),
                  left    |-> IF a.framing = "length" THEN Pieces ELSE 0,
                  body    |-> <<>>, sink |-> sink]
    IN  after[Iterations]

-----------------------------------------------------------------------------
\* The Response: status 0 without headers, an error when the headers or the body broke off or the
\* sink failed, and what there is of the body, in memory or in the sink.  Only a 2xx body goes to
\* the sink.
Perform(status, a, sink) ==
    LET s == ReadBody(a, IF status = 200 THEN sink ELSE "sound")
    IN  IF a.headers THEN [status |-> status, error |-> s.at = "failed", body |-> s.body]
        ELSE [status |-> 0, error |-> TRUE, body |-> <<>>]

\* Response::ok.
Ok(r) == ~r.error /\ r.status = 200

\* Whether a response is what was sent: a delimited body that passes for one is whole, and a
\* body that arrived whole, and could be stored, passes for one.
Genuine(status, a, sink) ==
    LET r == Perform(status, a, sink)
    IN  /\ Ok(r) /\ a.framing # "none" => r.body = Whole
        /\ status = 200 /\ a \in WholeArrivals /\ sink = "sound" => Ok(r) /\ r.body = Whole
=============================================================================
