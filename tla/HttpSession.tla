---------------------------- MODULE HttpSession ----------------------------
(***************************************************************************)
(* exchange_phemex::HttpSession, the HTTP client of HttpConnection.hpp, as *)
(* operators on the record of one session, named after the methods; the    *)
(* conventions are those of WSSession.                                     *)
(*                                                                         *)
(* Requests are written one after the other without waiting for responses, *)
(* so responses arrive back to back and one read of the socket may return  *)
(* the end of one response and the beginning of the next.  A response is   *)
(* modelled as Segs segments; http::async_read reads whatever the socket   *)
(* has into buffer_ and completes when buffer_ starts with a complete      *)
(* response, which it takes out of buffer_.                                *)
(***************************************************************************)
EXTENDS Naturals, Sequences

CONSTANT Segs   \* segments per response

ASSUME SegsAssumption == Segs \in Nat \ {0}

Stages == {"new", "resolve", "connect", "handshake", "open", "dead"}

NewSession ==
  [ stage    |-> "new",          \* connection step that is under way
    mState   |-> "handshaking",
    sending  |-> FALSE,          \* mSending_state == sending
    queue    |-> <<>>,           \* request_queue_
    wire     |-> <<>>,           \* requests handed to async_write, in order
    answered |-> 0,              \* how many of them the server has answered
    socket   |-> <<>>,           \* segments sent by the server and not read yet
    buffer   |-> <<>>,           \* buffer_
    reads    |-> 0,              \* async_read operations outstanding
    writes   |-> 0,              \* async_write operations outstanding
    failed   |-> FALSE ]         \* fail() has called onHttpError()

Alive(s) == s.stage \in {"resolve", "connect", "handshake"} \/ s.reads + s.writes > 0

-----------------------------------------------------------------------------
(* Sending. *)

\* Mutant: the whole queue is passed to async_write.
Mut_InitiateTxWholeQueue(s) ==
  [s EXCEPT !.sending = TRUE, !.writes = @ + 1, !.wire = Append(@, s.queue)]

InitiateTx(s) ==
  [s EXCEPT !.sending = TRUE, !.writes = @ + 1, !.wire = Append(@, Head(s.queue))]

CheckSend(s) ==
  IF s.mState # "connected" \/ s.sending \/ s.queue = <<>> THEN s ELSE InitiateTx(s)

Send(s, req) == CheckSend([s EXCEPT !.queue = Append(@, req)])

\* Mutant: handle_tx() does not look for more to send.
Mut_HandleTxNoCheck(s) ==
  [s EXCEPT !.writes = @ - 1, !.queue = Tail(@), !.sending = FALSE]

\* Mutant: handle_tx() does not pop the request it sent.
Mut_HandleTxNoPop(s) == CheckSend([s EXCEPT !.writes = @ - 1, !.sending = FALSE])

HandleTx(s) ==
  CheckSend([s EXCEPT !.writes = @ - 1, !.queue = Tail(@), !.sending = FALSE])

-----------------------------------------------------------------------------
(* Connecting. *)

\* accepted: OpenSSL takes the host name, which it does not if the name is empty or has
\* more than 255 characters.  If not, connect() returns: no operation is under way, and
\* no listener is told.
Connect(s, accepted) == IF accepted THEN [s EXCEPT !.stage = "resolve"] ELSE s

OnResolve(s) == [s EXCEPT !.stage = "connect"]

OnConnect(s) == [s EXCEPT !.stage = "handshake"]

CheckRead(s) == [s EXCEPT !.reads = @ + 1]

\* Up to the call of onHttpConnect().
OnHandshake(s) ==
  CheckSend(CheckRead([s EXCEPT !.stage = "open", !.mState = "connected"]))

-----------------------------------------------------------------------------
(* Reading. *)

\* The segments of the response to the i-th request on the wire.
Response(i) == [k \in 1..Segs |-> [req |-> i, seg |-> k]]

\* The server answers the next request.
ServerAnswers(s) ==
  [s EXCEPT !.answered = @ + 1, !.socket = @ \o Response(s.answered + 1)]

\* buffer_ once the outstanding async_read has read n more segments.
Received(s, n) == s.buffer \o SubSeq(s.socket, 1, n)

StartsWithResponse(b) == Len(b) >= Segs /\ SubSeq(b, 1, Segs) = Response(b[1].req)

\* async_read completes with n more segments read.  Before the last of its reads
\* of the socket, buffer_ did not hold a complete response.
ReadCompletes(s, n) ==
  /\ s.reads > 0
  /\ n <= Len(s.socket)
  /\ StartsWithResponse(Received(s, n))
  /\ n = 0 <=> StartsWithResponse(s.buffer)

\* What buffer_ starts with is not the beginning of a response.
ReadGarbled(s, n) ==
  /\ s.reads > 0
  /\ n <= Len(s.socket)
  /\ Received(s, n) # <<>>
  /\ Received(s, n)[1].seg # 1

\* The request whose response is passed to onHttpMessage().
Delivered(s, n) == Received(s, n)[1].req

\* handle_read(): after onHttpMessage() all of buffer_ is consumed.
ReadDone(s, n) ==
  [s EXCEPT !.reads = @ - 1, !.buffer = <<>>, !.socket = SubSeq(@, n + 1, Len(@))]

-----------------------------------------------------------------------------
(* Errors: the operation is over, fail() calls onHttpError(), nothing else. *)

FailStage(s) == [s EXCEPT !.stage = "dead", !.failed = TRUE]

\* Mutant: a read error is not reported.
Mut_FailReadSilently(s) == [s EXCEPT !.reads = @ - 1]

FailRead(s) == [s EXCEPT !.reads = @ - 1, !.failed = TRUE]

FailTx(s) == [s EXCEPT !.writes = @ - 1, !.failed = TRUE]
=============================================================================
