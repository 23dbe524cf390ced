----------------------------- MODULE WSSession -----------------------------
(***************************************************************************)
(* exchange_phemex::session, the WebSocket client of WSConnection.hpp, as  *)
(* operators on the record of one session.  Each operator is one method;   *)
(* an operator named after a completion handler is the handler called      *)
(* without an error, and the Fail operators are what the handlers do when  *)
(* called with one.  What the listeners do is left to the module that      *)
(* owns the session.                                                       *)
(***************************************************************************)
EXTENDS Naturals, Sequences

Stages == {"new", "resolve", "connect", "ssl_handshake", "handshake", "open", "dead"}

NewSession ==
  [ stage   |-> "new",          \* connection step that is under way
    mState  |-> "handshaking",
    sending |-> FALSE,          \* mSending_state == sending
    queue   |-> <<>>,           \* write_queue
    wire    |-> <<>>,           \* messages handed to async_write, in order
    reads   |-> 0,              \* async_read operations outstanding
    writes  |-> 0,              \* async_write operations outstanding
    failed  |-> FALSE ]         \* fail() has called onError()

\* Some asynchronous operation holds a shared_ptr to the session.
Alive(s) ==
  s.stage \in {"resolve", "connect", "ssl_handshake", "handshake"} \/ s.reads + s.writes > 0

-----------------------------------------------------------------------------
(* Sending. *)

\* Mutant: the whole queue is passed to async_write.
Mut_InitiateTxWholeQueue(s) ==
  [s EXCEPT !.sending = TRUE, !.writes = @ + 1, !.wire = Append(@, s.queue)]

\* The pointer to write_queue.front() is passed to async_write.
InitiateTx(s) ==
  [s EXCEPT !.sending = TRUE, !.writes = @ + 1, !.wire = Append(@, Head(s.queue))]

\* Mutant: check_send() does not look at mSending_state.
Mut_CheckSendWhileSending(s) ==
  IF s.mState # "connected" \/ s.queue = <<>> THEN s ELSE InitiateTx(s)

CheckSend(s) ==
  IF s.mState # "connected" \/ s.sending \/ s.queue = <<>> THEN s ELSE InitiateTx(s)

Send(s, msg) == CheckSend([s EXCEPT !.queue = Append(@, msg)])

\* Mutant: handle_tx() does not look for more to send.
Mut_HandleTxNoCheck(s) ==
  [s EXCEPT !.writes = @ - 1, !.queue = Tail(@), !.sending = FALSE]

\* Mutant: handle_tx() does not pop the message it sent.
Mut_HandleTxNoPop(s) == CheckSend([s EXCEPT !.writes = @ - 1, !.sending = FALSE])

HandleTx(s) ==
  CheckSend([s EXCEPT !.writes = @ - 1, !.queue = Tail(@), !.sending = FALSE])

-----------------------------------------------------------------------------
(* Connecting and reading. *)

Connect(s) == [s EXCEPT !.stage = "resolve"]

OnResolve(s) == [s EXCEPT !.stage = "connect"]

OnConnect(s) == [s EXCEPT !.stage = "ssl_handshake"]

OnSslHandshake(s) == [s EXCEPT !.stage = "handshake"]

CheckRead(s) == [s EXCEPT !.reads = @ + 1]

\* Mutant: on_handshake() does not send what was queued while connecting.
Mut_OnHandshakeNoSend(s) ==
  CheckRead([s EXCEPT !.stage = "open", !.mState = "connected"])

\* Up to the call of onConnect().
OnHandshake(s) ==
  CheckSend(CheckRead([s EXCEPT !.stage = "open", !.mState = "connected"]))

\* handle_read() up to, and after, the call of onMessage().
ReadDone(s) == [s EXCEPT !.reads = @ - 1]

-----------------------------------------------------------------------------
(* Errors: the operation is over, fail() calls onError(), nothing else. *)

\* Mutant: a connection step that fails is not reported.
Mut_FailStageSilently(s) == [s EXCEPT !.stage = "dead"]

FailStage(s) == [s EXCEPT !.stage = "dead", !.failed = TRUE]

FailRead(s) == [s EXCEPT !.reads = @ - 1, !.failed = TRUE]

FailTx(s) == [s EXCEPT !.writes = @ - 1, !.failed = TRUE]
=============================================================================
