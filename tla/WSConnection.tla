---------------------------- MODULE WSConnection ----------------------------
(***************************************************************************)
(* One WebSocket session driven by any client and any network: the client  *)
(* calls send() at any time, before the connection is up and from inside   *)
(* its onMessage() and onConnect() callbacks; every asynchronous operation *)
(* may complete or fail.  Handlers run one at a time, on the thread that   *)
(* calls RunOnce().                                                        *)
(***************************************************************************)
EXTENDS WSSession

CONSTANTS Msgs,      \* messages the client sends
          MaxSends   \* bound: number of calls of send()

ASSUME MaxSendsAssumption == MaxSends \in Nat

VARIABLES ses,   \* the session
          sent   \* history: the messages passed to send(), in order

vars == <<ses, sent>>

Init ==
  /\ ses = Connect(NewSession)
  /\ sent = <<>>

\* The client, in a callback or not, sends msg when the session is s.
ClientSends(s, msg) ==
  /\ Len(sent) < MaxSends
  /\ ses' = Send(s, msg)
  /\ sent' = Append(sent, msg)

ClientIdle(s) ==
  /\ ses' = s
  /\ UNCHANGED sent

CallSend == \E msg \in Msgs : ClientSends(ses, msg)

StageDone ==
  /\ \/ ses.stage = "resolve" /\ ses' = OnResolve(ses)
     \/ ses.stage = "connect" /\ ses' = OnConnect(ses)
     \/ ses.stage = "ssl_handshake" /\ ses' = OnSslHandshake(ses)
  /\ UNCHANGED sent

HandshakeDone ==
  /\ ses.stage = "handshake"
  /\ \/ ClientIdle(OnHandshake(ses))
     \/ \E msg \in Msgs : ClientSends(OnHandshake(ses), msg)

\* handle_read(): onMessage(), in which the client may send, then check_read().
MessageRead ==
  /\ ses.reads > 0
  /\ \/ ClientIdle(CheckRead(ReadDone(ses)))
     \/ \E msg \in Msgs : /\ Len(sent) < MaxSends
                          /\ ses' = CheckRead(Send(ReadDone(ses), msg))
                          /\ sent' = Append(sent, msg)

WriteDone ==
  /\ ses.writes > 0
  /\ ClientIdle(HandleTx(ses))

OperationFails ==
  /\ \/ ses.stage \in {"resolve", "connect", "ssl_handshake", "handshake"}
          /\ ses' = FailStage(ses)
     \/ ses.reads > 0 /\ ses' = FailRead(ses)
     \/ ses.writes > 0 /\ ses' = FailTx(ses)
  /\ UNCHANGED sent

Next ==
  \/ CallSend
  \/ StageDone \/ HandshakeDone \/ MessageRead \/ WriteDone
  \/ OperationFails

Spec == Init /\ [][Next]_vars

\* The connection steps and the writes that are under way complete: the steps are
\* under a timeout of 30 seconds and RunOnce() keeps polling.
FairSpec == Spec /\ WF_vars(StageDone) /\ WF_vars(HandshakeDone) /\ WF_vars(WriteDone)

-----------------------------------------------------------------------------
(* Properties. *)

Sessions ==
  [ stage : Stages, mState : {"handshaking", "connected"}, sending : BOOLEAN,
    queue : Seq(Msgs), wire : Seq(Msgs), reads : Nat, writes : Nat, failed : BOOLEAN ]

TypeOK == ses \in Sessions /\ sent \in Seq(Msgs)

\* Beast forbids two reads or two writes at the same time on one stream: whatever
\* mixture of callbacks and direct calls of send(), one of each is under way.
OneOperationEach == ses.reads <= 1 /\ ses.writes <= 1

\* async_write is given a pointer to write_queue.front(): as long as the write is
\* under way that element is still at the front, unchanged.
BufferOutlivesWrite ==
  ses.writes > 0 => /\ ses.queue # <<>>
                    /\ Head(ses.queue) = ses.wire[Len(ses.wire)]

\* The messages that send() has not handed to async_write yet.
Unsent(s) == IF s.sending THEN Tail(s.queue) ELSE s.queue

\* send() loses, repeats and reorders nothing: what was handed to the stream
\* followed by what still waits is what the client sent.
SentInOrder == sent = ses.wire \o Unsent(ses)

\* No lost wake-up: on an open connection a message waits only behind a write that
\* is under way, unless an error was reported.
NoStall ==
  ses.mState = "connected" /\ ses.queue # <<>> /\ ~ses.failed => ses.writes = 1

\* The session never dies in silence: without an error it is connecting or reading.
NoSilentDeath ==
  ~ses.failed => \/ ses.stage \in {"resolve", "connect", "ssl_handshake", "handshake"}
                 \/ ses.reads = 1

\* Every message passed to send() is handed to the stream, or an error is reported:
\* nothing is left behind in write_queue once the client stops sending.
EverythingSent ==
  \A n \in 1..MaxSends : Len(sent) >= n ~> (ses.failed \/ Len(ses.wire) >= n)

-----------------------------------------------------------------------------
(* The inductive invariant behind the state properties, as predicates of a    *)
(* session s whose client has sent h: it holds between the calls that make up *)
(* a handler too, where they say so.                                          *)

\* The write under way is the one of the front of the queue; it fails at most once.
WritesFront(s, h) ==
  /\ s.writes <= 1
  /\ s.writes = 1 => s.sending
  /\ s.sending => s.queue # <<>> /\ s.wire # <<>> /\ Head(s.queue) = s.wire[Len(s.wire)]
  /\ s.sending /\ ~s.failed => s.writes = 1
  /\ h = s.wire \o Unsent(s)

\* check_send() has been called since the queue or the state changed.
Checked(s) == s.mState = "connected" /\ ~s.sending => s.queue = <<>>

\* There is a read exactly while the session is open, unless an error was reported.
ReadsOpen(s) ==
  /\ s.stage = "open" <=> s.mState = "connected"
  /\ s.reads <= 1
  /\ s.mState = "handshaking" => s.reads = 0
  /\ s.mState = "connected" /\ ~s.failed => s.reads = 1
  /\ s.stage # "new" /\ (s.stage = "dead" => s.failed)

WSInv == TypeOK /\ WritesFront(ses, sent) /\ Checked(ses) /\ ReadsOpen(ses)
=============================================================================
