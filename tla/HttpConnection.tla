--------------------------- MODULE HttpConnection ---------------------------
(***************************************************************************)
(* One HTTP session driven by any client, network and server: the client   *)
(* calls send() at any time, also from its callbacks, and need not wait    *)
(* for the responses to earlier requests; the server answers in the order  *)
(* of the requests.                                                        *)
(***************************************************************************)
EXTENDS HttpSession

CONSTANTS Reqs,      \* requests the client sends
          MaxSends   \* bound: number of calls of send()

ASSUME MaxSendsAssumption == MaxSends \in Nat

VARIABLES ses,       \* the session
          sent,      \* history: the requests passed to send(), in order
          delivered, \* history: requests whose response reached onHttpMessage(), in order
          pipelined  \* history: a request was sent before the last one had its response

clientvars == <<sent, pipelined>>
vars == <<ses, delivered, clientvars>>

Init ==
  /\ \E accepted \in BOOLEAN : ses = Connect(NewSession, accepted)
  /\ sent = <<>>
  /\ delivered = <<>>
  /\ pipelined = FALSE

\* The client sends req when the session is s and delivered' has been delivered.
ClientSends(s, req) ==
  /\ Len(sent) < MaxSends
  /\ ses' = Send(s, req)
  /\ sent' = Append(sent, req)
  /\ pipelined' = (pipelined \/ Len(sent) > Len(delivered'))

ClientIdle(s) ==
  /\ ses' = s
  /\ UNCHANGED clientvars

Client(s) == ClientIdle(s) \/ \E req \in Reqs : ClientSends(s, req)

CallSend ==
  /\ UNCHANGED delivered
  /\ \E req \in Reqs : ClientSends(ses, req)

StageDone ==
  /\ \/ ses.stage = "resolve" /\ ses' = OnResolve(ses)
     \/ ses.stage = "connect" /\ ses' = OnConnect(ses)
  /\ UNCHANGED <<delivered, clientvars>>

HandshakeDone ==
  /\ ses.stage = "handshake"
  /\ UNCHANGED delivered
  /\ Client(OnHandshake(ses))

Answer ==
  /\ ses.answered < Len(ses.wire)
  /\ ses' = ServerAnswers(ses)
  /\ UNCHANGED <<delivered, clientvars>>

\* handle_read(): onHttpMessage(), in which the client may send, then the rest.
\* A send() in the callback changes neither buffer_ nor the read: its place among
\* the other statements of handle_read() makes no difference.
ResponseRead ==
  \E n \in 0..Len(ses.socket) :
    /\ ReadCompletes(ses, n)
    /\ delivered' = Append(delivered, Delivered(ses, n))
    /\ Client(CheckRead(ReadDone(ses, n)))

WriteDone ==
  /\ ses.writes > 0
  /\ ses' = HandleTx(ses)
  /\ UNCHANGED <<delivered, clientvars>>

OperationFails ==
  /\ \/ ses.stage \in {"resolve", "connect", "handshake"} /\ ses' = FailStage(ses)
     \/ ses.reads > 0 /\ ses' = FailRead(ses)
     \/ ses.writes > 0 /\ ses' = FailTx(ses)
  /\ UNCHANGED <<delivered, clientvars>>

\* The parser finds the middle of a response where one should begin.
BadResponse ==
  \E n \in 0..Len(ses.socket) :
    /\ ReadGarbled(ses, n)
    /\ ses' = FailRead([ses EXCEPT !.buffer = Received(ses, n),
                                   !.socket = SubSeq(@, n + 1, Len(@))])
    /\ UNCHANGED <<delivered, clientvars>>

Next ==
  \/ CallSend
  \/ StageDone \/ HandshakeDone \/ ResponseRead \/ WriteDone
  \/ Answer
  \/ OperationFails \/ BadResponse

Spec == Init /\ [][Next]_vars

-----------------------------------------------------------------------------
(* Properties. *)

Segments == [req : Nat, seg : 1..Segs]

Sessions ==
  [ stage : Stages, mState : {"handshaking", "connected"}, sending : BOOLEAN,
    queue : Seq(Reqs), wire : Seq(Reqs), answered : Nat,
    socket : Seq(Segments), buffer : Seq(Segments),
    reads : Nat, writes : Nat, failed : BOOLEAN ]

TypeOK ==
  ses \in Sessions /\ sent \in Seq(Reqs) /\ delivered \in Seq(Nat) /\ pipelined \in BOOLEAN

Unsent(s) == IF s.sending THEN Tail(s.queue) ELSE s.queue

\* No request is lost, repeated or overtaken by another on the same session.
SentInOrder == sent = ses.wire \o Unsent(ses)

\* No lost wake-up: on an open connection a request waits only behind a write that
\* is under way, unless an error was reported.
NoStall ==
  ses.mState = "connected" /\ ses.queue # <<>> /\ ~ses.failed => ses.writes = 1

\* The session is silent in one case only.  Without an error it is connecting or reading,
\* or connect() returned early, and then it keeps whatever it is sent, unsent.
SilentOnlyIfRefused ==
  ~ses.failed => \/ ses.stage \in {"resolve", "connect", "handshake"}
                 \/ ses.reads = 1
                 \/ ses.stage = "new" /\ ses.queue = sent

\* Throwing away what buffer_ holds after a response loses nothing for a client that waits
\* for each response before it sends the next request, were it from onHttpMessage() itself:
\* it gets all responses, in order, and none of them garbled.
NoneSkippedIfWaited ==
  ~pipelined => /\ \A i \in 1..Len(delivered) : delivered[i] = i
                /\ \A n \in 0..Len(ses.socket) : ~ReadGarbled(ses, n)

\* "(Must persist between reads)": what buffer_ holds of later responses is there
\* for the next read, so responses reach the listener without gaps.
NoResponseSkipped == \A i \in 1..Len(delivered) : delivered[i] = i

-----------------------------------------------------------------------------
(* The inductive invariant, as predicates of a session s whose client has     *)
(* sent h and whose listener has seen the responses d.                        *)

\* The write under way is the one of the front of the queue; it fails at most once.
WritesFront(s, h) ==
  /\ s.writes <= 1
  /\ s.writes = 1 => s.sending
  /\ s.sending => s.queue # <<>>
  /\ s.sending /\ ~s.failed => s.writes = 1
  /\ s.mState = "handshaking" => ~s.sending /\ s.wire = <<>>
  /\ h = s.wire \o Unsent(s)

\* check_send() has been called since the queue or the state changed.
Checked(s) == s.mState = "connected" /\ ~s.sending => s.queue = <<>>

\* There is a read exactly while the session is open, unless an error was reported.
ReadsOpen(s) ==
  /\ s.stage = "open" <=> s.mState = "connected"
  /\ s.reads <= 1
  /\ s.mState = "handshaking" => s.reads = 0
  /\ s.mState = "connected" /\ ~s.failed => s.reads = 1
  /\ s.stage = "dead" => s.failed

\* With a client that waits there is at most one request without a delivered response,
\* and nothing is between it and the listener but that response.
Waited(s, h, d) ==
  /\ Len(d) <= Len(h) /\ Len(h) <= Len(d) + 1
  /\ \A i \in 1..Len(d) : d[i] = i
  /\ s.answered <= Len(s.wire) /\ s.answered \in {Len(d), Len(d) + 1}
  /\ s.buffer = <<>>
  /\ s.socket = IF s.answered = Len(d) THEN <<>> ELSE Response(s.answered)

HttpInv ==
  /\ TypeOK
  /\ WritesFront(ses, sent) /\ Checked(ses) /\ ReadsOpen(ses)
  /\ ~pipelined => Waited(ses, sent, delivered)
=============================================================================
