------------------------- MODULE TradeServiceProofs -------------------------
(***************************************************************************)
(* TLAPS proofs about the TradeService: for every set of orders, any       *)
(* number of errors, replaced sessions, heartbeats and calls of the client.*)
(***************************************************************************)
EXTENDS TradeService, SequenceTheorems, FiniteSetTheorems, TLAPS

\* What is proved of one session in general, with the messages and requests of the service.
\* The variables and the bound of the two modules play no part in those facts.
WP == INSTANCE WSConnectionProofs WITH Msgs <- WsMsg, MaxSends <- 0, ses <- svc, sent <- placed
HP == INSTANCE HttpConnectionProofs WITH Reqs <- Requests, Segs <- 1, MaxSends <- 0,
                                         ses <- svc, sent <- placed, delivered <- replied,
                                         pipelined <- placed

-----------------------------------------------------------------------------
(* The inductive invariant.  Its parts are predicates of the sessions, so that *)
(* they can be said between two calls inside RunOnce().                        *)

\* A WebSocket session between two handlers.
WsGood(s) ==
  s \in WP!Sessions /\ WP!WritesFront(s, Content(s)) /\ WP!Checked(s) /\ WP!ReadsOpen(s)

\* The kinds of the messages of a session: the authentication and then others.
AuthThenOthers(c) == c # <<>> /\ \A i \in 1..Len(c) : c[i].kind = "auth" <=> i = 1

\* Session s, the n-th, has subscribed only after a reply to a message with the id of its
\* authentication.
SubscribedAfterReply(s, n, rep) ==
  (\E i \in 1..Len(Content(s)) : Content(s)[i].kind = "subscribe")
    => \E i \in 1..Len(s.wire) : <<n, i>> \in rep /\ Content(s)[i].id = Content(s)[1].id

\* The messages of session s have ids below k.
IdsBelow(s, k) == \A i \in 1..Len(Content(s)) : Content(s)[i].id < k

\* The WebSocket sessions after nf errors, the last of which still asks for a new session
\* if flag; id_ and auth_id_; the replies of the server.  Only the last session can have a
\* message with the id that onMessage() waits for.
WsPart(ws, flag, id, auth, nf, rep) ==
  /\ ws \in Seq(WP!Sessions) /\ Len(ws) > 0 /\ id \in Nat /\ auth \in Nat \ {0} /\ nf \in Nat
  /\ flag \in BOOLEAN
  /\ Len(ws) = IF flag THEN nf ELSE nf + 1
  /\ ~flag => ~ws[Len(ws)].failed
  /\ auth <= id
  /\ \A n \in 1..Len(ws) :
       /\ WsGood(ws[n]) /\ AuthThenOthers(Content(ws[n])) /\ SubscribedAfterReply(ws[n], n, rep)
       /\ IdsBelow(ws[n], id + 1)
       /\ n < Len(ws) => IdsBelow(ws[n], auth)
  /\ Content(ws[Len(ws)])[1].id = auth

\* What the server has sent on an HTTP session is for requests on its wire.
HsData(s) ==
  /\ s.answered <= Len(s.wire)
  /\ \A i \in 1..Len(s.socket) : s.socket[i].req \in 1..s.answered
  /\ s.mState = "handshaking" \/ s.reads > 0 => s.buffer = <<>>

\* An HTTP session between two handlers.
HsGood(s) ==
  /\ s \in HP!Sessions /\ HP!WritesFront(s, Content(s)) /\ HP!Checked(s) /\ HP!ReadsOpen(s)
  /\ HsData(s)

Place(o) == [kind |-> "place", order |-> o]
Book == [kind |-> "book"]

\* The HTTP sessions after nf errors, with the orders placed: every request of an order
\* is in one place, and every order placed is in some session.
HttpPart(http, flag, nf, pl) ==
  /\ http \in Seq(HP!Sessions) /\ Len(http) > 0 /\ nf \in Nat /\ flag \in BOOLEAN
  /\ Len(http) = IF flag THEN nf ELSE nf + 1
  /\ ~flag => ~http[Len(http)].failed
  /\ \A n \in 1..Len(http) : HsGood(http[n])
  /\ \A n, m \in 1..Len(http) :
       \A i \in 1..Len(Content(http[n])), j \in 1..Len(Content(http[m])) :
         Content(http[n])[i] # Book /\ Content(http[n])[i] = Content(http[m])[j] => n = m /\ i = j
  /\ \A n \in 1..Len(http) : \A i \in 1..Len(Content(http[n])) :
       \A o \in Orders : Content(http[n])[i] = Place(o) => o \in pl
  /\ \A o \in pl : \E n \in 1..Len(http) : \E i \in 1..Len(Content(http[n])) :
       Content(http[n])[i] = Place(o)

\* connect() of every HTTP session has gone past the test of the host's name.
AllConnect(http) == \A n \in 1..Len(http) : http[n].stage # "new"

Services ==
  [ ws : Seq(WP!Sessions), http : Seq(HP!Sessions), mHostOK : BOOLEAN,
    mNeedReconnect : BOOLEAN, mHttpNeedReconnect : BOOLEAN, id : Nat, auth_id : Nat,
    busy : BOOLEAN, syncs : Nat, curled : SUBSET Orders, stopped : BOOLEAN,
    accepted : SUBSET {"auth", "subscribe", "ping", "push"}, reported : SUBSET Orders ]

\* The service in state t, in the middle of RunOnce() or not.
SvcOK(t, f, rep, pl) ==
  /\ t \in Services /\ f \in [ws : Nat, http : Nat] /\ pl \subseteq Orders
  /\ WsPart(t.ws, t.mNeedReconnect, t.id, t.auth_id, f.ws, rep)
  /\ HttpPart(t.http, t.mHttpNeedReconnect, f.http, pl)
  /\ t.mHostOK => AllConnect(t.http)

\* The context stops only at an error of a WebSocket session while the host is refused.
StopJustified(t, f) == t.stopped => ~t.mHostOK /\ f.ws > 0

\* ... and between two calls: both errors are dealt with.
TSInv ==
  /\ SvcOK(svc, faults, replied, placed) /\ StopJustified(svc, faults)
  /\ ~svc.mNeedReconnect /\ ~svc.mHttpNeedReconnect

-----------------------------------------------------------------------------
(* One WebSocket session. *)

\* The sequence of the messages passed to send() of a session.
LEMMA WsContent ==
  ASSUME NEW s \in WP!Sessions, WP!WritesFront(s, Content(s))
  PROVE  /\ Content(s) \in Seq(WsMsg) /\ s.wire \in Seq(WsMsg)
         /\ Len(s.wire) \in Nat /\ Len(Content(s)) \in Nat /\ Len(s.wire) <= Len(Content(s))
         /\ \A i \in 1..Len(s.wire) : Content(s)[i] = s.wire[i]
         /\ \A i \in 1..Len(Content(s)) : Content(s)[i] \in WsMsg /\ Content(s)[i].id \in Nat
<1>1. s.wire \in Seq(WsMsg) /\ s.queue \in Seq(WsMsg) /\ s.sending \in BOOLEAN
  BY DEF WP!Sessions
<1>2. Unsent(s) \in Seq(WsMsg)
  BY <1>1, HeadTailProperties DEF Unsent, WP!WritesFront
<1>3. /\ Content(s) \in Seq(WsMsg) /\ Len(Content(s)) = Len(s.wire) + Len(Unsent(s))
      /\ \A i \in 1..(Len(s.wire) + Len(Unsent(s))) :
           Content(s)[i] = IF i <= Len(s.wire) THEN s.wire[i] ELSE Unsent(s)[i - Len(s.wire)]
  BY <1>1, <1>2, ConcatProperties DEF Content
<1>4. Len(s.wire) \in Nat /\ Len(Unsent(s)) \in Nat /\ Len(Content(s)) \in Nat
  BY <1>1, <1>2, <1>3, LenProperties
<1>5. ASSUME NEW i \in 1..Len(Content(s))
      PROVE  Content(s)[i] \in WsMsg /\ Content(s)[i].id \in Nat
  <2>1. Content(s)[i] \in WsMsg
    BY <1>3, ElementOfSeq
  <2>. QED BY <2>1 DEF WsMsg
<1>. QED BY <1>1, <1>3, <1>4, <1>5

\* u is s after a handler that sends nothing new, and after one that sends m.
WsKeep(s, u) ==
  WsGood(u) /\ Content(u) = Content(s) /\ Len(u.wire) >= Len(s.wire)

WsSent(s, u, m) ==
  /\ WsGood(u) /\ Content(u) = Append(Content(s), m) /\ Len(u.wire) >= Len(s.wire)
  /\ u.failed = s.failed

\* The content is what the session was given.
LEMMA WsContentIs ==
  ASSUME NEW s, NEW h, WP!WritesFront(s, h)
  PROVE  Content(s) = h
  BY DEF WP!WritesFront, WP!Unsent, Content, Unsent

\* check_send() only adds to the wire.
LEMMA WsWireGrows ==
  ASSUME NEW s \in WP!Sessions
  PROVE  Len(WP!CheckSend(s).wire) >= Len(s.wire)
<1>1. s.wire \in Seq(WsMsg) /\ Len(s.wire) \in Nat
  BY LenProperties DEF WP!Sessions
<1>2. CASE s.mState # "connected" \/ s.sending \/ s.queue = <<>>
  BY <1>1, <1>2 DEF WP!CheckSend
<1>3. CASE ~(s.mState # "connected" \/ s.sending \/ s.queue = <<>>)
  <2>1. Head(s.queue) \in WsMsg
    BY <1>3, HeadTailProperties DEF WP!Sessions
  <2>2. WP!CheckSend(s).wire = Append(s.wire, Head(s.queue))
    BY <1>3 DEF WP!CheckSend, WP!InitiateTx, WP!Sessions
  <2>. QED BY <1>1, <2>1, <2>2, AppendProperties
<1>. QED BY <1>2, <1>3

\* send()
LEMMA WsSendOne ==
  ASSUME NEW s \in WP!Sessions, WP!WritesFront(s, Content(s)), NEW m \in WsMsg
  PROVE  LET u == WS!Send(s, m)
         IN  /\ u \in WP!Sessions /\ WP!WritesFront(u, Content(u)) /\ WP!Checked(u)
             /\ Content(u) = Append(Content(s), m) /\ Len(u.wire) >= Len(s.wire)
             /\ u.stage = s.stage /\ u.mState = s.mState
             /\ u.reads = s.reads /\ u.failed = s.failed
<1> DEFINE q == [s EXCEPT !.queue = Append(@, m)]
           u == WP!Send(s, m)
<1>1. Content(s) \in Seq(WsMsg)
  BY WsContent
<1>2. /\ u \in WP!Sessions /\ WP!WritesFront(u, Append(Content(s), m)) /\ WP!Checked(u)
      /\ u.stage = s.stage /\ u.mState = s.mState
      /\ u.reads = s.reads /\ u.failed = s.failed
  BY <1>1, WP!SendInv
<1>3. q \in WP!Sessions /\ q.wire = s.wire
  BY AppendProperties DEF WP!Sessions
<1>4. Len(u.wire) >= Len(s.wire)
  BY <1>3, WsWireGrows DEF WP!Send
<1>5. WS!Send(s, m) = u
  BY DEF WS!Send, WS!CheckSend, WS!InitiateTx, WP!Send, WP!CheckSend, WP!InitiateTx
<1> HIDE DEF u
<1>. QED BY <1>2, <1>4, <1>5, WsContentIs

\* send() between two handlers.
LEMMA WsSendGood ==
  ASSUME NEW s, WsGood(s), NEW m \in WsMsg
  PROVE  WsSent(s, WS!Send(s, m), m)
  BY WsSendOne DEF WsGood, WsSent, WP!ReadsOpen

\* Nothing of the sending side has changed.
LEMMA WsSameSending ==
  ASSUME NEW s, WsGood(s), NEW u \in WP!Sessions,
         u.sending = s.sending, u.queue = s.queue, u.wire = s.wire, u.writes = s.writes,
         s.failed => u.failed
  PROVE  WP!WritesFront(u, Content(u)) /\ Content(u) = Content(s) /\ Len(u.wire) >= Len(s.wire)
<1>1. Content(s) \in Seq(WsMsg) /\ Len(s.wire) \in Nat
  BY WsContent DEF WsGood
<1>2. WP!WritesFront(u, Content(s))
  BY <1>1, WP!SendingSide DEF WsGood
<1>. QED BY <1>1, <1>2, WsContentIs

\* handle_read() in which onMessage() sends nothing.
LEMMA WsReadGood ==
  ASSUME NEW s, WsGood(s), s.reads > 0
  PROVE  /\ WS!ReadDone(s) \in WP!Sessions
         /\ WsKeep(s, WS!CheckRead(WS!ReadDone(s)))
         /\ WS!CheckRead(WS!ReadDone(s)).failed = s.failed
<1> DEFINE q == [s EXCEPT !.reads = 0]
           u == [q EXCEPT !.reads = 1]
<1>1. s \in WP!Sessions /\ s.reads = 1 /\ s.mState = "connected"
  BY DEF WsGood, WP!ReadsOpen, WP!Sessions
<1>2. WS!ReadDone(s) = q /\ q \in WP!Sessions /\ q.reads = 0
  BY <1>1 DEF WS!ReadDone, WP!Sessions
<1>3. WS!CheckRead(q) = u
  BY <1>2 DEF WS!CheckRead
<1>4. /\ u \in WP!Sessions /\ u.reads = 1
      /\ u.stage = s.stage /\ u.mState = s.mState /\ u.failed = s.failed
      /\ u.sending = s.sending /\ u.queue = s.queue
      /\ u.wire = s.wire /\ u.writes = s.writes
  BY <1>1 DEF WP!Sessions
<1> HIDE DEF u
<1>5. WP!WritesFront(u, Content(u)) /\ Content(u) = Content(s) /\ Len(u.wire) >= Len(s.wire)
  BY <1>4, WsSameSending
<1>6. WP!Checked(u) /\ WP!ReadsOpen(u)
  BY <1>1, <1>4 DEF WP!Checked, WP!ReadsOpen, WsGood
<1>. QED BY <1>2, <1>3, <1>4, <1>5, <1>6 DEF WsKeep, WsGood

\* handle_read() in which onMessage() sends m on the same session.
LEMMA WsReadSendGood ==
  ASSUME NEW s, WsGood(s), s.reads > 0, NEW m \in WsMsg
  PROVE  /\ WS!Send(WS!ReadDone(s), m) \in WP!Sessions
         /\ WsSent(s, WS!CheckRead(WS!Send(WS!ReadDone(s), m)), m)
<1> DEFINE q == [s EXCEPT !.reads = 0]
           c == WS!Send(q, m)
           u == [c EXCEPT !.reads = 1]
<1>1. s \in WP!Sessions /\ s.reads = 1 /\ s.mState = "connected"
  BY DEF WsGood, WP!ReadsOpen, WP!Sessions
<1>2. /\ q \in WP!Sessions /\ q.reads = 0
      /\ q.stage = s.stage /\ q.mState = s.mState /\ q.failed = s.failed
      /\ q.sending = s.sending /\ q.queue = s.queue
      /\ q.wire = s.wire /\ q.writes = s.writes
  BY <1>1 DEF WP!Sessions
<1>3. WS!ReadDone(s) = q
  BY <1>1 DEF WS!ReadDone
<1> HIDE DEF q
<1>4. WP!WritesFront(q, Content(q)) /\ Content(q) = Content(s)
  BY <1>2, WsSameSending
<1>5. /\ c \in WP!Sessions /\ WP!WritesFront(c, Content(c)) /\ WP!Checked(c)
      /\ Content(c) = Append(Content(q), m) /\ Len(c.wire) >= Len(q.wire)
      /\ c.stage = q.stage /\ c.mState = q.mState
      /\ c.reads = q.reads /\ c.failed = q.failed
  BY <1>2, <1>4, WsSendOne
<1> HIDE DEF c
<1>6. WS!CheckRead(c) = u
  BY <1>2, <1>5 DEF WS!CheckRead
<1>7. /\ u \in WP!Sessions /\ u.reads = 1
      /\ u.stage = c.stage /\ u.mState = c.mState /\ u.failed = c.failed
      /\ u.sending = c.sending /\ u.queue = c.queue
      /\ u.wire = c.wire /\ u.writes = c.writes
  BY <1>5 DEF WP!Sessions
<1> HIDE DEF u
<1>8. Content(c) \in Seq(WsMsg)
  BY <1>5, WsContent
<1>9. WP!WritesFront(u, Content(c)) /\ Content(u) = Content(c)
  BY <1>5, <1>7, <1>8, WP!SendingSide, WsContentIs
<1>10. WP!Checked(u) /\ WP!ReadsOpen(u)
  BY <1>1, <1>2, <1>5, <1>7 DEF WP!Checked, WP!ReadsOpen, WsGood
<1>11. WS!CheckRead(WS!Send(WS!ReadDone(s), m)) = u /\ WS!Send(WS!ReadDone(s), m) = c
  BY <1>3, <1>6 DEF c
<1>. QED BY <1>2, <1>4, <1>5, <1>7, <1>9, <1>10, <1>11 DEF WsSent, WsGood

\* The steps of the connection before the last.
LEMMA WsStageGood ==
  ASSUME NEW s, WsGood(s), NEW u,
         \/ s.stage = "resolve" /\ u = WS!OnResolve(s)
         \/ s.stage = "connect" /\ u = WS!OnConnect(s)
         \/ s.stage = "ssl_handshake" /\ u = WS!OnSslHandshake(s)
  PROVE  WsKeep(s, u) /\ u.failed = s.failed
<1>1. PICK g \in {"connect", "ssl_handshake", "handshake"} : u = [s EXCEPT !.stage = g]
  BY DEF WS!OnResolve, WS!OnConnect, WS!OnSslHandshake
<1>2. s \in WP!Sessions /\ s.stage # "open"
  BY DEF WsGood
<1>3. /\ u \in WP!Sessions
      /\ u.stage = g /\ u.mState = s.mState /\ u.reads = s.reads
      /\ u.failed = s.failed /\ u.sending = s.sending /\ u.queue = s.queue
      /\ u.wire = s.wire /\ u.writes = s.writes
  BY <1>1, <1>2 DEF WP!Sessions, WP!Stages
<1>4. WP!WritesFront(u, Content(u)) /\ Content(u) = Content(s) /\ Len(u.wire) >= Len(s.wire)
  BY <1>3, WsSameSending
<1>5. WP!Checked(u) /\ WP!ReadsOpen(u)
  BY <1>2, <1>3 DEF WP!Checked, WP!ReadsOpen, WsGood
<1>. QED BY <1>3, <1>4, <1>5 DEF WsKeep, WsGood

\* on_handshake()
LEMMA WsHandshakeGood ==
  ASSUME NEW s, WsGood(s), s.stage = "handshake"
  PROVE  WsKeep(s, WS!OnHandshake(s)) /\ WS!OnHandshake(s).failed = s.failed
<1> DEFINE a == [s EXCEPT !.stage = "open", !.mState = "connected"]
           q == [a EXCEPT !.reads = 1]
           u == WP!CheckSend(q)
<1>1. s \in WP!Sessions /\ s.reads = 0 /\ s.mState = "handshaking"
  BY DEF WsGood, WP!ReadsOpen, WP!Sessions
<1>2. /\ q \in WP!Sessions
      /\ q.stage = "open" /\ q.mState = "connected" /\ q.reads = 1
      /\ q.failed = s.failed /\ q.sending = s.sending /\ q.queue = s.queue
      /\ q.wire = s.wire /\ q.writes = s.writes
  BY <1>1 DEF WP!Sessions, WP!Stages
<1>3. WS!OnHandshake(s) = u
  <2>1. a.reads = 0
    BY <1>1 DEF WP!Sessions
  <2> HIDE DEF a
  <2>2. WS!CheckRead(a) = q
    BY <2>1 DEF WS!CheckRead
  <2>. QED
    BY <2>2 DEF a, WS!OnHandshake, WS!CheckSend, WS!InitiateTx, WP!CheckSend, WP!InitiateTx
<1> HIDE DEF q
<1>4. WP!WritesFront(q, Content(q)) /\ Content(q) = Content(s)
  BY <1>2, WsSameSending
<1>5. Content(q) \in Seq(WsMsg)
  BY <1>2, <1>4, WsContent
<1>6. /\ u \in WP!Sessions /\ WP!WritesFront(u, Content(q)) /\ WP!Checked(u)
      /\ u.stage = q.stage /\ u.mState = q.mState
      /\ u.reads = q.reads /\ u.failed = q.failed
  BY <1>2, <1>4, <1>5, WP!CheckSendInv
<1>7. Len(u.wire) >= Len(q.wire)
  BY <1>2, WsWireGrows
<1> HIDE DEF u
<1>8. Content(u) = Content(q)
  BY <1>6, WsContentIs
<1>9. WP!ReadsOpen(u)
  BY <1>2, <1>6 DEF WP!ReadsOpen
<1>. QED BY <1>2, <1>3, <1>4, <1>6, <1>7, <1>8, <1>9 DEF WsKeep, WsGood

\* handle_tx()
LEMMA WsWriteGood ==
  ASSUME NEW s, WsGood(s), s.writes > 0
  PROVE  WsKeep(s, WS!HandleTx(s)) /\ WS!HandleTx(s).failed = s.failed
<1> DEFINE q == [s EXCEPT !.writes = @ - 1, !.queue = Tail(@), !.sending = FALSE]
           u == WP!HandleTx(s)
<1>1. s \in WP!Sessions /\ Content(s) \in Seq(WsMsg) /\ s.writes = 1 /\ s.queue # <<>>
  <2>1. s \in WP!Sessions /\ Content(s) \in Seq(WsMsg)
    BY WsContent DEF WsGood
  <2>. QED BY <2>1 DEF WsGood, WP!Sessions, WP!WritesFront
<1>2. /\ u \in WP!Sessions /\ WP!WritesFront(u, Content(s)) /\ WP!Checked(u)
      /\ u.stage = s.stage /\ u.mState = s.mState
      /\ u.reads = s.reads /\ u.failed = s.failed
  BY <1>1, WP!HandleTxInv DEF WsGood
<1>3. q \in WP!Sessions /\ q.wire = s.wire
  <2>1. Tail(s.queue) \in Seq(WsMsg)
    BY <1>1, HeadTailProperties DEF WP!Sessions
  <2>2. q = [s EXCEPT !.writes = 0, !.queue = Tail(s.queue), !.sending = FALSE]
    BY <1>1
  <2> HIDE DEF q
  <2>. QED BY <1>1, <2>1, <2>2 DEF WP!Sessions
<1>4. Len(u.wire) >= Len(s.wire)
  BY <1>3, WsWireGrows DEF WP!HandleTx
<1>5. WS!HandleTx(s) = u
  BY DEF WS!HandleTx, WS!CheckSend, WS!InitiateTx, WP!HandleTx, WP!CheckSend, WP!InitiateTx
<1> HIDE DEF u
<1>6. Content(u) = Content(s)
  BY <1>2, WsContentIs
<1>7. WP!ReadsOpen(u)
  BY <1>2 DEF WP!ReadsOpen, WsGood
<1>. QED BY <1>2, <1>4, <1>5, <1>6, <1>7 DEF WsKeep, WsGood

\* A handler called with an error.
LEMMA WsFailGood ==
  ASSUME NEW s, WsGood(s), NEW u,
         \/ /\ s.stage \in {"resolve", "connect", "ssl_handshake", "handshake"}
            /\ u = WS!FailStage(s)
         \/ s.reads > 0 /\ u = WS!FailRead(s)
         \/ s.writes > 0 /\ u = WS!FailTx(s)
  PROVE  WsKeep(s, u)
<1>1. s \in WP!Sessions /\ WP!WritesFront(s, Content(s)) /\ Len(s.wire) \in Nat
  BY WsContent DEF WsGood
<1>2. CASE /\ s.stage \in {"resolve", "connect", "ssl_handshake", "handshake"}
           /\ u = WS!FailStage(s)
  <2>1. /\ u \in WP!Sessions /\ u.stage = "dead" /\ u.failed = TRUE
        /\ u.mState = s.mState /\ u.reads = s.reads
        /\ u.sending = s.sending /\ u.queue = s.queue
        /\ u.wire = s.wire /\ u.writes = s.writes
    BY <1>1, <1>2 DEF WS!FailStage, WP!Sessions, WP!Stages
  <2>2. WP!WritesFront(u, Content(u)) /\ Content(u) = Content(s) /\ Len(u.wire) >= Len(s.wire)
    BY <2>1, WsSameSending
  <2>3. WP!Checked(u) /\ WP!ReadsOpen(u)
    BY <1>1, <1>2, <2>1 DEF WP!Checked, WP!ReadsOpen, WsGood
  <2>. QED BY <2>1, <2>2, <2>3 DEF WsKeep, WsGood
<1>3. CASE s.reads > 0 /\ u = WS!FailRead(s)
  <2>1. s.reads = 1 /\ s.mState = "connected"
    BY <1>1, <1>3 DEF WsGood, WP!ReadsOpen, WP!Sessions
  <2>2. u = [s EXCEPT !.reads = 0, !.failed = TRUE]
    BY <1>3, <2>1 DEF WS!FailRead
  <2>3. /\ u \in WP!Sessions /\ u.reads = 0 /\ u.failed = TRUE
        /\ u.mState = s.mState /\ u.stage = s.stage
        /\ u.sending = s.sending /\ u.queue = s.queue
        /\ u.wire = s.wire /\ u.writes = s.writes
    BY <1>1, <2>2 DEF WP!Sessions
  <2>4. WP!WritesFront(u, Content(u)) /\ Content(u) = Content(s) /\ Len(u.wire) >= Len(s.wire)
    BY <2>3, WsSameSending
  <2>5. WP!Checked(u) /\ WP!ReadsOpen(u)
    BY <1>1, <2>1, <2>3 DEF WP!Checked, WP!ReadsOpen, WsGood
  <2>. QED BY <2>3, <2>4, <2>5 DEF WsKeep, WsGood
<1>4. CASE s.writes > 0 /\ u = WS!FailTx(s)
  <2>1. s.writes = 1
    BY <1>1, <1>4 DEF WP!WritesFront, WP!Sessions
  <2>2. u = [s EXCEPT !.writes = 0, !.failed = TRUE]
    BY <1>4, <2>1 DEF WS!FailTx
  <2>3. /\ u \in WP!Sessions /\ u.writes = 0 /\ u.failed = TRUE
        /\ u.mState = s.mState /\ u.stage = s.stage /\ u.reads = s.reads
        /\ u.sending = s.sending /\ u.queue = s.queue /\ u.wire = s.wire
    BY <1>1, <2>2 DEF WP!Sessions
  <2>4. Content(u) = Content(s) /\ Len(u.wire) >= Len(s.wire)
    BY <1>1, <2>3 DEF Content, Unsent
  <2>5. WP!WritesFront(u, Content(u))
    BY <1>1, <2>3, <2>4 DEF WP!WritesFront, WP!Unsent, Content, Unsent
  <2>6. WP!Checked(u) /\ WP!ReadsOpen(u)
    BY <1>1, <2>3 DEF WP!Checked, WP!ReadsOpen, WsGood
  <2>. QED BY <2>3, <2>4, <2>5, <2>6 DEF WsKeep, WsGood
<1>. QED BY <1>2, <1>3, <1>4

\* A session that reported no error has an operation under way.
LEMMA WsGoodAlive ==
  ASSUME NEW s, WsGood(s), ~s.failed
  PROVE  WS!Alive(s)
  BY DEF WsGood, WP!Sessions, WP!Stages, WP!ReadsOpen, WS!Alive

\* A new session, before anything was sent.
LEMMA WsNewGood ==
  LET s == WS!Connect(WS!NewSession)
  IN  WsGood(s) /\ Content(s) = <<>> /\ ~s.failed
<1> DEFINE s == WS!Connect(WS!NewSession)
<1>1. <<>> \in Seq(WsMsg) /\ <<>> \o <<>> = <<>>
  BY EmptySeq, ConcatEmptySeq
<1>2. /\ s \in WP!Sessions
      /\ s.stage = "resolve" /\ s.mState = "handshaking" /\ s.sending = FALSE
      /\ s.queue = <<>> /\ s.wire = <<>> /\ s.reads = 0 /\ s.writes = 0 /\ s.failed = FALSE
  BY <1>1 DEF WS!Connect, WS!NewSession, WP!Sessions, WP!Stages
<1> HIDE DEF s
<1>3. Content(s) = <<>>
  BY <1>1, <1>2 DEF Content, Unsent
<1>4. WP!WritesFront(s, Content(s))
  BY <1>2 DEF WP!WritesFront, WP!Unsent, Content, Unsent
<1>5. WP!Checked(s) /\ WP!ReadsOpen(s)
  BY <1>2 DEF WP!Checked, WP!ReadsOpen
<1>. QED BY <1>2, <1>3, <1>4, <1>5 DEF WsGood, s

-----------------------------------------------------------------------------
(* One HTTP session. *)

\* The sequence of the requests passed to send() of a session.
LEMMA HsContent ==
  ASSUME NEW s \in HP!Sessions, HP!WritesFront(s, Content(s))
  PROVE  /\ Content(s) \in Seq(Requests) /\ s.wire \in Seq(Requests)
         /\ Len(s.wire) \in Nat /\ Len(Content(s)) \in Nat /\ Len(s.wire) <= Len(Content(s))
         /\ \A i \in 1..Len(s.wire) : Content(s)[i] = s.wire[i]
         /\ Len(Content(s)) > Len(s.wire) => Unsent(s) # <<>>
<1>1. s.wire \in Seq(Requests) /\ s.queue \in Seq(Requests) /\ s.sending \in BOOLEAN
  BY DEF HP!Sessions
<1>2. Unsent(s) \in Seq(Requests)
  BY <1>1, HeadTailProperties DEF Unsent, HP!WritesFront
<1>3. /\ Content(s) \in Seq(Requests) /\ Len(Content(s)) = Len(s.wire) + Len(Unsent(s))
      /\ \A i \in 1..(Len(s.wire) + Len(Unsent(s))) :
           Content(s)[i] = IF i <= Len(s.wire) THEN s.wire[i] ELSE Unsent(s)[i - Len(s.wire)]
  BY <1>1, <1>2, ConcatProperties DEF Content
<1>4. Len(s.wire) \in Nat /\ Len(Unsent(s)) \in Nat /\ Len(Content(s)) \in Nat
  BY <1>1, <1>2, <1>3, LenProperties
<1>5. Len(<<>>) = 0
  BY EmptySeq
<1>. QED BY <1>1, <1>3, <1>4, <1>5

\* u is s after a handler that sends nothing new, and after one that sends m.
HsKeep(s, u) ==
  /\ HsGood(u) /\ Content(u) = Content(s) /\ Len(u.wire) >= Len(s.wire)
  /\ u.stage = "new" => s.stage = "new"

HsSent(s, u, m) ==
  /\ HsGood(u) /\ Content(u) = Append(Content(s), m) /\ Len(u.wire) >= Len(s.wire)
  /\ u.failed = s.failed /\ u.stage = s.stage

\* The content is what the session was given.
LEMMA HsContentIs ==
  ASSUME NEW s, NEW h, HP!WritesFront(s, h)
  PROVE  Content(s) = h
  BY DEF HP!WritesFront, HP!Unsent, Content, Unsent

\* The reading side is the same and the wire not shorter.
LEMMA HsSameReading ==
  ASSUME NEW s, HsGood(s), NEW u \in HP!Sessions, HP!SameReading(u, s), Len(u.wire) >= Len(s.wire)
  PROVE  HP!ReadsOpen(u) /\ HsData(u)
<1>1. s \in HP!Sessions /\ HP!ReadsOpen(s) /\ HsData(s)
  BY DEF HsGood
<1>2. s.answered \in Nat /\ Len(s.wire) \in Nat /\ Len(u.wire) \in Nat
  BY <1>1, LenProperties DEF HP!Sessions
<1>3. HP!ReadsOpen(u)
  BY <1>1 DEF HP!SameReading, HP!ReadsOpen
<1>4. HsData(u)
  BY <1>1, <1>2 DEF HP!SameReading, HsData
<1>. QED BY <1>3, <1>4

\* send()
LEMMA HsSendGood ==
  ASSUME NEW s, HsGood(s), NEW m \in Requests
  PROVE  HsSent(s, HS!Send(s, m), m)
<1> DEFINE u == HP!Send(s, m)
<1>1. s \in HP!Sessions /\ Content(s) \in Seq(Requests)
  BY HsContent DEF HsGood
<1>2. /\ u \in HP!Sessions /\ HP!WritesFront(u, Append(Content(s), m)) /\ HP!Checked(u)
      /\ HP!SameReading(u, s) /\ Len(u.wire) >= Len(s.wire)
  BY <1>1, HP!SendInv DEF HsGood
<1>3. HS!Send(s, m) = u
  BY DEF HS!Send, HS!CheckSend, HS!InitiateTx, HP!Send, HP!CheckSend, HP!InitiateTx
<1> HIDE DEF u
<1>4. HP!ReadsOpen(u) /\ HsData(u)
  BY <1>2, HsSameReading
<1>5. Content(u) = Append(Content(s), m)
  BY <1>2, HsContentIs
<1>6. u.failed = s.failed /\ u.stage = s.stage
  BY <1>2 DEF HP!SameReading
<1>. QED BY <1>2, <1>3, <1>4, <1>5, <1>6 DEF HsSent, HsGood

\* Nothing of the sending side has changed.
LEMMA HsSameSending ==
  ASSUME NEW s, HsGood(s), NEW u \in HP!Sessions, HP!SameSending(u, s), s.failed => u.failed,
         u.mState \in {"connected", s.mState}
  PROVE  /\ HP!WritesFront(u, Content(u)) /\ Content(u) = Content(s)
         /\ u.wire = s.wire /\ Len(u.wire) >= Len(s.wire)
<1>1. s \in HP!Sessions /\ Content(s) \in Seq(Requests) /\ Len(s.wire) \in Nat
  BY HsContent DEF HsGood
<1>2. HP!WritesFront(u, Content(s))
  BY <1>1, HP!SendingSide DEF HsGood
<1>3. u.wire = s.wire
  BY DEF HP!SameSending
<1>. QED BY <1>1, <1>2, <1>3, HsContentIs

\* handle_tx()
LEMMA HsWriteGood ==
  ASSUME NEW s, HsGood(s), s.writes > 0
  PROVE  HsKeep(s, HS!HandleTx(s)) /\ HS!HandleTx(s).failed = s.failed
<1> DEFINE u == HP!HandleTx(s)
<1>1. s \in HP!Sessions /\ Content(s) \in Seq(Requests)
  BY HsContent DEF HsGood
<1>2. /\ u \in HP!Sessions /\ HP!WritesFront(u, Content(s)) /\ HP!Checked(u)
      /\ HP!SameReading(u, s) /\ Len(u.wire) >= Len(s.wire)
  BY <1>1, HP!HandleTxInv DEF HsGood
<1>3. HS!HandleTx(s) = u
  BY DEF HS!HandleTx, HS!CheckSend, HS!InitiateTx, HP!HandleTx, HP!CheckSend, HP!InitiateTx
<1> HIDE DEF u
<1>4. Content(u) = Content(s)
  BY <1>2, HsContentIs
<1>5. HP!ReadsOpen(u) /\ HsData(u) /\ u.failed = s.failed /\ u.stage = s.stage
  BY <1>2, HsSameReading DEF HP!SameReading
<1>. QED BY <1>2, <1>3, <1>4, <1>5 DEF HsKeep, HsGood

\* The steps of the connection before the last.
LEMMA HsStageGood ==
  ASSUME NEW s, HsGood(s), NEW u,
         \/ s.stage = "resolve" /\ u = HS!OnResolve(s)
         \/ s.stage = "connect" /\ u = HS!OnConnect(s)
  PROVE  HsKeep(s, u) /\ u.failed = s.failed
<1>1. PICK g \in {"connect", "handshake"} : u = [s EXCEPT !.stage = g]
  BY DEF HS!OnResolve, HS!OnConnect
<1>2. s \in HP!Sessions /\ s.stage # "open"
  BY DEF HsGood
<1>3. /\ u \in HP!Sessions /\ HP!SameSending(u, s)
      /\ u.stage = g /\ u.mState = s.mState /\ u.reads = s.reads /\ u.failed = s.failed
      /\ u.answered = s.answered /\ u.socket = s.socket /\ u.buffer = s.buffer
      /\ u.sending = s.sending /\ u.queue = s.queue
  BY <1>1, <1>2 DEF HP!Sessions, HP!Stages, HP!SameSending
<1>4. /\ HP!WritesFront(u, Content(u)) /\ Content(u) = Content(s)
      /\ u.wire = s.wire /\ Len(u.wire) >= Len(s.wire)
  BY <1>3, HsSameSending
<1>5. HP!Checked(u) /\ HP!ReadsOpen(u)
  BY <1>2, <1>3 DEF HP!Checked, HP!ReadsOpen, HsGood
<1>6. HsData(u)
  BY <1>3, <1>4 DEF HsData, HsGood
<1>. QED BY <1>3, <1>4, <1>5, <1>6 DEF HsKeep, HsGood

\* on_handshake()
LEMMA HsHandshakeGood ==
  ASSUME NEW s, HsGood(s), s.stage = "handshake"
  PROVE  HsKeep(s, HS!OnHandshake(s)) /\ HS!OnHandshake(s).failed = s.failed
<1> DEFINE a == [s EXCEPT !.stage = "open", !.mState = "connected"]
           q == [a EXCEPT !.reads = 1]
           u == HP!CheckSend(q)
<1>1. s \in HP!Sessions /\ s.reads = 0 /\ s.mState = "handshaking" /\ s.buffer = <<>>
  BY DEF HsGood, HP!ReadsOpen, HP!Sessions, HsData
<1>2. /\ q \in HP!Sessions /\ HP!SameSending(q, s)
      /\ q.stage = "open" /\ q.mState = "connected" /\ q.reads = 1
      /\ q.failed = s.failed
      /\ q.answered = s.answered /\ q.socket = s.socket /\ q.buffer = s.buffer
  BY <1>1 DEF HP!Sessions, HP!Stages, HP!SameSending
<1>3. HS!OnHandshake(s) = u
  <2>1. a.reads = 0
    BY <1>1 DEF HP!Sessions
  <2> HIDE DEF a
  <2>2. HS!CheckRead(a) = q
    BY <2>1 DEF HS!CheckRead
  <2>. QED
    BY <2>2 DEF a, HS!OnHandshake, HS!CheckSend, HS!InitiateTx, HP!CheckSend, HP!InitiateTx
<1> HIDE DEF q
<1>4. /\ HP!WritesFront(q, Content(q)) /\ Content(q) = Content(s)
      /\ q.wire = s.wire /\ Len(q.wire) >= Len(s.wire)
  BY <1>2, HsSameSending
<1>5. Content(q) \in Seq(Requests)
  BY <1>2, <1>4, HsContent
<1>6. /\ u \in HP!Sessions /\ HP!WritesFront(u, Content(q)) /\ HP!Checked(u)
      /\ HP!SameReading(u, q) /\ Len(u.wire) >= Len(q.wire)
  BY <1>2, <1>4, <1>5, HP!CheckSendInv
<1> HIDE DEF u
<1>7. u.stage = "open"
  BY <1>2, <1>6 DEF HP!SameReading
<1>8. Content(u) = Content(q)
  BY <1>6, HsContentIs
<1>9. HP!ReadsOpen(u) /\ u.failed = s.failed
  BY <1>2, <1>6 DEF HP!ReadsOpen, HP!SameReading
<1>10. HsData(u)
  <2>1. Len(u.wire) \in Nat /\ Len(s.wire) \in Nat /\ s.answered \in Nat
    BY <1>1, <1>6, LenProperties DEF HP!Sessions
  <2>. QED BY <1>1, <1>2, <1>4, <1>6, <2>1 DEF HsData, HsGood, HP!SameReading
<1>. QED BY <1>3, <1>4, <1>6, <1>7, <1>8, <1>9, <1>10 DEF HsKeep, HsGood

\* A handler called with an error.
LEMMA HsFailGood ==
  ASSUME NEW s, HsGood(s), NEW u,
         \/ s.stage \in {"resolve", "connect", "handshake"} /\ u = HS!FailStage(s)
         \/ s.reads > 0 /\ u = HS!FailRead(s)
         \/ s.writes > 0 /\ u = HS!FailTx(s)
  PROVE  HsKeep(s, u)
<1>1. s \in HP!Sessions /\ HP!WritesFront(s, Content(s)) /\ Len(s.wire) \in Nat
  BY HsContent DEF HsGood
<1>2. CASE s.stage \in {"resolve", "connect", "handshake"} /\ u = HS!FailStage(s)
  <2>1. /\ u \in HP!Sessions /\ HP!SameSending(u, s) /\ u.stage = "dead" /\ u.failed = TRUE
        /\ u.mState = s.mState /\ u.reads = s.reads /\ u.sending = s.sending /\ u.queue = s.queue
        /\ u.answered = s.answered /\ u.socket = s.socket /\ u.buffer = s.buffer
    BY <1>1, <1>2 DEF HS!FailStage, HP!Sessions, HP!Stages, HP!SameSending
  <2>2. /\ HP!WritesFront(u, Content(u)) /\ Content(u) = Content(s)
        /\ u.wire = s.wire /\ Len(u.wire) >= Len(s.wire)
    BY <2>1, HsSameSending
  <2>3. HP!Checked(u) /\ HP!ReadsOpen(u)
    BY <1>1, <1>2, <2>1 DEF HP!Checked, HP!ReadsOpen, HsGood
  <2>4. HsData(u)
    BY <2>1, <2>2 DEF HsData, HsGood
  <2>. QED BY <2>1, <2>2, <2>3, <2>4 DEF HsKeep, HsGood
<1>3. CASE s.reads > 0 /\ u = HS!FailRead(s)
  <2>1. s.reads = 1 /\ s.mState = "connected"
    BY <1>1, <1>3 DEF HsGood, HP!ReadsOpen, HP!Sessions
  <2>2. u = [s EXCEPT !.reads = 0, !.failed = TRUE]
    BY <1>3, <2>1 DEF HS!FailRead
  <2>3. /\ u \in HP!Sessions /\ HP!SameSending(u, s) /\ u.reads = 0 /\ u.failed = TRUE
        /\ u.mState = s.mState /\ u.stage = s.stage /\ u.sending = s.sending /\ u.queue = s.queue
        /\ u.answered = s.answered /\ u.socket = s.socket /\ u.buffer = s.buffer
    BY <1>1, <2>2 DEF HP!Sessions, HP!SameSending
  <2>4. /\ HP!WritesFront(u, Content(u)) /\ Content(u) = Content(s)
        /\ u.wire = s.wire /\ Len(u.wire) >= Len(s.wire)
    BY <2>3, HsSameSending
  <2>5. HP!Checked(u) /\ HP!ReadsOpen(u)
    BY <1>1, <2>1, <2>3 DEF HP!Checked, HP!ReadsOpen, HsGood
  <2>6. HsData(u)
    BY <2>1, <2>3, <2>4 DEF HsData, HsGood
  <2>. QED BY <2>3, <2>4, <2>5, <2>6 DEF HsKeep, HsGood
<1>4. CASE s.writes > 0 /\ u = HS!FailTx(s)
  <2>1. s.writes = 1
    BY <1>1, <1>4 DEF HP!WritesFront, HP!Sessions
  <2>2. u = [s EXCEPT !.writes = 0, !.failed = TRUE]
    BY <1>4, <2>1 DEF HS!FailTx
  <2>3. /\ u \in HP!Sessions /\ u.writes = 0 /\ u.failed = TRUE
        /\ u.mState = s.mState /\ u.stage = s.stage /\ u.reads = s.reads
        /\ u.sending = s.sending /\ u.queue = s.queue /\ u.wire = s.wire
        /\ u.answered = s.answered /\ u.socket = s.socket /\ u.buffer = s.buffer
    BY <1>1, <2>2 DEF HP!Sessions
  <2>4. Content(u) = Content(s) /\ Len(u.wire) >= Len(s.wire)
    BY <1>1, <2>3 DEF Content, Unsent
  <2>5. HP!WritesFront(u, Content(u))
    BY <1>1, <2>3, <2>4 DEF HP!WritesFront, HP!Unsent, Content, Unsent
  <2>6. HP!Checked(u) /\ HP!ReadsOpen(u)
    BY <1>1, <2>3 DEF HP!Checked, HP!ReadsOpen, HsGood
  <2>7. HsData(u)
    BY <2>3 DEF HsData, HsGood
  <2>. QED BY <2>3, <2>4, <2>5, <2>6, <2>7 DEF HsKeep, HsGood
<1>. QED BY <1>2, <1>3, <1>4

\* The server answers a request on the wire.
LEMMA HsAnswerGood ==
  ASSUME NEW s, HsGood(s), s.answered < Len(s.wire)
  PROVE  HsKeep(s, HS!ServerAnswers(s)) /\ HS!ServerAnswers(s).failed = s.failed
<1>1. /\ s \in HP!Sessions /\ s.answered \in Nat /\ s.socket \in Seq(HP!Segments)
      /\ Len(s.socket) \in Nat /\ Len(s.wire) \in Nat
  BY LenProperties DEF HsGood, HP!Sessions
<1>2. PICK k \in Nat : k = s.answered + 1
  BY <1>1
<1> DEFINE b == s.socket \o HP!Response(k)
           u == HS!ServerAnswers(s)
<1>3. /\ HP!Response(k) \in Seq(HP!Segments) /\ Len(HP!Response(k)) = 1
      /\ \A i \in 1..1 : HP!Response(k)[i] = [req |-> k, seg |-> i]
  BY HP!ResponseSeq
<1>4. HS!Response(k) = HP!Response(k)
  BY DEF HS!Response, HP!Response
<1>5. u = [s EXCEPT !.answered = k, !.socket = b]
  BY <1>2, <1>4 DEF HS!ServerAnswers
<1>6. /\ b \in Seq(HP!Segments) /\ Len(b) = Len(s.socket) + 1
      /\ \A i \in 1..(Len(s.socket) + 1) :
           b[i] = IF i <= Len(s.socket) THEN s.socket[i] ELSE HP!Response(k)[i - Len(s.socket)]
  <2> DEFINE r == HP!Response(k)
  <2>1. s.socket \in Seq(HP!Segments) /\ r \in Seq(HP!Segments) /\ Len(r) = 1
    BY <1>1, <1>3
  <2> HIDE DEF r
  <2>2. /\ s.socket \o r \in Seq(HP!Segments)
        /\ Len(s.socket \o r) = Len(s.socket) + Len(r)
        /\ \A i \in 1..(Len(s.socket) + Len(r)) :
             (s.socket \o r)[i] = IF i <= Len(s.socket) THEN s.socket[i]
                                ELSE r[i - Len(s.socket)]
    BY <2>1, ConcatProperties
  <2> QED
    BY <2>1, <2>2 DEF r
<1> HIDE DEF b, u
<1>7. /\ u \in HP!Sessions /\ HP!SameSending(u, s) /\ u.failed = s.failed
      /\ u.mState = s.mState /\ u.stage = s.stage /\ u.reads = s.reads
      /\ u.sending = s.sending /\ u.queue = s.queue /\ u.buffer = s.buffer
      /\ u.answered = k /\ u.socket = b
  BY <1>1, <1>5, <1>6 DEF HP!Sessions, HP!SameSending
<1>8. /\ HP!WritesFront(u, Content(u)) /\ Content(u) = Content(s)
      /\ u.wire = s.wire /\ Len(u.wire) >= Len(s.wire)
  BY <1>7, HsSameSending
<1>9. HP!Checked(u) /\ HP!ReadsOpen(u)
  BY <1>1, <1>7 DEF HP!Checked, HP!ReadsOpen, HsGood
<1>10. \A i \in 1..Len(b) : b[i].req \in 1..k
  <2>1. \A i \in 1..Len(s.socket) : s.socket[i].req \in 1..s.answered
    BY DEF HsGood, HsData
  <2> SUFFICES ASSUME NEW i \in 1..Len(b) PROVE b[i].req \in 1..k
    OBVIOUS
  <2>2. CASE i \in 1..Len(s.socket)
    <3>1. b[i] = s.socket[i]
      BY <1>1, <1>6, <2>2
    <3>2. s.socket[i].req \in 1..s.answered
      BY <2>1, <2>2
    <3>. QED BY <1>1, <1>2, <3>1, <3>2
  <2>3. CASE i = Len(s.socket) + 1
    <3>1. b[i] = HP!Response(k)[1]
      BY <1>1, <1>6, <2>3
    <3>. QED BY <1>1, <1>2, <1>3, <3>1
  <2>. QED BY <1>1, <1>6, <2>2, <2>3
<1>11. HsData(u)
  BY <1>1, <1>2, <1>7, <1>8, <1>10 DEF HsData, HsGood
<1>. QED BY <1>7, <1>8, <1>9, <1>11 DEF u, HsKeep, HsGood

\* handle_read(): the response is one to a request on the wire.
LEMMA HsReadGood ==
  ASSUME NEW s, HsGood(s), NEW k \in 0..Len(s.socket), HS!ReadCompletes(s, k)
  PROVE  LET u == HS!CheckRead(HS!ReadDone(s, k))
         IN  /\ HsKeep(s, u) /\ u.failed = s.failed
             /\ HS!Delivered(s, k) \in 1..Len(s.wire)
<1> DEFINE rest == SubSeq(s.socket, k + 1, Len(s.socket))
           q == [s EXCEPT !.reads = 0, !.buffer = <<>>, !.socket = rest]
           u == [q EXCEPT !.reads = 1]
<1>1. /\ s \in HP!Sessions /\ s.answered \in Nat /\ s.socket \in Seq(HP!Segments)
      /\ Len(s.socket) \in Nat /\ Len(s.wire) \in Nat /\ k \in Nat /\ s.reads \in Nat
      /\ s.reads <= 1 /\ s.reads > 0 /\ s.mState \in {"handshaking", "connected"}
      /\ s.answered <= Len(s.wire)
  BY LenProperties DEF HsGood, HP!Sessions, HP!ReadsOpen, HS!ReadCompletes, HsData
<1>2. s.reads = 1 /\ s.mState = "connected" /\ s.buffer = <<>>
  BY <1>1 DEF HsGood, HP!ReadsOpen, HsData
<1>3. HP!ReadCompletes(s, k) /\ HP!Delivered(s, k) = HS!Delivered(s, k)
  BY DEF HP!ReadCompletes, HP!StartsWithResponse, HP!Received, HP!Response, HP!Delivered,
         HS!ReadCompletes, HS!StartsWithResponse, HS!Received, HS!Response, HS!Delivered
<1>4. 1 <= k /\ HS!Delivered(s, k) = s.socket[1].req
  BY <1>1, <1>2, <1>3, HP!ReadComplete
<1>5. HS!Delivered(s, k) \in 1..Len(s.wire)
  <2>1. 1 \in 1..Len(s.socket)
    BY <1>1, <1>4
  <2>2. s.socket[1].req \in 1..s.answered
    BY <2>1 DEF HsGood, HsData
  <2>. QED BY <1>1, <1>4, <2>2
<1>6. /\ rest \in Seq(HP!Segments) /\ Len(rest) = Len(s.socket) - k
      /\ \A i \in 1..(Len(s.socket) - k) : rest[i] = s.socket[k + i]
  BY <1>1, HP!SplitSegments
<1> HIDE DEF rest
<1>7. <<>> \in Seq(HP!Segments)
  BY EmptySeq
<1>8. /\ q \in HP!Sessions /\ q.reads = 0
  BY <1>1, <1>6, <1>7 DEF HP!Sessions
<1>9. HS!ReadDone(s, k) = q
  BY <1>2 DEF HS!ReadDone, rest
<1>10. HS!CheckRead(q) = u
  BY <1>8 DEF HS!CheckRead
<1>11. /\ u \in HP!Sessions /\ HP!SameSending(u, s) /\ u.failed = s.failed
       /\ u.mState = s.mState /\ u.stage = s.stage /\ u.reads = 1
       /\ u.sending = s.sending /\ u.queue = s.queue /\ u.buffer = <<>>
       /\ u.answered = s.answered /\ u.socket = rest
  BY <1>1, <1>6, <1>7 DEF HP!Sessions, HP!SameSending
<1> HIDE DEF u, q
<1>12. /\ HP!WritesFront(u, Content(u)) /\ Content(u) = Content(s)
      /\ u.wire = s.wire /\ Len(u.wire) >= Len(s.wire)
  BY <1>11, HsSameSending
<1>13. HP!Checked(u) /\ HP!ReadsOpen(u)
  BY <1>1, <1>2, <1>11 DEF HP!Checked, HP!ReadsOpen, HsGood
<1>14. \A i \in 1..Len(rest) : rest[i].req \in 1..s.answered
  <2>1. \A i \in 1..Len(s.socket) : s.socket[i].req \in 1..s.answered
    BY DEF HsGood, HsData
  <2> SUFFICES ASSUME NEW i \in 1..Len(rest) PROVE rest[i].req \in 1..s.answered
    OBVIOUS
  <2>2. rest[i] = s.socket[k + i] /\ k + i \in 1..Len(s.socket)
    BY <1>1, <1>6
  <2>. QED BY <2>1, <2>2
<1>15. HsData(u)
  BY <1>1, <1>11, <1>12, <1>14 DEF HsData
<1>. QED BY <1>5, <1>9, <1>10, <1>11, <1>12, <1>13, <1>15 DEF HsKeep, HsGood

\* A session that connects and reported no error has an operation under way.
LEMMA HsGoodAlive ==
  ASSUME NEW s, HsGood(s), ~s.failed, s.stage # "new"
  PROVE  HS!Alive(s)
  BY DEF HsGood, HP!Sessions, HP!Stages, HP!ReadsOpen, HS!Alive

\* A request that is not on the wire waits in a session that will come to it, has failed or
\* never connected.
LEMMA HsWaits ==
  ASSUME NEW s, HsGood(s), Unsent(s) # <<>>
  PROVE  \/ s.stage \in {"resolve", "connect", "handshake"} \/ s.writes > 0
         \/ s.failed \/ s.stage = "new"
  BY DEF HsGood, HP!Sessions, HP!Stages, HP!ReadsOpen, HP!WritesFront, HP!Checked, Unsent

\* A new session, its host taken or refused.
LEMMA HsNewGood ==
  ASSUME NEW ok \in BOOLEAN
  PROVE  LET s == HS!Connect(HS!NewSession, ok)
         IN  HsGood(s) /\ Content(s) = <<>> /\ ~s.failed /\ (ok => s.stage # "new")
<1> DEFINE s == HS!Connect(HS!NewSession, ok)
<1>1. <<>> \in Seq(Requests) /\ <<>> \in Seq(HP!Segments) /\ <<>> \o <<>> = <<>> /\ Len(<<>>) = 0
  BY EmptySeq, ConcatEmptySeq
<1>2. /\ s \in HP!Sessions
      /\ s.stage \in {"new", "resolve"} /\ (ok => s.stage = "resolve")
      /\ s.mState = "handshaking" /\ s.sending = FALSE
      /\ s.queue = <<>> /\ s.wire = <<>> /\ s.reads = 0 /\ s.writes = 0 /\ s.failed = FALSE
      /\ s.answered = 0 /\ s.socket = <<>> /\ s.buffer = <<>>
  BY <1>1 DEF HS!Connect, HS!NewSession, HP!Sessions, HP!Stages
<1> HIDE DEF s
<1>3. Content(s) = <<>>
  BY <1>1, <1>2 DEF Content, Unsent
<1>4. HP!WritesFront(s, Content(s))
  BY <1>2 DEF HP!WritesFront, HP!Unsent, Content, Unsent
<1>5. HP!Checked(s) /\ HP!ReadsOpen(s) /\ HsData(s)
  BY <1>1, <1>2 DEF HP!Checked, HP!ReadsOpen, HsData
<1>. QED BY <1>2, <1>3, <1>4, <1>5 DEF HsGood, s

-----------------------------------------------------------------------------
(* The sessions of the service, as sequences. *)

\* v is q with its n-th element replaced by u; with u after its end.
Replaced(v, q, n, u) ==
  Len(v) = Len(q) /\ v[n] = u /\ \A k \in 1..Len(q) : k # n => v[k] = q[k]

Extends(v, q, u) ==
  Len(v) = Len(q) + 1 /\ v[Len(q) + 1] = u /\ \A k \in 1..Len(q) : v[k] = q[k]

\* EXCEPT and Append on sequences of sessions.
LEMMA ReplaceOne ==
  ASSUME NEW S, NEW q \in Seq(S), NEW n \in 1..Len(q), NEW u \in S
  PROVE  [q EXCEPT ![n] = u] \in Seq(S) /\ Replaced([q EXCEPT ![n] = u], q, n, u)
  BY ExceptSeq DEF Replaced

LEMMA AddOne ==
  ASSUME NEW S, NEW q \in Seq(S), NEW u \in S
  PROVE  Append(q, u) \in Seq(S) /\ Extends(Append(q, u), q, u)
  BY AppendProperties DEF Extends

\* A session that has connected is replaced by one that has.
LEMMA StillConnect ==
  ASSUME NEW http, AllConnect(http), NEW n \in 1..Len(http), NEW u,
         u.stage = "new" => http[n].stage = "new", NEW v, Replaced(v, http, n, u)
  PROVE  AllConnect(v)
  BY DEF AllConnect, Replaced

\* A handler of session n that sends nothing.
LEMMA WsUpdate ==
  ASSUME NEW ws, NEW flag, NEW id, NEW auth, NEW nf, NEW rep,
         WsPart(ws, flag, id, auth, nf, rep),
         NEW n \in 1..Len(ws), NEW u, WsKeep(ws[n], u),
         NEW v \in Seq(WP!Sessions), Replaced(v, ws, n, u),
         NEW flag2 \in BOOLEAN, NEW nf2 \in Nat, NEW rep2,
         Len(ws) = IF flag2 THEN nf2 ELSE nf2 + 1,
         ~flag2 => ~flag /\ u.failed = ws[n].failed,
         rep \subseteq rep2
  PROVE  WsPart(v, flag2, id, auth, nf2, rep2)
<1>1. ws \in Seq(WP!Sessions) /\ Len(ws) \in Nat /\ Len(ws) > 0 /\ Len(v) = Len(ws)
  BY LenProperties DEF WsPart, Replaced
<1>2. ASSUME NEW k \in 1..Len(ws)
      PROVE  /\ WsGood(v[k]) /\ Content(v[k]) = Content(ws[k]) /\ Len(ws[k].wire) \in Nat
             /\ Len(v[k].wire) \in Nat /\ Len(v[k].wire) >= Len(ws[k].wire)
             /\ ~flag2 => v[k].failed = ws[k].failed
  <2>1. WsGood(ws[k])
    BY DEF WsPart
  <2>2. WsGood(v[k]) /\ Content(v[k]) = Content(ws[k])
    BY <2>1 DEF Replaced, WsKeep
  <2>3. Len(ws[k].wire) \in Nat /\ Len(v[k].wire) \in Nat
    BY <2>1, <2>2, WsContent DEF WsGood
  <2>. QED BY <2>2, <2>3 DEF Replaced, WsKeep
<1>3. ASSUME NEW k \in 1..Len(ws)
      PROVE  SubscribedAfterReply(v[k], k, rep2)
  <2>1. SubscribedAfterReply(ws[k], k, rep)
    BY DEF WsPart
  <2> SUFFICES ASSUME NEW j \in 1..Len(Content(v[k])), Content(v[k])[j].kind = "subscribe"
               PROVE  \E i \in 1..Len(v[k].wire) :
                        <<k, i>> \in rep2 /\ Content(v[k])[i].id = Content(v[k])[1].id
    BY DEF SubscribedAfterReply
  <2>2. PICK i \in 1..Len(ws[k].wire) :
          <<k, i>> \in rep /\ Content(ws[k])[i].id = Content(ws[k])[1].id
    BY <1>2, <2>1 DEF SubscribedAfterReply
  <2>3. i \in 1..Len(v[k].wire) /\ <<k, i>> \in rep2
    <3>1. /\ Len(ws[k].wire) \in Nat /\ Len(v[k].wire) \in Nat
          /\ Len(v[k].wire) >= Len(ws[k].wire)
      BY <1>2
    <3>2. i \in 1..Len(v[k].wire)
      BY <3>1
    <3>. QED BY <2>2, <3>2
  <2>. QED BY <1>2, <2>2, <2>3
<1>4. \A k \in 1..Len(ws) :
        /\ WsGood(v[k]) /\ AuthThenOthers(Content(v[k])) /\ SubscribedAfterReply(v[k], k, rep2)
        /\ IdsBelow(v[k], id + 1)
        /\ k < Len(ws) => IdsBelow(v[k], auth)
  BY <1>2, <1>3 DEF WsPart, IdsBelow
<1>5. Content(v[Len(ws)])[1].id = auth /\ (~flag2 => ~v[Len(ws)].failed)
  BY <1>1, <1>2 DEF WsPart
<1>. QED BY <1>1, <1>4, <1>5 DEF WsPart

\* send() on the session in use, of anything but an authentication.
LEMMA WsSendLast ==
  ASSUME NEW ws, NEW flag, NEW id, NEW auth, NEW nf, NEW rep,
         WsPart(ws, flag, id, auth, nf, rep),
         NEW m \in WsMsg, m.kind # "auth",
         NEW u, WsSent(ws[Len(ws)], u, m),
         NEW v \in Seq(WP!Sessions), Replaced(v, ws, Len(ws), u),
         NEW id2 \in Nat, id <= id2, m.id <= id2,
         NEW rep2, rep \subseteq rep2,
         m.kind = "subscribe" =>
           \E i \in 1..Len(ws[Len(ws)].wire) :
             <<Len(ws), i>> \in rep2 /\ Content(ws[Len(ws)])[i].id = auth
  PROVE  WsPart(v, flag, id2, auth, nf, rep2)
<1> DEFINE L == Len(ws)
           s == ws[L]
<1>1. ws \in Seq(WP!Sessions) /\ L \in Nat /\ L > 0 /\ L \in 1..L /\ Len(v) = L /\ v[L] = u
  BY LenProperties DEF WsPart, Replaced
<1>2. WsGood(s) /\ WsGood(u) /\ AuthThenOthers(Content(s)) /\ SubscribedAfterReply(s, L, rep)
      /\ Content(s)[1].id = auth /\ IdsBelow(s, id + 1) /\ auth \in Nat \ {0} /\ id \in Nat
  BY <1>1 DEF WsPart, WsSent
<1>3. /\ Content(s) \in Seq(WsMsg) /\ Len(s.wire) \in Nat /\ Len(Content(s)) \in Nat
      /\ Len(s.wire) <= Len(Content(s)) /\ Len(u.wire) \in Nat /\ Len(u.wire) >= Len(s.wire)
  BY <1>2, WsContent DEF WsGood, WsSent
<1>4. /\ Content(u) = Append(Content(s), m) /\ Len(Content(u)) = Len(Content(s)) + 1
      /\ Content(u)[Len(Content(s)) + 1] = m
      /\ \A i \in 1..Len(Content(s)) : Content(u)[i] = Content(s)[i]
      /\ Content(u) # <<>>
  BY <1>3, AppendProperties DEF WsSent
<1>5. Len(Content(s)) >= 1 /\ Content(u)[1] = Content(s)[1]
  <2>1. Len(Content(s)) >= 1
    BY <1>2, <1>3, EmptySeq DEF AuthThenOthers
  <2>. QED BY <1>3, <1>4, <2>1
<1> HIDE DEF L, s
<1>6. AuthThenOthers(Content(u))
  <2> SUFFICES ASSUME NEW i \in 1..Len(Content(u)) PROVE Content(u)[i].kind = "auth" <=> i = 1
    BY <1>4 DEF AuthThenOthers
  <2>1. CASE i \in 1..Len(Content(s))
    BY <1>2, <1>4, <2>1 DEF AuthThenOthers
  <2>2. CASE i = Len(Content(s)) + 1
    BY <1>3, <1>4, <1>5, <2>2
  <2>. QED BY <1>3, <1>4, <2>1, <2>2
<1>7. IdsBelow(u, id2 + 1)
  <2> SUFFICES ASSUME NEW i \in 1..Len(Content(u)) PROVE Content(u)[i].id < id2 + 1
    BY DEF IdsBelow
  <2>1. CASE i \in 1..Len(Content(s))
    <3>1. Content(s)[i].id \in Nat
      BY <1>2, <2>1, WsContent DEF WsGood
    <3>. QED BY <1>2, <1>4, <2>1, <3>1 DEF IdsBelow
  <2>2. CASE i = Len(Content(s)) + 1
    BY <1>4, <2>2 DEF WsMsg
  <2>. QED BY <1>3, <1>4, <2>1, <2>2
<1>8. SubscribedAfterReply(u, L, rep2)
  <2> SUFFICES ASSUME NEW j \in 1..Len(Content(u)), Content(u)[j].kind = "subscribe"
               PROVE  \E i \in 1..Len(u.wire) :
                        <<L, i>> \in rep2 /\ Content(u)[i].id = Content(u)[1].id
    BY DEF SubscribedAfterReply
  <2>1. PICK i \in 1..Len(s.wire) : <<L, i>> \in rep2 /\ Content(s)[i].id = Content(s)[1].id
    <3>1. CASE j \in 1..Len(Content(s))
      BY <1>2, <1>4, <3>1 DEF SubscribedAfterReply
    <3>2. CASE j = Len(Content(s)) + 1
      BY <1>2, <1>4, <3>2 DEF L, s
    <3>3. j \in 1..Len(Content(s)) \/ j = Len(Content(s)) + 1
      BY <1>3, <1>4
    <3>. QED BY <3>1, <3>2, <3>3
  <2>2. i \in 1..Len(u.wire) /\ i \in 1..Len(Content(s))
    BY <1>3
  <2>. QED BY <1>4, <1>5, <2>1, <2>2
<1>9. ASSUME NEW k \in 1..L, k # L
      PROVE  /\ WsGood(v[k]) /\ AuthThenOthers(Content(v[k]))
             /\ SubscribedAfterReply(v[k], k, rep2)
             /\ IdsBelow(v[k], id2 + 1) /\ IdsBelow(v[k], auth)
  <2>1. v[k] = ws[k] /\ k < L
    BY <1>1, <1>9 DEF Replaced, L
  <2>2. /\ WsGood(ws[k]) /\ AuthThenOthers(Content(ws[k]))
        /\ SubscribedAfterReply(ws[k], k, rep)
        /\ IdsBelow(ws[k], id + 1) /\ IdsBelow(ws[k], auth)
    BY <2>1 DEF WsPart, L
  <2>4. \A i \in 1..Len(Content(ws[k])) : Content(ws[k])[i].id \in Nat
    BY <2>2, WsContent DEF WsGood
  <2>5. IdsBelow(ws[k], id2 + 1)
    BY <1>2, <2>2, <2>4 DEF IdsBelow
  <2>6. SubscribedAfterReply(ws[k], k, rep2)
    BY <2>2 DEF SubscribedAfterReply
  <2>. QED BY <2>1, <2>2, <2>5, <2>6
<1>10. /\ flag \in BOOLEAN /\ nf \in Nat /\ (L = IF flag THEN nf ELSE nf + 1)
       /\ (~flag => ~u.failed) /\ auth <= id2
  BY <1>2 DEF WsPart, WsSent, L
<1>11. \A k \in 1..L :
         /\ WsGood(v[k]) /\ AuthThenOthers(Content(v[k])) /\ SubscribedAfterReply(v[k], k, rep2)
         /\ IdsBelow(v[k], id2 + 1)
         /\ k < L => IdsBelow(v[k], auth)
  BY <1>1, <1>2, <1>6, <1>7, <1>8, <1>9
<1>12. Content(v[L])[1].id = auth
  BY <1>1, <1>2, <1>5
<1>. QED BY <1>1, <1>2, <1>10, <1>11, <1>12 DEF WsPart

\* Reconnect(): the new session starts with an authentication whose id none had before.
LEMMA WsNew ==
  ASSUME NEW ws, NEW id, NEW auth, NEW nf, NEW rep,
         WsPart(ws, TRUE, id, auth, nf, rep),
         NEW s, WsGood(s), Content(s) = <<>>, ~s.failed,
         NEW m \in WsMsg, m = [kind |-> "auth", id |-> id + 1], NEW u, WsSent(s, u, m),
         NEW v \in Seq(WP!Sessions), Extends(v, ws, u)
  PROVE  WsPart(v, FALSE, id + 1, id + 1, nf, rep)
<1> DEFINE L == Len(ws)
<1>1. ws \in Seq(WP!Sessions) /\ L \in Nat /\ L > 0 /\ Len(v) = L + 1 /\ v[L + 1] = u
      /\ id \in Nat /\ nf \in Nat /\ L = nf /\ auth \in Nat /\ auth <= id
  BY LenProperties DEF WsPart, Extends
<1> HIDE DEF L
<1>2. /\ Content(u) = Append(<<>>, m) /\ WsGood(u) /\ ~u.failed
  BY DEF WsSent
<1>3. Len(Content(u)) = 1 /\ Content(u)[1] = m /\ Content(u) # <<>>
  BY <1>2, EmptySeq, AppendProperties
<1>4. m.kind = "auth" /\ m.id = id + 1
  OBVIOUS
<1>5. AuthThenOthers(Content(u)) /\ SubscribedAfterReply(u, L + 1, rep)
  BY <1>3, <1>4 DEF AuthThenOthers, SubscribedAfterReply
<1>6. IdsBelow(u, id + 1 + 1)
  BY <1>1, <1>3, <1>4 DEF IdsBelow
<1>7. ASSUME NEW k \in 1..L
      PROVE  /\ WsGood(v[k]) /\ AuthThenOthers(Content(v[k]))
             /\ SubscribedAfterReply(v[k], k, rep)
             /\ IdsBelow(v[k], id + 1 + 1) /\ IdsBelow(v[k], id + 1)
  <2>1. v[k] = ws[k]
    BY DEF Extends, L
  <2>2. /\ WsGood(ws[k]) /\ AuthThenOthers(Content(ws[k]))
        /\ SubscribedAfterReply(ws[k], k, rep) /\ IdsBelow(ws[k], id + 1)
    BY DEF WsPart, L
  <2>4. \A i \in 1..Len(Content(ws[k])) : Content(ws[k])[i].id \in Nat
    BY <2>2, WsContent DEF WsGood
  <2>5. IdsBelow(ws[k], id + 1 + 1)
    BY <1>1, <2>2, <2>4 DEF IdsBelow
  <2>. QED BY <2>1, <2>2, <2>5
<1>8. \A k \in 1..(L + 1) :
        /\ WsGood(v[k]) /\ AuthThenOthers(Content(v[k])) /\ SubscribedAfterReply(v[k], k, rep)
        /\ IdsBelow(v[k], id + 1 + 1)
        /\ k < L + 1 => IdsBelow(v[k], id + 1)
  <2> TAKE k \in 1..(L + 1)
  <2>1. CASE k \in 1..L
    BY <1>7, <2>1
  <2>2. CASE k = L + 1
    BY <1>1, <1>2, <1>5, <1>6, <2>2
  <2>. QED BY <1>1, <2>1, <2>2
<1>9. Content(v[L + 1])[1].id = id + 1
  BY <1>1, <1>3, <1>4
<1>. QED BY <1>1, <1>2, <1>8, <1>9 DEF WsPart

\* A handler of HTTP session n, or an answer of the server.
LEMMA HttpUpdate ==
  ASSUME NEW http, NEW flag, NEW nf, NEW pl, HttpPart(http, flag, nf, pl),
         NEW n \in 1..Len(http), NEW u, HsKeep(http[n], u),
         NEW v \in Seq(HP!Sessions), Replaced(v, http, n, u),
         NEW flag2 \in BOOLEAN, NEW nf2 \in Nat,
         Len(http) = IF flag2 THEN nf2 ELSE nf2 + 1,
         ~flag2 => ~flag /\ u.failed = http[n].failed
  PROVE  HttpPart(v, flag2, nf2, pl)
<1>1. http \in Seq(HP!Sessions) /\ Len(http) \in Nat /\ Len(http) > 0 /\ Len(v) = Len(http)
  BY LenProperties DEF HttpPart, Replaced
<1>2. \A k \in 1..Len(http) : /\ HsGood(v[k]) /\ Content(v[k]) = Content(http[k])
                              /\ ~flag2 => v[k].failed = http[k].failed
  BY DEF HttpPart, Replaced, HsKeep
<1>3. \A k, m \in 1..Len(http) :
       \A i \in 1..Len(Content(v[k])), j \in 1..Len(Content(v[m])) :
         Content(v[k])[i] # Book /\ Content(v[k])[i] = Content(v[m])[j] => k = m /\ i = j
  BY <1>2 DEF HttpPart
<1>4. \A k \in 1..Len(http) : \A i \in 1..Len(Content(v[k])) :
       \A o \in Orders : Content(v[k])[i] = Place(o) => o \in pl
  BY <1>2 DEF HttpPart
<1>5. \A o \in pl : \E k \in 1..Len(http) : \E i \in 1..Len(Content(v[k])) :
        Content(v[k])[i] = Place(o)
  <2> TAKE o \in pl
  <2>1. PICK k \in 1..Len(http) : \E i \in 1..Len(Content(http[k])) :
          Content(http[k])[i] = Place(o)
    BY DEF HttpPart
  <2>. QED BY <1>2, <2>1
<1>6. ~flag2 => ~v[Len(http)].failed
  BY <1>1, <1>2 DEF HttpPart
<1>. QED BY <1>1, <1>2, <1>3, <1>4, <1>5, <1>6 DEF HttpPart

\* send() on the session in use of a request that no session has, or of the order book's.
LEMMA HttpSendLast ==
  ASSUME NEW http, NEW flag, NEW nf, NEW pl, HttpPart(http, flag, nf, pl),
         NEW m \in Requests,
         NEW u, HsSent(http[Len(http)], u, m),
         NEW v \in Seq(HP!Sessions), Replaced(v, http, Len(http), u),
         m = Book \/ \A k \in 1..Len(http) : \A i \in 1..Len(Content(http[k])) :
                       Content(http[k])[i] # m,
         NEW pl2, pl \subseteq pl2,
         \A o \in Orders : m = Place(o) => o \in pl2,
         \A o \in pl2 : o \in pl \/ m = Place(o)
  PROVE  HttpPart(v, flag, nf, pl2)
<1> DEFINE L == Len(http)
           s == http[L]
           c == Len(Content(s))
<1>1. http \in Seq(HP!Sessions) /\ L \in Nat /\ L > 0 /\ L \in 1..L /\ Len(v) = L /\ v[L] = u
  BY LenProperties DEF HttpPart, Replaced
<1>2. HsGood(s) /\ HsGood(u) /\ Content(s) \in Seq(Requests) /\ c \in Nat
  BY <1>1, HsContent DEF HttpPart, HsSent, HsGood
<1>3. /\ Len(Content(u)) = c + 1 /\ Content(u)[c + 1] = m
      /\ \A i \in 1..c : Content(u)[i] = Content(s)[i]
  BY <1>2, AppendProperties DEF HsSent
<1>4. \A k \in 1..L : k # L => v[k] = http[k]
  BY DEF Replaced
<1>5. v[L] = u /\ http[L] = s
  BY <1>1
<1> HIDE DEF L, s, c
\* A place in v is the new one, or one of http with the same request.
<1>6. ASSUME NEW k \in 1..L, NEW i \in 1..Len(Content(v[k]))
      PROVE  \/ k = L /\ i = c + 1 /\ Content(v[k])[i] = m
             \/ i \in 1..Len(Content(http[k])) /\ Content(v[k])[i] = Content(http[k])[i]
  <2>1. CASE k # L
    BY <1>4, <2>1
  <2>2. CASE k = L
    <3>1. i \in 1..c \/ i = c + 1
      BY <1>2, <1>3, <1>5, <2>2
    <3>. QED BY <1>3, <1>5, <2>2, <3>1 DEF c
  <2>. QED BY <2>1, <2>2
<1>7. ASSUME NEW k \in 1..L, NEW i \in 1..Len(Content(http[k]))
      PROVE  i \in 1..Len(Content(v[k])) /\ Content(v[k])[i] = Content(http[k])[i]
  <2>1. CASE k # L
    BY <1>4, <2>1
  <2>2. CASE k = L
    <3>1. i \in 1..c /\ i \in 1..(c + 1)
      BY <1>2, <1>5, <2>2 DEF c
    <3>. QED BY <1>3, <1>5, <2>2, <3>1
  <2>. QED BY <2>1, <2>2
<1>8. ASSUME NEW k1 \in 1..L, NEW k2 \in 1..L,
             NEW i1 \in 1..Len(Content(v[k1])), NEW i2 \in 1..Len(Content(v[k2])),
             Content(v[k1])[i1] # Book, Content(v[k1])[i1] = Content(v[k2])[i2]
      PROVE  k1 = k2 /\ i1 = i2
  <2> DEFINE old1 == i1 \in 1..Len(Content(http[k1])) /\ Content(v[k1])[i1] = Content(http[k1])[i1]
             old2 == i2 \in 1..Len(Content(http[k2])) /\ Content(v[k2])[i2] = Content(http[k2])[i2]
  <2>1. old1 \/ (k1 = L /\ i1 = c + 1 /\ Content(v[k1])[i1] = m)
    BY <1>6
  <2>2. old2 \/ (k2 = L /\ i2 = c + 1 /\ Content(v[k2])[i2] = m)
    BY <1>6
  <2>3. CASE old1 /\ old2
    <3>1. \A a, b \in 1..L :
            \A i \in 1..Len(Content(http[a])), j \in 1..Len(Content(http[b])) :
              Content(http[a])[i] # Book /\ Content(http[a])[i] = Content(http[b])[j]
                => a = b /\ i = j
      BY DEF HttpPart, L
    <3>2. /\ i1 \in 1..Len(Content(http[k1])) /\ i2 \in 1..Len(Content(http[k2]))
          /\ Content(http[k1])[i1] # Book /\ Content(http[k1])[i1] = Content(http[k2])[i2]
      BY <1>8, <2>3
    <3>. QED BY <3>1, <3>2
  <2>4. CASE old1 /\ Content(v[k2])[i2] = m
    BY <1>8, <2>4 DEF L
  <2>5. CASE old2 /\ Content(v[k1])[i1] = m
    BY <1>8, <2>5 DEF L
  <2> HIDE DEF old1, old2
  <2>. QED BY <2>1, <2>2, <2>3, <2>4, <2>5
<1>9. ASSUME NEW k \in 1..L, NEW i \in 1..Len(Content(v[k])), NEW o \in Orders,
             Content(v[k])[i] = Place(o)
      PROVE  o \in pl2
  <2>1. CASE Content(v[k])[i] = m
    BY <1>9, <2>1
  <2>2. CASE i \in 1..Len(Content(http[k])) /\ Content(v[k])[i] = Content(http[k])[i]
    BY <1>9, <2>2 DEF HttpPart, L
  <2>. QED BY <1>6, <2>1, <2>2
<1>10. ASSUME NEW o \in pl2
       PROVE  \E k \in 1..L : \E i \in 1..Len(Content(v[k])) : Content(v[k])[i] = Place(o)
  <2>1. CASE m = Place(o)
    <3>1. c + 1 \in 1..Len(Content(v[L])) /\ Content(v[L])[c + 1] = Place(o)
      BY <1>2, <1>3, <1>5, <2>1
    <3>. QED BY <1>1, <3>1
  <2>2. CASE o \in pl
    <3>1. PICK k \in 1..L : \E i \in 1..Len(Content(http[k])) : Content(http[k])[i] = Place(o)
      BY <2>2 DEF HttpPart, L
    <3>. QED BY <1>7, <3>1
  <2>. QED BY <2>1, <2>2
<1>11. \A k \in 1..L : HsGood(v[k])
  BY <1>2, <1>4, <1>5 DEF HttpPart, L
<1>12. /\ flag \in BOOLEAN /\ nf \in Nat /\ (L = IF flag THEN nf ELSE nf + 1)
       /\ (~flag => ~v[L].failed)
  BY <1>5 DEF HttpPart, HsSent, L
<1>. QED BY <1>1, <1>8, <1>9, <1>10, <1>11, <1>12 DEF HttpPart

\* HttpReconnect(): the new session has no request, and those of the others stay there.
LEMMA HttpNew ==
  ASSUME NEW http, NEW nf, NEW pl, HttpPart(http, TRUE, nf, pl),
         NEW u, HsGood(u), Content(u) = <<>>, ~u.failed,
         NEW v \in Seq(HP!Sessions), Extends(v, http, u)
  PROVE  HttpPart(v, FALSE, nf, pl)
<1> DEFINE L == Len(http)
<1>1. /\ http \in Seq(HP!Sessions) /\ L \in Nat /\ L > 0 /\ Len(v) = L + 1 /\ v[L + 1] = u
      /\ nf \in Nat /\ L = nf /\ \A k \in 1..L : v[k] = http[k]
  BY LenProperties DEF HttpPart, Extends
<1>2. Len(Content(u)) = 0
  BY EmptySeq
<1> HIDE DEF L
<1>3. \A k \in 1..(L + 1) : k \in 1..L \/ k = L + 1
  BY <1>1
<1>4. \A k \in 1..L : k \in 1..(L + 1)
  BY <1>1
<1>5. ASSUME NEW k \in 1..(L + 1), NEW i \in 1..Len(Content(v[k]))
      PROVE  k \in 1..L
  BY <1>1, <1>2, <1>3
<1>6. \A k \in 1..(L + 1) : HsGood(v[k])
  BY <1>1, <1>3 DEF HttpPart, L
<1>7. \A k1, k2 \in 1..(L + 1) :
        \A i1 \in 1..Len(Content(v[k1])), i2 \in 1..Len(Content(v[k2])) :
          Content(v[k1])[i1] # Book /\ Content(v[k1])[i1] = Content(v[k2])[i2]
            => k1 = k2 /\ i1 = i2
  <2> TAKE k1, k2 \in 1..(L + 1)
  <2> TAKE i1 \in 1..Len(Content(v[k1])), i2 \in 1..Len(Content(v[k2]))
  <2>1. k1 \in 1..L /\ k2 \in 1..L
    BY <1>5
  <2>2. v[k1] = http[k1] /\ v[k2] = http[k2]
    BY <1>1, <2>1
  <2>. QED BY <2>1, <2>2 DEF HttpPart, L
<1>8. \A k \in 1..(L + 1) : \A i \in 1..Len(Content(v[k])) :
        \A o \in Orders : Content(v[k])[i] = Place(o) => o \in pl
  <2> TAKE k \in 1..(L + 1)
  <2> TAKE i \in 1..Len(Content(v[k]))
  <2>1. k \in 1..L /\ v[k] = http[k]
    BY <1>1, <1>5
  <2>. QED BY <2>1 DEF HttpPart, L
<1>9. \A o \in pl : \E k \in 1..(L + 1) : \E i \in 1..Len(Content(v[k])) :
        Content(v[k])[i] = Place(o)
  <2> TAKE o \in pl
  <2>1. PICK k \in 1..L : \E i \in 1..Len(Content(http[k])) : Content(http[k])[i] = Place(o)
    BY DEF HttpPart, L
  <2>. QED BY <1>1, <1>4, <2>1
<1>. QED BY <1>1, <1>6, <1>7, <1>8, <1>9 DEF HttpPart

-----------------------------------------------------------------------------
(* The methods of the service. *)

\* r is t but for its WebSocket sessions; but for its HTTP sessions.
OtherThanWs(r, t) ==
  /\ r.http = t.http /\ r.mHostOK = t.mHostOK /\ r.mNeedReconnect = t.mNeedReconnect
  /\ r.mHttpNeedReconnect = t.mHttpNeedReconnect /\ r.id = t.id /\ r.auth_id = t.auth_id
  /\ r.busy = t.busy /\ r.syncs = t.syncs /\ r.curled = t.curled /\ r.stopped = t.stopped
  /\ r.accepted = t.accepted /\ r.reported = t.reported

OtherThanHttp(r, t) ==
  /\ r.ws = t.ws /\ r.mHostOK = t.mHostOK /\ r.mNeedReconnect = t.mNeedReconnect
  /\ r.mHttpNeedReconnect = t.mHttpNeedReconnect /\ r.id = t.id /\ r.auth_id = t.auth_id
  /\ r.busy = t.busy /\ r.syncs = t.syncs /\ r.curled = t.curled /\ r.stopped = t.stopped
  /\ r.accepted = t.accepted /\ r.reported = t.reported

\* The sessions of one kind are replaced, and nothing else.
LEMMA WithWs ==
  ASSUME NEW t \in Services, NEW v \in Seq(WP!Sessions)
  PROVE  LET r == [t EXCEPT !.ws = v]
         IN  r \in Services /\ r.ws = v /\ OtherThanWs(r, t)
  BY DEF Services, OtherThanWs

LEMMA WithHttp ==
  ASSUME NEW t \in Services, NEW v \in Seq(HP!Sessions)
  PROVE  LET r == [t EXCEPT !.http = v]
         IN  r \in Services /\ r.http = v /\ OtherThanHttp(r, t)
  BY DEF Services, OtherThanHttp

\* One session is replaced by u.
LEMMA WithOneWs ==
  ASSUME NEW t \in Services, NEW n \in 1..Len(t.ws), NEW u \in WP!Sessions
  PROVE  LET r == [t EXCEPT !.ws[n] = u]
         IN  /\ r \in Services /\ r.ws \in Seq(WP!Sessions) /\ Replaced(r.ws, t.ws, n, u)
             /\ OtherThanWs(r, t)
<1> DEFINE v == [t.ws EXCEPT ![n] = u]
<1>1. t.ws \in Seq(WP!Sessions)
  BY DEF Services
<1>2. v \in Seq(WP!Sessions) /\ Replaced(v, t.ws, n, u)
  BY <1>1, ReplaceOne
<1>3. [t EXCEPT !.ws[n] = u] = [t EXCEPT !.ws = v]
  OBVIOUS
<1> HIDE DEF v
<1>. QED BY <1>2, <1>3, WithWs

LEMMA WithOneHttp ==
  ASSUME NEW t \in Services, NEW n \in 1..Len(t.http), NEW u \in HP!Sessions
  PROVE  LET r == [t EXCEPT !.http[n] = u]
         IN  /\ r \in Services /\ r.http \in Seq(HP!Sessions) /\ Replaced(r.http, t.http, n, u)
             /\ OtherThanHttp(r, t)
<1> DEFINE v == [t.http EXCEPT ![n] = u]
<1>1. t.http \in Seq(HP!Sessions)
  BY DEF Services
<1>2. v \in Seq(HP!Sessions) /\ Replaced(v, t.http, n, u)
  BY <1>1, ReplaceOne
<1>3. [t EXCEPT !.http[n] = u] = [t EXCEPT !.http = v]
  OBVIOUS
<1> HIDE DEF v
<1>. QED BY <1>2, <1>3, WithHttp

\* ws_session->send(m)
LEMMA WsSendRec ==
  ASSUME NEW t \in Services, Len(t.ws) > 0, WsGood(t.ws[Len(t.ws)]), NEW m \in WsMsg
  PROVE  LET r == WsSend(t, m)
             u == WS!Send(t.ws[Len(t.ws)], m)
         IN  /\ r \in Services /\ r.ws \in Seq(WP!Sessions)
             /\ Replaced(r.ws, t.ws, Len(t.ws), u) /\ OtherThanWs(r, t)
             /\ WsSent(t.ws[Len(t.ws)], u, m)
<1> DEFINE u == WS!Send(t.ws[Len(t.ws)], m)
<1>1. t.ws \in Seq(WP!Sessions) /\ Len(t.ws) \in Nat
  BY LenProperties DEF Services
<1>2. Len(t.ws) \in 1..Len(t.ws)
  BY <1>1
<1>3. WsSent(t.ws[Len(t.ws)], u, m) /\ u \in WP!Sessions
  BY WsSendGood DEF WsSent, WsGood
<1>4. WsSend(t, m) = [t EXCEPT !.ws[Len(t.ws)] = u]
  BY DEF WsSend
<1> HIDE DEF u
<1>. QED BY <1>2, <1>3, <1>4, WithOneWs DEF u

\* http_session_->send(m)
LEMMA HttpSendRec ==
  ASSUME NEW t \in Services, Len(t.http) > 0, HsGood(t.http[Len(t.http)]), NEW m \in Requests
  PROVE  LET r == HttpSend(t, m)
             u == HS!Send(t.http[Len(t.http)], m)
         IN  /\ r \in Services /\ r.http \in Seq(HP!Sessions)
             /\ Replaced(r.http, t.http, Len(t.http), u) /\ OtherThanHttp(r, t)
             /\ HsSent(t.http[Len(t.http)], u, m)
<1> DEFINE u == HS!Send(t.http[Len(t.http)], m)
<1>1. t.http \in Seq(HP!Sessions) /\ Len(t.http) \in Nat
  BY LenProperties DEF Services
<1>2. Len(t.http) \in 1..Len(t.http)
  BY <1>1
<1>3. HsSent(t.http[Len(t.http)], u, m) /\ u \in HP!Sessions
  BY HsSendGood DEF HsSent, HsGood
<1>4. HttpSend(t, m) = [t EXCEPT !.http[Len(t.http)] = u]
  BY DEF HttpSend
<1> HIDE DEF u
<1>. QED BY <1>2, <1>3, <1>4, WithOneHttp DEF u

\* The sessions in use are there.
LEMMA InUse ==
  ASSUME NEW t, NEW f, NEW rep, NEW pl, SvcOK(t, f, rep, pl)
  PROVE  /\ t \in Services /\ t.ws \in Seq(WP!Sessions) /\ t.http \in Seq(HP!Sessions)
         /\ Len(t.ws) \in Nat /\ Len(t.ws) > 0 /\ WsGood(t.ws[Len(t.ws)])
         /\ Len(t.http) \in Nat /\ Len(t.http) > 0 /\ HsGood(t.http[Len(t.http)])
         /\ \A n \in 1..Len(t.ws) : WsGood(t.ws[n])
         /\ \A n \in 1..Len(t.http) : HsGood(t.http[n])
<1>1. t \in Services /\ t.ws \in Seq(WP!Sessions) /\ t.http \in Seq(HP!Sessions)
  BY DEF SvcOK, Services
<1>2. Len(t.ws) \in Nat /\ Len(t.http) \in Nat
  BY <1>1, LenProperties
<1>3. /\ Len(t.ws) > 0 /\ Len(t.http) > 0
      /\ \A n \in 1..Len(t.ws) : WsGood(t.ws[n])
      /\ \A n \in 1..Len(t.http) : HsGood(t.http[n])
  BY DEF SvcOK, WsPart, HttpPart
<1>. QED BY <1>1, <1>2, <1>3

\* Reconnect()
LEMMA ReconnectOK ==
  ASSUME NEW t, NEW f, NEW rep, NEW pl, SvcOK(t, f, rep, pl)
  PROVE  LET r == Reconnect(t)
         IN  /\ SvcOK(r, f, rep, pl) /\ ~r.mNeedReconnect
             /\ r.mHttpNeedReconnect = t.mHttpNeedReconnect /\ r.stopped = t.stopped
             /\ r.mHostOK = t.mHostOK
<1>1. CASE ~t.mNeedReconnect
  BY <1>1 DEF Reconnect
<1>2. CASE t.mNeedReconnect
  <2>0. PICK k \in Nat : k = t.id + 1
    BY InUse DEF Services
  <2> DEFINE s == WS!Connect(WS!NewSession)
             m == [kind |-> "auth", id |-> t.id + 1]
             a == [t EXCEPT !.ws = Append(t.ws, s)]
             b == [a EXCEPT !.id = k, !.auth_id = k]
             c == WsSend(b, m)
             u == WS!Send(s, m)
             r == [c EXCEPT !.mNeedReconnect = FALSE]
  <2>1. WsGood(s) /\ Content(s) = <<>> /\ ~s.failed /\ s \in WP!Sessions
    BY WsNewGood DEF WsGood
  <2>2. t \in Services /\ t.id \in Nat /\ t.ws \in Seq(WP!Sessions) /\ Len(t.ws) \in Nat
    BY InUse DEF Services
  <2> HIDE DEF s
  <2>3. Append(t.ws, s) \in Seq(WP!Sessions) /\ Extends(Append(t.ws, s), t.ws, s)
    BY <2>1, <2>2, AddOne
  <2>4. a \in Services /\ a.ws = Append(t.ws, s) /\ OtherThanWs(a, t)
    BY <2>2, <2>3, WithWs
  <2>5. m \in WsMsg
    BY <2>2 DEF WsMsg
  <2> HIDE DEF a, m
  <2>6. /\ b \in Services /\ b.ws = a.ws /\ b.http = a.http /\ b.id = k
        /\ b.auth_id = k /\ b.mHttpNeedReconnect = a.mHttpNeedReconnect
        /\ b.stopped = a.stopped /\ b.mHostOK = a.mHostOK
    BY <2>4 DEF Services
  <2> HIDE DEF b
  <2>7. Len(b.ws) = Len(t.ws) + 1 /\ b.ws[Len(b.ws)] = s
    BY <2>3, <2>4, <2>6 DEF Extends
  <2>8. /\ c \in Services /\ c.ws \in Seq(WP!Sessions)
        /\ Replaced(c.ws, b.ws, Len(b.ws), u) /\ OtherThanWs(c, b) /\ WsSent(s, u, m)
    BY <2>1, <2>2, <2>5, <2>6, <2>7, WsSendRec
  <2> HIDE DEF c, u
  <2>9. Extends(c.ws, t.ws, u)
    <3>1. /\ b.ws = Append(t.ws, s) /\ Len(b.ws) = Len(t.ws) + 1
          /\ \A j \in 1..Len(t.ws) : b.ws[j] = t.ws[j]
      BY <2>3, <2>4, <2>6, <2>7 DEF Extends
    <3>2. Len(c.ws) = Len(t.ws) + 1 /\ c.ws[Len(t.ws) + 1] = u
      BY <2>8, <3>1 DEF Replaced
    <3>3. ASSUME NEW j \in 1..Len(t.ws)
          PROVE  c.ws[j] = t.ws[j]
      <4>1. j \in 1..Len(b.ws) /\ j # Len(b.ws)
        BY <2>2, <3>1
      <4>. QED BY <2>8, <3>1, <4>1 DEF Replaced
    <3>. QED BY <3>2, <3>3 DEF Extends
  <2>10. /\ r \in Services /\ r.ws = c.ws /\ r.http = c.http /\ r.id = c.id
         /\ r.auth_id = c.auth_id /\ r.mNeedReconnect = FALSE
         /\ r.mHttpNeedReconnect = c.mHttpNeedReconnect /\ r.stopped = c.stopped
         /\ r.mHostOK = c.mHostOK
    BY <2>8 DEF Services
  <2> HIDE DEF r
  <2>11. WsPart(c.ws, FALSE, t.id + 1, t.id + 1, f.ws, rep)
    <3>1. WsPart(t.ws, TRUE, t.id, t.auth_id, f.ws, rep)
      BY <1>2 DEF SvcOK, Services
    <3>. QED BY <2>1, <2>5, <2>8, <2>9, <3>1, WsNew DEF m
  <2>12. /\ r.http = t.http /\ r.mHttpNeedReconnect = t.mHttpNeedReconnect
         /\ r.stopped = t.stopped /\ r.mHostOK = t.mHostOK
         /\ r.id = t.id + 1 /\ r.auth_id = t.id + 1
    BY <2>0, <2>4, <2>6, <2>8, <2>10 DEF OtherThanWs
  <2>13. SvcOK(r, f, rep, pl)
    BY <2>10, <2>11, <2>12 DEF SvcOK
  <2>14. Reconnect(t) = r
    <3>1. a.id = t.id
      BY <2>4 DEF OtherThanWs
    <3>. QED BY <1>2, <2>0, <3>1 DEF Reconnect, SendAuth, r, c, b, a, m, s
  <2>. QED BY <2>10, <2>12, <2>13, <2>14
<1>. QED BY <1>1, <1>2

\* HttpReconnect()
LEMMA HttpReconnectOK ==
  ASSUME NEW t, NEW f, NEW rep, NEW pl, SvcOK(t, f, rep, pl)
  PROVE  LET r == HttpReconnect(t)
         IN  /\ SvcOK(r, f, rep, pl) /\ ~r.mHttpNeedReconnect
             /\ r.mNeedReconnect = t.mNeedReconnect /\ r.stopped = t.stopped
             /\ r.mHostOK = t.mHostOK
<1>1. CASE ~t.mHttpNeedReconnect
  BY <1>1 DEF HttpReconnect
<1>2. CASE t.mHttpNeedReconnect
  <2> DEFINE s == HS!Connect(HS!NewSession, t.mHostOK)
             r == [t EXCEPT !.http = Append(t.http, s), !.mHttpNeedReconnect = FALSE]
  <2>1. /\ t \in Services /\ t.http \in Seq(HP!Sessions) /\ Len(t.http) \in Nat
        /\ t.mHostOK \in BOOLEAN
    BY InUse DEF Services
  <2>2. /\ HsGood(s) /\ Content(s) = <<>> /\ ~s.failed /\ s \in HP!Sessions
        /\ t.mHostOK => s.stage # "new"
    BY <2>1, HsNewGood DEF HsGood
  <2> HIDE DEF s
  <2>3. Append(t.http, s) \in Seq(HP!Sessions) /\ Extends(Append(t.http, s), t.http, s)
    BY <2>1, <2>2, AddOne
  <2>4. /\ r \in Services /\ r.ws = t.ws /\ r.http = Append(t.http, s) /\ r.id = t.id
        /\ r.auth_id = t.auth_id /\ r.mNeedReconnect = t.mNeedReconnect
        /\ r.mHttpNeedReconnect = FALSE /\ r.stopped = t.stopped /\ r.mHostOK = t.mHostOK
    BY <2>1, <2>3 DEF Services
  <2>5. HttpReconnect(t) = r
    BY <1>2 DEF HttpReconnect, s
  <2> HIDE DEF r
  <2>6. HttpPart(r.http, FALSE, f.http, pl)
    <3>1. HttpPart(t.http, TRUE, f.http, pl)
      BY <1>2 DEF SvcOK, Services
    <3>. QED BY <2>2, <2>3, <2>4, <3>1, HttpNew
  <2>7. ASSUME t.mHostOK
        PROVE  AllConnect(r.http)
    <3>1. ASSUME NEW n \in 1..(Len(t.http) + 1)
          PROVE  n \in 1..Len(t.http) \/ n = Len(t.http) + 1
      BY <2>1
    <3>2. AllConnect(t.http)
      BY <2>7 DEF SvcOK
    <3>. QED BY <2>2, <2>3, <2>4, <2>7, <3>1, <3>2 DEF AllConnect, Extends
  <2>8. SvcOK(r, f, rep, pl)
    BY <2>4, <2>6, <2>7 DEF SvcOK
  <2>. QED BY <2>4, <2>5, <2>8
<1>. QED BY <1>1, <1>2

\* SendHeartbeat()
LEMMA SendHeartbeatOK ==
  ASSUME NEW t, NEW f, NEW rep, NEW pl, SvcOK(t, f, rep, pl)
  PROVE  LET r == SendHeartbeat(t)
         IN  /\ SvcOK(r, f, rep, pl) /\ r.mHttpNeedReconnect = t.mHttpNeedReconnect
             /\ r.mNeedReconnect = t.mNeedReconnect /\ r.stopped = t.stopped
             /\ r.mHostOK = t.mHostOK
<1>0. PICK k \in Nat : k = t.id + 1
  BY InUse DEF Services
<1> DEFINE m == [kind |-> "ping", id |-> t.id]
           a == [t EXCEPT !.id = k]
           b == WsSend(a, m)
           r == HttpSend(b, Book)
           u == WS!Send(a.ws[Len(a.ws)], m)
           w == HS!Send(b.http[Len(b.http)], Book)
<1>1. /\ t \in Services /\ t.id \in Nat /\ Len(t.ws) > 0 /\ WsGood(t.ws[Len(t.ws)])
      /\ Len(t.http) > 0 /\ HsGood(t.http[Len(t.http)])
  BY InUse DEF Services
<1>2. m \in WsMsg /\ Book \in Requests
  BY <1>1 DEF WsMsg, Requests, Book
<1>3. m.kind = "ping" /\ m.id = t.id
  OBVIOUS
<1> HIDE DEF m
<1>4. /\ a \in Services /\ a.ws = t.ws /\ a.http = t.http /\ a.id = k
      /\ a.auth_id = t.auth_id /\ a.mNeedReconnect = t.mNeedReconnect
      /\ a.mHttpNeedReconnect = t.mHttpNeedReconnect /\ a.stopped = t.stopped
      /\ a.mHostOK = t.mHostOK
  BY <1>1 DEF Services
<1> HIDE DEF a
<1>5. /\ b \in Services /\ b.ws \in Seq(WP!Sessions)
      /\ Replaced(b.ws, a.ws, Len(a.ws), u) /\ OtherThanWs(b, a)
      /\ WsSent(a.ws[Len(a.ws)], u, m)
  BY <1>1, <1>2, <1>4, WsSendRec
<1> HIDE DEF b
<1>6. /\ r \in Services /\ r.http \in Seq(HP!Sessions)
      /\ Replaced(r.http, b.http, Len(b.http), w) /\ OtherThanHttp(r, b)
      /\ HsSent(b.http[Len(b.http)], w, Book)
  BY <1>1, <1>2, <1>4, <1>5, HttpSendRec DEF OtherThanWs
<1> HIDE DEF r, u, w
<1>7. /\ r.ws = b.ws /\ b.http = t.http /\ r.id = t.id + 1 /\ r.auth_id = t.auth_id
      /\ r.mNeedReconnect = t.mNeedReconnect
      /\ r.mHttpNeedReconnect = t.mHttpNeedReconnect /\ r.stopped = t.stopped
      /\ r.mHostOK = t.mHostOK
  BY <1>0, <1>4, <1>5, <1>6 DEF OtherThanWs, OtherThanHttp
<1>8. WsPart(b.ws, t.mNeedReconnect, t.id + 1, t.auth_id, f.ws, rep)
  <2>1. WsPart(t.ws, t.mNeedReconnect, t.id, t.auth_id, f.ws, rep)
    BY DEF SvcOK
  <2>2. t.id + 1 \in Nat /\ t.id <= t.id + 1 /\ m.id <= t.id + 1 /\ m.kind # "auth"
        /\ m.kind # "subscribe"
    BY <1>1, <1>3
  <2>. QED BY <1>2, <1>4, <1>5, <2>1, <2>2, WsSendLast
<1>9. HttpPart(r.http, t.mHttpNeedReconnect, f.http, pl)
  <2>1. HttpPart(t.http, t.mHttpNeedReconnect, f.http, pl)
    BY DEF SvcOK
  <2>2. \A o \in Orders : Book # Place(o)
    BY DEF Book, Place
  <2>. QED BY <1>2, <1>6, <1>7, <2>1, <2>2, HttpSendLast
<1>10. t.mHostOK => AllConnect(r.http)
  <2>1. Len(t.http) \in 1..Len(t.http)
    BY InUse
  <2>2. w.stage = "new" => t.http[Len(t.http)].stage = "new"
    BY <1>6, <1>7 DEF HsSent
  <2>3. Replaced(r.http, t.http, Len(t.http), w)
    BY <1>6, <1>7
  <2>. QED BY <2>1, <2>2, <2>3, StillConnect DEF SvcOK
<1>11. SvcOK(r, f, rep, pl)
  BY <1>6, <1>7, <1>8, <1>9, <1>10 DEF SvcOK
<1>12. SendHeartbeat(t) = r
  BY <1>0 DEF SendHeartbeat, Book, r, b, a, m
<1>. QED BY <1>7, <1>11, <1>12

\* A handler has run and at most one of the two sessions in use is lost: the other keeps
\* the context going, unless it is an HTTP session that never connected.
LEMMA HandlerRanOK ==
  ASSUME NEW t, NEW f, NEW rep, NEW pl, SvcOK(t, f, rep, pl),
         ~t.mNeedReconnect \/ ~t.mHttpNeedReconnect
  PROVE  SvcOK(HandlerRan(t), f, rep, pl) /\ StopJustified(HandlerRan(t), f)
<1> DEFINE x == /\ \A n \in 1..Len(t.ws) : ~WS!Alive(t.ws[n])
                /\ \A n \in 1..Len(t.http) : ~HS!Alive(t.http[n])
           r == [t EXCEPT !.stopped = x]
<1>1. /\ t \in Services /\ Len(t.ws) \in 1..Len(t.ws) /\ Len(t.http) \in 1..Len(t.http)
      /\ WsGood(t.ws[Len(t.ws)]) /\ HsGood(t.http[Len(t.http)])
  BY InUse
<1>3. x => ~t.mHostOK /\ f.ws > 0
  <2> SUFFICES ASSUME x PROVE ~t.mHostOK /\ f.ws > 0
    OBVIOUS
  <2>1. t.mNeedReconnect
    <3> SUFFICES ASSUME ~t.mNeedReconnect PROVE FALSE
      OBVIOUS
    <3>1. ~t.ws[Len(t.ws)].failed
      BY DEF SvcOK, WsPart
    <3>2. WS!Alive(t.ws[Len(t.ws)])
      BY <1>1, <3>1, WsGoodAlive
    <3>. QED BY <1>1, <3>2
  <2>2. f.ws > 0
    BY <2>1 DEF SvcOK, WsPart
  <2>3. ~t.mHostOK
    <3> SUFFICES ASSUME t.mHostOK PROVE FALSE
      OBVIOUS
    <3>1. ~t.http[Len(t.http)].failed
      BY <2>1 DEF SvcOK, HttpPart
    <3>2. t.http[Len(t.http)].stage # "new"
      BY <1>1 DEF SvcOK, AllConnect
    <3>3. HS!Alive(t.http[Len(t.http)])
      BY <1>1, <3>1, <3>2, HsGoodAlive
    <3>. QED BY <1>1, <3>3
  <2>. QED BY <2>2, <2>3
<1>4. HandlerRan(t) = r
  BY DEF HandlerRan
<1>5. x \in BOOLEAN
  OBVIOUS
<1> HIDE DEF x
<1>6. /\ r \in Services /\ r.ws = t.ws /\ r.http = t.http /\ r.id = t.id
      /\ r.auth_id = t.auth_id /\ r.mNeedReconnect = t.mNeedReconnect
      /\ r.mHttpNeedReconnect = t.mHttpNeedReconnect /\ r.mHostOK = t.mHostOK
      /\ r.stopped = x
  BY <1>1, <1>5 DEF Services
<1> HIDE DEF r
<1>7. StopJustified(r, f)
  BY <1>3, <1>6 DEF StopJustified
<1>. QED BY <1>4, <1>6, <1>7 DEF SvcOK

\* The rest of RunOnce(): both errors are dealt with.
LEMMA AfterPollOK ==
  ASSUME NEW t, SvcOK(t, faults', replied', placed'), StopJustified(t, faults'), AfterPoll(t)
  PROVE  TSInv'
<1> DEFINE a == Reconnect(t)
           b == HttpReconnect(a)
<1>1. /\ SvcOK(a, faults', replied', placed') /\ ~a.mNeedReconnect
      /\ a.stopped = t.stopped /\ a.mHostOK = t.mHostOK
  BY ReconnectOK
<1> HIDE DEF a
<1>2. /\ SvcOK(b, faults', replied', placed') /\ ~b.mNeedReconnect /\ ~b.mHttpNeedReconnect
      /\ b.stopped = t.stopped /\ b.mHostOK = t.mHostOK
  BY <1>1, HttpReconnectOK
<1>3. svc' = b \/ svc' = SendHeartbeat(b)
  BY DEF AfterPoll, a
<1> HIDE DEF b
<1>4. LET r == SendHeartbeat(b)
      IN  /\ SvcOK(r, faults', replied', placed')
          /\ ~r.mNeedReconnect /\ ~r.mHttpNeedReconnect
          /\ r.stopped = t.stopped /\ r.mHostOK = t.mHostOK
  BY <1>2, SendHeartbeatOK
<1>. QED BY <1>2, <1>3, <1>4 DEF TSInv, StopJustified

-----------------------------------------------------------------------------
(* The actions: handlers of the WebSocket sessions. *)

\* The service after a handler of session n that sends nothing.
LEMMA WsHandled ==
  ASSUME TSInv, NEW n \in 1..Len(svc.ws), NEW u, WsKeep(svc.ws[n], u),
         u.failed = svc.ws[n].failed, NEW rep2, replied \subseteq rep2
  PROVE  LET r == [svc EXCEPT !.ws[n] = u]
         IN  SvcOK(r, faults, rep2, placed) /\ ~r.mNeedReconnect
<1> DEFINE r == [svc EXCEPT !.ws[n] = u]
<1>1. SvcOK(svc, faults, replied, placed) /\ svc \in Services /\ ~svc.mNeedReconnect
      /\ u \in WP!Sessions
  BY DEF TSInv, SvcOK, WsKeep, WsGood
<1>2. /\ r \in Services /\ r.ws \in Seq(WP!Sessions) /\ Replaced(r.ws, svc.ws, n, u)
      /\ OtherThanWs(r, svc)
  BY <1>1, WithOneWs
<1> HIDE DEF r
<1>3. /\ WsPart(svc.ws, svc.mNeedReconnect, svc.id, svc.auth_id, faults.ws, replied)
      /\ svc.mNeedReconnect \in BOOLEAN /\ faults.ws \in Nat
      /\ Len(svc.ws) = IF svc.mNeedReconnect THEN faults.ws ELSE faults.ws + 1
  BY <1>1 DEF SvcOK, WsPart
<1>4. WsPart(r.ws, svc.mNeedReconnect, svc.id, svc.auth_id, faults.ws, rep2)
  BY <1>2, <1>3, WsUpdate
<1>5. SvcOK(r, faults, rep2, placed) /\ ~r.mNeedReconnect
  BY <1>1, <1>2, <1>4 DEF SvcOK, OtherThanWs
<1>. QED BY <1>5 DEF r

\* fail() and onError().
LEMMA WsErrorHandled ==
  ASSUME TSInv, NEW n \in 1..Len(svc.ws), NEW u, WsKeep(svc.ws[n], u)
  PROVE  LET r == OnError([svc EXCEPT !.ws[n] = u])
         IN  SvcOK(r, [faults EXCEPT !.ws = @ + 1], replied, placed) /\ ~r.mHttpNeedReconnect
<1> DEFINE a == [svc EXCEPT !.ws[n] = u]
           r == [a EXCEPT !.mNeedReconnect = TRUE]
           f == [faults EXCEPT !.ws = @ + 1]
<1>1. /\ SvcOK(svc, faults, replied, placed) /\ svc \in Services /\ u \in WP!Sessions
      /\ faults \in [ws : Nat, http : Nat] /\ ~svc.mNeedReconnect /\ ~svc.mHttpNeedReconnect
  BY DEF TSInv, SvcOK, WsKeep, WsGood
<1>2. /\ a \in Services /\ a.ws \in Seq(WP!Sessions) /\ Replaced(a.ws, svc.ws, n, u)
      /\ OtherThanWs(a, svc)
  BY <1>1, WithOneWs
<1> HIDE DEF a
<1>3. /\ r \in Services /\ r.ws = a.ws /\ r.http = a.http /\ r.id = a.id
      /\ r.auth_id = a.auth_id /\ r.mNeedReconnect = TRUE
      /\ r.mHttpNeedReconnect = a.mHttpNeedReconnect /\ r.mHostOK = a.mHostOK
  BY <1>2 DEF Services
<1>4. f \in [ws : Nat, http : Nat] /\ f.ws = faults.ws + 1 /\ f.http = faults.http
  BY <1>1
<1> HIDE DEF r, f
<1>5. /\ WsPart(svc.ws, svc.mNeedReconnect, svc.id, svc.auth_id, faults.ws, replied)
      /\ Len(svc.ws) = f.ws /\ f.ws \in Nat
  BY <1>1, <1>4 DEF SvcOK, WsPart
<1>6. WsPart(a.ws, TRUE, svc.id, svc.auth_id, f.ws, replied)
  BY <1>2, <1>5, WsUpdate
<1>7. SvcOK(r, f, replied, placed) /\ ~r.mHttpNeedReconnect
  BY <1>1, <1>2, <1>3, <1>4, <1>6 DEF SvcOK, OtherThanWs
<1>. QED BY <1>7 DEF OnError, r, a, f

\* on_resolve(), on_connect(), on_ssl_handshake(), on_handshake()
LEMMA WsStageInv ==
  ASSUME TSInv, NEW n \in 1..Len(svc.ws), WsStage(n)
  PROVE  TSInv'
<1>1. PICK u : /\ AfterPoll(HandlerRan([svc EXCEPT !.ws[n] = u]))
               /\ WsKeep(svc.ws[n], u) /\ u.failed = svc.ws[n].failed
  <2> DEFINE s == svc.ws[n]
             Run(u) == AfterPoll(HandlerRan([svc EXCEPT !.ws[n] = u]))
  <2>1. WsGood(s)
    BY InUse DEF TSInv
  <2>2. CASE s.stage = "resolve" /\ Run(WS!OnResolve(s))
    <3>1. WsKeep(s, WS!OnResolve(s)) /\ WS!OnResolve(s).failed = s.failed
      BY <2>1, <2>2, WsStageGood
    <3>. QED BY <2>2, <3>1
  <2>3. CASE s.stage = "connect" /\ Run(WS!OnConnect(s))
    <3>1. WsKeep(s, WS!OnConnect(s)) /\ WS!OnConnect(s).failed = s.failed
      BY <2>1, <2>3, WsStageGood
    <3>. QED BY <2>3, <3>1
  <2>4. CASE s.stage = "ssl_handshake" /\ Run(WS!OnSslHandshake(s))
    <3>1. WsKeep(s, WS!OnSslHandshake(s)) /\ WS!OnSslHandshake(s).failed = s.failed
      BY <2>1, <2>4, WsStageGood
    <3>. QED BY <2>4, <3>1
  <2>5. CASE s.stage = "handshake" /\ Run(WS!OnHandshake(s))
    <3>1. WsKeep(s, WS!OnHandshake(s)) /\ WS!OnHandshake(s).failed = s.failed
      BY <2>1, <2>5, WsHandshakeGood
    <3>. QED BY <2>5, <3>1
  <2>. QED BY <2>2, <2>3, <2>4, <2>5 DEF WsStage
<1> DEFINE r == [svc EXCEPT !.ws[n] = u]
<1>2. faults' = faults /\ replied' = replied /\ placed' = placed
  BY DEF WsStage, servervars
<1>3. SvcOK(r, faults', replied', placed') /\ ~r.mNeedReconnect
  BY <1>1, <1>2, WsHandled
<1> HIDE DEF r
<1>4. SvcOK(HandlerRan(r), faults', replied', placed') /\ StopJustified(HandlerRan(r), faults')
  BY <1>3, HandlerRanOK
<1>. QED BY <1>1, <1>4, AfterPollOK DEF r

\* handle_tx()
LEMMA WsWriteInv ==
  ASSUME TSInv, NEW n \in 1..Len(svc.ws), WsWrite(n)
  PROVE  TSInv'
<1> DEFINE u == WS!HandleTx(svc.ws[n])
           r == [svc EXCEPT !.ws[n] = u]
<1>1. WsKeep(svc.ws[n], u) /\ u.failed = svc.ws[n].failed
  BY InUse, WsWriteGood DEF TSInv, WsWrite
<1>2. faults' = faults /\ replied' = replied /\ placed' = placed /\ AfterPoll(HandlerRan(r))
  BY DEF WsWrite, servervars
<1> HIDE DEF u
<1>3. SvcOK(r, faults', replied', placed') /\ ~r.mNeedReconnect
  BY <1>1, <1>2, WsHandled
<1> HIDE DEF r
<1>4. SvcOK(HandlerRan(r), faults', replied', placed') /\ StopJustified(HandlerRan(r), faults')
  BY <1>3, HandlerRanOK
<1>. QED BY <1>2, <1>4, AfterPollOK

\* An operation fails.
LEMMA WsFailsInv ==
  ASSUME TSInv, NEW n \in 1..Len(svc.ws), WsFails(n)
  PROVE  TSInv'
<1>1. PICK u : /\ AfterPoll(HandlerRan(OnError([svc EXCEPT !.ws[n] = u])))
               /\ WsKeep(svc.ws[n], u)
  <2> DEFINE s == svc.ws[n]
             Run(u) == AfterPoll(HandlerRan(OnError([svc EXCEPT !.ws[n] = u])))
  <2>1. WsGood(s)
    BY InUse DEF TSInv
  <2>2. CASE /\ s.stage \in {"resolve", "connect", "ssl_handshake", "handshake"}
             /\ Run(WS!FailStage(s))
    <3>1. WsKeep(s, WS!FailStage(s))
      BY <2>1, <2>2, WsFailGood
    <3>. QED BY <2>2, <3>1
  <2>3. CASE s.reads > 0 /\ Run(WS!FailRead(s))
    <3>1. WsKeep(s, WS!FailRead(s))
      BY <2>1, <2>3, WsFailGood
    <3>. QED BY <2>3, <3>1
  <2>4. CASE s.writes > 0 /\ Run(WS!FailTx(s))
    <3>1. WsKeep(s, WS!FailTx(s))
      BY <2>1, <2>4, WsFailGood
    <3>. QED BY <2>4, <3>1
  <2>. QED BY <2>2, <2>3, <2>4 DEF WsFails
<1> DEFINE r == OnError([svc EXCEPT !.ws[n] = u])
<1>2. faults' = [faults EXCEPT !.ws = @ + 1] /\ replied' = replied /\ placed' = placed
  BY DEF WsFails, servervars
<1>3. SvcOK(r, faults', replied', placed') /\ ~r.mHttpNeedReconnect
  BY <1>1, <1>2, WsErrorHandled
<1> HIDE DEF r
<1>4. SvcOK(HandlerRan(r), faults', replied', placed') /\ StopJustified(HandlerRan(r), faults')
  BY <1>3, HandlerRanOK
<1>. QED BY <1>1, <1>4, AfterPollOK DEF r

\* handle_read(): onMessage() sends a subscription only when m has the id it waits for, and
\* then on the session that m came from.
LEMMA WsReadInv ==
  ASSUME TSInv, NEW n \in 1..Len(svc.ws), NEW m, WsRead(n, m),
         m.kind \in {"auth", "subscribe", "ping", "push"}, m.orders \subseteq Orders,
         replied \subseteq replied',
         m.id = svc.auth_id =>
           n = Len(svc.ws) /\ \E i \in 1..Len(svc.ws[n].wire) :
             <<n, i>> \in replied' /\ Content(svc.ws[n])[i].id = svc.auth_id
  PROVE  TSInv'
<1> DEFINE s == svc.ws[n]
           q == WS!ReadDone(s)
           a == [svc EXCEPT !.ws[n] = q]
           t == OnMessage(a, m)
           x == [t EXCEPT !.ws[n] = WS!CheckRead(@)]
<1>1. /\ s.reads > 0 /\ AfterPoll(HandlerRan(x)) /\ faults' = faults /\ placed' = placed
  BY DEF WsRead
<1>2. /\ SvcOK(svc, faults, replied, placed) /\ svc \in Services /\ ~svc.mNeedReconnect
      /\ svc.mNeedReconnect = FALSE /\ svc.id \in Nat /\ svc.auth_id \in Nat
      /\ WsGood(s) /\ faults \in [ws : Nat, http : Nat]
      /\ svc.reported \subseteq Orders
  BY InUse DEF TSInv, SvcOK, Services
<1>3. /\ q \in WP!Sessions /\ WsKeep(s, WS!CheckRead(q)) /\ WS!CheckRead(q).failed = s.failed
  BY <1>1, <1>2, WsReadGood
<1> HIDE DEF q
<1>4. /\ a \in Services /\ a.ws \in Seq(WP!Sessions) /\ Replaced(a.ws, svc.ws, n, q)
      /\ OtherThanWs(a, svc)
  BY <1>2, <1>3, WithOneWs
<1>5. /\ Len(a.ws) = Len(svc.ws) /\ a.ws[n] = q /\ n \in 1..Len(a.ws) /\ a.auth_id = svc.auth_id
      /\ a.id = svc.id /\ a.reported = svc.reported
  BY <1>4 DEF Replaced, OtherThanWs
<1> HIDE DEF a, s
<1>6. /\ WsPart(svc.ws, FALSE, svc.id, svc.auth_id, faults.ws, replied)
      /\ HttpPart(svc.http, svc.mHttpNeedReconnect, faults.http, placed)
      /\ faults.ws \in Nat /\ Len(svc.ws) = faults.ws + 1 /\ placed \subseteq Orders
      /\ svc.mHostOK => AllConnect(svc.http)
  BY <1>2 DEF SvcOK, WsPart
<1>7. SvcOK(x, faults', replied', placed') /\ ~x.mNeedReconnect
  <2>1. CASE m.id # svc.auth_id
    <3> DEFINE R == a.reported \cup m.orders
               u == WS!CheckRead(q)
    <3>1. R \subseteq Orders
      BY <1>2, <1>5
    <3>2. t = [a EXCEPT !.reported = R]
      BY <1>5, <2>1 DEF OnMessage
    <3> HIDE DEF t, R
    <3>3. /\ t \in Services /\ t.ws = a.ws /\ t.http = a.http /\ t.id = a.id
          /\ t.auth_id = a.auth_id /\ t.mNeedReconnect = a.mNeedReconnect
          /\ t.mHttpNeedReconnect = a.mHttpNeedReconnect /\ t.mHostOK = a.mHostOK
      BY <1>4, <3>1, <3>2 DEF Services
    <3>4. x = [t EXCEPT !.ws[n] = u]
      BY <1>5, <3>3
    <3>5. u \in WP!Sessions
      BY <1>3 DEF WsKeep, WsGood
    <3> HIDE DEF x, u
    <3>6. /\ x \in Services /\ x.ws \in Seq(WP!Sessions) /\ Replaced(x.ws, t.ws, n, u)
          /\ OtherThanWs(x, t)
      BY <1>5, <3>3, <3>4, <3>5, WithOneWs
    <3>7. Replaced(x.ws, svc.ws, n, u)
      BY <1>4, <3>3, <3>6 DEF Replaced
    <3>8. WsPart(x.ws, FALSE, svc.id, svc.auth_id, faults.ws, replied')
      <4>1. WsKeep(svc.ws[n], u) /\ u.failed = svc.ws[n].failed
        BY <1>3 DEF u, s
      <4>2. FALSE \in BOOLEAN
        OBVIOUS
      <4>. QED BY <1>6, <3>6, <3>7, <4>1, <4>2, WsUpdate
    <3>9. /\ x.http = svc.http /\ x.id = svc.id /\ x.auth_id = svc.auth_id
          /\ x.mNeedReconnect = FALSE /\ x.mHttpNeedReconnect = svc.mHttpNeedReconnect
          /\ x.mHostOK = svc.mHostOK
      BY <1>2, <1>4, <3>3, <3>6 DEF OtherThanWs
    <3>. QED BY <1>1, <1>2, <1>6, <3>6, <3>8, <3>9 DEF SvcOK
  <2>2. CASE m.id = svc.auth_id
    <3>1. PICK k \in Nat : k = svc.id + 1
      BY <1>2
    <3> DEFINE A == a.accepted \cup {m.kind}
               R == a.reported \cup m.orders
               sub == [kind |-> "subscribe", id |-> k]
               b == [a EXCEPT !.accepted = A]
               c == [b EXCEPT !.id = k]
               w == WS!Send(q, sub)
               d == [c EXCEPT !.ws[n] = w]
               u == WS!CheckRead(w)
    <3>2. n = Len(svc.ws) /\ n = Len(a.ws) /\ R \subseteq Orders
      BY <1>2, <1>5, <2>2
    <3>3. A \subseteq {"auth", "subscribe", "ping", "push"}
      BY <1>4 DEF Services
    <3>4. sub \in WsMsg /\ sub.kind = "subscribe" /\ sub.id = k
      BY <3>1 DEF WsMsg
    <3> HIDE DEF A, R, sub
    <3>5. w \in WP!Sessions /\ WsSent(s, u, sub)
      BY <1>1, <1>2, <3>4, WsReadSendGood DEF q
    <3>6. u \in WP!Sessions
      BY <3>5 DEF WsSent, WsGood
    <3> HIDE DEF w
    <3>7. /\ c \in Services /\ c.ws = a.ws /\ c.http = a.http /\ c.id = k
          /\ c.auth_id = a.auth_id /\ c.mNeedReconnect = a.mNeedReconnect
          /\ c.mHttpNeedReconnect = a.mHttpNeedReconnect /\ c.reported = a.reported
          /\ c.mHostOK = a.mHostOK
      <4>1. /\ b \in Services /\ b.ws = a.ws /\ b.http = a.http
            /\ b.auth_id = a.auth_id /\ b.mNeedReconnect = a.mNeedReconnect
            /\ b.mHttpNeedReconnect = a.mHttpNeedReconnect /\ b.reported = a.reported
            /\ b.mHostOK = a.mHostOK
        BY <1>4, <3>3 DEF Services
      <4> HIDE DEF b
      <4>. QED BY <4>1 DEF Services
    <3>8. b.ws = a.ws /\ b.id = a.id
      BY <1>4, <3>3 DEF Services
    <3> HIDE DEF b
    <3>9. SendSubscribe(b) = d
      <4>1. SendSubscribe(b) = WsSend(c, sub)
        BY <1>5, <3>1, <3>8 DEF SendSubscribe, sub
      <4>2. c.ws[Len(c.ws)] = q /\ Len(c.ws) = n
        BY <1>5, <3>2, <3>7
      <4> HIDE DEF c
      <4>. QED BY <4>1, <4>2 DEF WsSend, w
    <3> HIDE DEF c
    <3>10. /\ d \in Services /\ d.ws \in Seq(WP!Sessions) /\ Replaced(d.ws, c.ws, n, w)
           /\ OtherThanWs(d, c)
      BY <1>5, <3>5, <3>7, WithOneWs
    <3>11. t = [d EXCEPT !.reported = R]
      <4>1. d.reported = a.reported
        BY <3>7, <3>10 DEF OtherThanWs
      <4> HIDE DEF d
      <4>. QED BY <1>5, <2>2, <3>9, <4>1 DEF OnMessage, b, A, R
    <3> HIDE DEF t, d
    <3>12. /\ t \in Services /\ t.ws = d.ws /\ t.http = d.http /\ t.id = d.id
           /\ t.auth_id = d.auth_id /\ t.mNeedReconnect = d.mNeedReconnect
           /\ t.mHttpNeedReconnect = d.mHttpNeedReconnect /\ t.mHostOK = d.mHostOK
      BY <3>2, <3>10, <3>11 DEF Services
    <3>13. t.ws[n] = w /\ Len(t.ws) = Len(svc.ws) /\ n \in 1..Len(t.ws)
      BY <1>5, <3>7, <3>10, <3>12 DEF Replaced
    <3>14. x = [t EXCEPT !.ws[n] = u]
      BY <3>13
    <3> HIDE DEF x, u
    <3>15. /\ x \in Services /\ x.ws \in Seq(WP!Sessions) /\ Replaced(x.ws, t.ws, n, u)
           /\ OtherThanWs(x, t)
      BY <3>6, <3>12, <3>13, <3>14, WithOneWs
    <3>16. Replaced(x.ws, svc.ws, Len(svc.ws), u)
      BY <1>4, <3>2, <3>7, <3>10, <3>12, <3>13, <3>15 DEF Replaced
    <3>17. WsPart(x.ws, FALSE, k, svc.auth_id, faults.ws, replied')
      <4>1. svc.id <= k /\ sub.id <= k /\ sub.kind # "auth"
        BY <1>2, <3>1, <3>4
      <4>2. WsSent(svc.ws[Len(svc.ws)], u, sub)
        BY <3>2, <3>5 DEF s
      <4>3. \E i \in 1..Len(svc.ws[Len(svc.ws)].wire) :
              <<Len(svc.ws), i>> \in replied' /\ Content(svc.ws[Len(svc.ws)])[i].id = svc.auth_id
        BY <2>2, <3>2
      <4>. QED BY <1>6, <3>4, <3>15, <3>16, <4>1, <4>2, <4>3, WsSendLast
    <3>18. /\ x.http = svc.http /\ x.id = k /\ x.auth_id = svc.auth_id
           /\ x.mNeedReconnect = FALSE /\ x.mHttpNeedReconnect = svc.mHttpNeedReconnect
          /\ x.mHostOK = svc.mHostOK
      BY <1>2, <1>4, <3>7, <3>10, <3>12, <3>15 DEF OtherThanWs
    <3>. QED BY <1>1, <1>2, <1>6, <3>15, <3>17, <3>18 DEF SvcOK
  <2>. QED BY <2>1, <2>2
<1> HIDE DEF x
<1>8. SvcOK(HandlerRan(x), faults', replied', placed') /\ StopJustified(HandlerRan(x), faults')
  BY <1>7, HandlerRanOK
<1>. QED BY <1>1, <1>8, AfterPollOK

\* A reply with the id of the authentication in use is one to the session in use.
LEMMA WsReplyInv ==
  ASSUME TSInv, NEW n \in 1..Len(svc.ws), NEW i \in 1..Len(svc.ws[n].wire), WsReply(n, i)
  PROVE  TSInv'
<1> DEFINE s == svc.ws[n]
           q == s.wire[i]
           m == [id |-> q.id, kind |-> q.kind, orders |-> {}]
<1>1. WsRead(n, m) /\ replied' = replied \cup {<<n, i>>}
  BY DEF WsReply
<1>2. WsGood(s) /\ WsPart(svc.ws, svc.mNeedReconnect, svc.id, svc.auth_id, faults.ws, replied)
  BY InUse DEF TSInv, SvcOK
<1>3. /\ Content(s)[i] = q /\ i \in 1..Len(Content(s)) /\ q \in WsMsg
  BY <1>2, WsContent DEF WsGood
<1>4. m.kind \in {"auth", "subscribe", "ping", "push"} /\ m.orders \subseteq Orders
  BY <1>3 DEF WsMsg
<1>5. q.id = svc.auth_id => n = Len(svc.ws)
  <2> SUFFICES ASSUME n # Len(svc.ws) PROVE q.id # svc.auth_id
    OBVIOUS
  <2>1. Len(svc.ws) \in Nat /\ svc.auth_id \in Nat
    BY InUse DEF TSInv, Services
  <2>2. IdsBelow(s, svc.auth_id)
    BY <1>2, <2>1 DEF WsPart
  <2>3. q.id \in Nat
    BY <1>3 DEF WsMsg
  <2>. QED BY <1>3, <2>1, <2>2, <2>3 DEF IdsBelow
<1>6. m.id = q.id
  OBVIOUS
<1> HIDE DEF m, q
<1>7. m.id = svc.auth_id =>
        n = Len(svc.ws) /\ \E j \in 1..Len(svc.ws[n].wire) :
          <<n, j>> \in replied' /\ Content(svc.ws[n])[j].id = svc.auth_id
  BY <1>1, <1>3, <1>5, <1>6
<1>. QED BY <1>1, <1>4, <1>7, WsReadInv

\* A push has no id, so it is never taken for a reply.
LEMMA WsPushInv ==
  ASSUME TSInv, NEW n \in 1..Len(svc.ws), NEW o \in Orders, WsPush(n, o)
  PROVE  TSInv'
<1> DEFINE m == [id |-> 0, kind |-> "push", orders |-> {o}]
<1>1. WsRead(n, m) /\ replied' = replied
  BY DEF WsPush
<1>2. m.kind \in {"auth", "subscribe", "ping", "push"} /\ m.orders \subseteq Orders
  OBVIOUS
<1>3. m.id # svc.auth_id
  BY DEF TSInv, SvcOK, WsPart
<1> HIDE DEF m
<1>. QED BY <1>1, <1>2, <1>3, WsReadInv

-----------------------------------------------------------------------------
(* The actions: the HTTP sessions. *)

\* The service, in state t but for its HTTP sessions, after a handler of session n.
LEMMA HttpHandled ==
  ASSUME TSInv, NEW n \in 1..Len(svc.http), NEW u, HsKeep(svc.http[n], u),
         u.failed = svc.http[n].failed,
         NEW t, SvcOK(t, faults, replied, placed), t.http = svc.http, ~t.mHttpNeedReconnect,
         t.mNeedReconnect = svc.mNeedReconnect, t.stopped = svc.stopped, t.mHostOK = svc.mHostOK
  PROVE  LET r == [t EXCEPT !.http[n] = u]
         IN  /\ SvcOK(r, faults, replied, placed) /\ ~r.mHttpNeedReconnect /\ ~r.mNeedReconnect
             /\ r.stopped = svc.stopped /\ r.mHostOK = svc.mHostOK
<1> DEFINE r == [t EXCEPT !.http[n] = u]
<1>1. t \in Services /\ u \in HP!Sessions
  BY DEF SvcOK, HsKeep, HsGood
<1>2. /\ r \in Services /\ r.http \in Seq(HP!Sessions) /\ Replaced(r.http, t.http, n, u)
      /\ OtherThanHttp(r, t)
  BY <1>1, WithOneHttp
<1> HIDE DEF r
<1>3. /\ HttpPart(t.http, t.mHttpNeedReconnect, faults.http, placed)
      /\ t.mHttpNeedReconnect \in BOOLEAN /\ faults.http \in Nat
      /\ Len(t.http) = IF t.mHttpNeedReconnect THEN faults.http ELSE faults.http + 1
  BY DEF SvcOK, HttpPart
<1>4. HttpPart(r.http, t.mHttpNeedReconnect, faults.http, placed)
  BY <1>2, <1>3, HttpUpdate
<1>5. t.mHostOK => AllConnect(r.http)
  BY <1>2, StillConnect DEF SvcOK, HsKeep
<1>6. SvcOK(r, faults, replied, placed)
  BY <1>2, <1>4, <1>5 DEF SvcOK, OtherThanHttp
<1>7. /\ ~r.mHttpNeedReconnect /\ ~r.mNeedReconnect
      /\ r.stopped = svc.stopped /\ r.mHostOK = svc.mHostOK
  BY <1>2 DEF TSInv, OtherThanHttp
<1>. QED BY <1>6, <1>7 DEF r

\* fail() and onHttpError().
LEMMA HttpErrorHandled ==
  ASSUME TSInv, NEW n \in 1..Len(svc.http), NEW u, HsKeep(svc.http[n], u)
  PROVE  LET r == OnHttpError([svc EXCEPT !.http[n] = u])
         IN  SvcOK(r, [faults EXCEPT !.http = @ + 1], replied, placed) /\ ~r.mNeedReconnect
<1> DEFINE a == [svc EXCEPT !.http[n] = u]
           r == [a EXCEPT !.mHttpNeedReconnect = TRUE]
           f == [faults EXCEPT !.http = @ + 1]
<1>1. /\ SvcOK(svc, faults, replied, placed) /\ svc \in Services /\ u \in HP!Sessions
      /\ faults \in [ws : Nat, http : Nat] /\ ~svc.mNeedReconnect /\ ~svc.mHttpNeedReconnect
  BY DEF TSInv, SvcOK, HsKeep, HsGood
<1>2. /\ a \in Services /\ a.http \in Seq(HP!Sessions) /\ Replaced(a.http, svc.http, n, u)
      /\ OtherThanHttp(a, svc)
  BY <1>1, WithOneHttp
<1> HIDE DEF a
<1>3. /\ r \in Services /\ r.ws = a.ws /\ r.http = a.http /\ r.id = a.id
      /\ r.auth_id = a.auth_id /\ r.mHttpNeedReconnect = TRUE
      /\ r.mNeedReconnect = a.mNeedReconnect /\ r.mHostOK = a.mHostOK
  BY <1>2 DEF Services
<1>4. f \in [ws : Nat, http : Nat] /\ f.http = faults.http + 1 /\ f.ws = faults.ws
  BY <1>1
<1> HIDE DEF r, f
<1>5. /\ HttpPart(svc.http, svc.mHttpNeedReconnect, faults.http, placed)
      /\ Len(svc.http) = f.http /\ f.http \in Nat
  BY <1>1, <1>4 DEF SvcOK, HttpPart
<1>6. HttpPart(a.http, TRUE, f.http, placed)
  BY <1>2, <1>5, HttpUpdate
<1>7. svc.mHostOK => AllConnect(a.http)
  BY <1>1, <1>2, StillConnect DEF SvcOK, HsKeep
<1>8. SvcOK(r, f, replied, placed) /\ ~r.mNeedReconnect
  BY <1>1, <1>2, <1>3, <1>4, <1>6, <1>7 DEF SvcOK, OtherThanHttp
<1>. QED BY <1>8 DEF OnHttpError, r, a, f

\* on_resolve(), on_connect(), on_handshake()
LEMMA HttpStageInv ==
  ASSUME TSInv, NEW n \in 1..Len(svc.http), HttpStage(n)
  PROVE  TSInv'
<1>1. PICK u : /\ AfterPoll(HandlerRan([svc EXCEPT !.http[n] = u]))
               /\ HsKeep(svc.http[n], u) /\ u.failed = svc.http[n].failed
  <2> DEFINE s == svc.http[n]
             Run(u) == AfterPoll(HandlerRan([svc EXCEPT !.http[n] = u]))
  <2>1. HsGood(s)
    BY InUse DEF TSInv
  <2>2. CASE s.stage = "resolve" /\ Run(HS!OnResolve(s))
    <3>1. HsKeep(s, HS!OnResolve(s)) /\ HS!OnResolve(s).failed = s.failed
      BY <2>1, <2>2, HsStageGood
    <3>. QED BY <2>2, <3>1
  <2>3. CASE s.stage = "connect" /\ Run(HS!OnConnect(s))
    <3>1. HsKeep(s, HS!OnConnect(s)) /\ HS!OnConnect(s).failed = s.failed
      BY <2>1, <2>3, HsStageGood
    <3>. QED BY <2>3, <3>1
  <2>4. CASE s.stage = "handshake" /\ Run(HS!OnHandshake(s))
    <3>1. HsKeep(s, HS!OnHandshake(s)) /\ HS!OnHandshake(s).failed = s.failed
      BY <2>1, <2>4, HsHandshakeGood
    <3>. QED BY <2>4, <3>1
  <2>. QED BY <2>2, <2>3, <2>4 DEF HttpStage
<1> DEFINE r == [svc EXCEPT !.http[n] = u]
<1>2. faults' = faults /\ replied' = replied /\ placed' = placed
  BY DEF HttpStage, servervars
<1>3. SvcOK(r, faults', replied', placed') /\ ~r.mHttpNeedReconnect
  BY <1>1, <1>2, HttpHandled DEF TSInv
<1> HIDE DEF r
<1>4. SvcOK(HandlerRan(r), faults', replied', placed') /\ StopJustified(HandlerRan(r), faults')
  BY <1>3, HandlerRanOK
<1>. QED BY <1>1, <1>4, AfterPollOK DEF r

\* handle_tx()
LEMMA HttpWriteInv ==
  ASSUME TSInv, NEW n \in 1..Len(svc.http), HttpWrite(n)
  PROVE  TSInv'
<1> DEFINE u == HS!HandleTx(svc.http[n])
           r == [svc EXCEPT !.http[n] = u]
<1>1. HsKeep(svc.http[n], u) /\ u.failed = svc.http[n].failed
  BY InUse, HsWriteGood DEF TSInv, HttpWrite
<1>2. faults' = faults /\ replied' = replied /\ placed' = placed /\ AfterPoll(HandlerRan(r))
  BY DEF HttpWrite, servervars
<1> HIDE DEF u
<1>3. SvcOK(r, faults', replied', placed') /\ ~r.mHttpNeedReconnect
  <2>1. SvcOK(svc, faults, replied, placed) /\ ~svc.mHttpNeedReconnect
    BY DEF TSInv
  <2>2. SvcOK(r, faults, replied, placed) /\ ~r.mHttpNeedReconnect
    BY <1>1, <2>1, HttpHandled
  <2>. QED BY <1>2, <2>2
<1> HIDE DEF r
<1>4. SvcOK(HandlerRan(r), faults', replied', placed') /\ StopJustified(HandlerRan(r), faults')
  BY <1>3, HandlerRanOK
<1>. QED BY <1>2, <1>4, AfterPollOK

\* The server answers.
LEMMA HttpAnswerInv ==
  ASSUME TSInv, NEW n \in 1..Len(svc.http), HttpAnswer(n)
  PROVE  TSInv'
<1> DEFINE u == HS!ServerAnswers(svc.http[n])
           r == [svc EXCEPT !.http[n] = u]
<1>1. HsKeep(svc.http[n], u) /\ u.failed = svc.http[n].failed
  BY InUse, HsAnswerGood DEF TSInv, HttpAnswer
<1>2. faults' = faults /\ replied' = replied /\ placed' = placed /\ svc' = r
  BY DEF HttpAnswer, servervars
<1> HIDE DEF u
<1>3. /\ SvcOK(r, faults, replied, placed) /\ ~r.mHttpNeedReconnect /\ ~r.mNeedReconnect
      /\ r.stopped = svc.stopped /\ r.mHostOK = svc.mHostOK
  <2>1. SvcOK(svc, faults, replied, placed) /\ ~svc.mHttpNeedReconnect
    BY DEF TSInv
  <2>. QED BY <1>1, <2>1, HttpHandled
<1> HIDE DEF r
<1>. QED BY <1>2, <1>3 DEF TSInv, StopJustified

\* handle_read() and onHttpMessage(): only orders are reported.
LEMMA HttpReadInv ==
  ASSUME TSInv, NEW n \in 1..Len(svc.http), HttpRead(n)
  PROVE  TSInv'
<1> DEFINE s == svc.http[n]
<1>1. PICK k \in 0..Len(s.socket), code \in {0, 1} :
        /\ HS!ReadCompletes(s, k)
        /\ LET r == s.wire[HS!Delivered(s, k)]
               t == OnHttpMessage(svc, r, code)
           IN  AfterPoll(HandlerRan([t EXCEPT !.http[n] = HS!CheckRead(HS!ReadDone(@, k))]))
  BY DEF HttpRead
<1> DEFINE req == s.wire[HS!Delivered(s, k)]
           t == OnHttpMessage(svc, req, code)
           u == HS!CheckRead(HS!ReadDone(s, k))
           r == [t EXCEPT !.http[n] = u]
<1>2. faults' = faults /\ replied' = replied /\ placed' = placed
  BY DEF HttpRead, servervars
<1>3. /\ HsGood(s) /\ SvcOK(svc, faults, replied, placed) /\ svc \in Services
      /\ ~svc.mHttpNeedReconnect
  BY InUse DEF TSInv
<1>4. HsKeep(s, u) /\ u.failed = s.failed /\ HS!Delivered(s, k) \in 1..Len(s.wire)
  BY <1>1, <1>3, HsReadGood
<1>5. req \in Requests
  <2>1. s.wire \in Seq(Requests)
    BY <1>3 DEF HsGood, HP!Sessions
  <2>. QED BY <1>4, <2>1, ElementOfSeq
<1> HIDE DEF req
<1>6. /\ SvcOK(t, faults, replied, placed) /\ t.http = svc.http /\ ~t.mHttpNeedReconnect
      /\ t.mNeedReconnect = svc.mNeedReconnect /\ t.stopped = svc.stopped
      /\ t.mHostOK = svc.mHostOK
  <2>1. CASE req.kind = "book" \/ code # 0
    BY <1>3, <2>1 DEF OnHttpMessage
  <2>2. CASE ~(req.kind = "book" \/ code # 0)
    <3> DEFINE R == svc.reported \cup {req.order}
    <3>1. req.order \in Orders
      BY <1>5, <2>2 DEF Requests
    <3>2. R \subseteq Orders
      BY <1>3, <3>1 DEF Services
    <3>3. t = [svc EXCEPT !.reported = R]
      BY <2>2 DEF OnHttpMessage
    <3> HIDE DEF R, t
    <3>4. /\ t \in Services /\ t.ws = svc.ws /\ t.http = svc.http /\ t.id = svc.id
          /\ t.auth_id = svc.auth_id /\ t.mNeedReconnect = svc.mNeedReconnect
          /\ t.mHttpNeedReconnect = svc.mHttpNeedReconnect /\ t.stopped = svc.stopped
          /\ t.mHostOK = svc.mHostOK
      BY <1>3, <3>2, <3>3 DEF Services
    <3>. QED BY <1>3, <3>4 DEF SvcOK
  <2>. QED BY <2>1, <2>2
<1>7. AfterPoll(HandlerRan(r))
  <2>1. t.http[n] = s
    BY <1>6
  <2>2. [t EXCEPT !.http[n] = HS!CheckRead(HS!ReadDone(@, k))] = r
    BY <2>1
  <2>. QED BY <1>1, <2>2 DEF req
<1> HIDE DEF t, u
<1>8. SvcOK(r, faults', replied', placed') /\ ~r.mHttpNeedReconnect
  BY <1>2, <1>4, <1>6, HttpHandled
<1> HIDE DEF r
<1>9. SvcOK(HandlerRan(r), faults', replied', placed') /\ StopJustified(HandlerRan(r), faults')
  BY <1>8, HandlerRanOK
<1>. QED BY <1>7, <1>9, AfterPollOK

\* An operation fails.
LEMMA HttpFailsInv ==
  ASSUME TSInv, NEW n \in 1..Len(svc.http), HttpFails(n)
  PROVE  TSInv'
<1>1. PICK u : /\ AfterPoll(HandlerRan(OnHttpError([svc EXCEPT !.http[n] = u])))
               /\ HsKeep(svc.http[n], u)
  <2> DEFINE s == svc.http[n]
             Run(u) == AfterPoll(HandlerRan(OnHttpError([svc EXCEPT !.http[n] = u])))
  <2>1. HsGood(s)
    BY InUse DEF TSInv
  <2>2. CASE s.stage \in {"resolve", "connect", "handshake"} /\ Run(HS!FailStage(s))
    <3>1. HsKeep(s, HS!FailStage(s))
      BY <2>1, <2>2, HsFailGood
    <3>. QED BY <2>2, <3>1
  <2>3. CASE s.reads > 0 /\ Run(HS!FailRead(s))
    <3>1. HsKeep(s, HS!FailRead(s))
      BY <2>1, <2>3, HsFailGood
    <3>. QED BY <2>3, <3>1
  <2>4. CASE s.writes > 0 /\ Run(HS!FailTx(s))
    <3>1. HsKeep(s, HS!FailTx(s))
      BY <2>1, <2>4, HsFailGood
    <3>. QED BY <2>4, <3>1
  <2>. QED BY <2>2, <2>3, <2>4 DEF HttpFails
<1> DEFINE r == OnHttpError([svc EXCEPT !.http[n] = u])
<1>2. faults' = [faults EXCEPT !.http = @ + 1] /\ replied' = replied /\ placed' = placed
  BY DEF HttpFails, servervars
<1>3. SvcOK(r, faults', replied', placed') /\ ~r.mNeedReconnect
  BY <1>1, <1>2, HttpErrorHandled
<1> HIDE DEF r
<1>4. SvcOK(HandlerRan(r), faults', replied', placed') /\ StopJustified(HandlerRan(r), faults')
  BY <1>3, HandlerRanOK
<1>. QED BY <1>1, <1>4, AfterPollOK DEF r

-----------------------------------------------------------------------------
(* The actions: calls of the client. *)

\* A request that no session has is sent on the session in use.
LEMMA RequestSent ==
  ASSUME TSInv, NEW req \in Requests, svc' = HttpSend(svc, req),
         faults' = faults, replied' = replied,
         \A k \in 1..Len(svc.http) : \A i \in 1..Len(Content(svc.http[k])) :
           Content(svc.http[k])[i] # req,
         placed \subseteq placed', placed' \subseteq Orders,
         \A o \in Orders : req = Place(o) => o \in placed',
         \A o \in placed' : o \in placed \/ req = Place(o)
  PROVE  TSInv'
<1> DEFINE u == HS!Send(svc.http[Len(svc.http)], req)
<1>1. /\ SvcOK(svc, faults, replied, placed) /\ svc \in Services /\ Len(svc.http) > 0
      /\ HsGood(svc.http[Len(svc.http)])
  BY InUse DEF TSInv
<1>2. /\ svc' \in Services /\ svc'.http \in Seq(HP!Sessions)
      /\ Replaced(svc'.http, svc.http, Len(svc.http), u) /\ OtherThanHttp(svc', svc)
      /\ HsSent(svc.http[Len(svc.http)], u, req)
  BY <1>1, HttpSendRec
<1> HIDE DEF u
<1>3. HttpPart(svc.http, svc.mHttpNeedReconnect, faults.http, placed)
  BY <1>1 DEF SvcOK
<1>4. HttpPart(svc'.http, svc.mHttpNeedReconnect, faults.http, placed')
  BY <1>2, <1>3, HttpSendLast
<1>5. svc.mHostOK => AllConnect(svc'.http)
  <2>1. Len(svc.http) \in 1..Len(svc.http)
    BY InUse DEF TSInv
  <2>. QED BY <1>1, <1>2, <2>1, StillConnect DEF SvcOK, HsSent
<1>6. SvcOK(svc', faults', replied', placed')
  BY <1>1, <1>2, <1>4, <1>5 DEF SvcOK, OtherThanHttp
<1>. QED BY <1>2, <1>6 DEF TSInv, OtherThanHttp, StopJustified

\* An order id is used once, so no session has its request yet.
LEMMA PlaceOrderInv ==
  ASSUME TSInv, NEW o \in Orders, PlaceOrder(o)
  PROVE  TSInv'
<1>1. /\ o \notin placed /\ placed' = placed \cup {o} /\ svc' = HttpSend(svc, Place(o))
      /\ faults' = faults /\ replied' = replied
  BY DEF PlaceOrder, Place, servervars
<1>2. Place(o) \in Requests /\ placed \subseteq Orders
  BY DEF Place, Requests, TSInv, SvcOK
<1>3. \A k \in 1..Len(svc.http) : \A i \in 1..Len(Content(svc.http[k])) :
        Content(svc.http[k])[i] # Place(o)
  BY <1>1 DEF TSInv, SvcOK, HttpPart
<1>4. \A x \in Orders : Place(o) = Place(x) => x = o
  <2> TAKE x \in Orders
  <2>1. Place(o).order = o /\ Place(x).order = x
    BY DEF Place
  <2>. QED BY <2>1
<1>. QED BY <1>1, <1>2, <1>3, <1>4, RequestSent

\* An order is cancelled once.
LEMMA CancelOrderInv ==
  ASSUME TSInv, NEW o \in Orders, CancelOrder(o)
  PROVE  TSInv'
<1> DEFINE req == [kind |-> "cancel", order |-> o]
<1>1. /\ \A k \in 1..Len(svc.http) : ~InSession(svc.http[k], req)
      /\ svc' = HttpSend(svc, req) /\ placed' = placed
      /\ faults' = faults /\ replied' = replied
  BY DEF CancelOrder, servervars
<1>2. req \in Requests /\ placed \subseteq Orders
  BY DEF Requests, TSInv, SvcOK
<1>3. \A x \in Orders : req # Place(x)
  <2> TAKE x \in Orders
  <2>1. Place(x).kind = "place" /\ req.kind = "cancel"
    BY DEF Place
  <2>. QED BY <2>1
<1> HIDE DEF req
<1>4. \A k \in 1..Len(svc.http) : \A i \in 1..Len(Content(svc.http[k])) :
        Content(svc.http[k])[i] # req
  BY <1>1 DEF InSession, Content
<1>. QED BY <1>1, <1>2, <1>3, <1>4, RequestSent

\* A call of curl, and its return, leave the sessions alone.
LEMMA CurlInv ==
  ASSUME TSInv, \/ \E orders \in SUBSET Orders : Curl(orders)
                \/ CurlReturns
  PROVE  TSInv'
<1>1. svc \in Services /\ SvcOK(svc, faults, replied, placed)
  BY DEF TSInv, SvcOK
<1> DEFINE Same ==
      /\ svc' \in Services /\ svc'.ws = svc.ws /\ svc'.http = svc.http /\ svc'.id = svc.id
      /\ svc'.auth_id = svc.auth_id /\ svc'.mNeedReconnect = svc.mNeedReconnect
      /\ svc'.mHttpNeedReconnect = svc.mHttpNeedReconnect /\ svc'.stopped = svc.stopped
      /\ svc'.mHostOK = svc.mHostOK
<1>2. Same
  <2>1. ASSUME NEW orders \in SUBSET Orders, Curl(orders)
        PROVE  Same
    <3>1. PICK y \in Nat : y = svc.syncs + 1
      BY <1>1 DEF Services
    <3>2. PICK z \in SUBSET Orders : z = svc.curled \cup orders
      BY <1>1 DEF Services
    <3>3. svc' = [svc EXCEPT !.busy = TRUE, !.syncs = y, !.curled = z]
      BY <2>1, <3>1, <3>2 DEF Curl
    <3>. QED BY <1>1, <3>3 DEF Services
  <2>2. CASE CurlReturns
    <3>1. svc' = [svc EXCEPT !.busy = FALSE]
      BY <2>2 DEF CurlReturns
    <3>. QED BY <1>1, <3>1 DEF Services
  <2>. QED BY <2>1, <2>2
<1>3. faults' = faults /\ replied' = replied /\ placed' = placed
  BY DEF Curl, CurlReturns, servervars
<1>4. SvcOK(svc', faults', replied', placed')
  BY <1>1, <1>2, <1>3 DEF SvcOK
<1>. QED BY <1>2, <1>3, <1>4 DEF TSInv, StopJustified

-----------------------------------------------------------------------------
(* The invariant. *)

\* Connect(): the sessions connect, the HTTP session unless its host is refused, and the
\* authentication waits in the WebSocket session.
LEMMA TSInvInit == Init => TSInv
<1> SUFFICES ASSUME Init PROVE TSInv
  OBVIOUS
<1>0. PICK k \in Nat : k = 1001
  OBVIOUS
<1>1. PICK ok \in BOOLEAN : svc = ConnectService(NewService, ok)
  BY DEF Init
<1> DEFINE s == WS!Connect(WS!NewSession)
           h == HS!Connect(HS!NewSession, ok)
           m == [kind |-> "auth", id |-> 1001]
           a == [NewService EXCEPT !.ws[1] = s]
           b == [a EXCEPT !.id = k, !.auth_id = k]
           c == WsSend(b, m)
           e == [c EXCEPT !.mHostOK = ok]
           d == [e EXCEPT !.http[1] = h]
           u == WS!Send(s, m)
<1>2. WsGood(s) /\ Content(s) = <<>> /\ ~s.failed /\ s \in WP!Sessions
  BY WsNewGood DEF WsGood
<1>3. HsGood(h) /\ Content(h) = <<>> /\ ~h.failed /\ h \in HP!Sessions
      /\ (ok => h.stage # "new")
  BY HsNewGood DEF HsGood
<1>4. /\ NewService \in Services /\ Len(NewService.ws) = 1 /\ Len(NewService.http) = 1
      /\ NewService.ws[1] = WS!NewSession /\ NewService.http[1] = HS!NewSession
      /\ NewService.id = 1000 /\ NewService.mNeedReconnect = FALSE
      /\ NewService.mHttpNeedReconnect = FALSE /\ NewService.stopped = FALSE
  <2>1. <<>> \in Seq(WsMsg) /\ <<>> \in Seq(Requests) /\ <<>> \in Seq(HP!Segments)
    BY EmptySeq
  <2>2. WS!NewSession \in WP!Sessions
    BY <2>1 DEF WS!NewSession, WP!Sessions, WP!Stages
  <2>3. HS!NewSession \in HP!Sessions
    BY <2>1 DEF HS!NewSession, HP!Sessions, HP!Stages
  <2>4. <<WS!NewSession>> \in Seq(WP!Sessions) /\ <<HS!NewSession>> \in Seq(HP!Sessions)
    BY <2>2, <2>3
  <2>5. NewService \in Services
    BY <2>4 DEF NewService, Services
  <2>. QED BY <2>5 DEF NewService
<1>5. m \in WsMsg /\ m.kind = "auth" /\ m.id = 1001
  BY DEF WsMsg
<1> HIDE DEF s, h, m
<1>6. /\ a \in Services /\ a.ws \in Seq(WP!Sessions) /\ Replaced(a.ws, NewService.ws, 1, s)
      /\ OtherThanWs(a, NewService)
  BY <1>2, <1>4, WithOneWs
<1> HIDE DEF a
<1>7. /\ b \in Services /\ b.ws = a.ws /\ b.http = a.http /\ b.id = k /\ b.auth_id = k
      /\ b.mNeedReconnect = a.mNeedReconnect /\ b.mHttpNeedReconnect = a.mHttpNeedReconnect
      /\ b.stopped = a.stopped
  BY <1>6 DEF Services
<1> HIDE DEF b
<1>8. Len(b.ws) = 1 /\ b.ws[1] = s
  BY <1>4, <1>6, <1>7 DEF Replaced
<1>9. /\ c \in Services /\ c.ws \in Seq(WP!Sessions) /\ Replaced(c.ws, b.ws, 1, u)
      /\ OtherThanWs(c, b) /\ WsSent(s, u, m)
  BY <1>2, <1>5, <1>7, <1>8, WsSendRec
<1> HIDE DEF c, u
<1>10. c.http = NewService.http
  BY <1>6, <1>7, <1>9 DEF OtherThanWs
<1>11. /\ e \in Services /\ e.http = c.http /\ e.ws = c.ws /\ e.id = c.id
       /\ e.auth_id = c.auth_id /\ e.mNeedReconnect = c.mNeedReconnect
       /\ e.mHttpNeedReconnect = c.mHttpNeedReconnect /\ e.stopped = c.stopped
       /\ e.mHostOK = ok
  BY <1>9 DEF Services
<1>12. d = [c EXCEPT !.mHostOK = ok, !.http[1] = h]
  OBVIOUS
<1> HIDE DEF e
<1>13. /\ d \in Services /\ d.http \in Seq(HP!Sessions) /\ Replaced(d.http, e.http, 1, h)
       /\ OtherThanHttp(d, e)
  <2>1. 1 \in 1..Len(e.http)
    BY <1>4, <1>10, <1>11
  <2>2. h \in HP!Sessions /\ e \in Services
    BY <1>3, <1>11
  <2>. QED BY <2>1, <2>2, WithOneHttp
<1>14. svc = d
  <2>1. a.id = 1000
    BY <1>4, <1>6 DEF OtherThanWs
  <2>2. SendAuth(a) = c
    BY <1>0, <2>1 DEF SendAuth, c, b, m
  <2>3. a = [NewService EXCEPT !.ws[1] = WS!Connect(@)]
    BY <1>4 DEF a, s
  <2>4. d = [c EXCEPT !.mHostOK = ok, !.http[1] = HS!Connect(@, ok)]
    BY <1>4, <1>10, <1>12 DEF h
  <2>. QED BY <1>1, <2>2, <2>3, <2>4 DEF ConnectService
<1> HIDE DEF d
<1>15. /\ svc \in Services /\ Len(svc.ws) = 1 /\ svc.ws[1] = u /\ svc.ws \in Seq(WP!Sessions)
       /\ Len(svc.http) = 1 /\ svc.http[1] = h /\ svc.http \in Seq(HP!Sessions)
       /\ svc.id = 1001 /\ svc.auth_id = 1001 /\ svc.mNeedReconnect = FALSE
       /\ svc.mHttpNeedReconnect = FALSE /\ svc.stopped = FALSE /\ svc.mHostOK = ok
  BY <1>0, <1>4, <1>6, <1>7, <1>8, <1>9, <1>10, <1>11, <1>13, <1>14
  DEF Replaced, OtherThanWs, OtherThanHttp
<1>16. faults \in [ws : Nat, http : Nat] /\ faults.ws = 0 /\ faults.http = 0 /\ placed = {}
  BY DEF Init
<1>17. WsPart(svc.ws, svc.mNeedReconnect, svc.id, svc.auth_id, faults.ws, replied)
  <2>1. Content(u) = Append(<<>>, m) /\ WsGood(u) /\ ~u.failed
    BY <1>2, <1>9 DEF WsSent
  <2>2. Len(Content(u)) = 1 /\ Content(u)[1] = m /\ Content(u) # <<>>
    BY <1>5, <2>1, EmptySeq, AppendProperties
  <2>3. AuthThenOthers(Content(u)) /\ SubscribedAfterReply(u, 1, replied)
    BY <1>5, <2>2 DEF AuthThenOthers, SubscribedAfterReply
  <2>4. IdsBelow(u, svc.id + 1) /\ Content(u)[1].id = svc.auth_id
    BY <1>5, <1>15, <2>2 DEF IdsBelow
  <2>5. /\ svc.mNeedReconnect \in BOOLEAN /\ ~svc.mNeedReconnect
        /\ Len(svc.ws) = IF svc.mNeedReconnect THEN faults.ws ELSE faults.ws + 1
    <3>1. svc.mNeedReconnect = FALSE
      BY <1>15
    <3>2. Len(svc.ws) = faults.ws + 1
      BY <1>15, <1>16
    <3>. QED BY <3>1, <3>2, Zenon
  <2>6. ASSUME NEW n \in 1..Len(svc.ws)
        PROVE  n = 1 /\ svc.ws[n] = u /\ ~(n < Len(svc.ws))
    BY <1>15
  <2>7. Len(svc.ws) > 0 /\ svc.ws[Len(svc.ws)] = u /\ svc.id \in Nat
        /\ svc.auth_id \in Nat \ {0} /\ svc.auth_id <= svc.id
    BY <1>15
  <2>8. svc.ws \in Seq(WP!Sessions) /\ faults.ws \in Nat
    BY <1>15, <1>16
  <2>. QED BY <2>1, <2>3, <2>4, <2>5, <2>6, <2>7, <2>8 DEF WsPart
<1>18. HttpPart(svc.http, svc.mHttpNeedReconnect, faults.http, placed)
  <2>1. Len(Content(h)) = 0
    BY <1>3, EmptySeq
  <2>2. /\ svc.mHttpNeedReconnect \in BOOLEAN /\ ~svc.mHttpNeedReconnect
        /\ Len(svc.http) = IF svc.mHttpNeedReconnect THEN faults.http ELSE faults.http + 1
    <3>1. svc.mHttpNeedReconnect = FALSE
      BY <1>15
    <3>2. Len(svc.http) = faults.http + 1
      BY <1>15, <1>16
    <3>. QED BY <3>1, <3>2, Zenon
  <2>3. ASSUME NEW n \in 1..Len(svc.http)
        PROVE  svc.http[n] = h /\ Len(Content(svc.http[n])) = 0
    BY <1>15, <2>1
  <2>4. Len(svc.http) > 0 /\ svc.http[Len(svc.http)] = h /\ svc.http \in Seq(HP!Sessions)
        /\ faults.http \in Nat
    BY <1>15, <1>16
  <2>5. HsGood(h) /\ ~h.failed
    BY <1>3
  <2>. QED BY <1>16, <2>2, <2>3, <2>4, <2>5 DEF HttpPart
<1>19. ok => AllConnect(svc.http)
  BY <1>3, <1>15 DEF AllConnect
<1>20. SvcOK(svc, faults, replied, placed)
  BY <1>15, <1>16, <1>17, <1>18, <1>19 DEF SvcOK
<1>. QED BY <1>15, <1>20 DEF TSInv, StopJustified

\* TSInv is an invariant of the specification.
LEMMA TSInvariance == Spec => []TSInv
<1>1. TSInv /\ [Next]_vars => TSInv'
  <2> SUFFICES ASSUME TSInv, [Next]_vars PROVE TSInv'
    OBVIOUS
  <2>1. CASE UNCHANGED vars
    <3>1. svc' = svc /\ faults' = faults /\ replied' = replied /\ placed' = placed
      BY <2>1 DEF vars
    <3>. QED BY <3>1 DEF TSInv, StopJustified
  <2>2. CASE RunIdle
    <3>1. faults' = faults /\ replied' = replied /\ placed' = placed /\ AfterPoll(svc)
      BY <2>2 DEF RunIdle, servervars
    <3>2. SvcOK(svc, faults', replied', placed') /\ StopJustified(svc, faults')
      BY <3>1 DEF TSInv
    <3>. QED BY <3>1, <3>2, AfterPollOK
  <2>3. ASSUME NEW n \in 1..Len(svc.ws), WsStep(n) PROVE TSInv'
    BY <2>3, WsStageInv, WsWriteInv, WsFailsInv, WsReplyInv, WsPushInv DEF WsStep
  <2>4. ASSUME NEW n \in 1..Len(svc.http), HttpStep(n) PROVE TSInv'
    BY <2>4, HttpStageInv, HttpWriteInv, HttpReadInv, HttpAnswerInv, HttpFailsInv DEF HttpStep
  <2>5. ASSUME NEW o \in Orders, PlaceOrder(o) \/ CancelOrder(o) \/ APlaceOrder(o) PROVE TSInv'
    <3>1. CASE APlaceOrder(o)
      BY <3>1, CurlInv DEF APlaceOrder
    <3>. QED BY <2>5, <3>1, PlaceOrderInv, CancelOrderInv
  <2>6. CASE GetOpenOrder \/ CancelAll \/ CurlReturns
    BY <2>6, CurlInv DEF GetOpenOrder, CancelAll
  <2>. QED BY <2>1, <2>2, <2>3, <2>4, <2>5, <2>6 DEF Next
<1>. QED BY <1>1, TSInvInit, PTL DEF Spec

\* What TSInv says of the sessions between two calls of RunOnce().
LEMMA Parts ==
  ASSUME TSInv
  PROVE  /\ WsPart(svc.ws, FALSE, svc.id, svc.auth_id, faults.ws, replied)
         /\ HttpPart(svc.http, FALSE, faults.http, placed)
         /\ svc \in Services /\ placed \subseteq Orders
<1>1. svc \in Services /\ svc.mNeedReconnect = FALSE /\ svc.mHttpNeedReconnect = FALSE
  BY DEF TSInv, SvcOK, Services
<1>. QED BY <1>1 DEF TSInv, SvcOK

-----------------------------------------------------------------------------
(* The theorems. *)

\* Every message and request in a queue or on the wire of a session, and every field of
\* the service, stays in its type.
THEOREM TSTypeCorrect == Spec => []TypeOK
<1>1. TSInv => TypeOK
  <2> SUFFICES ASSUME TSInv PROVE TypeOK
    OBVIOUS
  <2>1. ASSUME NEW n \in 1..Len(svc.ws), NEW i \in 1..Len(Content(svc.ws[n]))
        PROVE  Content(svc.ws[n])[i] \in WsMsg
    BY InUse, WsContent DEF TSInv, WsGood
  <2>2. ASSUME NEW n \in 1..Len(svc.http), NEW i \in 1..Len(Content(svc.http[n]))
        PROVE  Content(svc.http[n])[i] \in Requests
    <3>1. Content(svc.http[n]) \in Seq(Requests)
      BY InUse, HsContent DEF TSInv, HsGood
    <3>. QED BY <3>1, ElementOfSeq
  <2>. QED BY <2>1, <2>2, Parts DEF TypeOK, Services
<1>. QED BY <1>1, TSInvariance, PTL

\* The first message of every WebSocket session, and no other, is an authentication, also
\* for a session that replaces another while a heartbeat is due.
THEOREM AuthComesFirst == Spec => []AuthFirst
<1>1. TSInv => AuthFirst
  BY Parts DEF AuthFirst, WsPart, AuthThenOthers
<1>. QED BY <1>1, TSInvariance, PTL

\* A session subscribes only after a reply that came on that same session.
THEOREM StaleReplies == Spec => []StaleRepliesIgnored
<1>1. TSInv => StaleRepliesIgnored
  <2> SUFFICES ASSUME TSInv, NEW n \in 1..Len(svc.ws),
                      \E i \in 1..Len(Content(svc.ws[n])) :
                        Content(svc.ws[n])[i].kind = "subscribe"
               PROVE  \E i \in 1..Len(svc.ws[n].wire) :
                        /\ <<n, i>> \in replied
                        /\ svc.ws[n].wire[i].id = svc.ws[n].wire[1].id
    BY DEF StaleRepliesIgnored
  <2> DEFINE s == svc.ws[n]
  <2>1. WsGood(s) /\ SubscribedAfterReply(s, n, replied)
    BY Parts DEF WsPart
  <2>2. PICK i \in 1..Len(s.wire) : <<n, i>> \in replied /\ Content(s)[i].id = Content(s)[1].id
    BY <2>1 DEF SubscribedAfterReply
  <2>3. Len(s.wire) \in Nat /\ \A j \in 1..Len(s.wire) : Content(s)[j] = s.wire[j]
    BY <2>1, WsContent DEF WsGood
  <2>4. 1 \in 1..Len(s.wire)
    BY <2>3
  <2>. QED BY <2>2, <2>3, <2>4
<1>. QED BY <1>1, TSInvariance, PTL

\* Every error opens one new session, whichever session it is an error of.
THEOREM OneNewSession == Spec => []OneSessionPerError
<1>1. TSInv => OneSessionPerError
  <2> SUFFICES ASSUME TSInv PROVE OneSessionPerError
    OBVIOUS
  <2>1. /\ Len(svc.ws) = faults.ws + 1 /\ faults.ws \in Nat
        /\ Len(svc.http) = faults.http + 1 /\ faults.http \in Nat
    BY Parts DEF WsPart, HttpPart
  <2>. QED BY <2>1 DEF OneSessionPerError
<1>. QED BY <1>1, TSInvariance, PTL

\* The session in use always has an operation, so the io_context never runs out of work;
\* with a host that OpenSSL refuses it does, but at an error of a WebSocket session only.
THEOREM ContextRuns == Spec => []ContextKeepsRunning
<1>1. TSInv => ContextKeepsRunning
  <2> SUFFICES ASSUME TSInv PROVE ContextKeepsRunning
    OBVIOUS
  <2>1. ~svc.ws[Len(svc.ws)].failed /\ ~svc.http[Len(svc.http)].failed
    BY Parts DEF WsPart, HttpPart
  <2>2. /\ WsGood(svc.ws[Len(svc.ws)]) /\ HsGood(svc.http[Len(svc.http)])
        /\ Len(svc.http) \in 1..Len(svc.http)
    BY InUse DEF TSInv
  <2>3. WS!Alive(svc.ws[Len(svc.ws)])
    BY <2>1, <2>2, WsGoodAlive
  <2>4. svc.mHostOK => HS!Alive(svc.http[Len(svc.http)])
    <3>1. svc.mHostOK => svc.http[Len(svc.http)].stage # "new"
      BY <2>2 DEF TSInv, SvcOK, AllConnect
    <3>. QED BY <2>1, <2>2, <3>1, HsGoodAlive
  <2>5. (svc.mHostOK => ~svc.stopped) /\ (svc.stopped => faults.ws > 0)
    BY DEF TSInv, StopJustified
  <2>. QED BY <2>3, <2>4, <2>5 DEF ContextKeepsRunning, Last
<1>. QED BY <1>1, TSInvariance, PTL

\* The request of an order, and the one of its cancellation, go out at most once over all
\* the sessions there ever were.
THEOREM SentOnce == Spec => []OrderSentOnce
<1>1. TSInv => OrderSentOnce
  <2> SUFFICES ASSUME TSInv, NEW o \in Orders, NEW kind \in {"place", "cancel"}
               PROVE  LET r == [kind |-> kind, order |-> o]
                      IN  Cardinality({p \in UNION {{n} \X (1..Len(svc.http[n].wire)) :
                                                      n \in 1..Len(svc.http)} :
                                         svc.http[p[1]].wire[p[2]] = r}) <= 1
    BY DEF OrderSentOnce
  <2> DEFINE r == [kind |-> kind, order |-> o]
             P == {p \in UNION {{n} \X (1..Len(svc.http[n].wire)) : n \in 1..Len(svc.http)} :
                     svc.http[p[1]].wire[p[2]] = r}
  <2>1. r # Book
    <3>1. r.kind = kind /\ Book.kind = "book"
      BY DEF Book
    <3>. QED BY <3>1
  <2> HIDE DEF r
  <2>2. ASSUME NEW n \in 1..Len(svc.http), NEW i \in 1..Len(svc.http[n].wire)
        PROVE  i \in 1..Len(Content(svc.http[n])) /\ Content(svc.http[n])[i] = svc.http[n].wire[i]
    <3>1. HsGood(svc.http[n])
      BY InUse DEF TSInv
    <3>2. /\ Len(svc.http[n].wire) \in Nat /\ Len(Content(svc.http[n])) \in Nat
          /\ Len(svc.http[n].wire) <= Len(Content(svc.http[n]))
          /\ Content(svc.http[n])[i] = svc.http[n].wire[i]
      BY <3>1, HsContent DEF HsGood
    <3>. QED BY <3>2
  <2>3. \A a, b \in 1..Len(svc.http) :
          \A i \in 1..Len(Content(svc.http[a])), j \in 1..Len(Content(svc.http[b])) :
            Content(svc.http[a])[i] # Book /\ Content(svc.http[a])[i] = Content(svc.http[b])[j]
              => a = b /\ i = j
    BY Parts DEF HttpPart
  <2>4. ASSUME NEW p \in P
        PROVE  \E n \in 1..Len(svc.http) : \E i \in 1..Len(svc.http[n].wire) :
                 p = <<n, i>> /\ svc.http[n].wire[i] = r
    OBVIOUS
  <2> HIDE DEF P
  <2>5. ASSUME NEW p \in P, NEW q \in P
        PROVE  p = q
    <3>1. PICK n1 \in 1..Len(svc.http) : \E i \in 1..Len(svc.http[n1].wire) :
            p = <<n1, i>> /\ svc.http[n1].wire[i] = r
      BY <2>4
    <3>2. PICK i1 \in 1..Len(svc.http[n1].wire) : p = <<n1, i1>> /\ svc.http[n1].wire[i1] = r
      BY <3>1
    <3>3. PICK n2 \in 1..Len(svc.http) : \E i \in 1..Len(svc.http[n2].wire) :
            q = <<n2, i>> /\ svc.http[n2].wire[i] = r
      BY <2>4
    <3>4. PICK i2 \in 1..Len(svc.http[n2].wire) : q = <<n2, i2>> /\ svc.http[n2].wire[i2] = r
      BY <3>3
    <3>5. n1 = n2 /\ i1 = i2
      <4>1. i1 \in 1..Len(Content(svc.http[n1])) /\ Content(svc.http[n1])[i1] = r
        BY <2>2, <3>2
      <4>2. i2 \in 1..Len(Content(svc.http[n2])) /\ Content(svc.http[n2])[i2] = r
        BY <2>2, <3>4
      <4>. QED BY <2>1, <2>3, <4>1, <4>2
    <3>. QED BY <3>2, <3>4, <3>5
  <2>6. Cardinality(P) <= 1
    <3>1. CASE P = {}
      BY <3>1, FS_EmptySet
    <3>2. ASSUME NEW p \in P PROVE Cardinality(P) <= 1
      <4>1. P = {p}
        BY <2>5
      <4>2. Cardinality({p}) = 1
        BY FS_Singleton
      <4>. QED BY <4>1, <4>2
    <3>. QED BY <3>1, <3>2
  <2>. QED BY <2>6 DEF P, r
<1>. QED BY <1>1, TSInvariance, PTL

\* An order passed to PlaceOrder() has gone out, or is in a session that will come to it, or
\* in one that was replaced after it reported an error, or the host was refused: an order
\* stays behind in no other way.
THEOREM NotForgotten == Spec => []OrderNotForgotten
<1>1. TSInv => OrderNotForgotten
  <2> SUFFICES ASSUME TSInv, NEW o \in placed
               PROVE  \/ OnWire(svc.http, Place(o))
                      \/ \E n \in 1..Len(svc.http) :
                           /\ InSession(svc.http[n], Place(o))
                           /\ \/ svc.http[n].stage \in {"resolve", "connect", "handshake"}
                              \/ svc.http[n].writes > 0
                              \/ svc.http[n].failed /\ n < Len(svc.http)
                              \/ svc.http[n].stage = "new" /\ ~svc.mHostOK
    BY DEF OrderNotForgotten, Place
  <2>1. PICK n \in 1..Len(svc.http) : \E i \in 1..Len(Content(svc.http[n])) :
          Content(svc.http[n])[i] = Place(o)
    BY Parts DEF HttpPart
  <2>2. PICK i \in 1..Len(Content(svc.http[n])) : Content(svc.http[n])[i] = Place(o)
    BY <2>1
  <2>3. HsGood(svc.http[n])
    BY InUse DEF TSInv
  <2>4. /\ Len(svc.http[n].wire) \in Nat /\ Len(Content(svc.http[n])) \in Nat
        /\ \A j \in 1..Len(svc.http[n].wire) : Content(svc.http[n])[j] = svc.http[n].wire[j]
        /\ Len(Content(svc.http[n])) > Len(svc.http[n].wire) => Unsent(svc.http[n]) # <<>>
    BY <2>3, HsContent DEF HsGood
  <2>5. CASE i \in 1..Len(svc.http[n].wire)
    BY <2>2, <2>4, <2>5 DEF OnWire
  <2>6. CASE i > Len(svc.http[n].wire)
    <3>1. Unsent(svc.http[n]) # <<>>
      BY <2>4, <2>6
    <3>2. InSession(svc.http[n], Place(o))
      BY <2>2 DEF InSession, Content
    <3>3. svc.http[n].failed => n < Len(svc.http)
      BY Parts, LenProperties DEF HttpPart
    <3>4. svc.http[n].stage = "new" => ~svc.mHostOK
      BY DEF TSInv, SvcOK, AllConnect
    <3>. QED BY <2>3, <3>1, <3>2, <3>3, <3>4, HsWaits
  <2>. QED BY <2>4, <2>5, <2>6
<1>. QED BY <1>1, TSInvariance, PTL
=============================================================================
