---------------------------- MODULE TradeService ----------------------------
(***************************************************************************)
(* exchange_phemex::TradeService of TradeService.hpp: one WebSocket        *)
(* session for authentication, subscription and execution reports, one     *)
(* HTTP session for orders, both replaced after an error, all run by the   *)
(* thread that calls RunOnce().                                            *)
(*                                                                         *)
(* A replaced session is not closed: it lives on as long as an operation   *)
(* of its own is under way, and its messages and errors still reach the    *)
(* service.  svc.ws and svc.http therefore hold every session that was     *)
(* ever created; ws_session and http_session_ are the last of each.        *)
(*                                                                         *)
(* The methods are operators that take the state of the service (a record) *)
(* to the state after the method, so that RunOnce() is their composition.  *)
(* The server answers a message at most once, with its id, in any order.   *)
(***************************************************************************)
EXTENDS Naturals, Sequences, FiniteSets

CONSTANTS Orders,         \* client order ids, each used in one PlaceOrder()
          MaxWsFaults,    \* bound: WebSocket operations that fail
          MaxHttpFaults,  \* bound: HTTP operations that fail
          MaxBeats,       \* bound: heartbeats sent
          MaxSync         \* bound: calls that go through curl

ASSUME BoundsAssumption ==
  /\ MaxWsFaults \in Nat /\ MaxHttpFaults \in Nat
  /\ MaxBeats \in Nat \ {0} /\ MaxSync \in Nat

VARIABLES svc,      \* the service
          placed,   \* orders passed to PlaceOrder()
          replied,  \* server: <<n, i>>, it has answered message i of WebSocket session n
          pushed,   \* server: <<n, o>>, it has pushed order o on WebSocket session n
          faults,   \* failures so far: [ws, http]
          beats     \* heartbeats so far

servervars == <<replied, pushed>>
vars == <<svc, placed, replied, pushed, faults, beats>>

WS == INSTANCE WSSession
HS == INSTANCE HttpSession WITH Segs <- 1

WsMsg == [kind : {"auth", "subscribe", "ping"}, id : Nat]
Requests == [kind : {"place", "cancel"}, order : Orders] \cup {[kind |-> "book"]}

Last(seq) == seq[Len(seq)]

-----------------------------------------------------------------------------
(* The WebSocket side. *)

\* ws_session->send(m)
WsSend(t, m) == [t EXCEPT !.ws[Len(t.ws)] = WS!Send(@, m)]

\* Mutant: id_ is not incremented.
Mut_SendAuthReuseId(t) ==
  WsSend([t EXCEPT !.auth_id = t.id], [kind |-> "auth", id |-> t.id])

SendAuth(t) ==
  WsSend([t EXCEPT !.id = @ + 1, !.auth_id = t.id + 1], [kind |-> "auth", id |-> t.id + 1])

SendSubscribe(t) ==
  WsSend([t EXCEPT !.id = @ + 1], [kind |-> "subscribe", id |-> t.id + 1])

\* Mutant: Reconnect() does not authenticate.
Mut_ReconnectNoAuth(t) ==
  IF t.mNeedReconnect
    THEN [t EXCEPT !.ws = Append(@, WS!Connect(WS!NewSession)), !.mNeedReconnect = FALSE]
    ELSE t

\* Mutant: Reconnect() leaves mNeedReconnect set.
Mut_ReconnectKeepFlag(t) ==
  IF t.mNeedReconnect THEN SendAuth([t EXCEPT !.ws = Append(@, WS!Connect(WS!NewSession))])
                      ELSE t

\* RunOnce()'s test of mNeedReconnect, and Reconnect().
Reconnect(t) ==
  IF t.mNeedReconnect
    THEN [SendAuth([t EXCEPT !.ws = Append(@, WS!Connect(WS!NewSession))])
            EXCEPT !.mNeedReconnect = FALSE]
    ELSE t

\* Mutant: onError() does not ask for a new session.
Mut_OnErrorIgnored(t) == t

OnError(t) == [t EXCEPT !.mNeedReconnect = TRUE]

\* onMessage(): a reply carries the id of a request; a push carries orders, for each
\* of which the listeners get an execution report.
OnMessage(t, m) ==
  LET u == IF m.id = t.auth_id THEN SendSubscribe([t EXCEPT !.accepted = @ \cup {m.kind}])
                               ELSE t
  IN  [u EXCEPT !.reported = @ \cup m.orders]

-----------------------------------------------------------------------------
(* The HTTP side. *)

\* http_session_->send(r)
HttpSend(t, r) == [t EXCEPT !.http[Len(t.http)] = HS!Send(@, r)]

\* Mutant: HttpReconnect() carries the requests of the old session over.
Mut_HttpReconnectResend(t) ==
  IF t.mHttpNeedReconnect
    THEN [t EXCEPT !.http = Append(@, [HS!Connect(HS!NewSession, t.mHostOK)
                                         EXCEPT !.queue = Last(t.http).queue]),
                   !.mHttpNeedReconnect = FALSE]
    ELSE t

\* RunOnce()'s test of mHttpNeedReconnect, and HttpReconnect().
HttpReconnect(t) ==
  IF t.mHttpNeedReconnect
    THEN [t EXCEPT !.http = Append(@, HS!Connect(HS!NewSession, t.mHostOK)),
                   !.mHttpNeedReconnect = FALSE]
    ELSE t

\* Mutant: onHttpError() does not ask for a new session.
Mut_OnHttpErrorIgnored(t) == t

OnHttpError(t) == [t EXCEPT !.mHttpNeedReconnect = TRUE]

\* onHttpMessage(): an order book, and an error (code # 0), are not reported.
OnHttpMessage(t, r, code) ==
  IF r.kind = "book" \/ code # 0 THEN t ELSE [t EXCEPT !.reported = @ \cup {r.order}]

\* Mutant: the request for the order book goes to the WebSocket session.
Mut_SendHeartbeatOneSession(t) ==
  WsSend(WsSend([t EXCEPT !.id = @ + 1], [kind |-> "ping", id |-> t.id]),
         [kind |-> "book"])

SendHeartbeat(t) ==
  HttpSend(WsSend([t EXCEPT !.id = @ + 1], [kind |-> "ping", id |-> t.id]),
           [kind |-> "book"])

-----------------------------------------------------------------------------
(* Construction and Connect(). *)

NewService ==
  [ ws |-> <<WS!NewSession>>, http |-> <<HS!NewSession>>,
    mHostOK |-> TRUE,    \* OpenSSL takes mHost, the parameter "host", as a server name
    mNeedReconnect |-> FALSE, mHttpNeedReconnect |-> FALSE,
    id |-> 1000, auth_id |-> 0,
    busy |-> FALSE,      \* the thread is in curl_easy_perform()
    syncs |-> 0,         \* history: calls of curl_easy_perform() so far
    curled |-> {},       \* history: orders passed to aPlaceOrder()
    stopped |-> FALSE,   \* ioc has run out of work: poll_one() does nothing any more
    accepted |-> {},     \* history: kinds of the requests whose reply was taken for the auth's
    reported |-> {} ]    \* orders the listeners got an execution report for

\* ok: mHost is a name that OpenSSL takes.  A wshost that it does not take is an error
\* of WebSocket session 1 in its connect step, which is reported.
ConnectService(t, ok) ==
  [SendAuth([t EXCEPT !.ws[1] = WS!Connect(@)])
     EXCEPT !.mHostOK = ok, !.http[1] = HS!Connect(@, ok)]

Init ==
  /\ \E ok \in BOOLEAN : svc = ConnectService(NewService, ok)
  /\ placed = {}
  /\ replied = {}
  /\ pushed = {}
  /\ faults = [ws |-> 0, http |-> 0]
  /\ beats = 0

-----------------------------------------------------------------------------
(* RunOnce(). *)

\* io_context: a handler has run; with no operation left the context stops for good.
HandlerRan(t) ==
  [t EXCEPT !.stopped = /\ \A n \in 1..Len(t.ws) : ~WS!Alive(t.ws[n])
                        /\ \A n \in 1..Len(t.http) : ~HS!Alive(t.http[n])]

\* What RunOnce() does after poll_one() has left the service in state t.  The first
\* heartbeat is due at once (last_heartbeat_time_ is 0), the others at any time.
AfterPoll(t) ==
  LET u == HttpReconnect(Reconnect(t))
  IN  /\ ~svc.busy
      /\ \/ svc' = u /\ beats > 0 /\ UNCHANGED beats
         \/ svc' = SendHeartbeat(u) /\ beats < MaxBeats /\ beats' = beats + 1

\* No handler is ready, or the context has stopped.
RunIdle ==
  /\ AfterPoll(svc)
  /\ UNCHANGED <<placed, servervars, faults>>

\* on_resolve(), on_connect(), on_ssl_handshake(), on_handshake() of WebSocket session n.
WsStage(n) ==
  /\ ~svc.stopped
  /\ LET s == svc.ws[n]
         Run(u) == AfterPoll(HandlerRan([svc EXCEPT !.ws[n] = u]))
     IN  \/ s.stage = "resolve" /\ Run(WS!OnResolve(s))
         \/ s.stage = "connect" /\ Run(WS!OnConnect(s))
         \/ s.stage = "ssl_handshake" /\ Run(WS!OnSslHandshake(s))
         \/ s.stage = "handshake" /\ Run(WS!OnHandshake(s))
  /\ UNCHANGED <<placed, servervars, faults>>

\* handle_tx() of WebSocket session n.
WsWrite(n) ==
  /\ ~svc.stopped
  /\ svc.ws[n].writes > 0
  /\ AfterPoll(HandlerRan([svc EXCEPT !.ws[n] = WS!HandleTx(@)]))
  /\ UNCHANGED <<placed, servervars, faults>>

\* handle_read() of WebSocket session n with message m.
WsRead(n, m) ==
  /\ ~svc.stopped
  /\ svc.ws[n].reads > 0
  /\ LET t == OnMessage([svc EXCEPT !.ws[n] = WS!ReadDone(@)], m)
     IN  AfterPoll(HandlerRan([t EXCEPT !.ws[n] = WS!CheckRead(@)]))
  /\ UNCHANGED <<placed, faults>>

\* The server's reply to message i of session n.  It may be an error: onMessage()
\* does not look.
WsReply(n, i) ==
  /\ i \in 1..Len(svc.ws[n].wire)
  /\ <<n, i>> \notin replied
  /\ LET q == svc.ws[n].wire[i]
     IN  WsRead(n, [id |-> q.id, kind |-> q.kind, orders |-> {}])
  /\ replied' = replied \cup {<<n, i>>}
  /\ UNCHANGED pushed

OnWire(sessions, r) == \E n \in 1..Len(sessions) : \E i \in 1..Len(sessions[n].wire) :
                         sessions[n].wire[i] = r

Subscribed(s) == \E i \in 1..Len(s.wire) : s.wire[i].kind = "subscribe"

\* The server pushes order o, which it may have got, to a session that has subscribed.
WsPush(n, o) ==
  /\ Subscribed(svc.ws[n])
  /\ OnWire(svc.http, [kind |-> "place", order |-> o]) \/ o \in svc.curled
  /\ <<n, o>> \notin pushed
  /\ WsRead(n, [id |-> 0, kind |-> "push", orders |-> {o}])
  /\ pushed' = pushed \cup {<<n, o>>}
  /\ UNCHANGED replied

\* An operation of WebSocket session n fails: fail() calls onError().
WsFails(n) ==
  /\ ~svc.stopped
  /\ faults.ws < MaxWsFaults
  /\ faults' = [faults EXCEPT !.ws = @ + 1]
  /\ LET s == svc.ws[n]
         Run(u) == AfterPoll(HandlerRan(OnError([svc EXCEPT !.ws[n] = u])))
     IN  \/ /\ s.stage \in {"resolve", "connect", "ssl_handshake", "handshake"}
            /\ Run(WS!FailStage(s))
         \/ s.reads > 0 /\ Run(WS!FailRead(s))
         \/ s.writes > 0 /\ Run(WS!FailTx(s))
  /\ UNCHANGED <<placed, servervars>>

\* on_resolve(), on_connect(), on_handshake() of HTTP session n.
HttpStage(n) ==
  /\ ~svc.stopped
  /\ LET s == svc.http[n]
         Run(u) == AfterPoll(HandlerRan([svc EXCEPT !.http[n] = u]))
     IN  \/ s.stage = "resolve" /\ Run(HS!OnResolve(s))
         \/ s.stage = "connect" /\ Run(HS!OnConnect(s))
         \/ s.stage = "handshake" /\ Run(HS!OnHandshake(s))
  /\ UNCHANGED <<placed, servervars, faults>>

\* handle_tx() of HTTP session n.
HttpWrite(n) ==
  /\ ~svc.stopped
  /\ svc.http[n].writes > 0
  /\ AfterPoll(HandlerRan([svc EXCEPT !.http[n] = HS!HandleTx(@)]))
  /\ UNCHANGED <<placed, servervars, faults>>

\* The server answers the next request of HTTP session n.
HttpAnswer(n) ==
  /\ svc.http[n].answered < Len(svc.http[n].wire)
  /\ svc' = [svc EXCEPT !.http[n] = HS!ServerAnswers(@)]
  /\ UNCHANGED <<placed, servervars, faults, beats>>

\* handle_read() of HTTP session n; code is 0 or an error code.
HttpRead(n) ==
  /\ ~svc.stopped
  /\ \E k \in 0..Len(svc.http[n].socket), code \in {0, 1} :
       /\ HS!ReadCompletes(svc.http[n], k)
       /\ LET r == svc.http[n].wire[HS!Delivered(svc.http[n], k)]
              t == OnHttpMessage(svc, r, code)
          IN  AfterPoll(HandlerRan([t EXCEPT !.http[n] = HS!CheckRead(HS!ReadDone(@, k))]))
  /\ UNCHANGED <<placed, servervars, faults>>

\* An operation of HTTP session n fails: fail() calls onHttpError().
HttpFails(n) ==
  /\ ~svc.stopped
  /\ faults.http < MaxHttpFaults
  /\ faults' = [faults EXCEPT !.http = @ + 1]
  /\ LET s == svc.http[n]
         Run(u) == AfterPoll(HandlerRan(OnHttpError([svc EXCEPT !.http[n] = u])))
     IN  \/ s.stage \in {"resolve", "connect", "handshake"} /\ Run(HS!FailStage(s))
         \/ s.reads > 0 /\ Run(HS!FailRead(s))
         \/ s.writes > 0 /\ Run(HS!FailTx(s))
  /\ UNCHANGED <<placed, servervars>>

-----------------------------------------------------------------------------
(* Calls of the client, between two calls of RunOnce(). *)

PlaceOrder(o) ==
  /\ o \notin placed \cup svc.curled
  /\ ~svc.busy
  /\ placed' = placed \cup {o}
  /\ svc' = HttpSend(svc, [kind |-> "place", order |-> o])
  /\ UNCHANGED <<servervars, faults, beats>>

\* The request of session s that async_write has not been given yet.
Unsent(s) == IF s.sending THEN Tail(s.queue) ELSE s.queue

InSession(s, r) == \E i \in 1..Len(s.wire \o Unsent(s)) : (s.wire \o Unsent(s))[i] = r

\* The exchange's order id is known from an execution report.
CancelOrder(o) ==
  LET r == [kind |-> "cancel", order |-> o]
  IN  /\ o \in svc.reported
      /\ ~svc.busy
      /\ \A n \in 1..Len(svc.http) : ~InSession(svc.http[n], r)
      /\ svc' = HttpSend(svc, r)
      /\ UNCHANGED <<placed, servervars, faults, beats>>

\* curl_api_with_header() blocks the thread that calls RunOnce(): until it returns no
\* handler runs.  What it received is only logged.
Curl(orders) ==
  /\ ~svc.busy
  /\ svc.syncs < MaxSync
  /\ svc' = [svc EXCEPT !.busy = TRUE, !.syncs = @ + 1, !.curled = @ \cup orders]
  /\ UNCHANGED <<placed, servervars, faults, beats>>

\* The orders in the answer are not read: the vector returned is empty.
GetOpenOrder == Curl({})

CancelAll == Curl({})

\* The exchange may have got the order when curl_easy_perform() returns, or not.
APlaceOrder(o) == o \notin placed \cup svc.curled /\ Curl({o})

CurlReturns ==
  /\ svc.busy
  /\ svc' = [svc EXCEPT !.busy = FALSE]
  /\ UNCHANGED <<placed, servervars, faults, beats>>

-----------------------------------------------------------------------------
WsStep(n) ==
  \/ WsStage(n) \/ WsWrite(n) \/ WsFails(n)
  \/ \E i \in 1..Len(svc.ws[n].wire) : WsReply(n, i)
  \/ \E o \in Orders : WsPush(n, o)

HttpStep(n) == HttpStage(n) \/ HttpWrite(n) \/ HttpRead(n) \/ HttpAnswer(n) \/ HttpFails(n)

Next ==
  \/ RunIdle
  \/ \E n \in 1..Len(svc.ws) : WsStep(n)
  \/ \E n \in 1..Len(svc.http) : HttpStep(n)
  \/ \E o \in Orders : PlaceOrder(o) \/ CancelOrder(o) \/ APlaceOrder(o)
  \/ GetOpenOrder \/ CancelAll \/ CurlReturns

Spec == Init /\ [][Next]_vars

WsSessions == 1..(MaxWsFaults + 1)

\* RunOnce() is called again and again and poll_one() takes every ready handler in
\* turn; a connection step or a write under way ends; the server replies to the
\* authentication, the first message of a session.  Nothing is
\* said of failures, orders, heartbeats or the end of a call of curl, which has no
\* timeout: curl_easy_reset() discards the one that Connect() sets.
FairSpec ==
  /\ Spec
  /\ \A n \in WsSessions :
       /\ WF_vars(n <= Len(svc.ws) /\ WsStage(n))
       /\ WF_vars(n <= Len(svc.ws) /\ WsWrite(n))
       /\ WF_vars(n <= Len(svc.ws) /\ WsReply(n, 1))

-----------------------------------------------------------------------------
(* Properties. *)

Content(s) == s.wire \o Unsent(s)

TypeOK ==
  /\ \A n \in 1..Len(svc.ws) : \A i \in 1..Len(Content(svc.ws[n])) :
       Content(svc.ws[n])[i] \in WsMsg
  /\ \A n \in 1..Len(svc.http) : \A i \in 1..Len(Content(svc.http[n])) :
       Content(svc.http[n])[i] \in Requests
  /\ svc.mNeedReconnect \in BOOLEAN /\ svc.mHttpNeedReconnect \in BOOLEAN
  /\ svc.id \in Nat /\ svc.auth_id \in Nat /\ svc.stopped \in BOOLEAN
  /\ svc.mHostOK \in BOOLEAN /\ svc.busy \in BOOLEAN /\ svc.curled \subseteq Orders
  /\ svc.reported \subseteq Orders /\ placed \subseteq Orders

\* ioc.poll_one() never finds the context without work, after which it would do
\* nothing for ever: a session that fails is replaced before the next poll, and until
\* then an operation of the other session keeps the context going.  Only if the HTTP
\* session never connected, its host refused, is there no other session, and then the
\* context stops at an error of the WebSocket session and at nothing else.
ContextKeepsRunning ==
  /\ WS!Alive(Last(svc.ws))
  /\ svc.mHostOK => ~svc.stopped /\ HS!Alive(Last(svc.http))
  /\ svc.stopped => faults.ws > 0

\* The first message of every WebSocket session is its authentication, also when a
\* heartbeat is due or a reply of an older session arrives while it connects.
AuthFirst ==
  \A n \in 1..Len(svc.ws) :
    LET c == Content(svc.ws[n])
    IN  /\ c # <<>>
        /\ \A i \in 1..Len(c) : c[i].kind = "auth" <=> i = 1

\* A late reply on a session that was replaced never triggers the subscription of its
\* successor: what a session subscribes to follows a reply on that same session.
StaleRepliesIgnored ==
  \A n \in 1..Len(svc.ws) :
    (\E i \in 1..Len(Content(svc.ws[n])) : Content(svc.ws[n])[i].kind = "subscribe")
      => \E i \in 1..Len(svc.ws[n].wire) :
           /\ <<n, i>> \in replied
           /\ svc.ws[n].wire[i].id = svc.ws[n].wire[1].id

\* Every error opens exactly one new session, and nothing else does.
OneSessionPerError ==
  Len(svc.ws) = 1 + faults.ws /\ Len(svc.http) = 1 + faults.http

\* An order goes out at most once, although sessions fail with its request half
\* written and replaced sessions go on writing.
OrderSentOnce ==
  \A o \in Orders, kind \in {"place", "cancel"} :
    LET r == [kind |-> kind, order |-> o]
    IN  Cardinality({p \in UNION {{n} \X (1..Len(svc.http[n].wire)) : n \in 1..Len(svc.http)} :
                       svc.http[p[1]].wire[p[2]] = r}) <= 1

\* An order that has not gone out waits in a session, replaced or not, that is still
\* connecting or writing and so will come to it.  It is stranded in two cases only: its
\* session reported an error, and has been replaced by now, or the host was refused.
OrderNotForgotten ==
  \A o \in placed :
    LET r == [kind |-> "place", order |-> o]
    IN  \/ OnWire(svc.http, r)
        \/ \E n \in 1..Len(svc.http) :
             /\ InSession(svc.http[n], r)
             /\ \/ svc.http[n].stage \in {"resolve", "connect", "handshake"}
                \/ svc.http[n].writes > 0
                \/ svc.http[n].failed /\ n < Len(svc.http)
                \/ svc.http[n].stage = "new" /\ ~svc.mHostOK

\* "auth accepted": the reply taken for the answer to the authentication is one.
AuthAcceptedIsAuth == svc.accepted \subseteq {"auth"}

\* Once failures stop, the session in use is subscribed for good, whatever the replaced
\* sessions still do; only a call of curl that never returns, or the io_context having
\* run out of work, prevents it.
Recovers == <>[]Subscribed(Last(svc.ws)) \/ <>[]svc.busy \/ <>[]svc.stopped
=============================================================================
