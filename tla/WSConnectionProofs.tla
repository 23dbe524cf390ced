------------------------- MODULE WSConnectionProofs -------------------------
(***************************************************************************)
(* TLAPS proofs about a WebSocket session: for every set of messages, any  *)
(* number of calls of send() and any order of completions and errors.      *)
(***************************************************************************)
EXTENDS WSConnection, SequenceTheorems, TLAPS

-----------------------------------------------------------------------------
(* Sequences. *)

\* Moving the front of q to the end of w changes nothing of w \o q.
LEMMA MoveFront ==
  ASSUME NEW S, NEW w \in Seq(S), NEW q \in Seq(S), q # <<>>
  PROVE  Append(w, Head(q)) \o Tail(q) = w \o q
<1>1. Head(q) \in S /\ Tail(q) \in Seq(S)
  BY HeadTailProperties
<1>2. q = <<Head(q)>> \o Tail(q)
  BY <1>1
<1>3. Append(w, Head(q)) = w \o <<Head(q)>>
  BY <1>1, AppendIsConcat
<1>4. <<Head(q)>> \in Seq(S)
  BY <1>1
<1>. QED BY <1>1, <1>2, <1>3, <1>4, ConcatAssociative

\* Appending to q appends to w \o q.
LEMMA ConcatAppend ==
  \A w, q \in Seq(Msgs), m \in Msgs : w \o Append(q, m) = Append(w \o q, m)
<1> TAKE w, q \in Seq(Msgs), m \in Msgs
<1>1. <<m>> \in Seq(Msgs) /\ w \o q \in Seq(Msgs)
  BY ConcatProperties
<1>2. Append(q, m) = q \o <<m>> /\ Append(w \o q, m) = (w \o q) \o <<m>>
  BY <1>1, AppendIsConcat
<1>. QED BY <1>1, <1>2, ConcatAssociative

-----------------------------------------------------------------------------
(* The methods. *)

\* check_send() restores Checked, keeps the rest and leaves the reading side alone.
LEMMA CheckSendInv ==
  ASSUME NEW s \in Sessions, NEW h \in Seq(Msgs), WritesFront(s, h)
  PROVE  LET c == CheckSend(s)
         IN  /\ c \in Sessions /\ WritesFront(c, h) /\ Checked(c)
             /\ c.stage = s.stage /\ c.mState = s.mState
             /\ c.reads = s.reads /\ c.failed = s.failed
<1>1. CASE s.mState # "connected" \/ s.sending \/ s.queue = <<>>
  BY <1>1 DEF CheckSend, Checked, Sessions
<1>2. CASE ~(s.mState # "connected" \/ s.sending \/ s.queue = <<>>)
  <2> DEFINE c == [s EXCEPT !.sending = TRUE, !.writes = @ + 1, !.wire = Append(@, Head(s.queue))]
  <2>1. CheckSend(s) = c
    BY <1>2 DEF CheckSend, InitiateTx
  <2>2. /\ s.queue \in Seq(Msgs) /\ s.queue # <<>> /\ Head(s.queue) \in Msgs
        /\ s.wire \in Seq(Msgs) /\ s.writes = 0
    BY <1>2, HeadTailProperties DEF Sessions, WritesFront
  <2>3. /\ c.sending = TRUE /\ c.writes = 1 /\ c.wire = Append(s.wire, Head(s.queue))
        /\ c.queue = s.queue /\ c.stage = s.stage /\ c.mState = s.mState
        /\ c.reads = s.reads /\ c.failed = s.failed
    BY <2>2 DEF Sessions
  <2>4. /\ c.wire \in Seq(Msgs) /\ c.wire # <<>>
        /\ c.wire[Len(c.wire)] = Head(s.queue)
    BY <2>2, <2>3, AppendProperties
  <2>5. c \in Sessions
    <3>1. Append(s.wire, Head(s.queue)) \in Seq(Msgs) /\ s.writes + 1 \in Nat
      BY <2>2, AppendProperties
    <3>. QED BY <3>1 DEF Sessions
  <2>6. h = s.wire \o s.queue
    BY <1>2 DEF WritesFront, Unsent
  <2>7. h = c.wire \o Unsent(c)
    BY <2>2, <2>3, <2>6, MoveFront DEF Unsent
  <2>8. WritesFront(c, h) /\ Checked(c)
    BY <2>2, <2>3, <2>4, <2>7 DEF WritesFront, Checked
  <2>. QED BY <2>1, <2>3, <2>5, <2>8
<1>. QED BY <1>1, <1>2

\* send(): the message is at the end of the queue or handed to the stream.
LEMMA SendInv ==
  ASSUME NEW s \in Sessions, NEW h \in Seq(Msgs), WritesFront(s, h), NEW m \in Msgs
  PROVE  LET c == Send(s, m)
         IN  /\ c \in Sessions /\ WritesFront(c, Append(h, m)) /\ Checked(c)
             /\ c.stage = s.stage /\ c.mState = s.mState
             /\ c.reads = s.reads /\ c.failed = s.failed
<1> DEFINE q == [s EXCEPT !.queue = Append(@, m)]
<1>1. /\ q \in Sessions /\ q.queue = Append(s.queue, m) /\ q.wire = s.wire
      /\ q.sending = s.sending /\ q.writes = s.writes /\ q.stage = s.stage
      /\ q.mState = s.mState /\ q.reads = s.reads /\ q.failed = s.failed
  BY AppendProperties DEF Sessions
<1> HIDE DEF q
<1>2. s.queue \in Seq(Msgs) /\ s.wire \in Seq(Msgs) /\ Append(h, m) \in Seq(Msgs)
  BY AppendProperties DEF Sessions
<1>3. Append(h, m) = q.wire \o Unsent(q)
  <2>1. CASE s.sending
    <3>1. s.queue # <<>> /\ Tail(s.queue) \in Seq(Msgs)
      BY <1>2, <2>1, HeadTailProperties DEF WritesFront
    <3>2. Unsent(q) = Append(Tail(s.queue), m)
      BY <1>1, <1>2, <2>1, <3>1, HeadTailAppend DEF Unsent
    <3>3. h = s.wire \o Tail(s.queue)
      BY <2>1 DEF WritesFront, Unsent
    <3>4. s.wire \o Append(Tail(s.queue), m) = Append(s.wire \o Tail(s.queue), m)
      BY <1>2, <3>1, ConcatAppend
    <3>. QED BY <1>1, <3>2, <3>3, <3>4
  <2>2. CASE ~s.sending
    <3>1. Unsent(q) = Append(s.queue, m) /\ h = s.wire \o s.queue
      BY <1>1, <2>2 DEF WritesFront, Unsent
    <3>2. s.wire \o Append(s.queue, m) = Append(s.wire \o s.queue, m)
      BY <1>2, ConcatAppend
    <3>. QED BY <1>1, <3>1, <3>2
  <2>. QED BY <2>1, <2>2
<1>4. s.sending => q.queue # <<>> /\ Head(q.queue) = Head(s.queue)
  <2>1. s.sending => s.queue # <<>>
    BY DEF WritesFront
  <2>2. s.sending => Append(s.queue, m) # <<>> /\ Head(Append(s.queue, m)) = Head(s.queue)
    BY <1>2, <2>1, AppendProperties, HeadTailAppend
  <2>. QED BY <1>1, <2>2
<1>5. WritesFront(q, Append(h, m))
  BY <1>1, <1>3, <1>4 DEF WritesFront
<1>6. Send(s, m) = CheckSend(q)
  BY DEF Send, q
<1>7. LET c == CheckSend(q)
      IN  /\ c \in Sessions /\ WritesFront(c, Append(h, m)) /\ Checked(c)
          /\ c.stage = q.stage /\ c.mState = q.mState
          /\ c.reads = q.reads /\ c.failed = q.failed
  BY <1>1, <1>2, <1>5, CheckSendInv
<1>. QED BY <1>1, <1>6, <1>7

\* handle_tx(): the message sent is popped, the next one is handed to the stream.
LEMMA HandleTxInv ==
  ASSUME NEW s \in Sessions, NEW h \in Seq(Msgs), WritesFront(s, h), s.writes > 0
  PROVE  LET c == HandleTx(s)
         IN  /\ c \in Sessions /\ WritesFront(c, h) /\ Checked(c)
             /\ c.stage = s.stage /\ c.mState = s.mState
             /\ c.reads = s.reads /\ c.failed = s.failed
<1> DEFINE q == [s EXCEPT !.writes = @ - 1, !.queue = Tail(@), !.sending = FALSE]
<1>1. s.writes = 1 /\ s.sending /\ s.queue # <<>> /\ s.queue \in Seq(Msgs)
  BY DEF Sessions, WritesFront
<1>2. Tail(s.queue) \in Seq(Msgs) /\ s.writes - 1 = 0
  BY <1>1, HeadTailProperties
<1>3. /\ q \in Sessions /\ q.queue = Tail(s.queue) /\ q.wire = s.wire
      /\ q.sending = FALSE /\ q.writes = 0 /\ q.stage = s.stage
      /\ q.mState = s.mState /\ q.reads = s.reads /\ q.failed = s.failed
  <2>1. q = [s EXCEPT !.writes = 0, !.queue = Tail(s.queue), !.sending = FALSE]
    BY <1>2
  <2> HIDE DEF q
  <2>2. q.writes = 0 /\ q.queue = Tail(s.queue) /\ q.sending = FALSE
    BY <2>1 DEF Sessions
  <2>3. q \in Sessions
    BY <1>2, <2>1 DEF Sessions
  <2>. QED BY <2>1, <2>2, <2>3 DEF Sessions
<1> HIDE DEF q
<1>4. h = q.wire \o Unsent(q)
  BY <1>1, <1>3 DEF WritesFront, Unsent
<1>5. WritesFront(q, h)
  BY <1>3, <1>4 DEF WritesFront
<1>6. HandleTx(s) = CheckSend(q)
  BY DEF HandleTx, q
<1>7. LET c == CheckSend(q)
      IN  /\ c \in Sessions /\ WritesFront(c, h) /\ Checked(c)
          /\ c.stage = q.stage /\ c.mState = q.mState
          /\ c.reads = q.reads /\ c.failed = q.failed
  BY <1>3, <1>5, CheckSendInv
<1>. QED BY <1>3, <1>6, <1>7

\* What does not touch the sending side keeps its invariant.
LEMMA SendingSide ==
  ASSUME NEW s \in Sessions, NEW c \in Sessions, NEW h \in Seq(Msgs), WritesFront(s, h),
         c.sending = s.sending, c.queue = s.queue, c.wire = s.wire, c.writes = s.writes,
         s.failed => c.failed
  PROVE  WritesFront(c, h)
  BY DEF WritesFront, Unsent, Sessions

-----------------------------------------------------------------------------
(* The handlers. *)

\* connect() has been called.
LEMMA WSInvInit == Init => WSInv
<1> SUFFICES ASSUME Init PROVE WSInv
  OBVIOUS
<1>1. ses = [NewSession EXCEPT !.stage = "resolve"] /\ sent = <<>>
  BY DEF Init, Connect
<1>2. <<>> \in Seq(Msgs) /\ <<>> \o <<>> = <<>>
  BY EmptySeq, ConcatEmptySeq
<1>3. TypeOK
  BY <1>1, <1>2 DEF TypeOK, Sessions, NewSession, Stages
<1>4. /\ ses.stage = "resolve" /\ ses.mState = "handshaking" /\ ses.sending = FALSE
      /\ ses.queue = <<>> /\ ses.wire = <<>> /\ ses.reads = 0 /\ ses.writes = 0
  BY <1>1 DEF NewSession
<1>5. WritesFront(ses, sent)
  <2>1. ses.wire \o Unsent(ses) = <<>>
    BY <1>2, <1>4 DEF Unsent
  <2>. QED BY <1>1, <1>4, <2>1 DEF WritesFront
<1>. QED BY <1>3, <1>4, <1>5 DEF WSInv, Checked, ReadsOpen

\* send(), called from outside of the session's handlers.
LEMMA CallSendInv ==
  ASSUME WSInv, CallSend
  PROVE  WSInv'
<1>1. PICK m \in Msgs : ses' = Send(ses, m) /\ sent' = Append(sent, m)
  BY DEF CallSend, ClientSends
<1>2. ses \in Sessions /\ sent \in Seq(Msgs) /\ WritesFront(ses, sent) /\ ReadsOpen(ses)
  BY DEF WSInv, TypeOK
<1>3. /\ ses' \in Sessions /\ WritesFront(ses', sent') /\ Checked(ses')
      /\ ses'.stage = ses.stage /\ ses'.mState = ses.mState
      /\ ses'.reads = ses.reads /\ ses'.failed = ses.failed
  BY <1>1, <1>2, SendInv
<1>4. sent' \in Seq(Msgs)
  BY <1>1, <1>2, AppendProperties
<1>5. ReadsOpen(ses')
  BY <1>2, <1>3 DEF ReadsOpen
<1>. QED BY <1>3, <1>4, <1>5 DEF WSInv, TypeOK, WritesFront, Unsent, Checked, ReadsOpen

\* The steps of the connection before the last.
LEMMA StageDoneInv ==
  ASSUME WSInv, StageDone
  PROVE  WSInv'
<1>1. ses \in Sessions /\ sent \in Seq(Msgs) /\ WritesFront(ses, sent) /\ ReadsOpen(ses)
  BY DEF WSInv, TypeOK
<1>2. PICK g \in {"connect", "ssl_handshake", "handshake"} :
        ses' = [ses EXCEPT !.stage = g]
  BY DEF StageDone, OnResolve, OnConnect, OnSslHandshake
<1>3. /\ ses' \in Sessions
      /\ ses'.stage = g /\ ses'.mState = ses.mState /\ ses'.reads = ses.reads
      /\ ses'.failed = ses.failed /\ ses'.sending = ses.sending /\ ses'.queue = ses.queue
      /\ ses'.wire = ses.wire /\ ses'.writes = ses.writes
  BY <1>1, <1>2 DEF Sessions, Stages
<1>4. sent' = sent /\ ses.stage # "open"
  BY DEF StageDone
<1>5. WritesFront(ses', sent)
  BY <1>1, <1>3, SendingSide
<1>6. Checked(ses') /\ ReadsOpen(ses')
  BY <1>1, <1>3, <1>4 DEF WSInv, Checked, ReadsOpen
<1>. QED BY <1>1, <1>3, <1>4, <1>5, <1>6 DEF WSInv, TypeOK, WritesFront, Unsent, Checked, ReadsOpen

\* on_handshake() up to onConnect(): the session is open, reads, and has nothing left in
\* the queue that it does not send.
LEMMA OnHandshakeInv ==
  ASSUME WSInv, ses.stage = "handshake"
  PROVE  LET c == OnHandshake(ses)
         IN  c \in Sessions /\ WritesFront(c, sent) /\ Checked(c) /\ ReadsOpen(c)
<1> DEFINE q == [ses EXCEPT !.stage = "open", !.mState = "connected", !.reads = @ + 1]
<1>1. ses \in Sessions /\ sent \in Seq(Msgs) /\ WritesFront(ses, sent) /\ ReadsOpen(ses)
  BY DEF WSInv, TypeOK
<1>2. ses.reads = 0 /\ ses.mState = "handshaking"
  BY <1>1 DEF ReadsOpen, Sessions
<1>3. /\ q \in Sessions
      /\ q.stage = "open" /\ q.mState = "connected" /\ q.reads = 1
      /\ q.failed = ses.failed /\ q.sending = ses.sending /\ q.queue = ses.queue
      /\ q.wire = ses.wire /\ q.writes = ses.writes
  <2>1. q = [ses EXCEPT !.stage = "open", !.mState = "connected", !.reads = 1]
    BY <1>2
  <2> HIDE DEF q
  <2>2. q \in Sessions
    BY <1>1, <2>1 DEF Sessions, Stages
  <2>. QED BY <1>1, <2>1, <2>2 DEF Sessions
<1>4. OnHandshake(ses) = CheckSend(q)
  BY <1>1 DEF OnHandshake, CheckRead, Sessions
<1> HIDE DEF q
<1>5. WritesFront(q, sent)
  BY <1>1, <1>3, SendingSide
<1>6. LET c == CheckSend(q)
      IN  /\ c \in Sessions /\ WritesFront(c, sent) /\ Checked(c)
          /\ c.stage = q.stage /\ c.mState = q.mState
          /\ c.reads = q.reads /\ c.failed = q.failed
  BY <1>1, <1>3, <1>5, CheckSendInv
<1>. QED BY <1>3, <1>4, <1>6 DEF ReadsOpen

\* on_handshake() with what the client does in onConnect().
LEMMA HandshakeDoneInv ==
  ASSUME WSInv, HandshakeDone
  PROVE  WSInv'
<1> DEFINE q == OnHandshake(ses)
<1>1. q \in Sessions /\ WritesFront(q, sent) /\ Checked(q) /\ ReadsOpen(q) /\ sent \in Seq(Msgs)
  BY OnHandshakeInv DEF HandshakeDone, WSInv, TypeOK
<1>2. \/ ses' = q /\ sent' = sent
      \/ \E m \in Msgs : ses' = Send(q, m) /\ sent' = Append(sent, m)
  BY DEF HandshakeDone, ClientIdle, ClientSends
<1> HIDE DEF q
<1>3. CASE ses' = q /\ sent' = sent
  BY <1>1, <1>3 DEF WSInv, TypeOK, WritesFront, Unsent, Checked, ReadsOpen
<1>4. ASSUME NEW m \in Msgs, ses' = Send(q, m), sent' = Append(sent, m)
      PROVE  WSInv'
  <2>1. /\ ses' \in Sessions /\ WritesFront(ses', sent') /\ Checked(ses')
        /\ ses'.stage = q.stage /\ ses'.mState = q.mState
        /\ ses'.reads = q.reads /\ ses'.failed = q.failed
    BY <1>1, <1>4, SendInv
  <2>2. sent' \in Seq(Msgs) /\ ReadsOpen(ses')
    BY <1>1, <1>4, <2>1, AppendProperties DEF ReadsOpen
  <2>. QED BY <2>1, <2>2 DEF WSInv, TypeOK, WritesFront, Unsent, Checked, ReadsOpen
<1>. QED BY <1>2, <1>3, <1>4

\* A read is over and the next one is started.
LEMMA ReadAgain ==
  ASSUME NEW s \in Sessions, s.reads = 0
  PROVE  LET c == CheckRead(s)
         IN  /\ c \in Sessions /\ c.reads = 1
             /\ c.stage = s.stage /\ c.mState = s.mState /\ c.failed = s.failed
             /\ c.sending = s.sending /\ c.queue = s.queue
             /\ c.wire = s.wire /\ c.writes = s.writes
<1>1. CheckRead(s) = [s EXCEPT !.reads = 1]
  BY DEF CheckRead
<1>2. CheckRead(s) \in Sessions
  BY <1>1 DEF Sessions
<1>. QED BY <1>1, <1>2 DEF Sessions

\* handle_read(): what the client sends in onMessage() goes out before the next read is
\* started, and neither disturbs the other.
LEMMA MessageReadInv ==
  ASSUME WSInv, MessageRead
  PROVE  WSInv'
<1> DEFINE q == ReadDone(ses)
<1>1. ses \in Sessions /\ sent \in Seq(Msgs) /\ WritesFront(ses, sent) /\ ReadsOpen(ses)
      /\ Checked(ses) /\ ses.reads = 1
  BY DEF MessageRead, WSInv, TypeOK, ReadsOpen, Sessions
<1>2. /\ q \in Sessions /\ q.reads = 0
      /\ q.stage = ses.stage /\ q.mState = ses.mState /\ q.failed = ses.failed
      /\ q.sending = ses.sending /\ q.queue = ses.queue
      /\ q.wire = ses.wire /\ q.writes = ses.writes
  <2>1. q = [ses EXCEPT !.reads = 0]
    BY <1>1 DEF ReadDone
  <2> HIDE DEF q
  <2>2. q \in Sessions
    BY <1>1, <2>1 DEF Sessions
  <2>. QED BY <1>1, <2>1, <2>2 DEF Sessions
<1>3. \/ ses' = CheckRead(q) /\ sent' = sent
      \/ \E m \in Msgs : ses' = CheckRead(Send(q, m)) /\ sent' = Append(sent, m)
  BY DEF MessageRead, ClientIdle
<1> HIDE DEF q
<1>4. WritesFront(q, sent)
  BY <1>1, <1>2, SendingSide
<1>5. ASSUME NEW s \in Sessions, NEW h \in Seq(Msgs), WritesFront(s, h), Checked(s),
             s.reads = 0, s.stage = q.stage, s.mState = q.mState, s.failed = q.failed,
             ses' = CheckRead(s), sent' = h
      PROVE  WSInv'
  <2>1. /\ ses' \in Sessions /\ ses'.reads = 1
        /\ ses'.stage = s.stage /\ ses'.mState = s.mState /\ ses'.failed = s.failed
        /\ ses'.sending = s.sending /\ ses'.queue = s.queue
        /\ ses'.wire = s.wire /\ ses'.writes = s.writes
    BY <1>5, ReadAgain
  <2>2. WritesFront(ses', h)
    BY <1>5, <2>1, SendingSide
  <2>3. Checked(ses') /\ ReadsOpen(ses')
    BY <1>1, <1>2, <1>5, <2>1 DEF Checked, ReadsOpen
  <2>. QED BY <1>5, <2>1, <2>2, <2>3 DEF WSInv, TypeOK, WritesFront, Unsent, Checked, ReadsOpen
<1>6. CASE ses' = CheckRead(q) /\ sent' = sent
  <2>1. Checked(q)
    BY <1>1, <1>2 DEF Checked
  <2>. QED BY <1>1, <1>2, <1>4, <1>5, <1>6, <2>1
<1>7. ASSUME NEW m \in Msgs, ses' = CheckRead(Send(q, m)), sent' = Append(sent, m)
      PROVE  WSInv'
  <2>1. LET c == Send(q, m)
        IN  /\ c \in Sessions /\ WritesFront(c, Append(sent, m)) /\ Checked(c)
            /\ c.stage = q.stage /\ c.mState = q.mState
            /\ c.reads = q.reads /\ c.failed = q.failed
    BY <1>1, <1>2, <1>4, SendInv
  <2>2. Append(sent, m) \in Seq(Msgs)
    BY <1>1, AppendProperties
  <2>. QED BY <1>2, <1>5, <1>7, <2>1, <2>2
<1>. QED BY <1>3, <1>6, <1>7

\* handle_tx()
LEMMA WriteDoneInv ==
  ASSUME WSInv, WriteDone
  PROVE  WSInv'
<1>1. /\ ses \in Sessions /\ sent \in Seq(Msgs) /\ WritesFront(ses, sent) /\ ReadsOpen(ses)
      /\ ses.writes > 0 /\ ses' = HandleTx(ses) /\ sent' = sent
  BY DEF WriteDone, ClientIdle, WSInv, TypeOK
<1>2. /\ ses' \in Sessions /\ WritesFront(ses', sent) /\ Checked(ses')
      /\ ses'.stage = ses.stage /\ ses'.mState = ses.mState
      /\ ses'.reads = ses.reads /\ ses'.failed = ses.failed
  BY <1>1, HandleTxInv
<1>3. ReadsOpen(ses')
  BY <1>1, <1>2 DEF ReadsOpen
<1>. QED BY <1>1, <1>2, <1>3 DEF WSInv, TypeOK, WritesFront, Unsent, Checked, ReadsOpen

\* A handler called with an error.
LEMMA FailsInv ==
  ASSUME WSInv, OperationFails
  PROVE  WSInv'
<1>1. /\ ses \in Sessions /\ sent \in Seq(Msgs) /\ WritesFront(ses, sent) /\ ReadsOpen(ses)
      /\ Checked(ses) /\ sent' = sent
  BY DEF OperationFails, WSInv, TypeOK
<1>2. CASE /\ ses.stage \in {"resolve", "connect", "ssl_handshake", "handshake"}
           /\ ses' = FailStage(ses)
  <2>1. ses' = [ses EXCEPT !.stage = "dead", !.failed = TRUE]
    BY <1>2 DEF FailStage
  <2>2. /\ ses' \in Sessions /\ ses'.stage = "dead" /\ ses'.failed = TRUE
        /\ ses'.mState = ses.mState /\ ses'.reads = ses.reads
        /\ ses'.sending = ses.sending /\ ses'.queue = ses.queue
        /\ ses'.wire = ses.wire /\ ses'.writes = ses.writes
    BY <1>1, <2>1 DEF Sessions, Stages
  <2>3. WritesFront(ses', sent)
    BY <1>1, <2>2, SendingSide
  <2>4. Checked(ses') /\ ReadsOpen(ses')
    BY <1>1, <1>2, <2>2 DEF Checked, ReadsOpen
  <2>. QED BY <1>1, <2>2, <2>3, <2>4 DEF WSInv, TypeOK, WritesFront, Unsent, Checked, ReadsOpen
<1>3. CASE ses.reads > 0 /\ ses' = FailRead(ses)
  <2>1. ses.reads - 1 = 0 /\ ses.mState = "connected"
    BY <1>1, <1>3 DEF ReadsOpen, Sessions
  <2>2. ses' = [ses EXCEPT !.reads = 0, !.failed = TRUE]
    BY <1>3, <2>1 DEF FailRead
  <2>3. /\ ses' \in Sessions /\ ses'.reads = 0 /\ ses'.failed = TRUE
        /\ ses'.mState = ses.mState /\ ses'.stage = ses.stage
        /\ ses'.sending = ses.sending /\ ses'.queue = ses.queue
        /\ ses'.wire = ses.wire /\ ses'.writes = ses.writes
    BY <1>1, <2>2 DEF Sessions
  <2>4. WritesFront(ses', sent)
    BY <1>1, <2>3, SendingSide
  <2>5. Checked(ses') /\ ReadsOpen(ses')
    BY <1>1, <2>3 DEF Checked, ReadsOpen
  <2>. QED BY <1>1, <2>3, <2>4, <2>5 DEF WSInv, TypeOK, WritesFront, Unsent, Checked, ReadsOpen
<1>4. CASE ses.writes > 0 /\ ses' = FailTx(ses)
  <2>1. ses.writes - 1 = 0
    BY <1>1, <1>4 DEF WritesFront, Sessions
  <2>2. ses' = [ses EXCEPT !.writes = 0, !.failed = TRUE]
    BY <1>4, <2>1 DEF FailTx
  <2>3. /\ ses' \in Sessions /\ ses'.writes = 0 /\ ses'.failed = TRUE
        /\ ses'.mState = ses.mState /\ ses'.stage = ses.stage /\ ses'.reads = ses.reads
        /\ ses'.sending = ses.sending /\ ses'.queue = ses.queue /\ ses'.wire = ses.wire
    BY <1>1, <2>2 DEF Sessions
  <2>4. WritesFront(ses', sent)
    BY <1>1, <2>3 DEF WritesFront, Unsent
  <2>5. Checked(ses') /\ ReadsOpen(ses')
    BY <1>1, <2>3 DEF Checked, ReadsOpen
  <2>. QED BY <1>1, <2>3, <2>4, <2>5 DEF WSInv, TypeOK, WritesFront, Unsent, Checked, ReadsOpen
<1>. QED BY <1>2, <1>3, <1>4 DEF OperationFails

\* WSInv is an invariant of the specification.
LEMMA WSInvariance == Spec => []WSInv
<1>1. WSInv /\ [Next]_vars => WSInv'
  <2> SUFFICES ASSUME WSInv, [Next]_vars PROVE WSInv'
    OBVIOUS
  <2>1. CASE UNCHANGED vars
    BY <2>1 DEF vars, WSInv, TypeOK, WritesFront, Unsent, Checked, ReadsOpen
  <2>. QED
    BY <2>1, CallSendInv, StageDoneInv, HandshakeDoneInv, MessageReadInv, WriteDoneInv,
       FailsInv DEF Next
<1>. QED BY <1>1, WSInvInit, PTL DEF Spec

-----------------------------------------------------------------------------
(* The theorems. *)

\* Every field of the session stays in its type.
THEOREM WSTypeCorrect == Spec => []TypeOK
<1>1. WSInv => TypeOK
  BY DEF WSInv
<1>. QED BY <1>1, WSInvariance, PTL

\* Whatever the client does in and out of its callbacks, at most one read and one write
\* are under way on the stream.
THEOREM WSOneOperationEach == Spec => []OneOperationEach
<1>1. WSInv => OneOperationEach
  BY DEF WSInv, WritesFront, ReadsOpen, OneOperationEach
<1>. QED BY <1>1, WSInvariance, PTL

\* The message whose address async_write was given stays at the front of the queue until
\* the write is over.
THEOREM WSBufferOutlivesWrite == Spec => []BufferOutlivesWrite
<1>1. WSInv => BufferOutlivesWrite
  BY DEF WSInv, TypeOK, Sessions, WritesFront, BufferOutlivesWrite
<1>. QED BY <1>1, WSInvariance, PTL

\* send() loses, repeats and reorders nothing.
THEOREM WSSentInOrder == Spec => []SentInOrder
<1>1. WSInv => SentInOrder
  BY DEF WSInv, WritesFront, SentInOrder
<1>. QED BY <1>1, WSInvariance, PTL

\* On an open connection a message waits only behind a write under way.
THEOREM WSNoStall == Spec => []NoStall
<1>1. WSInv => NoStall
  BY DEF WSInv, WritesFront, Checked, NoStall
<1>. QED BY <1>1, WSInvariance, PTL

\* A session that is neither connecting nor reading has reported an error.
THEOREM WSNoSilentDeath == Spec => []NoSilentDeath
<1>1. WSInv => NoSilentDeath
  BY DEF WSInv, TypeOK, Sessions, Stages, ReadsOpen, NoSilentDeath
<1>. QED BY <1>1, WSInvariance, PTL
=============================================================================
