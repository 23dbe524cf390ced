------------------------ MODULE HttpConnectionProofs ------------------------
(***************************************************************************)
(* TLAPS proofs about an HTTP session: for every set of requests, any      *)
(* number of segments per response, any order of completions and errors    *)
(* and any way in which the socket cuts the responses into reads.          *)
(***************************************************************************)
EXTENDS HttpConnection, SequenceTheorems, TLAPS

-----------------------------------------------------------------------------
(* Sequences. *)

\* Moving the front of q to the end of w changes nothing of w \o q.
LEMMA MoveFront ==
  ASSUME NEW S, NEW w \in Seq(S), NEW q \in Seq(S), q # <<>>
  PROVE  Append(w, Head(q)) \o Tail(q) = w \o q
<1>1. Head(q) \in S /\ Tail(q) \in Seq(S)
  BY HeadTailProperties
<1>2. q = <<Head(q)>> \o Tail(q)
  BY <1>1
<1>3. Append(w, Head(q)) = w \o <<Head(q)>>
  BY <1>1, AppendIsConcat
<1>4. <<Head(q)>> \in Seq(S)
  BY <1>1
<1>. QED BY <1>1, <1>2, <1>3, <1>4, ConcatAssociative

\* Appending to q appends to w \o q.
LEMMA ConcatAppend ==
  \A w, q \in Seq(Reqs), m \in Reqs : w \o Append(q, m) = Append(w \o q, m)
<1> TAKE w, q \in Seq(Reqs), m \in Reqs
<1>1. <<m>> \in Seq(Reqs) /\ w \o q \in Seq(Reqs)
  BY ConcatProperties
<1>2. Append(q, m) = q \o <<m>> /\ Append(w \o q, m) = (w \o q) \o <<m>>
  BY <1>1, AppendIsConcat
<1>. QED BY <1>1, <1>2, ConcatAssociative

-----------------------------------------------------------------------------
(* Sending. *)

\* The two halves of the session that the methods below leave alone.
SameReading(c, s) ==
  /\ c.stage = s.stage /\ c.mState = s.mState /\ c.reads = s.reads /\ c.failed = s.failed
  /\ c.answered = s.answered /\ c.socket = s.socket /\ c.buffer = s.buffer

SameSending(c, s) ==
  c.sending = s.sending /\ c.queue = s.queue /\ c.wire = s.wire /\ c.writes = s.writes


\* check_send() restores Checked, keeps the rest and leaves the reading side alone.
LEMMA CheckSendInv ==
  ASSUME NEW s \in Sessions, NEW h \in Seq(Reqs), WritesFront(s, h)
  PROVE  LET c == CheckSend(s)
         IN  /\ c \in Sessions /\ WritesFront(c, h) /\ Checked(c)
             /\ SameReading(c, s) /\ Len(c.wire) >= Len(s.wire)
<1>1. CASE s.mState # "connected" \/ s.sending \/ s.queue = <<>>
  <2>1. Len(s.wire) \in Nat
    BY LenProperties DEF Sessions
  <2>. QED BY <1>1, <2>1 DEF CheckSend, Checked, Sessions, SameReading
<1>2. CASE ~(s.mState # "connected" \/ s.sending \/ s.queue = <<>>)
  <2> DEFINE c == [s EXCEPT !.sending = TRUE, !.writes = @ + 1, !.wire = Append(@, Head(s.queue))]
  <2>1. CheckSend(s) = c
    BY <1>2 DEF CheckSend, InitiateTx
  <2>2. /\ s.queue \in Seq(Reqs) /\ s.queue # <<>> /\ Head(s.queue) \in Reqs
        /\ s.wire \in Seq(Reqs) /\ s.writes = 0
    BY <1>2, HeadTailProperties DEF Sessions, WritesFront
  <2>3. /\ c.sending = TRUE /\ c.writes = 1 /\ c.wire = Append(s.wire, Head(s.queue))
        /\ c.queue = s.queue /\ SameReading(c, s)
    BY <2>2 DEF Sessions, SameReading
  <2>4. c \in Sessions
    <3>1. Append(s.wire, Head(s.queue)) \in Seq(Reqs) /\ s.writes + 1 \in Nat
      BY <2>2, AppendProperties
    <3>. QED BY <3>1 DEF Sessions
  <2>5. h = s.wire \o s.queue
    BY <1>2 DEF WritesFront, Unsent
  <2>6. h = c.wire \o Unsent(c)
    BY <2>2, <2>3, <2>5, MoveFront DEF Unsent
  <2>7. WritesFront(c, h) /\ Checked(c)
    BY <1>2, <2>2, <2>3, <2>6 DEF WritesFront, Checked, SameReading
  <2>8. Len(c.wire) >= Len(s.wire)
    BY <2>2, <2>3, AppendProperties, LenProperties
  <2>. QED BY <2>1, <2>3, <2>4, <2>7, <2>8
<1>. QED BY <1>1, <1>2

\* send(): the request is at the end of the queue or handed to the stream.
LEMMA SendInv ==
  ASSUME NEW s \in Sessions, NEW h \in Seq(Reqs), WritesFront(s, h), NEW m \in Reqs
  PROVE  LET c == Send(s, m)
         IN  /\ c \in Sessions /\ WritesFront(c, Append(h, m)) /\ Checked(c)
             /\ SameReading(c, s) /\ Len(c.wire) >= Len(s.wire)
<1> DEFINE q == [s EXCEPT !.queue = Append(@, m)]
<1>1. /\ q \in Sessions /\ q.queue = Append(s.queue, m) /\ q.wire = s.wire
      /\ q.sending = s.sending /\ q.writes = s.writes /\ SameReading(q, s)
  BY AppendProperties DEF Sessions, SameReading
<1> HIDE DEF q
<1>2. s.queue \in Seq(Reqs) /\ s.wire \in Seq(Reqs) /\ Append(h, m) \in Seq(Reqs)
  BY AppendProperties DEF Sessions
<1>3. Append(h, m) = q.wire \o Unsent(q)
  <2>1. CASE s.sending
    <3>1. s.queue # <<>> /\ Tail(s.queue) \in Seq(Reqs)
      BY <1>2, <2>1, HeadTailProperties DEF WritesFront
    <3>2. Unsent(q) = Append(Tail(s.queue), m)
      BY <1>1, <1>2, <2>1, <3>1, HeadTailAppend DEF Unsent
    <3>3. h = s.wire \o Tail(s.queue)
      BY <2>1 DEF WritesFront, Unsent
    <3>4. s.wire \o Append(Tail(s.queue), m) = Append(s.wire \o Tail(s.queue), m)
      BY <1>2, <3>1, ConcatAppend
    <3>. QED BY <1>1, <3>2, <3>3, <3>4
  <2>2. CASE ~s.sending
    <3>1. Unsent(q) = Append(s.queue, m) /\ h = s.wire \o s.queue
      BY <1>1, <2>2 DEF WritesFront, Unsent
    <3>2. s.wire \o Append(s.queue, m) = Append(s.wire \o s.queue, m)
      BY <1>2, ConcatAppend
    <3>. QED BY <1>1, <3>1, <3>2
  <2>. QED BY <2>1, <2>2
<1>4. q.queue # <<>>
  BY <1>1, <1>2, AppendProperties
<1>5. WritesFront(q, Append(h, m))
  BY <1>1, <1>3, <1>4 DEF WritesFront, SameReading
<1>6. Send(s, m) = CheckSend(q)
  BY DEF Send, q
<1>7. LET c == CheckSend(q)
      IN  /\ c \in Sessions /\ WritesFront(c, Append(h, m)) /\ Checked(c)
          /\ SameReading(c, q) /\ Len(c.wire) >= Len(q.wire)
  BY <1>1, <1>2, <1>5, CheckSendInv
<1>. QED BY <1>1, <1>6, <1>7 DEF SameReading

\* handle_tx(): the request sent is popped, the next one is handed to the stream.
LEMMA HandleTxInv ==
  ASSUME NEW s \in Sessions, NEW h \in Seq(Reqs), WritesFront(s, h), s.writes > 0
  PROVE  LET c == HandleTx(s)
         IN  /\ c \in Sessions /\ WritesFront(c, h) /\ Checked(c)
             /\ SameReading(c, s) /\ Len(c.wire) >= Len(s.wire)
<1> DEFINE q == [s EXCEPT !.writes = @ - 1, !.queue = Tail(@), !.sending = FALSE]
<1>1. s.writes = 1 /\ s.sending /\ s.queue # <<>> /\ s.queue \in Seq(Reqs)
  BY DEF Sessions, WritesFront
<1>2. Tail(s.queue) \in Seq(Reqs) /\ s.writes - 1 = 0
  BY <1>1, HeadTailProperties
<1>3. /\ q \in Sessions /\ q.queue = Tail(s.queue) /\ q.wire = s.wire
      /\ q.sending = FALSE /\ q.writes = 0 /\ SameReading(q, s)
  <2>1. q = [s EXCEPT !.writes = 0, !.queue = Tail(s.queue), !.sending = FALSE]
    BY <1>2
  <2> HIDE DEF q
  <2>2. q.writes = 0 /\ q.queue = Tail(s.queue) /\ q.sending = FALSE
    BY <2>1 DEF Sessions
  <2>3. q \in Sessions
    BY <1>2, <2>1 DEF Sessions
  <2>. QED BY <2>1, <2>2, <2>3 DEF Sessions, SameReading
<1> HIDE DEF q
<1>4. h = q.wire \o Unsent(q)
  BY <1>1, <1>3 DEF WritesFront, Unsent
<1>5. WritesFront(q, h)
  BY <1>3, <1>4 DEF WritesFront, SameReading
<1>6. HandleTx(s) = CheckSend(q)
  BY DEF HandleTx, q
<1>7. LET c == CheckSend(q)
      IN  /\ c \in Sessions /\ WritesFront(c, h) /\ Checked(c)
          /\ SameReading(c, q) /\ Len(c.wire) >= Len(q.wire)
  BY <1>3, <1>5, CheckSendInv
<1>. QED BY <1>3, <1>6, <1>7 DEF SameReading

\* What does not touch the sending side keeps its invariant.
LEMMA SendingSide ==
  ASSUME NEW s \in Sessions, NEW c \in Sessions, NEW h \in Seq(Reqs), WritesFront(s, h),
         SameSending(c, s), s.failed => c.failed, c.mState \in {"connected", s.mState}
  PROVE  WritesFront(c, h)
  BY DEF WritesFront, Unsent, Sessions, SameSending

\* What does not touch the reading side keeps its invariants, if the wire only grows.
LEMMA ReadingSide ==
  ASSUME NEW s \in Sessions, NEW c \in Sessions, NEW h, NEW d, SameReading(c, s),
         Len(c.wire) >= Len(s.wire)
  PROVE  /\ ReadsOpen(s) => ReadsOpen(c)
         /\ Waited(s, h, d) => Waited(c, h, d)
<1>1. Len(c.wire) \in Nat /\ Len(s.wire) \in Nat /\ s.answered \in Nat
  BY LenProperties DEF Sessions
<1>. QED BY <1>1 DEF ReadsOpen, Waited, SameReading

\* The wire is the beginning of what was sent.
LEMMA WireLength ==
  ASSUME NEW s \in Sessions, NEW h \in Seq(Reqs), WritesFront(s, h)
  PROVE  Len(s.wire) \in Nat /\ Len(h) \in Nat /\ Len(s.wire) <= Len(h)
<1>1. s.wire \in Seq(Reqs) /\ s.queue \in Seq(Reqs) /\ h = s.wire \o Unsent(s)
  BY DEF Sessions, WritesFront
<1>2. Unsent(s) \in Seq(Reqs)
  <2>1. CASE s.sending
    BY <1>1, <2>1, HeadTailProperties DEF WritesFront, Unsent
  <2>2. CASE ~s.sending
    BY <1>1, <2>2 DEF Unsent
  <2>. QED BY <2>1, <2>2
<1>3. Len(h) = Len(s.wire) + Len(Unsent(s))
  BY <1>1, <1>2, ConcatProperties
<1>. QED BY <1>1, <1>2, <1>3, LenProperties

\* The invariant of the next state, from its parts.
LEMMA HttpInvNext ==
  ASSUME ses' \in Sessions, sent' \in Seq(Reqs), delivered' \in Seq(Nat), pipelined' \in BOOLEAN,
         WritesFront(ses', sent'), Checked(ses'), ReadsOpen(ses'),
         ~pipelined' => Waited(ses', sent', delivered')
  PROVE  HttpInv'
  BY DEF HttpInv, TypeOK, WritesFront, Unsent, Checked, ReadsOpen, Waited, Response

\* The client's part of a handler: it sends a request or does not.
LEMMA ClientInv ==
  ASSUME NEW s \in Sessions, sent \in Seq(Reqs), pipelined \in BOOLEAN,
         WritesFront(s, sent), Checked(s), ReadsOpen(s),
         delivered' \in Seq(Nat), ~pipelined => Waited(s, sent, delivered'), Client(s)
  PROVE  HttpInv'
<1>1. CASE ses' = s /\ UNCHANGED clientvars
  BY <1>1, HttpInvNext DEF clientvars
<1>2. ASSUME NEW m \in Reqs, ses' = Send(s, m), sent' = Append(sent, m),
             pipelined' = (pipelined \/ Len(sent) > Len(delivered'))
      PROVE  HttpInv'
  <2>1. /\ ses' \in Sessions /\ WritesFront(ses', sent') /\ Checked(ses')
        /\ SameReading(ses', s) /\ Len((ses').wire) >= Len(s.wire)
    BY <1>2, SendInv
  <2>2. sent' \in Seq(Reqs) /\ Len(sent') = Len(sent) + 1
    BY <1>2, AppendProperties
  <2>3. ReadsOpen(ses') /\ (~pipelined => Waited(ses', sent, delivered'))
    BY <2>1, ReadingSide
  <2>4. ASSUME ~pipelined'
        PROVE  Waited(ses', sent', delivered')
    <3>1. Len(sent) \in Nat /\ Len(delivered') \in Nat
      BY LenProperties
    <3>2. ~pipelined /\ ~(Len(sent) > Len(delivered'))
      BY <1>2, <2>4, Zenon
    <3>3. Waited(ses', sent, delivered')
      BY <2>3, <3>2
    <3>. QED BY <2>2, <3>1, <3>2, <3>3 DEF Waited
  <2>. QED
    BY <1>2, <2>1, <2>2, <2>3, <2>4, HttpInvNext
<1>. QED BY <1>1, <1>2 DEF Client, ClientIdle, ClientSends

-----------------------------------------------------------------------------
(* Reading. *)

\* A response as the sequence of its segments.
LEMMA ResponseSeq ==
  ASSUME NEW k \in Nat
  PROVE  /\ Response(k) \in Seq(Segments) /\ Len(Response(k)) = Segs
         /\ \A i \in 1..Segs : Response(k)[i] = [req |-> k, seg |-> i]
<1>1. Response(k) \in [1..Segs -> Segments]
  BY DEF Response, Segments
<1>2. Segs \in Nat
  BY SegsAssumption
<1>3. Response(k) \in Seq(Segments)
  BY <1>1, <1>2
<1>4. DOMAIN Response(k) = 1..Segs
  BY DEF Response
<1>5. Len(Response(k)) = Segs
  BY <1>2, <1>3, <1>4, LenProperties
<1>. QED BY <1>3, <1>5 DEF Response

\* The server's answer: with a client that waits it is the only one on its way.
LEMMA AnswerInv ==
  ASSUME HttpInv, Answer
  PROVE  HttpInv'
<1>1. /\ ses \in Sessions /\ sent \in Seq(Reqs) /\ delivered \in Seq(Nat) /\ pipelined \in BOOLEAN
      /\ WritesFront(ses, sent) /\ Checked(ses) /\ ReadsOpen(ses)
      /\ ~pipelined => Waited(ses, sent, delivered)
      /\ sent' = sent /\ delivered' = delivered /\ pipelined' = pipelined
  BY DEF HttpInv, TypeOK, Answer, clientvars
<1>2. PICK k \in Nat : k = ses.answered + 1
  BY <1>1 DEF Sessions
<1>3. PICK b \in Seq(Segments) : b = ses.socket \o Response(k)
  BY <1>1, ResponseSeq, ConcatProperties DEF Sessions
<1>4. ses' = [ses EXCEPT !.answered = k, !.socket = b]
  BY <1>2, <1>3 DEF Answer, ServerAnswers
<1>5. /\ ses' \in Sessions /\ (ses').answered = k /\ (ses').socket = b
      /\ (ses').buffer = ses.buffer /\ (ses').stage = ses.stage /\ (ses').mState = ses.mState
      /\ (ses').reads = ses.reads /\ (ses').failed = ses.failed /\ SameSending(ses', ses)
  BY <1>1, <1>4 DEF Sessions, SameSending
<1>6. WritesFront(ses', sent)
  BY <1>1, <1>5, SendingSide
<1>7. Checked(ses') /\ ReadsOpen(ses')
  BY <1>1, <1>5 DEF Checked, ReadsOpen, SameSending
<1>8. ASSUME Waited(ses, sent, delivered)
      PROVE  Waited(ses', sent, delivered)
  <2>1. /\ Len(delivered) \in Nat /\ Len(ses.wire) \in Nat /\ Len(sent) \in Nat
        /\ Len(ses.wire) <= Len(sent) /\ ses.answered \in Nat
    BY <1>1, LenProperties, WireLength DEF Sessions
  <2>2. ses.answered < Len(ses.wire)
    BY DEF Answer
  <2>3. ses.answered = Len(delivered) /\ k = Len(delivered) + 1 /\ k <= Len(ses.wire)
    BY <1>2, <1>8, <2>1, <2>2 DEF Waited
  <2>4. b = Response(k)
    <3>1. ses.socket = <<>>
      BY <1>8, <2>3 DEF Waited
    <3>. QED BY <1>3, <3>1, ResponseSeq, ConcatEmptySeq
  <2>. QED BY <1>5, <1>8, <2>1, <2>3, <2>4 DEF Waited, SameSending
<1>. QED
  BY <1>1, <1>5, <1>6, <1>7, <1>8, HttpInvNext

\* The first n segments of q, and the others.
LEMMA SplitSegments ==
  ASSUME NEW q \in Seq(Segments), NEW n \in 0..Len(q)
  PROVE  /\ SubSeq(q, 1, n) \in Seq(Segments) /\ Len(SubSeq(q, 1, n)) = n
         /\ \A i \in 1..n : SubSeq(q, 1, n)[i] = q[i]
         /\ SubSeq(q, n + 1, Len(q)) \in Seq(Segments)
         /\ Len(SubSeq(q, n + 1, Len(q))) = Len(q) - n
         /\ \A i \in 1..(Len(q) - n) : SubSeq(q, n + 1, Len(q))[i] = q[n + i]
<1>1. Len(q) \in Nat /\ n \in Nat /\ \A i \in 1..Len(q) : q[i] \in Segments
  BY LenProperties, ElementOfSeq
<1>2. /\ \A i \in 1..n : q[i] \in Segments
      /\ \A i \in (n + 1)..Len(q) : q[i] \in Segments
  BY <1>1
<1>3. /\ SubSeq(q, 1, n) \in Seq(Segments)
      /\ Len(SubSeq(q, 1, n)) = IF 1 <= n THEN n - 1 + 1 ELSE 0
      /\ \A i \in 1..(n - 1 + 1) : SubSeq(q, 1, n)[i] = q[1 + i - 1]
  BY <1>1, <1>2, SubSeqProperties
<1>4. /\ SubSeq(q, n + 1, Len(q)) \in Seq(Segments)
      /\ Len(SubSeq(q, n + 1, Len(q))) = IF n + 1 <= Len(q) THEN Len(q) - (n + 1) + 1 ELSE 0
      /\ \A i \in 1..(Len(q) - (n + 1) + 1) :
           SubSeq(q, n + 1, Len(q))[i] = q[n + 1 + i - 1]
  BY <1>1, <1>2, SubSeqProperties
<1>. QED BY <1>1, <1>3, <1>4

\* A response is read: with buffer_ empty before the read it is the one the socket starts
\* with, and it ends at or before the n-th segment.
LEMMA ReadComplete ==
  ASSUME NEW s \in Sessions, NEW n \in 0..Len(s.socket), s.buffer = <<>>, ReadCompletes(s, n)
  PROVE  /\ Segs <= n /\ Delivered(s, n) = s.socket[1].req
         /\ s.socket[Segs].req = s.socket[1].req /\ s.socket[Segs].seg = Segs
<1>1. s.socket \in Seq(Segments) /\ Len(s.socket) \in Nat /\ n \in Nat /\ Segs \in Nat /\ Segs >= 1
  BY LenProperties, SegsAssumption DEF Sessions
<1>2. PICK b \in Seq(Segments) :
        b = SubSeq(s.socket, 1, n) /\ Len(b) = n /\ \A i \in 1..n : b[i] = s.socket[i]
  BY <1>1, SplitSegments
<1>3. Received(s, n) = b
  BY <1>2, ConcatEmptySeq DEF Received
<1>4. Segs <= n /\ SubSeq(b, 1, Segs) = Response(b[1].req)
  BY <1>1, <1>2, <1>3 DEF ReadCompletes, StartsWithResponse
<1>5. b[1] = s.socket[1] /\ b[Segs] = s.socket[Segs] /\ b[1].req \in Nat
  <2>1. 1 \in 1..n /\ Segs \in 1..n
    BY <1>1, <1>4
  <2>2. b[1] \in Segments
    BY <1>2, <2>1, ElementOfSeq
  <2>. QED BY <1>2, <2>1, <2>2 DEF Segments
<1>6. SubSeq(b, 1, Segs)[Segs] = b[Segs]
  <2>1. Segs \in 0..Len(b) /\ Segs \in 1..Segs
    BY <1>1, <1>2, <1>4
  <2>. QED BY <2>1, SplitSegments
<1>7. b[Segs] = [req |-> b[1].req, seg |-> Segs]
  BY <1>1, <1>4, <1>6 DEF Response
<1>8. Delivered(s, n) = b[1].req
  BY <1>3 DEF Delivered
<1>. QED BY <1>4, <1>5, <1>7, <1>8

\* handle_read() and check_read(): the sending side is left alone, a read follows the read.
LEMMA ReadKeeps ==
  ASSUME NEW s \in Sessions, ReadsOpen(s), NEW n \in 0..Len(s.socket), ReadCompletes(s, n)
  PROVE  LET c == CheckRead(ReadDone(s, n))
         IN  /\ c \in Sessions /\ SameSending(c, s)
             /\ c.stage = s.stage /\ c.mState = s.mState /\ c.reads = s.reads
             /\ c.failed = s.failed /\ c.answered = s.answered
             /\ c.socket = SubSeq(s.socket, n + 1, Len(s.socket)) /\ c.buffer = <<>>
             /\ Delivered(s, n) \in Nat
<1>1. /\ s.socket \in Seq(Segments) /\ s.buffer \in Seq(Segments) /\ s.reads = 1
      /\ Segs \in Nat /\ Segs >= 1
  BY SegsAssumption DEF Sessions, ReadCompletes, ReadsOpen
<1>2. PICK rest \in Seq(Segments) : rest = SubSeq(s.socket, n + 1, Len(s.socket))
  BY <1>1, SplitSegments
<1>3. PICK c : c = [s EXCEPT !.reads = 1, !.buffer = <<>>, !.socket = rest]
  OBVIOUS
<1>4. CheckRead(ReadDone(s, n)) = c
  <2>1. s.reads - 1 + 1 = 1
    BY <1>1
  <2>. QED BY <1>2, <1>3, <2>1 DEF CheckRead, ReadDone, Sessions
<1>5. /\ c \in Sessions /\ SameSending(c, s)
      /\ c.stage = s.stage /\ c.mState = s.mState /\ c.reads = s.reads
      /\ c.failed = s.failed /\ c.answered = s.answered /\ c.socket = rest /\ c.buffer = <<>>
  BY <1>1, <1>3, EmptySeq DEF Sessions, SameSending
<1>6. Delivered(s, n) \in Nat
  <2>1. PICK b \in Seq(Segments) : b = Received(s, n)
    BY <1>1, SplitSegments, ConcatProperties DEF Received
  <2>2. Len(b) >= Segs /\ Len(b) \in Nat
    BY <2>1, LenProperties DEF ReadCompletes, StartsWithResponse
  <2>3. b[1] \in Segments
    BY <1>1, <2>1, <2>2, ElementOfSeq
  <2>. QED BY <2>1, <2>3 DEF Delivered, Segments
<1>. QED BY <1>2, <1>4, <1>5, <1>6

\* With a client that waits the read is of the one response that is on its way, and leaves
\* nothing in buffer_ to throw away.
LEMMA ReadWaited ==
  ASSUME NEW s \in Sessions, NEW h \in Seq(Reqs), NEW d \in Seq(Nat), Waited(s, h, d),
         WritesFront(s, h), ReadsOpen(s), NEW n \in 0..Len(s.socket), ReadCompletes(s, n)
  PROVE  Waited(CheckRead(ReadDone(s, n)), h, Append(d, Delivered(s, n)))
<1>1. /\ s.socket \in Seq(Segments) /\ Len(s.socket) \in Nat /\ n \in Nat /\ s.answered \in Nat
      /\ Segs \in Nat /\ Segs >= 1 /\ Len(d) \in Nat /\ s.buffer = <<>>
      /\ Len(s.wire) \in Nat /\ Len(h) \in Nat /\ Len(s.wire) <= Len(h)
  BY LenProperties, SegsAssumption, WireLength DEF Sessions, Waited
<1>2. Segs <= n /\ Delivered(s, n) = s.socket[1].req
  BY <1>1, ReadComplete
<1>3. s.answered = Len(d) + 1 /\ s.socket = Response(s.answered)
  <2>1. Len(s.socket) # 0
    BY <1>1, <1>2
  <2>. QED BY <2>1, EmptySeq DEF Waited
<1>4. /\ Len(s.socket) = Segs /\ n = Segs
      /\ s.socket[1] = [req |-> s.answered, seg |-> 1]
  <2>1. Len(s.socket) = Segs /\ \A i \in 1..Segs : s.socket[i] = [req |-> s.answered, seg |-> i]
    BY <1>1, <1>3, ResponseSeq
  <2>. QED BY <1>1, <1>2, <2>1
<1>5. PICK r \in Nat : r = Delivered(s, n) /\ r = Len(d) + 1
  BY <1>1, <1>2, <1>3, <1>4
<1>6. SubSeq(s.socket, n + 1, Len(s.socket)) = <<>>
  <2>1. /\ SubSeq(s.socket, n + 1, Len(s.socket)) \in Seq(Segments)
        /\ Len(SubSeq(s.socket, n + 1, Len(s.socket))) = 0
    BY <1>1, <1>4, SplitSegments
  <2>. QED BY <2>1, EmptySeq
<1>7. PICK e \in Seq(Nat) :
        /\ e = Append(d, r) /\ Len(e) = Len(d) + 1 /\ e[Len(d) + 1] = r
        /\ \A i \in 1..Len(d) : e[i] = d[i]
  <2>1. /\ Append(d, r) \in Seq(Nat) /\ Len(Append(d, r)) = Len(d) + 1
        /\ Append(d, r)[Len(d) + 1] = r /\ \A i \in 1..Len(d) : Append(d, r)[i] = d[i]
    BY <1>5, AppendProperties
  <2>. QED BY <2>1
<1>8. \A i \in 1..Len(e) : e[i] = i
  BY <1>1, <1>5, <1>7 DEF Waited
<1>9. PICK c : /\ c = CheckRead(ReadDone(s, n))
               /\ c.wire = s.wire /\ c.answered = s.answered /\ c.socket = <<>>
               /\ c.buffer = <<>>
  <2>1. LET c == CheckRead(ReadDone(s, n))
        IN  /\ c.wire = s.wire /\ c.answered = s.answered
            /\ c.socket = SubSeq(s.socket, n + 1, Len(s.socket)) /\ c.buffer = <<>>
    BY ReadKeeps DEF SameSending
  <2>. QED BY <1>6, <2>1
<1>10. Waited(c, h, e)
  BY <1>1, <1>3, <1>7, <1>8, <1>9 DEF Waited
<1>. QED BY <1>5, <1>7, <1>9, <1>10

\* With a client that waits, what can be read is the beginning of a response.
LEMMA NothingGarbled ==
  ASSUME NEW s \in Sessions, NEW h, NEW d, Waited(s, h, d), NEW n \in 0..Len(s.socket)
  PROVE  ~ReadGarbled(s, n)
<1> SUFFICES ASSUME ReadGarbled(s, n) PROVE FALSE
  OBVIOUS
<1>1. /\ s.socket \in Seq(Segments) /\ Len(s.socket) \in Nat /\ n \in Nat /\ s.answered \in Nat
      /\ Segs \in Nat /\ Segs >= 1 /\ s.buffer = <<>>
  BY LenProperties, SegsAssumption DEF Sessions, Waited
<1>2. PICK b \in Seq(Segments) :
        b = SubSeq(s.socket, 1, n) /\ Len(b) = n /\ \A i \in 1..n : b[i] = s.socket[i]
  BY <1>1, SplitSegments
<1>3. Received(s, n) = b /\ b # <<>> /\ b[1].seg # 1
  BY <1>1, <1>2, ConcatEmptySeq DEF Received, ReadGarbled
<1>4. n >= 1 /\ b[1] = s.socket[1] /\ Len(s.socket) # 0
  BY <1>1, <1>2, <1>3, EmptySeq
<1>5. s.socket = Response(s.answered)
  BY <1>4, EmptySeq DEF Waited
<1>6. s.socket[1] = [req |-> s.answered, seg |-> 1]
  BY <1>1, <1>5, ResponseSeq
<1>. QED BY <1>3, <1>4, <1>6

-----------------------------------------------------------------------------
(* The handlers. *)

\* connect() has been called, and has returned early or not.
LEMMA HttpInvInit == Init => HttpInv
<1> SUFFICES ASSUME Init PROVE HttpInv
  OBVIOUS
<1>1. /\ ses = NewSession \/ ses = [NewSession EXCEPT !.stage = "resolve"]
      /\ sent = <<>> /\ delivered = <<>> /\ pipelined = FALSE
  BY DEF Init, Connect
<1>2. /\ <<>> \in Seq(Reqs) /\ <<>> \in Seq(Segments) /\ <<>> \in Seq(Nat)
      /\ <<>> \o <<>> = <<>> /\ Len(<<>>) = 0
  BY EmptySeq, ConcatEmptySeq
<1>3. TypeOK
  <2>1. NewSession \in Sessions /\ [NewSession EXCEPT !.stage = "resolve"] \in Sessions
    BY <1>2 DEF Sessions, NewSession, Stages
  <2>. QED BY <1>1, <1>2, <2>1 DEF TypeOK
<1>4. /\ ses.stage \in {"new", "resolve"} /\ ses.mState = "handshaking" /\ ses.sending = FALSE
      /\ ses.queue = <<>> /\ ses.wire = <<>> /\ ses.reads = 0 /\ ses.writes = 0
      /\ ses.socket = <<>> /\ ses.buffer = <<>> /\ ses.answered = 0
  BY <1>1 DEF NewSession
<1>5. WritesFront(ses, sent)
  <2>1. ses.wire \o Unsent(ses) = <<>>
    BY <1>2, <1>4 DEF Unsent
  <2>. QED BY <1>1, <1>4, <2>1 DEF WritesFront
<1>6. Waited(ses, sent, delivered)
  BY <1>1, <1>2, <1>4 DEF Waited
<1>. QED BY <1>3, <1>4, <1>5, <1>6 DEF HttpInv, Checked, ReadsOpen

\* send(), called from outside of the session's handlers.
LEMMA CallSendInv ==
  ASSUME HttpInv, CallSend
  PROVE  HttpInv'
<1>1. Client(ses) /\ delivered' = delivered
  BY DEF CallSend, Client
<1>. QED BY <1>1, ClientInv DEF HttpInv, TypeOK

\* The steps of the connection before the last.
LEMMA StageDoneInv ==
  ASSUME HttpInv, StageDone
  PROVE  HttpInv'
<1>1. /\ ses \in Sessions /\ sent \in Seq(Reqs) /\ delivered \in Seq(Nat) /\ pipelined \in BOOLEAN
      /\ WritesFront(ses, sent) /\ Checked(ses) /\ ReadsOpen(ses)
      /\ ~pipelined => Waited(ses, sent, delivered)
      /\ sent' = sent /\ delivered' = delivered /\ pipelined' = pipelined
  BY DEF HttpInv, TypeOK, StageDone, clientvars
<1>2. PICK g \in {"connect", "handshake"} : ses' = [ses EXCEPT !.stage = g]
  BY DEF StageDone, OnResolve, OnConnect
<1>3. /\ ses' \in Sessions /\ SameSending(ses', ses)
      /\ (ses').stage = g /\ (ses').mState = ses.mState /\ (ses').reads = ses.reads
      /\ (ses').failed = ses.failed /\ (ses').answered = ses.answered
      /\ (ses').socket = ses.socket /\ (ses').buffer = ses.buffer
  BY <1>1, <1>2 DEF Sessions, Stages, SameSending
<1>4. ses.stage # "open"
  BY DEF StageDone
<1>5. WritesFront(ses', sent)
  BY <1>1, <1>3, SendingSide
<1>6. Checked(ses') /\ ReadsOpen(ses')
  BY <1>1, <1>3, <1>4 DEF Checked, ReadsOpen, SameSending
<1>7. ~pipelined => Waited(ses', sent, delivered)
  BY <1>1, <1>3 DEF Waited, SameSending
<1>. QED BY <1>1, <1>3, <1>5, <1>6, <1>7, HttpInvNext

\* on_handshake() with what the client does in onHttpConnect().
LEMMA HandshakeDoneInv ==
  ASSUME HttpInv, HandshakeDone
  PROVE  HttpInv'
<1> DEFINE q == [ses EXCEPT !.stage = "open", !.mState = "connected", !.reads = @ + 1]
           c == CheckSend(q)
<1>1. /\ ses \in Sessions /\ sent \in Seq(Reqs) /\ delivered \in Seq(Nat) /\ pipelined \in BOOLEAN
      /\ WritesFront(ses, sent) /\ Checked(ses) /\ ReadsOpen(ses)
      /\ ~pipelined => Waited(ses, sent, delivered)
      /\ ses.stage = "handshake" /\ delivered' = delivered
  BY DEF HttpInv, TypeOK, HandshakeDone
<1>2. ses.reads = 0 /\ ses.mState = "handshaking"
  BY <1>1 DEF ReadsOpen, Sessions
<1>3. /\ q \in Sessions /\ SameSending(q, ses)
      /\ q.stage = "open" /\ q.mState = "connected" /\ q.reads = 1
      /\ q.failed = ses.failed /\ q.answered = ses.answered
      /\ q.socket = ses.socket /\ q.buffer = ses.buffer
  <2>1. q = [ses EXCEPT !.stage = "open", !.mState = "connected", !.reads = 1]
    BY <1>2
  <2> HIDE DEF q
  <2>2. q \in Sessions
    BY <1>1, <2>1 DEF Sessions, Stages
  <2>. QED BY <1>1, <2>1, <2>2 DEF Sessions, SameSending
<1>4. Client(c)
  <2>1. OnHandshake(ses) = c
    BY <1>1 DEF OnHandshake, CheckRead, Sessions
  <2>. QED BY <2>1 DEF HandshakeDone
<1> HIDE DEF q
<1>5. WritesFront(q, sent)
  BY <1>1, <1>3, SendingSide
<1>6. ReadsOpen(q) /\ (~pipelined => Waited(q, sent, delivered))
  BY <1>1, <1>2, <1>3 DEF ReadsOpen, Waited, SameSending
<1>7. /\ c \in Sessions /\ WritesFront(c, sent) /\ Checked(c) /\ SameReading(c, q)
      /\ Len(c.wire) >= Len(q.wire)
  BY <1>1, <1>3, <1>5, CheckSendInv
<1> HIDE DEF c
<1>8. ReadsOpen(c) /\ (~pipelined => Waited(c, sent, delivered))
  BY <1>3, <1>6, <1>7, ReadingSide
<1>. QED BY <1>1, <1>4, <1>7, <1>8, ClientInv

\* handle_read()
LEMMA ResponseReadInv ==
  ASSUME HttpInv, ResponseRead
  PROVE  HttpInv'
<1>1. /\ ses \in Sessions /\ sent \in Seq(Reqs) /\ delivered \in Seq(Nat) /\ pipelined \in BOOLEAN
      /\ WritesFront(ses, sent) /\ Checked(ses) /\ ReadsOpen(ses)
      /\ ~pipelined => Waited(ses, sent, delivered)
  BY DEF HttpInv, TypeOK
<1>2. PICK n \in 0..Len(ses.socket) :
        /\ ReadCompletes(ses, n)
        /\ delivered' = Append(delivered, Delivered(ses, n))
        /\ Client(CheckRead(ReadDone(ses, n)))
  BY DEF ResponseRead
<1> DEFINE c == CheckRead(ReadDone(ses, n))
<1>3. /\ c \in Sessions /\ SameSending(c, ses)
      /\ c.stage = ses.stage /\ c.mState = ses.mState /\ c.reads = ses.reads
      /\ c.failed = ses.failed /\ Delivered(ses, n) \in Nat
  BY <1>1, <1>2, ReadKeeps
<1>4. ~pipelined => Waited(c, sent, delivered')
  BY <1>1, <1>2, ReadWaited
<1>5. delivered' \in Seq(Nat) /\ Client(c)
  BY <1>1, <1>2, <1>3, AppendProperties
<1> HIDE DEF c
<1>6. WritesFront(c, sent)
  BY <1>1, <1>3, SendingSide
<1>7. Checked(c) /\ ReadsOpen(c)
  BY <1>1, <1>3 DEF Checked, ReadsOpen, SameSending
<1>. QED BY <1>1, <1>3, <1>4, <1>5, <1>6, <1>7, ClientInv

\* handle_tx()
LEMMA WriteDoneInv ==
  ASSUME HttpInv, WriteDone
  PROVE  HttpInv'
<1>1. /\ ses \in Sessions /\ sent \in Seq(Reqs) /\ delivered \in Seq(Nat) /\ pipelined \in BOOLEAN
      /\ WritesFront(ses, sent) /\ Checked(ses) /\ ReadsOpen(ses)
      /\ ~pipelined => Waited(ses, sent, delivered)
      /\ ses.writes > 0 /\ ses' = HandleTx(ses)
      /\ sent' = sent /\ delivered' = delivered /\ pipelined' = pipelined
  BY DEF WriteDone, HttpInv, TypeOK, clientvars
<1>2. /\ ses' \in Sessions /\ WritesFront(ses', sent) /\ Checked(ses')
      /\ SameReading(ses', ses) /\ Len((ses').wire) >= Len(ses.wire)
  BY <1>1, HandleTxInv
<1>3. ReadsOpen(ses') /\ (~pipelined => Waited(ses', sent, delivered))
  BY <1>1, <1>2, ReadingSide
<1>. QED BY <1>1, <1>2, <1>3, HttpInvNext

\* A handler called with an error from the network: afterwards the session has reported it.
LEMMA FailsInv ==
  ASSUME HttpInv, OperationFails
  PROVE  HttpInv'
<1>1. /\ ses \in Sessions /\ sent \in Seq(Reqs) /\ delivered \in Seq(Nat) /\ pipelined \in BOOLEAN
      /\ WritesFront(ses, sent) /\ Checked(ses) /\ ReadsOpen(ses)
      /\ ~pipelined => Waited(ses, sent, delivered)
      /\ sent' = sent /\ delivered' = delivered /\ pipelined' = pipelined
  BY DEF OperationFails, HttpInv, TypeOK, clientvars
<1>2. CASE ses.stage \in {"resolve", "connect", "handshake"} /\ ses' = FailStage(ses)
  <2>1. ses' = [ses EXCEPT !.stage = "dead", !.failed = TRUE]
    BY <1>2 DEF FailStage
  <2>2. /\ ses' \in Sessions /\ (ses').stage = "dead" /\ (ses').failed = TRUE
        /\ (ses').mState = ses.mState /\ (ses').reads = ses.reads /\ SameSending(ses', ses)
        /\ (ses').answered = ses.answered /\ (ses').socket = ses.socket
        /\ (ses').buffer = ses.buffer
    BY <1>1, <2>1 DEF Sessions, Stages, SameSending
  <2>3. WritesFront(ses', sent)
    BY <1>1, <2>2, SendingSide
  <2>4. Checked(ses') /\ ReadsOpen(ses')
    BY <1>1, <1>2, <2>2 DEF Checked, ReadsOpen, SameSending
  <2>5. ~pipelined => Waited(ses', sent, delivered)
    BY <1>1, <2>2 DEF Waited, SameSending
  <2>. QED BY <1>1, <2>2, <2>3, <2>4, <2>5, HttpInvNext
<1>3. CASE ses.reads > 0 /\ ses' = FailRead(ses)
  <2>1. ses.reads - 1 = 0
    BY <1>1, <1>3 DEF ReadsOpen, Sessions
  <2>2. ses' = [ses EXCEPT !.reads = 0, !.failed = TRUE]
    BY <1>3, <2>1 DEF FailRead
  <2>3. /\ ses' \in Sessions /\ (ses').reads = 0 /\ (ses').failed = TRUE
        /\ (ses').mState = ses.mState /\ (ses').stage = ses.stage /\ SameSending(ses', ses)
        /\ (ses').answered = ses.answered /\ (ses').socket = ses.socket
        /\ (ses').buffer = ses.buffer
    BY <1>1, <2>2 DEF Sessions, SameSending
  <2>4. WritesFront(ses', sent)
    BY <1>1, <2>3, SendingSide
  <2>5. Checked(ses') /\ ReadsOpen(ses')
    BY <1>1, <2>3 DEF Checked, ReadsOpen, SameSending
  <2>6. ~pipelined => Waited(ses', sent, delivered)
    BY <1>1, <2>3 DEF Waited, SameSending
  <2>. QED BY <1>1, <2>3, <2>4, <2>5, <2>6, HttpInvNext
<1>4. CASE ses.writes > 0 /\ ses' = FailTx(ses)
  <2>1. ses.writes - 1 = 0
    BY <1>1, <1>4 DEF WritesFront, Sessions
  <2>2. ses' = [ses EXCEPT !.writes = 0, !.failed = TRUE]
    BY <1>4, <2>1 DEF FailTx
  <2>3. /\ ses' \in Sessions /\ (ses').writes = 0 /\ (ses').failed = TRUE
        /\ (ses').mState = ses.mState /\ (ses').stage = ses.stage /\ (ses').reads = ses.reads
        /\ (ses').sending = ses.sending /\ (ses').queue = ses.queue /\ (ses').wire = ses.wire
        /\ (ses').answered = ses.answered /\ (ses').socket = ses.socket
        /\ (ses').buffer = ses.buffer
    BY <1>1, <2>2 DEF Sessions
  <2>4. WritesFront(ses', sent)
    BY <1>1, <2>3 DEF WritesFront, Unsent
  <2>5. Checked(ses') /\ ReadsOpen(ses')
    BY <1>1, <2>3 DEF Checked, ReadsOpen
  <2>6. ~pipelined => Waited(ses', sent, delivered)
    BY <1>1, <2>3 DEF Waited
  <2>. QED BY <1>1, <2>3, <2>4, <2>5, <2>6, HttpInvNext
<1>. QED BY <1>2, <1>3, <1>4 DEF OperationFails

\* The parser's error, which a client that waits never gets: buffer_ and the socket
\* change, and the session reads no more.
LEMMA BadResponseInv ==
  ASSUME HttpInv, BadResponse
  PROVE  HttpInv'
<1>1. /\ ses \in Sessions /\ sent \in Seq(Reqs) /\ delivered \in Seq(Nat) /\ pipelined \in BOOLEAN
      /\ WritesFront(ses, sent) /\ Checked(ses) /\ ReadsOpen(ses)
      /\ ~pipelined => Waited(ses, sent, delivered)
  BY DEF HttpInv, TypeOK
<1>2. PICK n \in 0..Len(ses.socket) :
        /\ ReadGarbled(ses, n)
        /\ ses' = FailRead([ses EXCEPT !.buffer = Received(ses, n),
                                       !.socket = SubSeq(@, n + 1, Len(@))])
        /\ sent' = sent /\ delivered' = delivered /\ pipelined' = pipelined
  BY DEF BadResponse, clientvars
<1>3. pipelined
  BY <1>1, <1>2, NothingGarbled
<1>4. /\ ses.socket \in Seq(Segments) /\ ses.buffer \in Seq(Segments) /\ ses.reads - 1 = 0
  BY <1>1, <1>2 DEF Sessions, ReadGarbled, ReadsOpen
<1>5. PICK rest \in Seq(Segments) : rest = SubSeq(ses.socket, n + 1, Len(ses.socket))
  BY <1>4, SplitSegments
<1>6. PICK b \in Seq(Segments) : b = Received(ses, n)
  BY <1>4, SplitSegments, ConcatProperties DEF Received
<1>7. ses' = [ses EXCEPT !.buffer = b, !.socket = rest, !.reads = 0, !.failed = TRUE]
  BY <1>1, <1>2, <1>4, <1>5, <1>6 DEF FailRead, Sessions
<1>8. /\ ses' \in Sessions /\ (ses').reads = 0 /\ (ses').failed = TRUE
      /\ (ses').mState = ses.mState /\ (ses').stage = ses.stage /\ SameSending(ses', ses)
  BY <1>1, <1>7 DEF Sessions, SameSending
<1>9. WritesFront(ses', sent)
  BY <1>1, <1>8, SendingSide
<1>10. Checked(ses') /\ ReadsOpen(ses')
  BY <1>1, <1>8 DEF Checked, ReadsOpen, SameSending
<1>. QED BY <1>1, <1>2, <1>3, <1>8, <1>9, <1>10, HttpInvNext

\* HttpInv is an invariant of the specification.
LEMMA HttpInvariance == Spec => []HttpInv
<1>1. HttpInv /\ [Next]_vars => HttpInv'
  <2> SUFFICES ASSUME HttpInv, [Next]_vars PROVE HttpInv'
    OBVIOUS
  <2>1. CASE UNCHANGED vars
    BY <2>1, HttpInvNext DEF vars, clientvars, HttpInv, TypeOK
  <2>. QED
    BY <2>1, CallSendInv, StageDoneInv, HandshakeDoneInv, ResponseReadInv, WriteDoneInv,
       AnswerInv, FailsInv, BadResponseInv DEF Next
<1>. QED BY <1>1, HttpInvInit, PTL DEF Spec

-----------------------------------------------------------------------------
(* The theorems. *)

\* Every field of the session stays in its type, buffer_ and the socket included.
THEOREM HttpTypeCorrect == Spec => []TypeOK
<1>1. HttpInv => TypeOK
  BY DEF HttpInv
<1>. QED BY <1>1, HttpInvariance, PTL

\* send() loses, repeats and reorders no request.
THEOREM HttpSentInOrder == Spec => []SentInOrder
<1>1. HttpInv => SentInOrder
  BY DEF HttpInv, WritesFront, SentInOrder
<1>. QED BY <1>1, HttpInvariance, PTL

\* On an open connection a request waits only behind a write under way.
THEOREM HttpNoStall == Spec => []NoStall
<1>1. HttpInv => NoStall
  BY DEF HttpInv, WritesFront, Checked, NoStall
<1>. QED BY <1>1, HttpInvariance, PTL

\* A session that is neither connecting nor reading has reported an error, or connect()
\* has returned early and every request is still in its queue.
THEOREM HttpSilentOnlyIfRefused == Spec => []SilentOnlyIfRefused
<1>1. HttpInv => SilentOnlyIfRefused
  <2> SUFFICES ASSUME HttpInv, ~ses.failed, ses.reads # 1,
                      ses.stage \notin {"resolve", "connect", "handshake"}
               PROVE  ses.stage = "new" /\ ses.queue = sent
    BY DEF SilentOnlyIfRefused
  <2>1. ses \in Sessions /\ WritesFront(ses, sent) /\ ReadsOpen(ses)
    BY DEF HttpInv, TypeOK
  <2>2. ses.stage = "new" /\ ses.mState = "handshaking" /\ ses.queue \in Seq(Reqs)
    BY <2>1 DEF ReadsOpen, Sessions, Stages
  <2>3. sent = <<>> \o ses.queue
    BY <2>1, <2>2 DEF WritesFront, Unsent
  <2>. QED BY <2>2, <2>3, ConcatEmptySeq
<1>. QED BY <1>1, HttpInvariance, PTL

\* A client that waits for each response before it sends the next request gets all of
\* them, in order, however the socket cuts them, although handle_read() empties buffer_.
THEOREM HttpNoneSkippedIfWaited == Spec => []NoneSkippedIfWaited
<1>1. HttpInv => NoneSkippedIfWaited
  <2> SUFFICES ASSUME HttpInv, ~pipelined
               PROVE  /\ \A i \in 1..Len(delivered) : delivered[i] = i
                      /\ \A n \in 0..Len(ses.socket) : ~ReadGarbled(ses, n)
    BY DEF NoneSkippedIfWaited
  <2>1. ses \in Sessions /\ Waited(ses, sent, delivered)
    BY DEF HttpInv, TypeOK
  <2>2. \A i \in 1..Len(delivered) : delivered[i] = i
    BY <2>1 DEF Waited
  <2>3. \A n \in 0..Len(ses.socket) : ~ReadGarbled(ses, n)
    BY <2>1, NothingGarbled
  <2>. QED BY <2>2, <2>3
<1>. QED BY <1>1, HttpInvariance, PTL
=============================================================================
