---------------------- MODULE MarketDataServiceProofs ----------------------
(***************************************************************************)
(* TLAPS proofs about MarketDataService: for all sets of prices and        *)
(* quantities, every width of int and any sequence of snapshots, updates,  *)
(* trades, replies, heartbeats and errors.                                 *)
(***************************************************************************)
EXTENDS MarketDataService, SequenceTheorems, TLAPS

-----------------------------------------------------------------------------
(* Numbers. *)

\* An int64_t becomes an int; 0 and what int can hold stay what they are.
LEMMA NarrowRange ==
  \A n \in Nat : /\ Narrow(n) \in (-IntSpan)..(IntSpan - 1)
                 /\ n < IntSpan => Narrow(n) = n
<1> TAKE n \in Nat
<1>1. IntSpan \in Nat /\ IntSpan > 0
  BY NumbersAssumption
<1>2. \A a, m \in Nat : m > 0 => a % m \in 0..(m - 1)
  BY Z3
<1>3. \A a, m \in Nat : m > 0 /\ a < m => a % m = a
  BY Z3
<1>4. 2 * IntSpan \in Nat /\ 2 * IntSpan > 0 /\ 2 * IntSpan = IntSpan + IntSpan
  BY <1>1
<1>5. n + IntSpan \in Nat
  BY <1>1
<1> DEFINE r == (n + IntSpan) % (2 * IntSpan)
<1>6. r \in 0..(2 * IntSpan - 1)
  BY <1>2, <1>4, <1>5
<1>7. n < IntSpan => r = n + IntSpan
  BY <1>1, <1>3, <1>4, <1>5
<1>8. Narrow(n) = r - IntSpan
  BY DEF Narrow
<1> HIDE DEF r
<1>. QED BY <1>1, <1>6, <1>7, <1>8

-----------------------------------------------------------------------------
(* The maps. *)

\* The values of a map filled from levels; no two prices have the same key.
LEMMA AssignProperties ==
  ASSUME NEW f, NEW levels, DOMAIN levels \subseteq Prices
  PROVE  /\ \A k : k \in DOMAIN Assign(f, levels)
                     <=> k \in DOMAIN f \/ \E p \in DOMAIN levels : k = Narrow(p)
         /\ \A p \in DOMAIN levels : Assign(f, levels)[Narrow(p)] = Narrow(levels[p])
         /\ \A k \in DOMAIN f :
              (\A p \in DOMAIN levels : k # Narrow(p)) => Assign(f, levels)[k] = f[k]
         /\ Assign(f, levels) = [k \in DOMAIN Assign(f, levels) |-> Assign(f, levels)[k]]
<1> DEFINE keys == {Narrow(p) : p \in DOMAIN levels}
           Pick(k) == CHOOSE p \in DOMAIN levels : Narrow(p) = k
           val(k) == IF k \in keys THEN Narrow(levels[Pick(k)]) ELSE f[k]
<1>1. Assign(f, levels) = [k \in DOMAIN f \cup keys |-> val(k)]
  BY DEF Assign
<1>2. \A p \in DOMAIN levels : Pick(Narrow(p)) = p
  <2> TAKE p \in DOMAIN levels
  <2>1. Pick(Narrow(p)) \in DOMAIN levels /\ Narrow(Pick(Narrow(p))) = Narrow(p)
    OBVIOUS
  <2> HIDE DEF Pick
  <2>. QED BY <2>1, NarrowAssumption
<1>3. \A p \in DOMAIN levels : Narrow(p) \in keys
  OBVIOUS
<1>4. \A k : (\A p \in DOMAIN levels : k # Narrow(p)) => k \notin keys
  OBVIOUS
<1>5. \A p \in DOMAIN levels : val(Narrow(p)) = Narrow(levels[p])
  BY <1>2, <1>3
<1>6. \A k : k \notin keys => val(k) = f[k]
  OBVIOUS
<1> HIDE DEF keys, val
<1>7. DOMAIN Assign(f, levels) = DOMAIN f \cup keys
  BY <1>1
<1>8. \A k \in DOMAIN f \cup keys : Assign(f, levels)[k] = val(k)
  BY <1>1
<1>9. Assign(f, levels) = [k \in DOMAIN Assign(f, levels) |-> Assign(f, levels)[k]]
  BY <1>1
<1>10. \A p \in DOMAIN levels : Assign(f, levels)[Narrow(p)] = Narrow(levels[p])
  BY <1>3, <1>5, <1>8
<1>11. \A k \in DOMAIN f :
         (\A p \in DOMAIN levels : k # Narrow(p)) => Assign(f, levels)[k] = f[k]
  BY <1>4, <1>6, <1>8
<1>12. \A k : k \in DOMAIN Assign(f, levels)
                <=> k \in DOMAIN f \/ \E p \in DOMAIN levels : k = Narrow(p)
  BY <1>7 DEF keys
<1>. QED BY <1>9, <1>10, <1>11, <1>12

\* What the service's map must be when a side of the exchange's book is f.
Copy(f) == Assign(EmptyMap, Quoted(f))

LEMMA QuotedProperties ==
  ASSUME NEW f \in Sides
  PROVE  /\ DOMAIN Quoted(f) = {p \in Prices : f[p] # 0}
         /\ \A p \in Prices : f[p] # 0 => Quoted(f)[p] = f[p] /\ f[p] \in Qtys
         /\ Quoted(f) \in Levels
         /\ Quoted(f) = [p \in DOMAIN Quoted(f) |-> Quoted(f)[p]]
<1>1. DOMAIN Quoted(f) = {p \in Prices : f[p] # 0}
  BY DEF Quoted
<1>2. \A p \in Prices : f[p] # 0 => Quoted(f)[p] = f[p] /\ f[p] \in Qtys
  BY DEF Quoted, Sides
<1>3. Quoted(f) \in [{p \in Prices : f[p] # 0} -> {0} \cup Qtys]
  BY DEF Quoted, Sides
<1>4. {p \in Prices : f[p] # 0} \in SUBSET Prices
  OBVIOUS
<1>5. Quoted(f) \in Levels
  BY <1>3, <1>4 DEF Levels
<1>6. Quoted(f) = [p \in DOMAIN Quoted(f) |-> Quoted(f)[p]]
  BY DEF Quoted
<1>. QED BY <1>1, <1>2, <1>5, <1>6

LEMMA CopyProperties ==
  ASSUME NEW f \in Sides
  PROVE  /\ \A k : k \in DOMAIN Copy(f) <=> \E p \in Prices : f[p] # 0 /\ k = Narrow(p)
         /\ \A p \in Prices : f[p] # 0 => Copy(f)[Narrow(p)] = Narrow(f[p])
         /\ Copy(f) = [k \in DOMAIN Copy(f) |-> Copy(f)[k]]
<1>1. DOMAIN Quoted(f) \subseteq Prices
  BY QuotedProperties
<1>2. DOMAIN EmptyMap = {}
  BY DEF EmptyMap
<1>3. \A k : k \in DOMAIN Copy(f)
                <=> k \in DOMAIN EmptyMap \/ \E p \in DOMAIN Quoted(f) : k = Narrow(p)
  BY <1>1, AssignProperties DEF Copy
<1>4. \A p \in DOMAIN Quoted(f) : Copy(f)[Narrow(p)] = Narrow(Quoted(f)[p])
  BY <1>1, AssignProperties DEF Copy
<1>5. Copy(f) = [k \in DOMAIN Copy(f) |-> Copy(f)[k]]
  BY <1>1, AssignProperties DEF Copy
<1>6. \A k : k \in DOMAIN Copy(f) <=> \E p \in Prices : f[p] # 0 /\ k = Narrow(p)
  BY <1>2, <1>3, QuotedProperties
<1>7. \A p \in Prices : f[p] # 0 => Copy(f)[Narrow(p)] = Narrow(f[p])
  BY <1>4, QuotedProperties
<1>. QED BY <1>5, <1>6, <1>7

\* A copy has keys that are ints and no quantity of 0.
LEMMA CopyIsMap ==
  ASSUME NEW f \in Sides
  PROVE  IsMap(Copy(f))
<1>1. DOMAIN Copy(f) \subseteq (-IntSpan)..(IntSpan - 1)
  BY CopyProperties, NarrowRange, NumbersAssumption
<1>2. ASSUME NEW k \in DOMAIN Copy(f)
      PROVE  Copy(f)[k] # 0
  <2>1. PICK p \in Prices : f[p] # 0 /\ k = Narrow(p)
    BY CopyProperties
  <2>2. Copy(f)[k] = Narrow(f[p]) /\ f[p] \in Qtys
    BY <2>1, CopyProperties, QuotedProperties
  <2>. QED BY <2>2, NarrowAssumption
<1>. QED BY <1>1, <1>2 DEF IsMap

\* A side that int can hold is copied as it is.
LEMMA CopyFits ==
  ASSUME NEW f \in Sides, Fits(Quoted(f))
  PROVE  Copy(f) = Quoted(f)
<1>1. \A p \in Prices : f[p] # 0 => Narrow(p) = p /\ Narrow(f[p]) = f[p]
  <2> TAKE p \in Prices
  <2> HAVE f[p] # 0
  <2>1. p \in DOMAIN Quoted(f) /\ Quoted(f)[p] = f[p] /\ f[p] \in Qtys
    BY QuotedProperties
  <2>2. p < IntSpan /\ f[p] < IntSpan
    BY <2>1 DEF Fits
  <2>. QED BY <2>1, <2>2, NarrowRange, NumbersAssumption
<1>2. DOMAIN Copy(f) = DOMAIN Quoted(f)
  <2>1. \A k : k \in DOMAIN Copy(f) <=> \E p \in Prices : f[p] # 0 /\ k = Narrow(p)
    BY CopyProperties
  <2>2. \A k : k \in DOMAIN Quoted(f) <=> k \in Prices /\ f[k] # 0
    BY QuotedProperties
  <2>3. \A k : k \in DOMAIN Copy(f) <=> k \in DOMAIN Quoted(f)
    BY <1>1, <2>1, <2>2
  <2>. QED BY <2>3
<1>3. ASSUME NEW p \in DOMAIN Quoted(f)
      PROVE  Copy(f)[p] = Quoted(f)[p]
  <2>1. p \in Prices /\ f[p] # 0 /\ Quoted(f)[p] = f[p]
    <3>1. p \in {x \in Prices : f[x] # 0}
      BY QuotedProperties
    <3>. QED BY <3>1, QuotedProperties
  <2>2. Copy(f)[Narrow(p)] = Narrow(f[p])
    BY <2>1, CopyProperties
  <2>3. Narrow(p) = p /\ Narrow(f[p]) = f[p]
    BY <1>1, <2>1
  <2>. QED BY <2>1, <2>2, <2>3
<1>4. /\ Copy(f) = [p \in DOMAIN Copy(f) |-> Copy(f)[p]]
      /\ Quoted(f) = [p \in DOMAIN Quoted(f) |-> Quoted(f)[p]]
  BY CopyProperties, QuotedProperties
<1>. QED BY <1>2, <1>3, <1>4

LEMMA PutOne ==
  ASSUME NEW p \in Prices, NEW q \in {0} \cup Qtys
  PROVE  /\ DOMAIN Put(EmptyMap, p, q) = {p} /\ Put(EmptyMap, p, q)[p] = q
         /\ Put(EmptyMap, p, q) \in Levels
<1>1. Put(EmptyMap, p, q) = [x \in {p} |-> q]
  BY DEF Put, EmptyMap
<1>2. {p} \in SUBSET Prices
  OBVIOUS
<1>3. Put(EmptyMap, p, q) \in [{p} -> {0} \cup Qtys]
  BY <1>1
<1>. QED BY <1>1, <1>2, <1>3 DEF Levels

\* An update of one level takes the copy of f to the copy of the changed side: an erased
\* level is gone, a new or changed one is there, the others are untouched.
LEMMA UpdateFollows ==
  ASSUME NEW f \in Sides, NEW p \in Prices, NEW q \in {0} \cup Qtys
  PROVE  /\ [f EXCEPT ![p] = q] \in Sides
         /\ Incremental(Copy(f), Put(EmptyMap, p, q)) = Copy([f EXCEPT ![p] = q])
<1> DEFINE lv == Put(EmptyMap, p, q)
           f2 == [f EXCEPT ![p] = q]
           g == Assign(Copy(f), lv)
           gone == {k \in {Narrow(x) : x \in DOMAIN lv} : g[k] = 0}
<1>1. f2 \in Sides /\ f2[p] = q /\ \A x \in Prices : x # p => f2[x] = f[x]
  BY DEF Sides
<1>2. DOMAIN lv = {p} /\ lv[p] = q
  BY PutOne
<1>3. Incremental(Copy(f), lv) = [k \in DOMAIN g \ gone |-> g[k]]
  BY DEF Incremental
<1> HIDE DEF lv, f2
<1>4. /\ \A k : k \in DOMAIN g <=> k \in DOMAIN Copy(f) \/ k = Narrow(p)
      /\ g[Narrow(p)] = Narrow(q)
      /\ \A k \in DOMAIN Copy(f) : k # Narrow(p) => g[k] = Copy(f)[k]
  BY <1>2, AssignProperties
<1> HIDE DEF g
<1>5. Narrow(q) = 0 <=> q = 0
  <2>1. Narrow(0) = 0
    BY NarrowRange, NumbersAssumption
  <2>. QED BY <2>1, NarrowAssumption
<1>6. gone = IF q = 0 THEN {Narrow(p)} ELSE {}
  BY <1>2, <1>4, <1>5
<1> HIDE DEF gone
<1>7. \A x \in Prices : Narrow(x) = Narrow(p) => x = p
  BY NarrowAssumption
<1>8. DOMAIN g \ gone = DOMAIN Copy(f2)
  <2>1. \A k : k \in DOMAIN Copy(f2) <=> \E x \in Prices : f2[x] # 0 /\ k = Narrow(x)
    BY <1>1, CopyProperties
  <2>2. \A k : k \in DOMAIN Copy(f) <=> \E x \in Prices : f[x] # 0 /\ k = Narrow(x)
    BY CopyProperties
  <2>3. CASE q = 0
    BY <1>1, <1>4, <1>6, <1>7, <2>1, <2>2, <2>3
  <2>4. CASE q # 0
    BY <1>1, <1>4, <1>6, <1>7, <2>1, <2>2, <2>4
  <2>. QED BY <2>3, <2>4
<1>9. ASSUME NEW k \in DOMAIN Copy(f2)
      PROVE  g[k] = Copy(f2)[k]
  <2>1. PICK x \in Prices : f2[x] # 0 /\ k = Narrow(x)
    BY <1>1, CopyProperties
  <2>2. Copy(f2)[k] = Narrow(f2[x])
    BY <1>1, <2>1, CopyProperties
  <2>3. CASE x = p
    BY <1>1, <1>4, <2>1, <2>2, <2>3
  <2>4. CASE x # p
    <3>1. f[x] # 0 /\ k # Narrow(p) /\ f2[x] = f[x]
      BY <1>1, <1>7, <2>1, <2>4
    <3>2. k \in DOMAIN Copy(f) /\ Copy(f)[k] = Narrow(f[x])
      BY <2>1, <3>1, CopyProperties
    <3>. QED BY <1>4, <2>2, <3>1, <3>2
  <2>. QED BY <2>3, <2>4
<1>10. Copy(f2) = [k \in DOMAIN Copy(f2) |-> Copy(f2)[k]]
  BY <1>1, CopyProperties
<1>11. Incremental(Copy(f), lv) = Copy(f2)
  BY <1>3, <1>8, <1>9, <1>10
<1>. QED BY <1>1, <1>11 DEF lv, f2

\* Whatever it is applied to, an update leaves int keys and no quantity of 0.
LEMMA UpdateIsMap ==
  ASSUME NEW f, IsMap(f), NEW levels, DOMAIN levels \subseteq Prices
  PROVE  IsMap(Incremental(f, levels))
<1> DEFINE g == Assign(f, levels)
           keys == {Narrow(p) : p \in DOMAIN levels}
           gone == {k \in keys : g[k] = 0}
<1>1. Incremental(f, levels) = [k \in DOMAIN g \ gone |-> g[k]]
  BY DEF Incremental
<1>2. /\ \A k : k \in DOMAIN g <=> k \in DOMAIN f \/ \E p \in DOMAIN levels : k = Narrow(p)
      /\ \A k \in DOMAIN f : (\A p \in DOMAIN levels : k # Narrow(p)) => g[k] = f[k]
  BY AssignProperties
<1>3. \A k : k \in gone <=> (\E p \in DOMAIN levels : k = Narrow(p)) /\ g[k] = 0
  OBVIOUS
<1> HIDE DEF g, gone
<1>4. DOMAIN f \subseteq (-IntSpan)..(IntSpan - 1) /\ \A k \in DOMAIN f : f[k] # 0
  BY DEF IsMap
<1>5. \A p \in DOMAIN levels : Narrow(p) \in (-IntSpan)..(IntSpan - 1)
  BY NarrowRange, NumbersAssumption
<1>6. DOMAIN g \ gone \subseteq (-IntSpan)..(IntSpan - 1)
  BY <1>2, <1>4, <1>5
<1>7. \A k \in DOMAIN g \ gone : g[k] # 0
  BY <1>2, <1>3, <1>4
<1>. QED BY <1>1, <1>6, <1>7 DEF IsMap

LEMMA EmptyIsMap == IsMap(EmptyMap) /\ EmptyMap \in Levels
<1>1. IsMap(EmptyMap)
  BY DEF IsMap, EmptyMap
<1>2. {} \in SUBSET Prices /\ EmptyMap \in [{} -> {0} \cup Qtys]
  BY DEF EmptyMap
<1>. QED BY <1>1, <1>2 DEF Levels

-----------------------------------------------------------------------------
(* The session. *)

LEMMA RequestTypes ==
  BookSub \in Requests /\ TradeSub \in Requests /\ \A id \in Nat : Ping(id) \in Requests
BY DEF Requests, Ping

LEMMA CheckSendOK ==
  ASSUME NEW s, SessionOK(s)
  PROVE  SessionOK(WS!CheckSend(s)) /\ WS!CheckSend(s).stage = s.stage
<1>1. CASE s.mState # "connected" \/ s.sending \/ s.queue = <<>>
  BY <1>1 DEF WS!CheckSend
<1>2. CASE ~(s.mState # "connected" \/ s.sending \/ s.queue = <<>>)
  <2>1. /\ s \in Sessions /\ s.queue \in Seq(Requests) /\ s.wire \in Seq(Requests)
        /\ s.queue # <<>> /\ ~s.sending /\ s.writes = 0
    BY <1>2 DEF SessionOK, Sessions
  <2>2. PICK w \in Seq(Requests) : w = Append(s.wire, Head(s.queue))
    BY <2>1, HeadTailProperties, AppendProperties
  <2>3. WS!CheckSend(s) = [s EXCEPT !.sending = TRUE, !.writes = 1, !.wire = w]
    BY <1>2, <2>1, <2>2 DEF WS!CheckSend, WS!InitiateTx, Sessions
  <2> DEFINE c == [s EXCEPT !.sending = TRUE, !.writes = 1, !.wire = w]
  <2>4. /\ c \in Sessions /\ c.sending = TRUE /\ c.writes = 1 /\ c.reads = s.reads
        /\ c.queue = s.queue /\ c.stage = s.stage /\ c.mState = s.mState
    BY <2>1 DEF Sessions
  <2> HIDE DEF c
  <2>5. SessionOK(c)
    BY <2>1, <2>4 DEF SessionOK
  <2>. QED BY <2>3, <2>4, <2>5 DEF c
<1>. QED BY <1>1, <1>2

LEMMA SendOK ==
  ASSUME NEW s, SessionOK(s), NEW m \in Requests
  PROVE  SessionOK(WS!Send(s, m)) /\ WS!Send(s, m).stage = s.stage
<1>1. s \in Sessions /\ s.queue \in Seq(Requests)
  BY DEF SessionOK, Sessions
<1>2. PICK q \in Seq(Requests) : q = Append(s.queue, m) /\ q # <<>>
  BY <1>1, AppendProperties
<1> DEFINE u == [s EXCEPT !.queue = q]
<1>3. SessionOK(u) /\ u.stage = s.stage
  BY <1>1, <1>2 DEF SessionOK, Sessions
<1>4. WS!Send(s, m) = WS!CheckSend(u)
  BY <1>2 DEF WS!Send
<1> HIDE DEF u
<1>. QED BY <1>3, <1>4, CheckSendOK

\* handle_tx() called without an error.
LEMMA HandleTxOK ==
  ASSUME NEW s, SessionOK(s), s.writes > 0
  PROVE  SessionOK(WS!HandleTx(s))
<1>1. /\ s \in Sessions /\ s.queue \in Seq(Requests) /\ s.queue # <<>>
      /\ s.writes = 1 /\ s.writes - 1 = 0
  BY DEF SessionOK, Sessions
<1>2. PICK q \in Seq(Requests) : q = Tail(s.queue)
  BY <1>1, HeadTailProperties
<1> DEFINE u == [s EXCEPT !.writes = 0, !.queue = q, !.sending = FALSE]
<1>3. SessionOK(u)
  <2>1. /\ u \in Sessions /\ u.sending = FALSE /\ u.writes = 0 /\ u.reads = s.reads
        /\ u.stage = s.stage /\ u.mState = s.mState
    BY <1>1, <1>2 DEF Sessions
  <2>. HIDE DEF u
  <2>. QED BY <2>1 DEF SessionOK
<1>4. WS!HandleTx(s) = WS!CheckSend(u)
  BY <1>1, <1>2 DEF WS!HandleTx
<1> HIDE DEF u
<1>. QED BY <1>3, <1>4, CheckSendOK

\* on_handshake() and the subscriptions.
LEMMA HandshakeOK ==
  ASSUME NEW s, SessionOK(s), s.stage = "handshake"
  PROVE  SessionOK(HandshakeEnds(s))
<1>1. s \in Sessions /\ s.reads = 0 /\ s.reads + 1 = 1
  BY DEF SessionOK, Sessions
<1> DEFINE u == [s EXCEPT !.stage = "open", !.mState = "connected", !.reads = 1]
<1>2. SessionOK(u)
  <2>1. /\ u \in Sessions /\ u.sending = s.sending /\ u.writes = s.writes /\ u.reads = 1
        /\ u.stage = "open" /\ u.mState = "connected" /\ u.queue = s.queue
    BY <1>1 DEF Sessions, WS!Stages
  <2>. HIDE DEF u
  <2>. QED BY <2>1 DEF SessionOK
<1>3. WS!OnHandshake(s) = WS!CheckSend(u)
  BY <1>1 DEF WS!OnHandshake, WS!CheckRead, Sessions
<1> HIDE DEF u
<1>4. SessionOK(WS!OnHandshake(s))
  BY <1>2, <1>3, CheckSendOK
<1>. QED BY <1>4, SendOK, RequestTypes DEF HandshakeEnds, SendSubscription

\* The other connection steps, a read, and the errors.
LEMMA OthersOK ==
  ASSUME NEW s, SessionOK(s)
  PROVE  /\ s.stage = "resolve" => SessionOK(WS!OnResolve(s))
         /\ s.stage = "connect" => SessionOK(WS!OnConnect(s))
         /\ s.stage = "ssl_handshake" => SessionOK(WS!OnSslHandshake(s))
         /\ s.reads > 0 => SessionOK(WS!CheckRead(WS!ReadDone(s)))
         /\ s.stage \notin {"open", "dead"} => SessionOK(WS!FailStage(s))
         /\ s.reads > 0 => SessionOK(WS!FailRead(s))
         /\ s.writes > 0 => SessionOK(WS!FailTx(s))
<1>1. s \in Sessions
  BY DEF SessionOK
<1>2. ASSUME s.stage = "resolve" PROVE SessionOK(WS!OnResolve(s))
  BY <1>1, <1>2 DEF SessionOK, Sessions, WS!Stages, WS!OnResolve
<1>3. ASSUME s.stage = "connect" PROVE SessionOK(WS!OnConnect(s))
  BY <1>1, <1>3 DEF SessionOK, Sessions, WS!Stages, WS!OnConnect
<1>4. ASSUME s.stage = "ssl_handshake" PROVE SessionOK(WS!OnSslHandshake(s))
  BY <1>1, <1>4 DEF SessionOK, Sessions, WS!Stages, WS!OnSslHandshake
<1>5. ASSUME s.reads > 0 PROVE SessionOK(WS!CheckRead(WS!ReadDone(s)))
  <2>1. s.reads = 1
    BY <1>1, <1>5 DEF SessionOK, Sessions
  <2> DEFINE u == WS!ReadDone(s)
             v == WS!CheckRead(u)
  <2>2. u = [s EXCEPT !.reads = 0]
    BY <2>1 DEF WS!ReadDone
  <2> HIDE DEF u
  <2>3. /\ u \in Sessions /\ u.sending = s.sending /\ u.writes = s.writes
        /\ u.reads + 1 = 1 /\ u.stage = s.stage /\ u.mState = s.mState
        /\ u.queue = s.queue
    BY <1>1, <2>2 DEF Sessions
  <2>4. v = [u EXCEPT !.reads = 1]
    BY <2>3 DEF WS!CheckRead
  <2> HIDE DEF v
  <2>5. /\ v \in Sessions /\ v.sending = s.sending /\ v.writes = s.writes /\ v.reads = 1
        /\ v.stage = s.stage /\ v.mState = s.mState /\ v.queue = s.queue
    BY <2>3, <2>4 DEF Sessions
  <2>6. SessionOK(v)
    BY <2>1, <2>5 DEF SessionOK
  <2>. QED BY <2>6 DEF u, v
<1>6. ASSUME s.stage \notin {"open", "dead"} PROVE SessionOK(WS!FailStage(s))
  BY <1>1, <1>6 DEF SessionOK, Sessions, WS!Stages, WS!FailStage
<1>7. ASSUME s.reads > 0 PROVE SessionOK(WS!FailRead(s))
  <2>1. s.reads - 1 = 0
    BY <1>1, <1>7 DEF SessionOK, Sessions
  <2> DEFINE u == WS!FailRead(s)
  <2>2. u = [s EXCEPT !.reads = 0, !.failed = TRUE]
    BY <2>1 DEF WS!FailRead
  <2> HIDE DEF u
  <2>3. /\ u \in Sessions /\ u.sending = s.sending /\ u.writes = s.writes /\ u.reads = 0
        /\ u.stage = s.stage /\ u.mState = s.mState /\ u.queue = s.queue
    BY <1>1, <2>2 DEF Sessions
  <2>4. SessionOK(u)
    BY <2>3 DEF SessionOK
  <2>. QED BY <2>4 DEF u
<1>8. ASSUME s.writes > 0 PROVE SessionOK(WS!FailTx(s))
  <2>1. s.writes - 1 = 0
    BY <1>1, <1>8 DEF SessionOK, Sessions
  <2> DEFINE u == WS!FailTx(s)
  <2>2. u = [s EXCEPT !.writes = 0, !.failed = TRUE]
    BY <2>1 DEF WS!FailTx
  <2> HIDE DEF u
  <2>3. /\ u \in Sessions /\ u.sending = s.sending /\ u.reads = s.reads /\ u.writes = 0
        /\ u.stage = s.stage /\ u.mState = s.mState /\ u.queue = s.queue
    BY <1>1, <2>2 DEF Sessions
  <2>4. SessionOK(u)
    BY <2>3 DEF SessionOK
  <2>. QED BY <2>4 DEF u
<1>. QED BY <1>2, <1>3, <1>4, <1>5, <1>6, <1>7, <1>8

\* The rest of RunOnce().
LEMMA AfterPollOK ==
  ASSUME NEW s, SessionOK(s), id_ \in 1..(MaxBeats + 1), AfterPoll(s)
  PROVE  SessionOK(ses') /\ id_' \in 1..(MaxBeats + 1)
<1>1. Ping(id_) \in Requests
  BY RequestTypes, BoundsAssumption
<1>2. CASE ses' = s /\ id_ > 1 /\ UNCHANGED id_
  BY <1>2
<1>3. CASE ses' = WS!Send(s, Ping(id_)) /\ id_ <= MaxBeats /\ id_' = id_ + 1
  BY <1>1, <1>3, SendOK, BoundsAssumption
<1>. QED BY <1>2, <1>3 DEF AfterPoll

-----------------------------------------------------------------------------
(* The feed. *)

\* What InvFeed says of the book g[j] after each message.
Chain(g, q, b, c) ==
  /\ g \in [0..Len(q) -> Books] /\ g[0] = b /\ g[Len(q)] = c
  /\ \A j \in 1..Len(q) : Follows(g[j - 1], q[j], g[j])

\* A message that takes the exchange's book from c to d is sent.
LEMMA FeedAppend ==
  ASSUME NEW q \in Seq(Messages), NEW b, NEW c \in Books, NEW d \in Books, NEW m \in Messages,
         NEW g, Chain(g, q, b, c), Follows(c, m, d)
  PROVE  \E h : Chain(h, Append(q, m), b, d)
<1> DEFINE n == Len(q)
           a == Append(q, m)
           h == [j \in 0..(n + 1) |-> IF j = n + 1 THEN d ELSE g[j]]
<1>1. n \in Nat /\ Len(a) = n + 1 /\ a[n + 1] = m /\ \A j \in 1..n : a[j] = q[j]
  BY AppendProperties, LenProperties
<1>2. /\ g \in [0..n -> Books] /\ g[0] = b /\ g[n] = c
      /\ \A j \in 1..n : Follows(g[j - 1], q[j], g[j])
  BY DEF Chain
<1> HIDE DEF n, a
<1>3. h \in [0..(n + 1) -> Books]
  BY <1>1, <1>2
<1>4. h[n + 1] = d /\ \A j \in 0..n : h[j] = g[j]
  BY <1>1
<1> HIDE DEF h
<1>5. ASSUME NEW j \in 1..(n + 1)
      PROVE  Follows(h[j - 1], a[j], h[j])
  <2>1. CASE j = n + 1
    <3>1. j - 1 = n /\ n \in 0..n
      BY <1>1, <2>1
    <3>. QED BY <1>1, <1>2, <1>4, <2>1, <3>1
  <2>2. CASE j # n + 1
    <3>1. j \in 1..n /\ j \in 0..n /\ j - 1 \in 0..n
      BY <1>1, <2>2
    <3>. QED BY <1>1, <1>2, <1>4, <3>1
  <2>. QED BY <2>1, <2>2
<1>6. h[0] = b
  BY <1>1, <1>2, <1>4
<1>. QED BY <1>1, <1>3, <1>4, <1>5, <1>6 DEF Chain, a

\* The first message is read.
LEMMA FeedTail ==
  ASSUME NEW q \in Seq(Messages), q # <<>>, NEW b, NEW c, NEW g, Chain(g, q, b, c)
  PROVE  \E d \in Books : Follows(b, Head(q), d) /\ \E h : Chain(h, Tail(q), d, c)
<1> DEFINE n == Len(q)
           t == Tail(q)
           h == [j \in 0..(n - 1) |-> g[j + 1]]
<1>1. n \in Nat /\ n > 0 /\ Len(t) = n - 1 /\ \A j \in 1..(n - 1) : t[j] = q[j + 1]
  BY HeadTailProperties, LenProperties, EmptySeq
<1>2. Head(q) = q[1]
  OBVIOUS
<1>3. /\ g \in [0..n -> Books] /\ g[0] = b /\ g[n] = c
      /\ \A j \in 1..n : Follows(g[j - 1], q[j], g[j])
  BY DEF Chain
<1> HIDE DEF n, t
<1>4. h \in [0..(n - 1) -> Books]
  BY <1>1, <1>3
<1>5. \A j \in 0..(n - 1) : h[j] = g[j + 1]
  BY <1>1
<1> HIDE DEF h
<1>6. g[1] \in Books /\ Follows(b, q[1], g[1])
  <2>1. 1 \in 1..n /\ 1 \in 0..n /\ 1 - 1 = 0
    BY <1>1
  <2>. QED BY <1>3, <2>1
<1>7. ASSUME NEW j \in 1..(n - 1)
      PROVE  Follows(h[j - 1], t[j], h[j])
  <2>1. j + 1 \in 1..n /\ (j + 1) - 1 = j /\ j - 1 \in 0..(n - 1) /\ j \in 0..(n - 1)
        /\ (j - 1) + 1 = j
    BY <1>1
  <2>2. Follows(g[j], q[j + 1], g[j + 1])
    BY <1>3, <2>1
  <2>. QED BY <1>1, <1>5, <2>1, <2>2
<1>8. h[0] = g[1] /\ h[n - 1] = c
  <2>1. 0 \in 0..(n - 1) /\ n - 1 \in 0..(n - 1) /\ (n - 1) + 1 = n
    BY <1>1
  <2>. QED BY <1>3, <1>5, <2>1
<1>9. Chain(h, t, g[1], c)
  BY <1>1, <1>4, <1>7, <1>8 DEF Chain
<1>. QED BY <1>2, <1>6, <1>9 DEF t

LEMMA FeedIsChain == InvFeed <=> \E g : Chain(g, inbox, handled, exch)
BY DEF InvFeed, Chain

\* A message of the exchange: the copy of the book does not change.
LEMMA ServerSendsInv ==
  ASSUME MDInv, NEW m \in Messages, NEW d \in Books, ServerSends(m), exch' = d,
         Follows(exch, m, d)
  PROVE  MDInv'
<1>1. /\ inbox' = Append(inbox, m)
      /\ ses' = ses /\ stopped' = stopped /\ crashed' = crashed
      /\ needReconnect_' = needReconnect_ /\ id_' = id_
      /\ hasSnapshot' = hasSnapshot /\ synced' = synced /\ bids' = bids /\ asks' = asks
      /\ onOrderBook' = onOrderBook /\ handled' = handled
  BY DEF ServerSends, clientvars, bookvars
<1>2. /\ inbox \in Seq(Messages) /\ handled \in Books /\ exch \in Books
      /\ hasSnapshot \in BOOLEAN /\ synced \in BOOLEAN /\ InvFeed /\ InvBook
  BY DEF MDInv, InvMarket
<1>3. InvClient'
  BY <1>1 DEF MDInv, InvClient, SessionOK
<1>4. \E h : Chain(h, inbox', handled', exch')
  <2>1. PICK g : Chain(g, inbox, handled, exch)
    BY <1>2, FeedIsChain
  <2>. QED BY <1>1, <1>2, <2>1, FeedAppend
<1>5. InvFeed'
  BY <1>4 DEF InvFeed, Chain
<1>6. inbox' \in Seq(Messages)
  BY <1>1, <1>2, AppendProperties
<1>7. InvBook'
  BY <1>1, <1>2 DEF InvBook, IsMap
<1>. QED BY <1>1, <1>2, <1>3, <1>5, <1>6, <1>7 DEF MDInv, InvMarket

\* A change of the exchange's book is a Follows step, as an update and as a snapshot.
LEMMA ServerBookInv ==
  ASSUME MDInv, ServerBook
  PROVE  MDInv'
<1>1. exch \in Books /\ exch.bids \in Sides /\ exch.asks \in Sides
  BY DEF MDInv, InvMarket, Books
<1>2. PICK p \in Prices, r \in Prices, q \in {0} \cup Qtys, s \in {0} \cup Qtys :
        /\ exch' = [bids |-> [exch.bids EXCEPT ![p] = q], asks |-> [exch.asks EXCEPT ![r] = s]]
        /\ \/ ServerSends([type |-> "snapshot", bids |-> Quoted(exch'.bids),
                           asks |-> Quoted(exch'.asks), book |-> exch'])
           \/ ServerSends([type |-> "incremental", bids |-> Put(EmptyMap, p, q),
                           asks |-> Put(EmptyMap, r, s), book |-> exch'])
  BY DEF ServerBook
<1>3. PICK f \in Sides : f = [exch.bids EXCEPT ![p] = q]
  BY <1>1, UpdateFollows
<1>4. PICK g \in Sides : g = [exch.asks EXCEPT ![r] = s]
  BY <1>1, UpdateFollows
<1>5. PICK d \in Books : d = [bids |-> f, asks |-> g]
  BY DEF Books
<1>6. exch' = d /\ d.bids = f /\ d.asks = g
  BY <1>2, <1>3, <1>4, <1>5
<1>7. CASE ServerSends([type |-> "snapshot", bids |-> Quoted(exch'.bids),
                        asks |-> Quoted(exch'.asks), book |-> exch'])
  <2>1. Quoted(f) \in Levels /\ Quoted(g) \in Levels
    BY QuotedProperties
  <2> DEFINE m == [type |-> "snapshot", bids |-> Quoted(f), asks |-> Quoted(g), book |-> d]
  <2>2. m \in Messages /\ m.type = "snapshot" /\ m.book = d
        /\ m.bids = Quoted(f) /\ m.asks = Quoted(g)
    BY <2>1 DEF Messages, BookTypes
  <2>3. ServerSends(m)
    BY <1>6, <1>7
  <2> HIDE DEF m
  <2>4. Follows(exch, m, d)
    BY <1>6, <2>2 DEF Follows
  <2>. QED BY <1>6, <2>2, <2>3, <2>4, ServerSendsInv
<1>8. CASE ServerSends([type |-> "incremental", bids |-> Put(EmptyMap, p, q),
                        asks |-> Put(EmptyMap, r, s), book |-> exch'])
  <2>1. PICK x \in Levels : x = Put(EmptyMap, p, q)
    BY PutOne
  <2>2. PICK y \in Levels : y = Put(EmptyMap, r, s)
    BY PutOne
  <2> DEFINE m == [type |-> "incremental", bids |-> x, asks |-> y, book |-> d]
  <2>3. m \in Messages /\ m.type = "incremental" /\ m.book = d /\ m.bids = x /\ m.asks = y
    BY DEF Messages, BookTypes
  <2>4. ServerSends(m)
    BY <1>6, <1>8, <2>1, <2>2
  <2> HIDE DEF m
  <2>5. Changes(exch.bids, d.bids, m.bids) /\ Changes(exch.asks, d.asks, m.asks)
    BY <1>3, <1>4, <1>6, <2>1, <2>2, <2>3 DEF Changes
  <2>6. Follows(exch, m, d)
    BY <2>3, <2>5 DEF Follows
  <2>. QED BY <1>6, <2>3, <2>4, <2>6, ServerSendsInv
<1>. QED BY <1>2, <1>7, <1>8

\* The messages with which the exchange's book stays as it is.
LEMMA ServerRestInv ==
  ASSUME MDInv, ServerOther \/ ServerTrade \/ ServerReplies
  PROVE  MDInv'
<1>1. exch \in Books
  BY DEF MDInv, InvMarket
<1>2. PICK m \in Messages : Follows(exch, m, exch) /\ ServerSends(m) /\ exch' = exch
  <2>1. CASE ServerTrade
    <3>1. PICK sides \in {{"Buy"}, {"Sell"}, {"Buy", "Sell"}} :
            ServerSends([type |-> "trades", sides |-> sides]) /\ exch' = exch
      BY <2>1 DEF ServerTrade
    <3>2. sides \in SUBSET {"Buy", "Sell"}
      BY <3>1
    <3>3. [type |-> "trades", sides |-> sides] \in Messages
      BY <3>2 DEF Messages
    <3>. QED BY <3>1, <3>3 DEF Follows
  <2>2. CASE ServerReplies
    <3>1. [type |-> "reply"] \in Messages
      BY DEF Messages
    <3>. QED BY <2>2, <3>1 DEF ServerReplies, Follows
  <2>3. CASE ServerOther
    <3> DEFINE m == [type |-> "other", bids |-> EmptyMap, asks |-> EmptyMap, book |-> exch]
    <3>1. m \in Messages
      BY <1>1, EmptyIsMap DEF Messages, BookTypes
    <3>2. Follows(exch, m, exch)
      BY DEF Follows
    <3>3. ServerSends(m) /\ exch' = exch
      BY <2>3 DEF ServerOther
    <3>. QED BY <3>1, <3>2, <3>3
  <2>. QED BY <2>1, <2>2, <2>3
<1>. QED BY <1>1, <1>2, ServerSendsInv

-----------------------------------------------------------------------------
(* RunOnce(). *)

\* The book and the feed are left alone.
LEMMA MarketUnchanged ==
  ASSUME InvMarket, UNCHANGED bookvars, UNCHANGED servervars
  PROVE  InvMarket'
BY DEF InvMarket, InvFeed, InvBook, IsMap, bookvars, servervars

LEMMA RanOK ==
  ASSUME InvClient, NEW s, SessionOK(s), Ran(s)
  PROVE  InvClient'
<1>1. stopped' \in BOOLEAN
  BY DEF Ran, Poll
<1>2. needReconnect_' = needReconnect_ /\ crashed' = crashed /\ AfterPoll(s)
  BY DEF Ran
<1>3. SessionOK(ses') /\ id_' \in 1..(MaxBeats + 1)
  BY <1>2, AfterPollOK DEF InvClient
<1>. QED BY <1>1, <1>2, <1>3 DEF InvClient, SessionOK

LEMMA ClientInv ==
  ASSUME InvClient, RunIdle \/ Stage \/ Write \/ Crash \/ Fails
  PROVE  InvClient'
<1>1. SessionOK(ses) /\ id_ \in 1..(MaxBeats + 1)
  BY DEF InvClient
<1>2. CASE RunIdle
  <2>1. /\ stopped' = stopped /\ crashed' = crashed /\ needReconnect_' = needReconnect_
        /\ AfterPoll(ses)
    BY <1>2 DEF RunIdle
  <2>2. SessionOK(ses') /\ id_' \in 1..(MaxBeats + 1)
    BY <1>1, <2>1, AfterPollOK
  <2>. QED BY <2>1, <2>2 DEF InvClient, SessionOK
<1>3. CASE Stage
  <2>1. PICK s : SessionOK(s) /\ Ran(s)
    BY <1>1, <1>3, OthersOK, HandshakeOK DEF Stage
  <2>. QED BY <2>1, RanOK
<1>4. CASE Write
  <2>1. SessionOK(WS!HandleTx(ses)) /\ Ran(WS!HandleTx(ses))
    BY <1>1, <1>4, HandleTxOK DEF Write
  <2>. QED BY <2>1, RanOK
<1>5. CASE Fails
  <2>1. PICK s : SessionOK(s) /\ Poll(s) /\ AfterPoll(s)
    BY <1>1, <1>5, OthersOK DEF Fails
  <2>2. needReconnect_' = TRUE /\ stopped' \in BOOLEAN /\ crashed' = crashed
    BY <1>5, <2>1 DEF Fails, Poll
  <2>3. SessionOK(ses') /\ id_' \in 1..(MaxBeats + 1)
    BY <1>1, <2>1, AfterPollOK
  <2>. QED BY <2>2, <2>3 DEF InvClient, SessionOK
<1>6. CASE Crash
  BY <1>6 DEF Crash, InvClient, SessionOK
<1>. QED BY <1>2, <1>3, <1>4, <1>5, <1>6

\* onMessage() with a message that took the exchange's book from handled to d.
LEMMA OnMessageInv ==
  ASSUME InvMarket, NEW m \in Messages, NEW d \in Books, Follows(handled, m, d), OnMessage(m)
  PROVE  /\ handled' = d /\ hasSnapshot' \in BOOLEAN /\ synced' \in BOOLEAN
         /\ InvBook'
<1>1. /\ handled \in Books /\ handled.bids \in Sides /\ handled.asks \in Sides
      /\ hasSnapshot \in BOOLEAN /\ synced \in BOOLEAN /\ InvBook
      /\ IsMap(bids) /\ IsMap(asks)
      /\ synced => bids = Copy(handled.bids) /\ asks = Copy(handled.asks)
  BY DEF InvMarket, InvBook, Books, Copy
<1>2. d.bids \in Sides /\ d.asks \in Sides
  BY DEF Books
<1>3. CASE m.type \in BookTypes
  <2>1. OnBook(m) /\ m.book = d
    BY <1>3 DEF OnMessage, Follows, BookTypes
  <2>2. /\ hasSnapshot' = TRUE /\ handled' = d
        /\ synced' = (synced \/ m.type = "snapshot")
        /\ bids' = Updated(m.type, bids, m.bids)
        /\ asks' = Updated(m.type, asks, m.asks)
        /\ onOrderBook' = [bid |-> BestBid(bids'), ask |-> BestAsk(asks')]
    BY <2>1 DEF OnBook
  <2>3. /\ IsMap(bids') /\ IsMap(asks')
        /\ synced' => bids' = Copy(d.bids) /\ asks' = Copy(d.asks)
    <3>1. CASE m.type = "snapshot"
      <4>1. bids' = Copy(d.bids) /\ asks' = Copy(d.asks)
        BY <2>2, <3>1 DEF Follows, Updated, Snapshot, Copy
      <4>. QED BY <1>2, <4>1, CopyIsMap
    <3>2. CASE m.type = "incremental"
      <4>1. PICK p \in Prices, q \in {0} \cup Qtys :
              d.bids = [handled.bids EXCEPT ![p] = q] /\ m.bids = Put(EmptyMap, p, q)
        BY <3>2 DEF Follows, Changes
      <4>2. PICK r \in Prices, s \in {0} \cup Qtys :
              d.asks = [handled.asks EXCEPT ![r] = s] /\ m.asks = Put(EmptyMap, r, s)
        BY <3>2 DEF Follows, Changes
      <4>3. bids' = Incremental(bids, m.bids) /\ asks' = Incremental(asks, m.asks)
        BY <2>2, <3>2 DEF Updated
      <4>4. DOMAIN m.bids \subseteq Prices /\ DOMAIN m.asks \subseteq Prices
        <5>1. DOMAIN Put(EmptyMap, p, q) = {p}
          BY PutOne
        <5>2. DOMAIN Put(EmptyMap, r, s) = {r}
          BY PutOne
        <5>. QED BY <4>1, <4>2, <5>1, <5>2
      <4>5. IsMap(bids') /\ IsMap(asks')
        BY <1>1, <4>3, <4>4, UpdateIsMap
      <4>6. /\ Incremental(Copy(handled.bids), m.bids) = Copy(d.bids)
            /\ Incremental(Copy(handled.asks), m.asks) = Copy(d.asks)
        BY <1>1, <4>1, <4>2, UpdateFollows
      <4>7. synced' => synced
        BY <2>2, <3>2
      <4>. QED BY <1>1, <4>3, <4>5, <4>6, <4>7
    <3>3. CASE m.type = "other"
      <4>1. bids' = bids /\ asks' = asks /\ synced' = synced
        BY <1>1, <2>2, <3>3 DEF Updated
      <4>2. d = handled
        BY <3>3 DEF Follows
      <4>. QED BY <1>1, <4>1, <4>2
    <3>. QED BY <1>3, <3>1, <3>2, <3>3 DEF BookTypes
  <2>4. synced' \in BOOLEAN /\ hasSnapshot' \in BOOLEAN
    BY <2>2
  <2>. QED BY <2>2, <2>3, <2>4 DEF InvBook, Copy
<1>4. CASE m.type \in {"trades", "reply"}
  <2>1. handled = d
    BY <1>4 DEF Follows
  <2>2. /\ hasSnapshot' = hasSnapshot /\ synced' = synced /\ handled' = handled
        /\ bids' = bids /\ asks' = asks /\ onOrderBook' = onOrderBook
    BY <1>4 DEF OnMessage, OnTrades, bookvars, BookTypes
  <2>. QED BY <1>1, <1>4, <2>1, <2>2 DEF InvBook, IsMap
<1>. QED BY <1>3, <1>4 DEF Follows, BookTypes

LEMMA ReadInv ==
  ASSUME MDInv, Read
  PROVE  MDInv'
<1>1. /\ ses.reads > 0 /\ inbox # <<>> /\ OnMessage(Head(inbox)) /\ inbox' = Tail(inbox)
      /\ exch' = exch /\ Ran(WS!CheckRead(WS!ReadDone(ses)))
  BY DEF Read
<1>2. InvClient'
  <2>1. SessionOK(WS!CheckRead(WS!ReadDone(ses)))
    BY <1>1, OthersOK DEF MDInv, InvClient
  <2>. QED BY <1>1, <2>1, RanOK DEF MDInv
<1>3. InvMarket /\ inbox \in Seq(Messages) /\ exch \in Books /\ InvFeed
  BY DEF MDInv, InvMarket
<1>4. Head(inbox) \in Messages /\ inbox' \in Seq(Messages)
  BY <1>1, <1>3, HeadTailProperties
<1>5. PICK d \in Books : /\ Follows(handled, Head(inbox), d)
                         /\ \E h : Chain(h, inbox', d, exch')
  <2>1. PICK g : Chain(g, inbox, handled, exch)
    BY <1>3, FeedIsChain
  <2>. QED BY <1>1, <1>3, <2>1, FeedTail
<1>6. handled' = d /\ hasSnapshot' \in BOOLEAN /\ synced' \in BOOLEAN /\ InvBook'
  BY <1>1, <1>3, <1>4, <1>5, OnMessageInv
<1>7. InvFeed'
  BY <1>5, <1>6 DEF InvFeed, Chain
<1>. QED BY <1>1, <1>2, <1>3, <1>4, <1>6, <1>7 DEF MDInv, InvMarket

-----------------------------------------------------------------------------
(* Invariance. *)

LEMMA MDInvInit == Init => MDInv
<1> SUFFICES ASSUME Init PROVE MDInv
  OBVIOUS
<1> DEFINE z == [p \in Prices |-> 0]
<1>1. SessionOK(ses)
  <2>1. ses = [WS!NewSession EXCEPT !.stage = "resolve"]
    BY DEF Init, WS!Connect
  <2>2. <<>> \in Seq(Requests)
    OBVIOUS
  <2>3. ses \in Sessions
    BY <2>1, <2>2 DEF Sessions, WS!NewSession, WS!Stages
  <2>4. /\ ses.stage = "resolve" /\ ses.mState = "handshaking" /\ ses.sending = FALSE
        /\ ses.reads = 0 /\ ses.writes = 0
    BY <2>1 DEF WS!NewSession
  <2>. QED BY <2>3, <2>4 DEF SessionOK
<1>2. InvClient
  <2>1. id_ = 1 /\ needReconnect_ = FALSE /\ stopped = FALSE /\ crashed = FALSE
    BY DEF Init
  <2>2. id_ \in 1..(MaxBeats + 1)
    BY <2>1, BoundsAssumption
  <2>. QED BY <1>1, <2>1, <2>2 DEF InvClient
<1>3. /\ inbox = <<>> /\ hasSnapshot = FALSE /\ synced = FALSE /\ bids = EmptyMap /\ asks = EmptyMap
      /\ exch = [bids |-> z, asks |-> z] /\ handled = exch
  BY DEF Init
<1>4. z \in Sides
  BY DEF Sides
<1> HIDE DEF z
<1>5. exch \in Books
  BY <1>3, <1>4 DEF Books
<1>6. inbox \in Seq(Messages) /\ Len(inbox) = 0
  BY <1>3
<1>7. InvFeed
  <2> DEFINE g == [j \in 0..0 |-> exch]
  <2>1. g \in [0..Len(inbox) -> Books] /\ g[0] = handled /\ g[Len(inbox)] = exch
    BY <1>3, <1>5, <1>6
  <2>2. \A j \in 1..Len(inbox) : Follows(g[j - 1], inbox[j], g[j])
    BY <1>6
  <2> HIDE DEF g
  <2>. QED BY <2>1, <2>2 DEF InvFeed
<1>8. InvBook
  BY <1>3, EmptyIsMap DEF InvBook
<1>. QED BY <1>2, <1>3, <1>5, <1>6, <1>7, <1>8 DEF MDInv, InvMarket

\* MDInv is an invariant of the specification.
LEMMA MDInvariance == Spec => []MDInv
<1>1. MDInv /\ [Next]_vars => MDInv'
  <2> SUFFICES ASSUME MDInv, [Next]_vars PROVE MDInv'
    OBVIOUS
  <2>1. CASE RunIdle \/ Stage \/ Write \/ Crash \/ Fails
    <3>1. UNCHANGED bookvars /\ UNCHANGED servervars
      BY <2>1 DEF RunIdle, Stage, Write, Crash, Fails
    <3>. QED BY <2>1, <3>1, ClientInv, MarketUnchanged DEF MDInv
  <2>2. CASE UNCHANGED vars
    <3>1. UNCHANGED clientvars /\ UNCHANGED bookvars /\ UNCHANGED servervars
      BY <2>2 DEF vars
    <3>2. InvClient'
      BY <3>1 DEF MDInv, InvClient, SessionOK, clientvars
    <3>. QED BY <3>1, <3>2, MarketUnchanged DEF MDInv
  <2>. QED
    BY <2>1, <2>2, ReadInv, ServerBookInv, ServerRestInv DEF Next
<1>. QED BY <1>1, MDInvInit, PTL DEF Spec

-----------------------------------------------------------------------------
(* The theorems. *)

\* The keys of both maps are ints, no level has quantity 0, and the session has at most
\* one read and one write under way.
THEOREM MDTypeCorrect == Spec => []TypeOK
<1>1. MDInv => TypeOK
  <2> SUFFICES ASSUME MDInv PROVE TypeOK
    OBVIOUS
  <2>1. /\ ses.reads \in 0..1 /\ ses.writes \in 0..1 /\ id_ \in 1..(MaxBeats + 1)
        /\ needReconnect_ \in BOOLEAN /\ stopped \in BOOLEAN /\ crashed \in BOOLEAN
        /\ hasSnapshot \in BOOLEAN /\ synced \in BOOLEAN
    BY DEF MDInv, InvClient, InvMarket, SessionOK, Sessions
  <2>2. IsMap(bids) /\ IsMap(asks)
    BY DEF MDInv, InvMarket, InvBook
  <2>. QED BY <2>1, <2>2 DEF TypeOK
<1>. QED BY <1>1, MDInvariance, PTL

\* From the first snapshot on, whatever mixture of messages onMessage() handles and
\* whatever it did before, the maps are the exchange's book as of the last of them.
THEOREM BookFollowsExchange == Spec => []BookTracksExchange
<1>1. MDInv => BookTracksExchange
  BY DEF MDInv, InvMarket, InvBook, BookTracksExchange
<1>. QED BY <1>1, MDInvariance, PTL

\* The listeners' best bid and ask are the exchange's, wherever int can hold them.
THEOREM BestPublished == Spec => []PublishedIsBest
<1>1. MDInv => PublishedIsBest
  <2> SUFFICES ASSUME MDInv, synced PROVE PublishedIsBest
    BY DEF PublishedIsBest
  <2>1. handled.bids \in Sides /\ handled.asks \in Sides
    BY DEF MDInv, InvMarket, Books
  <2>2. /\ bids = Copy(handled.bids) /\ asks = Copy(handled.asks)
        /\ onOrderBook.bid = BestBid(bids) /\ onOrderBook.ask = BestAsk(asks)
    BY DEF MDInv, InvMarket, InvBook, Copy
  <2> DEFINE b == Quoted(handled.bids)
             a == Quoted(handled.asks)
  <2>3. ASSUME b # EmptyMap, Fits(b)
        PROVE  onOrderBook.bid = Level(b, Max(DOMAIN b))
    <3>1. bids = b
      BY <2>1, <2>2, <2>3, CopyFits
    <3>. HIDE DEF b
    <3>. QED BY <2>2, <2>3, <3>1 DEF BestBid
  <2>4. ASSUME a # EmptyMap, Fits(a)
        PROVE  onOrderBook.ask = Level(a, Min(DOMAIN a))
    <3>1. asks = a
      BY <2>1, <2>2, <2>4, CopyFits
    <3>. HIDE DEF a
    <3>. QED BY <2>2, <2>4, <3>1 DEF BestAsk
  <2>. QED BY <2>3, <2>4 DEF PublishedIsBest
<1>. QED BY <1>1, MDInvariance, PTL
=============================================================================
