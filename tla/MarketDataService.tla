------------------------- MODULE MarketDataService -------------------------
(***************************************************************************)
(* exchange_phemex::MarketDataService of MarketDataService.hpp: one        *)
(* WebSocket session that subscribes to the order book and the trades of   *)
(* one symbol, the copy of the book that snapshots and incremental updates *)
(* maintain, and what the listeners are given.                             *)
(*                                                                         *)
(* The exchange (external) keeps a book of its own, 0 where a price has no *)
(* quantity.  Once subscribed to it sends snapshots, incremental updates,  *)
(* which name the levels that changed, and books of another type, in any   *)
(* order.  Messages arrive in order or not at all.                         *)
(***************************************************************************)
EXTENDS Integers, Sequences, FiniteSetsExt

CONSTANTS Prices, Qtys,  \* the exchange's prices and quantities, as scaled integers
          IntSpan,       \* int holds -IntSpan .. IntSpan - 1 (2^31 in the build)
          MaxMsgs,       \* bound: messages the exchange sends
          MaxFaults,     \* bound: operations that fail
          MaxBeats       \* bound: heartbeats sent

ASSUME NumbersAssumption ==
  IntSpan \in Nat \ {0} /\ Prices \subseteq Nat \ {0} /\ Qtys \subseteq Nat \ {0}

ASSUME BoundsAssumption == MaxMsgs \in Nat /\ MaxFaults \in Nat /\ MaxBeats \in Nat

VARIABLES
  ses, stopped,      \* ws_session; ioc has run out of work
  crashed,           \* the process has read or written through an end iterator
  needReconnect_, id_,
  hasSnapshot,       \* snapshot_map_ has an entry for the symbol
  synced,            \* history: a snapshot has been handled
  bids, asks,        \* its two maps
  onOrderBook,       \* the best bid and ask last given to the listeners
  onTrade,           \* history: <<side of the trade, side the listeners got>>
  handled,           \* history: the exchange's book as of the last book message handled
  exch, inbox,       \* the exchange's book; messages sent and not yet read
  msgs, faults       \* messages sent, operations failed so far

clientvars == <<ses, stopped, crashed, needReconnect_, id_>>
bookvars == <<hasSnapshot, synced, bids, asks, onOrderBook, onTrade, handled>>
servervars == <<exch, inbox, msgs>>
vars == <<clientvars, bookvars, servervars, faults>>

WS == INSTANCE WSSession

EmptyMap == [p \in {} |-> 0]
Put(f, p, q) == [x \in DOMAIN f \cup {p} |-> IF x = p THEN q ELSE f[x]]

\* int price = d[0].GetInt64(): the low bits, read as a signed number.
Narrow(n) == ((n + IntSpan) % (2 * IntSpan)) - IntSpan

\* The exchange's prices are less than 2^32 apart and no quantity is a multiple of 2^32.
ASSUME NarrowAssumption ==
  /\ \A p, r \in Prices : Narrow(p) = Narrow(r) => p = r
  /\ \A q \in Qtys : Narrow(q) # 0

-----------------------------------------------------------------------------
(* onMessage(). *)

\* for (...) s.bids[price] = qty; a message's levels are a map price -> quantity.
Assign(f, levels) ==
  LET keys == {Narrow(p) : p \in DOMAIN levels}
      Qty(k) == Narrow(levels[CHOOSE p \in DOMAIN levels : Narrow(p) = k])
  IN  [k \in DOMAIN f \cup keys |-> IF k \in keys THEN Qty(k) ELSE f[k]]

\* Mutant: a level with quantity 0 stays in the book.
Mut_IncrementalKeepsZero(f, levels) == Assign(f, levels)

\* The loop of an incremental update: a quantity of 0 erases the level.
Incremental(f, levels) ==
  LET g == Assign(f, levels)
      gone == {k \in {Narrow(p) : p \in DOMAIN levels} : g[k] = 0}
  IN  [k \in DOMAIN g \ gone |-> g[k]]

\* Mutant: the maps are not cleared before they are filled.
Mut_SnapshotNoClear(f, levels) == Assign(f, levels)

\* clear() and the loop of a snapshot.
Snapshot(f, levels) == Assign(EmptyMap, levels)

\* price / 10000., as a fraction, and the quantity.
Level(f, p) == [price |-> <<p, 10000>>, quantity |-> f[p], number_of_order |-> 1]

\* rbegin() and begin() of an empty map are not there to be read.
Undefined == [price |-> <<0, 0>>, quantity |-> 0, number_of_order |-> 1]

\* Mutant: the first bid instead of the last.
Mut_BestBidFirst(f) == IF f = EmptyMap THEN Undefined ELSE Level(f, Min(DOMAIN f))

BestBid(f) == IF f = EmptyMap THEN Undefined ELSE Level(f, Max(DOMAIN f))
BestAsk(f) == IF f = EmptyMap THEN Undefined ELSE Level(f, Min(DOMAIN f))

\* A side of the book after a message with these levels.
Updated(type, f, levels) ==
  CASE type = "snapshot" -> Snapshot(f, levels)
    [] type = "incremental" -> Incremental(f, levels)
    [] OTHER -> f

\* Publishing takes snapshot_map_[symbol], which inserts an entry where there is none.
OnBook(m) ==
  /\ hasSnapshot' = TRUE
  /\ synced' = (synced \/ m.type = "snapshot")
  /\ bids' = Updated(m.type, bids, m.bids)
  /\ asks' = Updated(m.type, asks, m.asks)
  /\ onOrderBook' = [bid |-> BestBid(bids'), ask |-> BestAsk(asks')]
  /\ handled' = m.book
  /\ UNCHANGED onTrade

\* d[1].GetString() == "Sell" compares two pointers that are never the same.
OnTrades(m) ==
  /\ onTrade' = onTrade \cup {<<side, "Buy">> : side \in m.sides}
  /\ UNCHANGED <<hasSnapshot, synced, bids, asks, onOrderBook, handled>>

BookTypes == {"snapshot", "incremental", "other"}

\* A message has a book, trades or, as a reply to a request, neither.
OnMessage(m) ==
  \/ m.type \in BookTypes /\ OnBook(m)
  \/ m.type = "trades" /\ OnTrades(m)
  \/ m.type = "reply" /\ UNCHANGED bookvars

\* An update for which find() gave end(), which is logged, goes on through it.
NoMap(m) == m.type = "incremental" /\ ~hasSnapshot

\* Without a bid rbegin() goes through end() too.
NoBid(m) == m.type \in BookTypes /\ Updated(m.type, bids, m.bids) = EmptyMap

-----------------------------------------------------------------------------
(* Sending. *)

BookSub == [method |-> "orderbook.subscribe"]
TradeSub == [method |-> "trade.subscribe"]
Ping(id) == [method |-> "server.ping", id |-> id]

\* Mutant: the second subscription replaces the first.
Mut_SendSubscriptionOne(s) == WS!Send(s, TradeSub)

\* sendSubscription(): the ids are the time of day and the number after it.
SendSubscription(s) == WS!Send(WS!Send(s, BookSub), TradeSub)

\* on_handshake(), which ends with onConnect().
HandshakeEnds(s) == SendSubscription(WS!OnHandshake(s))

\* io_context: a handler has run; with no operation left the context stops for good.
Poll(s) == stopped' = ~WS!Alive(s)

\* The rest of RunOnce(): the first heartbeat is due at once, the others at any time.
AfterPoll(s) ==
  \/ ses' = s /\ id_ > 1 /\ UNCHANGED id_
  \/ ses' = WS!Send(s, Ping(id_)) /\ id_ <= MaxBeats /\ id_' = id_ + 1

-----------------------------------------------------------------------------
(* RunOnce(). *)

Init ==
  /\ ses = WS!Connect(WS!NewSession) /\ stopped = FALSE /\ crashed = FALSE
  /\ needReconnect_ = FALSE /\ id_ = 1
  /\ hasSnapshot = FALSE /\ synced = FALSE /\ bids = EmptyMap /\ asks = EmptyMap
  /\ onOrderBook = [bid |-> Undefined, ask |-> Undefined] /\ onTrade = {}
  /\ exch = [bids |-> [p \in Prices |-> 0], asks |-> [p \in Prices |-> 0]]
  /\ handled = exch
  /\ inbox = <<>> /\ msgs = 0 /\ faults = 0

RunIdle ==
  /\ ~crashed
  /\ AfterPoll(ses)
  /\ UNCHANGED <<stopped, crashed, needReconnect_, bookvars, servervars, faults>>

\* A handler that leaves the session in state s has run without error.
Ran(s) ==
  /\ ~stopped /\ ~crashed
  /\ Poll(s)
  /\ AfterPoll(s)
  /\ UNCHANGED <<crashed, needReconnect_, faults>>

Stage ==
  /\ \/ ses.stage = "resolve" /\ Ran(WS!OnResolve(ses))
     \/ ses.stage = "connect" /\ Ran(WS!OnConnect(ses))
     \/ ses.stage = "ssl_handshake" /\ Ran(WS!OnSslHandshake(ses))
     \/ ses.stage = "handshake" /\ Ran(HandshakeEnds(ses))
  /\ UNCHANGED <<bookvars, servervars>>

Write ==
  /\ ses.writes > 0
  /\ Ran(WS!HandleTx(ses))
  /\ UNCHANGED <<bookvars, servervars>>

\* handle_read(): onMessage(), then check_read().
Read ==
  /\ ses.reads > 0
  /\ inbox # <<>>
  /\ ~NoMap(Head(inbox))
  /\ OnMessage(Head(inbox))
  /\ inbox' = Tail(inbox)
  /\ Ran(WS!CheckRead(WS!ReadDone(ses)))
  /\ UNCHANGED <<exch, msgs>>

\* The same, when it touches what is no map or no level: undefined, it ends the process
\* or, where it only reads, gives any level (Undefined).
Crash ==
  /\ ~stopped /\ ~crashed
  /\ ses.reads > 0
  /\ inbox # <<>>
  /\ NoMap(Head(inbox)) \/ NoBid(Head(inbox))
  /\ crashed' = TRUE
  /\ UNCHANGED <<ses, stopped, needReconnect_, id_, bookvars, servervars, faults>>

\* fail() calls onError(), which sets a flag that nothing reads.
Fails ==
  /\ ~stopped /\ ~crashed
  /\ faults < MaxFaults
  /\ faults' = faults + 1
  /\ needReconnect_' = TRUE
  /\ LET Run(s) == Poll(s) /\ AfterPoll(s)
     IN  \/ ses.stage \notin {"open", "dead"} /\ Run(WS!FailStage(ses))
         \/ ses.reads > 0 /\ Run(WS!FailRead(ses))
         \/ ses.writes > 0 /\ Run(WS!FailTx(ses))
  /\ UNCHANGED <<crashed, bookvars, servervars>>

-----------------------------------------------------------------------------
(* The exchange. *)

OnWire(m) == \E i \in 1..Len(ses.wire) : ses.wire[i] = m

\* A process that has ended has no connection.
ServerSends(m) ==
  /\ ~crashed
  /\ msgs < MaxMsgs
  /\ msgs' = msgs + 1
  /\ inbox' = Append(inbox, m)
  /\ UNCHANGED <<clientvars, bookvars, faults>>

\* The levels that have a quantity.
Quoted(side) == [p \in {p \in Prices : side[p] # 0} |-> side[p]]

\* The exchange's book changes in at most one bid level and one ask level, and it sends
\* either the levels that changed or a whole snapshot instead.
ServerBook ==
  \E p, r \in Prices, q, s \in {0} \cup Qtys :
    /\ OnWire(BookSub)
    /\ exch' = [bids |-> [exch.bids EXCEPT ![p] = q], asks |-> [exch.asks EXCEPT ![r] = s]]
    /\ \/ ServerSends([type |-> "snapshot", bids |-> Quoted(exch'.bids),
                       asks |-> Quoted(exch'.asks), book |-> exch'])
       \/ ServerSends([type |-> "incremental", bids |-> Put(EmptyMap, p, q),
                       asks |-> Put(EmptyMap, r, s), book |-> exch'])

\* A book whose type the service does not know.
ServerOther ==
  /\ OnWire(BookSub)
  /\ ServerSends([type |-> "other", bids |-> EmptyMap, asks |-> EmptyMap, book |-> exch])
  /\ UNCHANGED exch

ServerTrade ==
  /\ OnWire(TradeSub)
  /\ \E sides \in {{"Buy"}, {"Sell"}, {"Buy", "Sell"}} :
       ServerSends([type |-> "trades", sides |-> sides])
  /\ UNCHANGED exch

ServerReplies ==
  /\ ses.wire # <<>>
  /\ ServerSends([type |-> "reply"])
  /\ UNCHANGED exch

Next ==
  \/ RunIdle \/ Stage \/ Write \/ Read \/ Crash \/ Fails
  \/ ServerBook \/ ServerOther \/ ServerTrade \/ ServerReplies

Spec == Init /\ [][Next]_vars

\* RunOnce() is called again and again; a connection step (under a timeout of 30
\* seconds) or a write under way ends.
FairSpec == Spec /\ WF_vars(Stage) /\ WF_vars(Write)

-----------------------------------------------------------------------------
(* Properties. *)

IsMap(f) == DOMAIN f \subseteq (-IntSpan)..(IntSpan - 1) /\ \A p \in DOMAIN f : f[p] # 0

TypeOK ==
  /\ IsMap(bids) /\ IsMap(asks)
  /\ ses.reads \in 0..1 /\ ses.writes \in 0..1
  /\ id_ \in 1..(MaxBeats + 1)
  /\ needReconnect_ \in BOOLEAN /\ stopped \in BOOLEAN /\ crashed \in BOOLEAN
  /\ hasSnapshot \in BOOLEAN /\ synced \in BOOLEAN

\* From the first snapshot handled on the maps are the exchange's book as of the last
\* book message, whatever mixture of messages led there and whatever was applied before
\* it: nothing that was erased or absent from a snapshot stays, nothing is lost; prices
\* that int cannot hold are there under another key.
BookTracksExchange ==
  synced => /\ bids = Assign(EmptyMap, Quoted(handled.bids))
            /\ asks = Assign(EmptyMap, Quoted(handled.asks))

Fits(f) == \A p \in DOMAIN f : p < IntSpan /\ f[p] < IntSpan

\* From then on what the listeners were last given is the best bid and the best ask of the exchange,
\* unless the side is empty or has a price or quantity that int cannot hold.
PublishedIsBest ==
  LET b == Quoted(handled.bids)
      a == Quoted(handled.asks)
  IN  /\ synced /\ b # EmptyMap /\ Fits(b)
           => onOrderBook.bid = Level(b, Max(DOMAIN b))
      /\ synced /\ a # EmptyMap /\ Fits(a)
           => onOrderBook.ask = Level(a, Min(DOMAIN a))

\* Both subscriptions go out, behind the heartbeat that was queued while the session
\* was connecting, or an error is reported, or the process has ended.
Subscribes == <>(needReconnect_ \/ crashed \/ (OnWire(BookSub) /\ OnWire(TradeSub)))

\* "d[1].GetString() == "Sell" ? SELL : BUY": the listeners get the side of the trade.
TradeSideReported == \A t \in onTrade : t[1] = t[2]

-----------------------------------------------------------------------------
(* The inductive invariant. *)

Requests == {BookSub, TradeSub} \cup [method : {"server.ping"}, id : Nat]

Sessions ==
  [ stage : WS!Stages, mState : {"handshaking", "connected"}, sending : BOOLEAN,
    queue : Seq(Requests), wire : Seq(Requests), reads : Nat, writes : Nat,
    failed : BOOLEAN ]

\* Of session s: only an open session reads, and a write under way is of the front of
\* the queue.
SessionOK(s) ==
  /\ s \in Sessions
  /\ s.reads <= 1 /\ s.writes <= 1
  /\ s.stage = "open" <=> s.mState = "connected"
  /\ s.reads = 1 => s.mState = "connected"
  /\ s.writes = 1 => s.sending
  /\ s.sending => s.queue # <<>>

Sides == [Prices -> {0} \cup Qtys]
Books == [bids : Sides, asks : Sides]

Levels == UNION {[S -> {0} \cup Qtys] : S \in SUBSET Prices}
Messages ==
  [type : BookTypes, bids : Levels, asks : Levels, book : Books]
    \cup [type : {"trades"}, sides : SUBSET {"Buy", "Sell"}] \cup [type : {"reply"}]

\* levels is what an incremental update says of the change of a side from f to g.
Changes(f, g, levels) ==
  \E p \in Prices, q \in {0} \cup Qtys : g = [f EXCEPT ![p] = q] /\ levels = Put(EmptyMap, p, q)

\* Message m took the exchange's book from b to c.
Follows(b, m, c) ==
  \/ /\ m.type = "snapshot" /\ m.book = c
     /\ m.bids = Quoted(c.bids) /\ m.asks = Quoted(c.asks)
  \/ /\ m.type = "incremental" /\ m.book = c
     /\ Changes(b.bids, c.bids, m.bids) /\ Changes(b.asks, c.asks, m.asks)
  \/ m.type = "other" /\ m.book = c /\ c = b
  \/ m.type \in {"trades", "reply"} /\ c = b

\* The messages not yet read lead from the book that was handled last to the exchange's.
InvFeed ==
  \E g \in [0..Len(inbox) -> Books] :
    /\ g[0] = handled /\ g[Len(inbox)] = exch
    /\ \A j \in 1..Len(inbox) : Follows(g[j - 1], inbox[j], g[j])

\* After a snapshot the maps are the book handled last, and its best levels have been
\* published; before one they hold what was applied to an empty entry.
InvBook ==
  /\ IsMap(bids) /\ IsMap(asks)
  /\ synced => /\ hasSnapshot
               /\ bids = Assign(EmptyMap, Quoted(handled.bids))
               /\ asks = Assign(EmptyMap, Quoted(handled.asks))
               /\ onOrderBook = [bid |-> BestBid(bids), ask |-> BestAsk(asks)]

InvClient ==
  /\ SessionOK(ses)
  /\ id_ \in 1..(MaxBeats + 1)
  /\ needReconnect_ \in BOOLEAN /\ stopped \in BOOLEAN /\ crashed \in BOOLEAN

InvMarket ==
  /\ handled \in Books /\ exch \in Books /\ inbox \in Seq(Messages)
  /\ hasSnapshot \in BOOLEAN /\ synced \in BOOLEAN
  /\ InvFeed /\ InvBook

MDInv == InvClient /\ InvMarket
=============================================================================
