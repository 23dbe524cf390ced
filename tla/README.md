# Verification of the exchange adapter

TLA+ models, TLC runs and TLAPS proofs for the two libraries of this repository:
`exchange_core` (lock-free rings for market data and orders, in process or in
shared memory) and `exchange_phemex` (WebSocket and HTTP sessions to the Phemex
exchange, and the services built on them). Source paths below are relative to
`src/exchange_core/include/exchange-core/` and
`src/exchange_phemex/include/exchange-phemex/`.

## 1. Inventory

| Component | State | Operations | Correct when |
|---|---|---|---|
| `WFMPMC.h` ring | `write_idx`, `read_idx`, per block `stat` and `data`, thread table `tids`/`thr_idxes` | `emplace`, `tryVisitPush`/`tryPush`, `pop`, `tryVisitPop`/`tryPop`, the index/get/commit primitives, destructor | blocks are touched by one thread at a time, values come out once and in ticket order, no ticket is lost, the destructor destroys exactly what is left |
| `WFMPMC::shmInit`, `shm.h` | `init_state` in the mapped file | `shmmap`, once-only construction by several processes | one process constructs, the others wait for the end of it, a process that dies disturbs only those who need its ticket |
| `WFSPSC.h`, `WFSPMC.h` rings | `write_idx`, blocks; `WFSPSC` also `read_idx` | push, pop, `reset()` / `setWriteIdx()`; no check of any kind | callers that compare `getCurrentWriteIdx()` with `getCurrentReadIdx()` (stay near `write_idx`) get whole, current elements |
| `WSConnection.hpp` `session` | `mState`, `mSending_state`, `write_queue`, outstanding operations | connect chain, `send`, `check_send`, `handle_tx`, `handle_read`, `fail` | one read and one write at a time, the written buffer stays alive, nothing lost, repeated, reordered or left behind, no silent death |
| `HttpConnection.hpp` `HttpSession` | the same, and the parse buffer `buffer_` | the same | the same, and responses reach the listener in order and without gaps; a refused host is the one silent end |
| `TradeService.hpp` | both sessions, `mNeedReconnect`, `mHttpNeedReconnect`, `id_`, `auth_id_` | `Connect`, `RunOnce` (poll, reconnects, heartbeat), `PlaceOrder`, `CancelOrder`, `onMessage`, `onHttpMessage`, error callbacks, `GetOpenOrder`/`CancelAll`/`aPlaceOrder` through curl | every session authenticates first, subscribes after its own reply, comes back after errors; an order goes out at most once and is not forgotten |
| `MarketDataService.hpp` | order book per symbol, session, `id_`, `needReconnect_` | `Connect`, `RunOnce`, subscriptions, snapshot, increment and trade handling, listeners | the book equals the exchange's, the best levels and the trades reach the listeners |
| `message.h`, `exchange-core.h`, `exchange-phemex.h` | layouts, interfaces, parameter map | none with state of interest | - |

**Interaction.** A service owns its sessions by `shared_ptr`; so does every
outstanding asynchronous operation. Completion handlers run inside
`ioc.poll_one()`, called by `RunOnce()`, so they never run concurrently, but they
run in any order the network produces, they call the listener, and the listener
calls `send()` from inside them. When a session reports an error the service makes
a new one; the old one is not closed and goes on calling the service until its
last operation ends. The rings are shared by threads, or by processes.

**What is hard here.** The interleavings of the ring's atomic accesses; tickets kept
between two `try` calls; sends from callbacks while a write is or is not under
way; late messages and second errors from sessions that were already replaced;
responses that arrive in one read; an `io_context` that stops for good when it
runs out of work; processes that die with the shared file half written; a call of
curl that blocks everything else; a host name that is refused without an error report;
64-bit prices in 32-bit integers. `PROJECT.json` lists these hazards at their lines.

## 2. Modules and the code they model

| Module | Models |
|---|---|
| `TicketQueue` | abstract specification of `WFMPMC`: a bounded FIFO in ticket order |
| `WFMPMC` | `WFMPMC.h`, one action per atomic access |
| `WFMPMCShm` | `WFMPMC` in a file: `shmmap`, `shmInit`, processes that die |
| `SPRing` | what `WFSPSC.h` and `WFSPMC.h` share: a writer and readers that check nothing |
| `WFSPSC`, `WFSPMC` | the two classes on top of it |
| `WSSession` | the methods of `session` as operators on its record |
| `WSConnection` | one `session` with any client and any network |
| `HttpSession` | the methods of `HttpSession` as operators on its record |
| `HttpConnection` | one `HttpSession` with any client, network and server |
| `TradeService` | `TradeService.hpp`, composed with all `WSSession`s and `HttpSession`s it ever made |
| `MarketDataService` | `MarketDataService.hpp`, composed with a `WSSession` and the exchange |
| `MC*` | instances for TLC; `MCRings` runs both single-producer rings |
| `...Proofs` | TLAPS proofs about the module of that name |

Operators whose names start with `Mut_` are deliberately wrong versions of the
definition below them. No specification uses them; they show that a property
notices such a bug.

### WFMPMC

Variables have the code's names; `thr_write`/`thr_read` are the fields of
`thr_idxes`, `loc_idx` the local `idx` of `emplace()`/`pop()`. `pc[t]` is the next
atomic access of thread `t`. A call starts with `Emplace`, `TryPush`, `Pop` or
`TryPop`. `Probe` is the load of `tids[cur]`, `Claim` the compare-and-exchange,
`TableFull` the `nullptr` return. `GetWriteIdx` is the `fetch_add` (or the kept
ticket), `GetWritable` the acquire load of `stat`, `Construct` the construction or
the visitor, `CommitWrite` the release store; the reading side is alike.
`CommitRead` destroys and stores in one step: until the store no other thread may
touch the block, and that is exactly what `NoDataRace` checks at that point.
`pushed` and `popped` are history variables.

Interleaving whole steps is justified by the orders the code uses: data is only
handed over through `stat`, stored with release and loaded with acquire order. The
counters and `tids` are accessed with relaxed order, but carry no other data:
`fetch_add` and compare-and-exchange are atomic whatever their order, and a stale
load of `tids[cur]` can only be a 0 that the exchange then refutes, because
an entry, once claimed, never changes. `uint32_t`/`int64_t` overflow is out of
reach (2^63 tickets). `size()`, `empty()` and `full()` only read and are called
hints; they are not modelled.

### WFMPMCShm

`stage[t]` says where process `t` is: `Shmmap` (which may fail), `Exchange` (the
compare-and-exchange on `init_state`), the constructor in two steps
(`ConstructMembers`, `ConstructBody`), `PublishState` (the store of 2), or `WaitEnds`
(the loop of those that lost the exchange). Then it uses the ring by the actions of
`WFMPMC`, unchanged. `Crash` takes a process out at any point and leaves the file as
it is; a restarted process is another member of `Threads` that maps the file later.
`Cxx20` selects what the default constructor of `std::atomic` does to `init_state`,
`tids` and `stat`: nothing before C++20, a store of 0 since. `gettid()` is assumed not to return the id
of a dead process. `ImplementsWFMPMC` is a refinement with the ring mapped to the
constructor's result until `init_state` is 2, so that everything proved of `WFMPMC`
holds in shared memory as well. No code of the repository maps a `WFMPMC` yet;
`shm.h` maps the two rings below, whose `shmInit()` is empty.

### SPRing, WFSPSC, WFSPMC

`class` says which of the two classes the file holds; it never changes, and both
specifications can so be explored in one run. An element is two words, so that a copy that overlaps a construction is a mixture;
every push writes a number of its own. `BeginPush`, `WriteFirst`, `WriteSecond` and
`Publish` are a push, `BeginPop`, `CopyFirst`, `CopySecond` and `StoreReadIdx` or
`Return` a pop; a process may die between them, and the next one starts from the
file. The classes check nothing, so every call is possible in every state. The
history variable `clean` becomes `FALSE` with the first call its class cannot
support (a push or pop by a caller that has not looked, without room or without an
element, a pop during another pop, an overlap with `reset()`, an index turned back);
the properties are about clean histories and say that those rules are sufficient.

To look at a `WFSPSC` means to compare `getCurrentWriteIdx()` with
`getCurrentReadIdx()` (`looked`, `Distance`). Both convert a `std::atomic`, which is a
sequentially consistent load, and `push` and `pop` store their indices with the same
order: a writer that finds room is ordered after the pop that made it, a reader that
finds an element after the push that stored it. `size()` and `empty()` load with relaxed
order and order nothing; `empty()` is called a hint. A caller that relies on them alone
has not looked, and nothing is claimed for it. `std::move` of an element copies it: `Message` is
trivially copyable.

### Sessions

`stage` is the connection step under way, `reads`/`writes` count outstanding
operations, `wire` is the sequence of messages handed to `async_write`, `failed`
says that `fail()` has called the listener. Messages are model values. TLS, the
resolver and Beast are external: an operation completes or fails. `on_close` and
`on_shutdown` have no caller in the repository. `HttpSession::connect()` returns early
when OpenSSL refuses the host (`accepted`; an empty name is refused, and the host is a
parameter of the configuration): the session stays in stage `new` and tells nobody.
`session::on_connect` reports the same error by `fail()`.

In `HttpSession` a response is `Segs` segments. `http::async_read` (external)
reads what the socket has into `buffer_` until `buffer_` starts with a complete
response, takes that out and completes; `handle_read()` then consumes all that is
left. `pipelined` is a history variable of `HttpConnection`: the client has sent a
request before the last one had its response.

### TradeService

`svc` is the record of the service; each method is an operator from its state to
the state after it, so that one step of the specification is one `RunOnce()`: one
completion handler (or none), then `Reconnect`, `HttpReconnect` and the heartbeat,
in the code's order. `svc.ws` and `svc.http` hold every session ever made, the last
being the current one. `svc.stopped` is the state of the `io_context`: Asio stops
it when a handler ends and no operation is outstanding, and nobody calls `restart()`.
`mHostOK` says whether OpenSSL takes `mHost`, which `Connect` and every `HttpReconnect`
use. JSON,
signatures, prices and the string-to-enum conversions are abstracted: a message is
its kind, its id and its order. Each client order id is used for one `PlaceOrder`.
The server answers each WebSocket message at most once, in any order, and pushes an
order it has received to subscribed sessions. `GetOpenOrder`, `CancelAll` and
`aPlaceOrder` block the only thread in curl (`svc.busy`): until `CurlReturns` nothing
of `RunOnce()` happens, while the server goes on. What they received is only logged,
so they change nothing else; an order passed to `aPlaceOrder` may be pushed later.

### MarketDataService

One step is one `RunOnce()`, as above. `bids` and `asks` are the two maps of the one
symbol that is subscribed to. `Narrow` is the conversion of `int64_t` to `int`, with
`IntSpan` in the place of 2^31. The levels of a message are a map, since their order
does not matter as long as no two prices have the same low 32 bits
(`NarrowAssumption`). Published prices are fractions of 10000. Reading the best
level of an empty side is undefined: the model publishes `Undefined`, or, without a bid
(`NoBid`: `rbegin()` steps back from `end()`), ends the process (`Crash`). An update for
which there is no map goes on through `end()` (`NoMap`) and ends the process. A book whose
type is neither snapshot nor incremental changes no level, but is published all the
same, and that inserts an empty entry, so that later updates find one. The exchange
is external: its book changes by at most one level of each side per message, and it
sends the change, a snapshot, or a book of another type, in any order; `handled` is the
exchange's book as of the last book message read, and `synced` says that a snapshot has
been handled. Symbols other than the subscribed one, timestamps and messages
that are not JSON objects are left out.

## 3. Runs

All runs set `CHECK_DEADLOCK FALSE`: a client may stop calling, `pop()` waits for a
producer that need not exist, and a failed session stands still.

| Run | Instance | Shows |
|---|---|---|
| `mpmc_safety` | 2 blocks, 2 table entries; either 3 threads of which two hash to the same entry, 1 value, calls start while tickets are below 2, or 2 threads, 2 values, calls start while tickets are below 3 | no race, no overwritten object, exact destructor, no ticket lost or held twice, every blocked thread waits for a ticket that is undrawn or held, one entry per thread, a thread is refused only if every entry belongs to others, refinement of `TicketQueue`: each ticket's value comes out under that ticket |
| `shm` | 1 block, 2 entries, processes 1 and 3 (same hash), tickets below 3, C++17, with fairness | construction and deaths refine `WFMPMC`; spinning calls end unless a partner is missing or died; the wait in `shmInit()` ends unless the constructor died |
| `shm_cxx20` | the same, C++20 | **violated**: finding 3 |
| `ws_session` | 2 messages, 4 sends, `FairSpec` | the write pump and read loop of a WebSocket session, failures anywhere |
| `http_session` | 2 segments, 3 sends of 2 requests, host taken or refused | the same for HTTP; silent only if the host was refused; a client that waits for each response gets all of them, in order and whole |
| `http_response_skipped` | 3 sends | **violated**: finding 1 |
| `trade_recover` | 2 WebSocket failures, 1 heartbeat, 1 call of curl, HTTP host taken or refused, `FairSpec` | late replies on a replaced session do not subscribe its successor; one new session per error; the session in use ends up subscribed, or the call of curl never returns, or the context has stopped |
| `trade_safety` | either 1 order and its cancellation, 2 HTTP failures, 1 heartbeat and 1 call of curl, or 1 WebSocket and 1 HTTP failure and 2 heartbeats; host taken or refused | authentication first; the context never runs dry, unless there is no HTTP session because its host was refused; an order is sent at most once and stranded only in a session that reported an error and was replaced, or whose host was refused |
| `trade_auth_id` | no failures, 1 heartbeat | **violated**: finding 2 |
| `rings` | 2 blocks, 4 pushes, 1 reader; either class | no shared block and whole elements for callers of `WFSPSC` that compare the two indices first; whole elements for multicast readers less than `SIZE - 1` behind |
| `market_data` | either prices 1, 2 and 5 (5 does not fit the `int` of the instance) and 3 messages of any kind in any order, or 1 message, 2 failures and 3 heartbeats, with fairness | from the first snapshot on the copy of the book follows the exchange and the best levels are published; both subscriptions go out, or an error is reported, or a message has ended the process |
| `md_trade_side` | the same | **violated**: finding 4 |

Where a run has two instances ("either ... or"), its MC module has a variable that
chooses one at the start (`crew`, `slice`, or `class` for the rings) and keeps a step to its
bounds.

**Why the bounds are enough.** In `mpmc_safety` calls that overlap draw tickets beyond
the bound, so the third ticket, of the second lap of a block, is written and read while
others hold the first two; two blocks with two values hold two elements that can be told
apart. In `shm` there is one block, where every ticket meets every other. That more
blocks change nothing is proved. Three
threads for two entries give colliding hashes, a claim that comes too late and a
table that is too small. Two processes are a constructor and a waiter, or a dead
process and a survivor. Four sends are one more than a session can hold in the
states the pump tells apart (one being written, one waiting, one added by a
callback). Three responses are needed for a gap. A second failure is what lets the
error of an already replaced session hit its healthy successor. The two sides of
`TradeService` share only the `io_context` and the thread: two failures of one side are
explored in `trade_recover` and `trade_safety`, and what they share in the second instance
of `trade_safety`, with a failure of each. The first heartbeat is that of the first
`RunOnce()`; that instance has a second one at any time, also between a reconnection and
the handshake, and the others only the first, since a second makes them too large.
Four pushes take a ring of two blocks into its third lap, with a
death or a reset on the way. Three book messages are a snapshot and the two changes
that can leave a stale or a wrong best level, or an update and another book before the
snapshot.

**Fairness.**
- `WFMPMCShm`: a process inside a call or `shmInit()` keeps running until it dies.
  Nothing makes a process call again, so a ticket kept by a `try` call may stay there;
  `SpinningEndsUnlessOrphaned` says so (`PartnerMissing`).
- `WSConnection`: connection steps and writes under way end. Every step from
  `on_resolve` on is under a timeout, Asio ends a resolve itself, and the services
  call `RunOnce()` in a loop. Reads need not complete.
- `TradeService`: every ready handler is polled in turn, and the server replies to
  the first message of a session. Nothing is assumed of failures (they are finitely
  many by the bound, which is what "once failures stop" means), orders, heartbeats,
  other replies or the return of curl, which has lost its timeout.
- `MarketDataService`: connection steps and writes under way end.

## 4. Proofs

Each `...Proofs` module proves its theorems for every value of the constants that
satisfies the named assumptions; sets of threads, values, messages and prices may be
infinite, and the bounds of the runs (`MaxIdx`, `MaxSends`, `MaxPushes`, ...) are
arbitrary. All theorems have the form `Spec => []P`, or `Spec => Abstract` for the two
refinements.

| Module | Theorem | States |
|---|---|---|
| `WFMPMCProofs` | `TypeCorrect` | `TypeOK` |
| | `RaceFree` | `NoDataRace` |
| | `NothingOverwritten` | `WritableIsRaw` |
| | `Refinement` | every step is a step of `TicketQueue` or changes nothing of it |
| | `OneEntry` | `OneEntryPerThread` |
| | `TurnedAwayRightly` | `TurnedAwayOnlyWhenFull` |
| | `TableSuffices` | `NeverTurnedAway`, if `Threads` is finite and no larger than `THR_SIZE` |
| | `TicketsSafe` | `NoTicketLost` |
| | `DestructorRight` | `DestructorExact` |
| | `NoCircularWait` | `WaitsForPartner` |
| `WFMPMCShmProofs` | `OneConstruction` | `ConstructedOnce` |
| | `ShmRefinement` | `ImplementsWFMPMC` |
| | `ShmRaceFree` | `NoDataRace`, of the ring in shared memory |
| | `ShmTableSuffices` | `NeverTurnedAway`, under the condition of `TableSuffices` |
| `WFSPSCProofs` | `SCTypeCorrect`, `SidesApart`, `ElementsIntact` | `TypeOK`, `NoSharedBlock`, `PopReturnsElement` |
| `WFSPMCProofs` | `MCTypeCorrect`, `RecentIntact` | `TypeOK`, `RecentReadsWhole` |
| `WSConnectionProofs` | `WSTypeCorrect`, `WSOneOperationEach`, `WSBufferOutlivesWrite`, `WSSentInOrder`, `WSNoStall`, `WSNoSilentDeath` | the property of that name |
| `HttpConnectionProofs` | `HttpTypeCorrect`, `HttpSentInOrder`, `HttpNoStall`, `HttpSilentOnlyIfRefused`, `HttpNoneSkippedIfWaited` | the property of that name |
| `MarketDataServiceProofs` | `MDTypeCorrect`, `BookFollowsExchange`, `BestPublished` | `TypeOK`, `BookTracksExchange`, `PublishedIsBest` |
| `TradeServiceProofs` | `TSTypeCorrect`, `AuthComesFirst`, `StaleReplies` | `TypeOK`, `AuthFirst`, `StaleRepliesIgnored` |
| | `OneNewSession`, `ContextRuns` | `OneSessionPerError`, `ContextKeepsRunning` |
| | `SentOnce`, `NotForgotten` | `OrderSentOnce`, `OrderNotForgotten` |

**Assumptions.** `SIZE`, `THR_SIZE` and `Segs` are positive; thread ids are positive
(`gettid()` is, and 0 marks a free entry); `Raw` is no value. The theorems of
`WFMPMCShmProofs` assume `~Cxx20`: with a C++20 build they are false (finding 3).
`MarketDataService` assumes that no two prices of the exchange have the same low 32
bits and that no quantity is a multiple of 2^32 (`NarrowAssumption`): without it two
levels share a key, or a level erases itself. The invariants are checked by TLC on
small instances before they are proved.

### WFMPMC

`NoDataRace` is not inductive: it says nothing of why the next thread to pass
`getWritable()` finds the block free. The reason is that the `stat` word of a block is
one number, and a thread is in the block only while that number names its own ticket
(`InvAccess`: `idx` for a writer, `~idx` for a reader). Two threads in one block would
have the same ticket of the same kind, which `InvWriteTickets`/`InvReadTickets`
exclude: a ticket has one holder, a local variable or a table entry. That a `try` call
works on an entry of its own (`InvEntry`) makes the holder a thread. For the
refinement, `InvBlocks` and `InvHistory` tie `stat` to the history: `~n` in `stat`
means that `pushed[n]` is in the block, `n >= SIZE` means that ticket `n - SIZE` has
been popped and, until its writer constructs, that the block is raw. `IndInv` is the
conjunction; one lemma per action (`...Step`), combined in `IndInvNext`.

`OneEntryPerThread` and `TurnedAwayOnlyWhenFull` need the history of a probe, which the
code does not keep: `InvProbe` says that every entry between the hash of a thread and
`cur` belongs to another thread, and that `cnt` is what is left of the table. So a
thread that claims an entry has none further on, and a thread that has used up `cnt`
has seen all entries taken; entries never become free again. `TableSuffices` adds the
pigeonhole: `THR_SIZE` entries taken by others are `THR_SIZE + 1` threads. `NeverTurnedAway`
is a consequence of `TurnedAwayOnlyWhenFull`, which a run checks; it is only proved.
`InvTickets` (every drawn ticket is used or held) gives `NoTicketLost`, and
`InvValues` (with `InvBlocks`) `DestructorExact`.

`NoCircularWait` is about `emplace()` and `pop()` spinning on each other. `InvLaps`
says that the `stat` word of a block names a ticket of that block, that no store is
undone (a popped ticket's block is at a later lap, a pushed one's at least at its own),
and that an element is pushed only after all earlier laps of its block were popped. So
`stat` is never ahead of a ticket still held, and a writer that is kept waiting waits
for the reader of the ticket one lap earlier, a reader for the writer of its own
ticket; `NoTicketLost` then says that this ticket is not drawn yet or somebody holds
it. A wait leads from a read to the write of the same ticket and from a write to a
read `SIZE` tickets earlier, so a circle of waiting threads cannot form, whatever
the number of threads and blocks. That the waiting then ends also needs fairness:
`SpinningEndsUnlessOrphaned` stays with TLC.

### WFMPMCShm

`ShmInv` follows the file from zeros to a ring: before `init_state` is 2 nobody is past
`shmInit()`, at most one process constructs, threads are idle (`InvUnused`), and each
construction step leaves the members it has reached as `WFMPMC`'s `Init` has them
(`InvConstructed`). Under the refinement mapping all of that is stuttering, `PublishState` is
stuttering too because the mapped ring was already initial, and everything later is a
step of `WFMPMC` or a death, which changes nothing. `ShmRingInv` carries `IndInv` of
the ring from the store of 2 on.

### SPRing

`SCInv` and `MCInv` are implications from `clean`: nothing is claimed after an
unsupported call. For `WFSPSC`, `InvIndices` says that the indices are at most `SIZE`
apart, with the writer on `write_idx + 1` and the reader on `read_idx + 1`; the two
indices in play then differ by less than `SIZE`, so do not share a block, and
`InvElements` keeps the elements in between whole. For `WFSPMC` the writer is free, so
`InvRecent` speaks of the elements less than `SIZE - 1` behind `write_idx`, and of what
a reader has copied as long as its element is among them.

### Sessions

The invariants are predicates of a session and of what was sent on it, so that they
can be said between two calls inside one handler. `WritesFront`: the write under way is
of the front of the queue, and `wire` followed by the rest of the queue is what was
sent. `Checked`: on an open connection an idle pump has an empty queue; this is what
`send()` breaks for a moment and `check_send()` restores. `ReadsOpen`: one read exactly
while the session is open, unless an error was reported. For HTTP, `Waited` is about a client that
waits for each response: at most one request has no delivered response, `buffer_` is
empty between two reads, and the socket holds that response or nothing. So there is
nothing behind it for `handle_read()` to throw away; with two requests under way there
is (finding 1).

### MarketDataService

`BookTracksExchange` is about the last message handled, so its invariant needs the
messages on the way: `InvFeed` says that they lead, one by one, from the book handled
last to the exchange's book of now (`Follows`). Before the first snapshot the maps need only
be maps (`InvBook`, `UpdateIsMap`); a snapshot clears whatever was applied to them. The
heart is the lemma `UpdateFollows`: applying an update of one level to
the copy of a side gives the copy of the changed side, for all prices, quantities and
widths of `int`; `AssignProperties`, `CopyProperties` and `NarrowRange` are the facts on
maps and on the conversion it rests on. `CopyFits` turns the copy into the side itself
where `int` can hold it, which gives `PublishedIsBest`.

### TradeService

A step is a whole `RunOnce()`, so the invariant has to hold in the middle of one too:
its parts are predicates of a service state, and there is one lemma for each call
(`poll_one()`, `Reconnect()`, `HttpReconnect()`, `SendHeartbeat()`). `SvcOK` is what holds
throughout; `TSInv` adds what holds between two steps: no error is pending and the
context runs. What a single session does comes from `WSConnectionProofs` and
`HttpConnectionProofs`, instantiated with the messages of the service.

`WsPart` is about all WebSocket sessions ever made. Each began with an authentication
and has no other (`AuthThenOthers`), and subscribed only after a reply to its id
(`SubscribedAfterReply`). The ids on replaced sessions are below `auth_id_`
(`IdsBelow`), because a new session takes `++id_`: so a late reply on an old session
cannot pass for the awaited one. There are as many sessions as errors, and one more
unless an error is pending. `HttpPart` says that the request of an order is in one
place of one session only, and that each order placed is somewhere; replaced sessions
keep what they were sent. `HandlerRanOK` is the reason why nobody has to `restart()`
the context: a handler belongs to one session, so at most one of the two sessions in
use fails in it, and the other has a read or a connection step outstanding. Where the
HTTP host is refused there is no other session, and the context stops with the error of
the WebSocket session (`StopJustified`).

### Only model-checked

`SpinningEndsUnlessOrphaned`, `InitEnds`, `EverythingSent`, `Recovers` and `Subscribes`:
liveness under fairness and `ENABLED` are outside the prover's reach.

## 5. Findings

1. `HttpConnection.hpp:174`. `handle_read()` consumes the whole of `buffer_` after each
   response. Requests are written without waiting for responses, so one read may
   return the end of one response and all or part of the next, which is thrown away
   although the declaration says `(Must persist between reads)` (line 35). Run
   `http_response_skipped`: responses 1 and 3 are delivered, 2 is lost without an
   error. If only part of a response is thrown away, the parser fails on the rest
   (`BadResponse`) and the session reports an error.
2. `TradeService.hpp:739`. `send_heartbeat()` uses `id_++` where the other senders use
   `++id_`, so the ping of the first `RunOnce()` has the id of the authentication and
   its reply is logged as `auth accepted` (line 543) and triggers a subscription. Run
   `trade_auth_id`.
3. `WFMPMC.h:64`. The comment at line 39 says `must not init init_state in
   constructor`. Built as C++20, as `exchange_phemex` is (`CMakeLists.txt:34`), the
   constructor runs `std::atomic`'s default constructor for `init_state` and so stores
   0: a process that maps the file during the construction constructs the ring again,
   under those who use it by then. Run `shm_cxx20`. Under C++17 (`exchange_core`) the
   comment holds and run `shm` passes.
4. `MarketDataService.hpp:219`. `d[1].GetString() == "Sell"` compares two pointers, so
   the listeners get every trade as a buy; `TradeService.hpp:601` makes a `std::string`
   before it compares. Run `md_trade_side`.

## 6. Not modelled

| Part | Why |
|---|---|
| conversions and JSON layout in `TradeService`, signatures | data, not control; no property is about them |
| use of a dead process's tid by a new one | the code cannot tell the two apart, so there is nothing to check; the model assumes it away |
| `message.h` | layouts and constructors that set a tag and a size; nothing reads them (`BalanceReportMessage` sets the size of another message, line 262) |
| `exchange-core.h`, `exchange-phemex.h` | interfaces, formatting, clocks, a factory, a parameter map and a file of instruments read once: sequential code without state that others change |
| memory orders weaker than interleaving | see `WFMPMC` and `WFSPSC`: data is handed over by release and acquire, or by sequentially consistent indices; nothing is claimed of callers that rely on the relaxed `size()` and `empty()`. `RecentReadsWhole` relates the words a `WFSPMC` reader copied to `write_idx` at the end of the copy, so for a reader that loads `write_idx` itself it needs loads in program order, as on x86 |
| `test/` | drivers that need the live exchange |

## 7. Plan

Every invariant that a passing run checks is also proved. What may follow: properties
for the hazards that have none (a market data service that does not connect again, an
update before a snapshot, a side without levels, prices beyond 32 bits), once the
repository says what should happen there.
