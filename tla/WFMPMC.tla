------------------------------- MODULE WFMPMC -------------------------------
(***************************************************************************)
(* exchange_core::WFMPMC<T, SIZE, THR_SIZE>: the multi-producer            *)
(* multi-consumer ring buffer of WFMPMC.h.                                 *)
(*                                                                         *)
(* A writer draws a ticket idx by fetch_add on write_idx and may touch     *)
(* block idx % SIZE once the block's stat word equals idx; it publishes by *)
(* storing ~idx.  A reader draws a ticket from read_idx, waits for ~idx,   *)
(* and frees the block for the next lap by storing idx + SIZE.  The try    *)
(* calls keep a ticket they could not use in a per-thread record found by  *)
(* open addressing in tids[], and use it in the next try call.             *)
(*                                                                         *)
(* Every atomic access to shared memory is a step of its own.  stat words  *)
(* are stored with release and loaded with acquire order, so what a thread *)
(* did to the block before its store is visible to the thread that loads   *)
(* the stored value: interleaving steps is enough.                         *)
(***************************************************************************)
EXTENDS Integers

CONSTANTS SIZE,      \* number of blocks
          THR_SIZE,  \* number of entries of the thread table
          Threads,   \* thread ids, as gettid returns them
          Values,    \* the values of T that are pushed
          Raw,       \* contents of a block that holds no constructed T
          MaxIdx     \* bound: no call starts that would draw a ticket >= MaxIdx

ASSUME SizeAssumption == SIZE \in Nat \ {0}
ASSUME ThrSizeAssumption == THR_SIZE \in Nat \ {0}
ASSUME ThreadsAssumption == Threads \subseteq Nat \ {0}
ASSUME RawAssumption == Raw \notin Values

Blocks == 0..(SIZE - 1)
Slots == 0..(THR_SIZE - 1)

VARIABLES
  write_idx, read_idx,   \* the two ticket counters
  stat, data,            \* per block: its stat word, its contents
  tids,                  \* thread table: 0 or the id of the owner of the entry
  thr_write, thr_read,   \* per entry: the ticket kept between try calls, or -1
  pc, op, arg,           \* per thread: control point, call in progress, value to push
  cur, cnt,              \* per thread: probe position, probes left
  loc_idx,               \* per thread: the local idx of emplace() and pop(), or -1
  pushed, popped         \* history: ticket -> value constructed / moved out

ringvars == <<write_idx, read_idx, stat, data>>
tblvars == <<tids, thr_write, thr_read>>
thrvars == <<pc, op, arg, cur, cnt, loc_idx>>
histvars == <<pushed, popped>>
vars == <<ringvars, tblvars, thrvars, histvars>>

Spec_TQ == INSTANCE TicketQueue

Ops == {"emplace", "tryPush", "pop", "tryPop"}
WritePoints == {"getWriteIdx", "getWritable", "construct", "commitWrite"}
ReadPoints == {"getReadIdx", "getReadable", "moveOut", "commitRead"}
ProbePoints == {"getThrIdx", "claim"}
Points == {"idle"} \cup ProbePoints \cup WritePoints \cup ReadPoints

\* C++ operator ~ on a two's complement int64_t.
Not(i) == -i - 1

Blk(idx) == idx % SIZE

\* The ticket the call in progress works with: a local variable of emplace()
\* and pop(), a reference into the thread's table entry in the try calls.
WIdx(t) == IF op[t] = "tryPush" THEN thr_write[cur[t]] ELSE loc_idx[t]
RIdx(t) == IF op[t] = "tryPop" THEN thr_read[cur[t]] ELSE loc_idx[t]

-----------------------------------------------------------------------------
(* Construction: the constructor run on a fresh object. *)

Init ==
  /\ write_idx = 0
  /\ read_idx = 0
  /\ stat = [b \in Blocks |-> b]
  /\ data = [b \in Blocks |-> Raw]
  /\ tids = [s \in Slots |-> 0]
  /\ thr_write = [s \in Slots |-> -1]
  /\ thr_read = [s \in Slots |-> -1]
  /\ pc = [t \in Threads |-> "idle"]
  /\ op = [t \in Threads |-> "pop"]
  /\ arg = [t \in Threads |-> Raw]
  /\ cur = [t \in Threads |-> 0]
  /\ cnt = [t \in Threads |-> 0]
  /\ loc_idx = [t \in Threads |-> -1]
  /\ pushed = Spec_TQ!EmptyFcn
  /\ popped = Spec_TQ!EmptyFcn

-----------------------------------------------------------------------------
(* Calls. *)

\* Thread t keeps a ticket from an earlier try call that returned false.
KeepsTicket(t, kept) == \E s \in Slots : tids[s] = t /\ kept[s] >= 0

Emplace(t, v) ==
  /\ pc[t] = "idle"
  /\ write_idx < MaxIdx
  /\ pc' = [pc EXCEPT ![t] = "getWriteIdx"]
  /\ op' = [op EXCEPT ![t] = "emplace"]
  /\ arg' = [arg EXCEPT ![t] = v]
  /\ UNCHANGED <<ringvars, tblvars, histvars, cur, cnt, loc_idx>>

Pop(t) ==
  /\ pc[t] = "idle"
  /\ read_idx < MaxIdx
  /\ pc' = [pc EXCEPT ![t] = "getReadIdx"]
  /\ op' = [op EXCEPT ![t] = "pop"]
  /\ UNCHANGED <<ringvars, tblvars, histvars, arg, cur, cnt, loc_idx>>

\* Mutant: the probe loop runs one time too few.
Mut_StartProbeShort(t) ==
  /\ pc' = [pc EXCEPT ![t] = "getThrIdx"]
  /\ cur' = [cur EXCEPT ![t] = t % THR_SIZE]
  /\ cnt' = [cnt EXCEPT ![t] = THR_SIZE - 1]

\* The first lines of getThrIdx(): start probing at the thread's hash.
StartProbe(t) ==
  /\ pc' = [pc EXCEPT ![t] = "getThrIdx"]
  /\ cur' = [cur EXCEPT ![t] = t % THR_SIZE]
  /\ cnt' = [cnt EXCEPT ![t] = THR_SIZE]

TryPush(t, v) ==
  /\ pc[t] = "idle"
  /\ write_idx < MaxIdx \/ KeepsTicket(t, thr_write)
  /\ StartProbe(t)
  /\ op' = [op EXCEPT ![t] = "tryPush"]
  /\ arg' = [arg EXCEPT ![t] = v]
  /\ UNCHANGED <<ringvars, tblvars, histvars, loc_idx>>

TryPop(t) ==
  /\ pc[t] = "idle"
  /\ read_idx < MaxIdx \/ KeepsTicket(t, thr_read)
  /\ StartProbe(t)
  /\ op' = [op EXCEPT ![t] = "tryPop"]
  /\ UNCHANGED <<ringvars, tblvars, histvars, arg, loc_idx>>

-----------------------------------------------------------------------------
(* getThrIdx(): find or claim the calling thread's table entry. *)

SlotFound(t) ==
  pc' = [pc EXCEPT ![t] = IF op[t] = "tryPush" THEN "getWriteIdx" ELSE "getReadIdx"]

\* Mutant: the probe position does not wrap around.
Mut_NextProbeNoWrap(t) ==
  /\ cur' = [cur EXCEPT ![t] = cur[t] + 1]
  /\ cnt' = [cnt EXCEPT ![t] = cnt[t] - 1]
  /\ pc' = [pc EXCEPT ![t] = "getThrIdx"]

NextProbe(t) ==
  /\ cur' = [cur EXCEPT ![t] = (cur[t] + 1) % THR_SIZE]
  /\ cnt' = [cnt EXCEPT ![t] = cnt[t] - 1]
  /\ pc' = [pc EXCEPT ![t] = "getThrIdx"]

\* The relaxed load of tids[cur] and what follows from its value.
Probe(t) ==
  /\ pc[t] = "getThrIdx"
  /\ cnt[t] > 0
  /\ \/ tids[cur[t]] = t /\ SlotFound(t) /\ UNCHANGED <<cur, cnt>>
     \/ /\ tids[cur[t]] = 0
        /\ pc' = [pc EXCEPT ![t] = "claim"]
        /\ UNCHANGED <<cur, cnt>>
     \/ tids[cur[t]] \notin {0, t} /\ NextProbe(t)
  /\ UNCHANGED <<ringvars, tblvars, histvars, op, arg, loc_idx>>

\* Mutant: the exchange does not compare.
Mut_ClaimBlindly(t) ==
  /\ pc[t] = "claim"
  /\ tids' = [tids EXCEPT ![cur[t]] = t]
  /\ SlotFound(t)
  /\ UNCHANGED <<ringvars, thr_write, thr_read, histvars, op, arg, cur, cnt, loc_idx>>

\* compare_exchange_strong(null_tid, WFMPMC_tid) on an entry seen free.
Claim(t) ==
  /\ pc[t] = "claim"
  /\ \/ /\ tids[cur[t]] = 0
        /\ tids' = [tids EXCEPT ![cur[t]] = t]
        /\ SlotFound(t)
        /\ UNCHANGED <<cur, cnt>>
     \/ /\ tids[cur[t]] # 0
        /\ NextProbe(t)
        /\ UNCHANGED tids
  /\ UNCHANGED <<ringvars, thr_write, thr_read, histvars, op, arg, loc_idx>>

\* All THR_SIZE entries belong to other threads: nullptr, the call returns false.
TableFull(t) ==
  /\ pc[t] = "getThrIdx"
  /\ cnt[t] = 0
  /\ pc' = [pc EXCEPT ![t] = "idle"]
  /\ UNCHANGED <<ringvars, tblvars, histvars, op, arg, cur, cnt, loc_idx>>

-----------------------------------------------------------------------------
(* Writing. *)

\* getWriteIdx(), skipped by a try call that kept a ticket.
GetWriteIdx(t) ==
  /\ pc[t] = "getWriteIdx"
  /\ pc' = [pc EXCEPT ![t] = "getWritable"]
  /\ \/ /\ op[t] = "emplace"
        /\ loc_idx' = [loc_idx EXCEPT ![t] = write_idx]
        /\ write_idx' = write_idx + 1
        /\ UNCHANGED thr_write
     \/ /\ op[t] = "tryPush"
        /\ thr_write[cur[t]] < 0
        /\ thr_write' = [thr_write EXCEPT ![cur[t]] = write_idx]
        /\ write_idx' = write_idx + 1
        /\ UNCHANGED loc_idx
     \/ /\ op[t] = "tryPush"
        /\ thr_write[cur[t]] >= 0
        /\ UNCHANGED <<thr_write, write_idx, loc_idx>>
  /\ UNCHANGED <<read_idx, stat, data, tids, thr_read, histvars, op, arg, cur, cnt>>

\* Mutant: the block is taken to be writable as soon as its last value is popped
\* or was never written, whatever the lap.
Mut_GetWritableAnyLap(t) ==
  /\ pc[t] = "getWritable"
  /\ \/ stat[Blk(WIdx(t))] >= 0 /\ pc' = [pc EXCEPT ![t] = "construct"]
     \/ /\ op[t] = "tryPush"
        /\ stat[Blk(WIdx(t))] < 0
        /\ pc' = [pc EXCEPT ![t] = "idle"]
  /\ UNCHANGED <<ringvars, tblvars, histvars, op, arg, cur, cnt, loc_idx>>

\* getWritable(idx): the acquire load of stat.  emplace() spins until the block
\* is writable; tryVisitPush() returns false and leaves the ticket in its entry.
GetWritable(t) ==
  /\ pc[t] = "getWritable"
  /\ \/ stat[Blk(WIdx(t))] = WIdx(t) /\ pc' = [pc EXCEPT ![t] = "construct"]
     \/ /\ op[t] = "tryPush"
        /\ stat[Blk(WIdx(t))] # WIdx(t)
        /\ pc' = [pc EXCEPT ![t] = "idle"]
  /\ UNCHANGED <<ringvars, tblvars, histvars, op, arg, cur, cnt, loc_idx>>

\* new (data) T(...), or the visitor of tryVisitPush() that does the same.
Construct(t) ==
  /\ pc[t] = "construct"
  /\ data' = [data EXCEPT ![Blk(WIdx(t))] = arg[t]]
  /\ pushed' = Spec_TQ!Put(pushed, WIdx(t), arg[t])
  /\ pc' = [pc EXCEPT ![t] = "commitWrite"]
  /\ UNCHANGED <<write_idx, read_idx, stat, tblvars, popped, op, arg, cur, cnt, loc_idx>>

\* The ticket is used up: idx = -1 in a try call, end of scope otherwise.
DropWriteTicket(t) ==
  IF op[t] = "tryPush"
    THEN thr_write' = [thr_write EXCEPT ![cur[t]] = -1] /\ UNCHANGED loc_idx
    ELSE loc_idx' = [loc_idx EXCEPT ![t] = -1] /\ UNCHANGED thr_write

CommitWrite(t) ==
  /\ pc[t] = "commitWrite"
  /\ stat' = [stat EXCEPT ![Blk(WIdx(t))] = Not(WIdx(t))]
  /\ DropWriteTicket(t)
  /\ pc' = [pc EXCEPT ![t] = "idle"]
  /\ UNCHANGED <<write_idx, read_idx, data, tids, thr_read, histvars, op, arg, cur, cnt>>

-----------------------------------------------------------------------------
(* Reading. *)

GetReadIdx(t) ==
  /\ pc[t] = "getReadIdx"
  /\ pc' = [pc EXCEPT ![t] = "getReadable"]
  /\ \/ /\ op[t] = "pop"
        /\ loc_idx' = [loc_idx EXCEPT ![t] = read_idx]
        /\ read_idx' = read_idx + 1
        /\ UNCHANGED thr_read
     \/ /\ op[t] = "tryPop"
        /\ thr_read[cur[t]] < 0
        /\ thr_read' = [thr_read EXCEPT ![cur[t]] = read_idx]
        /\ read_idx' = read_idx + 1
        /\ UNCHANGED loc_idx
     \/ /\ op[t] = "tryPop"
        /\ thr_read[cur[t]] >= 0
        /\ UNCHANGED <<thr_read, read_idx, loc_idx>>
  /\ UNCHANGED <<write_idx, stat, data, tids, thr_write, histvars, op, arg, cur, cnt>>

\* Mutant: any published value will do, whatever its ticket.
Mut_GetReadableAnyTicket(t) ==
  /\ pc[t] = "getReadable"
  /\ \/ stat[Blk(RIdx(t))] < 0 /\ pc' = [pc EXCEPT ![t] = "moveOut"]
     \/ /\ op[t] = "tryPop"
        /\ stat[Blk(RIdx(t))] >= 0
        /\ pc' = [pc EXCEPT ![t] = "idle"]
  /\ UNCHANGED <<ringvars, tblvars, histvars, op, arg, cur, cnt, loc_idx>>

GetReadable(t) ==
  /\ pc[t] = "getReadable"
  /\ \/ stat[Blk(RIdx(t))] = Not(RIdx(t)) /\ pc' = [pc EXCEPT ![t] = "moveOut"]
     \/ /\ op[t] = "tryPop"
        /\ stat[Blk(RIdx(t))] # Not(RIdx(t))
        /\ pc' = [pc EXCEPT ![t] = "idle"]
  /\ UNCHANGED <<ringvars, tblvars, histvars, op, arg, cur, cnt, loc_idx>>

\* T ret = std::move(*data), or the visitor of tryVisitPop().
MoveOut(t) ==
  /\ pc[t] = "moveOut"
  /\ popped' = Spec_TQ!Put(popped, RIdx(t), data[Blk(RIdx(t))])
  /\ pc' = [pc EXCEPT ![t] = "commitRead"]
  /\ UNCHANGED <<ringvars, tblvars, pushed, op, arg, cur, cnt, loc_idx>>

DropReadTicket(t) ==
  IF op[t] = "tryPop"
    THEN thr_read' = [thr_read EXCEPT ![cur[t]] = -1] /\ UNCHANGED loc_idx
    ELSE loc_idx' = [loc_idx EXCEPT ![t] = -1] /\ UNCHANGED thr_read

\* Mutant: the moved-from object is not destroyed.
Mut_CommitReadNoDestroy(t) ==
  /\ pc[t] = "commitRead"
  /\ stat' = [stat EXCEPT ![Blk(RIdx(t))] = RIdx(t) + SIZE]
  /\ DropReadTicket(t)
  /\ pc' = [pc EXCEPT ![t] = "idle"]
  /\ UNCHANGED <<write_idx, read_idx, data, tids, thr_write, histvars, op, arg, cur, cnt>>

\* Mutant: the block is freed for the ticket just read instead of the next lap.
Mut_CommitReadSameLap(t) ==
  /\ pc[t] = "commitRead"
  /\ data' = [data EXCEPT ![Blk(RIdx(t))] = Raw]
  /\ stat' = [stat EXCEPT ![Blk(RIdx(t))] = RIdx(t)]
  /\ DropReadTicket(t)
  /\ pc' = [pc EXCEPT ![t] = "idle"]
  /\ UNCHANGED <<write_idx, read_idx, tids, thr_write, histvars, op, arg, cur, cnt>>

\* commitRead(idx): destroy the object, then free the block for ticket idx + SIZE.
CommitRead(t) ==
  /\ pc[t] = "commitRead"
  /\ data' = [data EXCEPT ![Blk(RIdx(t))] = Raw]
  /\ stat' = [stat EXCEPT ![Blk(RIdx(t))] = RIdx(t) + SIZE]
  /\ DropReadTicket(t)
  /\ pc' = [pc EXCEPT ![t] = "idle"]
  /\ UNCHANGED <<write_idx, read_idx, tids, thr_write, histvars, op, arg, cur, cnt>>

\* ~WFMPMC() destroys the objects of the blocks in this set.
DestroyedByDestructor == {b \in Blocks : stat[b] < 0}

-----------------------------------------------------------------------------
Call(t) ==
  \/ \E v \in Values : Emplace(t, v) \/ TryPush(t, v)
  \/ Pop(t)
  \/ TryPop(t)

Step(t) ==
  \/ Probe(t) \/ Claim(t) \/ TableFull(t)
  \/ GetWriteIdx(t) \/ GetWritable(t) \/ Construct(t) \/ CommitWrite(t)
  \/ GetReadIdx(t) \/ GetReadable(t) \/ MoveOut(t) \/ CommitRead(t)

Next == \E t \in Threads : Call(t) \/ Step(t)

Spec == Init /\ [][Next]_vars

-----------------------------------------------------------------------------
(* Properties. *)

TypeOK ==
  /\ write_idx \in Nat /\ read_idx \in Nat
  /\ stat \in [Blocks -> Int] /\ data \in [Blocks -> Values \cup {Raw}]
  /\ tids \in [Slots -> Threads \cup {0}]
  /\ thr_write \in [Slots -> Int] /\ thr_read \in [Slots -> Int]
  /\ pc \in [Threads -> Points] /\ op \in [Threads -> Ops]
  /\ arg \in [Threads -> Values \cup {Raw}]
  /\ cur \in [Threads -> Slots] /\ cnt \in [Threads -> 0..THR_SIZE]
  /\ loc_idx \in [Threads -> Int]
  /\ DOMAIN pushed \subseteq Nat /\ DOMAIN popped \subseteq Nat

\* The block thread t is constructing in, moving out of or destroying in.
Writing(t) == pc[t] \in {"construct", "commitWrite"}
Reading(t) == pc[t] \in {"moveOut", "commitRead"}
Touched(t) == IF Writing(t) THEN Blk(WIdx(t)) ELSE Blk(RIdx(t))

\* No two threads ever touch the same block at the same time: between the
\* successful getWritable()/getReadable() and the commit a thread has the block
\* to itself, although no lock is taken.
NoDataRace ==
  \A t, u \in Threads :
    /\ t # u
    /\ Writing(t) \/ Reading(t)
    /\ Writing(u) \/ Reading(u)
    => Touched(t) # Touched(u)

\* The pointer getWritable() returns points to an unconstructed object, as its
\* comment says: no object is overwritten without having been destroyed.
WritableIsRaw ==
  \A t \in Threads : pc[t] = "construct" => data[Blk(WIdx(t))] = Raw

\* With no call in progress the destructor destroys every object still in the
\* queue and no block that holds none.
DestructorExact ==
  (\A t \in Threads : pc[t] = "idle")
    => DestroyedByDestructor = {b \in Blocks : data[b] # Raw}

\* Write (read) tickets that were drawn and not used yet, by who holds them.
HeldWrite == {<<"local", t>> : t \in {t \in Threads : op[t] = "emplace" /\ loc_idx[t] >= 0}}
               \cup {<<"entry", s>> : s \in {s \in Slots : thr_write[s] >= 0}}
HeldRead == {<<"local", t>> : t \in {t \in Threads : op[t] = "pop" /\ loc_idx[t] >= 0}}
               \cup {<<"entry", s>> : s \in {s \in Slots : thr_read[s] >= 0}}
TicketOf(h, kept) == IF h[1] = "local" THEN loc_idx[h[2]] ELSE kept[h[2]]

\* No ticket is lost or handed out twice: a ticket that was drawn is either used
\* or held by exactly one holder.  A lost write ticket would stop the reader of
\* that ticket, and every later lap of the block, for good.
NoTicketLost ==
  /\ \A n \in 0..(write_idx - 1) :
       n \in DOMAIN pushed \/ \E h \in HeldWrite : TicketOf(h, thr_write) = n
  /\ \A n \in 0..(read_idx - 1) :
       n \in DOMAIN popped \/ \E h \in HeldRead : TicketOf(h, thr_read) = n
  /\ \A h, g \in HeldWrite :
       TicketOf(h, thr_write) = TicketOf(g, thr_write) => h = g
  /\ \A h, g \in HeldRead :
       TicketOf(h, thr_read) = TicketOf(g, thr_read) => h = g

\* Nobody waits in a circle: a writer finds its block taken only as long as the element of
\* one lap before has not been popped, a reader only as long as the element of its ticket
\* has not been pushed, and that is the work of a holder of the earlier ticket or of
\* whoever draws it.  A block whose stat word nobody will change any more stops nobody.
WaitsForPartner ==
  \A t \in Threads :
    /\ pc[t] = "getWritable" /\ stat[Blk(WIdx(t))] # WIdx(t)
         => /\ WIdx(t) >= SIZE
            /\ \/ WIdx(t) - SIZE >= read_idx
               \/ \E h \in HeldRead : TicketOf(h, thr_read) = WIdx(t) - SIZE
    /\ pc[t] = "getReadable" /\ stat[Blk(RIdx(t))] # Not(RIdx(t))
         => \/ RIdx(t) >= write_idx
            \/ \E h \in HeldWrite : TicketOf(h, thr_write) = RIdx(t)

\* A thread never owns two entries of the table (it would forget the ticket kept
\* in the other one), and a thread past getThrIdx() works on its own entry.
OneEntryPerThread ==
  /\ \A s, r \in Slots : tids[s] = tids[r] /\ tids[s] # 0 => s = r
  /\ \A t \in Threads :
       /\ op[t] \in {"tryPush", "tryPop"}
       /\ pc[t] \in WritePoints \cup ReadPoints
       => tids[cur[t]] = t

\* "THR_SIZE must not be less than the max number of threads using
\* tryPush/tryPop": with at least as many entries as threads getThrIdx() never
\* returns nullptr, whatever the order in which threads claim entries.
NeverTurnedAway ==
  \A t \in Threads : pc[t] = "getThrIdx" => cnt[t] > 0

\* "Bad: this thread will return nullptr forever": getThrIdx() gives up only when
\* every entry belongs to another thread, never because the entry it was about to
\* claim was taken between its load and its compare-and-exchange.
TurnedAwayOnlyWhenFull ==
  \A t \in Threads :
    pc[t] = "getThrIdx" /\ cnt[t] = 0 => \A s \in Slots : tids[s] \notin {0, t}

\* The ring of blocks, stat words and kept tickets implements the ticket FIFO.
ImplementsTicketQueue == Spec_TQ!TQSpec

\* Somewhere at or before ticket n a partner is missing: a ticket nobody drew, or
\* one that sits in a table entry until its thread makes another try call.
PartnerMissing(n) ==
  \E m \in 0..n :
    \/ m >= write_idx
    \/ \E s \in Slots : thr_write[s] = m
    \/ m < n /\ m >= read_idx
    \/ m < n /\ \E s \in Slots : thr_read[s] = m

-----------------------------------------------------------------------------
(* The inductive invariant behind NoDataRace, WritableIsRaw and               *)
(* ImplementsTicketQueue.                                                     *)

HoldsWrite(t) == pc[t] \in {"getWritable", "construct", "commitWrite"}
HoldsRead(t) == pc[t] \in {"getReadable", "moveOut", "commitRead"}

\* Control points and the call they belong to; which thread has a local ticket.
InvControl ==
  \A t \in Threads :
    /\ op[t] \in {"emplace", "tryPush"} => arg[t] \in Values
    /\ pc[t] \in ProbePoints => op[t] \in {"tryPush", "tryPop"}
    /\ pc[t] = "claim" => cnt[t] > 0
    /\ pc[t] \in WritePoints => op[t] \in {"emplace", "tryPush"}
    /\ pc[t] \in ReadPoints => op[t] \in {"pop", "tryPop"}
    /\ loc_idx[t] >= -1
    /\ loc_idx[t] >= 0 <=> \/ HoldsWrite(t) /\ op[t] = "emplace"
                           \/ HoldsRead(t) /\ op[t] = "pop"
    /\ HoldsWrite(t) /\ op[t] = "emplace" => loc_idx[t] < write_idx
    /\ HoldsRead(t) /\ op[t] = "pop" => loc_idx[t] < read_idx

\* A try call past getThrIdx() works on its own entry, which holds its ticket.
InvEntry ==
  \A t \in Threads :
    /\ op[t] = "tryPush" /\ pc[t] \in WritePoints => tids[cur[t]] = t
    /\ op[t] = "tryPop" /\ pc[t] \in ReadPoints => tids[cur[t]] = t
    /\ op[t] = "tryPush" /\ HoldsWrite(t) => thr_write[cur[t]] >= 0
    /\ op[t] = "tryPop" /\ HoldsRead(t) => thr_read[cur[t]] >= 0

\* Kept tickets were drawn; no two holders have the same ticket.
InvWriteTickets ==
  /\ \A s \in Slots : thr_write[s] >= -1 /\ thr_write[s] < write_idx
  /\ \A s, r \in Slots : thr_write[s] = thr_write[r] /\ thr_write[s] >= 0 => s = r
  /\ \A t \in Threads, s \in Slots :
       HoldsWrite(t) /\ op[t] = "emplace" => loc_idx[t] # thr_write[s]
  /\ \A t, u \in Threads :
       /\ HoldsWrite(t) /\ op[t] = "emplace"
       /\ HoldsWrite(u) /\ op[u] = "emplace"
       /\ loc_idx[t] = loc_idx[u]
       => t = u

InvReadTickets ==
  /\ \A s \in Slots : thr_read[s] >= -1 /\ thr_read[s] < read_idx
  /\ \A s, r \in Slots : thr_read[s] = thr_read[r] /\ thr_read[s] >= 0 => s = r
  /\ \A t \in Threads, s \in Slots :
       HoldsRead(t) /\ op[t] = "pop" => loc_idx[t] # thr_read[s]
  /\ \A t, u \in Threads :
       /\ HoldsRead(t) /\ op[t] = "pop"
       /\ HoldsRead(u) /\ op[u] = "pop"
       /\ loc_idx[t] = loc_idx[u]
       => t = u

\* While a thread touches a block, the block's stat word names its ticket.
InvAccess ==
  \A t \in Threads :
    /\ Writing(t) => stat[Blk(WIdx(t))] = WIdx(t)
    /\ Reading(t) => stat[Blk(RIdx(t))] = Not(RIdx(t))

\* What a stat word says of its block: a published value is the one pushed under
\* its ticket; a writable block is raw until its writer constructs in it, and the
\* value of one lap before has been popped.
InvBlocks ==
  \A b \in Blocks :
    /\ stat[b] < 0 => /\ Not(stat[b]) \in DOMAIN pushed
                      /\ data[b] = pushed[Not(stat[b])]
    /\ stat[b] >= 0 => \/ data[b] = Raw
                       \/ \E t \in Threads : pc[t] = "commitWrite" /\ Blk(WIdx(t)) = b
    /\ stat[b] >= SIZE => stat[b] - SIZE \in DOMAIN popped

\* The history agrees with the tickets: a ticket is used between construct and
\* commitWrite, not before.
InvHistory ==
  /\ \A n \in DOMAIN pushed : n \in Nat /\ n < write_idx
  /\ \A n \in DOMAIN popped : n \in Nat /\ n < read_idx
  /\ \A t \in Threads :
       /\ pc[t] \in {"getWritable", "construct"} => WIdx(t) \notin DOMAIN pushed
       /\ pc[t] = "commitWrite" => /\ WIdx(t) \in DOMAIN pushed
                                   /\ data[Blk(WIdx(t))] = pushed[WIdx(t)]
       /\ pc[t] \in {"getReadable", "moveOut"} => RIdx(t) \notin DOMAIN popped
       /\ pc[t] = "commitRead" => RIdx(t) \in DOMAIN popped
  /\ \A s \in Slots :
       /\ thr_write[s] \in DOMAIN pushed
            => \E t \in Threads : /\ tids[s] = t /\ cur[t] = s
                                  /\ op[t] = "tryPush" /\ pc[t] = "commitWrite"
       /\ thr_read[s] \in DOMAIN popped
            => \E t \in Threads : /\ tids[s] = t /\ cur[t] = s
                                  /\ op[t] = "tryPop" /\ pc[t] = "commitRead"

IndInv ==
  /\ TypeOK
  /\ InvControl
  /\ InvEntry
  /\ InvWriteTickets
  /\ InvReadTickets
  /\ InvAccess
  /\ InvBlocks
  /\ InvHistory

-----------------------------------------------------------------------------
(* What the remaining invariants need on top of IndInv.                       *)

\* The number of entries getThrIdx() looks at before it comes to entry s.
ProbesTo(t, s) ==
  LET first == t % THR_SIZE
  IN  IF s >= first THEN s - first ELSE s + THR_SIZE - first

\* Open addressing: the entries a thread has passed in its probe, and the entries on
\* the way to one it owns, belong to other threads and stay theirs.
InvProbe ==
  \A t \in Threads :
    /\ pc[t] \in ProbePoints
         => /\ cnt[t] > 0 => ProbesTo(t, cur[t]) = THR_SIZE - cnt[t]
            /\ \A s \in Slots : ProbesTo(t, s) < THR_SIZE - cnt[t] => tids[s] \notin {0, t}
    /\ pc[t] = "claim" => tids[cur[t]] # t
    /\ \A s, r \in Slots :
         tids[s] = t /\ ProbesTo(t, r) < ProbesTo(t, s) => tids[r] \notin {0, t}

\* A ticket that was drawn is used, in a local variable or in an entry.
InvTickets ==
  /\ \A n \in 0..(write_idx - 1) :
       \/ n \in DOMAIN pushed
       \/ \E t \in Threads : op[t] = "emplace" /\ loc_idx[t] = n
       \/ \E s \in Slots : thr_write[s] = n
  /\ \A n \in 0..(read_idx - 1) :
       \/ n \in DOMAIN popped
       \/ \E t \in Threads : op[t] = "pop" /\ loc_idx[t] = n
       \/ \E s \in Slots : thr_read[s] = n

\* The block of ticket n is free for the next lap, or in use in it or in a later one.
Freed(n) == stat[Blk(n)] >= n + SIZE \/ Not(stat[Blk(n)]) >= n + SIZE

\* The laps of a block: its stat word names one of its own tickets, no store to it is
\* undone, and an element is pushed only after those of all earlier laps were popped.
InvLaps ==
  /\ \A b \in Blocks : Blk(IF stat[b] >= 0 THEN stat[b] ELSE Not(stat[b])) = b
  /\ \A n \in DOMAIN pushed :
       \/ stat[Blk(n)] = Not(n) \/ Freed(n)
       \/ \E t \in Threads : pc[t] = "commitWrite" /\ WIdx(t) = n
  /\ \A n \in DOMAIN popped :
       /\ n \in DOMAIN pushed
       /\ Freed(n) \/ \E t \in Threads : pc[t] = "commitRead" /\ RIdx(t) = n
  /\ \A n \in DOMAIN pushed : \A m \in 0..(n - 1) :
       Blk(m) = Blk(n) => m \in DOMAIN popped

\* What was pushed is a T, never the contents of raw memory.
InvValues == \A n \in DOMAIN pushed : pushed[n] \in Values
=============================================================================
