---------------------------- MODULE WFMPMCProofs ----------------------------
(***************************************************************************)
(* TLAPS proofs about WFMPMC, for every SIZE, THR_SIZE, set of threads and *)
(* set of values.                                                          *)
(***************************************************************************)
EXTENDS WFMPMC, TLAPS, FiniteSetTheorems

\* idx % SIZE is a block: the array accesses blks[idx % SIZE] are in bounds.
LEMMA BlkInBlocks == \A i \in Nat : Blk(i) \in Blocks
  BY SizeAssumption DEF Blk, Blocks

\* cur = tid % THR_SIZE and cur = (cur + 1) % THR_SIZE are table entries.
LEMMA ModInSlots == \A i \in Nat : i % THR_SIZE \in Slots
  BY ThrSizeAssumption DEF Slots

\* ~ maps tickets to negative numbers and is injective.
LEMMA NotFacts ==
  \A i, j \in Int : /\ Not(i) \in Int
                    /\ Not(Not(i)) = i
                    /\ Not(i) = Not(j) => i = j
                    /\ i >= 0 => Not(i) < 0
                    /\ i < 0 => Not(i) >= 0
  BY DEF Not

-----------------------------------------------------------------------------
(* Tickets and blocks. *)

\* The ticket of a thread that holds one: it was drawn, and it is nobody else's.
LEMMA WriteTicket ==
  ASSUME IndInv, NEW t \in Threads, HoldsWrite(t)
  PROVE  /\ WIdx(t) \in Nat
         /\ WIdx(t) < write_idx
         /\ Blk(WIdx(t)) \in Blocks
         /\ \A u \in Threads : HoldsWrite(u) /\ WIdx(u) = WIdx(t) => u = t
<1>1. op[t] \in {"emplace", "tryPush"}
  BY DEF IndInv, InvControl, HoldsWrite, WritePoints
<1>2. WIdx(t) \in Nat /\ WIdx(t) < write_idx
  BY <1>1 DEF IndInv, TypeOK, InvControl, InvEntry, InvWriteTickets, HoldsWrite, WIdx, Slots
<1>3. ASSUME NEW u \in Threads, HoldsWrite(u), WIdx(u) = WIdx(t)
      PROVE  u = t
  <2>1. op[u] \in {"emplace", "tryPush"}
    BY <1>3 DEF IndInv, InvControl, HoldsWrite, WritePoints
  <2>2. CASE op[t] = "emplace" /\ op[u] = "emplace"
    BY <1>3, <2>2 DEF IndInv, InvWriteTickets, WIdx
  <2>3. CASE op[t] = "emplace" /\ op[u] = "tryPush"
    BY <1>3, <2>3 DEF IndInv, TypeOK, InvWriteTickets, WIdx
  <2>4. CASE op[t] = "tryPush" /\ op[u] = "emplace"
    BY <1>3, <2>4 DEF IndInv, TypeOK, InvWriteTickets, WIdx
  <2>5. CASE op[t] = "tryPush" /\ op[u] = "tryPush"
    <3>1. cur[t] = cur[u]
      BY <1>2, <1>3, <2>5 DEF IndInv, TypeOK, InvWriteTickets, WIdx
    <3>2. tids[cur[t]] = t /\ tids[cur[u]] = u
      BY <1>3, <2>5 DEF IndInv, InvEntry, HoldsWrite, WritePoints
    <3>. QED BY <3>1, <3>2
  <2>. QED BY <1>1, <2>1, <2>2, <2>3, <2>4, <2>5
<1>. QED BY <1>2, <1>3, BlkInBlocks

\* The same of a read ticket.
LEMMA ReadTicket ==
  ASSUME IndInv, NEW t \in Threads, HoldsRead(t)
  PROVE  /\ RIdx(t) \in Nat
         /\ RIdx(t) < read_idx
         /\ Blk(RIdx(t)) \in Blocks
         /\ \A u \in Threads : HoldsRead(u) /\ RIdx(u) = RIdx(t) => u = t
<1>1. op[t] \in {"pop", "tryPop"}
  BY DEF IndInv, InvControl, HoldsRead, ReadPoints
<1>2. RIdx(t) \in Nat /\ RIdx(t) < read_idx
  BY <1>1 DEF IndInv, TypeOK, InvControl, InvEntry, InvReadTickets, HoldsRead, RIdx, Slots
<1>3. ASSUME NEW u \in Threads, HoldsRead(u), RIdx(u) = RIdx(t)
      PROVE  u = t
  <2>1. op[u] \in {"pop", "tryPop"}
    BY <1>3 DEF IndInv, InvControl, HoldsRead, ReadPoints
  <2>2. CASE op[t] = "pop" /\ op[u] = "pop"
    BY <1>3, <2>2 DEF IndInv, InvReadTickets, RIdx
  <2>3. CASE op[t] = "pop" /\ op[u] = "tryPop"
    BY <1>3, <2>3 DEF IndInv, TypeOK, InvReadTickets, RIdx
  <2>4. CASE op[t] = "tryPop" /\ op[u] = "pop"
    BY <1>3, <2>4 DEF IndInv, TypeOK, InvReadTickets, RIdx
  <2>5. CASE op[t] = "tryPop" /\ op[u] = "tryPop"
    <3>1. cur[t] = cur[u]
      BY <1>2, <1>3, <2>5 DEF IndInv, TypeOK, InvReadTickets, RIdx
    <3>2. tids[cur[t]] = t /\ tids[cur[u]] = u
      BY <1>3, <2>5 DEF IndInv, InvEntry, HoldsRead, ReadPoints
    <3>. QED BY <3>1, <3>2
  <2>. QED BY <1>1, <2>1, <2>2, <2>3, <2>4, <2>5
<1>. QED BY <1>2, <1>3, BlkInBlocks

\* Two threads never touch the same block: both would find their own ticket in
\* its stat word.
LEMMA RaceFreedom == IndInv => NoDataRace
<1> USE DEF HoldsWrite, HoldsRead, Writing, Reading
<1>1. SUFFICES ASSUME IndInv, NEW t \in Threads, NEW u \in Threads, t # u,
                      Writing(t) \/ Reading(t), Writing(u) \/ Reading(u),
                      Touched(t) = Touched(u)
               PROVE  FALSE
  BY DEF NoDataRace
<1>2. \A w \in Threads : Writing(w) => WIdx(w) \in Nat /\ stat[Touched(w)] = WIdx(w)
  BY <1>1, WriteTicket DEF IndInv, InvAccess, Touched
<1>3. \A w \in Threads : Reading(w) => RIdx(w) \in Nat /\ stat[Touched(w)] = Not(RIdx(w))
  BY <1>1, ReadTicket DEF IndInv, InvAccess, Touched
<1>4. CASE Writing(t) /\ Writing(u)
  BY <1>1, <1>2, <1>4, WriteTicket
<1>5. CASE Reading(t) /\ Reading(u)
  BY <1>1, <1>3, <1>5, ReadTicket, NotFacts
<1>6. CASE Writing(t) /\ Reading(u)
  BY <1>1, <1>2, <1>3, <1>6, NotFacts
<1>7. CASE Reading(t) /\ Writing(u)
  BY <1>1, <1>2, <1>3, <1>7, NotFacts
<1>. QED BY <1>1, <1>4, <1>5, <1>6, <1>7

-----------------------------------------------------------------------------
(* The invariant is preserved: one lemma per action. *)

\* emplace() enters: only the caller's control point, call and argument change.
LEMMA EmplaceStep ==
  ASSUME IndInv, NEW t \in Threads, NEW v \in Values, Emplace(t, v)
  PROVE  IndInv'
<1> USE DEF ringvars, tblvars, histvars, Points, ProbePoints, WritePoints, ReadPoints, HoldsWrite, HoldsRead
<1>0. \A u \in Threads : u # t
        => /\ pc'[u] = pc[u] /\ op'[u] = op[u] /\ cur'[u] = cur[u]
           /\ HoldsWrite(u) => WIdx(u)' = WIdx(u)
           /\ HoldsRead(u) => RIdx(u)' = RIdx(u)
  BY DEF IndInv, TypeOK, InvControl, InvEntry, WIdx, RIdx, Emplace
<1>1. TypeOK'
  BY ModInSlots, BlkInBlocks, ThreadsAssumption, ThrSizeAssumption DEF IndInv, TypeOK, Ops, Emplace
<1>2. InvControl'
  BY DEF IndInv, TypeOK, InvControl, Emplace
<1>3. InvEntry'
  BY DEF IndInv, TypeOK, InvControl, InvEntry, Emplace
<1>4. InvWriteTickets'
  BY DEF IndInv, TypeOK, InvControl, InvEntry, InvWriteTickets, Emplace
<1>5. InvReadTickets'
  BY DEF IndInv, TypeOK, InvControl, InvEntry, InvReadTickets, Emplace
<1>6. InvAccess'
  BY <1>0 DEF IndInv, TypeOK, InvAccess, Writing, Reading, Emplace
<1>7. InvBlocks'
  BY <1>0 DEF IndInv, TypeOK, InvBlocks, Emplace
<1>8. InvHistory'
  BY WriteTicket, ReadTicket, NotFacts DEF IndInv, TypeOK, InvControl, InvEntry, InvHistory, WIdx, RIdx, Emplace
<1>. QED BY <1>1, <1>2, <1>3, <1>4, <1>5, <1>6, <1>7, <1>8 DEF IndInv

\* pop() enters: only the caller's control point and call change.
LEMMA PopStep ==
  ASSUME IndInv, NEW t \in Threads, Pop(t)
  PROVE  IndInv'
<1> USE DEF ringvars, tblvars, histvars, Points, ProbePoints, WritePoints, ReadPoints, HoldsWrite, HoldsRead
<1>0. \A u \in Threads : u # t
        => /\ pc'[u] = pc[u] /\ op'[u] = op[u] /\ cur'[u] = cur[u]
           /\ HoldsWrite(u) => WIdx(u)' = WIdx(u)
           /\ HoldsRead(u) => RIdx(u)' = RIdx(u)
  BY DEF IndInv, TypeOK, InvControl, InvEntry, WIdx, RIdx, Pop
<1>1. TypeOK'
  BY ModInSlots, BlkInBlocks, ThreadsAssumption, ThrSizeAssumption DEF IndInv, TypeOK, Ops, Pop
<1>2. InvControl'
  BY DEF IndInv, TypeOK, InvControl, Pop
<1>3. InvEntry'
  BY DEF IndInv, TypeOK, InvControl, InvEntry, Pop
<1>4. InvWriteTickets'
  BY DEF IndInv, TypeOK, InvControl, InvEntry, InvWriteTickets, Pop
<1>5. InvReadTickets'
  BY DEF IndInv, TypeOK, InvControl, InvEntry, InvReadTickets, Pop
<1>6. InvAccess'
  BY <1>0 DEF IndInv, TypeOK, InvAccess, Writing, Reading, Pop
<1>7. InvBlocks'
  BY <1>0 DEF IndInv, TypeOK, InvBlocks, Pop
<1>8. InvHistory'
  BY WriteTicket, ReadTicket, NotFacts DEF IndInv, TypeOK, InvControl, InvEntry, InvHistory, WIdx, RIdx, Pop
<1>. QED BY <1>1, <1>2, <1>3, <1>4, <1>5, <1>6, <1>7, <1>8 DEF IndInv

\* tryPush()/tryVisitPush() enters and starts to probe the table.
LEMMA TryPushStep ==
  ASSUME IndInv, NEW t \in Threads, NEW v \in Values, TryPush(t, v)
  PROVE  IndInv'
<1> USE DEF ringvars, tblvars, histvars, Points, ProbePoints, WritePoints, ReadPoints, HoldsWrite, HoldsRead
<1>0. \A u \in Threads : u # t
        => /\ pc'[u] = pc[u] /\ op'[u] = op[u] /\ cur'[u] = cur[u]
           /\ HoldsWrite(u) => WIdx(u)' = WIdx(u)
           /\ HoldsRead(u) => RIdx(u)' = RIdx(u)
  BY DEF IndInv, TypeOK, InvControl, InvEntry, WIdx, RIdx, TryPush, StartProbe
<1>1. TypeOK'
  BY ModInSlots, BlkInBlocks, ThreadsAssumption, ThrSizeAssumption DEF IndInv, TypeOK, Ops, TryPush, StartProbe
<1>2. InvControl'
  BY DEF IndInv, TypeOK, InvControl, TryPush, StartProbe
<1>3. InvEntry'
  BY DEF IndInv, TypeOK, InvControl, InvEntry, TryPush, StartProbe
<1>4. InvWriteTickets'
  BY DEF IndInv, TypeOK, InvControl, InvEntry, InvWriteTickets, TryPush, StartProbe
<1>5. InvReadTickets'
  BY DEF IndInv, TypeOK, InvControl, InvEntry, InvReadTickets, TryPush, StartProbe
<1>6. InvAccess'
  BY <1>0 DEF IndInv, TypeOK, InvAccess, Writing, Reading, TryPush, StartProbe
<1>7. InvBlocks'
  BY <1>0 DEF IndInv, TypeOK, InvBlocks, TryPush, StartProbe
<1>8. InvHistory'
  BY WriteTicket, ReadTicket, NotFacts DEF IndInv, TypeOK, InvControl, InvEntry, InvHistory, WIdx, RIdx, TryPush, StartProbe
<1>. QED BY <1>1, <1>2, <1>3, <1>4, <1>5, <1>6, <1>7, <1>8 DEF IndInv

\* tryPop()/tryVisitPop() enters and starts to probe the table.
LEMMA TryPopStep ==
  ASSUME IndInv, NEW t \in Threads, TryPop(t)
  PROVE  IndInv'
<1> USE DEF ringvars, tblvars, histvars, Points, ProbePoints, WritePoints, ReadPoints, HoldsWrite, HoldsRead
<1>0. \A u \in Threads : u # t
        => /\ pc'[u] = pc[u] /\ op'[u] = op[u] /\ cur'[u] = cur[u]
           /\ HoldsWrite(u) => WIdx(u)' = WIdx(u)
           /\ HoldsRead(u) => RIdx(u)' = RIdx(u)
  BY DEF IndInv, TypeOK, InvControl, InvEntry, WIdx, RIdx, TryPop, StartProbe
<1>1. TypeOK'
  BY ModInSlots, BlkInBlocks, ThreadsAssumption, ThrSizeAssumption DEF IndInv, TypeOK, Ops, TryPop, StartProbe
<1>2. InvControl'
  BY DEF IndInv, TypeOK, InvControl, TryPop, StartProbe
<1>3. InvEntry'
  BY DEF IndInv, TypeOK, InvControl, InvEntry, TryPop, StartProbe
<1>4. InvWriteTickets'
  BY DEF IndInv, TypeOK, InvControl, InvEntry, InvWriteTickets, TryPop, StartProbe
<1>5. InvReadTickets'
  BY DEF IndInv, TypeOK, InvControl, InvEntry, InvReadTickets, TryPop, StartProbe
<1>6. InvAccess'
  BY <1>0 DEF IndInv, TypeOK, InvAccess, Writing, Reading, TryPop, StartProbe
<1>7. InvBlocks'
  BY <1>0 DEF IndInv, TypeOK, InvBlocks, TryPop, StartProbe
<1>8. InvHistory'
  BY WriteTicket, ReadTicket, NotFacts DEF IndInv, TypeOK, InvControl, InvEntry, InvHistory, WIdx, RIdx, TryPop, StartProbe
<1>. QED BY <1>1, <1>2, <1>3, <1>4, <1>5, <1>6, <1>7, <1>8 DEF IndInv

\* One load of tids[cur] in getThrIdx().
LEMMA ProbeStep ==
  ASSUME IndInv, NEW t \in Threads, Probe(t)
  PROVE  IndInv'
<1> USE DEF ringvars, tblvars, histvars, Points, ProbePoints, WritePoints, ReadPoints, HoldsWrite, HoldsRead
<1>0. \A u \in Threads : u # t
        => /\ pc'[u] = pc[u] /\ op'[u] = op[u] /\ cur'[u] = cur[u]
           /\ HoldsWrite(u) => WIdx(u)' = WIdx(u)
           /\ HoldsRead(u) => RIdx(u)' = RIdx(u)
  BY DEF IndInv, TypeOK, InvControl, InvEntry, WIdx, RIdx, Probe, SlotFound, NextProbe
<1>1. TypeOK'
  <2>1. (cur[t] + 1) % THR_SIZE \in Slots
    <3>1. cur[t] + 1 \in Nat
      BY DEF IndInv, TypeOK, Slots
    <3>. QED BY <3>1, ModInSlots
  <2>2. cnt[t] > 0 => cnt[t] - 1 \in 0..THR_SIZE
    BY ThrSizeAssumption DEF IndInv, TypeOK
  <2>3. cnt[t] > 0
    BY DEF IndInv, InvControl, Probe
  <2>. QED BY <2>1, <2>2, <2>3 DEF IndInv, TypeOK, Probe, SlotFound, NextProbe
<1>2. InvControl'
  BY DEF IndInv, TypeOK, InvControl, Probe, SlotFound, NextProbe
<1>3. InvEntry'
  BY DEF IndInv, TypeOK, InvControl, InvEntry, Probe, SlotFound, NextProbe
<1>4. InvWriteTickets'
  BY DEF IndInv, TypeOK, InvControl, InvEntry, InvWriteTickets, Probe, SlotFound, NextProbe
<1>5. InvReadTickets'
  BY DEF IndInv, TypeOK, InvControl, InvEntry, InvReadTickets, Probe, SlotFound, NextProbe
<1>6. InvAccess'
  BY <1>0 DEF IndInv, TypeOK, InvAccess, Writing, Reading, Probe, SlotFound, NextProbe
<1>7. InvBlocks'
  BY <1>0 DEF IndInv, TypeOK, InvBlocks, Probe, SlotFound, NextProbe
<1>8. InvHistory'
  <2>1. pc[t] \in ProbePoints /\ pc'[t] \in ProbePoints \cup {"getWriteIdx", "getReadIdx"}
    BY DEF IndInv, TypeOK, Probe, SlotFound, NextProbe
  <2>2. \A s \in Slots : tids[s] # 0 => tids'[s] = tids[s]
    BY DEF IndInv, TypeOK, Probe
  <2>. QED BY <1>0, <2>1, <2>2, ThreadsAssumption DEF IndInv, InvHistory, Probe
<1>. QED BY <1>1, <1>2, <1>3, <1>4, <1>5, <1>6, <1>7, <1>8 DEF IndInv

\* The compare-and-exchange of getThrIdx() only ever takes a free entry, so the
\* entries other threads work on keep their owners.
LEMMA ClaimStep ==
  ASSUME IndInv, NEW t \in Threads, Claim(t)
  PROVE  IndInv'
<1> USE DEF ringvars, tblvars, histvars, Points, ProbePoints, WritePoints, ReadPoints, HoldsWrite, HoldsRead
<1>0. \A u \in Threads : u # t
        => /\ pc'[u] = pc[u] /\ op'[u] = op[u] /\ cur'[u] = cur[u]
           /\ HoldsWrite(u) => WIdx(u)' = WIdx(u)
           /\ HoldsRead(u) => RIdx(u)' = RIdx(u)
  BY DEF IndInv, TypeOK, InvControl, InvEntry, WIdx, RIdx, Claim, SlotFound, NextProbe
<1>1. TypeOK'
  <2>1. (cur[t] + 1) % THR_SIZE \in Slots
    <3>1. cur[t] + 1 \in Nat
      BY DEF IndInv, TypeOK, Slots
    <3>. QED BY <3>1, ModInSlots
  <2>2. cnt[t] > 0 => cnt[t] - 1 \in 0..THR_SIZE
    BY ThrSizeAssumption DEF IndInv, TypeOK
  <2>3. cnt[t] > 0
    BY DEF IndInv, InvControl, Claim
  <2>. QED BY <2>1, <2>2, <2>3 DEF IndInv, TypeOK, Claim, SlotFound, NextProbe
<1>2. InvControl'
  BY DEF IndInv, TypeOK, InvControl, Claim, SlotFound, NextProbe
<1>3. InvEntry'
  <2>1. \A s \in Slots : tids[s] # 0 => tids'[s] = tids[s]
    BY DEF IndInv, TypeOK, Claim
  <2>2. \A u \in Threads : u # t => pc'[u] = pc[u] /\ op'[u] = op[u] /\ cur'[u] = cur[u]
    BY DEF IndInv, TypeOK, Claim, SlotFound, NextProbe
  <2>3. ASSUME NEW u \in Threads, u # t
        PROVE  /\ op'[u] = "tryPush" /\ pc'[u] \in WritePoints => tids'[cur'[u]] = u
               /\ op'[u] = "tryPop" /\ pc'[u] \in ReadPoints => tids'[cur'[u]] = u
    BY <2>1, <2>2, <2>3, ThreadsAssumption DEF IndInv, TypeOK, InvEntry
  <2>4. pc'[t] \in WritePoints \cup ReadPoints
          => tids'[cur'[t]] = t /\ pc'[t] \in {"getWriteIdx", "getReadIdx"}
    BY DEF IndInv, TypeOK, Claim, SlotFound, NextProbe
  <2>5. ASSUME NEW u \in Threads
        PROVE  /\ op'[u] = "tryPush" /\ HoldsWrite(u)' => thr_write'[cur'[u]] >= 0
               /\ op'[u] = "tryPop" /\ HoldsRead(u)' => thr_read'[cur'[u]] >= 0
    BY <2>2, <2>4 DEF IndInv, TypeOK, InvEntry, Claim
  <2>. QED BY <2>3, <2>4, <2>5 DEF InvEntry
<1>4. InvWriteTickets'
  BY DEF IndInv, TypeOK, InvControl, InvEntry, InvWriteTickets, Claim, SlotFound, NextProbe
<1>5. InvReadTickets'
  BY DEF IndInv, TypeOK, InvControl, InvEntry, InvReadTickets, Claim, SlotFound, NextProbe
<1>6. InvAccess'
  BY <1>0 DEF IndInv, TypeOK, InvAccess, Writing, Reading, Claim, SlotFound, NextProbe
<1>7. InvBlocks'
  BY <1>0 DEF IndInv, TypeOK, InvBlocks, Claim, SlotFound, NextProbe
<1>8. InvHistory'
  <2>1. pc[t] \in ProbePoints /\ pc'[t] \in ProbePoints \cup {"getWriteIdx", "getReadIdx"}
    BY DEF IndInv, TypeOK, Claim, SlotFound, NextProbe
  <2>2. \A s \in Slots : tids[s] # 0 => tids'[s] = tids[s]
    BY DEF IndInv, TypeOK, Claim
  <2>. QED BY <1>0, <2>1, <2>2, ThreadsAssumption DEF IndInv, InvHistory, Claim
<1>. QED BY <1>1, <1>2, <1>3, <1>4, <1>5, <1>6, <1>7, <1>8 DEF IndInv

\* getThrIdx() returns nullptr: the call ends without having drawn a ticket.
LEMMA TableFullStep ==
  ASSUME IndInv, NEW t \in Threads, TableFull(t)
  PROVE  IndInv'
<1> USE DEF ringvars, tblvars, histvars, Points, ProbePoints, WritePoints, ReadPoints, HoldsWrite, HoldsRead
<1>0. \A u \in Threads : u # t
        => /\ pc'[u] = pc[u] /\ op'[u] = op[u] /\ cur'[u] = cur[u]
           /\ HoldsWrite(u) => WIdx(u)' = WIdx(u)
           /\ HoldsRead(u) => RIdx(u)' = RIdx(u)
  BY DEF IndInv, TypeOK, InvControl, InvEntry, WIdx, RIdx, TableFull
<1>1. TypeOK'
  BY ModInSlots, BlkInBlocks, ThreadsAssumption, ThrSizeAssumption DEF IndInv, TypeOK, Ops, TableFull
<1>2. InvControl'
  BY DEF IndInv, TypeOK, InvControl, TableFull
<1>3. InvEntry'
  BY DEF IndInv, TypeOK, InvControl, InvEntry, TableFull
<1>4. InvWriteTickets'
  BY DEF IndInv, TypeOK, InvControl, InvEntry, InvWriteTickets, TableFull
<1>5. InvReadTickets'
  BY DEF IndInv, TypeOK, InvControl, InvEntry, InvReadTickets, TableFull
<1>6. InvAccess'
  BY <1>0 DEF IndInv, TypeOK, InvAccess, Writing, Reading, TableFull
<1>7. InvBlocks'
  BY <1>0 DEF IndInv, TypeOK, InvBlocks, TableFull
<1>8. InvHistory'
  BY WriteTicket, ReadTicket, NotFacts DEF IndInv, TypeOK, InvControl, InvEntry, InvHistory, WIdx, RIdx, TableFull
<1>. QED BY <1>1, <1>2, <1>3, <1>4, <1>5, <1>6, <1>7, <1>8 DEF IndInv

\* getWriteIdx() draws a ticket nobody holds: every ticket held is < write_idx.
\* A try call that kept a ticket goes on with it.
LEMMA GetWriteIdxStep ==
  ASSUME IndInv, NEW t \in Threads, GetWriteIdx(t)
  PROVE  IndInv'
<1> USE DEF ringvars, tblvars, histvars, Points, ProbePoints, WritePoints, ReadPoints, HoldsWrite, HoldsRead
<1>0. \A u \in Threads : u # t
        => /\ pc'[u] = pc[u] /\ op'[u] = op[u] /\ cur'[u] = cur[u]
           /\ HoldsWrite(u) => WIdx(u)' = WIdx(u)
           /\ HoldsRead(u) => RIdx(u)' = RIdx(u)
  BY DEF IndInv, TypeOK, InvControl, InvEntry, WIdx, RIdx, GetWriteIdx
<1>1. TypeOK'
  BY ModInSlots, BlkInBlocks, ThreadsAssumption, ThrSizeAssumption DEF IndInv, TypeOK, Ops, GetWriteIdx
<1>2. InvControl'
  BY DEF IndInv, TypeOK, InvControl, GetWriteIdx
<1>3. InvEntry'
  BY DEF IndInv, TypeOK, InvControl, InvEntry, GetWriteIdx
<1>4. InvWriteTickets'
  <2>1. CASE op[t] = "emplace"
    BY <2>1 DEF IndInv, TypeOK, InvControl, InvWriteTickets, GetWriteIdx
  <2>2. CASE op[t] = "tryPush" /\ thr_write[cur[t]] < 0
    <3>1. /\ thr_write' = [thr_write EXCEPT ![cur[t]] = write_idx]
          /\ write_idx' = write_idx + 1 /\ loc_idx' = loc_idx /\ op' = op
          /\ \A u \in Threads : HoldsWrite(u)' /\ op[u] = "emplace" => HoldsWrite(u)
      BY <2>2 DEF IndInv, TypeOK, GetWriteIdx
    <3>2. \A u \in Threads : HoldsWrite(u) /\ op[u] = "emplace" => loc_idx[u] < write_idx
      BY DEF IndInv, InvControl
    <3>. QED BY <3>1, <3>2 DEF IndInv, TypeOK, InvWriteTickets
  <2>3. CASE op[t] = "tryPush" /\ thr_write[cur[t]] >= 0
    BY <2>3 DEF IndInv, TypeOK, InvControl, InvWriteTickets, GetWriteIdx
  <2>. QED BY <2>1, <2>2, <2>3 DEF IndInv, TypeOK, GetWriteIdx
<1>5. InvReadTickets'
  BY DEF IndInv, TypeOK, InvControl, InvEntry, InvReadTickets, GetWriteIdx
<1>6. InvAccess'
  BY <1>0 DEF IndInv, TypeOK, InvAccess, Writing, Reading, GetWriteIdx
<1>7. InvBlocks'
  BY <1>0 DEF IndInv, TypeOK, InvBlocks, GetWriteIdx
<1>8. InvHistory'
  <2>1. \A n \in DOMAIN pushed : n \in Nat /\ n < write_idx
    BY DEF IndInv, InvHistory
  <2>2. WIdx(t)' \notin DOMAIN pushed
    <3>1. CASE op[t] = "tryPush" /\ thr_write[cur[t]] >= 0
      <4>1. tids[cur[t]] = t
        BY <3>1 DEF IndInv, InvEntry, GetWriteIdx
      <4>2. thr_write[cur[t]] \notin DOMAIN pushed
        BY <4>1 DEF IndInv, TypeOK, InvHistory, GetWriteIdx
      <4>3. WIdx(t)' = thr_write[cur[t]]
        BY <3>1 DEF IndInv, TypeOK, WIdx, GetWriteIdx
      <4>. QED BY <4>2, <4>3
    <3>2. CASE op[t] = "emplace" \/ thr_write[cur[t]] < 0
      BY <2>1, <3>2 DEF IndInv, TypeOK, InvControl, WIdx, GetWriteIdx
    <3>. QED BY <3>1, <3>2 DEF IndInv, TypeOK, GetWriteIdx
  <2>3. \A s \in Slots : thr_write'[s] = thr_write[s] \/ thr_write'[s] = write_idx
    BY DEF IndInv, TypeOK, GetWriteIdx
  <2>4. write_idx \notin DOMAIN pushed /\ write_idx' >= write_idx
    BY <2>1 DEF IndInv, TypeOK, GetWriteIdx
  <2>5. ASSUME NEW u \in Threads
        PROVE  /\ pc'[u] \in {"getReadable", "moveOut"} => RIdx(u)' \notin DOMAIN popped
               /\ pc'[u] = "commitRead" => RIdx(u)' \in DOMAIN popped
               /\ pc'[u] \in {"getWritable", "construct"} => WIdx(u)' \notin DOMAIN pushed
               /\ pc'[u] = "commitWrite" => /\ WIdx(u)' \in DOMAIN pushed
                                            /\ data[Blk(WIdx(u)')] = pushed[WIdx(u)']
    BY <1>0, <2>2 DEF IndInv, TypeOK, InvHistory, GetWriteIdx
  <2>6. ASSUME NEW s \in Slots
        PROVE  /\ thr_read[s] \in DOMAIN popped
                    => \E u \in Threads : /\ tids[s] = u /\ cur'[u] = s
                                          /\ op'[u] = "tryPop" /\ pc'[u] = "commitRead"
               /\ thr_write'[s] \in DOMAIN pushed
                    => \E u \in Threads : /\ tids[s] = u /\ cur'[u] = s
                                          /\ op'[u] = "tryPush" /\ pc'[u] = "commitWrite"
    BY <1>0, <2>3, <2>4 DEF IndInv, InvHistory, GetWriteIdx
  <2>7. \A n \in DOMAIN pushed : n < write_idx'
    BY <2>1, <2>4 DEF IndInv, TypeOK, GetWriteIdx
  <2>. QED BY <2>1, <2>5, <2>6, <2>7 DEF IndInv, InvHistory, Blk, GetWriteIdx
<1>. QED BY <1>1, <1>2, <1>3, <1>4, <1>5, <1>6, <1>7, <1>8 DEF IndInv

\* getWritable() succeeds only when the stat word equals the ticket, which is what
\* InvAccess asks of the next control point.
LEMMA GetWritableStep ==
  ASSUME IndInv, NEW t \in Threads, GetWritable(t)
  PROVE  IndInv'
<1> USE DEF ringvars, tblvars, histvars, Points, ProbePoints, WritePoints, ReadPoints, HoldsWrite, HoldsRead
<1>0. \A u \in Threads : u # t
        => /\ pc'[u] = pc[u] /\ op'[u] = op[u] /\ cur'[u] = cur[u]
           /\ HoldsWrite(u) => WIdx(u)' = WIdx(u)
           /\ HoldsRead(u) => RIdx(u)' = RIdx(u)
  BY DEF IndInv, TypeOK, InvControl, InvEntry, WIdx, RIdx, GetWritable
<1>1. TypeOK'
  BY ModInSlots, BlkInBlocks, ThreadsAssumption, ThrSizeAssumption DEF IndInv, TypeOK, Ops, GetWritable
<1>2. InvControl'
  BY DEF IndInv, TypeOK, InvControl, GetWritable
<1>3. InvEntry'
  BY DEF IndInv, TypeOK, InvControl, InvEntry, GetWritable
<1>4. InvWriteTickets'
  BY DEF IndInv, TypeOK, InvControl, InvEntry, InvWriteTickets, GetWritable
<1>5. InvReadTickets'
  BY DEF IndInv, TypeOK, InvControl, InvEntry, InvReadTickets, GetWritable
<1>6. InvAccess'
  BY WriteTicket, ReadTicket, NotFacts DEF IndInv, TypeOK, InvControl, InvEntry, InvAccess, WIdx, RIdx, Writing, Reading, GetWritable
<1>7. InvBlocks'
  BY WriteTicket, ReadTicket, NotFacts DEF IndInv, TypeOK, InvControl, InvEntry, InvBlocks, WIdx, RIdx, GetWritable
<1>8. InvHistory'
  BY WriteTicket, ReadTicket, NotFacts DEF IndInv, TypeOK, InvControl, InvEntry, InvHistory, WIdx, RIdx, GetWritable
<1>. QED BY <1>1, <1>2, <1>3, <1>4, <1>5, <1>6, <1>7, <1>8 DEF IndInv

\* Constructing the element publishes nothing yet; no other thread is in the block
\* (RaceFreedom), so no other thread's element changes.
LEMMA ConstructStep ==
  ASSUME IndInv, NEW t \in Threads, Construct(t)
  PROVE  IndInv'
<1> USE DEF ringvars, tblvars, histvars, Points, ProbePoints, WritePoints, ReadPoints, HoldsWrite, HoldsRead
<1>0. \A u \in Threads : u # t
        => /\ pc'[u] = pc[u] /\ op'[u] = op[u] /\ cur'[u] = cur[u]
           /\ HoldsWrite(u) => WIdx(u)' = WIdx(u)
           /\ HoldsRead(u) => RIdx(u)' = RIdx(u)
  BY DEF IndInv, TypeOK, InvControl, InvEntry, WIdx, RIdx, Construct, Spec_TQ!Put
<1>t. /\ WIdx(t) \in Nat /\ WIdx(t) < write_idx /\ Blk(WIdx(t)) \in Blocks
      /\ \A u \in Threads : HoldsWrite(u) /\ WIdx(u) = WIdx(t) => u = t
  BY WriteTicket DEF Construct
<1>1. TypeOK'
  <2>1. WIdx(t) \in Nat /\ Blk(WIdx(t)) \in Blocks
    BY WriteTicket DEF Construct
  <2>. QED BY <2>1 DEF IndInv, TypeOK, Construct, Spec_TQ!Put
<1>2. InvControl'
  BY DEF IndInv, TypeOK, InvControl, Construct, Spec_TQ!Put
<1>3. InvEntry'
  BY DEF IndInv, TypeOK, InvControl, InvEntry, Construct, Spec_TQ!Put
<1>4. InvWriteTickets'
  BY DEF IndInv, TypeOK, InvControl, InvEntry, InvWriteTickets, Construct, Spec_TQ!Put
<1>5. InvReadTickets'
  BY DEF IndInv, TypeOK, InvControl, InvEntry, InvReadTickets, Construct, Spec_TQ!Put
<1>6. InvAccess'
  BY WriteTicket, ReadTicket, NotFacts DEF IndInv, TypeOK, InvControl, InvEntry, InvAccess, WIdx, RIdx, Writing, Reading, Construct, Spec_TQ!Put
<1>7. InvBlocks'
  <2>1. WIdx(t)' = WIdx(t) /\ stat[Blk(WIdx(t))] = WIdx(t)
    BY DEF IndInv, InvAccess, Writing, WIdx, Construct
  <2>2. ASSUME NEW b \in Blocks
        PROVE  /\ stat'[b] < 0 => /\ Not(stat'[b]) \in DOMAIN pushed'
                                  /\ data'[b] = pushed'[Not(stat'[b])]
               /\ stat'[b] >= SIZE => stat'[b] - SIZE \in DOMAIN popped'
    <3>1. CASE b = Blk(WIdx(t))
      BY <1>t, <2>1, <3>1 DEF IndInv, InvBlocks, Construct
    <3>2. CASE b # Blk(WIdx(t))
      <4>1. stat[b] < 0 => Not(stat[b]) \in DOMAIN pushed /\ Not(stat[b]) # WIdx(t)
        BY DEF IndInv, InvBlocks, InvHistory, Construct
      <4>. QED BY <3>2, <4>1 DEF IndInv, TypeOK, InvBlocks, Construct, Spec_TQ!Put
    <3>. QED BY <3>1, <3>2
  <2>3. ASSUME NEW b \in Blocks, stat'[b] >= 0
        PROVE  \/ data'[b] = Raw
               \/ \E u \in Threads : pc'[u] = "commitWrite" /\ Blk(WIdx(u))' = b
    <3>1. CASE b = Blk(WIdx(t))
      BY <2>1, <3>1 DEF IndInv, TypeOK, Blk, Construct
    <3>2. CASE b # Blk(WIdx(t))
      BY <1>0, <2>3, <3>2 DEF IndInv, TypeOK, InvBlocks, Blk, Construct
    <3>. QED BY <3>1, <3>2
  <2>. QED BY <2>2, <2>3 DEF InvBlocks
<1>8. InvHistory'
  <2>1. /\ WIdx(t)' = WIdx(t) /\ RIdx(t)' = RIdx(t)
        /\ pc[t] = "construct" /\ pc'[t] = "commitWrite"
        /\ DOMAIN pushed' = DOMAIN pushed \cup {WIdx(t)}
        /\ \A n \in DOMAIN pushed : n # WIdx(t) => pushed'[n] = pushed[n]
        /\ pushed'[WIdx(t)] = arg[t] /\ data'[Blk(WIdx(t))] = arg[t]
        /\ \A b \in Blocks : b # Blk(WIdx(t)) => data'[b] = data[b]
    BY <1>t DEF IndInv, TypeOK, WIdx, RIdx, Construct, Spec_TQ!Put
  <2>2. ASSUME NEW u \in Threads, u # t, HoldsWrite(u)
        PROVE  /\ WIdx(u) # WIdx(t) /\ Blk(WIdx(u)) \in Blocks
               /\ pc[u] = "commitWrite" => Blk(WIdx(u)) # Blk(WIdx(t))
    BY <1>t, <2>1, <2>2, WriteTicket, RaceFreedom DEF NoDataRace, Writing, Touched
  <2>3. ASSUME NEW u \in Threads
        PROVE  /\ pc'[u] \in {"getWritable", "construct"} => WIdx(u)' \notin DOMAIN pushed'
               /\ pc'[u] = "commitWrite" => /\ WIdx(u)' \in DOMAIN pushed'
                                            /\ data'[Blk(WIdx(u)')] = pushed'[WIdx(u)']
    <3>1. CASE u = t
      BY <2>1, <3>1
    <3>2. CASE u # t
      BY <1>0, <2>1, <2>2, <3>2 DEF IndInv, InvHistory
    <3>. QED BY <3>1, <3>2
  <2>4. ASSUME NEW u \in Threads
        PROVE  /\ pc'[u] \in {"getReadable", "moveOut"} => RIdx(u)' \notin DOMAIN popped
               /\ pc'[u] = "commitRead" => RIdx(u)' \in DOMAIN popped
    BY <1>0, <2>1 DEF IndInv, InvHistory
  <2>5. ASSUME NEW s \in Slots, thr_write[s] \in DOMAIN pushed'
        PROVE  \E u \in Threads : /\ tids[s] = u /\ cur'[u] = s
                                  /\ op'[u] = "tryPush" /\ pc'[u] = "commitWrite"
    <3>1. CASE thr_write[s] = WIdx(t)
      <4>1. op[t] = "tryPush" /\ cur[t] = s
        BY <1>t, <2>1, <3>1 DEF IndInv, TypeOK, InvControl, InvWriteTickets, WIdx
      <4>2. tids[s] = t
        BY <2>1, <4>1 DEF IndInv, InvEntry
      <4>. QED BY <2>1, <4>1, <4>2 DEF Construct
    <3>2. CASE thr_write[s] # WIdx(t)
      BY <1>0, <2>1, <2>5, <3>2 DEF IndInv, InvHistory
    <3>. QED BY <3>1, <3>2
  <2>6. ASSUME NEW s \in Slots, thr_read[s] \in DOMAIN popped
        PROVE  \E u \in Threads : /\ tids[s] = u /\ cur'[u] = s
                                  /\ op'[u] = "tryPop" /\ pc'[u] = "commitRead"
    BY <1>0, <2>1, <2>6 DEF IndInv, InvHistory
  <2>7. \A n \in DOMAIN pushed' : n \in Nat /\ n < write_idx
    BY <1>t, <2>1 DEF IndInv, InvHistory
  <2>. QED BY <2>3, <2>4, <2>5, <2>6, <2>7 DEF IndInv, InvHistory, Blk, Construct
<1>. QED BY <1>1, <1>2, <1>3, <1>4, <1>5, <1>6, <1>7, <1>8 DEF IndInv

\* commitWrite() stores ~idx over idx in a block only its caller is in.
LEMMA CommitWriteStep ==
  ASSUME IndInv, NEW t \in Threads, CommitWrite(t)
  PROVE  IndInv'
<1> USE DEF ringvars, tblvars, histvars, Points, ProbePoints, WritePoints, ReadPoints, HoldsWrite, HoldsRead
<1>0. \A u \in Threads : u # t
        => /\ pc'[u] = pc[u] /\ op'[u] = op[u] /\ cur'[u] = cur[u]
           /\ HoldsWrite(u) => WIdx(u)' = WIdx(u)
           /\ HoldsRead(u) => RIdx(u)' = RIdx(u)
  BY DEF IndInv, TypeOK, InvControl, InvEntry, WIdx, RIdx, CommitWrite, DropWriteTicket
<1>t. /\ WIdx(t) \in Nat /\ WIdx(t) < write_idx /\ Blk(WIdx(t)) \in Blocks
      /\ \A u \in Threads : HoldsWrite(u) /\ WIdx(u) = WIdx(t) => u = t
  BY WriteTicket DEF CommitWrite
<1>1. TypeOK'
  <2>1. stat' \in [Blocks -> Int]
    <3>1. Not(WIdx(t)) \in Int
      BY <1>t, NotFacts
    <3>. QED BY <3>1 DEF IndInv, TypeOK, CommitWrite
  <2>2. thr_write' \in [Slots -> Int] /\ loc_idx' \in [Threads -> Int]
    BY DEF IndInv, TypeOK, CommitWrite, DropWriteTicket
  <2>3. data' \in [Blocks -> Values \cup {Raw}] /\ pc' \in [Threads -> Points]
    BY DEF IndInv, TypeOK, CommitWrite
  <2>. QED BY <2>1, <2>2, <2>3 DEF IndInv, TypeOK, CommitWrite
<1>2. InvControl'
  BY DEF IndInv, TypeOK, InvControl, CommitWrite, DropWriteTicket
<1>3. InvEntry'
  BY DEF IndInv, TypeOK, InvControl, InvEntry, CommitWrite, DropWriteTicket
<1>4. InvWriteTickets'
  <2>1. CASE op[t] = "tryPush"
    <3>1. /\ \A s \in Slots : thr_write'[s] = IF s = cur[t] THEN -1 ELSE thr_write[s]
          /\ loc_idx' = loc_idx
      BY <2>1 DEF IndInv, TypeOK, CommitWrite, DropWriteTicket
    <3>2. \A u \in Threads : HoldsWrite(u)' /\ op'[u] = "emplace"
                               => HoldsWrite(u) /\ op[u] = "emplace" /\ loc_idx[u] >= 0
      BY <1>0 DEF IndInv, TypeOK, InvControl, CommitWrite
    <3>. QED BY <3>1, <3>2 DEF IndInv, TypeOK, InvWriteTickets, CommitWrite
  <2>2. CASE op[t] # "tryPush"
    BY <2>2 DEF IndInv, TypeOK, InvControl, InvWriteTickets, CommitWrite, DropWriteTicket
  <2>. QED BY <2>1, <2>2
<1>5. InvReadTickets'
  BY DEF IndInv, TypeOK, InvControl, InvEntry, InvReadTickets, CommitWrite, DropWriteTicket
<1>6. InvAccess'
  <2>1. pc'[t] = "idle"
    BY DEF IndInv, TypeOK, CommitWrite
  <2>2. ASSUME NEW u \in Threads, u # t
        PROVE  /\ Writing(u) => /\ Blk(WIdx(u)) \in Blocks
                                /\ Blk(WIdx(u)) # Blk(WIdx(t))
               /\ Reading(u) => /\ Blk(RIdx(u)) \in Blocks
                                /\ Blk(RIdx(u)) # Blk(WIdx(t))
    BY <2>2, WriteTicket, ReadTicket, RaceFreedom
       DEF NoDataRace, Writing, Reading, Touched, CommitWrite
  <2>3. \A b \in Blocks : b # Blk(WIdx(t)) => stat'[b] = stat[b]
    BY DEF IndInv, TypeOK, CommitWrite
  <2>4. ASSUME NEW u \in Threads, u # t
        PROVE  /\ Writing(u)' => stat'[Blk(WIdx(u)')] = WIdx(u)'
               /\ Reading(u)' => stat'[Blk(RIdx(u)')] = Not(RIdx(u)')
    BY <1>0, <2>2, <2>3, <2>4 DEF IndInv, InvAccess, Writing, Reading
  <2>. QED BY <2>1, <2>4 DEF InvAccess, Writing, Reading, Blk, Not
<1>7. InvBlocks'
  <2>1. /\ pc'[t] = "idle"
        /\ stat'[Blk(WIdx(t))] = Not(WIdx(t))
        /\ \A b \in Blocks : b # Blk(WIdx(t)) => stat'[b] = stat[b]
        /\ data' = data /\ pushed' = pushed /\ popped' = popped
    BY <1>t DEF IndInv, TypeOK, CommitWrite
  <2>2. /\ Not(WIdx(t)) < 0 /\ Not(Not(WIdx(t))) = WIdx(t)
        /\ WIdx(t) \in DOMAIN pushed /\ data[Blk(WIdx(t))] = pushed[WIdx(t)]
    BY <1>t, NotFacts DEF IndInv, InvHistory, CommitWrite
  <2>3. ASSUME NEW b \in Blocks
        PROVE  /\ stat'[b] < 0 => /\ Not(stat'[b]) \in DOMAIN pushed
                                  /\ data[b] = pushed[Not(stat'[b])]
               /\ stat'[b] >= SIZE => stat'[b] - SIZE \in DOMAIN popped
    <3>1. CASE b = Blk(WIdx(t))
      BY <1>t, <2>1, <2>2, <3>1, SizeAssumption DEF Not
    <3>2. CASE b # Blk(WIdx(t))
      BY <2>1, <3>2 DEF IndInv, InvBlocks
    <3>. QED BY <3>1, <3>2
  <2>4. ASSUME NEW b \in Blocks, stat'[b] >= 0
        PROVE  \/ data[b] = Raw
               \/ \E u \in Threads : pc'[u] = "commitWrite" /\ Blk(WIdx(u)') = b
    <3>1. b # Blk(WIdx(t))
      BY <1>t, <2>1, <2>2, <2>4 DEF Not
    <3>. QED BY <1>0, <2>1, <2>4, <3>1 DEF IndInv, InvBlocks
  <2>. QED BY <2>1, <2>3, <2>4 DEF InvBlocks, Not, Blk
<1>8. InvHistory'
  <2>1. /\ pc[t] = "commitWrite" /\ pc'[t] = "idle"
        /\ data' = data /\ pushed' = pushed /\ popped' = popped /\ tids' = tids
        /\ write_idx' = write_idx /\ read_idx' = read_idx /\ thr_read' = thr_read
    BY DEF IndInv, TypeOK, CommitWrite
  <2>2. \A s \in Slots : thr_write'[s] \in DOMAIN pushed
                           => thr_write[s] \in DOMAIN pushed /\ tids[s] # t
    <3>1. CASE op[t] = "tryPush"
      <4>1. -1 \notin DOMAIN pushed
        BY DEF IndInv, InvHistory
      <4>2. \A s \in Slots : thr_write'[s] = IF s = cur[t] THEN -1 ELSE thr_write[s]
        BY <3>1 DEF IndInv, TypeOK, CommitWrite, DropWriteTicket
      <4>. QED BY <4>1, <4>2 DEF IndInv, InvHistory
    <3>2. CASE op[t] # "tryPush"
      BY <3>2 DEF IndInv, InvHistory, CommitWrite, DropWriteTicket
    <3>. QED BY <3>1, <3>2
  <2>3. ASSUME NEW u \in Threads
        PROVE  /\ pc'[u] \in {"getWritable", "construct"} => WIdx(u)' \notin DOMAIN pushed
               /\ pc'[u] = "commitWrite" => /\ WIdx(u)' \in DOMAIN pushed
                                            /\ data[Blk(WIdx(u)')] = pushed[WIdx(u)']
               /\ pc'[u] \in {"getReadable", "moveOut"} => RIdx(u)' \notin DOMAIN popped
               /\ pc'[u] = "commitRead" => RIdx(u)' \in DOMAIN popped
    BY <1>0, <2>1 DEF IndInv, InvHistory
  <2>4. ASSUME NEW s \in Slots
        PROVE  /\ thr_write'[s] \in DOMAIN pushed
                    => \E u \in Threads : /\ tids[s] = u /\ cur'[u] = s
                                          /\ op'[u] = "tryPush" /\ pc'[u] = "commitWrite"
               /\ thr_read[s] \in DOMAIN popped
                    => \E u \in Threads : /\ tids[s] = u /\ cur'[u] = s
                                          /\ op'[u] = "tryPop" /\ pc'[u] = "commitRead"
    BY <1>0, <2>1, <2>2 DEF IndInv, InvHistory
  <2>. QED BY <2>1, <2>3, <2>4 DEF IndInv, InvHistory, Blk
<1>. QED BY <1>1, <1>2, <1>3, <1>4, <1>5, <1>6, <1>7, <1>8 DEF IndInv

\* getReadIdx() draws a ticket nobody holds; a try call that kept one goes on with it.
LEMMA GetReadIdxStep ==
  ASSUME IndInv, NEW t \in Threads, GetReadIdx(t)
  PROVE  IndInv'
<1> USE DEF ringvars, tblvars, histvars, Points, ProbePoints, WritePoints, ReadPoints, HoldsWrite, HoldsRead
<1>0. \A u \in Threads : u # t
        => /\ pc'[u] = pc[u] /\ op'[u] = op[u] /\ cur'[u] = cur[u]
           /\ HoldsWrite(u) => WIdx(u)' = WIdx(u)
           /\ HoldsRead(u) => RIdx(u)' = RIdx(u)
  BY DEF IndInv, TypeOK, InvControl, InvEntry, WIdx, RIdx, GetReadIdx
<1>1. TypeOK'
  BY ModInSlots, BlkInBlocks, ThreadsAssumption, ThrSizeAssumption DEF IndInv, TypeOK, Ops, GetReadIdx
<1>2. InvControl'
  BY DEF IndInv, TypeOK, InvControl, GetReadIdx
<1>3. InvEntry'
  BY DEF IndInv, TypeOK, InvControl, InvEntry, GetReadIdx
<1>4. InvWriteTickets'
  BY DEF IndInv, TypeOK, InvControl, InvEntry, InvWriteTickets, GetReadIdx
<1>5. InvReadTickets'
  <2> USE DEF IndInv, TypeOK, InvControl, InvEntry, InvReadTickets, GetReadIdx
  <2>1. CASE op[t] = "pop"
    BY <2>1
  <2>2. CASE op[t] = "tryPop" /\ thr_read[cur[t]] < 0
    BY <2>2
  <2>3. CASE op[t] = "tryPop" /\ thr_read[cur[t]] >= 0
    BY <2>3
  <2>. QED BY <2>1, <2>2, <2>3
<1>6. InvAccess'
  BY <1>0 DEF IndInv, TypeOK, InvAccess, Writing, Reading, GetReadIdx
<1>7. InvBlocks'
  BY <1>0 DEF IndInv, TypeOK, InvBlocks, GetReadIdx
<1>8. InvHistory'
  <2>1. \A n \in DOMAIN popped : n \in Nat /\ n < read_idx
    BY DEF IndInv, InvHistory
  <2>2. RIdx(t)' \notin DOMAIN popped
    <3>1. CASE op[t] = "tryPop" /\ thr_read[cur[t]] >= 0
      <4>1. tids[cur[t]] = t
        BY <3>1 DEF IndInv, InvEntry, GetReadIdx
      <4>2. thr_read[cur[t]] \notin DOMAIN popped
        BY <4>1 DEF IndInv, TypeOK, InvHistory, GetReadIdx
      <4>3. RIdx(t)' = thr_read[cur[t]]
        BY <3>1 DEF IndInv, TypeOK, RIdx, GetReadIdx
      <4>. QED BY <4>2, <4>3
    <3>2. CASE op[t] = "pop" \/ thr_read[cur[t]] < 0
      BY <2>1, <3>2 DEF IndInv, TypeOK, InvControl, RIdx, GetReadIdx
    <3>. QED BY <3>1, <3>2 DEF IndInv, TypeOK, GetReadIdx
  <2>3. \A s \in Slots : thr_read'[s] = thr_read[s] \/ thr_read'[s] = read_idx
    BY DEF IndInv, TypeOK, GetReadIdx
  <2>4. read_idx \notin DOMAIN popped /\ read_idx' >= read_idx
    BY <2>1 DEF IndInv, TypeOK, GetReadIdx
  <2>5. ASSUME NEW u \in Threads
        PROVE  /\ pc'[u] \in {"getWritable", "construct"} => WIdx(u)' \notin DOMAIN pushed
               /\ pc'[u] = "commitWrite" => /\ WIdx(u)' \in DOMAIN pushed
                                            /\ data[Blk(WIdx(u)')] = pushed[WIdx(u)']
               /\ pc'[u] \in {"getReadable", "moveOut"} => RIdx(u)' \notin DOMAIN popped
               /\ pc'[u] = "commitRead" => RIdx(u)' \in DOMAIN popped
    BY <1>0, <2>2 DEF IndInv, TypeOK, InvHistory, GetReadIdx
  <2>6. ASSUME NEW s \in Slots
        PROVE  /\ thr_write[s] \in DOMAIN pushed
                    => \E u \in Threads : /\ tids[s] = u /\ cur'[u] = s
                                          /\ op'[u] = "tryPush" /\ pc'[u] = "commitWrite"
               /\ thr_read'[s] \in DOMAIN popped
                    => \E u \in Threads : /\ tids[s] = u /\ cur'[u] = s
                                          /\ op'[u] = "tryPop" /\ pc'[u] = "commitRead"
    BY <1>0, <2>3, <2>4 DEF IndInv, InvHistory, GetReadIdx
  <2>7. \A n \in DOMAIN popped : n < read_idx'
    BY <2>1, <2>4 DEF IndInv, TypeOK, GetReadIdx
  <2>. QED BY <2>1, <2>5, <2>6, <2>7 DEF IndInv, InvHistory, Blk, GetReadIdx
<1>. QED BY <1>1, <1>2, <1>3, <1>4, <1>5, <1>6, <1>7, <1>8 DEF IndInv

\* getReadable() succeeds only when the stat word is the complement of the ticket.
LEMMA GetReadableStep ==
  ASSUME IndInv, NEW t \in Threads, GetReadable(t)
  PROVE  IndInv'
<1> USE DEF ringvars, tblvars, histvars, Points, ProbePoints, WritePoints, ReadPoints, HoldsWrite, HoldsRead
<1>0. \A u \in Threads : u # t
        => /\ pc'[u] = pc[u] /\ op'[u] = op[u] /\ cur'[u] = cur[u]
           /\ HoldsWrite(u) => WIdx(u)' = WIdx(u)
           /\ HoldsRead(u) => RIdx(u)' = RIdx(u)
  BY DEF IndInv, TypeOK, InvControl, InvEntry, WIdx, RIdx, GetReadable
<1>1. TypeOK'
  BY ModInSlots, BlkInBlocks, ThreadsAssumption, ThrSizeAssumption DEF IndInv, TypeOK, Ops, GetReadable
<1>2. InvControl'
  BY DEF IndInv, TypeOK, InvControl, GetReadable
<1>3. InvEntry'
  BY DEF IndInv, TypeOK, InvControl, InvEntry, GetReadable
<1>4. InvWriteTickets'
  BY DEF IndInv, TypeOK, InvControl, InvEntry, InvWriteTickets, GetReadable
<1>5. InvReadTickets'
  BY DEF IndInv, TypeOK, InvControl, InvEntry, InvReadTickets, GetReadable
<1>6. InvAccess'
  BY WriteTicket, ReadTicket, NotFacts DEF IndInv, TypeOK, InvControl, InvEntry, InvAccess, WIdx, RIdx, Writing, Reading, GetReadable
<1>7. InvBlocks'
  BY WriteTicket, ReadTicket, NotFacts DEF IndInv, TypeOK, InvControl, InvEntry, InvBlocks, WIdx, RIdx, GetReadable
<1>8. InvHistory'
  BY WriteTicket, ReadTicket, NotFacts DEF IndInv, TypeOK, InvControl, InvEntry, InvHistory, WIdx, RIdx, GetReadable
<1>. QED BY <1>1, <1>2, <1>3, <1>4, <1>5, <1>6, <1>7, <1>8 DEF IndInv

\* Moving the element out records the pop of the caller's own ticket.
LEMMA MoveOutStep ==
  ASSUME IndInv, NEW t \in Threads, MoveOut(t)
  PROVE  IndInv'
<1> USE DEF ringvars, tblvars, histvars, Points, ProbePoints, WritePoints, ReadPoints, HoldsWrite, HoldsRead
<1>0. \A u \in Threads : u # t
        => /\ pc'[u] = pc[u] /\ op'[u] = op[u] /\ cur'[u] = cur[u]
           /\ HoldsWrite(u) => WIdx(u)' = WIdx(u)
           /\ HoldsRead(u) => RIdx(u)' = RIdx(u)
  BY DEF IndInv, TypeOK, InvControl, InvEntry, WIdx, RIdx, MoveOut, Spec_TQ!Put
<1>t. /\ RIdx(t) \in Nat /\ RIdx(t) < read_idx /\ Blk(RIdx(t)) \in Blocks
      /\ \A u \in Threads : HoldsRead(u) /\ RIdx(u) = RIdx(t) => u = t
  BY ReadTicket DEF MoveOut
<1>1. TypeOK'
  <2>1. RIdx(t) \in Nat
    BY ReadTicket DEF MoveOut
  <2>. QED BY <2>1 DEF IndInv, TypeOK, MoveOut, Spec_TQ!Put
<1>2. InvControl'
  BY DEF IndInv, TypeOK, InvControl, MoveOut, Spec_TQ!Put
<1>3. InvEntry'
  BY DEF IndInv, TypeOK, InvControl, InvEntry, MoveOut, Spec_TQ!Put
<1>4. InvWriteTickets'
  BY DEF IndInv, TypeOK, InvControl, InvEntry, InvWriteTickets, MoveOut, Spec_TQ!Put
<1>5. InvReadTickets'
  BY DEF IndInv, TypeOK, InvControl, InvEntry, InvReadTickets, MoveOut, Spec_TQ!Put
<1>6. InvAccess'
  BY WriteTicket, ReadTicket, NotFacts DEF IndInv, TypeOK, InvControl, InvEntry, InvAccess, WIdx, RIdx, Writing, Reading, MoveOut, Spec_TQ!Put
<1>7. InvBlocks'
  BY WriteTicket, ReadTicket, NotFacts DEF IndInv, TypeOK, InvControl, InvEntry, InvBlocks, WIdx, RIdx, MoveOut, Spec_TQ!Put
<1>8. InvHistory'
  <2>1. /\ WIdx(t)' = WIdx(t) /\ RIdx(t)' = RIdx(t)
        /\ pc[t] = "moveOut" /\ pc'[t] = "commitRead"
        /\ DOMAIN popped' = DOMAIN popped \cup {RIdx(t)}
    BY DEF IndInv, TypeOK, WIdx, RIdx, MoveOut, Spec_TQ!Put
  <2>2. \A u \in Threads : u # t /\ HoldsRead(u) => RIdx(u) # RIdx(t)
    BY <1>t
  <2>3. ASSUME NEW u \in Threads
        PROVE  /\ pc'[u] \in {"getWritable", "construct"} => WIdx(u)' \notin DOMAIN pushed
               /\ pc'[u] = "commitWrite" => /\ WIdx(u)' \in DOMAIN pushed
                                            /\ data[Blk(WIdx(u)')] = pushed[WIdx(u)']
               /\ pc'[u] \in {"getReadable", "moveOut"} => RIdx(u)' \notin DOMAIN popped'
               /\ pc'[u] = "commitRead" => RIdx(u)' \in DOMAIN popped'
    BY <1>0, <2>1, <2>2 DEF IndInv, InvHistory
  <2>4. ASSUME NEW s \in Slots, thr_read[s] \in DOMAIN popped'
        PROVE  \E u \in Threads : /\ tids[s] = u /\ cur'[u] = s
                                  /\ op'[u] = "tryPop" /\ pc'[u] = "commitRead"
    <3>1. CASE thr_read[s] = RIdx(t)
      <4>1. op[t] = "tryPop" /\ cur[t] = s
        BY <1>t, <2>1, <3>1 DEF IndInv, TypeOK, InvControl, InvReadTickets, RIdx
      <4>2. tids[s] = t
        BY <2>1, <4>1 DEF IndInv, InvEntry
      <4>. QED BY <2>1, <4>1, <4>2 DEF MoveOut
    <3>2. CASE thr_read[s] # RIdx(t)
      BY <1>0, <2>1, <2>4, <3>2 DEF IndInv, InvHistory
    <3>. QED BY <3>1, <3>2
  <2>5. ASSUME NEW s \in Slots, thr_write[s] \in DOMAIN pushed
        PROVE  \E u \in Threads : /\ tids[s] = u /\ cur'[u] = s
                                  /\ op'[u] = "tryPush" /\ pc'[u] = "commitWrite"
    BY <1>0, <2>1, <2>5 DEF IndInv, InvHistory
  <2>6. \A n \in DOMAIN popped' : n \in Nat /\ n < read_idx
    BY <1>t, <2>1 DEF IndInv, InvHistory
  <2>. QED BY <2>3, <2>4, <2>5, <2>6 DEF IndInv, InvHistory, Blk, MoveOut
<1>. QED BY <1>1, <1>2, <1>3, <1>4, <1>5, <1>6, <1>7, <1>8 DEF IndInv

\* commitRead() destroys the element and frees the block for the ticket one lap on,
\* whose predecessor SIZE tickets before has just been popped.
LEMMA CommitReadStep ==
  ASSUME IndInv, NEW t \in Threads, CommitRead(t)
  PROVE  IndInv'
<1> USE DEF ringvars, tblvars, histvars, Points, ProbePoints, WritePoints, ReadPoints, HoldsWrite, HoldsRead
<1>0. \A u \in Threads : u # t
        => /\ pc'[u] = pc[u] /\ op'[u] = op[u] /\ cur'[u] = cur[u]
           /\ HoldsWrite(u) => WIdx(u)' = WIdx(u)
           /\ HoldsRead(u) => RIdx(u)' = RIdx(u)
  BY DEF IndInv, TypeOK, InvControl, InvEntry, WIdx, RIdx, CommitRead, DropReadTicket
<1>t. /\ RIdx(t) \in Nat /\ RIdx(t) < read_idx /\ Blk(RIdx(t)) \in Blocks
      /\ \A u \in Threads : HoldsRead(u) /\ RIdx(u) = RIdx(t) => u = t
  BY ReadTicket DEF CommitRead
<1>1. TypeOK'
  <2>1. stat' \in [Blocks -> Int]
    <3>1. RIdx(t) + SIZE \in Int
      BY <1>t, SizeAssumption
    <3>. QED BY <3>1 DEF IndInv, TypeOK, CommitRead
  <2>2. thr_read' \in [Slots -> Int] /\ loc_idx' \in [Threads -> Int]
    BY DEF IndInv, TypeOK, CommitRead, DropReadTicket
  <2>3. data' \in [Blocks -> Values \cup {Raw}] /\ pc' \in [Threads -> Points]
    BY DEF IndInv, TypeOK, CommitRead
  <2>. QED BY <2>1, <2>2, <2>3 DEF IndInv, TypeOK, CommitRead
<1>2. InvControl'
  BY DEF IndInv, TypeOK, InvControl, CommitRead, DropReadTicket
<1>3. InvEntry'
  BY DEF IndInv, TypeOK, InvControl, InvEntry, CommitRead, DropReadTicket
<1>4. InvWriteTickets'
  BY DEF IndInv, TypeOK, InvControl, InvEntry, InvWriteTickets, CommitRead, DropReadTicket
<1>5. InvReadTickets'
  <2>1. CASE op[t] = "tryPop"
    <3>1. /\ \A s \in Slots : thr_read'[s] = IF s = cur[t] THEN -1 ELSE thr_read[s]
          /\ loc_idx' = loc_idx
      BY <2>1 DEF IndInv, TypeOK, CommitRead, DropReadTicket
    <3>2. \A u \in Threads : HoldsRead(u)' /\ op'[u] = "pop"
                               => HoldsRead(u) /\ op[u] = "pop" /\ loc_idx[u] >= 0
      BY <1>0 DEF IndInv, TypeOK, InvControl, CommitRead
    <3>. QED BY <3>1, <3>2 DEF IndInv, TypeOK, InvReadTickets, CommitRead
  <2>2. CASE op[t] # "tryPop"
    BY <2>2 DEF IndInv, TypeOK, InvControl, InvReadTickets, CommitRead, DropReadTicket
  <2>. QED BY <2>1, <2>2
<1>6. InvAccess'
  <2>1. pc'[t] = "idle"
    BY DEF IndInv, TypeOK, CommitRead
  <2>2. ASSUME NEW u \in Threads, u # t
        PROVE  /\ Writing(u) => /\ Blk(WIdx(u)) \in Blocks
                                /\ Blk(WIdx(u)) # Blk(RIdx(t))
               /\ Reading(u) => /\ Blk(RIdx(u)) \in Blocks
                                /\ Blk(RIdx(u)) # Blk(RIdx(t))
    BY <2>2, WriteTicket, ReadTicket, RaceFreedom
       DEF NoDataRace, Writing, Reading, Touched, CommitRead
  <2>3. \A b \in Blocks : b # Blk(RIdx(t)) => stat'[b] = stat[b]
    BY DEF IndInv, TypeOK, CommitRead
  <2>4. ASSUME NEW u \in Threads, u # t
        PROVE  /\ Writing(u)' => stat'[Blk(WIdx(u)')] = WIdx(u)'
               /\ Reading(u)' => stat'[Blk(RIdx(u)')] = Not(RIdx(u)')
    BY <1>0, <2>2, <2>3, <2>4 DEF IndInv, InvAccess, Writing, Reading
  <2>. QED BY <2>1, <2>4 DEF InvAccess, Writing, Reading, Blk, Not
<1>7. InvBlocks'
  <2>1. /\ pc'[t] = "idle"
        /\ stat'[Blk(RIdx(t))] = RIdx(t) + SIZE
        /\ data'[Blk(RIdx(t))] = Raw
        /\ \A b \in Blocks : b # Blk(RIdx(t)) => stat'[b] = stat[b] /\ data'[b] = data[b]
        /\ pushed' = pushed /\ popped' = popped
    BY <1>t DEF IndInv, TypeOK, CommitRead
  <2>2. RIdx(t) \in DOMAIN popped /\ RIdx(t) + SIZE - SIZE = RIdx(t) /\ ~(RIdx(t) + SIZE < 0)
    BY <1>t, SizeAssumption DEF IndInv, InvHistory, CommitRead
  <2>3. ASSUME NEW b \in Blocks
        PROVE  /\ stat'[b] < 0 => /\ Not(stat'[b]) \in DOMAIN pushed
                                  /\ data'[b] = pushed[Not(stat'[b])]
               /\ stat'[b] >= SIZE => stat'[b] - SIZE \in DOMAIN popped
    <3>1. CASE b = Blk(RIdx(t))
      BY <1>t, <2>1, <2>2, <3>1, SizeAssumption
    <3>2. CASE b # Blk(RIdx(t))
      BY <2>1, <3>2 DEF IndInv, InvBlocks
    <3>. QED BY <3>1, <3>2
  <2>4. ASSUME NEW b \in Blocks, stat'[b] >= 0
        PROVE  \/ data'[b] = Raw
               \/ \E u \in Threads : pc'[u] = "commitWrite" /\ Blk(WIdx(u)') = b
    <3>1. CASE b = Blk(RIdx(t))
      BY <2>1, <3>1
    <3>2. CASE b # Blk(RIdx(t))
      <4>1. ASSUME NEW u \in Threads, pc[u] = "commitWrite"
            PROVE  u # t /\ pc'[u] = "commitWrite" /\ WIdx(u)' = WIdx(u)
        BY <1>0, <4>1 DEF CommitRead
      <4>. QED BY <2>1, <2>4, <3>2, <4>1 DEF IndInv, InvBlocks
    <3>. QED BY <3>1, <3>2
  <2>. QED BY <2>1, <2>3, <2>4 DEF InvBlocks, Not, Blk
<1>8. InvHistory'
  <2>1. /\ pc[t] = "commitRead" /\ pc'[t] = "idle"
        /\ pushed' = pushed /\ popped' = popped /\ tids' = tids
        /\ write_idx' = write_idx /\ read_idx' = read_idx /\ thr_write' = thr_write
        /\ \A b \in Blocks : b # Blk(RIdx(t)) => data'[b] = data[b]
    BY DEF IndInv, TypeOK, CommitRead
  <2>2. \A s \in Slots : thr_read'[s] \in DOMAIN popped
                           => thr_read[s] \in DOMAIN popped /\ tids[s] # t
    <3>1. CASE op[t] = "tryPop"
      <4>1. -1 \notin DOMAIN popped
        BY DEF IndInv, InvHistory
      <4>2. \A s \in Slots : thr_read'[s] = IF s = cur[t] THEN -1 ELSE thr_read[s]
        BY <3>1 DEF IndInv, TypeOK, CommitRead, DropReadTicket
      <4>. QED BY <4>1, <4>2 DEF IndInv, InvHistory
    <3>2. CASE op[t] # "tryPop"
      BY <3>2 DEF IndInv, InvHistory, CommitRead, DropReadTicket
    <3>. QED BY <3>1, <3>2
  <2>3. \A u \in Threads : pc[u] = "commitWrite" => /\ Blk(WIdx(u)) \in Blocks
                                                    /\ Blk(WIdx(u)) # Blk(RIdx(t))
    BY <2>1, WriteTicket, RaceFreedom DEF NoDataRace, Writing, Reading, Touched
  <2>4. ASSUME NEW u \in Threads
        PROVE  /\ pc'[u] \in {"getWritable", "construct"} => WIdx(u)' \notin DOMAIN pushed
               /\ pc'[u] = "commitWrite" => /\ WIdx(u)' \in DOMAIN pushed
                                            /\ data'[Blk(WIdx(u)')] = pushed[WIdx(u)']
               /\ pc'[u] \in {"getReadable", "moveOut"} => RIdx(u)' \notin DOMAIN popped
               /\ pc'[u] = "commitRead" => RIdx(u)' \in DOMAIN popped
    BY <1>0, <2>1, <2>3 DEF IndInv, InvHistory
  <2>5. ASSUME NEW s \in Slots
        PROVE  /\ thr_write[s] \in DOMAIN pushed
                    => \E u \in Threads : /\ tids[s] = u /\ cur'[u] = s
                                          /\ op'[u] = "tryPush" /\ pc'[u] = "commitWrite"
               /\ thr_read'[s] \in DOMAIN popped
                    => \E u \in Threads : /\ tids[s] = u /\ cur'[u] = s
                                          /\ op'[u] = "tryPop" /\ pc'[u] = "commitRead"
    BY <1>0, <2>1, <2>2 DEF IndInv, InvHistory
  <2>. QED BY <2>1, <2>4, <2>5 DEF IndInv, InvHistory, Blk
<1>. QED BY <1>1, <1>2, <1>3, <1>4, <1>5, <1>6, <1>7, <1>8 DEF IndInv

-----------------------------------------------------------------------------
(* Safety theorems. *)

\* The constructor establishes the invariant.
LEMMA IndInvInit == Init => IndInv
<1> SUFFICES ASSUME Init PROVE IndInv
  OBVIOUS
<1> USE DEF Init, HoldsWrite, HoldsRead, Writing, Reading,
            Points, ProbePoints, WritePoints, ReadPoints
<1>1. 0 \in Slots /\ Blocks \subseteq Nat
  BY SizeAssumption, ThrSizeAssumption DEF Slots, Blocks
<1>2. TypeOK
  BY <1>1, ThrSizeAssumption DEF TypeOK, Ops, Spec_TQ!EmptyFcn
<1>3. InvControl /\ InvEntry
  BY DEF InvControl, InvEntry
<1>4. InvWriteTickets /\ InvReadTickets
  BY DEF InvWriteTickets, InvReadTickets
<1>5. InvAccess /\ InvBlocks
  BY <1>1, SizeAssumption DEF InvAccess, InvBlocks, Blocks
<1>6. InvHistory
  BY DEF InvHistory, Spec_TQ!EmptyFcn
<1>. QED BY <1>2, <1>3, <1>4, <1>5, <1>6 DEF IndInv

\* Every step of every thread, and stuttering, preserves the invariant.
LEMMA IndInvNext == IndInv /\ [Next]_vars => IndInv'
<1> SUFFICES ASSUME IndInv, [Next]_vars PROVE IndInv'
  OBVIOUS
<1>1. CASE UNCHANGED vars
  BY <1>1 DEF IndInv, vars, ringvars, tblvars, thrvars, histvars, TypeOK, InvControl,
     InvEntry, InvWriteTickets, InvReadTickets, InvAccess, InvBlocks, InvHistory,
     HoldsWrite, HoldsRead, Writing, Reading, WIdx, RIdx
<1>2. ASSUME NEW t \in Threads, Call(t)
      PROVE  IndInv'
  BY <1>2, EmplaceStep, TryPushStep, PopStep, TryPopStep DEF Call
<1>3. ASSUME NEW t \in Threads, Step(t)
      PROVE  IndInv'
  BY <1>3, ProbeStep, ClaimStep, TableFullStep, GetWriteIdxStep, GetWritableStep,
     ConstructStep, CommitWriteStep, GetReadIdxStep, GetReadableStep, MoveOutStep,
     CommitReadStep DEF Step
<1>. QED BY <1>1, <1>2, <1>3 DEF Next

\* IndInv is an invariant of the queue for every size, table size and set of threads.
LEMMA Invariance == Spec => []IndInv
  BY IndInvInit, IndInvNext, PTL DEF Spec

\* Every index, ticket, table entry and stat word stays in its type.
THEOREM TypeCorrect == Spec => []TypeOK
<1>1. IndInv => TypeOK
  BY DEF IndInv
<1>. QED BY <1>1, Invariance, PTL

\* Between a successful getWritable()/getReadable() and the commit that follows
\* it, no other thread touches the block: the lock-free queue has no data race
\* on the elements, for any number of threads, blocks and table entries.
THEOREM RaceFree == Spec => []NoDataRace
  BY Invariance, RaceFreedom, PTL

\* getWritable() returns unconstructed memory: emplace() never constructs over a
\* live element.
THEOREM NothingOverwritten == Spec => []WritableIsRaw
<1>1. ASSUME IndInv, NEW t \in Threads, pc[t] = "construct"
      PROVE  data[Blk(WIdx(t))] = Raw
  <2>1. /\ WIdx(t) \in Nat /\ Blk(WIdx(t)) \in Blocks
        /\ stat[Blk(WIdx(t))] = WIdx(t)
    BY <1>1, WriteTicket DEF IndInv, InvAccess, HoldsWrite, Writing
  <2>2. ASSUME NEW u \in Threads, pc[u] = "commitWrite"
        PROVE  Blk(WIdx(u)) # Blk(WIdx(t))
    BY <1>1, <2>2, RaceFreedom DEF NoDataRace, Writing, Reading, Touched
  <2>. QED BY <1>1, <2>1, <2>2 DEF IndInv, InvBlocks
<1>2. IndInv => WritableIsRaw
  BY <1>1 DEF WritableIsRaw
<1>. QED BY <1>2, Invariance, PTL

-----------------------------------------------------------------------------
(* Refinement: the queue implements the ticket FIFO. *)

\* new T(...) is the push of the thread's ticket: the pop of one lap before has
\* happened, because the stat word of the block has come round to this ticket.
LEMMA ConstructPushes ==
  ASSUME IndInv, NEW t \in Threads, Construct(t)
  PROVE  Spec_TQ!TQNext
<1>1. /\ WIdx(t) \in Nat /\ WIdx(t) < write_idx
      /\ Blk(WIdx(t)) \in Blocks /\ stat[Blk(WIdx(t))] = WIdx(t)
  BY WriteTicket DEF IndInv, InvAccess, HoldsWrite, Writing, Construct
<1>2. arg[t] \in Values
  BY DEF IndInv, InvControl, WritePoints, Construct
<1>3. WIdx(t) \notin DOMAIN pushed
  BY DEF IndInv, InvHistory, Construct
<1>4. WIdx(t) >= SIZE => WIdx(t) - SIZE \in DOMAIN popped
  BY <1>1 DEF IndInv, InvBlocks
<1>5. Spec_TQ!PushTicket(WIdx(t), arg[t])
  BY <1>1, <1>3, <1>4 DEF Spec_TQ!PushTicket, Construct
<1>6. WIdx(t) \in 0..(write_idx - 1)
  BY <1>1 DEF IndInv, TypeOK
<1>. QED BY <1>2, <1>5, <1>6 DEF Spec_TQ!TQNext

\* std::move(*data) is the pop of the thread's ticket: the block holds the value
\* pushed under that very ticket.
LEMMA MoveOutPops ==
  ASSUME IndInv, NEW t \in Threads, MoveOut(t)
  PROVE  Spec_TQ!TQNext
<1>1. /\ RIdx(t) \in Nat /\ RIdx(t) < read_idx
      /\ Blk(RIdx(t)) \in Blocks /\ stat[Blk(RIdx(t))] = Not(RIdx(t))
  BY ReadTicket DEF IndInv, InvAccess, HoldsRead, Reading, MoveOut
<1>2. Not(RIdx(t)) < 0 /\ Not(Not(RIdx(t))) = RIdx(t)
  BY <1>1, NotFacts
<1>3. RIdx(t) \in DOMAIN pushed /\ data[Blk(RIdx(t))] = pushed[RIdx(t)]
  BY <1>1, <1>2 DEF IndInv, InvBlocks
<1>4. RIdx(t) \notin DOMAIN popped
  BY DEF IndInv, InvHistory, MoveOut
<1>5. Spec_TQ!PopTicket(RIdx(t))
  BY <1>1, <1>3, <1>4 DEF Spec_TQ!PopTicket, MoveOut, ringvars
<1>6. RIdx(t) \in 0..(read_idx - 1)
  BY <1>1 DEF IndInv, TypeOK
<1>. QED BY <1>5, <1>6 DEF Spec_TQ!TQNext

\* Every step of the queue is a step of the ticket FIFO or leaves it alone.
LEMMA StepSimulation == IndInv /\ [Next]_vars => [Spec_TQ!TQNext]_Spec_TQ!tqvars
<1> USE DEF ringvars, tblvars, thrvars, histvars, Spec_TQ!tqvars
<1> SUFFICES ASSUME IndInv, [Next]_vars
             PROVE  Spec_TQ!TQNext \/ UNCHANGED Spec_TQ!tqvars
  OBVIOUS
<1>1. CASE UNCHANGED vars
  BY <1>1 DEF vars
<1>2. ASSUME NEW t \in Threads, Call(t)
      PROVE  UNCHANGED Spec_TQ!tqvars
  BY <1>2 DEF Call, Emplace, TryPush, Pop, TryPop
<1>3. ASSUME NEW t \in Threads, Step(t)
      PROVE  Spec_TQ!TQNext \/ UNCHANGED Spec_TQ!tqvars
  <2>1. CASE Construct(t)
    BY <2>1, ConstructPushes
  <2>2. CASE MoveOut(t)
    BY <2>2, MoveOutPops
  <2>3. CASE GetWriteIdx(t)
    BY <2>3 DEF GetWriteIdx, Spec_TQ!TQNext, Spec_TQ!IssueWrite
  <2>4. CASE GetReadIdx(t)
    BY <2>4 DEF GetReadIdx, Spec_TQ!TQNext, Spec_TQ!IssueRead
  <2>5. CASE Probe(t) \/ Claim(t) \/ TableFull(t) \/ GetWritable(t) \/ GetReadable(t)
    BY <2>5 DEF Probe, Claim, TableFull, GetWritable, GetReadable
  <2>6. CASE CommitWrite(t) \/ CommitRead(t)
    BY <2>6 DEF CommitWrite, CommitRead
  <2>. QED BY <1>3, <2>1, <2>2, <2>3, <2>4, <2>5, <2>6 DEF Step
<1>. QED BY <1>1, <1>2, <1>3 DEF Next

\* The lock-free ring is a FIFO of capacity SIZE in ticket order: the value pushed
\* under a ticket is popped under the same ticket, once, and a push waits for the
\* pop of the ticket one lap before.
THEOREM Refinement == Spec => ImplementsTicketQueue
<1>1. Init => Spec_TQ!TQInit
  BY DEF Init, Spec_TQ!TQInit
<1>. QED BY <1>1, Invariance, StepSimulation, PTL DEF Spec, ImplementsTicketQueue, Spec_TQ!TQSpec

-----------------------------------------------------------------------------
(* The thread table: open addressing in tids[]. *)

\* cur = (cur + 1) % THR_SIZE goes to the next entry and wraps at the end.
LEMMA NextSlot ==
  \A c \in Slots : (c + 1) % THR_SIZE = IF c + 1 = THR_SIZE THEN 0 ELSE c + 1
  BY ThrSizeAssumption DEF Slots

\* Every entry is the k-th that a thread looks at for exactly one k < THR_SIZE, and
\* the entry after the k-th is the k+1-st.
LEMMA ProbeOrder ==
  ASSUME NEW t \in Threads
  PROVE  /\ t % THR_SIZE \in Slots
         /\ ProbesTo(t, t % THR_SIZE) = 0
         /\ \A s \in Slots : ProbesTo(t, s) \in 0..(THR_SIZE - 1)
         /\ \A s, r \in Slots : ProbesTo(t, s) = ProbesTo(t, r) => s = r
         /\ \A s \in Slots : ProbesTo(t, s) + 1 < THR_SIZE
              => ProbesTo(t, (s + 1) % THR_SIZE) = ProbesTo(t, s) + 1
<1>1. t % THR_SIZE \in Slots
  BY ModInSlots, ThreadsAssumption
<1> DEFINE h == t % THR_SIZE
<1> HIDE DEF h
<1>2. h \in Slots /\ \A s : ProbesTo(t, s) = IF s >= h THEN s - h ELSE s + THR_SIZE - h
  BY <1>1 DEF h, ProbesTo
<1>3. /\ ProbesTo(t, h) = 0
      /\ \A s \in Slots : ProbesTo(t, s) \in 0..(THR_SIZE - 1)
      /\ \A s, r \in Slots : ProbesTo(t, s) = ProbesTo(t, r) => s = r
  BY <1>2, ThrSizeAssumption DEF Slots
<1>4. \A s \in Slots : ProbesTo(t, s) + 1 < THR_SIZE
        => ProbesTo(t, (s + 1) % THR_SIZE) = ProbesTo(t, s) + 1
  BY <1>2, NextSlot, ThrSizeAssumption DEF Slots
<1>. QED BY <1>1, <1>3, <1>4 DEF h

\* A probe that starts has passed no entry.
LEMMA StartProbeKeepsProbe ==
  ASSUME IndInv, InvProbe, NEW t \in Threads, pc[t] = "idle", StartProbe(t), UNCHANGED tids
  PROVE  InvProbe'
<1>1. /\ pc'[t] = "getThrIdx" /\ cur'[t] = t % THR_SIZE /\ cnt'[t] = THR_SIZE
      /\ \A u \in Threads : u # t => pc'[u] = pc[u] /\ cur'[u] = cur[u] /\ cnt'[u] = cnt[u]
  BY DEF IndInv, TypeOK, StartProbe
<1>2. \A s \in Slots : ProbesTo(t, s) \in 0..(THR_SIZE - 1)
  BY ProbeOrder
<1>3. ASSUME NEW u \in Threads
      PROVE  /\ pc'[u] \in ProbePoints
                  => /\ cnt'[u] > 0 => ProbesTo(u, cur'[u]) = THR_SIZE - cnt'[u]
                     /\ \A s \in Slots : ProbesTo(u, s) < THR_SIZE - cnt'[u]
                                           => tids[s] \notin {0, u}
             /\ pc'[u] = "claim" => tids[cur'[u]] # u
  <2>1. CASE u = t
    BY <1>1, <1>2, <2>1, ProbeOrder, ThrSizeAssumption
  <2>2. CASE u # t
    BY <1>1, <2>2 DEF InvProbe
  <2>. QED BY <2>1, <2>2
<1>. QED BY <1>3 DEF InvProbe, ProbesTo

\* A probe that goes on has passed one entry more, which belongs to another thread.
LEMMA NextProbeKeepsProbe ==
  ASSUME IndInv, InvProbe, NEW t \in Threads, pc[t] \in ProbePoints, cnt[t] > 0,
         tids[cur[t]] \notin {0, t}, NextProbe(t), UNCHANGED tids
  PROVE  InvProbe'
<1>1. /\ pc'[t] = "getThrIdx" /\ cur'[t] = (cur[t] + 1) % THR_SIZE /\ cnt'[t] = cnt[t] - 1
      /\ \A u \in Threads : u # t => pc'[u] = pc[u] /\ cur'[u] = cur[u] /\ cnt'[u] = cnt[u]
  BY DEF IndInv, TypeOK, NextProbe
<1>2. cur[t] \in Slots /\ cnt[t] \in 1..THR_SIZE
  BY ThrSizeAssumption DEF IndInv, TypeOK
<1>3. ProbesTo(t, cur[t]) = THR_SIZE - cnt[t]
  BY DEF InvProbe
<1>4. cnt'[t] > 0 => ProbesTo(t, cur'[t]) = THR_SIZE - cnt'[t]
  BY <1>1, <1>2, <1>3, ProbeOrder, ThrSizeAssumption
<1>5. ASSUME NEW s \in Slots, ProbesTo(t, s) < THR_SIZE - cnt'[t]
      PROVE  tids[s] \notin {0, t}
  <2>1. CASE ProbesTo(t, s) = THR_SIZE - cnt[t]
    BY <1>2, <1>3, <2>1, ProbeOrder
  <2>2. CASE ProbesTo(t, s) < THR_SIZE - cnt[t]
    BY <2>2 DEF InvProbe
  <2>. QED BY <1>1, <1>2, <1>5, <2>1, <2>2, ProbeOrder, ThrSizeAssumption
<1>6. ASSUME NEW u \in Threads
      PROVE  /\ pc'[u] \in ProbePoints
                  => /\ cnt'[u] > 0 => ProbesTo(u, cur'[u]) = THR_SIZE - cnt'[u]
                     /\ \A s \in Slots : ProbesTo(u, s) < THR_SIZE - cnt'[u]
                                           => tids[s] \notin {0, u}
             /\ pc'[u] = "claim" => tids[cur'[u]] # u
  <2>1. CASE u = t
    BY <1>1, <1>4, <1>5, <2>1
  <2>2. CASE u # t
    BY <1>1, <2>2 DEF InvProbe
  <2>. QED BY <2>1, <2>2
<1>. QED BY <1>6 DEF InvProbe, ProbesTo

\* One load of tids[cur] in getThrIdx().
LEMMA ProbeKeepsProbe ==
  ASSUME IndInv, InvProbe, NEW t \in Threads, Probe(t)
  PROVE  InvProbe'
<1>1. pc[t] = "getThrIdx" /\ cnt[t] > 0 /\ tids' = tids
  BY DEF Probe, tblvars
<1>2. CASE tids[cur[t]] = t
  BY <1>1, <1>2, ThreadsAssumption
     DEF IndInv, TypeOK, InvProbe, ProbePoints, Probe, SlotFound, ProbesTo
<1>3. CASE tids[cur[t]] = 0
  BY <1>1, <1>3, ThreadsAssumption DEF IndInv, TypeOK, InvProbe, ProbePoints, Probe, ProbesTo
<1>4. CASE tids[cur[t]] \notin {0, t}
  BY <1>1, <1>4, NextProbeKeepsProbe DEF ProbePoints, Probe
<1>. QED BY <1>2, <1>3, <1>4

\* A thread that claims an entry owns no other one: on the way to that other one, or on
\* the way to the entry it claims, it would have had to pass a free entry or its own.
LEMMA ClaimKeepsProbe ==
  ASSUME IndInv, InvProbe, NEW t \in Threads, Claim(t)
  PROVE  InvProbe'
<1>1. /\ pc[t] = "claim" /\ cur[t] \in Slots /\ cnt[t] > 0 /\ cnt[t] \in 0..THR_SIZE
      /\ ProbesTo(t, cur[t]) = THR_SIZE - cnt[t]
      /\ \A s \in Slots : ProbesTo(t, s) < THR_SIZE - cnt[t] => tids[s] \notin {0, t}
  BY DEF IndInv, TypeOK, InvControl, InvProbe, ProbePoints, Claim
<1>2. CASE tids[cur[t]] = 0
  <2>1. /\ \A s \in Slots : tids'[s] = IF s = cur[t] THEN t ELSE tids[s]
        /\ pc'[t] \notin ProbePoints /\ cur' = cur /\ cnt' = cnt
        /\ \A u \in Threads : u # t => pc'[u] = pc[u]
    BY <1>1, <1>2 DEF IndInv, TypeOK, Claim, SlotFound, ProbePoints
  <2>2. \A s \in Slots : tids[s] # t
    <3>1. \A s \in Slots : ProbesTo(t, s) < ProbesTo(t, cur[t]) => tids[s] # t
      BY <1>1
    <3>2. \A s \in Slots : ProbesTo(t, cur[t]) < ProbesTo(t, s) => tids[s] # t
      BY <1>1, <1>2 DEF InvProbe
    <3>3. \A s \in Slots : ProbesTo(t, cur[t]) = ProbesTo(t, s) => tids[s] # t
      BY <1>1, <1>2, ProbeOrder, ThreadsAssumption
    <3>4. \A s \in Slots : ProbesTo(t, s) \in Int
      BY ProbeOrder
    <3>. QED BY <1>1, <3>1, <3>2, <3>3, <3>4
  <2>3. ASSUME NEW u \in Threads, NEW s \in Slots, tids[s] \notin {0, u}
        PROVE  tids'[s] \notin {0, u}
    BY <1>2, <2>1, <2>3
  <2>4. ASSUME NEW u \in Threads
        PROVE  /\ pc'[u] \in ProbePoints
                    => /\ cnt'[u] > 0 => ProbesTo(u, cur'[u]) = THR_SIZE - cnt'[u]
                       /\ \A s \in Slots : ProbesTo(u, s) < THR_SIZE - cnt'[u]
                                             => tids'[s] \notin {0, u}
               /\ pc'[u] = "claim" => tids'[cur'[u]] # u
    <3>1. CASE u = t
      BY <2>1, <3>1 DEF ProbePoints
    <3>2. CASE u # t
      BY <2>1, <2>3, <3>2 DEF IndInv, TypeOK, InvProbe
    <3>. QED BY <3>1, <3>2
  <2>5. ASSUME NEW u \in Threads, NEW s \in Slots, NEW r \in Slots,
               tids'[s] = u, ProbesTo(u, r) < ProbesTo(u, s)
        PROVE  tids'[r] \notin {0, u}
    <3>1. CASE u = t
      <4>1. s = cur[t]
        BY <2>1, <2>2, <2>5, <3>1
      <4>. QED BY <1>1, <2>3, <2>5, <3>1, <4>1
    <3>2. CASE u # t
      BY <2>1, <2>3, <2>5, <3>2 DEF InvProbe
    <3>. QED BY <3>1, <3>2
  <2>. QED BY <2>4, <2>5 DEF InvProbe, ProbesTo
<1>3. CASE tids[cur[t]] # 0
  <2>1. tids[cur[t]] # t
    BY <1>1 DEF InvProbe
  <2>. QED BY <1>1, <1>3, <2>1, NextProbeKeepsProbe DEF ProbePoints, Claim
<1>. QED BY <1>2, <1>3

\* The table invariant is inductive: only the steps of getThrIdx() touch the table.
LEMMA ProbeNext == IndInv /\ InvProbe /\ [Next]_vars => InvProbe'
<1> SUFFICES ASSUME IndInv, InvProbe, [Next]_vars PROVE InvProbe'
  OBVIOUS
<1> USE DEF ringvars, tblvars, thrvars, histvars, ProbePoints
<1>1. CASE UNCHANGED vars
  BY <1>1 DEF vars, InvProbe, ProbesTo
<1>2. ASSUME NEW t \in Threads, Call(t)
      PROVE  InvProbe'
  <2>1. CASE (\E v \in Values : TryPush(t, v)) \/ TryPop(t)
    BY <2>1, StartProbeKeepsProbe DEF TryPush, TryPop
  <2>2. CASE (\E v \in Values : Emplace(t, v)) \/ Pop(t)
    <3>1. /\ UNCHANGED <<tids, cur, cnt>> /\ pc'[t] \notin ProbePoints
          /\ \A u \in Threads : u # t => pc'[u] = pc[u]
      BY <2>2 DEF IndInv, TypeOK, Emplace, Pop
    <3>. QED BY <3>1 DEF InvProbe, ProbesTo
  <2>. QED BY <1>2, <2>1, <2>2 DEF Call
<1>3. ASSUME NEW t \in Threads, Step(t)
      PROVE  InvProbe'
  <2>1. CASE Probe(t)
    BY <2>1, ProbeKeepsProbe
  <2>2. CASE Claim(t)
    BY <2>2, ClaimKeepsProbe
  <2>3. CASE \/ TableFull(t) \/ GetWriteIdx(t) \/ GetWritable(t) \/ Construct(t) \/ CommitWrite(t)
             \/ GetReadIdx(t) \/ GetReadable(t) \/ MoveOut(t) \/ CommitRead(t)
    <3>1. /\ tids' = tids /\ cur' = cur /\ cnt' = cnt /\ pc'[t] \notin ProbePoints
          /\ \A u \in Threads : u # t => pc'[u] = pc[u]
      BY <2>3 DEF IndInv, TypeOK, TableFull, GetWriteIdx, GetWritable, Construct, CommitWrite,
                  GetReadIdx, GetReadable, MoveOut, CommitRead
    <3>. QED BY <3>1 DEF InvProbe, ProbesTo
  <2>. QED BY <1>3, <2>1, <2>2, <2>3 DEF Step
<1>. QED BY <1>1, <1>2, <1>3 DEF Next

\* Nobody owns an entry or probes for one.
LEMMA ProbeInit == Init => InvProbe
  BY ThreadsAssumption DEF Init, InvProbe, ProbePoints

\* InvProbe is an invariant.
LEMMA ProbeInvariance == Spec => []InvProbe
  BY ProbeInit, ProbeNext, Invariance, PTL DEF Spec

\* A thread that owned two entries would have passed the nearer one, its own.
LEMMA ProbeOneEntry == IndInv /\ InvProbe => OneEntryPerThread
<1> SUFFICES ASSUME IndInv, InvProbe PROVE OneEntryPerThread
  OBVIOUS
<1>1. ASSUME NEW s \in Slots, NEW r \in Slots, tids[s] = tids[r], tids[s] # 0
      PROVE  s = r
  <2>1. tids[s] \in Threads
    BY <1>1 DEF IndInv, TypeOK
  <2>2. /\ ~(ProbesTo(tids[s], r) < ProbesTo(tids[s], s))
        /\ ~(ProbesTo(tids[s], s) < ProbesTo(tids[s], r))
    BY <1>1, <2>1 DEF InvProbe
  <2>3. ProbesTo(tids[s], s) \in Int /\ ProbesTo(tids[s], r) \in Int
    BY <2>1, ProbeOrder
  <2>4. ProbesTo(tids[s], s) = ProbesTo(tids[s], r)
    BY <2>2, <2>3
  <2>. QED BY <2>1, <2>4, ProbeOrder
<1>2. ASSUME NEW t \in Threads, op[t] \in {"tryPush", "tryPop"},
             pc[t] \in WritePoints \cup ReadPoints
      PROVE  tids[cur[t]] = t
  BY <1>2 DEF IndInv, InvControl, InvEntry, WritePoints, ReadPoints
<1>. QED BY <1>1, <1>2 DEF OneEntryPerThread

\* getThrIdx() gives up after THR_SIZE probes, and these are all the entries.
LEMMA ProbeFull == IndInv /\ InvProbe => TurnedAwayOnlyWhenFull
<1> SUFFICES ASSUME IndInv, InvProbe,
                    NEW t \in Threads, pc[t] = "getThrIdx", cnt[t] = 0, NEW s \in Slots
             PROVE  tids[s] \notin {0, t}
  BY DEF TurnedAwayOnlyWhenFull
<1>1. ProbesTo(t, s) < THR_SIZE - cnt[t]
  BY ProbeOrder, ThrSizeAssumption
<1>. QED BY <1>1 DEF InvProbe, ProbePoints

\* No thread ever owns two entries of the table, whatever threads collide, and a try
\* call works on its own entry: no thread can lose or take over a kept ticket.
THEOREM OneEntry == Spec => []OneEntryPerThread
  BY Invariance, ProbeInvariance, ProbeOneEntry, PTL

\* getThrIdx() returns nullptr only to a thread for which there is no entry.
THEOREM TurnedAwayRightly == Spec => []TurnedAwayOnlyWhenFull
  BY Invariance, ProbeInvariance, ProbeFull, PTL

\* With an entry for every thread a probe never comes to its end: THR_SIZE entries would
\* have pairwise different owners among the other, fewer than THR_SIZE, threads.
LEMMA ProbeEnds ==
  ASSUME IsFiniteSet(Threads), Cardinality(Threads) <= THR_SIZE
  PROVE  IndInv /\ InvProbe => NeverTurnedAway
<1>1. ASSUME IndInv, InvProbe, NEW t \in Threads, pc[t] = "getThrIdx", cnt[t] = 0
      PROVE  FALSE
  <2>1. \A s \in Slots : tids[s] \in Threads \ {t}
    BY <1>1, ProbeFull DEF TurnedAwayOnlyWhenFull, IndInv, TypeOK
  <2>2. tids \in [Slots -> Threads \ {t}]
    BY <1>1, <2>1 DEF IndInv, TypeOK
  <2>3. /\ IsFiniteSet(Threads \ {t})
        /\ Cardinality(Threads \ {t}) = Cardinality(Threads) - 1
        /\ Cardinality(Threads) \in Nat
    BY FS_RemoveElement, FS_CardinalityType
  <2>4. IsFiniteSet(Slots) /\ Cardinality(Slots) = THR_SIZE
    <3>1. IsFiniteSet(0..(THR_SIZE - 1)) /\ Cardinality(0..(THR_SIZE - 1)) = THR_SIZE
      BY ThrSizeAssumption, FS_Interval
    <3>. QED BY <3>1 DEF Slots
  <2>5. Cardinality(Threads \ {t}) < Cardinality(Slots)
    BY <2>3, <2>4, ThrSizeAssumption
  <2>6. \E s, r \in Slots : s # r /\ tids[s] = tids[r]
    BY <2>2, <2>3, <2>4, <2>5, FS_PigeonHole
  <2>7. \A s \in Slots : tids[s] # 0
    BY <2>1, ThreadsAssumption
  <2>. QED BY <1>1, <2>6, <2>7, ProbeOneEntry DEF OneEntryPerThread
<1>. QED BY <1>1 DEF NeverTurnedAway, IndInv, TypeOK

\* "THR_SIZE must not be less than the max number of threads using tryPush/tryPop" is
\* enough: then no try call is ever turned away.
THEOREM TableSuffices ==
  ASSUME IsFiniteSet(Threads), Cardinality(Threads) <= THR_SIZE
  PROVE  Spec => []NeverTurnedAway
  BY ProbeEnds, Invariance, ProbeInvariance, PTL

-----------------------------------------------------------------------------
(* Tickets. *)

\* Starting a call and probing touch no ticket: the caller has none in its locals.
LEMMA OtherTickets ==
  ASSUME IndInv, InvTickets, UNCHANGED <<write_idx, read_idx, thr_write, thr_read, loc_idx>>,
         NEW t \in Threads, \A u \in Threads : u # t => op'[u] = op[u],
         op'[t] = op[t] \/ pc[t] = "idle",
         DOMAIN pushed \subseteq DOMAIN pushed', DOMAIN popped \subseteq DOMAIN popped'
  PROVE  InvTickets'
<1>1. \A u \in Threads : loc_idx[u] >= 0 => op'[u] = op[u]
  BY DEF IndInv, TypeOK, InvControl, HoldsWrite, HoldsRead
<1>. QED BY <1>1 DEF InvTickets

\* A ticket drawn goes to the caller's locals or its entry, where there was none.
LEMMA DrawTickets ==
  ASSUME IndInv, InvTickets, NEW t \in Threads, GetWriteIdx(t) \/ GetReadIdx(t)
  PROVE  InvTickets'
<1>1. CASE GetWriteIdx(t)
  <2>1. read_idx' = read_idx /\ thr_read' = thr_read /\ op' = op /\ pushed' = pushed /\ popped' = popped
    BY <1>1 DEF GetWriteIdx, histvars
  <2>2. loc_idx[t] = -1 /\ op[t] # "pop"
    BY <1>1 DEF IndInv, TypeOK, InvControl, HoldsWrite, HoldsRead, GetWriteIdx, WritePoints
  <2>3. \A u \in Threads : u # t => loc_idx'[u] = loc_idx[u]
    BY <1>1 DEF IndInv, TypeOK, GetWriteIdx
  <2>4. \A s \in Slots : thr_write[s] >= 0 => thr_write'[s] = thr_write[s]
    BY <1>1 DEF IndInv, TypeOK, GetWriteIdx
  <2>5. \A n \in 0..(write_idx' - 1) :
          \/ n \in 0..(write_idx - 1)
          \/ op[t] = "emplace" /\ loc_idx'[t] = n
          \/ \E s \in Slots : thr_write'[s] = n
    BY <1>1 DEF IndInv, TypeOK, GetWriteIdx
  <2>6. ASSUME NEW n \in 0..(write_idx - 1)
        PROVE  \/ n \in DOMAIN pushed
               \/ \E u \in Threads : op[u] = "emplace" /\ loc_idx'[u] = n
               \/ \E s \in Slots : thr_write'[s] = n
    <3>1. n >= 0
      OBVIOUS
    <3>. QED BY <2>2, <2>3, <2>4, <3>1 DEF InvTickets
  <2>7. \A n \in 0..(read_idx - 1) :
          \/ n \in DOMAIN popped
          \/ \E u \in Threads : op[u] = "pop" /\ loc_idx'[u] = n
          \/ \E s \in Slots : thr_read[s] = n
    BY <2>2, <2>3 DEF InvTickets
  <2>. QED BY <2>1, <2>5, <2>6, <2>7 DEF InvTickets
<1>2. CASE GetReadIdx(t)
  <2>1. write_idx' = write_idx /\ thr_write' = thr_write /\ op' = op /\ pushed' = pushed /\ popped' = popped
    BY <1>2 DEF GetReadIdx, histvars
  <2>2. loc_idx[t] = -1 /\ op[t] # "emplace"
    BY <1>2 DEF IndInv, TypeOK, InvControl, HoldsWrite, HoldsRead, GetReadIdx, ReadPoints
  <2>3. \A u \in Threads : u # t => loc_idx'[u] = loc_idx[u]
    BY <1>2 DEF IndInv, TypeOK, GetReadIdx
  <2>4. \A s \in Slots : thr_read[s] >= 0 => thr_read'[s] = thr_read[s]
    BY <1>2 DEF IndInv, TypeOK, GetReadIdx
  <2>5. \A n \in 0..(read_idx' - 1) :
          \/ n \in 0..(read_idx - 1)
          \/ op[t] = "pop" /\ loc_idx'[t] = n
          \/ \E s \in Slots : thr_read'[s] = n
    BY <1>2 DEF IndInv, TypeOK, GetReadIdx
  <2>6. ASSUME NEW n \in 0..(read_idx - 1)
        PROVE  \/ n \in DOMAIN popped
               \/ \E u \in Threads : op[u] = "pop" /\ loc_idx'[u] = n
               \/ \E s \in Slots : thr_read'[s] = n
    <3>1. n >= 0
      OBVIOUS
    <3>. QED BY <2>2, <2>3, <2>4, <3>1 DEF InvTickets
  <2>7. \A n \in 0..(write_idx - 1) :
          \/ n \in DOMAIN pushed
          \/ \E u \in Threads : op[u] = "emplace" /\ loc_idx'[u] = n
          \/ \E s \in Slots : thr_write[s] = n
    BY <2>2, <2>3 DEF InvTickets
  <2>. QED BY <2>1, <2>5, <2>6, <2>7 DEF InvTickets
<1>. QED BY <1>1, <1>2

\* A ticket is given up when it has been used: commitWrite() after the construction,
\* commitRead() after the move.
LEMMA CommitTickets ==
  ASSUME IndInv, InvTickets, NEW t \in Threads, CommitWrite(t) \/ CommitRead(t)
  PROVE  InvTickets'
<1>1. CASE CommitWrite(t)
  <2>1. /\ UNCHANGED <<write_idx, read_idx, thr_read, op, pushed, popped>>
        /\ WIdx(t) \in DOMAIN pushed /\ op[t] \in {"emplace", "tryPush"}
    BY <1>1 DEF IndInv, InvControl, InvHistory, WritePoints, CommitWrite, histvars
  <2>2. /\ \A u \in Threads : u # t => loc_idx'[u] = loc_idx[u]
        /\ \A s \in Slots : thr_write'[s] = thr_write[s] \/ thr_write[s] = WIdx(t)
        /\ op[t] = "emplace" => loc_idx[t] = WIdx(t)
        /\ op[t] = "tryPush" => loc_idx' = loc_idx
    BY <1>1 DEF IndInv, TypeOK, CommitWrite, DropWriteTicket, WIdx
  <2>. QED BY <2>1, <2>2 DEF InvTickets
<1>2. CASE CommitRead(t)
  <2>1. /\ UNCHANGED <<write_idx, read_idx, thr_write, op, pushed, popped>>
        /\ RIdx(t) \in DOMAIN popped /\ op[t] \in {"pop", "tryPop"}
    BY <1>2 DEF IndInv, InvControl, InvHistory, ReadPoints, CommitRead, histvars
  <2>2. /\ \A u \in Threads : u # t => loc_idx'[u] = loc_idx[u]
        /\ \A s \in Slots : thr_read'[s] = thr_read[s] \/ thr_read[s] = RIdx(t)
        /\ op[t] = "pop" => loc_idx[t] = RIdx(t)
        /\ op[t] = "tryPop" => loc_idx' = loc_idx
    BY <1>2 DEF IndInv, TypeOK, CommitRead, DropReadTicket, RIdx
  <2>. QED BY <2>1, <2>2 DEF InvTickets
<1>. QED BY <1>1, <1>2

\* InvTickets is inductive given IndInv.
LEMMA TicketsNext == IndInv /\ InvTickets /\ [Next]_vars => InvTickets'
<1> SUFFICES ASSUME IndInv, InvTickets, [Next]_vars PROVE InvTickets'
  OBVIOUS
<1> USE DEF ringvars, tblvars, thrvars, histvars
<1>1. CASE UNCHANGED vars
  BY <1>1 DEF vars, InvTickets
<1>2. ASSUME NEW t \in Threads, Call(t)
      PROVE  InvTickets'
  <2>1. /\ UNCHANGED <<write_idx, read_idx, thr_write, thr_read, loc_idx, pushed, popped>>
        /\ pc[t] = "idle" /\ \A u \in Threads : u # t => op'[u] = op[u]
    BY <1>2 DEF IndInv, TypeOK, Call, Emplace, TryPush, Pop, TryPop
  <2>. QED BY <2>1, OtherTickets
<1>3. ASSUME NEW t \in Threads, Step(t)
      PROVE  InvTickets'
  <2>1. CASE GetWriteIdx(t) \/ GetReadIdx(t)
    BY <2>1, DrawTickets
  <2>2. CASE CommitWrite(t) \/ CommitRead(t)
    BY <2>2, CommitTickets
  <2>3. CASE \/ Probe(t) \/ Claim(t) \/ TableFull(t) \/ GetWritable(t) \/ GetReadable(t)
             \/ Construct(t) \/ MoveOut(t)
    <3>1. /\ UNCHANGED <<write_idx, read_idx, thr_write, thr_read, loc_idx, op>>
          /\ DOMAIN pushed \subseteq DOMAIN pushed' /\ DOMAIN popped \subseteq DOMAIN popped'
      BY <2>3 DEF Probe, Claim, TableFull, GetWritable, GetReadable, Construct, MoveOut,
                  Spec_TQ!Put
    <3>. QED BY <3>1, OtherTickets
  <2>. QED BY <1>3, <2>1, <2>2, <2>3 DEF Step
<1>. QED BY <1>1, <1>2, <1>3 DEF Next

\* InvTickets, in the terms of NoTicketLost.
LEMMA TicketsKept == IndInv /\ InvTickets => NoTicketLost
<1> SUFFICES ASSUME IndInv, InvTickets PROVE NoTicketLost
  OBVIOUS
<1>1. /\ \A t \in Threads : op[t] = "emplace" /\ loc_idx[t] >= 0 => <<"local", t>> \in HeldWrite
      /\ \A s \in Slots : thr_write[s] >= 0 => <<"entry", s>> \in HeldWrite
      /\ \A t \in Threads : op[t] = "pop" /\ loc_idx[t] >= 0 => <<"local", t>> \in HeldRead
      /\ \A s \in Slots : thr_read[s] >= 0 => <<"entry", s>> \in HeldRead
  BY DEF HeldWrite, HeldRead
<1>2. \A x, kept : TicketOf(<<"local", x>>, kept) = loc_idx[x] /\ TicketOf(<<"entry", x>>, kept) = kept[x]
  BY DEF TicketOf
<1>3. \A n \in 0..(write_idx - 1) :
        n \in DOMAIN pushed \/ \E h \in HeldWrite : TicketOf(h, thr_write) = n
  <2>1. TAKE n \in 0..(write_idx - 1)
  <2>2. CASE n \in DOMAIN pushed
    BY <2>2
  <2>3. ASSUME NEW t \in Threads, op[t] = "emplace", loc_idx[t] = n
        PROVE  \E h \in HeldWrite : TicketOf(h, thr_write) = n
    <3>1. <<"local", t>> \in HeldWrite
      BY <1>1, <2>3
    <3>2. TicketOf(<<"local", t>>, thr_write) = n
      BY <1>2, <2>3
    <3>. QED BY <3>1, <3>2
  <2>4. ASSUME NEW s \in Slots, thr_write[s] = n
        PROVE  \E h \in HeldWrite : TicketOf(h, thr_write) = n
    <3>1. <<"entry", s>> \in HeldWrite
      BY <1>1, <2>4
    <3>2. TicketOf(<<"entry", s>>, thr_write) = n
      BY <1>2, <2>4
    <3>. QED BY <3>1, <3>2
  <2>. QED BY <2>2, <2>3, <2>4 DEF InvTickets
<1>4. \A n \in 0..(read_idx - 1) :
        n \in DOMAIN popped \/ \E h \in HeldRead : TicketOf(h, thr_read) = n
  <2>1. TAKE n \in 0..(read_idx - 1)
  <2>2. CASE n \in DOMAIN popped
    BY <2>2
  <2>3. ASSUME NEW t \in Threads, op[t] = "pop", loc_idx[t] = n
        PROVE  \E h \in HeldRead : TicketOf(h, thr_read) = n
    <3>1. <<"local", t>> \in HeldRead
      BY <1>1, <2>3
    <3>2. TicketOf(<<"local", t>>, thr_read) = n
      BY <1>2, <2>3
    <3>. QED BY <3>1, <3>2
  <2>4. ASSUME NEW s \in Slots, thr_read[s] = n
        PROVE  \E h \in HeldRead : TicketOf(h, thr_read) = n
    <3>1. <<"entry", s>> \in HeldRead
      BY <1>1, <2>4
    <3>2. TicketOf(<<"entry", s>>, thr_read) = n
      BY <1>2, <2>4
    <3>. QED BY <3>1, <3>2
  <2>. QED BY <2>2, <2>3, <2>4 DEF InvTickets
<1>5. ASSUME NEW h \in HeldWrite, NEW g \in HeldWrite,
             TicketOf(h, thr_write) = TicketOf(g, thr_write)
      PROVE  h = g
  <2>1. ASSUME NEW k \in HeldWrite
        PROVE  \/ \E t \in Threads : /\ k = <<"local", t>> /\ op[t] = "emplace" /\ loc_idx[t] >= 0
                                     /\ TicketOf(k, thr_write) = loc_idx[t]
               \/ \E s \in Slots : /\ k = <<"entry", s>> /\ thr_write[s] >= 0
                                   /\ TicketOf(k, thr_write) = thr_write[s]
    BY <1>2 DEF HeldWrite
  <2>2. \A t \in Threads : op[t] = "emplace" /\ loc_idx[t] >= 0 => HoldsWrite(t)
    BY DEF IndInv, InvControl
  <2>. QED BY <1>5, <2>1, <2>2 DEF IndInv, InvWriteTickets
<1>6. ASSUME NEW h \in HeldRead, NEW g \in HeldRead,
             TicketOf(h, thr_read) = TicketOf(g, thr_read)
      PROVE  h = g
  <2>1. ASSUME NEW k \in HeldRead
        PROVE  \/ \E t \in Threads : /\ k = <<"local", t>> /\ op[t] = "pop" /\ loc_idx[t] >= 0
                                     /\ TicketOf(k, thr_read) = loc_idx[t]
               \/ \E s \in Slots : /\ k = <<"entry", s>> /\ thr_read[s] >= 0
                                   /\ TicketOf(k, thr_read) = thr_read[s]
    BY <1>2 DEF HeldRead
  <2>2. \A t \in Threads : op[t] = "pop" /\ loc_idx[t] >= 0 => HoldsRead(t)
    BY DEF IndInv, InvControl
  <2>. QED BY <1>6, <2>1, <2>2 DEF IndInv, InvReadTickets
<1>. QED BY <1>3, <1>4, <1>5, <1>6 DEF NoTicketLost

\* A ticket drawn from write_idx or read_idx is used or held, by one holder only, in every
\* state: a try call that returns false, and a thread that is turned away, lose none.
THEOREM TicketsSafe == Spec => []NoTicketLost
<1>1. Init => InvTickets
  BY DEF Init, InvTickets
<1>2. Spec => []InvTickets
  BY <1>1, TicketsNext, Invariance, PTL DEF Spec
<1>. QED BY <1>2, TicketsKept, Invariance, PTL

-----------------------------------------------------------------------------
(* The destructor. *)

\* InvValues is inductive: only Construct() adds to what was pushed.
LEMMA ValuesNext == IndInv /\ InvValues /\ [Next]_vars => InvValues'
<1> SUFFICES ASSUME IndInv, InvValues, [Next]_vars PROVE InvValues'
  OBVIOUS
<1> USE DEF ringvars, tblvars, thrvars, histvars
<1>1. CASE pushed' = pushed
  BY <1>1 DEF InvValues
<1>2. ASSUME NEW t \in Threads, Construct(t)
      PROVE  InvValues'
  <2>1. arg[t] \in Values
    BY <1>2 DEF IndInv, InvControl, WritePoints, Construct
  <2>. QED BY <1>2, <2>1 DEF InvValues, Construct, Spec_TQ!Put
<1>3. (\E t \in Threads : Construct(t)) \/ pushed' = pushed
  BY DEF Next, Call, Step, vars, Emplace, TryPush, Pop, TryPop, Probe, Claim, TableFull,
         GetWriteIdx, GetWritable, CommitWrite, GetReadIdx, GetReadable, MoveOut, CommitRead
<1>. QED BY <1>1, <1>2, <1>3

\* ~WFMPMC(), run when no call is in progress, destroys exactly the elements that were
\* pushed and not popped: no leak and no destruction of raw memory.
THEOREM DestructorRight == Spec => []DestructorExact
<1>1. Init => InvValues
  BY DEF Init, InvValues, Spec_TQ!EmptyFcn
<1>2. Spec => []InvValues
  BY <1>1, ValuesNext, Invariance, PTL DEF Spec
<1>3. ASSUME IndInv, InvValues, \A t \in Threads : pc[t] = "idle", NEW b \in Blocks
      PROVE  stat[b] < 0 <=> data[b] # Raw
  BY <1>3, RawAssumption DEF IndInv, TypeOK, InvBlocks, InvValues
<1>4. IndInv /\ InvValues => DestructorExact
  BY <1>3 DEF DestructorExact, DestroyedByDestructor
<1>. QED BY <1>2, <1>4, Invariance, PTL

-----------------------------------------------------------------------------
(* The laps of a block. *)

\* Division with remainder by SIZE.
LEMMA BlkQuotient ==
  ASSUME NEW i \in Nat
  PROVE  \E q \in Int : Blk(i) = i - SIZE * q
<1>1. \A j, s \in Int : s > 0 => j % s = j - s * (j \div s) /\ j \div s \in Int
  BY Z3
<1>2. i % SIZE = i - SIZE * (i \div SIZE) /\ i \div SIZE \in Int
  BY <1>1, SizeAssumption
<1>. QED BY <1>2 DEF Blk

\* Two tickets of one block are at least a lap apart.
LEMMA LapApart ==
  ASSUME NEW m \in Nat, NEW n \in Nat, m < n, Blk(m) = Blk(n)
  PROVE  m <= n - SIZE
<1>1. PICK p \in Int : Blk(m) = m - SIZE * p
  BY BlkQuotient
<1>2. PICK q \in Int : Blk(n) = n - SIZE * q
  BY BlkQuotient
<1>3. n - m = SIZE * (q - p)
  <2>1. m - SIZE * p = n - SIZE * q
    BY <1>1, <1>2
  <2>. QED BY <2>1, SizeAssumption, Z3
<1>4. CASE q - p <= 0
  <2>1. SIZE * (q - p) <= 0
    BY <1>4, SizeAssumption, Z3
  <2>. QED BY <1>3, <2>1
<1>5. CASE q - p >= 1
  <2>1. SIZE * (q - p) >= SIZE
    BY <1>5, SizeAssumption, Z3
  <2>. QED BY <1>3, <2>1, SizeAssumption
<1>. QED BY <1>4, <1>5

\* The block is the same one lap later.
LEMMA NextLap ==
  ASSUME NEW n \in Nat
  PROVE  Blk(n + SIZE) = Blk(n)
<1>1. PICK p \in Int : Blk(n) = n - SIZE * p
  BY BlkQuotient
<1>2. PICK q \in Int : Blk(n + SIZE) = (n + SIZE) - SIZE * q
  BY BlkQuotient, SizeAssumption
<1>3. Blk(n) \in 0..(SIZE - 1) /\ Blk(n + SIZE) \in 0..(SIZE - 1)
  BY BlkInBlocks, SizeAssumption DEF Blocks
<1>4. Blk(n + SIZE) - Blk(n) = SIZE * (1 + p - q)
  BY <1>1, <1>2, SizeAssumption, Z3
<1>5. CASE 1 + p - q <= -1
  <2>1. SIZE * (1 + p - q) <= -SIZE
    BY <1>5, SizeAssumption, Z3
  <2>. QED BY <1>3, <1>4, <2>1, SizeAssumption
<1>6. CASE 1 + p - q >= 1
  <2>1. SIZE * (1 + p - q) >= SIZE
    BY <1>6, SizeAssumption, Z3
  <2>. QED BY <1>3, <1>4, <2>1, SizeAssumption
<1>7. CASE 1 + p - q = 0
  <2>1. SIZE * (1 + p - q) = 0
    BY <1>7, SizeAssumption, Z3
  <2>. QED BY <1>3, <1>4, <2>1
<1>. QED BY <1>5, <1>6, <1>7

\* What InvLaps says of threads only depends on those that are about to commit.
LEMMA SameLaps ==
  ASSUME InvLaps, UNCHANGED <<stat, pushed, popped>>,
         \A t \in Threads : pc[t] = "commitWrite" => pc'[t] = "commitWrite" /\ WIdx(t)' = WIdx(t),
         \A t \in Threads : pc[t] = "commitRead" => pc'[t] = "commitRead" /\ RIdx(t)' = RIdx(t)
  PROVE  InvLaps'
  BY DEF InvLaps, Freed

\* Construct(): the stat word names the ticket, so the lap before has been popped, and with
\* it all earlier ones.
LEMMA ConstructLaps ==
  ASSUME IndInv, InvLaps, NEW t \in Threads, Construct(t)
  PROVE  InvLaps'
<1> DEFINE n == WIdx(t)
<1>1. n \in Nat /\ Blk(n) \in Blocks /\ stat[Blk(n)] = n
  BY WriteTicket DEF Construct, HoldsWrite, IndInv, InvAccess, Writing
<1>2. /\ UNCHANGED <<stat, popped, op, cur, loc_idx, thr_write, thr_read>>
      /\ DOMAIN pushed' = DOMAIN pushed \cup {n}
      /\ pc' = [pc EXCEPT ![t] = "commitWrite"]
  BY DEF Construct, Spec_TQ!Put, tblvars
<1>3. /\ \A u \in Threads : WIdx(u)' = WIdx(u) /\ RIdx(u)' = RIdx(u)
      /\ \A u \in Threads : u # t => pc'[u] = pc[u]
      /\ pc'[t] = "commitWrite" /\ pc[t] = "construct"
  BY <1>2 DEF WIdx, RIdx, IndInv, TypeOK, Construct
<1>4. ASSUME NEW m \in 0..(n - 1), Blk(m) = Blk(n)
      PROVE  m \in DOMAIN popped
  <2>1. m <= n - SIZE /\ m \in Nat
    BY <1>1, <1>4, LapApart
  <2>2. n - SIZE \in DOMAIN popped /\ n - SIZE \in Nat
    BY <1>1, <2>1, SizeAssumption DEF IndInv, InvBlocks
  <2>3. n - SIZE \in DOMAIN pushed
    BY <2>2 DEF InvLaps
  <2>4. Blk(n - SIZE) = Blk(n)
    <3>1. (n - SIZE) + SIZE = n
      BY <1>1, SizeAssumption
    <3>. QED BY <2>2, <3>1, NextLap
  <2>5. CASE m < n - SIZE
    BY <1>4, <2>1, <2>2, <2>3, <2>4, <2>5 DEF InvLaps
  <2>. QED BY <1>1, <2>1, <2>2, <2>5, SizeAssumption
<1> HIDE DEF n
<1>5. \A k \in DOMAIN popped : k \in DOMAIN pushed'
  BY <1>2 DEF InvLaps
<1>. QED BY <1>2, <1>3, <1>4, <1>5 DEF InvLaps, Freed, n

\* MoveOut() pops what the stat word says was pushed.
LEMMA MoveOutLaps ==
  ASSUME IndInv, InvLaps, NEW t \in Threads, MoveOut(t)
  PROVE  InvLaps'
<1> DEFINE n == RIdx(t)
<1>1. n \in Nat /\ Blk(n) \in Blocks /\ stat[Blk(n)] = Not(n)
  BY ReadTicket DEF MoveOut, HoldsRead, IndInv, InvAccess, Reading
<1>2. n \in DOMAIN pushed
  <2>1. Not(n) < 0 /\ Not(Not(n)) = n
    BY <1>1, NotFacts
  <2>. QED BY <1>1, <2>1 DEF IndInv, InvBlocks
<1>3. /\ UNCHANGED <<stat, pushed, op, cur, loc_idx, thr_write, thr_read>>
      /\ DOMAIN popped' = DOMAIN popped \cup {n}
      /\ pc' = [pc EXCEPT ![t] = "commitRead"]
  BY DEF MoveOut, Spec_TQ!Put, tblvars, ringvars
<1>4. /\ \A u \in Threads : WIdx(u)' = WIdx(u) /\ RIdx(u)' = RIdx(u)
      /\ \A u \in Threads : u # t => pc'[u] = pc[u]
      /\ pc'[t] = "commitRead" /\ pc[t] = "moveOut"
  BY <1>3 DEF WIdx, RIdx, IndInv, TypeOK, MoveOut
<1>. QED BY <1>2, <1>3, <1>4 DEF InvLaps, Freed

\* CommitWrite() goes from idx to ~idx: nothing that was past idx before is not past it now.
LEMMA CommitWriteLaps ==
  ASSUME IndInv, InvLaps, NEW t \in Threads, CommitWrite(t)
  PROVE  InvLaps'
<1> DEFINE n == WIdx(t)
           b == Blk(n)
<1>1. n \in Nat /\ b \in Blocks /\ stat[b] = n /\ stat \in [Blocks -> Int]
  BY WriteTicket DEF CommitWrite, HoldsWrite, IndInv, InvAccess, Writing, TypeOK
<1>2. /\ UNCHANGED <<pushed, popped, op, cur, thr_read>>
      /\ stat' = [stat EXCEPT ![b] = Not(n)]
      /\ pc' = [pc EXCEPT ![t] = "idle"]
  BY DEF CommitWrite, histvars
<1>3. /\ \A u \in Threads : u # t => pc'[u] = pc[u]
      /\ pc[t] = "commitWrite"
      /\ \A u \in Threads : pc'[u] = "commitWrite" => pc[u] = "commitWrite"
  BY <1>2 DEF IndInv, TypeOK, CommitWrite
<1>4. ASSUME NEW u \in Threads, u # t
      PROVE  /\ pc[u] = "commitWrite" => WIdx(u)' = WIdx(u)
             /\ pc[u] = "commitRead" => RIdx(u)' = RIdx(u)
  <2>1. pc[u] = "commitWrite" => WIdx(u) # WIdx(t)
    BY <1>3, <1>4, WriteTicket DEF HoldsWrite
  <2>2. /\ op[u] = "tryPush" => WIdx(u) = thr_write[cur[u]]
        /\ op[t] = "tryPush" => WIdx(t) = thr_write[cur[t]]
        /\ op[t] # "tryPush" => WIdx(t) = loc_idx[t]
        /\ cur[u] \in Slots /\ cur[t] \in Slots
        /\ thr_write \in [Slots -> Int] /\ loc_idx \in [Threads -> Int]
    BY DEF WIdx, IndInv, TypeOK
  <2>3. \/ thr_write' = [thr_write EXCEPT ![cur[t]] = -1] /\ loc_idx' = loc_idx /\ op[t] = "tryPush"
        \/ loc_idx' = [loc_idx EXCEPT ![t] = -1] /\ thr_write' = thr_write
    BY DEF CommitWrite, DropWriteTicket
  <2>4. loc_idx'[u] = loc_idx[u]
    BY <1>4, <2>2, <2>3
  <2>5. pc[u] = "commitWrite" /\ op[u] = "tryPush" => thr_write'[cur[u]] = thr_write[cur[u]]
    BY <2>1, <2>2, <2>3
  <2>. QED BY <1>2, <2>4, <2>5 DEF WIdx, RIdx
<1>5. Not(n) < 0 /\ Not(Not(n)) = n /\ Not(n) \in Int
  BY <1>1, NotFacts
<1> HIDE DEF n, b
<1>6. stat'[b] = Not(n) /\ \A c \in Blocks : c # b => stat'[c] = stat[c]
  BY <1>1, <1>2
<1>7. \A k \in Nat : Blk(k) = b => (Freed(k) => Freed(k)')
  BY <1>1, <1>5, <1>6, SizeAssumption DEF Freed, Not
<1>8. \A k \in Nat : Blk(k) # b => stat'[Blk(k)] = stat[Blk(k)] /\ (Freed(k) => Freed(k)')
  BY <1>6, BlkInBlocks DEF Freed
<1>9. DOMAIN pushed \subseteq Nat /\ DOMAIN popped \subseteq Nat
  BY DEF IndInv, TypeOK
<1>10. \A c \in Blocks : Blk(IF stat'[c] >= 0 THEN stat'[c] ELSE Not(stat'[c])) = c
  BY <1>1, <1>5, <1>6 DEF InvLaps, b
<1>11. ASSUME NEW k \in DOMAIN pushed
       PROVE  \/ stat'[Blk(k)] = Not(k) \/ Freed(k)'
              \/ \E u \in Threads : pc'[u] = "commitWrite" /\ WIdx(u)' = k
  <2>1. CASE k = n
    BY <1>6, <2>1 DEF b
  <2>2. CASE k # n /\ \E u \in Threads : pc[u] = "commitWrite" /\ WIdx(u) = k
    BY <1>3, <1>4, <2>2 DEF n
  <2>3. CASE Freed(k)
    BY <1>7, <1>8, <1>9, <2>3
  <2>4. CASE k # n /\ stat[Blk(k)] = Not(k)
    <3>1. k \in Nat /\ Not(k) < 0
      BY <1>9, NotFacts
    <3>2. Blk(k) # b
      BY <1>1, <2>4, <3>1
    <3>. QED BY <1>8, <2>4, <3>1, <3>2
  <2>. QED BY <2>1, <2>2, <2>3, <2>4 DEF InvLaps
<1>12. ASSUME NEW k \in DOMAIN popped
       PROVE  Freed(k)' \/ \E u \in Threads : pc'[u] = "commitRead" /\ RIdx(u)' = k
  <2>1. CASE Freed(k)
    BY <1>7, <1>8, <1>9, <2>1
  <2>2. CASE \E u \in Threads : pc[u] = "commitRead" /\ RIdx(u) = k
    BY <1>3, <1>4, <2>2
  <2>. QED BY <2>1, <2>2 DEF InvLaps
<1>. QED BY <1>2, <1>10, <1>11, <1>12 DEF InvLaps

\* CommitRead() goes from ~idx to idx + SIZE.
LEMMA CommitReadLaps ==
  ASSUME IndInv, InvLaps, NEW t \in Threads, CommitRead(t)
  PROVE  InvLaps'
<1> DEFINE n == RIdx(t)
           b == Blk(n)
<1>1. n \in Nat /\ b \in Blocks /\ stat[b] = Not(n) /\ stat \in [Blocks -> Int]
  BY ReadTicket DEF CommitRead, HoldsRead, IndInv, InvAccess, Reading, TypeOK
<1>2. /\ UNCHANGED <<pushed, popped, op, cur, thr_write>>
      /\ stat' = [stat EXCEPT ![b] = n + SIZE]
      /\ pc' = [pc EXCEPT ![t] = "idle"]
  BY DEF CommitRead, histvars
<1>3. /\ \A u \in Threads : u # t => pc'[u] = pc[u]
      /\ pc[t] = "commitRead"
      /\ \A u \in Threads : pc'[u] = "commitRead" => pc[u] = "commitRead"
  BY <1>2 DEF IndInv, TypeOK, CommitRead
<1>4. ASSUME NEW u \in Threads, u # t
      PROVE  /\ pc[u] = "commitWrite" => WIdx(u)' = WIdx(u)
             /\ pc[u] = "commitRead" => RIdx(u)' = RIdx(u)
  <2>1. pc[u] = "commitRead" => RIdx(u) # RIdx(t)
    BY <1>3, <1>4, ReadTicket DEF HoldsRead
  <2>2. /\ op[u] = "tryPop" => RIdx(u) = thr_read[cur[u]]
        /\ op[t] = "tryPop" => RIdx(t) = thr_read[cur[t]]
        /\ op[t] # "tryPop" => RIdx(t) = loc_idx[t]
        /\ cur[u] \in Slots /\ cur[t] \in Slots
        /\ thr_read \in [Slots -> Int] /\ loc_idx \in [Threads -> Int]
    BY DEF RIdx, IndInv, TypeOK
  <2>3. \/ thr_read' = [thr_read EXCEPT ![cur[t]] = -1] /\ loc_idx' = loc_idx /\ op[t] = "tryPop"
        \/ loc_idx' = [loc_idx EXCEPT ![t] = -1] /\ thr_read' = thr_read
    BY DEF CommitRead, DropReadTicket
  <2>4. loc_idx'[u] = loc_idx[u]
    BY <1>4, <2>2, <2>3
  <2>5. pc[u] = "commitRead" /\ op[u] = "tryPop" => thr_read'[cur[u]] = thr_read[cur[u]]
    BY <2>1, <2>2, <2>3
  <2>. QED BY <1>2, <2>4, <2>5 DEF WIdx, RIdx
<1>5. Not(n) < 0 /\ Not(Not(n)) = n /\ Not(n) \in Int /\ n + SIZE \in Nat
  BY <1>1, NotFacts, SizeAssumption
<1> HIDE DEF n, b
<1>6. stat'[b] = n + SIZE /\ \A c \in Blocks : c # b => stat'[c] = stat[c]
  BY <1>1, <1>2
<1>7. \A k \in Nat : Blk(k) = b => (Freed(k) => Freed(k)')
  BY <1>1, <1>5, <1>6, SizeAssumption DEF Freed, Not
<1>8. \A k \in Nat : Blk(k) # b => stat'[Blk(k)] = stat[Blk(k)] /\ (Freed(k) => Freed(k)')
  BY <1>6, BlkInBlocks DEF Freed
<1>9. DOMAIN pushed \subseteq Nat /\ DOMAIN popped \subseteq Nat
  BY DEF IndInv, TypeOK
<1>10. \A c \in Blocks : Blk(IF stat'[c] >= 0 THEN stat'[c] ELSE Not(stat'[c])) = c
  <2>1. Blk(n + SIZE) = b
    BY <1>1, NextLap DEF b
  <2>. QED BY <1>1, <1>5, <1>6, <2>1 DEF InvLaps
<1>11. \A k \in Nat : k = n => Freed(k)'
  BY <1>5, <1>6 DEF Freed, b
<1>12. ASSUME NEW k \in DOMAIN pushed
       PROVE  \/ stat'[Blk(k)] = Not(k) \/ Freed(k)'
              \/ \E u \in Threads : pc'[u] = "commitWrite" /\ WIdx(u)' = k
  <2>1. CASE k = n
    BY <1>9, <1>11, <2>1
  <2>2. CASE \E u \in Threads : pc[u] = "commitWrite" /\ WIdx(u) = k
    BY <1>3, <1>4, <2>2
  <2>3. CASE Freed(k)
    BY <1>7, <1>8, <1>9, <2>3
  <2>4. CASE k # n /\ stat[Blk(k)] = Not(k)
    <3>1. Blk(k) # b
      BY <1>1, <1>9, <2>4, NotFacts
    <3>. QED BY <1>8, <1>9, <2>4, <3>1
  <2>. QED BY <2>1, <2>2, <2>3, <2>4 DEF InvLaps
<1>13. ASSUME NEW k \in DOMAIN popped
       PROVE  Freed(k)' \/ \E u \in Threads : pc'[u] = "commitRead" /\ RIdx(u)' = k
  <2>1. CASE Freed(k)
    BY <1>7, <1>8, <1>9, <2>1
  <2>2. CASE k # n /\ \E u \in Threads : pc[u] = "commitRead" /\ RIdx(u) = k
    BY <1>3, <1>4, <2>2 DEF n
  <2>. QED BY <1>9, <1>11, <2>1, <2>2 DEF InvLaps
<1>. QED BY <1>2, <1>10, <1>12, <1>13 DEF InvLaps

\* InvLaps is inductive given IndInv.
LEMMA LapsNext == IndInv /\ InvLaps /\ [Next]_vars => InvLaps'
<1> SUFFICES ASSUME IndInv, InvLaps, [Next]_vars PROVE InvLaps'
  OBVIOUS
<1> USE DEF ringvars, tblvars, thrvars, histvars
<1>1. CASE UNCHANGED vars
  BY <1>1, SameLaps DEF vars, WIdx, RIdx
<1>2. ASSUME NEW t \in Threads, Call(t)
      PROVE  InvLaps'
  <2>1. /\ UNCHANGED <<stat, pushed, popped, thr_write, thr_read, loc_idx>> /\ pc[t] = "idle"
        /\ \A u \in Threads : u # t => pc'[u] = pc[u] /\ op'[u] = op[u] /\ cur'[u] = cur[u]
    BY <1>2 DEF IndInv, TypeOK, Call, Emplace, TryPush, Pop, TryPop, StartProbe
  <2>. QED BY <2>1, SameLaps DEF WIdx, RIdx
<1>3. ASSUME NEW t \in Threads, Step(t)
      PROVE  InvLaps'
  <2>1. CASE Construct(t)
    BY <2>1, ConstructLaps
  <2>2. CASE MoveOut(t)
    BY <2>2, MoveOutLaps
  <2>3. CASE CommitWrite(t)
    BY <2>3, CommitWriteLaps
  <2>4. CASE CommitRead(t)
    BY <2>4, CommitReadLaps
  <2>5. CASE Probe(t) \/ Claim(t) \/ TableFull(t) \/ GetWritable(t) \/ GetReadable(t)
    <3>1. /\ UNCHANGED <<stat, pushed, popped, thr_write, thr_read, loc_idx, op>>
          /\ pc[t] \notin {"commitWrite", "commitRead"}
          /\ \A u \in Threads : u # t => pc'[u] = pc[u] /\ cur'[u] = cur[u]
      BY <2>5 DEF IndInv, TypeOK, Probe, Claim, TableFull, GetWritable, GetReadable, SlotFound,
                  NextProbe
    <3>. QED BY <3>1, SameLaps DEF WIdx, RIdx
  <2>6. CASE GetWriteIdx(t) \/ GetReadIdx(t)
    <3>1. /\ UNCHANGED <<stat, pushed, popped, op, cur>>
          /\ pc[t] \notin {"commitWrite", "commitRead"}
          /\ \A u \in Threads : u # t => pc'[u] = pc[u] /\ loc_idx'[u] = loc_idx[u]
          /\ \A s \in Slots : /\ thr_write[s] >= 0 => thr_write'[s] = thr_write[s]
                              /\ thr_read[s] >= 0 => thr_read'[s] = thr_read[s]
      BY <2>6 DEF IndInv, TypeOK, GetWriteIdx, GetReadIdx
    <3>2. ASSUME NEW u \in Threads
          PROVE  /\ cur[u] \in Slots
                 /\ pc[u] = "commitWrite" /\ op[u] = "tryPush" => thr_write[cur[u]] >= 0
                 /\ pc[u] = "commitRead" /\ op[u] = "tryPop" => thr_read[cur[u]] >= 0
      BY DEF IndInv, TypeOK, InvEntry, HoldsWrite, HoldsRead
    <3>3. ASSUME NEW u \in Threads, pc[u] = "commitWrite"
          PROVE  pc'[u] = "commitWrite" /\ WIdx(u)' = WIdx(u)
      BY <3>1, <3>2, <3>3 DEF WIdx
    <3>4. ASSUME NEW u \in Threads, pc[u] = "commitRead"
          PROVE  pc'[u] = "commitRead" /\ RIdx(u)' = RIdx(u)
      BY <3>1, <3>2, <3>4 DEF RIdx
    <3>. QED BY <3>1, <3>3, <3>4, SameLaps
  <2>. QED BY <1>3, <2>1, <2>2, <2>3, <2>4, <2>5, <2>6 DEF Step
<1>. QED BY <1>1, <1>2, <1>3 DEF Next

\* InvLaps holds of the new ring.
LEMMA LapsInit == Init => InvLaps
<1> SUFFICES ASSUME Init PROVE InvLaps
  OBVIOUS
<1>1. DOMAIN pushed = {} /\ DOMAIN popped = {}
  BY DEF Init, Spec_TQ!EmptyFcn
<1>2. ASSUME NEW b \in Blocks
      PROVE  Blk(IF stat[b] >= 0 THEN stat[b] ELSE Not(stat[b])) = b
  <2>1. stat[b] = b /\ b \in Nat /\ b < SIZE
    BY SizeAssumption DEF Init, Blocks
  <2>2. b % SIZE = b
    BY <2>1, SizeAssumption
  <2>. QED BY <2>1, <2>2 DEF Blk
<1>. QED BY <1>1, <1>2 DEF InvLaps

\* A stat word never runs ahead of its tickets.
LEMMA NotAhead ==
  ASSUME IndInv, InvLaps, NEW n \in Nat
  PROVE  /\ n \notin DOMAIN popped => ~Freed(n)
         /\ n \notin DOMAIN pushed => stat[Blk(n)] <= n /\ Not(stat[Blk(n)]) < n
<1> DEFINE b == Blk(n)
           s == stat[b]
<1>1. b \in Blocks /\ s \in Int /\ DOMAIN pushed \subseteq Nat /\ DOMAIN popped \subseteq Nat
  BY BlkInBlocks DEF IndInv, TypeOK
<1>2. \A k \in DOMAIN pushed : k > n /\ Blk(k) = b => n \in DOMAIN popped
  BY <1>1 DEF InvLaps
<1>3. \A k \in DOMAIN popped : k \in DOMAIN pushed
  BY DEF InvLaps
<1>4. CASE s < 0
  <2>1. Not(s) \in DOMAIN pushed /\ Blk(Not(s)) = b /\ Not(s) \in Nat
    BY <1>1, <1>4 DEF IndInv, InvBlocks, InvLaps
  <2>2. Not(s) > n => n \in DOMAIN popped
    BY <1>2, <2>1
  <2>. QED BY <1>1, <1>3, <1>4, <2>1, <2>2, SizeAssumption DEF Freed
<1>5. CASE s >= 0
  <2>1. Blk(s) = b /\ s \in Nat /\ Not(s) < 0 /\ Not(s) \in Int
    BY <1>1, <1>5, NotFacts DEF InvLaps
  <2>2. ASSUME s > n
        PROVE  n \in DOMAIN popped
    <3>1. n <= s - SIZE
      BY <2>1, <2>2, LapApart
    <3>2. s - SIZE \in DOMAIN popped /\ s - SIZE \in Nat
      BY <1>1, <2>1, <3>1, SizeAssumption DEF IndInv, InvBlocks
    <3>3. Blk(s - SIZE) = b
      <4>1. (s - SIZE) + SIZE = s
        BY <2>1, SizeAssumption
      <4>. QED BY <2>1, <3>2, <4>1, NextLap
    <3>4. CASE n = s - SIZE
      BY <3>2, <3>4
    <3>5. CASE n < s - SIZE
      BY <1>2, <1>3, <3>2, <3>3, <3>5
    <3>. QED BY <1>1, <3>1, <3>2, <3>4, <3>5
  <2>3. Freed(n) => s > n
    BY <1>1, <2>1, SizeAssumption DEF Freed
  <2>4. s > n => n \in DOMAIN popped /\ n \in DOMAIN pushed
    BY <1>3, <2>2
  <2>. QED BY <1>1, <2>1, <2>3, <2>4
<1>. QED BY <1>1, <1>4, <1>5

\* A thread between its getWritable() and its commit is among the holders.
LEMMA WriterHolds ==
  ASSUME IndInv, NEW t \in Threads, HoldsWrite(t)
  PROVE  \E h \in HeldWrite : TicketOf(h, thr_write) = WIdx(t)
<1>1. op[t] \in {"emplace", "tryPush"} /\ cur[t] \in Slots
  BY DEF IndInv, TypeOK, InvControl, HoldsWrite, WritePoints
<1>2. CASE op[t] = "emplace"
  <2>1. <<"local", t>> \in HeldWrite
    BY <1>2 DEF HeldWrite, IndInv, InvControl
  <2>2. TicketOf(<<"local", t>>, thr_write) = WIdx(t)
    BY <1>2 DEF TicketOf, WIdx
  <2>. QED BY <2>1, <2>2
<1>3. CASE op[t] = "tryPush"
  <2>1. <<"entry", cur[t]>> \in HeldWrite
    BY <1>1, <1>3 DEF HeldWrite, IndInv, InvEntry
  <2>2. TicketOf(<<"entry", cur[t]>>, thr_write) = WIdx(t)
    BY <1>3 DEF TicketOf, WIdx
  <2>. QED BY <2>1, <2>2
<1>. QED BY <1>1, <1>2, <1>3

\* The same of a reader.
LEMMA ReaderHolds ==
  ASSUME IndInv, NEW t \in Threads, HoldsRead(t)
  PROVE  \E h \in HeldRead : TicketOf(h, thr_read) = RIdx(t)
<1>1. op[t] \in {"pop", "tryPop"} /\ cur[t] \in Slots
  BY DEF IndInv, TypeOK, InvControl, HoldsRead, ReadPoints
<1>2. CASE op[t] = "pop"
  <2>1. <<"local", t>> \in HeldRead
    BY <1>2 DEF HeldRead, IndInv, InvControl
  <2>2. TicketOf(<<"local", t>>, thr_read) = RIdx(t)
    BY <1>2 DEF TicketOf, RIdx
  <2>. QED BY <2>1, <2>2
<1>3. CASE op[t] = "tryPop"
  <2>1. <<"entry", cur[t]>> \in HeldRead
    BY <1>1, <1>3 DEF HeldRead, IndInv, InvEntry
  <2>2. TicketOf(<<"entry", cur[t]>>, thr_read) = RIdx(t)
    BY <1>3 DEF TicketOf, RIdx
  <2>. QED BY <2>1, <2>2
<1>. QED BY <1>1, <1>2, <1>3

\* A thread that finds its block taken has a partner who is not done.
LEMMA LapsWait == IndInv /\ InvLaps /\ NoTicketLost => WaitsForPartner
<1> SUFFICES ASSUME IndInv, InvLaps, NoTicketLost PROVE WaitsForPartner
  OBVIOUS
<1>1. ASSUME NEW t \in Threads, pc[t] = "getWritable", stat[Blk(WIdx(t))] # WIdx(t)
      PROVE  /\ WIdx(t) >= SIZE
             /\ \/ WIdx(t) - SIZE >= read_idx
                \/ \E h \in HeldRead : TicketOf(h, thr_read) = WIdx(t) - SIZE
  <2> DEFINE n == WIdx(t)
             s == stat[Blk(n)]
  <2>1. n \in Nat /\ Blk(n) \in Blocks /\ n \notin DOMAIN pushed /\ s \in Int
    BY <1>1, WriteTicket DEF HoldsWrite, IndInv, TypeOK, InvHistory
  <2>2. s <= n /\ Not(s) < n
    BY <2>1, NotAhead
  <2>3. n >= SIZE
    <3>1. CASE s < 0
      <4>1. Not(s) \in Nat /\ Blk(Not(s)) = Blk(n)
        BY <2>1, <3>1, NotFacts DEF InvLaps, Not
      <4>2. Not(s) <= n - SIZE
        BY <2>1, <2>2, <4>1, LapApart
      <4>. QED BY <2>1, <4>1, <4>2, SizeAssumption
    <3>2. CASE s >= 0
      <4>1. s \in Nat /\ Blk(s) = Blk(n) /\ s < n
        BY <1>1, <2>1, <2>2, <3>2 DEF InvLaps
      <4>2. s <= n - SIZE
        BY <2>1, <4>1, LapApart
      <4>. QED BY <2>1, <4>1, <4>2, SizeAssumption
    <3>. QED BY <2>1, <3>1, <3>2
  <2>4. ASSUME n - SIZE < read_idx, ~\E h \in HeldRead : TicketOf(h, thr_read) = n - SIZE
        PROVE  FALSE
    <3>1. n - SIZE \in Nat /\ n - SIZE \in 0..(read_idx - 1) /\ Blk(n - SIZE) = Blk(n)
      <4>1. n - SIZE \in Nat /\ (n - SIZE) + SIZE = n /\ read_idx \in Nat
        BY <2>1, <2>3, SizeAssumption DEF IndInv, TypeOK
      <4>. QED BY <2>4, <4>1, NextLap
    <3>2. n - SIZE \in DOMAIN popped
      BY <2>4, <3>1 DEF NoTicketLost
    <3>3. ~\E u \in Threads : pc[u] = "commitRead" /\ RIdx(u) = n - SIZE
      BY <2>4, <3>1, ReaderHolds DEF HoldsRead
    <3>4. Freed(n - SIZE)
      BY <3>2, <3>3 DEF InvLaps
    <3>5. s >= n \/ Not(s) >= n
      BY <2>1, <3>1, <3>4, SizeAssumption DEF Freed
    <3>. QED BY <1>1, <2>1, <2>2, <3>5, NotFacts
  <2>. QED BY <2>1, <2>3, <2>4, SizeAssumption DEF IndInv, TypeOK
<1>2. ASSUME NEW t \in Threads, pc[t] = "getReadable", stat[Blk(RIdx(t))] # Not(RIdx(t))
      PROVE  \/ RIdx(t) >= write_idx
             \/ \E h \in HeldWrite : TicketOf(h, thr_write) = RIdx(t)
  <2> DEFINE n == RIdx(t)
  <2>1. n \in Nat /\ n \notin DOMAIN popped /\ write_idx \in Nat
    BY <1>2, ReadTicket DEF HoldsRead, IndInv, TypeOK, InvHistory
  <2>2. ASSUME n < write_idx, ~\E h \in HeldWrite : TicketOf(h, thr_write) = n
        PROVE  FALSE
    <3>1. n \in DOMAIN pushed
      BY <2>1, <2>2 DEF NoTicketLost
    <3>2. ~\E u \in Threads : pc[u] = "commitWrite" /\ WIdx(u) = n
      BY <2>2, WriterHolds DEF HoldsWrite
    <3>. QED BY <1>2, <2>1, <3>1, <3>2, NotAhead DEF InvLaps
  <2>. QED BY <2>1, <2>2
<1>. QED BY <1>1, <1>2 DEF WaitsForPartner

\* emplace() and pop() spin, and tryPush() and tryPop() return false, only because of a
\* partner with an earlier ticket: threads that wait for each other's tickets never form
\* a circle, whatever the number of threads and the size of the ring.
THEOREM NoCircularWait == Spec => []WaitsForPartner
<1>1. Spec => []InvLaps
  BY LapsInit, LapsNext, Invariance, PTL DEF Spec
<1>. QED BY <1>1, LapsWait, TicketsSafe, Invariance, PTL
=============================================================================
