-------------------------- MODULE WFMPMCShmProofs --------------------------
(***************************************************************************)
(* TLAPS proofs about a WFMPMC in shared memory, for the build before      *)
(* C++20: construction happens once, and the ring that the processes share *)
(* is the one of WFMPMC although processes die between any two steps.      *)
(***************************************************************************)
EXTENDS WFMPMCShm, WFMPMCProofs

-----------------------------------------------------------------------------
(* The invariant. *)

\* ftruncate()'s zeros are not used by anyone.
LEMMA ShmInvInit == ShmInit => ShmInv
  BY DEF ShmInit, ShmInv, InvStages, InvUnused, InvConstructed, Stages, Constructing

\* The steps of shmInit(): the compare-and-exchange lets one process construct, and
\* only that process stores 2.
LEMMA ShmInitStepInv ==
  ASSUME ~Cxx20, ShmInv, NEW t \in Threads, ShmInitStep(t)
  PROVE  ShmInv'
<1> USE DEF ShmInv, InvStages, InvUnused, InvConstructed, Stages, Constructing, GoTo,
            vars, ringvars, tblvars, thrvars, histvars
<1>1. CASE Exchange(t)
  BY <1>1 DEF Exchange
<1>2. CASE ConstructMembers(t)
  BY <1>2 DEF ConstructMembers
<1>3. CASE ConstructBody(t)
  BY <1>3 DEF ConstructBody
<1>4. CASE PublishState(t)
  BY <1>4 DEF PublishState
<1>5. CASE WaitEnds(t)
  BY <1>5 DEF WaitEnds
<1>. QED BY <1>1, <1>2, <1>3, <1>4, <1>5 DEF ShmInitStep

\* Every step of every process, and every death, preserves the invariant.
LEMMA ShmInvNext ==
  ASSUME ~Cxx20
  PROVE  ShmInv /\ [ShmNext]_allvars => ShmInv'
<1> SUFFICES ASSUME ShmInv, [ShmNext]_allvars PROVE ShmInv'
  OBVIOUS
<1> USE DEF ShmInv, InvStages, InvUnused, InvConstructed, Stages, Constructing
<1>1. CASE UNCHANGED allvars
  BY <1>1 DEF allvars, shmvars, vars, ringvars, tblvars, thrvars, histvars
<1>2. ASSUME NEW t \in Threads, Shmmap(t) \/ Crash(t)
      PROVE  ShmInv'
  BY <1>2 DEF Shmmap, Crash, GoTo, vars, ringvars, tblvars, thrvars, histvars
<1>3. ASSUME NEW t \in Threads, ShmInitStep(t)
      PROVE  ShmInv'
  BY <1>3, ShmInitStepInv
<1>4. ASSUME NEW t \in Threads, Use(t)
      PROVE  ShmInv'
  <2>1. init_state = 2 /\ UNCHANGED shmvars
    BY <1>4 DEF Use
  <2>. QED BY <2>1 DEF shmvars
<1>. QED BY <1>1, <1>2, <1>3, <1>4 DEF ShmNext

\* ShmInv is an invariant of the build before C++20.
LEMMA ShmInvariance ==
  ASSUME ~Cxx20
  PROVE  ShmSpec => []ShmInv
  BY ShmInvInit, ShmInvNext, PTL DEF ShmSpec

\* "must not init init_state in constructor": as long as WFMPMC()'s implicit construction
\* of init_state stores nothing, the constructor runs in one process and never while
\* another one uses the ring.
THEOREM OneConstruction ==
  ASSUME ~Cxx20
  PROVE  ShmSpec => []ConstructedOnce
<1>1. ShmInv => ConstructedOnce
  BY DEF ShmInv, InvStages, ConstructedOnce, Constructing
<1>. QED BY <1>1, ShmInvariance, PTL

-----------------------------------------------------------------------------
(* The refinement. *)

\* The file of zeros is seen as a constructed ring.
LEMMA ShmInitImplements == ShmInit => W!Init
  BY DEF ShmInit, W!Init, Built, Blocks, Slots, W!Blocks, W!Slots, Spec_TQ!EmptyFcn,
         W!Spec_TQ!EmptyFcn

\* A step of shmInit() or shmmap() and a death change nothing of the ring as it is seen:
\* init_state becomes 2 when the constructor has left the ring the way it was seen before.
LEMMA ShmStutters ==
  ASSUME ~Cxx20, ShmInv, NEW t \in Threads, Shmmap(t) \/ ShmInitStep(t) \/ Crash(t)
  PROVE  UNCHANGED W!vars
<1> USE DEF W!vars, W!ringvars, W!tblvars, W!thrvars, W!histvars, Built,
            vars, ringvars, tblvars, thrvars, histvars
<1>1. CASE Shmmap(t) \/ Crash(t) \/ Exchange(t) \/ WaitEnds(t)
  BY <1>1 DEF Shmmap, Crash, Exchange, WaitEnds
<1>2. CASE ConstructMembers(t)
  BY <1>2 DEF ConstructMembers, ShmInv, InvStages, Constructing
<1>3. CASE ConstructBody(t)
  BY <1>3 DEF ConstructBody, ShmInv, InvStages, Constructing
<1>4. CASE PublishState(t)
  BY <1>4 DEF PublishState, ShmInv, InvStages, InvConstructed, Constructing
<1>. QED BY <1>1, <1>2, <1>3, <1>4 DEF ShmInitStep

\* A process that is past shmInit() sees the ring itself, before and after its step.
LEMMA ShmUseImplements ==
  ASSUME ShmInv, NEW t \in Threads, Use(t)
  PROVE  W!Next
<1>1. init_state = 2 /\ init_state' = 2
  BY DEF Use, shmvars, ShmInv, InvStages, Constructing
<1>2. Built /\ Built'
  BY <1>1 DEF Built
<1> USE DEF W!vars, W!ringvars, W!tblvars, W!thrvars, W!histvars,
            vars, ringvars, tblvars, thrvars, histvars
<1>3. ASSUME NEW v \in Values, Emplace(t, v)
      PROVE  W!Emplace(t, v)
  BY <1>3, <1>2 DEF Emplace, W!Emplace
<1>4. Pop(t) => W!Pop(t)
  BY <1>2 DEF Pop, W!Pop
<1>5. ASSUME NEW v \in Values, TryPush(t, v)
      PROVE  W!TryPush(t, v)
  BY <1>5, <1>2 DEF TryPush, StartProbe, KeepsTicket, W!TryPush, W!StartProbe, W!KeepsTicket, Slots, W!Slots
<1>6. TryPop(t) => W!TryPop(t)
  BY <1>2 DEF TryPop, StartProbe, KeepsTicket, W!TryPop, W!StartProbe, W!KeepsTicket, Slots, W!Slots
<1>7. Probe(t) => W!Probe(t)
  BY <1>2 DEF Probe, SlotFound, NextProbe, W!Probe, W!SlotFound, W!NextProbe
<1>8. Claim(t) => W!Claim(t)
  BY <1>2 DEF Claim, SlotFound, NextProbe, W!Claim, W!SlotFound, W!NextProbe
<1>9. TableFull(t) => W!TableFull(t)
  BY <1>2 DEF TableFull, W!TableFull
<1>10. GetWriteIdx(t) => W!GetWriteIdx(t)
  BY <1>2 DEF GetWriteIdx, W!GetWriteIdx
<1>11. GetWritable(t) => W!GetWritable(t)
  BY <1>2 DEF GetWritable, WIdx, Blk, W!GetWritable, W!WIdx, W!Blk
<1>12. Construct(t) => W!Construct(t)
  BY <1>2 DEF Construct, WIdx, Blk, Spec_TQ!Put, W!Construct, W!WIdx, W!Blk, W!Spec_TQ!Put
<1>13. CommitWrite(t) => W!CommitWrite(t)
  BY <1>2 DEF CommitWrite, WIdx, Blk, Not, DropWriteTicket, W!CommitWrite, W!WIdx, W!Blk, W!Not, W!DropWriteTicket
<1>14. GetReadIdx(t) => W!GetReadIdx(t)
  BY <1>2 DEF GetReadIdx, W!GetReadIdx
<1>15. GetReadable(t) => W!GetReadable(t)
  BY <1>2 DEF GetReadable, RIdx, Blk, Not, W!GetReadable, W!RIdx, W!Blk, W!Not
<1>16. MoveOut(t) => W!MoveOut(t)
  BY <1>2 DEF MoveOut, RIdx, Blk, Spec_TQ!Put, W!MoveOut, W!RIdx, W!Blk, W!Spec_TQ!Put
<1>17. CommitRead(t) => W!CommitRead(t)
  BY <1>2 DEF CommitRead, RIdx, Blk, DropReadTicket, W!CommitRead, W!RIdx, W!Blk, W!DropReadTicket
<1>18. W!Call(t) \/ W!Step(t)
  BY <1>3, <1>4, <1>5, <1>6, <1>7, <1>8, <1>9, <1>10, <1>11, <1>12, <1>13, <1>14, <1>15, <1>16, <1>17 DEF Use, Call, Step, W!Call, W!Step
<1>. QED BY <1>18 DEF W!Next

\* Construction in shared memory and deaths at any point add nothing to what the ring
\* does in one process.
THEOREM ShmRefinement ==
  ASSUME ~Cxx20
  PROVE  ShmSpec => ImplementsWFMPMC
<1>1. ShmInv /\ [ShmNext]_allvars => [W!Next]_(W!vars)
  <2> SUFFICES ASSUME ShmInv, [ShmNext]_allvars PROVE [W!Next]_(W!vars)
    OBVIOUS
  <2>1. CASE UNCHANGED allvars
    BY <2>1 DEF allvars, shmvars, vars, ringvars, tblvars, thrvars, histvars, Built,
                W!vars, W!ringvars, W!tblvars, W!thrvars, W!histvars
  <2>2. ASSUME NEW t \in Threads, Shmmap(t) \/ ShmInitStep(t) \/ Crash(t)
        PROVE  [W!Next]_(W!vars)
    BY <2>2, ShmStutters
  <2>3. ASSUME NEW t \in Threads, Use(t)
        PROVE  [W!Next]_(W!vars)
    BY <2>3, ShmUseImplements
  <2>. QED BY <2>1, <2>2, <2>3 DEF ShmNext
<1>. QED
  BY <1>1, ShmInitImplements, ShmInvariance, PTL DEF ShmSpec, ImplementsWFMPMC, W!Spec

-----------------------------------------------------------------------------
(* Safety of the ring while processes come and die. *)

\* From init_state = 2 on the ring satisfies the invariants of WFMPMC.
ShmRingInv == ShmInv /\ (init_state = 2 => IndInv /\ InvProbe)

\* The store of 2 finds the ring the way the constructor left it; later steps are steps
\* of WFMPMC or leave the ring alone.
LEMMA ShmRingInvNext ==
  ASSUME ~Cxx20
  PROVE  ShmRingInv /\ [ShmNext]_allvars => ShmRingInv'
<1> SUFFICES ASSUME ShmRingInv, [ShmNext]_allvars, ShmInv', init_state' = 2
             PROVE  (IndInv /\ InvProbe)'
  BY ShmInvNext DEF ShmRingInv
<1>1. ASSUME init_state = 2, [Next]_vars
      PROVE  (IndInv /\ InvProbe)'
  BY <1>1, IndInvNext, ProbeNext DEF ShmRingInv
<1>2. ASSUME NEW t \in Threads, PublishState(t)
      PROVE  (IndInv /\ InvProbe)'
  <2>1. Init
    BY <1>2 DEF ShmRingInv, ShmInv, InvStages, InvUnused, InvConstructed, Constructing,
                PublishState, Init
  <2>2. [Next]_vars
    BY <1>2 DEF PublishState
  <2>. QED BY <2>1, <2>2, IndInvInit, ProbeInit, IndInvNext, ProbeNext
<1>3. ASSUME NEW t \in Threads, ShmInitStep(t), ~PublishState(t)
      PROVE  (IndInv /\ InvProbe)'
  <2>1. init_state = 2 /\ UNCHANGED vars
    BY <1>3 DEF ShmInitStep, Exchange, ConstructMembers, ConstructBody, WaitEnds, GoTo,
                ShmRingInv, ShmInv, InvStages, Constructing
  <2>. QED BY <1>1, <2>1
<1>4. ASSUME NEW t \in Threads, Use(t)
      PROVE  (IndInv /\ InvProbe)'
  BY <1>1, <1>4 DEF Use, shmvars, Next
<1>5. ASSUME NEW t \in Threads, Shmmap(t) \/ Crash(t)
      PROVE  (IndInv /\ InvProbe)'
  BY <1>1, <1>5 DEF Shmmap, Crash
<1>6. CASE UNCHANGED allvars
  BY <1>1, <1>6 DEF allvars, shmvars
<1>. QED BY <1>2, <1>3, <1>4, <1>5, <1>6 DEF ShmNext

\* ShmRingInv is an invariant of the build before C++20.
LEMMA ShmRingInvariance ==
  ASSUME ~Cxx20
  PROVE  ShmSpec => []ShmRingInv
<1>1. ShmInit => ShmRingInv
  BY ShmInvInit DEF ShmRingInv, ShmInit
<1>. QED BY <1>1, ShmRingInvNext, PTL DEF ShmSpec

\* Processes that share the file never touch the same block at the same time, although
\* others die in the middle of a call.
THEOREM ShmRaceFree ==
  ASSUME ~Cxx20
  PROVE  ShmSpec => []NoDataRace
<1>1. ShmRingInv => NoDataRace
  BY RaceFreedom DEF ShmRingInv, ShmInv, InvUnused, NoDataRace, Writing, Reading
<1>. QED BY <1>1, ShmRingInvariance, PTL

\* The entries of dead processes are never freed, yet a table with an entry for every
\* process that is ever started turns none away.
THEOREM ShmTableSuffices ==
  ASSUME ~Cxx20, IsFiniteSet(Threads), Cardinality(Threads) <= THR_SIZE
  PROVE  ShmSpec => []NeverTurnedAway
<1>1. ShmRingInv => NeverTurnedAway
  BY ProbeEnds DEF ShmRingInv, ShmInv, InvUnused, NeverTurnedAway
<1>. QED BY <1>1, ShmRingInvariance, PTL
=============================================================================
