---------------------------- MODULE WFSPMCProofs ----------------------------
(***************************************************************************)
(* TLAPS proofs about WFSPMC: what a reader that compares its index with   *)
(* write_idx after its copy may rely on, for every SIZE and any number of  *)
(* readers.                                                                *)
(***************************************************************************)
EXTENDS WFSPMC, TLAPS

-----------------------------------------------------------------------------
(* Arithmetic of the ring. *)

\* An index has a block.
LEMMA BlkInBlocks ==
  ASSUME NEW n \in Nat
  PROVE  Blk(n) \in Blocks
  BY SizeAssumption DEF Blk, Blocks

\* Indices less than SIZE apart have different blocks.
LEMMA BlkDiffers ==
  ASSUME NEW n \in Nat, NEW m \in Nat, n < m, m < n + SIZE
  PROVE  Blk(n) # Blk(m)
<1>1. ASSUME NEW i \in Int
      PROVE  i % SIZE = i - SIZE * (i \div SIZE) /\ i \div SIZE \in Int
  <2>1. \A j, s \in Int : s > 0 => j % s = j - s * (j \div s) /\ j \div s \in Int
    BY Z3
  <2>. QED BY <2>1, SizeAssumption
<1>2. PICK q \in Int : n % SIZE = n - SIZE * q
  BY <1>1
<1>3. PICK p \in Int : m % SIZE = m - SIZE * p
  BY <1>1
<1>4. ASSUME n % SIZE = m % SIZE
      PROVE  FALSE
  <2>1. m - n = SIZE * (p - q)
    BY <1>2, <1>3, <1>4, SizeAssumption, Z3
  <2>2. CASE p - q <= 0
    <3>1. SIZE * (p - q) <= 0
      BY <2>2, SizeAssumption, Z3
    <3>. QED BY <2>1, <3>1
  <2>3. CASE p - q >= 1
    <3>1. SIZE * (p - q) >= SIZE
      BY <2>3, SizeAssumption, Z3
    <3>. QED BY <2>1, <3>1, SizeAssumption
  <2>. QED BY <2>2, <2>3
<1>. QED BY <1>4 DEF Blk

-----------------------------------------------------------------------------
(* The invariant. *)

\* The file of zeros.
LEMMA MCInvInit == MCInit => MCInv
<1> SUFFICES ASSUME MCInit PROVE MCInv
  OBVIOUS
<1> USE DEF MCInit, RingInit, EmptyFcn
<1>1. TypeOK
  BY DEF TypeOK
<1>2. InvRecent
  BY DEF InvRecent
<1>. QED BY <1>1, <1>2 DEF MCInv

\* Every variable stays in its type, whatever index is asked for or set.
LEMMA TypeNext == TypeOK /\ [MCNext]_ringvars => TypeOK'
<1> SUFFICES ASSUME TypeOK, [MCNext]_ringvars PROVE TypeOK'
  OBVIOUS
<1> USE BlkInBlocks DEF TypeOK, writervars, readervars, ringvars
<1>1. CASE UNCHANGED ringvars
  BY <1>1
<1>2. CASE MCPush
  BY <1>2 DEF MCPush, BeginPush
<1>3. CASE WriteFirst
  BY <1>3 DEF WriteFirst
<1>4. CASE WriteSecond
  BY <1>4 DEF WriteSecond
<1>5. CASE Publish
  BY <1>5 DEF Publish, Put
<1>6. CASE WriterDies
  BY <1>6 DEF WriterDies
<1>7. ASSUME NEW idx \in 0..MaxPushes, SetWriteIdx(idx)
      PROVE  TypeOK'
  BY <1>7 DEF SetWriteIdx
<1>8. ASSUME NEW r \in Readers, NEW idx \in 1..(write_idx + 1), BeginPop(r, idx, TRUE)
      PROVE  TypeOK'
  BY <1>8 DEF BeginPop
<1>9. ASSUME NEW r \in Readers, CopyFirst(r) \/ CopySecond(r)
      PROVE  TypeOK'
  BY <1>9 DEF CopyFirst, CopySecond
<1>10. ASSUME NEW r \in Readers, ReaderDies(r) \/ Return(r)
       PROVE  TypeOK'
  BY <1>10 DEF ReaderDies, Return, EndPop
<1>. QED
  BY <1>1, <1>2, <1>3, <1>4, <1>5, <1>6, <1>7, <1>8, <1>9, <1>10
  DEF MCNext, MCStep, Writer, MCPop, Reader

\* A step of the constructor: the block of the writer is none of the recent elements'.
LEMMA WriteInv ==
  ASSUME MCInv, WriteFirst \/ WriteSecond, clean
  PROVE  InvRecent'
<1> USE DEF MCInv, TypeOK, readervars
<1>1. widx = write_idx + 1 /\ widx \in Nat /\ Blk(widx) \in Blocks
  BY BlkInBlocks DEF InvRecent, WriteFirst, WriteSecond
<1>2. ASSUME NEW n \in DOMAIN pushed, write_idx - n < SIZE - 1
      PROVE  Blk(n) # Blk(widx)
  <2>1. n \in Nat /\ n < widx /\ widx < n + SIZE
    BY <1>1, <1>2, SizeAssumption DEF InvRecent
  <2>. QED BY <1>1, <2>1, BlkDiffers
<1>3. CASE WriteFirst
  <2>1. /\ word1'[Blk(widx)] = serial
        /\ \A n \in DOMAIN pushed :
             write_idx - n < SIZE - 1 => word1'[Blk(n)] = word1[Blk(n)]
    BY <1>1, <1>2, <1>3 DEF WriteFirst
  <2>. QED BY <1>3, <2>1 DEF WriteFirst, InvRecent, Blk
<1>4. CASE WriteSecond
  <2>1. /\ word2'[Blk(widx)] = serial
        /\ \A n \in DOMAIN pushed :
             write_idx - n < SIZE - 1 => word2'[Blk(n)] = word2[Blk(n)]
    BY <1>1, <1>2, <1>4 DEF WriteSecond
  <2>. QED BY <1>4, <2>1 DEF WriteSecond, InvRecent, Blk
<1>. QED BY <1>3, <1>4

\* write_idx = idx: the new element is whole, an older one is recent only if it was.
LEMMA PublishInv ==
  ASSUME MCInv, Publish, clean
  PROVE  InvRecent'
<1> USE DEF MCInv, TypeOK, Publish, readervars
<1>1. widx = write_idx + 1
  BY DEF InvRecent
<1>2. /\ DOMAIN pushed' = DOMAIN pushed \cup {widx} /\ pushed'[widx] = serial
      /\ \A n \in DOMAIN pushed : pushed'[n] = pushed[n] /\ n # widx
  BY <1>1 DEF Put, InvRecent
<1>3. ASSUME NEW n \in DOMAIN pushed'
      PROVE  /\ n <= write_idx'
             /\ write_idx' - n < SIZE - 1
                  => word1[Blk(n)] = pushed'[n] /\ word2[Blk(n)] = pushed'[n]
  <2>1. CASE n = widx
    BY <1>2, <2>1 DEF InvRecent
  <2>2. CASE n \in DOMAIN pushed
    BY <1>1, <1>2, <2>2, SizeAssumption DEF InvRecent
  <2>. QED BY <1>2, <2>1, <2>2
<1>4. ASSUME NEW r \in Readers, want[r] # 0
      PROVE  /\ ridx[r] \in DOMAIN pushed' /\ pushed'[ridx[r]] = want[r]
             /\ write_idx' - ridx[r] < SIZE - 1 => write_idx - ridx[r] < SIZE - 1
  BY <1>1, <1>2, <1>4, SizeAssumption DEF InvRecent
<1>. QED BY <1>3, <1>4 DEF InvRecent, Blk

\* setWriteIdx() forward makes elements older, never younger.
LEMMA SetWriteIdxInv ==
  ASSUME MCInv, NEW idx \in 0..MaxPushes, SetWriteIdx(idx), clean'
  PROVE  InvRecent'
<1>1. clean /\ wpc = "idle" /\ idx >= write_idx
  BY DEF SetWriteIdx
<1>2. /\ \A n \in DOMAIN pushed : n <= idx /\ (idx - n < SIZE - 1 => write_idx - n < SIZE - 1)
      /\ \A r \in Readers : idx - ridx[r] < SIZE - 1 => write_idx - ridx[r] < SIZE - 1
  BY <1>1, SizeAssumption DEF MCInv, TypeOK, InvRecent
<1>. QED BY <1>1, <1>2 DEF SetWriteIdx, MCInv, InvRecent, Blk, writervars, readervars

\* A reader's copy of a recent element is of that element.
LEMMA CopyInv ==
  ASSUME MCInv, NEW r \in Readers, CopyFirst(r) \/ CopySecond(r), clean
  PROVE  InvRecent'
<1> USE DEF MCInv, TypeOK, writervars
<1>1. want[r] # 0 /\ write_idx - ridx[r] < SIZE - 1
        => word1[Blk(ridx[r])] = want[r] /\ word2[Blk(ridx[r])] = want[r]
  BY DEF InvRecent
<1>2. CASE CopyFirst(r)
  BY <1>1, <1>2 DEF CopyFirst, InvRecent, Blk
<1>3. CASE CopySecond(r)
  BY <1>1, <1>3 DEF CopySecond, InvRecent, Blk
<1>. QED BY <1>2, <1>3

\* Every step preserves the invariant.
LEMMA MCInvNext == MCInv /\ [MCNext]_ringvars => MCInv'
<1> SUFFICES ASSUME MCInv, [MCNext]_ringvars, clean'
             PROVE  InvRecent'
  BY TypeNext DEF MCInv
<1> USE DEF writervars, readervars, ringvars
<1>1. CASE UNCHANGED ringvars
  BY <1>1 DEF MCInv, InvRecent, Blk
<1>2. CASE MCPush
  BY <1>2 DEF MCPush, BeginPush, MCInv, InvRecent, Blk
<1>3. CASE Writer
  <2>1. CASE WriteFirst \/ WriteSecond
    BY <2>1, WriteInv DEF WriteFirst, WriteSecond
  <2>2. CASE Publish
    BY <2>2, PublishInv DEF Publish
  <2>3. CASE WriterDies
    BY <2>3 DEF WriterDies, MCInv, InvRecent, Blk
  <2>. QED BY <1>3, <2>1, <2>2, <2>3 DEF Writer
<1>4. ASSUME NEW idx \in 0..MaxPushes, SetWriteIdx(idx)
      PROVE  InvRecent'
  BY <1>4, SetWriteIdxInv
<1>5. ASSUME NEW r \in Readers, NEW idx \in 1..(write_idx + 1), BeginPop(r, idx, TRUE)
      PROVE  InvRecent'
  <2>1. /\ rpc'[r] = "first" /\ ridx'[r] = idx
        /\ want'[r] # 0 => idx \in DOMAIN pushed /\ want'[r] = pushed[idx]
        /\ \A q \in Readers : q # r =>
             rpc'[q] = rpc[q] /\ ridx'[q] = ridx[q] /\ want'[q] = want[q]
    BY <1>5 DEF BeginPop, MCInv, TypeOK
  <2>2. clean /\ UNCHANGED <<write_idx, writervars, pushed, got1, got2>>
    BY <1>5 DEF BeginPop
  <2>. QED BY <2>1, <2>2 DEF MCInv, InvRecent, Blk
<1>6. ASSUME NEW r \in Readers, CopyFirst(r) \/ CopySecond(r)
      PROVE  InvRecent'
  BY <1>6, CopyInv DEF CopyFirst, CopySecond
<1>7. ASSUME NEW r \in Readers, ReaderDies(r) \/ Return(r)
      PROVE  InvRecent'
  <2>1. /\ want'[r] = 0
        /\ \A q \in Readers : q # r =>
             /\ rpc'[q] = rpc[q] /\ ridx'[q] = ridx[q] /\ want'[q] = want[q]
             /\ got1'[q] = got1[q] /\ got2'[q] = got2[q]
    BY <1>7 DEF ReaderDies, Return, EndPop, MCInv, TypeOK
  <2>2. clean /\ UNCHANGED <<write_idx, writervars, pushed>>
    BY <1>7 DEF ReaderDies, Return
  <2>. QED BY <2>1, <2>2 DEF MCInv, InvRecent, Blk
<1>. QED
  BY <1>1, <1>2, <1>3, <1>4, <1>5, <1>6, <1>7 DEF MCNext, MCStep, MCPop, Reader

\* MCInv is an invariant of the specification.
LEMMA MCInvariance == MCSpec => []MCInv
  BY MCInvInit, MCInvNext, PTL DEF MCSpec

-----------------------------------------------------------------------------
(* The theorems. *)

\* Every index, word and control point stays in its type.
THEOREM MCTypeCorrect == MCSpec => []TypeOK
<1>1. MCInv => TypeOK
  BY DEF MCInv
<1>. QED BY <1>1, MCInvariance, PTL

\* A reader that finds write_idx less than SIZE - 1 ahead of its index after the copy has
\* the element whole, in a ring of any size with any number of readers.
THEOREM RecentIntact == MCSpec => []RecentReadsWhole
<1>1. MCInv => RecentReadsWhole
  BY DEF MCInv, InvRecent, RecentReadsWhole
<1>. QED BY <1>1, MCInvariance, PTL
=============================================================================
