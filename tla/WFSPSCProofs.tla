---------------------------- MODULE WFSPSCProofs ----------------------------
(***************************************************************************)
(* TLAPS proofs about WFSPSC: what callers that compare the two indices    *)
(* first may rely on, for every SIZE, although processes die in calls and  *)
(* the ring is reset.                                                      *)
(***************************************************************************)
EXTENDS WFSPSC, TLAPS

-----------------------------------------------------------------------------
(* Arithmetic of the ring. *)

\* An index has a block.
LEMMA BlkInBlocks ==
  ASSUME NEW n \in Nat
  PROVE  Blk(n) \in Blocks
  BY SizeAssumption DEF Blk, Blocks

\* Indices less than SIZE apart have different blocks.
LEMMA BlkDiffers ==
  ASSUME NEW n \in Nat, NEW m \in Nat, n < m, m < n + SIZE
  PROVE  Blk(n) # Blk(m)
<1>1. ASSUME NEW i \in Int
      PROVE  i % SIZE = i - SIZE * (i \div SIZE) /\ i \div SIZE \in Int
  <2>1. \A j, s \in Int : s > 0 => j % s = j - s * (j \div s) /\ j \div s \in Int
    BY Z3
  <2>. QED BY <2>1, SizeAssumption
<1>2. PICK q \in Int : n % SIZE = n - SIZE * q
  BY <1>1
<1>3. PICK p \in Int : m % SIZE = m - SIZE * p
  BY <1>1
<1>4. ASSUME n % SIZE = m % SIZE
      PROVE  FALSE
  <2>1. m - n = SIZE * (p - q)
    BY <1>2, <1>3, <1>4, SizeAssumption, Z3
  <2>2. CASE p - q <= 0
    <3>1. SIZE * (p - q) <= 0
      BY <2>2, SizeAssumption, Z3
    <3>. QED BY <2>1, <3>1
  <2>3. CASE p - q >= 1
    <3>1. SIZE * (p - q) >= SIZE
      BY <2>3, SizeAssumption, Z3
    <3>. QED BY <2>1, <3>1, SizeAssumption
  <2>. QED BY <2>2, <2>3
<1>. QED BY <1>4 DEF Blk

-----------------------------------------------------------------------------
(* The invariant. *)

\* The file of zeros.
LEMMA SCInvInit == SCInit => SCInv
<1> SUFFICES ASSUME SCInit PROVE SCInv
  OBVIOUS
<1> USE DEF SCInit, RingInit, EmptyFcn
<1>1. SCTypeOK
  BY DEF SCTypeOK, TypeOK
<1>2. InvIndices
  BY SizeAssumption DEF InvIndices
<1>3. InvElements
  BY DEF InvElements
<1>. QED BY <1>1, <1>2, <1>3 DEF SCInv

\* Every variable stays in its type, whoever calls what.
LEMMA TypeNext == SCTypeOK /\ [SCNext]_SCvars => SCTypeOK'
<1> SUFFICES ASSUME SCTypeOK, [SCNext]_SCvars PROVE SCTypeOK'
  OBVIOUS
<1> USE BlkInBlocks DEF SCTypeOK, TypeOK, writervars, readervars, ringvars
<1>1. CASE UNCHANGED SCvars
  BY <1>1 DEF SCvars
<1>2. ASSUME NEW looked \in BOOLEAN, SCPush(looked)
      PROVE  SCTypeOK'
  BY <1>2 DEF SCPush, BeginPush
<1>3. CASE WriteFirst /\ UNCHANGED <<read_idx, resetting>>
  BY <1>3 DEF WriteFirst
<1>4. CASE WriteSecond /\ UNCHANGED <<read_idx, resetting>>
  BY <1>4 DEF WriteSecond
<1>5. CASE Publish /\ UNCHANGED <<read_idx, resetting>>
  BY <1>5 DEF Publish, Put
<1>6. CASE WriterDies /\ UNCHANGED <<read_idx, resetting>>
  BY <1>6 DEF WriterDies
<1>7. CASE Reset
  BY <1>7 DEF Reset, EmptyFcn
<1>8. CASE ResetReadIdx
  BY <1>8 DEF ResetReadIdx
<1>9. ASSUME NEW r \in Readers, NEW looked \in BOOLEAN, SCPop(r, looked)
      PROVE  SCTypeOK'
  BY <1>9 DEF SCPop, BeginPop
<1>10. ASSUME NEW r \in Readers, CopyFirst(r) \/ CopySecond(r), UNCHANGED <<read_idx, resetting>>
       PROVE  SCTypeOK'
  BY <1>10 DEF CopyFirst, CopySecond
<1>11. ASSUME NEW r \in Readers,
              StoreReadIdx(r) \/ (ReaderDies(r) /\ UNCHANGED <<read_idx, resetting>>)
       PROVE  SCTypeOK'
  BY <1>11 DEF StoreReadIdx, ReaderDies, EndPop
<1>. QED
  BY <1>1, <1>2, <1>3, <1>4, <1>5, <1>6, <1>7, <1>8, <1>9, <1>10, <1>11
  DEF SCNext, SCStep, Writer, Reader

\* The writer's index is ahead of everything that is still to be popped, and less than a
\* lap ahead: its block is none of theirs.
LEMMA WriterApart ==
  ASSUME SCTypeOK, InvIndices, wpc # "idle"
  PROVE  \A n \in (read_idx + 1)..write_idx : Blk(n) # Blk(widx)
<1> SUFFICES ASSUME NEW n \in (read_idx + 1)..write_idx PROVE Blk(n) # Blk(widx)
  OBVIOUS
<1>1. n \in Nat /\ widx \in Nat /\ n < widx /\ widx < n + SIZE
  BY SizeAssumption DEF SCTypeOK, TypeOK, InvIndices
<1>. QED BY <1>1, BlkDiffers

\* A writer's step in its own block leaves the elements to be popped whole.
LEMMA WriteInv ==
  ASSUME SCInv, WriteFirst \/ WriteSecond, UNCHANGED <<read_idx, resetting>>, clean
  PROVE  InvIndices' /\ InvElements'
<1> USE DEF SCInv, writervars, readervars
<1>1. InvIndices'
  BY DEF WriteFirst, WriteSecond, InvIndices
<1>2. \A n \in (read_idx + 1)..write_idx : Blk(n) # Blk(widx)
  BY WriterApart DEF WriteFirst, WriteSecond
<1>3. Blk(widx) \in Blocks
  BY BlkInBlocks DEF SCTypeOK, TypeOK
<1>4. CASE WriteFirst
  <2>1. /\ word1'[Blk(widx)] = serial
        /\ \A n \in (read_idx + 1)..write_idx : word1'[Blk(n)] = word1[Blk(n)]
    BY <1>2, <1>3, <1>4 DEF WriteFirst, SCTypeOK, TypeOK
  <2>. QED BY <1>1, <1>4, <2>1 DEF WriteFirst, InvElements, Blk
<1>5. CASE WriteSecond
  <2>1. /\ word2'[Blk(widx)] = serial
        /\ \A n \in (read_idx + 1)..write_idx : word2'[Blk(n)] = word2[Blk(n)]
    BY <1>2, <1>3, <1>5 DEF WriteSecond, SCTypeOK, TypeOK
  <2>. QED BY <1>1, <1>5, <2>1 DEF WriteSecond, InvElements, Blk
<1>. QED BY <1>4, <1>5

\* write_idx = idx: one more element, whole.
LEMMA PublishInv ==
  ASSUME SCInv, Publish, UNCHANGED <<read_idx, resetting>>, clean
  PROVE  InvIndices' /\ InvElements'
<1> USE DEF SCInv, SCTypeOK, TypeOK, Publish, readervars
<1>1. ~resetting /\ widx = write_idx + 1 /\ widx <= read_idx + SIZE /\ serial # 0
  BY DEF InvIndices
<1>2. InvIndices'
  BY <1>1 DEF InvIndices
<1>3. /\ pushed'[widx] = serial /\ widx \in DOMAIN pushed'
      /\ \A n \in DOMAIN pushed : n # widx => n \in DOMAIN pushed' /\ pushed'[n] = pushed[n]
  BY DEF Put
<1>4. ASSUME NEW n \in (read_idx + 1)..write_idx'
      PROVE  /\ n \in DOMAIN pushed' /\ pushed'[n] # 0
             /\ word1[Blk(n)] = pushed'[n] /\ word2[Blk(n)] = pushed'[n]
  <2>1. CASE n = widx
    BY <1>1, <1>3, <2>1 DEF InvElements
  <2>2. CASE n # widx
    <3>1. n \in (read_idx + 1)..write_idx
      BY <1>1, <1>4, <2>2
    <3>. QED BY <1>3, <2>2, <3>1 DEF InvElements
  <2>. QED BY <2>1, <2>2
<1>5. \A r \in Readers : rpc[r] # "idle" => pushed'[ridx[r]] = pushed[ridx[r]]
  <2> SUFFICES ASSUME NEW r \in Readers, rpc[r] # "idle"
               PROVE  pushed'[ridx[r]] = pushed[ridx[r]]
    OBVIOUS
  <2>1. ridx[r] \in (read_idx + 1)..write_idx /\ ridx[r] # widx
    BY <1>1 DEF InvIndices
  <2>. QED BY <1>3, <2>1 DEF InvElements
<1>. QED BY <1>2, <1>4, <1>5 DEF InvElements, Blk

\* A supported pop begins: its element is there.
LEMMA PopInv ==
  ASSUME SCInv, NEW r \in Readers, NEW looked \in BOOLEAN, SCPop(r, looked), clean'
  PROVE  InvIndices' /\ InvElements'
<1>0. clean /\ Distance > 0 /\ ~resetting /\ \A q \in Readers : rpc[q] = "idle"
  BY DEF SCPop, BeginPop
<1> USE DEF SCInv, SCTypeOK, TypeOK, SCPop, BeginPop, writervars
<1>1. /\ clean /\ ~resetting /\ \A q \in Readers : rpc[q] = "idle"
      /\ read_idx + 1 \in (read_idx + 1)..write_idx
  BY <1>0 DEF Distance
<1>2. InvIndices'
  BY <1>1 DEF InvIndices
<1>3. want'[r] = pushed[read_idx + 1] /\ ridx'[r] = read_idx + 1
  BY <1>1 DEF InvElements
<1>. QED BY <1>1, <1>2, <1>3 DEF InvElements, Blk

\* A pop copies the element it wants.
LEMMA CopyInv ==
  ASSUME SCInv, NEW r \in Readers, CopyFirst(r) \/ CopySecond(r),
         UNCHANGED <<read_idx, resetting>>, clean
  PROVE  InvIndices' /\ InvElements'
<1> USE DEF SCInv, SCTypeOK, TypeOK, CopyFirst, CopySecond, writervars
<1>0. /\ UNCHANGED <<wpc, widx, serial, write_idx, pushed, word1, word2, ridx, want>>
      /\ \A q \in Readers : rpc'[q] # "idle" => rpc[q] # "idle"
  OBVIOUS
<1>1. InvIndices'
  BY <1>0 DEF InvIndices
<1>2. /\ word1[Blk(ridx[r])] = want[r] /\ word2[Blk(ridx[r])] = want[r]
  <2>1. rpc[r] # "idle"
    OBVIOUS
  <2>2. ridx[r] \in Nat /\ ridx[r] = read_idx + 1 /\ ridx[r] <= write_idx
    BY <2>1 DEF InvIndices
  <2>3. ridx[r] \in (read_idx + 1)..write_idx
    BY <2>2
  <2>. QED BY <2>1, <2>3 DEF InvElements
<1>3. \A q \in Readers :
        /\ rpc'[q] \in {"second", "copied"} => got1'[q] = want[q]
        /\ rpc'[q] = "copied" => got2'[q] = want[q]
  BY <1>2 DEF InvElements
<1>. QED BY <1>0, <1>1, <1>3 DEF InvElements, Blk

\* read_idx = idx, the end of a pop.
LEMMA StoreInv ==
  ASSUME SCInv, NEW r \in Readers, StoreReadIdx(r), clean
  PROVE  InvIndices' /\ InvElements'
<1> USE DEF SCInv, SCTypeOK, TypeOK, StoreReadIdx, EndPop, writervars
<1>1. /\ read_idx' = read_idx + 1 /\ read_idx + 1 <= write_idx
      /\ \A q \in Readers : rpc'[q] = "idle"
  BY DEF InvIndices
<1>2. InvIndices'
  BY <1>1, SizeAssumption DEF InvIndices
<1>3. \A n \in (read_idx' + 1)..write_idx : n \in (read_idx + 1)..write_idx
  BY <1>1
<1>. QED BY <1>1, <1>2, <1>3 DEF InvElements, Blk

\* Every step preserves the invariant: an unsupported call only ends clean.
LEMMA SCInvNext == SCInv /\ [SCNext]_SCvars => SCInv'
<1> SUFFICES ASSUME SCInv, [SCNext]_SCvars, SCTypeOK', clean'
             PROVE  InvIndices' /\ InvElements'
  BY TypeNext DEF SCInv
<1> USE DEF writervars, readervars, ringvars
<1>1. CASE UNCHANGED SCvars
  BY <1>1 DEF SCvars, SCInv, InvIndices, InvElements, Blk
<1>2. ASSUME NEW looked \in BOOLEAN, SCPush(looked)
      PROVE  InvIndices' /\ InvElements'
  <2>1. clean /\ Distance < SIZE /\ ~resetting
    BY <1>2 DEF SCPush, BeginPush, SCInv, SCTypeOK, TypeOK
  <2>. QED BY <1>2, <2>1, SizeAssumption
           DEF SCPush, BeginPush, Distance, SCInv, SCTypeOK, TypeOK, InvIndices, InvElements, Blk
<1>3. CASE Writer /\ UNCHANGED <<read_idx, resetting>>
  <2>1. CASE WriteFirst \/ WriteSecond
    BY <1>3, <2>1, WriteInv DEF WriteFirst, WriteSecond
  <2>2. CASE Publish
    BY <1>3, <2>2, PublishInv DEF Publish
  <2>3. CASE WriterDies
    BY <1>3, <2>3 DEF WriterDies, SCInv, InvIndices, InvElements, Blk
  <2>. QED BY <1>3, <2>1, <2>2, <2>3 DEF Writer
<1>4. CASE Reset
  <2>1. clean /\ wpc = "idle" /\ \A r \in Readers : rpc[r] = "idle"
    BY <1>4 DEF Reset, SCInv, SCTypeOK, TypeOK
  <2>2. \A n \in (read_idx + 1)..0 : FALSE
    BY DEF SCInv, SCTypeOK
  <2>. QED BY <1>4, <2>1, <2>2 DEF Reset, InvIndices, InvElements
<1>5. CASE ResetReadIdx
  <2>1. clean /\ write_idx = 0 /\ wpc = "idle" /\ \A r \in Readers : rpc[r] = "idle"
    BY <1>5 DEF ResetReadIdx, SCInv, InvIndices
  <2>. QED BY <1>5, <2>1, SizeAssumption DEF ResetReadIdx, InvIndices, InvElements
<1>6. ASSUME NEW r \in Readers, NEW looked \in BOOLEAN, SCPop(r, looked)
      PROVE  InvIndices' /\ InvElements'
  BY <1>6, PopInv
<1>7. ASSUME NEW r \in Readers, Reader(r), UNCHANGED <<read_idx, resetting>>
      PROVE  InvIndices' /\ InvElements'
  <2>1. CASE CopyFirst(r) \/ CopySecond(r)
    BY <1>7, <2>1, CopyInv DEF CopyFirst, CopySecond
  <2>2. CASE ReaderDies(r)
    BY <1>7, <2>2
    DEF ReaderDies, EndPop, SCInv, SCTypeOK, TypeOK, InvIndices, InvElements, Blk
  <2>. QED BY <1>7, <2>1, <2>2 DEF Reader
<1>8. ASSUME NEW r \in Readers, StoreReadIdx(r)
      PROVE  InvIndices' /\ InvElements'
  BY <1>8, StoreInv DEF StoreReadIdx
<1>. QED BY <1>1, <1>2, <1>3, <1>4, <1>5, <1>6, <1>7, <1>8 DEF SCNext, SCStep

\* SCInv is an invariant of the specification.
LEMMA SCInvariance == SCSpec => []SCInv
  BY SCInvInit, SCInvNext, PTL DEF SCSpec

-----------------------------------------------------------------------------
(* The theorems. *)

\* Every index, word and control point stays in its type, supported call or not.
THEOREM SCTypeCorrect == SCSpec => [](TypeOK /\ read_idx \in Nat /\ resetting \in BOOLEAN)
<1>1. SCInv => TypeOK /\ read_idx \in Nat /\ resetting \in BOOLEAN
  BY DEF SCInv, SCTypeOK
<1>. QED BY <1>1, SCInvariance, PTL

\* getCurrentWriteIdx() - getCurrentReadIdx() < SIZE before a push and > 0 before a pop
\* keep the two sides out of the same block in a ring of any size.
THEOREM SidesApart == SCSpec => []NoSharedBlock
<1>1. ASSUME SCInv, clean, wpc # "idle", NEW r \in Readers, rpc[r] # "idle"
      PROVE  Blk(widx) # Blk(ridx[r])
  <2>1. ridx[r] \in (read_idx + 1)..write_idx
    BY <1>1 DEF SCInv, SCTypeOK, TypeOK, InvIndices
  <2>. QED BY <1>1, <2>1, WriterApart DEF SCInv
<1>2. SCInv => NoSharedBlock
  BY <1>1 DEF NoSharedBlock
<1>. QED BY <1>2, SCInvariance, PTL

\* Such a pop returns, whole, the element published under its index.
THEOREM ElementsIntact == SCSpec => []PopReturnsElement
<1>1. ASSUME SCInv, clean, NEW r \in Readers, rpc[r] = "copied"
      PROVE  want[r] # 0 /\ got1[r] = want[r] /\ got2[r] = want[r]
  <2>1. ridx[r] \in (read_idx + 1)..write_idx
    BY <1>1 DEF SCInv, SCTypeOK, TypeOK, InvIndices
  <2>. QED BY <1>1, <2>1 DEF SCInv, InvElements
<1>2. SCInv => PopReturnsElement
  BY <1>1 DEF PopReturnsElement
<1>. QED BY <1>2, SCInvariance, PTL
=============================================================================
