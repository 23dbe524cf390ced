------------------------------- MODULE WFSPSC -------------------------------
(***************************************************************************)
(* exchange_core::WFSPSC<T, SIZE>, the single-producer single-consumer     *)
(* ring of WFSPSC.h: SPRing with the reader's index in shared memory.      *)
(*                                                                         *)
(* push, pop and reset() check nothing.  Their callers may compare         *)
(* getCurrentWriteIdx() with getCurrentReadIdx() first.  Both load with    *)
(* sequential consistency, as push and pop store: a caller that finds room *)
(* comes after the pop that made it, one that finds an element after its   *)
(* push.  size() and empty() load relaxed and order nothing; they are      *)
(* hints, as the code says, and a call that relies on them alone is one    *)
(* that has not looked.                                                    *)
(*                                                                         *)
(* clean becomes FALSE with the first call made without what it needs:     *)
(* a caller that has looked and found room to push or an element to pop,   *)
(* no other pop under way, no overlap with a reset().  After that the data *)
(* may race, and nothing but types is claimed.                             *)
(***************************************************************************)
EXTENDS SPRing

VARIABLES read_idx,   \* index of the last element popped
          resetting   \* reset() is between its two stores

SCvars == <<ringvars, read_idx, resetting>>

SCInit ==
  /\ class = "WFSPSC"
  /\ RingInit
  /\ read_idx = 0
  /\ resetting = FALSE

\* getCurrentWriteIdx() - getCurrentReadIdx().  A side's own index changes only by its
\* own calls, and the other's only grows: what a caller has found by two loads still
\* holds when its call begins, unless a reset() came between and took the elements.
Distance == write_idx - read_idx

\* looked: the caller has compared the indices before.
SCPush(looked) ==
  /\ BeginPush(looked /\ Distance < SIZE /\ ~resetting)
  /\ UNCHANGED <<read_idx, resetting>>

SCPop(r, looked) ==
  /\ read_idx < MaxPushes
  /\ BeginPop(r, read_idx + 1,
              looked /\ Distance > 0 /\ ~resetting /\ \A q \in Readers : rpc[q] = "idle")
  /\ UNCHANGED <<read_idx, resetting>>

\* Mutant: read_idx is stored before the element is copied.
Mut_StoreReadIdxEarly(r) ==
  /\ rpc[r] = "first"
  /\ read_idx' = ridx[r]
  /\ rpc' = [rpc EXCEPT ![r] = "second"]
  /\ UNCHANGED <<write_idx, writervars, pushed, ridx, got1, got2, want, clean, resetting>>

\* read_idx = idx
StoreReadIdx(r) ==
  /\ rpc[r] = "copied"
  /\ read_idx' = ridx[r]
  /\ EndPop(r)
  /\ UNCHANGED <<write_idx, writervars, pushed, clean, resetting>>

\* reset(): write_idx = 0 ...
Reset ==
  /\ ~resetting
  /\ write_idx' = 0
  /\ resetting' = TRUE
  /\ pushed' = EmptyFcn
  /\ clean' = (clean /\ wpc = "idle" /\ \A r \in Readers : rpc[r] = "idle")
  /\ UNCHANGED <<writervars, readervars, read_idx>>

\* ... read_idx = 0
ResetReadIdx ==
  /\ resetting
  /\ read_idx' = 0
  /\ resetting' = FALSE
  /\ UNCHANGED ringvars

SCStep ==
  \/ \E looked \in BOOLEAN : SCPush(looked)
  \/ Writer /\ UNCHANGED <<read_idx, resetting>>
  \/ Reset
  \/ ResetReadIdx
  \/ \E r \in Readers : \/ \E looked \in BOOLEAN : SCPop(r, looked)
                        \/ Reader(r) /\ UNCHANGED <<read_idx, resetting>>
                        \/ StoreReadIdx(r)

SCNext == class = "WFSPSC" /\ SCStep /\ UNCHANGED class

SCSpec == SCInit /\ [][SCNext]_SCvars

-----------------------------------------------------------------------------
(* Properties. *)

SCTypeOK == TypeOK /\ read_idx \in Nat /\ resetting \in BOOLEAN

\* Callers that compare getCurrentWriteIdx() with getCurrentReadIdx() before a push and
\* before a pop need nothing else to keep the two sides out of the same block, whoever
\* died in a call before.
NoSharedBlock ==
  class = "WFSPSC" /\ clean /\ wpc # "idle" =>
    \A r \in Readers : rpc[r] # "idle" => Blk(widx) # Blk(ridx[r])

\* What such a caller pops under index n is, whole, the element published under n, not
\* a leftover of a push that died, of the lap before or of the time before a reset().
PopReturnsElement ==
  class = "WFSPSC" /\ clean =>
    \A r \in Readers : rpc[r] = "copied" => /\ want[r] # 0
                                            /\ got1[r] = want[r]
                                            /\ got2[r] = want[r]

-----------------------------------------------------------------------------
(* The inductive invariant behind NoSharedBlock and PopReturnsElement. *)

\* With supported calls only: the two sides are at most SIZE apart, and each works on
\* the index after its own.
InvIndices ==
  /\ resetting => write_idx = 0 /\ wpc = "idle" /\ \A r \in Readers : rpc[r] = "idle"
  /\ ~resetting => read_idx <= write_idx /\ write_idx <= read_idx + SIZE
  /\ wpc # "idle" => widx = write_idx + 1 /\ widx <= read_idx + SIZE /\ serial # 0
  /\ \A r \in Readers :
       rpc[r] # "idle" => ridx[r] = read_idx + 1 /\ ridx[r] <= write_idx
  /\ \A r, q \in Readers : rpc[r] # "idle" /\ rpc[q] # "idle" => r = q

\* ... and the blocks of the elements between the two indices hold them whole.
InvElements ==
  /\ \A n \in (read_idx + 1)..write_idx :
       /\ n \in DOMAIN pushed /\ pushed[n] # 0
       /\ word1[Blk(n)] = pushed[n] /\ word2[Blk(n)] = pushed[n]
  /\ wpc \in {"second", "store"} => word1[Blk(widx)] = serial
  /\ wpc = "store" => word2[Blk(widx)] = serial
  /\ \A r \in Readers :
       /\ rpc[r] # "idle" => want[r] = pushed[ridx[r]]
       /\ rpc[r] \in {"second", "copied"} => got1[r] = want[r]
       /\ rpc[r] = "copied" => got2[r] = want[r]

SCInv == SCTypeOK /\ (clean => InvIndices /\ InvElements)
=============================================================================
