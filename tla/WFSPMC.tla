------------------------------- MODULE WFSPMC -------------------------------
(***************************************************************************)
(* exchange_core::WFSPMC<T, SIZE>, the multicast ring of WFSPMC.h: SPRing  *)
(* with readers that pass the index to pop(idx).  The writer knows nothing *)
(* of them and overwrites what they have not read.  T is copied, not       *)
(* moved, by std::move: Message is trivially copyable.                     *)
(*                                                                         *)
(* clean becomes FALSE when setWriteIdx() turns the index back or is       *)
(* called during a push.                                                   *)
(***************************************************************************)
EXTENDS SPRing

MCInit == class = "WFSPMC" /\ RingInit

MCPush == BeginPush(TRUE)

\* Readers compare their index with getCurrentWriteIdx(), or do not.
MCPop(r) == \E idx \in 1..(write_idx + 1) : BeginPop(r, idx, TRUE)

\* return ret
Return(r) ==
  /\ rpc[r] = "copied"
  /\ EndPop(r)
  /\ UNCHANGED <<write_idx, writervars, pushed, clean>>

SetWriteIdx(idx) ==
  /\ write_idx' = idx
  /\ clean' = (clean /\ wpc = "idle" /\ idx >= write_idx)
  /\ UNCHANGED <<writervars, readervars, pushed>>

MCStep ==
  \/ MCPush
  \/ Writer
  \/ \E idx \in 0..MaxPushes : SetWriteIdx(idx)
  \/ \E r \in Readers : MCPop(r) \/ Reader(r) \/ Return(r)

MCNext == class = "WFSPMC" /\ MCStep /\ UNCHANGED class

MCSpec == MCInit /\ [][MCNext]_ringvars

-----------------------------------------------------------------------------
(* Properties. *)

\* A reader that finds, after its copy, that write_idx is still less than SIZE - 1 ahead
\* of idx has the element published under idx, whole: one block fewer than the ring has,
\* because the writer may be at work in the next one (or have died in it).
RecentReadsWhole ==
  class = "WFSPMC" /\ clean => \A r \in Readers :
    /\ rpc[r] = "copied"
    /\ want[r] # 0
    /\ write_idx - ridx[r] < SIZE - 1
    => got1[r] = want[r] /\ got2[r] = want[r]

-----------------------------------------------------------------------------
(* The inductive invariant behind RecentReadsWhole. *)

\* As long as the index never goes back: a block is not written again before write_idx
\* is SIZE - 1 past the element in it, and what a reader copied until then is from it.
InvRecent ==
  /\ wpc # "idle" => widx = write_idx + 1
  /\ wpc \in {"second", "store"} => word1[Blk(widx)] = serial
  /\ wpc = "store" => word2[Blk(widx)] = serial
  /\ \A n \in DOMAIN pushed :
       /\ n <= write_idx
       /\ write_idx - n < SIZE - 1 => word1[Blk(n)] = pushed[n] /\ word2[Blk(n)] = pushed[n]
  /\ \A r \in Readers : want[r] # 0 =>
       /\ ridx[r] \in DOMAIN pushed /\ pushed[ridx[r]] = want[r]
       /\ write_idx - ridx[r] < SIZE - 1 =>
            /\ rpc[r] \in {"second", "copied"} => got1[r] = want[r]
            /\ rpc[r] = "copied" => got2[r] = want[r]

MCInv == TypeOK /\ (clean => InvRecent)
=============================================================================
