------------------------------- MODULE SPRing -------------------------------
(***************************************************************************)
(* What the single-producer rings WFSPSC.h and WFSPMC.h have in common: a  *)
(* writer that constructs in block (write_idx + 1) % SIZE and then stores  *)
(* write_idx + 1, and readers that copy a block.  Neither checks whether   *)
(* the other side is in the block.                                         *)
(*                                                                         *)
(* The ring lives in a file in shared memory that shmmap() maps as it is   *)
(* (shmInit() does nothing): a process that dies between two steps leaves  *)
(* its half-done work behind for the one that is started after it.         *)
(*                                                                         *)
(* Message, the T of both rings, is 1 KB that is copied word by word: here *)
(* two words, so that a copy taken during a write is a mixture.  Every     *)
(* push writes a number of its own (serial) in both words.                 *)
(***************************************************************************)
EXTENDS Integers

CONSTANTS SIZE,      \* number of blocks
          Readers,   \* threads that pop
          MaxPushes  \* bound: number of pushes that are started

ASSUME SizeAssumption == SIZE \in Nat \ {0}

VARIABLES
  class,         \* the class of the ring in the file, "WFSPSC" or "WFSPMC"
  write_idx,     \* index of the last element published
  word1, word2,  \* per block: the two words of its element, 0 at first
  wpc, widx,     \* writer: control point, the local idx
  serial,        \* history: number of pushes started
  pushed,        \* history: index -> serial of the element published under it
  rpc, ridx,     \* per reader: control point, the index it pops
  got1, got2,    \* per reader: the words of ret
  want,          \* history, per reader: the element it is entitled to, 0 if none
  clean          \* history: every call so far was one the class supports

writervars == <<word1, word2, wpc, widx, serial>>
readervars == <<rpc, ridx, got1, got2, want>>
ringvars == <<class, write_idx, writervars, readervars, pushed, clean>>

Blocks == 0..(SIZE - 1)

Blk(idx) == idx % SIZE

Put(f, n, v) == [m \in DOMAIN f \cup {n} |-> IF m = n THEN v ELSE f[m]]

EmptyFcn == [n \in {} |-> 0]

RingInit ==
  /\ write_idx = 0
  /\ word1 = [b \in Blocks |-> 0] /\ word2 = [b \in Blocks |-> 0]
  /\ wpc = "idle" /\ widx = 0
  /\ serial = 0
  /\ pushed = EmptyFcn
  /\ rpc = [r \in Readers |-> "idle"] /\ ridx = [r \in Readers |-> 0]
  /\ got1 = [r \in Readers |-> 0] /\ got2 = [r \in Readers |-> 0]
  /\ want = [r \in Readers |-> 0]
  /\ clean = TRUE

-----------------------------------------------------------------------------
(* The writer: emplace(), and tryVisitPush(), which never returns false. *)

\* Mutant: the ring is filled downwards.
Mut_BeginPushDown(supported) ==
  /\ wpc = "idle"
  /\ serial < MaxPushes
  /\ wpc' = "first"
  /\ widx' = write_idx - 1
  /\ serial' = serial + 1
  /\ clean' = (clean /\ supported)
  /\ UNCHANGED <<write_idx, word1, word2, readervars, pushed>>

\* int64_t idx = write_idx + 1
BeginPush(supported) ==
  /\ wpc = "idle"
  /\ serial < MaxPushes
  /\ wpc' = "first"
  /\ widx' = write_idx + 1
  /\ serial' = serial + 1
  /\ clean' = (clean /\ supported)
  /\ UNCHANGED <<write_idx, word1, word2, readervars, pushed>>

\* new (data) T(...)
WriteFirst ==
  /\ wpc = "first"
  /\ word1' = [word1 EXCEPT ![Blk(widx)] = serial]
  /\ wpc' = "second"
  /\ UNCHANGED <<write_idx, word2, widx, serial, readervars, pushed, clean>>

WriteSecond ==
  /\ wpc = "second"
  /\ word2' = [word2 EXCEPT ![Blk(widx)] = serial]
  /\ wpc' = "store"
  /\ UNCHANGED <<write_idx, word1, widx, serial, readervars, pushed, clean>>

\* Mutant: write_idx is stored before the element is complete.
Mut_PublishEarly ==
  /\ wpc = "second"
  /\ write_idx' = widx
  /\ pushed' = Put(pushed, widx, serial)
  /\ wpc' = "store"
  /\ UNCHANGED <<word1, word2, widx, serial, readervars, clean>>

\* write_idx = idx
Publish ==
  /\ wpc = "store"
  /\ write_idx' = widx
  /\ pushed' = Put(pushed, widx, serial)
  /\ wpc' = "idle" /\ widx' = 0
  /\ UNCHANGED <<word1, word2, serial, readervars, clean>>

\* The writing process dies in a push; another one maps the file and goes on.
WriterDies ==
  /\ wpc # "idle"
  /\ wpc' = "idle" /\ widx' = 0
  /\ UNCHANGED <<write_idx, word1, word2, serial, readervars, pushed, clean>>

Writer == WriteFirst \/ WriteSecond \/ Publish \/ WriterDies

-----------------------------------------------------------------------------
(* A reader: pop() and tryVisitPop(), which never returns false. *)

\* getReadable(idx).  A call the class supports is entitled to element idx.
BeginPop(r, idx, supported) ==
  /\ rpc[r] = "idle"
  /\ rpc' = [rpc EXCEPT ![r] = "first"]
  /\ ridx' = [ridx EXCEPT ![r] = idx]
  /\ want' = [want EXCEPT ![r] = IF idx \in DOMAIN pushed THEN pushed[idx] ELSE 0]
  /\ clean' = (clean /\ supported)
  /\ UNCHANGED <<write_idx, writervars, pushed, got1, got2>>

\* T ret = std::move(*data)
CopyFirst(r) ==
  /\ rpc[r] = "first"
  /\ got1' = [got1 EXCEPT ![r] = word1[Blk(ridx[r])]]
  /\ rpc' = [rpc EXCEPT ![r] = "second"]
  /\ UNCHANGED <<write_idx, writervars, pushed, ridx, got2, want, clean>>

CopySecond(r) ==
  /\ rpc[r] = "second"
  /\ got2' = [got2 EXCEPT ![r] = word2[Blk(ridx[r])]]
  /\ rpc' = [rpc EXCEPT ![r] = "copied"]
  /\ UNCHANGED <<write_idx, writervars, pushed, ridx, got1, want, clean>>

\* The locals of a call are gone when it has returned or its thread has died.
EndPop(r) ==
  /\ rpc' = [rpc EXCEPT ![r] = "idle"]
  /\ ridx' = [ridx EXCEPT ![r] = 0]
  /\ got1' = [got1 EXCEPT ![r] = 0]
  /\ got2' = [got2 EXCEPT ![r] = 0]
  /\ want' = [want EXCEPT ![r] = 0]

ReaderDies(r) ==
  /\ rpc[r] # "idle"
  /\ EndPop(r)
  /\ UNCHANGED <<write_idx, writervars, pushed, clean>>

Reader(r) == CopyFirst(r) \/ CopySecond(r) \/ ReaderDies(r)

-----------------------------------------------------------------------------
\* The ring's words, indices and control points have their types, whatever is called when.
TypeOK ==
  /\ write_idx \in Nat
  /\ word1 \in [Blocks -> Nat] /\ word2 \in [Blocks -> Nat]
  /\ wpc \in {"idle", "first", "second", "store"}
  /\ widx \in Nat /\ serial \in Nat
  /\ DOMAIN pushed \subseteq Nat /\ \A n \in DOMAIN pushed : pushed[n] \in Nat
  /\ rpc \in [Readers -> {"idle", "first", "second", "copied"}]
  /\ ridx \in [Readers -> Nat]
  /\ got1 \in [Readers -> Nat] /\ got2 \in [Readers -> Nat] /\ want \in [Readers -> Nat]
  /\ clean \in BOOLEAN
=============================================================================
