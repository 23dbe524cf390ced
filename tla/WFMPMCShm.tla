----------------------------- MODULE WFMPMCShm -----------------------------
(***************************************************************************)
(* A WFMPMC in a file in shared memory: shmmap() of shm.h, WFMPMC::shmInit *)
(* and processes that die.                                                 *)
(*                                                                         *)
(* A thread of Threads is here the one thread of a process.  It maps the   *)
(* file, takes part in shmInit() and then uses the ring as in WFMPMC.  It  *)
(* may die between any two steps and leaves the file as it is; a process   *)
(* started later is another member of Threads that maps the file then.     *)
(* Assumption: gettid() gives no process the id of a dead one.             *)
(***************************************************************************)
EXTENDS WFMPMC

\* The standard the build selects: since C++20 std::atomic's default constructor,
\* which WFMPMC() runs for init_state, tids and every stat, stores 0; before, it
\* stored nothing.
CONSTANT Cxx20

ASSUME Cxx20Assumption == Cxx20 \in BOOLEAN

VARIABLES init_state,  \* 0: not constructed, 1: under construction, 2: constructed
          stage        \* per process: where it is in shmmap() and shmInit()

shmvars == <<init_state, stage>>
allvars == <<vars, shmvars>>

Constructing == {"construct", "fill", "publish"}
Stages == {"unmapped", "failed", "mapped", "wait", "ready", "dead"} \cup Constructing

\* ftruncate() has made a file of zeros; nobody is in a call.
ShmInit ==
  /\ init_state = 0
  /\ stage = [t \in Threads |-> "unmapped"]
  /\ write_idx = 0 /\ read_idx = 0
  /\ stat = [b \in Blocks |-> 0]
  /\ data = [b \in Blocks |-> Raw]
  /\ tids = [s \in Slots |-> 0]
  /\ thr_write = [s \in Slots |-> 0] /\ thr_read = [s \in Slots |-> 0]
  /\ pc = [t \in Threads |-> "idle"]
  /\ op = [t \in Threads |-> "pop"]
  /\ arg = [t \in Threads |-> Raw]
  /\ cur = [t \in Threads |-> 0] /\ cnt = [t \in Threads |-> 0]
  /\ loc_idx = [t \in Threads |-> -1]
  /\ pushed = Spec_TQ!EmptyFcn /\ popped = Spec_TQ!EmptyFcn

-----------------------------------------------------------------------------
GoTo(t, s) == stage' = [stage EXCEPT ![t] = s]

\* shmmap(): shm_open(), ftruncate() to the size the file may already have and
\* mmap(); if one of them fails shmmap() returns nullptr.
Shmmap(t) ==
  /\ stage[t] = "unmapped"
  /\ GoTo(t, "mapped") \/ GoTo(t, "failed")
  /\ UNCHANGED <<vars, init_state>>

\* Mutant: load and store instead of compare-and-exchange.
Mut_ExchangeNoCompare(t) ==
  /\ stage[t] = "mapped"
  /\ \/ init_state # 2 /\ init_state' = 1 /\ GoTo(t, "construct")
     \/ init_state = 2 /\ GoTo(t, "wait") /\ UNCHANGED init_state
  /\ UNCHANGED vars

\* init_state.compare_exchange_strong(uninited_state, 1)
Exchange(t) ==
  /\ stage[t] = "mapped"
  /\ \/ init_state = 0 /\ init_state' = 1 /\ GoTo(t, "construct")
     \/ init_state # 0 /\ GoTo(t, "wait") /\ UNCHANGED init_state
  /\ UNCHANGED vars

\* WFMPMC(): the members' own constructors and the initialisers ...
ConstructMembers(t) ==
  /\ stage[t] = "construct"
  /\ IF Cxx20
       THEN /\ init_state' = 0
            /\ stat' = [b \in Blocks |-> 0]
            /\ tids' = [s \in Slots |-> 0]
       ELSE UNCHANGED <<init_state, stat, tids>>
  /\ write_idx' = 0 /\ read_idx' = 0
  /\ GoTo(t, "fill")
  /\ UNCHANGED <<data, thr_write, thr_read, thrvars, histvars>>

\* ... and its body.
ConstructBody(t) ==
  /\ stage[t] = "fill"
  /\ stat' = [b \in Blocks |-> b]
  /\ tids' = [s \in Slots |-> 0]
  /\ thr_write' = [s \in Slots |-> -1] /\ thr_read' = [s \in Slots |-> -1]
  /\ GoTo(t, "publish")
  /\ UNCHANGED <<write_idx, read_idx, data, thrvars, histvars, init_state>>

\* Mutant: the winner forgets to tell the others.
Mut_PublishNothing(t) ==
  /\ stage[t] = "publish"
  /\ GoTo(t, "ready")
  /\ UNCHANGED <<vars, init_state>>

\* init_state.store(2, release)
PublishState(t) ==
  /\ stage[t] = "publish"
  /\ init_state' = 2
  /\ GoTo(t, "ready")
  /\ UNCHANGED vars

\* The acquire load that ends the loop of the others.
WaitEnds(t) ==
  /\ stage[t] = "wait"
  /\ init_state = 2
  /\ GoTo(t, "ready")
  /\ UNCHANGED <<vars, init_state>>

ShmInitStep(t) ==
  \/ Exchange(t)
  \/ ConstructMembers(t) \/ ConstructBody(t) \/ PublishState(t)
  \/ WaitEnds(t)

Use(t) == stage[t] = "ready" /\ (Call(t) \/ Step(t)) /\ UNCHANGED shmvars

Crash(t) ==
  /\ stage[t] \notin {"unmapped", "failed", "dead"}
  /\ GoTo(t, "dead")
  /\ UNCHANGED <<vars, init_state>>

ShmNext == \E t \in Threads : Shmmap(t) \/ ShmInitStep(t) \/ Use(t) \/ Crash(t)

\* A process that is in shmInit() or in a call keeps running until it dies.
Runs(t) ==
  \/ ShmInitStep(t)
  \/ stage[t] = "ready" /\ Step(t) /\ UNCHANGED shmvars

ShmSpec ==
  /\ ShmInit /\ [][ShmNext]_allvars
  /\ \A t \in Threads : WF_allvars(Runs(t))

-----------------------------------------------------------------------------
(* Properties. *)

\* "must not init init_state in constructor": the ring is constructed by one process,
\* never again under the feet of one that uses it.
ConstructedOnce ==
  \A t, u \in Threads :
    t # u /\ stage[t] = "construct" => stage[u] \notin Constructing \cup {"ready"}

\* The ring as seen before init_state = 2: as WFMPMC() will leave it.
Built == init_state = 2
W == INSTANCE WFMPMC WITH
  write_idx <- IF Built THEN write_idx ELSE 0,
  read_idx <- IF Built THEN read_idx ELSE 0,
  stat <- IF Built THEN stat ELSE [b \in Blocks |-> b],
  tids <- IF Built THEN tids ELSE [s \in Slots |-> 0],
  thr_write <- IF Built THEN thr_write ELSE [s \in Slots |-> -1],
  thr_read <- IF Built THEN thr_read ELSE [s \in Slots |-> -1]

\* Construction in shared memory and deaths at any point add nothing to what the ring
\* does in one process: nobody uses the zeros before the constructor has run, nobody
\* runs it again, and a dead process is one that makes no more steps.
ImplementsWFMPMC == W!Spec

\* A process died with a write ticket up to n or a read ticket before n in its locals.
Orphaned(n) ==
  \E u \in Threads :
    /\ stage[u] = "dead" /\ loc_idx[u] >= 0
    /\ loc_idx[u] < n \/ (loc_idx[u] = n /\ op[u] = "emplace")

\* A call that spins in pop() or emplace() on ticket n returns unless a partner at or
\* before n is missing or died: a death stops nobody whose tickets come before the
\* dead process's ticket.
SpinningEndsUnlessOrphaned ==
  \A t \in Threads :
    /\ (pc[t] = "getReadable" /\ op[t] = "pop")
         ~> \/ pc[t] = "idle" \/ stage[t] = "dead"
            \/ PartnerMissing(loc_idx[t]) \/ Orphaned(loc_idx[t])
    /\ (pc[t] = "getWritable" /\ op[t] = "emplace")
         ~> \/ pc[t] = "idle" \/ stage[t] = "dead"
            \/ PartnerMissing(loc_idx[t]) \/ Orphaned(loc_idx[t])

\* The loop in shmInit() ends unless the process that constructs died between its
\* exchange and its store: then nobody ever gets past it.
InitEnds ==
  \A t \in Threads :
    stage[t] = "wait"
      ~> \/ stage[t] \in {"ready", "dead"}
         \/ /\ init_state = 1 /\ \E u \in Threads : stage[u] = "dead"
            /\ \A u \in Threads : stage[u] \notin Constructing

-----------------------------------------------------------------------------
(* The inductive invariant behind ImplementsWFMPMC and, before C++20,         *)
(* ConstructedOnce.                                                           *)

\* init_state tells how far construction is: one process at most constructs, and
\* nobody is past shmInit() before init_state = 2.
InvStages ==
  /\ init_state \in {0, 1, 2}
  /\ stage \in [Threads -> Stages]
  /\ \A t, u \in Threads : stage[t] \in Constructing /\ stage[u] \in Constructing => t = u
  /\ \A t \in Threads :
       /\ init_state = 0 => stage[t] \notin Constructing \cup {"wait", "ready"}
       /\ init_state = 1 => stage[t] # "ready"
       /\ init_state = 2 => stage[t] \notin Constructing

\* Before init_state = 2 nobody has called anything.
InvUnused ==
  init_state # 2 =>
    /\ data = [b \in Blocks |-> Raw]
    /\ pc = [t \in Threads |-> "idle"] /\ op = [t \in Threads |-> "pop"]
    /\ arg = [t \in Threads |-> Raw]
    /\ cur = [t \in Threads |-> 0] /\ cnt = [t \in Threads |-> 0]
    /\ loc_idx = [t \in Threads |-> -1]
    /\ pushed = Spec_TQ!EmptyFcn /\ popped = Spec_TQ!EmptyFcn

\* What the constructor has done so far.
InvConstructed ==
  \A t \in Threads :
    /\ stage[t] \in {"fill", "publish"} => write_idx = 0 /\ read_idx = 0
    /\ stage[t] = "publish" =>
         /\ stat = [b \in Blocks |-> b]
         /\ tids = [s \in Slots |-> 0]
         /\ thr_write = [s \in Slots |-> -1] /\ thr_read = [s \in Slots |-> -1]

ShmInv == InvStages /\ InvUnused /\ InvConstructed
=============================================================================
