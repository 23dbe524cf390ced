---------------------------- MODULE TicketQueue ----------------------------
(***************************************************************************)
(* What WFMPMC promises, without blocks, stat words or thread tables.      *)
(*                                                                         *)
(* Writers and readers draw consecutive tickets.  The value pushed under   *)
(* write ticket n is popped under read ticket n, exactly once, and the     *)
(* push of ticket n waits until the pop of ticket n - SIZE has happened:   *)
(* a FIFO of capacity SIZE whose order is the order of the tickets.        *)
(***************************************************************************)
EXTENDS Integers

CONSTANTS SIZE,    \* capacity of the queue
          Values   \* values that can be pushed

VARIABLES write_idx,  \* write tickets issued so far
          read_idx,   \* read tickets issued so far
          pushed,     \* ticket -> value pushed under it
          popped      \* ticket -> value popped under it

tqvars == <<write_idx, read_idx, pushed, popped>>

\* The function f with its value at n set to v, n added to its domain if new.
Put(f, n, v) == [m \in DOMAIN f \cup {n} |-> IF m = n THEN v ELSE f[m]]

EmptyFcn == [n \in {} |-> 0]

TQInit ==
  /\ write_idx = 0
  /\ read_idx = 0
  /\ pushed = EmptyFcn
  /\ popped = EmptyFcn

IssueWrite ==
  /\ write_idx' = write_idx + 1
  /\ UNCHANGED <<read_idx, pushed, popped>>

IssueRead ==
  /\ read_idx' = read_idx + 1
  /\ UNCHANGED <<write_idx, pushed, popped>>

PushTicket(n, v) ==
  /\ n \in Nat
  /\ n < write_idx
  /\ n \notin DOMAIN pushed
  /\ n >= SIZE => n - SIZE \in DOMAIN popped
  /\ pushed' = Put(pushed, n, v)
  /\ UNCHANGED <<write_idx, read_idx, popped>>

PopTicket(n) ==
  /\ n \in DOMAIN pushed
  /\ n < read_idx
  /\ n \notin DOMAIN popped
  /\ popped' = Put(popped, n, pushed[n])
  /\ UNCHANGED <<write_idx, read_idx, pushed>>

TQNext ==
  \/ IssueWrite
  \/ IssueRead
  \/ \E n \in 0..(write_idx - 1), v \in Values : PushTicket(n, v)
  \/ \E n \in 0..(read_idx - 1) : PopTicket(n)

TQSpec == TQInit /\ [][TQNext]_tqvars
=============================================================================
