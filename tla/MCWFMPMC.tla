------------------------------ MODULE MCWFMPMC ------------------------------
(* A table of two entries, two blocks, and one of two crews of threads. *)
EXTENDS WFMPMC

\* Threads 1 and 3 hash to entry 1; with three of them one finds the table full.
MCThreads == {1, 2, 3}

\* Either all three threads with one value, whose calls start at the first two tickets,
\* or two threads with all values and the first MaxIdx tickets.
Crews ==
  { [threads |-> {1, 2, 3}, args |-> {CHOOSE v \in Values : TRUE}, tickets |-> 2],
    [threads |-> {1, 2}, args |-> Values, tickets |-> MaxIdx] }

VARIABLE crew

Starts(t) ==
  /\ Call(t)
  /\ op'[t] \in {"emplace", "tryPush"} => arg'[t] \in crew.args
  /\ CASE op'[t] = "emplace" -> write_idx < crew.tickets
       [] op'[t] = "pop" -> read_idx < crew.tickets
       [] op'[t] = "tryPush" -> write_idx < crew.tickets \/ KeepsTicket(t, thr_write)
       [] op'[t] = "tryPop" -> read_idx < crew.tickets \/ KeepsTicket(t, thr_read)

CrewInit == Init /\ crew \in Crews

CrewNext == (\E t \in crew.threads : Starts(t) \/ Step(t)) /\ UNCHANGED crew

CrewSpec == CrewInit /\ [][CrewNext]_<<vars, crew>>
=============================================================================
