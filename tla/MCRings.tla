------------------------------ MODULE MCRings ------------------------------
(* A ring of either class in the file. *)
EXTENDS WFSPSC, WFSPMC

RingsInit == SCInit \/ (MCInit /\ read_idx = 0 /\ resetting = FALSE)

RingsNext == SCNext \/ (MCNext /\ UNCHANGED <<read_idx, resetting>>)

RingsSpec == RingsInit /\ [][RingsNext]_SCvars
=============================================================================
