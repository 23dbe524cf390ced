---------------------------- MODULE MCWFMPMCShm ----------------------------
(* Two processes whose thread ids hash to the same entry of the table. *)
EXTENDS WFMPMCShm

MCThreadsCollide == {1, 3}
=============================================================================
