---------------------------- MODULE MCRendezvous ----------------------------
(***************************************************************************)
(* A small instance of Rendezvous: a machine with two cores and one with a *)
(* single core; every choice of binaries and of machines with odd CPU      *)
(* information, and cores that exit at any point.                          *)
(***************************************************************************)
EXTENDS Rendezvous

MCNumCpus == [m1 |-> 2, m2 |-> 1]
=============================================================================
