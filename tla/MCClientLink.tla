---------------------------- MODULE MCClientLink ----------------------------
(***************************************************************************)
(* Small instances of ClientLink: two workers, batches of up to three      *)
(* inputs (MaxBatchN = 2), entries of one and of two inputs, so that two   *)
(* entries merge, a third one may be skipped over, and buffers that hold   *)
(* less than what a few batches and replies need.                          *)
(***************************************************************************)
EXTENDS ClientLink

MCRequests == {[n |-> 1, bytes |-> 1], [n |-> 2, bytes |-> 3]}
=============================================================================
