------------------------------ MODULE MemScan -------------------------------
(***************************************************************************)
(* The search for changed memory at the end of run_with_instr_seq          *)
(* (client/src/lib/runner.c): the bytes of the mappings that differ from   *)
(* what was loaded into them become ranges.  A mapping is a record of its  *)
(* start, of what was loaded (val) and of what is there now (rw_mapping),  *)
(* both as sequences of bytes.                                             *)
(***************************************************************************)
EXTENDS Integers, Sequences, FiniteSets, SequencesExt, FiniteSetsExt

CONSTANTS
  CHECK_MEM_CUT_AT,                  (* bytes recorded of a range              *)
  CHECK_MEM_MAX_NUMBER_MEM_CHANGES,  (* ranges recorded                        *)
  Checksum(_, _),                    (* FNV-1a: the next byte into a checksum  *)
  ChecksumBasis

ASSUME MemScanAssumption ==
  /\ CHECK_MEM_CUT_AT \in Nat \ {0}
  /\ CHECK_MEM_MAX_NUMBER_MEM_CHANGES \in Nat \ {0}

(* All bytes in the order of the list, which need not be that of addresses.   *)
Cells(mappings) ==
  FlattenSeq([m \in DOMAIN mappings |->
    [i \in DOMAIN mappings[m].val |->
       [addr |-> mappings[m].start + i - 1, old |-> mappings[m].val[i],
        new |-> mappings[m].rw_mapping[i]]]])

(* What is recorded of the bytes of a range that begins at start.             *)
mem_change(start, bytes) ==
  [start |-> start, n |-> Len(bytes),
   val |-> SubSeq(bytes, 1, Min({Len(bytes), CHECK_MEM_CUT_AT})),
   checksum |-> FoldLeft(Checksum, ChecksumBasis, bytes)]

(* A range goes on with the next byte of its mapping, or with the first one of
   the next mapping in the list if that begins where this one ends.           *)
Differs(cells, k) == k \in DOMAIN cells /\ cells[k].old # cells[k].new
GoesOnAt(cells, k) ==
  /\ Differs(cells, k)
  /\ Differs(cells, k + 1)
  /\ cells[k + 1].addr = cells[k].addr + 1

(* The ranges in the order in which they end, as many as there is room for.    *)
mem_changes(mappings) ==
  LET cells == Cells(mappings)
      all == [k \in DOMAIN cells |-> k]
      starts == SelectSeq(all, LAMBDA k : Differs(cells, k) /\ ~GoesOnAt(cells, k - 1))
      ends == SelectSeq(all, LAMBDA k : Differs(cells, k) /\ ~GoesOnAt(cells, k))
      room == Min({Len(ends), CHECK_MEM_MAX_NUMBER_MEM_CHANGES})
      range(r) == [i \in 1 .. ends[r] - starts[r] + 1 |-> cells[starts[r] + i - 1].new]
  IN  [r \in 1 .. room |-> mem_change(cells[starts[r]].addr, range(r))]
=============================================================================
