---------------------------- MODULE MCUndocEnum -----------------------------
(***************************************************************************)
(* Small instance of UndocEnum: an instruction space of eight, ranges that *)
(* the spans cut in the middle, empty ranges, machines with one to three   *)
(* cores of one or two types, one of them with a core that is offline and  *)
(* one on which a core is not parsed.                                      *)
(***************************************************************************)
EXTENDS UndocEnum

A == [part |-> 1, variant |-> 0, revision |-> 0]
B == [part |-> 2, variant |-> 0, revision |-> 0]

Machine(midrs, offline, shared, lab71) ==
  [midr |-> [p \in 0 .. Len(midrs) - 1 |-> midrs[p + 1]],
   online |-> (0 .. Len(midrs) - 1) \ offline,
   shared |-> shared, lab71 |-> lab71, single |-> FALSE]

MCMachines == {
  Machine(<<A>>, {}, FALSE, FALSE),
  Machine(<<A, A>>, {}, TRUE, FALSE),
  Machine(<<A, A, A>>, {}, FALSE, FALSE),
  Machine(<<A, B, B>>, {}, FALSE, FALSE),
  Machine(<<A, A, A>>, {1}, FALSE, FALSE),
  Machine(<<A, A, B>>, {}, FALSE, TRUE)}

(* Undefined 0-3 and 7; undefined 2-6 in two parts joined by an empty range,
   after an empty first range.  Both are cut by the spans of three cores.    *)
MCRangeLists == {<<4, 3, 1>>, <<0, 2, 3, 0, 2, 1>>}

MCNames == <<"a", "b">>
=============================================================================
