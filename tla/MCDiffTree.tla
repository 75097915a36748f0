----------------------------- MODULE MCDiffTree -----------------------------
(***************************************************************************)
(* Small instances of DiffTree.  The results are chosen so that every      *)
(* field differs alone and together with others, and that every filter and *)
(* every branch of cluster_remove_unusable has a pair it applies to.       *)
(***************************************************************************)
EXTENDS DiffTree

Res(signum, si, pstate, regs, mem) ==
  [signum |-> signum, si |-> si, pstate |-> pstate, regs |-> regs, mem |-> mem]

RiscvResults ==
  {Res("OK", 0, 0, 0, {}), Res("OK", 0, 0, 1, {}),
   Res("ILL", 0, 0, 0, {}), Res("ILL", 1, 0, 0, {}), Res("ILL", 0, 0, 1, {}),
   Res("SEGV", 0, 0, 0, {}), Res("BUS", 0, 0, 0, {}), Res("BUS", 0, 0, 0, {"inner"}),
   Res("ALRM", 0, 0, 0, {}), Res("ALRM", 0, 0, 1, {})}

BusResults ==
  {Res("OK", 0, 0, 0, {}), Res("OK", 0, 0, 1, {}), Res("BUS", 0, 0, 0, {})}
=============================================================================
