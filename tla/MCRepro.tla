------------------------------ MODULE MCRepro -------------------------------
(***************************************************************************)
(* Small instance of Repro: two gp registers, one fp and one vector        *)
(* register of two pieces, sequences of up to one instruction more than    *)
(* repro-runner allows.  All kinds of files are replayed by matching and   *)
(* by other builds on one machine, and one file with two results is        *)
(* replayed on all machines with all requests.                             *)
(***************************************************************************)
EXTENDS Repro

Midr(part, revision) == [part |-> part, variant |-> 0, revision |-> revision]

(* The part 3 has no name.                                                   *)
MCNames == <<"little", "big">>

Mach(midr, online, shared, lab71, single) ==
  [midr |-> [p \in 0 .. Len(midr) - 1 |-> midr[p + 1]], online |-> online, shared |-> shared,
   lab71 |-> lab71, single |-> single]

BigLittle == <<Midr(1, 0), Midr(2, 0), Midr(1, 1)>>

MCMachines == {
  Mach(BigLittle, 0 .. 2, FALSE, FALSE, FALSE),
  Mach(BigLittle, {1, 2}, FALSE, FALSE, FALSE),
  Mach(BigLittle, 0 .. 2, FALSE, TRUE, FALSE),
  Mach(BigLittle, 0 .. 2, FALSE, FALSE, TRUE),
  Mach(<<Midr(2, 1), Midr(2, 1)>>, 0 .. 1, TRUE, FALSE, FALSE),
  Mach(<<Midr(3, 0), Midr(2, 1)>>, 0 .. 1, FALSE, FALSE, FALSE)}

One == Mach(<<Midr(1, 0)>>, {0}, FALSE, FALSE, FALSE)

Args(usage, c, m, u) == [usage |-> usage, core |-> c, midr |-> m, uarch |-> u]
None == Args(FALSE, {}, {}, {})

MCArgs ==
  {None, Args(TRUE, {}, {}, {}), Args(FALSE, {0}, {Midr(1, 0)}, {})}
  \cup {Args(FALSE, {n}, {}, {}) : n \in -1 .. 3}
  \cup {Args(FALSE, {}, {m}, {}) : m \in {Midr(1, 0), Midr(2, 2), Midr(4, 0)}}
  \cup {Args(FALSE, {}, {}, {u}) : u \in {"big", "medium"}}

Regs(gp, fp, vec) == [gp |-> gp, fp |-> fp, vec |-> vec]
Filler == Regs(<<7, 7>>, <<7>>, <<<<7, 7>>>>)
Mapping(start) == [start |-> start, n |-> 4, prot |-> 3, val |-> <<<<start, 2>>, <<3, 4>>>>]

Inputs(n, maps) ==
  [instr_seq |-> [k \in 1 .. n |-> 40 + k], regs |-> Regs(<<11, 12>>, <<21>>, <<<<31, n - 1>>>>),
   mappings |-> [k \in 1 .. maps |-> Mapping(8 * k)]]

Garbage(n) == [regs |-> Regs(<<n, n>>, <<n>>, <<<<n, n>>>>), num_regs |-> n]

(* The fields of a case that do not matter for its source have one value.    *)
File(arch, source, flags, input, seed, seq_num) ==
  [arch |-> arch, source |-> source, flags |-> flags, input |-> input, seed |-> seed,
   seq_num |-> seq_num, seq_len |-> 2, memory |-> Garbage(1), other |-> Garbage(2),
   midrs |-> <<Midr(1, 0), Midr(2, 0), Midr(1, 0)>>]

V == "VECTOR"
F == "FLOATS"
M == "META"

(* Vectors need fp registers on RISC-V, and exclude them on aarch64: regs.h
   has an #error for the other builds.                                       *)
Flags(arch) == {{}, {M}, {F}} \cup {IF arch = "aarch64" THEN {V} ELSE {F, V}}

MCFiles ==
  UNION {{File(arch, "enum", fl \cup meta, [instr_seq |-> <<41>>, regs |-> Filler, mappings |-> <<>>], 0, 0) :
     fl \in Flags(arch), meta \in {{}, {M}}} : arch \in {"aarch64", "riscv64"}}
  \cup UNION {{File(arch, "server", fl, Inputs(n, maps), 0, 0) :
     fl \in Flags(arch), n \in 1 .. 3, maps \in 0 .. 2} : arch \in {"aarch64", "riscv64"}}
  \cup UNION {{File(arch, "offline", fl, Inputs(1, 0), seed, seq_num) :
     fl \in Flags(arch) \ {{}}, seed \in {0, 1, 5}, seq_num \in {0, 1, 4}} :
       arch \in {"aarch64", "riscv64"}}

Replay(f, build, m, args) == f @@ [build |-> build, machine |-> m, args |-> args]

MCCases ==
  UNION {{Replay(f, b, One, None) : b \in Flags(f.arch)} : f \in MCFiles}
  \cup {Replay(f, f.flags \cup {"VERBOSE"}, One, None) : f \in MCFiles}
  \cup {Replay(File("aarch64", "server", {F}, Inputs(1, 1), 0, 0), {F}, m, a) :
          m \in MCMachines, a \in MCArgs}

(* Four streams of random numbers.                                           *)
MCStream == [s \in 0 .. 3 |-> [k \in 1 .. 13 |-> (7 * k + 5 * s * k + 3 * s + k * k) % 23]]

(* Two templates, with all kinds of fields.                                  *)
MCInstructions ==
  <<<<[kind |-> "reg", bits |-> 3], [kind |-> "imm", bits |-> 2]>>,
    <<[kind |-> "uimm", bits |-> 2], [kind |-> "bits", bits |-> 1], [kind |-> "reg", bits |-> 3]>>>>
MCGp == <<0, 1, 5>>
MCFp == <<0, 9>>
=============================================================================
