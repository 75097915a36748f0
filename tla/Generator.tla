----------------------------- MODULE Generator ------------------------------
(***************************************************************************)
(* How the random number generator that server and clients share expands a *)
(* sequence number into an input (client/src/lib/rng.c, immediates.h,      *)
(* fuzzing_value_map.c and randomdifffuzzgenerator.h of both               *)
(* architectures).  Clients are sent sequence numbers only; the server     *)
(* learns what they executed by running input-generator afterwards, so     *)
(* both must draw the same numbers in the same order.                      *)
(*                                                                         *)
(* A generator is [s, k]: the first word of the state and the numbers      *)
(* drawn so far; the Mersenne Twister is the constant Stream.  An operator *)
(* that draws gives a record of its value v and the generator g after it.  *)
(***************************************************************************)
EXTENDS Integers, Sequences, FiniteSets, SequencesExt, FiniteSetsExt

CONSTANTS
  Half,                   (* bits of a half of a seed (32)                    *)
  Stream,                 (* per first word: the numbers drawn, in order      *)
  fuzzing_value_map_gp,   (* interesting values ...                           *)
  fuzzing_value_map_fp,
  instructions,           (* instruction templates: sequences of the fields that
                             are not fixed, of a kind and a number of bits    *)
  NumGp, NumFp, NumVec,   (* numbers of registers                             *)
  VecWords                (* words of a vector register                       *)

ASSUME GeneratorAssumption ==
  /\ Half \in Nat \ {0} /\ DOMAIN Stream = 0 .. 2 ^ Half - 1
  /\ NumGp \in Nat \ {0} /\ NumFp \in Nat \ {0} /\ NumVec \in Nat \ {0} /\ VecWords \in Nat \ {0}

-----------------------------------------------------------------------------
Bit(x, b) == (x \div 2 ^ b) % 2
Xor(x, y) == MapThenSumSet(LAMBDA b : 2 ^ b * ((Bit(x, b) + Bit(y, b)) % 2), 0 .. 2 * Half - 1)

(* The two halves of the seed are folded into the first word.                *)
rng_init(seed) == [s |-> Xor(seed % 2 ^ Half, seed \div 2 ^ Half), k |-> 0]

rng_next(g) == [v |-> Stream[g.s][(g.k % Len(Stream[g.s])) + 1], g |-> [g EXCEPT !.k = @ + 1]]

rng_randint(g, a, b) == [rng_next(g) EXCEPT !.v = a + (@ % (b - a + 1))]

(* A value of the map, or in one of n+1 cases a random number.               *)
MapOrRand(g, map) ==
  LET d == rng_next(g)
      j == d.v % (Len(map) + 1)
  IN  IF j = Len(map) THEN rng_next(d.g) ELSE [d EXCEPT !.v = map[j + 1]]

fuzzing_value_map_gp_val_or_rand(g) == MapOrRand(g, fuzzing_value_map_gp)
fuzzing_value_map_fp_val_or_rand(g) == MapOrRand(g, fuzzing_value_map_fp)

fuzzing_value_any_val(g) ==
  LET d == rng_next(g)
  IN  IF d.v % 2 = 0 THEN fuzzing_value_map_fp_val_or_rand(d.g)
      ELSE fuzzing_value_map_gp_val_or_rand(d.g)

(* Small in nine of ten cases.                                               *)
SmallOrRand(g, a, b) ==
  LET d == rng_randint(g, 1, 10) IN IF d.v <= 9 THEN rng_randint(d.g, a, b) ELSE rng_next(d.g)

random_unsigned_immediate(g, bits) ==
  LET d == rng_next(g)
      c == d.v % 3
  IN  IF c = 2 THEN SmallOrRand(d.g, 0, 16) ELSE [d EXCEPT !.v = <<0, 2 ^ bits - 1>>[c + 1]]

random_signed_immediate(g, bits) ==
  LET d == rng_next(g)
      c == d.v % 5
  IN  IF c = 4 THEN SmallOrRand(d.g, -8, 8)
      ELSE [d EXCEPT !.v = <<0, -1, -(2 ^ (bits - 1)), 2 ^ (bits - 1) - 1>>[c + 1]]

(* A register: any one in one of num_regs+1 cases, else one of the first.    *)
RandomRegister(g, num_regs) ==
  LET d == rng_randint(g, 0, num_regs)
      e == rng_next(d.g)
  IN  IF d.v = 0 THEN e ELSE [e EXCEPT !.v = @ % num_regs]

RandomBits(g, bits) == [rng_next(g) EXCEPT !.v = @ % 2 ^ bits]

(* A field of an instruction; on RISC-V all of them are random bits.         *)
RandomField(g, field, arch, num_regs) ==
  CASE arch = "aarch64" /\ field.kind = "uimm" -> random_unsigned_immediate(g, field.bits)
    [] arch = "aarch64" /\ field.kind = "imm" -> random_signed_immediate(g, field.bits)
    [] arch = "aarch64" /\ field.kind = "reg" -> RandomRegister(g, num_regs)
    [] OTHER -> RandomBits(g, field.bits)

(* Append what draw makes of the generator, with the bits of the field only. *)
Put(acc, d, bits) == [v |-> Append(acc.v, d.v % 2 ^ bits), g |-> d.g]

(* An instruction is its template and the values of its fields.              *)
randomly_init_picked_instr(g, idx, arch, num_regs) ==
  FoldLeft(LAMBDA acc, f : Put(acc, RandomField(acc.g, f, arch, num_regs), f.bits),
           [v |-> <<idx>>, g |-> g], instructions[idx + 1])

randomly_init_instr(g, arch, num_regs) ==
  LET idx == rng_randint(g, 0, Len(instructions) - 1)
  IN  randomly_init_picked_instr(idx.g, idx.v, arch, num_regs)

(* n values, each of the generator the one before has left.                  *)
Repeat(g, n, Draw(_)) ==
  FoldLeft(LAMBDA acc, j : LET d == Draw(acc.g) IN [v |-> Append(acc.v, d.v), g |-> d.g],
           [v |-> <<>>, g |-> g], [j \in 1 .. n |-> j])

(* A vector register: any value first, the other words as for a gp register. *)
RandomVector(g) ==
  LET first == fuzzing_value_any_val(g)
      others == Repeat(first.g, VecWords - 1, fuzzing_value_map_gp_val_or_rand)
  IN  [v |-> <<first.v>> \o others.v, g |-> others.g]

(* The registers: fp registers are left as they are where there are vectors. *)
fill_regs_with_fuzzing_value_map(g, flags, regs) ==
  LET gp == Repeat(g, NumGp, fuzzing_value_map_gp_val_or_rand)
      fp == Repeat(gp.g, NumFp, fuzzing_value_map_fp_val_or_rand)
      vec == Repeat(gp.g, NumVec, RandomVector)
  IN  CASE "VECTOR" \in flags -> [v |-> [regs EXCEPT !.gp = gp.v, !.vec = vec.v], g |-> vec.g]
        [] "VECTOR" \notin flags /\ "FLOATS" \in flags ->
             [v |-> [regs EXCEPT !.gp = gp.v, !.fp = fp.v], g |-> fp.g]
        [] OTHER -> [v |-> [regs EXCEPT !.gp = gp.v], g |-> gp.g]

(* The input of a sequence number.  regs and num_regs are what the memory of
   the caller holds: num_regs is never set.                                  *)
generate_input(seed, seq_num, seq_len, arch, flags, regs, num_regs) ==
  LET filled == fill_regs_with_fuzzing_value_map(rng_init(Xor(seq_num, seed)), flags, regs)
      seq == Repeat(filled.g, seq_len, LAMBDA g : randomly_init_instr(g, arch, num_regs))
  IN  [regs |-> filled.v, instr_seq |-> seq.v]

(* input-generator reads its arguments with atoi: of a number of 64 bits the
   lower half is left, with its sign.                                        *)
atoi(x) ==
  LET low == x % 2 ^ Half
  IN  IF low < 2 ^ (Half - 1) THEN low ELSE low + (2 ^ Half - 1) * 2 ^ Half
=============================================================================
