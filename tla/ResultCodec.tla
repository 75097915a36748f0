---------------------------- MODULE ResultCodec -----------------------------
(***************************************************************************)
(* The bytes in which a client reports results and from which the server   *)
(* reads them: pack_result and pack_results (client/src/diffuzz-client.c)  *)
(* against parse_results (pyutils/result.py), of builds with CHECK_MEM and *)
(* without META.                                                           *)
(*                                                                         *)
(* Nothing in the bytes says what they mean: the reader has to take        *)
(* registers and numbers with the widths the writer gave them, and the     *)
(* parts that depend on the signal exactly when they are there.            *)
(*                                                                         *)
(* A result is a record of signum, si_addr, si_pc and si_code, of the      *)
(* registers (a function on Regs) and of the changes of memory (MemScan).  *)
(***************************************************************************)
EXTENDS MemScan

CONSTANTS
  Byte,        (* values of a byte (256)                                       *)
  WordBytes, IntBytes,   (* bytes of a uint64_t (8) and of an int or a uint32_t (4)      *)
  SizeBytes,        (* bytes of the size of the results of an input (2)             *)
  NRegs,       (* registers, numbered by their ABI index                       *)
  VecRegs,     (* those that are vector registers ...                          *)
  VEC_REG_SIZE (* ... and their bytes                                          *)

ASSUME CodecAssumption ==
  /\ Byte \in Nat \ {0, 1} /\ WordBytes \in Nat \ {0} /\ IntBytes \in Nat \ {0} /\ SizeBytes \in Nat \ {0}
  /\ NRegs \in Nat /\ VecRegs \subseteq 1 .. NRegs /\ VEC_REG_SIZE \in Nat \ {0}

Regs == 1 .. NRegs

(* A number of w bytes, least significant first; a negative one wraps.        *)
Encode(v, w) == [i \in 1 .. w |-> ((v % (Byte ^ w)) \div (Byte ^ (i - 1))) % Byte]
Decode(bytes) == FoldLeft(LAMBDA v, i : v + bytes[i] * (Byte ^ (i - 1)), 0, [i \in DOMAIN bytes |-> i])

Width(reg) == IF reg \in VecRegs THEN VEC_REG_SIZE ELSE WordBytes

PackReg(reg, value) == Encode(reg, 1) \o Encode(value, Width(reg))

PackChange(c) ==
  Encode(c.start, WordBytes) \o Encode(c.n, IntBytes) \o SubSeq(c.val, 1, Min({c.n, CHECK_MEM_CUT_AT}))
  \o Encode(c.checksum, IntBytes)

(* Only the registers that changed; the signal's details only with a signal.  *)
pack_inner_result(r, regs_before) ==
  LET diff == SelectSeq([k \in Regs |-> k], LAMBDA k : r.regs[k] # regs_before[k])
  IN  Encode(r.signum, 1)
      \o Encode(Len(diff), 1) \o FlattenSeq([k \in DOMAIN diff |-> PackReg(diff[k], r.regs[diff[k]])])
      \o (IF r.signum = 0 THEN <<>>
          ELSE Encode(r.si_addr, WordBytes) \o Encode(r.si_pc, WordBytes) \o Encode(r.si_code, IntBytes))
      \o Encode(Len(r.mem), 1) \o FlattenSeq([k \in DOMAIN r.mem |-> PackChange(r.mem[k])])

RESULT_TAG_SINGLE == 0
RESULT_TAG_MULTI == 1

pack_result(r, regs_before) == Encode(RESULT_TAG_SINGLE, 1) \o pack_inner_result(r, regs_before)

pack_results(results, regs_before) ==
  Encode(RESULT_TAG_MULTI, 1) \o Encode(Len(results), 1)
  \o FlattenSeq([k \in DOMAIN results |-> pack_inner_result(results[k], regs_before)])

(* The size in front must be able to hold it; otherwise the client aborts.    *)
Fits(body) == Len(body) < Byte ^ SizeBytes
WithSize(body) == Encode(Len(body), SizeBytes) \o body

-----------------------------------------------------------------------------
(* The server.  What a reader returns is a value and how far it has read.      *)

Read(v, r) == [v |-> v, r |-> r]
At(data, r, w) == Decode(SubSeq(data, r + 1, r + w))

(* count times what one reads, each from where the one before has stopped.    *)
ReadMany(r, count, One(_)) ==
  FoldLeft(LAMBDA acc, k : LET x == One(acc.r) IN Read(Append(acc.v, x.v), x.r),
           Read(<<>>, r), [k \in 1 .. count |-> k])

ParseReg(data, r) ==
  LET reg == At(data, r, 1)
  IN  Read(<<reg, At(data, r + 1, Width(reg))>>, r + 1 + Width(reg))

ParseChange(data, r) ==
  LET n == At(data, r + WordBytes, IntBytes)
      n_cap == Min({n, CHECK_MEM_CUT_AT})
      val == r + WordBytes + IntBytes
  IN  Read(<<At(data, r, WordBytes), n, At(data, val, n_cap), At(data, val + n_cap, IntBytes)>>, val + n_cap + IntBytes)

parse_one_result(data, from) ==
  LET signum == At(data, from, 1)
      regs == ReadMany(from + 2, At(data, from + 1, 1), LAMBDA r : ParseReg(data, r))
      si(offset, w) == IF signum = 0 THEN 0 ELSE At(data, regs.r + offset, w)
      after == IF signum = 0 THEN regs.r ELSE regs.r + 2 * WordBytes + IntBytes
      mem == ReadMany(after + 1, At(data, after, 1), LAMBDA r : ParseChange(data, r))
  IN  Read([signum |-> signum, si_addr |-> si(0, WordBytes), si_pc |-> si(WordBytes, WordBytes),
            si_code |-> si(2 * WordBytes, IntBytes), regs |-> ToSet(regs.v), mem |-> mem.v], mem.r)

parse_one_result_full_seq(data, from) ==
  ReadMany(from + 1, At(data, from, 1), LAMBDA r : parse_one_result(data, r))

(* The result of one input, or its results prefix by prefix.                  *)
parse_results(data) ==
  IF At(data, 0, 1) = RESULT_TAG_MULTI THEN parse_one_result_full_seq(data, 1)
  ELSE LET x == parse_one_result(data, 1) IN Read(<<x.v>>, x.r)

(* What the split of a reply leaves of the results of an input.               *)
WithoutSize(data) == SubSeq(data, SizeBytes + 1, SizeBytes + At(data, 0, SizeBytes))
=============================================================================
