------------------------------- MODULE Repro --------------------------------
(***************************************************************************)
(* A reproducer from the input that was executed to its replay: the text   *)
(* that log_repro (undoc-enum) or the server writes, and repro-runner,     *)
(* which parses it line by line, pins itself to a core and runs it again   *)
(* (client/src/repro-runner.c, load_repro and what it calls in             *)
(* client/src/lib/runner.c).                                               *)
(*                                                                         *)
(* A file is a sequence of lines [t, v].  What a line starts with is its   *)
(* type t: the parser has no other notion of the structure, nested lines   *)
(* are told apart by their first words, and the values of a block are      *)
(* taken by position.  A number is itself; a vector register is a sequence *)
(* of pieces and a word of memory a sequence of bytes, least significant   *)
(* first, both written most significant first.  Where the server wrote the *)
(* file it may know the input only by its sequence number (module          *)
(* Generator).                                                             *)
(***************************************************************************)
EXTENDS CpuInfo, Generator

CONSTANTS
  Cases,         (* what was executed, by what, and how it is replayed        *)
  MAX_SEQ_LEN,   (* build option of repro-runner                              *)
  MaxHotplug     (* bound of the model: times a core goes offline or online   *)

ASSUME ReproAssumption == MAX_SEQ_LEN \in Nat \ {0} /\ MaxHotplug \in Nat

VARIABLES
  case,       (* the case                                                     *)
  file,       (* the text of the reproducer                                   *)
  machine,    (* the machine the replay runs on                               *)
  cpus,       (* what parse_cpuinfo makes of it now                           *)
  pc,         (* where repro-runner is                                        *)
  rest,       (* lines left to parse                                          *)
  regs, instr_seq, mappings,  (* what was loaded                              *)
  spilled,    (* more values were stored than there are gp registers          *)
  midrs,      (* the MIDRs of the file                                        *)
  saw,        (* the machine when a core was chosen                           *)
  core,       (* the core chosen                                              *)
  tries,      (* attempts to pin                                              *)
  hotplugs

loaded == <<rest, regs, instr_seq, mappings, spilled, midrs>>
pinning == <<saw, core, tries>>
vars == <<case, file, machine, cpus, pc, rest, regs, instr_seq, mappings, spilled, midrs, saw, core,
          tries, hotplugs>>

-----------------------------------------------------------------------------
(* What was executed, and what the server thinks was.                        *)

Executed(c) ==
  IF c.source = "offline"
  THEN generate_input(c.seed, c.seq_num, c.seq_len, c.arch, c.flags, c.memory.regs, c.memory.num_regs)
         @@ [mappings |-> <<>>]
  ELSE c.input

(* input-generator has other garbage in its memory.                          *)
Known(c) ==
  IF c.source = "offline"
  THEN generate_input(atoi(c.seed), atoi(c.seq_num), c.seq_len, c.arch, c.flags, c.other.regs,
                      c.other.num_regs) @@ [mappings |-> <<>>]
  ELSE c.input

(* fp registers are the first piece of vector registers.                     *)
Merged(c) == c.arch = "aarch64" /\ "VECTOR" \in c.flags

(* The value of an fp register.                                              *)
FpVal(c, r, k) == IF Merged(c) THEN r.vec[k][1] ELSE r.fp[k]

Lines(t, vs) == [k \in DOMAIN vs |-> Line(t, vs[k])]
If(b, s) == IF b THEN s ELSE <<>>

(* fprint_vec; the server writes a number, without leading zeros.            *)
VecText(c, v) ==
  LET digits == {k \in DOMAIN v : v[k] # 0}
      n == IF c.source = "enum" THEN Len(v) ELSE IF digits = {} THEN 1 ELSE Max(digits)
  IN  Reverse(SubSeq(v, 1, n))

MappingLines(m) ==
  <<Line("start", m.start), Line("n", m.n), Line("prot", m.prot),
    Line("val", [w \in DOMAIN m.val |-> Reverse(m.val[w])])>>

InputLines(c) ==
  LET x == Known(c)
  IN  <<Line("input", 0), Line("instr_seq", 0)>> \o Lines("item", x.instr_seq)
      \o <<Line("dis_", 0)>> \o Lines("dis", x.instr_seq)
      \o <<Line("regs", 0), Line("gp", 0)>> \o Lines("greg", x.regs.gp)
      \o If("FLOATS" \in c.flags,
            <<Line("fp", 0)>> \o Lines("freg", [k \in 1 .. NumFp |-> FpVal(c, x.regs, k)]))
      \o If("VECTOR" \in c.flags,
            <<Line("vec", 0)>> \o Lines("vreg", [k \in 1 .. NumVec |-> VecText(c, x.regs.vec[k])]))

log_mappings(c) ==
  <<Line("mappings", 0)>>
  \o FlattenSeq([k \in DOMAIN Known(c).mappings |-> MappingLines(Known(c).mappings[k])])

(* A result has lines with numbers; that of its core has the MIDR.           *)
log_result(midr) == <<Line("result", 0), Line("number", 4), Line("number", 5), Line("midr", midr)>>

log_results(c) ==
  <<Line("results", 0)>> \o FlattenSeq([k \in DOMAIN c.midrs |-> log_result(c.midrs[k])])

(* Without flags the line itself is a list, "[]".                            *)
log_flags(c) == <<Line("flags", c.flags = {})>> \o Lines("flag", SetToSeq(c.flags))

(* The two orders in which the parts are written.                            *)
log_repro(c) ==
  <<Line("#", 0)>> \o InputLines(c) \o log_mappings(c) \o log_results(c) \o log_flags(c)
  \o <<Line("arch", 0)>>

to_dict(c) ==
  <<Line("#", 0)>> \o InputLines(c) \o log_results(c) \o log_mappings(c)
  \o <<Line("generator", 0), Line("arch", 0)>> \o log_flags(c)

NoRegs ==
  [gp |-> [k \in 1 .. NumGp |-> 0], fp |-> [k \in 1 .. NumFp |-> 0],
   vec |-> [k \in 1 .. NumVec |-> [w \in 1 .. VecWords |-> 0]]]

Init ==
  /\ case \in Cases
  /\ file = IF case.source = "enum" THEN log_repro(case) ELSE to_dict(case)
  /\ machine = case.machine
  /\ cpus = parse_cpuinfo(machine)
  /\ pc = "start"
  /\ rest = <<>>
  /\ regs = NoRegs
  /\ instr_seq = <<>>
  /\ mappings = <<>>
  /\ spilled = FALSE
  /\ midrs = <<>>
  /\ saw = machine
  /\ core = 0
  /\ tries = 0
  /\ hotplugs = 0

-----------------------------------------------------------------------------
Specified(a) == Cardinality(a.core) + Cardinality(a.midr) + Cardinality(a.uarch)

(* main: early_init must find the processor the program happens to be on; at
   most one of core, midr and uarch is given, MIDR 0 counting as none.       *)
Main ==
  /\ pc = "start"
  /\ \E cur \in machine.online :
       LET ok == /\ early_init(cpus, cur)
                 /\ ~case.args.usage
                 /\ Specified(case.args) <= 1
       IN  /\ pc' = IF ok THEN "load" ELSE "exit"
           /\ rest' = IF ok THEN file ELSE rest
  /\ UNCHANGED <<case, file, machine, cpus, regs, instr_seq, mappings, spilled, midrs, pinning,
                 hotplugs>>

(* The first lines of s that are of the given types, and what follows them.  *)
Leading(s, types) ==
  LET others == {k \in DOMAIN s : s[k].t \notin types}
  IN  SubSeq(s, 1, IF others = {} THEN Len(s) ELSE Min(others) - 1)
After(s, lead) == SubSeq(s, Len(lead) + 1, Len(s))
Values(s) == [k \in DOMAIN s |-> s[k].v]

At(t) == rest # <<>> /\ Head(rest).t = t

Sections == {"instr_seq", "regs", "mappings", "flags"}
LineTypes == {file[k].t : k \in DOMAIN file}

(* Lines that begin no section.                                              *)
SkipLines ==
  /\ pc = "load"
  /\ rest # <<>>
  /\ Head(rest).t \notin Sections
  /\ rest' = After(rest, Leading(rest, LineTypes \ Sections))
  /\ UNCHANGED <<case, file, machine, cpus, pc, regs, instr_seq, mappings, spilled, midrs, pinning,
                 hotplugs>>

(* Mutant of ReadInstrSeq: one instruction less is allowed.                  *)
ReadInstrSeqOff ==
  /\ pc = "load"
  /\ At("instr_seq")
  /\ LET lead == Leading(Tail(rest), {"item"})
     IN  /\ instr_seq' = instr_seq \o Values(lead)
         /\ rest' = After(Tail(rest), lead)
  /\ pc' = IF Len(instr_seq') >= MAX_SEQ_LEN THEN "exit" ELSE pc
  /\ UNCHANGED <<case, file, machine, cpus, regs, mappings, spilled, midrs, pinning, hotplugs>>

(* The sequence, unless it is longer than this build allows.                 *)
ReadInstrSeq ==
  /\ pc = "load"
  /\ At("instr_seq")
  /\ LET lead == Leading(Tail(rest), {"item"})
     IN  /\ instr_seq' = instr_seq \o Values(lead)
         /\ rest' = After(Tail(rest), lead)
  /\ pc' = IF Len(instr_seq') > MAX_SEQ_LEN THEN "exit" ELSE pc
  /\ UNCHANGED <<case, file, machine, cpus, regs, mappings, spilled, midrs, pinning, hotplugs>>

EnterRegs ==
  /\ pc = "load"
  /\ At("regs")
  /\ pc' = "regs"
  /\ rest' = Tail(rest)
  /\ UNCHANGED <<case, file, machine, cpus, regs, instr_seq, mappings, spilled, midrs, pinning,
                 hotplugs>>

(* gp registers: every line with a number up to one of five first words.  Past
   the last register the values go on into the memory behind the array.      *)
ReadGp ==
  /\ pc = "regs"
  /\ At("gp")
  /\ LET lead == Leading(Tail(rest), LineTypes \ {"vec", "fp", "dis_", "instr_seq", "mappings"})
         vals == Values(SelectSeq(lead, LAMBDA l : l.t \in {"greg", "number", "midr"}))
     IN  /\ regs' = [regs EXCEPT !.gp = SubSeq(vals, 1, NumGp)]
         /\ spilled' = (Len(vals) > NumGp)
         /\ rest' = After(Tail(rest), lead)
  /\ UNCHANGED <<case, file, machine, cpus, pc, instr_seq, mappings, midrs, pinning, hotplugs>>

(* fp registers; on aarch64 with VECTOR they are stored into the vectors.    *)
ReadFp ==
  /\ pc = "regs"
  /\ At("fp")
  /\ "FLOATS" \in case.build
  /\ LET lead == Leading(Tail(rest), {"freg"})
     IN  /\ regs' = IF case.arch = "aarch64" /\ "VECTOR" \in case.build
                    THEN [regs EXCEPT !.vec = [k \in 1 .. NumVec |-> [@[k] EXCEPT ![1] = lead[k].v]]]
                    ELSE [regs EXCEPT !.fp = Values(lead)]
         /\ rest' = After(Tail(rest), lead)
  /\ UNCHANGED <<case, file, machine, cpus, pc, instr_seq, mappings, spilled, midrs, pinning,
                 hotplugs>>

(* Mutant of parse_hex_le_bytes: the bytes are taken from the left.          *)
parse_hex_be_bytes(hex) == [w \in 1 .. VecWords |-> IF w > Len(hex) THEN 0 ELSE hex[w]]

(* The bytes of a number from its end, the rest zero.                        *)
parse_hex_le_bytes(hex) ==
  [w \in 1 .. VecWords |-> IF w > Len(hex) THEN 0 ELSE hex[Len(hex) + 1 - w]]

ReadVec ==
  /\ pc = "regs"
  /\ At("vec")
  /\ "VECTOR" \in case.build
  /\ LET lead == Leading(Tail(rest), {"vreg"})
     IN  /\ regs' = [regs EXCEPT !.vec = [k \in 1 .. NumVec |-> parse_hex_le_bytes(lead[k].v)]]
         /\ rest' = After(Tail(rest), lead)
  /\ UNCHANGED <<case, file, machine, cpus, pc, instr_seq, mappings, spilled, midrs, pinning,
                 hotplugs>>

(* Any other line, and a block this build does not know, ends the registers. *)
LeaveRegs ==
  /\ pc = "regs"
  /\ ~At("gp")
  /\ ~(At("fp") /\ "FLOATS" \in case.build)
  /\ ~(At("vec") /\ "VECTOR" \in case.build)
  /\ pc' = "load"
  /\ UNCHANGED <<case, file, machine, cpus, loaded, pinning, hotplugs>>

(* Mappings, of four lines each; the words of memory are turned round again. *)
ReadMappings ==
  /\ pc = "load"
  /\ At("mappings")
  /\ LET lead == Leading(Tail(rest), {"start", "n", "prot", "val"})
         val(k) == lead[4 * k].v
     IN  /\ mappings' = mappings \o [k \in 1 .. Len(lead) \div 4 |->
                          [start |-> lead[4 * k - 3].v, n |-> lead[4 * k - 2].v,
                           prot |-> lead[4 * k - 1].v,
                           val |-> [w \in DOMAIN val(k) |-> Reverse(val(k)[w])]]]
         /\ rest' = After(Tail(rest), lead)
  /\ UNCHANGED <<case, file, machine, cpus, pc, regs, instr_seq, spilled, midrs, pinning, hotplugs>>

ReproFlags == {"VECTOR", "FLOATS", "CHECK_MEM", "AUTO_MAP_MEM", "AUTO_MAP_MEM_RW_PROT", "META"}

(* The flags must be those of this build, VERBOSE aside; an unknown one fails
   an assertion.  The line "flags: []" is not left: it is read again and again. *)
ReadFlags ==
  /\ pc = "load"
  /\ At("flags")
  /\ LET lead == IF Head(rest).v THEN <<>> ELSE Leading(Tail(rest), {"flag"})
         flags == ToSet(Values(lead)) \ {"VERBOSE"}
     IN  /\ pc' = IF flags = case.build \cap ReproFlags THEN pc ELSE "exit"
         /\ rest' = IF Head(rest).v THEN rest ELSE After(Tail(rest), lead)
  /\ UNCHANGED <<case, file, machine, cpus, regs, instr_seq, mappings, spilled, midrs, pinning,
                 hotplugs>>

(* The whole file is read again for its MIDRs: each once, in their order.    *)
CollectMidrs ==
  /\ pc = "load"
  /\ rest = <<>>
  /\ midrs' = FoldLeft(LAMBDA s, l : IF l.t # "midr" \/ l.v \in ToSet(s) THEN s ELSE Append(s, l.v),
                       <<>>, file)
  /\ pc' = "pin"
  /\ UNCHANGED <<case, file, machine, cpus, rest, regs, instr_seq, mappings, spilled, pinning,
                 hotplugs>>

-----------------------------------------------------------------------------
(* common_pin: the cores that may be chosen, none if the program gives up.   *)
Targets ==
  LET a == case.args
      listed == pin_to_midr_list(cpus, midrs)
  IN  CASE \E n \in a.core : n >= 0 -> UNION {pin_to_core_verbose(cpus, n) : n \in a.core}
        [] a.uarch # {} ->
             UNION {pin_to_core_verbose(cpus, p) :
                      p \in UNION {resolve_uarch_to_core_strict(cpus, u) : u \in a.uarch}}
        [] a.midr # {} -> UNION {pin_to_midr(cpus, m) : m \in a.midr}
        [] OTHER -> IF listed # {} THEN listed ELSE pin_to_random_core(cpus)

Choose ==
  /\ pc = "pin"
  /\ Targets # {}
  /\ core' \in Targets
  /\ saw' = machine
  /\ pc' = "try"
  /\ UNCHANGED <<case, file, machine, cpus, loaded, tries, hotplugs>>

ChooseNone ==
  /\ pc = "pin"
  /\ Targets = {}
  /\ pc' = "exit"
  /\ UNCHANGED <<case, file, machine, cpus, loaded, pinning, hotplugs>>

(* sched_setaffinity succeeds if the core is online.                         *)
TryPin ==
  /\ pc = "try"
  /\ LET then == pin_to_cpu(tries, core \in machine.online)
     IN  /\ tries' = IF then = "again" THEN tries + 1 ELSE tries
         /\ pc' = CASE then = "pinned" -> "run" [] then = "again" -> pc [] then = "exit" -> "exit"
  /\ UNCHANGED <<case, file, machine, cpus, loaded, saw, core, hotplugs>>

(* Nothing may be mapped yet where a mapping goes.                           *)
check_and_map_shmem_fixed(k) == \A j \in 1 .. k - 1 : mappings[j].start # mappings[k].start
setup_memory_mappings == \A k \in DOMAIN mappings : check_and_map_shmem_fixed(k)

(* The mappings are set up and filled, and the sequence is run.              *)
Run ==
  /\ pc = "run"
  /\ pc' = IF setup_memory_mappings THEN "ran" ELSE "exit"
  /\ UNCHANGED <<case, file, machine, cpus, loaded, pinning, hotplugs>>

(* What was overwritten behind the registers may end the program.            *)
Crash ==
  /\ spilled
  /\ pc \notin {"exit", "ran"}
  /\ pc' = "exit"
  /\ UNCHANGED <<case, file, machine, cpus, loaded, pinning, hotplugs>>

(* A core goes offline or comes back.                                        *)
Hotplug ==
  /\ hotplugs < MaxHotplug
  /\ pc \in {"pin", "try"}
  /\ \E p \in Processors(machine) :
       /\ machine.online # {p}
       /\ machine' = [machine EXCEPT !.online = (@ \cup {p}) \ (@ \cap {p})]
  /\ cpus' = parse_cpuinfo(machine')
  /\ hotplugs' = hotplugs + 1
  /\ UNCHANGED <<case, file, pc, loaded, pinning>>

-----------------------------------------------------------------------------
Load ==
  \/ SkipLines \/ ReadInstrSeq
  \/ EnterRegs \/ ReadGp \/ ReadFp \/ ReadVec \/ LeaveRegs
  \/ ReadMappings \/ ReadFlags \/ CollectMidrs

Runner == Main \/ Load \/ Choose \/ ChooseNone \/ TryPin \/ Run

Next == Runner \/ Crash \/ Hotplug

Spec == Init /\ [][Next]_vars

(* repro-runner is scheduled.                                                *)
FairSpec == Spec /\ WF_vars(Runner)

-----------------------------------------------------------------------------
(* What must hold.                                                           *)

(* Types; no more tries than allowed.                                        *)
TypeOK ==
  /\ pc \in {"start", "load", "regs", "pin", "try", "run", "ran", "exit"}
  /\ tries \in 0 .. PinTries - 1
  /\ Len(regs.gp) = NumGp /\ Len(regs.fp) = NumFp /\ Len(regs.vec) = NumVec
  /\ Len(instr_seq) <= MAX_SEQ_LEN \/ pc = "exit"
  /\ machine.online # {}

(* Registers of two inputs are the same, as far as this build has them.      *)
SameRegs(a, b) ==
  /\ a.gp = b.gp
  /\ "FLOATS" \in case.flags /\ ~Merged(case) => a.fp = b.fp
  /\ "VECTOR" \in case.flags => a.vec = b.vec

(* The server's files cannot be replayed without fp or vector registers (the
   results are read as registers), and input-generator does not compute what
   the clients do on aarch64 (num_regs is not set), with vectors on RISC-V (the
   fp registers are not set), and for numbers that atoi cuts.                *)
Replayable(c) ==
  /\ c.source # "enum" => c.flags \cap {"FLOATS", "VECTOR"} # {}
  /\ c.source = "offline" =>
       c.arch = "riscv64" /\ "VECTOR" \notin c.flags /\ atoi(c.seed) = c.seed /\ atoi(c.seq_num) = c.seq_num

(* What is run is what was executed: the same instructions on the same
   registers and the same memory, by a build with the same flags, whoever wrote
   the file and in whatever order.                                           *)
ReplaysExecuted ==
  pc = "ran" =>
    /\ case.flags = case.build \cap ReproFlags
    /\ Replayable(case) =>
         /\ instr_seq = Executed(case).instr_seq
         /\ SameRegs(regs, Executed(case).regs)
         /\ mappings = Executed(case).mappings

(* The processors a program can find out about.                              *)
Visible(m) ==
  IF m.single THEN {Min(m.online)} ELSE IF m.lab71 THEN m.online \ {Max(m.online)} ELSE m.online

(* The core that is run on is the one asked for, judged by the machine and not
   by what was parsed: the core itself, a core of the microarchitecture, a core
   with the MIDR or, if there is none, with another revision of it; and without
   a request one with the first MIDR of the file that the machine has, an exact
   match of a later one before another revision of an earlier one.           *)
PinnedAsAsked ==
  LET a == case.args
      midr == machine.midr[core]
      exact(m) == \E p \in Visible(saw) : saw.midr[p] = m
      close(m) == \E p \in Visible(saw) : RevisionOnly(saw.midr[p], m)
      best(m) == IF exact(m) THEN midr = m ELSE RevisionOnly(midr, m)
      list == LET e == SelectSeq(midrs, exact) IN IF e # <<>> THEN e ELSE SelectSeq(midrs, close)
  IN  pc \in {"run", "ran"} =>
        /\ \A n \in a.core : n >= 0 => core = n
        /\ \A u \in a.uarch : midr_to_microarch(midr) = {u}
        /\ \A m \in a.midr : best(m)
        /\ a.uarch = {} /\ a.midr = {} /\ (\A n \in a.core : n < 0) /\ list # <<>> => best(Head(list))

(* The request cannot be met on this machine.                                *)
Unmet(a) ==
  LET here == {machine.midr[p] : p \in Processors(machine)}
  IN  \/ \E n \in a.core : n \notin Processors(machine) /\ n >= 0
      \/ \E u \in a.uarch : \A m \in here : midr_to_microarch(m) # {u}
      \/ \E x \in a.midr : \A m \in here : ~RevisionOnly(m, x)

(* A reproducer is run in the end, unless the command line is wrong, the build
   has other flags or is too small, the machine has no such core, or not all of
   its cores are parsed or online.  One without flags is never loaded.       *)
RunsInTheEnd ==
  <>( \/ pc = "ran"
      \/ case.flags = {} /\ pc = "load" /\ At("flags")
      \/ pc = "exit" /\ ( \/ case.args.usage
                          \/ Specified(case.args) > 1
                          \/ case.flags # case.build \cap ReproFlags
                          \/ Len(Executed(case).instr_seq) > MAX_SEQ_LEN
                          \/ Unmet(case.args)
                          \/ Visible(machine) # Processors(machine) \/ hotplugs > 0
                          \/ spilled /\ ~Replayable(case) ) )

(* repro-runner comes to the end of a reproducer, or gives up.               *)
LoadsInTheEnd == <>(pc \notin {"start", "load", "regs"})
=============================================================================
