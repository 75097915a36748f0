------------------------------ MODULE CpuInfo -------------------------------
(***************************************************************************)
(* How the C programs find out what cores there are and choose one to run  *)
(* on (client/src/lib/cpuinfo.c).  The kernel's /proc/cpuinfo is parsed    *)
(* into a sequence of cpus, which is grouped into core types; a core is    *)
(* asked for by its number, its microarchitecture, its MIDR, or a list of  *)
(* MIDRs.  The operators are pure: the programs that pin themselves keep   *)
(* the number of tries in their own state.                                 *)
(*                                                                         *)
(* A machine is a record                                                   *)
(*   midr    per processor id (from 0): its MIDR                           *)
(*   online  the processors that are online                                *)
(*   shared  /proc/cpuinfo has the format of old kernels                   *)
(*   lab71   the host name is lab71                                        *)
(*   single  the program was built with SINGLE_THREAD                      *)
(* and a MIDR is a record of part (which stands for implementer,           *)
(* architecture and part number), variant and revision.  The names printed *)
(* along the way are left out.                                             *)
(***************************************************************************)
EXTENDS Integers, Sequences, FiniteSets, SequencesExt, FiniteSetsExt

CONSTANTS
  MAX_CPUS,         (* size of the arrays of cpus                             *)
  midr_name_table,  (* part -> name of the microarchitecture, where it is known *)
  PinTries          (* times a program tries to pin itself (10)               *)

ASSUME CpuInfoAssumption == MAX_CPUS \in Nat \ {0} /\ PinTries \in Nat \ {0}

-----------------------------------------------------------------------------
Processors(m) == DOMAIN m.midr

Line(t, v) == [t |-> t, v |-> v]

Fields(midr) ==
  <<Line("part", midr.part), Line("variant", midr.variant), Line("revision", midr.revision)>>

(* What the kernel writes: the processors that are online, each with its
   fields and a blank line; an old kernel names them all and then gives the
   fields once (which says something true only if all are alike).            *)
CpuInfoText(m) ==
  LET ids == SetToSortSeq(m.online, LAMBDA p, q : p < q)
      name(p) == Line("processor", p)
      block(p) == <<name(p)>> \o Fields(m.midr[p]) \o <<Line("blank", 0)>>
  IN  IF m.shared THEN [k \in 1 .. Len(ids) |-> name(ids[k])] \o Fields(m.midr[Head(ids)])
      ELSE FlattenSeq([k \in 1 .. Len(ids) |-> block(ids[k])])

build_midr(f) == [part |-> f.part, variant |-> f.variant, revision |-> f.revision]

(* The name of a core, if it has one: the variant and the revision do not
   matter.                                                                   *)
midr_to_microarch(midr) == {midr_name_table[p] : p \in {midr.part} \cap DOMAIN midr_name_table}

(* One line: a processor is appended with its defaults, a field is given to
   the processors named since the last blank line, which also ends the loop
   when the array is full.                                                   *)
ParseLine(p, line) ==
  IF p.stop THEN p
  ELSE IF line.t = "blank" THEN
    IF Len(p.fields) >= MAX_CPUS THEN [p EXCEPT !.stop = TRUE] ELSE [p EXCEPT !.back = 0]
  ELSE IF line.t = "processor" THEN
    [p EXCEPT !.fields = Append(@, [processor |-> line.v, part |-> 0, variant |-> 0, revision |-> 0]),
              !.back = @ + 1]
  ELSE
    [p EXCEPT !.fields = [k \in DOMAIN @ |->
       IF k > Len(@) - p.back THEN [@[k] EXCEPT ![line.t] = line.v] ELSE @[k]]]

(* The cpus: one less on lab71, the first one only with SINGLE_THREAD.       *)
parse_cpuinfo(m) ==
  LET p == FoldLeft(ParseLine, [fields |-> <<>>, back |-> 0, stop |-> FALSE], CpuInfoText(m))
      n == Len(p.fields) - (IF m.lab71 THEN 1 ELSE 0)
  IN  [k \in 1 .. (IF m.single THEN 1 ELSE n) |->
        [processor |-> p.fields[k].processor, midr |-> build_midr(p.fields[k])]]

(* The program finds the processor it happens to be on among the cpus;
   otherwise it exits.                                                       *)
get_current_cpu_info(cpus, cur) == \E k \in DOMAIN cpus : cpus[k].processor = cur

(* What every program does first, with the cpus it has parsed; the rest of it
   prepares memory and prints.                                               *)
early_init(cpus, cur) == get_current_cpu_info(cpus, cur)

(* Core types in the order in which they first appear, each with its
   processors in the order of the cpus.                                      *)
group_core_types(cpus) ==
  LET midrs == FoldLeft(LAMBDA s, c : IF c.midr \in ToSet(s) THEN s ELSE Append(s, c.midr), <<>>, cpus)
      of(midr) == SelectSeq(cpus, LAMBDA c : c.midr = midr)
  IN  [k \in DOMAIN midrs |->
        [midr |-> midrs[k], cpus |-> [j \in DOMAIN of(midrs[k]) |-> of(midrs[k])[j].processor]]]

-----------------------------------------------------------------------------
(* Where a program pins itself, given the cpus it has just parsed.  Each
   operator is the set of processors the code may choose (rand() picks one);
   it is empty when the code gives up.                                       *)

(* Only the revision differs, or nothing.                                    *)
RevisionOnly(a, b) == a.part = b.part /\ a.variant = b.variant

(* The first core type with this MIDR, else the first one that differs in the
   revision only, any of its cores.                                          *)
pin_to_midr(cpus, midr) ==
  LET types == group_core_types(cpus)
      exact == {k \in DOMAIN types : types[k].midr = midr}
      close == {k \in DOMAIN types : RevisionOnly(types[k].midr, midr)}
      take(ks) == ToSet(types[Min(ks)].cpus)
  IN  IF exact # {} THEN take(exact) ELSE IF close # {} THEN take(close) ELSE {}

(* The core asked for, if there are that many: the number is compared with how
   many cpus were parsed, and then used as a processor id.                   *)
pin_to_core_verbose(cpus, core) == IF core >= Len(cpus) THEN {} ELSE {core}

(* Any of the first so many processors.                                      *)
pin_to_random_core(cpus) == 0 .. Len(cpus) - 1

(* The first core of the first core type with this name.                     *)
resolve_uarch_to_core_strict(cpus, name) ==
  LET types == group_core_types(cpus)
      ks == {k \in DOMAIN types : midr_to_microarch(types[k].midr) = {name}}
  IN  IF ks = {} THEN {} ELSE {Head(types[Min(ks)].cpus)}

(* Mutant of pin_to_midr_list: each MIDR of the list with pin_to_midr, so that
   another revision of an earlier one comes before a later one.              *)
pin_to_midr_list_each(cpus, midrs) ==
  LET ks == {k \in DOMAIN midrs : pin_to_midr(cpus, midrs[k]) # {}}
  IN  IF ks = {} THEN {} ELSE pin_to_midr(cpus, midrs[Min(ks)])

(* The list in its order, first for exact matches, then for other revisions. *)
pin_to_midr_list(cpus, midrs) ==
  LET types == group_core_types(cpus)
      exact == {k \in DOMAIN midrs : \E t \in DOMAIN types : types[t].midr = midrs[k]}
      close == {k \in DOMAIN midrs : pin_to_midr(cpus, midrs[k]) # {}}
  IN  IF exact # {} THEN pin_to_midr(cpus, midrs[Min(exact)])
      ELSE IF close # {} THEN pin_to_midr(cpus, midrs[Min(close)]) ELSE {}

(* Mutant of pin_to_cpu: the last try is not counted as one.                 *)
pin_to_cpu_again(tries, ok) == IF ok THEN "pinned" ELSE "again"

(* After a try to pin: a second of sleep and the next try, up to the last one. *)
pin_to_cpu(tries, ok) ==
  IF ok THEN "pinned" ELSE IF tries + 1 < PinTries THEN "again" ELSE "exit"
=============================================================================
