------------------------------- MODULE Runner -------------------------------
(***************************************************************************)
(* How a client core executes one input (client/src/lib/runner.c):         *)
(* run_with_instr_seq runs the instruction sequence under an alarm, maps   *)
(* the pages it faults on until it faults no more, runs it a last time and *)
(* reports signal, registers and memory changes of that run; the client    *)
(* does so for the whole sequence or prefix by prefix, and sends the       *)
(* results (client/src/diffuzz-client.c).                                  *)
(*                                                                         *)
(* The instructions run in the client process itself.  Whatever they do is *)
(* caught by sig_handler, which does not return to them but restores the   *)
(* registers saved on entry of runner() and so returns from that call.     *)
(* The kernel's view (timer, pending signal, signal mask) outlives it.     *)
(*                                                                         *)
(* The kernel delivers a pending signal that is not blocked before the     *)
(* process executes anything else.                                         *)
(***************************************************************************)
EXTENDS ResultCodec

CONSTANTS
  Archs,       (* the architectures to look at                                 *)
  Inputs,      (* what the client is given: instruction sequence, registers,
                  and whether all prefixes are run                             *)
  Pages,       (* numbers of the pages the instructions may touch              *)
  PageSize,    (* bytes of a page                                              *)
  Content,     (* what a page is filled with: per address a byte               *)
  Mappable,    (* those that are neither too low nor too high to be mapped     *)
  Writable,    (* those for which gen_random_prot allows writing               *)
  Scrap,       (* the register through which the state is saved (x29)          *)
  MaxTries,    (* CHECK_MEM_MAX_TRIES                                          *)
  MaxInputs    (* bound of the model: inputs executed                          *)

Page(addr) == addr \div PageSize
AddrsOf(page) == page * PageSize .. (page + 1) * PageSize - 1
Addrs == UNION {AddrsOf(p) : p \in Pages}

(* An instruction: illegal, an endless loop, one that sets a register, or a
   memory access.                                                               *)
Instruction ==
  [op : {"ill", "loop"}] \cup [op : {"set"}, reg : Regs, val : Nat]
  \cup [op : {"load"}, addr : Addrs] \cup [op : {"store"}, addr : Addrs, val : 0 .. Byte - 1]

Input == [instr_seq : Seq(Instruction), regs : [Regs -> Nat], full_seq : BOOLEAN]

ASSUME RunnerAssumption ==
  /\ Archs \subseteq {"riscv64", "aarch64"}
  /\ \A i \in Inputs : i \in Input /\ i.instr_seq # <<>>
  /\ Pages \subseteq Nat /\ PageSize \in Nat \ {0} /\ Content \in [Addrs -> 0 .. Byte - 1]
  /\ Mappable \subseteq Pages /\ Writable \subseteq Mappable
  /\ Scrap \in Regs
  /\ MaxTries \in Nat \ {0} /\ MaxInputs \in Nat

SIGILL == 4
SIGSEGV == 11
SIGALRM == 14
SI_TIMER == -2

VARIABLES
  arch,                   (* the architecture the client is built for          *)
  inputs,                 (* inputs executed so far                            *)
  at,                     (* where the process is                              *)
  inp,                    (* the input                                         *)
  n,                      (* the length of the prefix that is run              *)
  ip,                     (* the instruction executed next                     *)
  auto_mappings,          (* pages mapped for this input                       *)
  memory,                 (* what is in the pages: per address a byte          *)
  regs,                   (* the registers of the sequence                     *)
  last,                   (* this is the run that is reported                  *)
  running,                (* runner_running                                    *)
  handled,                (* signal_handled                                    *)
  exception_stack_count,
  caught,                 (* the signal sig_handler works on                   *)
  global_sig,             (* global_signum, global_si_addr, _pc and _code      *)
  regs_result,            (* __regs_result                                     *)
  timer,                  (* the alarm timer is armed                          *)
  pending,                (* a SIGALRM is pending                              *)
  blocked,                (* SIGALRM is blocked                                *)
  results,                (* what run_with_instr_seq returned, per prefix      *)
  sent,                   (* what is sent for the input                        *)
  early                   (* an alarm hit a sequence that was not looping      *)

kernel == <<timer, pending, blocked>>
globals == <<running, handled, exception_stack_count, caught, global_sig, regs_result>>
input == <<inp, n, auto_mappings, last>>
processor == <<ip, memory, regs>>
outputs == <<results, sent>>
vars == <<arch, inputs, at, inp, n, ip, auto_mappings, memory, regs, last, running, handled,
          exception_stack_count, caught, global_sig, regs_result, timer, pending, blocked, results,
          sent, early>>

instr == SubSeq(inp.instr_seq, 1, n)

NoSignal == [signum |-> 0, si_addr |-> 0, si_pc |-> 0, si_code |-> 0]
NoInput == [instr_seq |-> <<>>, regs |-> [r \in Regs |-> 0], full_seq |-> FALSE]

Init ==
  /\ arch \in Archs
  /\ inputs = 0
  /\ at = "idle"
  /\ inp = NoInput
  /\ n = 0
  /\ ip = 1
  /\ auto_mappings = <<>>
  /\ memory = Content
  /\ regs = NoInput.regs
  /\ last = FALSE
  /\ running = FALSE
  /\ handled = FALSE
  /\ exception_stack_count = 0
  /\ caught = NoSignal
  /\ global_sig = NoSignal
  /\ regs_result = NoInput.regs
  /\ timer = FALSE
  /\ pending = FALSE
  /\ blocked = FALSE
  /\ results = <<>>
  /\ sent = <<>>
  /\ early = FALSE

-----------------------------------------------------------------------------
(* The kernel.                                                                  *)

(* The process may go on: no signal has to be delivered first.                  *)
Undisturbed == ~(pending /\ ~blocked)

Looping == at = "seq" /\ ip <= Len(instr) /\ instr[ip].op = "loop"

(* 20 ms of CPU time have passed since SET_ALARM; the timer fires once.  They
   pass in the sequence, not in the few instructions before it.                 *)
Expire ==
  /\ timer
  /\ at # "exited"
  /\ timer' = FALSE
  /\ pending' = TRUE
  /\ early' = (early \/ ~Looping)
  /\ UNCHANGED <<arch, inputs, at, input, processor, globals, blocked, outputs>>

(* The entry of sig_handler, with SIGALRM blocked (sa_mask).  A signal that is
   not from the sequence, or one on top of another, ends the client.            *)
Catch(signal) ==
  /\ exception_stack_count' = exception_stack_count + 1
  /\ caught' = signal
  /\ blocked' = TRUE
  /\ at' = IF ~running \/ exception_stack_count + 1 > 1 THEN "exited" ELSE "caught"

(* The alarm is delivered, wherever the process is.                             *)
Alarm ==
  /\ pending
  /\ ~blocked
  /\ at # "exited"
  /\ pending' = FALSE
  /\ Catch([signum |-> SIGALRM, si_addr |-> 0, si_pc |-> ip, si_code |-> SI_TIMER])
  /\ UNCHANGED <<arch, inputs, input, processor, running, handled, global_sig, regs_result, timer,
                 outputs, early>>

-----------------------------------------------------------------------------
(* run_with_instr_seq_no_check_mem.                                             *)

(* The mapped pages get their content back, the registers those of the input,
   the flags are reset, the alarm is set and the sequence entered.              *)
Arm ==
  /\ at = "run"
  /\ Undisturbed
  /\ memory' = Content
  /\ regs' = inp.regs
  /\ handled' = FALSE
  /\ running' = TRUE
  /\ exception_stack_count' = 0
  /\ timer' = TRUE
  /\ ip' = 1
  /\ at' = "seq"
  /\ UNCHANGED <<arch, inputs, input, caught, global_sig, regs_result, pending, blocked, outputs,
                 early>>

(* What stops an instruction, if anything does: SEGV_MAPERR or SEGV_ACCERR.      *)
Unmapped(i) == i.op \in {"load", "store"} /\ Page(i.addr) \notin ToSet(auto_mappings)
Faults(i) ==
  \/ i.op = "ill"
  \/ Unmapped(i)
  \/ i.op = "store" /\ Page(i.addr) \notin Writable
FaultOf(i) ==
  IF i.op = "ill" THEN [signum |-> SIGILL, si_addr |-> ip, si_pc |-> ip, si_code |-> 1]
  ELSE [signum |-> SIGSEGV, si_addr |-> i.addr, si_pc |-> ip, si_code |-> IF Unmapped(i) THEN 1 ELSE 2]

(* The processor executes an instruction of the sequence ...                    *)
Execute ==
  /\ at = "seq"
  /\ Undisturbed
  /\ ip <= Len(instr)
  /\ instr[ip].op # "loop"
  /\ ~Faults(instr[ip])
  /\ ip' = ip + 1
  /\ memory' = IF instr[ip].op = "store" THEN [memory EXCEPT ![instr[ip].addr] = instr[ip].val]
               ELSE memory
  /\ regs' = IF instr[ip].op = "set" THEN [regs EXCEPT ![instr[ip].reg] = instr[ip].val] ELSE regs
  /\ UNCHANGED <<arch, inputs, at, input, globals, kernel, outputs, early>>

(* ... or raises a signal at it.                                                *)
Fault ==
  /\ at = "seq"
  /\ Undisturbed
  /\ ip <= Len(instr)
  /\ Faults(instr[ip])
  /\ Catch(FaultOf(instr[ip]))
  /\ UNCHANGED <<arch, inputs, input, processor, running, handled, global_sig, regs_result, timer,
                 pending, outputs, early>>

(* The sequence is through: runner() saves the registers but the one it needs
   for that, and returns.                                                       *)
Return ==
  /\ at = "seq"
  /\ Undisturbed
  /\ ip > Len(instr)
  /\ regs_result' = [regs EXCEPT ![Scrap] = regs_result[Scrap]]
  /\ at' = "returned"
  /\ UNCHANGED <<arch, inputs, input, processor, running, handled, exception_stack_count, caught,
                 global_sig, kernel, outputs, early>>

(* After runner(), whichever way it returned: without a signal the alarm is
   taken back first.  An alarm that comes now still counts for this run.        *)
TakeBackAlarm ==
  /\ at = "returned"
  /\ Undisturbed
  /\ timer' = IF handled THEN timer ELSE FALSE
  /\ at' = IF handled THEN "collect" ELSE "finished"
  /\ UNCHANGED <<arch, inputs, input, processor, globals, pending, blocked, outputs, early>>

(* Mutant of ClearGlobals: the signal of an earlier run is left there.          *)
ClearGlobalsNot ==
  /\ at = "finished"
  /\ Undisturbed
  /\ at' = "collect"
  /\ UNCHANGED <<arch, inputs, input, processor, globals, kernel, outputs, early>>

(* No signal came: the globals say so, and the register that was not saved has
   not changed.                                                                 *)
ClearGlobals ==
  /\ at = "finished"
  /\ Undisturbed
  /\ global_sig' = NoSignal
  /\ regs_result' = [regs_result EXCEPT ![Scrap] = inp.regs[Scrap]]
  /\ at' = "collect"
  /\ UNCHANGED <<arch, inputs, input, processor, running, handled, exception_stack_count,
                 caught, kernel, outputs, early>>

(* The run is over: the result is built from the globals.                       *)
Collect ==
  /\ at = "collect"
  /\ Undisturbed
  /\ running' = FALSE
  /\ at' = "next"
  /\ UNCHANGED <<arch, inputs, input, processor, handled, exception_stack_count, caught,
                 global_sig, regs_result, kernel, outputs, early>>

-----------------------------------------------------------------------------
(* sig_handler.                                                                 *)

(* On riscv64 all signals, SIGALRM too, are unblocked at once.                  *)
UnblockEarly ==
  /\ at = "caught"
  /\ Undisturbed
  /\ blocked' = IF arch = "riscv64" THEN FALSE ELSE blocked
  /\ at' = "disarm"
  /\ UNCHANGED <<arch, inputs, input, processor, globals, timer, pending, outputs, early>>

(* Any other signal stops the timer; an alarm has used it up.                   *)
Disarm ==
  /\ at = "disarm"
  /\ Undisturbed
  /\ timer' = IF caught.signum = SIGALRM THEN timer ELSE FALSE
  /\ at' = "record"
  /\ UNCHANGED <<arch, inputs, input, processor, globals, pending, blocked, outputs, early>>

(* The signal and the registers the kernel saved go to the globals.  (After an
   alarm behind the end of the sequence they are those of the client; then the
   run is early, and its result is not looked at.)                              *)
Record ==
  /\ at = "record"
  /\ Undisturbed
  /\ global_sig' = caught
  /\ regs_result' = regs
  /\ at' = "discard"
  /\ UNCHANGED <<arch, inputs, input, processor, running, handled, exception_stack_count,
                 caught, kernel, outputs, early>>

(* Mutant of Discard: an alarm thrown meanwhile is kept.                        *)
DiscardNothing ==
  /\ at = "discard"
  /\ Undisturbed
  /\ at' = "unblock"
  /\ UNCHANGED <<arch, inputs, input, processor, globals, kernel, outputs, early>>

(* SIGALRM is ignored for a moment, which drops a pending one.                  *)
Discard ==
  /\ at = "discard"
  /\ Undisturbed
  /\ pending' = FALSE
  /\ at' = "unblock"
  /\ UNCHANGED <<arch, inputs, input, processor, globals, timer, blocked, outputs, early>>

(* Mutant of Unblock: the mask is left as the handler found it.                 *)
UnblockNot ==
  /\ at = "unblock"
  /\ Undisturbed
  /\ handled' = TRUE
  /\ at' = "returned"
  /\ UNCHANGED <<arch, inputs, input, processor, running, exception_stack_count, caught,
                 global_sig, regs_result, kernel, outputs, early>>

(* SIGALRM is unblocked, and the handler returns from runner() in place of the
   sequence.                                                                    *)
Unblock ==
  /\ at = "unblock"
  /\ Undisturbed
  /\ blocked' = FALSE
  /\ handled' = TRUE
  /\ at' = "returned"
  /\ UNCHANGED <<arch, inputs, input, processor, running, exception_stack_count, caught,
                 global_sig, regs_result, timer, pending, outputs, early>>

-----------------------------------------------------------------------------
(* run_with_instr_seq and its callers.                                          *)

(* The next input: its first prefix, or the whole sequence.                      *)
Begin ==
  /\ at = "idle"
  /\ Undisturbed
  /\ inputs < MaxInputs
  /\ inputs' = inputs + 1
  /\ inp' \in Inputs
  /\ n' = IF inp'.full_seq THEN 1 ELSE Len(inp'.instr_seq)
  /\ last' = FALSE
  /\ early' = FALSE
  /\ results' = <<>>
  /\ sent' = <<>>
  /\ at' = "run"
  /\ UNCHANGED <<arch, auto_mappings, processor, globals, kernel>>

Target == Page(global_sig.si_addr)

(* Mutant of MayMap: a page that is mapped already is tried again.              *)
MayMapAgain ==
  /\ ~last
  /\ global_sig.signum = SIGSEGV
  /\ Target \in Mappable
  /\ Len(auto_mappings) < MaxTries

(* A run stopped at a page that can be mapped and is not mapped yet.            *)
MayMap ==
  /\ ~last
  /\ global_sig.signum = SIGSEGV
  /\ Target \in Mappable \ ToSet(auto_mappings)
  /\ Len(auto_mappings) < MaxTries

(* The page is mapped, and the sequence run again ...                           *)
MapPage ==
  /\ at = "next"
  /\ Undisturbed
  /\ MayMap
  /\ auto_mappings' = Append(auto_mappings, Target)
  /\ at' = "run"
  /\ UNCHANGED <<arch, inputs, inp, n, last, processor, globals, kernel, outputs, early>>

(* ... until nothing can be gained; then it is run one more time.               *)
RunLast ==
  /\ at = "next"
  /\ Undisturbed
  /\ ~last
  /\ ~MayMap
  /\ last' = TRUE
  /\ at' = "run"
  /\ UNCHANGED <<arch, inputs, inp, n, auto_mappings, processor, globals, kernel, outputs, early>>

Bytes(page, contents) == [i \in 1 .. PageSize |-> contents[page * PageSize + i - 1]]
Mapping(page, contents) ==
  [start |-> page * PageSize, val |-> Bytes(page, Content), rw_mapping |-> Bytes(page, contents)]
Changes(pages, contents) == mem_changes([k \in DOMAIN pages |-> Mapping(pages[k], contents)])

(* The memory is compared, the mappings are freed and the result returned; the
   next prefix follows unless there was a signal.                               *)
Report ==
  /\ at = "next"
  /\ Undisturbed
  /\ last
  /\ results' = Append(results, [signum |-> global_sig.signum, si_addr |-> global_sig.si_addr,
                                 si_pc |-> global_sig.si_pc, si_code |-> global_sig.si_code,
                                 regs |-> regs_result, mem |-> Changes(auto_mappings, memory)])
  /\ auto_mappings' = <<>>
  /\ memory' = Content
  /\ IF inp.full_seq /\ global_sig.signum = 0 /\ n < Len(inp.instr_seq)
     THEN at' = "run" /\ n' = n + 1 /\ last' = FALSE
     ELSE at' = "pack" /\ UNCHANGED <<n, last>>
  /\ UNCHANGED <<arch, inputs, inp, ip, regs, globals, kernel, sent, early>>

(* The results are packed; the client aborts if their size does not fit.        *)
Pack ==
  /\ at = "pack"
  /\ Undisturbed
  /\ \E body \in {IF inp.full_seq THEN pack_results(results, inp.regs)
                  ELSE pack_result(Head(results), inp.regs)} :
       IF Fits(body) THEN sent' = WithSize(body) /\ at' = "idle"
       ELSE at' = "aborted" /\ UNCHANGED sent
  /\ UNCHANGED <<arch, inputs, input, processor, globals, kernel, results, early>>

-----------------------------------------------------------------------------
Process ==
  \/ Arm \/ Execute \/ Fault \/ Return \/ TakeBackAlarm \/ ClearGlobals \/ Collect
  \/ UnblockEarly \/ Disarm \/ Record \/ Discard \/ Unblock
  \/ MapPage \/ RunLast \/ Report \/ Pack

Next ==
  \/ Begin
  \/ Process
  \/ Expire
  \/ Alarm

Spec == Init /\ [][Next]_vars

(* The process is scheduled, CPU time passes and signals are delivered.         *)
FairSpec ==
  /\ Spec
  /\ WF_vars(Process)
  /\ WF_vars(Expire)
  /\ WF_vars(Alarm)

-----------------------------------------------------------------------------
(* What must hold.                                                              *)

(* Types; no more pages are mapped than auto_mappings has room for, each once;
   nothing is written to a page that is not writable.                           *)
TypeOK ==
  /\ at \in {"idle", "run", "seq", "returned", "finished", "collect", "next", "pack", "caught",
             "disarm", "record", "discard", "unblock", "exited", "aborted"}
  /\ n \in 0 .. Len(inp.instr_seq)
  /\ ip \in 1 .. n + 1 \/ at \in {"idle", "run"}
  /\ ToSet(auto_mappings) \subseteq Mappable
  /\ IsInjective(auto_mappings)
  /\ Len(auto_mappings) <= MaxTries
  /\ \A a \in Addrs : memory[a] # Content[a] => Page(a) \in Writable
  /\ exception_stack_count \in 0 .. 2
  /\ {running, handled, timer, pending, blocked, last, early} \subseteq BOOLEAN

(* A run starts with no alarm left over from the one before, and able to
   receive its own.                                                             *)
FreshAlarm == at = "run" => ~timer /\ ~pending /\ ~blocked

(* What a program p does when it is not interrupted: the pages it touches are
   mapped one after the other while there is room, and it stops at the first
   instruction that cannot be helped.                                           *)
Accesses(p, k) == {j \in 1 .. k : p[j].op \in {"load", "store"}}
Touched(p, k) == {Page(p[j].addr) : j \in Accesses(p, k)}
Hopeless(p, k) ==
  \/ Page(p[k].addr) \notin Mappable
  \/ Cardinality(Touched(p, k)) > MaxTries
Stops(p, k) ==
  \/ p[k].op \in {"ill", "loop"}
  \/ p[k].op \in {"load", "store"} /\ Hopeless(p, k)
  \/ p[k].op = "store" /\ Page(p[k].addr) \notin Writable
Passed(p) == {k \in 1 .. Len(p) : \A i \in 1 .. k : ~Stops(p, i)}

(* The last write among the instructions that passed.                           *)
LastOf(p, ks, default) == IF ks = {} THEN default ELSE p[Max(ks)].val
FinalReg(p, before, r) ==
  LastOf(p, {k \in Passed(p) : p[k].op = "set" /\ p[k].reg = r}, before[r])
FinalByte(p, a) ==
  LastOf(p, {k \in Passed(p) : p[k].op = "store" /\ p[k].addr = a}, Content[a])

(* The changed bytes fall into runs.  Two neighbours are in one run unless they
   are in two pages of which the second was not touched right after the first;
   the runs come in the order in which their pages were touched.                *)
FirstTouch(p, page) == Min({j \in Accesses(p, Len(p)) : Page(p[j].addr) = page})
Between(p, g, h) ==
  {Page(p[j].addr) : j \in {x \in Accesses(p, Len(p)) :
     FirstTouch(p, g) < FirstTouch(p, Page(p[x].addr)) /\ FirstTouch(p, Page(p[x].addr)) < FirstTouch(p, h)}}
Changed(p) == {a \in Addrs : FinalByte(p, a) # Content[a]}
Joined(p, a) ==
  /\ {a, a + 1} \subseteq Changed(p)
  /\ LET g == Page(a)
         h == Page(a + 1)
     IN  g = h \/ (FirstTouch(p, g) < FirstTouch(p, h) /\ Between(p, g, h) = {})
RunFrom(p, a) == {b \in Changed(p) : b >= a /\ \A c \in a .. b - 1 : Joined(p, c)}
Earlier(p, a, b) ==
  LET f == FirstTouch(p, Page(a))
      g == FirstTouch(p, Page(b))
  IN  f < g \/ (f = g /\ a < b)
Runs(p) ==
  LET starts == SetToSortSeq({a \in Changed(p) : ~Joined(p, a - 1)}, LAMBDA a, b : Earlier(p, a, b))
      count == Min({Len(starts), CHECK_MEM_MAX_NUMBER_MEM_CHANGES})
      bytes(a) == [i \in 1 .. Cardinality(RunFrom(p, a)) |-> FinalByte(p, a + i - 1)]
      seen(a) == LET b == bytes(a)
                     c == mem_change(a, b)
                 IN  <<a, Len(b), Decode(c.val), c.checksum>>
  IN  [k \in 1 .. count |-> seen(starts[k])]

(* Where the program ends, the signal it ends with, and its registers then.     *)
EndOf(p) == Cardinality(Passed(p)) + 1
SignalOf(p) ==
  LET k == EndOf(p)
  IN  CASE k > Len(p) -> NoSignal
        [] k <= Len(p) /\ p[k].op = "ill" ->
             [signum |-> SIGILL, si_addr |-> k, si_pc |-> k, si_code |-> 1]
        [] k <= Len(p) /\ p[k].op = "loop" ->
             [signum |-> SIGALRM, si_addr |-> 0, si_pc |-> k, si_code |-> SI_TIMER]
        [] OTHER -> [signum |-> SIGSEGV, si_addr |-> p[k].addr, si_pc |-> k,
                     si_code |-> IF Hopeless(p, k) THEN 1 ELSE 2]
RegsOf(p, before) ==
  [r \in Regs |-> IF r = Scrap /\ EndOf(p) > Len(p) THEN before[r] ELSE FinalReg(p, before, r)]

(* What the server should know of it.                                           *)
Outcome(p, before) ==
  LET after == RegsOf(p, before)
  IN  [SignalOf(p) EXCEPT !.si_code = @ % (Byte ^ IntBytes)]
      @@ [regs |-> {<<r, after[r]>> : r \in {x \in Regs : after[x] # before[x]}}, mem |-> Runs(p)]

Expected(i) ==
  LET p == i.instr_seq
      upto == Min({Len(p), Cardinality(Passed(p)) + 1})
  IN  IF i.full_seq THEN [k \in 1 .. upto |-> Outcome(SubSeq(p, 1, k), i.regs)]
      ELSE <<Outcome(p, i.regs)>>

(* What the server reads of an input is what its program does, prefix by
   prefix if that was asked for: the signal, the registers and the memory of the
   last run and not of an earlier one, of an earlier prefix or of an earlier
   input, with nothing left unread; and the client only ever aborts on the
   results of prefixes, which have no bound that fits their size.               *)
ResultIsOwn ==
  /\ at = "idle" /\ sent # <<>> /\ ~early =>
       LET data == WithoutSize(sent)
           read == parse_results(data)
       IN  read.v = Expected(inp) /\ read.r = Len(data)
  /\ at = "aborted" => inp.full_seq

(* The alarm never comes on top of a signal that is being handled, nor after
   the run it belongs to: the client does not exit.                             *)
HandlerNotInterrupted == at # "exited"

(* The same, of the architecture whose handler leaves SIGALRM blocked.          *)
Aarch64Survives == arch = "aarch64" => at # "exited"

(* Every input comes to an end, also one that loops forever.                    *)
InputEnds == at # "idle" ~> at \in {"idle", "exited", "aborted"}

-----------------------------------------------------------------------------
(* The inductive invariant behind FreshAlarm and Aarch64Survives: where the alarm
   may be armed, pending or blocked, and how deep signals are nested.           *)
Handling == {"caught", "disarm", "record", "discard", "unblock"}
AlarmType ==
  /\ arch \in {"riscv64", "aarch64"}
  /\ at \in {"idle", "run", "seq", "returned", "finished", "collect", "next", "pack", "exited", "aborted"} \cup Handling
  /\ exception_stack_count \in Nat
FlagType ==
  /\ running \in BOOLEAN /\ handled \in BOOLEAN
  /\ timer \in BOOLEAN /\ pending \in BOOLEAN /\ blocked \in BOOLEAN

(* A timer that has fired is not armed; outside the sequence and its handler it
   is neither; and whatever is not an alarm stops it before going on.           *)
TimerInv ==
  /\ ~(timer /\ pending)
  /\ at \in {"idle", "run", "next", "pack", "aborted", "collect", "finished", "unblock"} => ~timer /\ ~pending
  /\ at \in {"record", "discard"} => ~timer
  /\ at = "returned" /\ handled => ~timer /\ ~pending
  /\ at \in {"caught", "disarm"} /\ caught.signum = SIGALRM => ~timer /\ ~pending

(* SIGALRM is blocked inside the handler only, on aarch64 all the way.          *)
MaskInv ==
  /\ at \in {"idle", "run", "seq", "returned", "finished", "collect", "next", "pack"} => ~blocked
  /\ at = "caught" => blocked
  /\ at \in Handling /\ arch = "aarch64" => blocked

(* One signal is handled per run.                                               *)
NestingInv ==
  /\ at \in {"seq", "returned", "finished", "collect"} \cup Handling => running
  /\ at \in {"seq", "finished"} => ~handled
  /\ at \in {"seq", "finished"} \/ (at = "returned" /\ ~handled) => exception_stack_count = 0
  /\ at \in Handling => exception_stack_count = 1
  /\ at = "exited" => arch = "riscv64"

AlarmInv == AlarmType /\ FlagType /\ TimerInv /\ MaskInv /\ NestingInv

(* The inductive invariant behind TypeOK, with AlarmInv.  An input is one the
   client was given, and the processor is in the prefix that is run.            *)
InputInv ==
  /\ inp \in Inputs \cup {NoInput}
  /\ n \in 0 .. Len(inp.instr_seq)
  /\ ip \in 1 .. n + 1 \/ at \in {"idle", "run"}

(* A page is mapped once, and while there is room; pages that are not writable
   keep their content.                                                          *)
PagesInv ==
  /\ auto_mappings \in Seq(Mappable)
  /\ IsInjective(auto_mappings)
  /\ Len(auto_mappings) <= MaxTries
  /\ memory = [a \in Addrs |-> memory[a]]
  /\ \A a \in Addrs : memory[a] # Content[a] => Page(a) \in Writable

(* Signals nest twice at most: the second one ends the client.                  *)
DepthInv == exception_stack_count \in 0 .. 2

RunInv == InputInv /\ PagesInv /\ DepthInv
=============================================================================
