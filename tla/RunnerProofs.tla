---------------------------- MODULE RunnerProofs ----------------------------
(***************************************************************************)
(* Proofs about Runner, for all programs, pages and numbers of tries: an   *)
(* alarm never outlives the run it was set for, on aarch64 it never        *)
(* interrupts the signal handler, the pages mapped for a sequence stay     *)
(* within their bounds, and every result is that of its own prefix.        *)
(***************************************************************************)
EXTENDS Runner, ListLemmas, TLAPS

(* The Boolean variables stay Boolean.                                          *)
LEMMA FlagStep == FlagType /\ [Next]_vars => FlagType'
<1>. SUFFICES ASSUME FlagType, [Next]_vars PROVE FlagType'
  OBVIOUS
<1>1. CASE Begin \/ MapPage \/ RunLast \/ Report \/ Pack
  BY <1>1, Zenon DEF FlagType, Begin, MapPage, RunLast, Report, Pack, globals, kernel
<1>2. CASE Arm \/ Execute \/ Return \/ ClearGlobals \/ Collect
  BY <1>2, Zenon DEF FlagType, Arm, Execute, Return, ClearGlobals, Collect, globals, kernel
<1>3. CASE TakeBackAlarm
  BY <1>3, Zenon DEF FlagType, TakeBackAlarm, globals
<1>4. CASE UnblockEarly \/ Disarm
  BY <1>4, Zenon DEF FlagType, UnblockEarly, Disarm, globals
<1>5. CASE Record \/ Discard \/ Unblock
  BY <1>5, Zenon DEF FlagType, Record, Discard, Unblock, globals, kernel
<1>6. CASE Fault \/ Alarm \/ Expire
  BY <1>6, Zenon DEF FlagType, Fault, Alarm, Expire, Catch, globals
<1>7. CASE UNCHANGED vars
  BY <1>7, Zenon DEF FlagType, vars
<1>. QED BY <1>1, <1>2, <1>3, <1>4, <1>5, <1>6, <1>7 DEF Next, Process

(* The rest of the invariant, given the Boolean types.                          *)
Rest == AlarmType /\ TimerInv /\ MaskInv /\ NestingInv

(* The client starts idle, with the alarm neither armed, pending nor blocked.   *)
LEMMA InitAlarmInv == Init => AlarmInv
<1>1. Init => FlagType
  BY Zenon DEF Init, FlagType
<1>2. Init => Rest
  BY RunnerAssumption DEF RunnerAssumption, Init, Rest, AlarmType, TimerInv, MaskInv,
                          NestingInv, Handling
<1>. QED BY <1>1, <1>2 DEF AlarmInv, Rest

(* The kernel's steps: expiry of the timer and delivery of the alarm.           *)
LEMMA KernelKeepsRest == AlarmInv /\ (Expire \/ Alarm) => Rest'
<1>1. AlarmInv /\ Expire => Rest'
  BY DEF Expire, Rest, AlarmInv, FlagType, AlarmType, TimerInv, MaskInv, NestingInv, Handling, globals, input
<1>2. AlarmInv /\ Alarm => Rest'
  BY DEF Alarm, Catch, Rest, AlarmInv, FlagType, AlarmType, TimerInv, MaskInv, NestingInv, Handling, input
<1>. QED BY <1>1, <1>2

(* A run from SET_ALARM to the result.                                          *)
LEMMA RunKeepsRest ==
  AlarmInv /\ (Arm \/ Execute \/ Fault \/ Return \/ TakeBackAlarm \/ ClearGlobals \/ Collect)
    => Rest'
<1>. USE DEF Rest, AlarmInv, FlagType, AlarmType, TimerInv, MaskInv, NestingInv, Handling, Undisturbed,
             globals, input, kernel
<1>1. AlarmInv /\ Arm => Rest'
  BY DEF Arm
<1>2. AlarmInv /\ Execute => Rest'
  BY DEF Execute
<1>3. AlarmInv /\ Fault => Rest'
  <2>1. \A i : FaultOf(i).signum # SIGALRM
    BY DEF FaultOf, SIGILL, SIGSEGV, SIGALRM
  <2>. QED BY <2>1 DEF Fault, Catch
<1>4. AlarmInv /\ Return => Rest'
  BY DEF Return
<1>5. AlarmInv /\ TakeBackAlarm => Rest'
  BY DEF TakeBackAlarm
<1>6. AlarmInv /\ ClearGlobals => Rest'
  BY DEF ClearGlobals
<1>7. AlarmInv /\ Collect => Rest'
  BY DEF Collect
<1>. QED BY <1>1, <1>2, <1>3, <1>4, <1>5, <1>6, <1>7

(* The signal handler, up to its return in place of the sequence.               *)
LEMMA HandlerKeepsRest ==
  AlarmInv /\ (UnblockEarly \/ Disarm \/ Record \/ Discard \/ Unblock) => Rest'
<1>. USE DEF Rest, AlarmInv, FlagType, AlarmType, TimerInv, MaskInv, NestingInv, Handling, Undisturbed,
             globals, input, kernel
<1>1. AlarmInv /\ UnblockEarly => Rest'
  BY DEF UnblockEarly
<1>2. AlarmInv /\ Disarm => Rest'
  BY DEF Disarm
<1>3. AlarmInv /\ Record => Rest'
  BY DEF Record
<1>4. AlarmInv /\ Discard => Rest'
  BY DEF Discard
<1>5. AlarmInv /\ Unblock => Rest'
  BY DEF Unblock
<1>. QED BY <1>1, <1>2, <1>3, <1>4, <1>5

(* Between the runs: a new input, another page, the last run, the report.       *)
LEMMA InputKeepsRest ==
  AlarmInv /\ (Begin \/ MapPage \/ RunLast \/ Report \/ Pack) => Rest'
<1>. USE DEF Rest, AlarmInv, FlagType, AlarmType, TimerInv, MaskInv, NestingInv, Handling, globals, input, kernel
<1>1. AlarmInv /\ Begin => Rest'
  BY DEF Begin
<1>2. AlarmInv /\ MapPage => Rest'
  BY DEF MapPage
<1>3. AlarmInv /\ RunLast => Rest'
  BY DEF RunLast
<1>4. AlarmInv /\ Report => Rest'
  <2>1. Report => /\ at = "next" /\ at' \in {"run", "pack"}
                  /\ UNCHANGED <<arch, globals, kernel>>
    <3>. HIDE DEF Rest, AlarmInv, globals, kernel
    <3>. QED BY Zenon DEF Report
  <2>. QED BY <2>1
<1>5. AlarmInv /\ Pack => Rest'
  BY DEF Pack
<1>. QED BY <1>1, <1>2, <1>3, <1>4, <1>5

(* The inductive invariant holds throughout.                                    *)
THEOREM AlarmInvariant == Spec => []AlarmInv
<1>1. AlarmInv /\ [Next]_vars => AlarmInv'
  <2>1. AlarmInv /\ UNCHANGED vars => Rest'
    BY DEF vars, AlarmInv, Rest, AlarmType, TimerInv, MaskInv, NestingInv, Handling
  <2>2. AlarmInv /\ [Next]_vars => Rest'
    BY <2>1, KernelKeepsRest, RunKeepsRest, HandlerKeepsRest,
       InputKeepsRest DEF Next, Process
  <2>. QED BY <2>2, FlagStep DEF AlarmInv, Rest
<1>. QED BY <1>1, InitAlarmInv, PTL DEF Spec

(* Every run of a sequence begins with its own alarm: none is armed or pending
   from an earlier run, and SIGALRM is not blocked, whatever signals ended the
   runs before (SET_ALARM, UNSET_ALARM, sig_handler).                           *)
THEOREM AlarmIsFresh == Spec => []FreshAlarm
<1>1. AlarmInv => FreshAlarm
  BY DEF AlarmInv, TimerInv, MaskInv, FreshAlarm
<1>. QED BY <1>1, AlarmInvariant, PTL

(* On aarch64 the client never exits from sig_handler: the alarm neither nests
   into the handling of another signal nor comes outside a run.                 *)
THEOREM Aarch64ClientSurvives == Spec => []Aarch64Survives
<1>1. AlarmInv => Aarch64Survives
  BY DEF AlarmInv, NestingInv, Aarch64Survives
<1>. QED BY <1>1, AlarmInvariant, PTL

-----------------------------------------------------------------------------
(* The types: the processor stays in its sequence, the pages in their bounds.   *)

(* What the sequence of an input and a prefix of it are.                        *)
LEMMA Prefix ==
  ASSUME InputInv
  PROVE  /\ inp.instr_seq \in Seq(Instruction)
         /\ Len(inp.instr_seq) \in Nat /\ n \in Nat /\ n <= Len(inp.instr_seq)
         /\ Len(instr) = n
<1>1. inp.instr_seq \in Seq(Instruction)
  <2>1. CASE inp \in Inputs
    BY <2>1, RunnerAssumption DEF RunnerAssumption, Input
  <2>2. CASE inp = NoInput
    BY <2>2 DEF NoInput
  <2>. QED BY <2>1, <2>2 DEF InputInv
<1>2. Len(inp.instr_seq) \in Nat /\ n \in Nat /\ n <= Len(inp.instr_seq)
  BY <1>1 DEF InputInv
<1>3. Len(SubSeq(inp.instr_seq, 1, n)) = n
  BY <1>1, <1>2
<1>. QED BY <1>1, <1>2, <1>3 DEF instr

(* The prefix and the instruction pointer.                                      *)
LEMMA InputStep == ASSUME AlarmInv, InputInv, [Next]_vars PROVE InputInv'
<1>0. /\ Len(inp.instr_seq) \in Nat /\ n \in Nat /\ n <= Len(inp.instr_seq)
      /\ Len(instr) = n
  BY Prefix
<1>1. ASSUME UNCHANGED <<inp, n, ip>>, at' \in {"idle", "run"} \/ at \notin {"idle", "run"}
      PROVE  InputInv'
  BY <1>1 DEF InputInv
<1>2. CASE Begin
  <2>1. inp' \in Inputs /\ at' = "run"
        /\ n' = IF inp'.full_seq THEN 1 ELSE Len(inp'.instr_seq)
    BY <1>2 DEF Begin
  <2>2. inp'.instr_seq \in Seq(Instruction) /\ inp'.instr_seq # <<>>
    BY <2>1, RunnerAssumption DEF RunnerAssumption, Input
  <2>3. Len(inp'.instr_seq) \in Nat /\ Len(inp'.instr_seq) >= 1
    BY <2>2
  <2>. QED BY <2>1, <2>3 DEF InputInv
<1>3. CASE Arm
  BY <1>0, <1>3 DEF Arm, InputInv, input
<1>4. CASE Execute
  <2>1. ip \in 1 .. n + 1 /\ ip <= n /\ ip' = ip + 1 /\ UNCHANGED <<inp, n, at>>
    BY <1>0, <1>4 DEF Execute, InputInv, input
  <2>. QED BY <2>1, <1>0 DEF InputInv
<1>5. CASE Report
  <2>1. /\ at = "next" /\ UNCHANGED <<inp, ip>>
        /\ \/ at' = "run" /\ n < Len(inp.instr_seq) /\ n' = n + 1
           \/ at' = "pack" /\ n' = n
    BY <1>5 DEF Report
  <2>. QED BY <2>1, <1>0 DEF InputInv
<1>6. CASE Alarm
  <2>1. at \notin {"idle", "run"}
    BY <1>6 DEF Alarm, AlarmInv, TimerInv
  <2>. QED BY <1>1, <1>6, <2>1 DEF Alarm, input, processor
<1>7. CASE Fault \/ Return \/ TakeBackAlarm \/ ClearGlobals \/ Collect
  BY <1>1, <1>7 DEF Fault, Return, TakeBackAlarm, ClearGlobals, Collect, input, processor
<1>8. CASE UnblockEarly \/ Disarm \/ Record \/ Discard \/ Unblock
  BY <1>1, <1>8 DEF UnblockEarly, Disarm, Record, Discard, Unblock, input, processor
<1>9. CASE MapPage \/ RunLast \/ Pack
  BY <1>1, <1>9 DEF MapPage, RunLast, Pack, input, processor
<1>10. CASE Expire \/ UNCHANGED vars
  BY <1>1, <1>10 DEF Expire, vars, input, processor, InputInv
<1>. QED BY <1>2, <1>3, <1>4, <1>5, <1>6, <1>7, <1>8, <1>9, <1>10 DEF Next, Process

(* The mapped pages and the memory.                                             *)
LEMMA PagesStep == ASSUME PagesInv, [Next]_vars PROVE PagesInv'
<1>1. ASSUME UNCHANGED <<auto_mappings, memory>> PROVE PagesInv'
  BY <1>1 DEF PagesInv
<1>a. /\ Content = [a \in Addrs |-> Content[a]]
      /\ \A a \in Addrs : Content[a] # Content[a] => Page(a) \in Writable
  BY RunnerAssumption DEF RunnerAssumption
<1>2. CASE Arm
  <2>1. memory' = Content /\ auto_mappings' = auto_mappings
    BY <1>2 DEF Arm, input
  <2>. QED BY <2>1, <1>a DEF PagesInv
<1>3. CASE Execute
  <2>1. auto_mappings' = auto_mappings
    BY <1>3 DEF Execute, input
  <2>2. CASE instr[ip].op = "store"
    <3>1. memory' = [memory EXCEPT ![instr[ip].addr] = instr[ip].val]
          /\ Page(instr[ip].addr) \in Writable
      BY <1>3, <2>2 DEF Execute, Faults
    <3>2. \A a \in Addrs : memory'[a] = IF a = instr[ip].addr THEN instr[ip].val ELSE memory[a]
      BY <3>1 DEF PagesInv
    <3>3. memory' = [a \in Addrs |-> memory'[a]]
      BY <3>1 DEF PagesInv
    <3>. QED BY <3>1, <3>2, <3>3, <2>1 DEF PagesInv
  <2>3. CASE instr[ip].op # "store"
    BY <1>1, <1>3, <2>1, <2>3 DEF Execute
  <2>. QED BY <2>2, <2>3
<1>4. CASE MapPage
  <2>1. /\ auto_mappings' = Append(auto_mappings, Target) /\ memory' = memory
        /\ Target \in Mappable /\ Target \notin ToSet(auto_mappings)
        /\ Len(auto_mappings) < MaxTries
    BY <1>4 DEF MapPage, MayMap, processor
  <2>2. auto_mappings \in Seq(Mappable) /\ IsInjective(auto_mappings)
    BY DEF PagesInv
  <2>. DEFINE k == Len(auto_mappings)
  <2>3. /\ k \in Nat /\ Len(auto_mappings') = k + 1 /\ auto_mappings' \in Seq(Mappable)
        /\ DOMAIN auto_mappings' = 1 .. k + 1
        /\ \A j \in 1 .. k : auto_mappings'[j] = auto_mappings[j]
        /\ auto_mappings'[k + 1] = Target
    BY <2>1, <2>2
  <2>4. \A j \in 1 .. k : auto_mappings[j] # Target
    BY <2>1, <2>2 DEF ToSet
  <2>5. \A i, j \in 1 .. k : auto_mappings[i] = auto_mappings[j] => i = j
    BY <2>2 DEF IsInjective
  <2>6. IsInjective(auto_mappings')
    <3>. HIDE DEF k
    <3>1. ASSUME NEW i \in 1 .. k + 1, NEW j \in 1 .. k + 1, auto_mappings'[i] = auto_mappings'[j]
          PROVE  i = j
      <4>1. (i \in 1 .. k \/ i = k + 1) /\ (j \in 1 .. k \/ j = k + 1)
        BY <2>3
      <4>. QED BY <4>1, <3>1, <2>3, <2>4, <2>5
    <3>. QED BY <3>1, <2>3 DEF IsInjective
  <2>7. Len(auto_mappings') <= MaxTries
    BY <2>1, <2>3, RunnerAssumption DEF RunnerAssumption
  <2>. QED BY <2>1, <2>3, <2>6, <2>7 DEF PagesInv
<1>5. CASE Report
  <2>1. auto_mappings' = <<>> /\ memory' = Content
    BY <1>5 DEF Report
  <2>2. <<>> \in Seq(Mappable) /\ IsInjective(<<>>) /\ Len(<<>>) <= MaxTries
    BY RunnerAssumption DEF RunnerAssumption, IsInjective
  <2>. QED BY <2>1, <2>2, <1>a DEF PagesInv
<1>6. CASE Begin \/ Fault \/ Return \/ TakeBackAlarm \/ ClearGlobals \/ Collect
  BY <1>1, <1>6 DEF Begin, Fault, Return, TakeBackAlarm, ClearGlobals, Collect, input, processor
<1>7. CASE UnblockEarly \/ Disarm \/ Record \/ Discard \/ Unblock
  BY <1>1, <1>7 DEF UnblockEarly, Disarm, Record, Discard, Unblock, input, processor
<1>8. CASE RunLast \/ Pack
  BY <1>1, <1>8 DEF RunLast, Pack, input, processor
<1>9. CASE Expire \/ Alarm \/ UNCHANGED vars
  BY <1>1, <1>9 DEF Expire, Alarm, vars, input, processor
<1>. QED BY <1>2, <1>3, <1>4, <1>5, <1>6, <1>7, <1>8, <1>9 DEF Next, Process

(* The depth of signals: one is delivered only where none or one is handled.    *)
LEMMA DepthStep == ASSUME AlarmInv, DepthInv, [Next]_vars PROVE DepthInv'
<1>1. ASSUME UNCHANGED exception_stack_count PROVE DepthInv'
  BY <1>1 DEF DepthInv
<1>2. CASE Arm
  BY <1>2 DEF Arm, DepthInv
<1>3. CASE Fault
  BY <1>3 DEF Fault, Catch, DepthInv, AlarmInv, NestingInv
<1>4. CASE Alarm
  <2>1. exception_stack_count \in {0, 1}
    BY <1>4 DEF Alarm, AlarmInv, AlarmType, TimerInv, NestingInv, Handling
  <2>. QED BY <1>4, <2>1 DEF Alarm, Catch, DepthInv
<1>5. CASE Begin \/ Execute \/ Return \/ TakeBackAlarm \/ ClearGlobals \/ Collect
  BY <1>1, <1>5 DEF Begin, Execute, Return, TakeBackAlarm, ClearGlobals, Collect, globals
<1>6. CASE UnblockEarly \/ Disarm \/ Record \/ Discard \/ Unblock
  BY <1>1, <1>6 DEF UnblockEarly, Disarm, Record, Discard, Unblock, globals
<1>7. CASE MapPage \/ RunLast \/ Report \/ Pack
  BY <1>1, <1>7 DEF MapPage, RunLast, Report, Pack, globals
<1>8. CASE Expire \/ UNCHANGED vars
  BY <1>1, <1>8 DEF Expire, vars, globals
<1>. QED BY <1>2, <1>3, <1>4, <1>5, <1>6, <1>7, <1>8 DEF Next, Process

(* The two flags of a run that have no part in the alarm.                       *)
MarkType == last \in BOOLEAN /\ early \in BOOLEAN

(* They stay Boolean.                                                           *)
LEMMA MarkStep == ASSUME MarkType, [Next]_vars PROVE MarkType'
<1>1. CASE Begin \/ MapPage \/ RunLast \/ Report \/ Pack
  BY <1>1, Zenon DEF MarkType, Begin, MapPage, RunLast, Report, Pack, input
<1>2. CASE Arm \/ Execute \/ Fault \/ Return \/ TakeBackAlarm \/ ClearGlobals \/ Collect
  BY <1>2, Zenon DEF MarkType, Arm, Execute, Fault, Return, TakeBackAlarm, ClearGlobals, Collect, input
<1>3. CASE UnblockEarly \/ Disarm \/ Record \/ Discard \/ Unblock
  BY <1>3, Zenon DEF MarkType, UnblockEarly, Disarm, Record, Discard, Unblock, input
<1>4. CASE Expire \/ Alarm
  BY <1>4, Zenon DEF MarkType, Expire, Alarm, input
<1>5. CASE UNCHANGED vars
  BY <1>5, Zenon DEF MarkType, vars
<1>. QED BY <1>1, <1>2, <1>3, <1>4, <1>5 DEF Next, Process

(* The client starts without input, without pages and outside any handler.      *)
LEMMA InitRunInv == Init => RunInv /\ MarkType
<1>. SUFFICES ASSUME Init PROVE RunInv /\ MarkType
  OBVIOUS
<1>1. InputInv
  BY DEF Init, InputInv, NoInput
<1>2. PagesInv
  <2>1. <<>> \in Seq(Mappable) /\ IsInjective(<<>>) /\ Len(<<>>) <= MaxTries
    BY RunnerAssumption DEF RunnerAssumption, IsInjective
  <2>2. Content = [a \in Addrs |-> Content[a]]
    BY RunnerAssumption DEF RunnerAssumption
  <2>. QED BY <2>1, <2>2 DEF Init, PagesInv
<1>3. DepthInv
  BY DEF Init, DepthInv
<1>4. MarkType
  BY Zenon DEF Init, MarkType
<1>. QED BY <1>1, <1>2, <1>3, <1>4 DEF RunInv

(* The second inductive invariant holds throughout.                             *)
LEMMA RunInvariant == Spec => [](RunInv /\ MarkType)
<1>1. RunInv /\ MarkType /\ AlarmInv /\ [Next]_vars => (RunInv /\ MarkType)'
  BY InputStep, PagesStep, DepthStep, MarkStep DEF RunInv
<1>. QED BY <1>1, InitRunInv, AlarmInvariant, PTL DEF Spec

(* The processor never leaves the prefix that is run; a page is mapped once and
   only while auto_mappings has room; what is not writable keeps its content;
   and signals nest twice at most.                                              *)
THEOREM RunnerTypes == Spec => []TypeOK
<1>1. RunInv /\ MarkType /\ AlarmInv => TypeOK
  <2>. SUFFICES ASSUME RunInv, MarkType, AlarmInv PROVE TypeOK
    OBVIOUS
  <2>1. ToSet(auto_mappings) \subseteq Mappable
    BY DEF RunInv, PagesInv, ToSet
  <2>2. {running, handled, timer, pending, blocked, last, early} \subseteq BOOLEAN
    BY Zenon DEF AlarmInv, FlagType, MarkType
  <2>3. at \in {"idle", "run", "seq", "returned", "finished", "collect", "next", "pack", "caught",
                "disarm", "record", "discard", "unblock", "exited", "aborted"}
    BY DEF AlarmInv, AlarmType, Handling
  <2>. QED BY <2>1, <2>2, <2>3, Zenon DEF TypeOK, RunInv, InputInv, PagesInv, DepthInv
<1>. QED BY <1>1, RunInvariant, AlarmInvariant, PTL

-----------------------------------------------------------------------------
(* The results are those of the program.                                        *)

(* With the pages M mapped, instruction k of p is not passed; the signal that
   reports it; and the registers and bytes after the k - 1 instructions before. *)
IsAccess(i) == i.op \in {"load", "store"}
StopsNow(p, M, k) ==
  \/ p[k].op \in {"ill", "loop"}
  \/ IsAccess(p[k]) /\ Page(p[k].addr) \notin M
  \/ p[k].op = "store" /\ Page(p[k].addr) \notin Writable
StopSignal(p, M, k) ==
  CASE p[k].op = "ill" -> [signum |-> SIGILL, si_addr |-> k, si_pc |-> k, si_code |-> 1]
    [] p[k].op = "loop" -> [signum |-> SIGALRM, si_addr |-> 0, si_pc |-> k, si_code |-> SI_TIMER]
    [] OTHER -> [signum |-> SIGSEGV, si_addr |-> p[k].addr, si_pc |-> k,
                 si_code |-> IF Page(p[k].addr) \notin M THEN 1 ELSE 2]
RegAfter(p, before, k, r) == LastOf(p, {j \in 1 .. k - 1 : p[j].op = "set" /\ p[j].reg = r}, before[r])
ByteAfter(p, k, a) == LastOf(p, {j \in 1 .. k - 1 : p[j].op = "store" /\ p[j].addr = a}, Content[a])

(* The run has passed the instructions before k.                                *)
Reached(p, M, k) == \A j \in 1 .. k - 1 : ~StopsNow(p, M, j)

(* Where the processor is, its registers and the memory belong to the prefix.   *)
Entered == {"seq", "returned", "finished", "collect", "next"} \cup Handling
ProcessorInv ==
  at \in Entered =>
    /\ Reached(instr, ToSet(auto_mappings), ip)
    /\ regs = [r \in Regs |-> RegAfter(instr, inp.regs, ip, r)]
    /\ memory = [a \in Addrs |-> ByteAfter(instr, ip, a)]

(* The signal s is the one that stops the run where it is.                      *)
StoppedBy(s) ==
  /\ ip <= Len(instr)
  /\ StopsNow(instr, ToSet(auto_mappings), ip)
  /\ s = StopSignal(instr, ToSet(auto_mappings), ip)

(* What is in the globals once the run has ended.                               *)
Signalled == StoppedBy(global_sig) /\ regs_result = regs
Through ==
  /\ ip > Len(instr)
  /\ global_sig = NoSignal
  /\ regs_result = [r \in Regs |-> IF r = Scrap THEN inp.regs[r] ELSE regs[r]]
Ended == Signalled \/ Through

(* An alarm that is not early is that of a loop; the signal that is handled is
   the one that stopped the run; and what is reported is of this run.           *)
SignalInv ==
  ~early =>
    /\ pending => Looping
    /\ at \in {"caught", "disarm", "record"} => StoppedBy(caught)
    /\ at \in {"discard", "unblock"} \/ (at \in {"returned", "collect"} /\ handled) => Signalled
    /\ at = "finished" \/ (at = "returned" /\ ~handled) =>
         /\ ip > Len(instr)
         /\ \E x : regs_result = [r \in Regs |-> IF r = Scrap THEN x ELSE regs[r]]
    /\ at = "collect" /\ ~handled => Through
    /\ at = "next" => Ended

(* Every page was mapped for an access the run comes to, the pages in the order
   in which the program touches them.                                           *)
TouchedAt(p, k, page) == k \in 1 .. Len(p) /\ IsAccess(p[k]) /\ Page(p[k].addr) = page
TouchedPages(p, M) == \A page \in M : \E k \in 1 .. Len(p) : TouchedAt(p, k, page) /\ Reached(p, M, k)
InOrder(p, pages) ==
  \A i, j \in DOMAIN pages : i < j =>
    \E k \in 1 .. Len(p) : TouchedAt(p, k, pages[i]) /\ \A l \in 1 .. k : ~TouchedAt(p, l, pages[j])

(* No page more can be mapped.                                                  *)
NoGain(p, pages) ==
  \A k \in 1 .. Len(p) :
    Reached(p, ToSet(pages), k) /\ IsAccess(p[k]) /\ Page(p[k].addr) \notin ToSet(pages) =>
      Page(p[k].addr) \notin Mappable \/ Len(pages) >= MaxTries

MappingInv ==
  /\ at \in {"idle", "pack", "aborted"} => auto_mappings = <<>>
  /\ ~early => TouchedPages(instr, ToSet(auto_mappings)) /\ InOrder(instr, auto_mappings)
  /\ ~early /\ last /\ at \in Entered \cup {"run"} => NoGain(instr, auto_mappings)

(* A result is that of the program p: its signal, its registers, and the bytes
   that its stores changed in the pages it touched, in their order.             *)
ReportOf(p, before, r) ==
  /\ r.signum = SignalOf(p).signum /\ r.si_addr = SignalOf(p).si_addr
  /\ r.si_pc = SignalOf(p).si_pc /\ r.si_code = SignalOf(p).si_code
  /\ r.regs = RegsOf(p, before)
  /\ \E pages \in Seq(Mappable) :
       /\ InOrder(p, pages)
       /\ \A page \in ToSet(pages) : \E k \in 1 .. Len(p) : TouchedAt(p, k, page)
       /\ \A a \in Addrs : FinalByte(p, a) # Content[a] => Page(a) \in ToSet(pages)
       /\ r.mem = Changes(pages, [a \in Addrs |-> FinalByte(p, a)])

(* The results of an input are those of its prefixes in turn, or that of its
   sequence, whatever was run before: unless an alarm came before its time.     *)
PrefixOf(i, k) == IF i.full_seq THEN SubSeq(i.instr_seq, 1, k) ELSE i.instr_seq
OwnReports == ~early => \A k \in DOMAIN results : ReportOf(PrefixOf(inp, k), inp.regs, results[k])

(* As many results as prefixes were run.                                        *)
CountInv ==
  /\ \E S : results \in Seq(S)
  /\ at \in {"run"} \cup Entered =>
       /\ inp \in Inputs /\ n >= 1
       /\ IF inp.full_seq THEN Len(results) = n - 1 ELSE results = <<>> /\ n = Len(inp.instr_seq)

(* The set of a list of different entries has as many elements.                 *)
LEMMA SizeOfList ==
  ASSUME NEW S, NEW s \in Seq(S), IsInjective(s)
  PROVE  IsFiniteSet(ToSet(s)) /\ Cardinality(ToSet(s)) = Len(s)
<1>1. s \in [1 .. Len(s) -> ToSet(s)] /\ Len(s) \in Nat
  BY DEF ToSet
<1>2. \A e \in ToSet(s) : \E k \in 1 .. Len(s) : s[k] = e
  BY DEF ToSet
<1>3. s \in Bijection(1 .. Len(s), ToSet(s))
  BY <1>1, <1>2 DEF Bijection, Injection, Surjection, IsInjective
<1>4. IsFiniteSet(1 .. Len(s)) /\ Cardinality(1 .. Len(s)) = Len(s)
  <2>1. 1 \in Int /\ Len(s) \in Int /\ Len(s) >= 0
    BY <1>1
  <2>2. Cardinality(1 .. Len(s)) = IF 1 > Len(s) THEN 0 ELSE Len(s) - 1 + 1
    BY <2>1, FS_Interval
  <2>3. IsFiniteSet(1 .. Len(s))
    BY <2>1, FS_Interval
  <2> QED BY <2>1, <2>2, <2>3
<1> QED BY <1>3, <1>4, FS_Bijection DEF ExistsBijection

(* The last write after one instruction more.                                   *)
LEMMA LastOfNext ==
  ASSUME NEW p, NEW k \in Nat, NEW T \in SUBSET (1 .. k - 1), NEW default
  PROVE  LastOf(p, T \cup {k}, default) = p[k].val
<1>1. T \cup {k} \subseteq 0 .. k /\ T \cup {k} # {} /\ \A x \in T : x < k
  OBVIOUS
<1>2. Max(T \cup {k}) \in T \cup {k} /\ \A x \in T \cup {k} : x <= Max(T \cup {k})
  BY <1>1, MaxProperties
<1>3. Max(T \cup {k}) = k
  <2> DEFINE m == Max(T \cup {k})
  <2>1. m \in T \cup {k} /\ k <= m
    BY <1>2
  <2> HIDE DEF m
  <2>2. m = k
    BY <1>1, <2>1
  <2> QED BY <2>2 DEF m
<1> QED BY <1>1, <1>3 DEF LastOf

(* The registers and the bytes after one instruction more.                      *)
LEMMA AfterNext ==
  ASSUME NEW p, NEW k \in Nat \ {0}, NEW before
  PROVE  /\ \A r : RegAfter(p, before, k + 1, r) =
                     IF p[k].op = "set" /\ p[k].reg = r THEN p[k].val ELSE RegAfter(p, before, k, r)
         /\ \A a : ByteAfter(p, k + 1, a) =
                     IF p[k].op = "store" /\ p[k].addr = a THEN p[k].val ELSE ByteAfter(p, k, a)
<1>0. (k + 1) - 1 = k /\ 1 .. k = (1 .. k - 1) \cup {k}
  OBVIOUS
<1>1. ASSUME NEW r
      PROVE  RegAfter(p, before, k + 1, r) =
               IF p[k].op = "set" /\ p[k].reg = r THEN p[k].val ELSE RegAfter(p, before, k, r)
  <2> DEFINE T == {j \in 1 .. k - 1 : p[j].op = "set" /\ p[j].reg = r}
             U == {j \in 1 .. (k + 1) - 1 : p[j].op = "set" /\ p[j].reg = r}
  <2>1. CASE p[k].op = "set" /\ p[k].reg = r
    <3>1. U = T \cup {k} /\ T \in SUBSET (1 .. k - 1)
      BY <1>0, <2>1
    <3>2. RegAfter(p, before, k + 1, r) = LastOf(p, U, before[r])
      BY Zenon DEF RegAfter
    <3> HIDE DEF T, U
    <3>3. LastOf(p, T \cup {k}, before[r]) = p[k].val
      BY <3>1, LastOfNext
    <3> QED BY <3>1, <3>2, <3>3, <2>1
  <2>2. CASE ~(p[k].op = "set" /\ p[k].reg = r)
    <3>1. U = T
      BY <1>0, <2>2
    <3> QED BY <3>1, <2>2, Zenon DEF RegAfter
  <2> QED BY <2>1, <2>2
<1>2. ASSUME NEW a
      PROVE  ByteAfter(p, k + 1, a) =
               IF p[k].op = "store" /\ p[k].addr = a THEN p[k].val ELSE ByteAfter(p, k, a)
  <2> DEFINE T == {j \in 1 .. k - 1 : p[j].op = "store" /\ p[j].addr = a}
             U == {j \in 1 .. (k + 1) - 1 : p[j].op = "store" /\ p[j].addr = a}
  <2>1. CASE p[k].op = "store" /\ p[k].addr = a
    <3>1. U = T \cup {k} /\ T \in SUBSET (1 .. k - 1)
      BY <1>0, <2>1
    <3>2. ByteAfter(p, k + 1, a) = LastOf(p, U, Content[a])
      BY Zenon DEF ByteAfter
    <3> HIDE DEF T, U
    <3>3. LastOf(p, T \cup {k}, Content[a]) = p[k].val
      BY <3>1, LastOfNext
    <3> QED BY <3>1, <3>2, <3>3, <2>1
  <2>2. CASE ~(p[k].op = "store" /\ p[k].addr = a)
    <3>1. U = T
      BY <1>0, <2>2
    <3> QED BY <3>1, <2>2, Zenon DEF ByteAfter
  <2> QED BY <2>1, <2>2
<1> QED BY <1>1, <1>2

(* Before the first instruction they are those that were loaded.                *)
LEMMA AfterNone ==
  ASSUME NEW p, NEW before
  PROVE  /\ \A r : RegAfter(p, before, 1, r) = before[r]
         /\ \A a : ByteAfter(p, 1, a) = Content[a]
<1>1. 1 .. 1 - 1 = {}
  OBVIOUS
<1> QED BY <1>1 DEF RegAfter, ByteAfter, LastOf

(* A run passes the instructions up to one that stops it, and no other.         *)
LEMMA StopsOnce ==
  ASSUME NEW p, NEW M, NEW k \in Nat, NEW l \in Nat, k >= 1, l >= 1,
         Reached(p, M, k), StopsNow(p, M, k), Reached(p, M, l), StopsNow(p, M, l)
  PROVE  k = l
<1>1. k < l => k \in 1 .. l - 1
  OBVIOUS
<1>2. l < k => l \in 1 .. k - 1
  OBVIOUS
<1> QED BY <1>1, <1>2 DEF Reached

(* Where a run with these pages stops, when no page more can be mapped, is where
   the program ends, with the signal of the run.                                *)
LEMMA EndOfRun ==
  ASSUME NEW p \in Seq(Instruction), NEW pages \in Seq(Mappable), IsInjective(pages),
         Len(pages) <= MaxTries, NEW k \in 1 .. Len(p) + 1,
         Reached(p, ToSet(pages), k), k <= Len(p) => StopsNow(p, ToSet(pages), k),
         TouchedPages(p, ToSet(pages)), NoGain(p, pages)
  PROVE  /\ Passed(p) = 1 .. k - 1 /\ EndOf(p) = k
         /\ SignalOf(p) = IF k > Len(p) THEN NoSignal ELSE StopSignal(p, ToSet(pages), k)
<1> DEFINE M == ToSet(pages)
<1>0. Len(p) \in Nat /\ k \in Nat /\ k >= 1 /\ MaxTries \in Nat
  BY RunnerAssumption DEF RunnerAssumption
<1>1. M \subseteq Mappable /\ IsFiniteSet(M) /\ Cardinality(M) <= MaxTries /\ Cardinality(M) \in Nat
      /\ Cardinality(M) = Len(pages)
  <2>1. M \subseteq Mappable
    BY DEF ToSet
  <2>2. IsFiniteSet(M) /\ Cardinality(M) = Len(pages) /\ Len(pages) \in Nat
    BY SizeOfList
  <2> QED BY <2>1, <2>2
<1> HIDE DEF M
<1>2. \A j \in 1 .. k - 1 : ~StopsNow(p, M, j)
  BY DEF Reached, M
<1>3. ASSUME NEW j \in 1 .. k, \A i \in 1 .. j : IsAccess(p[i]) => Page(p[i].addr) \in M
      PROVE  Touched(p, j) \subseteq M /\ IsFiniteSet(Touched(p, j)) /\ Cardinality(Touched(p, j)) <= MaxTries
  <2>1. Touched(p, j) \subseteq M
    BY <1>3 DEF Touched, Accesses, IsAccess
  <2>2. IsFiniteSet(Touched(p, j)) /\ Cardinality(Touched(p, j)) <= Cardinality(M)
    BY <1>1, <2>1, FS_Subset
  <2>3. Cardinality(Touched(p, j)) \in Nat
    BY <2>2, FS_CardinalityType
  <2>4. Cardinality(Touched(p, j)) <= MaxTries
    BY <1>0, <1>1, <2>2, <2>3
  <2> QED BY <2>1, <2>2, <2>4
<1>4. ASSUME NEW j \in 1 .. k, \A i \in 1 .. j : IsAccess(p[i]) => Page(p[i].addr) \in M,
             IsAccess(p[j])
      PROVE  ~Hopeless(p, j)
  <2>1. Cardinality(Touched(p, j)) <= MaxTries /\ Cardinality(Touched(p, j)) \in Nat
    BY <1>3, <1>4, FS_CardinalityType
  <2>2. Page(p[j].addr) \in Mappable
    <3>1. j \in 1 .. j
      BY <1>0
    <3> QED BY <1>1, <1>4, <3>1
  <2> QED BY <1>0, <2>1, <2>2 DEF Hopeless
<1>5. \A j \in 1 .. k - 1 : IsAccess(p[j]) => Page(p[j].addr) \in M
  BY <1>2 DEF StopsNow
<1>6. ASSUME NEW j \in 1 .. k - 1 PROVE ~Stops(p, j)
  <2>1. j \in 1 .. k /\ \A i \in 1 .. j : i \in 1 .. k - 1
    BY <1>0
  <2>2. IsAccess(p[j]) => ~Hopeless(p, j)
    BY <1>4, <1>5, <2>1
  <2>3. ~StopsNow(p, M, j)
    BY <1>2
  <2> QED BY <2>2, <2>3 DEF Stops, StopsNow, IsAccess
<1>7. ASSUME k <= Len(p), IsAccess(p[k]) PROVE Hopeless(p, k) <=> Page(p[k].addr) \notin M
  <2>1. ASSUME Page(p[k].addr) \in M PROVE ~Hopeless(p, k)
    <3>1. k \in 1 .. k /\ \A i \in 1 .. k : i \in 1 .. k - 1 \/ i = k
      BY <1>0
    <3> QED BY <1>4, <1>5, <1>7, <2>1, <3>1
  <2>2. ASSUME Page(p[k].addr) \notin M, Page(p[k].addr) \in Mappable PROVE Hopeless(p, k)
    <3>1. Len(pages) >= MaxTries
      <4>1. k \in 1 .. Len(p)
        BY <1>0, <1>7
      <4> QED BY <4>1, <1>7, <2>2 DEF NoGain, M
    <3>2. \A page \in M : page \in Touched(p, k)
      <4> SUFFICES ASSUME NEW page \in M PROVE page \in Touched(p, k)
        OBVIOUS
      <4>1. PICK l \in 1 .. Len(p) : TouchedAt(p, l, page) /\ Reached(p, M, l)
        BY DEF TouchedPages, M
      <4>2. ~(k < l)
        <5>1. k < l => k \in 1 .. l - 1
          BY <1>0
        <5>2. StopsNow(p, M, k)
          BY <1>7 DEF M
        <5> QED BY <4>1, <5>1, <5>2 DEF Reached
      <4>3. l \in 1 .. k
        BY <1>0, <4>2
      <4>4. IsAccess(p[l]) /\ Page(p[l].addr) = page
        BY <4>1 DEF TouchedAt
      <4> QED BY <4>3, <4>4 DEF Touched, Accesses, IsAccess
    <3>3. Page(p[k].addr) \in Touched(p, k)
      <4>1. k \in 1 .. k
        BY <1>0
      <4> QED BY <4>1, <1>7 DEF Touched, Accesses, IsAccess
    <3>4. IsFiniteSet(M \cup {Page(p[k].addr)}) /\ Cardinality(M \cup {Page(p[k].addr)}) = Cardinality(M) + 1
      BY <1>1, <2>2, FS_AddElement
    <3>5. IsFiniteSet(Touched(p, k))
      <4>1. Touched(p, k) \subseteq M \cup {Page(p[k].addr)}
        <5>1. \A i \in 1 .. k : i \in 1 .. k - 1 \/ i = k
          BY <1>0
        <5> QED BY <1>5, <5>1 DEF Touched, Accesses, IsAccess
      <4> QED BY <3>4, <4>1, FS_Subset
    <3>6. Cardinality(M \cup {Page(p[k].addr)}) <= Cardinality(Touched(p, k))
      BY <3>2, <3>3, <3>5, FS_Subset
    <3>7. Cardinality(Touched(p, k)) \in Nat
      BY <3>5, FS_CardinalityType
    <3>8. Cardinality(Touched(p, k)) > MaxTries
      BY <1>0, <1>1, <3>1, <3>4, <3>6, <3>7
    <3> QED BY <3>8 DEF Hopeless
  <2>3. Page(p[k].addr) \notin Mappable => Hopeless(p, k)
    BY DEF Hopeless
  <2> QED BY <2>1, <2>2, <2>3
<1>8. k <= Len(p) => Stops(p, k)
  <2> SUFFICES ASSUME k <= Len(p) PROVE Stops(p, k)
    OBVIOUS
  <2>1. StopsNow(p, M, k)
    BY DEF M
  <2> QED BY <1>7, <2>1 DEF StopsNow, Stops, IsAccess
<1>9. Passed(p) = 1 .. k - 1
  <2>1. ASSUME NEW j \in 1 .. k - 1 PROVE j \in Passed(p)
    <3>1. j \in 1 .. Len(p) /\ \A i \in 1 .. j : i \in 1 .. k - 1
      BY <1>0
    <3> QED BY <1>6, <3>1 DEF Passed
  <2>2. ASSUME NEW j \in Passed(p) PROVE j \in 1 .. k - 1
    <3>1. j \in 1 .. Len(p) /\ \A i \in 1 .. j : ~Stops(p, i)
      BY DEF Passed
    <3>2. ~(k <= j)
      <4>1. k <= j => k \in 1 .. j /\ k <= Len(p)
        BY <1>0, <3>1
      <4> QED BY <1>8, <3>1, <4>1
    <3> QED BY <1>0, <3>1, <3>2
  <2> QED BY <2>1, <2>2
<1>10. EndOf(p) = k
  <2>1. 1 \in Int /\ k - 1 \in Int
    BY <1>0
  <2>2. Cardinality(1 .. k - 1) = IF 1 > k - 1 THEN 0 ELSE (k - 1) - 1 + 1
    BY <2>1, FS_Interval
  <2> QED BY <1>0, <1>9, <2>2 DEF EndOf
<1>11. SignalOf(p) = IF k > Len(p) THEN NoSignal ELSE StopSignal(p, M, k)
  <2>1. CASE k > Len(p)
    BY <1>10, <2>1 DEF SignalOf
  <2>2. CASE k <= Len(p)
    <3>1. StopsNow(p, M, k)
      BY <2>2 DEF M
    <3>2. ~(k > Len(p))
      BY <1>0, <2>2
    <3>3. CASE p[k].op = "ill"
      BY <1>10, <2>2, <3>2, <3>3 DEF SignalOf, StopSignal
    <3>4. CASE p[k].op = "loop"
      BY <1>10, <2>2, <3>2, <3>4 DEF SignalOf, StopSignal
    <3>5. CASE p[k].op # "ill" /\ p[k].op # "loop"
      <4>1. IsAccess(p[k])
        BY <3>1, <3>5 DEF StopsNow, IsAccess
      <4>2. Hopeless(p, k) <=> Page(p[k].addr) \notin M
        BY <1>7, <2>2, <4>1
      <4> QED BY <1>10, <2>2, <3>2, <3>5, <4>2 DEF SignalOf, StopSignal
    <3> QED BY <3>3, <3>4, <3>5
  <2> QED BY <1>0, <2>1, <2>2
<1> QED BY <1>9, <1>10, <1>11 DEF M

-----------------------------------------------------------------------------
(* The prefix that is run, and its input.                                       *)
LEMMA PrefixType ==
  ASSUME InputInv
  PROVE  instr \in Seq(Instruction) /\ Len(instr) = n /\ n \in Nat /\ inp.regs \in [Regs -> Nat]
<1>1. inp.instr_seq \in Seq(Instruction) /\ n \in Nat /\ n <= Len(inp.instr_seq) /\ Len(instr) = n
  BY Prefix
<1>2. \A k \in 1 .. n : inp.instr_seq[k] \in Instruction
  BY <1>1
<1>3. instr \in Seq(Instruction)
  BY <1>1, <1>2, SubSeqProperties DEF instr
<1>4. inp.regs \in [Regs -> Nat]
  <2>1. CASE inp \in Inputs
    BY <2>1, RunnerAssumption DEF RunnerAssumption, Input
  <2>2. CASE inp = NoInput
    BY <2>2 DEF NoInput
  <2> QED BY <2>1, <2>2 DEF InputInv
<1> QED BY <1>1, <1>3, <1>4

(* Inside a run every step but Execute leaves the processor alone; a run is
   entered by Arm.                                                              *)
LEMMA InsideRun ==
  ASSUME AlarmInv, [Next]_vars, at' \in Entered
  PROVE  \/ Arm
         \/ Execute
         \/ at \in Entered /\ UNCHANGED <<inp, n, ip, auto_mappings, memory, regs>>
<1>1. CASE Begin \/ MapPage \/ RunLast \/ Report \/ Pack
  BY <1>1 DEF Begin, MapPage, RunLast, Report, Pack, Entered, Handling
<1>2. CASE Fault \/ Return \/ TakeBackAlarm \/ ClearGlobals \/ Collect
  BY <1>2 DEF Fault, Return, TakeBackAlarm, ClearGlobals, Collect, Entered, input, processor
<1>3. CASE UnblockEarly \/ Disarm \/ Record \/ Discard \/ Unblock
  BY <1>3 DEF UnblockEarly, Disarm, Record, Discard, Unblock, Entered, Handling, input, processor
<1>4. CASE Alarm
  <2>1. at \in Entered
    BY <1>4 DEF Alarm, AlarmInv, AlarmType, TimerInv, Entered
  <2> QED BY <1>4, <2>1 DEF Alarm, input, processor
<1>5. CASE Expire \/ UNCHANGED vars
  BY <1>5 DEF Expire, vars, input, processor
<1> QED BY <1>1, <1>2, <1>3, <1>4, <1>5 DEF Next, Process

(* The processor executes the prefix from its registers and from the content of
   the pages.                                                                   *)
LEMMA ProcessorStep ==
  ASSUME AlarmInv, RunInv, ProcessorInv, [Next]_vars
  PROVE  ProcessorInv'
<1>0. /\ instr \in Seq(Instruction) /\ Len(instr) = n /\ n \in Nat
      /\ inp.regs \in [Regs -> Nat] /\ Content \in [Addrs -> 0 .. Byte - 1]
  BY PrefixType, RunnerAssumption DEF RunInv, RunnerAssumption
<1> SUFFICES ASSUME at' \in Entered PROVE ProcessorInv'
  BY DEF ProcessorInv
<1>1. CASE Arm
  <2>1. ip' = 1 /\ memory' = Content /\ regs' = inp.regs /\ UNCHANGED <<inp, n, auto_mappings>>
    BY <1>1 DEF Arm, input
  <2>2. instr' = instr
    BY <2>1 DEF instr
  <2>3. Reached(instr, ToSet(auto_mappings), 1)
    BY DEF Reached
  <2>4. inp.regs = [r \in Regs |-> RegAfter(instr, inp.regs, 1, r)]
    <3>1. \A r : RegAfter(instr, inp.regs, 1, r) = inp.regs[r]
      BY AfterNone, Zenon
    <3> QED BY <1>0, <3>1
  <2>5. Content = [a \in Addrs |-> ByteAfter(instr, 1, a)]
    <3>1. \A a : ByteAfter(instr, 1, a) = Content[a]
      BY AfterNone, Zenon
    <3> QED BY <1>0, <3>1
  <2> QED BY <2>1, <2>2, <2>3, <2>4, <2>5 DEF ProcessorInv
<1>2. CASE Execute
  <2>1. /\ at = "seq" /\ ip <= Len(instr) /\ ip' = ip + 1 /\ instr[ip].op # "loop" /\ ~Faults(instr[ip])
        /\ UNCHANGED <<inp, n, auto_mappings>>
    BY <1>2 DEF Execute, input
  <2>2. ip \in Nat \ {0} /\ ip \in 1 .. Len(instr)
    <3>1. ip \in 1 .. n + 1
      BY <2>1 DEF RunInv, InputInv
    <3> QED BY <1>0, <2>1, <3>1
  <2>3. instr' = instr
    BY <2>1 DEF instr
  <2>4. /\ Reached(instr, ToSet(auto_mappings), ip)
        /\ regs = [r \in Regs |-> RegAfter(instr, inp.regs, ip, r)]
        /\ memory = [a \in Addrs |-> ByteAfter(instr, ip, a)]
    BY <2>1 DEF ProcessorInv, Entered
  <2>5. ~StopsNow(instr, ToSet(auto_mappings), ip)
    BY <2>1 DEF StopsNow, Faults, Unmapped, IsAccess
  <2>6. Reached(instr, ToSet(auto_mappings), ip + 1)
    <3>1. \A j \in 1 .. (ip + 1) - 1 : j \in 1 .. ip - 1 \/ j = ip
      BY <2>2
    <3> QED BY <2>4, <2>5, <3>1 DEF Reached
  <2>7. regs' = [r \in Regs |-> RegAfter(instr, inp.regs, ip + 1, r)]
    <3>1. regs' = IF instr[ip].op = "set" THEN [regs EXCEPT ![instr[ip].reg] = instr[ip].val] ELSE regs
      BY <1>2 DEF Execute
    <3>2. \A r \in Regs : RegAfter(instr, inp.regs, ip + 1, r) =
            IF instr[ip].op = "set" /\ instr[ip].reg = r THEN instr[ip].val ELSE regs[r]
      <4>1. \A r : RegAfter(instr, inp.regs, ip + 1, r) =
              IF instr[ip].op = "set" /\ instr[ip].reg = r THEN instr[ip].val
              ELSE RegAfter(instr, inp.regs, ip, r)
        BY <2>2, AfterNext
      <4> QED BY <2>4, <4>1
    <3>3. \A r \in Regs : regs'[r] =
            IF instr[ip].op = "set" /\ instr[ip].reg = r THEN instr[ip].val ELSE regs[r]
      BY <2>4, <3>1
    <3>4. regs' = [r \in Regs |-> regs'[r]]
      BY <2>4, <3>1
    <3> QED BY <3>2, <3>3, <3>4
  <2>8. memory' = [a \in Addrs |-> ByteAfter(instr, ip + 1, a)]
    <3>1. memory' = IF instr[ip].op = "store" THEN [memory EXCEPT ![instr[ip].addr] = instr[ip].val]
                    ELSE memory
      BY <1>2 DEF Execute
    <3>2. \A a \in Addrs : ByteAfter(instr, ip + 1, a) =
            IF instr[ip].op = "store" /\ instr[ip].addr = a THEN instr[ip].val ELSE memory[a]
      <4>1. \A a : ByteAfter(instr, ip + 1, a) =
              IF instr[ip].op = "store" /\ instr[ip].addr = a THEN instr[ip].val
              ELSE ByteAfter(instr, ip, a)
        BY <2>2, AfterNext
      <4> QED BY <2>4, <4>1
    <3>3. \A a \in Addrs : memory'[a] =
            IF instr[ip].op = "store" /\ instr[ip].addr = a THEN instr[ip].val ELSE memory[a]
      BY <2>4, <3>1
    <3>4. memory' = [a \in Addrs |-> memory'[a]]
      BY <2>4, <3>1
    <3> QED BY <3>2, <3>3, <3>4
  <2> QED BY <2>1, <2>3, <2>6, <2>7, <2>8 DEF ProcessorInv
<1>3. ASSUME at \in Entered, UNCHANGED <<inp, n, ip, auto_mappings, memory, regs>>
      PROVE  ProcessorInv'
  BY <1>3 DEF ProcessorInv, instr
<1> QED BY <1>1, <1>2, <1>3, InsideRun

(* A step in which no alarm is left out of account.                             *)
LEMMA EarlyStep ==
  ASSUME [Next]_vars, ~early'
  PROVE  ~early \/ Begin
BY Zenon DEF Next, vars, Process, Arm, Execute, Fault, Return, TakeBackAlarm, ClearGlobals, Collect,
       UnblockEarly, Disarm, Record, Discard, Unblock, MapPage, RunLast, Report, Pack, Expire, Alarm

(* What stops the run, and what is in the globals, stays while nothing it
   depends on changes.                                                          *)
LEMMA StoppedSame ==
  ASSUME UNCHANGED <<inp, n, ip, auto_mappings>>
  PROVE  /\ instr' = instr
         /\ \A s : StoppedBy(s)' <=> StoppedBy(s)
         /\ UNCHANGED <<global_sig, regs_result, regs>> =>
              (Signalled' <=> Signalled) /\ (Through' <=> Through) /\ (Ended' <=> Ended)
<1>1. instr' = instr
  BY DEF instr
<1>2. \A s : StoppedBy(s)' <=> StoppedBy(s)
  BY <1>1 DEF StoppedBy
<1>3. UNCHANGED <<global_sig, regs_result, regs>> => (Signalled' <=> Signalled) /\ (Through' <=> Through)
  BY <1>1 DEF Signalled, Through, StoppedBy
<1> QED BY <1>1, <1>2, <1>3 DEF Ended

(* The signal that is handled is the one that stopped the run, and the globals
   are those of this run when it ends.                                          *)
LEMMA SignalStep ==
  ASSUME AlarmInv, RunInv, ProcessorInv, SignalInv, [Next]_vars
  PROVE  SignalInv'
<1> SUFFICES ASSUME ~early' PROVE SignalInv'
  BY DEF SignalInv
<1>0. /\ Len(instr) = n /\ n \in Nat /\ FlagType
      /\ (at \notin {"idle", "run"} => ip \in 1 .. n + 1)
  BY PrefixType DEF RunInv, InputInv, AlarmInv
<1>1. CASE Begin
  <2>1. at = "idle" /\ at' = "run" /\ UNCHANGED kernel
    BY <1>1 DEF Begin
  <2>2. ~pending
    BY <2>1 DEF AlarmInv, TimerInv
  <2> QED BY <2>1, <2>2 DEF SignalInv, kernel
<1> SUFFICES ASSUME ~Begin PROVE SignalInv'
  BY <1>1
<1>2. ~early
  BY EarlyStep
<1>3. /\ pending => Looping
      /\ at \in {"caught", "disarm", "record"} => StoppedBy(caught)
      /\ at \in {"discard", "unblock"} \/ (at \in {"returned", "collect"} /\ handled) => Signalled
      /\ at = "finished" \/ (at = "returned" /\ ~handled) =>
           /\ ip > Len(instr)
           /\ \E x : regs_result = [r \in Regs |-> IF r = Scrap THEN x ELSE regs[r]]
      /\ at = "collect" /\ ~handled => Through
      /\ at = "next" => Ended
  BY <1>2 DEF SignalInv
<1>4. Undisturbed /\ at \in {"seq", "returned", "finished", "collect", "next", "run", "pack"} => ~pending
  BY DEF AlarmInv, MaskInv, Undisturbed
<1>5. at # "seq" => ~pending
  BY <1>3 DEF Looping
<1>6. CASE Arm
  BY <1>5, <1>6 DEF Arm, SignalInv
<1>7. CASE Execute
  BY <1>4, <1>7 DEF Execute, SignalInv, kernel
<1>8. CASE Fault
  <2>1. /\ at = "seq" /\ Undisturbed /\ ip <= Len(instr) /\ Faults(instr[ip]) /\ caught' = FaultOf(instr[ip])
        /\ UNCHANGED <<inp, n, ip, auto_mappings, pending>> /\ at' \in {"caught", "exited"}
    BY <1>8 DEF Fault, Catch, input, processor
  <2>2. StopsNow(instr, ToSet(auto_mappings), ip)
    BY <2>1 DEF StopsNow, Faults, Unmapped, IsAccess
  <2>3. FaultOf(instr[ip]) = StopSignal(instr, ToSet(auto_mappings), ip)
    <3>1. CASE instr[ip].op = "ill"
      BY <3>1 DEF FaultOf, StopSignal
    <3>2. CASE instr[ip].op # "ill"
      <4>1. instr[ip].op \in {"load", "store"}
        BY <2>1, <3>2 DEF Faults, Unmapped
      <4> QED BY <3>2, <4>1 DEF FaultOf, StopSignal, Unmapped
    <3> QED BY <3>1, <3>2
  <2>4. StoppedBy(FaultOf(instr[ip]))
    BY <2>1, <2>2, <2>3 DEF StoppedBy
  <2>5. StoppedBy(FaultOf(instr[ip]))'
    <3>1. instr' = instr
      BY <2>1 DEF instr
    <3>2. FaultOf(instr[ip])' = FaultOf(instr[ip])
      BY <2>1, <3>1 DEF FaultOf, Unmapped
    <3> QED BY <2>1, <2>4, <3>1, <3>2 DEF StoppedBy
  <2>6. StoppedBy(caught)'
    <3>1. FaultOf(instr[ip])' = FaultOf(instr[ip]) /\ instr' = instr
      BY <2>1 DEF FaultOf, Unmapped, instr
    <3> QED BY <2>1, <2>5, <3>1 DEF StoppedBy
  <2>7. ~pending'
    BY <1>4, <2>1
  <2> QED BY <2>1, <2>6, <2>7 DEF SignalInv
<1>9. CASE Alarm
  <2>1. /\ pending /\ at' \in {"caught", "exited"} /\ ~pending'
        /\ caught' = [signum |-> SIGALRM, si_addr |-> 0, si_pc |-> ip, si_code |-> SI_TIMER]
        /\ UNCHANGED <<inp, n, ip, auto_mappings>>
    BY <1>9 DEF Alarm, Catch, input, processor
  <2>2. ip <= Len(instr) /\ instr[ip].op = "loop"
    BY <1>3, <2>1 DEF Looping
  <2>3. StopsNow(instr, ToSet(auto_mappings), ip)
        /\ StopSignal(instr, ToSet(auto_mappings), ip) = caught'
    BY <2>1, <2>2 DEF StopsNow, StopSignal
  <2>4. StoppedBy(caught)'
    <3>1. instr' = instr
      BY <2>1 DEF instr
    <3> QED BY <2>1, <2>2, <2>3, <3>1 DEF StoppedBy
  <2> QED BY <2>1, <2>4 DEF SignalInv
<1>10. CASE Expire
  <2>1. Looping /\ UNCHANGED <<at, inp, n, ip>>
    BY <1>10, Zenon DEF Expire, input, processor
  <2>2. Looping' /\ at' = "seq"
    BY <2>1 DEF Looping, instr
  <2> QED BY <2>2 DEF SignalInv
<1>11. CASE Return
  <2>1. /\ at = "seq" /\ Undisturbed /\ ip > Len(instr) /\ at' = "returned"
        /\ regs_result' = [regs EXCEPT ![Scrap] = regs_result[Scrap]]
        /\ UNCHANGED <<inp, n, ip, auto_mappings, regs, pending, handled>>
    BY <1>11 DEF Return, input, processor, kernel
  <2>2. ~handled
    BY <2>1 DEF AlarmInv, NestingInv
  <2>3. regs = [r \in Regs |-> RegAfter(instr, inp.regs, ip, r)]
    BY <2>1 DEF ProcessorInv, Entered
  <2>4. regs_result' = [r \in Regs |-> IF r = Scrap THEN regs_result[Scrap] ELSE regs[r]]
    BY <2>1, <2>3
  <2>5. ip' > Len(instr')
    BY <2>1 DEF instr
  <2>6. ~pending'
    BY <1>4, <2>1
  <2>7. \E x : regs_result' = [r \in Regs |-> IF r = Scrap THEN x ELSE regs'[r]]
    BY <2>1, <2>4
  <2> QED BY <2>1, <2>2, <2>5, <2>6, <2>7 DEF SignalInv
<1>12. CASE TakeBackAlarm
  <2>1. /\ at = "returned" /\ Undisturbed /\ at' = IF handled THEN "collect" ELSE "finished"
        /\ UNCHANGED <<inp, n, ip, auto_mappings, regs, pending, handled, global_sig, regs_result>>
    BY <1>12 DEF TakeBackAlarm, input, processor, globals
  <2>2. ~pending' /\ instr' = instr
    BY <1>4, <2>1 DEF instr
  <2>3. Signalled' <=> Signalled
    BY <2>1, StoppedSame
  <2>4. CASE handled
    <3>1. at' = "collect" /\ handled' /\ Signalled'
      BY <1>3, <2>1, <2>3, <2>4
    <3> QED BY <2>2, <3>1 DEF SignalInv
  <2>5. CASE ~handled
    <3>1. at' = "finished" /\ ip' > Len(instr')
      BY <1>3, <2>1, <2>2, <2>5
    <3>2. \E x : regs_result' = [r \in Regs |-> IF r = Scrap THEN x ELSE regs'[r]]
      BY <1>3, <2>1, <2>5
    <3> QED BY <2>2, <3>1, <3>2 DEF SignalInv
  <2> QED BY <2>4, <2>5
<1>13. CASE ClearGlobals
  <2>1. /\ at = "finished" /\ Undisturbed /\ at' = "collect" /\ global_sig' = NoSignal
        /\ regs_result' = [regs_result EXCEPT ![Scrap] = inp.regs[Scrap]]
        /\ UNCHANGED <<inp, n, ip, auto_mappings, regs, pending, handled>>
    BY <1>13 DEF ClearGlobals, input, processor, kernel
  <2>2. ~pending' /\ instr' = instr /\ ~handled
    BY <1>4, <2>1 DEF instr, AlarmInv, NestingInv
  <2>3. ip > Len(instr)
    BY <1>3, <2>1
  <2>4. PICK x : regs_result = [r \in Regs |-> IF r = Scrap THEN x ELSE regs[r]]
    BY <1>3, <2>1
  <2>5. regs_result' = [r \in Regs |-> IF r = Scrap THEN inp.regs[r] ELSE regs[r]]
    BY <2>1, <2>4
  <2>6. Through'
    BY <2>1, <2>2, <2>3, <2>5 DEF Through
  <2> QED BY <2>1, <2>2, <2>6 DEF SignalInv
<1>14. CASE Collect
  <2>1. /\ at = "collect" /\ Undisturbed /\ at' = "next"
        /\ UNCHANGED <<inp, n, ip, auto_mappings, regs, pending, global_sig, regs_result>>
    BY <1>14 DEF Collect, input, processor, kernel
  <2>2. Ended
    BY <1>0, <1>3, <2>1, Zenon DEF Ended, FlagType
  <2>3. Ended' /\ ~pending'
    BY <1>4, <2>1, <2>2, StoppedSame
  <2> QED BY <2>1, <2>3 DEF SignalInv
<1>15. CASE UnblockEarly \/ Disarm
  <2>1. /\ at \in {"caught", "disarm"} /\ at' \in {"disarm", "record"}
        /\ UNCHANGED <<inp, n, ip, auto_mappings, pending, caught>>
    BY <1>15 DEF UnblockEarly, Disarm, input, processor, globals
  <2>2. StoppedBy(caught) /\ ~pending'
    BY <1>3, <1>5, <2>1
  <2>3. StoppedBy(caught)'
    BY <2>1, <2>2 DEF StoppedBy, instr
  <2> QED BY <2>1, <2>2, <2>3 DEF SignalInv
<1>16. CASE Record
  <2>1. /\ at = "record" /\ at' = "discard" /\ global_sig' = caught /\ regs_result' = regs
        /\ UNCHANGED <<inp, n, ip, auto_mappings, pending, regs>>
    BY <1>16 DEF Record, input, processor, kernel
  <2>2. StoppedBy(caught) /\ ~pending'
    BY <1>3, <1>5, <2>1
  <2>3. Signalled'
    BY <2>1, <2>2 DEF Signalled, StoppedBy, instr
  <2> QED BY <2>1, <2>2, <2>3 DEF SignalInv
<1>17. CASE Discard
  <2>1. /\ at = "discard" /\ at' = "unblock" /\ ~pending'
        /\ UNCHANGED <<inp, n, ip, auto_mappings, regs, global_sig, regs_result>>
    BY <1>17 DEF Discard, input, processor, globals
  <2>2. Signalled'
    BY <1>3, <2>1, StoppedSame
  <2> QED BY <2>1, <2>2 DEF SignalInv
<1>18. CASE Unblock
  <2>1. /\ at = "unblock" /\ at' = "returned" /\ handled'
        /\ UNCHANGED <<inp, n, ip, auto_mappings, regs, global_sig, regs_result, pending>>
    BY <1>18 DEF Unblock, input, processor, globals
  <2>2. Signalled' /\ ~pending'
    BY <1>3, <1>5, <2>1, StoppedSame
  <2> QED BY <2>1, <2>2 DEF SignalInv
<1>19. CASE MapPage \/ RunLast \/ Report \/ Pack
  <2>1. at \in {"next", "pack"} /\ at' \in {"run", "pack", "idle", "aborted"} /\ UNCHANGED pending
    BY <1>19 DEF MapPage, RunLast, Report, Pack, kernel
  <2> QED BY <1>5, <2>1 DEF SignalInv
<1>20. CASE UNCHANGED vars
  <2>1. UNCHANGED <<at, inp, n, ip, auto_mappings, regs, global_sig, regs_result, pending, handled, caught>>
    BY <1>20 DEF vars
  <2>2. (Looping' <=> Looping) /\ instr' = instr
    BY <2>1 DEF Looping, instr
  <2>3. (Signalled' <=> Signalled) /\ (Through' <=> Through) /\ (Ended' <=> Ended)
        /\ (StoppedBy(caught)' <=> StoppedBy(caught))
    BY <2>1, StoppedSame DEF StoppedBy, instr
  <2> QED BY <1>3, <2>1, <2>2, <2>3, Zenon DEF SignalInv
<1> QED BY <1>6, <1>7, <1>8, <1>9, <1>10, <1>11, <1>12, <1>13, <1>14, <1>15, <1>16, <1>17, <1>18,
           <1>19, <1>20 DEF Next, Process

-----------------------------------------------------------------------------
(* A run that passes with the pages it has passes with more.                    *)
LEMMA ReachedGrows ==
  ASSUME NEW p, NEW M, NEW N, M \subseteq N, NEW k, Reached(p, M, k)
  PROVE  Reached(p, N, k)
BY DEF Reached, StopsNow

(* The page that stopped the run is touched after those mapped before.          *)
LEMMA OnePageMore ==
  ASSUME NEW p \in Seq(Instruction), NEW pages \in Seq(Mappable), NEW page,
         NEW k \in 1 .. Len(p), TouchedAt(p, k, page), Reached(p, ToSet(pages), k),
         page \notin ToSet(pages), TouchedPages(p, ToSet(pages)), InOrder(p, pages)
  PROVE  TouchedPages(p, ToSet(Append(pages, page))) /\ InOrder(p, Append(pages, page))
<1> DEFINE M == ToSet(pages)
           more == Append(pages, page)
           N == ToSet(more)
<1>1. /\ Len(pages) \in Nat /\ DOMAIN pages = 1 .. Len(pages) /\ DOMAIN more = 1 .. Len(pages) + 1
      /\ more[Len(pages) + 1] = page /\ \A i \in 1 .. Len(pages) : more[i] = pages[i]
  OBVIOUS
<1>2. N = M \cup {page}
  BY <1>1 DEF ToSet
<1> HIDE DEF M, N, more
<1>3. TouchedPages(p, N)
  <2> SUFFICES ASSUME NEW q \in N
               PROVE  \E l \in 1 .. Len(p) : TouchedAt(p, l, q) /\ Reached(p, N, l)
    BY DEF TouchedPages
  <2>1. CASE q \in M
    <3>1. PICK l \in 1 .. Len(p) : TouchedAt(p, l, q) /\ Reached(p, M, l)
      BY <2>1 DEF TouchedPages, M
    <3>2. Reached(p, N, l)
      BY <1>2, <3>1, ReachedGrows
    <3> QED BY <3>1, <3>2
  <2>2. CASE q = page
    <3>1. Reached(p, N, k)
      BY <1>2, ReachedGrows DEF M
    <3> QED BY <2>2, <3>1
  <2> QED BY <1>2, <2>1, <2>2
<1>4. InOrder(p, more)
  <2> SUFFICES ASSUME NEW i \in DOMAIN more, NEW j \in DOMAIN more, i < j
               PROVE  \E l \in 1 .. Len(p) : TouchedAt(p, l, more[i])
                        /\ \A h \in 1 .. l : ~TouchedAt(p, h, more[j])
    BY DEF InOrder
  <2>1. i \in 1 .. Len(pages) /\ (j \in 1 .. Len(pages) \/ j = Len(pages) + 1)
    BY <1>1
  <2>2. CASE j \in 1 .. Len(pages)
    BY <1>1, <2>1, <2>2 DEF InOrder
  <2>3. CASE j = Len(pages) + 1
    <3>1. pages[i] \in M
      BY <2>1, <1>1 DEF M, ToSet
    <3>2. PICK l \in 1 .. Len(p) : TouchedAt(p, l, pages[i]) /\ Reached(p, M, l)
      BY <3>1 DEF TouchedPages, M
    <3>3. ASSUME NEW h \in 1 .. l, TouchedAt(p, h, page) PROVE FALSE
      <4>1. h = l \/ h \in 1 .. l - 1
        BY <3>2
      <4>2. CASE h = l
        BY <3>1, <3>2, <3>3, <4>2 DEF TouchedAt, M
      <4>3. CASE h \in 1 .. l - 1
        <5>1. ~StopsNow(p, M, h)
          BY <3>2, <4>3 DEF Reached
        <5> QED BY <3>3, <5>1 DEF StopsNow, TouchedAt, M
      <4> QED BY <4>1, <4>2, <4>3
    <3>4. more[i] = pages[i] /\ more[j] = page
      BY <1>1, <2>1, <2>3
    <3> QED BY <3>2, <3>3, <3>4
  <2> QED BY <2>1, <2>2, <2>3
<1> QED BY <1>3, <1>4 DEF N, more

(* A run that stopped at a page which is not mapped reports that page.          *)
LEMMA StoppedAtPage ==
  ASSUME Signalled, IsAccess(instr[ip]) \/ global_sig.signum = SIGSEGV
  PROVE  /\ IsAccess(instr[ip]) /\ global_sig.signum = SIGSEGV
         /\ Target = Page(instr[ip].addr)
<1>1. /\ StopsNow(instr, ToSet(auto_mappings), ip)
      /\ global_sig = StopSignal(instr, ToSet(auto_mappings), ip)
  BY DEF Signalled, StoppedBy
<1>2. instr[ip].op # "ill" /\ instr[ip].op # "loop"
  BY <1>1 DEF StopSignal, IsAccess, SIGILL, SIGALRM, SIGSEGV
<1> QED BY <1>1, <1>2 DEF StopsNow, StopSignal, IsAccess, Target

(* What a change of the client's place leaves of the mappings.                  *)
LEMMA MappingSame ==
  ASSUME MappingInv, UNCHANGED <<inp, n, auto_mappings, last>>, early' \/ ~early,
         at' \in {"idle", "pack", "aborted"} => at \in {"idle", "pack", "aborted"},
         at' \in Entered \cup {"run"} => at \in Entered \cup {"run"} \/ ~last
  PROVE  MappingInv'
<1>1. instr' = instr
  BY DEF instr
<1> QED BY <1>1 DEF MappingInv

(* The pages are mapped in the order of their accesses, until none is gained.   *)
LEMMA MappingStep ==
  ASSUME AlarmInv, RunInv, ProcessorInv, SignalInv, MappingInv, [Next]_vars
  PROVE  MappingInv'
<1>0. instr \in Seq(Instruction) /\ Len(instr) = n /\ n \in Nat /\ auto_mappings \in Seq(Mappable)
  BY PrefixType DEF RunInv, PagesInv
<1>1. ASSUME NEW p PROVE TouchedPages(p, ToSet(<<>>)) /\ InOrder(p, <<>>)
  BY DEF TouchedPages, InOrder, ToSet
<1>2. CASE Begin
  <2>1. at = "idle" /\ at' = "run" /\ ~last' /\ auto_mappings' = auto_mappings
    BY <1>2 DEF Begin
  <2>2. auto_mappings' = <<>>
    BY <2>1 DEF MappingInv
  <2> QED BY <1>1, <2>1, <2>2 DEF MappingInv
<1>3. CASE Report
  <2>1. /\ at = "next" /\ auto_mappings' = <<>>
        /\ (at' = "run" /\ ~last') \/ at' = "pack"
    BY <1>3 DEF Report
  <2> QED BY <1>1, <2>1 DEF MappingInv, Entered, Handling
<1>4. CASE MapPage
  <2>1. /\ at = "next" /\ at' = "run" /\ MayMap /\ auto_mappings' = Append(auto_mappings, Target)
        /\ UNCHANGED <<inp, n, last, early>>
    BY <1>4 DEF MapPage
  <2>2. instr' = instr
    BY <2>1 DEF instr
  <2>3. ASSUME ~early
        PROVE  TouchedPages(instr, ToSet(auto_mappings')) /\ InOrder(instr, auto_mappings')
    <3>1. global_sig.signum = SIGSEGV /\ Target \notin ToSet(auto_mappings)
      BY <2>1 DEF MayMap
    <3>2. Signalled
      <4>1. Ended
        BY <2>1, <2>3 DEF SignalInv
      <4> QED BY <3>1, <4>1 DEF Ended, Through, NoSignal, SIGSEGV
    <3>3. IsAccess(instr[ip]) /\ Target = Page(instr[ip].addr)
      BY <3>1, <3>2, StoppedAtPage
    <3>4. ip \in 1 .. Len(instr)
      <4>1. ip <= Len(instr)
        BY <3>2 DEF Signalled, StoppedBy
      <4>2. ip \in 1 .. n + 1
        BY <2>1 DEF RunInv, InputInv
      <4> QED BY <1>0, <4>1, <4>2
    <3>5. TouchedAt(instr, ip, Target)
      BY <3>3, <3>4 DEF TouchedAt
    <3>6. Reached(instr, ToSet(auto_mappings), ip)
      BY <2>1 DEF ProcessorInv, Entered
    <3>7. TouchedPages(instr, ToSet(auto_mappings)) /\ InOrder(instr, auto_mappings)
      BY <2>3 DEF MappingInv
    <3>8. TouchedPages(instr, ToSet(Append(auto_mappings, Target)))
          /\ InOrder(instr, Append(auto_mappings, Target))
      BY <1>0, <3>1, <3>4, <3>5, <3>6, <3>7, OnePageMore
    <3> QED BY <2>1, <3>8
  <2>4. ~last
    BY <2>1 DEF MayMap
  <2> QED BY <2>1, <2>2, <2>3, <2>4 DEF MappingInv
<1>5. CASE RunLast
  <2>1. /\ at = "next" /\ at' = "run" /\ ~last /\ ~MayMap
        /\ UNCHANGED <<inp, n, auto_mappings, early>>
    BY <1>5 DEF RunLast
  <2>2. instr' = instr
    BY <2>1 DEF instr
  <2>3. ASSUME ~early PROVE NoGain(instr, auto_mappings)
    <3> SUFFICES ASSUME NEW k \in 1 .. Len(instr), Reached(instr, ToSet(auto_mappings), k),
                        IsAccess(instr[k]), Page(instr[k].addr) \notin ToSet(auto_mappings)
                 PROVE  Page(instr[k].addr) \notin Mappable \/ Len(auto_mappings) >= MaxTries
      BY DEF NoGain
    <3>1. StopsNow(instr, ToSet(auto_mappings), k)
      BY DEF StopsNow
    <3>2. Reached(instr, ToSet(auto_mappings), ip) /\ ip \in 1 .. n + 1
      BY <2>1 DEF ProcessorInv, Entered, RunInv, InputInv
    <3>3. Signalled
      <4>1. Ended
        BY <2>1, <2>3 DEF SignalInv
      <4>2. ~Through
        <5> SUFFICES ASSUME Through PROVE FALSE
          OBVIOUS
        <5>1. k \in 1 .. ip - 1
          BY <1>0, <3>2 DEF Through
        <5> QED BY <3>1, <3>2, <5>1 DEF Reached
      <4> QED BY <4>1, <4>2 DEF Ended
    <3>4. StopsNow(instr, ToSet(auto_mappings), ip)
      BY <3>3 DEF Signalled, StoppedBy
    <3>5. k = ip
      <4>1. k \in Nat /\ ip \in Nat /\ k >= 1 /\ ip >= 1
        BY <1>0, <3>2
      <4> QED BY <3>1, <3>2, <3>4, <4>1, StopsOnce
    <3>6. global_sig.signum = SIGSEGV /\ Target = Page(instr[ip].addr)
      BY <3>3, <3>5, StoppedAtPage
    <3>7. Len(auto_mappings) \in Nat /\ MaxTries \in Nat
      BY <1>0, RunnerAssumption DEF RunnerAssumption
    <3> QED BY <2>1, <3>5, <3>6, <3>7 DEF MayMap
  <2> QED BY <2>1, <2>2, <2>3 DEF MappingInv
<1>6. CASE Pack
  BY <1>6, MappingSame DEF Pack, input, Entered, Handling
<1>7. CASE Arm \/ Execute \/ Fault \/ Return \/ TakeBackAlarm \/ ClearGlobals \/ Collect
  <2>1. /\ at \in Entered \cup {"run"} /\ at' \notin {"idle", "pack", "aborted"}
        /\ UNCHANGED <<inp, n, auto_mappings, last, early>>
    BY <1>7 DEF Arm, Execute, Fault, Catch, Return, TakeBackAlarm, ClearGlobals, Collect, input, Entered
  <2> QED BY <2>1, MappingSame
<1>8. CASE UnblockEarly \/ Disarm \/ Record \/ Discard \/ Unblock
  <2>1. /\ at \in Entered \cup {"run"} /\ at' \notin {"idle", "pack", "aborted"}
        /\ UNCHANGED <<inp, n, auto_mappings, last, early>>
    BY <1>8 DEF UnblockEarly, Disarm, Record, Discard, Unblock, input, Entered, Handling
  <2> QED BY <2>1, MappingSame
<1>9. CASE Expire
  <2>1. UNCHANGED <<at, inp, n, auto_mappings, last>> /\ (early' \/ ~early)
    BY <1>9, Zenon DEF Expire, input
  <2> QED BY <2>1, MappingSame
<1>10. CASE Alarm
  <2>1. at \in Entered
    BY <1>10 DEF Alarm, AlarmInv, AlarmType, TimerInv, Entered
  <2>2. at' \in {"caught", "exited"} /\ UNCHANGED <<inp, n, auto_mappings, last, early>>
    BY <1>10 DEF Alarm, Catch, input
  <2> QED BY <2>1, <2>2, MappingSame
<1>11. CASE UNCHANGED vars
  <2>1. UNCHANGED <<at, inp, n, auto_mappings, last, early>>
    BY <1>11 DEF vars
  <2> QED BY <2>1, MappingSame
<1> QED BY <1>2, <1>3, <1>4, <1>5, <1>6, <1>7, <1>8, <1>9, <1>10, <1>11 DEF Next, Process

(* Apart from a new input and a report, the results stay.                       *)
LEMMA ResultsStay ==
  ASSUME AlarmInv, [Next]_vars, ~Begin, ~Report
  PROVE  /\ UNCHANGED <<inp, n, results>>
         /\ at' \in {"run"} \cup Entered => at \in {"run"} \cup Entered
<1>1. CASE Arm \/ Execute \/ Fault \/ Return \/ TakeBackAlarm \/ ClearGlobals \/ Collect
  BY <1>1 DEF Arm, Execute, Fault, Return, TakeBackAlarm, ClearGlobals, Collect, input, outputs, Entered
<1>2. CASE UnblockEarly \/ Disarm \/ Record \/ Discard \/ Unblock
  BY <1>2 DEF UnblockEarly, Disarm, Record, Discard, Unblock, input, outputs, Entered, Handling
<1>3. CASE MapPage \/ RunLast
  BY <1>3 DEF MapPage, RunLast, outputs, Entered
<1>4. CASE Pack
  <2>1. UNCHANGED <<inp, n, results>> /\ at' \in {"idle", "aborted"}
    BY <1>4, Zenon DEF Pack, input
  <2> QED BY <2>1 DEF Entered, Handling
<1>5. CASE Alarm
  <2>1. at \in Entered
    BY <1>5 DEF Alarm, AlarmInv, AlarmType, TimerInv, Entered
  <2> QED BY <1>5, <2>1 DEF Alarm, input, outputs
<1>6. CASE Expire \/ UNCHANGED vars
  BY <1>6 DEF Expire, vars, input, outputs
<1> QED BY <1>1, <1>2, <1>3, <1>4, <1>5, <1>6 DEF Next, Process

(* What Report appends.                                                         *)
Reported ==
  [signum |-> global_sig.signum, si_addr |-> global_sig.si_addr, si_pc |-> global_sig.si_pc,
   si_code |-> global_sig.si_code, regs |-> regs_result, mem |-> Changes(auto_mappings, memory)]

(* One result more makes a list of results.                                     *)
LEMMA OneResultMore ==
  ASSUME NEW S, NEW s \in Seq(S), NEW e
  PROVE  /\ \E T : Append(s, e) \in Seq(T)
         /\ Len(s) \in Nat /\ Len(Append(s, e)) = Len(s) + 1
         /\ DOMAIN Append(s, e) = 1 .. Len(s) + 1 /\ DOMAIN s = 1 .. Len(s)
         /\ \A k \in 1 .. Len(s) : Append(s, e)[k] = s[k]
         /\ Append(s, e)[Len(s) + 1] = e
<1>1. s \in Seq(S \cup {e}) /\ e \in S \cup {e}
  OBVIOUS
<1>2. Append(s, e) \in Seq(S \cup {e})
  BY <1>1, AppendProperties
<1> QED BY <1>2

(* There is one result per prefix that was run.                                 *)
LEMMA CountStep ==
  ASSUME AlarmInv, RunInv, CountInv, [Next]_vars
  PROVE  CountInv'
<1>0. n \in Nat
  BY PrefixType DEF RunInv
<1>1. CASE Begin
  <2>1. /\ at' = "run" /\ inp' \in Inputs /\ results' = <<>>
        /\ n' = IF inp'.full_seq THEN 1 ELSE Len(inp'.instr_seq)
    BY <1>1 DEF Begin
  <2>2. inp'.instr_seq \in Seq(Instruction) /\ inp'.instr_seq # <<>>
    BY <2>1, RunnerAssumption DEF RunnerAssumption, Input
  <2>3. Len(inp'.instr_seq) \in Nat /\ Len(inp'.instr_seq) >= 1
    BY <2>2
  <2>4. results' \in Seq({})
    BY <2>1
  <2>5. Len(results') = 1 - 1
    BY <2>1
  <2> QED BY <2>1, <2>3, <2>4, <2>5 DEF CountInv
<1>2. CASE Report
  <2>1. /\ at = "next" /\ inp' = inp /\ results' = Append(results, Reported)
        /\ \/ at' = "run" /\ n' = n + 1 /\ inp.full_seq
           \/ at' = "pack"
    BY <1>2 DEF Report, Reported
  <2>2. /\ inp \in Inputs /\ n >= 1
        /\ IF inp.full_seq THEN Len(results) = n - 1 ELSE results = <<>> /\ n = Len(inp.instr_seq)
    BY <2>1 DEF CountInv, Entered
  <2>3. (\E T : results' \in Seq(T)) /\ Len(results') = Len(results) + 1
    BY <2>1, OneResultMore DEF CountInv
  <2>4. CASE at' = "pack"
    BY <2>3, <2>4 DEF CountInv, Entered, Handling
  <2>5. CASE at' = "run"
    <3>1. n' = n + 1 /\ inp'.full_seq /\ inp' \in Inputs
      BY <2>1, <2>2, <2>5
    <3>2. Len(results') = n' - 1 /\ n' >= 1
      BY <1>0, <2>1, <2>2, <2>3, <3>1
    <3> QED BY <2>3, <3>1, <3>2 DEF CountInv
  <2> QED BY <2>1, <2>4, <2>5
<1>3. CASE ~Begin /\ ~Report
  <2>1. UNCHANGED <<inp, n, results>>
        /\ (at' \in {"run"} \cup Entered => at \in {"run"} \cup Entered)
    BY <1>3, ResultsStay
  <2> QED BY <2>1 DEF CountInv
<1> QED BY <1>1, <1>2, <1>3

(* What is reported after the last run is what the prefix does.                 *)
LEMMA ReportedOwn ==
  ASSUME AlarmInv, RunInv, ProcessorInv, SignalInv, MappingInv, at = "next", last, ~early
  PROVE  ReportOf(instr, inp.regs, Reported)
<1> DEFINE M == ToSet(auto_mappings)
<1>0. /\ instr \in Seq(Instruction) /\ Len(instr) = n /\ n \in Nat /\ ip \in 1 .. n + 1
      /\ inp.regs \in [Regs -> Nat]
      /\ auto_mappings \in Seq(Mappable) /\ IsInjective(auto_mappings) /\ Len(auto_mappings) <= MaxTries
  BY PrefixType DEF RunInv, InputInv, PagesInv
<1>1. /\ Reached(instr, M, ip)
      /\ regs = [r \in Regs |-> RegAfter(instr, inp.regs, ip, r)]
      /\ memory = [a \in Addrs |-> ByteAfter(instr, ip, a)]
  BY DEF ProcessorInv, Entered
<1>2. Ended
  BY DEF SignalInv
<1>3. TouchedPages(instr, M) /\ InOrder(instr, auto_mappings) /\ NoGain(instr, auto_mappings)
  BY DEF MappingInv, Entered
<1>4. ip <= Len(instr) => Signalled
  BY <1>0, <1>2 DEF Ended, Through
<1>5. ip <= Len(instr) => StopsNow(instr, M, ip)
  BY <1>4 DEF Signalled, StoppedBy
<1>6. /\ Passed(instr) = 1 .. ip - 1 /\ EndOf(instr) = ip
      /\ SignalOf(instr) = IF ip > Len(instr) THEN NoSignal ELSE StopSignal(instr, M, ip)
  BY <1>0, <1>1, <1>3, <1>5, EndOfRun
<1>7. global_sig = SignalOf(instr)
  BY <1>0, <1>2, <1>6 DEF Ended, Signalled, StoppedBy, Through
<1>8. \A r : FinalReg(instr, inp.regs, r) = RegAfter(instr, inp.regs, ip, r)
  BY <1>6, Zenon DEF FinalReg, RegAfter
<1>9. \A a : FinalByte(instr, a) = ByteAfter(instr, ip, a)
  BY <1>6, Zenon DEF FinalByte, ByteAfter
<1>10. regs_result = RegsOf(instr, inp.regs)
  <2>1. CASE ip <= Len(instr)
    <3>1. regs_result = regs /\ ~(EndOf(instr) > Len(instr))
      BY <1>0, <1>4, <1>6, <2>1 DEF Signalled
    <3> QED BY <1>1, <1>8, <3>1 DEF RegsOf
  <2>2. CASE ip > Len(instr)
    <3>1. regs_result = [r \in Regs |-> IF r = Scrap THEN inp.regs[r] ELSE regs[r]]
      BY <1>0, <1>2, <2>2 DEF Ended, Signalled, StoppedBy, Through
    <3> QED BY <1>1, <1>6, <1>8, <2>2, <3>1 DEF RegsOf
  <2> QED BY <1>0, <2>1, <2>2
<1>11. memory = [a \in Addrs |-> FinalByte(instr, a)]
  BY <1>1, <1>9
<1>12. ASSUME NEW a \in Addrs, FinalByte(instr, a) # Content[a] PROVE Page(a) \in M
  <2>1. PICK j \in 1 .. ip - 1 : instr[j].op = "store" /\ instr[j].addr = a
    BY <1>9, <1>12 DEF ByteAfter, LastOf
  <2>2. ~StopsNow(instr, M, j)
    BY <1>1, <2>1 DEF Reached
  <2> QED BY <2>1, <2>2 DEF StopsNow, IsAccess
<1>13. \A page \in M : \E k \in 1 .. Len(instr) : TouchedAt(instr, k, page)
  BY <1>3 DEF TouchedPages
<1>14. \E pages \in Seq(Mappable) :
         /\ InOrder(instr, pages)
         /\ \A page \in ToSet(pages) : \E k \in 1 .. Len(instr) : TouchedAt(instr, k, page)
         /\ \A a \in Addrs : FinalByte(instr, a) # Content[a] => Page(a) \in ToSet(pages)
         /\ Reported.mem = Changes(pages, [a \in Addrs |-> FinalByte(instr, a)])
  <2>1. Reported.mem = Changes(auto_mappings, [a \in Addrs |-> FinalByte(instr, a)])
    BY <1>11 DEF Reported
  <2> QED BY <1>0, <1>3, <1>12, <1>13, <2>1, Zenon
<1>15. /\ Reported.signum = global_sig.signum /\ Reported.si_addr = global_sig.si_addr
       /\ Reported.si_pc = global_sig.si_pc /\ Reported.si_code = global_sig.si_code
       /\ Reported.regs = regs_result
  BY DEF Reported
<1> QED BY <1>7, <1>10, <1>14, <1>15, Zenon DEF ReportOf

(* Each result that is added is that of its prefix.                             *)
LEMMA ReportStep ==
  ASSUME AlarmInv, RunInv, ProcessorInv, SignalInv, MappingInv, CountInv, OwnReports, [Next]_vars
  PROVE  OwnReports'
<1> SUFFICES ASSUME ~early' PROVE OwnReports'
  BY DEF OwnReports
<1>1. CASE Begin
  BY <1>1 DEF Begin, OwnReports
<1>2. CASE Report
  <2>1. at = "next" /\ last /\ UNCHANGED <<inp, early>> /\ results' = Append(results, Reported)
    BY <1>2 DEF Report, Reported
  <2>2. ReportOf(instr, inp.regs, Reported)
    BY <2>1, ReportedOwn
  <2>3. \A k \in DOMAIN results : ReportOf(PrefixOf(inp, k), inp.regs, results[k])
    BY <2>1 DEF OwnReports
  <2>4. /\ Len(results) \in Nat /\ DOMAIN results' = 1 .. Len(results) + 1
        /\ DOMAIN results = 1 .. Len(results)
        /\ \A k \in 1 .. Len(results) : results'[k] = results[k]
        /\ results'[Len(results) + 1] = Reported
    BY <2>1, OneResultMore DEF CountInv
  <2>5. PrefixOf(inp, Len(results) + 1) = instr
    <3>1. inp.instr_seq \in Seq(Instruction) /\ n \in Nat
      BY Prefix DEF RunInv
    <3>2. IF inp.full_seq THEN Len(results) = n - 1 ELSE n = Len(inp.instr_seq)
      BY <2>1 DEF CountInv, Entered
    <3>3. CASE inp.full_seq
      <4>1. Len(results) + 1 = n
        BY <2>4, <3>1, <3>2, <3>3
      <4> QED BY <3>3, <4>1 DEF PrefixOf, instr
    <3>4. CASE ~inp.full_seq
      <4>1. instr = inp.instr_seq
        BY <3>1, <3>2, <3>4 DEF instr
      <4> QED BY <3>4, <4>1 DEF PrefixOf
    <3> QED BY <3>3, <3>4
  <2>6. ASSUME NEW k \in DOMAIN results' PROVE ReportOf(PrefixOf(inp, k), inp.regs, results'[k])
    <3>1. k \in 1 .. Len(results) \/ k = Len(results) + 1
      BY <2>4
    <3> QED BY <2>2, <2>3, <2>4, <2>5, <3>1
  <2>7. inp' = inp
    BY <2>1
  <2> QED BY <2>6, <2>7 DEF OwnReports
<1>3. CASE ~Begin /\ ~Report
  <2>1. UNCHANGED <<inp, results>> /\ ~early
    BY <1>3, ResultsStay, EarlyStep
  <2> QED BY <2>1 DEF OwnReports
<1> QED BY <1>1, <1>2, <1>3

(* The inductive invariant of the results, on top of AlarmInv and RunInv.       *)
ResultInv == ProcessorInv /\ SignalInv /\ MappingInv /\ CountInv /\ OwnReports

(* Nothing has been run at the start.                                           *)
LEMMA InitResultInv == ASSUME Init PROVE ResultInv
<1>1. at = "idle" /\ ~early /\ ~pending /\ ~last /\ auto_mappings = <<>> /\ results = <<>>
  BY DEF Init
<1>2. ProcessorInv
  BY <1>1 DEF ProcessorInv, Entered, Handling
<1>3. SignalInv
  BY <1>1 DEF SignalInv
<1>4. MappingInv
  BY <1>1 DEF MappingInv, TouchedPages, InOrder, ToSet
<1>5. CountInv
  <2>1. results \in Seq({})
    BY <1>1
  <2> QED BY <1>1, <2>1 DEF CountInv, Entered, Handling
<1>6. OwnReports
  BY <1>1 DEF OwnReports
<1> QED BY <1>2, <1>3, <1>4, <1>5, <1>6 DEF ResultInv

(* Whatever ran before it, faults, endless loops and earlier prefixes included,
   every result run_with_instr_seq returns is that of its own prefix of the
   input: the signal at the first instruction that cannot be helped, the
   registers there, and the changes of the memory in the pages it touches,
   compared in the order in which they are touched.  Excepted are the inputs
   whose alarm came while the sequence was not looping.                         *)
THEOREM ReportsAreOwn == Spec => []OwnReports
<1>1. AlarmInv /\ RunInv /\ ResultInv /\ [Next]_vars => ResultInv'
  BY ProcessorStep, SignalStep, MappingStep, CountStep, ReportStep, Zenon DEF ResultInv
<1>2. Init => ResultInv
  BY InitResultInv
<1>3. Spec => []ResultInv
  BY <1>1, <1>2, AlarmInvariant, RunInvariant, PTL DEF Spec
<1>4. ResultInv => OwnReports
  BY DEF ResultInv
<1> QED BY <1>3, <1>4, PTL
=============================================================================
