----------------------------- MODULE UndocEnum ------------------------------
(***************************************************************************)
(* The enumeration of the instruction space on one machine                 *)
(* (client/src/undoc-enum.c).  The parent forks one worker per core; the   *)
(* cores of a type share the space, each executes the undefined            *)
(* instructions of its span and puts what does not raise SIGILL into an    *)
(* archive.  The workers report their progress in shared memory, which the *)
(* parent polls until every core type has covered the whole space.         *)
(*                                                                         *)
(* ranges alternates lengths of undefined and defined ranges, the first    *)
(* one undefined; a range may be empty (on RISC-V a length has 8 bits, and *)
(* empty ranges join the parts of a longer one).  The status file and the  *)
(* counters that are only printed are left out.                            *)
(***************************************************************************)
EXTENDS CpuInfo

CONSTANTS
  Machines,    (* the machines the program may run on                        *)
  Bits,        (* width of an instruction and of stats.progress (32)          *)
  RangeLists,  (* possible contents of the compressed ranges                  *)
  Valid,       (* undefined instructions that do not raise SIGILL             *)
  Slow,        (* instructions during which the alarm may go off              *)
  MaxRuns,     (* executions of an instruction that alarms (10)               *)
  Tick,        (* progress is reported once per so many instructions (2^18)   *)
  Text,        (* length of a reproducer ...                                  *)
  Buffer,      (* ... and of the buffer of the FILE it is written to          *)
  MaxFaults    (* bound of the model: times a system call fails               *)

Space == 2 ^ Bits

(* Where range k begins.                                                     *)
Before(ranges, k) == FoldLeft(LAMBDA a, b : a + b, 0, SubSeq(ranges, 1, k - 1))

(* The core types of a machine.                                              *)
CoreTypes(m) == group_core_types(parse_cpuinfo(m))

(* The ranges make up the space, as those that are compiled in do.           *)
ASSUME UndocEnumAssumption ==
  /\ Bits \in Nat /\ Space \in Nat \ {0}
  /\ MaxRuns \in Nat \ {0} /\ Tick \in Nat \ {0} /\ MaxFaults \in Nat
  /\ Buffer \in Nat \ {0} /\ Text \in Nat \ {0}
  /\ RangeLists \subseteq Seq(Nat)
  /\ \A r \in RangeLists : Before(r, Len(r) + 1) = Space

(* Each processor is listed once: what CpuInfo makes of the text of a machine. *)
ASSUME MachinesAssumption ==
  \A m \in Machines :
    /\ Len(CoreTypes(m)) \in Nat /\ DOMAIN CoreTypes(m) = 1 .. Len(CoreTypes(m))
    /\ DOMAIN parse_cpuinfo(m) # {} => Len(CoreTypes(m)) > 0
    /\ \A t \in DOMAIN CoreTypes(m) : CoreTypes(m)[t].cpus \in Seq(Processors(m)) \ {<<>>}
    /\ \A t, u \in DOMAIN CoreTypes(m) :
         \A j \in DOMAIN CoreTypes(m)[t].cpus, l \in DOMAIN CoreTypes(m)[u].cpus :
           CoreTypes(m)[t].cpus[j] = CoreTypes(m)[u].cpus[l] => t = u /\ j = l

VARIABLES
  machine,
  ranges,    (* the decompressed ranges                                       *)
  cpus,      (* what parse_cpuinfo makes of the machine ...                   *)
  types,     (* ... and its core types                                        *)
  parent,    (* where the parent is                                           *)
  todo,      (* the worker to fork next: its type, and its core among those   *)
  poll,      (* the parent's loop over stats: type, core, sum, finished types *)
  at,        (* per processor: where its worker is                            *)
  span,      (* per processor: start and end of what the worker enumerates    *)
  i,         (* per processor: the instruction the worker has reached         *)
  index,     (* per processor: the range it is in                             *)
  tries,     (* per processor: attempts to pin, or to execute an instruction  *)
  progress,  (* per processor: stats.progress                                 *)
  executed,  (* per processor: instructions executed, in order                *)
  archive,   (* per processor: what is stored, as pairs of an instruction and a length *)
  faults

setup == <<machine, ranges, cpus, types>>
loop == <<parent, todo, poll>>
worker == <<at, span, i, index, tries, progress, executed, archive>>
vars == <<machine, ranges, cpus, types, parent, todo, poll, at, span, i, index, tries, progress, executed,
          archive, faults>>

Cpus == UNION {ToSet(types[t].cpus) : t \in DOMAIN types}
Each(v) == [p \in Processors(machine) |-> v]

ForkStart == [type |-> 1, core |-> 1]
PollStart == [type |-> 1, core |-> 1, sum |-> 0, finished |-> 0]

Init ==
  /\ machine \in Machines
  /\ ranges = <<>>
  /\ cpus = parse_cpuinfo(machine)
  /\ types = group_core_types(cpus)
  /\ parent = "start"
  /\ todo = ForkStart
  /\ poll = PollStart
  /\ at = Each("none")
  /\ span = Each([start |-> 0, end |-> 0])
  /\ i = Each(0)
  /\ index = Each(0)
  /\ tries = Each(0)
  /\ progress = Each(0)
  /\ executed = Each(<<>>)
  /\ archive = Each({})
  /\ faults = 0

-----------------------------------------------------------------------------
(* Whether a system call succeeds.                                           *)
Outcomes == IF faults < MaxFaults THEN BOOLEAN ELSE {TRUE}
Count(ok) == faults' = IF ok THEN faults ELSE faults + 1

(* The ranges, unless they cannot be read.                                   *)
decompress_ranges_or_die(ok) == IF ok THEN RangeLists ELSE {<<>>}

(* main and start_client up to the fork: early_init must find the processor
   the program happens to be on, the directory of the results is made, two
   files are copied into it, and the ranges are decompressed.                *)
Start ==
  /\ parent = "start"
  /\ \E cur \in machine.online, ok \in Outcomes : \E r \in decompress_ranges_or_die(ok) :
       /\ IF early_init(cpus, cur) /\ ok
          THEN ranges' = r /\ parent' = "fork"
          ELSE parent' = "exit" /\ UNCHANGED ranges
       /\ Count(ok)
  /\ UNCHANGED <<machine, cpus, types, todo, poll, worker>>

(* Mutant of Span: the last core gets no more than the others.               *)
SpanEven(count, j) ==
  LET share == Space \div count IN [start |-> share * (j - 1), end |-> share * j]

(* The part of the space of the j-th of count cores: the last one goes to the
   end.                                                                      *)
Span(count, j) ==
  LET share == (Space + 1) \div count
  IN  [start |-> share * (j - 1), end |-> IF j = count THEN Space ELSE share * j]

(* One worker per core, type by type; one that cannot be forked is missing.  *)
Fork ==
  /\ parent = "fork"
  /\ LET t == types[todo.type]
         j == todo.core
     IN  /\ \E ok \in Outcomes :
              /\ at' = [at EXCEPT ![t.cpus[j]] = IF ok THEN "pin" ELSE "dead"]
              /\ span' = [span EXCEPT ![t.cpus[j]] = Span(Len(t.cpus), j)]
              /\ Count(ok)
         /\ todo' = IF j < Len(t.cpus) THEN [todo EXCEPT !.core = @ + 1]
                    ELSE [type |-> todo.type + 1, core |-> 1]
  /\ parent' = IF todo'.type > Len(types) THEN "status" ELSE "fork"
  /\ UNCHANGED <<setup, poll, i, index, tries, progress, executed, archive>>

(* The status file; without it the parent exits, and the workers go on.      *)
OpenStatus ==
  /\ parent = "status"
  /\ \E ok \in Outcomes : parent' = (IF ok THEN "poll" ELSE "exit") /\ Count(ok)
  /\ UNCHANGED <<setup, todo, poll, worker>>

(* The parent adds up the progress of one core after the other, while they
   run; a type that covered the space is finished.  When all are, it says so
   and exits, otherwise it sleeps and begins again.                          *)
Poll ==
  /\ parent = "poll"
  /\ LET t == types[poll.type]
         sum == poll.sum + progress[t.cpus[poll.core]]
         finished == poll.finished + (IF sum >= Space THEN 1 ELSE 0)
     IN  IF poll.core < Len(t.cpus)
         THEN /\ poll' = [poll EXCEPT !.core = @ + 1, !.sum = sum]
              /\ UNCHANGED parent
         ELSE IF poll.type < Len(types)
         THEN /\ poll' = [type |-> poll.type + 1, core |-> 1, sum |-> 0, finished |-> finished]
              /\ UNCHANGED parent
         ELSE /\ poll' = PollStart
              /\ parent' = IF finished = Len(types) THEN "announced" ELSE parent
  /\ UNCHANGED <<setup, todo, worker, faults>>

-----------------------------------------------------------------------------
(* The ranges that end before the span are skipped.                          *)
Skip(start) == Min({k \in DOMAIN ranges : Before(ranges, k + 1) >= start})

(* A worker is pinned, skips to its span and opens its archive; a core that
   went offline makes it try again, and exit in the end.                     *)
Pin(p) ==
  /\ at[p] = "pin"
  /\ \E ok \in BOOLEAN :
       CASE pin_to_cpu(tries[p], ok) = "pinned" ->
              /\ at' = [at EXCEPT ![p] = "range"]
              /\ index' = [index EXCEPT ![p] = Skip(span[p].start)]
              /\ i' = [i EXCEPT ![p] = Before(ranges, index'[p])]
              /\ tries' = [tries EXCEPT ![p] = 0]
         [] pin_to_cpu(tries[p], ok) = "again" ->
              tries' = [tries EXCEPT ![p] = @ + 1] /\ UNCHANGED <<at, index, i>>
         [] pin_to_cpu(tries[p], ok) = "exit" ->
              at' = [at EXCEPT ![p] = "dead"] /\ UNCHANGED <<index, i, tries>>
  /\ UNCHANGED <<setup, loop, span, progress, executed, archive, faults>>

Undefined(k) == k % 2 = 1

(* progress has as many bits as an instruction.                              *)
Report(p, reached) == [progress EXCEPT ![p] = (Min({reached, span[p].end}) - span[p].start) % Space]

(* An undefined range: the worker goes to its first instruction of the span. *)
EnterRange(p) ==
  /\ at[p] = "range"
  /\ i[p] < span[p].end
  /\ Undefined(index[p])
  /\ i' = [i EXCEPT ![p] = Max({@, span[p].start})]
  /\ at' = [at EXCEPT ![p] = "instr"]
  /\ UNCHANGED <<setup, loop, span, index, tries, progress, executed, archive, faults>>

(* A defined range is stepped over as a whole.                               *)
StepOver(p) ==
  /\ at[p] = "range"
  /\ i[p] < span[p].end
  /\ ~Undefined(index[p])
  /\ i' = [i EXCEPT ![p] = @ + ranges[index[p]]]
  /\ index' = [index EXCEPT ![p] = @ + 1]
  /\ progress' = Report(p, i'[p])
  /\ UNCHANGED <<setup, loop, at, span, tries, executed, archive, faults>>

InRange(p) == i[p] < Before(ranges, index[p] + 1) /\ i[p] < span[p].end

(* Mutant of LeaveRange: the end of a range is not reported.                 *)
LeaveRangeSilently(p) ==
  /\ at[p] = "instr"
  /\ ~InRange(p)
  /\ index' = [index EXCEPT ![p] = @ + 1]
  /\ at' = [at EXCEPT ![p] = "range"]
  /\ UNCHANGED <<setup, loop, span, i, tries, progress, executed, archive, faults>>

(* The end of the range, or of the span.                                     *)
LeaveRange(p) ==
  /\ at[p] = "instr"
  /\ ~InRange(p)
  /\ index' = [index EXCEPT ![p] = @ + 1]
  /\ progress' = Report(p, i[p])
  /\ at' = [at EXCEPT ![p] = "range"]
  /\ UNCHANGED <<setup, loop, span, i, tries, executed, archive, faults>>

NextInstr(p) == i' = [i EXCEPT ![p] = @ + 1] /\ at' = [at EXCEPT ![p] = "instr"]

(* The next instruction; progress is reported once in a while.               *)
NextRun(p) ==
  /\ at[p] = "instr"
  /\ InRange(p)
  /\ progress' = IF i[p] % Tick = 0 THEN Report(p, i[p]) ELSE progress
  /\ at' = [at EXCEPT ![p] = "run"]
  /\ UNCHANGED <<setup, loop, span, i, index, tries, executed, archive, faults>>

(* Mutant of RunInstr: an alarm is tried again for ever.                     *)
RunInstrAgain(p) ==
  /\ at[p] = "run"
  /\ \E alarm \in IF i[p] \in Slow THEN BOOLEAN ELSE {FALSE} :
       IF alarm
       THEN tries' = [tries EXCEPT ![p] = @ + 1] /\ UNCHANGED <<at, i, executed>>
       ELSE /\ tries' = [tries EXCEPT ![p] = 0]
            /\ executed' = [executed EXCEPT ![p] = Append(@, i[p])]
            /\ IF i[p] \in Valid THEN at' = [at EXCEPT ![p] = "log"] /\ UNCHANGED i ELSE NextInstr(p)
  /\ UNCHANGED <<setup, loop, span, index, progress, archive, faults>>

(* run_with_instr: again after an alarm, but not for ever; everything but
   SIGILL is a discovery, an alarm too.                                      *)
RunInstr(p) ==
  /\ at[p] = "run"
  /\ \E alarm \in IF i[p] \in Slow THEN BOOLEAN ELSE {FALSE} :
       IF alarm /\ tries[p] + 1 < MaxRuns
       THEN tries' = [tries EXCEPT ![p] = @ + 1] /\ UNCHANGED <<at, i, executed>>
       ELSE /\ tries' = [tries EXCEPT ![p] = 0]
            /\ executed' = [executed EXCEPT ![p] = Append(@, i[p])]
            /\ IF alarm \/ i[p] \in Valid
               THEN at' = [at EXCEPT ![p] = "log"] /\ UNCHANGED i
               ELSE NextInstr(p)
  /\ UNCHANGED <<setup, loop, span, index, progress, archive, faults>>

(* What reaches the pipe: whole buffers, for the descriptor is closed below the
   FILE and what is left in its buffer stays there.                          *)
Written == Text - (Text % Buffer)

(* A discovery goes through a pipe into the archive.                         *)
Discover(p) ==
  /\ at[p] = "log"
  /\ archive' = [archive EXCEPT ![p] = @ \cup {<<i[p], Written>>}]
  /\ NextInstr(p)
  /\ UNCHANGED <<setup, loop, span, index, tries, progress, executed, faults>>

(* pipe fails and the worker returns: its archive is not closed.             *)
PipeFails(p) ==
  /\ at[p] = "log"
  /\ faults < MaxFaults
  /\ at' = [at EXCEPT ![p] = "dead"]
  /\ faults' = faults + 1
  /\ UNCHANGED <<setup, loop, span, i, index, tries, progress, executed, archive>>

(* The span is enumerated: the archive is closed and the worker exits.       *)
Close(p) ==
  /\ at[p] = "range"
  /\ i[p] >= span[p].end
  /\ at' = [at EXCEPT ![p] = "closed"]
  /\ UNCHANGED <<setup, loop, span, i, index, tries, progress, executed, archive, faults>>

-----------------------------------------------------------------------------
Worker(p) ==
  \/ Pin(p)
  \/ EnterRange(p) \/ StepOver(p) \/ LeaveRange(p)
  \/ NextRun(p) \/ RunInstr(p) \/ Discover(p)
  \/ Close(p)

Parent == Start \/ Fork \/ OpenStatus \/ Poll

Next ==
  \/ Parent
  \/ \E p \in Processors(machine) : Worker(p) \/ PipeFails(p)

Spec == Init /\ [][Next]_vars

(* All processes are scheduled; the parent sleeps for a bounded time.        *)
FairSpec ==
  Spec /\ WF_vars(Parent) /\ \A p \in 0 .. MAX_CPUS - 1 : WF_vars(p \in Processors(machine) /\ Worker(p))

-----------------------------------------------------------------------------
(* What must hold.                                                           *)

(* Types; an instruction is executed at most MaxRuns times, and only an
   undefined one is executed at all.                                         *)
TypeOK ==
  /\ parent \in {"start", "fork", "status", "poll", "announced", "exit"}
  /\ at \in [Processors(machine) ->
              {"none", "pin", "range", "instr", "run", "log", "closed", "dead"}]
  /\ \A p \in Processors(machine) :
       /\ progress[p] \in 0 .. Space - 1
       /\ tries[p] \in 0 .. Max({PinTries, MaxRuns}) - 1
       /\ archive[p] \subseteq ToSet(executed[p]) \X (0 .. Text)
       /\ at[p] \in {"instr", "run", "log"} => Undefined(index[p])

UndefinedInstrs ==
  {n \in 0 .. Space - 1 :
     \E k \in DOMAIN ranges : Undefined(k) /\ Before(ranges, k) <= n /\ n < Before(ranges, k + 1)}

(* The spans of the cores of a type fit together, whatever the number of cores
   and wherever a range is cut: no instruction is executed twice on a type, a
   worker that closes its archive has executed every undefined instruction of
   its span and has an entry for each one that it found, and when the workers
   of a type have closed theirs, or the end is announced, the type has executed
   all of them.                                                              *)
ExecutedOn(t) == UNION {ToSet(executed[types[t].cpus[j]]) : j \in DOMAIN types[t].cpus}
ExactCoverage ==
  /\ \A t \in DOMAIN types :
       LET by(j) == executed[types[t].cpus[j]]
       IN  /\ \A j, l \in DOMAIN types[t].cpus : \A a \in DOMAIN by(j), b \in DOMAIN by(l) :
                by(j)[a] = by(l)[b] => j = l /\ a = b
           /\ ExecutedOn(t) \subseteq UndefinedInstrs
           /\ parent = "announced" \/ (\A p \in ToSet(types[t].cpus) : at[p] = "closed") =>
                ExecutedOn(t) = UndefinedInstrs
  /\ \A p \in Cpus : at[p] = "closed" =>
       /\ ToSet(executed[p]) = UndefinedInstrs \cap (span[p].start .. span[p].end - 1)
       /\ \A n \in Valid \cap ToSet(executed[p]) : \E e \in archive[p] : e[1] = n

(* Every worker comes to the end of its span, with or without the parent, and
   then the parent announces it.  Three things keep the parent waiting for
   ever: a worker that could not be forked, one that died, and a type with a
   single core, whose progress wraps to 0 when it has covered the space.     *)
EnumerationEnds ==
  <>( \/ parent = "exit" /\ \A p \in Cpus : at[p] = "none"
      \/ /\ \A p \in Cpus : at[p] \in {"closed", "dead"}
         /\ \/ parent \in {"announced", "exit"}
            \/ \E p \in Cpus : at[p] = "dead"
            \/ \E t \in DOMAIN types : Len(types[t].cpus) = 1 )

(* A worker that has finished has stored its discoveries: the whole text of
   each is in the archive.                                                   *)
DiscoveryStored ==
  \A p \in Cpus : at[p] = "closed" => \A e \in archive[p] : e[2] = Text

-----------------------------------------------------------------------------
(* The inductive invariant behind ExactCoverage, proved in UndocEnumProofs.  *)

Procs == Processors(machine)
Cores(t) == DOMAIN types[t].cpus

(* What is set up stays as it is; the ranges are read before the first fork. *)
SetupInv ==
  /\ machine \in Machines
  /\ cpus = parse_cpuinfo(machine)
  /\ types = group_core_types(cpus)
  /\ ranges \in RangeLists \/ parent \in {"start", "exit"}
  /\ ranges \notin RangeLists \/ parent = "start" => \A p \in Procs : at[p] = "none"

Places == {"none", "pin", "range", "instr", "run", "log", "closed", "dead"}
Shape ==
  /\ parent \in {"start", "fork", "status", "poll", "announced", "exit"}
  /\ at \in [Procs -> Places]
  /\ DOMAIN span = Procs /\ DOMAIN i = Procs /\ DOMAIN index = Procs /\ DOMAIN tries = Procs
  /\ DOMAIN progress = Procs /\ DOMAIN executed = Procs /\ DOMAIN archive = Procs

(* The worker of core j of type t is forked already.                         *)
Forked(t, j) ==
  \/ parent \in {"status", "poll", "announced"}
  \/ parent = "exit" /\ todo # ForkStart
  \/ parent = "fork" /\ (t < todo.type \/ (t = todo.type /\ j < todo.core))

(* Each worker is forked once and has the span of its core.                  *)
ForkInv ==
  /\ parent \in {"fork", "status", "poll"} => 1 \in DOMAIN types
  /\ parent = "fork" =>
       /\ todo = [type |-> todo.type, core |-> todo.core]
       /\ todo.type \in DOMAIN types /\ todo.core \in Cores(todo.type)
  /\ parent = "start" => todo = ForkStart
  /\ parent = "status" => todo # ForkStart
  /\ \A t \in DOMAIN types : \A j \in Cores(t) :
       LET p == types[t].cpus[j]
       IN  IF Forked(t, j) THEN at[p] # "none" /\ span[p] = Span(Len(types[t].cpus), j)
           ELSE at[p] = "none"

TypesAt(p) ==
  /\ span[p] \in [start : Nat, end : Nat]
  /\ i[p] \in Nat /\ index[p] \in Nat
  /\ tries[p] \in 0 .. Max({PinTries, MaxRuns}) - 1
  /\ progress[p] \in 0 .. Space - 1
  /\ executed[p] \in Seq(Nat)
  /\ archive[p] \subseteq ToSet(executed[p]) \X (0 .. Text)
  /\ at[p] \in {"none", "pin"} => executed[p] = <<>> /\ progress[p] = 0

(* Where a worker is: at the beginning of a range, in one, or at its end.    *)
PlaceAt(p) ==
  /\ at[p] = "range" =>
       /\ index[p] \in 1 .. Len(ranges) + 1
       /\ \/ i[p] >= span[p].end /\ i[p] >= span[p].start
          \/ /\ i[p] = Before(ranges, index[p])
             /\ i[p] >= span[p].start \/ Before(ranges, index[p] + 1) >= span[p].start
  /\ at[p] \in {"instr", "run", "log"} =>
       /\ index[p] \in DOMAIN ranges /\ Undefined(index[p])
       /\ Before(ranges, index[p]) <= i[p] /\ span[p].start <= i[p]
       /\ i[p] <= Before(ranges, index[p] + 1)
  /\ at[p] \in {"run", "log"} => InRange(p)

(* The first instruction of its span that a worker has not executed.         *)
Frontier(p) == IF at[p] = "log" THEN i[p] + 1 ELSE i[p]
SpanOf(p) == span[p].start .. span[p].end - 1
Covered(p) == UndefinedInstrs \cap SpanOf(p) \subseteq ToSet(executed[p])

(* A worker has executed what is undefined in its span, each once, up to where
   it is.                                                                    *)
ExecutedBy(p) ==
  /\ \A a, b \in DOMAIN executed[p] : executed[p][a] = executed[p][b] => a = b
  /\ ToSet(executed[p]) \subseteq UndefinedInstrs \cap SpanOf(p)
  /\ at[p] \in {"range", "instr", "run", "log"} =>
       /\ \A n \in ToSet(executed[p]) : n < Frontier(p)
       /\ \A n \in UndefinedInstrs \cap SpanOf(p) : n < Frontier(p) => n \in ToSet(executed[p])
  /\ at[p] = "closed" => Covered(p)

(* What a worker found is in its archive, or about to be.                    *)
ArchivedBy(p) ==
  at[p] # "dead" =>
    \A n \in Valid \cap ToSet(executed[p]) :
      (\E e \in archive[p] : e[1] = n) \/ (at[p] = "log" /\ n = i[p])

(* A worker that reports the length of its span has covered it.              *)
ReportedBy(p) ==
  /\ span[p].start <= span[p].end /\ span[p].end <= Space
  /\ progress[p] <= span[p].end - span[p].start
  /\ progress[p] = span[p].end - span[p].start => Covered(p)

Local(p) == TypesAt(p) /\ PlaceAt(p) /\ ExecutedBy(p) /\ ArchivedBy(p) /\ ReportedBy(p)

(* The parent's sum reaches the beginning of the next span only if the cores
   before it have covered theirs, and its count the types before this one only
   if they are covered.                                                      *)
PollInv ==
  /\ parent \in {"start", "fork", "status"} => poll = PollStart
  /\ parent = "poll" =>
       /\ poll = [type |-> poll.type, core |-> poll.core, sum |-> poll.sum, finished |-> poll.finished]
       /\ poll.type \in DOMAIN types /\ poll.core \in Cores(poll.type)
       /\ LET begin == Span(Len(types[poll.type].cpus), poll.core).start
          IN  /\ poll.sum \in 0 .. begin
              /\ poll.sum = begin => \A j \in 1 .. poll.core - 1 : Covered(types[poll.type].cpus[j])
       /\ poll.finished \in 0 .. poll.type - 1
       /\ poll.finished = poll.type - 1 =>
            \A t \in 1 .. poll.type - 1 : \A j \in Cores(t) : Covered(types[t].cpus[j])
  /\ parent = "announced" => \A t \in DOMAIN types : \A j \in Cores(t) : Covered(types[t].cpus[j])

IInv == SetupInv /\ Shape /\ ForkInv /\ PollInv /\ \A p \in Procs : Local(p)
=============================================================================

