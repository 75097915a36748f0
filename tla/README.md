# RISCover in TLA+

RISCover is a differential fuzzer for CPUs. A server (Python, `src/server`,
`src/pyutils`) sends instruction sequences to client processes (C,
`src/client`), one per core of every machine under test; the clients execute
them and report signals, registers and memory changes; the server compares the
results and logs reproducers for differences. This directory models the parts
of it whose correctness depends on order, failure and concurrency, checks them
with TLC and proves the central ones with TLAPS.

Check a run with `tlc -config X.cfg M` and the proofs of a module with
`tlapm M.tla`. `PROJECT.json` lists runs, mutants, the source lines of every definition, hazards, findings and
theorems.

## 1. Inventory

### Who talks to whom

    main thread --join--> accept thread --handshake--> client core (one process per core)
        |                                                   |  runner: executes one input
        | fork                                              |
        v                                                   |
    DiffFuzzWorker --> MultiClient --> RealClient ===TCP=== main loop of start_client
     (n processes)     (per machine)   (process per core)
        |
        +--> find_minimal_diff_tree --> log_repro

All workers share all RealClients. Counters, tickets and result maps live in
shared memory of `multiprocessing`; lists of clients are copies of each worker.

### Components

| Component | State | Operations | Hard about it | What makes it correct |
|---|---|---|---|---|
| RealClient (`pyutils/server.py` 269-571) | queue of entries, next ticket, in-flight lists, result map, dead flag | schedule_packed_inputs, get_results, send_recv_loop | entries of several workers are merged into one batch, skipped over and pipelined; replies are split by position only; the peer may vanish between any two steps; blocking sends in both directions | a worker gets the results of its own inputs, in order; nothing queued is forgotten; no lost wakeup; no jam; every wait ends |
| diffuzz-client main loop (`client/src/diffuzz-client.c` 352-656) | the batch worked on | recv n and inputs, run, send results | has a limit on n the server must respect; may exit at any time | one result per input, in order |
| Server and accept thread (`pyutils/server.py` 573-652) | listening socket, elf_hash, list of clients | accept, handshake, count, Enter | the handshake runs inside the accept thread: one failing client ends it | no session with mixed binaries; the wait ends when and only when the expected cores are there; no core is left waiting, save in a case that is named |
| MultiClient and DiffFuzzWorker (`pyutils/server.py` 155-265, `pyutils/difffuzzserver.py` 150-350) | counters, ticket map, lists of clients and cores per worker | claim a batch, schedule, collect, retry after a loss, analyse, log | lists shrink per worker while tickets are spread by modulo; partial failure of a call to many clients | results compared belong to one batch; only lost cores are dropped; each batch is logged once |
| Diff analysis (`pyutils/difffuzzserver.py` 26-127, 352-427; `pyutils/result.py`; `pyutils/server_util.py`) | classes of clients, splits found | find_minimal_diff_tree, filters | clusters by a non-transitive equality, in the order of clients | the splits recorded are those of a declarative definition |
| Runner (`client/src/lib/runner.c` 121-672) | alarm, signal mask, globals of the handler, pages mapped for the input, their contents | run_with_instr_seq, sig_handler | the alarm may fire anywhere; the handler leaves by restoring registers, the kernel's signal state stays; retries map pages | each run gets its own alarm, reports its own result, and ends |
| Memory change scan (`runner.c` 549-651) | none | bytes that differ to ranges, over adjacent mappings | boundaries of pages and mappings | maximal runs of changed bytes |
| Result and input encoding (`diffuzz-client.c` 140-274, `result.py` 251-379, `inp.py`) | none | pack, parse | optional fields and flags | parse inverts pack |
| undocfuzz-scan (`server/undocfuzz-scan.py`) | counters, files with a buffer per worker | claim a range, execute, take turns to analyse, resume | ranges come back in any order; a worker that dies keeps its turn; buffers at a stop | analysed in order; no finding is skipped, also after --resume; the end is announced when all is done |
| undoc-enum (`client/src/undoc-enum.c`) | per worker: position, archive; shared progress counters | split the space, enumerate, archive, poll | spans cut ranges; workers that die are not missed; 32-bit counters at 2^32 | each undefined instruction is executed once per core type; discoveries are stored; workers and parent end |
| Generators and RNG (`pyutils/generation`, `client/src/lib/rng.c`, `randomdifffuzzgenerator.h`, `input-generator.c`) | RNG state | expand a sequence number into an input | the client and input-generator must draw the same numbers in the same order | same seed, same inputs |
| Reproducers (`pyutils/repro.py`, `runner.c` 1257-2216, `repro-runner.c`) | files; what is loaded; the core chosen | log, load, pin, run | two writers with different orders of the parts; a reader that goes by first words and positions; cores that go offline | what is replayed is what was executed, on a core as asked for |
| CPU identification (`client/src/lib/cpuinfo.c`) | none | parse /proc/cpuinfo, group core types, choose a core, pin | two formats, cores offline, numbers against ids | the core run on is the one meant |
| Parsers of lscpu and QEMU output, instruction collections, disassembly, QEMU start-up, other frontends, Android app | - | text parsing, tables, packaging | - | not modelled |

## 2. Modules

| Module | Stands for |
|---|---|
| `ClientLink` | One RealClient, the workers that use it, the TCP connection and the client's main loop. |
| `TicketService` | What a RealClient promises: a remote call that ends with the results or with LostClientException. `ClientLink` implements it; `Fleet` relies on it. |
| `Fleet` | Workers, MultiClients and the counters, above cores that behave like `TicketService`. |
| `DiffTree` | The analysis of one input. |
| `Rendezvous` | Clients connecting, handshake, the count that starts the session. |
| `Runner` | One core executing inputs under an alarm, up to the message with their results. |
| `MemScan` | Operators: from changed bytes to the ranges reported. Used by `Runner`. |
| `ResultCodec` | Operators: the bytes of results, written by the client and read by the server. Used by `Runner`. |
| `UndocScan` | The scan for undocumented instructions over the network: turns, files, resume. |
| `UndocEnum` | The enumeration of the instruction space on one machine: spans, archives, the polling parent. |
| `CpuInfo` | Operators: from /proc/cpuinfo to the cores a program may pin itself to. Used by `UndocEnum` and `Repro`. |
| `Generator` | Operators: from a sequence number to an input. Used by `Repro`. |
| `Repro` | A reproducer from the input executed, through its text, to its replay. |
| `MC...` | Instances for TLC (Fleet is checked as it is). |
| `ClientLinkProofs`, `FleetProofs`, `DiffTreeProofs`, `RendezvousProofs`, `RunnerProofs`, `UndocScanProofs`, `UndocEnumProofs` | Theorems about the module of the name. |
| `ListLemmas` | For the proofs: what appending, joining and removing does to a list, least and greatest elements, the sum of a list, where the entries of a flattened list come from. |

### ClientLink

`queue`, `next_ticket`, `in_flight_inputs`, `in_flight_bytes`, `results` and
`is_dead` are the fields of RealClient of that name. `pc` is the position in
send_recv_loop: `fill` (inner while), `merge` (the loop under `condition`),
`send`, `select`, `split` (the loop under `result_condition`), `failed` and
`dead` (the exception handler of run). `scan` and `batch` are the local
variables of the merge, `reply` and `data_index` those of the split. A step is
one iteration of a loop, one blocking call or one critical section; what a lock
excludes is excluded by a guard on `pc` (`Schedule` needs `pc # "merge"`, the
steps of get_results need `pc # "split"`).

A packed input is named by its ticket and its position in the request, and a
result by the input it was computed from, so that a result that reaches the
wrong worker is visible. The data of a reply carries no ticket, as in the code:
only the order of the connection and the counts tie it to its entries. Bytes are
counted, not spelled out: they matter for the limit of bytes in flight and for
the OS buffers (`S2CCapacity`, `C2SCapacity`), in which a send blocks until it
fits or its reader drains them. Compression and framing are part of the message.

`ClientExit` is the loss of the client at any moment; replies that had not
arrived yet are lost from some point on. `SendFails` drops a batch that was
taken from the queue and is not in flight yet, as the code does; the workers
concerned learn of it through `is_dead`. `Abandon` is a worker that stops
caring for a ticket since another client of its list was lost first.

Assumed of the callers: one request has at most `BiggerMaxBatchN` inputs and
fewer bytes than may be in flight (`ConstantsAssumption`). A request above the
first bound would stay in the queue forever (the assertion against it is
commented out at `server.py` 397; the hazard is listed).

### Fleet

A worker's `at` follows DiffFuzzWorker.run: claim, try, schedule on each client,
collect from each, analyse, log. `clients` and `cores` are its own lists, as
after a fork; `next_ticket` and `ticket_map` are shared. MultiClient's schedule
has two critical sections with a call in between (`PickCore`, `AskCore`), so
other workers come in between. A core remembers the batch asked for under each
real ticket (`asked`) and which of its tickets are answered or will be (`open`).
`CoreGoesDown` happens at any moment. The number of differences found is a free
choice: their content is the subject of `DiffTree`. QEMU as an additional client
is switched off in the code and left out.

### DiffTree

`Init` chooses the results of every client for every prefix: all traces that
end at the first signal, as run_with_instr_seq_full_seq produces them. `Extend`
is one iteration over the prefix lengths; it is deterministic. The hash of a
FilteredResult is 0, so a dict lookup is a search for the first key that
`__eq__` accepts: `Cluster` folds over the clients in order, with the equality
of raw or of filtered results. `Results` abstracts a result to signal, signal information, pstate,
the other registers and two kinds of memory change: what the filters tell apart.

### Rendezvous

`accepting` is the position of the accept thread in Server.run and
RealClient.__init__, `core` that of each client core in start_client, `backlog`
the connections not accepted yet. A failed assertion, an exception or exit(1)
inside the handshake ends the accept thread only (`crashed`). Which binary a
machine runs and whether its CPU information is consistent is chosen in `Init`.

`Over` says that the thread has ended, `Closed` that nobody listens any more; they
differ. At the count and at Enter the listening socket is shut down (`server.py`
630, 650), which ends it for every process that holds it and resets the backlog.
An exception only leaves the `with` of the socket: the server's descriptor is
closed, but each listed client has two processes, its RealClient (637) and its
manager (296), that were forked with the socket open and hold it. Cores then still
connect, and nobody accepts them. The core whose handshake failed is not among
them: its connection is closed when the RealClient under construction, and with it
its manager, is dropped. That the kernel refuses connections beyond the 100 of
`listen` is not modelled.

### Runner

The sequence runs inside the process; `timer`, `pending` and `blocked` are the
kernel's view of SIGALRM. `Catch` is the entry of sig_handler, followed by its
steps in order (`UnblockEarly` on riscv64, `Disarm`, `Record`, `Discard`,
`Unblock`), which end in the return of runner(). `Expire` may happen whenever
the timer is armed. Instructions are illegal, endless, set a register, or load or
store a byte at an address; the processor is external. `Return` is the tail of
`runner.S`, which saves all registers but x29 (`Scrap`), and `ClearGlobals` what
the code does about that one. `regs_result` and `global_sig` are the globals the
result is built from, and are never reset between inputs. An input is run as a
whole or prefix by prefix (`full_seq`, run_with_instr_seq_full_seq).

`Report` compares the mappings with what was loaded into them: `mem_changes` of
`MemScan` works on the list of mappings, which is in the order in which the pages
faulted. `Pack` writes the message, with the widths of `ResultCodec`; the client
aborts when the size of the results does not fit the 16 bits in front of them.
ResultIsOwn parses that message as the server does and compares it with
`Expected`, which says what a program does without runs, mappings, globals or
bytes: it stops at the first instruction that cannot be helped, the last write
to a register or an address counts, and changed addresses fall into runs. Runs of
neighbouring addresses are one range in the result, except across two pages that
were not touched one right after the other in ascending order: the scan does not
sort its mappings (the code that did is commented out, on purpose). A run in
which the alarm came although the program did not loop (`early`) has no result
to compare with.

META counters, mappings that are given (only repro-runner has them) and SIGBUS
are left out.

### UndocScan

A worker claims a range, executes what is unknown in it, waits until
`analysed_counter` has reached its range (`WaitTurn`; it sleeps and is woken by
`NextTurn`) and analyses one instruction after the other; the inputs of a range
are a set, of which the least is next. Every worker has its
own file objects, hence its own `buffer` for each file, which reaches the file
when it is full. A process of multiprocessing ends in os._exit: what is left in
its buffers is gone, also at the regular end of a scan (`EndWorker`). The
reproducers are closed at once and therefore a set on disk. `CrashAndResume`
stops the server at any moment and starts it with --resume; with an empty
progress file the code cannot resume, and the action is not enabled.
LostClientException is not caught here (`ExecuteRaises`): the worker ends with
its turn, and the workers behind it wait forever. This is why ScanEnds exempts
scans that lose a client. executed_counter and the status line are left out.

### UndocEnum

`parent` follows start_client (start, fork, status, poll; `todo` is the core type
and the core its loop over them has come to), `at` each worker in
its loop over ranges (`EnterRange`, `StepOver`, `LeaveRange`) and instructions
(`NextRun`, `RunInstr`, `Discover`). `progress` is the shared counter with as
many bits as an instruction (`Bits`); the parent reads one core's counter per
step, while the workers go on (`Poll`). `Valid` and `Slow` say what the
processor does; an alarm is retried up to `MaxRuns` times and then counts as a
discovery, as in the code. A discovery is written through a FILE over a pipe
whose descriptor is closed below it: what reaches the archive is a multiple of
`Buffer` (`Written`). Faults are system calls that fail (`Outcomes`,
`PipeFails`), at most `MaxFaults`; a worker that cannot be pinned is no fault but
a core that went offline, at any time.

### CpuInfo and Generator

Both are pure. A machine gives the text of /proc/cpuinfo in one of its two
formats (`CpuInfoText`), which `parse_cpuinfo` folds over line by line. Each
way to choose a core is the set of processors the code may take, empty where
it exits. `Generator` keeps the order of the draws and every branch that draws;
the numbers themselves are a constant (`Stream`), so that one draw more or less
shows. What the C code reads without having set it (`num_regs`, the fp registers)
is a parameter.

### Repro

`Init` chooses a case: who wrote the file (undoc-enum, the server from an input
it has, or the server from an input that only input-generator computes again),
the flags, the build that replays it, the machine and the command line. `file`
is a sequence of lines with a type, which is the first word the parser looks at,
and a value. Each action of `Load` is one block of load_repro; it consumes the
lines the code consumes, whoever they belong to. Vectors and words of memory are
reversed on the way out and on the way in. common_pin and pin_to_cpu follow,
with cores that go offline or come back in between (`Hotplug`), then the mappings
and the run. A file with more numbers than gp registers is written over what
follows the array (`spilled`), after which the program may crash at any point.

## 3. Runs

| Run | Checks | Result |
|---|---|---|
| ClientLink | TypeOK, RightResults, EntryNeverLost, NoLostWakeup, ClientNeverRefuses, BuffersNeverJam, ExecutedOnce, EveryWaitEnds, ImplementsService | hold, under FairSpec |
| Fleet | TypeOK, OwnBatchCompared, NoLiveCoreDropped, CountersAgree, BatchLoggedOnce, BatchEnds | hold, under FairSpec |
| DiffTree | TypeOK, SplitsAreExact, IsolatedOnlyBySplit | hold on riscv64 |
| DiffTreeBus | DisagreementRecorded | violated on aarch64 |
| Rendezvous | TypeOK, SameBinary, CountIsComplete, NobodyLeftWaiting, CompleteStarts | hold |
| Runner | TypeOK, FreshAlarm, ResultIsOwn, Aarch64Survives, InputEnds | hold |
| RunnerRiscv | HandlerNotInterrupted | violated on riscv64 |
| UndocScan | TypeOK, AnalysedInOrder, NothingSkipped, AnnouncedComplete, ScanEnds | hold, under FairSpec |
| UndocEnum | TypeOK, ExactCoverage, EnumerationEnds | hold, under FairSpec |
| UndocEnumArchive | DiscoveryStored | violated |
| Repro | TypeOK, ReplaysExecuted, PinnedAsAsked, RunsInTheEnd | hold, under FairSpec |
| ReproNoFlags | LoadsInTheEnd | violated |

Every property of a passing run has a mutant of a modelled definition (defined
right before it, named after what it does wrong) under which TLC finds it
violated.

### What the violated properties show

* **DiffTreeBus.** `server/README.md` 77 says that whenever two clients disagree,
  a split is recorded. On aarch64 a SIGBUS is equal to any result without a
  signal (`difffuzzserver.py` 382). If its client is first in the list, two
  results without a signal that differ both fall into its cluster, and nothing
  is recorded. With another order of the same clients it is.
* **RunnerRiscv.** The comment at `runner.c` 732 says that the alarm is blocked
  in the signal handler. On riscv64 the handler unblocks all signals
  (`runner.c` 206) before it stops the timer (214); an alarm in between nests,
  and the client exits.
* **UndocEnumArchive.** `README.md` 159 says that each worker stores discoveries
  into a compressed archive. The descriptor is closed (`undoc-enum.c` 241) and the
  FILE above it is not, so an entry ends with the last full buffer; one shorter
  than the buffer is stored empty. Which instructions were found is right
  (ExactCoverage: there is an entry for each).
* **ReproNoFlags.** A reproducer of a build without flags has the line `flags: []`,
  which load_repro recognises (`runner.c` 1665, 1840) and never leaves. RunsInTheEnd
  exempts exactly this case, and shows that no other block has this problem.

### Where the code and its documents differ otherwise

These were met while modelling; the models contain the behaviour and the
properties that hold are stated so that they allow for it.

* `server/README.md` 78 says that clients are isolated after a split. On aarch64
  classes are built from raw results (`difffuzzserver.py` 99) also when the
  filters removed the difference: clients that differ in pstate only are isolated
  without a split. IsolatedOnlyBySplit is therefore checked on riscv64.
* `server/README.md` 44 says that the server can be used once all cores of the
  expected machines are connected. A handshake that fails ends the accept thread
  (`server.py` 636), join returns, and the session begins with the cores it has.
  If a client was listed before, the cores in the backlog and those that connect
  later wait in `recv` (`diffuzz-client.c` 437) for as long as the server runs,
  since processes of that client keep the listening socket open. NobodyLeftWaiting
  names this case (`Behind`), and shows that there is no other.
* The comment at `undocfuzz-scan.py` 80 says that turns are passed on so that logs
  are in the correct order. The analysis is in order (AnalysedInOrder); the lines
  in the files come in the order in which the buffers of the workers fill up, and
  what is left in a buffer when its worker ends never reaches the file. The
  reproducers are complete (NothingSkipped, AnnouncedComplete).
* undoc-enum never announces its end on a machine with a core type of one core
  (its 32-bit counter wraps to 0), nor after a worker was lost. EnumerationEnds
  names these cases, and shows that there are no others.
* input-generator does not compute what the client executed on aarch64 (num_regs
  is never set, `randomdifffuzzgenerator.h`), with vectors on RISC-V (the fp
  registers are not set), and for sequence numbers or seeds that atoi cuts. A file
  of the server without fp and vector registers has its results read as gp
  registers. `Replayable` names these cases; ReplaysExecuted holds for all others.
* A core is asked for by number, compared with how many are online and used as an
  id (`cpuinfo.c` 275): with a core offline the last ones cannot be asked for.
  The core that is run on is the right one (PinnedAsAsked).

### Bounds

* *ClientLink*: two workers, requests of one input and one byte and of two inputs
  and three bytes, batches of up to three (`MaxBatchN = 2`). Two entries merge, a
  larger one is skipped over and a later one taken; a batch can be under
  construction, in flight and under way back at the same time. Three tickets for
  two workers, so that a ticket can be abandoned and its worker wait for another.
  More bytes may be in flight than either buffer holds, so both directions fill
  up; with a limit that is not applied they jam (a mutant).
* *Fleet*: two workers, two machines of two cores: a list of cores shrinks and
  its modulo changes, and a machine disappears with its last core. Two batches
  (`MaxCounter / BatchSize`), two losses, up to two differences per batch with a
  file limit of one.
* *DiffTree*: three clients are the least with which an equality that is not
  transitive and the removal of a SIGILL cluster matter; three prefixes let a
  class split, go on and split again. The results contain a pair for every
  filter and every field on riscv64.
* *Rendezvous*: machines with two cores and one core, all choices of binaries
  and odd machines, two exits.
* *Runner*: all programs of one or two instructions of ten, and stores to three
  bytes in every order: in a row across two adjacent pages, separate ones, and
  with a third page touched between the two; the longer ones also prefix by
  prefix. Two inputs, so that one follows another; three automatic mappings
  (`CHECK_MEM_MAX_TRIES`) and one program that needs four. Pages have three
  bytes, a byte 32 values, a word two bytes, a result two ranges of which two
  bytes are kept, and the size of the results is one byte: each limit is
  reached, and that of the size by prefixes only, as with the sizes of the code.
* *UndocScan*: three workers, four ranges of two
  instructions, one of them empty and the last cut short, so that
  `analysed_counter` passes the end; every choice of what the client knows;
  buffers of two lines, so that some are written and some are lost; one stop.
  A second client would only add a second file of the same kind.
* *UndocEnum*: a space of eight instructions; two lists of ranges, one with empty
  ranges at the beginning and in the middle, both cut by the spans of two and of
  three cores (three does not divide eight); six machines with one to three cores,
  one or two core types, a core that is offline, both formats of /proc/cpuinfo and
  the host that hides a core. One system call fails, pinning at any time. A
  reproducer is one and a half buffers long, so that a part of it is written and
  a rest is left.
* *Repro*: two gp registers, one fp and one vector register, sequences of up to
  one instruction more than the build allows, up to two mappings; all
  sets of registers that compile on each of the two architectures, with and without
  metadata, each file replayed by four builds; seeds and sequence numbers on both sides of what atoi keeps
  and of the fold of the halves; one file replayed on six machines with thirteen
  requests while cores come and go.

No run uses symmetry, since nearly all check temporal properties. Deadlock is
not checked: every system may
come to rest (tickets or inputs used up by the bound, all connections lost,
session started), and what must not come to rest is stated as liveness.

### Fairness

* *ClientLink*: weak fairness of the RealClient process, of the client's loop and
  of each worker inside get_results. They are OS processes; nothing else can
  disable them for good. Nobody has to schedule, and no client has to fail. A
  client that neither goes on nor exits would block its workers forever: the
  code has no timeout for it (listed as a hazard).
* *Fleet*: weak fairness of each worker; a core that is up answers, which is
  EveryWaitEnds of ClientLink.
* *Rendezvous*: weak fairness of the accept thread, of the main thread and of each
  core; nobody has to press Enter. A core that connects and stays silent is
  excluded, since the server would wait for it without a timeout (hazard).
* *Runner*: weak fairness of the process, of the timer (CPU time passes) and of
  the delivery of a pending signal.
* *UndocScan*: weak fairness of each worker and of the main process; no client has
  to be lost and nobody has to stop the server.
* *UndocEnum*: weak fairness of the parent, which sleeps for a bounded time, and of
  each worker; they are processes. No system call has to fail. That an instruction
  which does not end is interrupted is InputEnds of Runner.
* *Repro*: weak fairness of repro-runner; no core has to go offline.

## 4. Proofs

Proved for every value of the constants that satisfies the named assumption.

**ClientLinkProofs**, from `ConstantsAssumption`. RightResults is not inductive:
it speaks of what was returned, which depends on every message under way. The
inductive invariant `LinkInv` adds

* `WireInv`: the replies unread, the batch the client works on and the batches
  unread, in this order, are the batches in flight, one for one (the oldest ones
  only once the client is gone), and each is laid out like its entries.
  `Covers(parts, from, inputs)` says "laid out like" with a witness, the offset
  of each entry, which takes the place of a recursive sum;
* `BatchInv`, `SplitInv`: the same of the batch under construction and of what
  is left of a reply, from `data_index` on;
* `TicketInv`: tickets are below `next_ticket`, and no two waiting workers have
  the same one;
* `OwnInv`: a waiting worker's ticket names its own entry wherever it is, and its
  own results.

Each conjunct has a lemma that all steps preserve it (`TypeStep`, `WireStep`,
`BatchStep`, `SplitStep`, `TicketStep`, `OwnStep`); `CoversAppend` and
`CoversHead` are the two facts about layouts, merging and splitting. Then:

* `TypeCorrect`: TypeOK.
* `ResultsAreOwn`: RightResults.
* `NeverRefused`: ClientNeverRefuses.
* `EntryKept`: EntryNeverLost.
* `WakeupKept`: NoLostWakeup.
* `LinkImplementsService`: every behaviour of ClientLink is one of TicketService
  under the mapping of `Service` (no hidden state of the service is needed;
  `HoldsNothing` is the only fact beyond LinkInv).
* `EntriesExecutedOnce`: ExecutedOnce, from LinkInv and a second inductive
  invariant, `OnceInv`: each list of the pipeline names a ticket at most once
  (`Uniq`), and any two of them, and the answered tickets, have none in common
  (`Apart`). LinkInv supplies what the step needs besides: new tickets are fresh
  (`Schedule`), the batch is empty when a merge begins, and nothing is left of
  the last reply when the next one is taken.
* `NoJam`: BuffersNeverJam. Whether the two sides can block in their sends at the
  same time depends on the deployment, which the theorem names: no request answers
  with more than K bytes per byte of its inputs (`RequestBytes`), and the buffers
  towards the server hold K times what may be in flight (the comment at `server.py`
  267 asks for such a relation between the limit and the sizes of the socket
  buffers). How much the buffers towards the client hold does not matter. The
  invariant `ByteInv` bounds the replies of each batch by the bytes it was booked
  with, from the entry on; with WireInv, the replies unread and the one about to be
  sent each belong to a batch in flight, so their sum is bounded by
  `in_flight_bytes` (`SumsCompared`, from a list of partial sums in place of an
  induction), which is below the limit when a batch is built. The instance of the
  run satisfies the hypotheses with K = 1.

**RunnerProofs**, from `RunnerAssumption`. `AlarmInv` says where the alarm may be
armed or pending (`TimerInv`), where it is blocked (`MaskInv`) and how deep
signals nest (`NestingInv`), next to the types. It gives `AlarmIsFresh`
(FreshAlarm, both architectures) and `Aarch64ClientSurvives` (Aarch64Survives):
what is violated on riscv64 in RunnerRiscv holds on aarch64 for all programs.
`RunnerTypes` (TypeOK) needs `RunInv` besides: the position stays inside the
prefix that is run, pages are mapped once and while there is room, and only
writable pages change.

`ReportsAreOwn` is the part of ResultIsOwn that comes before the bytes. An input is
run many times, with more and more pages, in one process whose registers, memory,
globals and kernel state carry over; `OwnReports` says that each result is that of
its own prefix by the definition ResultIsOwn uses: `SignalOf`, `RegsOf`, and
`Changes` of the bytes `FinalByte` in the pages that the program touches, in the
order of their first accesses. The invariant has four parts: registers and memory
are those after the instructions before `ip` (`ProcessorInv`); the signal being
handled, and then the globals, are of the instruction the run stopped at
(`SignalInv`, for inputs whose alarm was not early); the pages were mapped in the
order of the accesses that needed them, and on the last run no page can be gained
(`MappingInv`); there is one result per prefix (`CountInv`). `EndOfRun` connects the
two views: a run that stops while no page can be gained stops where the program
ends by `Passed`, since an access without its page is then either to a page that
cannot be mapped or to one more page than CHECK_MEM_MAX_TRIES.

**FleetProofs**, from `FleetAssumption` (the workers are finitely many, since
they are counted). Results carry no batch, and a ticket is an index into a list
that shrinks in one worker and not in another; that the right results are
compared is `TicketsLead`: every ticket a worker still has to redeem leads through
`ticket_map` to a core of its own list that was asked for the worker's batch. It
is inductive together with `ListsAgree` (lists of clients and of cores fit),
`Progress` (how far a worker is), `TicketsUnique` (a held ticket was given out
once, so nobody else pops it) and `PickedOK` (nothing happens to a worker's list
between the two critical sections of schedule). `BatchOwned` and `InFlight` do the
same for batches and counters: a batch is in the hands of the worker that claimed
it. The conjunction is `IInv` (`FleetInvariant`); it gives `FleetTypes` (TypeOK),
`WorkersCompareOwnBatch` (OwnBatchCompared), `LiveCoresStay` (NoLiveCoreDropped),
`SharedCountersAgree` (CountersAgree) and `BatchesLoggedOnce` (BatchLoggedOnce).

**DiffTreeProofs**, from `DiffTreeAssumption`. `Inv` says that the classes before a
prefix are the groups of at least two clients that ran all prefixes before it
without a signal and with equal results (`ClassesRight`), that each recorded split is
such a group at an earlier prefix, parted by result, of which two clients disagree,
none twice (`SplitsReal`), and on riscv64 that all such groups are recorded
(`SplitsAll`). The code clusters one client after the other, in a dict whose keys
compare by an equality with filters: `ClusterJoined` says what that fold yields, by
the least number of clients for which it would not; `SortedClusters` that the stable
sort loses nothing. `DiffersSound` says that a class is recorded only if two results
disagree, for any filters. The converse (`DiffersComplete`) needs the filtered
equality to be an equivalence, which it is on riscv64 and, as DiffTreeBus shows, not
on aarch64; hence the hypothesis Arch = "riscv64" where it is used. Theorems for both
architectures: `TypeCorrect` (TypeOK), `ResultsAreThere` (no lookup of a result
fails), `NoSplitInvented`. For riscv64: `SplitsExact` (SplitsAreExact),
`IsolationRecorded` (IsolatedOnlyBySplit), `DisagreementsRecorded`
(DisagreementRecorded, the property that is violated on aarch64).

**RendezvousProofs**, from `RendezvousAssumption` (finitely many machines).
`IInv` says that a core is in one place (about to connect, in the backlog, in the
handshake or listed, `EachOnce`), that the peer has passed the check of its hash
after `check_hash` (`HashChecked`), and that the count still holds (`EndedByCount`).
`ClientsRunSameBinary` (SameBinary) is a part of it. `CountEndsComplete`
(CountIsComplete) turns a count into a set: the accept thread compares how many
clients there are with a sum over the machines it has seen; the sum is a
cardinality (`AwaitedIsCardinality`), and as many different cores as there are
cores are all of them. A recursive sum is no obstacle here: a smallest set of
machines for which the fact fails is led to a contradiction, which takes only that
a set of numbers has a least element. `RendezvousTypes` is TypeOK.

**UndocScanProofs**, from `UndocScanAssumption` ("progress" names no client). `IInv`
says which ranges are claimed (each once, and without a gap from
`analysed_counter` to `counter`, `RangesClaimed`), what is left of each
(`InputsLeft`), that a line in the progress file or in some buffer of it means that
all before it has a reproducer (`LinesOK`), and that what was analysed lies behind
what is left (`Behind`); `EndInOrder` says who may have ended when. A stop at any
moment keeps `LinesOK`, which is why a resume loses nothing. Theorems: `ScanTypes`
(TypeOK), `ScannedInOrder` (AnalysedInOrder), `ResumeSkipsNothing`
(NothingSkipped), `ScanComplete` (AnnouncedComplete).

**UndocEnumProofs**, from `UndocEnumAssumption` (the ranges make up the space, as the
code relies on), `CpuInfoAssumption` and `MachinesAssumption` (each processor is
listed for one core of one type; that this is what the two folds of CpuInfo make of
a machine's text is checked by TLC for the machines of the run). ExactCoverage
speaks of finished workers and of the parent's last word. The inductive invariant
`IInv` says per processor (`Local`) where a worker may be in its ranges (`PlaceAt`),
that it has executed what is undefined in its span up to there, each once, and
nothing else (`ExecutedBy`), that what it found is stored or about to be
(`ArchivedBy`), and that its counter equals the length of its span only if the span
is covered (`ReportedBy`: the counter wraps, and wraps to 0, not to the length). Of the
parent it says which workers have been forked, with which span (`ForkInv`), and that
a sum which reaches the beginning of the next span, or a count which reaches the
type at hand, was reached because all before it is covered (`PollInv`): the parent
adds up counters that change while it reads, but being covered is stable. About the
operators: where ranges begin is a sum, which is monotone and ends with the space
(`BeforeProperties`, from `SumIsCardinality`: a sum is a number of pairs); the spans of
any number of cores follow one another and make up the space (`SpanProperties`); a
report cannot be more than it should (`Reporting`). Theorems: `EnumTypes` (TypeOK),
`EnumCoverage` (ExactCoverage).

TLC has checked each of these invariants on the instances of the runs, and IInv of
UndocScan also with two workers and two clients.

**Only model-checked**: all liveness properties, which with fairness and ENABLED
are out of the prover's reach; ResultIsOwn of Runner as a whole, since the round
trip of a result through its bytes and the merging of changed bytes into ranges are
folds over data (ReportsAreOwn proves what is reported before it is packed); and
Repro, whose loader and choice of a core pick lines and cores with SelectSeq, a
recursion the provers have no facts about.

## 5. Plan

Done: ClientLink, TicketService, Fleet, DiffTree, Rendezvous, Runner, UndocScan,
UndocEnum, CpuInfo, Generator, Repro, MemScan, ResultCodec, and the proofs of
ClientLink, Fleet, DiffTree, Rendezvous, Runner, UndocScan and UndocEnum.

To follow: Rendezvous with cores that connect again; the packing of inputs;
PinnedAsAsked of Repro as a theorem.

## 6. Not modelled

Compression and the framing of messages (I/O); the packing of inputs (`inp.py`
copies fields into a struct); the Mersenne Twister (arithmetic on 624 words);
what `runner.S` does with the caller's registers; the generators in Python, the
parsers of lscpu and QEMU output, instruction collections, disassembly and the
LaTeX and clustering scripts (tables, text and sequential scripts); reading
reproducers in Python; QEMU start-up, Android app, build files.

Situations the code does not handle, and which the models leave out or assume
away where noted:

* A request with more inputs than fit into any batch stays in the queue forever
  and makes the loop send empty batches (the assertion at `server.py` 397 is
  commented out). The callers keep the bound; `ConstantsAssumption` has it.
* A client that hangs without closing its connection is never given up
  (`server.py` 474), and one that falls silent in its introduction blocks the
  accept thread (`server.py` 331): there is no timeout, and the fairness excludes
  both.
* The results of an abandoned ticket stay in the manager's dict (`server.py` 492);
  RightResults with `Abandon` shows that they do no other harm.
* When all workers have quit, the main process prints its status line forever
  (`difffuzzserver.py` 312, a TODO there); Fleet ends with all workers stopped.
* A machine that reconnects registers its cores again, and two machines of one
  name count as one (`server.py` 646); every core connects once in Rendezvous.
* An alarm in a run that only finds out which pages to map ends the mapping
  (`runner.c` 536), so a busy machine can report a fault; ResultIsOwn excludes it
  (`early`), since nothing bounds the length of a sequence without loops.
