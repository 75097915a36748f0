----------------------------- MODULE UndocScan ------------------------------
(***************************************************************************)
(* The scan for undocumented instructions (server/undocfuzz-scan.py): the  *)
(* worker processes claim ranges of the instruction space, execute what is *)
(* unknown in them on all clients, and take turns to analyse the results   *)
(* in the order of the ranges.  An instruction that some client knows gets *)
(* a reproducer and a line in that client's file; the progress file tells  *)
(* --resume where to go on.                                                *)
(*                                                                         *)
(* The workers are forked processes.  Each has opened the progress file    *)
(* and the clients' files for itself and has its own buffer for each,      *)
(* which reaches the file when it is full and at no other time: a process  *)
(* of multiprocessing ends without closing its files.  A reproducer is     *)
(* closed as soon as it is written.  executed_counter, which only feeds    *)
(* the status line, is left out.                                           *)
(***************************************************************************)
EXTENDS Integers, Sequences, FiniteSets, SequencesExt, FiniteSetsExt

CONSTANTS
  Workers,      (* the worker processes                                       *)
  Clients,      (* the clients all inputs are executed on                     *)
  Unknown,      (* instructions that no documentation explains                *)
  Step,         (* --step: size of a range                                    *)
  Until,        (* --until: end of the instruction space                      *)
  Chunk,        (* progress is logged once per so many instructions (0xffff)  *)
  BufferLines,  (* lines a buffer holds before they are written               *)
  MaxCrashes    (* bound of the model: times the server is stopped and resumed *)

ASSUME UndocScanAssumption ==
  /\ Step \in Nat \ {0} /\ Until \in Nat /\ Chunk \in Nat \ {0}
  /\ BufferLines \in Nat \ {0} /\ MaxCrashes \in Nat
  /\ Unknown \subseteq 0 .. Until - 1
  /\ "progress" \notin Clients      (* a client's file is named hostname-model *)

VARIABLES
  knows,             (* per client: the unknown instructions it executes      *)
  counter,           (* the next range to claim                               *)
  analysed_counter,  (* the range whose turn it is                            *)
  last_logged,       (* the chunk of the last line of progress                *)
  finished,          (* a worker found nothing left to claim                  *)
  at,                (* where each worker is                                  *)
  to_generate,       (* per worker: the range it works on                     *)
  inputs,            (* per worker: instructions of it left to analyse, which
                        come in ascending order                               *)
  buffer,            (* per worker and file: lines not written yet            *)
  file,              (* per file: the lines in it                             *)
  reproducers,       (* instructions with a reproducer                        *)
  analysed,          (* instructions analysed in this session, in order       *)
  down,              (* a client is lost                                      *)
  main,              (* where the main process is                             *)
  crashes

work == <<at, to_generate, inputs>>
logs == <<buffer, file, reproducers, analysed>>
vars == <<knows, counter, analysed_counter, last_logged, finished, at, to_generate, inputs,
          buffer, file, reproducers, analysed, down, main, crashes>>

Files == Clients \cup {"progress"}

Init ==
  /\ knows \in [Clients -> SUBSET Unknown]
  /\ counter = 0
  /\ analysed_counter = 0
  /\ last_logged = 0
  /\ finished = FALSE
  /\ at = [w \in Workers |-> "claim"]
  /\ to_generate = [w \in Workers |-> 0]
  /\ inputs = [w \in Workers |-> {}]
  /\ buffer = [w \in Workers |-> [f \in Files |-> <<>>]]
  /\ file = [f \in Files |-> <<>>]
  /\ reproducers = {}
  /\ analysed = <<>>
  /\ down = FALSE
  /\ main = "watch"
  /\ crashes = 0

-----------------------------------------------------------------------------
(* The unknown instructions of a range; they are generated, executed and
   analysed in ascending order.                                              *)
Generate(from, until) == {i \in Unknown : from <= i /\ i < until}

(* Mutant of Claim: the next range begins one instruction too late.          *)
ClaimGap(w) ==
  /\ at[w] = "claim"
  /\ counter < Until
  /\ to_generate' = [to_generate EXCEPT ![w] = counter]
  /\ inputs' = [inputs EXCEPT ![w] = Generate(counter + 1, Min({counter + Step, Until}))]
  /\ counter' = Min({counter + Step, Until})
  /\ at' = [at EXCEPT ![w] = IF inputs'[w] = {} THEN "wait" ELSE "execute"]
  /\ UNCHANGED <<knows, analysed_counter, last_logged, finished, logs, down, main, crashes>>

(* A range is claimed and its inputs are generated.                          *)
Claim(w) ==
  /\ at[w] = "claim"
  /\ counter < Until
  /\ to_generate' = [to_generate EXCEPT ![w] = counter]
  /\ inputs' = [inputs EXCEPT ![w] = Generate(counter, Min({counter + Step, Until}))]
  /\ counter' = Min({counter + Step, Until})
  /\ at' = [at EXCEPT ![w] = IF inputs'[w] = {} THEN "wait" ELSE "execute"]
  /\ UNCHANGED <<knows, analysed_counter, last_logged, finished, logs, down, main, crashes>>

(* Nothing is left to claim: the worker ends, its buffers with it.           *)
EndWorker(w) ==
  /\ at[w] = "claim"
  /\ counter >= Until
  /\ finished' = TRUE
  /\ at' = [at EXCEPT ![w] = "ended"]
  /\ buffer' = [buffer EXCEPT ![w] = [f \in Files |-> <<>>]]
  /\ UNCHANGED <<knows, counter, analysed_counter, last_logged, to_generate, inputs, file,
                 reproducers, analysed, down, main, crashes>>

(* execute_inputs_on_clients returns ...                                     *)
Execute(w) ==
  /\ at[w] = "execute"
  /\ at' = [at EXCEPT ![w] = "wait"]
  /\ UNCHANGED <<knows, counter, analysed_counter, last_logged, finished, to_generate, inputs,
                 logs, down, main, crashes>>

(* ... or raises LostClientException, which nobody catches here.             *)
ExecuteRaises(w) ==
  /\ at[w] = "execute"
  /\ down
  /\ at' = [at EXCEPT ![w] = "died"]
  /\ buffer' = [buffer EXCEPT ![w] = [f \in Files |-> <<>>]]
  /\ UNCHANGED <<knows, counter, analysed_counter, last_logged, finished, to_generate, inputs,
                 file, reproducers, analysed, down, main, crashes>>

(* Mutant of WaitTurn: any turn will do.                                     *)
WaitTurnNot(w) ==
  /\ at[w] \in {"wait", "woken"}
  /\ at' = [at EXCEPT ![w] = "analyse"]
  /\ UNCHANGED <<knows, counter, analysed_counter, last_logged, finished, to_generate, inputs,
                 logs, down, main, crashes>>

(* wait_for: the turn has come, or the worker sleeps until it is notified.   *)
WaitTurn(w) ==
  /\ at[w] \in {"wait", "woken"}
  /\ at' = [at EXCEPT ![w] = IF analysed_counter = to_generate[w] THEN "analyse" ELSE "asleep"]
  /\ UNCHANGED <<knows, counter, analysed_counter, last_logged, finished, to_generate, inputs,
                 logs, down, main, crashes>>

(* write of a line to some of the files: a buffer that is full reaches its file. *)
Write(w, line, to) ==
  LET now == [f \in Files |-> IF f \in to THEN Append(buffer[w][f], line) ELSE buffer[w][f]]
      full == {f \in Files : Len(now[f]) >= BufferLines}
  IN  /\ buffer' = [buffer EXCEPT ![w] = [f \in Files |-> IF f \in full THEN <<>> ELSE now[f]]]
      /\ file' = [f \in Files |-> IF f \in full THEN file[f] \o now[f] ELSE file[f]]

KnownTo(i) == {c \in Clients : i \in knows[c]}

(* Mutant of LogResults: the line goes to the files of all clients.          *)
LogResultsAll(w) ==
  /\ at[w] = "analyse"
  /\ inputs[w] # {}
  /\ Write(w, Min(inputs[w]), Clients)
  /\ reproducers' = reproducers \cup {Min(inputs[w])}
  /\ analysed' = Append(analysed, Min(inputs[w]))
  /\ at' = [at EXCEPT ![w] = "progress"]
  /\ UNCHANGED <<knows, counter, analysed_counter, last_logged, finished, to_generate, inputs,
                 down, main, crashes>>

(* analysis, first part: a line for each client that knows the instruction,
   and a reproducer.                                                         *)
LogResults(w) ==
  /\ at[w] = "analyse"
  /\ inputs[w] # {}
  /\ Write(w, Min(inputs[w]), KnownTo(Min(inputs[w])))
  /\ reproducers' = IF KnownTo(Min(inputs[w])) = {} THEN reproducers
                    ELSE reproducers \cup {Min(inputs[w])}
  /\ analysed' = Append(analysed, Min(inputs[w]))
  /\ at' = [at EXCEPT ![w] = "progress"]
  /\ UNCHANGED <<knows, counter, analysed_counter, last_logged, finished, to_generate, inputs,
                 down, main, crashes>>

(* analysis, second part: a line of progress for what was found, and for the
   first instruction of a new chunk.                                         *)
LogProgress(w) ==
  LET instr == Min(inputs[w])
      cur == instr \div Chunk
      log == KnownTo(instr) # {} \/ cur # last_logged
  IN  /\ at[w] = "progress"
      /\ last_logged' = IF log THEN cur ELSE last_logged
      /\ Write(w, instr, IF log THEN {"progress"} ELSE {})
      /\ inputs' = [inputs EXCEPT ![w] = @ \ {instr}]
      /\ at' = [at EXCEPT ![w] = "analyse"]
      /\ UNCHANGED <<knows, counter, analysed_counter, finished, to_generate, reproducers,
                     analysed, down, main, crashes>>

(* Mutant of NextTurn: the others are not notified.                          *)
NextTurnSilent(w) ==
  /\ at[w] = "analyse"
  /\ inputs[w] = {}
  /\ analysed_counter' = analysed_counter + Step
  /\ at' = [at EXCEPT ![w] = "claim"]
  /\ UNCHANGED <<knows, counter, last_logged, finished, to_generate, inputs, logs, down, main,
                 crashes>>

(* The range is analysed: the next one has its turn, and everybody is woken. *)
NextTurn(w) ==
  /\ at[w] = "analyse"
  /\ inputs[w] = {}
  /\ analysed_counter' = analysed_counter + Step
  /\ at' = [v \in Workers |-> IF v = w THEN "claim" ELSE IF at[v] = "asleep" THEN "woken" ELSE at[v]]
  /\ UNCHANGED <<knows, counter, last_logged, finished, to_generate, inputs, logs, down, main,
                 crashes>>

(* A client is lost.                                                         *)
ClientLost ==
  /\ ~down
  /\ main # "done"
  /\ down' = TRUE
  /\ UNCHANGED <<knows, counter, analysed_counter, last_logged, finished, work, logs, main, crashes>>

-----------------------------------------------------------------------------
(* FuzzServer.start sees that a worker found nothing left ...                *)
SeeFinished ==
  /\ main = "watch"
  /\ finished
  /\ main' = "join"
  /\ UNCHANGED <<knows, counter, analysed_counter, last_logged, finished, work, logs, down, crashes>>

(* Mutant of Join: the workers are not waited for.                           *)
JoinNot ==
  /\ main = "join"
  /\ main' = "done"
  /\ UNCHANGED <<knows, counter, analysed_counter, last_logged, finished, work, logs, down, crashes>>

(* ... joins all workers, and main announces that the scan is finished.      *)
Join ==
  /\ main = "join"
  /\ \A w \in Workers : at[w] \in {"ended", "died"}
  /\ main' = "done"
  /\ UNCHANGED <<knows, counter, analysed_counter, last_logged, finished, work, logs, down, crashes>>

(* The server is stopped and started again with --resume, which reads the last
   line of the progress file (and fails if there is none).                   *)
CrashAndResume ==
  /\ main # "done"
  /\ crashes < MaxCrashes
  /\ file["progress"] # <<>>
  /\ counter' = Last(file["progress"])
  /\ analysed_counter' = Last(file["progress"])
  /\ last_logged' = 0
  /\ finished' = FALSE
  /\ at' = [w \in Workers |-> "claim"]
  /\ to_generate' = [w \in Workers |-> 0]
  /\ inputs' = [w \in Workers |-> {}]
  /\ buffer' = [w \in Workers |-> [f \in Files |-> <<>>]]
  /\ analysed' = <<>>
  /\ down' = FALSE
  /\ main' = "watch"
  /\ crashes' = crashes + 1
  /\ UNCHANGED <<knows, file, reproducers>>

-----------------------------------------------------------------------------
Run(w) ==
  \/ Claim(w) \/ EndWorker(w)
  \/ Execute(w) \/ ExecuteRaises(w)
  \/ WaitTurn(w) \/ LogResults(w) \/ LogProgress(w) \/ NextTurn(w)

Main == SeeFinished \/ Join

Next ==
  \/ \E w \in Workers : Run(w)
  \/ Main
  \/ ClientLost
  \/ CrashAndResume

Spec == Init /\ [][Next]_vars

(* The processes are scheduled; no client has to be lost, and nobody has to
   stop the server.                                                          *)
FairSpec == Spec /\ WF_vars(Main) /\ \A w \in Workers : WF_vars(Run(w))

-----------------------------------------------------------------------------
(* What must hold.                                                           *)

Found == UNION {knows[c] : c \in Clients}

(* Types; a line of a client's file is an instruction this client knows.     *)
TypeOK ==
  /\ counter \in 0 .. Until /\ analysed_counter \in 0 .. Until + Step
  /\ at \in [Workers -> {"claim", "execute", "wait", "asleep", "woken", "analyse", "progress",
                         "ended", "died"}]
  /\ \A w \in Workers : to_generate[w] \in 0 .. Until /\ inputs[w] \subseteq Unknown
  /\ \A f \in Files : ToSet(file[f]) \subseteq Unknown
  /\ \A c \in Clients : ToSet(file[c]) \subseteq knows[c]
  /\ \A w \in Workers, f \in Files : Len(buffer[w][f]) < BufferLines
  /\ main \in {"watch", "join", "done"}

(* Instructions are analysed in ascending order and each once in a session,
   whichever worker executed them and whoever came back first.               *)
AnalysedInOrder ==
  \A i, j \in 1 .. Len(analysed) : i < j => analysed[i] < analysed[j]

(* Everything found below the range whose turn it is has a reproducer, also
   across sessions: --resume goes on at a line behind which nothing is missing,
   although the lines of different workers reach the file in any order.      *)
NothingSkipped ==
  \A i \in Found : i < analysed_counter => i \in reproducers

(* The end is announced only after every range was analysed, unless a client
   was lost: the worker that finds nothing left to claim sets finished while
   others still analyse.                                                     *)
AnnouncedComplete == main = "done" /\ ~down => Found \subseteq reproducers

(* The scan comes to its end unless a client is lost.                        *)
ScanEnds == <>[](main = "done" \/ down)
-----------------------------------------------------------------------------
(* The inductive invariant behind the safety properties, proved in           *)
(* UndocScanProofs.                                                          *)

Places == {"claim", "execute", "wait", "asleep", "woken", "analyse", "progress", "ended", "died"}

Types ==
  /\ knows \in [Clients -> SUBSET Unknown]
  /\ counter \in 0 .. Until /\ analysed_counter \in 0 .. Until + Step
  /\ at \in [Workers -> Places]
  /\ to_generate \in [Workers -> 0 .. Until]
  /\ inputs \in [Workers -> SUBSET Unknown]
  /\ file \in [Files -> Seq(Unknown)]
  /\ buffer \in [Workers -> [Files -> Seq(Unknown)]]
  /\ \A w \in Workers, f \in Files : Len(buffer[w][f]) < BufferLines
  /\ analysed \in Seq(Unknown)
  /\ main \in {"watch", "join", "done"}

(* Worker w has a range whose turn has not passed; it has it in its turn.    *)
Claimed(w) == at[w] \notin {"claim", "ended"}
InTurn(w) == at[w] \in {"analyse", "progress"}

(* Every range is claimed once, and between analysed_counter and counter there
   is no instruction outside a claimed range.                                *)
RangesClaimed ==
  /\ \A w \in Workers : Claimed(w) => to_generate[w] < counter
  /\ \A v, w \in Workers : Claimed(v) /\ Claimed(w) /\ to_generate[v] = to_generate[w] => v = w
  /\ \A w \in Workers : InTurn(w) => to_generate[w] = analysed_counter
  /\ \A i \in analysed_counter .. counter - 1 :
       \E w \in Workers : Claimed(w) /\ to_generate[w] <= i /\ i < to_generate[w] + Step

(* What is unknown in a worker's range is left to analyse; in its turn, what is
   left is what has not been analysed yet.                                   *)
InputsLeft ==
  \A w \in Workers : Claimed(w) =>
    /\ \A i \in inputs[w] : to_generate[w] <= i /\ i < to_generate[w] + Step
    /\ \A i \in Found : to_generate[w] <= i /\ i < to_generate[w] + Step =>
         i \in inputs[w] \/ (InTurn(w) /\ i \in reproducers)
    /\ at[w] = "progress" => inputs[w] # {}

(* A line is where it belongs: in the file of a client that knows the
   instruction, or in the progress file once all before it has a reproducer. *)
LineOK(f, i) ==
  /\ f \in Clients => i \in knows[f]
  /\ f = "progress" => \A j \in Found : j < i => j \in reproducers
LinesOK ==
  /\ \A f \in Files : \A i \in ToSet(file[f]) : LineOK(f, i)
  /\ \A w \in Workers, f \in Files : \A i \in ToSet(buffer[w][f]) : LineOK(f, i)

(* At "progress" the least instruction left is the one analysed last, which
   has its reproducer if it was found.                                       *)
LastAnalysed ==
  \A w \in Workers :
    at[w] = "progress" /\ Min(inputs[w]) \in Found => Min(inputs[w]) \in reproducers

(* What was analysed lies behind what is left.                               *)
Behind ==
  \A i \in ToSet(analysed) :
    \/ i < analysed_counter
    \/ \E w \in Workers :
         /\ InTurn(w) /\ i < to_generate[w] + Step
         /\ \A j \in inputs[w] : i < j \/ (at[w] = "progress" /\ i = j)

(* The end of the scan: nobody claims any more, and a worker that died lost a
   client.                                                                   *)
EndInOrder ==
  /\ finished \in BOOLEAN /\ down \in BOOLEAN
  /\ finished => counter = Until
  /\ main \in {"join", "done"} => finished
  /\ main = "done" => \A w \in Workers : at[w] \in {"ended", "died"}
  /\ \A w \in Workers : at[w] = "died" => down

ScanInv ==
  /\ Types /\ RangesClaimed /\ InputsLeft /\ NothingSkipped
  /\ LinesOK /\ LastAnalysed /\ Behind /\ AnalysedInOrder
IInv == ScanInv /\ EndInOrder
=============================================================================
