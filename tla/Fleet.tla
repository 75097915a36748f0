------------------------------- MODULE Fleet --------------------------------
(***************************************************************************)
(* The fuzzing server above the connections: the worker processes          *)
(* (DiffFuzzWorker.run in pyutils/difffuzzserver.py) that claim batches of *)
(* inputs, execute every batch on all clients, analyse the results and log *)
(* reproducers; and MultiClient (pyutils/server.py), which spreads the     *)
(* calls over the cores of one machine.                                    *)
(*                                                                         *)
(* Workers are forked processes: the counters, a MultiClient's next_ticket *)
(* and its ticket_map are shared, but each worker has its own copy of the  *)
(* client lists and removes lost cores and clients from its copy only.  A  *)
(* core (RealClient) is the remote call of TicketService: it answers a     *)
(* ticket with the results of what was scheduled under it, or raises       *)
(* LostClientException once it is lost.                                    *)
(***************************************************************************)
EXTENDS Integers, Sequences, FiniteSets, SequencesExt

CONSTANTS
  Workers,        (* the worker processes                                      *)
  NGroups,        (* number of MultiClients                                    *)
  NCores,         (* cores of each MultiClient                                 *)
  BatchSize,      (* inputs per batch                                          *)
  MaxCounter,     (* bound of the model: batches are claimed below it          *)
  MaxSplits,      (* bound of the model: diffs found in one batch              *)
  MaxRepros,      (* reproducers after which a worker exits (300000)           *)
  MaxLost         (* bound of the model: cores that get lost                   *)

ASSUME FleetAssumption ==
  /\ IsFiniteSet(Workers)
  /\ NGroups \in Nat /\ NCores \in Nat \ {0}
  /\ BatchSize \in Nat \ {0}
  /\ MaxCounter \in Nat /\ MaxSplits \in Nat /\ MaxRepros \in Nat /\ MaxLost \in Nat

Groups == 1 .. NGroups
Core == Groups \X (1 .. NCores)

VARIABLES
  counter,           (* FuzzServer.counter: the next input to generate          *)
  executed_counter,  (* FuzzServer.executed_counter                             *)
  repros,            (* reproducers logged, in the order of their numbers       *)
  next_ticket,       (* per MultiClient: its next ticket                        *)
  ticket_map,        (* per MultiClient: ticket -> (real_ticket, client_i)      *)
  asked,             (* per core: the batch asked for under each real ticket    *)
  open,              (* per core: tickets answered and not popped, or answered  *)
                     (* later unless the core is lost before                    *)
  lost,              (* the cores whose connection is lost                      *)
  at,                (* where each worker is                                    *)
  clients,           (* per worker: its list of clients (groups)                *)
  cores,             (* per worker and group: its list of cores                 *)
  to_generate,       (* per worker: the batch it works on                       *)
  picked,            (* per worker: ticket and core index between two locks     *)
  tickets,           (* per worker: tickets scheduled so far, one per client    *)
  collected,         (* per worker: results collected so far                    *)
  to_log             (* per worker: diffs of the batch left to log              *)

shared == <<counter, executed_counter, repros>>
multi == <<next_ticket, ticket_map>>
real == <<asked, open, lost>>
local == <<clients, cores, to_generate, picked, tickets, collected, to_log>>
vars == <<counter, executed_counter, repros, next_ticket, ticket_map, asked, open, lost,
          at, clients, cores, to_generate, picked, tickets, collected, to_log>>

Init ==
  /\ counter = 0
  /\ executed_counter = 0
  /\ repros = <<>>
  /\ next_ticket = [g \in Groups |-> 0]
  /\ ticket_map = [g \in Groups |-> [t \in {} |-> <<>>]]
  /\ asked = [c \in Core |-> <<>>]
  /\ open = [c \in Core |-> {}]
  /\ lost = {}
  /\ at = [w \in Workers |-> "claim"]
  /\ clients = [w \in Workers |-> [i \in Groups |-> i]]
  /\ cores = [w \in Workers |-> [g \in Groups |-> [i \in 1 .. NCores |-> <<g, i>>]]]
  /\ to_generate = [w \in Workers |-> 0]
  /\ picked = [w \in Workers |-> <<>>]
  /\ tickets = [w \in Workers |-> <<>>]
  /\ collected = [w \in Workers |-> <<>>]
  /\ to_log = [w \in Workers |-> 0]

-----------------------------------------------------------------------------
(* Mutant of Claim: the counter is not advanced.                             *)
ClaimAgain(w) ==
  /\ at[w] = "claim"
  /\ counter < MaxCounter
  /\ to_generate' = [to_generate EXCEPT ![w] = counter]
  /\ at' = [at EXCEPT ![w] = "try"]
  /\ UNCHANGED <<shared, multi, real, clients, cores, picked, tickets, collected, to_log>>

(* Mutant of Claim: the counter is read before the lock is taken.            *)
ClaimStale(w) ==
  /\ at[w] = "claim"
  /\ counter < MaxCounter
  /\ \E seen \in {counter, counter - BatchSize} \cap Nat :
       to_generate' = [to_generate EXCEPT ![w] = seen]
  /\ counter' = counter + BatchSize
  /\ at' = [at EXCEPT ![w] = "try"]
  /\ UNCHANGED <<executed_counter, repros, multi, real, clients, cores, picked, tickets,
                 collected, to_log>>

(* Claims the next batch and generates its inputs.                           *)
Claim(w) ==
  /\ at[w] = "claim"
  /\ counter < MaxCounter
  /\ to_generate' = [to_generate EXCEPT ![w] = counter]
  /\ counter' = counter + BatchSize
  /\ at' = [at EXCEPT ![w] = "try"]
  /\ UNCHANGED <<executed_counter, repros, multi, real, clients, cores, picked, tickets,
                 collected, to_log>>

(* The head of the retry loop: with two clients left, the batch is executed;
   otherwise the worker quits, and its batch stays unexecuted.               *)
Try(w) ==
  /\ at[w] = "try"
  /\ at' = [at EXCEPT ![w] = IF Len(clients[w]) >= 2 THEN "schedule" ELSE "quit"]
  /\ tickets' = [tickets EXCEPT ![w] = <<>>]
  /\ collected' = [collected EXCEPT ![w] = <<>>]
  /\ UNCHANGED <<shared, multi, real, clients, cores, to_generate, picked, to_log>>

(* The client the worker schedules on next, and collects from next.          *)
ScheduleOn(w) == clients[w][Len(tickets[w]) + 1]
CollectFrom(w) == clients[w][Len(collected[w]) + 1]

(* Mutant of PickCore: the ticket is not used up.                            *)
PickCoreSameTicket(w) ==
  LET g == ScheduleOn(w)
      our_ticket == next_ticket[g]
  IN  /\ at[w] = "schedule"
      /\ picked' = [picked EXCEPT ![w] =
           [ticket |-> our_ticket, client_i |-> (our_ticket % Len(cores[w][g])) + 1]]
      /\ at' = [at EXCEPT ![w] = "ask"]
      /\ UNCHANGED <<shared, multi, real, clients, cores, to_generate, tickets,
                     collected, to_log>>

(* MultiClient.schedule_packed_inputs, first lock: a ticket, and the core it
   falls on in this worker's list.                                           *)
PickCore(w) ==
  LET g == ScheduleOn(w)
      our_ticket == next_ticket[g]
  IN  /\ at[w] = "schedule"
      /\ next_ticket' = [next_ticket EXCEPT ![g] = our_ticket + 1]
      /\ picked' = [picked EXCEPT ![w] =
           [ticket |-> our_ticket, client_i |-> (our_ticket % Len(cores[w][g])) + 1]]
      /\ at' = [at EXCEPT ![w] = "ask"]
      /\ UNCHANGED <<shared, ticket_map, real, clients, cores, to_generate, tickets,
                     collected, to_log>>

(* The call of the core's schedule_packed_inputs, which takes any ticket even
   when the core is lost, and the second lock: the ticket is mapped.         *)
AskCore(w) ==
  LET g == ScheduleOn(w)
      c == cores[w][g][picked[w].client_i]
      real_ticket == Len(asked[c]) + 1
      all == Append(tickets[w], picked[w].ticket)
  IN  /\ at[w] = "ask"
      /\ asked' = [asked EXCEPT ![c] = Append(@, to_generate[w])]
      /\ open' = IF c \in lost THEN open ELSE [open EXCEPT ![c] = @ \cup {real_ticket}]
      /\ ticket_map' = [ticket_map EXCEPT ![g] =
           [t \in DOMAIN @ \cup {picked[w].ticket} |->
              IF t = picked[w].ticket
              THEN [real_ticket |-> real_ticket, client_i |-> picked[w].client_i]
              ELSE @[t]]]
      /\ tickets' = [tickets EXCEPT ![w] = all]
      /\ picked' = [picked EXCEPT ![w] = <<>>]
      /\ at' = [at EXCEPT ![w] = IF Len(all) = Len(clients[w]) THEN "collect" ELSE "schedule"]
      /\ UNCHANGED <<shared, next_ticket, lost, clients, cores, to_generate, collected, to_log>>

(* The core MultiClient.get_results turns to for the next ticket.            *)
Mapped(w) == ticket_map[CollectFrom(w)][tickets[w][Len(collected[w]) + 1]]
CoreAsked(w) == cores[w][CollectFrom(w)][Mapped(w).client_i]

(* Mutant of CoreLost: the wait is for the results only.                     *)
CoreLostUnnoticed(w) == FALSE

(* The connection is lost and the results had not arrived before.            *)
CoreLost(w) == CoreAsked(w) \in lost /\ Mapped(w).real_ticket \notin open[CoreAsked(w)]

(* The ticket is popped from the map.                                        *)
PopTicket(w) ==
  ticket_map' = [ticket_map EXCEPT ![CollectFrom(w)] =
    [t \in DOMAIN @ \ {tickets[w][Len(collected[w]) + 1]} |-> @[t]]]

(* get_results returns: the results are popped from the core.                *)
Collect(w) ==
  LET c == CoreAsked(w)
      all == Append(collected[w], [core |-> c, batch |-> asked[c][Mapped(w).real_ticket]])
  IN  /\ at[w] = "collect"
      /\ Mapped(w).real_ticket \in open[c]
      /\ open' = [open EXCEPT ![c] = @ \ {Mapped(w).real_ticket}]
      /\ PopTicket(w)
      /\ collected' = [collected EXCEPT ![w] = all]
      /\ at' = [at EXCEPT ![w] = IF Len(all) = Len(clients[w]) THEN "analyse" ELSE "collect"]
      /\ UNCHANGED <<shared, next_ticket, asked, lost, clients, cores, to_generate, picked,
                     tickets, to_log>>

(* Mutant of LoseCore: the MultiClient is removed with its first lost core.  *)
LoseCoreDropsGroup(w) ==
  LET g == CollectFrom(w)
  IN  /\ at[w] = "collect"
      /\ CoreLost(w)
      /\ PopTicket(w)
      /\ clients' = [clients EXCEPT ![w] = SelectSeq(@, LAMBDA x : x # g)]
      /\ at' = [at EXCEPT ![w] = "try"]
      /\ UNCHANGED <<shared, next_ticket, real, cores, to_generate, picked, tickets, collected, to_log>>

(* Mutant of LoseCore: the worker asks for the same ticket again instead of
   executing the batch again.                                                *)
LoseCoreKeepsTicket(w) ==
  LET g == CollectFrom(w)
      left == RemoveAt(cores[w][g], Mapped(w).client_i)
  IN  /\ at[w] = "collect"
      /\ CoreLost(w)
      /\ Mapped(w).client_i <= Len(left)
      /\ cores' = [cores EXCEPT ![w][g] = left]
      /\ UNCHANGED <<shared, multi, real, at, clients, to_generate, picked, tickets, collected, to_log>>

(* get_results raises LostClientException: the core leaves this worker's
   list, the MultiClient too if it was its last one, and the batch is tried
   again.  The tickets on the other clients are forgotten.                   *)
LoseCore(w) ==
  LET g == CollectFrom(w)
      left == RemoveAt(cores[w][g], Mapped(w).client_i)
  IN  /\ at[w] = "collect"
      /\ CoreLost(w)
      /\ PopTicket(w)
      /\ cores' = [cores EXCEPT ![w][g] = left]
      /\ clients' = [clients EXCEPT ![w] =
           IF left = <<>> THEN RemoveAt(@, Len(collected[w]) + 1) ELSE @]
      /\ at' = [at EXCEPT ![w] = "try"]
      /\ UNCHANGED <<shared, next_ticket, real, to_generate, picked, tickets, collected, to_log>>

(* The diff trees of the batch are built; each split will be logged.         *)
Analyse(w) ==
  /\ at[w] = "analyse"
  /\ \E splits \in 0 .. MaxSplits : to_log' = [to_log EXCEPT ![w] = splits]
  /\ at' = [at EXCEPT ![w] = "log"]
  /\ UNCHANGED <<shared, multi, real, clients, cores, to_generate, picked, tickets, collected>>

(* log_repro: the reproducer takes the next number; with too many files this
   worker process, and only this one, exits.                                 *)
LogRepro(w) ==
  /\ at[w] = "log"
  /\ to_log[w] > 0
  /\ repros' = Append(repros, [worker |-> w, batch |-> to_generate[w], from |-> collected[w]])
  /\ to_log' = [to_log EXCEPT ![w] = @ - 1]
  /\ at' = [at EXCEPT ![w] = IF Len(repros) + 1 > MaxRepros THEN "exited" ELSE "log"]
  /\ UNCHANGED <<counter, executed_counter, multi, real, clients, cores, to_generate,
                 picked, tickets, collected>>

(* All logged: the executed inputs are counted, and the next batch claimed.  *)
CountBatch(w) ==
  /\ at[w] = "log"
  /\ to_log[w] = 0
  /\ executed_counter' = executed_counter + BatchSize
  /\ at' = [at EXCEPT ![w] = "claim"]
  /\ UNCHANGED <<counter, repros, multi, real, local>>

(* A connection is lost, at any moment and whatever is scheduled on it.  What
   the core answered before stays; the rest is gone.                         *)
CoreGoesDown(c) ==
  /\ c \notin lost
  /\ Cardinality(lost) < MaxLost
  /\ lost' = lost \cup {c}
  /\ \E answered \in SUBSET open[c] : open' = [open EXCEPT ![c] = answered]
  /\ UNCHANGED <<shared, multi, asked, at, local>>

-----------------------------------------------------------------------------
Step(w) ==
  \/ Claim(w) \/ Try(w)
  \/ PickCore(w) \/ AskCore(w)
  \/ Collect(w) \/ LoseCore(w)
  \/ Analyse(w) \/ LogRepro(w) \/ CountBatch(w)

Next == (\E w \in Workers : Step(w)) \/ (\E c \in Core : CoreGoesDown(c))

Spec == Init /\ [][Next]_vars

(* Workers are scheduled, and a core that is up answers (EveryWaitEnds of
   ClientLink); no core has to fail.                                         *)
FairSpec == Spec /\ \A w \in Workers : WF_vars(Step(w))

-----------------------------------------------------------------------------
(* What must hold.                                                           *)

States == {"claim", "try", "schedule", "ask", "collect", "analyse", "log", "quit", "exited"}

(* Types; a worker's lists are sublists of the clients it was started with.  *)
TypeOK ==
  /\ counter \in Nat /\ executed_counter \in Nat
  /\ \A r \in ToSet(repros) : r.worker \in Workers /\ r.batch \in Nat
  /\ next_ticket \in [Groups -> Nat]
  /\ \A g \in Groups : \A t \in DOMAIN ticket_map[g] :
       t < next_ticket[g] /\ ticket_map[g][t].client_i \in 1 .. NCores
  /\ asked \in [Core -> Seq(Nat)]
  /\ \A c \in Core : open[c] \subseteq 1 .. Len(asked[c])
  /\ lost \subseteq Core
  /\ at \in [Workers -> States]
  /\ clients \in [Workers -> Seq(Groups)]
  /\ cores \in [Workers -> [Groups -> Seq(Core)]]
  /\ to_generate \in [Workers -> Nat]
  /\ to_log \in [Workers -> 0 .. MaxSplits]

(* What a worker analyses are results of its own batch, one list from every
   client left, of at least two different machines: no ticket is looked up on
   another core than it was scheduled on, although lists shrink and tickets
   are spread by their number modulo the length of the list.                 *)
OwnBatchCompared ==
  \A w \in Workers : at[w] \in {"analyse", "log"} =>
    /\ Len(collected[w]) = Len(clients[w])
    /\ Len(collected[w]) >= 2
    /\ \A i \in 1 .. Len(collected[w]) :
         collected[w][i].batch = to_generate[w] /\ collected[w][i].core[1] = clients[w][i]

(* A worker gives up a core only if its connection is lost, and a client only
   if all its cores are.                                                     *)
NoLiveCoreDropped ==
  \A w \in Workers :
    /\ \A g \in Groups, i \in 1 .. NCores : <<g, i>> \notin ToSet(cores[w][g]) => <<g, i>> \in lost
    /\ \A g \in Groups : g \notin ToSet(clients[w]) => {g} \X (1 .. NCores) \subseteq lost

(* The counters the workers share agree with what they do.  Every input below
   counter is executed and counted, in the hands of a worker, or was in the
   hands of a worker that stopped; and the limit on files holds up to one file
   per worker: it stops the worker that crosses it, and the others when they
   log their next reproducer.                                                *)
CountersAgree ==
  /\ counter - executed_counter = BatchSize * Cardinality({w \in Workers : at[w] # "claim"})
  /\ Len(repros) <= MaxRepros + Cardinality(Workers)

(* A batch is logged by one worker only, whose clients agreed on what they
   were asked: retrying after a lost core never logs a batch twice.          *)
BatchLoggedOnce ==
  \A i, j \in 1 .. Len(repros) : repros[i].batch = repros[j].batch =>
    repros[i].worker = repros[j].worker /\ repros[i].from = repros[j].from

(* A batch that was claimed is executed, or its worker stops.                *)
BatchEnds == \A w \in Workers : at[w] = "try" ~> at[w] \in {"claim", "quit", "exited"}
-----------------------------------------------------------------------------
(* The inductive invariant behind the four safety properties, proved in      *)
(* FleetProofs.                                                              *)

(* The types of what TypeOK says nothing of.                                 *)
Types ==
  /\ TypeOK
  /\ repros \in Seq([worker : Workers, batch : Nat, from : Seq([core : Core, batch : Nat])])
  /\ DOMAIN ticket_map = Groups
  /\ \A g \in Groups : \A t \in DOMAIN ticket_map[g] : t \in Nat
  /\ DOMAIN open = Core
  /\ DOMAIN picked = Workers
  /\ tickets \in [Workers -> Seq(Nat)]
  /\ collected \in [Workers -> Seq([core : Core, batch : Nat])]

(* A worker's client list names each MultiClient once, and just the ones with
   a core left; a MultiClient's list holds cores of this MultiClient.        *)
ListsAgree ==
  \A w \in Workers :
    /\ \A i, j \in 1 .. Len(clients[w]) : clients[w][i] = clients[w][j] => i = j
    /\ \A i \in 1 .. Len(clients[w]) : cores[w][clients[w][i]] # <<>>
    /\ \A g \in Groups : cores[w][g] # <<>> => g \in ToSet(clients[w])
    /\ \A g \in Groups :
         /\ Len(cores[w][g]) <= NCores
         /\ \A i \in 1 .. Len(cores[w][g]) : cores[w][g][i][1] = g

(* How far a worker is in scheduling and in collecting.                      *)
Progress ==
  \A w \in Workers :
    /\ at[w] \in {"schedule", "ask", "collect", "analyse", "log"} => Len(clients[w]) >= 2
    /\ at[w] \in {"schedule", "ask"} =>
         Len(tickets[w]) < Len(clients[w]) /\ collected[w] = <<>>
    /\ at[w] = "collect" =>
         Len(tickets[w]) = Len(clients[w]) /\ Len(collected[w]) < Len(clients[w])
    /\ at[w] \in {"analyse", "log"} => Len(collected[w]) = Len(clients[w])

(* The clients whose tickets a worker holds and has not redeemed.            *)
Owed(w) ==
  IF at[w] \in {"schedule", "ask", "collect"}
  THEN Len(collected[w]) + 1 .. Len(tickets[w]) ELSE {}

(* Worker w holds ticket t of MultiClient g: scheduled, or just taken.       *)
Holds(w, g, t) ==
  \/ \E k \in Owed(w) : clients[w][k] = g /\ tickets[w][k] = t
  \/ at[w] = "ask" /\ ScheduleOn(w) = g /\ picked[w].ticket = t

(* A held ticket was given out once, to the worker that holds it.            *)
TicketsUnique ==
  \A g \in Groups, t \in Nat, v \in Workers : Holds(v, g, t) =>
    /\ t < next_ticket[g]
    /\ \A w \in Workers : Holds(w, g, t) => w = v

(* The core a worker has picked is one of its list.                          *)
PickedOK ==
  \A w \in Workers : at[w] = "ask" =>
    picked[w].ticket \in Nat /\ picked[w].client_i \in 1 .. Len(cores[w][ScheduleOn(w)])

(* Every ticket a worker still redeems leads to the worker's own batch, on a
   core of the client it was scheduled on.                                   *)
TicketsLead ==
  \A w \in Workers : \A k \in Owed(w) :
    LET g == clients[w][k]
        m == ticket_map[g][tickets[w][k]]
        c == cores[w][g][m.client_i]
    IN  /\ tickets[w][k] \in DOMAIN ticket_map[g]
        /\ m.client_i \in 1 .. Len(cores[w][g])
        /\ m.real_ticket \in 1 .. Len(asked[c])
        /\ asked[c][m.real_ticket] = to_generate[w]

(* What was collected so far is of the worker's batch, client by client.     *)
CollectedOwn ==
  \A w \in Workers : at[w] \in {"collect", "analyse", "log"} =>
    \A i \in 1 .. Len(collected[w]) :
      collected[w][i].batch = to_generate[w] /\ collected[w][i].core[1] = clients[w][i]

(* A batch in the hands of a worker was claimed by this worker alone, and only
   this worker has logged it, with the results it still holds.               *)
BatchOwned ==
  /\ \A w \in Workers : at[w] # "claim" => to_generate[w] < counter
  /\ \A v, w \in Workers :
       at[v] # "claim" /\ at[w] # "claim" /\ to_generate[v] = to_generate[w] => v = w
  /\ \A i \in 1 .. Len(repros) :
       /\ repros[i].batch < counter
       /\ \A w \in Workers : at[w] # "claim" /\ repros[i].batch = to_generate[w] =>
            /\ repros[i].worker = w
            /\ repros[i].from = collected[w]
            /\ at[w] \in {"log", "exited"}

(* The reproducers above the limit were logged by workers that exited.       *)
ReprosBounded == Len(repros) <= MaxRepros + Cardinality({w \in Workers : at[w] = "exited"})

InFlight == counter - executed_counter = BatchSize * Cardinality({w \in Workers : at[w] # "claim"})

TicketInv == Types /\ ListsAgree /\ Progress /\ TicketsUnique /\ PickedOK /\ TicketsLead /\ CollectedOwn
BatchInv == BatchOwned /\ BatchLoggedOnce /\ ReprosBounded /\ InFlight
IInv == TicketInv /\ BatchInv /\ NoLiveCoreDropped
=============================================================================
