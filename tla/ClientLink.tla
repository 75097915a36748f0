----------------------------- MODULE ClientLink -----------------------------
(***************************************************************************)
(* One connection of the server: the RealClient process that owns the      *)
(* socket of one client core (pyutils/server.py), the worker processes     *)
(* that schedule inputs on it and wait for their results, the TCP          *)
(* connection, and the client program at its other end                     *)
(* (client/src/diffuzz-client.c, start_client).                            *)
(*                                                                         *)
(* A worker puts an entry (ticket, n, packed inputs) into the shared queue *)
(* and blocks in get_results(ticket).  The RealClient process merges       *)
(* queued entries into one batch, sends it, remembers what it sent in      *)
(* in_flight_inputs, and splits the reply of the oldest batch in flight    *)
(* back into one result list per ticket.  The client answers batches one   *)
(* at a time and in order, and may exit at any moment.                     *)
(*                                                                         *)
(* The two loops that run under a lock (merging under condition, splitting *)
(* under result_condition) are stepped one entry at a time; the lock is    *)
(* the guard that keeps the workers' actions out meanwhile.                *)
(***************************************************************************)
EXTENDS Integers, Sequences, FiniteSets, SequencesExt

CONSTANTS
  Workers,       (* the worker processes that share the RealClient           *)
  Requests,      (* what one schedule call may submit: records [n, bytes]    *)
  MaxTickets,    (* bound of the model: tickets ever issued on the link      *)
  MaxBatchN,     (* Server.max_batch_n                                       *)
  MaxInFlight,   (* RealClient.max_in_flight_bytes                           *)
  S2CCapacity,   (* bytes the OS buffers hold from server to client          *)
  C2SCapacity,   (* bytes the OS buffers hold from client to server          *)
  ResultBytes,   (* bytes of one packed result                               *)
  SingleStep     (* RealClient.single_step                                   *)

(* bigger_max_batch_n: room for merging smaller entries.  The same number is
   sent to the client in the handshake as its max_batch_n.                   *)
BiggerMaxBatchN == 2 * MaxBatchN - 1

(* The caller's side of schedule_packed_inputs: one call never asks for more
   than a batch can carry (the assertion on n is commented out in the code)
   and packs fewer bytes than may be in flight (the assertion that is left). *)
ASSUME ConstantsAssumption ==
  /\ MaxTickets \in Nat
  /\ MaxBatchN \in Nat \ {0}
  /\ MaxInFlight \in Nat \ {0}
  /\ S2CCapacity \in Nat
  /\ C2SCapacity \in Nat
  /\ ResultBytes \in Nat
  /\ SingleStep \in BOOLEAN
  /\ Requests \subseteq [n : 1 .. BiggerMaxBatchN, bytes : 0 .. MaxInFlight - 1]

(* An entry of the queue.  Its packed inputs are named, not spelled out: the
   j-th input of ticket t is the pair <<t, j>>.                              *)
Entry == [ticket : Nat, n : Nat, bytes : Nat]
Input == Nat \X Nat
Packed(e) == [j \in 1 .. e.n |-> <<e.ticket, j>>]

(* What the client computes for an input: one result, tied to the input.     *)
RunInput(i) == [ran |-> i]
ResultOf == [ran : Input]

(* A batch under construction, and the message that carries it.              *)
Message == [n : Nat, payload : Seq(Input), bytes : Nat]
EmptyMessage == [n |-> 0, payload |-> <<>>, bytes |-> 0]
EmptyBatch == [parts |-> <<>>, n |-> 0, payload |-> <<>>, bytes |-> 0]
NoReply == [data |-> <<>>, parts |-> <<>>]
NoEntry == [ticket |-> 0, n |-> 0, bytes |-> 0]

VARIABLES
  queue,             (* entries not yet merged into a batch                  *)
  next_ticket,       (* the ticket the next schedule call returns            *)
  pc,                (* where the RealClient process is                      *)
  scan,              (* merge loop: index of the entry looked at             *)
  batch,             (* merge loop: inputs, absolute_n, packed_inputs, size  *)
  in_flight_inputs,  (* per batch sent and not answered: its entries         *)
  in_flight_bytes,   (* per batch sent and not answered: its size            *)
  reply,             (* split loop: data received and entries still to serve *)
  data_index,        (* split loop: how much of the data is consumed         *)
  results,           (* ticket -> its results, until get_results pops them   *)
  is_dead,           (* the connection was lost                              *)
  saved_tickets,     (* saved_exception["tickets"], a set; None is {}        *)
  worker,            (* where each worker is                                 *)
  held,              (* the entry each worker scheduled last                 *)
  ret,               (* what get_results returned to each worker             *)
  s2c, c2s,          (* messages in the two directions of the connection     *)
  client,            (* where the client program is                          *)
  current            (* the batch the client is working on                   *)

sched == <<queue, next_ticket>>
loop == <<scan, batch, reply, data_index>>
flight == <<in_flight_inputs, in_flight_bytes>>
outcome == <<results, is_dead, saved_tickets>>
caller == <<worker, held, ret>>
remote == <<s2c, c2s, client, current>>
vars == <<queue, next_ticket, pc, scan, batch, in_flight_inputs,
          in_flight_bytes, reply, data_index, results, is_dead,
          saved_tickets, worker, held, ret, s2c, c2s, client, current>>

Sum(s) == FoldLeft(LAMBDA x, y : x + y, 0, s)
MessageBytes(s) == Sum([i \in DOMAIN s |-> s[i].bytes])
ReplyBytes(s) == ResultBytes * Sum([i \in DOMAIN s |-> Len(s[i])])

-----------------------------------------------------------------------------
Init ==
  /\ queue = <<>>
  /\ next_ticket = 0
  /\ pc = "fill"
  /\ scan = 1
  /\ batch = EmptyBatch
  /\ in_flight_inputs = <<>>
  /\ in_flight_bytes = <<>>
  /\ reply = NoReply
  /\ data_index = 0
  /\ results = [t \in {} |-> <<>>]
  /\ is_dead = FALSE
  /\ saved_tickets = {}
  /\ worker = [w \in Workers |-> "idle"]
  /\ held = [w \in Workers |-> NoEntry]
  /\ ret = [w \in Workers |-> <<>>]
  /\ s2c = <<>>
  /\ c2s = <<>>
  /\ client = "recv"
  /\ current = EmptyMessage

-----------------------------------------------------------------------------
(* The workers.                                                              *)

(* schedule_packed_inputs: takes the next ticket and queues the entry, at the
   front if it has priority.  It needs condition, which the merge loop holds. *)
Schedule(w, r, priority) ==
  /\ worker[w] = "idle"
  /\ next_ticket < MaxTickets
  /\ pc # "merge"
  /\ LET e == [ticket |-> next_ticket, n |-> r.n, bytes |-> r.bytes]
     IN  /\ queue' = IF priority THEN <<e>> \o queue ELSE Append(queue, e)
         /\ held' = [held EXCEPT ![w] = e]
  /\ next_ticket' = next_ticket + 1
  /\ worker' = [worker EXCEPT ![w] = "scheduled"]
  /\ UNCHANGED <<pc, loop, flight, outcome, ret, remote>>

(* get_results, the predicate of wait_for does not hold: the worker sleeps on
   result_condition until somebody notifies it.                              *)
Sleep(w) ==
  /\ worker[w] \in {"scheduled", "woken"}
  /\ pc # "split"
  /\ held[w].ticket \notin DOMAIN results
  /\ ~is_dead
  /\ worker' = [worker EXCEPT ![w] = "asleep"]
  /\ UNCHANGED <<sched, pc, loop, flight, outcome, held, ret, remote>>

(* get_results, the results are there: they are popped and returned, also on
   a connection that died after it delivered them.                           *)
TakeResults(w) ==
  /\ worker[w] \in {"scheduled", "woken"}
  /\ pc # "split"
  /\ held[w].ticket \in DOMAIN results
  /\ ret' = [ret EXCEPT ![w] = results[held[w].ticket]]
  /\ results' = [t \in DOMAIN results \ {held[w].ticket} |-> results[t]]
  /\ worker' = [worker EXCEPT ![w] = "returned"]
  /\ UNCHANGED <<sched, pc, loop, flight, is_dead, saved_tickets, held, remote>>

(* get_results raises LostClientException; the worker removes the client from
   its list and never schedules on it again.                                 *)
LoseClient(w) ==
  /\ worker[w] \in {"scheduled", "woken"}
  /\ pc # "split"
  /\ held[w].ticket \notin DOMAIN results
  /\ is_dead
  /\ worker' = [worker EXCEPT ![w] = "lost"]
  /\ UNCHANGED <<sched, pc, loop, flight, outcome, held, ret, remote>>

(* The worker has used its results and will generate the next batch.         *)
Resume(w) ==
  /\ worker[w] = "returned"
  /\ worker' = [worker EXCEPT ![w] = "idle"]
  /\ held' = [held EXCEPT ![w] = NoEntry]
  /\ ret' = [ret EXCEPT ![w] = <<>>]
  /\ UNCHANGED <<sched, pc, loop, flight, outcome, remote>>

(* execute_inputs_on_clients collects from its clients in order; when another
   client of the list raises first, the ticket on this one is forgotten.     *)
Abandon(w) ==
  /\ worker[w] = "scheduled"
  /\ worker' = [worker EXCEPT ![w] = "idle"]
  /\ held' = [held EXCEPT ![w] = NoEntry]
  /\ UNCHANGED <<sched, pc, loop, flight, outcome, ret, remote>>

(* result_condition.notify_all: sleeping workers evaluate the predicate again. *)
NotifyAll ==
  worker' = [w \in Workers |-> IF worker[w] = "asleep" THEN "woken" ELSE worker[w]]

-----------------------------------------------------------------------------
(* The RealClient process: send_recv_loop.                                   *)

(* Mutant of MayFill: the bytes in flight are not limited.                   *)
MayFillUnlimited == ~(SingleStep /\ Len(in_flight_inputs) = 1)

(* The condition of the inner while loop and the single-step break.          *)
MayFill ==
  /\ in_flight_inputs = <<>> \/ Sum(in_flight_bytes) < MaxInFlight
  /\ ~(SingleStep /\ Len(in_flight_inputs) = 1)

(* Mutant of BeginMerge: the scan starts before the first entry.             *)
BeginMergeZero ==
  /\ pc = "fill"
  /\ MayFill
  /\ queue # <<>>
  /\ pc' = "merge"
  /\ scan' = 0
  /\ batch' = EmptyBatch
  /\ UNCHANGED <<sched, reply, data_index, flight, outcome, caller, remote>>

(* Takes condition with entries waiting: the merge begins.                   *)
BeginMerge ==
  /\ pc = "fill"
  /\ MayFill
  /\ queue # <<>>
  /\ pc' = "merge"
  /\ scan' = 1
  /\ batch' = EmptyBatch
  /\ UNCHANGED <<sched, reply, data_index, flight, outcome, caller, remote>>

(* Mutant of Fits: one input too many.                                       *)
FitsOneMore(e) == batch.n + e.n <= 2 * MaxBatchN

(* The entry still fits the batch.                                           *)
Fits(e) == batch.n + e.n <= BiggerMaxBatchN

(* absolute_n, inputs and packed_inputs grow by the entry.                   *)
AddToBatch(e) ==
  batch' = [parts   |-> Append(batch.parts, e),
            n       |-> batch.n + e.n,
            payload |-> batch.payload \o Packed(e),
            bytes   |-> batch.bytes + e.bytes]

(* Mutants of MergeEntry: popping the queue without regard to the position,
   and merging without popping.                                              *)
MergeEntryPopHead ==
  /\ pc = "merge"
  /\ scan <= Len(queue)
  /\ Fits(queue[scan])
  /\ AddToBatch(queue[scan])
  /\ queue' = Tail(queue)
  /\ UNCHANGED <<next_ticket, pc, scan, reply, data_index, flight, outcome, caller, remote>>
MergeEntryNoPop ==
  /\ pc = "merge"
  /\ scan <= Len(queue)
  /\ Fits(queue[scan])
  /\ AddToBatch(queue[scan])
  /\ scan' = scan + 1
  /\ UNCHANGED <<sched, pc, reply, data_index, flight, outcome, caller, remote>>

(* The entry looked at still fits: it leaves the queue and joins the batch.  *)
MergeEntry ==
  /\ pc = "merge"
  /\ scan <= Len(queue)
  /\ Fits(queue[scan])
  /\ AddToBatch(queue[scan])
  /\ queue' = RemoveAt(queue, scan)
  /\ UNCHANGED <<next_ticket, pc, scan, reply, data_index, flight, outcome, caller, remote>>

(* It does not fit: it stays where it is.                                    *)
SkipEntry ==
  /\ pc = "merge"
  /\ scan <= Len(queue)
  /\ ~Fits(queue[scan])
  /\ scan' = scan + 1
  /\ UNCHANGED <<sched, pc, batch, reply, data_index, flight, outcome, caller, remote>>

(* All entries looked at: condition is released.                             *)
EndMerge ==
  /\ pc = "merge"
  /\ scan > Len(queue)
  /\ pc' = "send"
  /\ scan' = 1
  /\ UNCHANGED <<sched, batch, reply, data_index, flight, outcome, caller, remote>>

(* The client program has ended and its end of the connection is closed.     *)
Gone == client \in {"exited", "refused"}

(* sendall returns once the OS took every byte: the unread messages and this
   one fit into the buffers, or the client is reading and drains them.       *)
RoomToClient ==
  \/ Gone
  \/ client = "recv" /\ s2c = <<>>
  \/ MessageBytes(s2c) + batch.bytes <= S2CCapacity

(* The two messages of a batch, n and the packed inputs, then the in-flight
   bookkeeping.  After the peer is gone a send may still succeed.            *)
SendBatch ==
  /\ pc = "send"
  /\ RoomToClient
  /\ s2c' = IF Gone THEN s2c
            ELSE Append(s2c, [n |-> batch.n, payload |-> batch.payload,
                              bytes |-> batch.bytes])
  /\ in_flight_inputs' = Append(in_flight_inputs, batch.parts)
  /\ in_flight_bytes' = Append(in_flight_bytes, batch.bytes)
  /\ batch' = EmptyBatch
  /\ pc' = "fill"
  /\ UNCHANGED <<sched, scan, reply, data_index, outcome, caller, c2s, client, current>>

(* The exception handler of run(): the entries at the head of the in-flight
   list are saved as the ones that may have killed the client.               *)
SaveException ==
  /\ saved_tickets' = IF in_flight_inputs = <<>> THEN {}
                      ELSE {e.ticket : e \in ToSet(Head(in_flight_inputs))}
  /\ pc' = "failed"
  /\ UNCHANGED <<sched, loop, flight, results, is_dead, caller, remote>>

(* The send raises because the client is gone.  The batch was popped from the
   queue and is not yet in flight: nobody holds it any more.                 *)
SendFails ==
  /\ pc = "send"
  /\ Gone
  /\ SaveException

(* The inner loop ends: too much in flight, or nothing queued.               *)
EndFill ==
  /\ pc = "fill"
  /\ ~MayFill \/ queue = <<>>
  /\ pc' = "select"
  /\ UNCHANGED <<sched, loop, flight, outcome, caller, remote>>

(* select runs into its 0.3 s timeout.                                       *)
SelectTimeout ==
  /\ pc = "select"
  /\ c2s = <<>>
  /\ ~Gone
  /\ pc' = "fill"
  /\ UNCHANGED <<sched, loop, flight, outcome, caller, remote>>

(* A reply arrived: it belongs to the oldest batch in flight.                *)
RecvReply ==
  /\ pc = "select"
  /\ c2s # <<>>
  /\ reply' = [data |-> Head(c2s), parts |-> Head(in_flight_inputs)]
  /\ data_index' = 0
  /\ c2s' = Tail(c2s)
  /\ in_flight_inputs' = Tail(in_flight_inputs)
  /\ in_flight_bytes' = Tail(in_flight_bytes)
  /\ pc' = "split"
  /\ UNCHANGED <<sched, scan, batch, outcome, caller, s2c, client, current>>

(* The client is gone and every byte it sent is read: recv returns 0 bytes.  *)
RecvFails ==
  /\ pc = "select"
  /\ c2s = <<>>
  /\ Gone
  /\ SaveException

(* Mutant of SplitEntry: every entry is served from the start of the data.   *)
SplitEntryFromStart ==
  /\ pc = "split"
  /\ reply.parts # <<>>
  /\ LET e == Head(reply.parts)
     IN  results' = [t \in DOMAIN results \cup {e.ticket} |->
                       IF t = e.ticket THEN SubSeq(reply.data, 1, e.n) ELSE results[t]]
  /\ reply' = [reply EXCEPT !.parts = Tail(@)]
  /\ UNCHANGED <<sched, pc, scan, batch, data_index, flight, is_dead, saved_tickets, caller, remote>>

(* n results are cut off the data for the next entry of the batch.           *)
SplitEntry ==
  /\ pc = "split"
  /\ reply.parts # <<>>
  /\ LET e == Head(reply.parts)
     IN  /\ results' = [t \in DOMAIN results \cup {e.ticket} |->
                          IF t = e.ticket
                          THEN SubSeq(reply.data, data_index + 1, data_index + e.n)
                          ELSE results[t]]
         /\ data_index' = data_index + e.n
  /\ reply' = [reply EXCEPT !.parts = Tail(@)]
  /\ UNCHANGED <<sched, pc, scan, batch, flight, is_dead, saved_tickets, caller, remote>>

(* Mutant of EndSplit: the workers are not notified.                         *)
EndSplitSilent ==
  /\ pc = "split"
  /\ reply.parts = <<>>
  /\ reply' = NoReply
  /\ data_index' = 0
  /\ pc' = "fill"
  /\ UNCHANGED <<sched, scan, batch, flight, outcome, caller, remote>>

(* All entries served: the workers are notified, result_condition released.  *)
EndSplit ==
  /\ pc = "split"
  /\ reply.parts = <<>>
  /\ NotifyAll
  /\ reply' = NoReply
  /\ data_index' = 0
  /\ pc' = "fill"
  /\ UNCHANGED <<sched, scan, batch, flight, outcome, held, ret, remote>>

(* Mutant of MarkDead: the workers are not notified.                         *)
MarkDeadSilent ==
  /\ pc = "failed"
  /\ is_dead' = TRUE
  /\ pc' = "dead"
  /\ UNCHANGED <<sched, loop, flight, results, saved_tickets, caller, remote>>

(* The end of run(): the connection is marked dead and everybody is woken.   *)
MarkDead ==
  /\ pc = "failed"
  /\ is_dead' = TRUE
  /\ NotifyAll
  /\ pc' = "dead"
  /\ UNCHANGED <<sched, loop, flight, results, saved_tickets, held, ret, remote>>

-----------------------------------------------------------------------------
(* The client program: the main loop of start_client.                        *)

(* Receives n and the inputs; exits if n is above the max_batch_n it was told. *)
ClientRecv ==
  /\ client = "recv"
  /\ s2c # <<>>
  /\ client' = IF Head(s2c).n <= BiggerMaxBatchN THEN "run" ELSE "refused"
  /\ current' = Head(s2c)
  /\ s2c' = Tail(s2c)
  /\ UNCHANGED <<sched, pc, loop, flight, outcome, caller, c2s>>

(* send blocks like sendall does, unless the server waits for this reply.    *)
RoomToServer ==
  \/ pc = "select" /\ c2s = <<>>
  \/ ReplyBytes(c2s) + ResultBytes * current.n <= C2SCapacity

(* Runs the n inputs in order, packs one result for each and sends them.     *)
ClientReply ==
  /\ client = "run"
  /\ RoomToServer
  /\ c2s' = Append(c2s, [i \in 1 .. current.n |-> RunInput(current.payload[i])])
  /\ client' = "recv"
  /\ current' = EmptyMessage
  /\ UNCHANGED <<sched, pc, loop, flight, outcome, caller, s2c>>

(* The client exits: a tested instruction broke it, the machine went down or
   the network failed.  Replies that had not reached the server are lost.    *)
ClientExit ==
  /\ ~Gone
  /\ client' = "exited"
  /\ \E k \in 0 .. Len(c2s) : c2s' = SubSeq(c2s, 1, k)
  /\ s2c' = <<>>
  /\ current' = EmptyMessage
  /\ UNCHANGED <<sched, pc, loop, flight, outcome, caller>>

-----------------------------------------------------------------------------
GetResults(w) == Sleep(w) \/ TakeResults(w) \/ LoseClient(w)

Worker(w) ==
  \/ \E r \in Requests, priority \in BOOLEAN : Schedule(w, r, priority)
  \/ GetResults(w)
  \/ Resume(w)
  \/ Abandon(w)

SendRecvLoop ==
  \/ BeginMerge \/ MergeEntry \/ SkipEntry \/ EndMerge
  \/ SendBatch \/ SendFails \/ EndFill
  \/ SelectTimeout \/ RecvReply \/ RecvFails
  \/ SplitEntry \/ EndSplit \/ MarkDead

ClientLoop == ClientRecv \/ ClientReply

Next ==
  \/ \E w \in Workers : Worker(w)
  \/ SendRecvLoop
  \/ ClientLoop
  \/ ClientExit

Spec == Init /\ [][Next]_vars

(* The OS schedules the three kinds of processes; nothing obliges a worker to
   schedule again, to give up a ticket, or a client to fail.                 *)
FairSpec ==
  /\ Spec
  /\ WF_vars(SendRecvLoop)
  /\ WF_vars(ClientLoop)
  /\ \A w \in Workers : WF_vars(GetResults(w))

-----------------------------------------------------------------------------
(* What must hold.                                                           *)

Waiting(w) == worker[w] \in {"scheduled", "asleep", "woken"}

SchedType == queue \in Seq(Entry) /\ next_ticket \in Nat
LoopType ==
  /\ scan \in Nat \ {0}
  /\ batch \in [parts : Seq(Entry), n : Nat, payload : Seq(Input), bytes : Nat]
  /\ reply \in [data : Seq(ResultOf), parts : Seq(Entry)]
  /\ data_index \in Nat
FlightType ==
  in_flight_inputs \in Seq(Seq(Entry)) /\ in_flight_bytes \in Seq(Nat)
OutcomeType ==
  /\ DOMAIN results \subseteq Nat
  /\ results \in [DOMAIN results -> Seq(ResultOf)]
  /\ is_dead \in BOOLEAN
  /\ saved_tickets \subseteq Nat
CallerType ==
  /\ worker \in [Workers -> {"idle", "scheduled", "asleep", "woken", "returned", "lost"}]
  /\ held \in [Workers -> Entry]
  /\ ret \in [Workers -> Seq(ResultOf)]
RemoteType ==
  /\ s2c \in Seq(Message)
  /\ c2s \in Seq(Seq(ResultOf))
  /\ client \in {"recv", "run", "exited", "refused"}
  /\ current \in Message

(* Every variable keeps its type; the states of the three programs are those
   named in the actions.                                                     *)
TypeOK ==
  /\ pc \in {"fill", "merge", "send", "select", "split", "failed", "dead"}
  /\ SchedType /\ LoopType /\ FlightType /\ OutcomeType /\ CallerType /\ RemoteType

(* get_results hands a worker exactly the results of the inputs it scheduled,
   in order, whatever was merged with them, skipped over or sent meanwhile:
   merging, the reply order and the split by n agree.                        *)
RightResults ==
  \A w \in Workers : worker[w] = "returned" =>
     ret[w] = [j \in 1 .. held[w].n |-> RunInput(<<held[w].ticket, j>>)]

(* All entries somewhere between the schedule call and their results.        *)
AllOf(batches) == UNION {ToSet(batches[i]) : i \in DOMAIN batches}
Entries ==
  ToSet(queue) \cup ToSet(batch.parts) \cup ToSet(reply.parts) \cup AllOf(in_flight_inputs)

(* While the connection works, the entry of a worker that waits is in the
   queue, in the batch being built, in flight or being split, or it is
   answered: no pop of one list forgets the push to the next.                *)
EntryNeverLost ==
  \A w \in Workers : Waiting(w) /\ pc \notin {"failed", "dead"} =>
     held[w] \in Entries \/ held[w].ticket \in DOMAIN results

(* Nobody sleeps through the notification meant for it: a sleeping worker has
   neither a result nor a dead connection to find, except inside the split
   that ends with the notify.                                                *)
NoLostWakeup ==
  \A w \in Workers : worker[w] = "asleep" =>
     /\ ~is_dead
     /\ held[w].ticket \in DOMAIN results => pc = "split"

(* A merged batch never exceeds what the client accepts, so the client never
   exits with "n > max_batch_n".                                             *)
ClientNeverRefuses == client # "refused"

(* The server is never blocked in sendall while the client is blocked in
   send: the limit on bytes in flight keeps the OS buffers from jamming.     *)
BuffersNeverJam ==
  ~ /\ pc = "send" /\ ~RoomToClient
    /\ client = "run" /\ ~RoomToServer

(* An entry is executed once: no ticket is at two places of the pipeline, and
   one that is answered is nowhere else.                                     *)
Pipeline == <<queue, batch.parts, reply.parts>> \o in_flight_inputs
Once(lists) ==
  \A a, b \in DOMAIN lists : \A i \in DOMAIN lists[a], j \in DOMAIN lists[b] :
    lists[a][i].ticket = lists[b][j].ticket => a = b /\ i = j
ExecutedOnce ==
  /\ Once(Pipeline)
  /\ \A a \in DOMAIN Pipeline : \A i \in DOMAIN Pipeline[a] :
       Pipeline[a][i].ticket \notin DOMAIN results

(* A worker that waits in get_results gets its results or the exception.     *)
EveryWaitEnds == \A w \in Workers : Waiting(w) ~> ~Waiting(w)

(* The link is a remote call: seen from the workers, each call is answered
   with the results of its own inputs or fails once the link is down.        *)
Calls == [w \in Workers |-> IF Waiting(w) THEN "waiting" ELSE worker[w]]
Service == INSTANCE TicketService WITH
  Tickets <- 0 .. MaxTickets - 1,
  call  <- Calls,
  asked <- held,
  got   <- ret,
  up    <- ~is_dead

(* Every step of the link is a step of the service or invisible to it.       *)
ImplementsService == Service!Spec

-----------------------------------------------------------------------------
(* The inductive invariant behind RightResults.                              *)

(* The inputs, from position `from` on, are those of the entries `parts` one
   after the other; off[k] is where the k-th entry begins.                   *)
Covers(parts, from, inputs) ==
  \E off \in [1 .. Len(parts) + 1 -> 0 .. Len(inputs)] :
    /\ off[1] = from
    /\ off[Len(parts) + 1] = Len(inputs)
    /\ \A k \in 1 .. Len(parts) :
         /\ off[k + 1] = off[k] + parts[k].n
         /\ \A j \in 1 .. parts[k].n : inputs[off[k] + j] = <<parts[k].ticket, j>>

(* The inputs a list of results was computed from.                           *)
Ran(data) == [i \in 1 .. Len(data) |-> data[i].ran]

Running == IF client = "run" THEN 1 ELSE 0

(* The messages under way, oldest first (replies unread, the batch the client
   works on, batches unread), are the batches in flight, one for one.        *)
WireInv ==
  /\ Len(in_flight_bytes) = Len(in_flight_inputs)
  /\ client # "refused"
  /\ Gone => s2c = <<>>
  /\ Len(c2s) + Running + Len(s2c) <= Len(in_flight_inputs)
  /\ ~Gone => Len(c2s) + Running + Len(s2c) = Len(in_flight_inputs)
  /\ \A i \in 1 .. Len(c2s) : Covers(in_flight_inputs[i], 0, Ran(c2s[i]))
  /\ client = "run" =>
       /\ current.n = Len(current.payload)
       /\ Covers(in_flight_inputs[Len(c2s) + 1], 0, current.payload)
  /\ \A i \in 1 .. Len(s2c) :
       /\ s2c[i].n = Len(s2c[i].payload)
       /\ s2c[i].n <= BiggerMaxBatchN
       /\ Covers(in_flight_inputs[Len(c2s) + Running + i], 0, s2c[i].payload)

(* The batch under construction is laid out like its entries.                *)
BatchInv ==
  /\ batch.n = Len(batch.payload)
  /\ batch.n <= BiggerMaxBatchN
  /\ Covers(batch.parts, 0, batch.payload)
  /\ pc \in {"fill", "select", "split"} => batch = EmptyBatch

(* What is left of a reply is laid out like the entries still to serve.      *)
SplitInv ==
  IF pc = "split" THEN Covers(reply.parts, data_index, Ran(reply.data))
                  ELSE reply = NoReply

(* Tickets are fresh, and no two workers wait with the same one.             *)
TicketInv ==
  /\ \A e \in Entries : e.ticket < next_ticket
  /\ \A t \in DOMAIN results : t < next_ticket
  /\ \A w \in Workers : worker[w] # "idle" => held[w].ticket < next_ticket
  /\ \A v, w \in Workers :
       Waiting(v) /\ Waiting(w) /\ held[v].ticket = held[w].ticket => v = w

(* A waiting worker's ticket names its own entry and its own results only.   *)
OwnInv ==
  \A w \in Workers : Waiting(w) =>
    /\ \A e \in Entries : e.ticket = held[w].ticket => e = held[w]
    /\ held[w].ticket \in DOMAIN results =>
         results[held[w].ticket] = [j \in 1 .. held[w].n |-> RunInput(<<held[w].ticket, j>>)]

(* The conjunction: the wire matches what is in flight, and tickets match.   *)
LinkInv == TypeOK /\ WireInv /\ BatchInv /\ SplitInv /\ TicketInv /\ OwnInv

-----------------------------------------------------------------------------
(* The inductive invariant behind ExecutedOnce, list by list.                *)

TicketsOf(s) == {s[i].ticket : i \in DOMAIN s}
Uniq(s) == \A i, j \in DOMAIN s : s[i].ticket = s[j].ticket => i = j
Apart(S, T) == \A t \in S : t \notin T

(* The queue, the batch and the reply name different tickets, none answered. *)
ListsApart ==
  /\ Uniq(queue) /\ Uniq(batch.parts) /\ Uniq(reply.parts)
  /\ Apart(TicketsOf(queue), TicketsOf(batch.parts))
  /\ Apart(TicketsOf(queue), TicketsOf(reply.parts))
  /\ Apart(TicketsOf(batch.parts), TicketsOf(reply.parts))
  /\ Apart(DOMAIN results, TicketsOf(queue))
  /\ Apart(DOMAIN results, TicketsOf(batch.parts))
  /\ Apart(DOMAIN results, TicketsOf(reply.parts))

(* So does every batch in flight, among themselves and against the lists.    *)
FlightApart ==
  /\ \A k \in DOMAIN in_flight_inputs :
       /\ Uniq(in_flight_inputs[k])
       /\ Apart(TicketsOf(in_flight_inputs[k]), TicketsOf(queue))
       /\ Apart(TicketsOf(in_flight_inputs[k]), TicketsOf(batch.parts))
       /\ Apart(TicketsOf(in_flight_inputs[k]), TicketsOf(reply.parts))
       /\ Apart(TicketsOf(in_flight_inputs[k]), DOMAIN results)
  /\ \A k, l \in DOMAIN in_flight_inputs :
       k # l => Apart(TicketsOf(in_flight_inputs[k]), TicketsOf(in_flight_inputs[l]))

OnceInv == ListsApart /\ FlightApart
=============================================================================
