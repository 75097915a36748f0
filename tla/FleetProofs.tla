---------------------------- MODULE FleetProofs -----------------------------
(***************************************************************************)
(* Proofs about Fleet, for every number of workers, machines, cores and    *)
(* batches, and every order in which cores are lost: no ticket is redeemed *)
(* on another core than it was scheduled on, and the counters agree.       *)
(***************************************************************************)
EXTENDS Fleet, ListLemmas, FiniteSetTheorems, TLAPS

-----------------------------------------------------------------------------
(* The initial states.                                                       *)

(* The workers start with all clients and nothing scheduled.                 *)
LEMMA InitTicketInv == Init => TicketInv
<1>. SUFFICES ASSUME Init PROVE TicketInv
  OBVIOUS
<1>. USE FleetAssumption DEF FleetAssumption
<1>1. Types
  <2>1. [i \in Groups |-> i] \in Seq(Groups)
    BY DEF Groups
  <2>2. \A g \in Groups : [i \in 1 .. NCores |-> <<g, i>>] \in Seq(Core)
    BY DEF Groups, Core
  <2>3. ToSet(repros) = {}
    BY DEF Init, ToSet
  <2>. QED BY <2>1, <2>2, <2>3 DEF Init, Types, TypeOK, States
<1>2. ListsAgree
  <2>1. ASSUME NEW w \in Workers PROVE Len(clients[w]) = NGroups /\ \A i \in Groups : clients[w][i] = i
    BY DEF Init, Groups
  <2>2. ASSUME NEW w \in Workers, NEW g \in Groups
        PROVE  Len(cores[w][g]) = NCores /\ \A i \in 1 .. NCores : cores[w][g][i] = <<g, i>>
    BY DEF Init
  <2>3. \A w \in Workers : ToSet(clients[w]) = Groups
    BY DEF Init, ToSet
  <2>. QED BY <2>1, <2>2, <2>3 DEF ListsAgree, Groups
<1>3. Progress /\ TicketsUnique /\ PickedOK /\ TicketsLead /\ CollectedOwn
  BY DEF Init, Progress, TicketsUnique, Holds, Owed, PickedOK, TicketsLead, CollectedOwn
<1>. QED BY <1>1, <1>2, <1>3 DEF TicketInv

(* No worker has a batch, none is logged, no core is lost.                   *)
LEMMA InitRest == Init => BatchInv /\ NoLiveCoreDropped
<1>. SUFFICES ASSUME Init PROVE BatchInv /\ NoLiveCoreDropped
  OBVIOUS
<1>. USE FleetAssumption DEF FleetAssumption
<1>1. BatchOwned /\ BatchLoggedOnce
  BY DEF Init, BatchOwned, BatchLoggedOnce
<1>2. {w \in Workers : at[w] = "exited"} = {} /\ {w \in Workers : at[w] # "claim"} = {}
  BY DEF Init
<1>3. ReprosBounded /\ InFlight
  <2>1. Cardinality({w \in Workers : at[w] = "exited"}) = 0
    BY <1>2, FS_EmptySet
  <2>2. Cardinality({w \in Workers : at[w] # "claim"}) = 0
    BY <1>2, FS_EmptySet
  <2>3. BatchSize * 0 = 0 /\ Len(repros) = 0 /\ counter - executed_counter = 0
    BY DEF Init
  <2>. QED BY <2>1, <2>2, <2>3 DEF ReprosBounded, InFlight
<1>4. NoLiveCoreDropped
  <2>1. \A w \in Workers : ToSet(clients[w]) = Groups
    BY DEF Init, ToSet
  <2>2. \A w \in Workers, g \in Groups, i \in 1 .. NCores : <<g, i>> \in ToSet(cores[w][g])
    BY DEF Init, ToSet
  <2>. QED BY <2>1, <2>2 DEF NoLiveCoreDropped
<1>. QED BY <1>1, <1>3, <1>4 DEF BatchInv

-----------------------------------------------------------------------------
(* Where a worker stands.                                                    *)

(* A worker that schedules has a client to schedule on, with a core left.    *)
LEMMA Scheduling ==
  ASSUME TicketInv, NEW w \in Workers, at[w] \in {"schedule", "ask"}
  PROVE  /\ Len(tickets[w]) + 1 \in 1 .. Len(clients[w])
         /\ ScheduleOn(w) \in Groups
         /\ Len(cores[w][ScheduleOn(w)]) \in 1 .. NCores
         /\ collected[w] = <<>>
<1>. USE FleetAssumption DEF FleetAssumption
<1>1. clients[w] \in Seq(Groups) /\ cores[w] \in [Groups -> Seq(Core)] /\ tickets[w] \in Seq(Nat)
  BY DEF TicketInv, Types, TypeOK
<1>2. Len(tickets[w]) + 1 \in 1 .. Len(clients[w]) /\ collected[w] = <<>>
  BY <1>1 DEF TicketInv, Progress
<1>3. ScheduleOn(w) \in Groups /\ cores[w][ScheduleOn(w)] # <<>> /\ Len(cores[w][ScheduleOn(w)]) <= NCores
  BY <1>1, <1>2 DEF ScheduleOn, TicketInv, ListsAgree
<1>4. cores[w][ScheduleOn(w)] \in Seq(Core)
  BY <1>1, <1>3
<1>. HIDE DEF ScheduleOn
<1>. QED BY <1>2, <1>3, <1>4

(* The core a worker asks next.                                              *)
LEMMA Asking ==
  ASSUME TicketInv, NEW w \in Workers, at[w] = "ask"
  PROVE  /\ picked[w].ticket \in Nat
         /\ picked[w].ticket < next_ticket[ScheduleOn(w)]
         /\ picked[w].client_i \in 1 .. NCores
         /\ picked[w].client_i \in 1 .. Len(cores[w][ScheduleOn(w)])
         /\ cores[w][ScheduleOn(w)][picked[w].client_i] \in Core
<1>1. picked[w].ticket \in Nat /\ picked[w].client_i \in 1 .. Len(cores[w][ScheduleOn(w)])
  BY DEF TicketInv, PickedOK
<1>2. ScheduleOn(w) \in Groups /\ Len(cores[w][ScheduleOn(w)]) \in 1 .. NCores
  BY Scheduling
<1>3. Holds(w, ScheduleOn(w), picked[w].ticket)
  BY DEF Holds
<1>4. picked[w].ticket < next_ticket[ScheduleOn(w)]
  BY <1>1, <1>2, <1>3 DEF TicketInv, TicketsUnique
<1>5. cores[w][ScheduleOn(w)] \in Seq(Core)
  BY <1>2 DEF TicketInv, Types, TypeOK
<1>6. picked[w].client_i \in 1 .. NCores
  BY <1>1, <1>2, FleetAssumption DEF FleetAssumption
<1>. QED BY <1>1, <1>4, <1>5, <1>6

(* The ticket a worker redeems next leads to its own batch.                  *)
LEMMA Collecting ==
  ASSUME TicketInv, NEW w \in Workers, at[w] = "collect"
  PROVE  /\ Len(collected[w]) + 1 \in Owed(w)
         /\ Len(collected[w]) + 1 \in 1 .. Len(clients[w])
         /\ Len(collected[w]) + 1 \in 1 .. Len(tickets[w])
         /\ CollectFrom(w) \in Groups
         /\ tickets[w][Len(collected[w]) + 1] \in Nat
         /\ tickets[w][Len(collected[w]) + 1] \in DOMAIN ticket_map[CollectFrom(w)]
         /\ Mapped(w).client_i \in 1 .. Len(cores[w][CollectFrom(w)])
         /\ CoreAsked(w) \in Core
         /\ CoreAsked(w)[1] = CollectFrom(w)
         /\ Mapped(w).real_ticket \in 1 .. Len(asked[CoreAsked(w)])
         /\ asked[CoreAsked(w)][Mapped(w).real_ticket] = to_generate[w]
<1>1. /\ clients[w] \in Seq(Groups) /\ cores[w] \in [Groups -> Seq(Core)]
      /\ tickets[w] \in Seq(Nat) /\ collected[w] \in Seq([core : Core, batch : Nat])
  BY DEF TicketInv, Types, TypeOK
<1>2. Len(tickets[w]) = Len(clients[w]) /\ Len(collected[w]) < Len(clients[w])
  BY DEF TicketInv, Progress
<1>3. /\ Len(collected[w]) + 1 \in Owed(w)
      /\ Len(collected[w]) + 1 \in 1 .. Len(clients[w])
      /\ Len(collected[w]) + 1 \in 1 .. Len(tickets[w])
  BY <1>1, <1>2 DEF Owed
<1>4. CollectFrom(w) \in Groups /\ tickets[w][Len(collected[w]) + 1] \in Nat
  BY <1>1, <1>3 DEF CollectFrom
<1>5. /\ tickets[w][Len(collected[w]) + 1] \in DOMAIN ticket_map[CollectFrom(w)]
      /\ Mapped(w).client_i \in 1 .. Len(cores[w][CollectFrom(w)])
      /\ Mapped(w).real_ticket \in 1 .. Len(asked[CoreAsked(w)])
      /\ asked[CoreAsked(w)][Mapped(w).real_ticket] = to_generate[w]
  BY <1>3, Zenon DEF TicketInv, TicketsLead, Mapped, CoreAsked, CollectFrom
<1>6. CoreAsked(w) \in Core /\ CoreAsked(w)[1] = CollectFrom(w)
  <2>1. cores[w][CollectFrom(w)] \in Seq(Core)
    BY <1>1, <1>4
  <2>. QED BY <2>1, <1>4, <1>5 DEF CoreAsked, TicketInv, ListsAgree
<1>. QED BY <1>3, <1>4, <1>5, <1>6
-----------------------------------------------------------------------------
(* The steps, one part of the invariant at a time.                           *)

(* Removing a worker's lost core, and its client if it was the last core.    *)
LEMMA Losing ==
  ASSUME TicketInv, NEW w \in Workers, LoseCore(w)
  PROVE  LET g == CollectFrom(w)
             i == Mapped(w).client_i
             k == Len(collected[w]) + 1
         IN  /\ at[w] = "collect" /\ at' = [at EXCEPT ![w] = "try"]
             /\ cores' = [cores EXCEPT ![w][g] = RemoveAt(@, i)]
             /\ clients' = [clients EXCEPT ![w] =
                  IF RemoveAt(cores[w][g], i) = <<>> THEN RemoveAt(@, k) ELSE @]
             /\ RemoveAt(cores[w][g], i) \in Seq(Core)
             /\ RemoveAt(clients[w], k) \in Seq(Groups)
<1>1. at[w] = "collect"
  BY DEF LoseCore
<1>2. cores[w][CollectFrom(w)] \in Seq(Core) /\ clients[w] \in Seq(Groups)
  <2>1. cores \in [Workers -> [Groups -> Seq(Core)]] /\ clients \in [Workers -> Seq(Groups)]
    BY DEF TicketInv, Types, TypeOK
  <2>2. CollectFrom(w) \in Groups
    BY <1>1, Collecting
  <2>. QED BY <2>1, <2>2
<1>3. /\ RemoveAt(cores[w][CollectFrom(w)], Mapped(w).client_i) \in Seq(Core)
      /\ RemoveAt(clients[w], Len(collected[w]) + 1) \in Seq(Groups)
  BY <1>1, <1>2, Collecting, RemoveAtProperties, SMTT(30)
<1>. QED BY <1>1, <1>3 DEF LoseCore

LEMMA TypesStep == ASSUME TicketInv, [Next]_vars PROVE Types'
<1>. USE FleetAssumption DEF FleetAssumption
<1>0. Types /\ TypeOK
  BY DEF TicketInv, Types
<1>a. /\ at \in [Workers -> States]
      /\ clients \in [Workers -> Seq(Groups)]
      /\ cores \in [Workers -> [Groups -> Seq(Core)]]
      /\ to_generate \in [Workers -> Nat] /\ to_log \in [Workers -> 0 .. MaxSplits]
      /\ tickets \in [Workers -> Seq(Nat)]
      /\ collected \in [Workers -> Seq([core : Core, batch : Nat])]
      /\ next_ticket \in [Groups -> Nat] /\ DOMAIN picked = Workers
      /\ counter \in Nat /\ executed_counter \in Nat
  BY <1>0 DEF Types, TypeOK
<1>1. ASSUME NEW w \in Workers, Claim(w) PROVE Types'
  <2>1. at' \in [Workers -> States] /\ to_generate' \in [Workers -> Nat] /\ counter' \in Nat
    BY <1>a, <1>1 DEF Claim, States
  <2>2. UNCHANGED <<executed_counter, repros, multi, real, clients, cores, picked, tickets, collected, to_log>>
    BY <1>1 DEF Claim
  <2>. QED BY <1>0, <2>1, <2>2 DEF Types, TypeOK, multi, real
<1>2. ASSUME NEW w \in Workers, Try(w) PROVE Types'
  <2>1. /\ at' \in [Workers -> States]
        /\ tickets' \in [Workers -> Seq(Nat)]
        /\ collected' \in [Workers -> Seq([core : Core, batch : Nat])]
    <3>1. at' \in [Workers -> States]
      BY <1>a, <1>2 DEF Try, States
    <3>2. tickets' \in [Workers -> Seq(Nat)]
      BY <1>a, <1>2 DEF Try
    <3>3. collected' \in [Workers -> Seq([core : Core, batch : Nat])]
      <4>. DEFINE Result == [core : Core, batch : Nat]
      <4>1. collected \in [Workers -> Seq(Result)] /\ collected' = [collected EXCEPT ![w] = <<>>]
        BY <1>a, <1>2 DEF Try
      <4>. HIDE DEF Result
      <4>2. collected' \in [Workers -> Seq(Result)]
        BY <4>1
      <4>. QED BY <4>2 DEF Result
    <3>. QED BY <3>1, <3>2, <3>3
  <2>2. UNCHANGED <<shared, multi, real, clients, cores, to_generate, picked, to_log>>
    BY <1>2 DEF Try
  <2>. QED BY <1>0, <2>1, <2>2 DEF Types, TypeOK, shared, multi, real
<1>3. ASSUME NEW w \in Workers, PickCore(w) PROVE Types'
  <2>1. ScheduleOn(w) \in Groups
    BY <1>3, Scheduling DEF PickCore
  <2>2. at' \in [Workers -> States] /\ DOMAIN picked' = Workers
    BY <1>a, <1>3 DEF PickCore, States
  <2>3. next_ticket' \in [Groups -> Nat] /\ \A g \in Groups : next_ticket[g] <= next_ticket'[g]
    BY <1>a, <1>3, <2>1 DEF PickCore
  <2>4. UNCHANGED <<shared, ticket_map, real, clients, cores, to_generate, tickets, collected, to_log>>
    BY <1>3 DEF PickCore
  <2>5. \A g \in Groups : \A t \in DOMAIN ticket_map[g] : t < next_ticket'[g]
    BY <1>0, <1>a, <2>3 DEF Types, TypeOK
  <2>. QED BY <1>0, <2>2, <2>3, <2>4, <2>5 DEF Types, TypeOK, shared, real
<1>4. ASSUME NEW w \in Workers, AskCore(w) PROVE Types'
  <2>. DEFINE g == ScheduleOn(w)
              c == cores[w][g][picked[w].client_i]
  <2>1. /\ at[w] = "ask" /\ g \in Groups /\ c \in Core
        /\ picked[w].ticket \in Nat /\ picked[w].ticket < next_ticket[g]
        /\ picked[w].client_i \in 1 .. NCores
    BY <1>4, Asking, Scheduling, SMTT(30) DEF AskCore
  <2>2. asked' = [asked EXCEPT ![c] = Append(@, to_generate[w])]
    BY <1>4, SMTT(30) DEF AskCore
  <2>3. open' = IF c \in lost THEN open ELSE [open EXCEPT ![c] = @ \cup {Len(asked[c]) + 1}]
    BY <1>4 DEF AskCore
  <2>4. /\ DOMAIN ticket_map' = Groups
        /\ \A h \in Groups : \A t \in DOMAIN ticket_map'[h] :
             t \in Nat /\ t < next_ticket[h] /\ ticket_map'[h][t].client_i \in 1 .. NCores
    BY <1>0, <1>4, <2>1, Zenon DEF AskCore, Types, TypeOK
  <2>5. at' \in [Workers -> States] /\ tickets' \in [Workers -> Seq(Nat)] /\ DOMAIN picked' = Workers
    <3>1. at' = [at EXCEPT ![w] = "collect"] \/ at' = [at EXCEPT ![w] = "schedule"]
      BY <1>4 DEF AskCore
    <3>2. tickets' = [tickets EXCEPT ![w] = Append(@, picked[w].ticket)]
      BY <1>4, SMTT(30) DEF AskCore
    <3>3. tickets' \in [Workers -> Seq(Nat)]
      BY <1>a, <2>1, <3>2, SMTT(30)
    <3>4. DOMAIN picked' = Workers
      BY <1>a, <1>4, SMTT(30) DEF AskCore
    <3>. QED BY <1>a, <3>1, <3>3, <3>4 DEF States
  <2>6. UNCHANGED <<shared, next_ticket, lost, clients, cores, to_generate, collected, to_log>>
    BY <1>4 DEF AskCore
  <2>. HIDE DEF g, c
  <2>7. /\ asked' \in [Core -> Seq(Nat)]
        /\ DOMAIN open' = Core
        /\ \A d \in Core : open'[d] \subseteq 1 .. Len(asked'[d])
    BY <1>0, <2>1, <2>2, <2>3 DEF Types, TypeOK
  <2>. QED BY <1>0, <2>4, <2>5, <2>6, <2>7 DEF Types, TypeOK, shared
<1>5. ASSUME NEW w \in Workers, PopTicket(w), CollectFrom(w) \in Groups
      PROVE  /\ DOMAIN ticket_map' = Groups
             /\ \A h \in Groups : \A t \in DOMAIN ticket_map'[h] :
                  t \in Nat /\ t < next_ticket[h] /\ ticket_map'[h][t].client_i \in 1 .. NCores
  BY <1>0, <1>5 DEF PopTicket, Types, TypeOK
<1>6. ASSUME NEW w \in Workers, Collect(w) PROVE Types'
  <2>1. /\ at[w] = "collect" /\ CollectFrom(w) \in Groups /\ CoreAsked(w) \in Core
        /\ Mapped(w).real_ticket \in 1 .. Len(asked[CoreAsked(w)])
        /\ PopTicket(w)
    BY <1>6, Collecting DEF Collect
  <2>2. asked[CoreAsked(w)][Mapped(w).real_ticket] \in Nat
    BY <1>0, <2>1, SMTT(30) DEF TypeOK
  <2>3. /\ DOMAIN open' = Core
        /\ \A d \in Core : open'[d] \subseteq open[d]
        /\ collected' \in [Workers -> Seq([core : Core, batch : Nat])]
        /\ at' \in [Workers -> States]
    BY <1>0, <1>6, <2>1, <2>2, SMTT(30) DEF Collect, Types, TypeOK, States
  <2>4. UNCHANGED <<shared, next_ticket, asked, lost, clients, cores, to_generate, picked, tickets, to_log>>
    BY <1>6 DEF Collect
  <2>. QED BY <1>0, <1>5, <2>1, <2>3, <2>4 DEF Types, TypeOK, shared
<1>7. ASSUME NEW w \in Workers, LoseCore(w) PROVE Types'
  <2>1. CollectFrom(w) \in Groups /\ PopTicket(w)
    BY <1>7, Collecting DEF LoseCore
  <2>2. /\ clients' \in [Workers -> Seq(Groups)]
        /\ cores' \in [Workers -> [Groups -> Seq(Core)]]
        /\ at' \in [Workers -> States]
    <3>. DEFINE left == RemoveAt(cores[w][CollectFrom(w)], Mapped(w).client_i)
                rest == RemoveAt(clients[w], Len(collected[w]) + 1)
    <3>1. /\ cores' = [cores EXCEPT ![w][CollectFrom(w)] = left]
          /\ clients' = [clients EXCEPT ![w] = IF left = <<>> THEN rest ELSE @]
          /\ at' = [at EXCEPT ![w] = "try"]
          /\ left \in Seq(Core) /\ rest \in Seq(Groups)
      BY <1>7, Losing
    <3>. HIDE DEF left, rest
    <3>2. at' \in [Workers -> States]
      BY <1>a, <3>1 DEF States
    <3>. QED BY <1>a, <2>1, <3>1, <3>2
  <2>3. UNCHANGED <<shared, next_ticket, real, to_generate, picked, tickets, collected, to_log>>
    BY <1>7 DEF LoseCore
  <2>. QED BY <1>0, <1>5, <2>1, <2>2, <2>3 DEF Types, TypeOK, shared, real
<1>8. ASSUME NEW w \in Workers, Analyse(w) PROVE Types'
  <2>1. at' \in [Workers -> States] /\ to_log' \in [Workers -> 0 .. MaxSplits]
    BY <1>a, <1>8 DEF Analyse, States
  <2>2. UNCHANGED <<shared, multi, real, clients, cores, to_generate, picked, tickets, collected>>
    BY <1>8 DEF Analyse
  <2>. QED BY <1>0, <2>1, <2>2 DEF Types, TypeOK, shared, multi, real
<1>9. ASSUME NEW w \in Workers, LogRepro(w) PROVE Types'
  <2>. DEFINE r == [worker |-> w, batch |-> to_generate[w], from |-> collected[w]]
              Repro == [worker : Workers, batch : Nat, from : Seq([core : Core, batch : Nat])]
  <2>1. r \in Repro /\ repros' = Append(repros, r)
    BY <1>0, <1>9 DEF LogRepro, Types, TypeOK
  <2>2. repros' \in Seq(Repro) /\ \A q \in ToSet(repros') : q.worker \in Workers /\ q.batch \in Nat
    <3>1. repros' \in Seq(Repro)
      BY <1>0, <2>1 DEF Types
    <3>2. \A q \in ToSet(repros') : q \in Repro
      <4>. HIDE DEF Repro
      <4>. QED BY <3>1 DEF ToSet
    <3>. QED BY <3>1, <3>2
  <2>3. at' \in [Workers -> States] /\ to_log' \in [Workers -> 0 .. MaxSplits]
    BY <1>0, <1>9 DEF LogRepro, TypeOK, States
  <2>. QED BY <1>0, <1>9, <2>2, <2>3 DEF LogRepro, Types, TypeOK, multi, real
<1>10. ASSUME NEW w \in Workers, CountBatch(w) PROVE Types'
  <2>1. at' \in [Workers -> States] /\ executed_counter' \in Nat
    BY <1>a, <1>10 DEF CountBatch, States
  <2>2. UNCHANGED <<counter, repros, multi, real, local>>
    BY <1>10 DEF CountBatch
  <2>. QED BY <1>0, <2>1, <2>2 DEF Types, TypeOK, multi, real, local
<1>11. ASSUME NEW c \in Core, CoreGoesDown(c) PROVE Types'
  BY <1>0, <1>11 DEF CoreGoesDown, Types, TypeOK, shared, multi, local
<1>12. CASE UNCHANGED vars
  BY <1>0, <1>12 DEF vars, Types, TypeOK
<1>. QED BY <1>1, <1>2, <1>3, <1>4, <1>6, <1>7, <1>8, <1>9, <1>10, <1>11, <1>12 DEF Next, Step
(* The lists of a worker change only when it gives up a core.                *)
LEMMA ListsStep == ASSUME TicketInv, [Next]_vars PROVE ListsAgree'
<1>0. ListsAgree
  BY DEF TicketInv
<1>1. ASSUME UNCHANGED <<clients, cores>> PROVE ListsAgree'
  BY <1>0, <1>1 DEF ListsAgree
<1>2. ASSUME NEW w \in Workers, LoseCore(w) PROVE ListsAgree'
  <2>. DEFINE g == CollectFrom(w)
              i == Mapped(w).client_i
              k == Len(collected[w]) + 1
              left == RemoveAt(cores[w][g], i)
              rest == RemoveAt(clients[w], k)
  <2>1. /\ at[w] = "collect"
        /\ cores' = [cores EXCEPT ![w][g] = left]
        /\ clients' = [clients EXCEPT ![w] = IF left = <<>> THEN rest ELSE @]
    BY <1>2, Losing
  <2>2. /\ g \in Groups /\ k \in 1 .. Len(clients[w]) /\ g = clients[w][k]
        /\ i \in 1 .. Len(cores[w][g])
    BY <2>1, Collecting DEF CollectFrom
  <2>3. cores \in [Workers -> [Groups -> Seq(Core)]] /\ clients \in [Workers -> Seq(Groups)]
    BY DEF TicketInv, Types, TypeOK
  <2>4. cores[w][g] \in Seq(Core) /\ clients[w] \in Seq(Groups)
    BY <2>2, <2>3, SMTT(30)
  <2>5. /\ left \in Seq(Core) /\ Len(left) = Len(cores[w][g]) - 1
        /\ \A j \in 1 .. Len(left) : \E m \in 1 .. Len(cores[w][g]) : left[j] = cores[w][g][m]
    <3>1. /\ left \in Seq(Core) /\ Len(left) = Len(cores[w][g]) - 1
          /\ \A j \in 1 .. Len(cores[w][g]) - 1 :
               left[j] = IF j < i THEN cores[w][g][j] ELSE cores[w][g][j + 1]
      <4>. DEFINE list == cores[w][g]
      <4>1. i \in 1 .. Len(list) /\ list \in Seq(Core)
        BY <2>2, <2>4
      <4>. HIDE DEF list, i
      <4>2. /\ RemoveAt(list, i) \in Seq(Core) /\ Len(RemoveAt(list, i)) = Len(list) - 1
            /\ \A j \in 1 .. Len(list) - 1 : RemoveAt(list, i)[j] = IF j < i THEN list[j] ELSE list[j + 1]
        BY <4>1, RemoveAtProperties
      <4>. QED BY <4>2 DEF list
    <3>. HIDE DEF left
    <3>. QED BY <2>2, <2>4, <3>1
  <2>6. /\ rest \in Seq(Groups) /\ Len(rest) = Len(clients[w]) - 1
        /\ \A j \in 1 .. Len(clients[w]) - 1 :
             rest[j] = IF j < k THEN clients[w][j] ELSE clients[w][j + 1]
        /\ ToSet(clients[w]) = ToSet(rest) \cup {clients[w][k]}
    <3>1. k \in 1 .. Len(clients[w])
      BY <2>2
    <3>. HIDE DEF k
    <3>. QED BY <3>1, <2>4, RemoveAtProperties, SMTT(30)
  <2>7. /\ \A j, m \in 1 .. Len(clients[w]) : clients[w][j] = clients[w][m] => j = m
        /\ \A j \in 1 .. Len(clients[w]) : cores[w][clients[w][j]] # <<>>
        /\ \A h \in Groups : cores[w][h] # <<>> => h \in ToSet(clients[w])
        /\ \A h \in Groups :
             /\ Len(cores[w][h]) <= NCores
             /\ \A j \in 1 .. Len(cores[w][h]) : cores[w][h][j][1] = h
    BY <1>0 DEF ListsAgree
  <2>. HIDE DEF g, i, k, left, rest
  <2>8. /\ cores'[w][g] = left
        /\ \A h \in Groups : h # g => cores'[w][h] = cores[w][h]
        /\ clients'[w] = IF left = <<>> THEN rest ELSE clients[w]
        /\ \A v \in Workers : v # w => cores'[v] = cores[v] /\ clients'[v] = clients[v]
    BY <2>1, <2>2, <2>3
  <2>9. \A h \in Groups :
          /\ Len(cores'[w][h]) <= NCores
          /\ \A j \in 1 .. Len(cores'[w][h]) : cores'[w][h][j][1] = h
    <3>1. Len(left) <= NCores
      BY <2>2, <2>4, <2>5, <2>7, FleetAssumption DEF FleetAssumption
    <3>2. ASSUME NEW j \in 1 .. Len(left) PROVE left[j][1] = g
      <4>1. PICK m \in 1 .. Len(cores[w][g]) : left[j] = cores[w][g][m]
        BY <2>5
      <4>. QED BY <4>1, <2>2, <2>7, SMTT(30)
    <3>. QED BY <2>7, <2>8, <3>1, <3>2
  <2>10. CASE left # <<>>
    <3>1. clients'[w] = clients[w] /\ \A h \in Groups : cores'[w][h] = <<>> <=> cores[w][h] = <<>>
      BY <2>2, <2>4, <2>8, <2>10, <2>7
    <3>2. \A j \in 1 .. Len(clients[w]) : clients[w][j] \in Groups
      BY <2>4
    <3>3. /\ \A j \in 1 .. Len(clients'[w]) : cores'[w][clients'[w][j]] # <<>>
          /\ \A h \in Groups : cores'[w][h] # <<>> => h \in ToSet(clients'[w])
          /\ \A j, m \in 1 .. Len(clients'[w]) : clients'[w][j] = clients'[w][m] => j = m
      BY <2>7, <3>1, <3>2
    <3>. QED BY <1>0, <2>8, <2>9, <3>3, SMTT(30) DEF ListsAgree
  <2>11. CASE left = <<>>
    <3>1. clients'[w] = rest
      BY <2>8, <2>11
    <3>. DEFINE At(j) == IF j < k THEN j ELSE j + 1
    <3>0. ASSUME NEW j \in 1 .. Len(rest)
          PROVE  At(j) \in 1 .. Len(clients[w]) /\ At(j) # k /\ rest[j] = clients[w][At(j)]
      BY <2>2, <2>4, <2>6
    <3>2. ASSUME NEW j \in 1 .. Len(rest), NEW m \in 1 .. Len(rest), rest[j] = rest[m] PROVE j = m
      <4>1. At(j) = At(m)
        <5>. HIDE DEF At
        <5>. QED BY <3>2, <3>0, <2>7
      <4>. QED BY <4>1, <2>2, <2>6
    <3>3. ASSUME NEW j \in 1 .. Len(rest)
          PROVE  rest[j] \in Groups /\ rest[j] # g /\ cores[w][rest[j]] # <<>>
      <4>. HIDE DEF At
      <4>. QED BY <3>0, <2>2, <2>4, <2>7
    <3>4. \A j \in 1 .. Len(rest) : cores'[w][rest[j]] # <<>>
      BY <3>3, <2>8
    <3>5. \A h \in Groups : cores'[w][h] # <<>> => h \in ToSet(rest)
      BY <2>2, <2>6, <2>7, <2>8, <2>11
    <3>. QED BY <1>0, <2>8, <2>9, <3>1, <3>2, <3>4, <3>5 DEF ListsAgree
  <2>. QED BY <2>10, <2>11
<1>3. ASSUME NEW w \in Workers, Step(w), ~LoseCore(w) PROVE UNCHANGED <<clients, cores>>
  BY <1>3, Zenon DEF Step, Claim, Try, PickCore, AskCore, Collect, Analyse, LogRepro, CountBatch, local
<1>. QED BY <1>1, <1>2, <1>3 DEF Next, CoreGoesDown, local, vars
(* A step of worker w leaves what the other workers hold alone.              *)
LEMMA OthersKeep ==
  ASSUME TicketInv, NEW w \in Workers, Step(w), NEW v \in Workers, v # w
  PROVE  /\ at'[v] = at[v] /\ clients'[v] = clients[v] /\ cores'[v] = cores[v]
         /\ to_generate'[v] = to_generate[v] /\ picked'[v] = picked[v]
         /\ tickets'[v] = tickets[v] /\ collected'[v] = collected[v]
<1>0. /\ DOMAIN at = Workers /\ DOMAIN clients = Workers /\ DOMAIN cores = Workers
      /\ DOMAIN to_generate = Workers /\ DOMAIN picked = Workers
      /\ DOMAIN tickets = Workers /\ DOMAIN collected = Workers
  BY DEF TicketInv, Types, TypeOK
<1>1. CASE Claim(w) \/ Try(w) \/ PickCore(w) \/ AskCore(w)
  BY <1>0, <1>1, Zenon DEF Claim, Try, PickCore, AskCore
<1>2. CASE Collect(w) \/ Analyse(w) \/ LogRepro(w) \/ CountBatch(w)
  BY <1>0, <1>2 DEF Collect, Analyse, LogRepro, CountBatch, local
<1>3. CASE LoseCore(w)
  BY <1>0, <1>3 DEF LoseCore
<1>. QED BY <1>1, <1>2, <1>3 DEF Step

(* Scheduling goes on while there are clients left, then collecting does.    *)
LEMMA ProgressStep == ASSUME TicketInv, [Next]_vars PROVE Progress'
<1>0. Progress
  BY DEF TicketInv
<1>a. /\ DOMAIN at = Workers /\ DOMAIN tickets = Workers /\ DOMAIN collected = Workers
  BY DEF TicketInv, Types, TypeOK
<1>1. ASSUME NEW w \in Workers, Step(w) PROVE Progress'
  <2>a. clients[w] \in Seq(Groups) /\ tickets[w] \in Seq(Nat)
        /\ collected[w] \in Seq([core : Core, batch : Nat])
    BY DEF TicketInv, Types, TypeOK
  <2>. DEFINE P ==
         /\ at'[w] \in {"schedule", "ask", "collect", "analyse", "log"} => Len(clients'[w]) >= 2
         /\ at'[w] \in {"schedule", "ask"} =>
              Len(tickets'[w]) < Len(clients'[w]) /\ collected'[w] = <<>>
         /\ at'[w] = "collect" =>
              Len(tickets'[w]) = Len(clients'[w]) /\ Len(collected'[w]) < Len(clients'[w])
         /\ at'[w] \in {"analyse", "log"} => Len(collected'[w]) = Len(clients'[w])
  <2>1. ASSUME Claim(w) \/ Try(w) \/ LoseCore(w) PROVE P
    BY <1>0, <1>a, <2>1, <2>a DEF Claim, Try, LoseCore, Progress
  <2>2. ASSUME PickCore(w) \/ Analyse(w) \/ LogRepro(w) \/ CountBatch(w) PROVE P
    BY <1>0, <1>a, <2>2 DEF PickCore, Analyse, LogRepro, CountBatch, local, Progress
  <2>3. ASSUME AskCore(w) PROVE P
    <3>1. Len(tickets[w]) + 1 \in 1 .. Len(clients[w]) /\ collected[w] = <<>> /\ Len(clients[w]) >= 2
          /\ picked[w].ticket \in Nat
      BY <1>0, <2>3, Scheduling, Asking, SMTT(30) DEF AskCore, Progress
    <3>2. /\ tickets'[w] = Append(tickets[w], picked[w].ticket)
          /\ collected' = collected /\ clients' = clients
          /\ at'[w] = IF Len(Append(tickets[w], picked[w].ticket)) = Len(clients[w])
                      THEN "collect" ELSE "schedule"
      BY <1>a, <2>3 DEF AskCore
    <3>3. Len(Append(tickets[w], picked[w].ticket)) = Len(tickets[w]) + 1
      BY <2>a, <3>1
    <3>. QED BY <3>1, <3>2, <3>3, <2>a, SMTT(30)
  <2>4. ASSUME Collect(w) PROVE P
    <3>1. /\ Len(tickets[w]) = Len(clients[w]) /\ Len(collected[w]) < Len(clients[w])
          /\ Len(clients[w]) >= 2
      BY <1>0, <2>4 DEF Collect, Progress
    <3>2. PICK r : /\ collected'[w] = Append(collected[w], r)
                   /\ at'[w] = IF Len(Append(collected[w], r)) = Len(clients[w])
                               THEN "analyse" ELSE "collect"
                   /\ tickets' = tickets /\ clients' = clients
      BY <1>a, <2>4 DEF Collect
    <3>3. Len(Append(collected[w], r)) = Len(collected[w]) + 1
      BY <2>a
    <3>. QED BY <3>1, <3>2, <3>3, <2>a
  <2>5. P
    BY <1>1, <2>1, <2>2, <2>3, <2>4 DEF Step
  <2>. HIDE DEF P
  <2>6. \A v \in Workers : v # w =>
          at'[v] = at[v] /\ clients'[v] = clients[v] /\ tickets'[v] = tickets[v] /\ collected'[v] = collected[v]
    BY <1>1, OthersKeep
  <2>. QED BY <1>0, <2>5, <2>6 DEF Progress, P
<1>2. ASSUME UNCHANGED <<at, clients, tickets, collected>> PROVE Progress'
  BY <1>0, <1>2 DEF Progress
<1>. QED BY <1>1, <1>2 DEF Next, CoreGoesDown, local, vars

(* A worker comes by a ticket only by taking a new one.                      *)
LEMMA HoldsStep ==
  ASSUME TicketInv, NEW w \in Workers, Step(w), NEW g \in Groups, NEW t \in Nat, Holds(w, g, t)'
  PROVE  Holds(w, g, t) \/ (PickCore(w) /\ g = ScheduleOn(w) /\ t = next_ticket[g])
<1>a. /\ DOMAIN at = Workers /\ DOMAIN tickets = Workers /\ DOMAIN collected = Workers
      /\ DOMAIN picked = Workers
      /\ tickets[w] \in Seq(Nat) /\ collected[w] \in Seq([core : Core, batch : Nat])
      /\ clients[w] \in Seq(Groups)
  BY DEF TicketInv, Types, TypeOK
<1>1. CASE Claim(w) \/ Try(w) \/ LoseCore(w) \/ Analyse(w) \/ LogRepro(w) \/ CountBatch(w)
  BY <1>1, <1>a DEF Claim, Try, LoseCore, Analyse, LogRepro, CountBatch, local, Holds, Owed
<1>2. CASE PickCore(w)
  <2>1. /\ at[w] = "schedule" /\ at'[w] = "ask"
        /\ UNCHANGED <<clients, tickets, collected>>
        /\ picked'[w].ticket = next_ticket[ScheduleOn(w)]
    BY <1>2, <1>a DEF PickCore
  <2>. QED BY <1>2, <2>1 DEF Holds, Owed, ScheduleOn
<1>3. CASE AskCore(w)
  <2>1. /\ at[w] = "ask" /\ at'[w] \in {"schedule", "collect"}
        /\ UNCHANGED <<clients, collected>>
        /\ tickets'[w] = Append(tickets[w], picked[w].ticket)
        /\ collected[w] = <<>> /\ picked[w].ticket \in Nat
    BY <1>3, <1>a, Scheduling, Asking DEF AskCore
  <2>2. PICK k \in 1 .. Len(tickets'[w]) : clients[w][k] = g /\ tickets'[w][k] = t
    BY <2>1 DEF Holds, Owed
  <2>3. CASE k = Len(tickets[w]) + 1
    BY <1>a, <2>1, <2>2, <2>3 DEF Holds, ScheduleOn
  <2>4. CASE k # Len(tickets[w]) + 1
    <3>1. k \in 1 .. Len(tickets[w]) /\ tickets[w][k] = t
      BY <1>a, <2>1, <2>2, <2>4
    <3>2. k \in Owed(w)
      BY <2>1, <3>1, <1>a DEF Owed
    <3>. QED BY <2>2, <3>1, <3>2 DEF Holds
  <2>. QED BY <2>3, <2>4, SMTT(30)
<1>4. CASE Collect(w)
  <2>1. PICK r : /\ collected'[w] = Append(collected[w], r)
                 /\ at[w] = "collect" /\ at'[w] \in {"analyse", "collect"}
                 /\ tickets' = tickets /\ clients' = clients
    BY <1>a, <1>4 DEF Collect
  <2>2. Len(collected'[w]) = Len(collected[w]) + 1
    BY <1>a, <2>1
  <2>. QED BY <1>a, <2>1, <2>2 DEF Holds, Owed
<1>. QED BY <1>1, <1>2, <1>3, <1>4 DEF Step

(* Next_ticket is taken and advanced under one lock: no ticket is given out
   twice.                                                                    *)
LEMMA UniqueStep == ASSUME TicketInv, [Next]_vars PROVE TicketsUnique'
<1>0. TicketsUnique
  BY DEF TicketInv
<1>a. next_ticket \in [Groups -> Nat]
  BY DEF TicketInv, Types, TypeOK
<1>1. ASSUME NEW w \in Workers, Step(w) PROVE TicketsUnique'
  <2>1. ASSUME NEW v \in Workers, v # w, NEW g \in Groups, NEW t \in Nat
        PROVE  Holds(v, g, t)' <=> Holds(v, g, t)
    BY <1>1, <2>1, OthersKeep DEF Holds, Owed, ScheduleOn
  <2>2. CASE PickCore(w)
    <3>1. next_ticket' = [next_ticket EXCEPT ![ScheduleOn(w)] = @ + 1] /\ ScheduleOn(w) \in Groups
      BY <2>2, Scheduling DEF PickCore
    <3>2. \A g \in Groups : next_ticket[g] <= next_ticket'[g] /\ next_ticket'[g] \in Nat
      BY <1>a, <3>1
    <3>3. next_ticket[ScheduleOn(w)] < next_ticket'[ScheduleOn(w)]
      BY <1>a, <3>1
    <3>4. ASSUME NEW g \in Groups, NEW t \in Nat, NEW v \in Workers, Holds(v, g, t)'
          PROVE  t < next_ticket'[g] /\ \A u \in Workers : Holds(u, g, t)' => u = v
      <4>1. Holds(v, g, t) \/ (v = w /\ g = ScheduleOn(w) /\ t = next_ticket[g])
        BY <1>1, <3>4, <2>1, HoldsStep
      <4>2. \A u \in Workers : Holds(u, g, t)' =>
              Holds(u, g, t) \/ (u = w /\ g = ScheduleOn(w) /\ t = next_ticket[g])
        BY <1>1, <2>1, HoldsStep
      <4>3. \A u \in Workers : Holds(u, g, t) =>
              t < next_ticket[g] /\ \A x \in Workers : Holds(x, g, t) => x = u
        BY <1>0 DEF TicketsUnique
      <4>. HIDE DEF Holds
      <4>. QED BY <1>a, <3>2, <3>3, <4>1, <4>2, <4>3
    <3>. QED BY <3>4 DEF TicketsUnique
  <2>3. CASE ~PickCore(w)
    <3>1. \A v \in Workers, g \in Groups, t \in Nat : Holds(v, g, t)' => Holds(v, g, t)
      BY <1>1, <2>1, <2>3, HoldsStep
    <3>2. next_ticket' = next_ticket
      BY <1>1, <2>3, Zenon DEF Step, Claim, Try, AskCore, Collect, LoseCore, Analyse, LogRepro, CountBatch, multi
    <3>. QED BY <1>0, <3>1, <3>2 DEF TicketsUnique
  <2>. QED BY <2>2, <2>3
<1>2. ASSUME UNCHANGED <<next_ticket, at, clients, picked, tickets, collected>> PROVE TicketsUnique'
  BY <1>0, <1>2 DEF TicketsUnique, Holds, Owed, ScheduleOn
<1>. QED BY <1>1, <1>2 DEF Next, CoreGoesDown, local, multi, vars
(* Only the worker itself shortens its lists, and not between two locks.     *)
LEMMA PickedStep == ASSUME TicketInv, [Next]_vars PROVE PickedOK'
<1>0. PickedOK
  BY DEF TicketInv
<1>a. DOMAIN at = Workers /\ DOMAIN picked = Workers
  BY DEF TicketInv, Types, TypeOK
<1>1. ASSUME NEW w \in Workers, Step(w) PROVE PickedOK'
  <2>1. ASSUME at'[w] = "ask"
        PROVE  picked'[w].ticket \in Nat /\ picked'[w].client_i \in 1 .. Len(cores'[w][ScheduleOn(w)'])
    <3>1. PickCore(w)
      BY <1>1, <1>a, <2>1, Zenon DEF Step, Claim, Try, AskCore, Collect, LoseCore, Analyse, LogRepro, CountBatch
    <3>2. /\ ScheduleOn(w) \in Groups /\ Len(cores[w][ScheduleOn(w)]) \in 1 .. NCores
          /\ next_ticket[ScheduleOn(w)] \in Nat
      BY <3>1, Scheduling DEF PickCore, TicketInv, Types, TypeOK
    <3>3. /\ picked'[w].ticket = next_ticket[ScheduleOn(w)]
          /\ picked'[w].client_i = (next_ticket[ScheduleOn(w)] % Len(cores[w][ScheduleOn(w)])) + 1
          /\ UNCHANGED <<clients, cores, tickets>>
      BY <1>a, <3>1 DEF PickCore
    <3>4. ScheduleOn(w)' = ScheduleOn(w)
      BY <3>3 DEF ScheduleOn
    <3>. HIDE DEF ScheduleOn
    <3>5. \A n \in Nat, m \in 1 .. NCores : (n % m) + 1 \in 1 .. m
      BY FleetAssumption DEF FleetAssumption
    <3>. QED BY <3>2, <3>3, <3>4, <3>5, Zenon
  <2>2. ASSUME NEW v \in Workers, v # w
        PROVE  /\ at'[v] = at[v] /\ picked'[v] = picked[v] /\ cores'[v] = cores[v]
               /\ ScheduleOn(v)' = ScheduleOn(v)
    BY <1>1, <2>2, OthersKeep DEF ScheduleOn
  <2>. HIDE DEF ScheduleOn
  <2>. QED BY <1>0, <2>1, <2>2 DEF PickedOK
<1>2. ASSUME UNCHANGED <<at, clients, cores, picked, tickets>> PROVE PickedOK'
  BY <1>0, <1>2 DEF PickedOK, ScheduleOn
<1>. QED BY <1>1, <1>2 DEF Next, CoreGoesDown, local, vars

(* A worker owes a new position only for the ticket it has just mapped.      *)
LEMMA OwedStep ==
  ASSUME TicketInv, NEW w \in Workers, Step(w), NEW k \in Owed(w)'
  PROVE  /\ k \in 1 .. Len(clients[w])
         /\ clients'[w] = clients[w] /\ cores'[w] = cores[w] /\ to_generate'[w] = to_generate[w]
         /\ \/ k \in Owed(w) /\ tickets'[w][k] = tickets[w][k]
            \/ AskCore(w) /\ k = Len(tickets[w]) + 1 /\ tickets'[w][k] = picked[w].ticket
         /\ Collect(w) => k # Len(collected[w]) + 1
         /\ AskCore(w) \/ Collect(w) \/ PickCore(w)
<1>a. /\ DOMAIN at = Workers /\ DOMAIN tickets = Workers /\ DOMAIN collected = Workers
      /\ tickets[w] \in Seq(Nat) /\ collected[w] \in Seq([core : Core, batch : Nat])
      /\ clients[w] \in Seq(Groups)
  BY DEF TicketInv, Types, TypeOK
<1>b. Progress
  BY DEF TicketInv
<1>1. CASE Claim(w) \/ Try(w) \/ LoseCore(w) \/ Analyse(w) \/ LogRepro(w) \/ CountBatch(w)
  BY <1>1, <1>a DEF Claim, Try, LoseCore, Analyse, LogRepro, CountBatch, local, Owed
<1>2. CASE PickCore(w)
  <2>1. /\ at[w] = "schedule" /\ at'[w] = "ask"
        /\ UNCHANGED <<clients, cores, to_generate, tickets, collected>>
    BY <1>2, <1>a DEF PickCore
  <2>2. ~Collect(w) /\ k \in Owed(w) /\ tickets'[w][k] = tickets[w][k]
    BY <2>1 DEF Owed, Collect
  <2>3. k \in 1 .. Len(clients[w])
    BY <1>a, <1>b, <2>1, <2>2 DEF Owed, Progress
  <2>. QED BY <1>2, <2>1, <2>2, <2>3
<1>3. CASE AskCore(w)
  <2>1. /\ at[w] = "ask" /\ at'[w] \in {"schedule", "collect"}
        /\ UNCHANGED <<clients, cores, to_generate, collected>>
        /\ tickets'[w] = Append(tickets[w], picked[w].ticket)
        /\ collected[w] = <<>> /\ picked[w].ticket \in Nat
        /\ Len(tickets[w]) + 1 \in 1 .. Len(clients[w])
    BY <1>3, <1>a, Scheduling, Asking, Zenon DEF AskCore
  <2>2. k \in 1 .. Len(tickets[w]) + 1
    BY <2>1, <1>a DEF Owed
  <2>3. \/ k \in Owed(w) /\ tickets'[w][k] = tickets[w][k]
        \/ k = Len(tickets[w]) + 1 /\ tickets'[w][k] = picked[w].ticket
    BY <1>a, <2>1, <2>2 DEF Owed
  <2>4. ~Collect(w)
    BY <2>1 DEF Collect
  <2>. QED BY <1>3, <1>a, <2>1, <2>2, <2>3, <2>4
<1>4. CASE Collect(w)
  <2>1. PICK r : /\ collected'[w] = Append(collected[w], r)
                 /\ at[w] = "collect" /\ at'[w] \in {"analyse", "collect"}
                 /\ UNCHANGED <<clients, cores, to_generate, tickets>>
    BY <1>a, <1>4 DEF Collect
  <2>2. Len(collected'[w]) = Len(collected[w]) + 1
    BY <1>a, <2>1
  <2>3. Len(tickets[w]) = Len(clients[w])
    BY <1>b, <2>1 DEF Progress
  <2>. QED BY <1>a, <1>4, <2>1, <2>2, <2>3 DEF Owed
<1>. QED BY <1>1, <1>2, <1>3, <1>4 DEF Step

(* What was asked of a core stays recorded.                                  *)
LEMMA AskedGrows ==
  ASSUME TicketInv, NEW w \in Workers, Step(w), NEW c \in Core
  PROVE  /\ Len(asked[c]) <= Len(asked'[c]) /\ Len(asked'[c]) \in Nat /\ Len(asked[c]) \in Nat
         /\ \A j \in 1 .. Len(asked[c]) : asked'[c][j] = asked[c][j]
<1>a. asked \in [Core -> Seq(Nat)] /\ to_generate[w] \in Nat
  BY DEF TicketInv, Types, TypeOK
<1>1. CASE AskCore(w)
  <2>1. PICK d : asked' = [asked EXCEPT ![d] = Append(@, to_generate[w])]
    BY <1>1, Zenon DEF AskCore
  <2>. QED BY <1>a, <2>1
<1>2. CASE ~AskCore(w)
  <2>1. asked' = asked
    BY <1>2 DEF Step, Claim, Try, PickCore, Collect, LoseCore, Analyse, LogRepro, CountBatch, real
  <2>. QED BY <1>a, <2>1
<1>. QED BY <1>1, <1>2

(* The map keeps what a worker owes: an entry is set and popped by the worker
   that holds the ticket, and the worker's clients differ.                   *)
LEMMA MapKept ==
  ASSUME TicketInv, NEW w \in Workers, Step(w), NEW v \in Workers, NEW k \in Owed(v),
         v = w => k \in Owed(w)'
  PROVE  LET g == clients[v][k]
             t == tickets[v][k]
         IN  /\ t \in DOMAIN ticket_map'[g]
             /\ ticket_map'[g][t] = ticket_map[g][t]
<1>. DEFINE g == clients[v][k]
            t == tickets[v][k]
<1>a. /\ DOMAIN ticket_map = Groups
      /\ clients[v] \in Seq(Groups) /\ tickets[v] \in Seq(Nat)
      /\ collected[v] \in Seq([core : Core, batch : Nat])
  BY DEF TicketInv, Types, TypeOK
<1>b. k \in 1 .. Len(clients[v]) /\ k \in 1 .. Len(tickets[v])
  BY <1>a DEF Owed, TicketInv, Progress
<1>c. g \in Groups /\ t \in Nat /\ t \in DOMAIN ticket_map[g]
  <2>1. t \in DOMAIN ticket_map[g]
    BY Zenon DEF TicketInv, TicketsLead
  <2>. QED BY <1>a, <1>b, <2>1, SMTT(30)
<1>d. Holds(v, g, t)
  BY DEF Holds
<1>. HIDE DEF g, t
<1>1. ASSUME NEW h \in Groups, NEW u \in Nat, Holds(w, h, u), v = w => h # g
      PROVE  ~(h = g /\ u = t)
  BY <1>1, <1>c, <1>d DEF TicketInv, TicketsUnique
<1>2. CASE AskCore(w)
  <2>. DEFINE h == ScheduleOn(w)
              u == picked[w].ticket
  <2>1. at[w] = "ask" /\ h \in Groups /\ u \in Nat
    BY <1>2, Scheduling, Asking DEF AskCore
  <2>2. Holds(w, h, u)
    BY <2>1 DEF Holds
  <2>3. v = w => h # g
    <3>1. v = w => k # Len(tickets[w]) + 1 /\ Len(tickets[w]) + 1 \in 1 .. Len(clients[w])
      BY <1>a, <1>b, <2>1, Scheduling, SMTT(30)
    <3>. QED BY <1>b, <3>1 DEF ScheduleOn, g, TicketInv, ListsAgree
  <2>4. PICK m : ticket_map' = [ticket_map EXCEPT ![h] =
          [x \in DOMAIN @ \cup {u} |-> IF x = u THEN m ELSE @[x]]]
    BY <1>2 DEF AskCore
  <2>5. ~(h = g /\ u = t)
    BY <1>1, <2>1, <2>2, <2>3
  <2>. HIDE DEF h, u
  <2>6. t \in DOMAIN ticket_map'[g] /\ ticket_map'[g][t] = ticket_map[g][t]
    BY <1>a, <1>c, <2>1, <2>4, <2>5
  <2>. QED BY <2>6, SMTT(30) DEF g, t
<1>3. CASE Collect(w) \/ LoseCore(w)
  <2>. DEFINE h == CollectFrom(w)
              u == tickets[w][Len(collected[w]) + 1]
  <2>1. /\ at[w] = "collect" /\ h \in Groups /\ u \in Nat
        /\ Len(collected[w]) + 1 \in Owed(w) /\ Len(collected[w]) + 1 \in 1 .. Len(clients[w])
    BY <1>3, Collecting DEF Collect, LoseCore
  <2>2. Holds(w, h, u)
    BY <2>1 DEF Holds, CollectFrom
  <2>3. v = w => h # g
    <3>1. v = w => k # Len(collected[w]) + 1
      BY <1>3, OwedStep, Zenon DEF Step, LoseCore, AskCore, PickCore
    <3>. QED BY <1>b, <2>1, <3>1 DEF CollectFrom, g, TicketInv, ListsAgree
  <2>4. ticket_map' = [ticket_map EXCEPT ![h] = [x \in DOMAIN @ \ {u} |-> @[x]]]
    BY <1>3 DEF Collect, LoseCore, PopTicket
  <2>5. ~(h = g /\ u = t)
    BY <1>1, <2>1, <2>2, <2>3
  <2>. HIDE DEF h, u
  <2>6. t \in DOMAIN ticket_map'[g] /\ ticket_map'[g][t] = ticket_map[g][t]
    BY <1>a, <1>c, <2>1, <2>4, <2>5
  <2>. QED BY <2>6 DEF g, t
<1>4. CASE ~(AskCore(w) \/ Collect(w) \/ LoseCore(w))
  <2>1. ticket_map' = ticket_map
    BY <1>4 DEF Step, Claim, Try, PickCore, Analyse, LogRepro, CountBatch, multi
  <2>. QED BY <1>c, <2>1 DEF g, t
<1>. QED BY <1>2, <1>3, <1>4
(* Every ticket owed leads to its worker's batch still.                      *)
LEMMA LeadStep == ASSUME TicketInv, [Next]_vars PROVE TicketsLead'
<1>0. TicketsLead
  BY DEF TicketInv
<1>1. ASSUME NEW w \in Workers, Step(w) PROVE TicketsLead'
  <2>1. ASSUME NEW v \in Workers, NEW k \in Owed(v), v = w => k \in Owed(w)',
               clients'[v] = clients[v], cores'[v] = cores[v], to_generate'[v] = to_generate[v],
               tickets'[v][k] = tickets[v][k]
        PROVE  LET g == clients'[v][k]
                   m == ticket_map'[g][tickets'[v][k]]
                   c == cores'[v][g][m.client_i]
               IN  /\ tickets'[v][k] \in DOMAIN ticket_map'[g]
                   /\ m.client_i \in 1 .. Len(cores'[v][g])
                   /\ m.real_ticket \in 1 .. Len(asked'[c])
                   /\ asked'[c][m.real_ticket] = to_generate'[v]
    <3>. DEFINE g == clients[v][k]
                m == ticket_map[g][tickets[v][k]]
                c == cores[v][g][m.client_i]
    <3>1. tickets[v][k] \in DOMAIN ticket_map'[g] /\ ticket_map'[g][tickets[v][k]] = m
      BY <1>1, <2>1, MapKept
    <3>2. /\ m.client_i \in 1 .. Len(cores[v][g])
          /\ m.real_ticket \in 1 .. Len(asked[c])
          /\ asked[c][m.real_ticket] = to_generate[v]
      BY <1>0, Zenon DEF TicketsLead
    <3>3. c \in Core
      <4>1. /\ clients[v] \in Seq(Groups) /\ cores[v] \in [Groups -> Seq(Core)]
            /\ tickets[v] \in Seq(Nat) /\ collected[v] \in Seq([core : Core, batch : Nat])
        BY DEF TicketInv, Types, TypeOK
      <4>2. k \in 1 .. Len(clients[v])
        BY <4>1 DEF Owed, TicketInv, Progress
      <4>3. g \in Groups
        BY <4>1, <4>2
      <4>. HIDE DEF g, m
      <4>4. cores[v][g] \in Seq(Core)
        BY <4>1, <4>3
      <4>. QED BY <4>4, <3>2
    <3>4. m.real_ticket \in 1 .. Len(asked'[c]) /\ asked'[c][m.real_ticket] = to_generate[v]
      <4>. HIDE DEF m, c
      <4>. QED BY <1>1, <3>2, <3>3, AskedGrows
    <3>. QED BY <2>1, <3>1, <3>2, <3>4, Zenon
  <2>2. ASSUME NEW v \in Workers, v # w, NEW k \in Owed(v)'
        PROVE  /\ k \in Owed(v)
               /\ clients'[v] = clients[v] /\ cores'[v] = cores[v] /\ to_generate'[v] = to_generate[v]
               /\ tickets'[v][k] = tickets[v][k]
    BY <1>1, <2>2, OthersKeep DEF Owed
  <2>3. ASSUME NEW k \in Owed(w)', AskCore(w), k = Len(tickets[w]) + 1, tickets'[w][k] = picked[w].ticket,
               clients'[w] = clients[w], cores'[w] = cores[w], to_generate'[w] = to_generate[w]
        PROVE  LET g == clients'[w][k]
                   m == ticket_map'[g][tickets'[w][k]]
                   c == cores'[w][g][m.client_i]
               IN  /\ tickets'[w][k] \in DOMAIN ticket_map'[g]
                   /\ m.client_i \in 1 .. Len(cores'[w][g])
                   /\ m.real_ticket \in 1 .. Len(asked'[c])
                   /\ asked'[c][m.real_ticket] = to_generate'[w]
    <3>. DEFINE g == ScheduleOn(w)
                i == picked[w].client_i
                c == cores[w][g][i]
                m == [real_ticket |-> Len(asked[c]) + 1, client_i |-> i]
    <3>1. at[w] = "ask" /\ g \in Groups /\ i \in 1 .. Len(cores[w][g]) /\ c \in Core
      BY <2>3, Scheduling, Asking, SMTT(30) DEF AskCore
    <3>2. /\ asked \in [Core -> Seq(Nat)] /\ to_generate[w] \in Nat /\ DOMAIN ticket_map = Groups
      BY SMTT(30) DEF TicketInv, Types, TypeOK
    <3>3. /\ asked' = [asked EXCEPT ![c] = Append(@, to_generate[w])]
          /\ ticket_map' = [ticket_map EXCEPT ![g] =
               [x \in DOMAIN @ \cup {picked[w].ticket} |-> IF x = picked[w].ticket THEN m ELSE @[x]]]
      BY <2>3 DEF AskCore
    <3>4. clients'[w][k] = g
      BY <2>3 DEF ScheduleOn
    <3>5. m.client_i = i /\ m.real_ticket = Len(asked[c]) + 1
      OBVIOUS
    <3>. HIDE DEF g, i, m
    <3>6. picked[w].ticket \in DOMAIN ticket_map'[g] /\ ticket_map'[g][picked[w].ticket] = m
      BY <3>1, <3>2, <3>3
    <3>7. Len(asked[c]) + 1 \in 1 .. Len(asked'[c]) /\ asked'[c][Len(asked[c]) + 1] = to_generate[w]
      <4>. HIDE DEF c
      <4>. QED BY <3>1, <3>2, <3>3
    <3>8. cores'[w][g][m.client_i] = c
      BY <2>3, <3>5
    <3>. HIDE DEF c
    <3>. QED BY <2>3, <3>1, <3>4, <3>5, <3>6, <3>7, <3>8, Zenon
  <2>4. ASSUME NEW v \in Workers, NEW k \in Owed(v)'
        PROVE  LET g == clients'[v][k]
                   m == ticket_map'[g][tickets'[v][k]]
                   c == cores'[v][g][m.client_i]
               IN  /\ tickets'[v][k] \in DOMAIN ticket_map'[g]
                   /\ m.client_i \in 1 .. Len(cores'[v][g])
                   /\ m.real_ticket \in 1 .. Len(asked'[c])
                   /\ asked'[c][m.real_ticket] = to_generate'[v]
    <3>1. CASE v # w
      BY <3>1, <2>1, <2>2, Zenon
    <3>2. CASE v = w
      <4>1. k \in Owed(w)'
        BY <3>2
      <4>2. /\ clients'[w] = clients[w] /\ cores'[w] = cores[w] /\ to_generate'[w] = to_generate[w]
            /\ \/ k \in Owed(w) /\ tickets'[w][k] = tickets[w][k]
               \/ AskCore(w) /\ k = Len(tickets[w]) + 1 /\ tickets'[w][k] = picked[w].ticket
        BY <1>1, <4>1, OwedStep
      <4>3. CASE k \in Owed(w) /\ tickets'[w][k] = tickets[w][k]
        BY <3>2, <4>1, <4>2, <4>3, <2>1, Zenon
      <4>4. CASE AskCore(w) /\ k = Len(tickets[w]) + 1 /\ tickets'[w][k] = picked[w].ticket
        BY <3>2, <4>1, <4>2, <4>4, <2>3, Zenon
      <4>. QED BY <4>2, <4>3, <4>4, Zenon
    <3>. QED BY <3>1, <3>2, Zenon
  <2>. QED BY <2>4, Zenon DEF TicketsLead
<1>2. ASSUME UNCHANGED <<at, clients, cores, to_generate, tickets, collected, ticket_map, asked>>
      PROVE  TicketsLead'
  BY <1>0, <1>2, Zenon DEF TicketsLead, Owed
<1>. QED BY <1>1, <1>2 DEF Next, CoreGoesDown, local, multi, vars

(* What a worker collects is of its own batch, from the client at this place. *)
LEMMA OwnStep == ASSUME TicketInv, [Next]_vars PROVE CollectedOwn'
<1>0. CollectedOwn
  BY DEF TicketInv
<1>1. ASSUME NEW w \in Workers, Step(w) PROVE CollectedOwn'
  <2>. DEFINE P == at'[w] \in {"collect", "analyse", "log"} =>
                     \A i \in 1 .. Len(collected'[w]) :
                       /\ collected'[w][i].batch = to_generate'[w]
                       /\ collected'[w][i].core[1] = clients'[w][i]
  <2>a. DOMAIN at = Workers /\ DOMAIN collected = Workers
        /\ collected[w] \in Seq([core : Core, batch : Nat])
    BY DEF TicketInv, Types, TypeOK
  <2>1. ASSUME Claim(w) \/ Try(w) \/ PickCore(w) \/ LoseCore(w) \/ CountBatch(w) PROVE P
    BY <2>a, <2>1 DEF Claim, Try, PickCore, LoseCore, CountBatch
  <2>2. ASSUME Analyse(w) \/ LogRepro(w) PROVE P
    BY <1>0, <2>a, <2>2 DEF Analyse, LogRepro, CollectedOwn
  <2>3. ASSUME AskCore(w) PROVE P
    <3>1. collected[w] = <<>> /\ collected' = collected
      BY <2>3, Scheduling DEF AskCore
    <3>. QED BY <3>1
  <2>4. ASSUME Collect(w) PROVE P
    <3>. DEFINE r == [core |-> CoreAsked(w), batch |-> asked[CoreAsked(w)][Mapped(w).real_ticket]]
    <3>1. /\ at[w] = "collect" /\ collected'[w] = Append(collected[w], r)
          /\ clients' = clients /\ to_generate' = to_generate
      BY <2>a, <2>4 DEF Collect
    <3>2. /\ r.batch = to_generate[w] /\ r.core[1] = clients[w][Len(collected[w]) + 1]
      BY <3>1, Collecting DEF CollectFrom
    <3>. HIDE DEF r
    <3>3. \A i \in 1 .. Len(collected[w]) :
            collected[w][i].batch = to_generate[w] /\ collected[w][i].core[1] = clients[w][i]
      BY <1>0, <3>1 DEF CollectedOwn
    <3>4. /\ Len(collected'[w]) = Len(collected[w]) + 1
          /\ collected'[w][Len(collected[w]) + 1] = r
          /\ \A i \in 1 .. Len(collected[w]) : collected'[w][i] = collected[w][i]
      BY <2>a, <3>1
    <3>. QED BY <2>a, <3>1, <3>2, <3>3, <3>4
  <2>5. P
    BY <1>1, <2>1, <2>2, <2>3, <2>4 DEF Step
  <2>6. \A v \in Workers : v # w =>
          at'[v] = at[v] /\ clients'[v] = clients[v] /\ to_generate'[v] = to_generate[v] /\ collected'[v] = collected[v]
    BY <1>1, OthersKeep
  <2>. HIDE DEF P
  <2>. QED BY <1>0, <2>5, <2>6 DEF CollectedOwn, P
<1>2. ASSUME UNCHANGED <<at, clients, to_generate, collected>> PROVE CollectedOwn'
  BY <1>0, <1>2 DEF CollectedOwn
<1>. QED BY <1>1, <1>2 DEF Next, CoreGoesDown, local, vars
-----------------------------------------------------------------------------
(* The batches, the counters and the lost cores.                             *)

(* A batch is claimed under the lock of the counter, by one worker.          *)
LEMMA OwnedStep == ASSUME IInv, [Next]_vars PROVE BatchOwned' /\ BatchLoggedOnce'
<1>0. BatchOwned /\ BatchLoggedOnce /\ TicketInv
  BY DEF IInv, BatchInv
<1>a. /\ at \in [Workers -> States] /\ to_generate \in [Workers -> Nat] /\ counter \in Nat
      /\ repros \in Seq([worker : Workers, batch : Nat, from : Seq([core : Core, batch : Nat])])
      /\ DOMAIN collected = Workers
  BY <1>0 DEF TicketInv, Types, TypeOK
<1>b. \A i \in 1 .. Len(repros) : repros[i].batch \in Nat
  <2>. DEFINE Repro == [worker : Workers, batch : Nat, from : Seq([core : Core, batch : Nat])]
  <2>1. \A i \in 1 .. Len(repros) : repros[i] \in Repro
    <3>1. repros \in Seq(Repro)
      BY <1>a
    <3>. HIDE DEF Repro
    <3>. QED BY <3>1
  <2>. QED BY <2>1
<1>1. ASSUME NEW w \in Workers, Claim(w) PROVE BatchOwned' /\ BatchLoggedOnce'
  <2>1. /\ to_generate' = [to_generate EXCEPT ![w] = counter]
        /\ counter' = counter + BatchSize /\ BatchSize \in Nat \ {0}
        /\ at' = [at EXCEPT ![w] = "try"] /\ at[w] = "claim"
        /\ UNCHANGED <<repros, collected>>
    BY <1>1, FleetAssumption DEF Claim, FleetAssumption
  <2>2. \A v \in Workers : v # w => at'[v] = at[v] /\ to_generate'[v] = to_generate[v]
    BY <1>a, <2>1
  <2>3. at'[w] = "try" /\ to_generate'[w] = counter /\ counter < counter'
    BY <1>a, <2>1
  <2>4. \A v \in Workers : at'[v] # "claim" =>
          /\ to_generate'[v] < counter'
          /\ v # w => at[v] # "claim" /\ to_generate[v] < counter
    BY <1>0, <1>a, <2>1, <2>2, <2>3 DEF BatchOwned
  <2>5. \A i \in 1 .. Len(repros) : repros[i].batch < counter /\ repros[i].batch < counter'
    BY <1>0, <1>a, <1>b, <2>1, <2>3, SMTT(30) DEF BatchOwned
  <2>6. \A v, u \in Workers :
          at'[v] # "claim" /\ at'[u] # "claim" /\ to_generate'[v] = to_generate'[u] => v = u
    <3>1. \A v, u \in Workers : v # w /\ u # w =>
            (at'[v] # "claim" /\ at'[u] # "claim" /\ to_generate'[v] = to_generate'[u] => v = u)
      BY <1>0, <2>2 DEF BatchOwned
    <3>2. \A v \in Workers : v # w /\ at'[v] # "claim" => to_generate'[v] # to_generate'[w]
      BY <1>a, <2>2, <2>3, <2>4
    <3>. QED BY <3>1, <3>2
  <2>7. ASSUME NEW i \in 1 .. Len(repros), NEW v \in Workers, at'[v] # "claim",
               repros[i].batch = to_generate'[v]
        PROVE  repros[i].worker = v /\ repros[i].from = collected[v] /\ at'[v] \in {"log", "exited"}
    <3>1. v # w
      BY <1>a, <1>b, <2>3, <2>5, <2>7
    <3>. QED BY <1>0, <2>2, <2>4, <2>7, <3>1 DEF BatchOwned
  <2>8. BatchLoggedOnce'
    BY <1>0, <2>1 DEF BatchLoggedOnce
  <2>. QED BY <2>1, <2>4, <2>5, <2>6, <2>7, <2>8 DEF BatchOwned
<1>2. ASSUME NEW w \in Workers, at[w] \notin {"claim", "log", "exited"},
             at'[w] # "claim", at' = [at EXCEPT ![w] = at'[w]],
             \A v \in Workers : v # w => collected'[v] = collected[v],
             UNCHANGED <<counter, repros, to_generate>>
      PROVE  BatchOwned' /\ BatchLoggedOnce'
  <2>1. \A v \in Workers : /\ at'[v] # "claim" <=> at[v] # "claim"
                           /\ at[v] \in {"log", "exited"} => v # w /\ at'[v] = at[v]
    BY <1>a, <1>2
  <2>. QED BY <1>0, <1>2, <2>1 DEF BatchOwned, BatchLoggedOnce
<1>3. ASSUME NEW w \in Workers, Try(w) \/ PickCore(w) \/ AskCore(w) \/ Collect(w) \/ LoseCore(w) \/ Analyse(w)
      PROVE  BatchOwned' /\ BatchLoggedOnce'
  <2>1. /\ at[w] \notin {"claim", "log", "exited"} /\ at'[w] # "claim"
        /\ at' = [at EXCEPT ![w] = at'[w]]
    BY <1>3, <1>a, Zenon DEF Try, PickCore, AskCore, Collect, LoseCore, Analyse
  <2>2. UNCHANGED <<counter, repros, to_generate>>
    BY <1>3, Zenon DEF Try, PickCore, AskCore, Collect, LoseCore, Analyse, shared
  <2>3. \A v \in Workers : v # w => collected'[v] = collected[v]
    BY <1>0, <1>3, OthersKeep DEF Step
  <2>. QED BY <1>2, <2>1, <2>2, <2>3
<1>4. ASSUME NEW w \in Workers, LogRepro(w) PROVE BatchOwned' /\ BatchLoggedOnce'
  <2>. DEFINE r == [worker |-> w, batch |-> to_generate[w], from |-> collected[w]]
              n == Len(repros) + 1
  <2>1. /\ at[w] = "log" /\ at'[w] \in {"log", "exited"}
        /\ \A v \in Workers : v # w => at'[v] = at[v]
        /\ repros' = Append(repros, r)
        /\ UNCHANGED <<counter, to_generate, collected>>
    BY <1>4, <1>a DEF LogRepro
  <2>2. r.worker = w /\ r.batch = to_generate[w] /\ r.from = collected[w]
    OBVIOUS
  <2>. HIDE DEF r
  <2>3. /\ Len(repros') = n /\ n \in Nat /\ repros'[n] = r
        /\ \A i \in 1 .. Len(repros) : repros'[i] = repros[i]
    BY <1>a, <2>1
  <2>4. \A i \in 1 .. n : i = n \/ i \in 1 .. Len(repros)
    BY <1>a
  <2>. HIDE DEF n
  <2>5. \A v \in Workers : v # w /\ at[v] # "claim" => to_generate[v] # to_generate[w]
    BY <1>0, <2>1 DEF BatchOwned
  <2>6. to_generate[w] < counter
    BY <1>0, <2>1 DEF BatchOwned
  <2>7. BatchOwned'
    <3>1. \A v \in Workers : at'[v] # "claim" => at[v] # "claim"
      BY <2>1
    <3>2. \A v \in Workers : at[v] \in {"log", "exited"} => at'[v] \in {"log", "exited"}
      BY <2>1
    <3>. QED BY <1>0, <2>1, <2>2, <2>3, <2>4, <2>5, <2>6, <3>1, <3>2 DEF BatchOwned
  <2>8. BatchLoggedOnce'
    <3>1. \A i \in 1 .. Len(repros) : repros[i].batch = to_generate[w] =>
            repros[i].worker = w /\ repros[i].from = collected[w]
      BY <1>0, <2>1 DEF BatchOwned
    <3>. QED BY <1>0, <2>2, <2>3, <2>4, <3>1 DEF BatchLoggedOnce
  <2>. QED BY <2>7, <2>8
<1>5. ASSUME NEW w \in Workers, CountBatch(w) PROVE BatchOwned' /\ BatchLoggedOnce'
  <2>1. /\ at' = [at EXCEPT ![w] = "claim"]
        /\ UNCHANGED <<counter, repros, to_generate, collected>>
    BY <1>5 DEF CountBatch, local
  <2>. QED BY <1>0, <1>a, <2>1 DEF BatchOwned, BatchLoggedOnce
<1>6. ASSUME UNCHANGED <<counter, repros, at, to_generate, collected>> PROVE BatchOwned' /\ BatchLoggedOnce'
  BY <1>0, <1>6 DEF BatchOwned, BatchLoggedOnce
<1>. QED BY <1>1, <1>3, <1>4, <1>5, <1>6 DEF Next, Step, CoreGoesDown, shared, local, vars

(* One batch of inputs is between the counters for every worker that is not
   claiming, and every reproducer above the limit ends its worker.           *)
LEMMA CountStep == ASSUME IInv, [Next]_vars PROVE InFlight' /\ ReprosBounded'
<1>. DEFINE Busy == {v \in Workers : at[v] # "claim"}
            Gone == {v \in Workers : at[v] = "exited"}
<1>0. InFlight /\ ReprosBounded /\ TicketInv
  BY DEF IInv, BatchInv
<1>a. /\ at \in [Workers -> States] /\ counter \in Nat /\ executed_counter \in Nat
      /\ Len(repros) \in Nat /\ repros \in Seq([worker : Workers, batch : Nat, from : Seq([core : Core, batch : Nat])])
  BY <1>0 DEF TicketInv, Types, TypeOK
<1>b. IsFiniteSet(Workers) /\ BatchSize \in Nat /\ MaxRepros \in Nat
  BY FleetAssumption DEF FleetAssumption
<1>c. IsFiniteSet(Busy) /\ IsFiniteSet(Gone)
  BY <1>b, FS_Subset
<1>d. Cardinality(Busy) \in Nat /\ Cardinality(Gone) \in Nat
  BY <1>c, FS_CardinalityType
<1>e. /\ counter - executed_counter = BatchSize * Cardinality(Busy)
      /\ Len(repros) <= MaxRepros + Cardinality(Gone)
  BY <1>0 DEF InFlight, ReprosBounded
<1>f. \A a \in Int, b, n, m \in Nat : n = m + 1 /\ a = b * n => a - b = b * m
  OBVIOUS
<1>g. \A a \in Int, b, n, m \in Nat : n = m + 1 /\ a = b * m => a + b = b * n
  OBVIOUS
<1>. HIDE DEF Busy, Gone
<1>1. ASSUME NEW w \in Workers, Claim(w) PROVE InFlight' /\ ReprosBounded'
  <2>1. /\ at' = [at EXCEPT ![w] = "try"] /\ at[w] = "claim"
        /\ counter' = counter + BatchSize /\ UNCHANGED <<executed_counter, repros>>
    BY <1>1 DEF Claim
  <2>2. Busy' = Busy \cup {w} /\ w \notin Busy /\ Gone' = Gone
    BY <1>a, <2>1 DEF Busy, Gone
  <2>3. Cardinality(Busy') = Cardinality(Busy) + 1 /\ Cardinality(Gone') = Cardinality(Gone)
    BY <1>c, <2>2, FS_AddElement
  <2>4. counter' - executed_counter' = BatchSize * Cardinality(Busy')
    <3>. DEFINE d == counter - executed_counter
    <3>1. counter' - executed_counter' = d + BatchSize /\ d \in Int
      BY <1>a, <1>b, <2>1
    <3>2. d = BatchSize * Cardinality(Busy)
      BY <1>e
    <3>. HIDE DEF d
    <3>. QED BY <1>b, <1>d, <1>g, <2>3, <3>1, <3>2
  <2>. QED BY <1>e, <2>1, <2>3, <2>4 DEF InFlight, ReprosBounded, Busy, Gone
<1>2. ASSUME NEW w \in Workers, CountBatch(w) PROVE InFlight' /\ ReprosBounded'
  <2>1. /\ at' = [at EXCEPT ![w] = "claim"] /\ at[w] = "log"
        /\ executed_counter' = executed_counter + BatchSize /\ UNCHANGED <<counter, repros>>
    BY <1>2 DEF CountBatch
  <2>2. Busy' = Busy \ {w} /\ w \in Busy /\ Gone' = Gone
    BY <1>a, <2>1 DEF Busy, Gone
  <2>3. /\ Cardinality(Busy) = Cardinality(Busy') + 1 /\ Cardinality(Busy') \in Nat
        /\ Cardinality(Gone') = Cardinality(Gone)
    <3>1. Cardinality(Busy') = Cardinality(Busy) - 1
      BY <1>c, <2>2, FS_RemoveElement
    <3>2. IsFiniteSet(Busy')
      BY <1>c, <2>2, FS_RemoveElement
    <3>3. Cardinality(Busy') \in Nat
      BY <3>2, FS_CardinalityType
    <3>. QED BY <1>d, <2>2, <3>1, <3>3
  <2>4. counter' - executed_counter' = BatchSize * Cardinality(Busy')
    <3>. DEFINE d == counter - executed_counter
    <3>1. counter' - executed_counter' = d - BatchSize /\ d \in Int
      BY <1>a, <1>b, <2>1
    <3>2. d = BatchSize * Cardinality(Busy)
      BY <1>e
    <3>. HIDE DEF d
    <3>. QED BY <1>b, <1>d, <1>f, <2>3, <3>1, <3>2
  <2>. QED BY <1>e, <2>1, <2>3, <2>4 DEF InFlight, ReprosBounded, Busy, Gone
<1>3. ASSUME NEW w \in Workers, LogRepro(w) PROVE InFlight' /\ ReprosBounded'
  <2>1. /\ at' = [at EXCEPT ![w] = IF Len(repros) + 1 > MaxRepros THEN "exited" ELSE "log"] /\ at[w] = "log"
        /\ UNCHANGED <<counter, executed_counter>>
    BY <1>3 DEF LogRepro
  <2>2. Len(repros') = Len(repros) + 1
    BY <1>a, <1>3 DEF LogRepro
  <2>3. Busy' = Busy
    BY <1>a, <2>1 DEF Busy
  <2>4. CASE Len(repros) + 1 > MaxRepros
    <3>1. Gone' = Gone \cup {w} /\ w \notin Gone
      BY <1>a, <2>1, <2>4 DEF Gone
    <3>2. Cardinality(Gone') = Cardinality(Gone) + 1
      BY <1>c, <3>1, FS_AddElement
    <3>3. Len(repros') <= MaxRepros + Cardinality(Gone')
      BY <1>a, <1>b, <1>d, <1>e, <2>2, <3>2
    <3>. QED BY <1>e, <2>1, <2>3, <3>3 DEF InFlight, ReprosBounded, Busy, Gone
  <2>5. CASE ~(Len(repros) + 1 > MaxRepros)
    <3>1. Gone' = Gone
      BY <1>a, <2>1, <2>5 DEF Gone
    <3>2. Len(repros') <= MaxRepros + Cardinality(Gone')
      BY <1>a, <1>b, <1>d, <2>2, <2>5, <3>1
    <3>. QED BY <1>e, <2>1, <2>3, <3>2 DEF InFlight, ReprosBounded, Busy, Gone
  <2>. QED BY <2>4, <2>5
<1>4. ASSUME Busy' = Busy, Gone' = Gone, UNCHANGED shared PROVE InFlight' /\ ReprosBounded'
  BY <1>0, <1>4, Zenon DEF InFlight, ReprosBounded, shared, Busy, Gone
<1>5. ASSUME NEW w \in Workers, Try(w) \/ PickCore(w) \/ AskCore(w) \/ Collect(w) \/ LoseCore(w) \/ Analyse(w)
      PROVE  InFlight' /\ ReprosBounded'
  <2>1. /\ at[w] \notin {"claim", "exited"} /\ at'[w] \notin {"claim", "exited"}
        /\ at' = [at EXCEPT ![w] = at'[w]] /\ UNCHANGED shared
    BY <1>5, <1>a, Zenon DEF Try, PickCore, AskCore, Collect, LoseCore, Analyse
  <2>2. Busy' = Busy /\ Gone' = Gone
    BY <1>a, <2>1 DEF Busy, Gone
  <2>. QED BY <1>4, <2>1, <2>2
<1>6. ASSUME UNCHANGED <<at, shared>> PROVE InFlight' /\ ReprosBounded'
  BY <1>4, <1>6 DEF Busy, Gone
<1>. QED BY <1>1, <1>2, <1>3, <1>5, <1>6 DEF Next, Step, CoreGoesDown, shared, vars
(* A worker removes a core from its list after its connection was lost.      *)
LEMMA LiveStep == ASSUME IInv, [Next]_vars PROVE NoLiveCoreDropped'
<1>0. NoLiveCoreDropped /\ TicketInv
  BY DEF IInv
<1>1. ASSUME UNCHANGED <<clients, cores>>, lost \subseteq lost' PROVE NoLiveCoreDropped'
  BY <1>0, <1>1 DEF NoLiveCoreDropped
<1>2. ASSUME NEW w \in Workers, LoseCore(w) PROVE NoLiveCoreDropped'
  <2>. DEFINE g == CollectFrom(w)
              i == Mapped(w).client_i
              k == Len(collected[w]) + 1
              left == RemoveAt(cores[w][g], i)
              rest == RemoveAt(clients[w], k)
  <2>1. /\ at[w] = "collect" /\ lost' = lost
        /\ cores' = [cores EXCEPT ![w][g] = left]
        /\ clients' = [clients EXCEPT ![w] = IF left = <<>> THEN rest ELSE @]
    BY <1>0, <1>2, Losing DEF LoseCore, real
  <2>2. /\ g \in Groups /\ k \in 1 .. Len(clients[w]) /\ g = clients[w][k]
        /\ i \in 1 .. Len(cores[w][g])
    BY <1>0, <2>1, Collecting DEF CollectFrom
  <2>3. cores \in [Workers -> [Groups -> Seq(Core)]] /\ clients \in [Workers -> Seq(Groups)]
    BY <1>0 DEF TicketInv, Types, TypeOK
  <2>4. cores[w][g] \in Seq(Core) /\ clients[w] \in Seq(Groups)
    BY <2>2, <2>3
  <2>5. ToSet(cores[w][g]) = ToSet(left) \cup {cores[w][g][i]}
    <3>1. i \in 1 .. Len(cores[w][g])
      BY <2>2
    <3>. HIDE DEF g, i
    <3>. QED BY <3>1, <2>4, RemoveAtProperties, SMTT(30)
  <2>6. ToSet(clients[w]) = ToSet(rest) \cup {clients[w][k]}
    <3>1. k \in 1 .. Len(clients[w])
      BY <2>2
    <3>. HIDE DEF k
    <3>. QED BY <3>1, <2>4, RemoveAtProperties, SMTT(30)
  <2>7. cores[w][g][i] \in lost
    BY <1>2 DEF LoseCore, CoreLost, CoreAsked
  <2>. HIDE DEF g, i, k, left, rest
  <2>8. /\ cores'[w][g] = left
        /\ \A h \in Groups : h # g => cores'[w][h] = cores[w][h]
        /\ clients'[w] = IF left = <<>> THEN rest ELSE clients[w]
        /\ \A v \in Workers : v # w => cores'[v] = cores[v] /\ clients'[v] = clients[v]
    BY <2>1, <2>2, <2>3
  <2>9. \A h \in Groups, j \in 1 .. NCores : <<h, j>> \notin ToSet(cores'[w][h]) => <<h, j>> \in lost
    BY <1>0, <2>2, <2>5, <2>7, <2>8 DEF NoLiveCoreDropped
  <2>10. \A h \in Groups : h \notin ToSet(clients'[w]) => {h} \X (1 .. NCores) \subseteq lost
    <3>1. ASSUME left = <<>> PROVE {g} \X (1 .. NCores) \subseteq lost
      <4>1. ToSet(cores'[w][g]) = {}
        BY <2>8, <3>1 DEF ToSet
      <4>. QED BY <2>2, <2>9, <4>1
    <3>2. \A h \in Groups : h \notin ToSet(clients[w]) => {h} \X (1 .. NCores) \subseteq lost
      BY <1>0 DEF NoLiveCoreDropped
    <3>. QED BY <2>2, <2>6, <2>8, <3>1, <3>2
  <2>. QED BY <1>0, <2>1, <2>8, <2>9, <2>10 DEF NoLiveCoreDropped
<1>3. ASSUME NEW w \in Workers, Step(w), ~LoseCore(w) PROVE UNCHANGED <<clients, cores, lost>>
  BY <1>3, Zenon DEF Step, Claim, Try, PickCore, AskCore, Collect, Analyse, LogRepro, CountBatch, local, real
<1>4. ASSUME NEW c \in Core, CoreGoesDown(c) PROVE UNCHANGED <<clients, cores>> /\ lost \subseteq lost'
  BY <1>4 DEF CoreGoesDown, local
<1>. QED BY <1>1, <1>2, <1>3, <1>4 DEF Next, vars

-----------------------------------------------------------------------------
(* The inductive invariant holds throughout.                                 *)
THEOREM FleetInvariant == Spec => []IInv
<1>1. Init => IInv
  BY InitTicketInv, InitRest DEF IInv
<1>2. IInv /\ [Next]_vars => IInv'
  <2>. SUFFICES ASSUME IInv, [Next]_vars PROVE IInv'
    OBVIOUS
  <2>1. TicketInv'
    BY TypesStep, ListsStep, ProgressStep, UniqueStep, PickedStep, LeadStep, OwnStep DEF IInv, TicketInv
  <2>2. BatchInv'
    BY OwnedStep, CountStep DEF BatchInv
  <2>. QED BY <2>1, <2>2, LiveStep DEF IInv
<1>. QED BY <1>1, <1>2, PTL DEF Spec

(* The state of the server stays within its types; a mapped ticket was given
   out, a result waits only for a ticket that was asked for, and a worker's
   lists hold clients and cores it was started with (MultiClient,
   DiffFuzzWorker.run).                                                      *)
THEOREM FleetTypes == Spec => []TypeOK
<1>1. IInv => TypeOK
  BY DEF IInv, TicketInv, Types
<1>. QED BY <1>1, FleetInvariant, PTL

(* What a worker analyses is the result of its own batch on every client it
   has left, at least two: MultiClient.get_results never looks a ticket up on
   another core than schedule_packed_inputs put it on, however the workers
   interleave and cores are lost.                                            *)
THEOREM WorkersCompareOwnBatch == Spec => []OwnBatchCompared
<1>1. IInv => OwnBatchCompared
  BY DEF IInv, TicketInv, Types, TypeOK, Progress, CollectedOwn, OwnBatchCompared
<1>. QED BY <1>1, FleetInvariant, PTL

(* A worker drops a core from its list, or a client, only when the connection
   of the core, or of all its cores, is lost (the LostClientException path of
   MultiClient.get_results and DiffFuzzWorker.run).                          *)
THEOREM LiveCoresStay == Spec => []NoLiveCoreDropped
<1>1. IInv => NoLiveCoreDropped
  BY DEF IInv
<1>. QED BY <1>1, FleetInvariant, PTL

(* No input is claimed twice or forgotten: counter and executed_counter differ
   by the batches in the workers' hands; and the limit on reproducer files is
   exceeded by at most one file per worker (log_repro).                      *)
THEOREM SharedCountersAgree == Spec => []CountersAgree
<1>1. IInv => CountersAgree
  <2>. SUFFICES ASSUME IInv PROVE CountersAgree
    OBVIOUS
  <2>. DEFINE Gone == {w \in Workers : at[w] = "exited"}
  <2>1. IsFiniteSet(Workers) /\ MaxRepros \in Nat
    BY FleetAssumption DEF FleetAssumption
  <2>2. Cardinality(Gone) <= Cardinality(Workers) /\ IsFiniteSet(Gone)
    BY <2>1, FS_Subset
  <2>3. Cardinality(Gone) \in Nat /\ Cardinality(Workers) \in Nat
    BY <2>1, <2>2, FS_CardinalityType
  <2>4. Len(repros) <= MaxRepros + Cardinality(Gone) /\ Len(repros) \in Nat
    BY DEF IInv, BatchInv, ReprosBounded, TicketInv, Types
  <2>. HIDE DEF Gone
  <2>5. Len(repros) <= MaxRepros + Cardinality(Workers)
    BY <2>1, <2>2, <2>3, <2>4
  <2>. QED BY <2>5 DEF IInv, BatchInv, InFlight, CountersAgree
<1>. QED BY <1>1, FleetInvariant, PTL

(* A batch is logged by the one worker that claimed it, always with the same
   results: a retry after a lost core does not log a batch again
   (DiffFuzzWorker.run, log_repro).                                          *)
THEOREM BatchesLoggedOnce == Spec => []BatchLoggedOnce
<1>1. IInv => BatchLoggedOnce
  BY DEF IInv, BatchInv
<1>. QED BY <1>1, FleetInvariant, PTL
=============================================================================
