--------------------------- MODULE TicketService ----------------------------
(***************************************************************************)
(* What a RealClient promises to the workers that use it: a remote call.   *)
(* A worker asks for a number of inputs to be executed and waits; the call *)
(* ends with one result per input, in order, or with LostClientException   *)
(* once the client is down.  Queue, merging, sockets and the client        *)
(* program are not visible here.  ClientLink implements it, and Fleet uses *)
(* it in place of ClientLink.                                              *)
(***************************************************************************)
EXTENDS Integers, Sequences

CONSTANTS
  Workers,    (* the callers                                       *)
  Requests,   (* what a call may ask for: records [n, bytes]       *)
  Tickets     (* the tickets that name the calls                   *)

VARIABLES
  call,       (* where each caller is                              *)
  asked,      (* the entry each caller scheduled last              *)
  got,        (* what the call returned                            *)
  up          (* the client has not been lost                      *)

vars == <<call, asked, got, up>>

NothingAsked == [ticket |-> 0, n |-> 0, bytes |-> 0]

Init ==
  /\ call = [w \in Workers |-> "idle"]
  /\ asked = [w \in Workers |-> NothingAsked]
  /\ got = [w \in Workers |-> <<>>]
  /\ up = TRUE

(* schedule_packed_inputs returns a ticket that no other waiting caller has. *)
Call(w, r, t) ==
  /\ call[w] = "idle"
  /\ \A v \in Workers : call[v] # "idle" => asked[v].ticket # t
  /\ call' = [call EXCEPT ![w] = "waiting"]
  /\ asked' = [asked EXCEPT ![w] = [ticket |-> t, n |-> r.n, bytes |-> r.bytes]]
  /\ UNCHANGED <<got, up>>

(* get_results returns the results of the inputs of this call.               *)
Answer(w) ==
  /\ call[w] = "waiting"
  /\ call' = [call EXCEPT ![w] = "returned"]
  /\ got' = [got EXCEPT ![w] =
       [j \in 1 .. asked[w].n |-> [ran |-> <<asked[w].ticket, j>>]]]
  /\ UNCHANGED <<asked, up>>

(* get_results raises LostClientException, only once the client is down.     *)
Lose(w) ==
  /\ call[w] = "waiting"
  /\ ~up
  /\ call' = [call EXCEPT ![w] = "lost"]
  /\ UNCHANGED <<asked, got, up>>

(* The caller goes on, with its results or without having asked for them.    *)
Resume(w) ==
  /\ call[w] \in {"returned", "waiting"}
  /\ call' = [call EXCEPT ![w] = "idle"]
  /\ asked' = [asked EXCEPT ![w] = NothingAsked]
  /\ got' = [got EXCEPT ![w] = <<>>]
  /\ UNCHANGED up

(* The client is lost, for good.                                             *)
GoDown ==
  /\ up
  /\ up' = FALSE
  /\ UNCHANGED <<call, asked, got>>

Next ==
  \/ \E w \in Workers :
       \/ \E r \in Requests, t \in Tickets : Call(w, r, t)
       \/ Answer(w) \/ Lose(w) \/ Resume(w)
  \/ GoDown

Spec == Init /\ [][Next]_vars
=============================================================================
