----------------------------- MODULE Rendezvous -----------------------------
(***************************************************************************)
(* How a fuzzing session comes together: the accept thread of the server   *)
(* (Server.run in pyutils/server.py) that shakes hands with one connection *)
(* after the other and counts them, the client cores that connect to it    *)
(* (client/src/diffuzz-client.c: every machine forks one process per core, *)
(* start_client connects and introduces itself), and the main thread that  *)
(* joins the accept thread and then starts to fuzz                         *)
(* (server/diffuzz-server.py).                                             *)
(*                                                                         *)
(* RealClient.__init__ does the handshake inside the accept thread.  An    *)
(* exception there, a failing assertion or exit(1) ends the thread, but    *)
(* not the main thread.  The listening socket is then closed without being *)
(* shut down, and lives on in the processes forked for listed clients.     *)
(***************************************************************************)
EXTENDS Integers, Sequences, FiniteSets, SequencesExt

CONSTANTS
  NumCpus,    (* machine (hostname) -> the number of cores it reports         *)
  Expect,     (* --expect: machines to wait for, 0 for no limit               *)
  MaxExits    (* bound of the model: cores that exit by themselves            *)

Machines == DOMAIN NumCpus

ASSUME RendezvousAssumption ==
  /\ Expect \in Nat /\ MaxExits \in Nat
  /\ IsFiniteSet(Machines)
  /\ \A m \in Machines : NumCpus[m] \in Nat \ {0}

Cores == UNION {{m} \X (1 .. NumCpus[m]) : m \in Machines}
NoHash == "none"
Binaries == {"elf1", "elf2"}

VARIABLES
  elf,        (* per machine: the binary its cores run                        *)
  odd,        (* machines whose lscpu and cpuinfo disagree with num_cpus      *)
  core,       (* where each client core is                                    *)
  exits,      (* cores that exited by themselves                              *)
  backlog,    (* connections waiting to be accepted                           *)
  accepting,  (* where the accept thread is                                   *)
  peer,       (* the core it shakes hands with                                *)
  elf_hash,   (* Server.elf_hash                                              *)
  clients,    (* Server.clients                                               *)
  started     (* the main thread has begun to fuzz                            *)

vars == <<elf, odd, core, exits, backlog, accepting, peer, elf_hash, clients, started>>
given == <<elf, odd>>

Init ==
  /\ elf \in [Machines -> Binaries]
  /\ odd \in SUBSET Machines
  /\ core = [c \in Cores |-> "connect"]
  /\ exits = 0
  /\ backlog = <<>>
  /\ accepting = "select"
  /\ peer = <<>>
  /\ elf_hash = NoHash
  /\ clients = <<>>
  /\ started = FALSE

-----------------------------------------------------------------------------
(* The client cores.                                                           *)

(* The accept thread has ended: by the count, by Enter, or by an exception.    *)
Over == accepting \in {"complete", "entered", "crashed"}

(* Nobody listens.  At the count and at Enter the listening socket is shut down,
   for all who hold it.  An exception only closes the accept thread's descriptor:
   the RealClient of each listed client and its manager are forked while the
   socket is open and keep it, so that connections go on to be taken into a
   backlog nobody accepts from.                                                *)
Closed == accepting \in {"complete", "entered"} \/ (accepting = "crashed" /\ clients = <<>>)

(* connect_with_retry: some process holds the listening socket.                *)
Connect(c) ==
  /\ core[c] = "connect"
  /\ ~Closed
  /\ core' = [core EXCEPT ![c] = "connected"]
  /\ backlog' = Append(backlog, c)
  /\ UNCHANGED <<given, exits, accepting, peer, elf_hash, clients, started>>

(* Nobody listens any more: after 30 attempts the core gives up.               *)
GiveUp(c) ==
  /\ core[c] = "connect"
  /\ Closed
  /\ core' = [core EXCEPT ![c] = "exited"]
  /\ UNCHANGED <<given, exits, backlog, accepting, peer, elf_hash, clients, started>>

(* start_client introduces itself, from the hostname to the hash of its ELF
   file, and waits for max_batch_n and the seed.                               *)
SendInfo(c) ==
  /\ core[c] = "connected"
  /\ core' = [core EXCEPT ![c] = "introduced"]
  /\ UNCHANGED <<given, exits, backlog, accepting, peer, elf_hash, clients, started>>

(* The server's end is closed before the handshake was over: recv returns 0 or
   fails.  So ends a connection in the backlog of a socket nobody holds, and
   that of a failed handshake, whose socket goes with its RealClient.          *)
Reset(c) ==
  /\ core[c] \in {"connected", "introduced"}
  /\ Closed \/ (accepting = "crashed" /\ c = peer)
  /\ core' = [core EXCEPT ![c] = "exited"]
  /\ UNCHANGED <<given, exits, backlog, accepting, peer, elf_hash, clients, started>>

(* A core exits by itself, before, during or after the handshake.  What it had
   introduced itself with may still reach the server.                          *)
CoreExits(c) ==
  /\ core[c] \notin {"left", "exited"}
  /\ exits < MaxExits
  /\ exits' = exits + 1
  /\ core' = [core EXCEPT ![c] = IF @ = "introduced" THEN "left" ELSE "exited"]
  /\ UNCHANGED <<given, backlog, accepting, peer, elf_hash, clients, started>>

-----------------------------------------------------------------------------
(* The accept thread.                                                          *)

(* select reports the listening socket: the next connection is accepted.       *)
Accept ==
  /\ accepting = "select"
  /\ backlog # <<>>
  /\ peer' = Head(backlog)
  /\ backlog' = Tail(backlog)
  /\ accepting' = "info"
  /\ UNCHANGED <<given, core, exits, elf_hash, clients, started>>

(* recv_client_info: an assertion compares what lscpu, cpuinfo and the client
   say about its cores; with the client gone, recv_all raises.                 *)
RecvInfo ==
  /\ accepting = "info"
  /\ \/ core[peer] \in {"introduced", "left"} /\ peer[1] \notin odd /\ accepting' = "hash"
     \/ core[peer] \in {"introduced", "left"} /\ peer[1] \in odd /\ accepting' = "crashed"
     \/ core[peer] \in {"left", "exited"} /\ accepting' = "crashed"
  /\ UNCHANGED <<given, core, exits, backlog, peer, elf_hash, clients, started>>

(* Mutants of CheckHash: the first hash is not kept, and a client with another
   one is left waiting.                                                        *)
CheckHashUnset ==
  /\ accepting = "hash"
  /\ elf_hash \in {NoHash, elf[peer[1]]}
  /\ accepting' = "params"
  /\ UNCHANGED <<given, core, exits, backlog, peer, elf_hash, clients, started>>
CheckHashWaits ==
  /\ accepting = "hash"
  /\ elf_hash \in {NoHash, elf[peer[1]]}
  /\ elf_hash' = elf[peer[1]]
  /\ accepting' = "params"
  /\ UNCHANGED <<given, core, exits, backlog, peer, clients, started>>

(* check_hash: the first client sets the hash, a different one ends the thread
   with exit(1).                                                               *)
CheckHash ==
  /\ accepting = "hash"
  /\ IF elf_hash \in {NoHash, elf[peer[1]]}
     THEN elf_hash' = elf[peer[1]] /\ accepting' = "params"
     ELSE elf_hash' = elf_hash /\ accepting' = "crashed"
  /\ UNCHANGED <<given, core, exits, backlog, peer, clients, started>>

(* max_batch_n and the seed are sent.  To a client that is gone the first send
   may still succeed, or one of them raises.                                   *)
SendParams ==
  /\ accepting = "params"
  /\ \/ /\ core[peer] = "introduced"
        /\ core' = [core EXCEPT ![peer] = "ready"]
        /\ accepting' = "register"
     \/ /\ core[peer] = "left"
        /\ core' = core
        /\ accepting' \in {"register", "crashed"}
  /\ UNCHANGED <<given, exits, backlog, peer, elf_hash, clients, started>>

(* machine_to_n_cores: the machines seen so far, and the cores they have.      *)
Seen(list) == {list[i][1] : i \in DOMAIN list}
Awaited(list) == FoldSet(LAMBDA m, n : NumCpus[m] + n, 0, Seen(list))

(* Mutants of AllConnected: the cores are not counted; one connection more than
   there are cores is awaited.                                                 *)
AllConnectedMachines(list) == Expect # 0 /\ Cardinality(Seen(list)) = Expect
AllConnectedOneMore(list) ==
  Expect # 0 /\ Cardinality(Seen(list)) = Expect /\ Len(list) > Awaited(list)

(* Are all machines connected?  Are all cores per machine connected?           *)
AllConnected(list) ==
  Expect # 0 /\ Cardinality(Seen(list)) = Expect /\ Len(list) = Awaited(list)

(* Mutant of Register: the connection is listed twice.                         *)
RegisterTwice ==
  /\ accepting = "register"
  /\ clients' = clients \o <<peer, peer>>
  /\ accepting' = IF AllConnected(clients') THEN "complete" ELSE "select"
  /\ peer' = <<>>
  /\ UNCHANGED <<given, core, exits, backlog, elf_hash, started>>

(* The RealClient process is started and listed; once it is ready the thread
   closes the socket and returns if this was the last one awaited.             *)
Register ==
  /\ accepting = "register"
  /\ clients' = Append(clients, peer)
  /\ accepting' = IF AllConnected(clients') THEN "complete" ELSE "select"
  /\ peer' = <<>>
  /\ UNCHANGED <<given, core, exits, backlog, elf_hash, started>>

(* Somebody presses Enter to begin with the clients that are there.            *)
PressEnter ==
  /\ accepting = "select"
  /\ accepting' = "entered"
  /\ UNCHANGED <<given, core, exits, backlog, peer, elf_hash, clients, started>>

(* main: join returns, "All clients connected. Now starting differential
   fuzzing." is printed and the workers start.                                 *)
StartFuzzing ==
  /\ Over
  /\ ~started
  /\ started' = TRUE
  /\ UNCHANGED <<given, core, exits, backlog, accepting, peer, elf_hash, clients>>

-----------------------------------------------------------------------------
CoreStep(c) == Connect(c) \/ GiveUp(c) \/ SendInfo(c) \/ Reset(c)
AcceptThread == Accept \/ RecvInfo \/ CheckHash \/ SendParams \/ Register

Next ==
  \/ \E c \in Cores : CoreStep(c) \/ CoreExits(c)
  \/ AcceptThread
  \/ PressEnter
  \/ StartFuzzing

Spec == Init /\ [][Next]_vars

(* The processes are scheduled and no core stalls in the middle of its
   introduction; nobody has to press Enter, and no core has to exit.           *)
FairSpec ==
  /\ Spec
  /\ WF_vars(AcceptThread)
  /\ WF_vars(StartFuzzing)
  /\ \A c \in Cores : WF_vars(CoreStep(c))

-----------------------------------------------------------------------------
(* What must hold.                                                             *)

(* Types; the core in the handshake is neither listed nor in the backlog.      *)
TypeOK ==
  /\ core \in [Cores -> {"connect", "connected", "introduced", "left", "ready", "exited"}]
  /\ exits \in 0 .. MaxExits
  /\ accepting \in {"select", "info", "hash", "params", "register",
                    "complete", "entered", "crashed"}
  /\ elf_hash \in Binaries \cup {NoHash}
  /\ IsInjective(clients \o backlog)
  /\ peer # <<>> => peer \in Cores \ ToSet(clients \o backlog)
  /\ started \in BOOLEAN

(* All clients a session fuzzes with run the same binary, whichever connected
   first and whatever happened to the others.                                  *)
SameBinary == \A c \in ToSet(clients) : elf[c[1]] = elf_hash

(* When the count ends the wait, every core of Expect machines is connected,
   each once.                                                                  *)
CountIsComplete ==
  accepting = "complete" =>
    /\ Cardinality(Seen(clients)) = Expect
    /\ \A c \in Cores : c[1] \in Seen(clients) =>
         Cardinality({k \in DOMAIN clients : clients[k] = c}) = 1

(* The accept thread died in another core's handshake, after a client was listed
   whose processes keep the listening socket.                                  *)
Behind(c) == accepting = "crashed" /\ clients # <<>> /\ c # peer

(* A core that got through to the server is told how to go on, or learns that
   the server turned away, also if its own handshake fails (server.py 636).  The
   code leaves cores waiting in one case, that of Behind, and in no other: not
   when the first handshake fails, nor when the count or Enter ends the wait
   while connections are in the backlog.                                       *)
NobodyLeftWaiting ==
  \A c \in Cores :
    core[c] \in {"connected", "introduced"} ~> core[c] \in {"ready", "left", "exited"} \/ Behind(c)

(* If every core gets through and is listed, fuzzing starts without help.      *)
CompleteStarts == (ToSet(clients) = Cores /\ Cardinality(Machines) = Expect) ~> started
-----------------------------------------------------------------------------
(* The inductive invariant behind the safety properties, proved in             *)
(* RendezvousProofs.                                                           *)

(* The types; every connection is of a core, and the accept thread has a peer
   exactly while it shakes hands.                                              *)
Types ==
  /\ elf \in [Machines -> Binaries]
  /\ core \in [Cores -> {"connect", "connected", "introduced", "left", "ready", "exited"}]
  /\ exits \in 0 .. MaxExits
  /\ accepting \in {"select", "info", "hash", "params", "register",
                    "complete", "entered", "crashed"}
  /\ elf_hash \in Binaries \cup {NoHash}
  /\ started \in BOOLEAN
  /\ backlog \in Seq(Cores) /\ clients \in Seq(Cores)
  /\ peer \in Cores \cup {<<>>}
  /\ accepting \in {"info", "hash", "params", "register"} => peer # <<>>

(* A core connects once: it is about to, or in the backlog, or in the handshake,
   or listed, and in one place only.                                           *)
EachOnce ==
  /\ IsInjective(clients) /\ IsInjective(backlog)
  /\ ToSet(clients) \cap ToSet(backlog) = {}
  /\ peer \notin ToSet(clients) /\ peer \notin ToSet(backlog)
  /\ \A c \in ToSet(clients) \cup ToSet(backlog) : core[c] # "connect"
  /\ peer # <<>> => core[peer] # "connect"

(* Also the peer that passed check_hash runs the binary of the listed clients. *)
HashChecked == accepting \in {"params", "register"} => elf[peer[1]] = elf_hash

(* The thread has ended by the count for a reason that still holds.            *)
EndedByCount == accepting = "complete" => AllConnected(clients)

IInv == Types /\ EachOnce /\ SameBinary /\ HashChecked /\ EndedByCount
=============================================================================
