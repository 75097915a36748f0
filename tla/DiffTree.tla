------------------------------ MODULE DiffTree ------------------------------
(***************************************************************************)
(* The analysis of one input: find_minimal_diff_tree and what it uses      *)
(* (pyutils/difffuzzserver.py), over the results of one instruction        *)
(* sequence that every client executed prefix by prefix.                   *)
(*                                                                         *)
(* Starting with all clients in one class, every prefix length clusters    *)
(* the clients of a class by their results.  A class whose results differ  *)
(* also after filtering is recorded as a split.  The clients that ran the  *)
(* prefix without a signal go on, in a class for each raw result.          *)
(*                                                                         *)
(* A dict of results is the sequence of its items in insertion order.  A   *)
(* FilteredResult hashes to 0, so a lookup in such a dict compares with    *)
(* every key in that order and takes the first one its __eq__ accepts.     *)
(***************************************************************************)
EXTENDS Integers, Sequences, FiniteSets, SequencesExt

CONSTANTS
  NClients,     (* clients that returned results                              *)
  UntilSeqLen,  (* length of the instruction sequence                         *)
  Arch,         (* config.ARCH                                                *)
  Results       (* the results a prefix may have                              *)

Clients == 1 .. NClients

(* A result.  si stands for si_addr, si_pc and si_code, which a result without
   signal does not have; regs for all registers but pstate, which only aarch64
   has; mem for the list of changed ranges, of which "edge" begins in the last
   32 bytes of a page and "inner" does not.                                   *)
Signals == {"OK", "ILL", "SEGV", "BUS", "ALRM"}
Result == [signum : Signals, si : Nat, pstate : Nat, regs : Nat, mem : SUBSET {"edge", "inner"}]

ASSUME DiffTreeAssumption ==
  /\ NClients \in Nat \ {0} /\ UntilSeqLen \in Nat \ {0}
  /\ Arch \in {"riscv64", "aarch64"}
  /\ \A r \in Results :
       /\ r \in Result
       /\ r.signum = "OK" => r.si = 0
       /\ Arch = "riscv64" => r.pstate = 0

(* run_with_instr_seq_full_seq: one result per prefix, up to the first signal. *)
Trace ==
  {s \in UNION {[1 .. n -> Results] : n \in 1 .. UntilSeqLen} :
     /\ \A i \in 1 .. Len(s) - 1 : s[i].signum = "OK"
     /\ Len(s) < UntilSeqLen => s[Len(s)].signum # "OK"}

VARIABLES
  multiresults,     (* per client: its results, one per prefix                *)
  seq_len,          (* the prefix length looked at next                       *)
  current_classes,  (* lists of clients not told apart yet                    *)
  splits            (* recorded: [seq_len, result_to_clients]                 *)

vars == <<multiresults, seq_len, current_classes, splits>>

Init ==
  /\ multiresults \in [Clients -> Trace]
  /\ seq_len = 1
  /\ current_classes = <<[i \in Clients |-> i]>>
  /\ splits = <<>>

-----------------------------------------------------------------------------
(* LenientResult: SIGBUS counts as SIGSEGV, and an alarm hides the rest.       *)
Lenient(r) ==
  LET signum == IF r.signum = "BUS" THEN "SEGV" ELSE r.signum
      alarm == signum = "ALRM"
  IN  [orig_signum |-> r.signum, signum |-> signum,
       si     |-> IF alarm THEN 0 ELSE r.si,
       pstate |-> IF alarm THEN 0 ELSE r.pstate,
       regs   |-> IF alarm THEN 0 ELSE r.regs,
       mem    |-> IF alarm THEN {} ELSE r.mem]

(* Result.__eq__ and Result.diff; the latter compares si only of two signals.  *)
Equal(a, b) ==
  /\ a.signum = b.signum /\ a.si = b.si
  /\ a.pstate = b.pstate /\ a.regs = b.regs /\ a.mem = b.mem
Diff(a, b) ==
  {f \in {"signum", "pstate", "regs", "mem"} : a[f] # b[f]} \cup
  (IF a.signum # "OK" /\ b.signum # "OK" /\ a.si # b.si THEN {"si"} ELSE {})

(* The filters of SimpleDiffFuzzWorker: TRUE means the difference is skipped.  *)
OnlyContext(a, b) == Diff(a, b) # {} /\ Diff(a, b) \subseteq {"pstate", "si"}
BusOrOk(a, b) == {a.orig_signum, b.orig_signum} = {"BUS", "OK"}
OnlyPageEdges(a, b) ==
  /\ a.signum = "SEGV" /\ b.signum = "SEGV"
  /\ Diff(a, b) = {"mem"}
  /\ (a.mem \ b.mem) \cup (b.mem \ a.mem) \subseteq {"edge"}
CustomFilters(a, b) ==
  IF Arch = "riscv64" THEN OnlyContext(a, b)
  ELSE BusOrOk(a, b) \/ OnlyContext(a, b) \/ OnlyPageEdges(a, b)

(* Mutant of FilteredEqual: results with the same signal are equal.            *)
FilteredEqualLoose(a, b) == CustomFilters(a, b) \/ a.signum = b.signum

(* FilteredResult.__eq__.                                                      *)
FilteredEqual(a, b) == CustomFilters(a, b) \/ Equal(a, b)

(* The results of a client for a prefix, raw and filtered.                     *)
Raw(c) == multiresults[c][seq_len]
Filtered(c) == Lenient(Raw(c))

(* cluster_clients_by_results, of raw or of filtered results: each client joins
   the first key that equals its result, or opens a cluster of its own.        *)
ResultOf(c, filtered) == IF filtered THEN Filtered(c) ELSE Raw(c)
Same(key, result, filtered) ==
  IF filtered THEN FilteredEqual(key, result) ELSE Equal(key, result)

Join(clusters, c, filtered) ==
  LET hits == {i \in DOMAIN clusters : Same(clusters[i].result, ResultOf(c, filtered), filtered)}
      first == CHOOSE i \in hits : \A j \in hits : i <= j
  IN  IF hits = {}
      THEN Append(clusters, [result |-> ResultOf(c, filtered), clients |-> <<c>>])
      ELSE [clusters EXCEPT ![first].clients = Append(@, c)]

Cluster(class, filtered) ==
  FoldLeft(LAMBDA clusters, c : Join(clusters, c, filtered), <<>>, class)

(* The entries of a list at some of its places, in order.                      *)
EntriesAt(list, places) ==
  FlattenSeq([i \in DOMAIN list |-> IF i \in places THEN <<list[i]>> ELSE <<>>])

(* The clusters of clients that do not know an instruction.                    *)
Illegal(clusters) == {i \in DOMAIN clusters : clusters[i].result.signum = "ILL"}

(* Mutant of RemoveUnusable: every cluster with SIGILL is removed.             *)
RemoveUnusableAll(clusters) == EntriesAt(clusters, DOMAIN clusters \ Illegal(clusters))

(* cluster_remove_unusable: a single cluster with SIGILL is not a difference.  *)
RemoveUnusable(clusters) ==
  IF Cardinality(Illegal(clusters)) = 1
  THEN EntriesAt(clusters, DOMAIN clusters \ Illegal(clusters))
  ELSE clusters

(* The clusters of a class by raw result, largest first (a stable sort).       *)
ResultToClients(class) ==
  LET clusters == Cluster(class, FALSE)
  IN  FlattenSeq([k \in 1 .. NClients |->
        EntriesAt(clusters, {i \in DOMAIN clusters : Len(clusters[i].clients) = NClients + 1 - k})])

(* The results differ, raw and filtered: the class is split here.              *)
Differs(class) ==
  /\ Len(RemoveUnusable(ResultToClients(class))) > 1
  /\ Len(RemoveUnusable(Cluster(class, TRUE))) > 1

(* Mutant of GoesOn: a client with nobody left to compare it with goes on.     *)
GoesOnAlone(cluster) == cluster.result.signum = "OK"

(* Clients go on together after the same raw result without a signal.          *)
GoesOn(cluster) == cluster.result.signum = "OK" /\ Len(cluster.clients) > 1

(* What a class adds to the splits, and the classes that go on from it.        *)
SplitsOf(class) ==
  IF Differs(class)
  THEN <<[seq_len |-> seq_len, result_to_clients |-> ResultToClients(class)]>>
  ELSE <<>>

ClassesOf(class) ==
  LET clusters == ResultToClients(class)
      kept == EntriesAt(clusters, {i \in DOMAIN clusters : GoesOn(clusters[i])})
  IN  [i \in DOMAIN kept |-> kept[i].clients]

(* One iteration of the loop over the prefix lengths.                          *)
Extend ==
  /\ seq_len <= UntilSeqLen
  /\ current_classes # <<>>
  /\ splits' = splits \o
       FlattenSeq([i \in DOMAIN current_classes |-> SplitsOf(current_classes[i])])
  /\ current_classes' =
       FlattenSeq([i \in DOMAIN current_classes |-> ClassesOf(current_classes[i])])
  /\ seq_len' = seq_len + 1
  /\ UNCHANGED multiresults

Next == Extend

Spec == Init /\ [][Next]_vars

-----------------------------------------------------------------------------
(* What must hold.                                                             *)

(* Types; the classes are disjoint, and a class has at least two clients after
   the first prefix.                                                           *)
TypeOK ==
  /\ seq_len \in 1 .. UntilSeqLen + 1
  /\ \A i \in DOMAIN current_classes :
       /\ ToSet(current_classes[i]) \subseteq Clients
       /\ seq_len > 1 => Len(current_classes[i]) > 1
       /\ \A j \in DOMAIN current_classes : i # j =>
            ToSet(current_classes[i]) \cap ToSet(current_classes[j]) = {}
  /\ \A i \in DOMAIN splits : splits[i].seq_len < seq_len

(* Every client of a class has a result for the next prefix: result_by_client
   never misses one.                                                           *)
NoMissingResult ==
  seq_len <= UntilSeqLen =>
    \A i \in DOMAIN current_classes : \A c \in ToSet(current_classes[i]) :
      seq_len <= Len(multiresults[c])

Done == seq_len > UntilSeqLen \/ current_classes = <<>>

(* Two clients went through the prefixes before n alike, without a signal.     *)
AlikeBefore(a, b, n) ==
  /\ n <= Len(multiresults[a]) /\ n <= Len(multiresults[b])
  /\ \A k \in 1 .. n - 1 : multiresults[a][k] = multiresults[b][k]

(* What counts of a result: SIGBUS and SIGSEGV are one signal, after an alarm
   registers and memory mean nothing, and si and pstate never do.              *)
Essence(r) ==
  CASE r.signum = "ALRM"          -> <<"ALRM">>
    [] r.signum \in {"SEGV", "BUS"} -> <<"SEGV", r.regs, r.mem>>
    [] OTHER                      -> <<r.signum, r.regs, r.mem>>

(* At prefix n they differ in what counts, and not only because one of them
   does not know an instruction.                                               *)
Disagree(a, b, n) ==
  LET x == multiresults[a][n]
      y == multiresults[b][n]
  IN  /\ AlikeBefore(a, b, n)
      /\ (x.signum = "ILL") = (y.signum = "ILL")
      /\ Essence(x) # Essence(y)

(* The clusters of a split as a partition.                                     *)
Branches(split) == {ToSet(split.result_to_clients[i].clients) : i \in DOMAIN split.result_to_clients}
SplitApart(a, b, split) == \E A, B \in Branches(split) : A # B /\ a \in A /\ b \in B

(* The splits there are, computed from the results alone.                      *)
Group(a, n) == {b \in Clients : AlikeBefore(a, b, n)}
Partition(group, n) ==
  {{b \in group : multiresults[b][n] = multiresults[a][n]} : a \in group}
SplitAt(a, n) == \E x, y \in Group(a, n) : Disagree(x, y, n)
Reference ==
  UNION {{<<n, Partition(Group(a, n), n)>> : a \in {c \in Clients : SplitAt(c, n)}} :
           n \in 1 .. UntilSeqLen}

(* Every client of a class has a result for the next prefix, so that
   result_by_client never misses one; and in the end the recorded splits are
   exactly the groups of clients that were alike up to a prefix and of which two
   disagree at it, each once and partitioned by the results: none is missed
   because of the order of the clients, the clusters removed or the classes
   dropped, and none is invented.                                              *)
SplitsAreExact ==
  /\ NoMissingResult
  /\ Done =>
    /\ {<<splits[i].seq_len, Branches(splits[i])>> : i \in DOMAIN splits} = Reference
    /\ Len(splits) = Cardinality(Reference)

(* Two clients that both go on without a signal are treated apart only after a
   split was recorded that tells them apart.                                   *)
IsolatedOnlyBySplit ==
  \A a, b \in Clients :
    /\ \A c \in {a, b} : \A k \in 1 .. seq_len - 1 :
         k <= Len(multiresults[c]) /\ multiresults[c][k].signum = "OK"
    /\ a # b
    /\ ~ \E i \in DOMAIN current_classes : {a, b} \subseteq ToSet(current_classes[i])
    => \E i \in DOMAIN splits : SplitApart(a, b, splits[i])

(* Whenever two clients that were alike so far disagree, and no filter skips
   the difference between the two, a split records it.                         *)
DisagreementRecorded ==
  \A a, b \in Clients, n \in 1 .. seq_len - 1 :
    /\ Disagree(a, b, n)
    /\ ~CustomFilters(Lenient(multiresults[a][n]), Lenient(multiresults[b][n]))
    => \E i \in DOMAIN splits : splits[i].seq_len = n /\ SplitApart(a, b, splits[i])
=============================================================================
