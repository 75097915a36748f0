-------------------------- MODULE RendezvousProofs --------------------------
(***************************************************************************)
(* Proofs about Rendezvous, for every set of machines, every number of     *)
(* cores and every order in which they connect, exit and are counted: all  *)
(* clients of a session run the same binary, and when the count ends the   *)
(* wait, no core of the awaited machines is missing.                       *)
(***************************************************************************)
EXTENDS Rendezvous, ListLemmas, FiniteSetTheorems, WellFoundedInduction, TLAPS

-----------------------------------------------------------------------------
(* What the operators of the model compute.                                  *)

(* The connections awaited, the sum of num_cpus over the machines seen, are as
   many as these machines have cores.                                        *)
LEMMA AwaitedIsCardinality ==
  ASSUME NEW list, IsFiniteSet(Seen(list)), \A m \in Seen(list) : NumCpus[m] \in Nat
  PROVE  /\ IsFiniteSet(UNION {{m} \X (1 .. NumCpus[m]) : m \in Seen(list)})
         /\ Awaited(list) = Cardinality(UNION {{m} \X (1 .. NumCpus[m]) : m \in Seen(list)})
<1>. DEFINE S == Seen(list)
            N == NumCpus
            Pairs(s) == UNION {{m} \X (1 .. N[m]) : m \in s}
            pick(s) == CHOOSE x \in s : TRUE
            Sums(h) == h = [s \in SUBSET S |-> IF s = {} THEN 0 ELSE N[pick(s)] + h[s \ {pick(s)}]]
            G == [s \in SUBSET S |-> Cardinality(Pairs(s))]
<1>0. \A s \in SUBSET S : s # {} => pick(s) \in s
  OBVIOUS
<1>1. Awaited(list) = (CHOOSE h : Sums(h))[S]
  BY DEF Awaited, FoldSet, MapThenFoldSet
<1>a. IsFiniteSet(S) /\ \A m \in S : N[m] \in Nat
  OBVIOUS
<1>. HIDE DEF pick, S, N
<1>2. ASSUME NEW m \in S
      PROVE  IsFiniteSet({m} \X (1 .. N[m])) /\ Cardinality({m} \X (1 .. N[m])) = N[m]
  <2>. DEFINE f == [i \in 1 .. N[m] |-> <<m, i>>]
  <2>1. f \in Bijection(1 .. N[m], {m} \X (1 .. N[m]))
    <3>1. f \in [1 .. N[m] -> {m} \X (1 .. N[m])] /\ \A i \in 1 .. N[m] : f[i] = <<m, i>>
      OBVIOUS
    <3>. HIDE DEF f
    <3>2. \A i, j \in 1 .. N[m] : f[i] = f[j] => i = j
      BY <3>1
    <3>3. \A p \in {m} \X (1 .. N[m]) : \E i \in 1 .. N[m] : f[i] = p
      BY <3>1
    <3>. QED BY <3>1, <3>2, <3>3 DEF Bijection, Injection, Surjection, IsInjective
  <2>2. ExistsBijection(1 .. N[m], {m} \X (1 .. N[m]))
    BY <2>1 DEF ExistsBijection
  <2>3. IsFiniteSet(1 .. N[m]) /\ Cardinality(1 .. N[m]) = N[m]
    <3>1. 1 \in Int /\ N[m] \in Int /\ N[m] >= 0
      BY <1>a
    <3>2. Cardinality(1 .. N[m]) = IF 1 > N[m] THEN 0 ELSE N[m] - 1 + 1
      BY <3>1, FS_Interval
    <3>3. IsFiniteSet(1 .. N[m])
      BY <3>1, FS_Interval
    <3>. QED BY <3>1, <3>2, <3>3
  <2>. QED BY <2>2, <2>3, FS_Bijection
<1>3. ASSUME NEW s \in SUBSET S, s # {}
      PROVE  /\ Pairs(s) = Pairs(s \ {pick(s)}) \cup ({pick(s)} \X (1 .. N[pick(s)]))
             /\ Pairs(s \ {pick(s)}) \cap ({pick(s)} \X (1 .. N[pick(s)])) = {}
  <2>1. pick(s) \in s
    BY <1>0, <1>3
  <2>2. \A x : x \in Pairs(s) <=> \E m \in s : x \in {m} \X (1 .. N[m])
    OBVIOUS
  <2>3. \A x : x \in Pairs(s \ {pick(s)}) <=> \E m \in s \ {pick(s)} : x \in {m} \X (1 .. N[m])
    OBVIOUS
  <2>. HIDE DEF Pairs
  <2>4. \A m, x : x \in {m} \X (1 .. N[m]) => x[1] = m
    OBVIOUS
  <2>5. \A x : x \in Pairs(s) <=> x \in Pairs(s \ {pick(s)}) \/ x \in {pick(s)} \X (1 .. N[pick(s)])
    BY <2>1, <2>2, <2>3
  <2>6. \A x : ~(x \in Pairs(s \ {pick(s)}) /\ x \in {pick(s)} \X (1 .. N[pick(s)]))
    BY <2>3, <2>4
  <2>. QED BY <2>5, <2>6
<1>4. Pairs({}) = {}
  OBVIOUS
<1>. HIDE DEF Pairs
<1>5. IsWellFoundedOn(StrictSubsetOrdering(S), SUBSET S)
  BY <1>a, FS_StrictSubsetOrderingWellFounded, FS_FiniteSubsetsOfFinite
<1>6. \A s \in SUBSET S : s # {} => <<s \ {pick(s)}, s>> \in StrictSubsetOrdering(S)
  BY <1>0 DEF StrictSubsetOrdering
<1>7. ASSUME NEW T \in SUBSET (SUBSET S), T # {}
      PROVE  \E s \in T : s # {} => s \ {pick(s)} \notin T
  <2>1. PICK s \in T : \A y \in T : ~(<<y, s>> \in StrictSubsetOrdering(S))
    BY <1>5, <1>7, WFMin
  <2>. QED BY <2>1, <1>6
<1>8. \A s \in SUBSET S : IsFiniteSet(Pairs(s))
  <2>. DEFINE T == {s \in SUBSET S : ~IsFiniteSet(Pairs(s))}
  <2>1. SUFFICES ASSUME T # {} PROVE FALSE
    OBVIOUS
  <2>2. PICK s \in T : s # {} => s \ {pick(s)} \notin T
    BY <1>7, <2>1
  <2>3. s # {}
    BY <1>4, FS_EmptySet
  <2>4. IsFiniteSet(Pairs(s \ {pick(s)})) /\ IsFiniteSet({pick(s)} \X (1 .. N[pick(s)]))
    BY <1>0, <1>2, <2>2, <2>3
  <2>5. IsFiniteSet(Pairs(s \ {pick(s)}) \cup ({pick(s)} \X (1 .. N[pick(s)])))
    BY <2>4, FS_Union
  <2>. QED BY <1>3, <2>2, <2>3, <2>5
<1>9. ASSUME NEW s \in SUBSET S, s # {} PROVE Cardinality(Pairs(s)) = N[pick(s)] + Cardinality(Pairs(s \ {pick(s)}))
  <2>. DEFINE A == Pairs(s \ {pick(s)})
              B == {pick(s)} \X (1 .. N[pick(s)])
  <2>1. IsFiniteSet(A) /\ IsFiniteSet(B) /\ Cardinality(B) = N[pick(s)] /\ Pairs(s) = A \cup B /\ A \cap B = {}
        /\ N[pick(s)] \in Nat
    BY <1>a, <1>0, <1>2, <1>3, <1>8, <1>9
  <2>. HIDE DEF A, B
  <2>2. Cardinality(A \cup B) = Cardinality(A) + Cardinality(B) - Cardinality(A \cap B)
    BY <2>1, FS_Union
  <2>3. Cardinality(A \cap B) = 0 /\ Cardinality(A) \in Nat
    BY <2>1, FS_EmptySet, FS_CardinalityType
  <2>4. Cardinality(Pairs(s)) = N[pick(s)] + Cardinality(A)
    BY <2>1, <2>2, <2>3
  <2>. QED BY <2>4 DEF A
<1>10. Sums(G)
  <2>1. \A s \in SUBSET S : G[s] = IF s = {} THEN 0 ELSE N[pick(s)] + G[s \ {pick(s)}]
    BY <1>4, <1>9, FS_EmptySet
  <2>. QED BY <2>1
<1>11. ASSUME NEW h, Sums(h) PROVE h[S] = G[S]
  <2>. DEFINE T == {s \in SUBSET S : h[s] # G[s]}
  <2>0. /\ \A s \in SUBSET S : h[s] = IF s = {} THEN 0 ELSE N[pick(s)] + h[s \ {pick(s)}]
        /\ \A s \in SUBSET S : G[s] = IF s = {} THEN 0 ELSE N[pick(s)] + G[s \ {pick(s)}]
    BY <1>10, <1>11
  <2>. HIDE DEF G
  <2>1. T = {}
    <3>1. SUFFICES ASSUME T # {} PROVE FALSE
      OBVIOUS
    <3>2. PICK s \in T : s # {} => s \ {pick(s)} \notin T
      BY <1>7, <3>1
    <3>3. CASE s = {}
      BY <2>0, <3>2, <3>3
    <3>4. CASE s # {}
      <4>1. h[s \ {pick(s)}] = G[s \ {pick(s)}]
        BY <3>2, <3>4
      <4>. QED BY <2>0, <3>4, <4>1
    <3>. QED BY <3>3, <3>4
  <2>. QED BY <2>1
<1>12. (CHOOSE h : Sums(h))[S] = G[S]
  <2>1. Sums(CHOOSE h : Sums(h))
    BY <1>10
  <2>. HIDE DEF Sums, G
  <2>. QED BY <2>1, <1>11
<1>. QED BY <1>1, <1>8, <1>12 DEF Pairs, S, N

(* A core belongs to a machine.                                              *)
LEMMA CoreShape == ASSUME NEW c \in Cores PROVE c[1] \in Machines /\ c # <<>>
BY DEF Cores

(* A list of cores in which none appears twice stays so when another one is
   added ...                                                                 *)
LEMMA AppendKeepsDistinct ==
  ASSUME NEW s \in Seq(Cores), NEW e \in Cores, IsInjective(s), e \notin ToSet(s)
  PROVE  IsInjective(Append(s, e))
<1>1. \A i \in 1 .. Len(s) : s[i] # e
  BY DEF ToSet
<1>2. \A i, j \in 1 .. Len(s) : s[i] = s[j] => i = j
  BY DEF IsInjective
<1>. DEFINE r == Append(s, e)
<1>3. /\ DOMAIN r = 1 .. Len(s) + 1 /\ Len(s) \in Nat
      /\ r[Len(s) + 1] = e /\ \A i \in 1 .. Len(s) : r[i] = s[i]
  OBVIOUS
<1>. HIDE DEF r
<1>4. \A i \in DOMAIN r : i \in 1 .. Len(s) \/ i = Len(s) + 1
  BY <1>3
<1>5. \A i, j \in DOMAIN r : r[i] = r[j] => i = j
  BY <1>1, <1>2, <1>3, <1>4
<1>6. IsInjective(r)
  BY <1>5 DEF IsInjective
<1>. QED BY <1>6 DEF r

(* ... and when its first one is taken.                                      *)
LEMMA TailKeepsDistinct ==
  ASSUME NEW S, NEW s \in Seq(S), s # <<>>, IsInjective(s)
  PROVE  IsInjective(Tail(s)) /\ Head(s) \notin ToSet(Tail(s))
<1>1. \A i, j \in 1 .. Len(s) : s[i] = s[j] => i = j
  BY DEF IsInjective
<1>2. Len(Tail(s)) = Len(s) - 1 /\ \A i \in 1 .. Len(s) - 1 : Tail(s)[i] = s[i + 1]
  OBVIOUS
<1>3. DOMAIN Tail(s) = 1 .. Len(s) - 1 /\ Head(s) = s[1] /\ Len(s) >= 1 /\ Len(s) \in Nat
  OBVIOUS
<1>4. \A i \in 1 .. Len(s) - 1 : i + 1 \in 1 .. Len(s) /\ i + 1 # 1
  BY <1>3
<1>. QED BY <1>1, <1>2, <1>3, <1>4 DEF IsInjective, ToSet

(* Two lists without a common element.                                       *)
LEMMA ConcatKeepsDistinct ==
  ASSUME NEW S, NEW s \in Seq(S), NEW t \in Seq(S), IsInjective(s), IsInjective(t),
         ToSet(s) \cap ToSet(t) = {}
  PROVE  IsInjective(s \o t) /\ ToSet(s \o t) = ToSet(s) \cup ToSet(t)
<1>. DEFINE r == s \o t
<1>1. /\ DOMAIN r = 1 .. Len(s) + Len(t) /\ Len(s) \in Nat /\ Len(t) \in Nat
      /\ \A i \in 1 .. Len(s) : r[i] = s[i]
      /\ \A i \in 1 .. Len(t) : r[Len(s) + i] = t[i]
  OBVIOUS
<1>2. \A i \in 1 .. Len(s) + Len(t) : i \in 1 .. Len(s) \/ i - Len(s) \in 1 .. Len(t)
  BY <1>1
<1>3. \A i \in 1 .. Len(s), j \in 1 .. Len(t) : s[i] # t[j]
  BY DEF ToSet
<1>4. /\ \A i, j \in 1 .. Len(s) : s[i] = s[j] => i = j
      /\ \A i, j \in 1 .. Len(t) : t[i] = t[j] => i = j
  BY DEF IsInjective
<1>. HIDE DEF r
<1>5. \A i \in DOMAIN r :
        \/ i \in 1 .. Len(s) /\ r[i] = s[i]
        \/ i - Len(s) \in 1 .. Len(t) /\ r[i] = t[i - Len(s)]
  <2>. TAKE i \in DOMAIN r
  <2>1. i \in Int /\ (i \in 1 .. Len(s) \/ i - Len(s) \in 1 .. Len(t))
    BY <1>1, <1>2
  <2>2. i - Len(s) \in 1 .. Len(t) => r[Len(s) + (i - Len(s))] = t[i - Len(s)]
    BY <1>1
  <2>3. Len(s) + (i - Len(s)) = i
    BY <1>1, <2>1
  <2>4. CASE i \in 1 .. Len(s)
    BY <1>1, <2>4, Zenon
  <2>5. CASE i - Len(s) \in 1 .. Len(t)
    BY <2>2, <2>3, <2>5
  <2>. QED BY <2>1, <2>4, <2>5
<1>6. IsInjective(r)
  <2>. SUFFICES ASSUME NEW i \in DOMAIN r, NEW j \in DOMAIN r, r[i] = r[j] PROVE i = j
    BY DEF IsInjective
  <2>1. i \in Int /\ j \in Int
    BY <1>1
  <2>2. CASE i \in 1 .. Len(s) /\ r[i] = s[i]
    BY <1>3, <1>4, <1>5, <2>2
  <2>3. CASE i - Len(s) \in 1 .. Len(t) /\ r[i] = t[i - Len(s)]
    <3>1. j - Len(s) \in 1 .. Len(t) /\ r[j] = t[j - Len(s)]
      BY <1>3, <1>5, <2>3
    <3>2. i - Len(s) = j - Len(s)
      BY <1>4, <2>3, <3>1
    <3>. QED BY <1>1, <2>1, <3>2
  <2>. QED BY <1>5, <2>2, <2>3
<1>7. ToSet(r) \subseteq ToSet(s) \cup ToSet(t)
  BY <1>5 DEF ToSet
<1>8. ToSet(s) \subseteq ToSet(r) /\ ToSet(t) \subseteq ToSet(r)
  <2>1. \A i \in 1 .. Len(s) : i \in DOMAIN r /\ r[i] = s[i]
    BY <1>1
  <2>2. \A i \in 1 .. Len(t) : Len(s) + i \in DOMAIN r /\ r[Len(s) + i] = t[i]
    BY <1>1
  <2>. QED BY <2>1, <2>2, SMTT(30) DEF ToSet
<1>. QED BY <1>6, <1>7, <1>8 DEF r

(* The count is right: a list of cores that names none twice and is as long as
   the sum of num_cpus over its machines names every core of these machines.  *)
LEMMA CountCovers ==
  ASSUME NEW list \in Seq(Cores), IsInjective(list), Len(list) = Awaited(list)
  PROVE  \A c \in Cores : c[1] \in Seen(list) => c \in ToSet(list)
<1>. DEFINE S == Seen(list)
            All == UNION {{m} \X (1 .. NumCpus[m]) : m \in S}
<1>1. S \subseteq Machines
  BY CoreShape DEF Seen
<1>2. IsFiniteSet(S) /\ \A m \in S : NumCpus[m] \in Nat
  BY <1>1, RendezvousAssumption, FS_Subset DEF RendezvousAssumption
<1>3. IsFiniteSet(All) /\ Awaited(list) = Cardinality(All)
  BY <1>2, AwaitedIsCardinality
<1>4. \A c \in Cores : c \in All <=> c[1] \in S
  BY <1>1 DEF Cores
<1>5. \A i \in DOMAIN list : list[i][1] \in S
  BY DEF Seen
<1>. HIDE DEF S, All
<1>6. list \in [1 .. Len(list) -> All]
  BY <1>4, <1>5
<1>7. list \in Injection(1 .. Len(list), All)
  BY <1>6 DEF Injection
<1>8. Cardinality(1 .. Len(list)) = Cardinality(All)
  <2>1. 1 \in Int /\ Len(list) \in Int /\ Len(list) >= 0
    OBVIOUS
  <2>2. Cardinality(1 .. Len(list)) = IF 1 > Len(list) THEN 0 ELSE Len(list) - 1 + 1
    BY <2>1, FS_Interval
  <2>. QED BY <2>1, <2>2, <1>3
<1>9. list \in Surjection(1 .. Len(list), All)
  BY <1>3, <1>7, <1>8, FS_Injection
<1>10. \A c \in All : \E i \in 1 .. Len(list) : list[i] = c
  BY <1>9 DEF Surjection
<1>. QED BY <1>4, <1>10 DEF ToSet, S
-----------------------------------------------------------------------------
(* The steps, one part of the invariant at a time.                           *)

LEMMA InitIInv == Init => IInv
<1>. SUFFICES ASSUME Init PROVE IInv
  OBVIOUS
<1>1. ToSet(clients) = {} /\ ToSet(backlog) = {}
  BY DEF Init, ToSet
<1>2. Types
  <2>1. core \in [Cores -> {"connect", "connected", "introduced", "left", "ready", "exited"}]
    BY DEF Init
  <2>2. clients = <<>> /\ backlog = <<>> /\ peer = <<>> /\ exits = 0 /\ started = FALSE
        /\ accepting = "select" /\ elf_hash = NoHash /\ elf \in [Machines -> Binaries]
    BY DEF Init
  <2>3. <<>> \in Seq(Cores) /\ 0 \in 0 .. MaxExits
    BY RendezvousAssumption DEF RendezvousAssumption
  <2>. QED BY <2>1, <2>2, <2>3 DEF Types
<1>. QED BY <1>1, <1>2 DEF Init, IInv, EachOnce, IsInjective, SameBinary, HashChecked, EndedByCount

LEMMA TypesStep == ASSUME Types, [Next]_vars PROVE Types'
<1>. USE RendezvousAssumption DEF RendezvousAssumption, Types
<1>1. ASSUME NEW c \in Cores, Connect(c) PROVE Types'
  BY <1>1 DEF Connect, given
<1>2. ASSUME NEW c \in Cores, GiveUp(c) \/ SendInfo(c) \/ Reset(c) PROVE Types'
  BY <1>2 DEF GiveUp, SendInfo, Reset, given
<1>3. ASSUME NEW c \in Cores, CoreExits(c) PROVE Types'
  BY <1>3 DEF CoreExits, given
<1>4. CASE Accept
  <2>1. backlog # <<>> /\ peer' = Head(backlog) /\ backlog' = Tail(backlog) /\ accepting' = "info"
    BY <1>4 DEF Accept
  <2>2. peer' \in Cores /\ backlog' \in Seq(Cores)
    BY <2>1
  <2>3. peer' # <<>>
    BY <2>2, CoreShape
  <2>. QED BY <1>4, <2>1, <2>2, <2>3 DEF Accept, given
<1>5. CASE RecvInfo
  BY <1>5 DEF RecvInfo, given
<1>6. CASE CheckHash
  <2>1. peer \in Cores
    BY <1>6 DEF CheckHash
  <2>2. elf[peer[1]] \in Binaries
    BY <2>1, CoreShape
  <2>. QED BY <1>6, <2>2 DEF CheckHash, given
<1>7. CASE SendParams
  BY <1>7 DEF SendParams, given
<1>8. CASE Register
  <2>1. peer \in Cores
    BY <1>8 DEF Register
  <2>. QED BY <1>8, <2>1 DEF Register, given
<1>9. CASE PressEnter \/ StartFuzzing
  BY <1>9 DEF PressEnter, StartFuzzing, given
<1>10. CASE UNCHANGED vars
  BY <1>10 DEF vars
<1>. QED BY <1>1, <1>2, <1>3, <1>4, <1>5, <1>6, <1>7, <1>8, <1>9, <1>10
        DEF Next, CoreStep, AcceptThread

(* No step brings a core back to connect_with_retry; the backlog is a queue,
   whose head goes into the handshake and from there into the list.          *)
LEMMA OnceStep == ASSUME Types, EachOnce, [Next]_vars PROVE EachOnce'
<1>1. ASSUME UNCHANGED <<clients, backlog, peer>>,
             \A c \in Cores : core'[c] = "connect" => core[c] = "connect"
      PROVE  EachOnce'
  <2>1. ToSet(clients) \subseteq Cores /\ ToSet(backlog) \subseteq Cores
    BY DEF Types, ToSet
  <2>. QED BY <1>1, <2>1 DEF EachOnce, Types
<1>2. ASSUME NEW c \in Cores, Connect(c) PROVE EachOnce'
  <2>1. /\ core[c] = "connect" /\ core' = [core EXCEPT ![c] = "connected"]
        /\ backlog' = Append(backlog, c) /\ UNCHANGED <<clients, peer>>
    BY <1>2 DEF Connect
  <2>2. c \notin ToSet(clients) /\ c \notin ToSet(backlog) /\ c # peer
    BY <2>1, CoreShape DEF EachOnce
  <2>3. ToSet(backlog') = ToSet(backlog) \cup {c} /\ IsInjective(backlog')
    <3>1. backlog \in Seq(Cores) /\ IsInjective(backlog)
      BY DEF EachOnce, Types
    <3>2. ToSet(backlog') = ToSet(backlog) \cup {c}
      BY <2>1, <3>1, ToSetAppend
    <3>3. IsInjective(Append(backlog, c))
      BY <2>2, <3>1, AppendKeepsDistinct
    <3>. QED BY <2>1, <3>2, <3>3
  <2>4. \A d \in Cores : core'[d] = "connect" => core[d] = "connect" /\ d # c
    BY <2>1 DEF Types
  <2>5. ToSet(clients) \subseteq Cores /\ ToSet(backlog) \subseteq Cores
    BY DEF Types, ToSet
  <2>. QED BY <2>1, <2>2, <2>3, <2>4, <2>5 DEF EachOnce, Types
<1>3. CASE Accept
  <2>1. /\ backlog # <<>> /\ peer' = Head(backlog) /\ backlog' = Tail(backlog)
        /\ UNCHANGED <<clients, core>>
    BY <1>3 DEF Accept
  <2>2. ToSet(backlog) = ToSet(backlog') \cup {peer'}
    BY <2>1, ToSetTail DEF Types
  <2>3. IsInjective(backlog') /\ peer' \notin ToSet(backlog')
    BY <2>1, TailKeepsDistinct DEF Types, EachOnce
  <2>. QED BY <2>1, <2>2, <2>3 DEF EachOnce
<1>4. CASE Register
  <2>1. /\ clients' = Append(clients, peer) /\ peer' = <<>>
        /\ peer \in Cores /\ peer # <<>>
        /\ UNCHANGED <<backlog, core>>
    BY <1>4 DEF Register, Types
  <2>2. ToSet(clients') = ToSet(clients) \cup {peer} /\ IsInjective(clients')
    <3>1. clients \in Seq(Cores) /\ IsInjective(clients) /\ peer \notin ToSet(clients)
      BY DEF EachOnce, Types
    <3>2. ToSet(clients') = ToSet(clients) \cup {peer}
      BY <2>1, <3>1, ToSetAppend
    <3>3. IsInjective(Append(clients, peer))
      BY <2>1, <3>1, AppendKeepsDistinct
    <3>. QED BY <2>1, <3>2, <3>3
  <2>3. ToSet(clients) \subseteq Cores /\ ToSet(backlog) \subseteq Cores
    BY DEF Types, ToSet
  <2>4. <<>> \notin ToSet(clients') /\ <<>> \notin ToSet(backlog')
    BY <2>1, <2>2, <2>3, CoreShape
  <2>. QED BY <2>1, <2>2, <2>4 DEF EachOnce
<1>5. ASSUME NEW c \in Cores, GiveUp(c) \/ SendInfo(c) \/ Reset(c) \/ CoreExits(c) PROVE EachOnce'
  BY <1>1, <1>5 DEF GiveUp, SendInfo, Reset, CoreExits, Types
<1>6. CASE SendParams
  BY <1>1, <1>6 DEF SendParams, Types
<1>7. CASE RecvInfo \/ CheckHash \/ PressEnter \/ StartFuzzing \/ UNCHANGED vars
  BY <1>1, <1>7 DEF RecvInfo, CheckHash, PressEnter, StartFuzzing, vars
<1>. QED BY <1>2, <1>3, <1>4, <1>5, <1>6, <1>7 DEF Next, CoreStep, AcceptThread

(* The hash is set once, by the first client, and compared with every other. *)
LEMMA HashStep ==
  ASSUME Types, SameBinary, HashChecked, [Next]_vars PROVE SameBinary' /\ HashChecked'
<1>1. ASSUME UNCHANGED <<elf, elf_hash, clients>>, accepting' \in {"params", "register"} =>
               accepting \in {"params", "register"} /\ peer' = peer
      PROVE  SameBinary' /\ HashChecked'
  BY <1>1 DEF SameBinary, HashChecked
<1>2. CASE CheckHash
  <2>1. peer \in Cores
    BY <1>2 DEF CheckHash, Types
  <2>2. accepting = "hash" /\ UNCHANGED <<elf, clients, peer>>
    BY <1>2 DEF CheckHash, given
  <2>3. CASE elf_hash \in {NoHash, elf[peer[1]]}
    <3>1. elf_hash' = elf[peer[1]]
      BY <1>2, <2>3 DEF CheckHash
    <3>2. ASSUME NEW c \in ToSet(clients) PROVE elf[c[1]] = elf[peer[1]]
      <4>1. c \in Cores /\ elf[c[1]] = elf_hash
        BY DEF SameBinary, Types, ToSet
      <4>2. elf[c[1]] \in Binaries
        BY <4>1, CoreShape DEF Types
      <4>. QED BY <2>3, <4>1, <4>2 DEF Binaries, NoHash
    <3>. QED BY <2>2, <3>1, <3>2 DEF SameBinary, HashChecked
  <2>4. CASE elf_hash \notin {NoHash, elf[peer[1]]}
    <3>1. elf_hash' = elf_hash /\ accepting' = "crashed"
      BY <1>2, <2>4 DEF CheckHash
    <3>. QED BY <1>1, <2>2, <3>1
  <2>. QED BY <2>3, <2>4
<1>3. CASE Register
  <2>1. /\ clients' = Append(clients, peer) /\ UNCHANGED <<elf, elf_hash>>
        /\ accepting = "register" /\ accepting' \in {"complete", "select"} /\ peer \in Cores
    BY <1>3 DEF Register, given, Types
  <2>2. ToSet(clients') = ToSet(clients) \cup {peer}
    BY <2>1, ToSetAppend DEF Types
  <2>. QED BY <2>1, <2>2 DEF SameBinary, HashChecked
<1>4. ASSUME NEW c \in Cores, CoreStep(c) \/ CoreExits(c) PROVE SameBinary' /\ HashChecked'
  BY <1>1, <1>4 DEF CoreStep, Connect, GiveUp, SendInfo, Reset, CoreExits, given
<1>5. CASE Accept \/ RecvInfo \/ SendParams
  BY <1>1, <1>5 DEF Accept, RecvInfo, SendParams, given
<1>6. CASE PressEnter \/ StartFuzzing \/ UNCHANGED vars
  BY <1>1, <1>6 DEF PressEnter, StartFuzzing, given, vars
<1>. QED BY <1>2, <1>3, <1>4, <1>5, <1>6 DEF Next, AcceptThread

(* Nothing is listed after the count has ended the wait.                     *)
LEMMA EndStep == ASSUME EndedByCount, [Next]_vars PROVE EndedByCount'
<1>1. ASSUME clients' = clients, accepting' = "complete" => accepting = "complete" PROVE EndedByCount'
  BY <1>1 DEF EndedByCount
<1>2. CASE Register
  <2>1. accepting' = "complete" => AllConnected(clients')
    BY <1>2 DEF Register
  <2>. QED BY <2>1 DEF EndedByCount
<1>3. ASSUME NEW c \in Cores, CoreStep(c) \/ CoreExits(c) PROVE EndedByCount'
  BY <1>1, <1>3 DEF CoreStep, Connect, GiveUp, SendInfo, Reset, CoreExits
<1>4. CASE Accept \/ RecvInfo \/ CheckHash \/ SendParams
  BY <1>1, <1>4 DEF Accept, RecvInfo, CheckHash, SendParams
<1>5. CASE PressEnter \/ StartFuzzing \/ UNCHANGED vars
  BY <1>1, <1>5 DEF PressEnter, StartFuzzing, vars
<1>. QED BY <1>2, <1>3, <1>4, <1>5 DEF Next, AcceptThread

-----------------------------------------------------------------------------
(* The inductive invariant holds throughout.                                 *)
THEOREM RendezvousInvariant == Spec => []IInv
<1>1. IInv /\ [Next]_vars => IInv'
  BY TypesStep, OnceStep, HashStep, EndStep DEF IInv
<1>. QED BY <1>1, InitIInv, PTL DEF Spec

(* The accept thread and the cores stay within their states, and no connection
   is at two places: waiting, in the handshake and listed (Server.run).      *)
THEOREM RendezvousTypes == Spec => []TypeOK
<1>1. IInv => TypeOK
  <2>. SUFFICES ASSUME IInv PROVE TypeOK
    OBVIOUS
  <2>1. IsInjective(clients \o backlog) /\ ToSet(clients \o backlog) = ToSet(clients) \cup ToSet(backlog)
    BY ConcatKeepsDistinct DEF IInv, Types, EachOnce
  <2>2. peer # <<>> => peer \in Cores \ ToSet(clients \o backlog)
    BY <2>1 DEF IInv, Types, EachOnce
  <2>. QED BY <2>1, <2>2 DEF IInv, Types, TypeOK
<1>. QED BY <1>1, RendezvousInvariant, PTL

(* All clients of a session run the same binary (check_hash), whichever of the
   machines connects first and whatever happens to the others.               *)
THEOREM ClientsRunSameBinary == Spec => []SameBinary
<1>1. IInv => SameBinary
  BY DEF IInv
<1>. QED BY <1>1, RendezvousInvariant, PTL

(* When the accept thread ends by its count, exactly Expect machines are
   connected with all of their cores, each once: counting connections against
   the sum of num_cpus per hostname (machine_to_n_cores) cannot be met by any
   other list of clients.                                                    *)
THEOREM CountEndsComplete == Spec => []CountIsComplete
<1>1. IInv => CountIsComplete
  <2>. SUFFICES ASSUME IInv, accepting = "complete" PROVE
         /\ Cardinality(Seen(clients)) = Expect
         /\ \A c \in Cores : c[1] \in Seen(clients) =>
              Cardinality({k \in DOMAIN clients : clients[k] = c}) = 1
    BY DEF CountIsComplete
  <2>1. Cardinality(Seen(clients)) = Expect /\ Len(clients) = Awaited(clients)
    BY DEF IInv, EndedByCount, AllConnected
  <2>2. clients \in Seq(Cores) /\ IsInjective(clients)
    BY DEF IInv, Types, EachOnce
  <2>3. ASSUME NEW c \in Cores, c[1] \in Seen(clients)
        PROVE  Cardinality({k \in DOMAIN clients : clients[k] = c}) = 1
    <3>1. c \in ToSet(clients)
      BY <2>1, <2>2, <2>3, CountCovers
    <3>2. PICK i \in DOMAIN clients : clients[i] = c
      BY <3>1 DEF ToSet
    <3>3. {k \in DOMAIN clients : clients[k] = c} = {i}
      BY <2>2, <3>2 DEF IsInjective
    <3>. QED BY <3>3, FS_Singleton
  <2>. QED BY <2>1, <2>3
<1>. QED BY <1>1, RendezvousInvariant, PTL
=============================================================================
