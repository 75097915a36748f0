--------------------------- MODULE DiffTreeProofs ---------------------------
(***************************************************************************)
(* Proofs about the analysis of one input (DiffTree), for every number of  *)
(* clients, length of the sequence and set of results.                     *)
(*                                                                         *)
(* The invariant says that the classes before a prefix are exactly the     *)
(* groups of at least two clients that ran every prefix before it without  *)
(* a signal and with the same results, and that the recorded splits are    *)
(* those groups, at an earlier prefix, of which two clients disagree.      *)
(* Three things carry it: what clustering yields, one client at a time     *)
(* (ClusterJoined) and after the sort (SortedClusters); that a class is    *)
(* recorded only if two results are apart (DiffersSound), and on riscv64,  *)
(* where the filters make an equivalence, whenever two are                 *)
(* (DiffersComplete); and that the classes that go on are those together   *)
(* for one prefix more (NextClasses).                                      *)
(***************************************************************************)
EXTENDS DiffTree, ListLemmas

(* A list without repetition.                                                *)
Distinct(s) == \A k, l \in DOMAIN s : s[k] = s[l] => k = l

(* t lists the entries of s at the places in P, each once: its p-th entry is
   the I[p]-th of s.                                                         *)
ListsAt(s, P, t, I) ==
  /\ \A p \in DOMAIN t : I[p] \in DOMAIN s /\ I[p] \in P /\ t[p] = s[I[p]]
  /\ \A p, q \in DOMAIN t : I[p] = I[q] => p = q
  /\ \A i \in DOMAIN s : i \in P => \E p \in DOMAIN t : I[p] = i

(* EntriesAt lists the entries at these places, each once.                   *)
LEMMA EntriesAtPlaces ==
  ASSUME NEW S, NEW s \in Seq(S), NEW P
  PROVE  EntriesAt(s, P) \in Seq(S) /\ \E I : ListsAt(s, P, EntriesAt(s, P), I)
<1> DEFINE u == [i \in DOMAIN s |-> IF i \in P THEN <<s[i]>> ELSE <<>>]
           t == EntriesAt(s, P)
<1>1. t = FlattenSeq(u)
  BY DEF EntriesAt
<1>2. u \in Seq(Seq(S)) /\ DOMAIN u = DOMAIN s /\ Len(u) = Len(s) /\ DOMAIN s = 1 .. Len(s)
  <2>1. DOMAIN s = 1 .. Len(s) /\ Len(s) \in Nat /\ \A i \in 1 .. Len(s) : s[i] \in S
    OBVIOUS
  <2>2. \A i \in 1 .. Len(s) : u[i] \in Seq(S)
    BY <2>1
  <2>3. u = [i \in 1 .. Len(s) |-> u[i]]
    BY <2>1
  <2> HIDE DEF u
  <2> QED BY <2>1, <2>2, <2>3
<1>3. t \in Seq(S)
  BY <1>1, <1>2, FlattenPlaces
<1>4. PICK I, J : EntryPlaces(u, Len(u), t, I, J)
  BY <1>1, <1>2, FlattenPlaces
<1>5. \A i \in DOMAIN s : \A j \in DOMAIN u[i] : j = 1 /\ i \in P /\ u[i][j] = s[i]
  OBVIOUS
<1>6. \A i \in DOMAIN s : i \in P => 1 \in DOMAIN u[i]
  OBVIOUS
<1> HIDE DEF u, t
<1>7. \A p \in DOMAIN t : I[p] \in DOMAIN s /\ I[p] \in P /\ t[p] = s[I[p]] /\ J[p] = 1
  BY <1>2, <1>4, <1>5 DEF EntryPlaces
<1>8. \A p, q \in DOMAIN t : I[p] = I[q] => p = q
  BY <1>4, <1>7 DEF EntryPlaces
<1>9. \A i \in DOMAIN s : i \in P => \E p \in DOMAIN t : I[p] = i
  BY <1>2, <1>4, <1>6 DEF EntryPlaces
<1>10. ListsAt(s, P, t, I)
  BY <1>7, <1>8, <1>9 DEF ListsAt
<1> QED BY <1>3, <1>10 DEF t

(* A function on 1 .. n is a list of length n.                               *)
LEMMA ListOf ==
  ASSUME NEW S, NEW n \in Nat, NEW f \in [1 .. n -> S]
  PROVE  f \in Seq(S) /\ Len(f) = n /\ DOMAIN f = 1 .. n
OBVIOUS

-----------------------------------------------------------------------------
(* Clustering joins one client after the other.                              *)
LEMMA ClusterSteps ==
  ASSUME NEW class \in Seq(Clients), NEW filtered
  PROVE  \E f : /\ f[0] = <<>>
                /\ \A n \in 1 .. Len(class) : f[n] = Join(f[n - 1], class[n], filtered)
                /\ Cluster(class, filtered) = f[Len(class)]
<1> DEFINE N == Len(class)
           Step(h, S) == IF S = {} THEN <<>> ELSE Join(h[S \ {Max(S)}], class[Max(S)], filtered)
           Steps(h, n) == h = [S \in SUBSET (1 .. n) |-> Step(h, S)]
<1>0. N \in Nat /\ DOMAIN class = 1 .. N
  OBVIOUS
<1>1. Cluster(class, filtered) = (CHOOSE h : Steps(h, N))[1 .. N]
  BY <1>0 DEF Cluster, FoldLeft, MapThenFoldSet
<1>2. ASSUME NEW n \in Nat, NEW S \in SUBSET (1 .. n), S # {}
      PROVE  Max(S) \in S /\ \A x \in S : x <= Max(S)
  <2>1. S \subseteq 0 .. n
    OBVIOUS
  <2> QED BY <1>2, <2>1, MaxProperties
<1>3. \E h : Steps(h, 0)
  <2> DEFINE h == [S \in SUBSET (1 .. 0) |-> <<>>]
  <2>1. 1 .. 0 = {}
    OBVIOUS
  <2>2. \A S \in SUBSET (1 .. 0) : S = {} /\ h[S] = <<>>
    BY <2>1
  <2>3. \A S \in SUBSET (1 .. 0) : h[S] = Step(h, S)
    BY <2>2
  <2>4. Steps(h, 0)
    BY <2>2, <2>3
  <2> QED BY <2>4
<1>4. ASSUME NEW n \in 1 .. N, NEW g, Steps(g, n - 1) PROVE \E h : Steps(h, n)
  <2> DEFINE h == [S \in SUBSET (1 .. n) |->
                     IF n \in S THEN Join(g[S \ {n}], class[n], filtered) ELSE g[S]]
  <2>1. \A S \in SUBSET (1 .. n - 1) : g[S] = Step(g, S)
    BY <1>4
  <2>2. \A S \in SUBSET (1 .. n) : h[S] = IF n \in S THEN Join(g[S \ {n}], class[n], filtered) ELSE g[S]
    OBVIOUS
  <2>3. h = [S \in SUBSET (1 .. n) |-> h[S]]
    OBVIOUS
  <2> HIDE DEF h
  <2>4. ASSUME NEW S \in SUBSET (1 .. n) PROVE h[S] = Step(h, S)
    <3>1. CASE n \in S
      <4>1. Max(S) = n
        <5>1. Max(S) \in S /\ \A x \in S : x <= Max(S)
          <6>1. n \in Nat /\ S # {}
            BY <3>1
          <6> QED BY <1>2, <6>1
        <5>2. Max(S) \in 1 .. n /\ n <= Max(S)
          BY <5>1, <3>1
        <5> QED BY <5>2
      <4>2. S \ {n} \in SUBSET (1 .. n) /\ n \notin S \ {n}
        OBVIOUS
      <4>3. h[S \ {n}] = g[S \ {n}]
        BY <4>2, <2>2
      <4>4. h[S] = Join(g[S \ {n}], class[n], filtered)
        BY <2>2, <3>1
      <4> QED BY <4>1, <4>3, <4>4, <3>1
    <3>2. CASE n \notin S
      <4>1. S \in SUBSET (1 .. n - 1) /\ h[S] = g[S]
        BY <3>2, <2>2
      <4>2. CASE S = {}
        BY <4>1, <4>2, <2>1
      <4>3. CASE S # {}
        <5>1. S \ {Max(S)} \in SUBSET (1 .. n) /\ n \notin S \ {Max(S)}
          BY <3>2
        <5>2. h[S \ {Max(S)}] = g[S \ {Max(S)}]
          BY <5>1, <2>2
        <5> QED BY <4>1, <4>3, <5>2, <2>1
      <4> QED BY <4>2, <4>3
    <3> QED BY <3>1, <3>2
  <2>5. Steps(h, n)
    BY <2>3, <2>4
  <2> QED BY <2>5
<1> HIDE DEF Steps
<1>5. \A n \in 1 .. N : \E h : Steps(h, n)
  <2> DEFINE T == {n \in 1 .. N : ~ \E h : Steps(h, n)}
  <2>1. SUFFICES ASSUME T # {} PROVE FALSE
    OBVIOUS
  <2>2. T \in SUBSET (1 .. N)
    OBVIOUS
  <2> HIDE DEF T
  <2>3. PICK n \in T : n # 1 => n - 1 \in 1 .. N /\ n - 1 \notin T
    BY <1>0, <2>1, <2>2, LeastOfInterval
  <2>4. n \in 1 .. N /\ ~ \E h : Steps(h, n)
    BY DEF T
  <2>5. \E g : Steps(g, n - 1)
    <3>1. CASE n = 1
      BY <3>1, <1>3
    <3>2. CASE n # 1
      BY <3>2, <2>3 DEF T
    <3> QED BY <3>1, <3>2
  <2> QED BY <2>4, <2>5, <1>4
<1>6. PICK h : h = (CHOOSE g : Steps(g, N)) /\ Steps(h, N)
  <2>1. \E g : Steps(g, N)
    <3>1. CASE N = 0
      BY <3>1, <1>3
    <3>2. CASE N # 0
      <4>1. N \in 1 .. N
        BY <1>0, <3>2
      <4> QED BY <4>1, <1>5
    <3> QED BY <3>1, <3>2
  <2>2. Steps(CHOOSE g : Steps(g, N), N)
    BY <2>1
  <2> QED BY <2>2
<1>7. \A S \in SUBSET (1 .. N) : h[S] = Step(h, S)
  BY <1>6 DEF Steps
<1> DEFINE f == [n \in 0 .. N |-> h[1 .. n]]
<1>8. f[0] = <<>>
  <2>1. 1 .. 0 = {} /\ {} \in SUBSET (1 .. N) /\ 0 \in 0 .. N
    BY <1>0
  <2>2. h[{}] = <<>>
    BY <1>7, <2>1
  <2> QED BY <2>1, <2>2
<1>9. ASSUME NEW n \in 1 .. N PROVE f[n] = Join(f[n - 1], class[n], filtered)
  <2>1. 1 .. n \in SUBSET (1 .. N) /\ 1 .. n # {} /\ n \in 1 .. n /\ n - 1 \in 0 .. N /\ n \in 0 .. N
    BY <1>0
  <2>2. Max(1 .. n) = n
    <3>1. Max(1 .. n) \in 1 .. n /\ \A x \in 1 .. n : x <= Max(1 .. n)
      BY <1>0, <1>2, <2>1
    <3> QED BY <3>1, <2>1
  <2>3. (1 .. n) \ {n} = 1 .. n - 1
    OBVIOUS
  <2>4. h[1 .. n] = Join(h[1 .. n - 1], class[n], filtered)
    BY <1>7, <2>1, <2>2, <2>3
  <2> QED BY <2>1, <2>4
<1>10. Cluster(class, filtered) = f[N]
  BY <1>0, <1>1, <1>6
<1> HIDE DEF f
<1> QED BY <1>8, <1>9, <1>10

(* The results that clients are clustered by.                                *)
Keys(filtered) == IF filtered THEN {Lenient(r) : r \in Results} ELSE Results
ClusterOf(filtered) == [result : Keys(filtered), clients : Seq(Clients)]

(* The clusters t of the clients D: each client is in a cluster whose key it
   equals, a key is the result of one of its clients, and no key equals an
   earlier one.                                                              *)
Joined(t, D, filtered) ==
  /\ t \in Seq(ClusterOf(filtered))
  /\ \A i \in DOMAIN t :
       /\ Distinct(t[i].clients)
       /\ \E c \in ToSet(t[i].clients) : t[i].result = ResultOf(c, filtered)
       /\ \A c \in ToSet(t[i].clients) :
            c \in D /\ Same(t[i].result, ResultOf(c, filtered), filtered)
  /\ \A c \in D : \E i \in DOMAIN t : c \in ToSet(t[i].clients)
  /\ \A i, j \in DOMAIN t : i < j => ~Same(t[i].result, t[j].result, filtered)

(* Appending a new element keeps a list without repetition.                  *)
LEMMA DistinctAppend ==
  ASSUME NEW S, NEW s \in Seq(S), NEW e \in S, Distinct(s), e \notin ToSet(s)
  PROVE  Distinct(Append(s, e))
<1>1. /\ DOMAIN Append(s, e) = 1 .. Len(s) + 1 /\ Len(s) \in Nat /\ DOMAIN s = 1 .. Len(s)
      /\ Append(s, e)[Len(s) + 1] = e
      /\ \A k \in 1 .. Len(s) : Append(s, e)[k] = s[k]
  OBVIOUS
<1>2. \A k \in 1 .. Len(s) : s[k] # e
  BY <1>1 DEF ToSet
<1>3. ASSUME NEW k \in DOMAIN Append(s, e), NEW l \in DOMAIN Append(s, e),
             Append(s, e)[k] = Append(s, e)[l]
      PROVE  k = l
  <2>1. CASE k \in 1 .. Len(s) /\ l \in 1 .. Len(s)
    BY <2>1, <1>1, <1>3 DEF Distinct
  <2> QED BY <2>1, <1>1, <1>2, <1>3
<1> QED BY <1>3 DEF Distinct

(* An entry of a list, and its place.                                        *)
LEMMA EntryType ==
  ASSUME NEW S, NEW s \in Seq(S), NEW i \in DOMAIN s
  PROVE  s[i] \in S /\ i \in 1 .. Len(s) /\ i \in Nat
OBVIOUS

(* The key and the clients of a cluster.                                     *)
LEMMA ClusterType ==
  ASSUME NEW filtered, NEW t \in Seq(ClusterOf(filtered)), NEW i \in DOMAIN t
  PROVE  t[i].result \in Keys(filtered) /\ t[i].clients \in Seq(Clients)
<1>1. t[i] \in ClusterOf(filtered)
  BY EntryType
<1> QED BY <1>1 DEF ClusterOf

(* Changing one field of a cluster.                                          *)
LEMMA ExceptClients ==
  ASSUME NEW A, NEW B, NEW r \in [result : A, clients : B], NEW e
  PROVE  [r EXCEPT !.clients = e] = [result |-> r.result, clients |-> e]
OBVIOUS

(* One client joins: it enters the first cluster whose key its result equals,
   and every other cluster stays as it is; or it opens a cluster of its own. *)
LEMMA JoinCases ==
  ASSUME NEW filtered \in BOOLEAN, NEW t \in Seq(ClusterOf(filtered)), NEW c \in Clients,
         ResultOf(c, filtered) \in Keys(filtered)
  PROVE  \/ /\ \A i \in DOMAIN t : ~Same(t[i].result, ResultOf(c, filtered), filtered)
            /\ Join(t, c, filtered) = Append(t, [result |-> ResultOf(c, filtered), clients |-> <<c>>])
         \/ \E f \in DOMAIN t :
              /\ Same(t[f].result, ResultOf(c, filtered), filtered)
              /\ Join(t, c, filtered) = [t EXCEPT ![f] = [result |-> t[f].result, clients |-> Append(t[f].clients, c)]]
<1> DEFINE hits == {i \in DOMAIN t : Same(t[i].result, ResultOf(c, filtered), filtered)}
           f == CHOOSE i \in hits : \A j \in hits : i <= j
<1>1. CASE hits = {}
  BY <1>1 DEF Join
<1>2. CASE hits # {}
  <2>1. hits \subseteq Nat
    BY EntryType
  <2> HIDE DEF hits
  <2>2. f \in hits
    <3>1. Min(hits) \in hits /\ \A j \in hits : Min(hits) <= j
      BY <2>1, <1>2, MinProperties
    <3> QED BY <3>1
  <2>3. Join(t, c, filtered) = [t EXCEPT ![f].clients = Append(@, c)]
    BY <1>2 DEF Join, hits
  <2>4. PICK g \in DOMAIN t : g = f /\ Same(t[g].result, ResultOf(c, filtered), filtered)
    BY <2>2 DEF hits
  <2> HIDE DEF f
  <2>5. t[g] \in ClusterOf(filtered)
    BY EntryType
  <2>6. \A e : [t[g] EXCEPT !.clients = e] = [result |-> t[g].result, clients |-> e]
    BY <2>5, ExceptClients DEF ClusterOf
  <2>7. [t EXCEPT ![g].clients = Append(@, c)] =
          [t EXCEPT ![g] = [result |-> t[g].result, clients |-> Append(t[g].clients, c)]]
    BY <2>6
  <2> QED BY <2>3, <2>4, <2>7
<1> QED BY <1>1, <1>2

(* A result equals itself.                                                   *)
LEMMA SameReflexive ==
  ASSUME NEW filtered \in BOOLEAN, NEW r
  PROVE  Same(r, r, filtered)
BY DEF Same, FilteredEqual, Equal

(* Joining one more client keeps the clusters right.                         *)
LEMMA JoinKeeps ==
  ASSUME NEW filtered \in BOOLEAN, NEW D, NEW c \in Clients, c \notin D,
         ResultOf(c, filtered) \in Keys(filtered),
         NEW t, Joined(t, D, filtered)
  PROVE  Joined(Join(t, c, filtered), D \cup {c}, filtered)
<1> DEFINE u == Join(t, c, filtered)
           r == ResultOf(c, filtered)
           new == [result |-> r, clients |-> <<c>>]
<1>0. t \in Seq(ClusterOf(filtered))
  BY DEF Joined
<1>1. CASE /\ \A i \in DOMAIN t : ~Same(t[i].result, r, filtered)
           /\ u = Append(t, new)
  <2>1. new \in ClusterOf(filtered) /\ new.result = r /\ new.clients = <<c>>
    BY DEF ClusterOf
  <2> HIDE DEF u, new, r
  <2>2. /\ u \in Seq(ClusterOf(filtered)) /\ DOMAIN u = 1 .. Len(t) + 1
        /\ DOMAIN t = 1 .. Len(t) /\ Len(t) \in Nat
        /\ u[Len(t) + 1] = new /\ \A i \in DOMAIN t : u[i] = t[i]
    BY <1>0, <1>1, <2>1
  <2>3. ToSet(<<c>>) = {c} /\ Distinct(<<c>>)
    BY DEF ToSet, Distinct
  <2>4. ASSUME NEW i \in DOMAIN u
        PROVE  /\ Distinct(u[i].clients)
               /\ \E x \in ToSet(u[i].clients) : u[i].result = ResultOf(x, filtered)
               /\ \A x \in ToSet(u[i].clients) :
                    x \in D \cup {c} /\ Same(u[i].result, ResultOf(x, filtered), filtered)
    <3>1. CASE i \in DOMAIN t
      BY <3>1, <2>2 DEF Joined
    <3>2. CASE i = Len(t) + 1
      BY <3>2, <2>1, <2>2, <2>3, SameReflexive DEF r
    <3> QED BY <3>1, <3>2, <2>2
  <2>5. ASSUME NEW x \in D \cup {c} PROVE \E i \in DOMAIN u : x \in ToSet(u[i].clients)
    <3>1. CASE x \in D
      <4>1. PICK i \in DOMAIN t : x \in ToSet(t[i].clients)
        BY <3>1 DEF Joined
      <4>2. i \in DOMAIN u /\ u[i] = t[i]
        BY <2>2
      <4> QED BY <4>1, <4>2
    <3>2. CASE x = c
      <4>1. Len(t) + 1 \in DOMAIN u
        BY <2>2
      <4> QED BY <4>1, <3>2, <2>1, <2>2, <2>3
    <3> QED BY <3>1, <3>2
  <2>6. ASSUME NEW i \in DOMAIN u, NEW j \in DOMAIN u, i < j
        PROVE  ~Same(u[i].result, u[j].result, filtered)
    <3>1. i \in DOMAIN t
      BY <2>2, <2>6
    <3>2. CASE j \in DOMAIN t
      BY <3>1, <3>2, <2>2, <2>6 DEF Joined
    <3>3. CASE j = Len(t) + 1
      BY <3>1, <3>3, <2>1, <2>2, <1>1
    <3> QED BY <3>2, <3>3, <2>2
  <2> QED BY <2>2, <2>4, <2>5, <2>6 DEF Joined, u
<1>2. ASSUME NEW f \in DOMAIN t, Same(t[f].result, r, filtered),
             u = [t EXCEPT ![f] = [result |-> t[f].result, clients |-> Append(t[f].clients, c)]]
      PROVE  Joined(u, D \cup {c}, filtered)
  <2> DEFINE k == [result |-> t[f].result, clients |-> Append(t[f].clients, c)]
  <2>1. t[f] \in ClusterOf(filtered)
    BY <1>0, EntryType
  <2>2. t[f].clients \in Seq(Clients) /\ t[f].result \in Keys(filtered)
    BY <2>1 DEF ClusterOf
  <2>3. k \in ClusterOf(filtered) /\ k.result = t[f].result /\ k.clients = Append(t[f].clients, c)
    BY <2>2 DEF ClusterOf
  <2> HIDE DEF u, r, k
  <2>4. /\ u \in Seq(ClusterOf(filtered)) /\ DOMAIN u = DOMAIN t
        /\ u[f] = k /\ \A i \in DOMAIN t : i # f => u[i] = t[i]
    BY <1>0, <1>2, <2>3 DEF k
  <2>5. ToSet(k.clients) = ToSet(t[f].clients) \cup {c}
    BY <2>2, <2>3, ToSetAppend
  <2>6. Distinct(k.clients)
    <3>1. Distinct(t[f].clients) /\ c \notin ToSet(t[f].clients)
      BY DEF Joined
    <3> QED BY <3>1, <2>2, <2>3, DistinctAppend
  <2>7. \A i \in DOMAIN t : u[i].result = t[i].result /\ ToSet(t[i].clients) \subseteq ToSet(u[i].clients)
    BY <2>3, <2>4, <2>5
  <2>8. ASSUME NEW i \in DOMAIN u
        PROVE  /\ Distinct(u[i].clients)
               /\ \E x \in ToSet(u[i].clients) : u[i].result = ResultOf(x, filtered)
               /\ \A x \in ToSet(u[i].clients) :
                    x \in D \cup {c} /\ Same(u[i].result, ResultOf(x, filtered), filtered)
    <3>1. CASE i # f
      BY <3>1, <2>4 DEF Joined
    <3>2. CASE i = f
      <4>1. \E x \in ToSet(u[i].clients) : u[i].result = ResultOf(x, filtered)
        BY <3>2, <2>4, <2>7 DEF Joined
      <4>2. ASSUME NEW x \in ToSet(u[i].clients)
            PROVE  x \in D \cup {c} /\ Same(u[i].result, ResultOf(x, filtered), filtered)
        <5>1. CASE x = c
          BY <5>1, <3>2, <2>3, <2>4, <1>2 DEF r
        <5>2. CASE x \in ToSet(t[f].clients)
          BY <5>2, <3>2, <2>3, <2>4 DEF Joined
        <5> QED BY <5>1, <5>2, <3>2, <2>4, <2>5
      <4> QED BY <4>1, <4>2, <3>2, <2>4, <2>6
    <3> QED BY <3>1, <3>2
  <2>9. ASSUME NEW x \in D \cup {c} PROVE \E i \in DOMAIN u : x \in ToSet(u[i].clients)
    <3>1. CASE x \in D
      <4>1. PICK i \in DOMAIN t : x \in ToSet(t[i].clients)
        BY <3>1 DEF Joined
      <4> QED BY <4>1, <2>4, <2>7
    <3>2. CASE x = c
      BY <3>2, <2>4, <2>5
    <3> QED BY <3>1, <3>2
  <2>10. \A i, j \in DOMAIN u : i < j => ~Same(u[i].result, u[j].result, filtered)
    BY <2>4, <2>7 DEF Joined
  <2> QED BY <2>4, <2>8, <2>9, <2>10 DEF Joined
<1>3. \/ /\ \A i \in DOMAIN t : ~Same(t[i].result, r, filtered)
         /\ u = Append(t, new)
      \/ \E f \in DOMAIN t :
           /\ Same(t[f].result, r, filtered)
           /\ u = [t EXCEPT ![f] = [result |-> t[f].result, clients |-> Append(t[f].clients, c)]]
  BY <1>0, JoinCases
<1>4. CASE \E f \in DOMAIN t :
             /\ Same(t[f].result, r, filtered)
             /\ u = [t EXCEPT ![f] = [result |-> t[f].result, clients |-> Append(t[f].clients, c)]]
  <2>1. PICK f \in DOMAIN t :
             /\ Same(t[f].result, r, filtered)
             /\ u = [t EXCEPT ![f] = [result |-> t[f].result, clients |-> Append(t[f].clients, c)]]
    BY <1>4
  <2> QED BY <2>1, <1>2
<1> QED BY <1>1, <1>3, <1>4

(* The clusters of a class.                                                  *)
LEMMA ClusterJoined ==
  ASSUME NEW filtered \in BOOLEAN, NEW class \in Seq(Clients), Distinct(class),
         \A c \in ToSet(class) : ResultOf(c, filtered) \in Keys(filtered)
  PROVE  Joined(Cluster(class, filtered), ToSet(class), filtered)
<1> DEFINE N == Len(class)
           D(n) == {class[k] : k \in 1 .. n}
<1>0. N \in Nat /\ DOMAIN class = 1 .. N /\ \A k \in 1 .. N : class[k] \in Clients
  OBVIOUS
<1>1. PICK f : /\ f[0] = <<>>
               /\ \A n \in 1 .. N : f[n] = Join(f[n - 1], class[n], filtered)
               /\ Cluster(class, filtered) = f[N]
  BY ClusterSteps
<1>2. Joined(f[0], D(0), filtered)
  <2>1. D(0) = {} /\ DOMAIN <<>> = {} /\ <<>> \in Seq(ClusterOf(filtered))
    OBVIOUS
  <2> QED BY <1>1, <2>1 DEF Joined
<1>3. ASSUME NEW n \in 1 .. N, Joined(f[n - 1], D(n - 1), filtered)
      PROVE  Joined(f[n], D(n), filtered)
  <2>1. D(n) = D(n - 1) \cup {class[n]}
    <3>1. 1 .. n = 1 .. n - 1 \cup {n}
      OBVIOUS
    <3> QED BY <3>1
  <2>2. class[n] \notin D(n - 1)
    BY <1>0 DEF Distinct
  <2>3. class[n] \in Clients /\ ResultOf(class[n], filtered) \in Keys(filtered)
    BY <1>0 DEF ToSet
  <2> HIDE DEF D
  <2>4. Joined(Join(f[n - 1], class[n], filtered), D(n - 1) \cup {class[n]}, filtered)
    BY <1>3, <2>2, <2>3, JoinKeeps
  <2> QED BY <1>1, <2>1, <2>4
<1>4. \A n \in 1 .. N : Joined(f[n], D(n), filtered)
  <2> DEFINE T == {n \in 1 .. N : ~Joined(f[n], D(n), filtered)}
  <2> HIDE DEF D
  <2>1. SUFFICES ASSUME T # {} PROVE FALSE
    OBVIOUS
  <2>2. T \in SUBSET (1 .. N)
    OBVIOUS
  <2> HIDE DEF T
  <2>3. PICK n \in T : n # 1 => n - 1 \in 1 .. N /\ n - 1 \notin T
    BY <1>0, <2>1, <2>2, LeastOfInterval
  <2>4. n \in 1 .. N /\ ~Joined(f[n], D(n), filtered)
    BY DEF T
  <2>5. CASE n = 1
    <3>1. n - 1 = 0
      BY <2>5
    <3> QED BY <3>1, <2>4, <1>2, <1>3
  <2>6. CASE n # 1
    BY <2>3, <2>4, <2>6, <1>3 DEF T
  <2> QED BY <2>5, <2>6
<1>5. D(N) = ToSet(class)
  BY <1>0 DEF ToSet
<1> HIDE DEF D
<1>6. Joined(f[N], D(N), filtered)
  <2>1. CASE N = 0
    BY <2>1, <1>2
  <2>2. CASE N # 0
    <3>1. N \in 1 .. N
      BY <2>2, <1>0
    <3> QED BY <3>1, <1>4
  <2> QED BY <2>1, <2>2
<1> QED BY <1>1, <1>5, <1>6

-----------------------------------------------------------------------------
(* What the comparisons of results mean.                                     *)
LEMMA RawEquality ==
  ASSUME NEW r \in Results, NEW s \in Results
  PROVE  Same(r, s, FALSE) <=> r = s
<1>1. r \in Result /\ s \in Result
  BY DiffTreeAssumption
<1> QED BY <1>1 DEF Same, Equal, Result

(* What counts of a result is what its lenient form shows of it.             *)
LEMMA EssenceIsLenient ==
  ASSUME NEW r \in Results, NEW s \in Results
  PROVE  Essence(r) = Essence(s) <=>
           /\ Lenient(r).signum = Lenient(s).signum
           /\ Lenient(r).regs = Lenient(s).regs
           /\ Lenient(r).mem = Lenient(s).mem
<1>1. r \in Result /\ s \in Result
  BY DiffTreeAssumption
<1>2. r.signum \in Signals /\ s.signum \in Signals
  BY <1>1 DEF Result
<1> QED BY <1>2 DEF Essence, Lenient, Signals

(* No filter and no comparison takes results apart that agree in what counts. *)
LEMMA FiltersKeepEssence ==
  ASSUME NEW r \in Results, NEW s \in Results, Essence(r) = Essence(s)
  PROVE  Same(Lenient(r), Lenient(s), TRUE)
<1> DEFINE a == Lenient(r)
           b == Lenient(s)
<1>1. a.signum = b.signum /\ a.regs = b.regs /\ a.mem = b.mem
  BY EssenceIsLenient
<1>2. (a.signum = "OK" => a.si = 0) /\ (b.signum = "OK" => b.si = 0)
  BY DiffTreeAssumption DEF Lenient
<1> HIDE DEF a, b
<1>3. Diff(a, b) \subseteq {"pstate", "si"}
  BY <1>1 DEF Diff
<1>4. CASE Diff(a, b) = {}
  <2>1. a.pstate = b.pstate
    BY <1>4 DEF Diff
  <2>2. a.si = b.si
    BY <1>1, <1>2, <1>4 DEF Diff
  <2>3. Equal(a, b)
    BY <1>1, <2>1, <2>2 DEF Equal
  <2> QED BY <2>3 DEF Same, FilteredEqual, a, b
<1>5. CASE Diff(a, b) # {}
  <2>1. OnlyContext(a, b)
    BY <1>3, <1>5 DEF OnlyContext
  <2>2. CustomFilters(a, b)
    BY <2>1 DEF CustomFilters
  <2> QED BY <2>2 DEF Same, FilteredEqual, a, b
<1> QED BY <1>4, <1>5

(* On riscv64 a filter or comparison takes two results as one only if they agree
   in what counts: filtered equality is an equivalence there.                *)
LEMMA FiltersShowEssence ==
  ASSUME Arch = "riscv64", NEW r \in Results, NEW s \in Results,
         Same(Lenient(r), Lenient(s), TRUE)
  PROVE  Essence(r) = Essence(s)
<1> DEFINE a == Lenient(r)
           b == Lenient(s)
<1>1. OnlyContext(a, b) \/ Equal(a, b)
  BY DEF Same, FilteredEqual, CustomFilters
<1> HIDE DEF a, b
<1>2. a.signum = b.signum /\ a.regs = b.regs /\ a.mem = b.mem
  <2>1. CASE Equal(a, b)
    BY <2>1 DEF Equal
  <2>2. CASE OnlyContext(a, b)
    <3>1. Diff(a, b) \subseteq {"pstate", "si"}
      BY <2>2 DEF OnlyContext
    <3>2. \A x \in {"signum", "regs", "mem"} : a[x] # b[x] => x \in Diff(a, b)
      BY DEF Diff
    <3> QED BY <3>1, <3>2
  <2> QED BY <1>1, <2>1, <2>2
<1> QED BY <1>2, EssenceIsLenient DEF a, b

(* A lenient result shows whether the signal was SIGILL.                     *)
LEMMA LenientIllegal ==
  ASSUME NEW r \in Results
  PROVE  Lenient(r).signum = "ILL" <=> r.signum = "ILL"
BY DEF Lenient

-----------------------------------------------------------------------------
(* More than one cluster remains if two are both of SIGILL or both are not.  *)
LEMMA UsableClusters ==
  ASSUME NEW S, NEW t \in Seq(S)
  PROVE  Len(RemoveUnusable(t)) > 1 <=>
           \E i, j \in DOMAIN t : i # j /\ (i \in Illegal(t) <=> j \in Illegal(t))
<1> DEFINE A == Illegal(t)
           B == DOMAIN t \ A
<1>0. A \subseteq DOMAIN t /\ DOMAIN t = 1 .. Len(t) /\ Len(t) \in Nat
  BY DEF Illegal
<1> HIDE DEF A
<1>1. CASE Cardinality(A) = 1
  <2>1. IsFiniteSet(A)
    <3>1. IsFiniteSet(1 .. Len(t))
      BY <1>0, FS_Interval
    <3> QED BY <3>1, <1>0, FS_Subset
  <2>2. \E x : A = {x}
    BY <1>1, <2>1, FS_Singleton
  <2> DEFINE u == EntriesAt(t, B)
  <2>3. RemoveUnusable(t) = u
    BY <1>1 DEF RemoveUnusable, A
  <2> HIDE DEF B
  <2>4. u \in Seq(S)
    BY EntriesAtPlaces
  <2>5. PICK I : ListsAt(t, B, u, I)
    BY EntriesAtPlaces
  <2> HIDE DEF u
  <2> USE DEF B
  <2>6. DOMAIN u = 1 .. Len(u) /\ Len(u) \in Nat
    BY <2>4
  <2>7. ASSUME Len(u) > 1 PROVE \E i, j \in DOMAIN t : i # j /\ (i \in A <=> j \in A)
    <3>1. 1 \in DOMAIN u /\ 2 \in DOMAIN u
      BY <2>6, <2>7
    <3>2. I[1] # I[2] /\ I[1] \in B /\ I[2] \in B
      BY <2>5, <3>1 DEF ListsAt
    <3> QED BY <3>2
  <2>8. ASSUME NEW i \in DOMAIN t, NEW j \in DOMAIN t, i # j, i \in A <=> j \in A
        PROVE  Len(u) > 1
    <3>1. i \in B /\ j \in B
      BY <2>2, <2>8
    <3>2. PICK p \in DOMAIN u : I[p] = i
      BY <3>1, <2>5 DEF ListsAt
    <3>3. PICK q \in DOMAIN u : I[q] = j
      BY <3>1, <2>5 DEF ListsAt
    <3>4. p # q
      BY <3>2, <3>3, <2>8
    <3> QED BY <3>4, <2>6
  <2> QED BY <2>3, <2>7, <2>8 DEF A
<1>2. CASE Cardinality(A) # 1
  <2>1. RemoveUnusable(t) = t
    BY <1>2 DEF RemoveUnusable, A
  <2>2. ASSUME Len(t) > 1 PROVE \E i, j \in DOMAIN t : i # j /\ (i \in A <=> j \in A)
    <3>1. CASE A = {}
      <4>1. 1 \in DOMAIN t /\ 2 \in DOMAIN t
        BY <1>0, <2>2
      <4> QED BY <4>1, <3>1
    <3>2. CASE A # {}
      <4>1. PICK x : x \in A
        BY <3>2
      <4>2. A # {x}
        BY <1>2, FS_Singleton
      <4> QED BY <4>1, <4>2, <1>0
    <3> QED BY <3>1, <3>2
  <2>3. ASSUME NEW i \in DOMAIN t, NEW j \in DOMAIN t, i # j PROVE Len(t) > 1
    BY <2>3, <1>0
  <2> QED BY <2>1, <2>2, <2>3 DEF A
<1> QED BY <1>1, <1>2

(* A list of different clients is no longer than there are clients.          *)
LEMMA DistinctLen ==
  ASSUME NEW s \in Seq(Clients), Distinct(s)
  PROVE  Len(s) <= NClients
<1>0. NClients \in Nat /\ Len(s) \in Nat
  BY DiffTreeAssumption
<1>1. SUFFICES ASSUME ~(Len(s) <= NClients) PROVE FALSE
  OBVIOUS
<1>2. /\ IsFiniteSet(1 .. Len(s)) /\ Cardinality(1 .. Len(s)) = Len(s)
      /\ IsFiniteSet(Clients) /\ Cardinality(Clients) = NClients
  <2>1. ASSUME NEW n \in Nat PROVE IsFiniteSet(1 .. n) /\ Cardinality(1 .. n) = n
    <3>1. Cardinality(1 .. n) = IF 1 > n THEN 0 ELSE n - 1 + 1
      BY FS_Interval
    <3>2. IsFiniteSet(1 .. n)
      BY FS_Interval
    <3> QED BY <3>1, <3>2
  <2> QED BY <2>1, <1>0 DEF Clients
<1>3. s \in [1 .. Len(s) -> Clients]
  OBVIOUS
<1>4. \E x, y \in 1 .. Len(s) : x # y /\ s[x] = s[y]
  <2>1. Cardinality(Clients) < Cardinality(1 .. Len(s))
    BY <1>0, <1>1, <1>2
  <2> QED BY <1>2, <1>3, <2>1, FS_PigeonHole
<1> QED BY <1>4 DEF Distinct

-----------------------------------------------------------------------------
(* A list of different clients that all have a result for the prefix.        *)
Measured(class) ==
  /\ class \in Seq(Clients) /\ Distinct(class)
  /\ \A c \in ToSet(class) : Raw(c) \in Results

(* Clustering such a class puts each of its clients into one cluster.        *)
LEMMA MeasuredJoined ==
  ASSUME NEW class, Measured(class), NEW filtered \in BOOLEAN
  PROVE  Joined(Cluster(class, filtered), ToSet(class), filtered)
<1>1. \A c \in ToSet(class) : ResultOf(c, filtered) \in Keys(filtered)
  BY DEF Measured, ResultOf, Filtered, Keys
<1>2. class \in Seq(Clients) /\ Distinct(class)
  BY DEF Measured
<1> QED BY <1>1, <1>2, ClusterJoined

(* The clusters R of the clients D by raw result: one for each result.       *)
RawClusters(R, D) ==
  /\ R \in Seq(ClusterOf(FALSE))
  /\ \A p \in DOMAIN R :
       /\ Distinct(R[p].clients) /\ ToSet(R[p].clients) # {}
       /\ ToSet(R[p].clients) = {c \in D : Raw(c) = R[p].result}
  /\ \A c \in D : \E p \in DOMAIN R : c \in ToSet(R[p].clients)
  /\ \A p, q \in DOMAIN R : p # q => R[p].result # R[q].result

(* Clustering by raw result yields them.                                     *)
LEMMA RawClustersOf ==
  ASSUME NEW class, Measured(class)
  PROVE  RawClusters(Cluster(class, FALSE), ToSet(class))
<1> DEFINE t == Cluster(class, FALSE)
           D == ToSet(class)
<1>1. Joined(t, D, FALSE)
  BY MeasuredJoined
<1>2. \A c \in D : Raw(c) \in Results
  BY DEF Measured
<1> HIDE DEF t, D
<1>3. t \in Seq(ClusterOf(FALSE)) /\ \A i \in DOMAIN t : t[i].result \in Results /\ i \in Nat
  <2>1. t \in Seq(ClusterOf(FALSE))
    BY <1>1 DEF Joined
  <2>2. \A i \in DOMAIN t : t[i] \in ClusterOf(FALSE) /\ i \in Nat
    BY <2>1, EntryType
  <2> QED BY <2>1, <2>2 DEF ClusterOf, Keys
<1>4. \A c : ResultOf(c, FALSE) = Raw(c)
  BY DEF ResultOf
<1>5. ASSUME NEW p \in DOMAIN t
      PROVE  /\ Distinct(t[p].clients) /\ ToSet(t[p].clients) # {}
             /\ \A c \in ToSet(t[p].clients) : c \in D /\ Raw(c) = t[p].result
  <2>1. /\ Distinct(t[p].clients) /\ ToSet(t[p].clients) # {}
        /\ \A c \in ToSet(t[p].clients) : c \in D /\ Same(t[p].result, Raw(c), FALSE)
    BY <1>1, <1>4 DEF Joined
  <2> QED BY <2>1, <1>2, <1>3, RawEquality
<1>6. ASSUME NEW p \in DOMAIN t, NEW q \in DOMAIN t, p # q PROVE t[p].result # t[q].result
  <2>1. ASSUME NEW i \in DOMAIN t, NEW j \in DOMAIN t, i < j PROVE t[i].result # t[j].result
    <3>1. ~Same(t[i].result, t[j].result, FALSE)
      BY <1>1, <2>1 DEF Joined
    <3> QED BY <3>1, <1>3, RawEquality
  <2>2. p < q \/ q < p
    BY <1>3, <1>6
  <2> QED BY <2>1, <2>2
<1>7. \A c \in D : \E p \in DOMAIN t : c \in ToSet(t[p].clients)
  BY <1>1 DEF Joined
<1>8. ASSUME NEW p \in DOMAIN t, NEW c \in D, Raw(c) = t[p].result PROVE c \in ToSet(t[p].clients)
  BY <1>5, <1>6, <1>7, <1>8
<1>9. \A p \in DOMAIN t : ToSet(t[p].clients) = {c \in D : Raw(c) = t[p].result}
  BY <1>5, <1>8
<1> QED BY <1>3, <1>5, <1>6, <1>7, <1>9 DEF RawClusters, t, D

(* Sorting the clusters by size keeps each of them once.                     *)
LEMMA SortedClusters ==
  ASSUME NEW class, Measured(class)
  PROVE  RawClusters(ResultToClients(class), ToSet(class))
<1> DEFINE t == Cluster(class, FALSE)
           D == ToSet(class)
           R == ResultToClients(class)
           Sized(k) == {i \in DOMAIN t : Len(t[i].clients) = NClients + 1 - k}
           v == [k \in 1 .. NClients |-> EntriesAt(t, Sized(k))]
<1>1. RawClusters(t, D)
  BY RawClustersOf, Zenon
<1>2. R = FlattenSeq(v)
  BY DEF ResultToClients
<1>3. t \in Seq(ClusterOf(FALSE))
  BY <1>1 DEF RawClusters
<1>n. NClients \in Nat
  BY DiffTreeAssumption
<1> HIDE DEF t, D, R, Sized
<1>4. /\ v \in Seq(Seq(ClusterOf(FALSE))) /\ Len(v) = NClients
      /\ \A k \in 1 .. NClients : v[k] = EntriesAt(t, Sized(k))
  <2>1. \A k \in 1 .. NClients : EntriesAt(t, Sized(k)) \in Seq(ClusterOf(FALSE))
    BY <1>3, EntriesAtPlaces
  <2>2. v \in [1 .. NClients -> Seq(ClusterOf(FALSE))]
    BY <2>1
  <2> QED BY <2>2, <1>n, ListOf
<1> HIDE DEF v
<1>5. R \in Seq(ClusterOf(FALSE))
  BY <1>2, <1>4, FlattenPlaces
<1>6. PICK I, J : EntryPlaces(v, NClients, R, I, J)
  BY <1>2, <1>4, FlattenPlaces
<1>7. \A k \in 1 .. NClients : \E K : ListsAt(t, Sized(k), v[k], K)
  BY <1>3, <1>4, EntriesAtPlaces
<1>8. ASSUME NEW p \in DOMAIN R
      PROVE  /\ I[p] \in 1 .. NClients /\ J[p] \in DOMAIN v[I[p]]
             /\ \E i \in Sized(I[p]) : R[p] = t[i]
  <2>1. I[p] \in 1 .. NClients /\ J[p] \in DOMAIN v[I[p]] /\ R[p] = v[I[p]][J[p]]
    BY <1>6 DEF EntryPlaces
  <2> QED BY <2>1, <1>7 DEF ListsAt
<1>9. \A k : Sized(k) \subseteq DOMAIN t
  BY DEF Sized
<1>10. ASSUME NEW p \in DOMAIN R, NEW q \in DOMAIN R, p # q PROVE R[p].result # R[q].result
  <2>1. CASE I[p] = I[q]
    <3>1. PICK K : ListsAt(t, Sized(I[p]), v[I[p]], K)
      BY <1>7, <1>8
    <3>2. J[p] \in DOMAIN v[I[p]] /\ J[q] \in DOMAIN v[I[p]] /\ J[p] # J[q]
      BY <2>1, <1>6, <1>8, <1>10 DEF EntryPlaces
    <3>3. R[p] = t[K[J[p]]] /\ R[q] = t[K[J[q]]] /\ K[J[p]] # K[J[q]]
      <4>1. R[p] = v[I[p]][J[p]] /\ R[q] = v[I[p]][J[q]]
        BY <2>1, <1>6 DEF EntryPlaces
      <4> QED BY <4>1, <3>1, <3>2 DEF ListsAt
    <3>4. K[J[p]] \in DOMAIN t /\ K[J[q]] \in DOMAIN t
      BY <3>1, <3>2 DEF ListsAt
    <3> QED BY <3>3, <3>4, <1>1 DEF RawClusters
  <2>2. CASE I[p] # I[q]
    <3>1. PICK i \in Sized(I[p]) : R[p] = t[i]
      BY <1>8
    <3>2. PICK j \in Sized(I[q]) : R[q] = t[j]
      BY <1>8
    <3>3. Len(t[i].clients) = NClients + 1 - I[p] /\ Len(t[j].clients) = NClients + 1 - I[q]
      BY DEF Sized
    <3>4. I[p] \in 1 .. NClients /\ I[q] \in 1 .. NClients
      BY <1>8
    <3>5. i # j
      BY <3>3, <3>4, <2>2, <1>n
    <3> QED BY <3>1, <3>2, <3>5, <1>1, <1>9 DEF RawClusters
  <2> QED BY <2>1, <2>2
<1>11. ASSUME NEW i \in DOMAIN t PROVE \E p \in DOMAIN R : R[p] = t[i]
  <2> DEFINE n == Len(t[i].clients)
  <2>1. t[i].clients \in Seq(Clients)
    BY <1>3, ClusterType
  <2>2. n \in Nat /\ n <= NClients
    BY <2>1, <1>1, DistinctLen DEF RawClusters
  <2>3. n # 0
    BY <2>1, <1>1 DEF RawClusters, ToSet
  <2>4. PICK k \in 1 .. NClients : n = NClients + 1 - k
    <3>1. NClients + 1 - n \in 1 .. NClients /\ n = NClients + 1 - (NClients + 1 - n)
      BY <2>2, <2>3, <1>n
    <3> QED BY <3>1
  <2>5. i \in Sized(k)
    BY <2>4 DEF Sized
  <2>6. PICK x \in DOMAIN v[k] : v[k][x] = t[i]
    BY <2>5, <1>7 DEF ListsAt
  <2>7. PICK p \in DOMAIN R : I[p] = k /\ J[p] = x
    BY <1>6 DEF EntryPlaces
  <2>8. R[p] = v[k][x]
    BY <2>7, <1>6 DEF EntryPlaces
  <2> QED BY <2>6, <2>8
<1>12. ASSUME NEW p \in DOMAIN R
       PROVE  /\ Distinct(R[p].clients) /\ ToSet(R[p].clients) # {}
              /\ ToSet(R[p].clients) = {c \in D : Raw(c) = R[p].result}
  <2>1. PICK i \in DOMAIN t : R[p] = t[i]
    BY <1>8, <1>9
  <2> QED BY <2>1, <1>1 DEF RawClusters
<1>13. ASSUME NEW c \in D PROVE \E p \in DOMAIN R : c \in ToSet(R[p].clients)
  <2>1. PICK i \in DOMAIN t : c \in ToSet(t[i].clients)
    BY <1>1 DEF RawClusters
  <2> QED BY <2>1, <1>11
<1>14. RawClusters(R, D)
  BY <1>5, <1>10, <1>12, <1>13 DEF RawClusters
<1> QED BY <1>14 DEF R, D

-----------------------------------------------------------------------------
(* Two results differ in what counts, and not only because one client does not
   know an instruction.                                                      *)
Apart(r, s) == (r.signum = "ILL" <=> s.signum = "ILL") /\ Essence(r) # Essence(s)

(* The key of a filtered cluster, and the clients in it.                     *)
LEMMA FilteredKeys ==
  ASSUME NEW class, Measured(class), NEW i \in DOMAIN Cluster(class, TRUE)
  PROVE  \E x \in ToSet(class) : Cluster(class, TRUE)[i].result = Lenient(Raw(x))
<1> DEFINE t == Cluster(class, TRUE)
<1>1. Joined(t, ToSet(class), TRUE)
  BY MeasuredJoined
<1> HIDE DEF t
<1>2. PICK x \in ToSet(t[i].clients) : t[i].result = ResultOf(x, TRUE) /\ x \in ToSet(class)
  BY <1>1 DEF Joined, t
<1> QED BY <1>2 DEF ResultOf, Filtered, t

(* A class is recorded as a split only if two of its results are apart.      *)
LEMMA DiffersSound ==
  ASSUME NEW class, Measured(class), Differs(class)
  PROVE  \E x, y \in ToSet(class) : Apart(Raw(x), Raw(y))
<1> DEFINE t == Cluster(class, TRUE)
<1>1. Joined(t, ToSet(class), TRUE)
  BY MeasuredJoined
<1>2. Len(RemoveUnusable(t)) > 1
  BY DEF Differs
<1>k. \A i \in DOMAIN t : \E x \in ToSet(class) : t[i].result = Lenient(Raw(x))
  BY FilteredKeys
<1> HIDE DEF t
<1>3. t \in Seq(ClusterOf(TRUE))
  BY <1>1 DEF Joined
<1>4. PICK i, j \in DOMAIN t : i # j /\ (i \in Illegal(t) <=> j \in Illegal(t))
  BY <1>2, <1>3, UsableClusters
<1>5. PICK x \in ToSet(class) : t[i].result = Lenient(Raw(x))
  BY <1>k
<1>6. PICK y \in ToSet(class) : t[j].result = Lenient(Raw(y))
  BY <1>k
<1>7. Raw(x) \in Results /\ Raw(y) \in Results
  BY DEF Measured
<1>8. Raw(x).signum = "ILL" <=> Raw(y).signum = "ILL"
  BY <1>4, <1>5, <1>6, <1>7, LenientIllegal DEF Illegal
<1>9. Essence(Raw(x)) # Essence(Raw(y))
  <2>1. i < j \/ j < i
    BY <1>3, <1>4, EntryType
  <2>2. ~Same(Lenient(Raw(x)), Lenient(Raw(y)), TRUE) \/ ~Same(Lenient(Raw(y)), Lenient(Raw(x)), TRUE)
    BY <2>1, <1>1, <1>5, <1>6 DEF Joined
  <2> QED BY <2>2, <1>7, FiltersKeepEssence
<1> QED BY <1>8, <1>9 DEF Apart

(* On riscv64 a class with two results that are apart is recorded.           *)
LEMMA DiffersComplete ==
  ASSUME Arch = "riscv64", NEW class, Measured(class),
         NEW x \in ToSet(class), NEW y \in ToSet(class), Apart(Raw(x), Raw(y))
  PROVE  Differs(class)
<1>0. /\ Raw(x) \in Results /\ Raw(y) \in Results
      /\ (Raw(x).signum = "ILL" <=> Raw(y).signum = "ILL")
      /\ Essence(Raw(x)) # Essence(Raw(y))
  BY DEF Measured, Apart
<1>1. Len(RemoveUnusable(Cluster(class, TRUE))) > 1
  <2> DEFINE t == Cluster(class, TRUE)
  <2>1. Joined(t, ToSet(class), TRUE)
    BY MeasuredJoined
  <2>k. \A i \in DOMAIN t : \E c \in ToSet(class) : t[i].result = Lenient(Raw(c))
    BY FilteredKeys
  <2> HIDE DEF t
  <2>2. t \in Seq(ClusterOf(TRUE))
    BY <2>1 DEF Joined
  <2>3. ASSUME NEW c \in ToSet(class)
        PROVE  \E i \in DOMAIN t : \E d \in ToSet(class) :
                 t[i].result = Lenient(Raw(d)) /\ Essence(Raw(d)) = Essence(Raw(c))
    <3>1. PICK i \in DOMAIN t : Same(t[i].result, ResultOf(c, TRUE), TRUE)
      BY <2>1 DEF Joined
    <3>2. PICK d \in ToSet(class) : t[i].result = Lenient(Raw(d))
      BY <2>k
    <3>3. Same(Lenient(Raw(d)), Lenient(Raw(c)), TRUE)
      BY <3>1, <3>2 DEF ResultOf, Filtered
    <3>4. Raw(d) \in Results /\ Raw(c) \in Results
      BY DEF Measured
    <3>5. Essence(Raw(d)) = Essence(Raw(c))
      BY <3>3, <3>4, FiltersShowEssence
    <3> QED BY <3>2, <3>5
  <2>4. ASSUME NEW c \in ToSet(class), NEW d \in ToSet(class), Essence(Raw(d)) = Essence(Raw(c))
        PROVE  Lenient(Raw(d)).signum = "ILL" <=> Raw(c).signum = "ILL"
    <3>1. Raw(d) \in Results /\ Raw(c) \in Results
      BY DEF Measured
    <3> QED BY <3>1, <2>4, EssenceIsLenient, LenientIllegal
  <2>5. PICK i \in DOMAIN t, c \in ToSet(class) :
          t[i].result = Lenient(Raw(c)) /\ Essence(Raw(c)) = Essence(Raw(x))
    BY <2>3
  <2>6. PICK j \in DOMAIN t, d \in ToSet(class) :
          t[j].result = Lenient(Raw(d)) /\ Essence(Raw(d)) = Essence(Raw(y))
    BY <2>3
  <2>7. i # j
    <3>1. SUFFICES ASSUME i = j PROVE FALSE
      OBVIOUS
    <3>2. Raw(c) \in Results /\ Raw(d) \in Results /\ Lenient(Raw(c)) = Lenient(Raw(d))
      BY <3>1, <2>5, <2>6 DEF Measured
    <3>3. Essence(Raw(c)) = Essence(Raw(d))
      BY <3>2, EssenceIsLenient
    <3> QED BY <3>3, <2>5, <2>6, <1>0
  <2>8. i \in Illegal(t) <=> j \in Illegal(t)
    BY <2>4, <2>5, <2>6, <1>0 DEF Illegal
  <2> QED BY <2>2, <2>7, <2>8, UsableClusters DEF t
<1>2. Len(RemoveUnusable(ResultToClients(class))) > 1
  <2> DEFINE t == ResultToClients(class)
  <2>1. RawClusters(t, ToSet(class))
    BY SortedClusters
  <2> HIDE DEF t
  <2>2. t \in Seq(ClusterOf(FALSE))
    BY <2>1 DEF RawClusters
  <2>3. \A c \in ToSet(class) : \E i \in DOMAIN t : t[i].result = Raw(c)
    BY <2>1 DEF RawClusters
  <2>4. PICK i \in DOMAIN t : t[i].result = Raw(x)
    BY <2>3
  <2>5. PICK j \in DOMAIN t : t[j].result = Raw(y)
    BY <2>3
  <2>6. i # j /\ (i \in Illegal(t) <=> j \in Illegal(t))
    BY <2>4, <2>5, <1>0 DEF Illegal
  <2> QED BY <2>2, <2>6, UsableClusters DEF t
<1> QED BY <1>1, <1>2 DEF Differs

-----------------------------------------------------------------------------
(* The classes that go on from a class: those of at least two clients with the
   same result without a signal.                                             *)
GoOnFrom(class, new) ==
  /\ new \in Seq(Seq(Clients))
  /\ \A k \in DOMAIN new :
       /\ Distinct(new[k]) /\ Len(new[k]) > 1 /\ ToSet(new[k]) \subseteq ToSet(class)
       /\ \A a, b \in ToSet(new[k]) : Raw(a) = Raw(b) /\ Raw(a).signum = "OK"
  /\ \A k, l \in DOMAIN new : k # l => ToSet(new[k]) \cap ToSet(new[l]) = {}
  /\ \A a, b \in ToSet(class) :
       a # b /\ Raw(a) = Raw(b) /\ Raw(a).signum = "OK" =>
         \E k \in DOMAIN new : a \in ToSet(new[k]) /\ b \in ToSet(new[k])

(* ClassesOf yields such classes.                                            *)
LEMMA ClassesThatGoOn ==
  ASSUME NEW class, Measured(class)
  PROVE  GoOnFrom(class, ClassesOf(class))
<1> DEFINE R == ResultToClients(class)
           P == {i \in DOMAIN R : GoesOn(R[i])}
           kept == EntriesAt(R, P)
           new == ClassesOf(class)
<1>1. RawClusters(R, ToSet(class))
  BY SortedClusters
<1>2. new = [i \in DOMAIN kept |-> kept[i].clients]
  BY DEF ClassesOf
<1> HIDE DEF R, P
<1>3. R \in Seq(ClusterOf(FALSE))
  BY <1>1 DEF RawClusters
<1>4. kept \in Seq(ClusterOf(FALSE))
  BY <1>3, EntriesAtPlaces
<1>5. PICK I : ListsAt(R, P, kept, I)
  BY <1>3, EntriesAtPlaces
<1> HIDE DEF kept, new
<1>6. /\ DOMAIN new = DOMAIN kept /\ new \in Seq(Seq(Clients))
      /\ \A i \in DOMAIN new : new[i] \in Seq(Clients)
  <2>1. \A i \in DOMAIN kept : kept[i].clients \in Seq(Clients)
    BY <1>4, ClusterType
  <2>2. DOMAIN kept = 1 .. Len(kept) /\ Len(kept) \in Nat
    BY <1>4
  <2>3. new \in [1 .. Len(kept) -> Seq(Clients)]
    BY <1>2, <2>1, <2>2
  <2> QED BY <2>1, <2>2, <2>3, <1>2, ListOf
<1>7. \A i \in DOMAIN new : I[i] \in DOMAIN R /\ GoesOn(R[I[i]]) /\ new[i] = R[I[i]].clients
  BY <1>2, <1>5, <1>6 DEF ListsAt, P
<1>8. ASSUME NEW i \in DOMAIN new
      PROVE  /\ Distinct(new[i]) /\ Len(new[i]) > 1 /\ ToSet(new[i]) \subseteq ToSet(class)
             /\ \A a, b \in ToSet(new[i]) : Raw(a) = Raw(b) /\ Raw(a).signum = "OK"
  BY <1>1, <1>7 DEF GoesOn, RawClusters
<1>9. ASSUME NEW i \in DOMAIN new, NEW j \in DOMAIN new, i # j
      PROVE  ToSet(new[i]) \cap ToSet(new[j]) = {}
  <2>1. I[i] # I[j]
    BY <1>5, <1>6, <1>9 DEF ListsAt
  <2> QED BY <2>1, <1>1, <1>7 DEF RawClusters
<1>10. ASSUME NEW a \in ToSet(class), NEW b \in ToSet(class),
              a # b, Raw(a) = Raw(b), Raw(a).signum = "OK"
       PROVE  \E i \in DOMAIN new : a \in ToSet(new[i]) /\ b \in ToSet(new[i])
  <2>1. PICK p \in DOMAIN R : a \in ToSet(R[p].clients) /\ b \in ToSet(R[p].clients) /\ R[p].result = Raw(a)
    BY <1>1, <1>10 DEF RawClusters
  <2>2. R[p].clients \in Seq(Clients)
    BY <1>3, ClusterType
  <2>3. Len(R[p].clients) > 1
    <3>1. PICK k, l \in DOMAIN R[p].clients : R[p].clients[k] = a /\ R[p].clients[l] = b
      BY <2>1 DEF ToSet
    <3>2. k # l /\ k \in 1 .. Len(R[p].clients) /\ l \in 1 .. Len(R[p].clients) /\ Len(R[p].clients) \in Nat
      BY <3>1, <2>2, <1>10
    <3> QED BY <3>2
  <2>4. p \in P
    BY <2>1, <2>3, <1>10 DEF P, GoesOn
  <2>5. PICK i \in DOMAIN kept : I[i] = p
    BY <2>4, <1>5 DEF ListsAt
  <2> QED BY <2>1, <2>5, <1>6, <1>7
<1>11. GoOnFrom(class, new)
  BY <1>6, <1>8, <1>9, <1>10 DEF GoOnFrom
<1> QED BY <1>11 DEF new

-----------------------------------------------------------------------------
(* With the results M of all clients: a client ran the prefixes before n without
   a signal; two clients did, with the same results; all that did so with a. *)
Alive(M, c, n) == \A k \in 1 .. n - 1 : k <= Len(M[c]) /\ M[c][k].signum = "OK"
Together(M, a, b, n) ==
  /\ Alive(M, a, n) /\ Alive(M, b, n)
  /\ \A k \in 1 .. n - 1 : M[a][k] = M[b][k]
Mates(M, a, n) == {b \in Clients : Together(M, a, b, n)}

(* The clients with a, parted by their results for prefix n, of which two are
   apart.                                                                    *)
PartsOf(M, a, n) == {{c \in Mates(M, a, n) : M[c][n] = M[b][n]} : b \in Mates(M, a, n)}
IsSplit(M, a, n) == \E x, y \in Mates(M, a, n) : Apart(M[x][n], M[y][n])

(* The classes before prefix n are the clients together so far.              *)
ClassesRight(M, cc, n) ==
  /\ cc \in Seq(Seq(Clients))
  /\ \A i \in DOMAIN cc :
       /\ Distinct(cc[i]) /\ ToSet(cc[i]) # {} /\ (n > 1 => Len(cc[i]) > 1)
       /\ \A a, b \in ToSet(cc[i]) : Together(M, a, b, n)
  /\ \A i, j \in DOMAIN cc : i # j => ToSet(cc[i]) \cap ToSet(cc[j]) = {}
  /\ \A a, b \in Clients : a # b /\ Together(M, a, b, n) =>
       \E i \in DOMAIN cc : a \in ToSet(cc[i]) /\ b \in ToSet(cc[i])

(* The splits recorded before prefix n are splits there are, each once.      *)
SplitRecord == [seq_len : Nat, result_to_clients : Seq(ClusterOf(FALSE))]
SplitsReal(M, ss, n) ==
  /\ ss \in Seq(SplitRecord)
  /\ \A i \in DOMAIN ss :
       /\ ss[i].seq_len \in 1 .. n - 1
       /\ \E a \in Clients : /\ IsSplit(M, a, ss[i].seq_len)
                             /\ Branches(ss[i]) = PartsOf(M, a, ss[i].seq_len)
  /\ \A i, j \in DOMAIN ss : i # j =>
       ss[i].seq_len # ss[j].seq_len \/ Branches(ss[i]) # Branches(ss[j])

(* Every split there is before prefix n is recorded.                         *)
SplitsAll(M, ss, n) ==
  \A a \in Clients, m \in 1 .. n - 1 : IsSplit(M, a, m) =>
    \E i \in DOMAIN ss : ss[i].seq_len = m /\ Branches(ss[i]) = PartsOf(M, a, m)

(* The inductive invariant.                                                  *)
Inv ==
  /\ multiresults \in [Clients -> Trace]
  /\ seq_len \in 1 .. UntilSeqLen + 1
  /\ ClassesRight(multiresults, current_classes, seq_len)
  /\ SplitsReal(multiresults, splits, seq_len)
  /\ Arch = "riscv64" => SplitsAll(multiresults, splits, seq_len)

(* The results of a client.                                                  *)
LEMMA TraceFacts ==
  ASSUME NEW s \in Trace
  PROVE  /\ Len(s) \in 1 .. UntilSeqLen /\ s \in Seq(Results)
         /\ \A i \in 1 .. Len(s) - 1 : s[i].signum = "OK"
         /\ Len(s) < UntilSeqLen => s[Len(s)].signum # "OK"
<1>0. UntilSeqLen \in Nat
  BY DiffTreeAssumption
<1>1. PICK n \in 1 .. UntilSeqLen : s \in [1 .. n -> Results]
  BY DEF Trace
<1>2. s \in Seq(Results) /\ Len(s) = n
  BY <1>0, <1>1, ListOf
<1> QED BY <1>1, <1>2 DEF Trace

(* A client without a signal so far has a result for the next prefix.        *)
LEMMA AliveHasResult ==
  ASSUME NEW M \in [Clients -> Trace], NEW c \in Clients, NEW n \in 1 .. UntilSeqLen
  PROVE  /\ Alive(M, c, n) <=> n <= Len(M[c])
         /\ Alive(M, c, n) => M[c][n] \in Results
<1>0. UntilSeqLen \in Nat
  BY DiffTreeAssumption
<1>1. /\ Len(M[c]) \in 1 .. UntilSeqLen /\ M[c] \in Seq(Results)
      /\ \A i \in 1 .. Len(M[c]) - 1 : M[c][i].signum = "OK"
      /\ Len(M[c]) < UntilSeqLen => M[c][Len(M[c])].signum # "OK"
  BY TraceFacts
<1>2. ASSUME n <= Len(M[c]) PROVE Alive(M, c, n) /\ M[c][n] \in Results
  <2>1. \A k \in 1 .. n - 1 : k \in 1 .. Len(M[c]) - 1 /\ k <= Len(M[c])
    BY <1>0, <1>1, <1>2
  <2>2. n \in 1 .. Len(M[c])
    BY <1>0, <1>1, <1>2
  <2> QED BY <2>1, <2>2, <1>1 DEF Alive
<1>3. ASSUME ~(n <= Len(M[c])) PROVE ~Alive(M, c, n)
  <2>1. Len(M[c]) \in 1 .. n - 1 /\ Len(M[c]) < UntilSeqLen
    BY <1>0, <1>1, <1>3
  <2> QED BY <2>1, <1>1 DEF Alive
<1> QED BY <1>2, <1>3

(* Together is symmetric ...                                                 *)
LEMMA TogetherSymmetric ==
  ASSUME NEW M, NEW a, NEW b, NEW n, Together(M, a, b, n)
  PROVE  Together(M, b, a, n) /\ Together(M, a, a, n)
BY DEF Together

(* ... and is transitive.                                                    *)
LEMMA TogetherTransitive ==
  ASSUME NEW M, NEW a, NEW b, NEW c, NEW n, Together(M, a, b, n), Together(M, b, c, n)
  PROVE  Together(M, a, c, n)
BY DEF Together

(* Together for one prefix more.                                             *)
LEMMA TogetherNext ==
  ASSUME NEW M \in [Clients -> Trace], NEW a \in Clients, NEW b \in Clients, NEW n \in 1 .. UntilSeqLen
  PROVE  Together(M, a, b, n + 1) <=>
           /\ Together(M, a, b, n)
           /\ M[a][n] = M[b][n] /\ M[a][n].signum = "OK"
<1>0. UntilSeqLen \in Nat
  BY DiffTreeAssumption
<1>1. 1 .. (n + 1) - 1 = 1 .. n - 1 \cup {n}
  BY <1>0
<1>2. ASSUME NEW c \in Clients
      PROVE  Alive(M, c, n + 1) <=> Alive(M, c, n) /\ n <= Len(M[c]) /\ M[c][n].signum = "OK"
  BY <1>1 DEF Alive
<1>3. \A c \in Clients : Alive(M, c, n) => n <= Len(M[c])
  BY AliveHasResult
<1> QED BY <1>1, <1>2, <1>3 DEF Together

(* All clients start together.                                               *)
LEMMA TogetherFirst ==
  ASSUME NEW M, NEW a, NEW b
  PROVE  Together(M, a, b, 1)
BY DEF Together, Alive

-----------------------------------------------------------------------------
(* What holds before a prefix is looked at.                                  *)
Before ==
  /\ multiresults \in [Clients -> Trace]
  /\ seq_len \in 1 .. UntilSeqLen
  /\ ClassesRight(multiresults, current_classes, seq_len)

(* The clients of a class have a result for the prefix.                      *)
LEMMA ClassMeasured ==
  ASSUME Before, NEW i \in DOMAIN current_classes
  PROVE  Measured(current_classes[i])
<1>1. current_classes \in Seq(Seq(Clients)) /\ Distinct(current_classes[i])
  BY DEF Before, ClassesRight
<1>2. current_classes[i] \in Seq(Clients)
  BY <1>1, EntryType
<1>3. ASSUME NEW c \in ToSet(current_classes[i]) PROVE Raw(c) \in Results
  <2>1. c \in Clients
    BY <1>2 DEF ToSet
  <2>2. Alive(multiresults, c, seq_len)
    BY DEF Before, ClassesRight, Together
  <2>3. multiresults[c][seq_len] \in Results
    BY <2>1, <2>2, AliveHasResult DEF Before
  <2> QED BY <2>3 DEF Raw
<1> QED BY <1>1, <1>2, <1>3 DEF Measured

(* A class holds exactly the clients together with each of its clients.      *)
LEMMA ClassIsMates ==
  ASSUME Before, NEW i \in DOMAIN current_classes, NEW a \in ToSet(current_classes[i])
  PROVE  a \in Clients /\ ToSet(current_classes[i]) = Mates(multiresults, a, seq_len)
<1> DEFINE D == ToSet(current_classes[i])
<1>1. D \subseteq Clients
  <2>1. current_classes[i] \in Seq(Clients)
    BY ClassMeasured DEF Measured
  <2> QED BY <2>1 DEF ToSet
<1>2. D \subseteq Mates(multiresults, a, seq_len)
  BY <1>1 DEF Mates, Before, ClassesRight
<1>3. ASSUME NEW b \in Mates(multiresults, a, seq_len), b # a PROVE b \in D
  <2>1. b \in Clients /\ Together(multiresults, a, b, seq_len)
    BY DEF Mates
  <2>2. PICK j \in DOMAIN current_classes : a \in ToSet(current_classes[j]) /\ b \in ToSet(current_classes[j])
    BY <1>1, <1>3, <2>1 DEF Before, ClassesRight
  <2>3. j = i
    BY <2>2 DEF Before, ClassesRight
  <2> QED BY <2>2, <2>3
<1> QED BY <1>1, <1>2, <1>3

(* The next classes are those together for one prefix more.                  *)
LEMMA NextClasses ==
  ASSUME Before
  PROVE  ClassesRight(multiresults,
           FlattenSeq([i \in DOMAIN current_classes |-> ClassesOf(current_classes[i])]), seq_len + 1)
<1> DEFINE cc == current_classes
           M == multiresults
           n == seq_len
           v == [i \in DOMAIN cc |-> ClassesOf(cc[i])]
           F == FlattenSeq(v)
<1>1. \A i \in DOMAIN cc : GoOnFrom(cc[i], ClassesOf(cc[i]))
  BY ClassMeasured, ClassesThatGoOn
<1>2. cc \in Seq(Seq(Clients)) /\ DOMAIN cc = 1 .. Len(cc) /\ Len(cc) \in Nat
  BY DEF Before, ClassesRight
<1>3. v \in Seq(Seq(Seq(Clients))) /\ Len(v) = Len(cc) /\ \A i \in DOMAIN cc : GoOnFrom(cc[i], v[i])
  <2>0. \A i \in DOMAIN cc : ClassesOf(cc[i]) \in Seq(Seq(Clients))
    BY <1>1 DEF GoOnFrom
  <2>1. v \in [1 .. Len(cc) -> Seq(Seq(Clients))]
    BY <2>0, <1>2
  <2> QED BY <2>1, <1>1, <1>2, ListOf
<1> HIDE DEF v
<1>4. F \in Seq(Seq(Clients))
  BY <1>3, FlattenPlaces
<1>5. PICK I, J : EntryPlaces(v, Len(cc), F, I, J)
  BY <1>3, FlattenPlaces
<1>6. \A c : Raw(c) = M[c][n]
  BY DEF Raw
<1> HIDE DEF F
<1>7. \A p \in DOMAIN F : I[p] \in DOMAIN cc /\ J[p] \in DOMAIN v[I[p]] /\ F[p] = v[I[p]][J[p]]
  BY <1>2, <1>5 DEF EntryPlaces
<1>8. ASSUME NEW p \in DOMAIN F
      PROVE  /\ Distinct(F[p]) /\ Len(F[p]) > 1 /\ ToSet(F[p]) \subseteq ToSet(cc[I[p]])
             /\ \A a, b \in ToSet(F[p]) : Raw(a) = Raw(b) /\ Raw(a).signum = "OK"
  <2>1. GoOnFrom(cc[I[p]], v[I[p]])
    BY <1>3, <1>7
  <2> QED BY <2>1, <1>7 DEF GoOnFrom
<1> HIDE DEF cc, M, n
<1>9. ASSUME NEW p \in DOMAIN F, NEW a \in ToSet(F[p]), NEW b \in ToSet(F[p])
      PROVE  Together(M, a, b, n + 1)
  <2>1. a \in ToSet(cc[I[p]]) /\ b \in ToSet(cc[I[p]]) /\ I[p] \in DOMAIN cc
    BY <1>7, <1>8
  <2>2. a \in Clients /\ b \in Clients
    BY <2>1, ClassIsMates DEF cc
  <2>3. Together(M, a, b, n)
    BY <2>1 DEF Before, ClassesRight, cc, M, n
  <2>4. M[a][n] = M[b][n] /\ M[a][n].signum = "OK"
    BY <1>6, <1>8
  <2> QED BY <2>2, <2>3, <2>4, TogetherNext DEF Before, M, n
<1>10. ASSUME NEW p \in DOMAIN F, NEW q \in DOMAIN F, p # q PROVE ToSet(F[p]) \cap ToSet(F[q]) = {}
  <2>1. CASE I[p] = I[q]
    <3>1. J[p] # J[q]
      BY <2>1, <1>5, <1>10 DEF EntryPlaces
    <3>2. GoOnFrom(cc[I[p]], v[I[p]])
      BY <1>3, <1>7
    <3>3. ToSet(v[I[p]][J[p]]) \cap ToSet(v[I[p]][J[q]]) = {}
      BY <3>1, <3>2, <2>1, <1>7 DEF GoOnFrom
    <3> QED BY <3>3, <2>1, <1>7
  <2>2. CASE I[p] # I[q]
    <3>1. ToSet(cc[I[p]]) \cap ToSet(cc[I[q]]) = {}
      BY <2>2, <1>7 DEF Before, ClassesRight, cc
    <3> QED BY <3>1, <1>8
  <2> QED BY <2>1, <2>2
<1>11. ASSUME NEW a \in Clients, NEW b \in Clients, a # b, Together(M, a, b, n + 1)
       PROVE  \E p \in DOMAIN F : a \in ToSet(F[p]) /\ b \in ToSet(F[p])
  <2>1. Together(M, a, b, n) /\ Raw(a) = Raw(b) /\ Raw(a).signum = "OK"
    BY <1>6, <1>11, TogetherNext DEF Before, M, n
  <2>2. PICK i \in DOMAIN cc : a \in ToSet(cc[i]) /\ b \in ToSet(cc[i])
    BY <2>1, <1>11 DEF Before, ClassesRight, cc, M, n
  <2>3. PICK k \in DOMAIN v[i] : a \in ToSet(v[i][k]) /\ b \in ToSet(v[i][k])
    <3>1. GoOnFrom(cc[i], v[i])
      BY <1>3
    <3> QED BY <3>1, <2>1, <2>2, <1>11 DEF GoOnFrom
  <2>4. PICK p \in DOMAIN F : I[p] = i /\ J[p] = k
    <3>1. i \in 1 .. Len(cc)
      BY <1>2
    <3> QED BY <3>1, <1>5 DEF EntryPlaces
  <2> QED BY <2>3, <2>4, <1>7
<1>12. \A p \in DOMAIN F : ToSet(F[p]) # {}
  <2>1. \A p \in DOMAIN F : F[p] \in Seq(Clients) /\ 1 \in DOMAIN F[p]
    BY <1>4, <1>8, EntryType
  <2> QED BY <2>1 DEF ToSet
<1>13. ClassesRight(M, F, n + 1)
  BY <1>4, <1>8, <1>9, <1>10, <1>11, <1>12 DEF ClassesRight
<1> QED BY <1>13 DEF F, M, n, v, cc

-----------------------------------------------------------------------------
(* The clusters of a class part the clients together with one of them.       *)
LEMMA BranchesAreParts ==
  ASSUME Before, NEW i \in DOMAIN current_classes, NEW a \in ToSet(current_classes[i]), NEW x,
         x.result_to_clients = ResultToClients(current_classes[i])
  PROVE  Branches(x) = PartsOf(multiresults, a, seq_len)
<1> DEFINE R == ResultToClients(current_classes[i])
           D == ToSet(current_classes[i])
           G(b) == {c \in D : Raw(c) = Raw(b)}
<1>1. RawClusters(R, D)
  BY ClassMeasured, SortedClusters
<1>2. D = Mates(multiresults, a, seq_len)
  BY ClassIsMates
<1>3. Branches(x) = {ToSet(R[p].clients) : p \in DOMAIN R}
  BY DEF Branches
<1>4. PartsOf(multiresults, a, seq_len) = {G(b) : b \in D}
  BY <1>2 DEF PartsOf, Raw
<1> HIDE DEF R, D
<1>5. ASSUME NEW p \in DOMAIN R PROVE \E b \in D : ToSet(R[p].clients) = G(b)
  <2>1. PICK b \in ToSet(R[p].clients) : b \in D /\ Raw(b) = R[p].result
    BY <1>1 DEF RawClusters
  <2> QED BY <2>1, <1>1 DEF RawClusters
<1>6. ASSUME NEW b \in D PROVE \E p \in DOMAIN R : ToSet(R[p].clients) = G(b)
  <2>1. PICK p \in DOMAIN R : b \in ToSet(R[p].clients)
    BY <1>1 DEF RawClusters
  <2>2. Raw(b) = R[p].result
    BY <2>1, <1>1 DEF RawClusters
  <2> QED BY <2>2, <1>1 DEF RawClusters
<1> HIDE DEF G
<1> QED BY <1>3, <1>4, <1>5, <1>6

(* What one class adds to the splits.                                        *)
Adds(i, new) ==
  /\ new \in Seq(SplitRecord) /\ DOMAIN new \subseteq {1}
  /\ \A k \in DOMAIN new :
       /\ new[k].seq_len = seq_len
       /\ \A a \in ToSet(current_classes[i]) :
            /\ IsSplit(multiresults, a, seq_len)
            /\ Branches(new[k]) = PartsOf(multiresults, a, seq_len)
  /\ Arch = "riscv64" =>
       \A a \in ToSet(current_classes[i]) : IsSplit(multiresults, a, seq_len) => 1 \in DOMAIN new

(* SplitsOf adds what a class has to add.                                    *)
LEMMA SplitOfClass ==
  ASSUME Before, NEW i \in DOMAIN current_classes
  PROVE  Adds(i, SplitsOf(current_classes[i]))
<1> DEFINE D == ToSet(current_classes[i])
           R == ResultToClients(current_classes[i])
           x == [seq_len |-> seq_len, result_to_clients |-> R]
           new == SplitsOf(current_classes[i])
<1>1. Measured(current_classes[i])
  BY ClassMeasured
<1>2. \A a \in D : D = Mates(multiresults, a, seq_len)
  BY ClassIsMates
<1>3. \A a \in D : IsSplit(multiresults, a, seq_len) <=> \E y, z \in D : Apart(Raw(y), Raw(z))
  BY <1>2 DEF IsSplit, Raw
<1>4. new = IF Differs(current_classes[i]) THEN <<x>> ELSE <<>>
  BY DEF SplitsOf
<1>5. x \in SplitRecord /\ x.seq_len = seq_len /\ x.result_to_clients = R
  <2>1. R \in Seq(ClusterOf(FALSE))
    BY <1>1, SortedClusters DEF RawClusters
  <2>2. seq_len \in Nat
    BY DiffTreeAssumption DEF Before
  <2> HIDE DEF R
  <2> QED BY <2>1, <2>2 DEF SplitRecord
<1>6. \A a \in D : Branches(x) = PartsOf(multiresults, a, seq_len)
  BY <1>5, BranchesAreParts
<1> HIDE DEF D, R, x, new
<1>7. /\ new \in Seq(SplitRecord) /\ DOMAIN new \subseteq {1}
      /\ \A k \in DOMAIN new : new[k] = x /\ Differs(current_classes[i])
      /\ Differs(current_classes[i]) => 1 \in DOMAIN new
  BY <1>4, <1>5
<1>8. Differs(current_classes[i]) => \E y, z \in D : Apart(Raw(y), Raw(z))
  BY <1>1, DiffersSound DEF D
<1>9. Arch = "riscv64" => ((\E y, z \in D : Apart(Raw(y), Raw(z))) => Differs(current_classes[i]))
  BY <1>1, DiffersComplete DEF D
<1>10. \A k \in DOMAIN new :
         /\ new[k].seq_len = seq_len
         /\ \A a \in D : /\ IsSplit(multiresults, a, seq_len)
                         /\ Branches(new[k]) = PartsOf(multiresults, a, seq_len)
  BY <1>3, <1>5, <1>6, <1>7, <1>8
<1>11. Arch = "riscv64" => \A a \in D : IsSplit(multiresults, a, seq_len) => 1 \in DOMAIN new
  BY <1>3, <1>7, <1>9
<1> QED BY <1>7, <1>10, <1>11 DEF Adds, D, new

(* The splits after a prefix.                                                *)
LEMMA NextSplits ==
  ASSUME Before, SplitsReal(multiresults, splits, seq_len)
  PROVE  LET ss == splits \o FlattenSeq([i \in DOMAIN current_classes |-> SplitsOf(current_classes[i])])
         IN  /\ SplitsReal(multiresults, ss, seq_len + 1)
             /\ Arch = "riscv64" /\ SplitsAll(multiresults, splits, seq_len) =>
                  SplitsAll(multiresults, ss, seq_len + 1)
<1> DEFINE cc == current_classes
           M == multiresults
           n == seq_len
           v == [i \in DOMAIN cc |-> SplitsOf(cc[i])]
           F == FlattenSeq(v)
           ss == splits \o F
<1>n. n \in 1 .. UntilSeqLen /\ UntilSeqLen \in Nat
  BY DiffTreeAssumption DEF Before
<1>1. \A i \in DOMAIN cc : Adds(i, SplitsOf(cc[i]))
  BY SplitOfClass
<1>2. cc \in Seq(Seq(Clients)) /\ DOMAIN cc = 1 .. Len(cc) /\ Len(cc) \in Nat
  BY DEF Before, ClassesRight
<1>3. v \in Seq(Seq(SplitRecord)) /\ Len(v) = Len(cc) /\ \A i \in DOMAIN cc : Adds(i, v[i])
  <2>0. \A i \in DOMAIN cc : SplitsOf(cc[i]) \in Seq(SplitRecord)
    BY <1>1 DEF Adds
  <2>1. v \in [1 .. Len(cc) -> Seq(SplitRecord)]
    BY <2>0, <1>2
  <2> QED BY <2>1, <1>1, <1>2, ListOf
<1> HIDE DEF v
<1>4. F \in Seq(SplitRecord)
  BY <1>3, FlattenPlaces
<1>5. PICK I, J : EntryPlaces(v, Len(cc), F, I, J)
  BY <1>3, FlattenPlaces
<1> HIDE DEF F
<1>6. ASSUME NEW p \in DOMAIN F
      PROVE  /\ I[p] \in DOMAIN cc /\ J[p] = 1 /\ F[p].seq_len = n
             /\ \A a \in ToSet(cc[I[p]]) : IsSplit(M, a, n) /\ Branches(F[p]) = PartsOf(M, a, n)
  <2>1. I[p] \in DOMAIN cc /\ J[p] \in DOMAIN v[I[p]] /\ F[p] = v[I[p]][J[p]]
    BY <1>2, <1>5 DEF EntryPlaces
  <2>2. Adds(I[p], v[I[p]])
    BY <2>1, <1>3
  <2> QED BY <2>1, <2>2 DEF Adds
<1>7. \A i \in DOMAIN cc : ToSet(cc[i]) # {}
  BY DEF Before, ClassesRight
<1>8. \A i \in DOMAIN cc : \A a \in ToSet(cc[i]) : a \in Clients /\ ToSet(cc[i]) = Mates(M, a, n)
  BY ClassIsMates
<1>9. ASSUME NEW p \in DOMAIN F, NEW q \in DOMAIN F, p # q PROVE Branches(F[p]) # Branches(F[q])
  <2>1. I[p] # I[q]
    BY <1>5, <1>6, <1>9 DEF EntryPlaces
  <2>2. PICK a \in ToSet(cc[I[p]]) : TRUE
    BY <1>6, <1>7
  <2>3. PICK b \in ToSet(cc[I[q]]) : TRUE
    BY <1>6, <1>7
  <2>4. Branches(F[p]) = PartsOf(M, a, n) /\ Branches(F[q]) = PartsOf(M, b, n)
    BY <1>6
  <2>5. ToSet(cc[I[p]]) = Mates(M, a, n) /\ ToSet(cc[I[q]]) = Mates(M, b, n)
    BY <1>6, <1>8
  <2>6. ToSet(cc[I[p]]) \cap ToSet(cc[I[q]]) = {}
    BY <2>1, <1>6 DEF Before, ClassesRight
  <2>7. {c \in Mates(M, a, n) : M[c][n] = M[a][n]} \in PartsOf(M, a, n)
    BY <2>5 DEF PartsOf
  <2>8. a \in {c \in Mates(M, a, n) : M[c][n] = M[a][n]}
    BY <2>5
  <2>9. \A A \in PartsOf(M, b, n) : A \subseteq Mates(M, b, n)
    BY DEF PartsOf
  <2> QED BY <2>4, <2>5, <2>6, <2>7, <2>8, <2>9
<1> HIDE DEF cc, M, n
<1>10. /\ ss \in Seq(SplitRecord) /\ Len(ss) = Len(splits) + Len(F)
       /\ DOMAIN ss = 1 .. Len(ss) /\ DOMAIN F = 1 .. Len(F) /\ DOMAIN splits = 1 .. Len(splits)
       /\ Len(splits) \in Nat /\ Len(F) \in Nat
       /\ \A p \in 1 .. Len(ss) : ss[p] = IF p <= Len(splits) THEN splits[p] ELSE F[p - Len(splits)]
  <2>1. splits \in Seq(SplitRecord)
    BY DEF SplitsReal
  <2> HIDE DEF ss
  <2>2. /\ ss \in Seq(SplitRecord) /\ Len(ss) = Len(splits) + Len(F)
        /\ \A p \in 1 .. Len(splits) + Len(F) : ss[p] = IF p <= Len(splits) THEN splits[p] ELSE F[p - Len(splits)]
    BY <2>1, <1>4, ConcatProperties DEF ss
  <2> QED BY <2>1, <2>2, <1>4
<1> HIDE DEF ss
<1>11. ASSUME NEW p \in DOMAIN ss
       PROVE  \/ p \in DOMAIN splits /\ ss[p] = splits[p]
              \/ p - Len(splits) \in DOMAIN F /\ ss[p] = F[p - Len(splits)]
  <2>1. p <= Len(splits) => p \in DOMAIN splits
    BY <1>10
  <2>2. ~(p <= Len(splits)) => p - Len(splits) \in DOMAIN F
    BY <1>10
  <2> QED BY <2>1, <2>2, <1>10
<1>12. \A p \in DOMAIN splits : /\ p \in DOMAIN ss /\ ss[p] = splits[p] /\ p \notin {k + Len(splits) : k \in DOMAIN F}
  BY <1>10
<1>13. \A p \in DOMAIN F : p + Len(splits) \in DOMAIN ss /\ ss[p + Len(splits)] = F[p]
  <2>1. ASSUME NEW p \in DOMAIN F PROVE p + Len(splits) \in DOMAIN ss /\ ss[p + Len(splits)] = F[p]
    <3>1. p + Len(splits) \in 1 .. Len(ss) /\ ~(p + Len(splits) <= Len(splits)) /\ (p + Len(splits)) - Len(splits) = p
      BY <1>10
    <3> QED BY <3>1, <1>10
  <2> QED BY <2>1
<1>14. \A p \in DOMAIN splits : /\ splits[p].seq_len \in 1 .. n - 1
                                /\ \E a \in Clients : /\ IsSplit(M, a, splits[p].seq_len)
                                                      /\ Branches(splits[p]) = PartsOf(M, a, splits[p].seq_len)
  BY DEF SplitsReal, M, n
<1>15. ASSUME NEW p \in DOMAIN F
       PROVE  \E a \in Clients : IsSplit(M, a, n) /\ Branches(F[p]) = PartsOf(M, a, n)
  <2>1. PICK a \in ToSet(cc[I[p]]) : a \in Clients
    BY <1>6, <1>7, <1>8
  <2> QED BY <2>1, <1>6
<1>16. 1 .. (n + 1) - 1 = 1 .. n - 1 \cup {n} /\ n \notin 1 .. n - 1
  BY <1>n
<1>17. ASSUME NEW p \in DOMAIN ss
       PROVE  /\ ss[p].seq_len \in 1 .. (n + 1) - 1
              /\ \E a \in Clients : /\ IsSplit(M, a, ss[p].seq_len)
                                    /\ Branches(ss[p]) = PartsOf(M, a, ss[p].seq_len)
  <2>1. CASE p \in DOMAIN splits /\ ss[p] = splits[p]
    BY <2>1, <1>14, <1>16
  <2>2. CASE p - Len(splits) \in DOMAIN F /\ ss[p] = F[p - Len(splits)]
    BY <2>2, <1>6, <1>15, <1>16
  <2> QED BY <2>1, <2>2, <1>11
<1>18. ASSUME NEW p \in DOMAIN ss, NEW q \in DOMAIN ss, p # q
       PROVE  ss[p].seq_len # ss[q].seq_len \/ Branches(ss[p]) # Branches(ss[q])
  <2>0. \A x \in DOMAIN splits, y \in DOMAIN F : splits[x].seq_len # F[y].seq_len
    BY <1>6, <1>14, <1>16
  <2>1. CASE p \in DOMAIN splits /\ ss[p] = splits[p] /\ q \in DOMAIN splits /\ ss[q] = splits[q]
    BY <2>1, <1>18 DEF SplitsReal
  <2>2. CASE /\ p - Len(splits) \in DOMAIN F /\ ss[p] = F[p - Len(splits)]
             /\ q - Len(splits) \in DOMAIN F /\ ss[q] = F[q - Len(splits)]
    <3>1. p - Len(splits) # q - Len(splits)
      BY <1>10, <1>18
    <3> QED BY <3>1, <2>2, <1>9
  <2> QED BY <2>0, <2>1, <2>2, <1>11
<1>19. SplitsReal(M, ss, n + 1)
  BY <1>10, <1>17, <1>18 DEF SplitsReal
<1>20. ASSUME Arch = "riscv64", SplitsAll(M, splits, n) PROVE SplitsAll(M, ss, n + 1)
  <2>1. SUFFICES ASSUME NEW a \in Clients, NEW m \in 1 .. (n + 1) - 1, IsSplit(M, a, m)
                 PROVE  \E i \in DOMAIN ss : ss[i].seq_len = m /\ Branches(ss[i]) = PartsOf(M, a, m)
    BY DEF SplitsAll
  <2>2. CASE m \in 1 .. n - 1
    <3>1. PICK i \in DOMAIN splits : splits[i].seq_len = m /\ Branches(splits[i]) = PartsOf(M, a, m)
      BY <2>1, <2>2, <1>20 DEF SplitsAll
    <3> QED BY <3>1, <1>12
  <2>3. CASE m = n
    <3>1. PICK x, y \in Mates(M, a, n) : Apart(M[x][n], M[y][n])
      BY <2>1, <2>3 DEF IsSplit
    <3>2. x # y
      BY <3>1 DEF Apart
    <3>3. PICK z \in Mates(M, a, n) : z # a
      BY <3>2
    <3>4. PICK i \in DOMAIN cc : a \in ToSet(cc[i])
      BY <3>3 DEF Mates, Before, ClassesRight, cc, M, n
    <3>5. Adds(i, v[i]) /\ i \in 1 .. Len(cc)
      BY <1>2, <1>3
    <3>6. 1 \in DOMAIN v[i]
      BY <3>4, <3>5, <2>1, <2>3, <1>20 DEF Adds, cc, M, n
    <3>7. PICK p \in DOMAIN F : I[p] = i /\ J[p] = 1
      BY <3>5, <3>6, <1>5 DEF EntryPlaces
    <3>8. F[p].seq_len = n /\ Branches(F[p]) = PartsOf(M, a, n)
      BY <3>4, <3>7, <1>6
    <3> QED BY <3>8, <2>3, <1>13
  <2> QED BY <2>2, <2>3, <1>16
<1> QED BY <1>19, <1>20 DEF ss, F, v, M, n, cc

-----------------------------------------------------------------------------
(* The invariant holds initially and is kept.                                *)
LEMMA InitInv ==
  Init => Inv
<1> SUFFICES ASSUME Init PROVE Inv
  OBVIOUS
<1>n. NClients \in Nat \ {0} /\ UntilSeqLen \in Nat \ {0}
  BY DiffTreeAssumption
<1> DEFINE all == [i \in Clients |-> i]
<1>1. /\ all \in Seq(Clients) /\ Len(all) = NClients /\ DOMAIN all = Clients
      /\ \A i \in Clients : all[i] = i
  <2>1. all \in [1 .. NClients -> Clients]
    BY DEF Clients
  <2> QED BY <2>1, <1>n, ListOf DEF Clients
<1>2. current_classes = <<all>> /\ seq_len = 1 /\ splits = <<>>
  BY DEF Init
<1> HIDE DEF all
<1>3. /\ current_classes \in Seq(Seq(Clients)) /\ DOMAIN current_classes = {1}
      /\ current_classes[1] = all
  BY <1>1, <1>2
<1>4. ToSet(all) = Clients /\ Distinct(all) /\ Clients # {}
  <2>1. 1 \in Clients
    BY <1>n DEF Clients
  <2> QED BY <2>1, <1>1 DEF ToSet, Distinct
<1>5. ClassesRight(multiresults, current_classes, 1)
  BY <1>3, <1>4, TogetherFirst DEF ClassesRight
<1>6. SplitsReal(multiresults, <<>>, 1)
  BY DEF SplitsReal
<1>7. SplitsAll(multiresults, <<>>, 1)
  BY DEF SplitsAll
<1>8. 1 \in 1 .. UntilSeqLen + 1 /\ multiresults \in [Clients -> Trace]
  BY <1>n DEF Init
<1> QED BY <1>2, <1>5, <1>6, <1>7, <1>8 DEF Inv

(* Every iteration keeps the invariant.                                      *)
LEMMA StepInv ==
  Inv /\ [Next]_vars => Inv'
<1> SUFFICES ASSUME Inv, [Next]_vars PROVE Inv'
  OBVIOUS
<1>1. CASE UNCHANGED vars
  BY <1>1 DEF vars, Inv
<1>2. CASE Extend
  <2>n. UntilSeqLen \in Nat \ {0}
    BY DiffTreeAssumption
  <2>1. Before
    BY <1>2, <2>n DEF Inv, Extend, Before
  <2>2. multiresults' = multiresults /\ seq_len' = seq_len + 1
    BY <1>2 DEF Extend
  <2>3. ClassesRight(multiresults, current_classes', seq_len + 1)
    BY <1>2, <2>1, NextClasses DEF Extend
  <2>4. /\ SplitsReal(multiresults, splits', seq_len + 1)
        /\ Arch = "riscv64" => SplitsAll(multiresults, splits', seq_len + 1)
    BY <1>2, <2>1, NextSplits DEF Extend, Inv
  <2>5. seq_len' \in 1 .. UntilSeqLen + 1
    BY <2>1, <2>2, <2>n DEF Before
  <2> QED BY <2>2, <2>3, <2>4, <2>5 DEF Inv
<1> QED BY <1>1, <1>2 DEF Next

(* The invariant holds throughout.                                           *)
LEMMA InvInvariant ==
  Spec => []Inv
BY InitInv, StepInv, PTL DEF Spec

-----------------------------------------------------------------------------
(* The classes are disjoint lists of clients, of at least two after the first
   prefix, whatever the architecture's filters do.                           *)
THEOREM TypeCorrect ==
  Spec => []TypeOK
<1>1. Inv => TypeOK
  <2> SUFFICES ASSUME Inv PROVE TypeOK
    OBVIOUS
  <2>n. UntilSeqLen \in Nat
    BY DiffTreeAssumption
  <2>1. \A i \in DOMAIN current_classes : ToSet(current_classes[i]) \subseteq Clients
    <3>1. \A i \in DOMAIN current_classes : current_classes[i] \in Seq(Clients)
      BY EntryType DEF Inv, ClassesRight
    <3> QED BY <3>1 DEF ToSet
  <2>2. \A i \in DOMAIN splits : splits[i].seq_len < seq_len
    BY <2>n DEF Inv, SplitsReal
  <2> QED BY <2>1, <2>2 DEF Inv, ClassesRight, TypeOK
<1> QED BY <1>1, InvInvariant, PTL

(* Every client of a class has a result for the next prefix: result_by_client
   never misses one, on either architecture.                                 *)
THEOREM ResultsAreThere ==
  Spec => []NoMissingResult
<1>1. Inv => NoMissingResult
  <2> SUFFICES ASSUME Inv, seq_len <= UntilSeqLen, NEW i \in DOMAIN current_classes,
                      NEW c \in ToSet(current_classes[i])
               PROVE  seq_len <= Len(multiresults[c])
    BY DEF NoMissingResult
  <2>n. UntilSeqLen \in Nat
    BY DiffTreeAssumption
  <2>1. Before
    BY <2>n DEF Inv, Before
  <2>2. c \in Clients /\ Alive(multiresults, c, seq_len)
    BY <2>1, ClassIsMates DEF Before, ClassesRight, Together
  <2> QED BY <2>1, <2>2, AliveHasResult DEF Before
<1> QED BY <1>1, InvInvariant, PTL

-----------------------------------------------------------------------------
(* The groups, partitions and splits of the reference in terms of the clients
   together.                                                                 *)
LEMMA ReferenceTerms ==
  ASSUME multiresults \in [Clients -> Trace], NEW a \in Clients, NEW n \in 1 .. UntilSeqLen
  PROVE  /\ Group(a, n) = Mates(multiresults, a, n)
         /\ Partition(Group(a, n), n) = PartsOf(multiresults, a, n)
         /\ SplitAt(a, n) <=> IsSplit(multiresults, a, n)
<1>1. ASSUME NEW x \in Clients, NEW y \in Clients
      PROVE  AlikeBefore(x, y, n) <=> Together(multiresults, x, y, n)
  BY AliveHasResult DEF AlikeBefore, Together
<1>2. Group(a, n) = Mates(multiresults, a, n)
  BY <1>1 DEF Group, Mates
<1>3. Partition(Group(a, n), n) = PartsOf(multiresults, a, n)
  BY <1>2 DEF Partition, PartsOf
<1>4. ASSUME NEW x \in Mates(multiresults, a, n), NEW y \in Mates(multiresults, a, n)
      PROVE  Disagree(x, y, n) <=> Apart(multiresults[x][n], multiresults[y][n])
  <2>1. x \in Clients /\ y \in Clients /\ Together(multiresults, x, y, n)
    BY TogetherSymmetric, TogetherTransitive DEF Mates
  <2>2. AlikeBefore(x, y, n)
    BY <2>1, <1>1
  <2> QED BY <2>2 DEF Disagree, Apart
<1>5. SplitAt(a, n) <=> IsSplit(multiresults, a, n)
  BY <1>2, <1>4 DEF SplitAt, IsSplit
<1> QED BY <1>2, <1>3, <1>5

(* Two clients of a split with different results are in different branches.  *)
LEMMA PartsTellApart ==
  ASSUME NEW M, NEW a, NEW b, NEW n, NEW x,
         a \in Mates(M, a, n), b \in Mates(M, a, n), M[a][n] # M[b][n],
         Branches(x) = PartsOf(M, a, n)
  PROVE  SplitApart(a, b, x)
<1> DEFINE A == {c \in Mates(M, a, n) : M[c][n] = M[a][n]}
           B == {c \in Mates(M, a, n) : M[c][n] = M[b][n]}
<1>1. A \in Branches(x) /\ B \in Branches(x)
  BY DEF PartsOf
<1>2. a \in A /\ b \in B /\ A # B
  OBVIOUS
<1> QED BY <1>1, <1>2 DEF SplitApart

(* On riscv64: whenever two clients that were alike so far disagree, a split
   records it.  (On aarch64 it does not: a filter that takes SIGBUS for no
   signal is no equivalence, and the order of the clients decides.)          *)
THEOREM DisagreementsRecorded ==
  ASSUME Arch = "riscv64"
  PROVE  Spec => []DisagreementRecorded
<1>1. Inv => DisagreementRecorded
  <2> SUFFICES ASSUME Inv, NEW a \in Clients, NEW b \in Clients, NEW n \in 1 .. seq_len - 1,
                      Disagree(a, b, n)
               PROVE  \E i \in DOMAIN splits : splits[i].seq_len = n /\ SplitApart(a, b, splits[i])
    BY DEF DisagreementRecorded
  <2>n. UntilSeqLen \in Nat /\ n \in 1 .. UntilSeqLen
    BY DiffTreeAssumption DEF Inv
  <2>1. AlikeBefore(a, b, n) /\ Apart(multiresults[a][n], multiresults[b][n])
    BY DEF Disagree, Apart
  <2>2. a \in Mates(multiresults, a, n) /\ b \in Mates(multiresults, a, n)
    <3>1. a \in Group(a, n) /\ b \in Group(a, n)
      BY <2>1 DEF Group, AlikeBefore
    <3> QED BY <3>1, <2>n, ReferenceTerms DEF Inv
  <2>3. IsSplit(multiresults, a, n)
    BY <2>1, <2>2 DEF IsSplit
  <2>4. PICK i \in DOMAIN splits : splits[i].seq_len = n /\ Branches(splits[i]) = PartsOf(multiresults, a, n)
    BY <2>3 DEF Inv, SplitsAll
  <2>5. multiresults[a][n] # multiresults[b][n]
    BY <2>1 DEF Apart
  <2> QED BY <2>2, <2>4, <2>5, PartsTellApart
<1> QED BY <1>1, InvInvariant, PTL

(* On riscv64: two clients that both go on without a signal are treated apart
   only after a split was recorded that tells them apart.                    *)
THEOREM IsolationRecorded ==
  ASSUME Arch = "riscv64"
  PROVE  Spec => []IsolatedOnlyBySplit
<1>1. Inv => IsolatedOnlyBySplit
  <2> SUFFICES ASSUME Inv, NEW a \in Clients, NEW b \in Clients, a # b,
                      Alive(multiresults, a, seq_len), Alive(multiresults, b, seq_len),
                      ~ \E i \in DOMAIN current_classes : {a, b} \subseteq ToSet(current_classes[i])
               PROVE  \E i \in DOMAIN splits : SplitApart(a, b, splits[i])
    BY DEF IsolatedOnlyBySplit, Alive
  <2> DEFINE M == multiresults
             T == {k \in 1 .. seq_len - 1 : M[a][k] # M[b][k]}
  <2>n. UntilSeqLen \in Nat /\ seq_len \in 1 .. UntilSeqLen + 1 /\ M \in [Clients -> Trace]
    BY DiffTreeAssumption DEF Inv
  <2>1. ~Together(M, a, b, seq_len)
    BY DEF Inv, ClassesRight
  <2>2. T # {} /\ T \subseteq Nat
    BY <2>1, <2>n DEF Together
  <2>3. PICK n \in T : \A k \in T : n <= k
    <3> HIDE DEF T
    <3> QED BY <2>2, MinProperties
  <2>4. n \in 1 .. seq_len - 1 /\ n \in 1 .. UntilSeqLen /\ M[a][n] # M[b][n]
    BY <2>n
  <2>5. \A k \in 1 .. n - 1 : k \in 1 .. seq_len - 1 /\ M[a][k] = M[b][k]
    <3>1. \A k \in 1 .. n - 1 : k \in 1 .. seq_len - 1 /\ ~(n <= k)
      BY <2>4, <2>n
    <3> QED BY <3>1, <2>3
  <2>6. Alive(M, a, n) /\ Alive(M, b, n) /\ M[a][n].signum = "OK" /\ M[b][n].signum = "OK"
    BY <2>4, <2>5 DEF Alive
  <2>7. a \in Mates(M, a, n) /\ b \in Mates(M, a, n)
    BY <2>5, <2>6 DEF Mates, Together
  <2>8. M[a][n] \in Results /\ M[b][n] \in Results
    BY <2>4, <2>6, <2>n, AliveHasResult
  <2> HIDE DEF M, T
  <2>9. Apart(M[a][n], M[b][n])
    <3>1. ASSUME NEW r \in Results, NEW s \in Results, r # s, r.signum = "OK", s.signum = "OK"
          PROVE  Apart(r, s)
      <4>1. r \in Result /\ s \in Result /\ r.si = 0 /\ s.si = 0 /\ r.pstate = 0 /\ s.pstate = 0
        BY <3>1, DiffTreeAssumption
      <4>2. r.regs # s.regs \/ r.mem # s.mem
        BY <4>1, <3>1 DEF Result
      <4>3. Essence(r) = <<"OK", r.regs, r.mem>> /\ Essence(s) = <<"OK", s.regs, s.mem>>
        BY <3>1 DEF Essence
      <4>4. Essence(r) # Essence(s)
        BY <4>2, <4>3
      <4> QED BY <4>4, <3>1 DEF Apart
    <3> QED BY <3>1, <2>4, <2>6, <2>8
  <2>10. IsSplit(M, a, n)
    BY <2>7, <2>9 DEF IsSplit
  <2>11. PICK i \in DOMAIN splits : splits[i].seq_len = n /\ Branches(splits[i]) = PartsOf(M, a, n)
    BY <2>4, <2>10 DEF Inv, SplitsAll, M
  <2> QED BY <2>4, <2>7, <2>11, PartsTellApart
<1> QED BY <1>1, InvInvariant, PTL

(* On riscv64: no client of a class lacks a result, and in the end the recorded
   splits are exactly those there are, each once.                            *)
THEOREM SplitsExact ==
  ASSUME Arch = "riscv64"
  PROVE  Spec => []SplitsAreExact
<1>1. Inv /\ NoMissingResult => SplitsAreExact
  <2> SUFFICES ASSUME Inv, Done
               PROVE  /\ {<<splits[i].seq_len, Branches(splits[i])>> : i \in DOMAIN splits} = Reference
                      /\ Len(splits) = Cardinality(Reference)
    BY DEF SplitsAreExact
  <2> DEFINE M == multiresults
             mark(i) == <<splits[i].seq_len, Branches(splits[i])>>
             Marks == {mark(i) : i \in DOMAIN splits}
  <2>n. UntilSeqLen \in Nat /\ seq_len \in 1 .. UntilSeqLen + 1 /\ M \in [Clients -> Trace]
    BY DiffTreeAssumption DEF Inv
  <2>r. \A a \in Clients, m \in 1 .. UntilSeqLen :
          /\ Partition(Group(a, m), m) = PartsOf(M, a, m)
          /\ SplitAt(a, m) <=> IsSplit(M, a, m)
    BY <2>n, ReferenceTerms
  <2>1. ASSUME NEW i \in DOMAIN splits PROVE mark(i) \in Reference
    <3>1. PICK a \in Clients : /\ IsSplit(M, a, splits[i].seq_len)
                               /\ Branches(splits[i]) = PartsOf(M, a, splits[i].seq_len)
      BY DEF Inv, SplitsReal
    <3>2. PICK m \in 1 .. UntilSeqLen : m = splits[i].seq_len
      <4>1. splits[i].seq_len \in 1 .. seq_len - 1
        BY DEF Inv, SplitsReal
      <4> QED BY <4>1, <2>n
    <3>3. SplitAt(a, m) /\ mark(i) = <<m, Partition(Group(a, m), m)>>
      BY <3>1, <3>2, <2>r
    <3> HIDE DEF mark
    <3> QED BY <3>3 DEF Reference
  <2>2. ASSUME NEW a \in Clients, NEW m \in 1 .. UntilSeqLen, SplitAt(a, m)
        PROVE  \E i \in DOMAIN splits : mark(i) = <<m, Partition(Group(a, m), m)>>
    <3>1. IsSplit(M, a, m)
      BY <2>2, <2>r
    <3>2. CASE m \in 1 .. seq_len - 1
      <4>1. PICK i \in DOMAIN splits : splits[i].seq_len = m /\ Branches(splits[i]) = PartsOf(M, a, m)
        BY <3>1, <3>2 DEF Inv, SplitsAll
      <4> QED BY <4>1, <2>r
    <3>3. CASE m \notin 1 .. seq_len - 1
      <4>1. seq_len <= m /\ seq_len <= UntilSeqLen
        BY <3>3, <2>n
      <4>2. current_classes = <<>>
        BY <4>1, <2>n DEF Done
      <4>3. PICK z \in Mates(M, a, m) : z # a
        <5>1. PICK x, y \in Mates(M, a, m) : Apart(M[x][m], M[y][m])
          BY <3>1 DEF IsSplit
        <5>2. x # y
          BY <5>1 DEF Apart
        <5> QED BY <5>2
      <4>4. Together(M, a, z, m) /\ z \in Clients
        BY DEF Mates
      <4>5. 1 .. seq_len - 1 \subseteq 1 .. m - 1
        BY <4>1, <2>n
      <4>6. Together(M, a, z, seq_len)
        BY <4>4, <4>5 DEF Together, Alive
      <4>7. \E i \in DOMAIN current_classes : TRUE
        BY <4>3, <4>4, <4>6 DEF Inv, ClassesRight
      <4> QED BY <4>2, <4>7
    <3> QED BY <3>2, <3>3
  <2>3. Marks = Reference
    <3> HIDE DEF mark
    <3>1. Marks \subseteq Reference
      BY <2>1
    <3>2. Reference \subseteq Marks
      BY <2>2 DEF Reference
    <3> QED BY <3>1, <3>2
  <2>4. \A i, j \in DOMAIN splits : mark(i) = mark(j) => i = j
    BY DEF Inv, SplitsReal
  <2>5. splits \in Seq(SplitRecord)
    BY DEF Inv, SplitsReal
  <2>6. Len(splits) = Cardinality(Marks)
    <3> DEFINE g == [i \in 1 .. Len(splits) |-> mark(i)]
    <3>1. DOMAIN splits = 1 .. Len(splits) /\ Len(splits) \in Nat
      BY <2>5
    <3> HIDE DEF mark
    <3>2. g \in Bijection(1 .. Len(splits), Marks)
      <4>1. g \in [1 .. Len(splits) -> Marks] /\ \A i \in 1 .. Len(splits) : g[i] = mark(i)
        BY <3>1
      <4> HIDE DEF g
      <4>2. \A i, j \in 1 .. Len(splits) : g[i] = g[j] => i = j
        BY <4>1, <3>1, <2>4
      <4>3. \A x \in Marks : \E i \in 1 .. Len(splits) : g[i] = x
        BY <4>1, <3>1
      <4> QED BY <4>1, <4>2, <4>3 DEF Bijection, Injection, Surjection, IsInjective
    <3>3. ExistsBijection(1 .. Len(splits), Marks)
      BY <3>2 DEF ExistsBijection
    <3>4. IsFiniteSet(1 .. Len(splits)) /\ Cardinality(1 .. Len(splits)) = Len(splits)
      <4>1. Cardinality(1 .. Len(splits)) = IF 1 > Len(splits) THEN 0 ELSE Len(splits) - 1 + 1
        BY <3>1, FS_Interval
      <4>2. IsFiniteSet(1 .. Len(splits))
        BY <3>1, FS_Interval
      <4> QED BY <3>1, <4>1, <4>2
    <3> HIDE DEF Marks
    <3> QED BY <3>3, <3>4, FS_Bijection
  <2> QED BY <2>3, <2>6
<1> QED BY <1>1, ResultsAreThere, InvInvariant, PTL

(* On either architecture no recorded split is invented, and none is recorded
   twice: each is a group of clients that were alike up to a prefix and of which
   two disagree at it, partitioned by their results.                         *)
NoneInvented ==
  /\ \A i \in DOMAIN splits : \E a \in Clients :
       /\ SplitAt(a, splits[i].seq_len)
       /\ Branches(splits[i]) = Partition(Group(a, splits[i].seq_len), splits[i].seq_len)
  /\ \A i, j \in DOMAIN splits : i # j =>
       splits[i].seq_len # splits[j].seq_len \/ Branches(splits[i]) # Branches(splits[j])

(* What the filters of an architecture hide, they never make a split of: every
   recorded split is one (find_minimal_diff_tree).                           *)
THEOREM NoSplitInvented ==
  Spec => []NoneInvented
<1>1. Inv => NoneInvented
  <2> SUFFICES ASSUME Inv PROVE NoneInvented
    OBVIOUS
  <2>n. UntilSeqLen \in Nat /\ seq_len \in 1 .. UntilSeqLen + 1 /\ multiresults \in [Clients -> Trace]
    BY DiffTreeAssumption DEF Inv
  <2>1. ASSUME NEW i \in DOMAIN splits
        PROVE  \E a \in Clients :
                 /\ SplitAt(a, splits[i].seq_len)
                 /\ Branches(splits[i]) = Partition(Group(a, splits[i].seq_len), splits[i].seq_len)
    <3>1. splits[i].seq_len \in 1 .. seq_len - 1
      BY DEF Inv, SplitsReal
    <3>2. PICK m \in 1 .. UntilSeqLen : m = splits[i].seq_len
      BY <3>1, <2>n
    <3>3. PICK a \in Clients : IsSplit(multiresults, a, m) /\ Branches(splits[i]) = PartsOf(multiresults, a, m)
      BY <3>2 DEF Inv, SplitsReal
    <3> QED BY <3>2, <3>3, <2>n, ReferenceTerms
  <2> QED BY <2>1 DEF NoneInvented, Inv, SplitsReal
<1> QED BY <1>1, InvInvariant, PTL
=============================================================================
