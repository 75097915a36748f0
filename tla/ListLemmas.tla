----------------------------- MODULE ListLemmas -----------------------------
(***************************************************************************)
(* Facts about lists and the sets of their elements, for the proofs about  *)
(* the models: the Python lists of tickets, clients and cores are          *)
(* sequences that grow at the end and lose one entry at a time.  Then the  *)
(* least and the greatest of some numbers, the sum of a list, and what     *)
(* flattening a list of lists yields.                                      *)
(***************************************************************************)
EXTENDS Integers, Sequences, SequencesExt, FiniteSetsExt, SequenceTheorems,
        FiniteSetTheorems, WellFoundedInduction, TLAPS

(* Appending to a list adds one element to its set.                          *)
LEMMA ToSetAppend ==
  ASSUME NEW S, NEW s \in Seq(S), NEW e \in S
  PROVE  ToSet(Append(s, e)) = ToSet(s) \cup {e}
<1>1. ToSet(Append(s, e)) \subseteq ToSet(s) \cup {e}
  BY DEF ToSet
<1>2. e \in ToSet(Append(s, e))
  <2>1. Append(s, e)[Len(s) + 1] = e /\ Len(s) + 1 \in DOMAIN Append(s, e)
    OBVIOUS
  <2> QED BY <2>1 DEF ToSet
<1>3. ToSet(s) \subseteq ToSet(Append(s, e))
  <2>1. \A i \in DOMAIN s : Append(s, e)[i] = s[i] /\ i \in DOMAIN Append(s, e)
    OBVIOUS
  <2> QED BY <2>1 DEF ToSet
<1> QED BY <1>1, <1>2, <1>3

(* Inserting at the front adds one element to its set.                       *)
LEMMA ToSetFront ==
  ASSUME NEW S, NEW s \in Seq(S), NEW e \in S
  PROVE  ToSet(<<e>> \o s) = ToSet(s) \cup {e}
<1>1. ToSet(<<e>> \o s) \subseteq ToSet(s) \cup {e}
  BY DEF ToSet
<1>2. e \in ToSet(<<e>> \o s)
  <2>1. (<<e>> \o s)[1] = e /\ 1 \in DOMAIN (<<e>> \o s)
    OBVIOUS
  <2> QED BY <2>1 DEF ToSet
<1>3. ASSUME NEW i \in DOMAIN s PROVE s[i] \in ToSet(<<e>> \o s)
  <2>1. (<<e>> \o s)[i + 1] = s[i] /\ i + 1 \in DOMAIN (<<e>> \o s)
    OBVIOUS
  <2> QED BY <2>1 DEF ToSet
<1> QED BY <1>1, <1>2, <1>3 DEF ToSet

(* Joining two lists joins their sets.                                       *)
LEMMA ToSetConcat ==
  ASSUME NEW S, NEW s \in Seq(S), NEW t \in Seq(S)
  PROVE  ToSet(s \o t) = ToSet(s) \cup ToSet(t)
<1>1. /\ s \o t \in Seq(S) /\ Len(s \o t) = Len(s) + Len(t)
      /\ \A i \in 1 .. Len(s) + Len(t) :
           (s \o t)[i] = IF i <= Len(s) THEN s[i] ELSE t[i - Len(s)]
  BY ConcatProperties
<1>2. ToSet(s \o t) \subseteq ToSet(s) \cup ToSet(t)
  BY <1>1 DEF ToSet
<1>3. ToSet(s) \subseteq ToSet(s \o t)
  BY <1>1 DEF ToSet
<1>4. ASSUME NEW i \in DOMAIN t PROVE t[i] \in ToSet(s \o t)
  <2>1. (s \o t)[i + Len(s)] = t[i] /\ i + Len(s) \in DOMAIN (s \o t)
    BY <1>1
  <2> QED BY <2>1 DEF ToSet
<1> QED BY <1>2, <1>3, <1>4 DEF ToSet

(* Popping the head takes at most that element out of the set.               *)
LEMMA ToSetTail ==
  ASSUME NEW S, NEW s \in Seq(S), s # <<>>
  PROVE  ToSet(s) = ToSet(Tail(s)) \cup {Head(s)}
<1>1. Head(s) \in ToSet(s)
  BY DEF ToSet
<1>2. ToSet(Tail(s)) \subseteq ToSet(s)
  BY DEF ToSet
<1>3. ASSUME NEW i \in DOMAIN s, i # 1 PROVE s[i] \in ToSet(Tail(s))
  <2>1. Tail(s)[i - 1] = s[i] /\ i - 1 \in DOMAIN Tail(s)
    BY <1>3
  <2> QED BY <2>1 DEF ToSet
<1>4. ToSet(s) \subseteq ToSet(Tail(s)) \cup {Head(s)}
  BY <1>3 DEF ToSet
<1> QED BY <1>1, <1>2, <1>4

(* Removing the i-th entry closes the gap, and takes at most that element out
   of the set.                                                               *)
LEMMA RemoveAtProperties ==
  ASSUME NEW S, NEW s \in Seq(S), NEW i \in 1 .. Len(s)
  PROVE  /\ RemoveAt(s, i) \in Seq(S)
         /\ Len(RemoveAt(s, i)) = Len(s) - 1
         /\ \A k \in 1 .. Len(s) - 1 : RemoveAt(s, i)[k] = IF k < i THEN s[k] ELSE s[k + 1]
         /\ ToSet(s) = ToSet(RemoveAt(s, i)) \cup {s[i]}
<1> DEFINE r == RemoveAt(s, i)
           a == SubSeq(s, 1, i - 1)
           b == SubSeq(s, i + 1, Len(s))
<1>1. /\ a \in Seq(S) /\ Len(a) = i - 1
      /\ \A k \in 1 .. i - 1 : a[k] = s[k]
  <2>1. \A k \in 1 .. i - 1 : s[k] \in S
    OBVIOUS
  <2> QED BY <2>1, SubSeqProperties
<1>2. /\ b \in Seq(S) /\ Len(b) = Len(s) - i
      /\ \A k \in 1 .. Len(s) - i : b[k] = s[i + k]
  <2>1. \A k \in i + 1 .. Len(s) : s[k] \in S
    OBVIOUS
  <2>2. /\ b \in Seq(S)
        /\ Len(b) = IF i + 1 <= Len(s) THEN Len(s) - (i + 1) + 1 ELSE 0
        /\ \A k \in 1 .. Len(s) - (i + 1) + 1 : b[k] = s[(i + 1) + k - 1]
    BY <2>1, SubSeqProperties
  <2> QED BY <2>2
<1> HIDE DEF a, b
<1>3. /\ r \in Seq(S) /\ Len(r) = Len(s) - 1
      /\ \A k \in 1 .. Len(r) : r[k] = IF k < i THEN s[k] ELSE s[k + 1]
  <2>1. r = a \o b
    BY DEF RemoveAt, a, b
  <2>2. r \in Seq(S) /\ Len(r) = Len(s) - 1
    <3>1. a \o b \in Seq(S) /\ Len(a \o b) = Len(a) + Len(b)
      BY <1>1, <1>2, ConcatProperties
    <3>2. Len(a) + Len(b) = Len(s) - 1
      BY <1>1, <1>2
    <3> QED BY <3>1, <3>2, <2>1
  <2>3. ASSUME NEW k \in 1 .. Len(r) PROVE r[k] = IF k < i THEN s[k] ELSE s[k + 1]
    <3>1. CASE k < i
      BY <3>1, <2>1, <2>2, <1>1, <1>2
    <3>2. CASE ~(k < i)
      <4>1. r[k] = b[k - (i - 1)]
        BY <3>2, <2>1, <2>2, <1>1, <1>2
      <4>2. k - (i - 1) \in 1 .. Len(s) - i
        BY <3>2, <2>2
      <4>3. b[k - (i - 1)] = s[i + (k - (i - 1))]
        BY <4>2, <1>2
      <4> QED BY <4>1, <4>3, <3>2
    <3> QED BY <3>1, <3>2
  <2> QED BY <2>2, <2>3
<1> HIDE DEF r
<1>4. ToSet(r) \subseteq ToSet(s)
  BY <1>3 DEF ToSet
<1>5. ASSUME NEW k \in DOMAIN s, k # i PROVE s[k] \in ToSet(r)
  <2>1. CASE k < i
    BY <2>1, <1>3 DEF ToSet
  <2>2. CASE k > i
    <3>1. k - 1 \in 1 .. Len(r) /\ r[k - 1] = s[k]
      BY <2>2, <1>3
    <3> QED BY <3>1, <1>3 DEF ToSet
  <2> QED BY <2>1, <2>2, <1>5
<1>6. s[i] \in ToSet(s)
  BY DEF ToSet
<1>7. ToSet(s) \subseteq ToSet(r) \cup {s[i]}
  BY <1>5 DEF ToSet
<1> QED BY <1>3, <1>4, <1>6, <1>7 DEF r

-----------------------------------------------------------------------------
(* A set of numbers that is not empty has a least element.                   *)
LEMMA MinProperties ==
  ASSUME NEW S, S \subseteq Nat, S # {}
  PROVE  Min(S) \in S /\ \A x \in S : Min(S) <= x
<1>1. IsWellFoundedOn(OpToRel(<, Nat), Nat)
  BY NatLessThanWellFounded, Zenon
<1>2. PICK x \in S : \A y \in S : ~(<<y, x>> \in OpToRel(<, Nat))
  BY <1>1, WFMin, Zenon
<1>3. \A y \in S : x <= y
  <2> SUFFICES ASSUME NEW y \in S PROVE ~(y < x)
    OBVIOUS
  <2>1. <<y, x>> \in Nat \X Nat /\ <<y, x>>[1] = y /\ <<y, x>>[2] = x
    OBVIOUS
  <2>2. y < x => <<y, x>> \in {ss \in Nat \X Nat : ss[1] < ss[2]}
    BY <2>1
  <2> QED BY <1>2, <2>2, Zenon DEF OpToRel
<1> QED BY <1>3 DEF Min

(* The less of two numbers.                                                  *)
LEMMA MinOfTwo ==
  ASSUME NEW x \in Nat, NEW y \in Nat
  PROVE  Min({x, y}) = IF x <= y THEN x ELSE y
<1>1. Min({x, y}) \in {x, y} /\ \A z \in {x, y} : Min({x, y}) <= z
  BY MinProperties
<1> QED BY <1>1

(* A set of numbers below a bound has a greatest element, if any.            *)
LEMMA MaxProperties ==
  ASSUME NEW n \in Nat, NEW S, S \subseteq 0 .. n, S # {}
  PROVE  Max(S) \in S /\ \A x \in S : x <= Max(S)
<1> DEFINE U == {u \in 0 .. n : \A x \in S : x <= u}
<1>1. n \in U
  OBVIOUS
<1>2. Min(U) \in U /\ \A u \in U : Min(U) <= u
  BY <1>1, MinProperties
<1>3. Min(U) \in S
  <2>1. SUFFICES ASSUME Min(U) \notin S PROVE FALSE
    OBVIOUS
  <2>2. PICK x \in S : TRUE
    OBVIOUS
  <2>3. Min(U) - 1 \in 0 .. n
    BY <1>2, <2>1, <2>2
  <2>4. \A y \in S : y <= Min(U) - 1
    BY <1>2, <2>1
  <2>5. Min(U) - 1 \in U
    BY <2>3, <2>4
  <2> QED BY <1>2, <2>3, <2>5
<1>4. \A x \in S : Min(U) >= x
  BY <1>2
<1> QED BY <1>3, <1>4 DEF Max

(* The greater of two numbers.                                               *)
LEMMA MaxOfTwo ==
  ASSUME NEW x \in Nat, NEW y \in Nat
  PROVE  Max({x, y}) = IF x >= y THEN x ELSE y
<1>1. {x, y} \subseteq 0 .. x + y
  OBVIOUS
<1>2. Max({x, y}) \in {x, y} /\ \A z \in {x, y} : z <= Max({x, y})
  BY <1>1, MaxProperties
<1> QED BY <1>2

(* As many pairs as the numbers of a list add up to.                         *)
Units(N, S) == UNION {{m} \X (1 .. N[m]) : m \in S}

(* The pairs of the numbers at finitely many places, and at one more.        *)
LEMMA UnitsGrow ==
  ASSUME NEW N, NEW S, IsFiniteSet(Units(N, S)), NEW x, x \notin S, N[x] \in Nat
  PROVE  /\ IsFiniteSet(Units(N, S \cup {x}))
         /\ Cardinality(Units(N, S \cup {x})) = Cardinality(Units(N, S)) + N[x]
         /\ Cardinality(Units(N, S)) \in Nat
<1> DEFINE A == Units(N, S)
           B == {x} \X (1 .. N[x])
<1>1. IsFiniteSet(B) /\ Cardinality(B) = N[x]
  <2> DEFINE f == [k \in 1 .. N[x] |-> <<x, k>>]
  <2>1. f \in Bijection(1 .. N[x], B)
    <3>1. f \in [1 .. N[x] -> B] /\ \A k \in 1 .. N[x] : f[k] = <<x, k>>
      OBVIOUS
    <3> HIDE DEF f
    <3>2. \A k, l \in 1 .. N[x] : f[k] = f[l] => k = l
      BY <3>1
    <3>3. \A p \in B : \E k \in 1 .. N[x] : f[k] = p
      BY <3>1
    <3> QED BY <3>1, <3>2, <3>3 DEF Bijection, Injection, Surjection, IsInjective
  <2>2. ExistsBijection(1 .. N[x], B)
    BY <2>1 DEF ExistsBijection
  <2>3. IsFiniteSet(1 .. N[x]) /\ Cardinality(1 .. N[x]) = N[x]
    <3>1. 1 \in Int /\ N[x] \in Int /\ N[x] >= 0
      OBVIOUS
    <3>2. Cardinality(1 .. N[x]) = IF 1 > N[x] THEN 0 ELSE N[x] - 1 + 1
      BY <3>1, FS_Interval
    <3>3. IsFiniteSet(1 .. N[x])
      BY <3>1, FS_Interval
    <3> QED BY <3>1, <3>2, <3>3
  <2> QED BY <2>2, <2>3, FS_Bijection
<1>2. A \cap B = {}
  <2>1. \A m, p : p \in {m} \X (1 .. N[m]) => p[1] = m
    OBVIOUS
  <2>2. \A p \in A : p[1] \in S
    BY <2>1 DEF Units
  <2>3. \A p \in B : p[1] = x
    OBVIOUS
  <2> QED BY <2>2, <2>3
<1>3. Units(N, S \cup {x}) = A \cup B
  BY DEF Units
<1> HIDE DEF A, B
<1>4. IsFiniteSet(A)
  BY DEF A
<1>5. IsFiniteSet(A \cup B) /\ Cardinality(A \cup B) = Cardinality(A) + Cardinality(B) - Cardinality(A \cap B)
  BY <1>1, <1>4, FS_Union
<1>6. Cardinality(A \cap B) = 0 /\ Cardinality(A) \in Nat
  BY <1>2, <1>4, FS_EmptySet, FS_CardinalityType
<1>7. Cardinality(A \cup B) = Cardinality(A) + N[x]
  BY <1>1, <1>5, <1>6
<1> QED BY <1>3, <1>5, <1>6, <1>7, Zenon DEF A

(* The sum of a list of numbers, as the number of its units.                 *)
LEMMA SumIsCardinality ==
  ASSUME NEW s \in Seq(Nat)
  PROVE  /\ IsFiniteSet(Units(s, DOMAIN s))
         /\ FoldLeft(LAMBDA a, b : a + b, 0, s) = Cardinality(Units(s, DOMAIN s))
<1> DEFINE D == DOMAIN s
           pick(S) == Max(S)
           Sums(h) == h = [S \in SUBSET D |-> IF S = {} THEN 0 ELSE h[S \ {pick(S)}] + s[pick(S)]]
           G == [S \in SUBSET D |-> Cardinality(Units(s, S))]
<1>1. FoldLeft(LAMBDA a, b : a + b, 0, s) = (CHOOSE h : Sums(h))[D]
  BY DEF FoldLeft, MapThenFoldSet
<1>2. D = 1 .. Len(s) /\ Len(s) \in Nat /\ \A m \in D : s[m] \in Nat
  OBVIOUS
<1>3. \A S \in SUBSET D : S # {} => pick(S) \in S
  BY <1>2, MaxProperties
<1>4. IsFiniteSet(D)
  BY <1>2, FS_Interval
<1> HIDE DEF D, pick
<1>5. IsWellFoundedOn(StrictSubsetOrdering(D), SUBSET D)
  BY <1>4, FS_StrictSubsetOrderingWellFounded, FS_FiniteSubsetsOfFinite
<1>6. \A S \in SUBSET D : S # {} => <<S \ {pick(S)}, S>> \in StrictSubsetOrdering(D)
  BY <1>3 DEF StrictSubsetOrdering
<1>7. ASSUME NEW T \in SUBSET (SUBSET D), T # {}
      PROVE  \E S \in T : S # {} => S \ {pick(S)} \notin T
  <2>1. PICK S \in T : \A y \in T : ~(<<y, S>> \in StrictSubsetOrdering(D))
    BY <1>5, <1>7, WFMin
  <2> QED BY <2>1, <1>6
<1>8. Units(s, {}) = {}
  BY DEF Units
<1>9. \A S \in SUBSET D : S # {} => S = (S \ {pick(S)}) \cup {pick(S)} /\ s[pick(S)] \in Nat
  BY <1>2, <1>3
<1>10. \A S \in SUBSET D : IsFiniteSet(Units(s, S))
  <2> DEFINE T == {S \in SUBSET D : ~IsFiniteSet(Units(s, S))}
  <2>1. SUFFICES ASSUME T # {} PROVE FALSE
    OBVIOUS
  <2>2. PICK S \in T : S # {} => S \ {pick(S)} \notin T
    BY <1>7, <2>1
  <2>3. S # {}
    BY <1>8, FS_EmptySet
  <2>4. IsFiniteSet(Units(s, S \ {pick(S)}))
    BY <2>2, <2>3
  <2>5. IsFiniteSet(Units(s, (S \ {pick(S)}) \cup {pick(S)}))
    BY <2>3, <2>4, <1>9, UnitsGrow
  <2> QED BY <1>9, <2>3, <2>5
<1>11. ASSUME NEW S \in SUBSET D, S # {}
       PROVE  Cardinality(Units(s, S)) = Cardinality(Units(s, S \ {pick(S)})) + s[pick(S)]
  <2>1. IsFiniteSet(Units(s, S \ {pick(S)})) /\ pick(S) \notin S \ {pick(S)} /\ s[pick(S)] \in Nat
    BY <1>9, <1>10, <1>11
  <2>2. Cardinality(Units(s, (S \ {pick(S)}) \cup {pick(S)})) = Cardinality(Units(s, S \ {pick(S)})) + s[pick(S)]
    BY <2>1, UnitsGrow
  <2> QED BY <1>9, <1>11, <2>2
<1>12. Sums(G)
  <2>1. \A S \in SUBSET D : G[S] = IF S = {} THEN 0 ELSE G[S \ {pick(S)}] + s[pick(S)]
    BY <1>8, <1>11, FS_EmptySet
  <2> QED BY <2>1
<1>13. ASSUME NEW h, Sums(h) PROVE h[D] = G[D]
  <2> DEFINE T == {S \in SUBSET D : h[S] # G[S]}
  <2>0. /\ \A S \in SUBSET D : h[S] = IF S = {} THEN 0 ELSE h[S \ {pick(S)}] + s[pick(S)]
        /\ \A S \in SUBSET D : G[S] = IF S = {} THEN 0 ELSE G[S \ {pick(S)}] + s[pick(S)]
    BY <1>12, <1>13
  <2> HIDE DEF G
  <2>1. T = {}
    <3>1. SUFFICES ASSUME T # {} PROVE FALSE
      OBVIOUS
    <3>2. PICK S \in T : S # {} => S \ {pick(S)} \notin T
      BY <1>7, <3>1
    <3>3. CASE S = {}
      BY <2>0, <3>2, <3>3
    <3>4. CASE S # {}
      <4>1. h[S \ {pick(S)}] = G[S \ {pick(S)}]
        BY <3>2, <3>4
      <4> QED BY <2>0, <3>4, <4>1
    <3> QED BY <3>3, <3>4
  <2> QED BY <2>1
<1>14. (CHOOSE h : Sums(h))[D] = G[D]
  <2>1. Sums(CHOOSE h : Sums(h))
    BY <1>12
  <2> HIDE DEF Sums, G
  <2> QED BY <2>1, <1>13
<1> QED BY <1>1, <1>10, <1>14, Zenon DEF D

(* The sum of a list, summed up place by place.                              *)
LEMMA SumByPlaces ==
  ASSUME NEW s \in Seq(Nat)
  PROVE  \E P \in [0 .. Len(s) -> Nat] :
           /\ P[0] = 0
           /\ \A k \in 1 .. Len(s) : P[k] = P[k - 1] + s[k]
           /\ P[Len(s)] = FoldLeft(LAMBDA a, b : a + b, 0, s)
<1> DEFINE total == FoldLeft(LAMBDA a, b : a + b, 0, s)
           P == [k \in 0 .. Len(s) |-> Cardinality(Units(s, 1 .. k))]
<1>0. Len(s) \in Nat /\ DOMAIN s = 1 .. Len(s) /\ \A k \in 1 .. Len(s) : s[k] \in Nat
  OBVIOUS
<1>7. IsFiniteSet(Units(s, DOMAIN s)) /\ total = Cardinality(Units(s, DOMAIN s))
  BY SumIsCardinality, Zenon
<1> HIDE DEF total
<1>1. \A k \in 0 .. Len(s) : IsFiniteSet(Units(s, 1 .. k))
  <2>1. \A k \in 0 .. Len(s) : 1 .. k \subseteq DOMAIN s
    BY <1>0
  <2>2. \A k \in 0 .. Len(s) : Units(s, 1 .. k) \subseteq Units(s, DOMAIN s)
    BY <2>1 DEF Units
  <2> QED BY <2>2, <1>7, FS_Subset
<1>2. ASSUME NEW k \in 1 .. Len(s)
      PROVE  Cardinality(Units(s, 1 .. k)) = Cardinality(Units(s, 1 .. k - 1)) + s[k]
  <2>1. k - 1 \in 0 .. Len(s) /\ k \notin 1 .. k - 1 /\ 1 .. k = (1 .. k - 1) \cup {k}
    BY <1>0
  <2> QED BY <1>0, <1>1, <2>1, UnitsGrow
<1>3. P[0] = 0
  <2>1. 1 .. 0 = {} /\ 0 \in 0 .. Len(s)
    BY <1>0
  <2>2. Units(s, {}) = {}
    BY DEF Units
  <2> QED BY <2>1, <2>2, FS_EmptySet
<1>4. P \in [0 .. Len(s) -> Nat]
  BY <1>1, FS_CardinalityType
<1>5. \A k \in 1 .. Len(s) : P[k] = P[k - 1] + s[k]
  <2>1. \A k \in 1 .. Len(s) : k \in 0 .. Len(s) /\ k - 1 \in 0 .. Len(s)
    BY <1>0
  <2> QED BY <2>1, <1>2
<1>6. P[Len(s)] = total
  <2>1. P[Len(s)] = Cardinality(Units(s, DOMAIN s))
    BY <1>0
  <2> QED BY <2>1, <1>7
<1> HIDE DEF P
<1>8. \E Q \in [0 .. Len(s) -> Nat] :
        Q[0] = 0 /\ (\A k \in 1 .. Len(s) : Q[k] = Q[k - 1] + s[k]) /\ Q[Len(s)] = total
  BY <1>3, <1>4, <1>5, <1>6, Zenon
<1> QED BY <1>8, Zenon DEF total

-----------------------------------------------------------------------------
(* t lists the entries of the first n lists of s, each place once: the p-th
   entry of t is the J[p]-th of the I[p]-th list.                            *)
EntryPlaces(s, n, t, I, J) ==
  /\ \A p \in DOMAIN t : /\ I[p] \in 1 .. n /\ J[p] \in DOMAIN s[I[p]]
                         /\ t[p] = s[I[p]][J[p]]
  /\ \A p, q \in DOMAIN t : I[p] = I[q] /\ J[p] = J[q] => p = q
  /\ \A i \in 1 .. n : \A j \in DOMAIN s[i] : \E p \in DOMAIN t : I[p] = i /\ J[p] = j

(* The places of the first list.                                             *)
LEMMA PlacesStart ==
  ASSUME NEW S, NEW s \in Seq(Seq(S)), Len(s) > 0
  PROVE  \E I, J : EntryPlaces(s, 1, s[1], I, J)
<1> DEFINE I == [p \in DOMAIN s[1] |-> 1]
           J == [p \in DOMAIN s[1] |-> p]
<1>1. EntryPlaces(s, 1, s[1], I, J)
  BY DEF EntryPlaces
<1> QED BY <1>1

(* The places of one list more.                                              *)
LEMMA PlacesStep ==
  ASSUME NEW S, NEW s \in Seq(Seq(S)), NEW n \in 1 .. Len(s) - 1, NEW t \in Seq(S),
         NEW I, NEW J, EntryPlaces(s, n, t, I, J)
  PROVE  \E K, L : EntryPlaces(s, n + 1, t \o s[n + 1], K, L)
<1> DEFINE u == t \o s[n + 1]
           K == [p \in DOMAIN u |-> IF p <= Len(t) THEN I[p] ELSE n + 1]
           L == [p \in DOMAIN u |-> IF p <= Len(t) THEN J[p] ELSE p - Len(t)]
<1>1. /\ s[n + 1] \in Seq(S) /\ u \in Seq(S) /\ Len(u) = Len(t) + Len(s[n + 1])
      /\ \A p \in 1 .. Len(u) : u[p] = IF p <= Len(t) THEN t[p] ELSE s[n + 1][p - Len(t)]
  BY ConcatProperties
<1>2. DOMAIN u = 1 .. Len(u) /\ DOMAIN t = 1 .. Len(t) /\ Len(t) \in Nat /\ Len(s[n + 1]) \in Nat
      /\ DOMAIN s[n + 1] = 1 .. Len(s[n + 1]) /\ Len(u) \in Nat
  BY <1>1
<1>3. \A p \in DOMAIN u : /\ K[p] = IF p <= Len(t) THEN I[p] ELSE n + 1
                          /\ L[p] = IF p <= Len(t) THEN J[p] ELSE p - Len(t)
  OBVIOUS
<1> HIDE DEF u, K, L
<1>4. ASSUME NEW p \in DOMAIN u
      PROVE  K[p] \in 1 .. n + 1 /\ L[p] \in DOMAIN s[K[p]] /\ u[p] = s[K[p]][L[p]]
  <2>1. CASE p <= Len(t)
    <3>1. p \in DOMAIN t /\ K[p] = I[p] /\ L[p] = J[p] /\ u[p] = t[p]
      BY <2>1, <1>1, <1>2, <1>3
    <3>2. I[p] \in 1 .. n /\ J[p] \in DOMAIN s[I[p]] /\ t[p] = s[I[p]][J[p]]
      BY <3>1 DEF EntryPlaces
    <3>3. 1 .. n \subseteq 1 .. n + 1
      OBVIOUS
    <3> QED BY <3>1, <3>2, <3>3
  <2>2. CASE ~(p <= Len(t))
    <3>1. p - Len(t) \in DOMAIN s[n + 1] /\ n + 1 \in 1 .. n + 1
      BY <2>2, <1>1, <1>2
    <3>2. K[p] = n + 1 /\ L[p] = p - Len(t) /\ u[p] = s[n + 1][p - Len(t)]
      BY <2>2, <1>1, <1>2, <1>3
    <3> QED BY <3>1, <3>2
  <2> QED BY <2>1, <2>2
<1>5. ASSUME NEW p \in DOMAIN u, NEW q \in DOMAIN u, K[p] = K[q], L[p] = L[q] PROVE p = q
  <2>0. ASSUME NEW x \in DOMAIN u, x <= Len(t)
        PROVE  x \in DOMAIN t /\ K[x] = I[x] /\ L[x] = J[x]
    BY <2>0, <1>2, <1>3
  <2>1. CASE p <= Len(t) /\ q <= Len(t)
    <3>1. p \in DOMAIN t /\ q \in DOMAIN t /\ I[p] = I[q] /\ J[p] = J[q]
      BY <2>0, <2>1, <1>5
    <3> QED BY <3>1 DEF EntryPlaces
  <2>2. CASE ~(p <= Len(t)) /\ ~(q <= Len(t))
    BY <2>2, <1>2, <1>3, <1>5
  <2>3. ASSUME NEW x \in DOMAIN u, x <= Len(t) PROVE K[x] # n + 1
    <3>1. x \in DOMAIN t /\ K[x] = I[x]
      BY <2>0, <2>3
    <3>2. I[x] \in 1 .. n
      BY <3>1 DEF EntryPlaces
    <3> QED BY <3>1, <3>2
  <2> QED BY <2>1, <2>2, <2>3, <1>3, <1>5
<1>6. ASSUME NEW i \in 1 .. n + 1, NEW j \in DOMAIN s[i]
      PROVE  \E p \in DOMAIN u : K[p] = i /\ L[p] = j
  <2>1. CASE i <= n
    <3>1. PICK p \in DOMAIN t : I[p] = i /\ J[p] = j
      BY <2>1 DEF EntryPlaces
    <3>2. p \in DOMAIN u /\ p <= Len(t)
      BY <3>1, <1>1, <1>2
    <3> QED BY <3>1, <3>2, <1>3
  <2>2. CASE i = n + 1
    <3>1. j + Len(t) \in DOMAIN u /\ ~(j + Len(t) <= Len(t)) /\ (j + Len(t)) - Len(t) = j
      BY <2>2, <1>1, <1>2
    <3> QED BY <3>1, <2>2, <1>3
  <2> QED BY <2>1, <2>2
<1>7. EntryPlaces(s, n + 1, u, K, L)
  BY <1>4, <1>5, <1>6 DEF EntryPlaces
<1> QED BY <1>7 DEF u

(* Among some numbers from 1 to N, one whose predecessor is not among them.  *)
LEMMA LeastOfInterval ==
  ASSUME NEW N \in Nat, NEW T \in SUBSET (1 .. N), T # {}
  PROVE  \E n \in T : n # 1 => n - 1 \in 1 .. N /\ n - 1 \notin T
<1>1. T \subseteq Nat
  OBVIOUS
<1>2. PICK n : n \in T /\ \A x \in T : n <= x
  BY <1>1, MinProperties
<1>3. n \in 1 .. N
  BY <1>2
<1>4. n # 1 => n - 1 \in 1 .. N /\ ~(n <= n - 1)
  BY <1>3
<1> QED BY <1>2, <1>4

(* Flattening a list of lists lists each of their places once.               *)
LEMMA FlattenPlaces ==
  ASSUME NEW S, NEW s \in Seq(Seq(S))
  PROVE  /\ FlattenSeq(s) \in Seq(S)
         /\ \E I, J : EntryPlaces(s, Len(s), FlattenSeq(s), I, J)
<1> DEFINE N == Len(s)
           Flattens(h, n) == h = [i \in 1 .. n |-> IF i = 1 THEN s[i] ELSE h[i - 1] \o s[i]]
<1>0. N \in Nat /\ \A i \in 1 .. N : s[i] \in Seq(S)
  OBVIOUS
<1>1. CASE N = 0
  <2>1. FlattenSeq(s) = <<>> /\ s = <<>>
    BY <1>1 DEF FlattenSeq
  <2>2. EntryPlaces(s, 0, <<>>, <<>>, <<>>)
    BY DEF EntryPlaces
  <2> QED BY <2>1, <2>2, <1>1
<1>2. CASE N # 0
  <2>1. FlattenSeq(s) = (CHOOSE h : Flattens(h, N))[N]
    BY <1>2 DEF FlattenSeq
  <2>2. \A n \in 1 .. N : \E h : Flattens(h, n)
    <3> DEFINE T == {n \in 1 .. N : ~ \E h : Flattens(h, n)}
    <3>1. SUFFICES ASSUME T # {} PROVE FALSE
      OBVIOUS
    <3>2. T \in SUBSET (1 .. N)
      OBVIOUS
    <3> HIDE DEF T
    <3>3. PICK n \in T : n # 1 => n - 1 \in 1 .. N /\ n - 1 \notin T
      BY <1>0, <3>1, <3>2, LeastOfInterval
    <3> USE DEF T
    <3>4. n \in 1 .. N /\ ~ \E h : Flattens(h, n)
      OBVIOUS
    <3>5. CASE n = 1
      <4> DEFINE h == [i \in 1 .. n |-> s[i]]
      <4>1. Flattens(h, n)
        BY <3>5
      <4> QED BY <3>4, <4>1
    <3>6. CASE n # 1
      <4>1. n - 1 \in 1 .. N /\ n - 1 \notin T
        BY <3>3, <3>6
      <4>2. PICK g : Flattens(g, n - 1)
        BY <4>1
      <4> DEFINE h == [i \in 1 .. n |-> IF i < n THEN g[i] ELSE g[n - 1] \o s[n]]
      <4> HIDE DEF T
      <4>3. ASSUME NEW i \in 1 .. n PROVE h[i] = IF i = 1 THEN s[i] ELSE h[i - 1] \o s[i]
        <5>1. CASE i < n
          <6>1. i \in 1 .. n - 1 /\ (i # 1 => i - 1 \in 1 .. n /\ i - 1 < n)
            BY <5>1, <3>4
          <6> QED BY <6>1, <5>1, <4>2
        <5>2. CASE i = n
          <6>1. n \in 1 .. n /\ n - 1 \in 1 .. n /\ n - 1 < n /\ ~(n < n)
            BY <3>4, <3>6
          <6>2. h[n] = g[n - 1] \o s[n] /\ h[n - 1] = g[n - 1]
            BY <6>1
          <6> QED BY <6>2, <5>2, <3>6
        <5> QED BY <5>1, <5>2, <3>4
      <4>4. h = [i \in 1 .. n |-> h[i]]
        OBVIOUS
      <4>5. Flattens(h, n)
        BY <4>3, <4>4
      <4> QED BY <3>4, <4>5
    <3> QED BY <3>5, <3>6
  <2>3. PICK f : f = (CHOOSE h : Flattens(h, N)) /\ Flattens(f, N)
    <3> HIDE DEF Flattens
    <3>0. N \in 1 .. N
      BY <1>0, <1>2
    <3>1. \E h : Flattens(h, N)
      BY <2>2, <3>0
    <3>2. Flattens(CHOOSE h : Flattens(h, N), N)
      BY <3>1
    <3> QED BY <3>2
  <2>4. \A i \in 1 .. N : f[i] = IF i = 1 THEN s[i] ELSE f[i - 1] \o s[i]
    BY <2>3
  <2> HIDE DEF Flattens
  <2>5. \A n \in 1 .. N : f[n] \in Seq(S) /\ \E I, J : EntryPlaces(s, n, f[n], I, J)
    <3> DEFINE T == {n \in 1 .. N : ~(f[n] \in Seq(S) /\ \E I, J : EntryPlaces(s, n, f[n], I, J))}
    <3>1. SUFFICES ASSUME T # {} PROVE FALSE
      OBVIOUS
    <3>2. T \in SUBSET (1 .. N)
      OBVIOUS
    <3> HIDE DEF T
    <3>3. PICK n \in T : n # 1 => n - 1 \in 1 .. N /\ n - 1 \notin T
      BY <1>0, <3>1, <3>2, LeastOfInterval
    <3> USE DEF T
    <3>4. n \in 1 .. N /\ n \in T
      OBVIOUS
    <3>5. CASE n = 1
      BY <3>4, <3>5, <2>4, <1>0, PlacesStart
    <3>6. CASE n # 1
      <4>1. n - 1 \in 1 .. N /\ n - 1 \notin T
        BY <3>3, <3>6
      <4>2. f[n - 1] \in Seq(S)
        BY <4>1
      <4>3. PICK I, J : EntryPlaces(s, n - 1, f[n - 1], I, J)
        BY <4>1
      <4>4. n - 1 \in 1 .. Len(s) - 1 /\ (n - 1) + 1 = n
        BY <3>4, <4>1, <1>0
      <4>5. \E K, L : EntryPlaces(s, (n - 1) + 1, f[n - 1] \o s[(n - 1) + 1], K, L)
        BY <4>2, <4>3, <4>4, PlacesStep
      <4>6. f[n] = f[n - 1] \o s[n] /\ f[n - 1] \o s[n] \in Seq(S)
        <5>1. f[n] = f[n - 1] \o s[n] /\ s[n] \in Seq(S)
          BY <2>4, <3>4, <3>6, <1>0
        <5> QED BY <5>1, <4>2, ConcatProperties
      <4> QED BY <3>4, <4>4, <4>5, <4>6
    <3> QED BY <3>5, <3>6
  <2>6. N \in 1 .. N /\ FlattenSeq(s) = f[N]
    BY <2>1, <2>3, <1>0, <1>2
  <2> QED BY <2>5, <2>6
<1> QED BY <1>0, <1>1, <1>2
=============================================================================
