-------------------------- MODULE UndocEnumProofs ---------------------------
(***************************************************************************)
(* Proofs about UndocEnum, for every instruction space and every list of   *)
(* ranges of it, every number of core types and of cores of a type, and    *)
(* all orders in which workers, parent and faults take their steps: no     *)
(* instruction is executed twice on a core type or left out of it.         *)
(***************************************************************************)
EXTENDS UndocEnum, ListLemmas

-----------------------------------------------------------------------------
(* Ranges and spans.                                                         *)

(* Where ranges begin: each where the one before it ends.                    *)
LEMMA BeforeProperties ==
  ASSUME NEW r \in Seq(Nat)
  PROVE  /\ \A k \in 1 .. Len(r) + 1 : Before(r, k) \in Nat
         /\ \A k \in 1 .. Len(r) : Before(r, k + 1) = Before(r, k) + r[k]
         /\ \A k, l \in 1 .. Len(r) + 1 : k <= l => Before(r, k) <= Before(r, l)
         /\ Before(r, 1) = 0
<1>0. Len(r) \in Nat
  OBVIOUS
<1>1. ASSUME NEW k \in 1 .. Len(r) + 1
      PROVE  IsFiniteSet(Units(r, 1 .. k - 1)) /\ Before(r, k) = Cardinality(Units(r, 1 .. k - 1))
  <2> DEFINE s == SubSeq(r, 1, k - 1)
  <2>1. /\ s \in Seq(Nat) /\ DOMAIN s = 1 .. k - 1
        /\ \A m \in 1 .. k - 1 : s[m] = r[m]
    BY <1>0
  <2>2. Before(r, k) = FoldLeft(LAMBDA a, b : a + b, 0, s)
    BY Zenon DEF Before
  <2> HIDE DEF s
  <2>3. Units(s, 1 .. k - 1) = Units(r, 1 .. k - 1)
    BY <2>1, Zenon DEF Units
  <2> QED BY <2>1, <2>2, <2>3, SumIsCardinality, Zenon
<1>2. \A k \in 1 .. Len(r) + 1 : Before(r, k) \in Nat
  BY <1>1, FS_CardinalityType
<1>3. ASSUME NEW k \in 1 .. Len(r) PROVE Before(r, k + 1) = Before(r, k) + r[k]
  <2>1. k \in 1 .. Len(r) + 1 /\ k + 1 \in 1 .. Len(r) + 1 /\ k + 1 - 1 = k
        /\ k \notin 1 .. k - 1 /\ r[k] \in Nat /\ (1 .. k - 1) \cup {k} = 1 .. k
    BY <1>0
  <2>2. IsFiniteSet(Units(r, 1 .. k - 1)) /\ Before(r, k) = Cardinality(Units(r, 1 .. k - 1))
    BY <1>1, <2>1
  <2>3. Before(r, k + 1) = Cardinality(Units(r, 1 .. k))
    BY <1>1, <2>1
  <2>4. Cardinality(Units(r, (1 .. k - 1) \cup {k})) = Cardinality(Units(r, 1 .. k - 1)) + r[k]
    BY <2>1, <2>2, UnitsGrow
  <2> QED BY <2>1, <2>2, <2>3, <2>4
<1>4. ASSUME NEW k \in 1 .. Len(r) + 1, NEW l \in 1 .. Len(r) + 1, k <= l
      PROVE  Before(r, k) <= Before(r, l)
  <2>1. 1 .. k - 1 \subseteq 1 .. l - 1
    BY <1>0, <1>4
  <2>2. Units(r, 1 .. k - 1) \subseteq Units(r, 1 .. l - 1)
    BY <2>1, Zenon DEF Units
  <2> QED BY <1>1, <2>2, FS_Subset
<1>5. Before(r, 1) = 0
  <2>1. 1 .. 1 - 1 = {} /\ 1 \in 1 .. Len(r) + 1
    BY <1>0
  <2>2. Units(r, {}) = {}
    BY DEF Units
  <2> QED BY <1>1, <2>1, <2>2, FS_EmptySet
<1> QED BY <1>2, <1>3, <1>4, <1>5

(* The spans of the cores of a type follow one another and make up the space. *)
LEMMA SpanProperties ==
  ASSUME NEW c \in Nat \ {0}
  PROVE  /\ \A j \in 1 .. c :
              /\ Span(c, j) \in [start : Nat, end : Nat]
              /\ Span(c, j).start <= Span(c, j).end
              /\ Span(c, j).end <= Space
         /\ \A j \in 1 .. c : j < c => Span(c, j).end = Span(c, j + 1).start
         /\ \A j, l \in 1 .. c : j < l => Span(c, j).end <= Span(c, l).start
         /\ Span(c, 1).start = 0 /\ Span(c, c).end = Space
         /\ \A n \in 0 .. Space - 1 : \E j \in 1 .. c : Span(c, j).start <= n /\ n < Span(c, j).end
<1> DEFINE d == (Space + 1) \div c
<1>0. Space \in Nat \ {0}
  BY UndocEnumAssumption
<1>1. d \in Nat /\ c * d <= Space + 1
  BY <1>0
<1>2. \A j \in 1 .. c : /\ Span(c, j).start = d * (j - 1)
                        /\ Span(c, j).end = (IF j = c THEN Space ELSE d * j)
                        /\ Span(c, j) = [start |-> Span(c, j).start, end |-> Span(c, j).end]
  BY DEF Span
<1> HIDE DEF d
<1>3. \A x, y \in Nat : x <= y => d * x <= d * y /\ d * x \in Nat /\ d * y \in Nat
  BY <1>1
<1>4. d * (c - 1) <= Space
  <2>1. d * (c - 1) = c * d - d
    BY <1>1
  <2>2. CASE d = 0
    BY <1>0, <2>2
  <2>3. CASE d >= 1
    BY <1>0, <1>1, <2>1, <2>3
  <2> QED BY <1>1, <2>2, <2>3
<1>5. ASSUME NEW j \in 1 .. c
      PROVE  /\ Span(c, j) \in [start : Nat, end : Nat]
             /\ Span(c, j).start <= Span(c, j).end
             /\ Span(c, j).end <= Space
  <2>1. d * (j - 1) \in Nat /\ d * j \in Nat /\ d * (j - 1) <= d * j
    BY <1>3
  <2>2. CASE j = c
    BY <1>0, <1>2, <1>4, <2>1, <2>2
  <2>3. CASE j < c
    <3>1. d * j <= d * (c - 1)
      BY <1>3, <2>3
    <3>2. d * j <= Space
      BY <1>0, <1>3, <1>4, <2>1, <3>1
    <3> QED BY <1>2, <2>1, <2>3, <3>2
  <2> QED BY <2>2, <2>3
<1>6. ASSUME NEW j \in 1 .. c, j < c PROVE Span(c, j).end = Span(c, j + 1).start
  <2>1. j + 1 \in 1 .. c /\ j + 1 - 1 = j /\ j # c
    BY <1>6
  <2> QED BY <1>2, <2>1
<1>7. ASSUME NEW j \in 1 .. c, NEW l \in 1 .. c, j < l PROVE Span(c, j).end <= Span(c, l).start
  <2>1. j # c /\ j <= l - 1 /\ l - 1 \in Nat /\ j \in Nat
    BY <1>7
  <2> QED BY <1>2, <1>3, <2>1
<1>8. Span(c, 1).start = 0 /\ Span(c, c).end = Space
  <2>1. 1 \in 1 .. c /\ c \in 1 .. c /\ d * (1 - 1) = 0
    BY <1>1
  <2> QED BY <1>2, <2>1
<1>9. ASSUME NEW n \in 0 .. Space - 1
      PROVE  \E j \in 1 .. c : Span(c, j).start <= n /\ n < Span(c, j).end
  <2> DEFINE J == {j \in 1 .. c : Span(c, j).start <= n}
             m == Max(J)
  <2>1. 1 \in J
    BY <1>0, <1>8
  <2>2. J \subseteq 0 .. c
    OBVIOUS
  <2>3. m \in J /\ \A j \in J : j <= m
    BY <2>1, <2>2, MaxProperties
  <2> HIDE DEF m
  <2>4. CASE m = c
    BY <1>0, <1>8, <2>3, <2>4
  <2>5. CASE m < c
    <3>1. m + 1 \in 1 .. c /\ m + 1 \notin J
      BY <2>3, <2>5
    <3>2. ~(Span(c, m + 1).start <= n)
      BY <3>1
    <3>3. Span(c, m).end = Span(c, m + 1).start
      BY <1>6, <2>3, <2>5
    <3>4. Span(c, m).end \in Nat
      BY <1>5, <2>3
    <3> QED BY <2>3, <3>2, <3>3, <3>4
  <2> QED BY <2>3, <2>4, <2>5
<1> QED BY <1>5, <1>6, <1>7, <1>8, <1>9

(* What the ranges of the program are: they begin at 0 and end with the space. *)
LEMMA RangesFacts ==
  ASSUME ranges \in RangeLists
  PROVE  /\ ranges \in Seq(Nat) /\ Len(ranges) \in Nat /\ DOMAIN ranges = 1 .. Len(ranges)
         /\ \A k \in 1 .. Len(ranges) + 1 : Before(ranges, k) \in 0 .. Space
         /\ \A k \in 1 .. Len(ranges) : Before(ranges, k + 1) = Before(ranges, k) + ranges[k]
         /\ \A k, l \in 1 .. Len(ranges) + 1 : k <= l => Before(ranges, k) <= Before(ranges, l)
         /\ Before(ranges, 1) = 0 /\ Before(ranges, Len(ranges) + 1) = Space
         /\ Space \in Nat \ {0}
<1>1. /\ ranges \in Seq(Nat) /\ Len(ranges) \in Nat /\ DOMAIN ranges = 1 .. Len(ranges)
      /\ Before(ranges, Len(ranges) + 1) = Space /\ Space \in Nat \ {0}
  BY UndocEnumAssumption
<1>2. /\ \A k \in 1 .. Len(ranges) + 1 : Before(ranges, k) \in Nat
      /\ \A k \in 1 .. Len(ranges) : Before(ranges, k + 1) = Before(ranges, k) + ranges[k]
      /\ \A k, l \in 1 .. Len(ranges) + 1 : k <= l => Before(ranges, k) <= Before(ranges, l)
      /\ Before(ranges, 1) = 0
  BY <1>1, BeforeProperties
<1>3. ASSUME NEW k \in 1 .. Len(ranges) + 1 PROVE Before(ranges, k) \in 0 .. Space
  <2>1. k <= Len(ranges) + 1 /\ Len(ranges) + 1 \in 1 .. Len(ranges) + 1
    BY <1>1
  <2>2. Before(ranges, k) <= Before(ranges, Len(ranges) + 1)
    BY <1>2, <2>1
  <2> QED BY <1>1, <1>2, <2>2
<1> QED BY <1>1, <1>2, <1>3

(* An instruction is undefined if the range it is in is.                     *)
LEMMA UndefinedAt ==
  ASSUME ranges \in RangeLists, NEW k \in DOMAIN ranges, NEW n \in Nat,
         Before(ranges, k) <= n, n < Before(ranges, k + 1)
  PROVE  n \in UndefinedInstrs <=> Undefined(k)
<1> DEFINE B(l) == Before(ranges, l)
<1>1. /\ Len(ranges) \in Nat /\ DOMAIN ranges = 1 .. Len(ranges)
      /\ \A l \in 1 .. Len(ranges) + 1 : B(l) \in 0 .. Space
      /\ \A l, m \in 1 .. Len(ranges) + 1 : l <= m => B(l) <= B(m)
      /\ Space \in Nat \ {0}
  BY RangesFacts
<1>2. B(k) <= n /\ n < B(k + 1)
  OBVIOUS
<1>3. n \in UndefinedInstrs <=>
        n \in 0 .. Space - 1 /\ \E l \in DOMAIN ranges : Undefined(l) /\ B(l) <= n /\ n < B(l + 1)
  BY DEF UndefinedInstrs
<1> HIDE DEF B
<1>4. n \in 0 .. Space - 1
  BY <1>1, <1>2
<1>5. ASSUME NEW l \in DOMAIN ranges, B(l) <= n, n < B(l + 1) PROVE l = k
  <2>1. CASE l < k
    <3>1. l + 1 \in 1 .. Len(ranges) + 1 /\ k \in 1 .. Len(ranges) + 1 /\ l + 1 <= k
      BY <1>1, <2>1
    <3>2. B(l + 1) <= B(k) /\ B(l + 1) \in Int /\ B(k) \in Int
      BY <1>1, <3>1
    <3> QED BY <1>2, <1>5, <3>2
  <2>2. CASE k < l
    <3>1. k + 1 \in 1 .. Len(ranges) + 1 /\ l \in 1 .. Len(ranges) + 1 /\ k + 1 <= l
      BY <1>1, <2>2
    <3>2. B(k + 1) <= B(l) /\ B(k + 1) \in Int /\ B(l) \in Int
      BY <1>1, <3>1
    <3> QED BY <1>2, <1>5, <3>2
  <2> QED BY <1>1, <2>1, <2>2
<1> QED BY <1>2, <1>3, <1>4, <1>5, Zenon

(* What a worker reports is not more than the length of its span, and that only
   if it has come to the end.                                                *)
LEMMA Reporting ==
  ASSUME NEW start \in Nat, NEW end \in Nat, NEW reached \in Nat,
         start <= end, end <= Space, start <= reached
  PROVE  LET v == (Min({reached, end}) - start) % Space
         IN  v \in 0 .. Space - 1 /\ v <= end - start /\ (v = end - start => end <= reached)
<1> DEFINE x == Min({reached, end}) - start
<1>0. Space \in Nat \ {0}
  BY UndocEnumAssumption
<1>1. Min({reached, end}) = IF reached <= end THEN reached ELSE end
  BY MinOfTwo
<1>2. x \in 0 .. Space /\ x <= end - start /\ (x = end - start => end <= reached)
  BY <1>0, <1>1
<1> HIDE DEF x
<1>3. CASE x = Space
  <2>1. x % Space = 0
    BY <1>0, <1>3
  <2> QED BY <1>0, <1>2, <1>3, <2>1 DEF x
<1>4. CASE x < Space
  <2>1. x % Space = x
    BY <1>0, <1>2, <1>4
  <2> QED BY <1>0, <1>2, <1>4, <2>1 DEF x
<1> QED BY <1>0, <1>2, <1>3, <1>4

-----------------------------------------------------------------------------
(* What a step of a worker leaves alone.                                     *)

(* A processor of which nothing changes, and whose ranges do not.            *)
LEMMA LocalKept ==
  ASSUME NEW q, Local(q), ranges' = ranges, span'[q] = span[q], at'[q] = at[q], i'[q] = i[q],
         index'[q] = index[q], tries'[q] = tries[q], progress'[q] = progress[q],
         executed'[q] = executed[q], archive'[q] = archive[q]
  PROVE  Local(q)'
<1>1. UndefinedInstrs' = UndefinedInstrs
  BY DEF UndefinedInstrs
<1>2. SpanOf(q)' = SpanOf(q) /\ Frontier(q)' = Frontier(q) /\ InRange(q)' = InRange(q)
  BY DEF SpanOf, Frontier, InRange
<1>3. Covered(q)' = Covered(q)
  BY <1>1, <1>2, Zenon DEF Covered
<1>4. TypesAt(q)'
  BY Zenon DEF Local, TypesAt
<1>5. PlaceAt(q)'
  BY <1>2, Zenon DEF Local, PlaceAt
<1>6. ExecutedBy(q)'
  BY <1>1, <1>2, <1>3, Zenon DEF Local, ExecutedBy
<1>7. ArchivedBy(q)'
  BY Zenon DEF Local, ArchivedBy
<1>8. ReportedBy(q)'
  BY <1>3, Zenon DEF Local, ReportedBy
<1> QED BY <1>4, <1>5, <1>6, <1>7, <1>8 DEF Local

(* Nothing but the worker's own state, and the faults, changes.              *)
OnlyOwn(p) ==
  /\ UNCHANGED <<setup, loop, span>>
  /\ at[p] # "none" /\ at' \in [Procs -> Places] /\ at'[p] # "none"
  /\ DOMAIN i' = Procs /\ DOMAIN index' = Procs /\ DOMAIN tries' = Procs
  /\ DOMAIN progress' = Procs /\ DOMAIN executed' = Procs /\ DOMAIN archive' = Procs
  /\ \A q \in Procs : q # p =>
       /\ at'[q] = at[q] /\ i'[q] = i[q] /\ index'[q] = index[q] /\ tries'[q] = tries[q]
       /\ progress'[q] = progress[q] /\ executed'[q] = executed[q] /\ archive'[q] = archive[q]

(* A worker is pinned, tries again, or exits.                                *)
LEMMA PinOutcome ==
  ASSUME NEW p, Pin(p)
  PROVE  /\ at[p] = "pin"
         /\ UNCHANGED <<setup, loop, span, progress, executed, archive, faults>>
         /\ \/ /\ at' = [at EXCEPT ![p] = "range"]
               /\ index' = [index EXCEPT ![p] = Skip(span[p].start)]
               /\ i' = [i EXCEPT ![p] = Before(ranges, index'[p])]
               /\ tries' = [tries EXCEPT ![p] = 0]
            \/ /\ tries[p] + 1 < PinTries
               /\ tries' = [tries EXCEPT ![p] = @ + 1] /\ UNCHANGED <<at, index, i>>
            \/ at' = [at EXCEPT ![p] = "dead"] /\ UNCHANGED <<index, i, tries>>
<1>1. PICK ok \in BOOLEAN :
        CASE pin_to_cpu(tries[p], ok) = "pinned" ->
               /\ at' = [at EXCEPT ![p] = "range"]
               /\ index' = [index EXCEPT ![p] = Skip(span[p].start)]
               /\ i' = [i EXCEPT ![p] = Before(ranges, index'[p])]
               /\ tries' = [tries EXCEPT ![p] = 0]
          [] pin_to_cpu(tries[p], ok) = "again" ->
               tries' = [tries EXCEPT ![p] = @ + 1] /\ UNCHANGED <<at, index, i>>
          [] pin_to_cpu(tries[p], ok) = "exit" ->
               at' = [at EXCEPT ![p] = "dead"] /\ UNCHANGED <<index, i, tries>>
  BY DEF Pin
<1>2. at[p] = "pin" /\ UNCHANGED <<setup, loop, span, progress, executed, archive, faults>>
  BY DEF Pin
<1>3. CASE ok
  BY <1>1, <1>2, <1>3 DEF pin_to_cpu
<1>4. CASE ~ok /\ tries[p] + 1 < PinTries
  BY <1>1, <1>2, <1>4 DEF pin_to_cpu
<1>5. CASE ~ok /\ ~(tries[p] + 1 < PinTries)
  BY <1>1, <1>2, <1>5 DEF pin_to_cpu
<1> QED BY <1>3, <1>4, <1>5

LEMMA WorkerFrame ==
  ASSUME Shape, NEW p \in Procs, Worker(p) \/ PipeFails(p)
  PROVE  OnlyOwn(p)
<1>1. CASE Pin(p)
  BY <1>1, PinOutcome DEF OnlyOwn, Shape, Places, setup, loop
<1>2. CASE EnterRange(p)
  BY <1>2 DEF EnterRange, OnlyOwn, Shape, Places, setup, loop
<1>3. CASE StepOver(p)
  BY <1>3 DEF StepOver, Report, OnlyOwn, Shape, Places, setup, loop
<1>4. CASE LeaveRange(p)
  BY <1>4 DEF LeaveRange, Report, OnlyOwn, Shape, Places, setup, loop
<1>5. CASE NextRun(p)
  BY <1>5 DEF NextRun, Report, OnlyOwn, Shape, Places, setup, loop
<1>6. CASE RunInstr(p)
  BY <1>6 DEF RunInstr, NextInstr, OnlyOwn, Shape, Places, setup, loop
<1>7. CASE Discover(p)
  BY <1>7 DEF Discover, NextInstr, OnlyOwn, Shape, Places, setup, loop
<1>8. CASE PipeFails(p)
  BY <1>8 DEF PipeFails, OnlyOwn, Shape, Places, setup, loop
<1>9. CASE Close(p)
  BY <1>9 DEF Close, OnlyOwn, Shape, Places, setup, loop
<1> QED BY <1>1, <1>2, <1>3, <1>4, <1>5, <1>6, <1>7, <1>8, <1>9 DEF Worker

-----------------------------------------------------------------------------
(* The worker that takes a step.                                             *)

(* What is known of a worker that runs.                                      *)
LEMMA Running ==
  ASSUME IInv, NEW p \in Procs, at[p] # "none"
  PROVE  /\ ranges \in RangeLists
         /\ TypesAt(p) /\ PlaceAt(p) /\ ExecutedBy(p) /\ ArchivedBy(p) /\ ReportedBy(p)
         /\ span[p].start \in Nat /\ span[p].end \in Nat /\ i[p] \in Nat /\ index[p] \in Nat
         /\ span[p].start <= span[p].end /\ span[p].end <= Space
         /\ p \in DOMAIN at /\ p \in DOMAIN i /\ p \in DOMAIN index /\ p \in DOMAIN tries
         /\ p \in DOMAIN progress /\ p \in DOMAIN executed /\ p \in DOMAIN archive
<1>1. ranges \in RangeLists
  BY DEF IInv, SetupInv
<1>2. Local(p)
  BY DEF IInv
<1>3. /\ p \in DOMAIN at /\ p \in DOMAIN i /\ p \in DOMAIN index /\ p \in DOMAIN tries
      /\ p \in DOMAIN progress /\ p \in DOMAIN executed /\ p \in DOMAIN archive
  BY DEF IInv, Shape
<1>4. TypesAt(p) /\ ReportedBy(p) /\ PlaceAt(p) /\ ExecutedBy(p) /\ ArchivedBy(p)
  BY <1>2 DEF Local
<1>5. /\ span[p].start \in Nat /\ span[p].end \in Nat /\ i[p] \in Nat /\ index[p] \in Nat
      /\ span[p].start <= span[p].end /\ span[p].end <= Space
  BY <1>4 DEF TypesAt, ReportedBy
<1> QED BY <1>1, <1>3, <1>4, <1>5

(* A report of how far the worker has come.                                  *)
LEMMA ReportKept ==
  ASSUME NEW p \in DOMAIN progress, ReportedBy(p), span[p].start \in Nat, span[p].end \in Nat,
         NEW reached \in Nat, span[p].start <= reached, UNCHANGED span,
         progress' = Report(p, reached), span[p].end <= reached => Covered(p)'
  PROVE  ReportedBy(p)' /\ progress'[p] \in 0 .. Space - 1
<1>1. progress'[p] = (Min({reached, span[p].end}) - span[p].start) % Space
  BY DEF Report
<1>2. span[p].start <= span[p].end /\ span[p].end <= Space
  BY DEF ReportedBy
<1>3. /\ progress'[p] \in 0 .. Space - 1 /\ progress'[p] <= span[p].end - span[p].start
      /\ progress'[p] = span[p].end - span[p].start => span[p].end <= reached
  BY <1>1, <1>2, Reporting
<1> QED BY <1>2, <1>3 DEF ReportedBy

(* No report, and nothing forgotten.                                         *)
LEMMA NoReportKept ==
  ASSUME NEW p, ReportedBy(p), UNCHANGED span, progress'[p] = progress[p], Covered(p) => Covered(p)'
  PROVE  ReportedBy(p)'
  BY DEF ReportedBy

(* A worker is pinned: nothing of its span is before the range it skips to.  *)
LEMMA PinLocal ==
  ASSUME IInv, NEW p \in Procs, Pin(p)
  PROVE  Local(p)'
<1> USE CpuInfoAssumption, UndocEnumAssumption
<1>0. at[p] = "pin" /\ UNCHANGED <<ranges, span, progress, executed, archive>>
  BY PinOutcome DEF setup
<1>1. /\ ranges \in RangeLists
      /\ TypesAt(p) /\ PlaceAt(p) /\ ExecutedBy(p) /\ ArchivedBy(p) /\ ReportedBy(p)
      /\ span[p].start \in Nat /\ span[p].end \in Nat /\ i[p] \in Nat /\ index[p] \in Nat
      /\ span[p].start <= span[p].end /\ span[p].end <= Space
      /\ p \in DOMAIN at /\ p \in DOMAIN i /\ p \in DOMAIN index /\ p \in DOMAIN tries
  BY <1>0, Running
<1>2. executed[p] = <<>> /\ ToSet(executed[p]) = {}
  BY <1>0, <1>1 DEF TypesAt, ToSet
<1>3. UndefinedInstrs' = UndefinedInstrs /\ SpanOf(p)' = SpanOf(p) /\ Covered(p)' = Covered(p)
  BY <1>0 DEF UndefinedInstrs, SpanOf, Covered
<1>4. ReportedBy(p)'
  BY <1>0, <1>1, <1>3, NoReportKept
<1>5. ArchivedBy(p)'
  BY <1>0, <1>2 DEF ArchivedBy
<1>6. \A n \in {PinTries, MaxRuns} : n <= Max({PinTries, MaxRuns})
  BY MaxOfTwo
<1>7. Max({PinTries, MaxRuns}) \in Nat \ {0}
  BY MaxOfTwo
<1>8. CASE /\ at' = [at EXCEPT ![p] = "range"]
           /\ index' = [index EXCEPT ![p] = Skip(span[p].start)]
           /\ i' = [i EXCEPT ![p] = Before(ranges, index'[p])]
           /\ tries' = [tries EXCEPT ![p] = 0]
  <2> DEFINE k == Skip(span[p].start)
             K == {l \in DOMAIN ranges : Before(ranges, l + 1) >= span[p].start}
  <2>1. at'[p] = "range" /\ index'[p] = k /\ i'[p] = Before(ranges, k) /\ tries'[p] = 0
    BY <1>1, <1>8
  <2>2. /\ Len(ranges) \in Nat /\ DOMAIN ranges = 1 .. Len(ranges)
        /\ \A l \in 1 .. Len(ranges) + 1 : Before(ranges, l) \in 0 .. Space
        /\ Before(ranges, 1) = 0 /\ Before(ranges, Len(ranges) + 1) = Space
        /\ Space \in Nat \ {0}
    BY <1>1, RangesFacts
  <2>3. Len(ranges) \in K
    BY <1>1, <2>2
  <2>4. k \in K /\ \A l \in K : k <= l
    <3>1. K \subseteq Nat /\ K # {}
      BY <2>2, <2>3
    <3>2. k = Min(K)
      BY DEF Skip
    <3> HIDE DEF k, K
    <3> QED BY <3>1, <3>2, MinProperties
  <2> HIDE DEF k
  <2>5. k \in 1 .. Len(ranges) /\ Before(ranges, k) \in Nat /\ Before(ranges, k + 1) >= span[p].start
    BY <2>2, <2>4
  <2>6. ASSUME NEW n \in SpanOf(p) PROVE ~(n < Before(ranges, k))
    <3>1. n \in Nat /\ n >= span[p].start
      BY <1>1 DEF SpanOf
    <3>2. CASE k = 1
      BY <2>2, <3>1, <3>2
    <3>3. CASE k > 1
      <4>1. k - 1 \in DOMAIN ranges /\ k - 1 \notin K /\ k - 1 + 1 = k
        BY <2>2, <2>4, <2>5, <3>3
      <4>2. ~(Before(ranges, k - 1 + 1) >= span[p].start)
        BY <4>1
      <4> QED BY <1>1, <2>5, <3>1, <4>1, <4>2, SMTT(30)
    <3> QED BY <2>5, <3>2, <3>3
  <2>7. TypesAt(p)'
    BY <1>0, <1>1, <1>2, <1>7, <2>1, <2>5 DEF TypesAt
  <2>8. PlaceAt(p)'
    BY <1>0, <2>1, <2>2, <2>5 DEF PlaceAt
  <2>9. ExecutedBy(p)'
    BY <1>0, <1>1, <1>2, <1>3, <2>1, <2>6 DEF ExecutedBy, Frontier
  <2> QED BY <1>4, <1>5, <2>7, <2>8, <2>9 DEF Local
<1>9. CASE /\ tries[p] + 1 < PinTries
           /\ tries' = [tries EXCEPT ![p] = @ + 1] /\ UNCHANGED <<at, index, i>>
  <2>1. tries'[p] \in 0 .. Max({PinTries, MaxRuns}) - 1
    <3>1. tries'[p] = tries[p] + 1 /\ tries[p] \in Nat
      BY <1>1, <1>7, <1>9 DEF TypesAt
    <3>2. tries'[p] < PinTries /\ PinTries <= Max({PinTries, MaxRuns})
      BY <1>6, <1>9, <3>1
    <3> QED BY <1>7, <3>1, <3>2
  <2>2. TypesAt(p)'
    BY <1>0, <1>1, <1>9, <2>1 DEF TypesAt
  <2>3. PlaceAt(p)'
    BY <1>0, <1>9 DEF PlaceAt
  <2>4. ExecutedBy(p)'
    BY <1>0, <1>1, <1>3, <1>9 DEF ExecutedBy
  <2> QED BY <1>4, <1>5, <2>2, <2>3, <2>4 DEF Local
<1>10. CASE at' = [at EXCEPT ![p] = "dead"] /\ UNCHANGED <<index, i, tries>>
  <2>1. at'[p] = "dead"
    BY <1>1, <1>10
  <2>2. TypesAt(p)'
    BY <1>0, <1>1, <1>10, <2>1 DEF TypesAt
  <2>3. PlaceAt(p)'
    BY <2>1 DEF PlaceAt
  <2>4. ExecutedBy(p)'
    BY <1>0, <1>1, <1>3, <2>1 DEF ExecutedBy
  <2> QED BY <1>4, <1>5, <2>2, <2>3, <2>4 DEF Local
<1> QED BY <1>8, <1>9, <1>10, PinOutcome

(* A worker at the beginning of a range of its span.                         *)
LEMMA AtRange ==
  ASSUME IInv, NEW p \in Procs, at[p] = "range", i[p] < span[p].end
  PROVE  /\ index[p] \in DOMAIN ranges /\ index[p] + 1 \in 1 .. Len(ranges) + 1
         /\ i[p] = Before(ranges, index[p])
         /\ Before(ranges, index[p] + 1) = i[p] + ranges[index[p]]
         /\ Before(ranges, index[p] + 1) \in Nat /\ i[p] <= Before(ranges, index[p] + 1)
         /\ span[p].start <= Before(ranges, index[p] + 1)
<1>1. /\ ranges \in RangeLists /\ PlaceAt(p)
      /\ span[p].start \in Nat /\ span[p].end \in Nat /\ i[p] \in Nat /\ index[p] \in Nat
      /\ span[p].end <= Space
  BY Running
<1>2. /\ ranges \in Seq(Nat) /\ Len(ranges) \in Nat /\ DOMAIN ranges = 1 .. Len(ranges)
      /\ \A k \in 1 .. Len(ranges) + 1 : Before(ranges, k) \in 0 .. Space
      /\ \A k \in 1 .. Len(ranges) : Before(ranges, k + 1) = Before(ranges, k) + ranges[k]
      /\ Before(ranges, Len(ranges) + 1) = Space /\ Space \in Nat \ {0}
  BY <1>1, RangesFacts
<1>3. /\ index[p] \in 1 .. Len(ranges) + 1 /\ i[p] = Before(ranges, index[p])
      /\ i[p] >= span[p].start \/ Before(ranges, index[p] + 1) >= span[p].start
  BY <1>1 DEF PlaceAt
<1>4. index[p] # Len(ranges) + 1
  BY <1>1, <1>2, <1>3
<1>5. index[p] \in 1 .. Len(ranges) /\ index[p] + 1 \in 1 .. Len(ranges) + 1
  BY <1>2, <1>3, <1>4
<1>6. /\ Before(ranges, index[p] + 1) = i[p] + ranges[index[p]] /\ ranges[index[p]] \in Nat
      /\ Before(ranges, index[p] + 1) \in Nat
  BY <1>2, <1>3, <1>5
<1> QED BY <1>1, <1>2, <1>3, <1>5, <1>6

(* Into an undefined range.                                                  *)
LEMMA EnterRangeLocal ==
  ASSUME IInv, NEW p \in Procs, EnterRange(p)
  PROVE  Local(p)'
<1>0. /\ at[p] = "range" /\ i[p] < span[p].end /\ Undefined(index[p])
      /\ UNCHANGED <<ranges, span, index, tries, progress, executed, archive>>
  BY DEF EnterRange, setup
<1>1. /\ TypesAt(p) /\ PlaceAt(p) /\ ExecutedBy(p) /\ ArchivedBy(p) /\ ReportedBy(p)
      /\ span[p].start \in Nat /\ span[p].end \in Nat /\ i[p] \in Nat
      /\ p \in DOMAIN at /\ p \in DOMAIN i
  BY <1>0, Running
<1>2. /\ index[p] \in DOMAIN ranges /\ i[p] = Before(ranges, index[p])
      /\ Before(ranges, index[p] + 1) \in Nat /\ i[p] <= Before(ranges, index[p] + 1)
      /\ span[p].start <= Before(ranges, index[p] + 1)
  BY <1>0, AtRange
<1>3. at'[p] = "instr" /\ i'[p] = IF i[p] >= span[p].start THEN i[p] ELSE span[p].start
  <2>1. Max({i[p], span[p].start}) = IF i[p] >= span[p].start THEN i[p] ELSE span[p].start
    BY <1>1, MaxOfTwo
  <2>2. at'[p] = "instr" /\ i'[p] = Max({i[p], span[p].start})
    BY <1>1 DEF EnterRange
  <2> QED BY <2>1, <2>2
<1>4. UndefinedInstrs' = UndefinedInstrs /\ SpanOf(p)' = SpanOf(p) /\ Covered(p)' = Covered(p)
  BY <1>0 DEF UndefinedInstrs, SpanOf, Covered
<1>5. i'[p] \in Nat /\ i[p] <= i'[p] /\ span[p].start <= i'[p] /\ i'[p] <= Before(ranges, index[p] + 1)
  BY <1>1, <1>2, <1>3
<1>6. TypesAt(p)'
  BY <1>0, <1>1, <1>3, <1>5 DEF TypesAt
<1>7. PlaceAt(p)'
  BY <1>0, <1>1, <1>2, <1>3, <1>5 DEF PlaceAt
<1>8. ExecutedBy(p)'
  <2>1. \A n \in ToSet(executed[p]) : n < i'[p]
    <3>1. \A n \in ToSet(executed[p]) : n < i[p] /\ n \in Int
      BY <1>0, <1>1 DEF ExecutedBy, Frontier, SpanOf
    <3> QED BY <1>1, <1>5, <3>1
  <2>2. \A n \in UndefinedInstrs \cap SpanOf(p) : n < i'[p] => n \in ToSet(executed[p])
    <3>1. \A n \in UndefinedInstrs \cap SpanOf(p) : n < i[p] => n \in ToSet(executed[p])
      BY <1>0, <1>1 DEF ExecutedBy, Frontier
    <3>2. \A n \in SpanOf(p) : n \in Int /\ n >= span[p].start
      BY <1>1 DEF SpanOf
    <3> QED BY <1>1, <1>3, <3>1, <3>2
  <2> QED BY <1>0, <1>1, <1>3, <1>4, <2>1, <2>2 DEF ExecutedBy, Frontier
<1>9. ArchivedBy(p)'
  BY <1>0, <1>1, <1>3 DEF ArchivedBy
<1>10. ReportedBy(p)'
  BY <1>0, <1>1, <1>4, NoReportKept
<1> QED BY <1>6, <1>7, <1>8, <1>9, <1>10 DEF Local

(* Over a defined range: there is nothing in it to execute.                  *)
LEMMA StepOverLocal ==
  ASSUME IInv, NEW p \in Procs, StepOver(p)
  PROVE  Local(p)'
<1>0. /\ at[p] = "range" /\ i[p] < span[p].end /\ ~Undefined(index[p])
      /\ UNCHANGED <<ranges, at, span, tries, executed, archive>>
      /\ progress' = Report(p, i'[p])
  BY DEF StepOver, setup
<1>1. /\ ranges \in RangeLists
      /\ TypesAt(p) /\ PlaceAt(p) /\ ExecutedBy(p) /\ ArchivedBy(p) /\ ReportedBy(p)
      /\ span[p].start \in Nat /\ span[p].end \in Nat /\ i[p] \in Nat /\ index[p] \in Nat
      /\ p \in DOMAIN index /\ p \in DOMAIN i /\ p \in DOMAIN progress
  BY <1>0, Running
<1>2. /\ index[p] \in DOMAIN ranges /\ index[p] + 1 \in 1 .. Len(ranges) + 1
      /\ i[p] = Before(ranges, index[p])
      /\ Before(ranges, index[p] + 1) = i[p] + ranges[index[p]]
      /\ Before(ranges, index[p] + 1) \in Nat /\ i[p] <= Before(ranges, index[p] + 1)
      /\ span[p].start <= Before(ranges, index[p] + 1)
  BY <1>0, AtRange
<1>3. i'[p] = i[p] + ranges[index[p]] /\ index'[p] = index[p] + 1
  BY <1>1 DEF StepOver
<1>4. /\ i'[p] = Before(ranges, index[p] + 1) /\ i'[p] \in Nat /\ i[p] <= i'[p]
      /\ span[p].start <= i'[p]
  BY <1>2, <1>3
<1>5. UndefinedInstrs' = UndefinedInstrs /\ SpanOf(p)' = SpanOf(p)
  BY <1>0 DEF UndefinedInstrs, SpanOf
<1>6. \A n \in SpanOf(p) : n \in Nat
  BY <1>1 DEF SpanOf
<1>7. \A n \in UndefinedInstrs \cap SpanOf(p) : n < i'[p] => n \in ToSet(executed[p])
  <2> SUFFICES ASSUME NEW n \in UndefinedInstrs \cap SpanOf(p), n < i'[p] PROVE n \in ToSet(executed[p])
    OBVIOUS
  <2>1. CASE n < i[p]
    BY <1>0, <1>1, <2>1 DEF ExecutedBy, Frontier
  <2>2. CASE ~(n < i[p])
    <3>1. n \in Nat /\ Before(ranges, index[p]) <= n /\ n < Before(ranges, index[p] + 1)
      BY <1>1, <1>2, <1>4, <1>6, <2>2
    <3> QED BY <1>0, <1>1, <1>2, <3>1, UndefinedAt
  <2> QED BY <2>1, <2>2
<1>8. span[p].end <= i'[p] => Covered(p)'
  <2>1. \A n \in SpanOf(p) : n < span[p].end
    BY <1>1 DEF SpanOf
  <2>2. span[p].end <= i'[p] => \A n \in SpanOf(p) : n < i'[p]
    BY <1>1, <1>4, <1>6, <2>1
  <2> QED BY <1>0, <1>5, <1>7, <2>2, Zenon DEF Covered
<1>9. ReportedBy(p)' /\ progress'[p] \in 0 .. Space - 1
  BY <1>0, <1>1, <1>4, <1>8, ReportKept
<1>10. TypesAt(p)'
  BY <1>0, <1>1, <1>3, <1>4, <1>9, SMTT(30) DEF TypesAt
<1>11. PlaceAt(p)'
  BY <1>0, <1>2, <1>3, <1>4 DEF PlaceAt
<1>12. ExecutedBy(p)'
  <2>1. \A n \in ToSet(executed[p]) : n < i'[p]
    <3>1. \A n \in ToSet(executed[p]) : n < i[p] /\ n \in Int
      BY <1>0, <1>1 DEF ExecutedBy, Frontier, SpanOf
    <3> QED BY <1>1, <1>4, <3>1
  <2> QED BY <1>0, <1>1, <1>5, <1>7, <2>1 DEF ExecutedBy, Frontier
<1>13. ArchivedBy(p)'
  BY <1>0, <1>1 DEF ArchivedBy
<1> QED BY <1>9, <1>10, <1>11, <1>12, <1>13 DEF Local

(* A worker that comes to the end of its span has covered it.                *)
LEMMA EndCovers ==
  ASSUME NEW p, ExecutedBy(p), at[p] \in {"range", "instr"}, i[p] \in Nat,
         span[p].start \in Nat, span[p].end \in Nat, span[p].end <= i[p]
  PROVE  Covered(p)
<1>1. \A n \in SpanOf(p) : n < i[p]
  BY DEF SpanOf
<1>2. \A n \in UndefinedInstrs \cap SpanOf(p) : n < i[p] => n \in ToSet(executed[p])
  BY DEF ExecutedBy, Frontier
<1> QED BY <1>1, <1>2 DEF Covered

(* At the end of a range, or of the span.                                    *)
LEMMA LeaveRangeLocal ==
  ASSUME IInv, NEW p \in Procs, LeaveRange(p)
  PROVE  Local(p)'
<1>0. /\ at[p] = "instr" /\ ~InRange(p)
      /\ UNCHANGED <<ranges, span, i, tries, executed, archive>>
      /\ progress' = Report(p, i[p])
  BY DEF LeaveRange, setup
<1>1. /\ ranges \in RangeLists
      /\ TypesAt(p) /\ PlaceAt(p) /\ ExecutedBy(p) /\ ArchivedBy(p) /\ ReportedBy(p)
      /\ span[p].start \in Nat /\ span[p].end \in Nat /\ i[p] \in Nat /\ index[p] \in Nat
      /\ p \in DOMAIN index /\ p \in DOMAIN at /\ p \in DOMAIN progress
  BY <1>0, Running
<1>2. at'[p] = "range" /\ index'[p] = index[p] + 1
  BY <1>1 DEF LeaveRange
<1>3. /\ index[p] \in DOMAIN ranges /\ span[p].start <= i[p]
      /\ i[p] <= Before(ranges, index[p] + 1)
  BY <1>0, <1>1 DEF PlaceAt
<1>4. index[p] + 1 \in 1 .. Len(ranges) + 1 /\ Before(ranges, index[p] + 1) \in Nat
  <2>1. /\ Len(ranges) \in Nat /\ DOMAIN ranges = 1 .. Len(ranges)
        /\ \A k \in 1 .. Len(ranges) + 1 : Before(ranges, k) \in 0 .. Space
    BY <1>1, RangesFacts
  <2>2. index[p] + 1 \in 1 .. Len(ranges) + 1
    BY <1>3, <2>1
  <2> QED BY <2>1, <2>2
<1>5. i[p] = Before(ranges, index[p] + 1) \/ i[p] >= span[p].end
  BY <1>0, <1>1, <1>3, <1>4 DEF InRange
<1>6. UndefinedInstrs' = UndefinedInstrs /\ SpanOf(p)' = SpanOf(p) /\ Covered(p)' = Covered(p)
  BY <1>0 DEF UndefinedInstrs, SpanOf, Covered
<1>7. span[p].end <= i[p] => Covered(p)'
  BY <1>0, <1>1, <1>6, EndCovers
<1>8. ReportedBy(p)' /\ progress'[p] \in 0 .. Space - 1
  BY <1>0, <1>1, <1>3, <1>7, ReportKept
<1>9. TypesAt(p)'
  BY <1>0, <1>1, <1>2, <1>8 DEF TypesAt
<1>10. PlaceAt(p)'
  BY <1>0, <1>1, <1>2, <1>3, <1>4, <1>5 DEF PlaceAt
<1>11. ExecutedBy(p)'
  BY <1>0, <1>1, <1>2, <1>6 DEF ExecutedBy, Frontier
<1>12. ArchivedBy(p)'
  BY <1>0, <1>1, <1>2 DEF ArchivedBy
<1> QED BY <1>8, <1>9, <1>10, <1>11, <1>12 DEF Local

(* The next instruction is about to be executed.                             *)
LEMMA NextRunLocal ==
  ASSUME IInv, NEW p \in Procs, NextRun(p)
  PROVE  Local(p)'
<1>0. /\ at[p] = "instr" /\ InRange(p)
      /\ UNCHANGED <<ranges, span, i, index, tries, executed, archive>>
      /\ progress' = Report(p, i[p]) \/ progress' = progress
  BY DEF NextRun, setup
<1>1. /\ TypesAt(p) /\ PlaceAt(p) /\ ExecutedBy(p) /\ ArchivedBy(p) /\ ReportedBy(p)
      /\ span[p].start \in Nat /\ span[p].end \in Nat /\ i[p] \in Nat
      /\ p \in DOMAIN at /\ p \in DOMAIN progress
  BY <1>0, Running
<1>2. at'[p] = "run"
  BY <1>1 DEF NextRun
<1>3. span[p].start <= i[p]
  BY <1>0, <1>1 DEF PlaceAt
<1>4. UndefinedInstrs' = UndefinedInstrs /\ SpanOf(p)' = SpanOf(p) /\ Covered(p)' = Covered(p)
  BY <1>0 DEF UndefinedInstrs, SpanOf, Covered
<1>5. ReportedBy(p)' /\ progress'[p] \in 0 .. Space - 1
  <2>1. CASE progress' = progress
    BY <1>0, <1>1, <1>4, <2>1, NoReportKept DEF TypesAt
  <2>2. CASE progress' = Report(p, i[p])
    <3>1. span[p].end <= i[p] => Covered(p)'
      BY <1>0, <1>1, <1>4, EndCovers
    <3> QED BY <1>0, <1>1, <1>3, <2>2, <3>1, ReportKept
  <2> QED BY <1>0, <2>1, <2>2
<1>6. TypesAt(p)'
  BY <1>0, <1>1, <1>2, <1>5 DEF TypesAt
<1>7. PlaceAt(p)'
  BY <1>0, <1>1, <1>2 DEF PlaceAt, InRange
<1>8. ExecutedBy(p)'
  BY <1>0, <1>1, <1>2, <1>4 DEF ExecutedBy, Frontier
<1>9. ArchivedBy(p)'
  BY <1>0, <1>1, <1>2 DEF ArchivedBy
<1> QED BY <1>5, <1>6, <1>7, <1>8, <1>9 DEF Local

(* The span is enumerated.                                                   *)
LEMMA CloseLocal ==
  ASSUME IInv, NEW p \in Procs, Close(p)
  PROVE  Local(p)'
<1>0. /\ at[p] = "range" /\ i[p] >= span[p].end
      /\ UNCHANGED <<ranges, span, i, index, tries, progress, executed, archive>>
  BY DEF Close, setup
<1>1. /\ TypesAt(p) /\ PlaceAt(p) /\ ExecutedBy(p) /\ ArchivedBy(p) /\ ReportedBy(p)
      /\ span[p].start \in Nat /\ span[p].end \in Nat /\ i[p] \in Nat /\ p \in DOMAIN at
  BY <1>0, Running
<1>2. at'[p] = "closed"
  BY <1>1 DEF Close
<1>3. UndefinedInstrs' = UndefinedInstrs /\ SpanOf(p)' = SpanOf(p) /\ Covered(p)' = Covered(p)
  BY <1>0 DEF UndefinedInstrs, SpanOf, Covered
<1>4. Covered(p)
  BY <1>0, <1>1, EndCovers
<1>5. ReportedBy(p)'
  BY <1>0, <1>1, <1>3, NoReportKept
<1>6. TypesAt(p)'
  BY <1>0, <1>1, <1>2 DEF TypesAt
<1>7. PlaceAt(p)'
  BY <1>2 DEF PlaceAt
<1>8. ExecutedBy(p)'
  BY <1>0, <1>1, <1>2, <1>3, <1>4 DEF ExecutedBy
<1>9. ArchivedBy(p)'
  BY <1>0, <1>1, <1>2 DEF ArchivedBy
<1> QED BY <1>5, <1>6, <1>7, <1>8, <1>9 DEF Local

(* A worker that dies keeps what it has.                                     *)
LEMMA PipeFailsLocal ==
  ASSUME IInv, NEW p \in Procs, PipeFails(p)
  PROVE  Local(p)'
<1>0. /\ at[p] = "log"
      /\ UNCHANGED <<ranges, span, i, index, tries, progress, executed, archive>>
  BY DEF PipeFails, setup
<1>1. TypesAt(p) /\ ExecutedBy(p) /\ ReportedBy(p) /\ p \in DOMAIN at
  BY <1>0, Running
<1>2. at'[p] = "dead"
  BY <1>1 DEF PipeFails
<1>3. UndefinedInstrs' = UndefinedInstrs /\ SpanOf(p)' = SpanOf(p) /\ Covered(p)' = Covered(p)
  BY <1>0 DEF UndefinedInstrs, SpanOf, Covered
<1>4. ReportedBy(p)'
  BY <1>0, <1>1, <1>3, NoReportKept
<1>5. TypesAt(p)'
  BY <1>0, <1>1, <1>2 DEF TypesAt
<1>6. PlaceAt(p)' /\ ArchivedBy(p)'
  BY <1>2 DEF PlaceAt, ArchivedBy
<1>7. ExecutedBy(p)'
  BY <1>0, <1>1, <1>2, <1>3 DEF ExecutedBy
<1> QED BY <1>4, <1>5, <1>6, <1>7 DEF Local

(* The instruction a worker has reached is its own, and undefined.           *)
LEMMA AtInstr ==
  ASSUME IInv, NEW p \in Procs, at[p] \in {"run", "log"}
  PROVE  /\ i[p] \in UndefinedInstrs \cap SpanOf(p)
         /\ index[p] \in DOMAIN ranges /\ Undefined(index[p]) /\ span[p].start <= i[p]
         /\ Before(ranges, index[p]) <= i[p] /\ i[p] + 1 <= Before(ranges, index[p] + 1)
         /\ Before(ranges, index[p]) \in Nat
<1>1. /\ ranges \in RangeLists /\ PlaceAt(p)
      /\ span[p].start \in Nat /\ span[p].end \in Nat /\ i[p] \in Nat
  BY Running
<1>2. /\ index[p] \in DOMAIN ranges /\ Undefined(index[p])
      /\ Before(ranges, index[p]) <= i[p] /\ span[p].start <= i[p]
      /\ i[p] < Before(ranges, index[p] + 1) /\ i[p] < span[p].end
  BY <1>1 DEF PlaceAt, InRange
<1>3. i[p] \in UndefinedInstrs
  BY <1>1, <1>2, UndefinedAt
<1>4. i[p] \in SpanOf(p)
  BY <1>1, <1>2 DEF SpanOf
<1>5. Before(ranges, index[p]) \in Nat /\ Before(ranges, index[p] + 1) \in Nat
  <2>1. /\ Len(ranges) \in Nat /\ DOMAIN ranges = 1 .. Len(ranges)
        /\ \A k \in 1 .. Len(ranges) + 1 : Before(ranges, k) \in 0 .. Space
    BY <1>1, RangesFacts
  <2>2. index[p] \in 1 .. Len(ranges) + 1 /\ index[p] + 1 \in 1 .. Len(ranges) + 1
    BY <1>2, <2>1
  <2> QED BY <2>1, <2>2
<1> QED BY <1>1, <1>2, <1>3, <1>4, <1>5

(* An instruction is tried again, or is executed; then it is put into the
   archive or the next one follows.                                          *)
LEMMA RunInstrOutcome ==
  ASSUME NEW p, RunInstr(p)
  PROVE  /\ at[p] = "run" /\ UNCHANGED <<setup, loop, span, index, progress, archive, faults>>
         /\ \/ /\ tries[p] + 1 < MaxRuns
               /\ tries' = [tries EXCEPT ![p] = @ + 1] /\ UNCHANGED <<at, i, executed>>
            \/ /\ tries' = [tries EXCEPT ![p] = 0]
               /\ executed' = [executed EXCEPT ![p] = Append(@, i[p])]
               /\ \/ at' = [at EXCEPT ![p] = "log"] /\ UNCHANGED i
                  \/ i[p] \notin Valid /\ NextInstr(p)
  BY DEF RunInstr

(* An instruction is executed, for the first time on this core.              *)
LEMMA RunInstrLocal ==
  ASSUME IInv, NEW p \in Procs, RunInstr(p)
  PROVE  Local(p)'
<1> USE CpuInfoAssumption, UndocEnumAssumption
<1>0. at[p] = "run" /\ UNCHANGED <<ranges, span, index, progress, archive>>
  BY RunInstrOutcome DEF setup
<1>1. /\ TypesAt(p) /\ PlaceAt(p) /\ ExecutedBy(p) /\ ArchivedBy(p) /\ ReportedBy(p)
      /\ span[p].start \in Nat /\ span[p].end \in Nat /\ i[p] \in Nat
      /\ p \in DOMAIN at /\ p \in DOMAIN i /\ p \in DOMAIN tries /\ p \in DOMAIN executed
  BY <1>0, Running
<1>2. UndefinedInstrs' = UndefinedInstrs /\ SpanOf(p)' = SpanOf(p)
  BY <1>0 DEF UndefinedInstrs, SpanOf
<1>3. Max({PinTries, MaxRuns}) \in Nat \ {0} /\ MaxRuns <= Max({PinTries, MaxRuns})
  BY MaxOfTwo
<1>4. CASE /\ tries[p] + 1 < MaxRuns
           /\ tries' = [tries EXCEPT ![p] = @ + 1] /\ UNCHANGED <<at, i, executed>>
  <2>1. tries'[p] \in 0 .. Max({PinTries, MaxRuns}) - 1
    <3>1. tries'[p] = tries[p] + 1 /\ tries[p] \in Nat
      BY <1>1, <1>3, <1>4 DEF TypesAt
    <3> QED BY <1>3, <1>4, <3>1
  <2>2. TypesAt(p)'
    BY <1>0, <1>1, <1>4, <2>1 DEF TypesAt
  <2>3. PlaceAt(p)'
    BY <1>0, <1>1, <1>4 DEF PlaceAt, InRange
  <2>4. ExecutedBy(p)'
    BY <1>0, <1>1, <1>2, <1>4 DEF ExecutedBy, Frontier
  <2>5. ArchivedBy(p)'
    BY <1>0, <1>1, <1>4 DEF ArchivedBy
  <2>6. Covered(p)' = Covered(p)
    BY <1>2, <1>4 DEF Covered
  <2>7. ReportedBy(p)'
    BY <1>0, <1>1, <2>6, NoReportKept
  <2> QED BY <2>2, <2>3, <2>4, <2>5, <2>7 DEF Local
<1>5. CASE /\ tries' = [tries EXCEPT ![p] = 0]
           /\ executed' = [executed EXCEPT ![p] = Append(@, i[p])]
           /\ \/ at' = [at EXCEPT ![p] = "log"] /\ UNCHANGED i
              \/ i[p] \notin Valid /\ NextInstr(p)
  <2> DEFINE e == executed[p]
             f == executed'[p]
  <2>1. /\ i[p] \in UndefinedInstrs \cap SpanOf(p)
        /\ index[p] \in DOMAIN ranges /\ Undefined(index[p]) /\ span[p].start <= i[p]
        /\ Before(ranges, index[p]) <= i[p] /\ i[p] + 1 <= Before(ranges, index[p] + 1)
        /\ Before(ranges, index[p]) \in Nat
    BY <1>0, AtInstr
  <2>2. /\ e \in Seq(Nat) /\ f = Append(e, i[p]) /\ tries'[p] = 0
    BY <1>1, <1>5 DEF TypesAt
  <2>3. ToSet(f) = ToSet(e) \cup {i[p]}
    BY <1>1, <2>2, ToSetAppend
  <2>4. \/ at'[p] = "log" /\ i'[p] = i[p]
        \/ at'[p] = "instr" /\ i'[p] = i[p] + 1 /\ i[p] \notin Valid
    BY <1>1, <1>5 DEF NextInstr
  <2>5. Frontier(p)' = i[p] + 1 /\ i'[p] \in Nat /\ i[p] <= i'[p]
    BY <1>1, <2>4 DEF Frontier
  <2>6. /\ \A n \in ToSet(e) : n < i[p] /\ n \in Int
        /\ \A n \in UndefinedInstrs \cap SpanOf(p) : n < i[p] => n \in ToSet(e)
        /\ ToSet(e) \subseteq UndefinedInstrs \cap SpanOf(p)
        /\ \A a, b \in DOMAIN e : e[a] = e[b] => a = b
    BY <1>0, <1>1 DEF ExecutedBy, Frontier, SpanOf
  <2>7. f \in Seq(Nat) /\ f # <<>>
    BY <1>1, <2>2
  <2>8. TypesAt(p)'
    <3>1. archive[p] \subseteq ToSet(f) \X (0 .. Text)
      BY <1>1, <2>3 DEF TypesAt
    <3> QED BY <1>0, <1>1, <1>3, <2>2, <2>4, <2>5, <2>7, <3>1, SMTT(30) DEF TypesAt
  <2>9. PlaceAt(p)'
    <3>1. at'[p] = "log" => InRange(p)'
      BY <1>0, <1>1, <2>4 DEF PlaceAt, InRange
    <3> QED BY <1>0, <1>1, <2>1, <2>4, <3>1 DEF PlaceAt
  <2>10. \A a, b \in DOMAIN f : f[a] = f[b] => a = b
    <3>1. /\ Len(e) \in Nat /\ DOMAIN e = 1 .. Len(e) /\ DOMAIN f = 1 .. Len(e) + 1
          /\ f[Len(e) + 1] = i[p] /\ \A a \in 1 .. Len(e) : f[a] = e[a]
      BY <1>1, <2>2
    <3>2. \A a \in 1 .. Len(e) : e[a] # i[p]
      <4>1. \A a \in DOMAIN e : e[a] \in ToSet(e)
        BY DEF ToSet
      <4> QED BY <1>1, <2>6, <3>1, <4>1
    <3> HIDE DEF e, f
    <3> QED BY <2>6, <3>1, <3>2
  <2>11. \A n \in UndefinedInstrs \cap SpanOf(p) : n < i[p] + 1 => n \in ToSet(f)
    <3>1. \A n \in SpanOf(p) : n \in Int
      BY <1>1 DEF SpanOf
    <3>2. \A n \in SpanOf(p) : n < i[p] + 1 => n < i[p] \/ n = i[p]
      BY <1>1, <3>1
    <3> QED BY <2>3, <2>6, <3>2, Zenon
  <2>12. \A n \in ToSet(f) : n < i[p] + 1
    BY <1>1, <2>3, <2>6
  <2>13. ToSet(f) \subseteq UndefinedInstrs \cap SpanOf(p)
    BY <2>1, <2>3, <2>6
  <2>14. ExecutedBy(p)'
    BY <1>2, <2>4, <2>5, <2>10, <2>11, <2>12, <2>13 DEF ExecutedBy
  <2>15. ArchivedBy(p)'
    <3>1. \A n \in Valid \cap ToSet(e) : \E x \in archive[p] : x[1] = n
      BY <1>0, <1>1 DEF ArchivedBy
    <3>2. \A n \in Valid \cap ToSet(f) : (\E x \in archive[p] : x[1] = n) \/ (at'[p] = "log" /\ n = i'[p])
      BY <2>3, <2>4, <3>1
    <3> QED BY <1>0, <3>2 DEF ArchivedBy
  <2>16. Covered(p) => Covered(p)'
    BY <1>2, <2>3 DEF Covered
  <2>17. ReportedBy(p)'
    BY <1>0, <1>1, <2>16, NoReportKept
  <2> QED BY <2>8, <2>9, <2>14, <2>15, <2>17 DEF Local
<1> QED BY <1>4, <1>5, RunInstrOutcome

(* What reaches the archive is no longer than the text.                      *)
LEMMA WrittenType == Written \in 0 .. Text
<1>1. Text \in Nat /\ Buffer \in Nat \ {0}
  BY UndocEnumAssumption
<1>2. Text % Buffer \in Nat /\ Text % Buffer <= Text
  <2>1. Text % Buffer \in 0 .. Buffer - 1
    BY <1>1
  <2>2. CASE Text < Buffer
    <3>1. Text % Buffer = Text
      BY <1>1, <2>2
    <3> QED BY <1>1, <3>1
  <2>3. CASE Text >= Buffer
    BY <1>1, <2>1, <2>3
  <2> QED BY <1>1, <2>2, <2>3
<1> QED BY <1>1, <1>2 DEF Written

(* A discovery is stored, and the next instruction follows.                  *)
LEMMA DiscoverLocal ==
  ASSUME IInv, NEW p \in Procs, Discover(p)
  PROVE  Local(p)'
<1>0. at[p] = "log" /\ UNCHANGED <<ranges, span, index, tries, progress, executed>>
  BY DEF Discover, setup
<1>1. /\ TypesAt(p) /\ PlaceAt(p) /\ ExecutedBy(p) /\ ArchivedBy(p) /\ ReportedBy(p)
      /\ span[p].start \in Nat /\ span[p].end \in Nat /\ i[p] \in Nat
      /\ p \in DOMAIN at /\ p \in DOMAIN i /\ p \in DOMAIN archive
  BY <1>0, Running
<1>2. UndefinedInstrs' = UndefinedInstrs /\ SpanOf(p)' = SpanOf(p) /\ Covered(p)' = Covered(p)
  BY <1>0 DEF UndefinedInstrs, SpanOf, Covered
<1>3. /\ i[p] \in UndefinedInstrs \cap SpanOf(p)
      /\ index[p] \in DOMAIN ranges /\ Undefined(index[p]) /\ span[p].start <= i[p]
      /\ Before(ranges, index[p]) <= i[p] /\ i[p] + 1 <= Before(ranges, index[p] + 1)
      /\ Before(ranges, index[p]) \in Nat
  BY <1>0, AtInstr
<1>4. /\ at'[p] = "instr" /\ i'[p] = i[p] + 1
      /\ archive'[p] = archive[p] \cup {<<i[p], Written>>}
  BY <1>1 DEF Discover, NextInstr
<1>5. i[p] \in ToSet(executed[p])
  BY <1>0, <1>1, <1>3 DEF ExecutedBy, Frontier
<1>6. TypesAt(p)'
  <2>1. archive'[p] \subseteq ToSet(executed[p]) \X (0 .. Text)
    BY <1>1, <1>4, <1>5, WrittenType DEF TypesAt
  <2> QED BY <1>0, <1>1, <1>4, <2>1 DEF TypesAt
<1>7. PlaceAt(p)'
  BY <1>0, <1>1, <1>3, <1>4 DEF PlaceAt
<1>8. ExecutedBy(p)'
  BY <1>0, <1>1, <1>2, <1>4 DEF ExecutedBy, Frontier
<1>9. ArchivedBy(p)'
  <2>1. <<i[p], Written>> \in archive'[p] /\ <<i[p], Written>>[1] = i[p]
    BY <1>4
  <2>2. \A n \in Valid \cap ToSet(executed[p]) : (\E x \in archive[p] : x[1] = n) \/ n = i[p]
    BY <1>0, <1>1 DEF ArchivedBy
  <2>3. archive[p] \subseteq archive'[p]
    BY <1>4
  <2>4. \A n \in Valid \cap ToSet(executed[p]) : \E x \in archive'[p] : x[1] = n
    BY <2>1, <2>2, <2>3, Zenon
  <2> QED BY <1>0, <2>4 DEF ArchivedBy
<1>10. ReportedBy(p)'
  BY <1>0, <1>1, <1>2, NoReportKept
<1> QED BY <1>6, <1>7, <1>8, <1>9, <1>10 DEF Local

-----------------------------------------------------------------------------
(* The steps of the workers preserve the invariant.                          *)

(* The core types: each processor belongs to one core of one type.           *)
LEMMA TypesFacts ==
  ASSUME SetupInv
  PROVE  /\ Len(types) \in Nat /\ DOMAIN types = 1 .. Len(types)
         /\ DOMAIN cpus # {} => 1 \in DOMAIN types
         /\ \A t \in DOMAIN types :
              /\ Len(types[t].cpus) \in Nat \ {0} /\ Cores(t) = 1 .. Len(types[t].cpus)
              /\ \A j \in Cores(t) : types[t].cpus[j] \in Procs
         /\ \A t, u \in DOMAIN types : \A j \in Cores(t), l \in Cores(u) :
              types[t].cpus[j] = types[u].cpus[l] => t = u /\ j = l
<1>1. machine \in Machines /\ types = CoreTypes(machine) /\ cpus = parse_cpuinfo(machine)
  BY DEF SetupInv, CoreTypes
<1>2. /\ Len(types) \in Nat /\ DOMAIN types = 1 .. Len(types)
      /\ DOMAIN cpus # {} => Len(types) > 0
      /\ \A t \in DOMAIN types : types[t].cpus \in Seq(Procs) \ {<<>>}
      /\ \A t, u \in DOMAIN types :
           \A j \in DOMAIN types[t].cpus, l \in DOMAIN types[u].cpus :
             types[t].cpus[j] = types[u].cpus[l] => t = u /\ j = l
  BY <1>1, MachinesAssumption DEF Procs
<1>3. ASSUME NEW t \in DOMAIN types
      PROVE  /\ Len(types[t].cpus) \in Nat \ {0} /\ Cores(t) = 1 .. Len(types[t].cpus)
             /\ \A j \in Cores(t) : types[t].cpus[j] \in Procs
  BY <1>2 DEF Cores
<1> QED BY <1>2, <1>3 DEF Cores

(* The worker that takes the step.                                           *)
LEMMA WorkerLocal ==
  ASSUME IInv, NEW p \in Procs, Worker(p) \/ PipeFails(p)
  PROVE  Local(p)'
  BY PinLocal, EnterRangeLocal, StepOverLocal, LeaveRangeLocal, NextRunLocal, RunInstrLocal,
     DiscoverLocal, PipeFailsLocal, CloseLocal DEF Worker

(* Nothing that was executed is forgotten.                                   *)
LEMMA WorkerCovered ==
  ASSUME IInv, NEW p \in Procs, Worker(p) \/ PipeFails(p), NEW q \in Procs, Covered(q)
  PROVE  Covered(q)'
<1>1. OnlyOwn(p)
  BY WorkerFrame DEF IInv
<1>2. UNCHANGED <<ranges, span>>
  BY <1>1 DEF OnlyOwn, setup
<1>3. UndefinedInstrs' = UndefinedInstrs /\ SpanOf(q)' = SpanOf(q)
  BY <1>2 DEF UndefinedInstrs, SpanOf
<1>4. executed'[q] = executed[q] \/ executed'[q] = Append(executed[q], i[q])
  <2>1. CASE q # p
    BY <1>1, <2>1 DEF OnlyOwn
  <2>2. CASE RunInstr(p)
    <3>1. p \in DOMAIN executed
      BY DEF IInv, Shape
    <3> QED BY <2>1, <2>2, <3>1, RunInstrOutcome
  <2>3. CASE ~RunInstr(p)
    <3>1. executed' = executed
      BY <2>3 DEF Worker, Pin, EnterRange, StepOver, LeaveRange, NextRun, Discover, PipeFails, Close
    <3> QED BY <3>1
  <2> QED BY <2>1, <2>2, <2>3
<1>5. executed[q] \in Seq(Nat) /\ i[q] \in Nat
  BY DEF IInv, Local, TypesAt
<1>6. ToSet(executed[q]) \subseteq ToSet(executed'[q])
  <2>1. ToSet(Append(executed[q], i[q])) = ToSet(executed[q]) \cup {i[q]}
    BY <1>5, ToSetAppend
  <2> QED BY <1>4, <2>1, Zenon
<1> QED BY <1>3, <1>6 DEF Covered

(* The parent's sums and counts stay right while the workers go on.          *)
LEMMA PollKept ==
  ASSUME SetupInv, PollInv, UNCHANGED <<parent, poll, types>>,
         \A q \in Procs : Covered(q) => Covered(q)'
  PROVE  PollInv'
<1>1. /\ \A t \in DOMAIN types : Len(types[t].cpus) \in Nat \ {0} /\ Cores(t) = 1 .. Len(types[t].cpus)
      /\ \A t \in DOMAIN types : \A j \in Cores(t) : types[t].cpus[j] \in Procs
      /\ Len(types) \in Nat /\ DOMAIN types = 1 .. Len(types)
  BY TypesFacts
<1>2. \A t \in DOMAIN types : Cores(t)' = Cores(t)
  BY DEF Cores
<1>3. \A t \in DOMAIN types : \A j \in Cores(t) : Covered(types[t].cpus[j]) => Covered(types[t].cpus[j])'
  BY <1>1
<1>4. ASSUME parent = "poll"
      PROVE  /\ poll.type \in DOMAIN types /\ poll.core \in Cores(poll.type)
             /\ \A j \in 1 .. poll.core - 1 : j \in Cores(poll.type)
             /\ \A t \in 1 .. poll.type - 1 : t \in DOMAIN types
  <2>1. poll.type \in DOMAIN types /\ poll.core \in Cores(poll.type)
    BY <1>4 DEF PollInv
  <2> QED BY <1>1, <2>1
<1>5. CASE parent = "poll"
  <2> DEFINE begin == Span(Len(types[poll.type].cpus), poll.core).start
  <2>1. /\ poll = [type |-> poll.type, core |-> poll.core, sum |-> poll.sum, finished |-> poll.finished]
        /\ poll.sum \in 0 .. begin
        /\ poll.sum = begin => \A j \in 1 .. poll.core - 1 : Covered(types[poll.type].cpus[j])
        /\ poll.finished \in 0 .. poll.type - 1
        /\ poll.finished = poll.type - 1 =>
             \A t \in 1 .. poll.type - 1 : \A j \in Cores(t) : Covered(types[t].cpus[j])
    BY <1>5 DEF PollInv
  <2>2. poll.sum = begin => \A j \in 1 .. poll.core - 1 : Covered(types[poll.type].cpus[j])'
    BY <1>3, <1>4, <1>5, <2>1, Zenon
  <2>3. poll.finished = poll.type - 1 =>
          \A t \in 1 .. poll.type - 1 : \A j \in Cores(t) : Covered(types[t].cpus[j])'
    BY <1>3, <1>4, <1>5, <2>1, Zenon
  <2> HIDE DEF begin
  <2>4. begin' = begin
    BY DEF begin
  <2>5. \A t \in 1 .. poll.type - 1 : Cores(t)' = Cores(t)
    BY <1>2, <1>4, <1>5
  <2>6. poll.type \in DOMAIN types' /\ poll.core \in Cores(poll.type)'
    BY <1>2, <1>4, <1>5
  <2> QED BY <1>5, <2>1, <2>2, <2>3, <2>5, <2>6 DEF PollInv, begin
<1>6. CASE parent = "announced"
  <2>1. \A t \in DOMAIN types : \A j \in Cores(t) : Covered(types[t].cpus[j])'
    BY <1>3, <1>6 DEF PollInv
  <2> QED BY <1>2, <1>6, <2>1 DEF PollInv
<1>7. CASE parent \notin {"poll", "announced"}
  BY <1>7 DEF PollInv
<1> QED BY <1>5, <1>6, <1>7

(* A step of a worker.                                                       *)
LEMMA WorkerStep ==
  ASSUME IInv, NEW p \in Procs, Worker(p) \/ PipeFails(p)
  PROVE  IInv'
<1>1. SetupInv /\ Shape /\ ForkInv /\ PollInv /\ \A q \in Procs : Local(q)
  BY DEF IInv
<1>2. OnlyOwn(p)
  BY <1>1, WorkerFrame
<1>3. /\ UNCHANGED <<machine, ranges, cpus, types, parent, todo, poll, span>>
      /\ at[p] # "none" /\ at'[p] # "none"
      /\ \A q \in Procs : q # p => at'[q] = at[q]
  BY <1>2 DEF OnlyOwn, setup, loop
<1>4. Procs' = Procs
  BY <1>3 DEF Procs
<1>5. \A q \in Procs : at'[q] = "none" <=> at[q] = "none"
  BY <1>3
<1>6. SetupInv'
  BY <1>1, <1>3, <1>4, <1>5 DEF SetupInv
<1>7. Shape'
  BY <1>1, <1>2, <1>3, <1>4 DEF Shape, OnlyOwn
<1>8. ForkInv'
  <2>1. \A t \in DOMAIN types : \A j \in Cores(t) : types[t].cpus[j] \in Procs
    BY <1>1, TypesFacts
  <2>2. \A t : Cores(t)' = Cores(t)
    BY <1>3 DEF Cores
  <2>3. \A t, j : Forked(t, j)' <=> Forked(t, j)
    BY <1>3 DEF Forked
  <2>4. ASSUME NEW t \in DOMAIN types, NEW j \in Cores(t)
        PROVE  LET q == types[t].cpus[j]
               IN  IF Forked(t, j) THEN at'[q] # "none" /\ span[q] = Span(Len(types[t].cpus), j)
                   ELSE at'[q] = "none"
    <3>1. types[t].cpus[j] \in Procs
      BY <2>1
    <3> QED BY <1>1, <1>5, <3>1 DEF ForkInv
  <2> QED BY <1>1, <1>3, <2>2, <2>3, <2>4 DEF ForkInv
<1>9. PollInv'
  BY <1>1, <1>3, WorkerCovered, PollKept
<1>10. ASSUME NEW q \in Procs PROVE Local(q)'
  <2>1. CASE q = p
    BY <2>1, WorkerLocal
  <2>2. CASE q # p
    BY <1>1, <1>2, <1>3, <2>2, LocalKept DEF OnlyOwn
  <2> QED BY <2>1, <2>2
<1> QED BY <1>4, <1>6, <1>7, <1>8, <1>9, <1>10 DEF IInv

-----------------------------------------------------------------------------
(* The steps of the parent preserve the invariant.                           *)

(* Of a processor without a worker.                                          *)
LEMMA IdleLocal ==
  ASSUME NEW q, Local(q), at[q] = "none", span'[q] = span[q], at'[q] = at[q], i'[q] = i[q],
         index'[q] = index[q], tries'[q] = tries[q], progress'[q] = progress[q],
         executed'[q] = executed[q], archive'[q] = archive[q]
  PROVE  Local(q)'
<1>1. TypesAt(q) /\ ExecutedBy(q) /\ ArchivedBy(q) /\ ReportedBy(q)
  BY DEF Local
<1>2. executed[q] = <<>> /\ ToSet(executed[q]) = {} /\ progress[q] = 0
  BY <1>1 DEF TypesAt, ToSet
<1>3. TypesAt(q)'
  BY <1>1 DEF TypesAt
<1>4. PlaceAt(q)'
  BY DEF PlaceAt
<1>5. ExecutedBy(q)'
  BY <1>2 DEF ExecutedBy
<1>6. ArchivedBy(q)'
  BY <1>2 DEF ArchivedBy
<1>7. ReportedBy(q)'
  <2>1. span[q].start \in Nat /\ span[q].end \in Nat /\ span[q].start <= span[q].end /\ span[q].end <= Space
    BY <1>1 DEF TypesAt, ReportedBy
  <2>2. 0 = span[q].end - span[q].start => Covered(q)'
    <3>1. 0 = span[q].end - span[q].start => SpanOf(q)' = {}
      BY <2>1 DEF SpanOf
    <3> QED BY <3>1 DEF Covered
  <2>3. 0 <= span[q].end - span[q].start
    BY <2>1
  <2> QED BY <1>2, <2>1, <2>2, <2>3 DEF ReportedBy
<1> QED BY <1>3, <1>4, <1>5, <1>6, <1>7 DEF Local

LEMMA StartStep ==
  ASSUME IInv, Start
  PROVE  IInv'
<1>1. SetupInv /\ Shape /\ ForkInv /\ PollInv /\ \A q \in Procs : Local(q)
  BY DEF IInv
<1>2. /\ parent = "start"
      /\ \/ ranges' \in RangeLists /\ parent' = "fork" /\ DOMAIN cpus # {}
         \/ parent' = "exit" /\ UNCHANGED ranges
      /\ UNCHANGED <<machine, cpus, types, todo, poll, at, span, i, index, tries, progress, executed, archive>>
  BY DEF Start, early_init, get_current_cpu_info, decompress_ranges_or_die, worker
<1>3. Procs' = Procs /\ \A q \in Procs : at[q] = "none"
  BY <1>1, <1>2 DEF Procs, SetupInv
<1>4. SetupInv'
  BY <1>1, <1>2, <1>3 DEF SetupInv
<1>5. Shape'
  BY <1>1, <1>2, <1>3 DEF Shape
<1>6. ForkInv'
  <2>1. /\ \A t \in DOMAIN types : \A j \in Cores(t) : types[t].cpus[j] \in Procs
        /\ \A t \in DOMAIN types : Len(types[t].cpus) \in Nat \ {0} /\ Cores(t) = 1 .. Len(types[t].cpus)
        /\ Len(types) \in Nat /\ DOMAIN types = 1 .. Len(types)
        /\ DOMAIN cpus # {} => 1 \in DOMAIN types
    BY <1>1, TypesFacts
  <2>2. \A t : Cores(t)' = Cores(t)
    BY <1>2 DEF Cores
  <2>3. todo = [type |-> 1, core |-> 1]
    BY <1>1, <1>2 DEF ForkInv, ForkStart
  <2>4. ASSUME NEW t \in DOMAIN types, NEW j \in Cores(t) PROVE ~Forked(t, j)'
    BY <1>2, <2>1, <2>3 DEF Forked, ForkStart
  <2>5. \A t \in DOMAIN types : \A j \in Cores(t) : at'[types[t].cpus[j]] = "none"
    BY <1>2, <1>3, <2>1
  <2>6. parent' = "fork" => 1 \in DOMAIN types /\ 1 \in Cores(1)
    BY <1>2, <2>1
  <2> QED BY <1>2, <2>2, <2>3, <2>4, <2>5, <2>6 DEF ForkInv, ForkStart
<1>7. PollInv'
  BY <1>1, <1>2 DEF PollInv
<1>8. ASSUME NEW q \in Procs PROVE Local(q)'
  BY <1>1, <1>2, <1>3, IdleLocal
<1> QED BY <1>3, <1>4, <1>5, <1>6, <1>7, <1>8 DEF IInv

LEMMA OpenStatusStep ==
  ASSUME IInv, OpenStatus
  PROVE  IInv'
<1>1. SetupInv /\ Shape /\ ForkInv /\ PollInv /\ \A q \in Procs : Local(q)
  BY DEF IInv
<1>2. /\ parent = "status" /\ parent' \in {"poll", "exit"}
      /\ UNCHANGED <<machine, ranges, cpus, types, todo, poll, at, span, i, index, tries, progress, executed, archive>>
  BY DEF OpenStatus, setup, worker
<1>3. Procs' = Procs
  BY <1>2 DEF Procs
<1>4. SetupInv'
  BY <1>1, <1>2, <1>3 DEF SetupInv
<1>5. Shape'
  BY <1>1, <1>2, <1>3 DEF Shape
<1>t. /\ \A t \in DOMAIN types : Len(types[t].cpus) \in Nat \ {0} /\ Cores(t) = 1 .. Len(types[t].cpus)
      /\ Len(types) \in Nat /\ DOMAIN types = 1 .. Len(types)
  BY <1>1, TypesFacts
<1>c. \A t : Cores(t)' = Cores(t)
  BY <1>2 DEF Cores
<1>6. ForkInv'
  <2>1. \A t, j : Forked(t, j)' /\ Forked(t, j)
    BY <1>1, <1>2 DEF Forked, ForkInv
  <2> QED BY <1>1, <1>2, <1>c, <2>1 DEF ForkInv
<1>7. PollInv'
  <2>1. poll = [type |-> 1, core |-> 1, sum |-> 0, finished |-> 0] /\ 1 \in DOMAIN types
    BY <1>1, <1>2 DEF PollInv, PollStart, ForkInv
  <2>2. 1 \in Cores(1) /\ Len(types[1].cpus) \in Nat \ {0}
    BY <1>t, <2>1
  <2>3. Span(Len(types[1].cpus), 1).start = 0
    BY <2>2, SpanProperties
  <2> QED BY <1>2, <1>c, <2>1, <2>2, <2>3 DEF PollInv
<1>8. ASSUME NEW q \in Procs PROVE Local(q)'
  BY <1>1, <1>2, LocalKept
<1> QED BY <1>3, <1>4, <1>5, <1>6, <1>7, <1>8 DEF IInv

(* A worker is forked, with the next core and its span.                      *)
LEMMA ForkStep ==
  ASSUME IInv, Fork
  PROVE  IInv'
<1> DEFINE T == todo.type
           J == todo.core
           c == Len(types[T].cpus)
           p == types[T].cpus[J]
<1>1. SetupInv /\ Shape /\ ForkInv /\ PollInv /\ \A q \in Procs : Local(q)
  BY DEF IInv
<1>2. /\ parent = "fork"
      /\ parent' = IF todo'.type > Len(types) THEN "status" ELSE "fork"
      /\ UNCHANGED <<machine, ranges, cpus, types, poll, i, index, tries, progress, executed, archive>>
      /\ todo' = IF J < c THEN [todo EXCEPT !.core = @ + 1] ELSE [type |-> T + 1, core |-> 1]
      /\ \E w \in {"pin", "dead"} : at' = [at EXCEPT ![p] = w]
      /\ span' = [span EXCEPT ![p] = Span(c, J)]
  BY DEF Fork, setup
<1>3. Procs' = Procs /\ \A t : Cores(t)' = Cores(t)
  BY <1>2 DEF Procs, Cores
<1>4. /\ todo = [type |-> T, core |-> J] /\ T \in DOMAIN types /\ J \in Cores(T) /\ 1 \in DOMAIN types
  BY <1>1, <1>2 DEF ForkInv
<1>5. /\ Len(types) \in Nat /\ DOMAIN types = 1 .. Len(types)
      /\ \A t \in DOMAIN types : Len(types[t].cpus) \in Nat \ {0} /\ Cores(t) = 1 .. Len(types[t].cpus)
      /\ \A t \in DOMAIN types : \A j \in Cores(t) : types[t].cpus[j] \in Procs
      /\ \A t, u \in DOMAIN types : \A j \in Cores(t), l \in Cores(u) :
           types[t].cpus[j] = types[u].cpus[l] => t = u /\ j = l
  BY <1>1, TypesFacts
<1>6. p \in Procs /\ c \in Nat \ {0} /\ J \in 1 .. c /\ T \in 1 .. Len(types)
  BY <1>4, <1>5
<1>7. at[p] = "none"
  <2>1. ~Forked(T, J)
    BY <1>2, <1>5, <1>6 DEF Forked
  <2> QED BY <1>1, <1>4, <2>1 DEF ForkInv
<1>8. \/ J < c /\ todo' = [type |-> T, core |-> J + 1] /\ parent' = "fork"
      \/ J = c /\ T < Len(types) /\ todo' = [type |-> T + 1, core |-> 1] /\ parent' = "fork"
      \/ J = c /\ T = Len(types) /\ todo' = [type |-> T + 1, core |-> 1] /\ parent' = "status"
  <2>1. CASE J < c
    <3>1. todo' = [type |-> T, core |-> J + 1]
      BY <1>2, <1>4, <2>1
    <3>2. todo'.type = T /\ ~(T > Len(types))
      BY <1>5, <1>6, <3>1
    <3> HIDE DEF T, J, c
    <3> QED BY <1>2, <2>1, <3>1, <3>2
  <2>2. CASE J = c
    BY <1>2, <1>5, <1>6, <2>2
  <2> QED BY <1>6, <2>1, <2>2
<1>9. /\ at' \in [Procs -> Places] /\ DOMAIN span' = Procs
      /\ at'[p] \in {"pin", "dead"} /\ span'[p] = Span(c, J)
      /\ \A q \in Procs : q # p => at'[q] = at[q] /\ span'[q] = span[q]
  BY <1>1, <1>2, <1>6 DEF Shape, Places
<1> HIDE DEF T, J, c, p
<1>10. SetupInv'
  BY <1>1, <1>2, <1>3, <1>8 DEF SetupInv
<1>11. Shape'
  BY <1>1, <1>2, <1>3, <1>8, <1>9 DEF Shape
<1>12. ForkInv'
  <2>1. ASSUME NEW t \in DOMAIN types, NEW j \in Cores(t)
        PROVE  Forked(t, j)' <=> Forked(t, j) \/ (t = T /\ j = J)
    <3>1. t \in 1 .. Len(types) /\ j \in Nat /\ (t = T => j \in 1 .. c)
      BY <1>5 DEF c
    <3>2. Forked(t, j) <=> t < T \/ (t = T /\ j < J)
      BY <1>2 DEF Forked, T, J
    <3>3. Forked(t, j)' <=> \/ parent' = "status"
                            \/ parent' = "fork" /\ (t < todo'.type \/ (t = todo'.type /\ j < todo'.core))
      BY <1>8 DEF Forked
    <3>4. CASE J < c /\ todo' = [type |-> T, core |-> J + 1] /\ parent' = "fork"
      BY <1>6, <3>1, <3>2, <3>3, <3>4
    <3>5. CASE J = c /\ T < Len(types) /\ todo' = [type |-> T + 1, core |-> 1] /\ parent' = "fork"
      <4>1. j >= 1
        BY <1>5
      <4> QED BY <1>6, <3>1, <3>2, <3>3, <3>5, <4>1
    <3>6. CASE J = c /\ T = Len(types) /\ parent' = "status"
      BY <1>5, <1>6, <3>1, <3>2, <3>3, <3>6
    <3> QED BY <1>8, <3>4, <3>5, <3>6
  <2>2. ASSUME NEW t \in DOMAIN types, NEW j \in Cores(t)
        PROVE  LET q == types[t].cpus[j]
               IN  IF Forked(t, j)' THEN at'[q] # "none" /\ span'[q] = Span(Len(types[t].cpus), j)
                   ELSE at'[q] = "none"
    <3> DEFINE q == types[t].cpus[j]
    <3>1. q \in Procs
      BY <1>5
    <3>2. CASE t = T /\ j = J
      BY <1>9, <2>1, <3>2 DEF p, c
    <3>3. CASE ~(t = T /\ j = J)
      <4>1. q # p
        BY <1>4, <1>5, <3>3 DEF p, T, J
      <4>2. IF Forked(t, j) THEN at[q] # "none" /\ span[q] = Span(Len(types[t].cpus), j)
            ELSE at[q] = "none"
        BY <1>1 DEF ForkInv
      <4> QED BY <1>9, <2>1, <3>1, <3>3, <4>1, <4>2
    <3> QED BY <3>2, <3>3
  <2>3. parent' = "fork" => /\ todo' = [type |-> todo'.type, core |-> todo'.core]
                            /\ todo'.type \in DOMAIN types /\ todo'.core \in Cores(todo'.type)
    <3>1. CASE J < c /\ todo' = [type |-> T, core |-> J + 1]
      BY <1>4, <1>5, <1>6, <3>1 DEF T, c
    <3>2. CASE T < Len(types) /\ todo' = [type |-> T + 1, core |-> 1]
      <4>1. T + 1 \in DOMAIN types
        BY <1>5, <1>6, <3>2
      <4>2. 1 \in Cores(T + 1)
        BY <1>5, <4>1
      <4> QED BY <3>2, <4>1, <4>2
    <3>3. CASE parent' = "status"
      BY <3>3
    <3> QED BY <1>8, <3>1, <3>2, <3>3
  <2>4. parent' \in {"fork", "status"} /\ (parent' = "status" => todo' # ForkStart)
    BY <1>6, <1>8 DEF ForkStart
  <2> QED BY <1>2, <1>3, <1>4, <2>2, <2>3, <2>4 DEF ForkInv
<1>13. PollInv'
  BY <1>1, <1>2, <1>8 DEF PollInv
<1>14. ASSUME NEW q \in Procs PROVE Local(q)'
  <2>1. CASE q # p
    BY <1>1, <1>2, <1>9, <2>1, LocalKept
  <2>2. CASE q = p
    <3>1. TypesAt(q) /\ executed[q] = <<>> /\ ToSet(executed[q]) = {} /\ progress[q] = 0
      <4>1. TypesAt(q) /\ at[q] = "none"
        BY <1>1, <1>7, <2>2 DEF Local
      <4>2. executed[q] = <<>> /\ progress[q] = 0
        BY <4>1 DEF TypesAt
      <4> QED BY <4>1, <4>2 DEF ToSet
    <3>a. at'[q] \in {"pin", "dead"} /\ span'[q] = Span(c, J)
      BY <1>9, <2>2, Zenon
    <3>b. UNCHANGED <<progress, tries, i, index, executed, archive>>
      BY <1>2
    <3>2. /\ Span(c, J) \in [start : Nat, end : Nat] /\ Span(c, J).start <= Span(c, J).end
          /\ Span(c, J).end <= Space
      BY <1>6, SpanProperties
    <3>3. Span(c, J).start \in Nat /\ Span(c, J).end \in Nat
      BY <3>2
    <3>4. TypesAt(q)'
      BY <3>b, <3>a, <3>1, <3>2 DEF TypesAt
    <3>5. PlaceAt(q)'
      BY <3>a DEF PlaceAt
    <3>6. ExecutedBy(q)'
      BY <3>b, <3>a, <3>1 DEF ExecutedBy
    <3>7. ArchivedBy(q)'
      BY <3>b, <3>1 DEF ArchivedBy
    <3>8. ReportedBy(q)'
      <4>1. 0 = Span(c, J).end - Span(c, J).start => SpanOf(q)' = {}
        BY <3>a, <3>2, <3>3 DEF SpanOf
      <4>2. 0 = Span(c, J).end - Span(c, J).start => Covered(q)'
        BY <4>1 DEF Covered
      <4>3. 0 <= Span(c, J).end - Span(c, J).start
        BY <3>2, <3>3
      <4> QED BY <3>b, <3>a, <3>1, <3>2, <4>2, <4>3 DEF ReportedBy
    <3> QED BY <3>4, <3>5, <3>6, <3>7, <3>8 DEF Local
  <2> QED BY <2>1, <2>2
<1> QED BY <1>3, <1>10, <1>11, <1>12, <1>13, <1>14 DEF IInv

(* The parent's sum and count say what they should at core k of type t.      *)
SumsRight(t, k, sum, fin) ==
  /\ t \in DOMAIN types /\ k \in Cores(t)
  /\ sum \in 0 .. Span(Len(types[t].cpus), k).start
  /\ sum = Span(Len(types[t].cpus), k).start => \A j \in 1 .. k - 1 : Covered(types[t].cpus[j])
  /\ fin \in 0 .. t - 1
  /\ fin = t - 1 => \A u \in 1 .. t - 1 : \A j \in Cores(u) : Covered(types[u].cpus[j])

LEMMA PollResult ==
  ASSUME NEW t, NEW k, NEW sum, NEW fin, SumsRight(t, k, sum, fin), parent' = "poll",
         poll' = [type |-> t, core |-> k, sum |-> sum, finished |-> fin],
         UNCHANGED <<types, ranges, span, executed>>
  PROVE  PollInv'
<1>1. poll'.type = t /\ poll'.core = k /\ poll'.sum = sum /\ poll'.finished = fin
  OBVIOUS
<1>2. \A u : Cores(u)' = Cores(u)
  BY DEF Cores
<1>3. \A u, j : Covered(types[u].cpus[j])' <=> Covered(types[u].cpus[j])
  BY DEF Covered, UndefinedInstrs, SpanOf
<1>4. \A j : Covered(types[poll.type].cpus[j])' <=> Covered(types[t].cpus[j])
  BY <1>1 DEF Covered, UndefinedInstrs, SpanOf
<1> QED BY <1>1, <1>2, <1>3, <1>4 DEF PollInv, SumsRight

(* The progress of one more core is added.                                   *)
LEMMA PollStep ==
  ASSUME IInv, Poll
  PROVE  IInv'
<1>a. PICK T, J : T = poll.type /\ J = poll.core
  OBVIOUS
<1>b. PICK c, p : c = Len(types[T].cpus) /\ p = types[T].cpus[J]
  BY Zenon
<1>c. PICK s : s = Span(c, J)
  OBVIOUS
<1>d. PICK sum : sum = poll.sum + progress[p]
  OBVIOUS
<1>e. PICK finished : finished = poll.finished + (IF sum >= Space THEN 1 ELSE 0)
  OBVIOUS
<1>1. SetupInv /\ Shape /\ ForkInv /\ PollInv /\ \A q \in Procs : Local(q)
  BY DEF IInv
<1>2. /\ parent = "poll"
      /\ UNCHANGED <<machine, ranges, cpus, types, todo, at, span, i, index, tries, progress, executed, archive>>
      /\ \/ /\ J < c /\ parent' = "poll"
            /\ poll' = [poll EXCEPT !.core = @ + 1, !.sum = sum]
         \/ /\ ~(J < c) /\ T < Len(types) /\ parent' = "poll"
            /\ poll' = [type |-> T + 1, core |-> 1, sum |-> 0, finished |-> finished]
         \/ /\ ~(J < c) /\ ~(T < Len(types)) /\ poll' = PollStart
            /\ parent' = IF finished = Len(types) THEN "announced" ELSE "poll"
  BY <1>a, <1>b, <1>d, <1>e, Zenon DEF Poll, setup, worker
<1>3. Procs' = Procs /\ \A t : Cores(t)' = Cores(t)
  BY <1>2 DEF Procs, Cores
<1>4. /\ Len(types) \in Nat /\ DOMAIN types = 1 .. Len(types)
      /\ \A t \in DOMAIN types : Len(types[t].cpus) \in Nat \ {0} /\ Cores(t) = 1 .. Len(types[t].cpus)
      /\ \A t \in DOMAIN types : \A j \in Cores(t) : types[t].cpus[j] \in Procs
  BY <1>1, TypesFacts
<1>5. /\ poll = [type |-> T, core |-> J, sum |-> poll.sum, finished |-> poll.finished]
      /\ T \in DOMAIN types /\ J \in Cores(T)
      /\ poll.sum \in 0 .. s.start
      /\ poll.sum = s.start => \A j \in 1 .. J - 1 : Covered(types[T].cpus[j])
      /\ poll.finished \in 0 .. T - 1
      /\ poll.finished = T - 1 => \A t \in 1 .. T - 1 : \A j \in Cores(t) : Covered(types[t].cpus[j])
  BY <1>1, <1>2, <1>a, <1>b, <1>c DEF PollInv
<1>6. p \in Procs /\ c \in Nat \ {0} /\ J \in 1 .. c /\ T \in 1 .. Len(types) /\ Cores(T) = 1 .. c
  BY <1>4, <1>5, <1>b
<1>7. /\ s \in [start : Nat, end : Nat] /\ s.start <= s.end /\ s.end <= Space
      /\ J < c => s.end = Span(c, J + 1).start
      /\ J = c => s.end = Space
  BY <1>6, <1>c, SpanProperties
<1>8. span[p] = s
  <2>1. Forked(T, J)
    BY <1>2 DEF Forked
  <2> QED BY <1>1, <1>5, <1>b, <1>c, <2>1 DEF ForkInv
<1>9. progress[p] \in 0 .. s.end - s.start /\ (progress[p] = s.end - s.start => Covered(p))
  <2>1. TypesAt(p) /\ ReportedBy(p)
    BY <1>1, <1>6 DEF Local
  <2>2. s.start \in Nat /\ s.end \in Nat /\ Space \in Nat
    BY <1>7, UndocEnumAssumption
  <2>3. /\ progress[p] \in Nat /\ progress[p] <= s.end - s.start
        /\ progress[p] = s.end - s.start => Covered(p)
    BY <1>8, <2>1, <2>2 DEF TypesAt, ReportedBy
  <2> QED BY <2>2, <2>3
<1>10. sum \in 0 .. s.end /\ (sum = s.end => poll.sum = s.start /\ progress[p] = s.end - s.start)
  <2>1. s.start \in Nat /\ s.end \in Nat
    BY <1>7
  <2> QED BY <1>5, <1>9, <1>d, <2>1
<1>11. sum = s.end => \A j \in 1 .. J : Covered(types[T].cpus[j])
  <2> SUFFICES ASSUME sum = s.end, NEW j \in 1 .. J PROVE Covered(types[T].cpus[j])
    OBVIOUS
  <2>1. CASE j = J
    BY <1>9, <1>10, <1>b, <2>1
  <2>2. CASE j # J
    <3>1. j \in 1 .. J - 1
      BY <1>6, <2>2
    <3> QED BY <1>5, <1>10, <3>1
  <2> QED BY <2>1, <2>2
<1>12. J = c => /\ finished \in 0 .. T
                /\ finished = T => \A t \in 1 .. T : \A j \in Cores(t) : Covered(types[t].cpus[j])
  <2> SUFFICES ASSUME J = c
               PROVE  /\ finished \in 0 .. T
                      /\ finished = T => \A t \in 1 .. T : \A j \in Cores(t) : Covered(types[t].cpus[j])
    OBVIOUS
  <2>0. Space \in Nat
    BY UndocEnumAssumption
  <2>1. sum >= Space => sum = s.end
    <3>1. s.end = Space /\ sum \in 0 .. s.end
      BY <1>7, <1>10
    <3> QED BY <2>0, <3>1
  <2>2. /\ finished \in 0 .. T
        /\ finished = T => poll.finished = T - 1 /\ sum >= Space
    BY <1>5, <1>6, <1>e
  <2>3. ASSUME finished = T, NEW t \in 1 .. T, NEW j \in Cores(t) PROVE Covered(types[t].cpus[j])
    <3>1. CASE t = T
      <4>1. j \in 1 .. J
        BY <1>6, <2>3, <3>1
      <4> QED BY <1>11, <2>1, <2>2, <2>3, <3>1, <4>1
    <3>2. CASE t # T
      <4>1. t \in 1 .. T - 1
        BY <1>6, <3>2
      <4> QED BY <1>5, <2>2, <2>3, <4>1
    <3> QED BY <3>1, <3>2
  <2> QED BY <2>2, <2>3
<1>13. \A q : Covered(q)' <=> Covered(q)
  BY <1>2 DEF Covered, UndefinedInstrs, SpanOf
<1>14. SetupInv'
  BY <1>1, <1>2, <1>3 DEF SetupInv
<1>15. Shape'
  BY <1>1, <1>2, <1>3 DEF Shape
<1>16. ForkInv'
  <2>1. \A t, j : Forked(t, j)' /\ Forked(t, j)
    BY <1>2 DEF Forked
  <2> QED BY <1>1, <1>2, <1>3, <2>1 DEF ForkInv
<1>17. PollInv'
  <2>1. CASE J < c /\ parent' = "poll" /\ poll' = [poll EXCEPT !.core = @ + 1, !.sum = sum]
    <3>1. poll' = [type |-> T, core |-> J + 1, sum |-> sum, finished |-> poll.finished]
      BY <1>5, <1>a, <2>1
    <3>2. J + 1 \in Cores(T) /\ (J + 1) - 1 = J
      BY <1>6, <2>1
    <3>3. Span(Len(types[T].cpus), J + 1).start = s.end
      BY <1>7, <1>b, <2>1
    <3>4. PICK fin : fin = poll.finished
      OBVIOUS
    <3>5. sum = s.end => \A j \in 1 .. (J + 1) - 1 : Covered(types[T].cpus[j])
      BY <1>11, <3>2
    <3>6. /\ fin \in 0 .. T - 1
          /\ fin = T - 1 => \A t \in 1 .. T - 1 : \A j \in Cores(t) : Covered(types[t].cpus[j])
      BY <1>5, <3>4
    <3>7. UNCHANGED <<types, ranges, span, executed>> /\ T \in DOMAIN types
      BY <1>2, <1>5
    <3>8. /\ sum \in 0 .. Span(Len(types[T].cpus), J + 1).start
          /\ sum = Span(Len(types[T].cpus), J + 1).start =>
               \A j \in 1 .. (J + 1) - 1 : Covered(types[T].cpus[j])
      BY <1>10, <3>3, <3>5
    <3>9. poll' = [type |-> T, core |-> J + 1, sum |-> sum, finished |-> fin] /\ parent' = "poll"
      BY <2>1, <3>1, <3>4
    <3>10. SumsRight(T, J + 1, sum, fin)
      BY <3>2, <3>6, <3>7, <3>8 DEF SumsRight
    <3> QED BY <3>7, <3>9, <3>10, PollResult
  <2>2. CASE /\ ~(J < c) /\ T < Len(types) /\ parent' = "poll"
             /\ poll' = [type |-> T + 1, core |-> 1, sum |-> 0, finished |-> finished]
    <3>1. T + 1 \in DOMAIN types /\ (T + 1) - 1 = T
      BY <1>4, <1>6, <2>2
    <3>2. 1 \in Cores(T + 1) /\ Len(types[T + 1].cpus) \in Nat \ {0}
      BY <1>4, <3>1
    <3>3. Span(Len(types[T + 1].cpus), 1).start = 0
      BY <3>2, SpanProperties
    <3>4. /\ finished \in 0 .. T
          /\ finished = T => \A t \in 1 .. T : \A j \in Cores(t) : Covered(types[t].cpus[j])
      BY <1>6, <1>12, <2>2
    <3>5. \A j \in 1 .. 1 - 1 : Covered(types[T + 1].cpus[j])
      OBVIOUS
    <3>6. /\ finished \in 0 .. (T + 1) - 1
          /\ finished = (T + 1) - 1 =>
               \A t \in 1 .. (T + 1) - 1 : \A j \in Cores(t) : Covered(types[t].cpus[j])
      BY <3>1, <3>4
    <3>7. UNCHANGED <<types, ranges, span, executed>> /\ 0 \in 0 .. 0
      BY <1>2
    <3>8. /\ 0 \in 0 .. Span(Len(types[T + 1].cpus), 1).start
          /\ 0 = Span(Len(types[T + 1].cpus), 1).start =>
               \A j \in 1 .. 1 - 1 : Covered(types[T + 1].cpus[j])
      BY <3>3, <3>5
    <3>9. SumsRight(T + 1, 1, 0, finished)
      BY <3>1, <3>2, <3>6, <3>8 DEF SumsRight
    <3> QED BY <2>2, <3>7, <3>9, PollResult
  <2>3. CASE /\ ~(J < c) /\ ~(T < Len(types)) /\ poll' = PollStart
             /\ parent' = IF finished = Len(types) THEN "announced" ELSE "poll"
    <3>1. T = Len(types) /\ J = c
      <4>1. ~(J < c) /\ ~(T < Len(types))
        BY <2>3
      <4>2. T \in 1 .. Len(types) /\ Len(types) \in Nat /\ J \in 1 .. c /\ c \in Nat
        BY <1>4, <1>6
      <4> QED BY <4>1, <4>2
    <3>2. CASE finished = Len(types)
      <4>1. \A t \in DOMAIN types : \A j \in Cores(t) : Covered(types[t].cpus[j])
        BY <1>4, <1>12, <3>1, <3>2
      <4> QED BY <1>2, <1>3, <1>13, <2>3, <3>2, <4>1 DEF PollInv
    <3>3. CASE finished # Len(types)
      <4>1. 1 \in DOMAIN types
        BY <1>4, <1>6
      <4>2. 1 \in Cores(1) /\ Len(types[1].cpus) \in Nat \ {0}
        BY <1>4, <4>1
      <4>3. Span(Len(types[1].cpus), 1).start = 0
        BY <4>2, SpanProperties
      <4>4. /\ poll' = [type |-> 1, core |-> 1, sum |-> 0, finished |-> 0] /\ parent' = "poll"
        BY <2>3, <3>3 DEF PollStart
      <4> QED BY <1>2, <1>3, <4>1, <4>2, <4>3, <4>4 DEF PollInv
    <3> QED BY <3>2, <3>3
  <2> QED BY <1>2, <2>1, <2>2, <2>3
<1>18. ASSUME NEW q \in Procs PROVE Local(q)'
  BY <1>1, <1>2, LocalKept
<1> QED BY <1>3, <1>14, <1>15, <1>16, <1>17, <1>18 DEF IInv

-----------------------------------------------------------------------------
(* The invariant holds, and what follows from it.                            *)

(* Before anything happens.                                                  *)
LEMMA InitInv == Init => IInv
<1> SUFFICES ASSUME Init PROVE IInv
  OBVIOUS
<1>1. /\ machine \in Machines /\ cpus = parse_cpuinfo(machine) /\ types = group_core_types(cpus)
      /\ parent = "start" /\ todo = ForkStart /\ poll = PollStart
  BY DEF Init
<1>2. /\ at = [p \in Procs |-> "none"] /\ span = [p \in Procs |-> [start |-> 0, end |-> 0]]
      /\ i = [p \in Procs |-> 0] /\ index = [p \in Procs |-> 0] /\ tries = [p \in Procs |-> 0]
      /\ progress = [p \in Procs |-> 0] /\ executed = [p \in Procs |-> <<>>]
      /\ archive = [p \in Procs |-> {}]
  BY DEF Init, Each, Procs
<1>3. SetupInv
  BY <1>1, <1>2 DEF SetupInv
<1>4. Shape
  BY <1>1, <1>2 DEF Shape, Places
<1>5. ForkInv
  <2>1. \A t \in DOMAIN types : \A j \in Cores(t) : types[t].cpus[j] \in Procs
    BY <1>3, TypesFacts
  <2>2. \A t, j : ~Forked(t, j)
    BY <1>1 DEF Forked
  <2> QED BY <1>1, <1>2, <2>1, <2>2 DEF ForkInv
<1>6. PollInv
  BY <1>1 DEF PollInv
<1>7. ASSUME NEW p \in Procs PROVE Local(p)
  <2>1. /\ at[p] = "none" /\ span[p] = [start |-> 0, end |-> 0] /\ i[p] = 0 /\ index[p] = 0
        /\ tries[p] = 0 /\ progress[p] = 0 /\ executed[p] = <<>> /\ archive[p] = {}
    BY <1>2
  <2>2. Space \in Nat \ {0} /\ Max({PinTries, MaxRuns}) \in Nat \ {0}
    BY UndocEnumAssumption, CpuInfoAssumption, MaxOfTwo
  <2>3. ToSet(executed[p]) = {}
    BY <2>1 DEF ToSet
  <2>4. TypesAt(p)
    BY <2>1, <2>2 DEF TypesAt
  <2>5. PlaceAt(p)
    BY <2>1 DEF PlaceAt
  <2>6. ExecutedBy(p)
    BY <2>1, <2>3 DEF ExecutedBy
  <2>7. ArchivedBy(p)
    BY <2>3 DEF ArchivedBy
  <2>8. ReportedBy(p)
    <3>1. SpanOf(p) = {}
      BY <2>1 DEF SpanOf
    <3>2. Covered(p)
      BY <3>1 DEF Covered
    <3> QED BY <2>1, <2>2, <3>2 DEF ReportedBy
  <2> QED BY <2>4, <2>5, <2>6, <2>7, <2>8 DEF Local
<1> QED BY <1>3, <1>4, <1>5, <1>6, <1>7 DEF IInv

(* Nothing happens.                                                          *)
LEMMA StutterStep ==
  ASSUME IInv, UNCHANGED vars
  PROVE  IInv'
<1>1. SetupInv /\ Shape /\ ForkInv /\ PollInv /\ \A q \in Procs : Local(q)
  BY DEF IInv
<1>2. UNCHANGED <<machine, ranges, cpus, types, parent, todo, poll, at, span, i, index, tries, progress,
                  executed, archive>>
  BY DEF vars
<1>3. Procs' = Procs /\ \A t : Cores(t)' = Cores(t)
  BY <1>2 DEF Procs, Cores
<1>4. SetupInv'
  BY <1>1, <1>2, <1>3 DEF SetupInv
<1>5. Shape'
  BY <1>1, <1>2, <1>3 DEF Shape
<1>6. ForkInv'
  <2>1. \A t, j : Forked(t, j)' <=> Forked(t, j)
    BY <1>2 DEF Forked
  <2> QED BY <1>1, <1>2, <1>3, <2>1 DEF ForkInv
<1>7. PollInv'
  <2>1. \A q : Covered(q)' <=> Covered(q)
    BY <1>2 DEF Covered, UndefinedInstrs, SpanOf
  <2> QED BY <1>1, <1>2, <2>1, PollKept
<1>8. ASSUME NEW q \in Procs PROVE Local(q)'
  BY <1>1, <1>2, LocalKept
<1> QED BY <1>3, <1>4, <1>5, <1>6, <1>7, <1>8 DEF IInv

(* IInv is an invariant of undoc-enum.c's parent and workers.                *)
THEOREM EnumInvariant == Spec => []IInv
<1>1. IInv /\ [Next]_vars => IInv'
  <2> SUFFICES ASSUME IInv, [Next]_vars PROVE IInv'
    OBVIOUS
  <2>1. CASE Parent
    BY <2>1, StartStep, ForkStep, OpenStatusStep, PollStep DEF Parent
  <2>2. CASE \E p \in Processors(machine) : Worker(p) \/ PipeFails(p)
    BY <2>2, WorkerStep DEF Procs
  <2>3. CASE UNCHANGED vars
    BY <2>3, StutterStep
  <2> QED BY <2>1, <2>2, <2>3 DEF Next
<1> QED BY <1>1, InitInv, PTL DEF Spec

(* Types: progress fits its 32 bits, an instruction is not tried for ever, what
   is stored was executed, and only undefined instructions are executed.     *)
THEOREM EnumTypes == Spec => []TypeOK
<1>1. IInv => TypeOK
  <2> SUFFICES ASSUME IInv PROVE TypeOK
    OBVIOUS
  <2>1. Shape /\ \A p \in Procs : TypesAt(p) /\ PlaceAt(p)
    BY DEF IInv, Local
  <2> QED BY <2>1 DEF Shape, Places, TypesAt, PlaceAt, TypeOK, Procs
<1> QED BY <1>1, EnumInvariant, PTL

(* The cores of a type: what has been executed on one was of its own span.   *)
LEMMA OwnSpan ==
  ASSUME IInv, NEW t \in DOMAIN types, NEW j \in Cores(t)
  PROVE  LET p == types[t].cpus[j]
             s == Span(Len(types[t].cpus), j)
         IN  /\ p \in Procs /\ Local(p)
             /\ ToSet(executed[p]) \subseteq UndefinedInstrs \cap (s.start .. s.end - 1)
             /\ at[p] # "none" => span[p] = s
<1> DEFINE p == types[t].cpus[j]
           s == Span(Len(types[t].cpus), j)
<1>1. p \in Procs
  BY TypesFacts DEF IInv
<1>2. Local(p)
  BY <1>1 DEF IInv
<1>3. at[p] # "none" => span[p] = s
  BY DEF IInv, ForkInv
<1> HIDE DEF p, s
<1>4. ToSet(executed[p]) \subseteq UndefinedInstrs \cap (s.start .. s.end - 1)
  <2>1. CASE at[p] = "none"
    <3>1. executed[p] = <<>>
      BY <1>2, <2>1 DEF Local, TypesAt
    <3> QED BY <3>1 DEF ToSet
  <2>2. CASE at[p] # "none"
    BY <1>2, <1>3, <2>2 DEF Local, ExecutedBy, SpanOf
  <2> QED BY <2>1, <2>2
<1> QED BY <1>1, <1>2, <1>3, <1>4 DEF p, s

(* A type all of whose cores have covered their spans has executed everything
   that is undefined.                                                        *)
LEMMA TypeCovered ==
  ASSUME IInv, NEW t \in DOMAIN types,
         \A j \in Cores(t) : at[types[t].cpus[j]] # "none" /\ Covered(types[t].cpus[j])
  PROVE  UndefinedInstrs \subseteq ExecutedOn(t)
<1> SUFFICES ASSUME NEW n \in UndefinedInstrs PROVE n \in ExecutedOn(t)
  OBVIOUS
<1> DEFINE c == Len(types[t].cpus)
<1>1. c \in Nat \ {0} /\ Cores(t) = 1 .. c
  BY TypesFacts DEF IInv
<1>2. n \in 0 .. Space - 1
  BY DEF UndefinedInstrs
<1>3. PICK j \in 1 .. c : Span(c, j).start <= n /\ n < Span(c, j).end
  BY <1>1, <1>2, SpanProperties
<1>4. Span(c, j) \in [start : Nat, end : Nat]
  BY <1>1, SpanProperties
<1>5. span[types[t].cpus[j]] = Span(c, j)
  BY <1>1, OwnSpan
<1>6. n \in SpanOf(types[t].cpus[j])
  <2>1. n \in Int /\ Span(c, j).start \in Int /\ Span(c, j).end \in Int
    BY <1>2, <1>4, UndocEnumAssumption
  <2> HIDE DEF c
  <2> QED BY <1>3, <1>5, <2>1 DEF SpanOf
<1>7. n \in ToSet(executed[types[t].cpus[j]])
  BY <1>1, <1>6 DEF Covered
<1> QED BY <1>1, <1>7 DEF ExecutedOn, Cores

(* No instruction is executed twice on a core type.                          *)
LEMMA NoneTwice ==
  ASSUME IInv, NEW t \in DOMAIN types, NEW j \in Cores(t), NEW l \in Cores(t),
         NEW a \in DOMAIN executed[types[t].cpus[j]], NEW b \in DOMAIN executed[types[t].cpus[l]],
         executed[types[t].cpus[j]][a] = executed[types[t].cpus[l]][b]
  PROVE  j = l /\ a = b
<1> DEFINE n == executed[types[t].cpus[j]][a]
           c == Len(types[t].cpus)
<1>1. /\ n \in ToSet(executed[types[t].cpus[j]]) /\ n \in ToSet(executed[types[t].cpus[l]])
  BY DEF ToSet
<1>2. /\ n \in Span(c, j).start .. Span(c, j).end - 1
      /\ n \in Span(c, l).start .. Span(c, l).end - 1
  BY <1>1, OwnSpan
<1>3. c \in Nat \ {0} /\ Cores(t) = 1 .. c
  BY TypesFacts DEF IInv
<1>4. /\ \A k \in 1 .. c : Span(c, k) \in [start : Nat, end : Nat]
      /\ \A k, m \in 1 .. c : k < m => Span(c, k).end <= Span(c, m).start
  BY <1>3, SpanProperties
<1>5. j = l
  <2>1. /\ Span(c, j).start \in Int /\ Span(c, j).end \in Int
        /\ Span(c, l).start \in Int /\ Span(c, l).end \in Int
    BY <1>3, <1>4
  <2> HIDE DEF n, c
  <2>2. CASE j < l
    <3>1. Span(c, j).end <= Span(c, l).start
      BY <1>3, <1>4, <2>2
    <3> QED BY <1>2, <2>1, <3>1
  <2>3. CASE l < j
    <3>1. Span(c, l).end <= Span(c, j).start
      BY <1>3, <1>4, <2>3
    <3> QED BY <1>2, <2>1, <3>1
  <2> QED BY <1>3, <2>2, <2>3
<1>6. a = b
  <2>1. ExecutedBy(types[t].cpus[j])
    BY OwnSpan DEF Local
  <2> QED BY <1>5, <2>1 DEF ExecutedBy
<1> QED BY <1>5, <1>6

(* A worker that has closed its archive has executed what is undefined in its
   span, and stored what it found.                                           *)
LEMMA ClosedCovered ==
  ASSUME IInv, NEW p \in Procs, at[p] = "closed"
  PROVE  /\ Covered(p)
         /\ ToSet(executed[p]) = UndefinedInstrs \cap (span[p].start .. span[p].end - 1)
         /\ \A n \in Valid \cap ToSet(executed[p]) : \E e \in archive[p] : e[1] = n
<1>1. ExecutedBy(p) /\ ArchivedBy(p)
  BY DEF IInv, Local
<1>2. Covered(p) /\ ToSet(executed[p]) \subseteq UndefinedInstrs \cap SpanOf(p)
  BY <1>1 DEF ExecutedBy
<1>3. ToSet(executed[p]) = UndefinedInstrs \cap SpanOf(p)
  BY <1>2 DEF Covered
<1>4. \A n \in Valid \cap ToSet(executed[p]) : \E e \in archive[p] : e[1] = n
  BY <1>1 DEF ArchivedBy
<1> QED BY <1>2, <1>3, <1>4 DEF SpanOf

(* undoc-enum.c executes each undefined instruction exactly once on each core
   type: its spans neither overlap nor leave a gap, for any number of cores and
   wherever they cut the ranges, and the parent announces the end only when
   everything has been executed on every type.                               *)
THEOREM EnumCoverage == Spec => []ExactCoverage
<1>1. IInv => ExactCoverage
  <2> SUFFICES ASSUME IInv PROVE ExactCoverage
    OBVIOUS
  <2>1. ASSUME NEW t \in DOMAIN types PROVE ExecutedOn(t) \subseteq UndefinedInstrs
    <3>1. \A j \in Cores(t) : ToSet(executed[types[t].cpus[j]]) \subseteq UndefinedInstrs
      BY OwnSpan
    <3> QED BY <3>1 DEF ExecutedOn, Cores
  <2>2. ASSUME NEW t \in DOMAIN types, parent = "announced" PROVE ExecutedOn(t) = UndefinedInstrs
    <3>1. \A j \in Cores(t) : at[types[t].cpus[j]] # "none"
      BY <2>2 DEF IInv, ForkInv, Forked
    <3>2. \A j \in Cores(t) : Covered(types[t].cpus[j])
      BY <2>2 DEF IInv, PollInv
    <3> QED BY <2>1, <3>1, <3>2, TypeCovered
  <2>3. ASSUME NEW t \in DOMAIN types, \A p \in ToSet(types[t].cpus) : at[p] = "closed"
        PROVE  ExecutedOn(t) = UndefinedInstrs
    <3>1. \A j \in Cores(t) : types[t].cpus[j] \in Procs
      BY TypesFacts DEF IInv
    <3>2. \A j \in Cores(t) : at[types[t].cpus[j]] = "closed"
      BY <2>3 DEF ToSet, Cores
    <3>3. \A j \in Cores(t) : at[types[t].cpus[j]] # "none" /\ Covered(types[t].cpus[j])
      BY <3>1, <3>2, ClosedCovered
    <3> QED BY <2>1, <3>3, TypeCovered
  <2>4. Cpus \subseteq Procs
    <3>1. \A t \in DOMAIN types : \A j \in DOMAIN types[t].cpus : types[t].cpus[j] \in Procs
      BY TypesFacts DEF IInv, Cores
    <3> QED BY <3>1 DEF Cpus, ToSet
  <2>5. \A p \in Cpus : at[p] = "closed" =>
          /\ ToSet(executed[p]) = UndefinedInstrs \cap (span[p].start .. span[p].end - 1)
          /\ \A n \in Valid \cap ToSet(executed[p]) : \E e \in archive[p] : e[1] = n
    BY <2>4, ClosedCovered
  <2>6. \A t \in DOMAIN types : \A j, l \in DOMAIN types[t].cpus :
          \A a \in DOMAIN executed[types[t].cpus[j]], b \in DOMAIN executed[types[t].cpus[l]] :
            executed[types[t].cpus[j]][a] = executed[types[t].cpus[l]][b] => j = l /\ a = b
    BY NoneTwice DEF Cores
  <2> QED BY <2>1, <2>2, <2>3, <2>5, <2>6 DEF ExactCoverage
<1> QED BY <1>1, EnumInvariant, PTL
=============================================================================
