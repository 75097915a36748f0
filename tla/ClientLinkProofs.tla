-------------------------- MODULE ClientLinkProofs --------------------------
(***************************************************************************)
(* Proofs about ClientLink, for every number of workers, tickets and every *)
(* batch size and buffer size.                                             *)
(***************************************************************************)
EXTENDS ClientLink, ListLemmas, SequenceTheorems, TLAPS

-----------------------------------------------------------------------------
(* Facts about lists of batches.                                             *)

(* A batch sent joins the batches in flight.                                 *)
LEMMA AllOfAppend ==
  ASSUME NEW S, NEW s \in Seq(Seq(S)), NEW p \in Seq(S)
  PROVE  AllOf(Append(s, p)) = AllOf(s) \cup ToSet(p)
<1> DEFINE t == Append(s, p)
<1>1. /\ DOMAIN t = DOMAIN s \cup {Len(s) + 1}
      /\ t[Len(s) + 1] = p
      /\ \A i \in DOMAIN s : t[i] = s[i]
  OBVIOUS
<1> HIDE DEF t
<1>2. AllOf(t) = AllOf(s) \cup ToSet(p)
  BY <1>1 DEF AllOf
<1> QED BY <1>2 DEF t

(* The oldest batch leaves the batches in flight.                            *)
LEMMA AllOfTail ==
  ASSUME NEW S, NEW s \in Seq(Seq(S)), s # <<>>
  PROVE  AllOf(s) = AllOf(Tail(s)) \cup ToSet(Head(s))
<1> DEFINE t == Tail(s)
<1>1. /\ 1 \in DOMAIN s /\ Head(s) = s[1]
      /\ \A i \in DOMAIN t : i + 1 \in DOMAIN s /\ t[i] = s[i + 1]
      /\ \A i \in DOMAIN s : i = 1 \/ (i - 1 \in DOMAIN t /\ t[i - 1] = s[i])
  <2>1. Len(s) \in Nat /\ Len(s) >= 1 /\ DOMAIN s = 1 .. Len(s)
    OBVIOUS
  <2>2. DOMAIN t = 1 .. Len(s) - 1 /\ \A i \in 1 .. Len(s) - 1 : t[i] = s[i + 1]
    OBVIOUS
  <2> HIDE DEF t
  <2>3. \A i \in 1 .. Len(s) : i = 1 \/ (i - 1 \in 1 .. Len(s) - 1 /\ t[i - 1] = s[i])
    BY <2>1, <2>2
  <2>4. \A i \in 1 .. Len(s) - 1 : i + 1 \in 1 .. Len(s)
    BY <2>1
  <2>5. Head(s) = s[1]
    OBVIOUS
  <2> QED BY <2>1, <2>2, <2>3, <2>4, <2>5
<1> HIDE DEF t
<1>2. AllOf(t) \subseteq AllOf(s) /\ ToSet(Head(s)) \subseteq AllOf(s)
  BY <1>1 DEF AllOf
<1>3. ASSUME NEW i \in DOMAIN s PROVE ToSet(s[i]) \subseteq AllOf(t) \cup ToSet(Head(s))
  BY <1>1, SMTT(30) DEF AllOf
<1>4. AllOf(s) \subseteq AllOf(t) \cup ToSet(Head(s))
  BY <1>3 DEF AllOf
<1> QED BY <1>2, <1>4 DEF t

-----------------------------------------------------------------------------
(* Facts about the layout of a batch.                                        *)

(* The packed inputs of an entry are a list of n inputs.                     *)
LEMMA PackedProperties ==
  ASSUME NEW e \in Entry
  PROVE  /\ Packed(e) \in Seq(Input)
         /\ Len(Packed(e)) = e.n
         /\ \A j \in 1 .. e.n : Packed(e)[j] = <<e.ticket, j>>
BY DEF Packed, Entry, Input

(* The empty batch is laid out like the empty list of entries.               *)
LEMMA CoversEmpty == Covers(<<>>, 0, <<>>)
<1> DEFINE off == [k \in 1 .. 1 |-> 0]
<1>1. off \in [1 .. Len(<<>>) + 1 -> 0 .. Len(<<>>)] /\ off[1] = 0
  OBVIOUS
<1>2. off[Len(<<>>) + 1] = Len(<<>>) /\ 1 .. Len(<<>>) = {}
  OBVIOUS
<1> HIDE DEF off
<1> QED BY <1>1, <1>2, Zenon DEF Covers

(* The inputs behind a list of results, and back.                            *)
LEMMA RanProperties ==
  ASSUME NEW data \in Seq(ResultOf)
  PROVE  /\ Ran(data) \in Seq(Input)
         /\ Len(Ran(data)) = Len(data)
         /\ \A i \in 1 .. Len(data) : data[i] = RunInput(Ran(data)[i])
<1>1. ASSUME NEW i \in 1 .. Len(data)
      PROVE  data[i].ran \in Input /\ data[i] = [ran |-> data[i].ran]
  <2>1. data[i] \in ResultOf
    OBVIOUS
  <2> QED BY <2>1 DEF ResultOf
<1>2. Ran(data) \in [1 .. Len(data) -> Input] /\ Len(data) \in Nat
  <2>1. \A i \in 1 .. Len(data) : data[i].ran \in Input
    BY <1>1
  <2>2. Len(data) \in Nat
    OBVIOUS
  <2> QED BY <2>1, <2>2, Zenon DEF Ran
<1>3. Ran(data) \in Seq(Input) /\ Len(Ran(data)) = Len(data)
  BY <1>2
<1> QED BY <1>1, <1>3 DEF Ran, RunInput

(* Running the inputs of a message gives results of just these inputs.       *)
LEMMA RanOfRun ==
  ASSUME NEW inputs \in Seq(Input)
  PROVE  LET data == [i \in 1 .. Len(inputs) |-> RunInput(inputs[i])]
         IN  data \in Seq(ResultOf) /\ Ran(data) = inputs
<1> DEFINE data == [i \in 1 .. Len(inputs) |-> RunInput(inputs[i])]
<1>1. \A i \in 1 .. Len(inputs) : RunInput(inputs[i]) \in ResultOf /\ RunInput(inputs[i]).ran = inputs[i]
  BY DEF RunInput, ResultOf
<1>2. data \in Seq(ResultOf) /\ Len(data) = Len(inputs)
  BY <1>1
<1>3. Ran(data) = [i \in 1 .. Len(inputs) |-> inputs[i]]
  BY <1>1, <1>2 DEF Ran
<1>4. inputs = [i \in 1 .. Len(inputs) |-> inputs[i]]
  OBVIOUS
<1> QED BY <1>2, <1>3, <1>4

(* Merging one more entry: its inputs follow those of the others.            *)
LEMMA CoversAppend ==
  ASSUME NEW parts \in Seq(Entry), NEW inputs \in Seq(Input), NEW e \in Entry,
         Covers(parts, 0, inputs)
  PROVE  Covers(Append(parts, e), 0, inputs \o Packed(e))
<1> DEFINE m == Len(parts)
           longer == inputs \o Packed(e)
           more == Append(parts, e)
<1>1. PICK off \in [1 .. m + 1 -> 0 .. Len(inputs)] :
         /\ off[1] = 0
         /\ off[m + 1] = Len(inputs)
         /\ \A k \in 1 .. m :
              /\ off[k + 1] = off[k] + parts[k].n
              /\ \A j \in 1 .. parts[k].n : inputs[off[k] + j] = <<parts[k].ticket, j>>
  BY DEF Covers
<1>2. /\ longer \in Seq(Input)
      /\ Len(longer) = Len(inputs) + e.n
      /\ \A i \in 1 .. Len(inputs) : longer[i] = inputs[i]
      /\ \A j \in 1 .. e.n : longer[Len(inputs) + j] = <<e.ticket, j>>
  <2>1. /\ longer \in Seq(Input)
        /\ Len(longer) = Len(inputs) + Len(Packed(e))
        /\ \A i \in 1 .. Len(inputs) + Len(Packed(e)) :
             longer[i] = IF i <= Len(inputs) THEN inputs[i] ELSE Packed(e)[i - Len(inputs)]
    BY PackedProperties, ConcatProperties
  <2> HIDE DEF longer
  <2>2. e.n \in Nat
    BY DEF Entry
  <2>3. ASSUME NEW j \in 1 .. e.n PROVE longer[Len(inputs) + j] = <<e.ticket, j>>
    <3>1. (Len(inputs) + j) - Len(inputs) = j
      BY <2>2
    <3>2. longer[Len(inputs) + j] = Packed(e)[j]
      BY <2>1, <2>2, <3>1, PackedProperties
    <3> QED BY <3>2, PackedProperties
  <2> QED BY <2>1, <2>2, <2>3, PackedProperties
<1>3. /\ Len(more) = m + 1
      /\ more \in Seq(Entry)
      /\ \A k \in 1 .. m : more[k] = parts[k]
      /\ more[m + 1] = e
  BY AppendProperties
<1> DEFINE off2 == [k \in 1 .. m + 2 |-> IF k <= m + 1 THEN off[k] ELSE Len(longer)]
<1> HIDE DEF longer, more
<1>4. /\ e.n \in Nat /\ m \in Nat /\ Len(inputs) \in Nat /\ Len(longer) \in Nat
      /\ \A k \in 1 .. m + 1 : off[k] \in 0 .. Len(inputs)
  <2>1. e.n \in Nat
    BY DEF Entry
  <2>2. m \in Nat /\ Len(inputs) \in Nat
    OBVIOUS
  <2>3. Len(longer) \in Nat
    BY <1>2, <2>1, <2>2
  <2>4. \A k \in 1 .. m + 1 : off[k] \in 0 .. Len(inputs)
    OBVIOUS
  <2> QED BY <2>1, <2>2, <2>3, <2>4
<1> HIDE DEF m
<1>5. off2 \in [1 .. m + 2 -> 0 .. Len(longer)]
  <2>1. ASSUME NEW k \in 1 .. m + 2
        PROVE  (IF k <= m + 1 THEN off[k] ELSE Len(longer)) \in 0 .. Len(longer)
    <3>1. CASE k <= m + 1
      <4>1. off[k] \in 0 .. Len(inputs)
        BY <3>1, <1>4
      <4> QED BY <4>1, <3>1, <1>2, <1>4
    <3>2. CASE ~(k <= m + 1)
      BY <3>2, <1>4
    <3> QED BY <3>1, <3>2
  <2> QED BY <2>1
<1>6. off2[1] = 0 /\ off2[m + 2] = Len(longer)
  BY <1>1, <1>4
<1>7. ASSUME NEW k \in 1 .. m + 1
      PROVE  /\ off2[k + 1] = off2[k] + more[k].n
             /\ \A j \in 1 .. more[k].n : longer[off2[k] + j] = <<more[k].ticket, j>>
  <2>1. CASE k <= m
    <3>1. off2[k] = off[k] /\ off2[k + 1] = off[k + 1]
      BY <2>1, <1>4
    <3> k \in 1 .. m /\ k + 1 \in 1 .. m + 1
      BY <2>1, <1>4
    <3>2. /\ off[k + 1] = off[k] + parts[k].n
          /\ \A j \in 1 .. parts[k].n : inputs[off[k] + j] = <<parts[k].ticket, j>>
      BY <1>1, Zenon
    <3>3. more[k] = parts[k] /\ parts[k] \in Entry
      BY <1>3 DEF m
    <3>4. /\ off[k] \in 0 .. Len(inputs) /\ off[k + 1] \in 0 .. Len(inputs)
          /\ parts[k].n \in Nat
      BY <1>4, <3>3 DEF Entry
    <3>5. ASSUME NEW j \in 1 .. parts[k].n
          PROVE  longer[off[k] + j] = <<parts[k].ticket, j>>
      <4>1. off[k] + j \in 1 .. Len(inputs)
        <5>1. off[k] + parts[k].n <= Len(inputs) /\ off[k] >= 0
          BY <3>2, <3>4, <1>4
        <5>2. off[k] \in Nat /\ parts[k].n \in Nat /\ Len(inputs) \in Nat /\ j <= parts[k].n
          BY <3>4, <1>4
        <5> QED BY <5>1, <5>2, SMTT(30)
      <4> QED BY <4>1, <3>2, <1>2
    <3> QED BY <3>1, <3>2, <3>3, <3>5
  <2>2. CASE k = m + 1
    <3>1. off2[k] = Len(inputs) /\ off2[k + 1] = Len(longer)
      BY <2>2, <1>1, <1>4
    <3>2. more[k] = e
      BY <2>2, <1>3
    <3> QED BY <3>1, <3>2, <1>2
  <2>3. k <= m \/ k = m + 1
    <3>1. m \in Nat
      BY <1>4
    <3> QED BY <3>1
  <2> QED BY <2>1, <2>2, <2>3
<1>8. Len(more) = m + 1 /\ Len(more) + 1 = m + 2
  BY <1>3, <1>4
<1> HIDE DEF off2
<1>9. Covers(more, 0, longer)
  <2>1. off2 \in [1 .. Len(more) + 1 -> 0 .. Len(longer)]
    BY <1>5, <1>8, Zenon
  <2>2. off2[Len(more) + 1] = Len(longer)
    BY <1>6, <1>8, Zenon
  <2>3. \A k \in 1 .. Len(more) :
          /\ off2[k + 1] = off2[k] + more[k].n
          /\ \A j \in 1 .. more[k].n : longer[off2[k] + j] = <<more[k].ticket, j>>
    BY <1>7, <1>8, Zenon
  <2> QED BY <2>1, <2>2, <2>3, <1>6, Zenon DEF Covers
<1> QED BY <1>9 DEF more, longer

(* Serving the first entry of what is left: the next n inputs are its own,
   and behind them the layout goes on with the other entries.                *)
LEMMA CoversHead ==
  ASSUME NEW parts \in Seq(Entry), NEW inputs \in Seq(Input), NEW from \in Nat,
         Covers(parts, from, inputs), parts # <<>>
  PROVE  /\ from + Head(parts).n <= Len(inputs)
         /\ \A j \in 1 .. Head(parts).n : inputs[from + j] = <<Head(parts).ticket, j>>
         /\ Covers(Tail(parts), from + Head(parts).n, inputs)
<1> DEFINE m == Len(parts)
           rest == Tail(parts)
<1>1. PICK off \in [1 .. m + 1 -> 0 .. Len(inputs)] :
         /\ off[1] = from
         /\ off[m + 1] = Len(inputs)
         /\ \A k \in 1 .. m :
              /\ off[k + 1] = off[k] + parts[k].n
              /\ \A j \in 1 .. parts[k].n : inputs[off[k] + j] = <<parts[k].ticket, j>>
  BY DEF Covers
<1>2. m \in Nat /\ m >= 1 /\ Head(parts) = parts[1] /\ Len(inputs) \in Nat
  OBVIOUS
<1>3. /\ rest \in Seq(Entry) /\ Len(rest) = m - 1
      /\ \A k \in 1 .. m - 1 : rest[k] = parts[k + 1]
  BY HeadTailProperties
<1> DEFINE off2 == [k \in 1 .. m |-> off[k + 1]]
<1> HIDE DEF rest
<1>10. \A k \in 1 .. m + 1 : off[k] \in 0 .. Len(inputs)
  OBVIOUS
<1> HIDE DEF m
<1>4. /\ off[2] = from + Head(parts).n
      /\ \A j \in 1 .. Head(parts).n : inputs[from + j] = <<Head(parts).ticket, j>>
      /\ off[2] \in 0 .. Len(inputs)
  <2>1. 1 \in 1 .. m /\ 1 + 1 = 2 /\ 2 \in 1 .. m + 1
    BY <1>2
  <2> QED BY <2>1, <1>1, <1>2, <1>10
<1>5. off2 \in [1 .. m -> 0 .. Len(inputs)]
  BY <1>10, <1>2
<1>6. off2[1] = off[2] /\ off2[m] = Len(inputs)
  BY <1>1, <1>2
<1>7. ASSUME NEW k \in 1 .. m - 1
      PROVE  /\ off2[k + 1] = off2[k] + rest[k].n
             /\ \A j \in 1 .. rest[k].n : inputs[off2[k] + j] = <<rest[k].ticket, j>>
  <2>1. off2[k + 1] = off[(k + 1) + 1] /\ off2[k] = off[k + 1] /\ k + 1 \in 1 .. m
    BY <1>2
  <2>2. rest[k] = parts[k + 1]
    BY <1>3
  <2> QED BY <2>1, <2>2, <1>1
<1>8. Len(rest) = m - 1 /\ Len(rest) + 1 = m
  BY <1>2, <1>3
<1> HIDE DEF off2
<1>9. Covers(rest, off[2], inputs)
  <2>1. off2 \in [1 .. Len(rest) + 1 -> 0 .. Len(inputs)]
    BY <1>5, <1>8, Zenon
  <2>2. off2[Len(rest) + 1] = Len(inputs)
    BY <1>6, <1>8, Zenon
  <2>3. \A k \in 1 .. Len(rest) :
          /\ off2[k + 1] = off2[k] + rest[k].n
          /\ \A j \in 1 .. rest[k].n : inputs[off2[k] + j] = <<rest[k].ticket, j>>
    BY <1>7, <1>8, Zenon
  <2> QED BY <2>1, <2>2, <2>3, <1>6, Zenon DEF Covers
<1> QED BY <1>4, <1>9, <1>2 DEF rest

(* What is between the schedule call and the results is an entry.            *)
LEMMA EntriesAreEntries == ASSUME TypeOK PROVE Entries \subseteq Entry
<1>1. /\ queue \in Seq(Entry) /\ batch.parts \in Seq(Entry) /\ reply.parts \in Seq(Entry)
      /\ in_flight_inputs \in Seq(Seq(Entry))
  BY DEF TypeOK, SchedType, LoopType, FlightType
<1>2. \A s \in Seq(Entry) : ToSet(s) \subseteq Entry
  BY DEF ToSet
<1>3. AllOf(in_flight_inputs) \subseteq Entry
  BY <1>1, <1>2 DEF AllOf
<1> QED BY <1>1, <1>2, <1>3 DEF Entries

-----------------------------------------------------------------------------
(* The inductive invariant, one conjunct at a time.                          *)

(* A part of the state that a step leaves alone keeps its type.              *)
LEMMA TypeUnchanged ==
  ASSUME TypeOK
  PROVE  /\ UNCHANGED pc => pc' \in {"fill", "merge", "send", "select", "split", "failed", "dead"}
         /\ UNCHANGED sched => SchedType'
         /\ UNCHANGED loop => LoopType'
         /\ UNCHANGED flight => FlightType'
         /\ UNCHANGED outcome => OutcomeType'
         /\ UNCHANGED caller => CallerType'
         /\ UNCHANGED remote => RemoteType'
<1>1. UNCHANGED pc => pc' \in {"fill", "merge", "send", "select", "split", "failed", "dead"}
  BY DEF TypeOK
<1>2. UNCHANGED sched => SchedType'
  BY DEF TypeOK, sched, SchedType
<1>3. UNCHANGED loop => LoopType'
  BY DEF TypeOK, loop, LoopType
<1>4. UNCHANGED flight => FlightType'
  BY DEF TypeOK, flight, FlightType
<1>5. UNCHANGED outcome => OutcomeType'
  BY DEF TypeOK, outcome, OutcomeType
<1>6. UNCHANGED caller => CallerType'
  BY DEF TypeOK, caller, CallerType
<1>7. UNCHANGED remote => RemoteType'
  BY DEF TypeOK, remote, RemoteType
<1> QED BY <1>1, <1>2, <1>3, <1>4, <1>5, <1>6, <1>7

(* Every step keeps the types: what is popped was there, and what the client
   computes is a result of an input it was sent.                             *)
LEMMA TypeStep == ASSUME LinkInv, [Next]_vars PROVE TypeOK'
<1> TypeOK
  BY DEF LinkInv
<1>1. CASE UNCHANGED vars
  <2>1. UNCHANGED <<pc, sched, loop, flight, outcome, caller, remote>>
    BY <1>1 DEF vars, sched, loop, flight, outcome, caller, remote
  <2> QED BY <2>1, TypeUnchanged DEF TypeOK
<1>2. ASSUME NEW w \in Workers, NEW r \in Requests, NEW priority \in BOOLEAN,
             Schedule(w, r, priority)
      PROVE  TypeOK'
  <2> DEFINE e == [ticket |-> next_ticket, n |-> r.n, bytes |-> r.bytes]
  <2>1. e \in Entry
    BY ConstantsAssumption, SMTT(30) DEF Entry, TypeOK, SchedType, BiggerMaxBatchN
  <2> HIDE DEF e
  <2>2. SchedType'
    BY <1>2, <2>1 DEF Schedule, TypeOK, SchedType, e
  <2>3. CallerType'
    BY <1>2, <2>1 DEF Schedule, TypeOK, CallerType, e
  <2> QED BY <1>2, <2>2, <2>3, TypeUnchanged DEF Schedule, TypeOK
<1>3. ASSUME NEW w \in Workers, Sleep(w) PROVE TypeOK'
  <2>1. CallerType'
    BY <1>3 DEF Sleep, TypeOK, CallerType
  <2> QED BY <1>3, <2>1, TypeUnchanged DEF Sleep, TypeOK
<1>4. ASSUME NEW w \in Workers, TakeResults(w) PROVE TypeOK'
  <2>1. CallerType'
    BY <1>4 DEF TakeResults, TypeOK, CallerType, OutcomeType
  <2>2. OutcomeType'
    BY <1>4 DEF TakeResults, TypeOK, OutcomeType
  <2> QED BY <1>4, <2>1, <2>2, TypeUnchanged DEF TakeResults, TypeOK
<1>5. ASSUME NEW w \in Workers, LoseClient(w) PROVE TypeOK'
  <2>1. CallerType'
    BY <1>5 DEF LoseClient, TypeOK, CallerType
  <2> QED BY <1>5, <2>1, TypeUnchanged DEF LoseClient, TypeOK
<1>6. ASSUME NEW w \in Workers, Resume(w) PROVE TypeOK'
  <2>1. CallerType'
    BY <1>6 DEF Resume, TypeOK, CallerType, NoEntry, Entry
  <2> QED BY <1>6, <2>1, TypeUnchanged DEF Resume, TypeOK
<1>7. ASSUME NEW w \in Workers, Abandon(w) PROVE TypeOK'
  <2>1. CallerType'
    BY <1>7 DEF Abandon, TypeOK, CallerType, NoEntry, Entry
  <2> QED BY <1>7, <2>1, TypeUnchanged DEF Abandon, TypeOK
<1>8. CASE BeginMerge
  <2>1. LoopType'
    BY <1>8 DEF BeginMerge, TypeOK, LoopType, EmptyBatch
  <2> QED BY <1>8, <2>1, TypeUnchanged DEF BeginMerge, TypeOK
<1>9. CASE MergeEntry
  <2> DEFINE e == queue[scan]
  <2>1. scan \in 1 .. Len(queue) /\ queue \in Seq(Entry)
    BY <1>9 DEF MergeEntry, TypeOK, LoopType, SchedType
  <2>2. e \in Entry
    BY <2>1
  <2> HIDE DEF e
  <2>3. SchedType'
    BY <1>9, <2>1, RemoveAtProperties DEF MergeEntry, TypeOK, SchedType
  <2>4. batch' \in [parts : Seq(Entry), n : Nat, payload : Seq(Input), bytes : Nat]
    <3>1. Packed(e) \in Seq(Input) /\ e.n \in Nat /\ e.bytes \in Nat
      BY <2>2, PackedProperties DEF Entry
    <3>2. batch' = [parts |-> Append(batch.parts, e), n |-> batch.n + e.n,
                    payload |-> batch.payload \o Packed(e), bytes |-> batch.bytes + e.bytes]
      BY <1>9 DEF MergeEntry, AddToBatch, e
    <3> QED BY <2>2, <3>1, <3>2, SMTT(30) DEF TypeOK, LoopType
  <2>5. LoopType'
    BY <1>9, <2>4 DEF MergeEntry, TypeOK, LoopType
  <2> QED BY <1>9, <2>3, <2>5, TypeUnchanged DEF MergeEntry, TypeOK
<1>10. CASE SkipEntry
  <2>1. LoopType'
    BY <1>10 DEF SkipEntry, TypeOK, LoopType
  <2> QED BY <1>10, <2>1, TypeUnchanged DEF SkipEntry, TypeOK
<1>11. CASE EndMerge
  <2>1. LoopType'
    BY <1>11 DEF EndMerge, TypeOK, LoopType
  <2> QED BY <1>11, <2>1, TypeUnchanged DEF EndMerge, TypeOK
<1>12. CASE SendBatch
  <2>1. LoopType'
    BY <1>12 DEF SendBatch, TypeOK, LoopType, EmptyBatch
  <2>2. FlightType'
    BY <1>12 DEF SendBatch, TypeOK, FlightType, LoopType
  <2>3. RemoteType'
    <3> DEFINE msg == [n |-> batch.n, payload |-> batch.payload, bytes |-> batch.bytes]
    <3>1. msg \in Message
      BY DEF TypeOK, LoopType, Message
    <3>2. s2c' = s2c \/ s2c' = Append(s2c, msg)
      BY <1>12 DEF SendBatch
    <3> HIDE DEF msg
    <3>3. s2c' \in Seq(Message)
      BY <3>1, <3>2 DEF TypeOK, RemoteType
    <3> QED BY <1>12, <3>3 DEF SendBatch, TypeOK, RemoteType
  <2> QED BY <1>12, <2>1, <2>2, <2>3, TypeUnchanged DEF SendBatch, TypeOK
<1>13. ASSUME SaveException PROVE TypeOK'
  <2>1. ToSet(Head(in_flight_inputs)) \subseteq Entry \/ in_flight_inputs = <<>>
    BY DEF TypeOK, FlightType, ToSet
  <2>2. saved_tickets' \subseteq Nat
    BY <1>13, <2>1 DEF SaveException, Entry
  <2>3. OutcomeType'
    BY <1>13, <2>2 DEF SaveException, TypeOK, OutcomeType
  <2> QED BY <1>13, <2>3, TypeUnchanged DEF SaveException, TypeOK
<1>14. CASE EndFill
  BY <1>14, TypeUnchanged DEF EndFill, TypeOK
<1>15. CASE SelectTimeout
  BY <1>15, TypeUnchanged DEF SelectTimeout, TypeOK
<1>16. CASE RecvReply
  <2>1. c2s # <<>> /\ in_flight_inputs # <<>> /\ in_flight_bytes # <<>>
    BY <1>16 DEF RecvReply, TypeOK, RemoteType, FlightType, LinkInv, WireInv, Running
  <2>2. LoopType'
    <3>1. Head(c2s) \in Seq(ResultOf) /\ Head(in_flight_inputs) \in Seq(Entry)
      BY <2>1 DEF TypeOK, FlightType, RemoteType
    <3>2. reply' \in [data : Seq(ResultOf), parts : Seq(Entry)]
      BY <1>16, <3>1 DEF RecvReply
    <3> QED BY <1>16, <3>2 DEF RecvReply, TypeOK, LoopType
  <2>3. FlightType'
    BY <1>16, <2>1 DEF RecvReply, TypeOK, FlightType
  <2>4. RemoteType'
    BY <1>16, <2>1 DEF RecvReply, TypeOK, RemoteType
  <2> QED BY <1>16, <2>2, <2>3, <2>4, TypeUnchanged DEF RecvReply, TypeOK
<1>18. CASE SplitEntry
  <2> DEFINE e == Head(reply.parts)
  <2>1. e \in Entry /\ reply.parts \in Seq(Entry) /\ reply.data \in Seq(ResultOf)
    BY <1>18 DEF SplitEntry, TypeOK, LoopType
  <2>2. e.n \in Nat /\ e.ticket \in Nat
    BY <2>1 DEF Entry
  <2> HIDE DEF e
  <2>3. LoopType'
    <3>1. Tail(reply.parts) \in Seq(Entry)
      BY <1>18, <2>1 DEF SplitEntry
    <3>2. reply' \in [data : Seq(ResultOf), parts : Seq(Entry)]
      BY <1>18, <3>1 DEF SplitEntry, TypeOK, LoopType
    <3>3. data_index' \in Nat
      BY <1>18, <2>2, SMTT(30) DEF SplitEntry, TypeOK, LoopType, e
    <3> QED BY <1>18, <3>2, <3>3 DEF SplitEntry, TypeOK, LoopType
  <2>4. SubSeq(reply.data, data_index + 1, data_index + e.n) \in Seq(ResultOf)
    <3>1. Covers(reply.parts, data_index, Ran(reply.data)) /\ reply.parts # <<>>
      BY <1>18 DEF SplitEntry, LinkInv, SplitInv
    <3>2. data_index + e.n <= Len(reply.data)
      BY <3>1, <2>1, CoversHead, RanProperties DEF TypeOK, LoopType, e
    <3> QED BY <2>1, <2>2, <3>2, SMTT(30) DEF TypeOK, LoopType
  <2>5. OutcomeType'
    BY <1>18, <2>2, <2>4 DEF SplitEntry, TypeOK, OutcomeType, e
  <2> QED BY <1>18, <2>3, <2>5, TypeUnchanged DEF SplitEntry, TypeOK
<1>19. CASE EndSplit
  <2>1. CallerType'
    BY <1>19 DEF EndSplit, NotifyAll, TypeOK, CallerType
  <2>2. LoopType'
    BY <1>19 DEF EndSplit, TypeOK, LoopType, NoReply
  <2> QED BY <1>19, <2>1, <2>2, TypeUnchanged DEF EndSplit, TypeOK
<1>20. CASE MarkDead
  <2>1. CallerType'
    BY <1>20 DEF MarkDead, NotifyAll, TypeOK, CallerType
  <2>2. OutcomeType'
    BY <1>20 DEF MarkDead, TypeOK, OutcomeType
  <2> QED BY <1>20, <2>1, <2>2, TypeUnchanged DEF MarkDead, TypeOK
<1>21. CASE ClientRecv
  <2>1. RemoteType'
    BY <1>21 DEF ClientRecv, TypeOK, RemoteType
  <2> QED BY <1>21, <2>1, TypeUnchanged DEF ClientRecv, TypeOK
<1>22. CASE ClientReply
  <2>1. [i \in 1 .. current.n |-> RunInput(current.payload[i])] \in Seq(ResultOf)
    <3>1. current.payload \in Seq(Input) /\ current.n = Len(current.payload)
      BY <1>22 DEF ClientReply, LinkInv, WireInv, Message, TypeOK, RemoteType
    <3>2. \A i \in 1 .. current.n : RunInput(current.payload[i]) \in ResultOf
      BY <3>1 DEF RunInput, ResultOf
    <3>3. current.n \in Nat
      BY <3>1
    <3> QED BY <3>2, <3>3
  <2>2. RemoteType'
    BY <1>22, <2>1 DEF ClientReply, EmptyMessage, Message, TypeOK, RemoteType
  <2> QED BY <1>22, <2>2, TypeUnchanged DEF ClientReply, TypeOK
<1>23. CASE ClientExit
  <2>1. PICK k \in 0 .. Len(c2s) : c2s' = SubSeq(c2s, 1, k)
    BY <1>23 DEF ClientExit
  <2>2. c2s' \in Seq(Seq(ResultOf))
    BY <2>1 DEF TypeOK, RemoteType
  <2>3. RemoteType'
    BY <1>23, <2>2 DEF ClientExit, EmptyMessage, Message, TypeOK, RemoteType
  <2> QED BY <1>23, <2>3, TypeUnchanged DEF ClientExit, TypeOK
<1> QED
  BY <1>1, <1>2, <1>3, <1>4, <1>5, <1>6, <1>7, <1>8, <1>9, <1>10, <1>11, <1>12,
     <1>13, <1>14, <1>15, <1>16, <1>18, <1>19, <1>20, <1>21, <1>22, <1>23
  DEF Next, Worker, GetResults, SendRecvLoop, ClientLoop, SendFails, RecvFails

(* The workers touch neither the connection nor what the process remembers
   of it; the client touches nothing but the connection.                     *)
LEMMA Footprints ==
  /\ \A w \in Workers : Worker(w) =>
       UNCHANGED <<pc, loop, flight, is_dead, saved_tickets, remote>>
  /\ ClientLoop \/ ClientExit =>
       UNCHANGED <<sched, pc, loop, flight, outcome, caller>>
<1>1. ASSUME NEW w \in Workers, Worker(w)
      PROVE  UNCHANGED <<pc, loop, flight, is_dead, saved_tickets, remote>>
  BY <1>1 DEF Worker, GetResults, Schedule, Sleep, TakeResults, LoseClient, Resume, Abandon, outcome
<1>2. ASSUME ClientLoop \/ ClientExit
      PROVE  UNCHANGED <<sched, pc, loop, flight, outcome, caller>>
  BY <1>2 DEF ClientLoop, ClientRecv, ClientReply, ClientExit
<1> QED BY <1>1, <1>2

(* The batch under construction stays laid out like its entries, and small
   enough for the client.                                                    *)
LEMMA BatchStep == ASSUME LinkInv, [Next]_vars PROVE BatchInv'
<1>1. CASE UNCHANGED <<pc, batch>>
  BY <1>1 DEF LinkInv, BatchInv
<1>2. ASSUME batch' = EmptyBatch PROVE BatchInv'
  <2>1. batch'.parts = <<>> /\ batch'.n = 0 /\ batch'.payload = <<>>
    BY <1>2 DEF EmptyBatch
  <2> QED BY <1>2, <2>1, CoversEmpty, ConstantsAssumption DEF BatchInv, BiggerMaxBatchN
<1>3. CASE MergeEntry
  <2> DEFINE e == queue[scan]
  <2>1. e \in Entry
    BY <1>3 DEF MergeEntry, LinkInv, TypeOK, LoopType, SchedType
  <2>2. /\ batch'.parts = Append(batch.parts, e)
        /\ batch'.n = batch.n + e.n
        /\ batch'.payload = batch.payload \o Packed(e)
        /\ batch.n + e.n <= BiggerMaxBatchN
        /\ pc' = "merge"
    BY <1>3 DEF MergeEntry, AddToBatch, Fits
  <2> HIDE DEF e
  <2>3. batch.parts \in Seq(Entry) /\ batch.payload \in Seq(Input)
    BY DEF LinkInv, TypeOK, LoopType
  <2>4. Covers(batch.parts, 0, batch.payload) /\ batch.n = Len(batch.payload)
    BY DEF LinkInv, BatchInv
  <2>5. Covers(batch'.parts, 0, batch'.payload)
    BY <2>1, <2>2, <2>3, <2>4, CoversAppend
  <2>6. batch'.n = Len(batch'.payload)
    <3>1. Len(batch'.payload) = Len(batch.payload) + Len(Packed(e))
      BY <2>1, <2>2, <2>3, PackedProperties, ConcatProperties
    <3> QED BY <2>1, <2>2, <2>4, <3>1, PackedProperties
  <2> QED BY <2>2, <2>5, <2>6 DEF BatchInv
<1>4. ASSUME UNCHANGED batch, pc' \notin {"fill", "select", "split"} PROVE BatchInv'
  BY <1>4 DEF LinkInv, BatchInv
<1>5. ASSUME UNCHANGED batch, pc \in {"fill", "select", "split"} PROVE BatchInv'
  BY <1>5 DEF LinkInv, BatchInv
<1>6. ASSUME SendRecvLoop PROVE BatchInv'
  BY <1>1, <1>2, <1>3, <1>4, <1>5, <1>6
  DEF SendRecvLoop, BeginMerge, SkipEntry, EndMerge, SendBatch, SendFails, RecvFails,
      SaveException, EndFill, SelectTimeout, RecvReply, SplitEntry, EndSplit, MarkDead, loop
<1> QED BY <1>1, <1>6, Footprints DEF Next, vars, loop

(* What is left of a reply stays laid out like the entries left to serve.    *)
LEMMA SplitStep == ASSUME LinkInv, [Next]_vars PROVE SplitInv'
<1>1. CASE UNCHANGED <<pc, reply, data_index>>
  BY <1>1 DEF LinkInv, SplitInv
<1>2. ASSUME UNCHANGED reply, pc # "split", pc' # "split" PROVE SplitInv'
  BY <1>2 DEF LinkInv, SplitInv
<1>3. CASE RecvReply
  <2>1. c2s \in Seq(Seq(ResultOf)) /\ c2s # <<>> /\ in_flight_inputs \in Seq(Seq(Entry))
    BY <1>3 DEF RecvReply, LinkInv, TypeOK, RemoteType, FlightType
  <2>2. 1 \in 1 .. Len(c2s) /\ Head(c2s) = c2s[1]
    BY <2>1
  <2>3. in_flight_inputs # <<>> /\ Head(in_flight_inputs) = in_flight_inputs[1]
    <3>1. Len(c2s) + Running + Len(s2c) <= Len(in_flight_inputs)
      BY DEF LinkInv, WireInv
    <3>2. Len(c2s) >= 1 /\ Running \in Nat /\ Len(s2c) \in Nat /\ Len(in_flight_inputs) \in Nat
      BY <2>1 DEF Running, LinkInv, TypeOK, RemoteType
    <3>3. Len(in_flight_inputs) >= 1
      BY <3>1, <3>2
    <3> QED BY <2>1, <3>3
  <2>4. Covers(Head(in_flight_inputs), 0, Ran(Head(c2s)))
    BY <2>2, <2>3 DEF LinkInv, WireInv
  <2> QED BY <1>3, <2>4 DEF RecvReply, SplitInv
<1>4. CASE SplitEntry
  <2>1. reply.parts \in Seq(Entry) /\ reply.data \in Seq(ResultOf) /\ data_index \in Nat
    BY DEF LinkInv, TypeOK, LoopType
  <2>2. Covers(reply.parts, data_index, Ran(reply.data)) /\ reply.parts # <<>>
    BY <1>4 DEF SplitEntry, LinkInv, SplitInv
  <2>3. Covers(Tail(reply.parts), data_index + Head(reply.parts).n, Ran(reply.data))
    BY <2>1, <2>2, CoversHead, RanProperties
  <2>4. reply'.parts = Tail(reply.parts) /\ reply'.data = reply.data
    BY <1>4 DEF SplitEntry, LinkInv, TypeOK, LoopType
  <2> QED BY <1>4, <2>3, <2>4 DEF SplitEntry, SplitInv
<1>5. CASE EndSplit
  BY <1>5 DEF EndSplit, SplitInv
<1>6. ASSUME SendRecvLoop PROVE SplitInv'
  BY <1>1, <1>2, <1>3, <1>4, <1>5, <1>6
  DEF SendRecvLoop, BeginMerge, MergeEntry, SkipEntry, EndMerge, SendBatch, SendFails,
      RecvFails, SaveException, EndFill, SelectTimeout, MarkDead, loop
<1> QED BY <1>1, <1>6, Footprints DEF Next, vars, loop

(* The messages under way stay the batches in flight: every step moves the
   same batch at both ends.                                                  *)
LEMMA WireStep == ASSUME LinkInv, [Next]_vars PROVE WireInv'
<1>0. /\ in_flight_inputs \in Seq(Seq(Entry)) /\ in_flight_bytes \in Seq(Nat)
      /\ c2s \in Seq(Seq(ResultOf)) /\ s2c \in Seq(Message) /\ current \in Message
  BY DEF LinkInv, TypeOK, FlightType, RemoteType
<1>8. /\ Len(in_flight_inputs) \in Nat /\ Len(c2s) \in Nat /\ Len(s2c) \in Nat
      /\ Running \in Nat
  BY <1>0 DEF Running
<1> WireInv
  BY DEF LinkInv
<1>9. /\ Len(in_flight_bytes) = Len(in_flight_inputs)
      /\ Len(c2s) + Running + Len(s2c) <= Len(in_flight_inputs)
      /\ ~Gone => Len(c2s) + Running + Len(s2c) = Len(in_flight_inputs)
      /\ client = "run" => Running = 1
  BY DEF WireInv, Running
<1>1. CASE UNCHANGED <<flight, remote>>
  BY <1>1 DEF flight, remote, WireInv, Running, Gone
<1>2. CASE SendBatch
  <2> DEFINE msg == [n |-> batch.n, payload |-> batch.payload, bytes |-> batch.bytes]
             k == Len(in_flight_inputs)
  <2>1. /\ in_flight_inputs' = Append(in_flight_inputs, batch.parts)
        /\ in_flight_bytes' = Append(in_flight_bytes, batch.bytes)
        /\ UNCHANGED <<c2s, client, current>>
        /\ batch.parts \in Seq(Entry) /\ batch.bytes \in Nat
    BY <1>2 DEF SendBatch, LinkInv, TypeOK, LoopType
  <2>2. /\ Len(in_flight_inputs') = k + 1 /\ Len(in_flight_bytes') = k + 1
        /\ \A i \in 1 .. k : in_flight_inputs'[i] = in_flight_inputs[i]
        /\ in_flight_inputs'[k + 1] = batch.parts
    BY <2>1, <1>0 DEF WireInv
  <2>3. Running' = Running /\ Gone' = Gone
    BY <2>1 DEF Running, Gone
  <2>4. \A i \in 1 .. Len(c2s') : Covers(in_flight_inputs'[i], 0, Ran(c2s'[i]))
    <3>1. ASSUME NEW i \in 1 .. Len(c2s) PROVE Covers(in_flight_inputs'[i], 0, Ran(c2s[i]))
      <4>1. i \in 1 .. k
        BY <1>8, <1>9
      <4> QED BY <4>1, <2>2 DEF WireInv
    <3> QED BY <3>1, <2>1
  <2>5. client' = "run" => Covers(in_flight_inputs'[Len(c2s') + 1], 0, current'.payload)
    <3>1. client = "run" => Len(c2s) + 1 \in 1 .. k
      BY <1>8, <1>9
    <3> QED BY <3>1, <2>1, <2>2 DEF WireInv
  <2>6. CASE Gone
    <3>1. s2c' = <<>> /\ s2c = <<>>
      BY <1>2, <2>6 DEF SendBatch, WireInv
    <3>2. Len(c2s) + Running + 0 <= k
      BY <3>1 DEF WireInv
    <3>3. Len(c2s') + Running' + Len(s2c') <= Len(in_flight_inputs')
      <4>1. Len(s2c') = 0 /\ Len(c2s') = Len(c2s) /\ Running' = Running
        BY <3>1, <2>1, <2>3
      <4> QED BY <4>1, <3>2, <2>2, <1>8
    <3>4. /\ Len(in_flight_bytes') = Len(in_flight_inputs')
          /\ client' # "refused" /\ (Gone' => s2c' = <<>>) /\ Gone'
          /\ client' = "run" => current'.n = Len(current'.payload)
      BY <3>1, <2>1, <2>2, <2>3, <2>6 DEF WireInv
    <3>5. 1 .. Len(s2c') = {}
      BY <3>1
    <3> QED BY <3>3, <3>4, <3>5, <2>4, <2>5, Zenon DEF WireInv
  <2>7. CASE ~Gone
    <3>1. s2c' = Append(s2c, msg)
      BY <1>2, <2>7 DEF SendBatch
    <3>2. msg \in Message /\ msg.n = Len(msg.payload) /\ msg.n <= BiggerMaxBatchN
          /\ Covers(batch.parts, 0, msg.payload)
      BY DEF LinkInv, TypeOK, LoopType, BatchInv, Message
    <3> HIDE DEF msg
    <3>3. /\ Len(s2c') = Len(s2c) + 1 /\ s2c'[Len(s2c) + 1] = msg
          /\ \A i \in 1 .. Len(s2c) : s2c'[i] = s2c[i]
      BY <3>1, <3>2, <1>0
    <3>4. Len(c2s) + Running + Len(s2c) = k
      BY <2>7 DEF WireInv
    <3>5. ASSUME NEW i \in 1 .. Len(s2c')
          PROVE  /\ s2c'[i].n = Len(s2c'[i].payload)
                 /\ s2c'[i].n <= BiggerMaxBatchN
                 /\ Covers(in_flight_inputs'[Len(c2s) + Running + i], 0, s2c'[i].payload)
      <4>1. CASE i \in 1 .. Len(s2c)
        <5>1. Len(c2s) + Running + i \in 1 .. k
          BY <4>1, <3>4, <1>8
        <5> QED BY <4>1, <5>1, <2>2, <3>3 DEF WireInv
      <4>2. CASE i = Len(s2c) + 1
        <5>1. Len(c2s) + Running + i = k + 1
          BY <4>2, <3>4, <1>8
        <5> QED BY <4>2, <5>1, <2>2, <3>2, <3>3
      <4> QED BY <4>1, <4>2, <3>3, <1>8
    <3>6. Len(c2s') + Running' + Len(s2c') = Len(in_flight_inputs')
      BY <3>3, <3>4, <2>1, <2>2, <2>3, <1>8
    <3>7. Len(c2s') + Running' + Len(s2c') <= Len(in_flight_inputs')
      BY <3>6, <2>2, <1>8
    <3>8. \A i \in 1 .. Len(s2c') :
             /\ s2c'[i].n = Len(s2c'[i].payload)
             /\ s2c'[i].n <= BiggerMaxBatchN
             /\ Covers(in_flight_inputs'[Len(c2s') + Running' + i], 0, s2c'[i].payload)
      BY <3>5, <2>1, <2>3
    <3>9. /\ Len(in_flight_bytes') = Len(in_flight_inputs')
          /\ client' # "refused" /\ (Gone' => s2c' = <<>>)
          /\ client' = "run" => current'.n = Len(current'.payload)
      BY <2>1, <2>2, <2>3, <2>7 DEF WireInv
    <3> QED BY <3>6, <3>7, <3>8, <3>9, <2>4, <2>5 DEF WireInv
  <2> QED BY <2>6, <2>7
<1>3. CASE RecvReply
  <2>1. /\ c2s # <<>> /\ c2s' = Tail(c2s)
        /\ in_flight_inputs' = Tail(in_flight_inputs)
        /\ in_flight_bytes' = Tail(in_flight_bytes)
        /\ UNCHANGED <<s2c, client, current>>
    BY <1>3 DEF RecvReply
  <2>2. Len(c2s) >= 1 /\ Len(in_flight_inputs) >= 1 /\ Len(in_flight_bytes) >= 1
    <3>1. Len(c2s) >= 1
      BY <2>1, <1>0
    <3> QED BY <3>1, <1>8, <1>9
  <2>3. Len(c2s') = Len(c2s) - 1 /\ \A i \in 1 .. Len(c2s) - 1 : c2s'[i] = c2s[i + 1]
    BY <2>1, <2>2, <1>0
  <2>4. /\ Len(in_flight_inputs') = Len(in_flight_inputs) - 1
        /\ Len(in_flight_bytes') = Len(in_flight_inputs) - 1
        /\ \A i \in 1 .. Len(in_flight_inputs) - 1 : in_flight_inputs'[i] = in_flight_inputs[i + 1]
    <3>1. in_flight_inputs # <<>> /\ in_flight_bytes # <<>>
      BY <2>2
    <3>2. Len(in_flight_bytes') = Len(in_flight_bytes) - 1
      BY <3>1, <2>1, <1>0
    <3>3. /\ Len(in_flight_inputs') = Len(in_flight_inputs) - 1
          /\ \A i \in 1 .. Len(in_flight_inputs) - 1 : in_flight_inputs'[i] = in_flight_inputs[i + 1]
      BY <3>1, <2>1, <1>0
    <3> QED BY <3>2, <3>3, <1>9
  <2>5. Running' = Running /\ Gone' = Gone
    BY <2>1 DEF Running, Gone
  <2>6. ASSUME NEW i \in 1 .. Len(c2s') PROVE Covers(in_flight_inputs'[i], 0, Ran(c2s'[i]))
    <3>1. i + 1 \in 1 .. Len(c2s) /\ i \in 1 .. Len(in_flight_inputs) - 1
      BY <2>3, <1>8, <1>9
    <3> QED BY <3>1, <2>3, <2>4 DEF WireInv
  <2>7. client = "run" => Covers(in_flight_inputs'[Len(c2s') + 1], 0, current.payload)
    <3>1. client = "run" => Len(c2s') + 1 \in 1 .. Len(in_flight_inputs) - 1
                            /\ (Len(c2s') + 1) + 1 = Len(c2s) + 1
      BY <2>2, <2>3, <1>8, <1>9
    <3> QED BY <3>1, <2>4 DEF WireInv
  <2>8. ASSUME NEW i \in 1 .. Len(s2c)
        PROVE  Covers(in_flight_inputs'[Len(c2s') + Running' + i], 0, s2c[i].payload)
    <3>1. /\ Len(c2s') + Running' + i \in 1 .. Len(in_flight_inputs) - 1
          /\ (Len(c2s') + Running' + i) + 1 = Len(c2s) + Running + i
      BY <2>2, <2>3, <2>5, <1>8, <1>9
    <3> QED BY <3>1, <2>4 DEF WireInv
  <2>9. /\ Len(c2s') + Running' + Len(s2c') <= Len(in_flight_inputs')
        /\ ~Gone' => Len(c2s') + Running' + Len(s2c') = Len(in_flight_inputs')
    <3>1. Len(c2s') + Running' + Len(s2c') = Len(c2s) + Running + Len(s2c) - 1
      <4>1. Len(c2s') = Len(c2s) - 1 /\ Running' = Running /\ Len(s2c') = Len(s2c)
        BY <2>1, <2>3, <2>5, Zenon
      <4> QED BY <4>1, <1>8
    <3>2. Len(in_flight_inputs') = Len(in_flight_inputs) - 1
      BY <2>4, Zenon
    <3>3. ~Gone' => Len(c2s) + Running + Len(s2c) = Len(in_flight_inputs)
      BY <1>9, <2>5, Zenon
    <3>4. Len(c2s) + Running + Len(s2c) <= Len(in_flight_inputs)
      BY <1>9, Zenon
    <3> QED BY <3>1, <3>2, <3>3, <3>4, <1>8
  <2> QED BY <2>1, <2>4, <2>5, <2>6, <2>7, <2>8, <2>9 DEF WireInv
<1>4. CASE ClientRecv
  <2>1. /\ client = "recv" /\ s2c # <<>> /\ s2c' = Tail(s2c) /\ current' = Head(s2c)
        /\ UNCHANGED <<c2s, in_flight_inputs, in_flight_bytes>>
        /\ client' = IF Head(s2c).n <= BiggerMaxBatchN THEN "run" ELSE "refused"
    BY <1>4 DEF ClientRecv, flight
  <2>2. Len(s2c) >= 1 /\ Head(s2c) = s2c[1] /\ 1 \in 1 .. Len(s2c)
    BY <2>1, <1>0
  <2>3. Len(s2c') = Len(s2c) - 1 /\ \A i \in 1 .. Len(s2c) - 1 : s2c'[i] = s2c[i + 1]
    BY <2>1, <2>2, <1>0
  <2>4. client' = "run" /\ Running = 0 /\ Running' = 1 /\ ~Gone /\ ~Gone'
    BY <2>1, <2>2 DEF Running, Gone, WireInv
  <2>5. /\ current'.n = Len(current'.payload)
        /\ Covers(in_flight_inputs[Len(c2s) + 1], 0, current'.payload)
    <3>1. Len(c2s) + Running + 1 = Len(c2s) + 1
      BY <2>4, <1>0
    <3> QED BY <3>1, <2>1, <2>2 DEF WireInv
  <2>6. ASSUME NEW i \in 1 .. Len(s2c')
        PROVE  /\ s2c'[i].n = Len(s2c'[i].payload)
               /\ s2c'[i].n <= BiggerMaxBatchN
               /\ Covers(in_flight_inputs[Len(c2s) + Running' + i], 0, s2c'[i].payload)
    <3>1. i + 1 \in 1 .. Len(s2c) /\ Len(c2s) + Running' + i = Len(c2s) + Running + (i + 1)
          /\ s2c'[i] = s2c[i + 1]
      <4>1. Len(s2c') = Len(s2c) - 1 /\ Running = 0 /\ Running' = 1
        BY <2>3, <2>4, Zenon
      <4>2. i \in 1 .. Len(s2c) - 1 /\ i \in Nat
        BY <4>1, <1>8
      <4> QED BY <4>1, <4>2, <2>3, <1>8
    <3> QED BY <3>1 DEF WireInv
  <2>7. Len(c2s) + Running' + Len(s2c') = Len(in_flight_inputs)
    <3>1. Len(c2s) + Running + Len(s2c) = Len(in_flight_inputs)
      BY <1>9, <2>4, Zenon
    <3>2. Len(s2c') = Len(s2c) - 1 /\ Running = 0 /\ Running' = 1
      BY <2>3, <2>4, Zenon
    <3> QED BY <3>1, <3>2, <1>8
  <2> QED BY <1>0, <2>1, <2>4, <2>5, <2>6, <2>7 DEF WireInv
<1>5. CASE ClientReply
  <2> DEFINE data == [i \in 1 .. current.n |-> RunInput(current.payload[i])]
  <2>1. /\ client = "run" /\ client' = "recv" /\ c2s' = Append(c2s, data)
        /\ UNCHANGED <<s2c, in_flight_inputs, in_flight_bytes>>
    BY <1>5 DEF ClientReply, flight
  <2>2. current.payload \in Seq(Input) /\ current.n = Len(current.payload)
    BY <2>1, <1>0 DEF Message, WireInv
  <2>3. data \in Seq(ResultOf) /\ Ran(data) = current.payload
    BY <2>2, RanOfRun
  <2> HIDE DEF data
  <2>4. /\ Len(c2s') = Len(c2s) + 1 /\ c2s'[Len(c2s) + 1] = data
        /\ \A i \in 1 .. Len(c2s) : c2s'[i] = c2s[i]
    BY <2>1, <2>3, <1>0
  <2>5. Running = 1 /\ Running' = 0 /\ ~Gone /\ ~Gone'
    BY <2>1 DEF Running, Gone
  <2>6. ASSUME NEW i \in 1 .. Len(c2s') PROVE Covers(in_flight_inputs[i], 0, Ran(c2s'[i]))
    <3>1. i \in 1 .. Len(c2s) \/ i = Len(c2s) + 1
      BY <2>4, <1>0
    <3> QED BY <3>1, <2>1, <2>3, <2>4 DEF WireInv
  <2>7. ASSUME NEW i \in 1 .. Len(s2c)
        PROVE  Covers(in_flight_inputs[Len(c2s') + Running' + i], 0, s2c[i].payload)
    <3>1. Len(c2s') + Running' + i = Len(c2s) + Running + i
      BY <2>4, <2>5, <1>0
    <3> QED BY <3>1 DEF WireInv
  <2>8. Len(c2s') + Running' + Len(s2c) = Len(in_flight_inputs)
    BY <1>8, <1>9, <2>4, <2>5
  <2> QED BY <1>0, <2>1, <2>5, <2>6, <2>7, <2>8 DEF WireInv
<1>6. CASE ClientExit
  <2>1. PICK k \in 0 .. Len(c2s) : c2s' = SubSeq(c2s, 1, k)
    BY <1>6 DEF ClientExit
  <2>2. /\ client' = "exited" /\ s2c' = <<>>
        /\ UNCHANGED <<in_flight_inputs, in_flight_bytes>>
    BY <1>6 DEF ClientExit, flight
  <2>3. Len(c2s') = k /\ \A i \in 1 .. k : c2s'[i] = c2s[i]
    BY <2>1, <1>0
  <2>4. Running' = 0 /\ Gone'
    BY <2>2 DEF Running, Gone
  <2>5. Len(c2s') + Running' + Len(s2c') <= Len(in_flight_inputs)
    BY <2>2, <2>3, <2>4, <1>8, <1>9
  <2>6. ASSUME NEW i \in 1 .. Len(c2s') PROVE Covers(in_flight_inputs[i], 0, Ran(c2s'[i]))
    <3>1. i \in 1 .. Len(c2s) /\ c2s'[i] = c2s[i]
      BY <2>3, <1>0
    <3> QED BY <3>1 DEF WireInv
  <2> QED BY <2>2, <2>4, <2>5, <2>6 DEF WireInv
<1>7. ASSUME SendRecvLoop PROVE WireInv'
  BY <1>1, <1>2, <1>3, <1>7
  DEF SendRecvLoop, BeginMerge, MergeEntry, SkipEntry, EndMerge, SendFails, RecvFails,
      SaveException, EndFill, SelectTimeout, SplitEntry, EndSplit, MarkDead
<1> QED
  BY <1>1, <1>4, <1>5, <1>6, <1>7, Footprints
  DEF Next, vars, flight, remote, ClientLoop

(* Where an entry is: a step moves entries between the queue, the batch, the
   flight and the reply.  Only Schedule adds one, and only SplitEntry takes
   one out.                                                                  *)
LEMMA EntriesStep ==
  ASSUME LinkInv, [Next]_vars
  PROVE  /\ SplitEntry => Entries = Entries' \cup {Head(reply.parts)}
         /\ \A w \in Workers, r \in Requests, priority \in BOOLEAN :
              Schedule(w, r, priority) => Entries' = Entries \cup {held'[w]}
         /\ \/ SplitEntry
            \/ \E w \in Workers, r \in Requests, priority \in BOOLEAN : Schedule(w, r, priority)
            \/ Entries' = Entries
<1>0. /\ queue \in Seq(Entry) /\ batch.parts \in Seq(Entry) /\ reply.parts \in Seq(Entry)
      /\ in_flight_inputs \in Seq(Seq(Entry))
  BY DEF LinkInv, TypeOK, SchedType, LoopType, FlightType
<1>1. ASSUME UNCHANGED <<queue, batch, reply, in_flight_inputs>> PROVE Entries' = Entries
  BY <1>1 DEF Entries
<1>2. ASSUME NEW w \in Workers, NEW r \in Requests, NEW priority \in BOOLEAN,
             Schedule(w, r, priority)
      PROVE  Entries' = Entries \cup {held'[w]}
  <2> DEFINE e == [ticket |-> next_ticket, n |-> r.n, bytes |-> r.bytes]
  <2>1. e \in Entry
    BY ConstantsAssumption DEF Entry, LinkInv, TypeOK, SchedType, BiggerMaxBatchN
  <2>2. /\ queue' = <<e>> \o queue \/ queue' = Append(queue, e)
        /\ held' = [held EXCEPT ![w] = e]
        /\ UNCHANGED <<batch, reply, in_flight_inputs>>
    BY <1>2 DEF Schedule, loop, flight
  <2> HIDE DEF e
  <2>3. ToSet(queue') = ToSet(queue) \cup {e}
    <3>1. ToSet(Append(queue, e)) = ToSet(queue) \cup {e}
      BY <1>0, <2>1, ToSetAppend
    <3>2. ToSet(<<e>> \o queue) = ToSet(queue) \cup {e}
      BY <1>0, <2>1, ToSetFront
    <3> QED BY <2>2, <3>1, <3>2
  <2>4. held'[w] = e
    BY <2>2 DEF LinkInv, TypeOK, CallerType
  <2> QED BY <2>2, <2>3, <2>4 DEF Entries
<1>3. ASSUME BeginMerge PROVE Entries' = Entries
  <2>1. batch = EmptyBatch /\ batch' = EmptyBatch
    BY <1>3 DEF BeginMerge, LinkInv, BatchInv
  <2> QED BY <1>1, <1>3, <2>1 DEF BeginMerge, sched, flight
<1>4. ASSUME MergeEntry PROVE Entries' = Entries
  <2>1. scan \in 1 .. Len(queue) /\ queue[scan] \in Entry
    BY <1>0, <1>4 DEF MergeEntry, LinkInv, TypeOK, LoopType
  <2>2. ToSet(queue) = ToSet(queue') \cup {queue[scan]}
    BY <1>0, <1>4, <2>1, RemoveAtProperties DEF MergeEntry
  <2>3. batch'.parts = Append(batch.parts, queue[scan])
    BY <1>4 DEF MergeEntry, AddToBatch
  <2>4. ToSet(batch'.parts) = ToSet(batch.parts) \cup {queue[scan]}
    BY <1>0, <2>1, <2>3, ToSetAppend
  <2>5. UNCHANGED <<reply, in_flight_inputs>>
    BY <1>4 DEF MergeEntry, flight
  <2> QED BY <2>2, <2>4, <2>5 DEF Entries
<1>5. ASSUME SendBatch PROVE Entries' = Entries
  <2>1. AllOf(in_flight_inputs') = AllOf(in_flight_inputs) \cup ToSet(batch.parts)
    BY <1>0, <1>5, AllOfAppend DEF SendBatch
  <2>2. ToSet(batch'.parts) = {}
    BY <1>5 DEF SendBatch, EmptyBatch, ToSet
  <2>3. UNCHANGED <<queue, reply>>
    BY <1>5 DEF SendBatch, sched
  <2> QED BY <2>1, <2>2, <2>3 DEF Entries
<1>6. ASSUME RecvReply PROVE Entries' = Entries
  <2>1. c2s # <<>> /\ c2s \in Seq(Seq(ResultOf)) /\ s2c \in Seq(Message)
    BY <1>6 DEF RecvReply, LinkInv, TypeOK, RemoteType
  <2>2. Len(c2s) + Running + Len(s2c) <= Len(in_flight_inputs)
    BY DEF LinkInv, WireInv
  <2>3. Len(c2s) >= 1 /\ Running \in Nat /\ Len(s2c) \in Nat /\ Len(in_flight_inputs) \in Nat
    BY <2>1, <1>0 DEF Running
  <2>4. Len(in_flight_inputs) >= 1
    BY <2>2, <2>3
  <2>5. in_flight_inputs # <<>>
    BY <2>4
  <2>6. AllOf(in_flight_inputs) = AllOf(in_flight_inputs') \cup ToSet(Head(in_flight_inputs))
    BY <1>0, <1>6, <2>5, AllOfTail DEF RecvReply
  <2>7. reply'.parts = Head(in_flight_inputs) /\ UNCHANGED <<queue, batch>>
    BY <1>6 DEF RecvReply, sched
  <2>8. ToSet(reply.parts) = {}
    BY <1>6 DEF RecvReply, LinkInv, SplitInv, NoReply, ToSet
  <2> QED BY <2>6, <2>7, <2>8 DEF Entries
<1>7. ASSUME SplitEntry PROVE Entries = Entries' \cup {Head(reply.parts)}
  <2>1. reply.parts # <<>> /\ reply'.parts = Tail(reply.parts)
        /\ UNCHANGED <<queue, batch, in_flight_inputs>>
    BY <1>7 DEF SplitEntry, sched, flight, LinkInv, TypeOK, LoopType
  <2>2. ToSet(reply.parts) = ToSet(reply'.parts) \cup {Head(reply.parts)}
    BY <1>0, <2>1, ToSetTail
  <2> QED BY <2>1, <2>2 DEF Entries
<1>8. ASSUME EndSplit PROVE Entries' = Entries
  <2>1. reply.parts = <<>> /\ reply'.parts = <<>> /\ UNCHANGED <<queue, batch, in_flight_inputs>>
    BY <1>8 DEF EndSplit, NoReply, sched, flight
  <2> QED BY <2>1 DEF Entries
<1>9. ASSUME SendRecvLoop, ~SplitEntry PROVE Entries' = Entries
  BY <1>1, <1>3, <1>4, <1>5, <1>6, <1>8, <1>9
  DEF SendRecvLoop, SkipEntry, EndMerge, SendFails, RecvFails,
      SaveException, EndFill, SelectTimeout, MarkDead, sched, loop, flight
<1>10. ASSUME NEW w \in Workers, GetResults(w) \/ Resume(w) \/ Abandon(w)
       PROVE  Entries' = Entries
  BY <1>1, <1>10
  DEF GetResults, Sleep, TakeResults, LoseClient, Resume, Abandon, sched, loop, flight
<1>11. ASSUME ClientLoop \/ ClientExit PROVE Entries' = Entries
  BY <1>1, <1>11, Footprints DEF sched, loop, flight
<1>12. ASSUME UNCHANGED vars PROVE Entries' = Entries
  BY <1>1, <1>12 DEF vars
<1> QED
  BY <1>2, <1>7, <1>9, <1>10, <1>11, <1>12 DEF Next, Worker

(* A step that issues no ticket and delivers no result: it adds no entry, no
   result and no waiting worker.                                             *)
Quiet ==
  /\ Entries' \subseteq Entries
  /\ next_ticket' = next_ticket
  /\ \A t \in DOMAIN results' : t \in DOMAIN results /\ results'[t] = results[t]
  /\ \A w \in Workers : worker'[w] # "idle" => worker[w] # "idle" /\ held'[w] = held[w]
  /\ \A w \in Workers : Waiting(w)' => Waiting(w)

(* All steps are quiet except Schedule and SplitEntry.                       *)
LEMMA QuietSteps ==
  ASSUME LinkInv, [Next]_vars
  PROVE  \/ Quiet
         \/ SplitEntry /\ Entries = Entries' \cup {Head(reply.parts)}
         \/ \E w \in Workers, r \in Requests, priority \in BOOLEAN :
              Schedule(w, r, priority) /\ Entries' = Entries \cup {held'[w]}
<1>0. CallerType /\ OutcomeType
  BY DEF LinkInv, TypeOK
<1>1. ASSUME UNCHANGED <<next_ticket, results>>, UNCHANGED caller, Entries' = Entries PROVE Quiet
  BY <1>1 DEF Quiet, caller, Waiting
<1>2. ASSUME UNCHANGED <<next_ticket, results, held>>, NotifyAll, Entries' = Entries PROVE Quiet
  BY <1>0, <1>2 DEF Quiet, NotifyAll, Waiting, CallerType
<1>3. ASSUME NEW w \in Workers, Sleep(w) \/ LoseClient(w), Entries' = Entries PROVE Quiet
  BY <1>0, <1>3 DEF Quiet, Sleep, LoseClient, Waiting, CallerType, sched, outcome
<1>4. ASSUME NEW w \in Workers, TakeResults(w), Entries' = Entries PROVE Quiet
  BY <1>0, <1>4 DEF Quiet, TakeResults, Waiting, CallerType, OutcomeType, sched
<1>5. ASSUME NEW w \in Workers, Resume(w) \/ Abandon(w), Entries' = Entries PROVE Quiet
  BY <1>0, <1>5 DEF Quiet, Resume, Abandon, Waiting, CallerType, sched, outcome
<1>6. ASSUME SendRecvLoop, ~SplitEntry, Entries' = Entries PROVE Quiet
  BY <1>1, <1>2, <1>6
  DEF SendRecvLoop, BeginMerge, MergeEntry, SkipEntry, EndMerge, SendBatch, SendFails, RecvFails,
      SaveException, EndFill, SelectTimeout, RecvReply, EndSplit, MarkDead, sched, outcome
<1>7. ASSUME ClientLoop \/ ClientExit, Entries' = Entries PROVE Quiet
  BY <1>1, <1>7, Footprints DEF sched, outcome
<1>8. ASSUME UNCHANGED vars, Entries' = Entries PROVE Quiet
  BY <1>1, <1>8 DEF vars, caller
<1>9. ASSUME Entries' = Entries, ~SplitEntry,
             ~ \E w \in Workers, r \in Requests, priority \in BOOLEAN : Schedule(w, r, priority)
      PROVE  Quiet
  BY <1>3, <1>4, <1>5, <1>6, <1>7, <1>8, <1>9 DEF Next, Worker, GetResults
<1> QED BY <1>9, EntriesStep

(* Tickets stay fresh and distinct.                                          *)
LEMMA TicketStep == ASSUME LinkInv, [Next]_vars PROVE TicketInv'
<1>0. CallerType /\ OutcomeType /\ next_ticket \in Nat /\ TicketInv
  BY DEF LinkInv, TypeOK, SchedType
<1>1. CASE Quiet
  BY <1>0, <1>1 DEF Quiet, TicketInv, Waiting
<1>2. ASSUME SplitEntry, Entries = Entries' \cup {Head(reply.parts)} PROVE TicketInv'
  <2>1. /\ DOMAIN results' = DOMAIN results \cup {Head(reply.parts).ticket}
        /\ UNCHANGED <<next_ticket, worker, held>>
    BY <1>2 DEF SplitEntry, sched, caller
  <2>2. Head(reply.parts).ticket < next_ticket
    BY <1>0, <1>2 DEF TicketInv
  <2> QED BY <1>0, <1>2, <2>1, <2>2 DEF TicketInv, Waiting
<1>3. ASSUME NEW w \in Workers, NEW r \in Requests, NEW priority \in BOOLEAN,
             Schedule(w, r, priority), Entries' = Entries \cup {held'[w]}
      PROVE  TicketInv'
  <2>1. /\ held'[w].ticket = next_ticket /\ worker[w] = "idle"
        /\ \A v \in Workers : v # w => held'[v] = held[v] /\ worker'[v] = worker[v]
        /\ next_ticket' = next_ticket + 1
        /\ UNCHANGED results
    BY <1>0, <1>3 DEF Schedule, CallerType, outcome
  <2>2. \A e \in Entries' : e.ticket < next_ticket'
    <3>1. ASSUME NEW e \in Entries PROVE e.ticket < next_ticket'
      <4>1. e.ticket < next_ticket /\ e \in Entry
        BY <1>0, EntriesAreEntries DEF TicketInv, LinkInv
      <4> QED BY <4>1, <2>1, <1>0 DEF Entry
    <3> QED BY <3>1, <1>0, <1>3, <2>1
  <2>3. \A t \in DOMAIN results' : t < next_ticket'
    BY <1>0, <2>1 DEF TicketInv, OutcomeType
  <2>4. \A v \in Workers : held[v].ticket \in Nat
    BY <1>0 DEF CallerType, Entry
  <2>5. \A v \in Workers : worker'[v] # "idle" => held'[v].ticket < next_ticket'
    BY <1>0, <2>1, <2>4 DEF TicketInv
  <2>6. \A v \in Workers : v # w /\ Waiting(v)' => Waiting(v) /\ held'[v].ticket # held'[w].ticket
    BY <1>0, <2>1, <2>4 DEF TicketInv, Waiting
  <2>7. \A u, v \in Workers :
          Waiting(u)' /\ Waiting(v)' /\ held'[u].ticket = held'[v].ticket => u = v
    BY <1>0, <2>1, <2>6 DEF TicketInv
  <2> QED BY <2>2, <2>3, <2>5, <2>7 DEF TicketInv
<1> QED BY <1>1, <1>2, <1>3, QuietSteps

(* Results delivered to a waiting worker are those of its inputs.            *)
LEMMA OwnStep == ASSUME LinkInv, [Next]_vars PROVE OwnInv'
<1>0. CallerType /\ OutcomeType /\ next_ticket \in Nat /\ TicketInv /\ OwnInv
  BY DEF LinkInv, TypeOK, SchedType
<1>1. CASE Quiet
  <2> SUFFICES ASSUME NEW w \in Workers, Waiting(w)'
               PROVE  /\ \A e \in Entries' : e.ticket = held'[w].ticket => e = held'[w]
                      /\ held'[w].ticket \in DOMAIN results' =>
                           results'[held'[w].ticket] =
                             [j \in 1 .. held'[w].n |-> RunInput(<<held'[w].ticket, j>>)]
    BY DEF OwnInv
  <2>1. Waiting(w) /\ held'[w] = held[w]
    BY <1>1 DEF Quiet, Waiting
  <2> QED BY <1>0, <1>1, <2>1 DEF Quiet, OwnInv
<1>2. ASSUME SplitEntry, Entries = Entries' \cup {Head(reply.parts)} PROVE OwnInv'
  <2> DEFINE e == Head(reply.parts)
             own == SubSeq(reply.data, data_index + 1, data_index + e.n)
  <2>1. /\ results' = [t \in DOMAIN results \cup {e.ticket} |->
                          IF t = e.ticket THEN own ELSE results[t]]
        /\ UNCHANGED <<worker, held>>
    BY <1>2 DEF SplitEntry, caller
  <2>2. own = [j \in 1 .. e.n |-> RunInput(<<e.ticket, j>>)]
    <3>1. /\ reply.parts \in Seq(Entry) /\ reply.parts # <<>>
          /\ reply.data \in Seq(ResultOf) /\ data_index \in Nat
      BY <1>2 DEF SplitEntry, LinkInv, TypeOK, LoopType
    <3>2. e.n \in Nat
      <4>1. e \in Entry
        BY <3>1
      <4> QED BY <4>1 DEF Entry
    <3>3. Covers(reply.parts, data_index, Ran(reply.data))
      BY <1>2 DEF SplitEntry, LinkInv, SplitInv
    <3>4. /\ data_index + e.n <= Len(Ran(reply.data))
          /\ \A j \in 1 .. e.n : Ran(reply.data)[data_index + j] = <<e.ticket, j>>
      BY <3>1, <3>3, RanProperties, CoversHead
    <3> HIDE DEF e
    <3>5. Len(own) = e.n /\ \A j \in 1 .. e.n : own[j] = reply.data[data_index + j]
      <4>1. data_index + e.n <= Len(reply.data)
        BY <3>1, <3>4, RanProperties
      <4> QED BY <4>1, <3>1, <3>2, SMTT(30)
    <3>6. \A j \in 1 .. e.n : reply.data[data_index + j] = RunInput(<<e.ticket, j>>)
      <4>1. \A j \in 1 .. e.n : data_index + j \in 1 .. Len(reply.data)
        BY <3>1, <3>2, <3>4, RanProperties
      <4> QED BY <4>1, <3>1, <3>4, RanProperties
    <3>7. own = [j \in 1 .. e.n |-> own[j]]
      <4>1. own \in Seq(ResultOf)
        BY <3>1, <3>2, <3>4, RanProperties
      <4> QED BY <4>1, <3>5
    <3> QED BY <3>5, <3>6, <3>7
  <2>3. e \in Entries
    BY <1>2
  <2> HIDE DEF e, own
  <2> SUFFICES ASSUME NEW w \in Workers, Waiting(w)'
               PROVE  /\ \A x \in Entries' : x.ticket = held'[w].ticket => x = held'[w]
                      /\ held'[w].ticket \in DOMAIN results' =>
                           results'[held'[w].ticket] =
                             [j \in 1 .. held'[w].n |-> RunInput(<<held'[w].ticket, j>>)]
    BY DEF OwnInv
  <2>4. Waiting(w) /\ held'[w] = held[w]
    BY <2>1 DEF Waiting
  <2>5. held[w].ticket = e.ticket => e = held[w]
    BY <1>0, <2>3, <2>4 DEF OwnInv
  <2> QED BY <1>0, <1>2, <2>1, <2>2, <2>4, <2>5 DEF OwnInv
<1>3. ASSUME NEW w \in Workers, NEW r \in Requests, NEW priority \in BOOLEAN,
             Schedule(w, r, priority), Entries' = Entries \cup {held'[w]}
      PROVE  OwnInv'
  <2>1. /\ held'[w].ticket = next_ticket
        /\ \A v \in Workers : v # w => held'[v] = held[v] /\ worker'[v] = worker[v]
        /\ UNCHANGED results
    BY <1>0, <1>3 DEF Schedule, CallerType, outcome
  <2>2. \A v \in Workers : held[v].ticket \in Nat
    BY <1>0 DEF CallerType, Entry
  <2>3. \A e \in Entries : e.ticket < next_ticket /\ e.ticket \in Nat
    BY <1>0, EntriesAreEntries DEF TicketInv, Entry, LinkInv
  <2> SUFFICES ASSUME NEW v \in Workers, Waiting(v)'
               PROVE  /\ \A x \in Entries' : x.ticket = held'[v].ticket => x = held'[v]
                      /\ held'[v].ticket \in DOMAIN results' =>
                           results'[held'[v].ticket] =
                             [j \in 1 .. held'[v].n |-> RunInput(<<held'[v].ticket, j>>)]
    BY DEF OwnInv
  <2>4. CASE v = w
    <3>1. next_ticket \notin DOMAIN results
      BY <1>0 DEF TicketInv
    <3> QED BY <1>0, <1>3, <2>1, <2>3, <2>4, <3>1
  <2>5. CASE v # w
    <3>1. Waiting(v) /\ held'[v] = held[v] /\ held[v].ticket < next_ticket
      BY <1>0, <2>1, <2>5 DEF Waiting, TicketInv
    <3>2. held[v].ticket # next_ticket
      BY <1>0, <2>2, <3>1
    <3> QED BY <1>0, <1>3, <2>1, <3>1, <3>2 DEF OwnInv
  <2> QED BY <2>4, <2>5
<1> QED BY <1>1, <1>2, <1>3, QuietSteps

-----------------------------------------------------------------------------
(* The theorems.                                                             *)

(* The initial state satisfies the invariant: nothing is queued, in flight,
   answered or waited for.                                                   *)
LEMMA InitLinkInv == ASSUME Init PROVE LinkInv
<1>1. TypeOK
  <2>1. SchedType /\ FlightType
    BY DEF Init, SchedType, FlightType
  <2>5. OutcomeType
    <3>1. results = [t \in {} |-> <<>>] /\ DOMAIN results = {}
      BY DEF Init
    <3> QED BY <3>1 DEF Init, OutcomeType
  <2>2. LoopType
    BY DEF Init, LoopType, EmptyBatch, NoReply
  <2>3. CallerType
    BY DEF Init, CallerType, NoEntry, Entry
  <2>4. RemoteType
    BY DEF Init, RemoteType, EmptyMessage, Message
  <2> QED BY <2>1, <2>2, <2>3, <2>4, <2>5 DEF Init, TypeOK
<1>2. WireInv
  BY DEF Init, WireInv, Gone, Running
<1>3. BatchInv
  <2>1. batch.parts = <<>> /\ batch.n = 0 /\ batch.payload = <<>> /\ batch = EmptyBatch
    BY DEF Init, EmptyBatch
  <2> QED BY <2>1, CoversEmpty, ConstantsAssumption DEF BatchInv, BiggerMaxBatchN
<1>4. SplitInv
  BY DEF Init, SplitInv
<1>5. Entries = {}
  BY DEF Init, Entries, AllOf, ToSet, EmptyBatch, NoReply
<1>6. TicketInv /\ OwnInv
  BY <1>5 DEF Init, TicketInv, OwnInv, Waiting
<1> QED BY <1>1, <1>2, <1>3, <1>4, <1>6 DEF LinkInv

(* The link's invariant holds in every reachable state: the messages under
   way are the batches in flight, laid out like the entries merged into them,
   and tickets name one entry each.                                          *)
THEOREM LinkInvariant == Spec => []LinkInv
<1>1. Init => LinkInv
  BY InitLinkInv
<1>2. LinkInv /\ [Next]_vars => LinkInv'
  BY TypeStep, WireStep, BatchStep, SplitStep, TicketStep, OwnStep DEF LinkInv
<1> QED BY <1>1, <1>2, PTL DEF Spec

(* Type correctness of the RealClient process, its callers and its client.   *)
THEOREM TypeCorrect == Spec => []TypeOK
<1>1. LinkInv => TypeOK
  BY DEF LinkInv
<1> QED BY <1>1, LinkInvariant, PTL

(* get_results returns exactly the results of the inputs that were scheduled
   under the ticket, for every number of workers, entry sizes, merging order
   and moment at which the client fails.                                     *)
THEOREM ResultsAreOwn == Spec => []RightResults
<1>1. Init => RightResults
  BY DEF Init, RightResults
<1>2. LinkInv /\ RightResults /\ [Next]_vars => RightResults'
  <2> SUFFICES ASSUME LinkInv, RightResults, [Next]_vars,
                      NEW v \in Workers, worker'[v] = "returned"
               PROVE  ret'[v] = [j \in 1 .. held'[v].n |-> RunInput(<<held'[v].ticket, j>>)]
    BY DEF RightResults
  <2>0. CallerType /\ OwnInv
    BY DEF LinkInv, TypeOK
  <2>1. ASSUME worker[v] = "returned", held'[v] = held[v], ret'[v] = ret[v]
        PROVE  ret'[v] = [j \in 1 .. held'[v].n |-> RunInput(<<held'[v].ticket, j>>)]
    BY <2>1 DEF RightResults
  <2>2. ASSUME NEW w \in Workers, TakeResults(w)
        PROVE  ret'[v] = [j \in 1 .. held'[v].n |-> RunInput(<<held'[v].ticket, j>>)]
    <3>1. CASE v = w
      <4>1. /\ Waiting(w) /\ held' = held /\ held[w].ticket \in DOMAIN results
            /\ ret'[w] = results[held[w].ticket]
        BY <2>0, <2>2 DEF TakeResults, Waiting, CallerType
      <4> QED BY <2>0, <3>1, <4>1 DEF OwnInv
    <3>2. CASE v # w
      BY <2>0, <2>1, <2>2, <3>2 DEF TakeResults, CallerType
    <3> QED BY <3>1, <3>2
  <2>3. ASSUME NEW w \in Workers, Worker(w), ~TakeResults(w)
        PROVE  worker[v] = "returned" /\ held'[v] = held[v] /\ ret'[v] = ret[v]
    BY <2>0, <2>3 DEF Worker, GetResults, Schedule, Sleep, LoseClient, Resume, Abandon, CallerType
  <2>4. ASSUME UNCHANGED caller
        PROVE  worker[v] = "returned" /\ held'[v] = held[v] /\ ret'[v] = ret[v]
    BY <2>4 DEF caller
  <2>5. ASSUME NotifyAll, UNCHANGED <<held, ret>>
        PROVE  worker[v] = "returned" /\ held'[v] = held[v] /\ ret'[v] = ret[v]
    BY <2>0, <2>5 DEF NotifyAll, CallerType
  <2>6. ASSUME SendRecvLoop
        PROVE  worker[v] = "returned" /\ held'[v] = held[v] /\ ret'[v] = ret[v]
    BY <2>4, <2>5, <2>6
    DEF SendRecvLoop, BeginMerge, MergeEntry, SkipEntry, EndMerge, SendBatch, SendFails, RecvFails,
        SaveException, EndFill, SelectTimeout, RecvReply, SplitEntry, EndSplit, MarkDead
  <2>7. ASSUME ClientLoop \/ ClientExit
        PROVE  worker[v] = "returned" /\ held'[v] = held[v] /\ ret'[v] = ret[v]
    BY <2>4, <2>7, Footprints
  <2>8. ASSUME UNCHANGED vars
        PROVE  worker[v] = "returned" /\ held'[v] = held[v] /\ ret'[v] = ret[v]
    BY <2>8 DEF vars
  <2> QED BY <2>1, <2>2, <2>3, <2>6, <2>7, <2>8 DEF Next
<1> QED BY <1>1, <1>2, LinkInvariant, PTL DEF Spec

(* The client never receives more inputs than it was told to expect.         *)
THEOREM NeverRefused == Spec => []ClientNeverRefuses
<1>1. LinkInv => ClientNeverRefuses
  BY DEF LinkInv, WireInv, ClientNeverRefuses
<1> QED BY <1>1, LinkInvariant, PTL

(* While the connection works, no waiting worker's entry disappears on its
   way through queue, batch, flight and split.                               *)
THEOREM EntryKept == Spec => []EntryNeverLost
<1>1. Init => EntryNeverLost
  BY DEF Init, EntryNeverLost, Waiting
<1>2. LinkInv /\ EntryNeverLost /\ [Next]_vars => EntryNeverLost'
  <2> SUFFICES ASSUME LinkInv, EntryNeverLost, [Next]_vars, NEW v \in Workers,
                      Waiting(v)', pc' \notin {"failed", "dead"}
               PROVE  held'[v] \in Entries' \/ held'[v].ticket \in DOMAIN results'
    BY DEF EntryNeverLost
  <2>0. CallerType /\ OutcomeType /\ TicketInv
    BY DEF LinkInv, TypeOK
  <2>1. pc \notin {"failed", "dead"}
    <3>1. ASSUME SendRecvLoop PROVE pc \notin {"failed", "dead"}
      BY <3>1
      DEF SendRecvLoop, BeginMerge, MergeEntry, SkipEntry, EndMerge, SendBatch, SendFails,
          RecvFails, SaveException, EndFill, SelectTimeout, RecvReply, SplitEntry, EndSplit,
          MarkDead
    <3> QED BY <3>1, Footprints DEF Next, vars
  <2>2. ASSUME NEW w \in Workers, NEW r \in Requests, NEW priority \in BOOLEAN,
               Schedule(w, r, priority)
        PROVE  held'[v] \in Entries' \/ held'[v].ticket \in DOMAIN results'
    <3>1. Entries' = Entries \cup {held'[w]} /\ results' = results
      BY <2>2, EntriesStep DEF Schedule, outcome
    <3>2. v # w => held'[v] = held[v] /\ Waiting(v)
      BY <2>0, <2>2 DEF Schedule, CallerType, Waiting
    <3> QED BY <2>1, <3>1, <3>2 DEF EntryNeverLost
  <2>3. ASSUME SplitEntry
        PROVE  held'[v] \in Entries' \/ held'[v].ticket \in DOMAIN results'
    <3>1. Entries = Entries' \cup {Head(reply.parts)}
      BY <2>3, EntriesStep
    <3>2. /\ held' = held /\ Waiting(v)
          /\ DOMAIN results' = DOMAIN results \cup {Head(reply.parts).ticket}
      BY <2>3 DEF SplitEntry, caller, Waiting
    <3> QED BY <2>1, <3>1, <3>2 DEF EntryNeverLost
  <2>4. ASSUME Quiet, Entries' = Entries, ~\E w \in Workers : TakeResults(w),
               ~SplitEntry,
               ~\E w \in Workers, r \in Requests, priority \in BOOLEAN : Schedule(w, r, priority)
        PROVE  held'[v] \in Entries' \/ held'[v].ticket \in DOMAIN results'
    <3>1. Waiting(v) /\ held'[v] = held[v]
      BY <2>4 DEF Quiet, Waiting
    <3>2. results' = results
      <4>1. ASSUME SendRecvLoop PROVE results' = results
        BY <2>4, <4>1
        DEF SendRecvLoop, BeginMerge, MergeEntry, SkipEntry, EndMerge, SendBatch, SendFails,
            RecvFails, SaveException, EndFill, SelectTimeout, RecvReply, EndSplit,
            MarkDead, outcome
      <4>2. ASSUME NEW w \in Workers, Worker(w) PROVE results' = results
        BY <2>4, <4>2 DEF Worker, GetResults, Sleep, LoseClient, Resume, Abandon, outcome
      <4>3. ASSUME ClientLoop \/ ClientExit PROVE results' = results
        BY <4>3, Footprints DEF outcome
      <4> QED BY <4>1, <4>2, <4>3 DEF Next, vars
    <3> QED BY <2>1, <2>4, <3>1, <3>2 DEF EntryNeverLost
  <2>5. ASSUME NEW w \in Workers, TakeResults(w), Entries' = Entries
        PROVE  held'[v] \in Entries' \/ held'[v].ticket \in DOMAIN results'
    <3>1. /\ held' = held /\ Waiting(w) /\ v # w /\ Waiting(v)
          /\ DOMAIN results' = DOMAIN results \ {held[w].ticket}
      BY <2>0, <2>5 DEF TakeResults, Waiting, CallerType
    <3>2. held[v].ticket # held[w].ticket
      BY <2>0, <3>1 DEF TicketInv
    <3> QED BY <2>1, <2>5, <3>1, <3>2 DEF EntryNeverLost
  <2>6. ASSUME NEW w \in Workers, TakeResults(w) PROVE Entries' = Entries
    BY <2>6 DEF TakeResults, Entries, sched, loop, flight
  <2> QED BY <2>2, <2>3, <2>4, <2>5, <2>6, QuietSteps, EntriesStep
<1> QED BY <1>1, <1>2, LinkInvariant, PTL DEF Spec

(* No worker sleeps through the notification meant for it.                   *)
THEOREM WakeupKept == Spec => []NoLostWakeup
<1>1. Init => NoLostWakeup
  BY DEF Init, NoLostWakeup
<1>2. LinkInv /\ NoLostWakeup /\ [Next]_vars => NoLostWakeup'
  <2> SUFFICES ASSUME LinkInv, NoLostWakeup, [Next]_vars,
                      NEW v \in Workers, worker'[v] = "asleep"
               PROVE  /\ ~is_dead'
                      /\ held'[v].ticket \in DOMAIN results' => pc' = "split"
    BY DEF NoLostWakeup
  <2>0. CallerType
    BY DEF LinkInv, TypeOK
  <2>1. ASSUME worker[v] = "asleep", held'[v] = held[v], is_dead' = is_dead,
               DOMAIN results' \subseteq DOMAIN results, pc' = pc \/ pc # "split"
        PROVE  /\ ~is_dead'
               /\ held'[v].ticket \in DOMAIN results' => pc' = "split"
    BY <2>1 DEF NoLostWakeup
  <2>2. ASSUME NEW w \in Workers, Worker(w)
        PROVE  /\ ~is_dead'
               /\ held'[v].ticket \in DOMAIN results' => pc' = "split"
    <3>1. CASE v = w
      <4>1. Sleep(w)
        BY <2>0, <2>2, <3>1
        DEF Worker, GetResults, Schedule, TakeResults, LoseClient, Resume, Abandon, CallerType
      <4> QED BY <3>1, <4>1 DEF Sleep, outcome
    <3>2. CASE v # w
      BY <2>0, <2>1, <2>2, <3>2
      DEF Worker, GetResults, Schedule, Sleep, TakeResults, LoseClient, Resume, Abandon,
          CallerType, outcome
    <3> QED BY <3>1, <3>2
  <2>3. ASSUME NotifyAll PROVE FALSE
    BY <2>0, <2>3 DEF NotifyAll, CallerType
  <2>4. CASE SplitEntry
    BY <2>4 DEF SplitEntry, caller, NoLostWakeup
  <2>5. ASSUME SendRecvLoop, ~SplitEntry
        PROVE  /\ worker[v] = "asleep" /\ held'[v] = held[v] /\ is_dead' = is_dead
               /\ DOMAIN results' \subseteq DOMAIN results /\ pc # "split"
    BY <2>3, <2>5
    DEF SendRecvLoop, BeginMerge, MergeEntry, SkipEntry, EndMerge, SendBatch, SendFails,
        RecvFails, SaveException, EndFill, SelectTimeout, RecvReply, EndSplit, MarkDead,
        outcome, caller
  <2>6. ASSUME ClientLoop \/ ClientExit \/ UNCHANGED vars
        PROVE  UNCHANGED <<worker, held, is_dead, results, pc>>
    BY <2>6, Footprints DEF caller, outcome, vars
  <2> QED BY <2>1, <2>2, <2>4, <2>5, <2>6 DEF Next
<1> QED BY <1>1, <1>2, LinkInvariant, PTL DEF Spec

(* Only a worker that has just been answered holds results.                  *)
HoldsNothing == \A w \in Workers : worker[w] # "returned" => ret[w] = <<>>

(* Results are handed out and used up, never left over.                      *)
LEMMA HoldsNothingStep ==
  ASSUME CallerType, HoldsNothing, [Next]_vars
  PROVE  HoldsNothing'
<1>1. ASSUME NEW w \in Workers, Worker(w) PROVE HoldsNothing'
  BY <1>1
  DEF Worker, GetResults, Schedule, Sleep, TakeResults, LoseClient, Resume, Abandon,
      HoldsNothing, CallerType
<1>2. ASSUME UNCHANGED caller PROVE HoldsNothing'
  BY <1>2 DEF caller, HoldsNothing
<1>3. ASSUME NotifyAll, UNCHANGED ret PROVE HoldsNothing'
  BY <1>3 DEF NotifyAll, HoldsNothing, CallerType
<1>4. ASSUME SendRecvLoop PROVE HoldsNothing'
  BY <1>2, <1>3, <1>4
  DEF SendRecvLoop, BeginMerge, MergeEntry, SkipEntry, EndMerge, SendBatch, SendFails, RecvFails,
      SaveException, EndFill, SelectTimeout, RecvReply, SplitEntry, EndSplit, MarkDead
<1> QED BY <1>1, <1>2, <1>4, Footprints DEF Next, vars, caller

(* The link implements the remote call its workers rely on: whatever happens
   inside, each call is answered with the results of its own inputs or fails
   after the link went down, and tickets of pending calls differ.            *)
THEOREM LinkImplementsService == Spec => ImplementsService
<1>1. Init => Service!Init /\ HoldsNothing
  BY DEF Init, Service!Init, Service!NothingAsked, NoEntry, Calls, Waiting, HoldsNothing
<1>2. LinkInv /\ HoldsNothing /\ [Next]_vars => [Service!Next]_(Service!vars)
  <2> SUFFICES ASSUME LinkInv, HoldsNothing, [Next]_vars
               PROVE  [Service!Next]_(Service!vars)
    OBVIOUS
  <2>0. /\ CallerType /\ OwnInv /\ TicketInv /\ is_dead \in BOOLEAN /\ next_ticket \in Nat
    BY DEF LinkInv, TypeOK, OutcomeType, SchedType
  <2>1. ASSUME UNCHANGED caller, UNCHANGED is_dead PROVE UNCHANGED Service!vars
    BY <2>1 DEF caller, Service!vars, Calls, Waiting
  <2>2. ASSUME NotifyAll, UNCHANGED <<held, ret>> PROVE UNCHANGED <<Calls, held, ret>>
    BY <2>0, <2>2 DEF NotifyAll, Calls, Waiting, CallerType
  <2>3. ASSUME NEW w \in Workers, NEW r \in Requests, NEW priority \in BOOLEAN,
               Schedule(w, r, priority)
        PROVE  Service!Next
    <3>1. Calls[w] = "idle" /\ Calls' = [Calls EXCEPT ![w] = "waiting"]
      BY <2>0, <2>3 DEF Schedule, Calls, Waiting, CallerType
    <3>2. \A v \in Workers : Calls[v] # "idle" => held[v].ticket # next_ticket
      <4>1. \A v \in Workers : Calls[v] # "idle" => worker[v] # "idle"
        BY DEF Calls, Waiting
      <4>2. \A v \in Workers : held[v].ticket \in Nat
        BY <2>0 DEF CallerType, Entry
      <4> QED BY <2>0, <4>1, <4>2 DEF TicketInv
    <3>3. next_ticket \in 0 .. MaxTickets - 1
      BY <2>0, <2>3, ConstantsAssumption DEF Schedule
    <3>4. /\ held' = [held EXCEPT ![w] = [ticket |-> next_ticket, n |-> r.n, bytes |-> r.bytes]]
          /\ UNCHANGED <<ret, is_dead>>
      BY <2>3 DEF Schedule, outcome
    <3>5. Service!Call(w, r, next_ticket)
      BY <3>1, <3>2, <3>4 DEF Service!Call
    <3> QED BY <3>3, <3>5 DEF Service!Next
  <2>4. ASSUME NEW w \in Workers, Sleep(w) PROVE UNCHANGED Service!vars
    <3>1. Calls' = Calls
      BY <2>0, <2>4 DEF Sleep, Calls, Waiting, CallerType
    <3> QED BY <2>4, <3>1 DEF Sleep, Service!vars, outcome
  <2>5. ASSUME NEW w \in Workers, TakeResults(w) PROVE Service!Next
    <3>1. Waiting(w) /\ held[w].ticket \in DOMAIN results
      BY <2>5 DEF TakeResults, Waiting
    <3>2. Calls[w] = "waiting" /\ Calls' = [Calls EXCEPT ![w] = "returned"]
      BY <2>0, <2>5 DEF TakeResults, Calls, Waiting, CallerType
    <3>3. results[held[w].ticket] = [j \in 1 .. held[w].n |-> [ran |-> <<held[w].ticket, j>>]]
      BY <2>0, <3>1 DEF OwnInv, RunInput
    <3>4. Service!Answer(w)
      BY <2>5, <3>2, <3>3 DEF TakeResults, Service!Answer
    <3> QED BY <3>4 DEF Service!Next
  <2>6. ASSUME NEW w \in Workers, LoseClient(w) PROVE Service!Next
    <3>1. Calls[w] = "waiting" /\ Calls' = [Calls EXCEPT ![w] = "lost"]
      BY <2>0, <2>6 DEF LoseClient, Calls, Waiting, CallerType
    <3>2. Service!Lose(w)
      BY <2>6, <3>1 DEF LoseClient, Service!Lose, outcome
    <3> QED BY <3>2 DEF Service!Next
  <2>7. ASSUME NEW w \in Workers, Resume(w) \/ Abandon(w) PROVE Service!Next
    <3>1. Calls[w] \in {"returned", "waiting"} /\ Calls' = [Calls EXCEPT ![w] = "idle"]
      BY <2>0, <2>7 DEF Resume, Abandon, Calls, Waiting, CallerType
    <3>2. ret' = [ret EXCEPT ![w] = <<>>]
      BY <2>0, <2>7 DEF Resume, Abandon, HoldsNothing, CallerType
    <3>3. held' = [held EXCEPT ![w] = NoEntry] /\ UNCHANGED is_dead
      BY <2>7 DEF Resume, Abandon, outcome
    <3>4. Service!Resume(w)
      BY <3>1, <3>2, <3>3 DEF Service!Resume, Service!NothingAsked, NoEntry
    <3> QED BY <3>4 DEF Service!Next
  <2>8. CASE MarkDead
    <3>1. UNCHANGED <<Calls, held, ret>> /\ is_dead'
      BY <2>2, <2>8 DEF MarkDead
    <3>2. CASE is_dead
      BY <3>1, <3>2 DEF Service!vars
    <3>3. CASE ~is_dead
      BY <3>1, <3>3 DEF Service!Next, Service!GoDown
    <3> QED BY <3>2, <3>3
  <2>9. CASE EndSplit
    BY <2>2, <2>9 DEF EndSplit, Service!vars, outcome
  <2>10. ASSUME SendRecvLoop, ~MarkDead, ~EndSplit PROVE UNCHANGED caller /\ UNCHANGED is_dead
    BY <2>10
    DEF SendRecvLoop, BeginMerge, MergeEntry, SkipEntry, EndMerge, SendBatch, SendFails, RecvFails,
        SaveException, EndFill, SelectTimeout, RecvReply, SplitEntry, outcome
  <2>11. ASSUME ClientLoop \/ ClientExit \/ UNCHANGED vars
         PROVE  UNCHANGED caller /\ UNCHANGED is_dead
    BY <2>11, Footprints DEF outcome, vars, caller
  <2> QED
    BY <2>1, <2>3, <2>4, <2>5, <2>6, <2>7, <2>8, <2>9, <2>10, <2>11
    DEF Next, Worker, GetResults
<1>3. LinkInv => CallerType
  BY DEF LinkInv, TypeOK
<1> QED
  BY <1>1, <1>2, <1>3, HoldsNothingStep, LinkInvariant, PTL
  DEF Spec, ImplementsService, Service!Spec

-----------------------------------------------------------------------------
(* An entry is executed once.                                                *)

(* The lists of the pipeline: the queue, the batch, the reply and then the
   batches in flight.                                                        *)
LEMMA PipelineLists ==
  ASSUME NEW q \in Seq(Entry), NEW p \in Seq(Entry), NEW r \in Seq(Entry),
         NEW f \in Seq(Seq(Entry)), NEW lists, lists = <<q, p, r>> \o f
  PROVE  /\ Len(f) \in Nat /\ DOMAIN lists = 1 .. 3 + Len(f)
         /\ lists[1] = q /\ lists[2] = p /\ lists[3] = r
         /\ \A k \in 1 .. Len(f) : lists[3 + k] = f[k]
         /\ \A a \in DOMAIN lists : a \in Nat /\ (a = 1 \/ a = 2 \/ a = 3 \/ a > 3)
         /\ \A a \in DOMAIN lists : a > 3 => a - 3 \in 1 .. Len(f) /\ lists[a] = f[a - 3]
<1>1. <<q, p, r>> \in Seq(Seq(Entry)) /\ Len(<<q, p, r>>) = 3
  OBVIOUS
<1>2. /\ lists \in Seq(Seq(Entry)) /\ Len(lists) = 3 + Len(f) /\ Len(f) \in Nat
      /\ \A i \in 1 .. 3 + Len(f) : lists[i] = IF i <= 3 THEN <<q, p, r>>[i] ELSE f[i - 3]
  BY <1>1, ConcatProperties
<1>3. DOMAIN lists = 1 .. 3 + Len(f)
  BY <1>2
<1>4. lists[1] = q /\ lists[2] = p /\ lists[3] = r
  BY <1>2
<1>5. \A k \in 1 .. Len(f) : lists[3 + k] = f[k]
  BY <1>2
<1>6. \A a \in DOMAIN lists : a > 3 => a - 3 \in 1 .. Len(f) /\ lists[a] = f[a - 3]
  BY <1>2, <1>3
<1> QED BY <1>2, <1>3, <1>4, <1>5, <1>6

(* Lists that keep tickets apart have no ticket at two places.               *)
LEMMA ApartOnce ==
  ASSUME NEW lists,
         \A a \in DOMAIN lists : Uniq(lists[a]),
         \A a, b \in DOMAIN lists : a # b => Apart(TicketsOf(lists[a]), TicketsOf(lists[b]))
  PROVE  Once(lists)
<1> SUFFICES ASSUME NEW a \in DOMAIN lists, NEW b \in DOMAIN lists,
                    NEW i \in DOMAIN lists[a], NEW j \in DOMAIN lists[b],
                    lists[a][i].ticket = lists[b][j].ticket
             PROVE  a = b /\ i = j
  BY DEF Once
<1>1. lists[a][i].ticket \in TicketsOf(lists[a]) /\ lists[b][j].ticket \in TicketsOf(lists[b])
  BY DEF TicketsOf
<1>2. a = b
  BY <1>1 DEF Apart
<1>3. i = j
  BY <1>2 DEF Uniq
<1> QED BY <1>2, <1>3

(* Keeping apart is symmetric.                                               *)
LEMMA ApartSym == \A S, T : Apart(S, T) => Apart(T, S)
  BY DEF Apart

(* The inductive invariant says what ExecutedOnce says.                      *)
LEMMA OnceInvExecutedOnce == TypeOK /\ OnceInv => ExecutedOnce
<1> SUFFICES ASSUME TypeOK, OnceInv PROVE ExecutedOnce
  OBVIOUS
<1> DEFINE f == in_flight_inputs
           p == batch.parts
           r == reply.parts
<1>1. queue \in Seq(Entry) /\ p \in Seq(Entry) /\ r \in Seq(Entry) /\ f \in Seq(Seq(Entry))
  BY DEF TypeOK, SchedType, LoopType, FlightType
<1>2. /\ Len(f) \in Nat /\ DOMAIN Pipeline = 1 .. 3 + Len(f)
      /\ Pipeline[1] = queue /\ Pipeline[2] = p /\ Pipeline[3] = r
      /\ \A a \in DOMAIN Pipeline : a \in Nat /\ (a = 1 \/ a = 2 \/ a = 3 \/ a > 3)
      /\ \A a \in DOMAIN Pipeline : a > 3 => a - 3 \in 1 .. Len(f) /\ Pipeline[a] = f[a - 3]
  BY <1>1, PipelineLists, SMTT(60) DEF Pipeline
<1>3. DOMAIN f = 1 .. Len(f)
  BY <1>1
<1>4. ASSUME NEW a \in DOMAIN Pipeline
      PROVE  /\ Uniq(Pipeline[a])
             /\ Apart(TicketsOf(Pipeline[a]), DOMAIN results)
  <2>1. CASE a = 1 \/ a = 2 \/ a = 3
    BY <2>1, <1>2, ApartSym DEF OnceInv, ListsApart
  <2>2. CASE a > 3
    BY <2>2, <1>2, <1>3 DEF OnceInv, FlightApart
  <2> QED BY <2>1, <2>2, <1>2
<1>5. ASSUME NEW a \in DOMAIN Pipeline, NEW b \in DOMAIN Pipeline, a < b
      PROVE  Apart(TicketsOf(Pipeline[a]), TicketsOf(Pipeline[b]))
  <2>1. CASE b <= 3
    BY <2>1, <1>2, <1>5 DEF OnceInv, ListsApart
  <2>2. CASE b > 3 /\ a <= 3
    <3>1. b - 3 \in DOMAIN f /\ Pipeline[b] = f[b - 3]
      BY <2>2, <1>2, <1>3
    <3>2. /\ Apart(TicketsOf(f[b - 3]), TicketsOf(queue))
          /\ Apart(TicketsOf(f[b - 3]), TicketsOf(p))
          /\ Apart(TicketsOf(f[b - 3]), TicketsOf(r))
      BY <3>1 DEF OnceInv, FlightApart
    <3>3. Pipeline[a] = queue \/ Pipeline[a] = p \/ Pipeline[a] = r
      BY <2>2, <1>2
    <3> HIDE DEF f, p, r
    <3> QED BY <3>1, <3>2, <3>3, ApartSym
  <2>3. CASE a > 3
    <3>1. /\ b - 3 \in DOMAIN f /\ Pipeline[b] = f[b - 3]
          /\ a - 3 \in DOMAIN f /\ Pipeline[a] = f[a - 3]
          /\ a - 3 # b - 3
      BY <2>3, <1>2, <1>3, <1>5
    <3> QED BY <3>1 DEF OnceInv, FlightApart
  <2> QED BY <2>1, <2>2, <2>3, <1>2
<1>6. ASSUME NEW a \in DOMAIN Pipeline, NEW b \in DOMAIN Pipeline, a # b
      PROVE  Apart(TicketsOf(Pipeline[a]), TicketsOf(Pipeline[b]))
  <2>1. a < b \/ b < a
    BY <1>2, <1>6
  <2> QED BY <2>1, <1>5, ApartSym
<1>7. Once(Pipeline)
  BY <1>4, <1>6, ApartOnce
<1>8. ASSUME NEW a \in DOMAIN Pipeline, NEW i \in DOMAIN Pipeline[a]
      PROVE  Pipeline[a][i].ticket \notin DOMAIN results
  BY <1>4 DEF Apart, TicketsOf
<1> QED BY <1>7, <1>8 DEF ExecutedOnce

(* A list that gains a new ticket at its end.                                *)
LEMMA TicketsAppend ==
  ASSUME NEW s \in Seq(Entry), NEW e \in Entry
  PROVE  /\ TicketsOf(Append(s, e)) = TicketsOf(s) \cup {e.ticket}
         /\ Uniq(s) /\ e.ticket \notin TicketsOf(s) => Uniq(Append(s, e))
<1>1. /\ DOMAIN Append(s, e) = 1 .. Len(s) + 1 /\ DOMAIN s = 1 .. Len(s) /\ Len(s) \in Nat
      /\ \A i \in 1 .. Len(s) : Append(s, e)[i] = s[i]
      /\ Append(s, e)[Len(s) + 1] = e
  OBVIOUS
<1>2. 1 .. Len(s) + 1 = 1 .. Len(s) \cup {Len(s) + 1}
  BY <1>1
<1>3. TicketsOf(Append(s, e)) = TicketsOf(s) \cup {e.ticket}
  <2>1. ASSUME NEW i \in DOMAIN Append(s, e)
        PROVE  Append(s, e)[i].ticket \in TicketsOf(s) \cup {e.ticket}
    BY <1>1, <1>2 DEF TicketsOf
  <2>2. ASSUME NEW i \in DOMAIN s PROVE s[i].ticket \in TicketsOf(Append(s, e))
    BY <1>1, <1>2 DEF TicketsOf
  <2>3. e.ticket \in TicketsOf(Append(s, e))
    BY <1>1, <1>2 DEF TicketsOf
  <2> QED BY <2>1, <2>2, <2>3, Zenon DEF TicketsOf
<1>4. ASSUME Uniq(s), e.ticket \notin TicketsOf(s),
             NEW i \in 1 .. Len(s) + 1, NEW j \in 1 .. Len(s) + 1,
             Append(s, e)[i].ticket = Append(s, e)[j].ticket
      PROVE  i = j
  <2>1. \A k \in 1 .. Len(s) : s[k].ticket # e.ticket
    BY <1>1, <1>4 DEF TicketsOf
  <2> QED BY <2>1, <1>1, <1>2, <1>4, Zenon DEF Uniq
<1> QED BY <1>1, <1>3, <1>4, Zenon DEF Uniq

(* A list that gains a new ticket at its front.                              *)
LEMMA TicketsCons ==
  ASSUME NEW s \in Seq(Entry), NEW e \in Entry
  PROVE  /\ TicketsOf(<<e>> \o s) = TicketsOf(s) \cup {e.ticket}
         /\ Uniq(s) /\ e.ticket \notin TicketsOf(s) => Uniq(<<e>> \o s)
<1> DEFINE c == <<e>> \o s
<1>1. /\ DOMAIN c = 1 .. Len(s) + 1 /\ DOMAIN s = 1 .. Len(s) /\ Len(s) \in Nat
      /\ \A i \in 1 .. Len(s) + 1 : i # 1 => i - 1 \in 1 .. Len(s) /\ c[i] = s[i - 1]
      /\ \A i \in 1 .. Len(s) : i + 1 \in 1 .. Len(s) + 1 /\ c[i + 1] = s[i]
      /\ c[1] = e
  OBVIOUS
<1> HIDE DEF c
<1>2. 1 \in 1 .. Len(s) + 1
  BY <1>1
<1>3. TicketsOf(c) = TicketsOf(s) \cup {e.ticket}
  <2>1. ASSUME NEW i \in DOMAIN c PROVE c[i].ticket \in TicketsOf(s) \cup {e.ticket}
    BY <1>1 DEF TicketsOf
  <2>2. ASSUME NEW i \in DOMAIN s PROVE s[i].ticket \in TicketsOf(c)
    BY <1>1 DEF TicketsOf
  <2>3. e.ticket \in TicketsOf(c)
    BY <1>1, <1>2 DEF TicketsOf
  <2> QED BY <2>1, <2>2, <2>3, Zenon DEF TicketsOf
<1>4. ASSUME Uniq(s), e.ticket \notin TicketsOf(s),
             NEW i \in 1 .. Len(s) + 1, NEW j \in 1 .. Len(s) + 1,
             c[i].ticket = c[j].ticket
      PROVE  i = j
  <2>1. \A k \in 1 .. Len(s) : s[k].ticket # e.ticket
    BY <1>1, <1>4 DEF TicketsOf
  <2>2. CASE i # 1 /\ j # 1
    <3>1. /\ i - 1 \in DOMAIN s /\ j - 1 \in DOMAIN s
          /\ s[i - 1].ticket = s[j - 1].ticket
      BY <2>2, <1>1, <1>4
    <3>2. i - 1 = j - 1
      BY <3>1, Zenon, <1>4 DEF Uniq
    <3> QED BY <3>2, <1>1
  <2> QED BY <2>1, <2>2, <1>1, <1>4
<1> QED BY <1>1, <1>3, <1>4, Zenon DEF Uniq, c

(* A list that loses its first ticket.                                       *)
LEMMA TicketsTail ==
  ASSUME NEW s \in Seq(Entry), s # <<>>, Uniq(s)
  PROVE  /\ TicketsOf(Tail(s)) = TicketsOf(s) \ {Head(s).ticket}
         /\ Head(s).ticket \in TicketsOf(s)
         /\ Uniq(Tail(s))
<1>1. /\ DOMAIN Tail(s) = 1 .. Len(s) - 1 /\ DOMAIN s = 1 .. Len(s)
      /\ Len(s) \in Nat /\ Len(s) >= 1 /\ Head(s) = s[1]
      /\ \A i \in 1 .. Len(s) - 1 : i + 1 \in 1 .. Len(s) /\ Tail(s)[i] = s[i + 1]
  OBVIOUS
<1>2. 1 \in 1 .. Len(s) /\ \A i \in 1 .. Len(s) : i # 1 => i - 1 \in 1 .. Len(s) - 1 /\ i - 1 + 1 = i
  BY <1>1
<1>3. Head(s).ticket \in TicketsOf(s)
  BY <1>1, <1>2 DEF TicketsOf
<1>4. ASSUME NEW i \in 1 .. Len(s) - 1
      PROVE  Tail(s)[i].ticket \in TicketsOf(s) /\ Tail(s)[i].ticket # Head(s).ticket
  <2>1. i + 1 \in 1 .. Len(s) /\ i + 1 # 1
    BY <1>1
  <2> QED BY <2>1, <1>1, <1>2 DEF Uniq, TicketsOf
<1>5. ASSUME NEW i \in 1 .. Len(s), s[i].ticket # Head(s).ticket
      PROVE  s[i].ticket \in TicketsOf(Tail(s))
  <2>1. i # 1
    BY <1>1, <1>5
  <2>2. i - 1 \in DOMAIN Tail(s) /\ Tail(s)[i - 1] = s[i]
    BY <2>1, <1>1, <1>2
  <2> QED BY <2>2 DEF TicketsOf
<1>6. TicketsOf(Tail(s)) = TicketsOf(s) \ {Head(s).ticket}
  BY <1>1, <1>4, <1>5, Zenon DEF TicketsOf
<1>7. Uniq(Tail(s))
  BY <1>1 DEF Uniq
<1> QED BY <1>3, <1>6, <1>7

(* A list that loses the ticket at position k.                               *)
LEMMA TicketsRemoveAt ==
  ASSUME NEW s \in Seq(Entry), NEW k \in 1 .. Len(s), Uniq(s)
  PROVE  /\ TicketsOf(RemoveAt(s, k)) = TicketsOf(s) \ {s[k].ticket}
         /\ s[k].ticket \in TicketsOf(s)
         /\ Uniq(RemoveAt(s, k))
<1> DEFINE d == RemoveAt(s, k)
<1>1. /\ DOMAIN d = 1 .. Len(s) - 1 /\ DOMAIN s = 1 .. Len(s) /\ Len(s) \in Nat
      /\ \A i \in 1 .. Len(s) - 1 : d[i] = IF i < k THEN s[i] ELSE s[i + 1]
  <2>1. /\ d \in Seq(Entry) /\ Len(d) = Len(s) - 1
        /\ \A i \in 1 .. Len(s) - 1 : d[i] = IF i < k THEN s[i] ELSE s[i + 1]
    BY RemoveAtProperties
  <2>2. DOMAIN d = 1 .. Len(s) - 1
    BY <2>1
  <2> QED BY <2>1, <2>2
<1> HIDE DEF d
<1> DEFINE from(i) == IF i < k THEN i ELSE i + 1
<1>2. \A i \in 1 .. Len(s) - 1 : from(i) \in 1 .. Len(s) /\ from(i) # k /\ d[i] = s[from(i)]
  BY <1>1
<1>3. \A i, j \in 1 .. Len(s) - 1 : from(i) = from(j) => i = j
  BY <1>1
<1>4. \A j \in 1 .. Len(s) : j # k => \E i \in 1 .. Len(s) - 1 : from(i) = j
  <2> SUFFICES ASSUME NEW j \in 1 .. Len(s), j # k
               PROVE  \E i \in 1 .. Len(s) - 1 : from(i) = j
    OBVIOUS
  <2>1. CASE j < k
    <3>1. j \in 1 .. Len(s) - 1 /\ from(j) = j
      BY <2>1, <1>1
    <3> QED BY <3>1, Zenon
  <2>2. CASE j > k
    <3>1. j - 1 \in 1 .. Len(s) - 1 /\ from(j - 1) = j
      BY <2>2, <1>1
    <3> QED BY <3>1, Zenon
  <2> QED BY <2>1, <2>2
<1> HIDE DEF from
<1>5. s[k].ticket \in TicketsOf(s)
  BY <1>1 DEF TicketsOf
<1>6. ASSUME NEW i \in 1 .. Len(s) - 1
      PROVE  d[i].ticket \in TicketsOf(s) /\ d[i].ticket # s[k].ticket
  <2>1. from(i) \in DOMAIN s /\ from(i) # k /\ d[i] = s[from(i)] /\ k \in DOMAIN s
    BY <1>1, <1>2
  <2>2. s[from(i)].ticket # s[k].ticket
    BY <2>1 DEF Uniq
  <2> QED BY <2>1, <2>2 DEF TicketsOf
<1>7. ASSUME NEW j \in 1 .. Len(s), s[j].ticket # s[k].ticket
      PROVE  s[j].ticket \in TicketsOf(d)
  <2>1. PICK i \in 1 .. Len(s) - 1 : from(i) = j
    BY <1>4, <1>7
  <2> QED BY <2>1, <1>1, <1>2 DEF TicketsOf
<1>8. TicketsOf(d) = TicketsOf(s) \ {s[k].ticket}
  BY <1>1, <1>6, <1>7, Zenon DEF TicketsOf
<1>9. Uniq(d)
  <2> SUFFICES ASSUME NEW i \in 1 .. Len(s) - 1, NEW j \in 1 .. Len(s) - 1,
                      d[i].ticket = d[j].ticket
               PROVE  i = j
    BY <1>1 DEF Uniq
  <2>1. /\ from(i) \in DOMAIN s /\ from(j) \in DOMAIN s
        /\ s[from(i)].ticket = s[from(j)].ticket
    BY <1>1, <1>2
  <2>2. from(i) = from(j)
    BY <2>1 DEF Uniq
  <2> QED BY <2>2, <1>3
<1> QED BY <1>5, <1>8, <1>9 DEF d

(* Every ticket in the pipeline is the ticket of an entry.                   *)
LEMMA TicketsOfEntries ==
  /\ \A t \in TicketsOf(queue) : \E e \in Entries : e.ticket = t
  /\ \A t \in TicketsOf(batch.parts) : \E e \in Entries : e.ticket = t
  /\ \A t \in TicketsOf(reply.parts) : \E e \in Entries : e.ticket = t
  /\ \A k \in DOMAIN in_flight_inputs :
       \A t \in TicketsOf(in_flight_inputs[k]) : \E e \in Entries : e.ticket = t
<1>1. ASSUME NEW s, ToSet(s) \subseteq Entries, NEW t \in TicketsOf(s)
      PROVE  \E e \in Entries : e.ticket = t
  <2>1. PICK i \in DOMAIN s : s[i].ticket = t
    BY DEF TicketsOf
  <2>2. s[i] \in Entries
    BY <1>1 DEF ToSet
  <2> QED BY <2>1, <2>2
<1>2. \A k \in DOMAIN in_flight_inputs : ToSet(in_flight_inputs[k]) \subseteq Entries
  BY DEF Entries, AllOf
<1>3. ToSet(queue) \subseteq Entries /\ ToSet(batch.parts) \subseteq Entries
      /\ ToSet(reply.parts) \subseteq Entries
  BY DEF Entries
<1> QED BY <1>1, <1>2, <1>3, Zenon

(* No step puts a ticket at a second place: each pop has one push, a batch is
   in flight or in the split and not both, and only a new ticket is queued.   *)
LEMMA OnceStep == ASSUME LinkInv, OnceInv, [Next]_vars PROVE OnceInv'
<1>0. /\ queue \in Seq(Entry) /\ batch.parts \in Seq(Entry) /\ reply.parts \in Seq(Entry)
      /\ in_flight_inputs \in Seq(Seq(Entry))
  BY DEF LinkInv, TypeOK, SchedType, LoopType, FlightType
<1>1. ASSUME UNCHANGED <<queue, batch, reply, in_flight_inputs>>,
             DOMAIN results' \subseteq DOMAIN results
      PROVE  OnceInv'
  <2>1. ListsApart'
    BY <1>1 DEF OnceInv, ListsApart, Apart
  <2>2. FlightApart'
    BY <1>1 DEF OnceInv, FlightApart, Apart
  <2> QED BY <2>1, <2>2 DEF OnceInv
<1>e. TicketsOf(<<>>) = {} /\ Uniq(<<>>)
  BY DEF TicketsOf, Uniq
<1>2. ASSUME NEW w \in Workers, NEW r \in Requests, NEW priority \in BOOLEAN,
             Schedule(w, r, priority)
      PROVE  OnceInv'
  <2> DEFINE e == [ticket |-> next_ticket, n |-> r.n, bytes |-> r.bytes]
  <2>1. e \in Entry /\ e.ticket = next_ticket
    BY ConstantsAssumption, SMTT(30) DEF Entry, LinkInv, TypeOK, SchedType, BiggerMaxBatchN
  <2>2. /\ queue' = <<e>> \o queue \/ queue' = Append(queue, e)
        /\ UNCHANGED <<batch, reply, in_flight_inputs, results>>
    BY <1>2 DEF Schedule, loop, flight, outcome
  <2> HIDE DEF e
  <2>3. \A x \in Entries : x.ticket # next_ticket
    <3>1. \A x \in Entries : x.ticket \in Nat /\ x.ticket < next_ticket
      BY EntriesAreEntries DEF LinkInv, TicketInv, Entry
    <3> QED BY <3>1 DEF LinkInv, TypeOK, SchedType
  <2>4. next_ticket \notin DOMAIN results
    BY DEF LinkInv, TypeOK, SchedType, OutcomeType, TicketInv
  <2>5. /\ next_ticket \notin TicketsOf(queue)
        /\ next_ticket \notin TicketsOf(batch.parts)
        /\ next_ticket \notin TicketsOf(reply.parts)
        /\ \A k \in DOMAIN in_flight_inputs : next_ticket \notin TicketsOf(in_flight_inputs[k])
    BY <2>3, TicketsOfEntries, Zenon
  <2>6. TicketsOf(queue') = TicketsOf(queue) \cup {next_ticket} /\ Uniq(queue')
    <3>1. Uniq(queue)
      BY DEF OnceInv, ListsApart
    <3>2. /\ TicketsOf(Append(queue, e)) = TicketsOf(queue) \cup {next_ticket}
          /\ Uniq(Append(queue, e))
      BY <3>1, <1>0, <2>1, <2>5, TicketsAppend
    <3>3. /\ TicketsOf(<<e>> \o queue) = TicketsOf(queue) \cup {next_ticket}
          /\ Uniq(<<e>> \o queue)
      BY <3>1, <1>0, <2>1, <2>5, TicketsCons
    <3> QED BY <3>2, <3>3, <2>2
  <2>7. ListsApart'
    BY <2>2, <2>4, <2>5, <2>6 DEF OnceInv, ListsApart, Apart
  <2>8. FlightApart'
    BY <2>2, <2>4, <2>5, <2>6 DEF OnceInv, FlightApart, Apart
  <2> QED BY <2>7, <2>8 DEF OnceInv
<1>3. ASSUME BeginMerge PROVE OnceInv'
  <2>1. batch = EmptyBatch /\ batch' = EmptyBatch
    BY <1>3 DEF BeginMerge, LinkInv, BatchInv
  <2> QED BY <1>1, <1>3, <2>1 DEF BeginMerge, sched, flight, outcome
<1>4. ASSUME MergeEntry PROVE OnceInv'
  <2> DEFINE t == queue[scan].ticket
  <2>1. scan \in 1 .. Len(queue) /\ queue[scan] \in Entry
    BY <1>0, <1>4 DEF MergeEntry, LinkInv, TypeOK, LoopType
  <2>2. /\ queue' = RemoveAt(queue, scan)
        /\ batch'.parts = Append(batch.parts, queue[scan])
        /\ UNCHANGED <<reply, in_flight_inputs, results>>
    BY <1>4 DEF MergeEntry, AddToBatch, flight, outcome
  <2>3. TicketsOf(queue') = TicketsOf(queue) \ {t} /\ t \in TicketsOf(queue) /\ Uniq(queue')
    <3>1. Uniq(queue)
      BY DEF OnceInv, ListsApart
    <3> QED BY <3>1, <1>0, <2>1, <2>2, TicketsRemoveAt
  <2>4. TicketsOf(batch'.parts) = TicketsOf(batch.parts) \cup {t} /\ Uniq(batch'.parts)
    <3>1. Uniq(batch.parts) /\ t \notin TicketsOf(batch.parts)
      BY <2>3 DEF OnceInv, ListsApart, Apart
    <3> QED BY <3>1, <1>0, <2>1, <2>2, TicketsAppend
  <2> HIDE DEF t
  <2>5. ListsApart'
    BY <2>2, <2>3, <2>4 DEF OnceInv, ListsApart, Apart
  <2>6. FlightApart'
    BY <2>2, <2>3, <2>4 DEF OnceInv, FlightApart, Apart
  <2> QED BY <2>5, <2>6 DEF OnceInv
<1>5. ASSUME SendBatch PROVE OnceInv'
  <2> DEFINE f == in_flight_inputs
  <2>1. /\ f' = Append(f, batch.parts) /\ batch'.parts = <<>>
        /\ UNCHANGED <<queue, reply, results>>
    BY <1>5 DEF SendBatch, EmptyBatch, sched, outcome
  <2>2. /\ DOMAIN f = 1 .. Len(f) /\ Len(f) \in Nat
        /\ DOMAIN f' = 1 .. Len(f) + 1
        /\ \A k \in DOMAIN f : f'[k] = f[k]
        /\ f'[Len(f) + 1] = batch.parts
    BY <1>0, <2>1
  <2>3. \A k \in DOMAIN f' : k \in DOMAIN f \/ k = Len(f) + 1
    BY <2>2
  <2>4. ListsApart'
    BY <1>e, <2>1 DEF OnceInv, ListsApart, Apart
  <2>5. ASSUME NEW k \in DOMAIN f'
        PROVE  /\ Uniq(f'[k])
               /\ Apart(TicketsOf(f'[k]), TicketsOf(queue'))
               /\ Apart(TicketsOf(f'[k]), TicketsOf(batch'.parts))
               /\ Apart(TicketsOf(f'[k]), TicketsOf(reply'.parts))
               /\ Apart(TicketsOf(f'[k]), DOMAIN results')
    <3>1. CASE k \in DOMAIN f
      BY <3>1, <1>e, <2>1, <2>2 DEF OnceInv, FlightApart, Apart
    <3>2. CASE k = Len(f) + 1
      BY <3>2, <1>e, <2>1, <2>2 DEF OnceInv, ListsApart, Apart
    <3> QED BY <3>1, <3>2, <2>3
  <2>6. ASSUME NEW k \in DOMAIN f', NEW l \in DOMAIN f', k # l
        PROVE  Apart(TicketsOf(f'[k]), TicketsOf(f'[l]))
    <3>1. CASE k \in DOMAIN f /\ l \in DOMAIN f
      BY <3>1, <2>2, <2>6 DEF OnceInv, FlightApart
    <3>2. CASE k \in DOMAIN f /\ l = Len(f) + 1
      BY <3>2, <2>2 DEF OnceInv, FlightApart
    <3>3. CASE k = Len(f) + 1 /\ l \in DOMAIN f
      BY <3>3, <2>2, ApartSym DEF OnceInv, FlightApart
    <3> QED BY <3>1, <3>2, <3>3, <2>3, <2>6
  <2> QED BY <2>4, <2>5, <2>6 DEF OnceInv, FlightApart
<1>6. ASSUME RecvReply PROVE OnceInv'
  <2> DEFINE f == in_flight_inputs
  <2>1. f # <<>>
    <3>1. c2s # <<>> /\ c2s \in Seq(Seq(ResultOf)) /\ s2c \in Seq(Message)
      BY <1>6 DEF RecvReply, LinkInv, TypeOK, RemoteType
    <3>2. Len(c2s) + Running + Len(s2c) <= Len(f)
      BY DEF LinkInv, WireInv
    <3>3. Len(c2s) >= 1 /\ Running \in Nat /\ Len(s2c) \in Nat /\ Len(f) \in Nat
      BY <3>1, <1>0 DEF Running
    <3>4. Len(f) >= 1
      BY <3>2, <3>3
    <3> QED BY <3>4
  <2>2. /\ f' = Tail(f) /\ reply'.parts = f[1] /\ reply.parts = <<>>
        /\ UNCHANGED <<queue, batch, results>>
    BY <1>6 DEF RecvReply, sched, outcome, LinkInv, SplitInv, NoReply
  <2>3. /\ 1 \in DOMAIN f
        /\ \A k \in DOMAIN f' : k + 1 \in DOMAIN f /\ k + 1 # 1 /\ f'[k] = f[k + 1]
        /\ \A k, l \in DOMAIN f' : k # l => k + 1 # l + 1
    BY <1>0, <2>1, <2>2
  <2> HIDE DEF f
  <2>4. /\ \A k \in DOMAIN f :
             /\ Uniq(f[k])
             /\ Apart(TicketsOf(f[k]), TicketsOf(queue))
             /\ Apart(TicketsOf(f[k]), TicketsOf(batch.parts))
             /\ Apart(TicketsOf(f[k]), DOMAIN results)
        /\ \A k, l \in DOMAIN f : k # l => Apart(TicketsOf(f[k]), TicketsOf(f[l]))
    BY DEF OnceInv, FlightApart, f
  <2>5. ListsApart'
    <3>1. /\ Uniq(reply'.parts)
          /\ Apart(TicketsOf(queue), TicketsOf(reply'.parts))
          /\ Apart(TicketsOf(batch.parts), TicketsOf(reply'.parts))
          /\ Apart(DOMAIN results, TicketsOf(reply'.parts))
      BY <2>2, <2>3, <2>4, ApartSym
    <3> QED BY <3>1, <2>2 DEF OnceInv, ListsApart
  <2>6. ASSUME NEW k \in DOMAIN f'
        PROVE  /\ Uniq(f'[k])
               /\ Apart(TicketsOf(f'[k]), TicketsOf(queue'))
               /\ Apart(TicketsOf(f'[k]), TicketsOf(batch'.parts))
               /\ Apart(TicketsOf(f'[k]), TicketsOf(reply'.parts))
               /\ Apart(TicketsOf(f'[k]), DOMAIN results')
    <3>1. k + 1 \in DOMAIN f /\ k + 1 # 1 /\ f'[k] = f[k + 1]
      BY <2>3
    <3> QED BY <3>1, <2>2, <2>3, <2>4
  <2>7. ASSUME NEW k \in DOMAIN f', NEW l \in DOMAIN f', k # l
        PROVE  Apart(TicketsOf(f'[k]), TicketsOf(f'[l]))
    BY <2>3, <2>4, <2>7
  <2> QED BY <2>5, <2>6, <2>7 DEF OnceInv, FlightApart, f
<1>7. ASSUME SplitEntry PROVE OnceInv'
  <2> DEFINE t == Head(reply.parts).ticket
  <2>1. /\ reply.parts # <<>> /\ reply'.parts = Tail(reply.parts)
        /\ UNCHANGED <<queue, batch, in_flight_inputs>>
        /\ DOMAIN results' = DOMAIN results \cup {t}
    BY <1>7 DEF SplitEntry, sched, flight, LinkInv, TypeOK, LoopType
  <2>2. /\ TicketsOf(reply'.parts) = TicketsOf(reply.parts) \ {t} /\ t \in TicketsOf(reply.parts)
        /\ Uniq(reply'.parts)
    <3>1. Uniq(reply.parts)
      BY DEF OnceInv, ListsApart
    <3> QED BY <3>1, <1>0, <2>1, TicketsTail
  <2> HIDE DEF t
  <2>3. ListsApart'
    BY <2>1, <2>2 DEF OnceInv, ListsApart, Apart
  <2>4. FlightApart'
    BY <2>1, <2>2 DEF OnceInv, FlightApart, Apart
  <2> QED BY <2>3, <2>4 DEF OnceInv
<1>8. ASSUME EndSplit PROVE OnceInv'
  <2>1. reply.parts = <<>> /\ reply'.parts = <<>>
        /\ UNCHANGED <<queue, batch, in_flight_inputs, results>>
    BY <1>8 DEF EndSplit, NoReply, sched, flight, outcome
  <2>2. ListsApart'
    BY <2>1 DEF OnceInv, ListsApart
  <2>3. FlightApart'
    BY <2>1 DEF OnceInv, FlightApart
  <2> QED BY <2>2, <2>3 DEF OnceInv
<1>9. ASSUME SkipEntry \/ EndMerge \/ SendFails \/ EndFill \/ SelectTimeout \/ RecvFails \/ MarkDead
      PROVE  OnceInv'
  BY <1>1, <1>9
  DEF SkipEntry, EndMerge, SendFails, RecvFails,
      SaveException, EndFill, SelectTimeout, MarkDead, sched, loop, flight, outcome
<1>10. ASSUME NEW w \in Workers, Sleep(w) \/ LoseClient(w) \/ Resume(w) \/ Abandon(w)
       PROVE  OnceInv'
  BY <1>1, <1>10 DEF Sleep, LoseClient, Resume, Abandon, sched, loop, flight, outcome
<1>11. ASSUME NEW w \in Workers, TakeResults(w) PROVE OnceInv'
  <2>1. /\ DOMAIN results' = DOMAIN results \ {held[w].ticket}
        /\ UNCHANGED <<queue, batch, reply, in_flight_inputs>>
    BY <1>11 DEF TakeResults, sched, loop, flight
  <2> QED BY <1>1, <2>1
<1>12. ASSUME ClientLoop \/ ClientExit PROVE OnceInv'
  BY <1>1, <1>12, Footprints DEF sched, loop, flight, outcome
<1>13. ASSUME UNCHANGED vars PROVE OnceInv'
  BY <1>1, <1>13 DEF vars
<1> QED
  BY <1>2, <1>3, <1>4, <1>5, <1>6, <1>7, <1>8, <1>9, <1>10, <1>11, <1>12, <1>13
  DEF Next, Worker, GetResults, SendRecvLoop

(* An entry is executed once: for any number of workers and tickets, any batch
   sizes and any point at which the client exits, the RealClient process never
   merges, sends or splits an entry twice, nor one that is answered.         *)
THEOREM EntriesExecutedOnce == Spec => []ExecutedOnce
<1>1. Init => OnceInv
  <2> SUFFICES ASSUME Init PROVE OnceInv
    OBVIOUS
  <2>1. /\ queue = <<>> /\ batch.parts = <<>> /\ reply.parts = <<>> /\ in_flight_inputs = <<>>
        /\ DOMAIN results = {}
    BY DEF Init, EmptyBatch, NoReply
  <2>2. TicketsOf(<<>>) = {} /\ Uniq(<<>>)
    BY DEF TicketsOf, Uniq
  <2>3. ListsApart
    BY <2>1, <2>2 DEF ListsApart, Apart
  <2>4. FlightApart
    BY <2>1 DEF FlightApart
  <2> QED BY <2>3, <2>4 DEF OnceInv
<1>2. LinkInv /\ OnceInv /\ [Next]_vars => OnceInv'
  BY OnceStep
<1>3. LinkInv /\ OnceInv => ExecutedOnce
  BY OnceInvExecutedOnce DEF LinkInv
<1> QED BY <1>1, <1>2, <1>3, LinkInvariant, PTL DEF Spec
-----------------------------------------------------------------------------
(* The bytes of both directions.                                             *)

(* n replies of R bytes are no more than K times m bytes.                    *)
AtMost(R, n, K, m) == R * n <= K * m

(* Two batches are, when each of them is.                                    *)
LEMMA AtMostAdds ==
  ASSUME NEW R \in Nat, NEW K \in Nat, NEW x \in Nat, NEW y \in Nat, NEW u \in Nat, NEW v \in Nat,
         AtMost(R, x, K, y), AtMost(R, u, K, v)
  PROVE  AtMost(R, x + u, K, y + v)
<1>1. R * (x + u) = R * x + R * u /\ K * (y + v) = K * y + K * v
  OBVIOUS
<1>2. R * x \in Nat /\ R * u \in Nat /\ K * y \in Nat /\ K * v \in Nat
  OBVIOUS
<1>3. R * x <= K * y /\ R * u <= K * v
  BY DEF AtMost
<1>4. \A a, b, c, d \in Nat : a <= b /\ c <= d => a + c <= b + d
  OBVIOUS
<1>5. R * x + R * u <= K * y + K * v
  BY <1>2, <1>3, <1>4
<1> QED BY <1>1, <1>5 DEF AtMost

(* No replies are none of the bytes, and more bytes allow as much.           *)
LEMMA AtMostGrows ==
  ASSUME NEW R \in Nat, NEW K \in Nat, NEW x \in Nat, NEW y \in Nat, NEW z \in Nat
  PROVE  /\ AtMost(R, 0, K, z)
         /\ AtMost(R, x, K, y) /\ y <= z => AtMost(R, x, K, z)
<1>1. AtMost(R, 0, K, z)
  <2>1. R * 0 = 0 /\ K * z \in Nat
    OBVIOUS
  <2> QED BY <2>1 DEF AtMost
<1>2. ASSUME AtMost(R, x, K, y), y <= z PROVE AtMost(R, x, K, z)
  <2>1. z - y \in Nat /\ y + (z - y) = z /\ x + 0 = x
    BY <1>2
  <2>2. AtMost(R, 0, K, z - y)
    <3>1. R * 0 = 0 /\ K * (z - y) \in Nat
      BY <2>1
    <3> QED BY <3>1 DEF AtMost
  <2>3. AtMost(R, x + 0, K, y + (z - y))
    BY <1>2, <2>1, <2>2, AtMostAdds
  <2> QED BY <2>1, <2>3
<1> QED BY <1>1, <1>2

(* The replies s and n more are, each for one of the batches b.              *)
EachAtMost(R, s, n, K, b) ==
  /\ Len(s) < Len(b)
  /\ \A i \in 1 .. Len(s) : AtMost(R, s[i], K, b[i])
  /\ AtMost(R, n, K, b[Len(s) + 1])

(* Then so are they all together.                                            *)
LEMMA SumsCompared ==
  ASSUME NEW s \in Seq(Nat), NEW b \in Seq(Nat), NEW R \in Nat, NEW K \in Nat, NEW n \in Nat,
         EachAtMost(R, s, n, K, b)
  PROVE  Sum(s) \in Nat /\ Sum(b) \in Nat /\ AtMost(R, Sum(s) + n, K, Sum(b))
<1>0. /\ Len(s) \in Nat /\ Len(b) \in Nat
      /\ \A i \in 1 .. Len(s) : s[i] \in Nat /\ i \in 1 .. Len(b)
      /\ \A i \in 1 .. Len(b) : b[i] \in Nat
      /\ Len(s) + 1 \in 1 .. Len(b)
  <2>1. Len(s) < Len(b) /\ Len(s) \in Nat /\ Len(b) \in Nat
    BY DEF EachAtMost
  <2>2. \A i \in 1 .. Len(s) : s[i] \in Nat
    OBVIOUS
  <2>3. \A i \in 1 .. Len(b) : b[i] \in Nat
    OBVIOUS
  <2>4. Len(s) + 1 \in 1 .. Len(b) /\ \A i \in 1 .. Len(s) : i \in 1 .. Len(b)
    BY <2>1
  <2> QED BY <2>1, <2>2, <2>3, <2>4, Zenon
<1>11. \A i \in 1 .. Len(s) : AtMost(R, s[i], K, b[i])
  BY DEF EachAtMost
<1>12. AtMost(R, n, K, b[Len(s) + 1])
  BY DEF EachAtMost
<1>1. PICK P \in [0 .. Len(s) -> Nat] :
        P[0] = 0 /\ (\A k \in 1 .. Len(s) : P[k] = P[k - 1] + s[k]) /\ P[Len(s)] = Sum(s)
  BY SumByPlaces, Zenon DEF Sum
<1>2. PICK Q \in [0 .. Len(b) -> Nat] :
        Q[0] = 0 /\ (\A k \in 1 .. Len(b) : Q[k] = Q[k - 1] + b[k]) /\ Q[Len(b)] = Sum(b)
  BY SumByPlaces, Zenon DEF Sum
<1>3. \A k \in 1 .. Len(s) : AtMost(R, P[k], K, Q[k])
  <2> DEFINE T == {k \in 1 .. Len(s) : ~AtMost(R, P[k], K, Q[k])}
  <2> SUFFICES ASSUME T # {} PROVE FALSE
    OBVIOUS
  <2>1. PICK k \in T : k # 1 => k - 1 \in 1 .. Len(s) /\ k - 1 \notin T
    BY <1>0, LeastOfInterval
  <2>2. k \in 1 .. Len(s) /\ k \in 1 .. Len(b)
    BY <1>0, <2>1
  <2>3. k - 1 \in 0 .. Len(s) /\ k - 1 \in 0 .. Len(b)
    <3>1. Len(s) \in Nat /\ Len(b) \in Nat
      BY <1>0
    <3>2. k \in Nat /\ 1 <= k /\ k <= Len(s) /\ k <= Len(b)
      BY <2>2, <3>1
    <3> QED BY <3>1, <3>2
  <2>4. AtMost(R, P[k - 1], K, Q[k - 1])
    <3>1. CASE k = 1
      <4>1. P[k - 1] = 0 /\ Q[k - 1] = 0
        BY <1>1, <1>2, <3>1
      <4> QED BY <4>1, AtMostGrows
    <3>2. CASE k # 1
      BY <2>1, <3>2
    <3> QED BY <3>1, <3>2
  <2>5. P[k - 1] \in Nat /\ Q[k - 1] \in Nat /\ s[k] \in Nat /\ b[k] \in Nat
    BY <1>0, <1>1, <1>2, <2>2, <2>3
  <2>6. P[k] = P[k - 1] + s[k] /\ Q[k] = Q[k - 1] + b[k]
    BY <1>1, <1>2, <2>2
  <2>7. AtMost(R, P[k - 1] + s[k], K, Q[k - 1] + b[k])
    BY <1>11, <2>2, <2>4, <2>5, AtMostAdds
  <2> QED BY <2>1, <2>6, <2>7
<1>4. AtMost(R, P[Len(s)], K, Q[Len(s)])
  <2>1. CASE Len(s) = 0
    BY <1>1, <1>2, <2>1, AtMostGrows
  <2>2. CASE Len(s) # 0
    <3>1. Len(s) \in 1 .. Len(s)
      BY <1>0, <2>2
    <3> QED BY <1>3, <3>1
  <2> QED BY <2>1, <2>2
<1>5. ASSUME NEW k \in 1 .. Len(b), k > Len(s) PROVE Q[Len(s) + 1] <= Q[k]
  <2> DEFINE T == {l \in 1 .. Len(b) : l > Len(s) /\ ~(Q[Len(s) + 1] <= Q[l])}
  <2>1. \A l \in T : l \in 1 .. Len(b) /\ l > Len(s) /\ ~(Q[Len(s) + 1] <= Q[l])
    OBVIOUS
  <2>2. \A l \in 1 .. Len(b) : l \notin T /\ l > Len(s) => Q[Len(s) + 1] <= Q[l]
    OBVIOUS
  <2>3. T \in SUBSET (1 .. Len(b))
    OBVIOUS
  <2> HIDE DEF T
  <2>4. SUFFICES ASSUME T # {} PROVE FALSE
    BY <1>5, <2>2
  <2>5. PICK l \in T : l # 1 => l - 1 \in 1 .. Len(b) /\ l - 1 \notin T
    BY <1>0, <2>3, <2>4, LeastOfInterval
  <2>6. l \in 1 .. Len(b) /\ l > Len(s) /\ l - 1 \in 0 .. Len(b) /\ l \in 0 .. Len(b)
    BY <1>0, <2>1
  <2>7. Q[l] \in Nat /\ Q[l - 1] \in Nat /\ b[l] \in Nat /\ Q[l] = Q[l - 1] + b[l]
    BY <1>0, <1>2, <2>6
  <2>8. Len(s) + 1 \in 0 .. Len(b) /\ Q[Len(s) + 1] \in Nat
    <3>1. Len(s) + 1 \in 0 .. Len(b)
      BY <1>0
    <3> QED BY <1>2, <3>1
  <2>9. l # Len(s) + 1
    BY <2>1, <2>8
  <2>10. l # 1 /\ l - 1 > Len(s)
    <3>1. \A x, y \in Nat : x > y /\ x # y + 1 => x # 1 /\ x - 1 > y
      OBVIOUS
    <3>2. l \in Nat /\ Len(s) \in Nat
      BY <1>0, <2>6
    <3> QED BY <2>6, <2>9, <3>1, <3>2
  <2>11. Q[Len(s) + 1] <= Q[l - 1]
    BY <2>2, <2>5, <2>10
  <2>12. Q[Len(s) + 1] <= Q[l]
    <3>1. \A x, y, z \in Nat : x <= y => x <= y + z
      OBVIOUS
    <3> QED BY <2>7, <2>8, <2>11, <3>1
  <2> QED BY <2>1, <2>12
<1>6. Q[Len(s) + 1] <= Sum(b)
  <2>1. Len(b) \in 1 .. Len(b) /\ Len(b) > Len(s)
    BY <1>0
  <2> QED BY <1>2, <1>5, <2>1
<1>7. /\ Q[Len(s)] \in Nat /\ b[Len(s) + 1] \in Nat
      /\ Q[Len(s) + 1] = Q[Len(s)] + b[Len(s) + 1]
  <2>1. Len(s) \in 0 .. Len(b) /\ Len(s) + 1 \in 1 .. Len(b) /\ (Len(s) + 1) - 1 = Len(s)
    BY <1>0
  <2>2. Q[Len(s) + 1] = Q[(Len(s) + 1) - 1] + b[Len(s) + 1]
    BY <1>2, <2>1, Zenon
  <2> QED BY <1>0, <1>2, <2>1, <2>2
<1>8. Sum(s) \in Nat /\ Sum(b) \in Nat
  <2>1. Len(s) \in 0 .. Len(s) /\ Len(b) \in 0 .. Len(b)
    BY <1>0
  <2> QED BY <1>1, <1>2, <2>1
<1>9. AtMost(R, Sum(s) + n, K, Q[Len(s)] + b[Len(s) + 1])
  BY <1>1, <1>4, <1>7, <1>8, <1>12, AtMostAdds
<1>10. Q[Len(s) + 1] \in Nat /\ Sum(s) + n \in Nat
  <2>1. \A x, y \in Nat : x + y \in Nat
    OBVIOUS
  <2> QED BY <1>7, <1>8, <2>1, Zenon
<1>13. AtMost(R, Sum(s) + n, K, Q[Len(s) + 1])
  BY <1>7, <1>9
<1> QED BY <1>6, <1>8, <1>10, <1>13, AtMostGrows

(* K bytes of replies at most for every byte of inputs: in the entries, in the
   batch under construction, and in what is in flight, message by message.   *)
EntryBytes(K) == \A e \in Entries : AtMost(ResultBytes, e.n, K, e.bytes)
BatchBytes(K) == AtMost(ResultBytes, batch.n, K, batch.bytes)
WireBytes(K) ==
  /\ \A i \in 1 .. Len(c2s) : AtMost(ResultBytes, Len(c2s[i]), K, in_flight_bytes[i])
  /\ client = "run" => AtMost(ResultBytes, current.n, K, in_flight_bytes[Len(c2s) + 1])
  /\ \A i \in 1 .. Len(s2c) :
       AtMost(ResultBytes, s2c[i].n, K, in_flight_bytes[Len(c2s) + Running + i])

(* A batch is built only while less than the limit is in flight.             *)
FillBytes == pc \in {"merge", "send"} => in_flight_inputs = <<>> \/ Sum(in_flight_bytes) < MaxInFlight

ByteInv(K) == EntryBytes(K) /\ BatchBytes(K) /\ WireBytes(K) /\ FillBytes

(* What a schedule call may submit answers the same.                         *)
RequestBytes(K) == \A r \in Requests : AtMost(ResultBytes, r.n, K, r.bytes)

(* Entries come from schedule calls.                                         *)
LEMMA EntryBytesStep ==
  ASSUME NEW K \in Nat, RequestBytes(K), LinkInv, EntryBytes(K), [Next]_vars
  PROVE  EntryBytes(K)'
<1>1. ASSUME Entries' \subseteq Entries PROVE EntryBytes(K)'
  BY <1>1 DEF EntryBytes
<1>2. ASSUME NEW w \in Workers, NEW r \in Requests, NEW priority \in BOOLEAN,
             Schedule(w, r, priority), Entries' = Entries \cup {held'[w]}
      PROVE  EntryBytes(K)'
  <2>1. held \in [Workers -> Entry]
    BY DEF LinkInv, TypeOK, CallerType
  <2>2. held'[w].n = r.n /\ held'[w].bytes = r.bytes
    BY <1>2, <2>1 DEF Schedule
  <2>3. AtMost(ResultBytes, held'[w].n, K, held'[w].bytes)
    BY <2>2 DEF RequestBytes
  <2> QED BY <1>2, <2>3 DEF EntryBytes
<1> QED BY <1>1, <1>2, QuietSteps DEF Quiet

(* The batch grows by entries of the queue.                                  *)
LEMMA BatchBytesStep ==
  ASSUME NEW K \in Nat, LinkInv, EntryBytes(K), BatchBytes(K), [Next]_vars
  PROVE  BatchBytes(K)'
<1>0. ResultBytes \in Nat
  BY ConstantsAssumption
<1>1. CASE UNCHANGED batch
  BY <1>1 DEF BatchBytes
<1>2. ASSUME batch' = EmptyBatch PROVE BatchBytes(K)'
  <2>1. batch'.n = 0 /\ batch'.bytes = 0
    BY <1>2 DEF EmptyBatch
  <2>2. AtMost(ResultBytes, 0, K, 0)
    BY <1>0, AtMostGrows
  <2> QED BY <2>1, <2>2 DEF BatchBytes
<1>3. CASE MergeEntry
  <2>1. /\ queue \in Seq(Entry) /\ scan \in Nat \ {0} /\ scan <= Len(queue)
        /\ batch.n \in Nat /\ batch.bytes \in Nat
    BY <1>3 DEF MergeEntry, LinkInv, TypeOK, SchedType, LoopType
  <2>2. scan \in DOMAIN queue
    BY <2>1
  <2>3. queue[scan] \in Entry /\ queue[scan] \in Entries
    BY <2>1, <2>2 DEF Entries, ToSet
  <2>4. batch'.n = batch.n + queue[scan].n /\ batch'.bytes = batch.bytes + queue[scan].bytes
    BY <1>3 DEF MergeEntry, AddToBatch
  <2>5. queue[scan].n \in Nat /\ queue[scan].bytes \in Nat
    BY <2>3 DEF Entry
  <2>6. AtMost(ResultBytes, queue[scan].n, K, queue[scan].bytes)
    BY <2>3 DEF EntryBytes
  <2>7. AtMost(ResultBytes, batch.n + queue[scan].n, K, batch.bytes + queue[scan].bytes)
    BY <1>0, <2>1, <2>5, <2>6, AtMostAdds DEF BatchBytes
  <2> QED BY <2>4, <2>7 DEF BatchBytes
<1>4. ASSUME SendRecvLoop PROVE BatchBytes(K)'
  BY <1>1, <1>2, <1>3, <1>4
  DEF SendRecvLoop, BeginMerge, SkipEntry, EndMerge, SendBatch, SendFails, RecvFails,
      SaveException, EndFill, SelectTimeout, RecvReply, SplitEntry, EndSplit, MarkDead, loop
<1> QED BY <1>1, <1>4, Footprints DEF Next, vars, loop

(* Every message keeps the size that was noted when it was sent.             *)
LEMMA WireBytesStep ==
  ASSUME NEW K \in Nat, LinkInv, BatchBytes(K), WireBytes(K), [Next]_vars
  PROVE  WireBytes(K)'
<1>0. /\ in_flight_inputs \in Seq(Seq(Entry)) /\ in_flight_bytes \in Seq(Nat)
      /\ c2s \in Seq(Seq(ResultOf)) /\ s2c \in Seq(Message) /\ current \in Message
  BY DEF LinkInv, TypeOK, FlightType, RemoteType
<1>1. /\ Len(in_flight_inputs) \in Nat /\ Len(c2s) \in Nat /\ Len(s2c) \in Nat
      /\ Running \in Nat
  BY <1>0 DEF Running
<1>2. /\ Len(in_flight_bytes) = Len(in_flight_inputs)
      /\ Len(c2s) + Running + Len(s2c) <= Len(in_flight_inputs)
      /\ ~Gone => Len(c2s) + Running + Len(s2c) = Len(in_flight_inputs)
      /\ client = "run" => Running = 1
      /\ Gone => s2c = <<>>
  BY DEF LinkInv, WireInv, Running
<1>3. CASE UNCHANGED <<flight, remote>>
  BY <1>3 DEF flight, remote, WireBytes, Running
<1>4. CASE SendBatch
  <2> DEFINE msg == [n |-> batch.n, payload |-> batch.payload, bytes |-> batch.bytes]
             k == Len(in_flight_bytes)
  <2>1. /\ in_flight_bytes' = Append(in_flight_bytes, batch.bytes) /\ batch.bytes \in Nat
        /\ UNCHANGED <<c2s, client, current>>
    BY <1>4 DEF SendBatch, LinkInv, TypeOK, LoopType
  <2>2. /\ \A i \in 1 .. k : in_flight_bytes'[i] = in_flight_bytes[i]
        /\ in_flight_bytes'[k + 1] = batch.bytes
    BY <2>1, <1>0
  <2>3. Running' = Running
    BY <2>1 DEF Running
  <2>4. \A i \in 1 .. Len(c2s) : i \in 1 .. k
    BY <1>1, <1>2
  <2>5. client = "run" => Len(c2s) + 1 \in 1 .. k
    BY <1>1, <1>2
  <2>6. \A i \in 1 .. Len(c2s') : AtMost(ResultBytes, Len(c2s'[i]), K, in_flight_bytes'[i])
    BY <2>1, <2>2, <2>4 DEF WireBytes
  <2>7. client' = "run" => AtMost(ResultBytes, current'.n, K, in_flight_bytes'[Len(c2s') + 1])
    BY <2>1, <2>2, <2>5 DEF WireBytes
  <2>8. CASE Gone
    <3>1. s2c' = <<>>
      BY <1>2, <1>4, <2>8 DEF SendBatch
    <3>2. 1 .. Len(s2c') = {}
      BY <3>1
    <3> QED BY <2>6, <2>7, <3>2, Zenon DEF WireBytes
  <2>9. CASE ~Gone
    <3>1. s2c' = Append(s2c, msg) /\ msg \in Message /\ msg.n = batch.n
      BY <1>4, <2>9 DEF SendBatch, LinkInv, TypeOK, LoopType, Message
    <3> HIDE DEF msg
    <3>2. /\ Len(s2c') = Len(s2c) + 1 /\ s2c'[Len(s2c) + 1] = msg
          /\ \A i \in 1 .. Len(s2c) : s2c'[i] = s2c[i]
      BY <3>1, <1>0
    <3>3. Len(c2s) + Running + Len(s2c) = k
      BY <1>2, <2>9
    <3>4. ASSUME NEW i \in 1 .. Len(s2c')
          PROVE  AtMost(ResultBytes, s2c'[i].n, K, in_flight_bytes'[Len(c2s) + Running + i])
      <4>1. CASE i \in 1 .. Len(s2c)
        <5>1. Len(c2s) + Running + i \in 1 .. k
          BY <4>1, <3>3, <1>1
        <5> QED BY <4>1, <5>1, <2>2, <3>2 DEF WireBytes
      <4>2. CASE i = Len(s2c) + 1
        <5>1. \A x, y, z \in Nat : x + y + (z + 1) = (x + y + z) + 1
          OBVIOUS
        <5>2. Len(c2s) + Running + (Len(s2c) + 1) = (Len(c2s) + Running + Len(s2c)) + 1
          BY <5>1, <1>1, Zenon
        <5>3. Len(c2s) + Running + i = k + 1
          BY <4>2, <5>2, <3>3, Zenon
        <5> QED BY <4>2, <5>3, <2>2, <3>1, <3>2 DEF BatchBytes
      <4> QED BY <4>1, <4>2, <3>2, <1>1
    <3> QED BY <2>1, <2>3, <2>6, <2>7, <3>4 DEF WireBytes
  <2> QED BY <2>8, <2>9
<1>5. CASE RecvReply
  <2>1. /\ c2s # <<>> /\ c2s' = Tail(c2s) /\ in_flight_bytes' = Tail(in_flight_bytes)
        /\ UNCHANGED <<s2c, client, current>>
    BY <1>5 DEF RecvReply
  <2>2. Len(c2s) >= 1
    BY <2>1, <1>0
  <2>3. in_flight_bytes # <<>>
    BY <2>2, <1>1, <1>2
  <2>4. Len(c2s') = Len(c2s) - 1 /\ \A i \in 1 .. Len(c2s) - 1 : c2s'[i] = c2s[i + 1]
    BY <2>1, <1>0
  <2>5. \A i \in 1 .. Len(in_flight_inputs) - 1 : in_flight_bytes'[i] = in_flight_bytes[i + 1]
    BY <1>0, <1>2, <2>1, <2>3
  <2>6. Running' = Running
    BY <2>1 DEF Running
  <2>7. ASSUME NEW i \in 1 .. Len(c2s')
        PROVE  AtMost(ResultBytes, Len(c2s'[i]), K, in_flight_bytes'[i])
    <3>1. i + 1 \in 1 .. Len(c2s) /\ i \in 1 .. Len(c2s) - 1 /\ i \in 1 .. Len(in_flight_inputs) - 1
      BY <2>4, <1>1, <1>2
    <3> QED BY <3>1, <2>4, <2>5 DEF WireBytes
  <2>8. client = "run" => AtMost(ResultBytes, current.n, K, in_flight_bytes'[Len(c2s') + 1])
    <3>1. client = "run" => Len(c2s') + 1 \in 1 .. Len(in_flight_inputs) - 1
                            /\ (Len(c2s') + 1) + 1 = Len(c2s) + 1
      BY <2>2, <2>4, <1>1, <1>2
    <3> QED BY <3>1, <2>5 DEF WireBytes
  <2>9. ASSUME NEW i \in 1 .. Len(s2c)
        PROVE  AtMost(ResultBytes, s2c[i].n, K, in_flight_bytes'[Len(c2s') + Running' + i])
    <3>1. /\ Len(c2s') + Running' + i \in 1 .. Len(in_flight_inputs) - 1
          /\ (Len(c2s') + Running' + i) + 1 = Len(c2s) + Running + i
      BY <2>2, <2>4, <2>6, <1>1, <1>2
    <3> QED BY <3>1, <2>5 DEF WireBytes
  <2> QED BY <2>1, <2>7, <2>8, <2>9 DEF WireBytes
<1>6. CASE ClientRecv
  <2>1. /\ client = "recv" /\ s2c # <<>> /\ s2c' = Tail(s2c) /\ current' = Head(s2c)
        /\ UNCHANGED <<c2s, in_flight_bytes>>
        /\ client' \in {"run", "refused"}
    BY <1>6 DEF ClientRecv, flight
  <2>2. 1 \in 1 .. Len(s2c) /\ Head(s2c) = s2c[1]
    BY <2>1, <1>0
  <2>3. Len(s2c') = Len(s2c) - 1 /\ \A i \in 1 .. Len(s2c) - 1 : s2c'[i] = s2c[i + 1]
    BY <2>1, <1>0
  <2>4. Running = 0 /\ (client' = "run" => Running' = 1)
    BY <2>1 DEF Running
  <2>5. client' = "run"
    <3>1. s2c[1].n <= BiggerMaxBatchN
      BY <2>2 DEF LinkInv, WireInv
    <3> QED BY <1>6, <2>2, <3>1 DEF ClientRecv
  <2>6. AtMost(ResultBytes, current'.n, K, in_flight_bytes[Len(c2s) + 1])
    <3>1. Len(c2s) + Running + 1 = Len(c2s) + 1
      BY <2>4, <1>1
    <3> QED BY <3>1, <2>1, <2>2 DEF WireBytes
  <2>7. ASSUME NEW i \in 1 .. Len(s2c')
        PROVE  AtMost(ResultBytes, s2c'[i].n, K, in_flight_bytes[Len(c2s) + Running' + i])
    <3>1. i + 1 \in 1 .. Len(s2c) /\ i \in 1 .. Len(s2c) - 1
      BY <2>3, <1>1
    <3>2. Len(c2s) + Running' + i = Len(c2s) + Running + (i + 1)
      BY <2>4, <2>5, <3>1, <1>1
    <3> QED BY <2>3, <3>1, <3>2 DEF WireBytes
  <2> QED BY <2>1, <2>6, <2>7 DEF WireBytes
<1>7. CASE ClientReply
  <2> DEFINE data == [i \in 1 .. current.n |-> RunInput(current.payload[i])]
  <2>1. /\ client = "run" /\ client' = "recv" /\ c2s' = Append(c2s, data)
        /\ UNCHANGED <<s2c, in_flight_bytes>>
    BY <1>7 DEF ClientReply, flight
  <2>2. current.payload \in Seq(Input) /\ current.n = Len(current.payload) /\ current.n \in Nat
    BY <2>1, <1>0 DEF Message, LinkInv, WireInv
  <2>3. data \in Seq(ResultOf)
    BY <2>2, RanOfRun
  <2>4. Len(data) = current.n
    BY <2>2
  <2> HIDE DEF data
  <2>5. /\ Len(c2s') = Len(c2s) + 1 /\ c2s'[Len(c2s) + 1] = data
        /\ \A i \in 1 .. Len(c2s) : c2s'[i] = c2s[i]
    BY <2>1, <2>3, <1>0
  <2>6. Running = 1 /\ Running' = 0
    BY <2>1 DEF Running
  <2>7. ASSUME NEW i \in 1 .. Len(c2s')
        PROVE  AtMost(ResultBytes, Len(c2s'[i]), K, in_flight_bytes[i])
    <3>1. i \in 1 .. Len(c2s) \/ i = Len(c2s) + 1
      BY <2>5, <1>1
    <3> QED BY <3>1, <2>1, <2>4, <2>5 DEF WireBytes
  <2>8. ASSUME NEW i \in 1 .. Len(s2c)
        PROVE  AtMost(ResultBytes, s2c[i].n, K, in_flight_bytes[Len(c2s') + Running' + i])
    <3>1. Len(c2s') + Running' + i = Len(c2s) + Running + i
      BY <2>5, <2>6, <1>1
    <3> QED BY <3>1 DEF WireBytes
  <2> QED BY <2>1, <2>7, <2>8 DEF WireBytes
<1>8. CASE ClientExit
  <2>1. PICK k \in 0 .. Len(c2s) : c2s' = SubSeq(c2s, 1, k)
    BY <1>8 DEF ClientExit
  <2>2. client' = "exited" /\ s2c' = <<>> /\ UNCHANGED in_flight_bytes
    BY <1>8 DEF ClientExit, flight
  <2>3. Len(c2s') = k /\ \A i \in 1 .. k : c2s'[i] = c2s[i]
    BY <2>1, <1>0
  <2>4. ASSUME NEW i \in 1 .. Len(c2s')
        PROVE  AtMost(ResultBytes, Len(c2s'[i]), K, in_flight_bytes[i])
    <3>1. i \in 1 .. Len(c2s) /\ c2s'[i] = c2s[i]
      BY <2>3, <1>0
    <3> QED BY <3>1 DEF WireBytes
  <2> QED BY <2>2, <2>4 DEF WireBytes
<1>9. ASSUME SendRecvLoop PROVE WireBytes(K)'
  BY <1>3, <1>4, <1>5, <1>9
  DEF SendRecvLoop, BeginMerge, MergeEntry, SkipEntry, EndMerge, SendFails, RecvFails,
      SaveException, EndFill, SelectTimeout, SplitEntry, EndSplit, MarkDead
<1> QED
  BY <1>3, <1>6, <1>7, <1>8, <1>9, Footprints
  DEF Next, vars, flight, remote, ClientLoop

(* The limit is tested before a batch is built, and nothing else is sent
   before it is.                                                             *)
LEMMA FillBytesStep == ASSUME FillBytes, [Next]_vars PROVE FillBytes'
<1>1. CASE UNCHANGED <<pc, flight>>
  BY <1>1 DEF FillBytes, flight
<1>2. ASSUME pc' \notin {"merge", "send"} PROVE FillBytes'
  BY <1>2 DEF FillBytes
<1>3. CASE BeginMerge
  BY <1>3 DEF BeginMerge, MayFill, FillBytes, flight
<1>4. CASE EndMerge
  BY <1>4 DEF EndMerge, FillBytes, flight
<1>5. ASSUME SendRecvLoop PROVE FillBytes'
  BY <1>1, <1>2, <1>3, <1>4, <1>5
  DEF SendRecvLoop, MergeEntry, SkipEntry, SendBatch, SendFails, RecvFails, SaveException, EndFill,
      SelectTimeout, RecvReply, SplitEntry, EndSplit, MarkDead
<1> QED BY <1>1, <1>5, Footprints DEF Next, vars, flight

(* The buffers of the two directions never jam: when every request answers
   with at most K bytes of replies per byte of inputs, and the buffers towards
   the server hold K times what may be in flight, the client never blocks in
   its send while the RealClient process blocks in its own, whatever the
   buffers towards the client hold.                                          *)
THEOREM NoJam ==
  ASSUME NEW K \in Nat, RequestBytes(K), K * (MaxInFlight - 1) <= C2SCapacity
  PROVE  Spec => []BuffersNeverJam
<1>0. ResultBytes \in Nat /\ C2SCapacity \in Nat /\ MaxInFlight \in Nat \ {0}
  BY ConstantsAssumption
<1>1. Init => ByteInv(K)
  <2> SUFFICES ASSUME Init PROVE ByteInv(K)
    OBVIOUS
  <2>1. /\ queue = <<>> /\ batch.parts = <<>> /\ reply.parts = <<>> /\ in_flight_inputs = <<>>
        /\ c2s = <<>> /\ s2c = <<>> /\ client = "recv" /\ pc = "fill" /\ batch.n = 0 /\ batch.bytes = 0
    BY DEF Init, EmptyBatch, NoReply
  <2>2. Entries = {}
    BY <2>1 DEF Entries, ToSet, AllOf
  <2>3. AtMost(ResultBytes, 0, K, 0)
    BY <1>0, AtMostGrows
  <2>4. WireBytes(K)
    BY <2>1 DEF WireBytes
  <2> QED BY <2>1, <2>2, <2>3, <2>4 DEF ByteInv, EntryBytes, BatchBytes, FillBytes
<1>2. LinkInv /\ ByteInv(K) /\ [Next]_vars => ByteInv(K)'
  BY EntryBytesStep, BatchBytesStep, WireBytesStep, FillBytesStep DEF ByteInv
<1>3. LinkInv /\ ByteInv(K) => BuffersNeverJam
  <2> SUFFICES ASSUME LinkInv, ByteInv(K), pc = "send", client = "run" PROVE RoomToServer
    BY DEF BuffersNeverJam
  <2> DEFINE s == [i \in DOMAIN c2s |-> Len(c2s[i])]
             b == in_flight_bytes
  <2>1. /\ b \in Seq(Nat) /\ c2s \in Seq(Seq(ResultOf)) /\ current.n \in Nat
        /\ in_flight_inputs \in Seq(Seq(Entry)) /\ s2c \in Seq(Message)
    BY DEF LinkInv, TypeOK, FlightType, RemoteType, Message
  <2>2. s \in Seq(Nat) /\ Len(s) = Len(c2s) /\ \A i \in 1 .. Len(c2s) : s[i] = Len(c2s[i])
    <3>1. DOMAIN c2s = 1 .. Len(c2s) /\ Len(c2s) \in Nat
      BY <2>1
    <3>2. \A i \in 1 .. Len(c2s) : c2s[i] \in Seq(ResultOf)
      BY <2>1
    <3>3. \A i \in 1 .. Len(c2s) : Len(c2s[i]) \in Nat
      BY <3>2
    <3> QED BY <3>1, <3>3
  <2>3. Len(c2s) < Len(b) /\ in_flight_inputs # <<>>
    <3>1. /\ Len(b) = Len(in_flight_inputs) /\ Len(c2s) + 1 + Len(s2c) <= Len(in_flight_inputs)
      BY DEF LinkInv, WireInv, Running
    <3>2. Len(c2s) \in Nat /\ Len(s2c) \in Nat /\ Len(b) \in Nat
      BY <2>1
    <3>3. Len(c2s) < Len(b) /\ Len(in_flight_inputs) # 0
      BY <3>1, <3>2
    <3> QED BY <3>3
  <2>4. Sum(b) < MaxInFlight
    BY <2>3 DEF ByteInv, FillBytes
  <2>5. ReplyBytes(c2s) = ResultBytes * Sum(s)
    BY DEF ReplyBytes
  <2> HIDE DEF s, b
  <2>6. EachAtMost(ResultBytes, s, current.n, K, b)
    BY <2>2, <2>3 DEF EachAtMost, ByteInv, WireBytes, b
  <2>7. Sum(s) \in Nat /\ Sum(b) \in Nat /\ AtMost(ResultBytes, Sum(s) + current.n, K, Sum(b))
    BY <1>0, <2>1, <2>2, <2>6, SumsCompared
  <2>8. MaxInFlight - 1 \in Nat /\ Sum(b) <= MaxInFlight - 1 /\ Sum(s) + current.n \in Nat
    BY <1>0, <2>1, <2>4, <2>7
  <2>9. AtMost(ResultBytes, Sum(s) + current.n, K, MaxInFlight - 1)
    BY <1>0, <2>7, <2>8, AtMostGrows
  <2>10. ResultBytes * (Sum(s) + current.n) <= K * (MaxInFlight - 1)
    BY <2>9 DEF AtMost
  <2>11. ResultBytes * (Sum(s) + current.n) = ResultBytes * Sum(s) + ResultBytes * current.n
    <3>1. \A x, y, z \in Nat : x * (y + z) = x * y + x * z
      OBVIOUS
    <3> QED BY <1>0, <2>1, <2>7, <3>1
  <2>12. /\ ResultBytes * (Sum(s) + current.n) \in Nat /\ K * (MaxInFlight - 1) \in Nat
    BY <1>0, <2>8
  <2>13. \A x, y, z \in Nat : x <= y /\ y <= z => x <= z
    OBVIOUS
  <2>14. ResultBytes * (Sum(s) + current.n) <= C2SCapacity
    BY <1>0, <2>10, <2>12, <2>13
  <2> QED BY <2>5, <2>11, <2>14 DEF RoomToServer
<1> QED BY <1>1, <1>2, <1>3, LinkInvariant, PTL DEF Spec
=============================================================================
