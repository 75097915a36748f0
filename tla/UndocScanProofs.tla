--------------------------- MODULE UndocScanProofs --------------------------
(***************************************************************************)
(* Proofs about UndocScan, for every number of workers, every set of       *)
(* clients, every size of a range and of a buffer, and every number of     *)
(* sessions: instructions are analysed in ascending order, nothing found   *)
(* is skipped, not even by --resume, and the end is announced only when    *)
(* all is analysed.                                                        *)
(***************************************************************************)
EXTENDS UndocScan, ListLemmas, TLAPS

-----------------------------------------------------------------------------
(* What the operators of the model compute.                                  *)

(* A line that is written is in the buffer or, if the buffer was full, with all
   of it in the file; nothing else gets there.                               *)
LEMMA WriteProperties ==
  ASSUME Types, NEW w \in Workers, NEW line \in Unknown, NEW to, Write(w, line, to)
  PROVE  /\ file' \in [Files -> Seq(Unknown)]
         /\ buffer' \in [Workers -> [Files -> Seq(Unknown)]]
         /\ \A v \in Workers, f \in Files : Len(buffer'[v][f]) < BufferLines
         /\ \A f \in Files : \A i \in ToSet(file'[f]) :
              i \in ToSet(file[f]) \/ i \in ToSet(buffer[w][f]) \/ (f \in to /\ i = line)
         /\ \A v \in Workers, f \in Files : \A i \in ToSet(buffer'[v][f]) :
              i \in ToSet(buffer[v][f]) \/ (f \in to /\ i = line)
<1> DEFINE now == [f \in Files |-> IF f \in to THEN Append(buffer[w][f], line) ELSE buffer[w][f]]
           new(f) == IF f \in to THEN {line} ELSE {}
<1>1. /\ file \in [Files -> Seq(Unknown)]
      /\ buffer \in [Workers -> [Files -> Seq(Unknown)]]
      /\ \A v \in Workers, f \in Files : Len(buffer[v][f]) < BufferLines
  BY DEF Types
<1>2. BufferLines \in Nat \ {0}
  BY UndocScanAssumption
<1>3. ASSUME NEW f \in Files
      PROVE  now[f] \in Seq(Unknown) /\ ToSet(now[f]) = ToSet(buffer[w][f]) \cup new(f)
  <2>1. buffer[w][f] \in Seq(Unknown)
    BY <1>1
  <2>2. Append(buffer[w][f], line) \in Seq(Unknown)
    BY <2>1, AppendProperties
  <2>3. ToSet(Append(buffer[w][f], line)) = ToSet(buffer[w][f]) \cup {line}
    BY <2>1, ToSetAppend
  <2> QED BY <2>1, <2>2, <2>3
<1>4. /\ buffer' = [buffer EXCEPT ![w] =
           [f \in Files |-> IF Len(now[f]) >= BufferLines THEN <<>> ELSE now[f]]]
      /\ file' = [f \in Files |-> IF Len(now[f]) >= BufferLines THEN file[f] \o now[f] ELSE file[f]]
  BY DEF Write
<1> HIDE DEF now, new
<1>5. ToSet(<<>>) = {}
  BY DEF ToSet
<1>6. ASSUME NEW f \in Files
      PROVE  /\ file'[f] \in Seq(Unknown)
             /\ ToSet(file'[f]) \subseteq ToSet(file[f]) \cup ToSet(buffer[w][f]) \cup new(f)
  <2>1. CASE Len(now[f]) >= BufferLines
    <3>1. file'[f] = file[f] \o now[f] /\ file[f] \in Seq(Unknown)
      BY <1>4, <1>1, <2>1
    <3>2. file[f] \o now[f] \in Seq(Unknown)
      BY <3>1, <1>3, ConcatProperties
    <3>3. ToSet(file[f] \o now[f]) = ToSet(file[f]) \cup ToSet(now[f])
      BY <3>1, <1>3, ToSetConcat
    <3> QED BY <3>1, <3>2, <3>3, <1>3, Zenon
  <2>2. CASE ~(Len(now[f]) >= BufferLines)
    BY <1>4, <1>1, <2>2
  <2> QED BY <2>1, <2>2
<1>7. ASSUME NEW v \in Workers, NEW f \in Files
      PROVE  /\ buffer'[v][f] \in Seq(Unknown)
             /\ Len(buffer'[v][f]) < BufferLines
             /\ ToSet(buffer'[v][f]) \subseteq ToSet(buffer[v][f]) \cup new(f)
  <2>1. CASE v # w
    BY <2>1, <1>4, <1>1
  <2>2. CASE v = w /\ Len(now[f]) >= BufferLines
    <3>1. buffer'[v][f] = <<>>
      BY <2>2, <1>4, <1>1
    <3> QED BY <3>1, <1>5, <1>2
  <2>3. CASE v = w /\ ~(Len(now[f]) >= BufferLines)
    <3>1. buffer'[v][f] = now[f]
      BY <2>3, <1>4, <1>1
    <3>2. Len(now[f]) \in Nat
      BY <1>3
    <3> QED BY <3>1, <3>2, <2>3, <1>3, <1>2
  <2> QED BY <2>1, <2>2, <2>3
<1>8. file' \in [Files -> Seq(Unknown)]
  BY <1>4, <1>6
<1>9. buffer' \in [Workers -> [Files -> Seq(Unknown)]]
  BY <1>4, <1>1, <1>7
<1>a. \A f, i : i \in new(f) => f \in to /\ i = line
  BY DEF new
<1>b. ASSUME NEW f \in Files, NEW i \in ToSet(file'[f])
      PROVE  i \in ToSet(file[f]) \/ i \in ToSet(buffer[w][f]) \/ (f \in to /\ i = line)
  <2>1. ToSet(file'[f]) \subseteq ToSet(file[f]) \cup ToSet(buffer[w][f]) \cup new(f)
    BY <1>6
  <2>2. i \in ToSet(file[f]) \/ i \in ToSet(buffer[w][f]) \/ i \in new(f)
    BY <2>1
  <2> QED BY <2>2, <1>a
<1>c. ASSUME NEW v \in Workers, NEW f \in Files, NEW i \in ToSet(buffer'[v][f])
      PROVE  i \in ToSet(buffer[v][f]) \/ (f \in to /\ i = line)
  <2>1. ToSet(buffer'[v][f]) \subseteq ToSet(buffer[v][f]) \cup new(f)
    BY <1>7
  <2>2. i \in ToSet(buffer[v][f]) \/ i \in new(f)
    BY <2>1
  <2> QED BY <2>2, <1>a
<1> QED BY <1>7, <1>8, <1>9, <1>b, <1>c

(* The numbers the model counts with.                                        *)
LEMMA Numbers ==
  /\ Step \in Nat /\ Step > 0 /\ Until \in Nat /\ BufferLines \in Nat /\ BufferLines > 0
  /\ Unknown \subseteq Nat /\ \A i \in Unknown : i < Until
  /\ "progress" \notin Clients
BY UndocScanAssumption

(* What is found is unknown to the documentation.                            *)
LEMMA FoundUnknown ==
  ASSUME Types
  PROVE  Found \subseteq Unknown
BY DEF Found, Types

(* The instruction at hand is the least one left.                            *)
LEMMA AtHand ==
  ASSUME Types, NEW w \in Workers, inputs[w] # {}
  PROVE  /\ Min(inputs[w]) \in inputs[w] /\ Min(inputs[w]) \in Unknown
         /\ Min(inputs[w]) \in Nat
         /\ \A i \in inputs[w] : i \in Nat /\ Min(inputs[w]) <= i
<1>1. inputs[w] \subseteq Unknown /\ inputs[w] \subseteq Nat
  BY Numbers DEF Types
<1>2. Min(inputs[w]) \in inputs[w] /\ \A i \in inputs[w] : Min(inputs[w]) <= i
  BY <1>1, MinProperties
<1> QED BY <1>1, <1>2

(* Only one worker is in its turn.                                           *)
LEMMA OneInTurn ==
  ASSUME RangesClaimed, NEW v \in Workers, NEW w \in Workers, InTurn(v), InTurn(w)
  PROVE  v = w
BY DEF RangesClaimed, InTurn, Claimed

(* A line stays where it may be.                                             *)
LEMMA LineStaysOK ==
  ASSUME NEW f, NEW i, LineOK(f, i), knows' = knows, reproducers \subseteq reproducers'
  PROVE  LineOK(f, i)'
BY DEF LineOK, Found

(* Writing a line that may be there keeps all lines where they may be.       *)
LEMMA WriteLinesOK ==
  ASSUME Types, LinesOK, NEW w \in Workers, NEW line \in Unknown, NEW to,
         Write(w, line, to), knows' = knows, reproducers \subseteq reproducers',
         \A f \in to : LineOK(f, line)'
  PROVE  LinesOK'
<1>1. /\ \A f \in Files : \A i \in ToSet(file'[f]) :
           i \in ToSet(file[f]) \/ i \in ToSet(buffer[w][f]) \/ (f \in to /\ i = line)
      /\ \A v \in Workers, f \in Files : \A i \in ToSet(buffer'[v][f]) :
           i \in ToSet(buffer[v][f]) \/ (f \in to /\ i = line)
  BY WriteProperties
<1>2. ASSUME NEW f \in Files, NEW i \in ToSet(file'[f]) PROVE LineOK(f, i)'
  <2>1. CASE i \in ToSet(file[f]) \/ i \in ToSet(buffer[w][f])
    <3>1. LineOK(f, i)
      BY <2>1 DEF LinesOK
    <3> QED BY <3>1, LineStaysOK
  <2>2. CASE f \in to /\ i = line
    BY <2>2
  <2> QED BY <2>1, <2>2, <1>1, <1>2
<1>3. ASSUME NEW v \in Workers, NEW f \in Files, NEW i \in ToSet(buffer'[v][f]) PROVE LineOK(f, i)'
  <2>1. CASE i \in ToSet(buffer[v][f])
    <3>1. LineOK(f, i)
      BY <2>1 DEF LinesOK
    <3> QED BY <3>1, LineStaysOK
  <2>2. CASE f \in to /\ i = line
    BY <2>2
  <2> QED BY <2>1, <2>2, <1>1, <1>3
<1> QED BY <1>2, <1>3 DEF LinesOK

(* A worker that ends or dies takes its buffers with it; all other lines stay. *)
LEMMA DropLinesOK ==
  ASSUME Types, LinesOK, NEW w \in Workers, UNCHANGED <<knows, reproducers, file>>,
         buffer' = [buffer EXCEPT ![w] = [f \in Files |-> <<>>]]
  PROVE  /\ LinesOK'
         /\ buffer' \in [Workers -> [Files -> Seq(Unknown)]]
         /\ \A v \in Workers, f \in Files : Len(buffer'[v][f]) < BufferLines
<1>1. ASSUME NEW v \in Workers, NEW f \in Files
      PROVE  buffer'[v][f] = buffer[v][f] \/ buffer'[v][f] = <<>>
  BY DEF Types
<1>2. buffer' \in [Workers -> [Files -> Seq(Unknown)]]
  BY DEF Types
<1>3. ToSet(<<>>) = {}
  BY DEF ToSet
<1>4. \A v \in Workers, f \in Files : Len(buffer'[v][f]) < BufferLines
  BY <1>1, Numbers DEF Types
<1>5. \A f, i : LineOK(f, i) => LineOK(f, i)'
  BY DEF LineOK, Found
<1>6. \A f \in Files : \A i \in ToSet(file'[f]) : LineOK(f, i)'
  BY <1>5 DEF LinesOK
<1>7. \A v \in Workers, f \in Files : \A i \in ToSet(buffer'[v][f]) : LineOK(f, i)'
  BY <1>1, <1>3, <1>5, Zenon DEF LinesOK
<1> QED BY <1>2, <1>4, <1>6, <1>7 DEF LinesOK

-----------------------------------------------------------------------------
(* Initially nothing is claimed.                                             *)
LEMMA InitInv == Init => IInv
<1> SUFFICES ASSUME Init PROVE IInv
  OBVIOUS
<1>1. Types
  BY Numbers DEF Init, Types, Places, Files
<1>2. RangesClaimed /\ InputsLeft /\ LastAnalysed
  BY Numbers DEF Init, RangesClaimed, InputsLeft, LastAnalysed, Claimed, InTurn
<1>3. NothingSkipped
  <2>1. \A i \in Found : i \in Nat
    BY <1>1, FoundUnknown, Numbers
  <2> QED BY <2>1 DEF Init, NothingSkipped
<1>4. ToSet(<<>>) = {}
  BY DEF ToSet
<1>5. LinesOK
  BY <1>4 DEF Init, LinesOK
<1>6. Behind /\ AnalysedInOrder
  BY <1>4 DEF Init, Behind, AnalysedInOrder
<1>7. EndInOrder
  BY DEF Init, EndInOrder
<1> QED BY <1>1, <1>2, <1>3, <1>5, <1>6, <1>7 DEF IInv, ScanInv

-----------------------------------------------------------------------------
(* Steps that neither claim nor analyse anything.                            *)

(* Workers may move on between two claims, and into their turn if it has come. *)
LEMMA ScanKept ==
  ASSUME ScanInv,
         UNCHANGED <<knows, counter, analysed_counter, to_generate, inputs, file, reproducers,
                     analysed>>,
         at' \in [Workers -> Places], main' \in {"watch", "join", "done"},
         LinesOK',
         buffer' \in [Workers -> [Files -> Seq(Unknown)]],
         \A v \in Workers, f \in Files : Len(buffer'[v][f]) < BufferLines,
         \A v \in Workers :
           /\ Claimed(v)' <=> Claimed(v)
           /\ InTurn(v) => InTurn(v)'
           /\ InTurn(v)' => InTurn(v) \/ to_generate[v] = analysed_counter
           /\ at'[v] = "progress" <=> at[v] = "progress"
  PROVE  ScanInv'
<1>1. Types'
  BY DEF ScanInv, Types
<1>2. RangesClaimed'
  <2>1. /\ \A v \in Workers : Claimed(v)' => to_generate[v] < counter
        /\ \A v, u \in Workers :
             Claimed(v)' /\ Claimed(u)' /\ to_generate[v] = to_generate[u] => v = u
    BY DEF ScanInv, RangesClaimed
  <2>2. \A v \in Workers : InTurn(v)' => to_generate[v] = analysed_counter
    BY DEF ScanInv, RangesClaimed
  <2>3. \A i \in analysed_counter .. counter - 1 :
          \E v \in Workers : Claimed(v)' /\ to_generate[v] <= i /\ i < to_generate[v] + Step
    BY DEF ScanInv, RangesClaimed
  <2> QED BY <2>1, <2>2, <2>3 DEF RangesClaimed
<1>3. InputsLeft'
  BY DEF ScanInv, InputsLeft, Found
<1>4. NothingSkipped' /\ AnalysedInOrder'
  BY DEF ScanInv, NothingSkipped, AnalysedInOrder, Found
<1>5. LastAnalysed'
  BY DEF ScanInv, LastAnalysed, Found
<1>6. Behind'
  BY DEF ScanInv, Behind
<1> QED BY <1>1, <1>2, <1>3, <1>4, <1>5, <1>6 DEF ScanInv

(* The lines stay where they are when no file and no buffer is written.      *)
LEMMA LinesUnchanged ==
  ASSUME ScanInv, UNCHANGED <<knows, reproducers, file, buffer>>
  PROVE  /\ LinesOK'
         /\ buffer' \in [Workers -> [Files -> Seq(Unknown)]]
         /\ \A v \in Workers, f \in Files : Len(buffer'[v][f]) < BufferLines
<1>1. \A f, i : LineOK(f, i) => LineOK(f, i)'
  BY DEF LineOK, Found
<1> QED BY <1>1 DEF ScanInv, Types, LinesOK

(* Ending a worker that has no range.                                        *)
LEMMA EndWorkerInv ==
  ASSUME ScanInv, NEW w \in Workers, EndWorker(w)
  PROVE  ScanInv'
<1>1. /\ LinesOK'
      /\ buffer' \in [Workers -> [Files -> Seq(Unknown)]]
      /\ \A v \in Workers, f \in Files : Len(buffer'[v][f]) < BufferLines
  BY DropLinesOK DEF ScanInv, EndWorker
<1>2. at' \in [Workers -> Places] /\ main' \in {"watch", "join", "done"}
  BY DEF ScanInv, Types, EndWorker, Places
<1>3. ASSUME NEW v \in Workers
      PROVE  /\ Claimed(v)' <=> Claimed(v)
             /\ InTurn(v) => InTurn(v)'
             /\ InTurn(v)' => InTurn(v) \/ to_generate[v] = analysed_counter
             /\ at'[v] = "progress" <=> at[v] = "progress"
  BY DEF ScanInv, Types, EndWorker, Claimed, InTurn
<1> QED BY <1>1, <1>2, <1>3, ScanKept DEF EndWorker

(* The inputs of a range are executed; its turn may not have come.           *)
LEMMA ExecuteInv ==
  ASSUME ScanInv, NEW w \in Workers, Execute(w)
  PROVE  ScanInv'
<1>1. /\ LinesOK'
      /\ buffer' \in [Workers -> [Files -> Seq(Unknown)]]
      /\ \A v \in Workers, f \in Files : Len(buffer'[v][f]) < BufferLines
  BY LinesUnchanged DEF Execute, logs
<1>2. at' \in [Workers -> Places] /\ main' \in {"watch", "join", "done"}
  BY DEF ScanInv, Types, Execute, Places
<1>3. ASSUME NEW v \in Workers
      PROVE  /\ Claimed(v)' <=> Claimed(v)
             /\ InTurn(v) => InTurn(v)'
             /\ InTurn(v)' => InTurn(v) \/ to_generate[v] = analysed_counter
             /\ at'[v] = "progress" <=> at[v] = "progress"
  BY DEF ScanInv, Types, Execute, Claimed, InTurn
<1> QED BY <1>1, <1>2, <1>3, ScanKept DEF Execute, logs

(* A worker that dies keeps its range, whose turn never passes.              *)
LEMMA ExecuteRaisesInv ==
  ASSUME ScanInv, NEW w \in Workers, ExecuteRaises(w)
  PROVE  ScanInv'
<1>1. /\ LinesOK'
      /\ buffer' \in [Workers -> [Files -> Seq(Unknown)]]
      /\ \A v \in Workers, f \in Files : Len(buffer'[v][f]) < BufferLines
  BY DropLinesOK DEF ScanInv, ExecuteRaises
<1>2. at' \in [Workers -> Places] /\ main' \in {"watch", "join", "done"}
  BY DEF ScanInv, Types, ExecuteRaises, Places
<1>3. ASSUME NEW v \in Workers
      PROVE  /\ Claimed(v)' <=> Claimed(v)
             /\ InTurn(v) => InTurn(v)'
             /\ InTurn(v)' => InTurn(v) \/ to_generate[v] = analysed_counter
             /\ at'[v] = "progress" <=> at[v] = "progress"
  BY DEF ScanInv, Types, ExecuteRaises, Claimed, InTurn
<1> QED BY <1>1, <1>2, <1>3, ScanKept DEF ExecuteRaises

(* A worker that finds its turn come has the range whose turn it is.         *)
LEMMA WaitTurnInv ==
  ASSUME ScanInv, NEW w \in Workers, WaitTurn(w)
  PROVE  ScanInv'
<1>1. /\ LinesOK'
      /\ buffer' \in [Workers -> [Files -> Seq(Unknown)]]
      /\ \A v \in Workers, f \in Files : Len(buffer'[v][f]) < BufferLines
  BY LinesUnchanged DEF WaitTurn, logs
<1>2. at' \in [Workers -> Places] /\ main' \in {"watch", "join", "done"}
  BY DEF ScanInv, Types, WaitTurn, Places
<1>3. ASSUME NEW v \in Workers
      PROVE  /\ Claimed(v)' <=> Claimed(v)
             /\ InTurn(v) => InTurn(v)'
             /\ InTurn(v)' => InTurn(v) \/ to_generate[v] = analysed_counter
             /\ at'[v] = "progress" <=> at[v] = "progress"
  BY DEF ScanInv, Types, WaitTurn, Claimed, InTurn
<1> QED BY <1>1, <1>2, <1>3, ScanKept DEF WaitTurn, logs

(* The main process and the loss of a client leave the work alone.           *)
LEMMA OthersInv ==
  ASSUME ScanInv, ClientLost \/ SeeFinished \/ Join
  PROVE  ScanInv'
<1>1. /\ UNCHANGED <<knows, counter, analysed_counter, at, to_generate, inputs, buffer, file,
                     reproducers, analysed>>
      /\ main' \in {"watch", "join", "done"}
  BY DEF ScanInv, Types, ClientLost, SeeFinished, Join, work, logs
<1>2. /\ LinesOK'
      /\ buffer' \in [Workers -> [Files -> Seq(Unknown)]]
      /\ \A v \in Workers, f \in Files : Len(buffer'[v][f]) < BufferLines
  BY <1>1, LinesUnchanged
<1>3. at' \in [Workers -> Places]
  BY <1>1 DEF ScanInv, Types
<1>4. \A v \in Workers : /\ Claimed(v)' <=> Claimed(v)
                         /\ InTurn(v)' <=> InTurn(v)
                         /\ at'[v] = "progress" <=> at[v] = "progress"
  BY <1>1 DEF Claimed, InTurn
<1> QED BY <1>1, <1>2, <1>3, <1>4, ScanKept

-----------------------------------------------------------------------------
(* Steps that claim or analyse.                                              *)

(* The new range begins where the claimed ones end.                          *)
LEMMA ClaimInv ==
  ASSUME ScanInv, NEW w \in Workers, Claim(w)
  PROVE  ScanInv'
<1> DEFINE end == IF counter + Step <= Until THEN counter + Step ELSE Until
<1>0. counter \in Nat /\ counter < Until /\ counter <= Until
  BY Numbers DEF ScanInv, Types, Claim
<1>1. /\ counter' = end /\ end \in Nat /\ end <= Until /\ end <= counter + Step /\ counter < end
      /\ to_generate' = [to_generate EXCEPT ![w] = counter]
      /\ inputs' = [inputs EXCEPT ![w] = {i \in Unknown : counter <= i /\ i < end}]
      /\ ~Claimed(w) /\ ~InTurn(w)
  <2>1. Min({counter + Step, Until}) = end
    BY <1>0, Numbers, MinOfTwo
  <2>2. end \in Nat /\ end <= Until /\ end <= counter + Step /\ counter < end
    BY <1>0, Numbers
  <2>3. ~Claimed(w) /\ ~InTurn(w)
    BY DEF Claim, Claimed, InTurn
  <2>4. /\ counter' = Min({counter + Step, Until})
        /\ to_generate' = [to_generate EXCEPT ![w] = counter]
        /\ inputs' = [inputs EXCEPT ![w] = Generate(counter, Min({counter + Step, Until}))]
    BY DEF Claim
  <2> HIDE DEF end
  <2> QED BY <2>1, <2>2, <2>3, <2>4 DEF Generate
<1>2. at' \in [Workers -> Places] /\ at'[w] \in {"wait", "execute"}
      /\ \A v \in Workers \ {w} : at'[v] = at[v]
  BY DEF ScanInv, Types, Claim, Places
<1>3. UNCHANGED <<knows, analysed_counter, file, buffer, reproducers, analysed, main>>
  BY DEF Claim, logs
<1>4. /\ Claimed(w)' /\ ~InTurn(w)'
      /\ \A v \in Workers \ {w} : (Claimed(v)' <=> Claimed(v)) /\ (InTurn(v)' <=> InTurn(v))
      /\ to_generate'[w] = counter
      /\ inputs'[w] = {i \in Unknown : counter <= i /\ i < end}
      /\ \A v \in Workers \ {w} : to_generate'[v] = to_generate[v] /\ inputs'[v] = inputs[v]
  BY <1>1, <1>2 DEF ScanInv, Types, Claimed, InTurn
<1>5. /\ \A v \in Workers : to_generate[v] \in Nat
      /\ analysed_counter \in Nat
  BY Numbers DEF ScanInv, Types
<1> HIDE DEF end
<1>6. Types'
  <2>1. counter' \in 0 .. Until /\ to_generate' \in [Workers -> 0 .. Until]
        /\ inputs' \in [Workers -> SUBSET Unknown]
    BY <1>1, <1>0, Numbers DEF ScanInv, Types
  <2> QED BY <2>1, <1>2, <1>3 DEF ScanInv, Types
<1>7. RangesClaimed'
  <2>1. \A v \in Workers : Claimed(v)' => to_generate'[v] < counter'
    BY <1>1, <1>4, <1>5, <1>0 DEF ScanInv, RangesClaimed
  <2>2. \A v, u \in Workers :
          Claimed(v)' /\ Claimed(u)' /\ to_generate'[v] = to_generate'[u] => v = u
    BY <1>4, <1>5, <1>0 DEF ScanInv, RangesClaimed
  <2>3. \A v \in Workers : InTurn(v)' => to_generate'[v] = analysed_counter'
    BY <1>3, <1>4 DEF ScanInv, RangesClaimed
  <2>4. ASSUME NEW i \in analysed_counter' .. counter' - 1
        PROVE  \E v \in Workers :
                 Claimed(v)' /\ to_generate'[v] <= i /\ i < to_generate'[v] + Step
    <3>1. CASE i < counter
      <4>1. PICK v \in Workers : Claimed(v) /\ to_generate[v] <= i /\ i < to_generate[v] + Step
        BY <3>1, <1>3, <1>0, <1>5, <1>1 DEF ScanInv, RangesClaimed
      <4> QED BY <4>1, <1>1, <1>4
    <3>2. CASE i >= counter
      BY <3>2, <1>1, <1>4, <1>0, <1>5, <1>3, Numbers
    <3> QED BY <3>1, <3>2, <1>0, <1>1, <1>3, <1>5
  <2> QED BY <2>1, <2>2, <2>3, <2>4 DEF RangesClaimed
<1>8. Found' = Found /\ Found \subseteq Unknown
  BY <1>3, FoundUnknown DEF Found, ScanInv
<1>9. InputsLeft'
  <2>1. ASSUME NEW v \in Workers, Claimed(v)'
        PROVE  /\ \A i \in inputs'[v] : to_generate'[v] <= i /\ i < to_generate'[v] + Step
               /\ \A i \in Found : to_generate'[v] <= i /\ i < to_generate'[v] + Step =>
                    i \in inputs'[v] \/ (InTurn(v)' /\ i \in reproducers)
               /\ at'[v] = "progress" => inputs'[v] # {}
    <3>1. CASE v = w
      <4>1. \A i \in Unknown : i \in Nat /\ i < Until
        BY Numbers
      <4>2. \A i \in Unknown : i < counter + Step => i < end
        BY <4>1, <1>0, Numbers DEF end
      <4>3. \A i \in Unknown : i < end => i < counter + Step
        BY <4>1, <1>0, <1>1, Numbers
      <4> QED BY <3>1, <1>2, <1>4, <1>8, <4>1, <4>2, <4>3
    <3>2. CASE v # w
      BY <3>2, <2>1, <1>2, <1>4 DEF ScanInv, InputsLeft
    <3> QED BY <3>1, <3>2
  <2> QED BY <2>1, <1>8, <1>3 DEF InputsLeft
<1>10. NothingSkipped' /\ AnalysedInOrder'
  BY <1>3, <1>8 DEF ScanInv, NothingSkipped, AnalysedInOrder
<1>11. LastAnalysed'
  BY <1>2, <1>3, <1>4, <1>8 DEF ScanInv, LastAnalysed
<1>12. Behind'
  <2> SUFFICES ASSUME NEW i \in ToSet(analysed), ~(i < analysed_counter)
               PROVE  \E v \in Workers :
                        /\ InTurn(v)' /\ i < to_generate'[v] + Step
                        /\ \A j \in inputs'[v] : i < j \/ (at'[v] = "progress" /\ i = j)
    BY <1>3 DEF Behind
  <2>1. PICK v \in Workers :
          /\ InTurn(v) /\ i < to_generate[v] + Step
          /\ \A j \in inputs[v] : i < j \/ (at[v] = "progress" /\ i = j)
    BY DEF ScanInv, Behind
  <2>2. v # w
    BY <2>1, <1>1
  <2> QED BY <2>1, <2>2, <1>2, <1>4
<1>13. LinesOK'
  BY <1>3, LinesUnchanged
<1> QED BY <1>6, <1>7, <1>9, <1>10, <1>11, <1>12, <1>13 DEF ScanInv

(* The worker whose turn it is analyses the least instruction left.          *)
LEMMA LogResultsInv ==
  ASSUME ScanInv, NEW w \in Workers, LogResults(w)
  PROVE  ScanInv'
<1>0. PICK instr, to : instr = Min(inputs[w]) /\ to = KnownTo(Min(inputs[w]))
  OBVIOUS
<1>1. /\ instr \in inputs[w] /\ instr \in Unknown /\ instr \in Nat
      /\ \A i \in inputs[w] : i \in Nat /\ instr <= i
  BY <1>0, AtHand DEF ScanInv, LogResults
<1>2. /\ UNCHANGED <<knows, counter, analysed_counter, to_generate, inputs, main>>
      /\ Write(w, instr, to)
      /\ analysed' = Append(analysed, instr)
      /\ reproducers' = IF to = {} THEN reproducers ELSE reproducers \cup {instr}
      /\ at[w] = "analyse"
  BY <1>0 DEF LogResults
<1>3. /\ at' \in [Workers -> Places] /\ at'[w] = "progress"
      /\ \A v \in Workers \ {w} : at'[v] = at[v]
  BY DEF ScanInv, Types, LogResults, Places
<1>4. /\ InTurn(w) /\ InTurn(w)' /\ Claimed(w) /\ Claimed(w)'
      /\ \A v \in Workers : (Claimed(v)' <=> Claimed(v)) /\ (InTurn(v)' <=> InTurn(v))
  BY <1>2, <1>3 DEF InTurn, Claimed
<1>5. reproducers \subseteq reproducers'
  BY <1>2
<1>6. /\ Found' = Found /\ Found \subseteq Unknown
      /\ instr \in Found => instr \in reproducers'
  <2>1. Found' = Found /\ Found \subseteq Unknown
    BY <1>2, FoundUnknown DEF Found, ScanInv
  <2>2. instr \in Found => to # {}
    BY <1>0 DEF Found, KnownTo
  <2> QED BY <2>1, <2>2, <1>2
<1>7. /\ \A v \in Workers : to_generate[v] \in Nat
      /\ analysed_counter \in Nat /\ to_generate[w] = analysed_counter
      /\ analysed_counter <= instr /\ instr < analysed_counter + Step
  BY <1>1, <1>4, Numbers DEF ScanInv, Types, RangesClaimed, InputsLeft
<1>8. /\ analysed \in Seq(Unknown) /\ Len(analysed) \in Nat
      /\ analysed' \in Seq(Unknown) /\ Len(analysed') = Len(analysed) + 1
      /\ \A k \in 1 .. Len(analysed) : analysed'[k] = analysed[k] /\ analysed[k] \in ToSet(analysed)
      /\ analysed'[Len(analysed) + 1] = instr
      /\ ToSet(analysed') = ToSet(analysed) \cup {instr}
  <2>1. analysed \in Seq(Unknown)
    BY DEF ScanInv, Types
  <2>2. \A k \in 1 .. Len(analysed) : analysed[k] \in ToSet(analysed)
    BY <2>1 DEF ToSet
  <2> QED BY <2>1, <2>2, <1>1, <1>2, AppendProperties, ToSetAppend
<1>9. Types'
  <2>1. /\ file' \in [Files -> Seq(Unknown)]
        /\ buffer' \in [Workers -> [Files -> Seq(Unknown)]]
        /\ \A v \in Workers, f \in Files : Len(buffer'[v][f]) < BufferLines
    BY <1>1, <1>2, WriteProperties DEF ScanInv
  <2> QED BY <2>1, <1>2, <1>3, <1>8 DEF ScanInv, Types
<1>10. RangesClaimed'
  BY <1>2, <1>4 DEF ScanInv, RangesClaimed
<1>11. InputsLeft'
  <2>1. ASSUME NEW v \in Workers, Claimed(v)
        PROVE  /\ \A i \in inputs[v] : to_generate[v] <= i /\ i < to_generate[v] + Step
               /\ \A i \in Found : to_generate[v] <= i /\ i < to_generate[v] + Step =>
                    i \in inputs[v] \/ (InTurn(v)' /\ i \in reproducers')
               /\ at'[v] = "progress" => inputs[v] # {}
    BY <2>1, <1>1, <1>3, <1>4, <1>5 DEF ScanInv, InputsLeft
  <2> QED BY <2>1, <1>2, <1>4, <1>6 DEF InputsLeft
<1>12. NothingSkipped'
  BY <1>2, <1>5, <1>6 DEF ScanInv, NothingSkipped
<1>13. LinesOK'
  <2>1. ASSUME NEW f \in to PROVE LineOK(f, instr)'
    <3>1. f \in Clients /\ f # "progress" /\ instr \in knows'[f]
      BY <1>0, <1>2, Numbers DEF KnownTo
    <3> QED BY <3>1 DEF LineOK
  <2>2. Types /\ LinesOK /\ Write(w, instr, to) /\ knows' = knows
    BY <1>2 DEF ScanInv
  <2> QED BY <2>1, <2>2, <1>1, <1>5, WriteLinesOK
<1>14. LastAnalysed'
  <2>1. ASSUME NEW v \in Workers, at'[v] = "progress", Min(inputs[v]) \in Found
        PROVE  Min(inputs[v]) \in reproducers'
    <3>1. CASE v = w
      BY <3>1, <2>1, <1>0, <1>6
    <3>2. CASE v # w
      BY <3>2, <2>1, <1>3, <1>5 DEF ScanInv, LastAnalysed
    <3> QED BY <3>1, <3>2
  <2> QED BY <2>1, <1>2, <1>6 DEF LastAnalysed
<1>15. \A i \in ToSet(analysed) : i \in Nat /\ i < instr
  <2> SUFFICES ASSUME NEW i \in ToSet(analysed) PROVE i \in Nat /\ i < instr
    OBVIOUS
  <2>1. i \in Nat
    <3>1. i \in Unknown
      BY <1>8 DEF ToSet
    <3> QED BY <3>1, Numbers
  <2>2. CASE i < analysed_counter
    BY <2>1, <2>2, <1>1, <1>7
  <2>3. CASE ~(i < analysed_counter)
    <3>1. PICK v \in Workers :
            /\ InTurn(v)
            /\ \A j \in inputs[v] : i < j \/ (at[v] = "progress" /\ i = j)
      BY <2>3 DEF ScanInv, Behind
    <3>2. v = w
      BY <3>1, <1>4, OneInTurn DEF ScanInv
    <3> QED BY <3>1, <3>2, <2>1, <1>1, <1>2
  <2> QED BY <2>2, <2>3
<1>16. Behind'
  <2>1. ASSUME NEW i \in ToSet(analysed')
        PROVE  /\ InTurn(w)' /\ i < to_generate[w] + Step
               /\ \A j \in inputs[w] : i < j \/ (at'[w] = "progress" /\ i = j)
    <3>1. i = instr \/ (i \in Nat /\ i < instr)
      BY <1>8, <1>15
    <3> QED BY <3>1, <1>1, <1>3, <1>4, <1>7, Numbers
  <2> QED BY <2>1, <1>2 DEF Behind
<1>17. AnalysedInOrder'
  <2> SUFFICES ASSUME NEW i \in 1 .. Len(analysed'), NEW j \in 1 .. Len(analysed'), i < j
               PROVE  analysed'[i] < analysed'[j]
    BY DEF AnalysedInOrder
  <2>1. CASE j <= Len(analysed)
    BY <2>1, <1>8 DEF ScanInv, AnalysedInOrder
  <2>2. CASE j = Len(analysed) + 1
    BY <2>2, <1>8, <1>15
  <2> QED BY <2>1, <2>2, <1>8
<1> QED BY <1>9, <1>10, <1>11, <1>12, <1>13, <1>14, <1>16, <1>17 DEF ScanInv

(* The line of progress comes when everything before its instruction, and the
   instruction itself, has been analysed.                                    *)
LEMMA LogProgressInv ==
  ASSUME ScanInv, NEW w \in Workers, LogProgress(w)
  PROVE  ScanInv'
<1>0. PICK instr, to :
        /\ instr = Min(inputs[w])
        /\ to = IF KnownTo(instr) # {} \/ instr \div Chunk # last_logged THEN {"progress"} ELSE {}
  OBVIOUS
<1>1. /\ instr \in inputs[w] /\ instr \in Unknown /\ instr \in Nat
      /\ \A i \in inputs[w] : i \in Nat /\ instr <= i
  <2>1. inputs[w] # {}
    BY DEF ScanInv, InputsLeft, LogProgress, Claimed
  <2> QED BY <2>1, <1>0, AtHand DEF ScanInv
<1>2. /\ UNCHANGED <<knows, counter, analysed_counter, to_generate, reproducers, analysed, main>>
      /\ Write(w, instr, to) /\ to \subseteq {"progress"}
      /\ inputs' = [inputs EXCEPT ![w] = @ \ {instr}]
      /\ at[w] = "progress"
  BY <1>0 DEF LogProgress
<1>3. /\ at' \in [Workers -> Places] /\ at'[w] = "analyse"
      /\ \A v \in Workers \ {w} : at'[v] = at[v]
  BY DEF ScanInv, Types, LogProgress, Places
<1>4. /\ InTurn(w) /\ InTurn(w)' /\ Claimed(w) /\ Claimed(w)'
      /\ \A v \in Workers : (Claimed(v)' <=> Claimed(v)) /\ (InTurn(v)' <=> InTurn(v))
  BY <1>2, <1>3 DEF InTurn, Claimed
<1>5. /\ inputs' \in [Workers -> SUBSET Unknown]
      /\ inputs'[w] = inputs[w] \ {instr}
      /\ \A v \in Workers \ {w} : inputs'[v] = inputs[v]
  BY <1>2 DEF ScanInv, Types
<1>6. /\ Found' = Found /\ \A i \in Found : i \in Nat
      /\ instr \in Found => instr \in reproducers
  <2>1. Found' = Found
    BY <1>2 DEF Found
  <2>2. Found \subseteq Unknown
    BY FoundUnknown DEF ScanInv
  <2>3. instr \in Found => instr \in reproducers
    BY <1>0, <1>2 DEF ScanInv, LastAnalysed
  <2> QED BY <2>1, <2>2, <2>3, Numbers
<1>7. /\ \A v \in Workers : to_generate[v] \in Nat
      /\ analysed_counter \in Nat /\ to_generate[w] = analysed_counter
      /\ analysed_counter <= instr /\ instr < analysed_counter + Step
  BY <1>1, <1>4, Numbers DEF ScanInv, Types, RangesClaimed, InputsLeft
<1>8. Types'
  <2>1. /\ file' \in [Files -> Seq(Unknown)]
        /\ buffer' \in [Workers -> [Files -> Seq(Unknown)]]
        /\ \A v \in Workers, f \in Files : Len(buffer'[v][f]) < BufferLines
    BY <1>1, <1>2, WriteProperties DEF ScanInv
  <2> QED BY <2>1, <1>2, <1>3, <1>5 DEF ScanInv, Types
<1>9. RangesClaimed'
  BY <1>2, <1>4 DEF ScanInv, RangesClaimed
<1>10. InputsLeft'
  <2>1. ASSUME NEW v \in Workers, Claimed(v)
        PROVE  /\ \A i \in inputs'[v] : to_generate[v] <= i /\ i < to_generate[v] + Step
               /\ \A i \in Found : to_generate[v] <= i /\ i < to_generate[v] + Step =>
                    i \in inputs'[v] \/ (InTurn(v)' /\ i \in reproducers)
               /\ at'[v] = "progress" => inputs'[v] # {}
    <3>1. CASE v = w
      BY <3>1, <1>3, <1>4, <1>5, <1>6 DEF ScanInv, InputsLeft
    <3>2. CASE v # w
      BY <3>2, <2>1, <1>3, <1>4, <1>5 DEF ScanInv, InputsLeft
    <3> QED BY <3>1, <3>2
  <2> QED BY <2>1, <1>2, <1>4, <1>6 DEF InputsLeft
<1>11. NothingSkipped' /\ AnalysedInOrder'
  BY <1>2, <1>6 DEF ScanInv, NothingSkipped, AnalysedInOrder
<1>12. LinesOK'
  <2>1. ASSUME NEW j \in Found, j < instr PROVE j \in reproducers
    <3>1. CASE j < analysed_counter
      BY <3>1 DEF ScanInv, NothingSkipped
    <3>2. CASE ~(j < analysed_counter)
      <4>1. to_generate[w] <= j /\ j < to_generate[w] + Step
        BY <3>2, <2>1, <1>1, <1>6, <1>7, Numbers
      <4>2. j \notin inputs[w]
        BY <2>1, <1>1, <1>6
      <4> QED BY <4>1, <4>2, <1>4 DEF ScanInv, InputsLeft
    <3> QED BY <3>1, <3>2
  <2>2. ASSUME NEW f \in to PROVE LineOK(f, instr)'
    <3>1. f = "progress" /\ f \notin Clients
      BY <1>2, Numbers
    <3>2. \A j \in Found' : j < instr => j \in reproducers'
      BY <2>1, <1>2, <1>6
    <3> QED BY <3>1, <3>2 DEF LineOK
  <2>3. Types /\ LinesOK /\ knows' = knows /\ reproducers \subseteq reproducers'
    BY <1>2 DEF ScanInv
  <2> QED BY <2>2, <2>3, <1>1, <1>2, WriteLinesOK
<1>13. LastAnalysed'
  <2>1. ASSUME NEW v \in Workers, at'[v] = "progress", Min(inputs'[v]) \in Found
        PROVE  Min(inputs'[v]) \in reproducers
    BY <2>1, <1>3, <1>5 DEF ScanInv, LastAnalysed
  <2> QED BY <2>1, <1>2, <1>6 DEF LastAnalysed
<1>14. Behind'
  <2> SUFFICES ASSUME NEW i \in ToSet(analysed), ~(i < analysed_counter)
               PROVE  /\ InTurn(w)' /\ i < to_generate[w] + Step
                      /\ \A j \in inputs'[w] : i < j \/ (at'[w] = "progress" /\ i = j)
    BY <1>2 DEF Behind
  <2>1. PICK v \in Workers :
          /\ InTurn(v) /\ i < to_generate[v] + Step
          /\ \A j \in inputs[v] : i < j \/ (at[v] = "progress" /\ i = j)
    BY DEF ScanInv, Behind
  <2>2. v = w
    BY <2>1, <1>4, OneInTurn DEF ScanInv
  <2>3. i \in Nat
    <3>1. i \in Unknown
      BY DEF ToSet, ScanInv, Types
    <3> QED BY <3>1, Numbers
  <2>4. ASSUME NEW j \in inputs[w], j # instr PROVE i < j
    <3>1. instr < j /\ j \in Nat
      BY <2>4, <1>1
    <3>2. i < instr \/ i = instr
      BY <2>1, <2>2, <1>1
    <3> QED BY <3>1, <3>2, <2>3, <1>1
  <2> QED BY <2>1, <2>2, <2>4, <1>4, <1>5
<1> QED BY <1>8, <1>9, <1>10, <1>11, <1>12, <1>13, <1>14 DEF ScanInv

(* The turn passes on when nothing of the range is left.                     *)
LEMMA NextTurnInv ==
  ASSUME ScanInv, NEW w \in Workers, NextTurn(w)
  PROVE  ScanInv'
<1>1. /\ UNCHANGED <<knows, counter, to_generate, inputs, file, buffer, reproducers, analysed, main>>
      /\ analysed_counter' = analysed_counter + Step
      /\ at[w] = "analyse" /\ inputs[w] = {}
  BY DEF NextTurn, logs
<1>2. /\ at' \in [Workers -> Places] /\ at'[w] = "claim"
      /\ \A v \in Workers \ {w} : at'[v] = IF at[v] = "asleep" THEN "woken" ELSE at[v]
  BY DEF ScanInv, Types, NextTurn, Places
<1>3. /\ InTurn(w) /\ Claimed(w) /\ ~InTurn(w)' /\ ~Claimed(w)'
      /\ \A v \in Workers \ {w} : (Claimed(v)' <=> Claimed(v)) /\ (InTurn(v)' <=> InTurn(v))
  BY <1>1, <1>2 DEF InTurn, Claimed
<1>4. \A v \in Workers : ~InTurn(v)'
  BY <1>3, OneInTurn DEF ScanInv
<1>5. /\ \A v \in Workers : to_generate[v] \in Nat
      /\ analysed_counter \in Nat /\ counter \in Nat /\ counter <= Until
      /\ to_generate[w] = analysed_counter /\ analysed_counter < counter
  BY <1>3, Numbers DEF ScanInv, Types, RangesClaimed
<1>6. Found' = Found /\ \A i \in Found : i \in Nat
  <2>1. Found \subseteq Unknown
    BY FoundUnknown DEF ScanInv
  <2> QED BY <2>1, <1>1, Numbers DEF Found
<1>7. Types'
  <2>1. analysed_counter' \in 0 .. Until + Step
    BY <1>1, <1>5, Numbers
  <2> QED BY <2>1, <1>1, <1>2 DEF ScanInv, Types
<1>8. RangesClaimed'
  <2>1. /\ \A v \in Workers : Claimed(v)' => to_generate[v] < counter
        /\ \A v, u \in Workers :
             Claimed(v)' /\ Claimed(u)' /\ to_generate[v] = to_generate[u] => v = u
    BY <1>3 DEF ScanInv, RangesClaimed
  <2>2. ASSUME NEW i \in analysed_counter + Step .. counter - 1
        PROVE  \E v \in Workers :
                 Claimed(v)' /\ to_generate[v] <= i /\ i < to_generate[v] + Step
    <3>1. i \in analysed_counter .. counter - 1
      BY <1>5, Numbers
    <3>2. PICK v \in Workers : Claimed(v) /\ to_generate[v] <= i /\ i < to_generate[v] + Step
      BY <3>1 DEF ScanInv, RangesClaimed
    <3>3. v # w
      BY <3>2, <1>5, Numbers
    <3> QED BY <3>2, <3>3, <1>3
  <2> QED BY <2>1, <2>2, <1>1, <1>4 DEF RangesClaimed
<1>9. InputsLeft'
  <2>1. ASSUME NEW v \in Workers, Claimed(v)'
        PROVE  /\ \A i \in inputs[v] : to_generate[v] <= i /\ i < to_generate[v] + Step
               /\ \A i \in Found : to_generate[v] <= i /\ i < to_generate[v] + Step =>
                    i \in inputs[v] \/ (InTurn(v)' /\ i \in reproducers)
               /\ at'[v] = "progress" => inputs[v] # {}
    <3>1. v # w /\ Claimed(v) /\ (InTurn(v)' <=> InTurn(v))
      BY <2>1, <1>3
    <3>2. at'[v] = "progress" => at[v] = "progress"
      BY <3>1, <1>2
    <3> QED BY <3>1, <3>2 DEF ScanInv, InputsLeft
  <2> QED BY <2>1, <1>1, <1>6 DEF InputsLeft
<1>10. NothingSkipped'
  <2> SUFFICES ASSUME NEW i \in Found, i < analysed_counter + Step PROVE i \in reproducers
    BY <1>1, <1>6 DEF NothingSkipped
  <2>1. CASE i < analysed_counter
    BY <2>1 DEF ScanInv, NothingSkipped
  <2>2. CASE ~(i < analysed_counter)
    <3>1. to_generate[w] <= i /\ i < to_generate[w] + Step
      BY <2>2, <1>5, <1>6
    <3> QED BY <3>1, <1>1, <1>3 DEF ScanInv, InputsLeft
  <2> QED BY <2>1, <2>2
<1>11. LinesOK' /\ AnalysedInOrder'
  BY <1>1, LinesUnchanged DEF ScanInv, AnalysedInOrder
<1>12. LastAnalysed'
  BY <1>4 DEF LastAnalysed, InTurn
<1>13. Behind'
  <2> SUFFICES ASSUME NEW i \in ToSet(analysed) PROVE i < analysed_counter + Step
    BY <1>1 DEF Behind
  <2>1. i \in Nat
    <3>1. i \in Unknown
      BY DEF ToSet, ScanInv, Types
    <3> QED BY <3>1, Numbers
  <2>2. CASE i < analysed_counter
    BY <2>1, <2>2, <1>5, Numbers
  <2>3. CASE ~(i < analysed_counter)
    <3>1. PICK v \in Workers : InTurn(v) /\ i < to_generate[v] + Step
      BY <2>3 DEF ScanInv, Behind
    <3>2. v = w
      BY <3>1, <1>3, OneInTurn DEF ScanInv
    <3> QED BY <3>1, <3>2, <1>5
  <2> QED BY <2>2, <2>3
<1> QED BY <1>7, <1>8, <1>9, <1>10, <1>11, <1>12, <1>13 DEF ScanInv

(* --resume goes on at the last line of the progress file, before which all that
   was found has its reproducer; that the lines of different workers came in
   any order does not matter, because this holds of each of them.            *)
LEMMA CrashAndResumeInv ==
  ASSUME ScanInv, CrashAndResume
  PROVE  ScanInv'
<1> DEFINE last == Last(file["progress"])
<1>1. last \in ToSet(file["progress"]) /\ last \in Unknown
  <2>1. file["progress"] \in Seq(Unknown) /\ file["progress"] # <<>>
    BY DEF ScanInv, Types, CrashAndResume, Files
  <2> QED BY <2>1 DEF Last, ToSet
<1>2. /\ counter' = last /\ analysed_counter' = last
      /\ at' = [v \in Workers |-> "claim"] /\ to_generate' = [v \in Workers |-> 0]
      /\ inputs' = [v \in Workers |-> {}]
      /\ buffer' = [v \in Workers |-> [f \in Files |-> <<>>]]
      /\ analysed' = <<>> /\ main' = "watch"
      /\ UNCHANGED <<knows, file, reproducers>>
  BY DEF CrashAndResume
<1>3. last \in Nat /\ last < Until
  BY <1>1, Numbers
<1>4. LineOK("progress", last)
  BY <1>1 DEF ScanInv, LinesOK, Files
<1> HIDE DEF last
<1>5. Types'
  <2>1. counter' \in 0 .. Until /\ analysed_counter' \in 0 .. Until + Step
    BY <1>2, <1>3, Numbers
  <2>2. at' \in [Workers -> Places] /\ to_generate' \in [Workers -> 0 .. Until]
        /\ inputs' \in [Workers -> SUBSET Unknown]
    BY <1>2, Numbers DEF Places
  <2>3. /\ buffer' \in [Workers -> [Files -> Seq(Unknown)]]
        /\ \A v \in Workers, f \in Files : Len(buffer'[v][f]) < BufferLines
    BY <1>2, Numbers
  <2> QED BY <2>1, <2>2, <2>3, <1>2 DEF ScanInv, Types
<1>6. \A v \in Workers : ~Claimed(v)' /\ ~InTurn(v)' /\ at'[v] # "progress"
  BY <1>2 DEF Claimed, InTurn
<1>7. RangesClaimed'
  <2>1. \A i \in analysed_counter' .. counter' - 1 : FALSE
    BY <1>2, <1>3
  <2> QED BY <2>1, <1>6 DEF RangesClaimed
<1>8. InputsLeft' /\ LastAnalysed'
  BY <1>6 DEF InputsLeft, LastAnalysed
<1>9. NothingSkipped'
  BY <1>2, <1>4 DEF NothingSkipped, LineOK, Found
<1>10. ToSet(<<>>) = {}
  BY DEF ToSet
<1>11. LinesOK'
  <2>1. \A f, i : LineOK(f, i) => LineOK(f, i)'
    BY <1>2 DEF LineOK, Found
  <2>2. \A f \in Files : \A i \in ToSet(file'[f]) : LineOK(f, i)'
    BY <2>1, <1>2 DEF ScanInv, LinesOK
  <2>3. \A v \in Workers, f \in Files : buffer'[v][f] = <<>>
    BY <1>2
  <2> QED BY <2>2, <2>3, <1>10 DEF LinesOK
<1>12. Behind' /\ AnalysedInOrder'
  BY <1>2, <1>10 DEF Behind, AnalysedInOrder
<1> QED BY <1>5, <1>7, <1>8, <1>9, <1>11, <1>12 DEF ScanInv

(* finished is set when nothing is left to claim, main waits for the workers,
   and a worker dies only of a lost client.                                  *)
LEMMA EndInOrderInv ==
  ASSUME IInv, [Next]_vars
  PROVE  EndInOrder'
<1>1. /\ at \in [Workers -> Places] /\ counter \in Nat /\ counter <= Until /\ Until \in Nat
      /\ main \in {"watch", "join", "done"}
  BY Numbers DEF IInv, ScanInv, Types
<1>2. EndInOrder
  BY DEF IInv
<1>3. ASSUME NEW w \in Workers, Claim(w) PROVE EndInOrder'
  BY <1>1, <1>2, <1>3 DEF EndInOrder, Claim, Places
<1>4. ASSUME NEW w \in Workers, EndWorker(w) PROVE EndInOrder'
  BY <1>1, <1>2, <1>4 DEF EndInOrder, EndWorker, Places
<1>5. ASSUME NEW w \in Workers, Execute(w) PROVE EndInOrder'
  BY <1>1, <1>2, <1>5 DEF EndInOrder, Execute, Places
<1>6. ASSUME NEW w \in Workers, ExecuteRaises(w) PROVE EndInOrder'
  BY <1>1, <1>2, <1>6 DEF EndInOrder, ExecuteRaises, Places
<1>7. ASSUME NEW w \in Workers, WaitTurn(w) PROVE EndInOrder'
  BY <1>1, <1>2, <1>7 DEF EndInOrder, WaitTurn, Places
<1>8. ASSUME NEW w \in Workers, LogResults(w) PROVE EndInOrder'
  BY <1>1, <1>2, <1>8 DEF EndInOrder, LogResults, Places
<1>9. ASSUME NEW w \in Workers, LogProgress(w) PROVE EndInOrder'
  BY <1>1, <1>2, <1>9 DEF EndInOrder, LogProgress, Places
<1>10. ASSUME NEW w \in Workers, NextTurn(w) PROVE EndInOrder'
  BY <1>1, <1>2, <1>10 DEF EndInOrder, NextTurn, Places
<1>11. CASE ClientLost \/ SeeFinished \/ Join
  <2>1. CASE ClientLost
    BY <1>1, <1>2, <2>1 DEF EndInOrder, ClientLost, work
  <2>2. CASE SeeFinished
    BY <1>1, <1>2, <2>2 DEF EndInOrder, SeeFinished, work
  <2>3. CASE Join
    BY <1>1, <1>2, <2>3 DEF EndInOrder, Join, work
  <2> QED BY <1>11, <2>1, <2>2, <2>3
<1>12. CASE CrashAndResume
  BY <1>12 DEF EndInOrder, CrashAndResume
<1>13. CASE UNCHANGED vars
  BY <1>2, <1>13 DEF EndInOrder, vars
<1> QED BY <1>3, <1>4, <1>5, <1>6, <1>7, <1>8, <1>9, <1>10, <1>11, <1>12, <1>13
        DEF Next, Run, Main

(* Every step keeps the invariant.                                           *)
LEMMA NextInv ==
  ASSUME IInv, [Next]_vars
  PROVE  IInv'
<1>1. ScanInv
  BY DEF IInv
<1>2. ASSUME NEW w \in Workers, Run(w) PROVE ScanInv'
  BY <1>1, <1>2, ClaimInv, EndWorkerInv, ExecuteInv, ExecuteRaisesInv, WaitTurnInv,
     LogResultsInv, LogProgressInv, NextTurnInv DEF Run
<1>3. ASSUME Main \/ ClientLost PROVE ScanInv'
  BY <1>1, <1>3, OthersInv DEF Main
<1>4. ASSUME CrashAndResume PROVE ScanInv'
  BY <1>1, <1>4, CrashAndResumeInv
<1>5. ASSUME UNCHANGED vars PROVE ScanInv'
  <2>1. ScanInv' <=> ScanInv
    BY <1>5 DEF vars, ScanInv, Types, RangesClaimed, InputsLeft, NothingSkipped, LinesOK, LineOK,
                LastAnalysed, Behind, AnalysedInOrder, Claimed, InTurn, Found
  <2> QED BY <2>1, <1>1
<1>6. ScanInv'
  BY <1>2, <1>3, <1>4, <1>5 DEF Next
<1>7. EndInOrder'
  BY EndInOrderInv
<1> QED BY <1>6, <1>7 DEF IInv

(* The invariant holds in every state: claims are disjoint and leave no gap,
   one worker at most is in its turn, and every line of the progress file, or
   on its way there, may be resumed from.                                    *)
THEOREM ScanInvariant == Spec => []IInv
<1>1. Init => IInv
  BY InitInv
<1>2. IInv /\ [Next]_vars => IInv'
  BY NextInv
<1> QED BY <1>1, <1>2, PTL DEF Spec

-----------------------------------------------------------------------------
(* The properties of the scan.                                               *)

(* Types; a client's file has only instructions that this client knows, and no
   buffer is ever full when a worker goes on.                                *)
THEOREM ScanTypes == Spec => []TypeOK
<1>1. IInv => TypeOK
  <2> SUFFICES ASSUME IInv PROVE TypeOK
    OBVIOUS
  <2>1. /\ counter \in 0 .. Until /\ analysed_counter \in 0 .. Until + Step
        /\ at \in [Workers -> Places]
        /\ \A w \in Workers : to_generate[w] \in 0 .. Until /\ inputs[w] \subseteq Unknown
        /\ \A f \in Files : file[f] \in Seq(Unknown)
        /\ \A w \in Workers, f \in Files : Len(buffer[w][f]) < BufferLines
        /\ main \in {"watch", "join", "done"}
    BY DEF IInv, ScanInv, Types
  <2>2. \A f \in Files : ToSet(file[f]) \subseteq Unknown
    BY <2>1 DEF ToSet
  <2>3. \A c \in Clients : ToSet(file[c]) \subseteq knows[c]
    BY DEF IInv, ScanInv, LinesOK, LineOK, Files
  <2> QED BY <2>1, <2>2, <2>3 DEF TypeOK, Places
<1> QED BY <1>1, ScanInvariant, PTL

(* Whoever executed first, instructions are analysed in ascending order and each
   once in a session.                                                        *)
THEOREM ScannedInOrder == Spec => []AnalysedInOrder
<1>1. IInv => AnalysedInOrder
  BY DEF IInv, ScanInv
<1> QED BY <1>1, ScanInvariant, PTL

(* Everything found before the range whose turn it is has a reproducer, in this
   session and after any number of stops and resumes.                        *)
THEOREM ResumeSkipsNothing == Spec => []NothingSkipped
<1>1. IInv => NothingSkipped
  BY DEF IInv, ScanInv
<1> QED BY <1>1, ScanInvariant, PTL

(* When the end is announced and no client was lost, all that any client knows
   has a reproducer.                                                         *)
THEOREM ScanComplete == Spec => []AnnouncedComplete
<1>1. IInv => AnnouncedComplete
  <2> SUFFICES ASSUME IInv, main = "done", ~down PROVE Found \subseteq reproducers
    BY DEF AnnouncedComplete
  <2>1. \A w \in Workers : ~Claimed(w)
    BY DEF IInv, EndInOrder, Claimed
  <2>2. counter = Until
    BY DEF IInv, EndInOrder
  <2>3. analysed_counter >= Until
    <3>1. analysed_counter \in Nat /\ Until \in Nat
      BY Numbers DEF IInv, ScanInv, Types
    <3>2. analysed_counter \notin analysed_counter .. Until - 1
      BY <2>1, <2>2 DEF IInv, ScanInv, RangesClaimed
    <3> QED BY <3>1, <3>2
  <2>4. \A i \in Found : i < analysed_counter
    <3>1. Found \subseteq Unknown
      BY FoundUnknown DEF IInv, ScanInv
    <3>2. analysed_counter \in Nat /\ Until \in Nat
      BY Numbers DEF IInv, ScanInv, Types
    <3> QED BY <3>1, <3>2, <2>3, Numbers
  <2> QED BY <2>4 DEF IInv, ScanInv, NothingSkipped
<1> QED BY <1>1, ScanInvariant, PTL
=============================================================================
