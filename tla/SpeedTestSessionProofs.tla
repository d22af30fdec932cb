----------------------- MODULE SpeedTestSessionProofs -----------------------
(***************************************************************************)
(* Proofs about SpeedTestSession, for every capacity of the channel and    *)
(* every number of ticks.                                                  *)
(*                                                                         *)
(* The safety properties are not inductive: that a late ticker cannot send *)
(* a second straggler, for instance, rests on where the producer was when  *)
(* the ticker sampled.  SessionInv adds what the steps need to know of     *)
(* each other.                                                             *)
(***************************************************************************)
EXTENDS SpeedTestSession, TLAPS

\* What the proofs need to know of the producer's program points.
LEMMA PointFacts ==
  /\ PingStart = 1 /\ Insert = 10 /\ FullComplete = 11 /\ CloseChan = 12 /\ Exit = 13
  /\ \A p : p \in Script \/ p \in Stage =>
       p \in Nat /\ 1 <= p /\ p <= 11 /\ p # 10
  /\ \A p \in 1..13 : p \in Script \/ p \in Stage \/ p \in {10, 12, 13}
  /\ \A k \in Stage : k \notin Script /\ k - 1 \in Script
  /\ FullComplete \in Script
  BY DEF PingStart, PingDone, DownloadStart, DownloadRun, DownloadDone,
         UploadStart, UploadRun, UploadDone, BareComplete, Insert,
         FullComplete, CloseChan, Exit, Stage, Script

\* Nothing is sent before the producer reaches the point that sends it.
SentByPc == \A i \in 1..Len(log) : log[i] <= pc /\ (log[i] = pc => pc \in Stage)

\* A ticker samples only while its stage runs, and one that has already sent
\* a straggler has nothing left to send: its stage is over.
TickersInv ==
  /\ \A k \in Stage : ticker[k] = "sampled" => pc >= k
  /\ \A i \in 1..Len(log) : Straggler(i) =>
       pc > log[i] /\ ticker[log[i]] # "sampled"

\* The context is cancelled only by the handler's return, and the outcome of
\* the INSERT is known from the point after it on.
OutcomeInv ==
  /\ ctx = "cancelled" => handler = "returned"
  /\ row = "none" <=> pc <= Insert
  /\ row = "cancelled" => handler = "returned" /\ ~Told
  /\ crashed => Closed

SessionInv ==
  /\ TypeOK
  /\ SentByPc
  /\ TickersInv
  /\ OutcomeInv
  /\ ScriptInOrder
  /\ OneStraggler

-----------------------------------------------------------------------------

\* What sending one update does to the history.
LEMMA AppendHistory ==
  ASSUME NEW s \in Seq(Script \union Stage), NEW m \in Script \union Stage
  PROVE  /\ Append(s, m) \in Seq(Script \union Stage)
         /\ Len(Append(s, m)) = Len(s) + 1
         /\ \A i \in 1..Len(s) : Append(s, m)[i] = s[i]
         /\ Append(s, m)[Len(s) + 1] = m
  OBVIOUS

\* The variables keep their types, and the channel never holds more than Cap
\* updates: a send waits for room (SpeedTestHandler.TestStatus).
LEMMA TypeStep == TypeOK /\ [Next]_vars => TypeOK'
<1> SUFFICES ASSUME TypeOK, [Next]_vars PROVE TypeOK'
  OBVIOUS
<1> USE DEF TypeOK
<1>0. Len(log) \in Nat /\ rd \in Nat /\ Cap \in Nat
  BY CapAssumption
<1>1. CASE Emit
  <2>1. pc \in Script \union Stage /\ pc' \in PingStart..Exit
    BY <1>1, PointFacts DEF Emit
  <2>2. log' \in Seq(Script \union Stage) /\ Len(log') = Len(log) + 1
    BY <1>1, <2>1, AppendHistory DEF Emit
  <2>3. rd' \in 0..Len(log') /\ got' \in 0..rd' /\ Len(log') - rd' <= Cap
    BY <1>0, <1>1, <2>2 DEF Emit, Room
  <2> QED
    BY <1>1, <2>1, <2>2, <2>3 DEF Emit
<1>2. ASSUME NEW k \in Stage, SendTick(k) PROVE TypeOK'
  <2>1. log' \in Seq(Script \union Stage) /\ Len(log') = Len(log) + 1
    BY <1>2, AppendHistory DEF SendTick
  <2>2. rd' \in 0..Len(log') /\ got' \in 0..rd' /\ Len(log') - rd' <= Cap
    BY <1>0, <1>2, <2>1 DEF SendTick, Room
  <2>3. ticker' \in [Stage -> {"waiting", "sampled", "returned"}]
    BY <1>2 DEF SendTick
  <2> QED
    BY <1>2, <2>1, <2>2, <2>3 DEF SendTick
<1>3. CASE InsertRow
  BY <1>3, PointFacts DEF InsertRow
<1>4. CASE CloseChannel
  BY <1>4, PointFacts DEF CloseChannel
<1>5. ASSUME NEW k \in Stage, StageDeadline(k) PROVE TypeOK'
  BY <1>5 DEF StageDeadline
<1>6. ASSUME NEW k \in Stage, FinishStage(k) PROVE TypeOK'
  <2>1. pc' \in PingStart..Exit
    BY <1>6, PointFacts DEF FinishStage
  <2> QED
    BY <1>6, <2>1 DEF FinishStage
<1>7. ASSUME NEW k \in Stage, Tick(k) PROVE TypeOK'
  <2>1. ticker' \in [Stage -> {"waiting", "sampled", "returned"}]
    BY <1>7 DEF Tick
  <2> QED
    BY <1>7, <2>1 DEF Tick
<1>8. ASSUME NEW k \in Stage, SendOnClosed(k) PROVE TypeOK'
  BY <1>8 DEF SendOnClosed
<1>9. CASE Receive
  BY <1>0, <1>9 DEF Receive
<1>10. CASE WriteOK
  BY <1>0, <1>10 DEF WriteOK
<1>11. CASE WriteFails \/ Drained
  BY <1>11 DEF WriteFails, Drained, HandlerReturns
<1>12. CASE ClientMoves \/ ContextDeadline
  BY <1>12 DEF ClientMoves, ContextDeadline
<1>13. CASE UNCHANGED vars
  BY <1>13 DEF vars
<1> QED
  BY <1>1, <1>2, <1>3, <1>4, <1>5, <1>6, <1>7, <1>8, <1>9, <1>10, <1>11, <1>12, <1>13
  DEF Next

LEMMA InitInv == Init => SessionInv
<1> SUFFICES ASSUME Init PROVE SessionInv
  OBVIOUS
<1>1. TypeOK
  <2>1. pc \in PingStart..Exit /\ log \in Seq(Script \union Stage) /\ Len(log) = 0
    BY PointFacts DEF Init
  <2>2. rd \in 0..Len(log) /\ got \in 0..rd /\ Len(log) - rd <= Cap
    BY <2>1, CapAssumption DEF Init
  <2>3. ticker \in [Stage -> {"waiting", "sampled", "returned"}]
    BY DEF Init
  <2> QED
    BY <2>1, <2>2, <2>3 DEF Init, TypeOK
<1>2. SentByPc /\ TickersInv /\ OutcomeInv
  BY PointFacts DEF Init, SentByPc, TickersInv, OutcomeInv, Straggler, Told, Closed
<1>3. ScriptInOrder /\ OneStraggler
  BY PointFacts DEF Init, ScriptInOrder, OneStraggler, Straggler, Sent
<1> QED
  BY <1>1, <1>2, <1>3 DEF SessionInv

-----------------------------------------------------------------------------
(* The history of the channel. *)

\* Every step sends one update (Emit, SendTick) or leaves the history alone;
\* one that leaves it alone moves the producer past no send.
Quiet ==
  /\ log' = log
  /\ pc' = pc \/ (pc' = pc + 1 /\ pc \notin Script)
  /\ \A k \in Stage : ticker'[k] = "sampled" =>
       ticker[k] = "sampled" \/ pc' = k

LEMMA StepShape ==
  ASSUME TypeOK, [Next]_vars
  PROVE  Emit \/ (\E k \in Stage : SendTick(k)) \/ Quiet
<1> USE DEF TypeOK, Quiet
<1>1. ASSUME InsertRow \/ CloseChannel PROVE Quiet
  BY PointFacts, <1>1 DEF InsertRow, CloseChannel
<1>2. ASSUME NEW k \in Stage, StageDeadline(k) \/ FinishStage(k) PROVE Quiet
  BY PointFacts, <1>2 DEF StageDeadline, FinishStage
<1>3. ASSUME NEW k \in Stage, Tick(k) \/ SendOnClosed(k) PROVE Quiet
  BY PointFacts, <1>3 DEF Tick, SendOnClosed
<1>4. ASSUME Receive \/ WriteOK PROVE Quiet
  BY PointFacts, <1>4 DEF Receive, WriteOK
<1>5. ASSUME WriteFails \/ Drained \/ ClientMoves \/ ContextDeadline PROVE Quiet
  BY PointFacts, <1>5 DEF WriteFails, Drained, ClientMoves, ContextDeadline
<1>6. ASSUME UNCHANGED vars PROVE Quiet
  BY PointFacts, <1>6 DEF vars
<1> QED
  BY <1>1, <1>2, <1>3, <1>4, <1>5, <1>6 DEF Next

HistoryInv == SentByPc /\ TickersInv /\ ScriptInOrder /\ OneStraggler

\* The updates of a history are numbers.
LEMMA HistoryNumbers ==
  ASSUME TypeOK
  PROVE  /\ Len(log) \in Nat /\ pc \in Nat
         /\ \A i \in 1..Len(log) : log[i] \in Nat
<1>1. \A i \in 1..Len(log) : log[i] \in Script \/ log[i] \in Stage
  BY DEF TypeOK
<1> QED
  BY <1>1, PointFacts DEF TypeOK

\* A send of the producer itself.
LEMMA EmitHistory == TypeOK /\ HistoryInv /\ Emit => HistoryInv'
<1> SUFFICES ASSUME TypeOK, HistoryInv, Emit PROVE HistoryInv'
  OBVIOUS
<1>1. /\ pc \in Script
      /\ pc' = pc + 1
      /\ ticker' = ticker
      /\ Len(log') = Len(log) + 1
      /\ \A i \in 1..Len(log) : log'[i] = log[i]
      /\ log'[Len(log) + 1] = pc
  BY AppendHistory DEF Emit, TypeOK
<1>2. \A i \in 1..Len(log) : log[i] < pc
  BY <1>1, HistoryNumbers, PointFacts DEF HistoryInv, SentByPc
<1>3. SentByPc'
  <2> SUFFICES ASSUME NEW i \in 1..Len(log') PROVE log'[i] < pc'
    BY <1>1, HistoryNumbers DEF SentByPc
  <2>1. CASE i \in 1..Len(log)
    BY <1>1, <1>2, <2>1, HistoryNumbers
  <2>2. CASE i = Len(log) + 1
    BY <1>1, <2>2, HistoryNumbers
  <2> QED
    BY <1>1, <2>1, <2>2, HistoryNumbers
<1>4. \A i \in 1..Len(log') : Straggler(i)' => i \in 1..Len(log) /\ Straggler(i)
  <2> SUFFICES ASSUME NEW i \in 1..Len(log'), Straggler(i)'
               PROVE  i \in 1..Len(log) /\ Straggler(i)
    OBVIOUS
  <2>1. i # Len(log) + 1
    BY <1>1, PointFacts DEF Straggler
  <2>2. i \in 1..Len(log)
    BY <1>1, <2>1, HistoryNumbers
  <2> QED
    BY <1>1, <2>2, HistoryNumbers DEF Straggler
<1>5. TickersInv'
  <2>1. ASSUME NEW k \in Stage, ticker'[k] = "sampled" PROVE pc' >= k
    <3>1. pc >= k
      BY <1>1, <2>1 DEF HistoryInv, TickersInv
    <3>2. k \in Nat /\ pc \in Nat
      BY HistoryNumbers, PointFacts
    <3> QED
      BY <1>1, <3>1, <3>2
  <2>2. ASSUME NEW i \in 1..Len(log'), Straggler(i)'
        PROVE  pc' > log'[i] /\ ticker'[log'[i]] # "sampled"
    BY <1>1, <1>4, <2>2, HistoryNumbers DEF HistoryInv, TickersInv
  <2> QED
    BY <2>1, <2>2 DEF TickersInv
<1>6. OneStraggler'
  BY <1>1, <1>4 DEF HistoryInv, OneStraggler
<1>7. ScriptInOrder'
  <2>1. ASSUME NEW i \in 1..Len(log'), NEW j \in 1..Len(log'),
               i < j, log'[i] \in Script, log'[j] \in Script
        PROVE  log'[i] < log'[j]
    <3>1. CASE j \in 1..Len(log)
      BY <1>1, <2>1, <3>1, HistoryNumbers DEF HistoryInv, ScriptInOrder
    <3>2. CASE j = Len(log) + 1
      BY <1>1, <1>2, <2>1, <3>2, HistoryNumbers
    <3> QED
      BY <1>1, <3>1, <3>2, HistoryNumbers
  <2>2. ASSUME NEW p \in Script, p < pc' PROVE Sent(p)'
    <3>1. CASE p < pc
      BY <1>1, <3>1, HistoryNumbers DEF HistoryInv, ScriptInOrder, Sent
    <3>2. CASE p = pc
      BY <1>1, <3>2, HistoryNumbers DEF Sent
    <3> QED
      BY <1>1, <2>2, <3>1, <3>2, HistoryNumbers, PointFacts
  <2>3. ASSUME NEW i \in 1..Len(log'), log'[i] \in Stage
        PROVE  \E j \in 1..(i - 1) : log'[j] = log'[i] - 1
    <3>1. i \in 1..Len(log)
      BY <1>1, <2>3, HistoryNumbers, PointFacts
    <3> QED
      BY <1>1, <2>3, <3>1, HistoryNumbers DEF HistoryInv, ScriptInOrder
  <2> QED
    BY <2>1, <2>2, <2>3 DEF ScriptInOrder
<1> QED
  BY <1>3, <1>5, <1>6, <1>7 DEF HistoryInv

\* A send of a ticker, in its stage or after it.
LEMMA TickHistory ==
  ASSUME TypeOK, HistoryInv, NEW k \in Stage, SendTick(k)
  PROVE  HistoryInv'
<1>1. /\ pc' = pc
      /\ ticker[k] = "sampled"
      /\ ticker' = [ticker EXCEPT ![k] = "waiting"]
      /\ Len(log') = Len(log) + 1
      /\ \A i \in 1..Len(log) : log'[i] = log[i]
      /\ log'[Len(log) + 1] = k
  BY AppendHistory DEF SendTick, TypeOK
<1>2. k \in Nat /\ pc >= k
  BY <1>1, PointFacts DEF HistoryInv, TickersInv
<1>3. SentByPc'
  <2> SUFFICES ASSUME NEW i \in 1..Len(log')
               PROVE  log'[i] <= pc' /\ (log'[i] = pc' => pc' \in Stage)
    BY DEF SentByPc
  <2>1. CASE i \in 1..Len(log)
    BY <1>1, <2>1 DEF HistoryInv, SentByPc
  <2>2. CASE i = Len(log) + 1
    BY <1>1, <1>2, <2>2, HistoryNumbers
  <2> QED
    BY <1>1, <2>1, <2>2, HistoryNumbers
<1>4. \A i \in 1..Len(log) : Straggler(i)' <=> Straggler(i)
  BY <1>1, HistoryNumbers DEF Straggler
\* The new update is a straggler only if the stage is over.
<1>5. ASSUME NEW i, i = Len(log) + 1, Straggler(i)' PROVE pc > k
  <2>0. PICK j \in 1..(i - 1) : log'[j] > log'[i]
    BY <1>5 DEF Straggler
  <2>1. j \in 1..Len(log) /\ log[j] > k
    BY <1>1, <1>5, <2>0, HistoryNumbers
  <2>2. log[j] <= pc /\ log[j] \in Nat /\ pc \in Nat
    BY <2>1, HistoryNumbers DEF HistoryInv, SentByPc
  <2> QED
    BY <1>2, <2>1, <2>2
\* And it is the first of its stage: an earlier one would have found the
\* ticker with nothing left to send.
<1>6. \A i \in 1..Len(log) : Straggler(i) => log[i] # k
  BY <1>1 DEF HistoryInv, TickersInv
<1>7. TickersInv'
  <2>1. ASSUME NEW l \in Stage, ticker'[l] = "sampled" PROVE pc' >= l
    BY <1>1, <2>1 DEF HistoryInv, TickersInv, TypeOK
  <2>2. ASSUME NEW i \in 1..Len(log'), Straggler(i)'
        PROVE  pc' > log'[i] /\ ticker'[log'[i]] # "sampled"
    <3>1. CASE i \in 1..Len(log)
      <4>1. log'[i] = log[i] /\ log[i] \in Stage /\ Straggler(i)
        BY <1>1, <1>4, <2>2, <3>1 DEF Straggler
      <4>2. pc > log[i] /\ ticker[log[i]] # "sampled"
        BY <3>1, <4>1 DEF HistoryInv, TickersInv
      <4>3. ticker'[log[i]] # "sampled"
        BY <1>1, <4>1, <4>2 DEF TypeOK
      <4> QED
        BY <1>1, <4>1, <4>2, <4>3
    <3>2. CASE i = Len(log) + 1
      <4>1. log'[i] = k /\ pc > k
        BY <1>1, <1>5, <2>2, <3>2
      <4>2. ticker'[k] # "sampled"
        BY <1>1 DEF TypeOK
      <4> QED
        BY <1>1, <4>1, <4>2
    <3> QED
      BY <1>1, <3>1, <3>2, HistoryNumbers
  <2> QED
    BY <2>1, <2>2 DEF TickersInv
<1>8. OneStraggler'
  <2> SUFFICES ASSUME NEW i \in 1..Len(log'), NEW j \in 1..Len(log'),
                      Straggler(i)', Straggler(j)', log'[i] = log'[j]
               PROVE  i = j
    BY DEF OneStraggler
  <2>1. CASE i \in 1..Len(log) /\ j \in 1..Len(log)
    BY <1>1, <1>4, <2>1 DEF HistoryInv, OneStraggler
  <2>2. CASE i \in 1..Len(log) /\ j = Len(log) + 1
    BY <1>1, <1>4, <1>6, <2>2
  <2>3. CASE i = Len(log) + 1 /\ j \in 1..Len(log)
    BY <1>1, <1>4, <1>6, <2>3
  <2> QED
    BY <1>1, <2>1, <2>2, <2>3, HistoryNumbers
<1>9. ScriptInOrder'
  <2>1. k \notin Script /\ k - 1 \in Script
    BY PointFacts
  <2>2. ASSUME NEW i \in 1..Len(log'), NEW j \in 1..Len(log'),
               i < j, log'[i] \in Script, log'[j] \in Script
        PROVE  log'[i] < log'[j]
    <3>1. i # Len(log) + 1 /\ j # Len(log) + 1
      BY <1>1, <2>1, <2>2
    <3>2. i \in 1..Len(log) /\ j \in 1..Len(log)
      BY <1>1, <3>1, HistoryNumbers
    <3> QED
      BY <1>1, <2>2, <3>2 DEF HistoryInv, ScriptInOrder
  <2>3. ASSUME NEW p \in Script, p < pc' PROVE Sent(p)'
    <3>1. PICK i \in 1..Len(log) : log[i] = p
      BY <1>1, <2>3 DEF HistoryInv, ScriptInOrder, Sent
    <3> QED
      BY <1>1, <3>1, HistoryNumbers DEF Sent
  <2>4. ASSUME NEW i \in 1..Len(log'), log'[i] \in Stage
        PROVE  \E j \in 1..(i - 1) : log'[j] = log'[i] - 1
    <3>1. CASE i \in 1..Len(log)
      <4>1. PICK j \in 1..(i - 1) : log[j] = log[i] - 1
        BY <1>1, <2>4, <3>1 DEF HistoryInv, ScriptInOrder
      <4> QED
        BY <1>1, <3>1, <4>1, HistoryNumbers
    <3>2. CASE i = Len(log) + 1
      <4>1. PICK j \in 1..Len(log) : log[j] = k - 1
        BY <1>2, <2>1, HistoryNumbers DEF HistoryInv, ScriptInOrder, Sent
      <4> QED
        BY <1>1, <3>2, <4>1, HistoryNumbers
    <3> QED
      BY <1>1, <3>1, <3>2, HistoryNumbers
  <2> QED
    BY <2>2, <2>3, <2>4 DEF ScriptInOrder
<1> QED
  BY <1>3, <1>7, <1>8, <1>9 DEF HistoryInv

\* A step that sends nothing.
LEMMA QuietHistory == TypeOK /\ HistoryInv /\ Quiet => HistoryInv'
<1> SUFFICES ASSUME TypeOK, HistoryInv, Quiet PROVE HistoryInv'
  OBVIOUS
<1>1. log' = log /\ pc <= pc' /\ (pc' = pc \/ (pc' = pc + 1 /\ pc \notin Script))
  BY HistoryNumbers DEF Quiet
<1>2. SentByPc'
  BY <1>1, HistoryNumbers DEF HistoryInv, SentByPc
<1>3. \A i \in 1..Len(log) : Straggler(i)' <=> Straggler(i)
  BY <1>1 DEF Straggler
<1>4. TickersInv'
  <2>1. ASSUME NEW k \in Stage, ticker'[k] = "sampled" PROVE pc' >= k
    BY <1>1, <2>1, HistoryNumbers, PointFacts DEF HistoryInv, TickersInv, Quiet
  <2>2. ASSUME NEW i \in 1..Len(log), Straggler(i)
        PROVE  pc' > log[i] /\ ticker'[log[i]] # "sampled"
    <3>1. log[i] \in Stage /\ pc > log[i] /\ ticker[log[i]] # "sampled"
      BY <2>2 DEF Straggler, HistoryInv, TickersInv
    <3> QED
      BY <1>1, <3>1, HistoryNumbers DEF Quiet
  <2> QED
    BY <1>1, <1>3, <2>1, <2>2 DEF TickersInv
<1>5. OneStraggler'
  BY <1>1, <1>3 DEF HistoryInv, OneStraggler
<1>6. ScriptInOrder'
  <2>1. \A p \in Script : p < pc' => p < pc
    BY <1>1, HistoryNumbers, PointFacts
  <2> QED
    BY <1>1, <2>1 DEF HistoryInv, ScriptInOrder, Sent
<1> QED
  BY <1>2, <1>4, <1>5, <1>6 DEF HistoryInv

LEMMA HistoryStep == TypeOK /\ HistoryInv /\ [Next]_vars => HistoryInv'
  BY StepShape, EmitHistory, TickHistory, QuietHistory

-----------------------------------------------------------------------------
(* The result: its row, and what the client is told of it. *)

\* The client learns something only from a write that succeeds, and forgets
\* nothing.
LEMMA ToldStep ==
  ASSUME TypeOK, [Next]_vars
  PROVE  /\ Told => Told'
         /\ Told' => Told \/ (WriteOK /\ handler = "write")
<1>1. Len(log) \in Nat /\ rd \in 0..Len(log) /\ got \in 0..rd
  BY DEF TypeOK
<1>2. ASSUME NEW m \in Script \union Stage, log' = Append(log, m), got' = got
      PROVE  Told <=> Told'
  <2>1. \A i \in 1..got : i \in 1..Len(log) /\ log'[i] = log[i]
    BY <1>1, <1>2, AppendHistory DEF TypeOK
  <2> QED
    BY <1>2, <2>1 DEF Told
<1>3. ASSUME UNCHANGED <<log, got>> PROVE Told <=> Told'
  BY <1>3 DEF Told
<1>4. CASE Emit
  BY <1>2, <1>4 DEF Emit
<1>5. ASSUME NEW k \in Stage, SendTick(k) PROVE Told <=> Told'
  BY <1>2, <1>5 DEF SendTick
<1>6. CASE WriteOK
  <2>1. log' = log /\ handler = "write" /\ got' \in got..rd
    BY <1>1, <1>6 DEF WriteOK
  <2>2. \A i \in 1..got : i \in 1..got'
    BY <1>1, <2>1
  <2> QED
    BY <1>6, <2>1, <2>2 DEF Told
<1>7. ASSUME NEW k \in Stage,
             \/ StageDeadline(k) \/ FinishStage(k) \/ Tick(k) \/ SendOnClosed(k)
      PROVE  Told <=> Told'
  BY <1>3, <1>7 DEF StageDeadline, FinishStage, Tick, SendOnClosed
<1>8. CASE InsertRow \/ CloseChannel \/ Receive \/ WriteFails \/ Drained
           \/ ClientMoves \/ ContextDeadline \/ UNCHANGED vars
  BY <1>3, <1>8 DEF InsertRow, CloseChannel, Receive, WriteFails, Drained,
                    ClientMoves, ContextDeadline, vars
<1> QED
  BY <1>4, <1>5, <1>6, <1>7, <1>8 DEF Next

\* FullComplete is in the history only once the producer has passed the INSERT.
LEMMA AnnouncedLate ==
  ASSUME TypeOK, HistoryInv, NEW i \in 1..Len(log), log[i] = FullComplete
  PROVE  pc > FullComplete
<1>1. FullComplete <= pc /\ FullComplete # pc
  BY PointFacts DEF HistoryInv, SentByPc
<1> QED
  BY <1>1, HistoryNumbers, PointFacts

\* So the client is told nothing before.
LEMMA ToldLate == TypeOK /\ HistoryInv /\ Told => pc > FullComplete
<1> SUFFICES ASSUME TypeOK, HistoryInv, Told PROVE pc > FullComplete
  OBVIOUS
<1>1. PICK i \in 1..got : log[i] = FullComplete
  BY DEF Told
<1>2. i \in 1..Len(log)
  BY <1>1 DEF TypeOK
<1> QED
  BY <1>1, <1>2, AnnouncedLate

LEMMA OutcomeStep ==
  ASSUME TypeOK, HistoryInv, OutcomeInv, [Next]_vars PROVE OutcomeInv'
<1>0. pc \in Nat /\ Insert = 10 /\ Exit = 13
  BY HistoryNumbers, PointFacts
<1>1. ctx' = "cancelled" => handler' = "returned"
  <2>1. CASE Emit \/ InsertRow \/ CloseChannel \/ ClientMoves \/ ContextDeadline
             \/ UNCHANGED vars
    BY <2>1 DEF OutcomeInv, Emit, InsertRow, CloseChannel, ClientMoves,
                ContextDeadline, vars
  <2>2. ASSUME NEW k \in Stage,
               \/ StageDeadline(k) \/ FinishStage(k)
               \/ Tick(k) \/ SendTick(k) \/ SendOnClosed(k)
        PROVE  ctx' = "cancelled" => handler' = "returned"
    BY <2>2 DEF OutcomeInv, StageDeadline, FinishStage, Tick, SendTick, SendOnClosed
  <2>3. CASE Receive \/ WriteOK \/ WriteFails \/ Drained
    BY <2>3 DEF OutcomeInv, Receive, WriteOK, WriteFails, Drained, HandlerReturns
  <2> QED
    BY <2>1, <2>2, <2>3 DEF Next
<1>2. \/ InsertRow
      \/ row' = row /\ (pc' = pc \/ (pc' = pc + 1 /\ pc # Insert))
  <2>1. CASE Emit \/ CloseChannel \/ ClientMoves \/ ContextDeadline \/ UNCHANGED vars
    BY <1>0, <2>1, PointFacts
    DEF Emit, CloseChannel, CloseChan, ClientMoves, ContextDeadline, vars
  <2>2. ASSUME NEW k \in Stage,
               \/ StageDeadline(k) \/ FinishStage(k)
               \/ Tick(k) \/ SendTick(k) \/ SendOnClosed(k)
        PROVE  row' = row /\ (pc' = pc \/ (pc' = pc + 1 /\ pc # Insert))
    BY <1>0, <2>2, PointFacts
    DEF StageDeadline, FinishStage, Tick, SendTick, SendOnClosed
  <2>3. CASE Receive \/ WriteOK \/ WriteFails \/ Drained
    BY <2>3 DEF Receive, WriteOK, WriteFails, Drained
  <2> QED
    BY <2>1, <2>2, <2>3 DEF Next
<1>3. (row' = "none") <=> (pc' <= Insert)
  <2>1. CASE InsertRow
    <3>1. row' # "none" /\ pc = 10 /\ pc' = 11
      BY <1>0, <2>1 DEF InsertRow, TypeOK
    <3> QED
      BY <1>0, <3>1 DEF OutcomeInv
  <2>2. CASE row' = row /\ (pc' = pc \/ (pc' = pc + 1 /\ pc # Insert))
    BY <1>0, <2>2 DEF OutcomeInv
  <2> QED
    BY <1>2, <2>1, <2>2
<1>4. ASSUME row' = "cancelled" PROVE handler' = "returned" /\ ~Told'
  <2>1. handler = "returned" /\ ~Told
    <3>1. CASE InsertRow
      <4>1. ctx = "cancelled" /\ pc = Insert
        BY <1>4, <3>1 DEF InsertRow, TypeOK
      <4> QED
        BY <1>0, <4>1, ToldLate, PointFacts DEF OutcomeInv
    <3>2. CASE row' = row
      BY <1>4, <3>2 DEF OutcomeInv
    <3> QED
      BY <1>2, <3>1, <3>2
  <2>2. ~Told'
    BY <2>1, ToldStep
  <2>3. handler' = "returned"
    <3>1. CASE Emit \/ InsertRow \/ CloseChannel \/ ClientMoves \/ ContextDeadline
               \/ UNCHANGED vars
      BY <2>1, <3>1 DEF Emit, InsertRow, CloseChannel, ClientMoves,
                        ContextDeadline, vars
    <3>2. ASSUME NEW k \in Stage,
                 \/ StageDeadline(k) \/ FinishStage(k)
                 \/ Tick(k) \/ SendTick(k) \/ SendOnClosed(k)
          PROVE  handler' = "returned"
      BY <2>1, <3>2 DEF StageDeadline, FinishStage, Tick, SendTick, SendOnClosed
    <3>3. CASE Receive \/ WriteOK \/ WriteFails \/ Drained
      BY <2>1, <3>3 DEF Receive, WriteOK, WriteFails, Drained, HandlerReturns
    <3> QED
      BY <3>1, <3>2, <3>3 DEF Next
  <2> QED
    BY <2>2, <2>3
<1>5. crashed' => Closed'
  <2>1. CASE Emit \/ InsertRow \/ CloseChannel \/ ClientMoves \/ ContextDeadline
             \/ UNCHANGED vars
    BY <2>1 DEF OutcomeInv, Closed, Emit, InsertRow, CloseChannel, ClientMoves,
                ContextDeadline, vars
  <2>2. ASSUME NEW k \in Stage,
               \/ StageDeadline(k) \/ FinishStage(k)
               \/ Tick(k) \/ SendTick(k) \/ SendOnClosed(k)
        PROVE  crashed' => Closed'
    BY <2>2 DEF OutcomeInv, Closed, StageDeadline, FinishStage, Tick, SendTick,
                SendOnClosed
  <2>3. CASE Receive \/ WriteOK \/ WriteFails \/ Drained
    BY <2>3 DEF OutcomeInv, Closed, Receive, WriteOK, WriteFails, Drained
  <2> QED
    BY <2>1, <2>2, <2>3 DEF Next
<1> QED
  BY <1>1, <1>3, <1>4, <1>5 DEF OutcomeInv

\* The invariant holds in every reachable state.
THEOREM Invariance == Spec => []SessionInv
<1>1. Init => SessionInv
  BY InitInv
<1>2. SessionInv /\ [Next]_vars => SessionInv'
  BY TypeStep, HistoryStep, OutcomeStep DEF SessionInv, HistoryInv
<1> QED
  BY <1>1, <1>2, PTL DEF Spec

-----------------------------------------------------------------------------
(* What follows from it. *)

\* The program points, the goroutines and the channel keep their types, and
\* no more than Cap updates ever wait in the channel.
THEOREM TypeCorrect == Spec => []TypeOK
<1>1. SessionInv => TypeOK
  BY DEF SessionInv
<1> QED
  BY <1>1, Invariance, PTL

\* RunTest and TestStatus send their updates in order, none left out, and a
\* ticker's updates come after the "starting" of its stage.
THEOREM UpdatesInOrder == Spec => []ScriptInOrder
<1>1. SessionInv => ScriptInOrder
  BY DEF SessionInv
<1> QED
  BY <1>1, Invariance, PTL

\* A ticker goroutine sends at most one update once its stage has been
\* reported complete, for any number of ticks and any channel.
THEOREM AtMostOneStraggler == Spec => []OneStraggler
<1>1. SessionInv => OneStraggler
  BY DEF SessionInv
<1> QED
  BY <1>1, Invariance, PTL

\* The client is told its test id only once the INSERT has returned, and never
\* for a row lost to a cancelled request.
THEOREM NeverToldTooSoon == Spec => []ToldAfterInsert
<1>1. SessionInv => ToldAfterInsert
  <2> SUFFICES ASSUME SessionInv, Told PROVE row \notin {"none", "cancelled"}
    BY DEF ToldAfterInsert
  <2>1. pc > FullComplete
    BY ToldLate DEF SessionInv, HistoryInv
  <2>2. row # "none"
    BY <2>1, PointFacts, HistoryNumbers DEF SessionInv, OutcomeInv
  <2> QED
    BY <2>2 DEF SessionInv, OutcomeInv
<1> QED
  BY <1>1, Invariance, PTL

\* The panic of a late ticker comes after the INSERT and after the final
\* update has been put on the channel.
THEOREM CrashLosesNoRow == Spec => []CrashAfterAnnouncement
<1>1. SessionInv => CrashAfterAnnouncement
  <2> SUFFICES ASSUME SessionInv, crashed PROVE row # "none" /\ Sent(FullComplete)
    BY DEF CrashAfterAnnouncement
  <2>1. pc = 13
    BY PointFacts DEF SessionInv, OutcomeInv, Closed
  <2> QED
    BY <2>1, PointFacts DEF SessionInv, OutcomeInv, ScriptInOrder
<1> QED
  BY <1>1, Invariance, PTL

\* The session implements the promise of TestRun.
THEOREM Refinement == Spec => ImplementsTestRun
<1>1. Init => Run!Init
  BY DEF Init, Run!Init, Told
<1>2. SessionInv /\ [Next]_vars => [Run!Next]_Run!vars
  <2> SUFFICES ASSUME SessionInv, [Next]_vars PROVE [Run!Next]_Run!vars
    OBVIOUS
  <2> USE DEF Run!Next, Run!vars
  <2>0. TypeOK /\ OutcomeInv /\ HistoryInv
    BY DEF SessionInv, HistoryInv
  <2>1. ASSUME NEW k \in Stage,
               StageDeadline(k) \/ FinishStage(k) \/ Tick(k) \/ SendTick(k)
        PROVE  UNCHANGED Run!vars
    <3>1. UNCHANGED <<row, handler, crashed>>
      BY <2>1 DEF StageDeadline, FinishStage, Tick, SendTick
    <3>2. ~WriteOK
      BY <2>1 DEF WriteOK, StageDeadline, FinishStage, Tick, SendTick, TypeOK
    <3>3. Told' <=> Told
      BY <2>0, <3>2, ToldStep
    <3> QED
      BY <3>1, <3>3
  <2>2. ASSUME NEW k \in Stage, SendOnClosed(k) PROVE Run!Die
    BY <2>2 DEF SendOnClosed, Run!Die, Told
  <2>3. CASE Emit \/ CloseChannel \/ Receive \/ ClientMoves \/ ContextDeadline
    <3>1. UNCHANGED <<row, crashed>>
      BY <2>3 DEF Emit, CloseChannel, Receive, ClientMoves, ContextDeadline
    <3>2. (handler' # "returned") <=> (handler # "returned")
      BY <2>3 DEF Emit, CloseChannel, Receive, ClientMoves, ContextDeadline
    <3>3. Told' <=> Told
      <4>1. CASE Emit
        BY <2>0, <4>1, ToldStep DEF Emit, WriteOK
      <4>2. CASE CloseChannel \/ Receive \/ ClientMoves \/ ContextDeadline
        BY <4>2 DEF CloseChannel, Receive, ClientMoves, ContextDeadline, Told
      <4> QED
        BY <2>3, <4>1, <4>2
    <3> QED
      BY <3>1, <3>2, <3>3
  <2>4. CASE InsertRow
    <3>1. row' \in Run!Outcome /\ row = "none" /\ (row' = "cancelled" => handler = "returned")
      <4>1. row = "none"
        BY <2>0, <2>4, PointFacts DEF InsertRow, OutcomeInv
      <4> QED
        BY <2>0, <2>4, <4>1 DEF InsertRow, OutcomeInv, TypeOK, Run!Outcome
    <3> QED
      BY <2>4, <3>1 DEF InsertRow, Run!Decide, Told
  <2>5. CASE WriteFails \/ Drained
    BY <2>5 DEF WriteFails, Drained, HandlerReturns, Run!Hangup, Told
  <2>6. CASE WriteOK
    <3>1. UNCHANGED <<row, crashed>> /\ ~crashed /\ handler = "write" /\ handler' = "receive"
      BY <2>6 DEF WriteOK
    <3>2. CASE Told' <=> Told
      BY <3>1, <3>2
    <3>3. CASE Told' /\ ~Told
      <4>1. PICK i \in 1..got' : log[i] = FullComplete
        BY <2>6, <3>3 DEF WriteOK, Told
      <4>2. i \in 1..Len(log)
        BY <2>0, <2>6, <4>1 DEF WriteOK, TypeOK
      <4>3. row # "none"
        BY <2>0, <4>1, <4>2, AnnouncedLate, PointFacts, HistoryNumbers DEF OutcomeInv
      <4> QED
        BY <3>1, <3>3, <4>3 DEF Run!Tell
    <3> QED
      BY <2>0, <3>2, <3>3, ToldStep
  <2>7. CASE UNCHANGED vars
    BY <2>7 DEF vars, Told
  <2> QED
    BY <2>1, <2>2, <2>3, <2>4, <2>5, <2>6, <2>7 DEF Next
<1> QED
  BY <1>1, <1>2, Invariance, PTL DEF Spec, ImplementsTestRun, Run!Spec
=============================================================================
