-------------------------- MODULE SpeedTestSession --------------------------
(***************************************************************************)
(* One WebSocket speed test: SpeedTestHandler.TestStatus together with     *)
(* SpeedTestService.RunTest, testDownload and testUpload.                  *)
(*                                                                         *)
(* Four goroutines share a buffered channel of progress updates:           *)
(*                                                                         *)
(*   - the producer runs the test, stores the row and closes the channel;  *)
(*   - testDownload and testUpload each start a ticker goroutine that      *)
(*     sends a progress update every 200ms and that nobody waits for;      *)
(*   - the HTTP handler ranges over the channel and writes each update to  *)
(*     the WebSocket; when it returns, the request's context is cancelled. *)
(*                                                                         *)
(* The channel is its whole history: `log' is every update ever sent and   *)
(* `rd' how many the handler has received, so the updates in the channel   *)
(* are those at positions rd+1 .. Len(log).                                *)
(***************************************************************************)
EXTENDS Naturals, Sequences, FiniteSets

CONSTANTS
  Cap,       \* capacity of progressChan: 10 in the code
  MaxTicks   \* progress updates one ticker sends at most: 50 in the code

ASSUME CapAssumption == Cap \in Nat \ {0}
ASSUME TicksAssumption == MaxTicks \in Nat

(***************************************************************************)
(* The producer's program points, in the order in which it passes them.    *)
(* An update is named for the point that sends it: DownloadRun and         *)
(* UploadRun are the updates of the two tickers, the others the producer's *)
(* own.  BareComplete is the "complete" of RunTest, which carries no       *)
(* result; FullComplete is the one of TestStatus, with the test id, the    *)
(* share code and the measured values.                                     *)
(***************************************************************************)
PingStart     == 1
PingDone      == 2
DownloadStart == 3
DownloadRun   == 4
DownloadDone  == 5
UploadStart   == 6
UploadRun     == 7
UploadDone    == 8
BareComplete  == 9
Insert        == 10
FullComplete  == 11
CloseChan     == 12
Exit          == 13

Stage  == {DownloadRun, UploadRun}
Script == {PingStart, PingDone, DownloadStart, DownloadDone, UploadStart,
           UploadDone, BareComplete, FullComplete}

VARIABLES
  pc,        \* the producer's program point
  log,       \* every update sent on progressChan
  rd,        \* how many of them the handler has received
  got,       \* how many of them the client has been written
  ticker,    \* the ticker goroutine of each stage
  over,      \* the stages whose endTime has passed
  handler,   \* the HTTP handler's goroutine
  client,    \* the peer of the WebSocket
  ctx,       \* the request's context
  row,       \* what CreateSpeedTest returned
  crashed    \* has a panic killed the process?

vars == <<pc, log, rd, got, ticker, over, handler, client, ctx, row,
          crashed>>

Room   == Len(log) - rd < Cap
Closed == pc = Exit
Sent(p) == \E i \in 1..Len(log) : log[i] = p
\* The client holds the final result, with its test id and share code.
Told   == \E i \in 1..got : log[i] = FullComplete

TypeOK ==
  /\ pc \in PingStart..Exit
  /\ log \in Seq(Script \union Stage)
  /\ rd \in 0..Len(log)
  /\ got \in 0..rd
  /\ Len(log) - rd <= Cap
  /\ ticker \in [Stage -> {"waiting", "sampled", "returned"}]
  /\ over \in SUBSET Stage
  /\ handler \in {"receive", "write", "returned"}
  /\ client \in {"reading", "stalled", "gone"}
  /\ ctx \in {"live", "timedOut", "cancelled"}
  /\ row \in {"none", "stored", "refused", "timedOut", "cancelled"}
  /\ crashed \in BOOLEAN

Init ==
  /\ pc = PingStart
  /\ log = <<>>
  /\ rd = 0
  /\ got = 0
  /\ ticker = [k \in Stage |-> "waiting"]
  /\ over = {}
  /\ handler = "receive"
  /\ client = "reading"
  /\ ctx = "live"
  /\ row = "none"
  /\ crashed = FALSE

-----------------------------------------------------------------------------
(* The producer. *)

\* Mutant: progressChan grows without bound.
Emit_Unbounded ==
  /\ ~crashed
  /\ pc \in Script
  /\ log' = Append(log, pc)
  /\ pc' = pc + 1
  /\ UNCHANGED <<rd, got, ticker, over, handler, client, ctx, row, crashed>>

\* progressChan <- ...: blocks while the channel is full.
Emit ==
  /\ ~crashed
  /\ pc \in Script
  /\ Room
  /\ log' = Append(log, pc)
  /\ pc' = pc + 1
  /\ UNCHANGED <<rd, got, ticker, over, handler, client, ctx, row, crashed>>

\* The clock passes the endTime of the running stage.
StageDeadline(k) ==
  /\ ~crashed
  /\ pc = k
  /\ k \notin over
  /\ over' = over \union {k}
  /\ UNCHANGED <<pc, log, rd, got, ticker, handler, client, ctx, row, crashed>>

\* Mutant: the stage's own final update is forgotten.
FinishStage_Silent(k) ==
  /\ ~crashed
  /\ pc = k
  /\ k \in over
  /\ pc' = pc + 2
  /\ UNCHANGED <<log, rd, got, ticker, over, handler, client, ctx, row, crashed>>

\* Every worker has seen the endTime, wg.Wait returns, and the deferred
\* ticker.Stop leaves the ticker's channel open and empty for good.
FinishStage(k) ==
  /\ ~crashed
  /\ pc = k
  /\ k \in over
  /\ pc' = pc + 1
  /\ UNCHANGED <<log, rd, got, ticker, over, handler, client, ctx, row, crashed>>

\* Mutant: the INSERT is handed to yet another goroutine and not awaited.
InsertRow_Async ==
  /\ ~crashed
  /\ pc = Insert
  /\ pc' = pc + 1
  /\ UNCHANGED <<log, rd, got, ticker, over, handler, client, ctx, row, crashed>>

\* CreateSpeedTest(r.Context(), test).  Its error is dropped: the producer goes
\* on to announce the result whatever it was.  The store refuses a row when
\* Shutdown has closed it, or when the test has no share code and an earlier
\* one without took the one empty share_code that UNIQUE admits.
InsertRow ==
  /\ ~crashed
  /\ pc = Insert
  /\ row' \in IF ctx = "live" THEN {"stored", "refused"} ELSE {ctx}
  /\ pc' = pc + 1
  /\ UNCHANGED <<log, rd, got, ticker, over, handler, client, ctx, crashed>>

\* Mutant: the channel is never closed.
CloseChannel_Forgotten ==
  /\ ~crashed
  /\ pc = CloseChan
  /\ UNCHANGED vars

\* close(progressChan), the producer's last statement.
CloseChannel ==
  /\ ~crashed
  /\ pc = CloseChan
  /\ pc' = Exit
  /\ UNCHANGED <<log, rd, got, ticker, over, handler, client, ctx, row, crashed>>

-----------------------------------------------------------------------------
(* The ticker goroutine of stage k. *)

\* A tick arrives (none does once testDownload or testUpload has returned):
\* past the endTime the goroutine returns, else it reads the byte counter and
\* goes on to send.
Tick(k) ==
  /\ ~crashed
  /\ pc = k
  /\ ticker[k] = "waiting"
  /\ k \notin over => Cardinality({i \in 1..Len(log) : log[i] = k}) < MaxTicks
  /\ ticker' = [ticker EXCEPT ![k] = IF k \in over THEN "returned" ELSE "sampled"]
  /\ UNCHANGED <<pc, log, rd, got, over, handler, client, ctx, row, crashed>>

\* The send that follows, however late it runs.
SendTick(k) ==
  /\ ~crashed
  /\ ~Closed
  /\ ticker[k] = "sampled"
  /\ Room
  /\ log' = Append(log, k)
  /\ ticker' = [ticker EXCEPT ![k] = "waiting"]
  /\ UNCHANGED <<pc, rd, got, over, handler, client, ctx, row, crashed>>

\* A send on the closed channel, or one still blocked when it closes: the
\* panic is in a goroutine of its own, out of the Recoverer's reach.
SendOnClosed(k) ==
  /\ ~crashed
  /\ Closed
  /\ ticker[k] = "sampled"
  /\ crashed' = TRUE
  /\ UNCHANGED <<pc, log, rd, got, ticker, over, handler, client, ctx, row>>

-----------------------------------------------------------------------------
(* The HTTP handler. *)

\* The deferred cancel of the Timeout middleware, and of net/http itself.
HandlerReturns ==
  /\ handler' = "returned"
  /\ ctx' = IF ctx = "live" THEN "cancelled" ELSE ctx

\* Mutant: the handler stops at the first "complete", as the web page does.
Receive_StopsAtComplete ==
  /\ ~crashed
  /\ handler = "receive"
  /\ rd < Len(log)
  /\ rd' = rd + 1
  /\ IF log[rd + 1] = BareComplete
       THEN HandlerReturns
       ELSE handler' = "write" /\ UNCHANGED ctx
  /\ UNCHANGED <<pc, log, got, ticker, over, client, row, crashed>>

Receive ==
  /\ ~crashed
  /\ handler = "receive"
  /\ rd < Len(log)
  /\ rd' = rd + 1
  /\ handler' = "write"
  /\ UNCHANGED <<pc, log, got, ticker, over, client, ctx, row, crashed>>

\* conn.WriteJSON succeeds: a peer that has gone loses what the kernel buffers.
WriteOK ==
  /\ ~crashed
  /\ handler = "write"
  /\ client # "stalled"
  /\ got' = IF client = "reading" THEN rd ELSE got
  /\ handler' = "receive"
  /\ UNCHANGED <<pc, log, rd, ticker, over, client, ctx, row, crashed>>

\* conn.WriteJSON fails: the handler leaves the channel unread.
WriteFails ==
  /\ ~crashed
  /\ handler = "write"
  /\ client = "gone"
  /\ HandlerReturns
  /\ UNCHANGED <<pc, log, rd, got, ticker, over, client, row, crashed>>

\* The range loop ends: the channel is closed and drained.
Drained ==
  /\ ~crashed
  /\ handler = "receive"
  /\ Closed
  /\ rd = Len(log)
  /\ HandlerReturns
  /\ UNCHANGED <<pc, log, rd, got, ticker, over, client, row, crashed>>

-----------------------------------------------------------------------------
(* The environment. *)

\* The peer stops reading until the socket buffers are full, and resumes (no
\* write deadline is set on the hijacked connection), or goes away.
ClientMoves ==
  /\ ~crashed
  /\ handler # "returned"
  /\ client # "gone"
  /\ client' \in {"reading", "stalled", "gone"} \ {client}
  /\ UNCHANGED <<pc, log, rd, got, ticker, over, handler, ctx, row, crashed>>

\* Mutant: the deadline cancels the request while the handler still serves it.
ContextDeadline_Cancels ==
  /\ ~crashed
  /\ ctx = "live"
  /\ ctx' = "cancelled"
  /\ UNCHANGED <<pc, log, rd, got, ticker, over, handler, client, row, crashed>>

\* The request's deadline (30s in production mode) passes.
ContextDeadline ==
  /\ ~crashed
  /\ ctx = "live"
  /\ ctx' = "timedOut"
  /\ UNCHANGED <<pc, log, rd, got, ticker, over, handler, client, row, crashed>>

Producer == Emit \/ InsertRow \/ CloseChannel \/ \E k \in Stage : FinishStage(k)
Handler  == Receive \/ WriteOK \/ WriteFails \/ Drained

Next ==
  \/ Emit
  \/ InsertRow
  \/ CloseChannel
  \/ \E k \in Stage : StageDeadline(k) \/ FinishStage(k)
  \/ \E k \in Stage : Tick(k) \/ SendTick(k) \/ SendOnClosed(k)
  \/ Receive
  \/ WriteOK
  \/ WriteFails
  \/ Drained
  \/ ClientMoves
  \/ ContextDeadline

Spec == Init /\ [][Next]_vars

(***************************************************************************)
(* What the scheduling guarantees: a goroutine that can run is run, and    *)
(* the clock reaches each endTime.  Nothing is assumed of the tickers, the *)
(* client or the context.  Weak fairness is enough for the producer's sends: *)
(* it competes for room only with finitely many ticks.                     *)
(***************************************************************************)
FairSpec ==
  /\ Spec
  /\ WF_vars(Producer)
  /\ WF_vars(Handler)
  /\ \A k \in Stage : WF_vars(StageDeadline(k))

-----------------------------------------------------------------------------
(* Properties. *)

\* The producer's own updates (RunTest, TestStatus) are sent in the order of
\* the script with none left out, and a ticker's updates never precede the
\* "starting" update of its stage, whatever the interleaving.
ScriptInOrder ==
  /\ \A i, j \in 1..Len(log) :
       i < j /\ log[i] \in Script /\ log[j] \in Script => log[i] < log[j]
  /\ \A p \in Script : p < pc => Sent(p)
  /\ \A i \in 1..Len(log) : log[i] \in Stage =>
       \E j \in 1..(i - 1) : log[j] = log[i] - 1

\* The update at position i comes from a stage that a later point of the
\* producer had already reported as over.
Straggler(i) == log[i] \in Stage /\ \E j \in 1..(i - 1) : log[j] > log[i]

\* A ticker goroutine outlives its stage (nobody waits for it), but sends at
\* most one update after the stage has been reported complete: the one it had
\* sampled before the endTime.
OneStraggler ==
  \A i, j \in 1..Len(log) :
    Straggler(i) /\ Straggler(j) /\ log[i] = log[j] => i = j

\* A client that holds the test id and share code holds them for a test whose
\* INSERT has returned, and not with "context canceled": only a refusal of the
\* store or the request's deadline can make the codes it holds dangle.
ToldAfterInsert == Told => row \notin {"none", "cancelled"}

\* A panic of a late ticker never loses the row or the announcement: by then
\* the INSERT has returned and FullComplete is on the channel.
CrashAfterAnnouncement == crashed => row # "none" /\ Sent(FullComplete)

\* The session does what TestRun promises.
Run == INSTANCE TestRun WITH
  outcome <- row, told <- Told, open <- handler # "returned", dead <- crashed
ImplementsTestRun == Run!Spec

\* A client that ends up reading is told the final result, unless a late
\* ticker's panic kills the process first.
SteadyClientIsTold == <>[](client = "reading") => <>(Told \/ crashed)

\* Once the client has gone the handler's goroutine ends: some write fails, or
\* the channel is closed and drained.
AbandonedHandlerEnds == client = "gone" ~> (handler = "returned" \/ crashed)

\* "leak-free code" and "capped goroutines" (AI.md:551): a producer that still
\* has something to send has room for it once nobody receives any more.
NoStrandedProducer ==
  handler = "returned" /\ pc \in Script /\ ~crashed => Room

\* The client is given a test id and a share code that the server can resolve.
ToldIsStored == Told => row = "stored"
=============================================================================
