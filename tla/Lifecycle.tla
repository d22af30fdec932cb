----------------------------- MODULE Lifecycle -----------------------------
(***************************************************************************)
(* Processes of the program on one machine: main's start, the PID file,    *)
(* the listener, signals and Shutdown (Unix).                              *)
(*                                                                         *)
(* A process checks the PID file, writes its own, opens the store, listens *)
(* and waits; it ends by returning from main, which removes the file, or   *)
(* by os.Exit or a kill, which leave everything as it is.  Every file      *)
(* operation is a step.  A file that is removed while another process has  *)
(* it open for writing is written in vain, so a process knows (linked)     *)
(* whether what it opened is still the file at the path.                   *)
(*                                                                         *)
(* A PID of an ended process may be given to a new one.  Other programs    *)
(* are left out: to CheckPIDFile, their PIDs are as good as unused.        *)
(***************************************************************************)
EXTENDS Naturals

CONSTANTS
  Process,    \* each of them started at most once: bound, for TLC
  Pid,        \* process IDs
  NoPid,      \* not one of them
  Absent,     \* no file at the path of the PID file
  Empty,      \* a file that has been created and not written
  NoProcess,  \* nobody is bound to the port
  MaxBusy     \* bound on the requests in flight

ASSUME PidAssumption == NoPid \notin Pid
ASSUME FileAssumption == Absent \notin Pid /\ Empty \notin Pid /\ Absent # Empty
ASSUME NobodyAssumption == NoProcess \notin Process
ASSUME BusyAssumption == MaxBusy \in Nat

VARIABLES
  pc,        \* what main is about to do
  pid,       \* os.Getpid() of a live process
  seen,      \* the PID that CheckPIDFile has read
  file,      \* the PID file: Absent, Empty or a PID
  linked,    \* is the file this process opened still the one at the path?
  port,      \* who is bound to the port
  listener,  \* the goroutine in ListenAndServe
  sig,       \* has Start's signal channel got a signal?
  busy,      \* requests in flight
  calm,      \* history: no process was started while another was starting
  accident   \* history: a process was killed or called os.Exit

vars == <<pc, pid, seen, file, linked, port, listener, sig, busy, calm, accident>>

\* From the reading of the PID file to the writing of one's own.
StartStates == {"read", "judge", "unlink", "create", "fill"}

\* From then on, up to its removal.
HoldStates ==
  {"notify", "open", "start", "wait", "closing", "draining", "unpid"}

\* Inside Start, and after.
ServeStates == HoldStates \ {"notify", "open"}

Starting(p) == pc[p] \in StartStates
Holding(p)  == pc[p] \in HoldStates
Live(p)     == Starting(p) \/ Holding(p)

TypeOK ==
  /\ pc \in [Process -> StartStates \union HoldStates \union {"off", "refused", "gone"}]
  /\ pid \in [Process -> Pid \union {NoPid}]
  /\ \A p \in Process : Live(p) <=> pid[p] # NoPid
  /\ seen \in [Process -> Pid \union {NoPid}]
  /\ \A p \in Process : pc[p] = "judge" <=> seen[p] # NoPid
  /\ file \in Pid \union {Absent, Empty}
  /\ linked \in [Process -> BOOLEAN]
  /\ port \in Process \union {NoProcess}
  /\ port # NoProcess => listener[port] = "bound"
  /\ listener \in [Process -> {"none", "pending", "bound", "failed", "closed"}]
  /\ \A p \in Process : listener[p] # "none" => pc[p] \in ServeStates
  /\ sig \in [Process -> BOOLEAN]
  /\ busy \in [Process -> 0..MaxBusy]
  /\ calm \in BOOLEAN
  /\ accident \in BOOLEAN

Init ==
  /\ pc = [p \in Process |-> "off"]
  /\ pid = [p \in Process |-> NoPid]
  /\ seen = [p \in Process |-> NoPid]
  /\ file = Absent
  /\ linked = [p \in Process |-> FALSE]
  /\ port = NoProcess
  /\ listener = [p \in Process |-> "none"]
  /\ sig = [p \in Process |-> FALSE]
  /\ busy = [p \in Process |-> 0]
  /\ calm = TRUE
  /\ accident = FALSE

Goto(p, s) == pc' = [pc EXCEPT ![p] = s]

\* The process is no more: what it held goes with it.
Leave(p, s) ==
  /\ Goto(p, s)
  /\ pid' = [pid EXCEPT ![p] = NoPid]
  /\ seen' = [seen EXCEPT ![p] = NoPid]
  /\ listener' = [listener EXCEPT ![p] = "none"]
  /\ port' = IF port = p THEN NoProcess ELSE port
  /\ sig' = [sig EXCEPT ![p] = FALSE]
  /\ busy' = [busy EXCEPT ![p] = 0]

\* os.Remove of the PID file.  Whoever has it open writes in vain.
Unlink ==
  /\ file' = Absent
  /\ linked' = [p \in Process |-> FALSE]

\* Is there a process of this program with this PID?
Running(k) == \E q \in Process : Live(q) /\ pid[q] = k

-----------------------------------------------------------------------------
(* WritePIDFile. *)

\* A process that gives up before it looks at the PID file is not started.
Launch(p) ==
  /\ pc[p] = "off"
  /\ Goto(p, "read")
  /\ \E k \in Pid : ~Running(k) /\ pid' = [pid EXCEPT ![p] = k]
  /\ calm' = (calm /\ \A q \in Process : ~Starting(q))
  /\ UNCHANGED <<seen, file, linked, port, listener, sig, busy, accident>>

\* An empty file is a corrupt one.
ReadFile(p) ==
  /\ pc[p] = "read"
  /\ \/ file = Absent /\ Goto(p, "create") /\ UNCHANGED seen
     \/ file = Empty /\ Goto(p, "unlink") /\ UNCHANGED seen
     \/ file \in Pid /\ Goto(p, "judge") /\ seen' = [seen EXCEPT ![p] = file]
  /\ UNCHANGED <<pid, file, linked, port, listener, sig, busy, calm, accident>>

\* Mutant: a PID that is in use is taken for a reused one.
Judge_Stale(p) ==
  /\ pc[p] = "judge"
  /\ Goto(p, "unlink")
  /\ seen' = [seen EXCEPT ![p] = NoPid]
  /\ UNCHANGED <<pid, file, linked, port, listener, sig, busy, calm, accident>>

\* Mutant: the removal is deferred before the check.
Judge_Removes(p) ==
  /\ pc[p] = "judge"
  /\ \/ /\ Running(seen[p])
        /\ Leave(p, "refused")
        /\ Unlink
     \/ /\ ~Running(seen[p])
        /\ Goto(p, "unlink")
        /\ seen' = [seen EXCEPT ![p] = NoPid]
        /\ UNCHANGED <<pid, listener, port, sig, busy, file, linked>>
  /\ UNCHANGED <<calm, accident>>

\* isProcessRunning and isOurProcess, which do not ask whether it is the
\* process itself.
Judge(p) ==
  /\ pc[p] = "judge"
  /\ \/ /\ Running(seen[p])
        /\ Leave(p, "refused")
     \/ /\ ~Running(seen[p])
        /\ Goto(p, "unlink")
        /\ seen' = [seen EXCEPT ![p] = NoPid]
        /\ UNCHANGED <<pid, listener, port, sig, busy>>
  /\ UNCHANGED <<file, linked, calm, accident>>

RemoveStale(p) ==
  /\ pc[p] = "unlink"
  /\ Goto(p, "create")
  /\ Unlink
  /\ UNCHANGED <<pid, seen, port, listener, sig, busy, calm, accident>>

\* os.WriteFile opens the file and empties it ...
CreateFile(p) ==
  /\ pc[p] = "create"
  /\ Goto(p, "fill")
  /\ file' = Empty
  /\ linked' = [linked EXCEPT ![p] = TRUE]
  /\ UNCHANGED <<pid, seen, port, listener, sig, busy, calm, accident>>

\* ... and writes the PID.
FillFile(p) ==
  /\ pc[p] = "fill"
  /\ Goto(p, "notify")
  /\ file' = IF linked[p] THEN pid[p] ELSE file
  /\ linked' = [linked EXCEPT ![p] = FALSE]
  /\ UNCHANGED <<pid, seen, port, listener, sig, busy, calm, accident>>

-----------------------------------------------------------------------------
(* The rest of main, Start and Shutdown. *)

\* main's own channel is registered.  Nobody reads it, so signals that come
\* before Start has registered another are swallowed.
Notify(p) ==
  /\ pc[p] = "notify"
  /\ Goto(p, "open")
  /\ UNCHANGED <<pid, seen, file, linked, port, listener, sig, busy, calm, accident>>

\* server.New and the setup token have succeeded (Die, if not), and Start
\* begins with its goroutine.
OpenStore(p) ==
  /\ pc[p] = "open"
  /\ Goto(p, "start")
  /\ listener' = [listener EXCEPT ![p] = "pending"]
  /\ UNCHANGED <<pid, seen, file, linked, port, sig, busy, calm, accident>>

\* ListenAndServe, which does nothing once Shutdown has been called.
Bind(p) ==
  /\ listener[p] = "pending"
  /\ IF port = NoProcess
       THEN port' = p /\ listener' = [listener EXCEPT ![p] = "bound"]
       ELSE port' = port /\ listener' = [listener EXCEPT ![p] = "failed"]
  /\ UNCHANGED <<pc, pid, seen, file, linked, sig, busy, calm, accident>>

\* Start has registered its channel, and selects.
AwaitSignal(p) ==
  /\ pc[p] = "start"
  /\ Goto(p, "wait")
  /\ UNCHANGED <<pid, seen, file, linked, port, listener, sig, busy, calm, accident>>

\* SIGTERM or SIGINT.  Before main's Notify it kills (Die); before Start's it
\* is swallowed.
Signal(p) ==
  /\ pc[p] \in {"wait", "closing", "draining", "unpid"}
  /\ sig' = [sig EXCEPT ![p] = TRUE]
  /\ UNCHANGED <<pc, pid, seen, file, linked, port, listener, busy, calm, accident>>

\* Shutdown closes the store first: the listener is still open.
CloseStore(p) ==
  /\ pc[p] = "wait"
  /\ sig[p]
  /\ Goto(p, "closing")
  /\ UNCHANGED <<pid, seen, file, linked, port, listener, sig, busy, calm, accident>>

\* Mutant: the listener is forgotten, not closed.
CloseListener_KeepsPort(p) ==
  /\ pc[p] = "closing"
  /\ Goto(p, "draining")
  /\ listener' = [listener EXCEPT ![p] = "closed"]
  /\ UNCHANGED <<pid, seen, file, linked, port, sig, busy, calm, accident>>

\* HTTP.Shutdown closes the listener, and waits.
CloseListener(p) ==
  /\ pc[p] = "closing"
  /\ Goto(p, "draining")
  /\ listener' = [listener EXCEPT ![p] = "closed"]
  /\ port' = IF port = p THEN NoProcess ELSE port
  /\ UNCHANGED <<pid, seen, file, linked, sig, busy, calm, accident>>

DrainDone(p) ==
  /\ pc[p] = "draining"
  /\ busy[p] = 0
  /\ Goto(p, "unpid")
  /\ UNCHANGED <<pid, seen, file, linked, port, listener, sig, busy, calm, accident>>

\* main returns: the deferred removal, of whatever file is there.
RemovePIDFile(p) ==
  /\ pc[p] = "unpid"
  /\ Leave(p, "gone")
  /\ Unlink
  /\ UNCHANGED <<calm, accident>>

\* The process ends without having removed the file.
Vanish(p) ==
  /\ Leave(p, "gone")
  /\ linked' = [linked EXCEPT ![p] = FALSE]
  /\ accident' = TRUE
  /\ UNCHANGED <<file, calm>>

\* The other case of Start's select: main calls os.Exit.
ListenFailed(p) ==
  /\ pc[p] = "wait"
  /\ listener[p] = "failed"
  /\ Vanish(p)

\* Mutant: HTTP.Shutdown is given no deadline.
DrainTimeout_Never(p) == FALSE /\ Vanish(p)

\* HTTP.Shutdown gives up after 30 seconds, and main calls os.Exit.
DrainTimeout(p) ==
  /\ pc[p] = "draining"
  /\ busy[p] > 0
  /\ Vanish(p)

\* A kill, a crash, or os.Exit because a step of the start failed.
Die(p) ==
  /\ Live(p)
  /\ Vanish(p)

-----------------------------------------------------------------------------
(* Requests. *)

Accept(p) ==
  /\ port = p
  /\ busy[p] < MaxBusy
  /\ busy' = [busy EXCEPT ![p] = @ + 1]
  /\ UNCHANGED <<pc, pid, seen, file, linked, port, listener, sig, calm, accident>>

Answer(p) ==
  /\ busy[p] > 0
  /\ busy' = [busy EXCEPT ![p] = @ - 1]
  /\ UNCHANGED <<pc, pid, seen, file, linked, port, listener, sig, calm, accident>>

-----------------------------------------------------------------------------
WritePIDFile(p) ==
  \/ ReadFile(p)
  \/ Judge(p)
  \/ RemoveStale(p)
  \/ CreateFile(p)
  \/ FillFile(p)

StartServer(p) == Notify(p) \/ OpenStore(p) \/ AwaitSignal(p)

Shutdown(p) ==
  \/ CloseStore(p)
  \/ CloseListener(p)
  \/ DrainDone(p)
  \/ DrainTimeout(p)
  \/ RemovePIDFile(p)

Next ==
  \E p \in Process :
    \/ Launch(p)
    \/ WritePIDFile(p)
    \/ StartServer(p)
    \/ Bind(p)
    \/ ListenFailed(p)
    \/ Signal(p)
    \/ Shutdown(p)
    \/ Die(p)
    \/ Accept(p)
    \/ Answer(p)

Spec == Init /\ [][Next]_vars

(***************************************************************************)
(* main and the listener's goroutine run.  Nobody has to start or stop a   *)
(* process, and a request need not come to an end.                         *)
(***************************************************************************)
FairSpec ==
  /\ Spec
  /\ \A p \in Process :
       /\ WF_vars(WritePIDFile(p) \/ StartServer(p) \/ ListenFailed(p) \/ Shutdown(p))
       /\ WF_vars(Bind(p))

-----------------------------------------------------------------------------
(* Properties. *)

\* WritePIDFile keeps instances apart wherever processes are killed and
\* however PIDs are reused, if no two are started together.  (Started together
\* they may both get through, and the port has to stop one of them.)
OneInstance ==
  calm => \A p, q \in Process : Holding(p) /\ Holding(q) => p = q

\* What main removes at the end is then its own file, and a new process finds
\* the PID of the one that serves.
FileNamesServer ==
  calm => \A p \in Process : Holding(p) => file = pid[p]

\* A PID file outlives its process only after a kill or an os.Exit.
StaleTakesAnAccident ==
  calm /\ ~accident /\ file # Absent =>
    \E p \in Process : Holding(p) \/ pc[p] = "fill"

\* A server that is told to stop does so, whatever its requests do.
TermStops == \A p \in Process : pc[p] = "wait" /\ sig[p] ~> pc[p] = "gone"

\* A start is refused as "already running" only when another process of the
\* program is running.
StaleNeverBlocks ==
  [][\A p \in Process :
       pc[p] = "judge" /\ pc'[p] = "refused" =>
         \E q \in Process \ {p} : Live(q)]_vars
=============================================================================
