-------------------------- MODULE LifecycleProofs --------------------------
(***************************************************************************)
(* Proofs about Lifecycle, for any set of processes and any process IDs.   *)
(*                                                                         *)
(* That the PID file keeps instances apart is not inductive: StartInv adds *)
(* what a process that is starting knows.  While starts do not overlap     *)
(* (calm), one that has found no file, or a stale one, is alone; and one   *)
(* that has read the PID of the instance still has it when it judges it.   *)
(***************************************************************************)
EXTENDS Lifecycle, TLAPS

\* The process has found the way free.
Cleared(p) == pc[p] \in {"unlink", "create", "fill"}

StartInv ==
  calm =>
    /\ \A p, q \in Process : Starting(p) /\ Starting(q) => p = q
    /\ \A p, q \in Process : Cleared(p) => ~Holding(q)
    /\ \A p, q \in Process : pc[p] = "judge" /\ Holding(q) => seen[p] = pid[q]
    /\ \A p \in Process : pc[p] = "fill" => linked[p]

\* What the PID file is for.
LockInv ==
  /\ OneInstance
  /\ FileNamesServer
  /\ StaleTakesAnAccident
  /\ StartInv

LifecycleInv == TypeOK /\ LockInv

States == StartStates \union HoldStates \union {"off", "refused", "gone"}

LEMMA InitLifecycle == Init => LifecycleInv
<1> SUFFICES ASSUME Init PROVE LifecycleInv
  OBVIOUS
<1>1. \A p \in Process : pc[p] = "off" /\ ~Starting(p) /\ ~Holding(p)
  BY DEF Init, Starting, Holding, StartStates, HoldStates
<1>2. TypeOK
  <2>1. busy \in [Process -> 0..MaxBusy]
    BY BusyAssumption DEF Init
  <2>2. pc \in [Process -> StartStates \union HoldStates \union {"off", "refused", "gone"}]
    BY DEF Init
  <2>3. \A p \in Process : /\ Live(p) <=> pid[p] # NoPid
                           /\ pc[p] = "judge" <=> seen[p] # NoPid
    BY <1>1 DEF Init, Live
  <2> QED
    BY <2>1, <2>2, <2>3 DEF Init, TypeOK
<1>3. LockInv
  BY <1>1 DEF Init, LockInv, OneInstance, FileNamesServer, StaleTakesAnAccident,
              StartInv, Cleared
<1> QED
  BY <1>2, <1>3 DEF LifecycleInv

-----------------------------------------------------------------------------
(* Types. *)

\* A process moves on.
LEMMA GotoFacts ==
  ASSUME TypeOK, NEW p \in Process, NEW s \in States, Goto(p, s)
  PROVE  /\ pc' \in [Process -> States]
         /\ pc'[p] = s
         /\ \A q \in Process : q # p => pc'[q] = pc[q]
BY DEF TypeOK, Goto, States

\* A process that leaves gives up its port and its PID.
LEMMA LeaveTypes ==
  ASSUME TypeOK, NEW p \in Process, NEW s \in {"gone", "refused"}, Leave(p, s),
         file' \in Pid \union {Absent, Empty}, linked' \in [Process -> BOOLEAN],
         calm' \in BOOLEAN, accident' \in BOOLEAN
  PROVE  TypeOK'
<1>1. /\ pc' \in [Process -> States] /\ pc'[p] = s
      /\ \A q \in Process : q # p => pc'[q] = pc[q]
  BY GotoFacts DEF Leave, States
<1>2. /\ pid' \in [Process -> Pid \union {NoPid}]
      /\ seen' \in [Process -> Pid \union {NoPid}]
      /\ pid'[p] = NoPid /\ seen'[p] = NoPid
      /\ \A q \in Process : q # p => pid'[q] = pid[q] /\ seen'[q] = seen[q]
  BY DEF Leave, TypeOK
<1>3. ~Live(p)' /\ pc'[p] # "judge"
  BY <1>1 DEF Live, Starting, Holding, StartStates, HoldStates
<1>4. \A q \in Process : q # p => (Live(q)' <=> Live(q)) /\ (Holding(q)' <=> Holding(q))
  BY <1>1 DEF Live, Starting, Holding
<1>5. \A q \in Process : /\ Live(q)' <=> pid'[q] # NoPid
                         /\ pc'[q] = "judge" <=> seen'[q] # NoPid
  BY <1>1, <1>2, <1>3, <1>4 DEF TypeOK
<1>6. /\ port' \in Process \union {NoProcess}
      /\ port' # NoProcess => listener'[port'] = "bound"
  <2>1. port' # NoProcess => port' = port /\ port # p /\ port \in Process
    BY DEF Leave, TypeOK
  <2>2. \A q \in Process : q # p => listener'[q] = listener[q]
    BY DEF Leave, TypeOK
  <2> QED
    BY <2>1, <2>2 DEF Leave, TypeOK
<1>7. /\ listener' \in [Process -> {"none", "pending", "bound", "failed", "closed"}]
      /\ sig' \in [Process -> BOOLEAN] /\ busy' \in [Process -> 0..MaxBusy]
  BY BusyAssumption DEF Leave, TypeOK
<1>8. \A q \in Process : listener'[q] # "none" => pc'[q] \in ServeStates
  BY <1>1 DEF Leave, TypeOK
<1> QED
  BY <1>1, <1>2, <1>5, <1>6, <1>7, <1>8 DEF TypeOK, States

\* A process that is starting moves on.
LEMMA MoveTypes ==
  ASSUME TypeOK, NEW p \in Process, Starting(p),
         NEW s \in StartStates \union HoldStates, Goto(p, s),
         UNCHANGED <<pid, port, listener, sig, busy>>,
         seen' \in [Process -> Pid \union {NoPid}],
         s = "judge" <=> seen'[p] # NoPid,
         \A q \in Process : q # p => seen'[q] = seen[q],
         file' \in Pid \union {Absent, Empty}, linked' \in [Process -> BOOLEAN],
         calm' \in BOOLEAN, accident' \in BOOLEAN
  PROVE  TypeOK'
<1>1. /\ pc' \in [Process -> States] /\ pc'[p] = s
      /\ \A q \in Process : q # p => pc'[q] = pc[q]
  BY GotoFacts DEF States
<1>2. \A q \in Process : Live(q)' <=> Live(q)
  BY <1>1 DEF Live, Starting, Holding
<1>3. \A q \in Process : listener[q] # "none" => pc'[q] \in ServeStates
  BY <1>1 DEF TypeOK, Starting, StartStates, ServeStates, HoldStates
<1>4. \A q \in Process : /\ Live(q)' <=> pid'[q] # NoPid
                         /\ pc'[q] = "judge" <=> seen'[q] # NoPid
  BY <1>1, <1>2 DEF TypeOK
<1> QED
  BY <1>1, <1>3, <1>4 DEF TypeOK, States

-----------------------------------------------------------------------------
(* What the PID file is for is kept by ... *)

\* ... a step that neither starts nor ends a process nor touches the file,
LEMMA LockKept ==
  ASSUME LockInv, UNCHANGED <<pid, seen, file, linked, calm, accident>>,
         \A q \in Process : Holding(q)' <=> Holding(q),
         \A q \in Process : Starting(q) \/ Starting(q)' => pc'[q] = pc[q]
  PROVE  LockInv'
<1>1. \A q \in Process : Starting(q)' <=> Starting(q)
  BY DEF Starting
<1>2. \A q \in Process : /\ Cleared(q)' <=> Cleared(q)
                         /\ pc'[q] = "judge" <=> pc[q] = "judge"
                         /\ pc'[q] = "fill" <=> pc[q] = "fill"
  BY DEF Starting, StartStates, Cleared
<1>3. OneInstance' /\ FileNamesServer'
  BY DEF LockInv, OneInstance, FileNamesServer
<1>4. StaleTakesAnAccident'
  BY <1>2 DEF LockInv, StaleTakesAnAccident
<1>5. StartInv'
  BY <1>1, <1>2 DEF LockInv, StartInv
<1> QED
  BY <1>3, <1>4, <1>5 DEF LockInv

\* ... and by the end of a process that is refused, or comes by an accident.
LEMMA LockLeave ==
  ASSUME TypeOK, LockInv, NEW p \in Process, NEW s \in {"gone", "refused"}, Leave(p, s),
         UNCHANGED <<file, calm>>,
         \A q \in Process : q # p => linked'[q] = linked[q],
         accident => accident',
         (Holding(p) \/ pc[p] = "fill") => accident'
  PROVE  LockInv'
<1>1. pc'[p] = s /\ \A q \in Process : q # p => pc'[q] = pc[q]
  BY GotoFacts DEF Leave, States
<1>2. \A q \in Process : q # p => pid'[q] = pid[q] /\ seen'[q] = seen[q]
  BY DEF Leave, TypeOK
<1>3. ~Holding(p)' /\ ~Starting(p)' /\ ~Cleared(p)' /\ pc'[p] # "judge" /\ pc'[p] # "fill"
  BY <1>1 DEF Holding, Starting, Cleared, StartStates, HoldStates
<1>4. \A q \in Process : q # p => /\ Holding(q)' <=> Holding(q)
                                  /\ Starting(q)' <=> Starting(q)
                                  /\ Cleared(q)' <=> Cleared(q)
  BY <1>1 DEF Holding, Starting, Cleared
<1>5. OneInstance' /\ FileNamesServer'
  BY <1>2, <1>3, <1>4 DEF LockInv, OneInstance, FileNamesServer
<1>6. StaleTakesAnAccident'
  BY <1>1, <1>4 DEF LockInv, StaleTakesAnAccident
<1>7. StartInv'
  BY <1>1, <1>2, <1>3, <1>4 DEF LockInv, StartInv
<1> QED
  BY <1>5, <1>6, <1>7 DEF LockInv
-----------------------------------------------------------------------------
(* WritePIDFile. *)

\* The name of the file at the path says which process holds it.
LEMMA HolderPid ==
  ASSUME TypeOK, NEW q \in Process, Live(q)
  PROVE  pid[q] \in Pid
BY DEF TypeOK

LEMMA LaunchStep == ASSUME LifecycleInv, NEW p \in Process, Launch(p) PROVE LifecycleInv'
<1> USE DEF LifecycleInv
<1>1. PICK k \in Pid : pid' = [pid EXCEPT ![p] = k]
  BY DEF Launch
<1>2. /\ pc[p] = "off" /\ Goto(p, "read")
      /\ calm' = (calm /\ \A q \in Process : ~Starting(q))
      /\ UNCHANGED <<seen, file, linked, port, listener, sig, busy, accident>>
  BY DEF Launch
<1>3. /\ pc' \in [Process -> States] /\ pc'[p] = "read"
      /\ \A q \in Process : q # p => pc'[q] = pc[q]
  BY <1>2, GotoFacts DEF States, StartStates
<1>4. pid' \in [Process -> Pid \union {NoPid}] /\ pid'[p] = k
      /\ \A q \in Process : q # p => pid'[q] = pid[q]
  BY <1>1 DEF TypeOK
<1>5. ~Holding(p) /\ ~Holding(p)' /\ Starting(p)' /\ ~Cleared(p)'
  BY <1>2, <1>3 DEF Holding, Starting, Cleared, HoldStates, StartStates
<1>6. \A q \in Process : q # p => /\ Holding(q)' <=> Holding(q)
                                  /\ Starting(q)' <=> Starting(q)
                                  /\ Cleared(q)' <=> Cleared(q)
                                  /\ Live(q)' <=> Live(q)
  BY <1>3 DEF Holding, Starting, Cleared, Live
<1>7. \A q \in Process : /\ Live(q)' <=> pid'[q] # NoPid
                         /\ pc'[q] = "judge" <=> seen'[q] # NoPid
  BY <1>2, <1>3, <1>4, <1>5, <1>6, PidAssumption DEF TypeOK, Live
<1>8. \A q \in Process : listener[q] # "none" => pc'[q] \in ServeStates
  BY <1>2, <1>3 DEF TypeOK, ServeStates, HoldStates
<1>9. TypeOK'
  BY <1>2, <1>3, <1>4, <1>7, <1>8 DEF TypeOK, States
<1>10. OneInstance' /\ FileNamesServer'
  BY <1>2, <1>4, <1>5, <1>6 DEF LockInv, OneInstance, FileNamesServer
<1>11. StaleTakesAnAccident'
  BY <1>2, <1>3, <1>5, <1>6 DEF LockInv, StaleTakesAnAccident
<1>12. StartInv'
  BY <1>2, <1>3, <1>4, <1>5, <1>6 DEF LockInv, StartInv
<1> QED
  BY <1>9, <1>10, <1>11, <1>12 DEF LockInv

\* One that serves is never passed by: its PID is in the file.
LEMMA ReadFileStep == ASSUME LifecycleInv, NEW p \in Process, ReadFile(p) PROVE LifecycleInv'
<1> USE DEF LifecycleInv
<1>1. pc[p] = "read"
      /\ UNCHANGED <<pid, file, linked, port, listener, sig, busy, calm, accident>>
  BY DEF ReadFile
<1>2. PICK s \in {"create", "unlink", "judge"} :
        /\ Goto(p, s)
        /\ s = "judge" => file \in Pid /\ seen' = [seen EXCEPT ![p] = file]
        /\ s # "judge" => file \in {Absent, Empty} /\ UNCHANGED seen
  BY DEF ReadFile
<1>3. /\ pc'[p] = s
      /\ \A q \in Process : q # p => pc'[q] = pc[q]
  BY <1>2, GotoFacts DEF States, StartStates
<1>4. /\ seen' \in [Process -> Pid \union {NoPid}]
      /\ s = "judge" => seen'[p] = file
      /\ s # "judge" => seen'[p] = NoPid
      /\ \A q \in Process : q # p => seen'[q] = seen[q]
  BY <1>1, <1>2 DEF TypeOK
<1>5. Starting(p) /\ ~Holding(p) /\ Live(p) /\ Starting(p)' /\ ~Holding(p)'
  BY <1>1, <1>3 DEF Live, Starting, Holding, StartStates, HoldStates
<1>6. TypeOK'
  BY <1>1, <1>2, <1>4, <1>5, PidAssumption, MoveTypes DEF TypeOK, StartStates
<1>7. \A q \in Process : q # p => /\ Holding(q)' <=> Holding(q)
                                  /\ Starting(q)' <=> Starting(q)
                                  /\ Cleared(q)' <=> Cleared(q)
  BY <1>3 DEF Holding, Starting, Cleared
<1>8. OneInstance' /\ FileNamesServer'
  BY <1>1, <1>5, <1>7 DEF LockInv, OneInstance, FileNamesServer
<1>9. StaleTakesAnAccident'
  BY <1>1, <1>3, <1>7 DEF LockInv, StaleTakesAnAccident, Holding, HoldStates
<1>10. StartInv'
  <2> SUFFICES ASSUME calm PROVE StartInv'
    BY <1>1 DEF StartInv
  <2>1. \A q \in Process : Holding(q) => file = pid[q] /\ file \in Pid
    BY HolderPid DEF LockInv, FileNamesServer, Live
  <2>2. s # "judge" => \A q \in Process : ~Holding(q)
    BY <1>2, <2>1, FileAssumption
  <2>3. \A q \in Process : Starting(q) => q = p
    BY <1>5 DEF LockInv, StartInv
  <2>4. \A q \in Process : q # p => ~Cleared(q) /\ pc[q] # "judge" /\ pc[q] # "fill"
    BY <2>3 DEF Cleared, Starting, StartStates
  <2>5. s = "judge" => ~Cleared(p)'
    BY <1>3 DEF Cleared
  <2>6. pc'[p] # "fill"
    BY <1>3
  <2> QED
    BY <1>1, <1>3, <1>4, <1>5, <1>7, <2>1, <2>2, <2>3, <2>4, <2>5, <2>6 DEF StartInv
<1> QED
  BY <1>6, <1>8, <1>9, <1>10 DEF LockInv

\* Whoever is not refused has nobody to share with: had somebody been there,
\* it would have been the one whose PID was read.
LEMMA JudgeStep == ASSUME LifecycleInv, NEW p \in Process, Judge(p) PROVE LifecycleInv'
<1> USE DEF LifecycleInv
<1>1. pc[p] = "judge" /\ UNCHANGED <<file, linked, calm, accident>>
  BY DEF Judge
<1>2. Starting(p) /\ ~Holding(p) /\ Live(p)
  BY <1>1 DEF Live, Starting, Holding, StartStates, HoldStates
<1>3. CASE Running(seen[p]) /\ Leave(p, "refused")
  <2>1. TypeOK'
    BY <1>1, <1>3, LeaveTypes DEF TypeOK
  <2>2. LockInv'
    BY <1>1, <1>2, <1>3, LockLeave
  <2> QED
    BY <2>1, <2>2
<1>4. CASE /\ ~Running(seen[p]) /\ Goto(p, "unlink")
           /\ seen' = [seen EXCEPT ![p] = NoPid]
           /\ UNCHANGED <<pid, listener, port, sig, busy>>
  <2>1. /\ pc'[p] = "unlink"
        /\ \A q \in Process : q # p => pc'[q] = pc[q]
    BY <1>4, GotoFacts DEF States, StartStates
  <2>2. /\ seen' \in [Process -> Pid \union {NoPid}] /\ seen'[p] = NoPid
        /\ \A q \in Process : q # p => seen'[q] = seen[q]
    BY <1>4 DEF TypeOK
  <2>3. TypeOK'
    BY <1>1, <1>2, <1>4, <2>2, MoveTypes DEF TypeOK, StartStates
  <2>4. Starting(p)' /\ ~Holding(p)'
    BY <2>1 DEF Starting, Holding, StartStates, HoldStates
  <2>5. \A q \in Process : q # p => /\ Holding(q)' <=> Holding(q)
                                    /\ Starting(q)' <=> Starting(q)
                                    /\ Cleared(q)' <=> Cleared(q)
    BY <2>1 DEF Holding, Starting, Cleared
  <2>6. OneInstance' /\ FileNamesServer'
    BY <1>1, <1>2, <1>4, <2>4, <2>5 DEF LockInv, OneInstance, FileNamesServer
  <2>7. StaleTakesAnAccident'
    BY <1>1, <1>2, <2>1, <2>5 DEF LockInv, StaleTakesAnAccident
  <2>8. StartInv'
    <3> SUFFICES ASSUME calm PROVE StartInv'
      BY <1>1 DEF StartInv
    <3>1. \A q \in Process : ~Holding(q)
      BY <1>1, <1>4 DEF LockInv, StartInv, Running, Live
    <3>2. \A q \in Process : Starting(q) => q = p
      BY <1>2 DEF LockInv, StartInv
    <3>3. \A q \in Process : q # p => pc'[q] # "fill"
      BY <2>5, <3>2 DEF Starting, StartStates
    <3> QED
      BY <1>2, <2>1, <2>4, <2>5, <3>1, <3>2, <3>3 DEF StartInv
  <2> QED
    BY <2>3, <2>6, <2>7, <2>8 DEF LockInv
<1> QED
  BY <1>3, <1>4 DEF Judge

\* What a process that has found the way free does to the file concerns
\* nobody else.
LEMMA RemoveStaleStep ==
  ASSUME LifecycleInv, NEW p \in Process, RemoveStale(p)
  PROVE  LifecycleInv'
<1> USE DEF LifecycleInv
<1>1. /\ pc[p] = "unlink" /\ Goto(p, "create")
      /\ file' = Absent /\ linked' = [q \in Process |-> FALSE]
      /\ UNCHANGED <<pid, seen, port, listener, sig, busy, calm, accident>>
  BY DEF RemoveStale, Unlink
<1>2. pc'[p] = "create" /\ \A q \in Process : q # p => pc'[q] = pc[q]
  BY <1>1, GotoFacts DEF States, StartStates
<1>3. Starting(p) /\ Cleared(p) /\ ~Holding(p) /\ Live(p) /\ Starting(p)' /\ ~Holding(p)'
  BY <1>1, <1>2 DEF Live, Starting, Cleared, Holding, StartStates, HoldStates
<1>4. TypeOK'
  BY <1>1, <1>3, MoveTypes DEF TypeOK, StartStates
<1>5. \A q \in Process : q # p => /\ Holding(q)' <=> Holding(q)
                                  /\ Starting(q)' <=> Starting(q)
  BY <1>2 DEF Holding, Starting
<1>6. calm => \A q \in Process : ~Holding(q) /\ (Starting(q) => q = p)
  BY <1>3 DEF LockInv, StartInv
<1>7. OneInstance' /\ FileNamesServer'
  BY <1>1, <1>3, <1>5, <1>6 DEF OneInstance, FileNamesServer
<1>8. StaleTakesAnAccident'
  BY <1>1 DEF StaleTakesAnAccident
<1>9. StartInv'
  <2>1. calm => \A q \in Process : pc'[q] # "fill"
    BY <1>2, <1>6 DEF Starting, StartStates
  <2> QED
    BY <1>1, <1>3, <1>5, <1>6, <2>1 DEF StartInv
<1> QED
  BY <1>4, <1>7, <1>8, <1>9 DEF LockInv

LEMMA CreateFileStep ==
  ASSUME LifecycleInv, NEW p \in Process, CreateFile(p)
  PROVE  LifecycleInv'
<1> USE DEF LifecycleInv
<1>1. /\ pc[p] = "create" /\ Goto(p, "fill")
      /\ file' = Empty /\ linked' = [linked EXCEPT ![p] = TRUE]
      /\ UNCHANGED <<pid, seen, port, listener, sig, busy, calm, accident>>
  BY DEF CreateFile
<1>2. pc'[p] = "fill" /\ \A q \in Process : q # p => pc'[q] = pc[q]
  BY <1>1, GotoFacts DEF States, StartStates
<1>3. linked' \in [Process -> BOOLEAN] /\ linked'[p] = TRUE
  BY <1>1 DEF TypeOK
<1>4. Starting(p) /\ Cleared(p) /\ ~Holding(p) /\ Live(p) /\ Starting(p)' /\ ~Holding(p)'
  BY <1>1, <1>2 DEF Live, Starting, Cleared, Holding, StartStates, HoldStates
<1>5. TypeOK'
  BY <1>1, <1>3, <1>4, MoveTypes DEF TypeOK, StartStates
<1>6. \A q \in Process : q # p => /\ Holding(q)' <=> Holding(q)
                                  /\ Starting(q)' <=> Starting(q)
  BY <1>2 DEF Holding, Starting
<1>7. calm => \A q \in Process : ~Holding(q) /\ (Starting(q) => q = p)
  BY <1>4 DEF LockInv, StartInv
<1>8. OneInstance' /\ FileNamesServer'
  BY <1>1, <1>4, <1>6, <1>7 DEF OneInstance, FileNamesServer
<1>9. StaleTakesAnAccident'
  BY <1>2 DEF StaleTakesAnAccident
<1>10. StartInv'
  <2>1. calm => \A q \in Process : q # p => pc'[q] # "fill"
    BY <1>2, <1>7 DEF Starting, StartStates
  <2> QED
    BY <1>1, <1>3, <1>4, <1>6, <1>7, <2>1 DEF StartInv
<1> QED
  BY <1>5, <1>8, <1>9, <1>10 DEF LockInv

\* It becomes the instance, and the file is the one it has opened.
LEMMA FillFileStep ==
  ASSUME LifecycleInv, NEW p \in Process, FillFile(p)
  PROVE  LifecycleInv'
<1> USE DEF LifecycleInv
<1>1. /\ pc[p] = "fill" /\ Goto(p, "notify")
      /\ file' = IF linked[p] THEN pid[p] ELSE file
      /\ linked' = [linked EXCEPT ![p] = FALSE]
      /\ UNCHANGED <<pid, seen, port, listener, sig, busy, calm, accident>>
  BY DEF FillFile
<1>2. pc'[p] = "notify" /\ \A q \in Process : q # p => pc'[q] = pc[q]
  BY <1>1, GotoFacts DEF States, HoldStates
<1>3. Starting(p) /\ Cleared(p) /\ ~Holding(p) /\ Live(p) /\ Holding(p)' /\ ~Starting(p)'
      /\ ~Cleared(p)'
  BY <1>1, <1>2 DEF Live, Starting, Cleared, Holding, StartStates, HoldStates
<1>4. TypeOK'
  <2>1. linked' \in [Process -> BOOLEAN] /\ file' \in Pid \union {Absent, Empty}
    BY <1>1, <1>3, HolderPid DEF TypeOK
  <2> QED
    BY <1>1, <1>3, <2>1, MoveTypes DEF TypeOK, HoldStates
<1>5. \A q \in Process : q # p => /\ Holding(q)' <=> Holding(q)
                                  /\ Starting(q)' <=> Starting(q)
                                  /\ Cleared(q)' <=> Cleared(q)
  BY <1>2 DEF Holding, Starting, Cleared
<1>6. calm => /\ \A q \in Process : ~Holding(q) /\ (Starting(q) => q = p)
              /\ linked[p]
  BY <1>1, <1>3 DEF LockInv, StartInv
<1>7. OneInstance' /\ FileNamesServer'
  BY <1>1, <1>3, <1>5, <1>6 DEF OneInstance, FileNamesServer
<1>8. StaleTakesAnAccident'
  BY <1>3 DEF StaleTakesAnAccident
<1>9. StartInv'
  <2>1. calm => \A q \in Process : ~Starting(q)' /\ ~Cleared(q)'
    BY <1>3, <1>5, <1>6 DEF Starting, Cleared, StartStates
  <2>2. calm => \A q \in Process : pc'[q] # "fill" /\ pc'[q] # "judge"
    BY <2>1 DEF Starting, StartStates
  <2> QED
    BY <1>1, <2>1, <2>2 DEF StartInv
<1> QED
  BY <1>4, <1>7, <1>8, <1>9 DEF LockInv
-----------------------------------------------------------------------------
(* An instance at work and its end. *)

LEMMA MainStep ==
  ASSUME LifecycleInv, NEW p \in Process,
         StartServer(p) \/ CloseStore(p) \/ CloseListener(p) \/ DrainDone(p)
  PROVE  LifecycleInv'
<1> USE DEF LifecycleInv
<1>1. PICK s \in HoldStates : pc[p] \in HoldStates /\ Goto(p, s)
  BY DEF StartServer, Notify, OpenStore, AwaitSignal, CloseStore, CloseListener,
         DrainDone, HoldStates
<1>2. UNCHANGED <<pid, seen, file, linked, sig, busy, calm, accident>>
  BY DEF StartServer, Notify, OpenStore, AwaitSignal, CloseStore, CloseListener,
         DrainDone
<1>3. /\ pc' \in [Process -> States] /\ pc'[p] = s
      /\ \A q \in Process : q # p => pc'[q] = pc[q]
  BY <1>1, GotoFacts DEF States
<1>4. Holding(p) /\ Holding(p)' /\ ~Starting(p) /\ ~Starting(p)' /\ pc'[p] # "judge"
      /\ pc[p] # "judge"
  BY <1>1, <1>3 DEF Holding, Starting, HoldStates, StartStates
<1>5. \A q \in Process : Holding(q)' <=> Holding(q)
  BY <1>3, <1>4 DEF Holding
<1>6. \A q \in Process : Starting(q) \/ Starting(q)' => pc'[q] = pc[q]
  BY <1>3, <1>4
<1>7. LockInv'
  BY <1>2, <1>5, <1>6, LockKept
<1>8. /\ port' \in Process \union {NoProcess}
      /\ port' # NoProcess => listener'[port'] = "bound"
      /\ listener' \in [Process -> {"none", "pending", "bound", "failed", "closed"}]
      /\ \A q \in Process : listener'[q] # "none" => pc'[q] \in ServeStates
  <2> USE DEF ServeStates, HoldStates, Goto
  <2>1. CASE Notify(p) \/ AwaitSignal(p) \/ CloseStore(p) \/ DrainDone(p)
    BY <2>1 DEF TypeOK, Notify, AwaitSignal, CloseStore, DrainDone
  <2>2. CASE OpenStore(p)
    BY <2>2 DEF TypeOK, OpenStore
  <2>3. CASE CloseListener(p)
    BY <2>3 DEF TypeOK, CloseListener
  <2> QED
    BY <2>1, <2>2, <2>3 DEF StartServer
<1>9. \A q \in Process : /\ Live(q)' <=> pid'[q] # NoPid
                         /\ pc'[q] = "judge" <=> seen'[q] # NoPid
  BY <1>2, <1>3, <1>4, <1>5, <1>6 DEF TypeOK, Live, Starting
<1>10. TypeOK'
  BY <1>2, <1>3, <1>8, <1>9 DEF TypeOK, States
<1> QED
  BY <1>7, <1>10

\* Steps of the listener, the signal and the requests leave main alone.
LEMMA SideStep ==
  ASSUME LifecycleInv, NEW p \in Process, Bind(p) \/ Signal(p) \/ Accept(p) \/ Answer(p)
  PROVE  LifecycleInv'
<1> USE DEF LifecycleInv
<1>1. UNCHANGED <<pc, pid, seen, file, linked, calm, accident>>
  BY DEF Bind, Signal, Accept, Answer
<1>2. LockInv'
  BY <1>1, LockKept DEF Holding, Starting
<1>3. /\ port' \in Process \union {NoProcess}
      /\ port' # NoProcess => listener'[port'] = "bound"
      /\ listener' \in [Process -> {"none", "pending", "bound", "failed", "closed"}]
      /\ \A q \in Process : listener'[q] # "none" => pc'[q] \in ServeStates
  BY DEF TypeOK, Bind, Signal, Accept, Answer
<1>4. sig' \in [Process -> BOOLEAN]
  BY DEF TypeOK, Bind, Signal, Accept, Answer
<1>5. busy' \in [Process -> 0..MaxBusy]
  BY BusyAssumption DEF TypeOK, Bind, Signal, Accept, Answer
<1>6. TypeOK'
  BY <1>1, <1>3, <1>4, <1>5 DEF TypeOK, Live, Starting, Holding
<1> QED
  BY <1>2, <1>6

LEMMA AccidentStep ==
  ASSUME LifecycleInv, NEW p \in Process, ListenFailed(p) \/ DrainTimeout(p) \/ Die(p)
  PROVE  LifecycleInv'
<1> USE DEF LifecycleInv
<1>1. /\ Leave(p, "gone") /\ linked' = [linked EXCEPT ![p] = FALSE]
      /\ accident' = TRUE /\ UNCHANGED <<file, calm>>
  BY DEF ListenFailed, DrainTimeout, Die, Vanish
<1>2. linked' \in [Process -> BOOLEAN] /\ \A q \in Process : q # p => linked'[q] = linked[q]
  BY <1>1 DEF TypeOK
<1>3. TypeOK'
  BY <1>1, <1>2, LeaveTypes DEF TypeOK
<1>4. LockInv'
  BY <1>1, <1>2, LockLeave
<1> QED
  BY <1>3, <1>4

\* The file that main removes is its own, and nobody else is there to miss it.
LEMMA RemovePIDFileStep ==
  ASSUME LifecycleInv, NEW p \in Process, RemovePIDFile(p)
  PROVE  LifecycleInv'
<1> USE DEF LifecycleInv
<1>1. /\ pc[p] = "unpid" /\ Leave(p, "gone")
      /\ file' = Absent /\ linked' = [q \in Process |-> FALSE]
      /\ UNCHANGED <<calm, accident>>
  BY DEF RemovePIDFile, Unlink
<1>2. /\ pc'[p] = "gone" /\ \A q \in Process : q # p => pc'[q] = pc[q]
  BY <1>1, GotoFacts DEF Leave, States
<1>3. \A q \in Process : q # p => pid'[q] = pid[q] /\ seen'[q] = seen[q]
  BY <1>1 DEF Leave, TypeOK
<1>4. TypeOK'
  BY <1>1, LeaveTypes DEF TypeOK
<1>5. Holding(p) /\ ~Holding(p)' /\ ~Starting(p)'
  BY <1>1, <1>2 DEF Holding, Starting, HoldStates, StartStates
<1>6. \A q \in Process : q # p => /\ Holding(q)' <=> Holding(q)
                                  /\ Starting(q)' <=> Starting(q)
  BY <1>2 DEF Holding, Starting
<1>7. calm => \A q \in Process : ~Holding(q)' /\ ~Cleared(q)
  BY <1>5, <1>6 DEF LockInv, OneInstance, StartInv
<1>8. OneInstance' /\ FileNamesServer'
  BY <1>1, <1>7 DEF OneInstance, FileNamesServer
<1>9. StaleTakesAnAccident'
  BY <1>1 DEF StaleTakesAnAccident
<1>10. StartInv'
  <2>1. calm => \A q \in Process : pc'[q] # "fill"
    BY <1>2, <1>7 DEF Cleared
  <2> QED
    BY <1>1, <1>2, <1>5, <1>6, <1>7, <2>1 DEF LockInv, StartInv
<1> QED
  BY <1>4, <1>8, <1>9, <1>10 DEF LockInv

-----------------------------------------------------------------------------
LEMMA NextStep == LifecycleInv /\ [Next]_vars => LifecycleInv'
<1> SUFFICES ASSUME LifecycleInv, [Next]_vars PROVE LifecycleInv'
  OBVIOUS
<1>1. ASSUME NEW p \in Process, Launch(p) PROVE LifecycleInv'
  BY <1>1, LaunchStep
<1>2. ASSUME NEW p \in Process, WritePIDFile(p) PROVE LifecycleInv'
  BY <1>2, ReadFileStep, JudgeStep, RemoveStaleStep, CreateFileStep, FillFileStep
     DEF WritePIDFile
<1>3. ASSUME NEW p \in Process, StartServer(p) PROVE LifecycleInv'
  BY <1>3, MainStep
<1>4. ASSUME NEW p \in Process, Shutdown(p) PROVE LifecycleInv'
  BY <1>4, MainStep, AccidentStep, RemovePIDFileStep DEF Shutdown
<1>5. ASSUME NEW p \in Process, ListenFailed(p) \/ Die(p) PROVE LifecycleInv'
  BY <1>5, AccidentStep
<1>6. ASSUME NEW p \in Process, Bind(p) \/ Signal(p) \/ Accept(p) \/ Answer(p)
      PROVE  LifecycleInv'
  BY <1>6, SideStep
<1>7. CASE UNCHANGED vars
  BY <1>7 DEF LifecycleInv, TypeOK, LockInv, OneInstance, FileNamesServer,
              StaleTakesAnAccident, StartInv, Starting, Holding, Cleared, Live, vars
<1> QED
  BY <1>1, <1>2, <1>3, <1>4, <1>5, <1>6, <1>7 DEF Next

\* The invariant holds whatever is started, stopped and killed.
THEOREM LifecycleInvariance == Spec => []LifecycleInv
BY InitLifecycle, NextStep, PTL DEF Spec

\* Every variable keeps its type; in particular the port belongs to a process
\* whose listener is open, and a process has a PID as long as it lives.
THEOREM LifecycleTypes == Spec => []TypeOK
<1>1. LifecycleInv => TypeOK
  BY DEF LifecycleInv
<1> QED
  BY <1>1, LifecycleInvariance, PTL

\* WritePIDFile lets one instance through at a time, if starts do not overlap.
THEOREM InstancesKeptApart == Spec => []OneInstance
<1>1. LifecycleInv => OneInstance
  BY DEF LifecycleInv, LockInv
<1> QED
  BY <1>1, LifecycleInvariance, PTL

\* The PID file names the instance from its own writing to its own removal of
\* it, if starts do not overlap.
THEOREM FileIsTheServers == Spec => []FileNamesServer
<1>1. LifecycleInv => FileNamesServer
  BY DEF LifecycleInv, LockInv
<1> QED
  BY <1>1, LifecycleInvariance, PTL

\* A process that main returns from leaves no PID file behind.
THEOREM NoStaleFile == Spec => []StaleTakesAnAccident
<1>1. LifecycleInv => StaleTakesAnAccident
  BY DEF LifecycleInv, LockInv
<1> QED
  BY <1>1, LifecycleInvariance, PTL
=============================================================================
