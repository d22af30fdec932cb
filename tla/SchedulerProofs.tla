-------------------------- MODULE SchedulerProofs --------------------------
(***************************************************************************)
(* Proofs about Scheduler, for any task objects, any number of goroutines  *)
(* and any MaxRetries.                                                     *)
(*                                                                         *)
(* That retries are bounded is not inductive: what bounds them is the      *)
(* failure count, which every retry has raised.  RetriesInv says so, and   *)
(* JobsInv that gocron never holds a job of an object that is not the      *)
(* registered one.  That no retry is lost needs to know why a run may turn *)
(* back: EnabledInv says that a task which is at work or has failed is     *)
(* enabled unless DisableTask was called for it, and UsedInv that only a   *)
(* task that has been added is ever at work or fails.                      *)
(***************************************************************************)
EXTENDS Scheduler, TLAPS

RetriesInv == \A t \in Task : retries[t] <= fails[t]

JobsInv == jobs \subseteq {current} /\ current \in used \union {NoTask}

UsedInv == \A t \in Task : Busy(t) \/ fails[t] > 0 => t \in used

EnabledInv ==
  \A t \in Task : t \notin touched /\ (Inside(t) \/ fails[t] > 0) => enabled[t]

SchedulerInv ==
  /\ TypeOK
  /\ RetriesInv
  /\ RetriesBounded
  /\ RetryNotLost
  /\ JobsInv
  /\ UsedInv
  /\ EnabledInv

LEMMA InitScheduler == Init => SchedulerInv
<1> SUFFICES ASSUME Init PROVE SchedulerInv
  OBVIOUS
<1>1. TypeOK
  <2>1. 0 \in 0..MaxRetries
    BY RetriesAssumption
  <2> QED
    BY <2>1 DEF Init, TypeOK
<1>2. RetriesInv /\ RetriesBounded /\ RetryNotLost /\ JobsInv
  BY DEF Init, RetriesInv, RetriesBounded, RetryNotLost, JobsInv
<1>3. UsedInv /\ EnabledInv
  BY NoTaskAssumption DEF Init, UsedInv, EnabledInv, Busy, Inside
<1> QED
  BY <1>1, <1>2, <1>3 DEF SchedulerInv

-----------------------------------------------------------------------------
(* The callers' operations leave counts and goroutines alone. *)

\* What RetryNotLost and the bounds rest on does not change.
CountsKept ==
  /\ UNCHANGED <<fails, at, of, retries>>
  /\ touched \subseteq touched'
  /\ used \subseteq used'

LEMMA CountsStep ==
  ASSUME SchedulerInv, CountsKept
  PROVE  RetriesInv' /\ RetriesBounded' /\ RetryNotLost' /\ UsedInv'
BY DEF CountsKept, SchedulerInv, RetriesInv, RetriesBounded, RetryNotLost, UsedInv, Busy

LEMMA AddTaskStep == ASSUME SchedulerInv, NEW t \in Task, AddTask(t) PROVE SchedulerInv'
<1>1. PICK b \in BOOLEAN :
        /\ enabled' = [enabled EXCEPT ![t] = b]
        /\ jobs' = (IF b THEN jobs \union {t} ELSE jobs)
        /\ born' = (IF b THEN born \union {t} ELSE born)
  BY DEF AddTask
<1>2. /\ current = NoTask /\ current' = t /\ used' = used \union {t}
      /\ UNCHANGED <<fails, phase, at, of, touched, retries>>
  BY DEF AddTask
<1>3. TypeOK'
  <2>1. enabled' \in [Task -> BOOLEAN]
    BY <1>1 DEF SchedulerInv, TypeOK
  <2> QED
    BY <1>1, <1>2, <2>1 DEF SchedulerInv, TypeOK
<1>4. jobs = {}
  BY <1>2, NoTaskAssumption DEF SchedulerInv, TypeOK, JobsInv
<1>5. JobsInv'
  BY <1>1, <1>2, <1>4 DEF JobsInv
<1>6. RetriesInv' /\ RetriesBounded' /\ RetryNotLost' /\ UsedInv'
  BY <1>2, CountsStep DEF CountsKept
<1>7. EnabledInv'
  <2>1. ~Inside(t) /\ ~(fails[t] > 0)
    BY DEF SchedulerInv, UsedInv, Inside, Busy, AddTask
  <2>2. \A s \in Task : s # t => enabled'[s] = enabled[s]
    BY <1>1 DEF SchedulerInv, TypeOK
  <2> QED
    BY <1>2, <2>1, <2>2 DEF SchedulerInv, EnabledInv, Inside
<1> QED
  BY <1>3, <1>5, <1>6, <1>7 DEF SchedulerInv

LEMMA RemoveTaskStep == ASSUME SchedulerInv, RemoveTask PROVE SchedulerInv'
<1>1. TypeOK'
  BY DEF SchedulerInv, TypeOK, RemoveTask
<1>2. JobsInv'
  BY DEF SchedulerInv, JobsInv, RemoveTask
<1>3. RetriesInv' /\ RetriesBounded' /\ RetryNotLost' /\ UsedInv'
  BY CountsStep DEF CountsKept, RemoveTask
<1>4. EnabledInv'
  BY DEF SchedulerInv, EnabledInv, Inside, RemoveTask
<1> QED
  BY <1>1, <1>2, <1>3, <1>4 DEF SchedulerInv

LEMMA FlagStep ==
  ASSUME SchedulerInv, EnableTask \/ DisableTask \/ Start \/ Stop
  PROVE  SchedulerInv'
<1>1. TypeOK'
  BY DEF SchedulerInv, TypeOK, JobsInv, EnableTask, DisableTask, Start, Stop
<1>2. JobsInv'
  BY DEF SchedulerInv, JobsInv, EnableTask, DisableTask, Start, Stop
<1>3. RetriesInv' /\ RetriesBounded' /\ RetryNotLost' /\ UsedInv'
  BY CountsStep DEF CountsKept, EnableTask, DisableTask, Start, Stop
<1>4. EnabledInv'
  BY DEF SchedulerInv, TypeOK, EnabledInv, Inside, EnableTask, DisableTask, Start, Stop
<1> QED
  BY <1>1, <1>2, <1>3, <1>4 DEF SchedulerInv

-----------------------------------------------------------------------------
(* Runs. *)

LEMMA EndFacts ==
  ASSUME TypeOK, NEW r \in Run, End(r)
  PROVE  /\ at' \in [Run -> {"idle", "called", "inside", "sleeping"}]
         /\ of' \in [Run -> Task \union {NoTask}]
         /\ \A q \in Run : at'[q] = "idle" <=> of'[q] = NoTask
         /\ of'[r] = NoTask
         /\ \A q \in Run : q # r => of'[q] = of[q]
BY DEF TypeOK, End

\* A goroutine at work holds a task.
LEMMA HeldTask ==
  ASSUME TypeOK, NEW r \in Run, at[r] # "idle"
  PROVE  of[r] \in Task /\ of[r] # NoTask
BY DEF TypeOK

\* What is left of the invariant when a run does not touch the registry.
LEMMA RegistryStep ==
  ASSUME SchedulerInv, UNCHANGED <<current, jobs, used>>
  PROVE  JobsInv'
BY DEF SchedulerInv, JobsInv

LEMMA BeginStep ==
  ASSUME SchedulerInv, NEW r \in Run, NEW t \in Task, t \in used, Begin(r, t)
  PROVE  SchedulerInv'
<1>1. TypeOK'
  <2>1. at' \in [Run -> {"idle", "called", "inside", "sleeping"}]
    BY DEF SchedulerInv, TypeOK, Begin
  <2>2. of' \in [Run -> Task \union {NoTask}]
    BY DEF SchedulerInv, TypeOK, Begin
  <2>3. \A q \in Run : at'[q] = "idle" <=> of'[q] = NoTask
    BY NoTaskAssumption DEF SchedulerInv, TypeOK, Begin
  <2> QED
    BY <2>1, <2>2, <2>3 DEF SchedulerInv, TypeOK, Begin
<1>2. \A s \in Task : Busy(s) => Busy(s)'
  <2> SUFFICES ASSUME NEW s \in Task, NEW q \in Run, of[q] = s PROVE Busy(s)'
    BY DEF Busy
  <2>1. q # r
    BY NoTaskAssumption DEF SchedulerInv, TypeOK, Begin
  <2>2. of'[q] = s
    BY <2>1 DEF SchedulerInv, TypeOK, Begin
  <2> QED
    BY <2>2 DEF Busy
<1>3. RetriesInv' /\ RetriesBounded' /\ RetryNotLost'
  BY <1>2 DEF SchedulerInv, RetriesInv, RetriesBounded, RetryNotLost, Begin
<1>4. JobsInv'
  BY RegistryStep DEF Begin
<1>5. \A q \in Run : /\ of'[q] = of[q] \/ of'[q] = t
                     /\ at'[q] = "inside" => at[q] = "inside" /\ of'[q] = of[q]
  BY DEF SchedulerInv, TypeOK, Begin
<1>6. UsedInv'
  BY <1>5 DEF SchedulerInv, UsedInv, Busy, Begin
<1>7. EnabledInv'
  BY <1>5 DEF SchedulerInv, EnabledInv, Inside, Begin
<1> QED
  BY <1>1, <1>3, <1>4, <1>6, <1>7 DEF SchedulerInv

\* The end of run r, whatever becomes of the counts: the other runs go on.
LEMMA EndStep ==
  ASSUME SchedulerInv, NEW r \in Run, at[r] # "idle", End(r)
  PROVE  /\ \A t \in Task : Busy(t)' => Busy(t)
         /\ \A t \in Task : Inside(t)' => Inside(t)
         /\ \A t \in Task : t # of[r] => (Busy(t) => Busy(t)')
<1> USE DEF SchedulerInv
<1>1. \A q \in Run : q # r => of'[q] = of[q] /\ at'[q] = at[q]
  BY DEF TypeOK, End
<1>2. of'[r] = NoTask /\ at'[r] = "idle"
  BY DEF TypeOK, End
<1> QED
  BY <1>1, <1>2, NoTaskAssumption DEF Busy, Inside

\* A run that goes on to a state s keeps its object.
LEMMA MoveFacts ==
  ASSUME TypeOK, NEW r \in Run, at[r] # "idle",
         NEW s \in {"called", "inside", "sleeping"},
         at' = [at EXCEPT ![r] = s], UNCHANGED of
  PROVE  /\ at' \in [Run -> {"idle", "called", "inside", "sleeping"}]
         /\ of' \in [Run -> Task \union {NoTask}]
         /\ \A q \in Run : at'[q] = "idle" <=> of'[q] = NoTask
         /\ \A t \in Task : Busy(t)' <=> Busy(t)
         /\ s # "inside" => \A t \in Task : Inside(t)' => Inside(t)
         /\ \A t \in Task : t # of[r] => (Inside(t)' => Inside(t))
BY DEF TypeOK, Busy, Inside

\* A run that turns back is of a task that has not failed, or that DisableTask
\* was called for.
LEMMA EnterStep == ASSUME SchedulerInv, NEW r \in Run, Enter(r) PROVE SchedulerInv'
<1> USE DEF SchedulerInv
<1>1. at[r] = "called" /\ of[r] \in Task
      /\ UNCHANGED <<current, jobs, enabled, fails, phase, used, born, touched, retries>>
  BY HeldTask DEF Enter
<1>2. JobsInv' /\ RetriesInv' /\ RetriesBounded'
  BY <1>1 DEF JobsInv, RetriesInv, RetriesBounded
<1>3. CASE enabled[of[r]]
  <2>1. at' = [at EXCEPT ![r] = "inside"] /\ UNCHANGED of
    BY <1>3 DEF Enter
  <2>2. TypeOK'
    BY <1>1, <2>1, MoveFacts DEF TypeOK
  <2>3. RetryNotLost' /\ UsedInv'
    BY <1>1, <2>1, MoveFacts DEF RetryNotLost, UsedInv
  <2>4. EnabledInv'
    BY <1>1, <1>3, <2>1, MoveFacts DEF EnabledInv
  <2> QED
    BY <1>2, <2>2, <2>3, <2>4
<1>4. CASE ~enabled[of[r]]
  <2>1. End(r)
    BY <1>4 DEF Enter
  <2>2. TypeOK'
    BY <1>1, <2>1, EndFacts DEF TypeOK
  <2>3. UsedInv' /\ EnabledInv'
    BY <1>1, <2>1, EndStep DEF UsedInv, EnabledInv
  <2>4. of[r] \in touched \/ ~(fails[of[r]] > 0)
    BY <1>1, <1>4 DEF EnabledInv
  <2>5. RetryNotLost'
    BY <1>1, <2>1, <2>4, EndStep DEF RetryNotLost
  <2> QED
    BY <1>2, <2>2, <2>3, <2>5
<1> QED
  BY <1>3, <1>4

LEMMA SucceedStep == ASSUME SchedulerInv, NEW r \in Run, Succeed(r) PROVE SchedulerInv'
<1> USE DEF SchedulerInv
<1>1. at[r] = "inside" /\ of[r] \in Task /\ End(r)
      /\ UNCHANGED <<current, jobs, enabled, phase, used, born, touched>>
  BY HeldTask DEF Succeed
<1>2. /\ fails' \in [Task -> 0..MaxRetries] /\ retries' \in [Task -> Nat]
      /\ fails'[of[r]] = 0 /\ retries'[of[r]] = 0
      /\ \A t \in Task : t # of[r] => fails'[t] = fails[t] /\ retries'[t] = retries[t]
  BY <1>1, RetriesAssumption DEF Succeed, TypeOK
<1>3. TypeOK'
  BY <1>1, <1>2, EndFacts DEF TypeOK
<1>4. RetriesInv' /\ RetriesBounded'
  BY <1>1, <1>2 DEF RetriesInv, RetriesBounded
<1>5. RetryNotLost' /\ UsedInv' /\ EnabledInv' /\ JobsInv'
  BY <1>1, <1>2, EndStep DEF RetryNotLost, UsedInv, EnabledInv, JobsInv
<1> QED
  BY <1>3, <1>4, <1>5

\* A retry is started only for a count that is below MaxRetries and has just
\* been raised; a run that ends leaves a task with no retries to lose.
LEMMA FailStep == ASSUME SchedulerInv, NEW r \in Run, Fail(r) PROVE SchedulerInv'
<1> DEFINE t == of[r]
<1> USE DEF SchedulerInv
<1>1. at[r] = "inside" /\ t \in Task /\ Busy(t) /\ Inside(t)
      /\ UNCHANGED <<current, jobs, enabled, phase, used, born, touched>>
  BY HeldTask DEF Fail, Busy, Inside
<1>2. /\ fails' \in [Task -> 0..MaxRetries]
      /\ fails'[t] = IF fails[t] < MaxRetries THEN fails[t] + 1 ELSE fails[t]
      /\ \A u \in Task : u # t => fails'[u] = fails[u]
  BY <1>1, RetriesAssumption DEF Fail, TypeOK
<1>3. fails[t] \in 0..MaxRetries /\ retries[t] \in Nat /\ retries[t] <= fails[t]
      /\ t \in used /\ (t \in touched \/ enabled[t])
  BY <1>1 DEF TypeOK, RetriesInv, UsedInv, EnabledInv
<1>4. JobsInv'
  BY <1>1 DEF JobsInv
<1>5. CASE fails[t] + 1 < MaxRetries
  <2>1. /\ at' = [at EXCEPT ![r] = "sleeping"] /\ UNCHANGED of
        /\ retries' = [retries EXCEPT ![t] = @ + 1]
    BY <1>5 DEF Fail
  <2>2. /\ retries' \in [Task -> Nat] /\ retries'[t] = retries[t] + 1
        /\ \A u \in Task : u # t => retries'[u] = retries[u]
    BY <1>1, <2>1 DEF TypeOK
  <2>3. TypeOK'
    BY <1>1, <1>2, <2>1, <2>2, MoveFacts DEF TypeOK
  <2>4. RetriesInv' /\ RetriesBounded'
    BY <1>2, <1>3, <1>5, <2>2, RetriesAssumption DEF RetriesInv, RetriesBounded
  <2>5. \A u \in Task : Busy(u)' <=> Busy(u)
    BY <1>1, <2>1, MoveFacts
  <2>6. \A u \in Task : Inside(u)' => Inside(u)
    BY <1>1, <2>1, MoveFacts
  <2>7. RetryNotLost' /\ UsedInv' /\ EnabledInv'
    BY <1>1, <1>2, <1>3, <2>5, <2>6 DEF RetryNotLost, UsedInv, EnabledInv
  <2> QED
    BY <1>4, <2>3, <2>4, <2>7
<1>6. CASE ~(fails[t] + 1 < MaxRetries)
  <2>1. End(r) /\ UNCHANGED retries
    BY <1>6 DEF Fail
  <2>2. TypeOK'
    BY <1>1, <1>2, <2>1, EndFacts DEF TypeOK
  <2>3. RetriesInv' /\ RetriesBounded'
    BY <1>2, <1>3, <2>1, RetriesAssumption DEF RetriesInv, RetriesBounded
  <2>4. ~(fails'[t] < MaxRetries)
    BY <1>2, <1>3, <1>6, RetriesAssumption
  <2>5. RetryNotLost'
    BY <1>1, <1>2, <2>1, <2>4, EndStep DEF RetryNotLost
  <2>6. UsedInv' /\ EnabledInv'
    BY <1>1, <1>2, <1>3, <2>1, EndStep DEF UsedInv, EnabledInv
  <2> QED
    BY <1>4, <2>2, <2>3, <2>5, <2>6
<1> QED
  BY <1>5, <1>6

LEMMA WakeStep == ASSUME SchedulerInv, NEW r \in Run, Wake(r) PROVE SchedulerInv'
<1> USE DEF SchedulerInv
<1>1. at[r] = "sleeping" /\ of[r] \in Task
      /\ UNCHANGED <<current, jobs, enabled, fails, phase, used, born, touched, retries>>
  BY HeldTask DEF Wake
<1>2. JobsInv' /\ RetriesInv' /\ RetriesBounded'
  BY <1>1 DEF JobsInv, RetriesInv, RetriesBounded
<1>3. CASE fails[of[r]] < MaxRetries
  <2>1. at' = [at EXCEPT ![r] = "called"] /\ UNCHANGED of
    BY <1>3 DEF Wake
  <2>2. TypeOK'
    BY <1>1, <2>1, MoveFacts DEF TypeOK
  <2>3. RetryNotLost' /\ UsedInv' /\ EnabledInv'
    BY <1>1, <2>1, MoveFacts DEF RetryNotLost, UsedInv, EnabledInv
  <2> QED
    BY <1>2, <2>2, <2>3
<1>4. CASE ~(fails[of[r]] < MaxRetries)
  <2>1. End(r)
    BY <1>4 DEF Wake
  <2>2. TypeOK'
    BY <1>1, <2>1, EndFacts DEF TypeOK
  <2>3. RetryNotLost' /\ UsedInv' /\ EnabledInv'
    BY <1>1, <1>4, <2>1, EndStep DEF RetryNotLost, UsedInv, EnabledInv
  <2> QED
    BY <1>2, <2>2, <2>3
<1> QED
  BY <1>3, <1>4

-----------------------------------------------------------------------------
LEMMA NextStep == SchedulerInv /\ [Next]_vars => SchedulerInv'
<1> SUFFICES ASSUME SchedulerInv, [Next]_vars PROVE SchedulerInv'
  OBVIOUS
<1>1. ASSUME NEW t \in Task, AddTask(t) PROVE SchedulerInv'
  BY <1>1, AddTaskStep
<1>2. CASE RemoveTask
  BY <1>2, RemoveTaskStep
<1>3. CASE EnableTask \/ DisableTask \/ Start \/ Stop
  BY <1>3, FlagStep
<1>4. ASSUME NEW r \in Run, RunTaskNow(r) PROVE SchedulerInv'
  <2>1. current \in Task /\ current \in used
    BY <1>4 DEF SchedulerInv, TypeOK, JobsInv, RunTaskNow
  <2> QED
    BY <1>4, <2>1, BeginStep DEF RunTaskNow
<1>5. ASSUME NEW r \in Run, NEW t \in Task, CronTick(r, t) PROVE SchedulerInv'
  <2>1. t \in used
    BY <1>5, NoTaskAssumption DEF SchedulerInv, JobsInv, CronTick
  <2> QED
    BY <1>5, <2>1, BeginStep DEF CronTick
<1>6. ASSUME NEW r \in Run, Enter(r) \/ Succeed(r) \/ Fail(r) \/ Wake(r)
      PROVE  SchedulerInv'
  BY <1>6, EnterStep, SucceedStep, FailStep, WakeStep
<1>7. CASE UNCHANGED vars
  BY <1>7 DEF SchedulerInv, TypeOK, RetriesInv, RetriesBounded, RetryNotLost, JobsInv,
              UsedInv, EnabledInv, Busy, Inside, vars
<1> QED
  BY <1>1, <1>2, <1>3, <1>4, <1>5, <1>6, <1>7 DEF Next

\* The invariant holds in every state of the scheduler.
THEOREM SchedulerInvariance == Spec => []SchedulerInv
BY InitScheduler, NextStep, PTL DEF Spec

\* Every variable keeps its type; in particular a goroutine that is at work
\* always holds a task object.
THEOREM SchedulerTypes == Spec => []TypeOK
<1>1. SchedulerInv => TypeOK
  BY DEF SchedulerInv
<1> QED
  BY <1>1, SchedulerInvariance, PTL

\* Between two successes runTask starts fewer than MaxRetries retries of a
\* task, however many runs of it fail side by side.
THEOREM RetriesAreBounded == Spec => []RetriesBounded
<1>1. SchedulerInv => RetriesBounded
  BY DEF SchedulerInv
<1> QED
  BY <1>1, SchedulerInvariance, PTL

\* A task that failed and has retries left is at work or asleep before a
\* retry, unless DisableTask was called for it.
THEOREM NoRetryIsLost == Spec => []RetryNotLost
<1>1. SchedulerInv => RetryNotLost
  BY DEF SchedulerInv
<1> QED
  BY <1>1, SchedulerInvariance, PTL

\* A goroutine at work keeps its object until it ends.
LEMMA WorkKeepsIdle ==
  ASSUME TypeOK, NEW r \in Run, Enter(r) \/ Succeed(r) \/ Fail(r) \/ Wake(r)
  PROVE  \A q \in Run : at[q] = "idle" => at'[q] = "idle"
BY DEF TypeOK, Enter, Succeed, Fail, Wake, End

\* Only the object registered under the ID is ever given to a new run, whether
\* gocron's job or RunTaskNow asks for it.
THEOREM StartsAreCurrent == Spec => OnlyCurrentStarts
<1> DEFINE P == \A r \in Run : at[r] = "idle" /\ at'[r] # "idle" => of'[r] = current
<1>1. SchedulerInv /\ [Next]_vars => [P]_vars
  <2> SUFFICES ASSUME SchedulerInv, Next PROVE P
    OBVIOUS
  <2>1. ASSUME NEW r \in Run, NEW t \in Task, Begin(r, t), t = current PROVE P
    BY <2>1 DEF SchedulerInv, TypeOK, Begin
  <2>2. ASSUME NEW r \in Run, RunTaskNow(r) PROVE P
    <3>1. current \in Task
      BY <2>2 DEF SchedulerInv, TypeOK, RunTaskNow
    <3> QED
      BY <2>1, <2>2, <3>1 DEF RunTaskNow
  <2>3. ASSUME NEW r \in Run, NEW t \in Task, CronTick(r, t) PROVE P
    <3>1. t = current
      BY <2>3 DEF SchedulerInv, JobsInv, CronTick
    <3> QED
      BY <2>1, <2>3, <3>1 DEF CronTick
  <2>4. ASSUME NEW r \in Run, Enter(r) \/ Succeed(r) \/ Fail(r) \/ Wake(r) PROVE P
    BY <2>4, WorkKeepsIdle DEF SchedulerInv
  <2>5. UNCHANGED at => P
    OBVIOUS
  <2>6. ASSUME NEW t \in Task, AddTask(t) PROVE UNCHANGED at
    BY <2>6 DEF AddTask
  <2>7. CASE RemoveTask \/ EnableTask \/ DisableTask \/ Start \/ Stop
    BY <2>7 DEF RemoveTask, EnableTask, DisableTask, Start, Stop
  <2> QED
    BY <2>2, <2>3, <2>4, <2>5, <2>6, <2>7 DEF Next
<1> QED
  BY <1>1, SchedulerInvariance, PTL DEF Spec, OnlyCurrentStarts
=============================================================================
