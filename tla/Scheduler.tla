----------------------------- MODULE Scheduler -----------------------------
(***************************************************************************)
(* scheduler.Scheduler for one task ID: cron runs, manual runs and retries *)
(* of the same Task object, which they share by pointer.                   *)
(*                                                                         *)
(* The object registered under the ID can be removed and another one added *)
(* while runs and sleeping retries still hold the first: a run keeps the   *)
(* object it was started with (of), not the ID.                            *)
(*                                                                         *)
(* runTask reads Enabled, and retryTask FailCount, without the mutex.  Go  *)
(* may hand them an earlier value; as each may also run late, that is the  *)
(* same as having read earlier, so each read is a step of its own that     *)
(* nothing holds together with what follows.                               *)
(*                                                                         *)
(* A task without RetryOnFail is one with MaxRetries = 0.  Each object is  *)
(* added at most once, which bounds the histories.                         *)
(***************************************************************************)
EXTENDS Naturals

CONSTANTS
  Task,         \* the Task objects that callers add under the ID
  NoTask,       \* not one of them
  Run,          \* goroutines that can be at work at once: bound, for TLC
  MaxRetries    \* of each task

ASSUME NoTaskAssumption == NoTask \notin Task
ASSUME RetriesAssumption == MaxRetries \in Nat

VARIABLES
  current,   \* s.tasks[ID]
  jobs,      \* the objects whose closure gocron runs (s.jobIDs)
  enabled,   \* Enabled of each object
  fails,     \* its FailCount, counted no further than MaxRetries
  phase,     \* gocron is new, running or stopped
  at,        \* what each goroutine is doing
  of,        \* the object it holds
  used,      \* history: objects that have been added
  born,      \* history: those that were added enabled
  touched,   \* history: those that DisableTask has been called for
  retries    \* history: retries started since the last success

vars == <<current, jobs, enabled, fails, phase, at, of, used, born, touched,
          retries>>

Busy(t)   == \E r \in Run : of[r] = t
Inside(t) == \E r \in Run : of[r] = t /\ at[r] = "inside"

TypeOK ==
  /\ current \in Task \union {NoTask}
  /\ jobs \in SUBSET Task
  /\ enabled \in [Task -> BOOLEAN]
  /\ fails \in [Task -> 0..MaxRetries]
  /\ phase \in {"new", "running", "stopped"}
  /\ at \in [Run -> {"idle", "called", "inside", "sleeping"}]
  /\ of \in [Run -> Task \union {NoTask}]
  /\ \A r \in Run : at[r] = "idle" <=> of[r] = NoTask
  /\ used \in SUBSET Task
  /\ born \in SUBSET used
  /\ touched \in SUBSET used
  /\ retries \in [Task -> Nat]

Init ==
  /\ current = NoTask
  /\ jobs = {}
  /\ enabled = [t \in Task |-> FALSE]
  /\ fails = [t \in Task |-> 0]
  /\ phase = "new"
  /\ at = [r \in Run |-> "idle"]
  /\ of = [r \in Run |-> NoTask]
  /\ used = {}
  /\ born = {}
  /\ touched = {}
  /\ retries = [t \in Task |-> 0]

-----------------------------------------------------------------------------
(* The callers' operations, each under s.mu. *)

\* Mutant: the closure is made, but no job of it.
AddTask_NoJob(t) ==
  /\ current = NoTask
  /\ t \notin used
  /\ current' = t
  /\ \E b \in BOOLEAN :
       /\ enabled' = [enabled EXCEPT ![t] = b]
       /\ born' = IF b THEN born \union {t} ELSE born
  /\ used' = used \union {t}
  /\ UNCHANGED <<jobs, fails, phase, at, of, touched, retries>>

\* Only a task that is enabled when it is added gets a cron job.
AddTask(t) ==
  /\ current = NoTask
  /\ t \notin used
  /\ current' = t
  /\ \E b \in BOOLEAN :
       /\ enabled' = [enabled EXCEPT ![t] = b]
       /\ jobs' = IF b THEN jobs \union {t} ELSE jobs
       /\ born' = IF b THEN born \union {t} ELSE born
  /\ used' = used \union {t}
  /\ UNCHANGED <<fails, phase, at, of, touched, retries>>

\* Mutant: the job is left with gocron.
RemoveTask_KeepsJob ==
  /\ current # NoTask
  /\ current' = NoTask
  /\ UNCHANGED <<jobs, enabled, fails, phase, at, of, used, born, touched, retries>>

RemoveTask ==
  /\ current # NoTask
  /\ current' = NoTask
  /\ jobs' = jobs \ {current}
  /\ UNCHANGED <<enabled, fails, phase, at, of, used, born, touched, retries>>

\* The flag alone: no job is registered.
EnableTask ==
  /\ current # NoTask
  /\ enabled' = [enabled EXCEPT ![current] = TRUE]
  /\ UNCHANGED <<current, jobs, fails, phase, at, of, used, born, touched, retries>>

\* The flag alone: the job stays, and its runs turn back in runTask.
DisableTask ==
  /\ current # NoTask
  /\ enabled' = [enabled EXCEPT ![current] = FALSE]
  /\ touched' = touched \union {current}
  /\ UNCHANGED <<current, jobs, fails, phase, at, of, used, born, retries>>

\* gocron runs no job before it is started, and cannot be started again.
Start ==
  /\ phase = "new"
  /\ phase' = "running"
  /\ UNCHANGED <<current, jobs, enabled, fails, at, of, used, born, touched, retries>>

\* Stop cancels the context that handlers get and shuts gocron down.  Retries
\* that sleep are not woken or told.
Stop ==
  /\ phase # "stopped"
  /\ phase' = "stopped"
  /\ UNCHANGED <<current, jobs, enabled, fails, at, of, used, born, touched, retries>>

-----------------------------------------------------------------------------
(* Runs. *)

\* Goroutine r is about to enter runTask(t).
Begin(r, t) ==
  /\ at[r] = "idle"
  /\ at' = [at EXCEPT ![r] = "called"]
  /\ of' = [of EXCEPT ![r] = t]
  /\ UNCHANGED <<current, jobs, enabled, fails, phase, used, born, touched, retries>>

\* gocron: the schedule is due.  Nothing keeps runs of one job apart.
CronTick(r, t) ==
  /\ phase = "running"
  /\ t \in jobs
  /\ Begin(r, t)

\* Mutant: the task is not looked for.
RunTaskNow_Unfound(r) == Begin(r, current)

RunTaskNow(r) ==
  /\ current # NoTask
  /\ Begin(r, current)

\* Goroutine r ends.
End(r) ==
  /\ at' = [at EXCEPT ![r] = "idle"]
  /\ of' = [of EXCEPT ![r] = NoTask]

\* runTask looks at Enabled, and calls the handler.
Enter(r) ==
  /\ at[r] = "called"
  /\ IF enabled[of[r]]
       THEN at' = [at EXCEPT ![r] = "inside"] /\ UNCHANGED of
       ELSE End(r)
  /\ UNCHANGED <<current, jobs, enabled, fails, phase, used, born, touched, retries>>

Succeed(r) ==
  /\ at[r] = "inside"
  /\ End(r)
  /\ fails' = [fails EXCEPT ![of[r]] = 0]
  /\ retries' = [retries EXCEPT ![of[r]] = 0]
  /\ UNCHANGED <<current, jobs, enabled, phase, used, born, touched>>

\* Mutant: FailCount is not incremented.
Fail_NotCounted(r) ==
  /\ at[r] = "inside"
  /\ IF fails[of[r]] + 1 < MaxRetries
       THEN /\ at' = [at EXCEPT ![r] = "sleeping"]
            /\ retries' = [retries EXCEPT ![of[r]] = IF @ < MaxRetries THEN @ + 1 ELSE @]
            /\ UNCHANGED of
       ELSE /\ End(r)
            /\ UNCHANGED retries
  /\ UNCHANGED <<current, jobs, enabled, fails, phase, used, born, touched>>

\* Mutant: the retry is not started for the first failure.
Fail_NoFirstRetry(r) ==
  /\ at[r] = "inside"
  /\ fails' = [fails EXCEPT ![of[r]] = IF @ < MaxRetries THEN @ + 1 ELSE @]
  /\ IF fails[of[r]] > 0 /\ fails[of[r]] + 1 < MaxRetries
       THEN /\ at' = [at EXCEPT ![r] = "sleeping"]
            /\ retries' = [retries EXCEPT ![of[r]] = @ + 1]
            /\ UNCHANGED of
       ELSE /\ End(r)
            /\ UNCHANGED retries
  /\ UNCHANGED <<current, jobs, enabled, phase, used, born, touched>>

\* The critical section after a failed handler; the retry is a goroutine of
\* its own, which takes the place of this one.
Fail(r) ==
  /\ at[r] = "inside"
  /\ fails' = [fails EXCEPT ![of[r]] = IF @ < MaxRetries THEN @ + 1 ELSE @]
  /\ IF fails[of[r]] + 1 < MaxRetries
       THEN /\ at' = [at EXCEPT ![r] = "sleeping"]
            /\ retries' = [retries EXCEPT ![of[r]] = @ + 1]
            /\ UNCHANGED of
       ELSE /\ End(r)
            /\ UNCHANGED retries
  /\ UNCHANGED <<current, jobs, enabled, phase, used, born, touched>>

\* retryTask after RetryDelay, whatever has become of task and scheduler.
Wake(r) ==
  /\ at[r] = "sleeping"
  /\ IF fails[of[r]] < MaxRetries
       THEN at' = [at EXCEPT ![r] = "called"] /\ UNCHANGED of
       ELSE End(r)
  /\ UNCHANGED <<current, jobs, enabled, fails, phase, used, born, touched, retries>>

Proceed(r) == Enter(r) \/ Succeed(r) \/ Fail(r) \/ Wake(r)

Next ==
  \/ \E t \in Task : AddTask(t)
  \/ RemoveTask
  \/ EnableTask
  \/ DisableTask
  \/ Start
  \/ Stop
  \/ \E r \in Run : RunTaskNow(r) \/ \E t \in Task : CronTick(r, t)
  \/ \E r \in Run : Enter(r) \/ Succeed(r) \/ Fail(r) \/ Wake(r)

Spec == Init /\ [][Next]_vars

(***************************************************************************)
(* Goroutines run, sleepers wake, a handler returns (its context ends      *)
(* after five minutes), and a schedule is due again and again.  Nothing is *)
(* assumed of the callers.                                                 *)
(***************************************************************************)
FairSpec ==
  /\ Spec
  /\ \A r \in Run : WF_vars(Proceed(r))
  /\ \A t \in Task : WF_vars(\E r \in Run : CronTick(r, t))

-----------------------------------------------------------------------------
(* Properties. *)

\* Between two successes a task is retried at most MaxRetries - 1 times,
\* however many cron runs, manual runs and retries fail side by side.
RetriesBounded ==
  \A t \in Task : retries[t] > 0 => retries[t] < MaxRetries

\* A failed task that has retries left has a run or a retry under way, unless
\* it has been disabled in the meantime (runTask drops a disabled retry).
RetryNotLost ==
  \A t \in Task : t \notin touched /\ 0 < fails[t] /\ fails[t] < MaxRetries => Busy(t)

\* No run is asked for of a task object that is not the one registered: removing
\* a task takes its schedule with it, and adding another brings none back.
OnlyCurrentStarts ==
  [][\A r \in Run : at[r] = "idle" /\ at'[r] # "idle" => of'[r] = current]_vars

\* A removed task comes to rest: the retries it leaves behind run out.
RemovedComesToRest ==
  \A t \in Task : t \in used /\ current # t ~> ~Busy(t)

\* The handler of a task that stays disabled is not called for ever, although
\* its job stays with gocron and anyone may still ask for a run.
DisabledComesToRest ==
  \A t \in Task : <>[](~enabled[t]) => <>[](~Inside(t))

\* A task that was added enabled and stays so is run again and again while
\* the scheduler is running.  (One that is enabled later is not.)
EnabledRuns ==
  \A t \in Task :
    <>[](current = t /\ enabled[t] /\ t \in born /\ phase = "running") => []<>Inside(t)
=============================================================================
