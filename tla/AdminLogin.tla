----------------------------- MODULE AdminLogin -----------------------------
(***************************************************************************)
(* POST /login of the admin panel (Handler.Login): the row of one account, *)
(* and requests that read it, judge a password for tens of milliseconds,   *)
(* and write it back.  Each store call is atomic, a request is not: what   *)
(* it writes is computed from the row as it was when it looked.            *)
(*                                                                         *)
(* locked_until is kept as the ticks that are left of it, so that a state  *)
(* does not grow old.                                                      *)
(***************************************************************************)
EXTENDS Naturals

CONSTANTS
  Client,     \* each sends one login request after another
  Threshold,  \* 5 in the code
  LockTime,   \* 15 minutes in the code, in ticks of the clock
  MaxWrong    \* requests with a wrong password: bound, for TLC

ASSUME ThresholdAssumption == Threshold \in Nat \ {0}
ASSUME LockTimeAssumption == LockTime \in Nat \ {0}
ASSUME MaxWrongAssumption == MaxWrong \in Nat

VARIABLES
  failed,    \* failed_attempts of the row
  lock,      \* what is left of its locked_until
  at,        \* where each client's request is
  right,     \* has it the right password?
  seen,      \* the failed_attempts it read
  seenLock,  \* what is left of the locked_until it read
  tries,     \* requests so far with a wrong password
  since,     \* history: passwords judged wrong since the row was cleared
  alone      \* history: was no other request in flight when it was?

vars == <<failed, lock, at, right, seen, seenLock, tries, since, alone>>

TypeOK ==
  /\ failed \in Nat
  /\ lock \in 0..LockTime
  /\ at \in [Client -> {"idle", "looked", "wrong", "counted", "right",
                        "cleared", "in"}]
  /\ right \in [Client -> BOOLEAN]
  /\ seen \in [Client -> Nat]
  /\ seenLock \in [Client -> 0..LockTime]
  /\ tries \in 0..MaxWrong
  /\ since \in Nat
  /\ alone \in BOOLEAN

Init ==
  /\ failed = 0
  /\ lock = 0
  /\ at = [c \in Client |-> "idle"]
  /\ right = [c \in Client |-> FALSE]
  /\ seen = [c \in Client |-> 0]
  /\ seenLock = [c \in Client |-> 0]
  /\ tries = 0
  /\ since = 0
  /\ alone = TRUE

\* The request of c is answered; what it had read is forgotten.
Answered(c) ==
  /\ at' = [at EXCEPT ![c] = "idle"]
  /\ right' = [right EXCEPT ![c] = FALSE]
  /\ seen' = [seen EXCEPT ![c] = 0]
  /\ seenLock' = [seenLock EXCEPT ![c] = 0]

-----------------------------------------------------------------------------

\* GetAdminByUsername.
Lookup(c) ==
  /\ at[c] = "idle"
  /\ at' = [at EXCEPT ![c] = "looked"]
  /\ \/ right' = [right EXCEPT ![c] = TRUE] /\ UNCHANGED tries
     \/ /\ tries < MaxWrong
        /\ right' = [right EXCEPT ![c] = FALSE]
        /\ tries' = tries + 1
  /\ seen' = [seen EXCEPT ![c] = failed]
  /\ seenLock' = [seenLock EXCEPT ![c] = lock]
  /\ UNCHANGED <<failed, lock, since, alone>>

\* Mutant: an attempt on a locked account locks it anew.
RefuseLocked_Extends(c) ==
  /\ at[c] = "looked"
  /\ seenLock[c] > 0
  /\ Answered(c)
  /\ lock' = LockTime
  /\ UNCHANGED <<failed, tries, since, alone>>

\* "Account locked. Try again later."
RefuseLocked(c) ==
  /\ at[c] = "looked"
  /\ seenLock[c] > 0
  /\ Answered(c)
  /\ UNCHANGED <<failed, lock, tries, since, alone>>

\* VerifyPassword, both ways.
JudgeRight(c) ==
  /\ at[c] = "looked"
  /\ seenLock[c] = 0
  /\ right[c]
  /\ at' = [at EXCEPT ![c] = "right"]
  /\ UNCHANGED <<failed, lock, right, seen, seenLock, tries, since, alone>>

JudgeWrong(c) ==
  /\ at[c] = "looked"
  /\ seenLock[c] = 0
  /\ ~right[c]
  /\ since' = since + 1
  /\ at' = [at EXCEPT ![c] = "wrong"]
  /\ UNCHANGED <<failed, lock, right, seen, seenLock, tries, alone>>

Attempts(c) == seen[c] + 1

\* Mutant: the lock comes one attempt early.
CountFailure_Early(c) ==
  /\ at[c] = "wrong"
  /\ failed' \in {Attempts(c), failed}
  /\ IF Attempts(c) >= Threshold - 1
       THEN /\ at' = [at EXCEPT ![c] = "counted"]
            /\ UNCHANGED <<right, seen, seenLock>>
       ELSE Answered(c)
  /\ UNCHANGED <<lock, tries, since, alone>>

\* UpdateAdminFailedAttempts writes what was read plus one; its error is
\* ignored.  The lock follows if that is the fifth attempt or a later one.
CountFailure(c) ==
  /\ at[c] = "wrong"
  /\ failed' \in {Attempts(c), failed}
  /\ IF Attempts(c) >= Threshold
       THEN /\ at' = [at EXCEPT ![c] = "counted"]
            /\ UNCHANGED <<right, seen, seenLock>>
       ELSE Answered(c)
  /\ UNCHANGED <<lock, tries, since, alone>>

\* Mutant: what is left of an earlier lock is added to the new one.
LockAccount_Adds(c) ==
  /\ at[c] = "counted"
  /\ lock' = lock + LockTime
  /\ Answered(c)
  /\ UNCHANGED <<failed, tries, since, alone>>

\* LockAdmin, its error ignored too.  failed_attempts is left as it is, so
\* one wrong password after the lock has run out locks the account again.
LockAccount(c) ==
  /\ at[c] = "counted"
  /\ lock' \in {LockTime, lock}
  /\ Answered(c)
  /\ UNCHANGED <<failed, tries, since, alone>>

\* UpdateAdminLastLogin clears count and lock in one UPDATE, or fails unseen.
ClearFailures(c) ==
  /\ at[c] = "right"
  /\ \/ /\ failed' = 0
        /\ lock' = 0
        /\ since' = 0
        /\ alone' = (\A d \in Client \ {c} : at[d] \notin {"looked", "wrong", "counted"})
     \/ UNCHANGED <<failed, lock, since, alone>>
  /\ at' = [at EXCEPT ![c] = "cleared"]
  /\ UNCHANGED <<right, seen, seenLock, tries>>

\* CreateAdminSession: the client is in, or is told "Session creation failed".
OpenSession(c) ==
  /\ at[c] = "cleared"
  /\ at' = [at EXCEPT ![c] = "in"]
  /\ UNCHANGED <<failed, lock, right, seen, seenLock, tries, since, alone>>

SessionFails(c) ==
  /\ at[c] = "cleared"
  /\ Answered(c)
  /\ UNCHANGED <<failed, lock, tries, since, alone>>

\* The redirect to the dashboard is answered; the client may log in again.
Redirect(c) ==
  /\ at[c] = "in"
  /\ Answered(c)
  /\ UNCHANGED <<failed, lock, tries, since, alone>>

\* The clock: every time left gets shorter.
Tick ==
  /\ lock > 0 \/ \E c \in Client : seenLock[c] > 0
  /\ lock' = IF lock > 0 THEN lock - 1 ELSE 0
  /\ seenLock' = [c \in Client |-> IF seenLock[c] > 0 THEN seenLock[c] - 1 ELSE 0]
  /\ UNCHANGED <<failed, at, right, seen, tries, since, alone>>

Handle(c) ==
  \/ RefuseLocked(c) \/ JudgeRight(c) \/ JudgeWrong(c)
  \/ CountFailure(c) \/ LockAccount(c)
  \/ ClearFailures(c) \/ OpenSession(c) \/ SessionFails(c) \/ Redirect(c)

Next == (\E c \in Client : Lookup(c) \/ Handle(c)) \/ Tick

Spec == Init /\ [][Next]_vars

(***************************************************************************)
(* Requests run to their end and the clock runs, because the scheduler and *)
(* the machine see to it.  Of the clients and the store it is assumed that *)
(* each client keeps trying with the right password, and that the store    *)
(* does not refuse every session for ever.                                 *)
(***************************************************************************)
TriesRight(c) == Lookup(c) /\ right'[c]

FairSpec ==
  /\ Spec
  /\ WF_vars(Tick)
  /\ \A c \in Client :
       /\ WF_vars(Handle(c))
       /\ SF_vars(TriesRight(c))
       /\ SF_vars(OpenSession(c))

-----------------------------------------------------------------------------
(* Properties. *)

\* A lock is earned: unless another request was in flight when a login last
\* cleared the row, the account is locked only after Threshold wrong passwords
\* since then.  (A request that had read the row before can lock the account
\* of someone who has just logged in.)
LockEarned == alone /\ lock > 0 => since >= Threshold

\* Whoever keeps trying with the right password gets in, again and again:
\* neither the attempts on a locked account nor the count that a lock leaves
\* behind keep the account shut once the wrong passwords stop.
RightPasswordGetsIn == \A c \in Client : []<>(at[c] = "in")
=============================================================================
