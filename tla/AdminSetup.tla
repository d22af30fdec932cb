----------------------------- MODULE AdminSetup -----------------------------
(***************************************************************************)
(* First-run setup: SetupCompleteHandler, the token and the flag it shares *)
(* with the other handlers (setup.go), what the store keeps of it, and     *)
(* what main and server.New do with it when the process starts.            *)
(*                                                                         *)
(* The handler is five steps that nothing makes one: look at the flag,     *)
(* INSERT the admin, set the flag in memory, save the flag, answer.        *)
(* Requests interleave between them, each INSERT can fail (the request's   *)
(* context ends, Shutdown has closed the store), and the process can die.  *)
(*                                                                         *)
(* SetupTokenHandler and SetupWizardHandler only read this state.          *)
(***************************************************************************)
EXTENDS Naturals, FiniteSets

CONSTANTS
  Request,    \* POSTs to /config/setup/complete
  Username,
  MaxStarts   \* how often the process is started: bound, for TLC

ASSUME StartsAssumption == MaxStarts \in Nat

NoToken == 0

VARIABLES
  up,          \* is the process running?
  starts,      \* how often it has been started
  completed,   \* setupCompleted, in memory
  token,       \* setupToken, in memory: the n-th one generated, or NoToken
  saved,       \* the setup_complete row
  admins,      \* the usernames of the admins table; every role is "primary"
  at,          \* where each request is
  name,        \* the username it asks for
  disturbed    \* history: has a step failed, the process died under a
               \* request, or one request run into another?

vars == <<up, starts, completed, token, saved, admins, at, name, disturbed>>

\* Past the look at the flag, and not answered.
Inside == {r \in Request : at[r] \in {"checked", "created", "marked"}}

TypeOK ==
  /\ up \in BOOLEAN
  /\ starts \in 0..MaxStarts
  /\ completed \in BOOLEAN
  /\ token \in {NoToken, starts}
  /\ saved \in BOOLEAN
  /\ admins \in SUBSET Username
  /\ at \in [Request -> {"new", "checked", "created", "marked",
                         "succeeded", "failed", "rejected", "lost"}]
  /\ name \in [Request -> Username]
  /\ disturbed \in BOOLEAN

Init ==
  /\ up = FALSE
  /\ starts = 0
  /\ completed = FALSE
  /\ token = NoToken
  /\ saved = FALSE
  /\ admins = {}
  /\ at = [r \in Request |-> "new"]
  /\ name \in [Request -> Username]
  /\ disturbed = FALSE

-----------------------------------------------------------------------------
(* The process. *)

\* Mutant: server.New does not load the flag.
Start_Forgets ==
  /\ ~up
  /\ starts < MaxStarts
  /\ up' = TRUE
  /\ starts' = starts + 1
  /\ completed' = FALSE
  /\ token' = starts + 1
  /\ UNCHANGED <<saved, admins, at, name, disturbed>>

\* Mutant: the token of the start before is kept.
Start_OldToken ==
  /\ ~up
  /\ starts < MaxStarts
  /\ up' = TRUE
  /\ starts' = starts + 1
  /\ completed' = saved
  /\ token' = IF saved THEN NoToken ELSE starts
  /\ UNCHANGED <<saved, admins, at, name, disturbed>>

\* server.New loads the flag, and main generates a token if it is not set.
Start ==
  /\ ~up
  /\ starts < MaxStarts
  /\ up' = TRUE
  /\ starts' = starts + 1
  /\ completed' = saved
  /\ token' = IF saved THEN NoToken ELSE starts + 1
  /\ UNCHANGED <<saved, admins, at, name, disturbed>>

\* The process dies: memory and the requests in flight are gone.
Stop ==
  /\ up
  /\ up' = FALSE
  /\ completed' = FALSE
  /\ token' = NoToken
  /\ at' = [r \in Request |-> IF r \in Inside THEN "lost" ELSE at[r]]
  /\ disturbed' = (disturbed \/ Inside # {})
  /\ UNCHANGED <<starts, saved, admins, name>>

-----------------------------------------------------------------------------
(* SetupCompleteHandler. *)

\* Mutant: the flag is not looked at.
Check_Unguarded(r) ==
  /\ up
  /\ at[r] = "new"
  /\ at' = [at EXCEPT ![r] = "checked"]
  /\ disturbed' = (disturbed \/ Inside # {})
  /\ UNCHANGED <<up, starts, completed, token, saved, admins, name>>

\* IsSetupComplete, then the decoding and validation of the form, the tokens
\* and the hashes, any of which may refuse the request.
Check(r) ==
  /\ up
  /\ at[r] = "new"
  /\ \/ /\ ~completed
        /\ at' = [at EXCEPT ![r] = "checked"]
        /\ disturbed' = (disturbed \/ Inside # {})
     \/ /\ at' = [at EXCEPT ![r] = "rejected"]
        /\ UNCHANGED disturbed
  /\ UNCHANGED <<up, starts, completed, token, saved, admins, name>>

\* Mutant: the error of the INSERT is not looked at.
CreateAdmin_ErrorIgnored(r) ==
  /\ up
  /\ at[r] = "checked"
  /\ at' = [at EXCEPT ![r] = "created"]
  /\ admins' \in {admins, admins \union {name[r]}}
  /\ UNCHANGED <<up, starts, completed, token, saved, name, disturbed>>

\* CreateAdmin: username is UNIQUE, and any INSERT may fail.
CreateAdmin(r) ==
  /\ up
  /\ at[r] = "checked"
  /\ \/ /\ name[r] \notin admins
        /\ admins' = admins \union {name[r]}
        /\ at' = [at EXCEPT ![r] = "created"]
        /\ UNCHANGED disturbed
     \/ /\ at' = [at EXCEPT ![r] = "failed"]
        /\ disturbed' = TRUE
        /\ UNCHANGED admins
  /\ UNCHANGED <<up, starts, completed, token, saved, name>>

\* MarkSetupComplete, under setupMutex.
MarkComplete(r) ==
  /\ up
  /\ at[r] = "created"
  /\ at' = [at EXCEPT ![r] = "marked"]
  /\ completed' = TRUE
  /\ token' = NoToken
  /\ UNCHANGED <<up, starts, saved, admins, name, disturbed>>

\* Mutant: the answer does not depend on the flag having been saved.
SaveComplete_ErrorIgnored(r) ==
  /\ up
  /\ at[r] = "marked"
  /\ at' = [at EXCEPT ![r] = "succeeded"]
  /\ saved' \in {saved, TRUE}
  /\ UNCHANGED <<up, starts, completed, token, admins, name, disturbed>>

\* SetSetupComplete(ctx, true), and the answer.
SaveComplete(r) ==
  /\ up
  /\ at[r] = "marked"
  /\ \/ /\ saved' = TRUE
        /\ at' = [at EXCEPT ![r] = "succeeded"]
        /\ UNCHANGED disturbed
     \/ /\ at' = [at EXCEPT ![r] = "failed"]
        /\ disturbed' = TRUE
        /\ UNCHANGED saved
  /\ UNCHANGED <<up, starts, completed, token, admins, name>>

Next ==
  \/ Start
  \/ Stop
  \/ \E r \in Request :
       Check(r) \/ CreateAdmin(r) \/ MarkComplete(r) \/ SaveComplete(r)

Spec == Init /\ [][Next]_vars

-----------------------------------------------------------------------------
(* Properties. *)

\* A client told "Setup completed successfully" has an admin account, and the
\* wizard stays closed for good: both survive every later request and restart.
SuccessIsDurable ==
  \A r \in Request : at[r] = "succeeded" => saved /\ name[r] \in admins

\* Setup never counts as complete, in memory or in the database, without an
\* account to log in with.
NeverLockedOut == completed \/ saved => admins # {}

\* A process that counts setup as complete has no setup token left to accept.
TokenSpent == completed => token = NoToken

\* Without a failed INSERT, a death under a request or two requests at once,
\* setup creates one admin, however many requests and restarts there are.
SecondAdminNeedsAFault == ~disturbed => Cardinality(admins) <= 1

\* Once the completion is saved no request gets past the check again, in this
\* process or in one started later.
DoorStaysShut == [][saved => Inside' \subseteq Inside]_vars

\* "Generated on first-run if no admins exist in database" (AI.md:2269).
TokenOnlyWithoutAdmins ==
  [][token' # token /\ token' # NoToken => admins = {}]_vars
=============================================================================
