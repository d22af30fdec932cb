-------------------------- MODULE AdminSetupProofs --------------------------
(***************************************************************************)
(* Proofs about AdminSetup, for any set of requests and usernames and any  *)
(* number of restarts.                                                     *)
(*                                                                         *)
(* SetupInv adds to the properties where a request must have been for the  *)
(* flags to be what they are, that memory is never behind the database     *)
(* while the process runs, and what an undisturbed setup looks like: one   *)
(* request at a time, which finds no account when it starts.               *)
(***************************************************************************)
EXTENDS AdminSetup, FiniteSetTheorems, TLAPS

\* What a request has done by the time it is where it is.
RequestsInv ==
  /\ \A r \in Request : at[r] \in {"created", "marked", "succeeded"} => name[r] \in admins
  /\ \A r \in Request : at[r] = "marked" => completed
  /\ \A r \in Request : at[r] = "succeeded" => saved
  /\ Inside # {} => up

\* The flag in memory, the one in the database, and the token.
FlagsInv ==
  /\ up /\ saved => completed
  /\ completed => up /\ token = NoToken
  /\ completed \/ saved => admins # {}

\* As long as nothing has been disturbed.
CalmInv ==
  ~disturbed =>
    /\ \A r, s \in Inside : r = s
    /\ \A r \in Request : at[r] = "checked" => admins = {}
    /\ admins # {} => saved \/ Inside # {}
    /\ \A u, v \in admins : u = v

SetupInv == TypeOK /\ RequestsInv /\ FlagsInv /\ CalmInv

LEMMA InitSetup == Init => SetupInv
<1> SUFFICES ASSUME Init PROVE SetupInv
  OBVIOUS
<1>1. TypeOK
  <2>1. starts \in 0..MaxStarts
    BY StartsAssumption DEF Init
  <2> QED
    BY <2>1 DEF Init, TypeOK
<1>2. Inside = {}
  BY DEF Init, Inside
<1>3. RequestsInv /\ FlagsInv /\ CalmInv
  BY <1>2 DEF Init, RequestsInv, FlagsInv, CalmInv
<1> QED
  BY <1>1, <1>3 DEF SetupInv

LEMMA SetupTypeStep == TypeOK /\ [Next]_vars => TypeOK'
<1> SUFFICES ASSUME TypeOK, [Next]_vars PROVE TypeOK'
  OBVIOUS
<1>1. CASE Start
  BY <1>1, StartsAssumption DEF TypeOK, Start, NoToken
<1>2. CASE Stop
  <2>1. disturbed' \in BOOLEAN
    BY <1>2, Zenon DEF Stop
  <2>2. up' \in BOOLEAN /\ completed' \in BOOLEAN /\ token' = NoToken
    BY <1>2, Zenon DEF Stop
  <2>3. at' \in [Request -> {"new", "checked", "created", "marked",
                            "succeeded", "failed", "rejected", "lost"}]
    BY <1>2 DEF TypeOK, Stop
  <2> QED
    BY <1>2, <2>1, <2>2, <2>3 DEF TypeOK, Stop
<1>3. ASSUME NEW r \in Request, Check(r) PROVE TypeOK'
  BY <1>3 DEF TypeOK, Check
<1>4. ASSUME NEW r \in Request, CreateAdmin(r) PROVE TypeOK'
  BY <1>4 DEF TypeOK, CreateAdmin
<1>5. ASSUME NEW r \in Request, MarkComplete(r) PROVE TypeOK'
  BY <1>5, StartsAssumption DEF TypeOK, MarkComplete, NoToken
<1>6. ASSUME NEW r \in Request, SaveComplete(r) PROVE TypeOK'
  BY <1>6 DEF TypeOK, SaveComplete
<1>7. CASE UNCHANGED vars
  BY <1>7 DEF TypeOK, vars
<1> QED
  BY <1>1, <1>2, <1>3, <1>4, <1>5, <1>6, <1>7 DEF Next

-----------------------------------------------------------------------------
(* One lemma per step. *)

LEMMA StartStep == SetupInv /\ Start => SetupInv'
<1> SUFFICES ASSUME SetupInv, Start PROVE SetupInv'
  OBVIOUS
<1>1. TypeOK'
  BY SetupTypeStep DEF SetupInv, Next
<1>2. Inside = {} /\ Inside' = {}
  BY DEF SetupInv, RequestsInv, Start, Inside
<1>3. \A r \in Request : at[r] # "checked" /\ at[r] # "marked"
  BY <1>2 DEF Inside
<1>4. RequestsInv'
  BY <1>2, <1>3 DEF SetupInv, RequestsInv, Start
<1>5. FlagsInv'
  BY DEF SetupInv, FlagsInv, Start
<1>6. CalmInv'
  BY <1>2, <1>3 DEF SetupInv, CalmInv, Start
<1> QED
  BY <1>1, <1>4, <1>5, <1>6 DEF SetupInv

LEMMA StopStep == SetupInv /\ Stop => SetupInv'
<1> SUFFICES ASSUME SetupInv, Stop PROVE SetupInv'
  OBVIOUS
<1>1. TypeOK'
  BY SetupTypeStep DEF SetupInv, Next
<1>2. \A r \in Request : at'[r] = IF r \in Inside THEN "lost" ELSE at[r]
  BY DEF Stop
<1>3. Inside' = {} /\ \A r \in Request : at'[r] # "checked" /\ at'[r] # "marked"
  BY <1>2 DEF Inside
<1>4. \A r \in Request : at'[r] = "lost" \/ at'[r] = at[r]
  BY <1>2
<1>5. RequestsInv'
  BY <1>3, <1>4 DEF SetupInv, RequestsInv, Stop
<1>6. FlagsInv'
  BY DEF SetupInv, FlagsInv, Stop
<1>7. CalmInv'
  BY <1>3 DEF SetupInv, CalmInv, Stop
<1> QED
  BY <1>1, <1>5, <1>6, <1>7 DEF SetupInv

LEMMA CheckStep ==
  ASSUME SetupInv, NEW r \in Request, Check(r) PROVE SetupInv'
<1>1. TypeOK'
  BY SetupTypeStep DEF SetupInv, Next
<1>2. /\ \A s \in Request : s # r => at'[s] = at[s]
      /\ at[r] = "new" /\ r \notin Inside
      /\ (at'[r] = "checked" /\ ~completed) \/ (at'[r] = "rejected" /\ UNCHANGED disturbed)
      /\ UNCHANGED <<up, completed, token, saved, admins, name>>
  BY DEF SetupInv, TypeOK, Check, Inside
<1>3. Inside' = Inside \union {r} \/ Inside' = Inside
  BY <1>2 DEF Inside
<1>4. RequestsInv'
  <2>1. up'
    BY <1>2 DEF Check
  <2> QED
    BY <1>2, <2>1 DEF SetupInv, RequestsInv
<1>5. FlagsInv'
  BY <1>2 DEF SetupInv, FlagsInv
<1>6. CalmInv'
  <2> SUFFICES ASSUME ~disturbed' PROVE CalmInv'
    BY DEF CalmInv
  <2>0. ~disturbed
    BY DEF Check
  <2>1. CASE at'[r] = "checked"
    \* Nobody else is inside, so an account would have been saved as complete.
    <3>1. Inside = {} /\ up
      BY <2>1, <1>2 DEF Check, SetupInv, TypeOK
    <3>2. admins = {}
      BY <1>2, <2>0, <2>1, <3>1 DEF SetupInv, CalmInv, FlagsInv
    <3>3. Inside' = {r}
      BY <1>2, <2>1, <3>1 DEF Inside
    <3> QED
      BY <1>2, <3>2, <3>3 DEF CalmInv
  <2>2. CASE at'[r] = "rejected"
    <3>1. Inside' = Inside
      BY <1>2, <2>2 DEF Inside
    <3> QED
      BY <1>2, <2>0, <2>2, <3>1 DEF SetupInv, CalmInv
  <2> QED
    BY <1>2, <2>1, <2>2
<1> QED
  BY <1>1, <1>4, <1>5, <1>6 DEF SetupInv

LEMMA CreateAdminStep ==
  ASSUME SetupInv, NEW r \in Request, CreateAdmin(r) PROVE SetupInv'
<1>1. TypeOK'
  BY SetupTypeStep DEF SetupInv, Next
<1>2. /\ \A s \in Request : s # r => at'[s] = at[s]
      /\ at[r] = "checked" /\ r \in Inside
      /\ UNCHANGED <<up, completed, token, saved, name>>
  BY DEF SetupInv, TypeOK, CreateAdmin, Inside
<1>3. \/ at'[r] = "created" /\ admins' = admins \union {name[r]} /\ disturbed' = disturbed
      \/ at'[r] = "failed" /\ admins' = admins /\ disturbed'
  BY DEF SetupInv, TypeOK, CreateAdmin
<1>4. RequestsInv'
  BY <1>2, <1>3 DEF SetupInv, RequestsInv, CreateAdmin
<1>5. FlagsInv'
  BY <1>2, <1>3 DEF SetupInv, FlagsInv
<1>6. CalmInv'
  <2> SUFFICES ASSUME ~disturbed' PROVE CalmInv'
    BY DEF CalmInv
  <2>1. at'[r] = "created" /\ admins = {} /\ admins' = {name[r]}
        /\ \A s \in Inside : s = r
    BY <1>2, <1>3 DEF SetupInv, CalmInv
  <2>2. Inside' = {r}
    BY <1>2, <2>1 DEF Inside
  <2>3. \A s \in Request : at'[s] # "checked"
    BY <1>2, <2>1, <2>2 DEF Inside
  <2> QED
    BY <2>1, <2>2, <2>3 DEF CalmInv
<1> QED
  BY <1>1, <1>4, <1>5, <1>6 DEF SetupInv

LEMMA MarkCompleteStep ==
  ASSUME SetupInv, NEW r \in Request, MarkComplete(r) PROVE SetupInv'
<1>1. TypeOK'
  BY SetupTypeStep DEF SetupInv, Next
<1>2. /\ \A s \in Request : s # r => at'[s] = at[s]
      /\ at[r] = "created" /\ at'[r] = "marked" /\ name[r] \in admins
      /\ UNCHANGED <<up, saved, admins, name, disturbed>>
      /\ up /\ completed' /\ token' = NoToken
  BY DEF SetupInv, TypeOK, MarkComplete, RequestsInv
<1>3. Inside' = Inside
  BY <1>2 DEF Inside
<1>4. RequestsInv'
  BY <1>2, <1>3 DEF SetupInv, RequestsInv
<1>5. FlagsInv'
  BY <1>2 DEF SetupInv, FlagsInv
<1>6. CalmInv'
  BY <1>2, <1>3 DEF SetupInv, CalmInv
<1> QED
  BY <1>1, <1>4, <1>5, <1>6 DEF SetupInv

LEMMA SaveCompleteStep ==
  ASSUME SetupInv, NEW r \in Request, SaveComplete(r) PROVE SetupInv'
<1>1. TypeOK'
  BY SetupTypeStep DEF SetupInv, Next
<1>2. /\ \A s \in Request : s # r => at'[s] = at[s]
      /\ at[r] = "marked" /\ name[r] \in admins /\ completed
      /\ UNCHANGED <<up, completed, token, admins, name>>
  BY DEF SetupInv, TypeOK, SaveComplete, RequestsInv
<1>3. \/ at'[r] = "succeeded" /\ saved' = TRUE /\ disturbed' = disturbed
      \/ at'[r] = "failed" /\ saved' = saved /\ disturbed'
  BY DEF SetupInv, TypeOK, SaveComplete
<1>4. Inside' = Inside \ {r}
  BY <1>2, <1>3 DEF Inside
<1>5. RequestsInv'
  BY <1>2, <1>3, <1>4 DEF SetupInv, RequestsInv
<1>6. FlagsInv'
  BY <1>2, <1>3 DEF SetupInv, FlagsInv
<1>7. CalmInv'
  BY <1>2, <1>3, <1>4 DEF SetupInv, CalmInv
<1> QED
  BY <1>1, <1>5, <1>6, <1>7 DEF SetupInv

-----------------------------------------------------------------------------

\* The invariant holds in every reachable state.
THEOREM SetupInvariance == Spec => []SetupInv
<1>1. SetupInv /\ [Next]_vars => SetupInv'
  <2> SUFFICES ASSUME SetupInv, [Next]_vars PROVE SetupInv'
    OBVIOUS
  <2>1. CASE UNCHANGED vars
    BY <2>1 DEF vars, SetupInv, TypeOK, RequestsInv, FlagsInv, CalmInv, Inside
  <2> QED
    BY <2>1, StartStep, StopStep, CheckStep, CreateAdminStep, MarkCompleteStep,
       SaveCompleteStep DEF Next
<1> QED
  BY <1>1, InitSetup, PTL DEF Spec

\* The process, the tables and the requests keep their types, and the token is
\* the one of the running process.
THEOREM SetupTypes == Spec => []TypeOK
<1>1. SetupInv => TypeOK
  BY DEF SetupInv
<1> QED
  BY <1>1, SetupInvariance, PTL

\* The handler's successful answer is backed by the database for ever.
THEOREM SuccessDurable == Spec => []SuccessIsDurable
<1>1. SetupInv => SuccessIsDurable
  BY DEF SetupInv, RequestsInv, SuccessIsDurable
<1> QED
  BY <1>1, SetupInvariance, PTL

\* Setup is never complete without an account.
THEOREM LockoutImpossible == Spec => []NeverLockedOut
<1>1. SetupInv => NeverLockedOut
  BY DEF SetupInv, FlagsInv, NeverLockedOut
<1> QED
  BY <1>1, SetupInvariance, PTL

\* The token is gone once the flag is set (setup.go).
THEOREM TokenGone == Spec => []TokenSpent
<1>1. SetupInv => TokenSpent
  BY DEF SetupInv, FlagsInv, TokenSpent
<1> QED
  BY <1>1, SetupInvariance, PTL

\* An undisturbed setup creates one admin.
THEOREM OneAdminWhenCalm == Spec => []SecondAdminNeedsAFault
<1>1. SetupInv => SecondAdminNeedsAFault
  <2> SUFFICES ASSUME SetupInv, ~disturbed PROVE Cardinality(admins) <= 1
    BY DEF SecondAdminNeedsAFault
  <2>1. CASE admins = {}
    BY <2>1, FS_EmptySet
  <2>2. ASSUME NEW u \in admins PROVE Cardinality(admins) <= 1
    <3>1. admins = {u}
      BY DEF SetupInv, CalmInv
    <3>2. Cardinality({u}) = 1
      BY FS_Singleton
    <3> QED
      BY <3>1, <3>2
  <2> QED
    BY <2>1, <2>2
<1> QED
  BY <1>1, SetupInvariance, PTL

\* No request passes the check once the completion is saved.
THEOREM DoorIsShut == Spec => DoorStaysShut
<1>1. SetupInv /\ [Next]_vars => [saved => Inside' \subseteq Inside]_vars
  <2> SUFFICES ASSUME SetupInv, [Next]_vars, saved PROVE Inside' \subseteq Inside
    OBVIOUS
  <2>1. CASE Start
    BY <2>1 DEF Start, Inside
  <2>2. CASE Stop
    BY <2>2 DEF Stop, Inside
  <2>3. ASSUME NEW r \in Request, Check(r) PROVE Inside' \subseteq Inside
    <3>1. at' = [at EXCEPT ![r] = "rejected"]
      BY <2>3 DEF Check, SetupInv, FlagsInv
    <3> QED
      BY <3>1 DEF SetupInv, TypeOK, Inside
  <2>4. ASSUME NEW r \in Request, CreateAdmin(r) \/ MarkComplete(r) \/ SaveComplete(r)
        PROVE  Inside' \subseteq Inside
    BY <2>4 DEF CreateAdmin, MarkComplete, SaveComplete, SetupInv, TypeOK, Inside
  <2>5. CASE UNCHANGED vars
    BY <2>5 DEF vars, Inside
  <2> QED
    BY <2>1, <2>2, <2>3, <2>4, <2>5 DEF Next
<1> QED
  BY <1>1, SetupInvariance, PTL DEF Spec, DoorStaysShut
=============================================================================
