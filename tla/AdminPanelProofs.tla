-------------------------- MODULE AdminPanelProofs --------------------------
(***************************************************************************)
(* Proofs about the admin panel: AdminLogin, for any clients, threshold    *)
(* and lock time, and AdminSite, for any tabs, sessions and lifetime.      *)
(*                                                                         *)
(* LockEarned is not inductive: what locks the account is a number read    *)
(* some steps ago.  CountsInv bounds every such number, in the row and in  *)
(* the requests, by the wrong passwords since the row was cleared.         *)
(*                                                                         *)
(* NobodyOutstays follows from what a session row is worth: SessionsInv.   *)
(***************************************************************************)
EXTENDS AdminLogin, AdminSite, TLAPS

CountsInv ==
  alone =>
    /\ failed <= since
    /\ \A c \in Client : at[c] = "looked" => seen[c] <= since
    /\ \A c \in Client : at[c] = "wrong" => seen[c] + 1 <= since
    /\ \A c \in Client : at[c] = "counted" => since >= Threshold
    /\ lock > 0 => since >= Threshold

LoginInv == TypeOK /\ CountsInv

LEMMA InitLogin == Init => LoginInv
<1> SUFFICES ASSUME Init PROVE LoginInv
  OBVIOUS
<1>1. TypeOK
  <2>1. tries \in 0..MaxWrong /\ 0 \in 0..LockTime
    BY MaxWrongAssumption, LockTimeAssumption DEF Init
  <2> QED
    BY <2>1 DEF Init, TypeOK
<1>2. CountsInv
  BY DEF Init, CountsInv
<1> QED
  BY <1>1, <1>2 DEF LoginInv

-----------------------------------------------------------------------------
(* Answering a request changes its own entries only, and leaves it idle. *)

LEMMA AnsweredFacts ==
  ASSUME TypeOK, NEW c \in Client, Answered(c)
  PROVE  /\ at' \in [Client -> {"idle", "looked", "wrong", "counted", "right",
                                "cleared", "in"}]
         /\ right' \in [Client -> BOOLEAN]
         /\ seen' \in [Client -> Nat]
         /\ seenLock' \in [Client -> 0..LockTime]
         /\ at'[c] = "idle"
         /\ \A d \in Client : d # c => at'[d] = at[d] /\ seen'[d] = seen[d]
<1>1. 0 \in 0..LockTime
  BY LockTimeAssumption
<1> QED
  BY <1>1 DEF Answered, TypeOK

LEMMA LookupStep == ASSUME LoginInv, NEW c \in Client, Lookup(c) PROVE LoginInv'
<1>1. TypeOK'
  <2>1. tries' \in 0..MaxWrong
    <3>1. tries' = tries \/ (tries < MaxWrong /\ tries' = tries + 1)
      BY Zenon DEF Lookup
    <3> QED
      BY <3>1, MaxWrongAssumption DEF LoginInv, TypeOK
  <2>2. right' \in [Client -> BOOLEAN]
    BY DEF LoginInv, TypeOK, Lookup
  <2> QED
    BY <2>1, <2>2 DEF LoginInv, TypeOK, Lookup
<1>2. /\ at'[c] = "looked" /\ seen'[c] = failed
      /\ \A d \in Client : d # c => at'[d] = at[d] /\ seen'[d] = seen[d]
      /\ UNCHANGED <<failed, lock, since, alone>>
  BY DEF LoginInv, TypeOK, Lookup
<1>3. CountsInv'
  BY <1>2 DEF LoginInv, CountsInv
<1> QED
  BY <1>1, <1>3 DEF LoginInv

\* The answers that write nothing to the row.
LEMMA AnswerStep ==
  ASSUME LoginInv, NEW c \in Client,
         RefuseLocked(c) \/ SessionFails(c) \/ Redirect(c)
  PROVE  LoginInv'
<1>1. Answered(c) /\ UNCHANGED <<failed, lock, tries, since, alone>>
  BY DEF RefuseLocked, SessionFails, Redirect
<1>2. TypeOK'
  BY <1>1, AnsweredFacts DEF LoginInv, TypeOK
<1>3. CountsInv'
  BY <1>1, AnsweredFacts DEF LoginInv, CountsInv
<1> QED
  BY <1>2, <1>3 DEF LoginInv

\* The steps of a request that has the right password, up to its session.
LEMMA RightStep ==
  ASSUME LoginInv, NEW c \in Client, JudgeRight(c) \/ OpenSession(c)
  PROVE  LoginInv'
<1>1. TypeOK'
  BY DEF LoginInv, TypeOK, JudgeRight, OpenSession
<1>2. /\ at'[c] \in {"right", "in"}
      /\ \A d \in Client : d # c => at'[d] = at[d]
      /\ UNCHANGED <<failed, lock, seen, since, alone>>
  BY DEF LoginInv, TypeOK, JudgeRight, OpenSession
<1>3. CountsInv'
  BY <1>2 DEF LoginInv, CountsInv
<1> QED
  BY <1>1, <1>3 DEF LoginInv

LEMMA JudgeWrongStep ==
  ASSUME LoginInv, NEW c \in Client, JudgeWrong(c) PROVE LoginInv'
<1>1. TypeOK'
  BY DEF LoginInv, TypeOK, JudgeWrong
<1>2. /\ at[c] = "looked" /\ at'[c] = "wrong" /\ since' = since + 1
      /\ \A d \in Client : d # c => at'[d] = at[d]
      /\ UNCHANGED <<failed, lock, seen, alone>>
  BY DEF LoginInv, TypeOK, JudgeWrong
<1>3. since \in Nat /\ failed \in Nat /\ Threshold \in Nat
      /\ \A d \in Client : seen[d] \in Nat
  BY ThresholdAssumption DEF LoginInv, TypeOK
<1>4. CountsInv'
  BY <1>2, <1>3 DEF LoginInv, CountsInv
<1> QED
  BY <1>1, <1>4 DEF LoginInv

LEMMA CountFailureStep ==
  ASSUME LoginInv, NEW c \in Client, CountFailure(c) PROVE LoginInv'
<1>1. /\ since \in Nat /\ failed \in Nat /\ Threshold \in Nat
      /\ Attempts(c) = seen[c] + 1 /\ Attempts(c) \in Nat
  BY ThresholdAssumption DEF LoginInv, TypeOK, Attempts
<1>2. /\ at[c] = "wrong"
      /\ at'[c] = "idle" \/ (at'[c] = "counted" /\ Attempts(c) >= Threshold)
      /\ \A d \in Client : d # c => at'[d] = at[d] /\ seen'[d] = seen[d]
      /\ UNCHANGED <<lock, since, alone>>
      /\ failed' \in {Attempts(c), failed}
  <2>1. CASE Attempts(c) >= Threshold
    BY <2>1 DEF LoginInv, TypeOK, CountFailure
  <2>2. CASE ~(Attempts(c) >= Threshold)
    BY <2>2, AnsweredFacts DEF LoginInv, CountFailure
  <2> QED
    BY <2>1, <2>2
<1>3. TypeOK'
  <2>1. failed' \in Nat
    BY <1>1, <1>2
  <2>2. CASE Attempts(c) >= Threshold
    BY <2>1, <2>2 DEF LoginInv, TypeOK, CountFailure
  <2>3. CASE ~(Attempts(c) >= Threshold)
    BY <2>1, <2>3, AnsweredFacts DEF LoginInv, TypeOK, CountFailure
  <2> QED
    BY <2>2, <2>3
<1>4. CountsInv'
  <2> SUFFICES ASSUME alone PROVE CountsInv'
    BY <1>2 DEF CountsInv
  <2>1. Attempts(c) <= since
    BY <1>1, <1>2 DEF LoginInv, CountsInv
  <2>2. failed' <= since'
    BY <1>2, <2>1 DEF LoginInv, CountsInv
  <2>3. at'[c] = "counted" => since' >= Threshold
    BY <1>1, <1>2, <2>1
  <2> QED
    BY <1>2, <2>2, <2>3 DEF LoginInv, CountsInv
<1> QED
  BY <1>3, <1>4 DEF LoginInv

LEMMA LockAccountStep ==
  ASSUME LoginInv, NEW c \in Client, LockAccount(c) PROVE LoginInv'
<1>1. /\ at[c] = "counted" /\ Answered(c) /\ lock' \in {LockTime, lock}
      /\ UNCHANGED <<failed, tries, since, alone>>
  BY DEF LockAccount
<1>2. TypeOK'
  <2>1. lock' \in 0..LockTime
    BY <1>1, LockTimeAssumption DEF LoginInv, TypeOK
  <2> QED
    BY <1>1, <2>1, AnsweredFacts DEF LoginInv, TypeOK
<1>3. CountsInv'
  BY <1>1, AnsweredFacts DEF LoginInv, CountsInv
<1> QED
  BY <1>2, <1>3 DEF LoginInv

LEMMA ClearFailuresStep ==
  ASSUME LoginInv, NEW c \in Client, ClearFailures(c) PROVE LoginInv'
<1>1. /\ at[c] = "right" /\ at'[c] = "cleared"
      /\ \A d \in Client : d # c => at'[d] = at[d]
      /\ seen' = seen
  BY DEF LoginInv, TypeOK, ClearFailures
<1>2. CASE UNCHANGED <<failed, lock, since, alone>>
  <2>1. TypeOK'
    BY <1>2 DEF LoginInv, TypeOK, ClearFailures
  <2>2. CountsInv'
    BY <1>1, <1>2 DEF LoginInv, CountsInv
  <2> QED
    BY <2>1, <2>2 DEF LoginInv
<1>3. CASE /\ failed' = 0 /\ lock' = 0 /\ since' = 0
           /\ alone' = (\A d \in Client \ {c} : at[d] \notin {"looked", "wrong", "counted"})
  <2>1. TypeOK'
    <3>1. alone' \in BOOLEAN
      BY <1>3, Zenon
    <3>2. failed' \in Nat /\ since' \in Nat /\ lock' \in 0..LockTime
      BY <1>3, LockTimeAssumption
    <3> QED
      BY <3>1, <3>2 DEF LoginInv, TypeOK, ClearFailures
  <2>2. CountsInv'
    \* Nobody else is left with a number read before the row was cleared.
    <3> SUFFICES ASSUME alone' PROVE CountsInv'
      BY DEF CountsInv
    <3>1. \A d \in Client : at'[d] \notin {"looked", "wrong", "counted"}
      BY <1>1, <1>3
    <3> QED
      BY <1>3, <3>1 DEF CountsInv
  <2> QED
    BY <2>1, <2>2 DEF LoginInv
<1> QED
  BY <1>2, <1>3 DEF ClearFailures

LEMMA LoginTickStep == ASSUME LoginInv, Tick PROVE LoginInv'
<1>1. TypeOK'
  <2>1. lock' \in 0..LockTime
    BY LockTimeAssumption DEF LoginInv, TypeOK, Tick
  <2>2. seenLock' \in [Client -> 0..LockTime]
    BY LockTimeAssumption DEF LoginInv, TypeOK, Tick
  <2> QED
    BY <2>1, <2>2 DEF LoginInv, TypeOK, Tick
<1>2. lock' > 0 => lock > 0
  BY LockTimeAssumption DEF LoginInv, TypeOK, Tick
<1>3. CountsInv'
  BY <1>2 DEF LoginInv, CountsInv, Tick
<1> QED
  BY <1>1, <1>3 DEF LoginInv

-----------------------------------------------------------------------------

\* The invariant holds in every reachable state.
THEOREM LoginInvariance == Spec => []LoginInv
<1>1. LoginInv /\ [Next]_vars => LoginInv'
  <2> SUFFICES ASSUME LoginInv, [Next]_vars PROVE LoginInv'
    OBVIOUS
  <2>1. CASE UNCHANGED vars
    BY <2>1 DEF vars, LoginInv, TypeOK, CountsInv
  <2>2. ASSUME NEW c \in Client, Handle(c) PROVE LoginInv'
    BY <2>2, AnswerStep, RightStep, JudgeWrongStep, CountFailureStep,
       LockAccountStep, ClearFailuresStep DEF Handle
  <2> QED
    BY <2>1, <2>2, LookupStep, LoginTickStep DEF Next
<1> QED
  BY <1>1, InitLogin, PTL DEF Spec

\* The row and the requests keep their types; a lock is never longer than
\* LockTime, however many requests set it.
THEOREM LoginTypes == Spec => []TypeOK
<1>1. LoginInv => TypeOK
  BY DEF LoginInv
<1> QED
  BY <1>1, LoginInvariance, PTL

\* Handler.Login locks an account only for Threshold wrong passwords since the
\* last login that had the row to itself.
THEOREM LocksAreEarned == Spec => []LockEarned
<1>1. LoginInv => LockEarned
  BY DEF LoginInv, CountsInv, LockEarned
<1> QED
  BY <1>1, LoginInvariance, PTL

-----------------------------------------------------------------------------
(* The panel's sessions. *)

\* A row that has not expired is of a session that no logout has ended, and
\* does not outlast its login.
SessionsInv ==
  \A i \in Id : left[i] > 0 => i \notin ended /\ left[i] + age[i] <= Life

SiteInv == SiteTypeOK /\ SessionsInv

\* What the steps do to a tab keeps its types.
LEMMA LoadTypes ==
  ASSUME SiteTypeOK, NEW t \in Tab, NEW q, Load(t, q),
         q.method \in {"GET", "POST"}, q.to.slash \in BOOLEAN
  PROVE  /\ tab' \in [Tab -> {"resting", "loading", "admitted"}]
         /\ DOMAIN req' = Tab
         /\ \A u \in Tab : req'[u].method \in {"GET", "POST"} /\ req'[u].to.slash \in BOOLEAN
         /\ page' \in [Tab -> Pages]
BY DEF SiteTypeOK, Load, Pages

LEMMA RedirectTypes ==
  ASSUME SiteTypeOK, NEW t \in Tab, NEW a, RedirectTo(t, a), a.slash \in BOOLEAN
  PROVE  /\ tab' \in [Tab -> {"resting", "loading", "admitted"}]
         /\ DOMAIN req' = Tab
         /\ \A u \in Tab : req'[u].method \in {"GET", "POST"} /\ req'[u].to.slash \in BOOLEAN
         /\ page' \in [Tab -> Pages]
BY LoadTypes DEF RedirectTo, Get

LEMMA ShowTypes ==
  ASSUME SiteTypeOK, NEW t \in Tab, NEW p \in Pages, Show(t, p)
  PROVE  /\ tab' \in [Tab -> {"resting", "loading", "admitted"}]
         /\ DOMAIN req' = Tab
         /\ \A u \in Tab : req'[u].method \in {"GET", "POST"} /\ req'[u].to.slash \in BOOLEAN
         /\ page' \in [Tab -> Pages]
BY DEF SiteTypeOK, Show, Get, Root, Plain

\* Every request that a page offers is typed, whatever is put into its form.
LEMMA OfferTypes ==
  ASSUME NEW p, NEW q \in Offers(p), NEW x
  PROVE  LET r == [q EXCEPT !.with = x]
         IN  r.method \in {"GET", "POST"} /\ r.to.slash \in BOOLEAN
<1> DEFINE Request(r) == r.method \in {"GET", "POST"} /\ r.to.slash \in BOOLEAN
                         /\ DOMAIN r = {"method", "to", "with"}
<1>1. ASSUME NEW a PROVE Request(Get(Plain(a))) /\ Request(Get(Slash(a)))
                         /\ \A y : Request(Post(Plain(a), y))
  BY DEF Get, Post, Plain, Slash
<1> HIDE DEF Request
<1>2. \A r \in Sidebar : Request(r)
  BY <1>1 DEF Sidebar, Root
<1>3. Request(q)
  BY <1>1, <1>2 DEF Offers
<1> QED
  BY <1>3 DEF Request

LEMMA SiteStart == ASSUME SiteInit PROVE SiteInv
<1>1. 0 \in 0..Life /\ Life \in 0..Life
  BY LifeAssumption
<1>2. SiteTypeOK
  BY <1>1 DEF SiteInit, SiteTypeOK, Get, Root, Plain, Pages
<1> QED
  BY <1>2 DEF SiteInit, SiteInv, SessionsInv

\* What the user does leaves the sessions alone.
LEMMA UserStep ==
  ASSUME SiteInv, NEW t \in Tab, Type(t) \/ Follow(t) \/ TurnPage(t)
  PROVE  SiteInv'
<1>0. SiteTypeOK
  BY DEF SiteInv
<1>1. UNCHANGED <<jar, left, complete, age, ended>>
  BY DEF Type, Follow, TurnPage
<1>2. SessionsInv'
  BY <1>1 DEF SiteInv, SessionsInv
<1>3. CASE Type(t)
  <2>1. asked' \in [Tab -> BOOLEAN]
    BY <1>0, <1>3 DEF Type, SiteTypeOK
  <2> QED
    BY <1>0, <1>1, <1>2, <1>3, <2>1, LoadTypes, TypedAssumption DEF Type, SiteInv, SiteTypeOK
<1>4. CASE Follow(t)
  <2>0. PICK q \in Offers(page[t]) :
          \E x \in IF q.with = "token" THEN {"token", "nothing"} ELSE {q.with} :
            /\ Load(t, [q EXCEPT !.with = x])
            /\ asked' = [asked EXCEPT ![t] = x = "token"]
    BY <1>4 DEF Follow
  <2>1. PICK x \in IF q.with = "token" THEN {"token", "nothing"} ELSE {q.with} :
          Load(t, [q EXCEPT !.with = x]) /\ asked' = [asked EXCEPT ![t] = x = "token"]
    BY <2>0
  <2>2. asked' \in [Tab -> BOOLEAN]
    BY <1>0, <2>1, Zenon DEF SiteTypeOK
  <2> QED
    BY <1>0, <1>1, <1>2, <2>1, <2>2, OfferTypes, LoadTypes DEF SiteInv, SiteTypeOK
<1>5. CASE TurnPage(t)
  BY <1>0, <1>1, <1>2, <1>5 DEF TurnPage, SiteInv, SiteTypeOK, Pages, WizardPages
<1> QED
  BY <1>3, <1>4, <1>5

\* What the server does with a request; only a login and a logout touch the
\* sessions.
LEMMA ServerStep ==
  ASSUME SiteInv, NEW t \in Tab, Serve(t)
  PROVE  SiteInv'
<1>0. SiteTypeOK /\ SessionsInv
  BY DEF SiteInv
<1>a. ASSUME UNCHANGED <<jar, left, complete, asked, age, ended>>,
             (\E a : RedirectTo(t, Plain(a))) \/ (\E p \in Pages : Show(t, p))
      PROVE  SiteInv'
  <2>1. SessionsInv'
    BY <1>0, <1>a DEF SessionsInv
  <2>2. CASE \E p \in Pages : Show(t, p)
    BY <1>0, <1>a, <2>1, <2>2, ShowTypes DEF SiteInv, SiteTypeOK
  <2>3. ASSUME NEW a, RedirectTo(t, Plain(a)) PROVE SiteInv'
    BY <1>0, <1>a, <2>1, <2>3, RedirectTypes DEF SiteInv, SiteTypeOK, Plain
  <2> QED
    BY <1>a, <2>2, <2>3
<1>1. CASE Normalize(t)
  BY <1>a, <1>1 DEF Normalize
<1>2. CASE NoRoute(t)
  BY <1>a, <1>2 DEF NoRoute, Pages, WizardPages
<1>3. CASE TouchAndShow(t)
  BY <1>a, <1>3 DEF TouchAndShow, Guarded, Pages
<1>4. CASE Dispatch(t)
  <2>1. PICK h \in Handlers(req[t]) :
          \/ Public(t, h) \/ TurnAway(t, h) \/ Admit(t, h)
          \/ LoginPage(t, h) \/ LoginFails(t, h) \/ LoginSucceeds(t, h) \/ Logout(t, h)
          \/ SetupToken(t, h) \/ SetupWizard(t, h) \/ SetupComplete(t, h)
    BY <1>4 DEF Dispatch
  <2>2. CASE Public(t, h) \/ TurnAway(t, h)
    BY <1>a, <2>2 DEF Public, TurnAway, Pages
  <2>3. CASE LoginPage(t, h) \/ LoginFails(t, h)
    BY <1>a, <2>3 DEF LoginPage, LoginFails, Pages
  <2>4. CASE SetupToken(t, h) \/ SetupWizard(t, h)
    BY <1>a, <2>4 DEF SetupToken, SetupWizard, Pages, WizardPages
  <2>5. CASE Admit(t, h)
    BY <1>0, <2>5 DEF Admit, SiteInv, SiteTypeOK, SessionsInv
  <2>6. CASE SetupComplete(t, h)
    <3>1. \E p \in Pages : Show(t, p)
      BY <2>6 DEF SetupComplete, Pages, WizardPages
    <3>2. complete' \in BOOLEAN /\ UNCHANGED <<jar, left, asked, age, ended>>
      BY <1>0, <2>6 DEF SetupComplete, SiteTypeOK
    <3> QED
      BY <1>0, <3>1, <3>2, ShowTypes DEF SiteInv, SiteTypeOK, SessionsInv
  <2>7. CASE LoginSucceeds(t, h)
    <3>1. PICK i \in Id :
            /\ left[i] = 0 /\ i \notin ended /\ age[i] = 0
            /\ left' = [left EXCEPT ![i] = Life]
            /\ jar' = [jar EXCEPT !["/"] = i]
      BY <2>7 DEF LoginSucceeds
    <3>2. RedirectTo(t, Slash(Server(<<>>))) /\ UNCHANGED <<complete, asked, age, ended>>
      BY <2>7 DEF LoginSucceeds
    <3>3. left' \in [Id -> 0..Life] /\ jar' \in [{"/", "/server/admin"} -> Id \cup {NoId}]
      BY <1>0, <3>1, LifeAssumption DEF SiteTypeOK
    <3>4. SiteTypeOK'
      BY <1>0, <3>2, <3>3, RedirectTypes DEF SiteTypeOK, Slash
    <3>5. SessionsInv'
      BY <1>0, <3>1, <3>2, LifeAssumption DEF SiteTypeOK, SessionsInv
    <3> QED
      BY <3>4, <3>5 DEF SiteInv
  <2>8. CASE Logout(t, h)
    <3> DEFINE i == CookieFor(req[t].to)
    <3>1. RedirectTo(t, Plain(Server(<<>>))) /\ UNCHANGED <<complete, asked, age>>
          /\ jar' = [jar EXCEPT !["/server/admin"] = NoId]
      BY <2>8 DEF Logout
    <3>2. \/ UNCHANGED <<left, ended>>
          \/ i # NoId /\ left' = [left EXCEPT ![i] = 0] /\ ended' = ended \cup {i}
      BY <2>8 DEF Logout
    <3>3. i \in Id \cup {NoId}
      BY <1>0 DEF CookieFor, SiteTypeOK
    <3> HIDE DEF i
    <3>4. left' \in [Id -> 0..Life] /\ ended' \subseteq Id
          /\ jar' \in [{"/", "/server/admin"} -> Id \cup {NoId}]
      BY <1>0, <3>1, <3>2, <3>3, LifeAssumption DEF SiteTypeOK
    <3>5. SiteTypeOK'
      BY <1>0, <3>1, <3>4, RedirectTypes DEF SiteTypeOK, Plain
    <3>6. SessionsInv'
      <4>1. \A j \in Id : j # i \/ i = NoId => left'[j] = left[j] \/ left'[j] = 0
        BY <1>0, <3>2 DEF SiteTypeOK
      <4> QED
        BY <1>0, <3>1, <3>2, <3>3, <4>1 DEF SiteTypeOK, SessionsInv
    <3> QED
      BY <3>5, <3>6 DEF SiteInv
  <2> QED
    BY <2>1, <2>2, <2>3, <2>4, <2>5, <2>6, <2>7, <2>8
<1> QED
  BY <1>1, <1>2, <1>3, <1>4 DEF Serve

LEMMA SiteClockStep == ASSUME SiteInv, ClockTick PROVE SiteInv'
<1>0. SiteTypeOK /\ SessionsInv
  BY DEF SiteInv
<1>1. \A i \in Id : left[i] \in 0..Life /\ age[i] \in 0..Life
  BY <1>0 DEF SiteTypeOK
<1>2. left' \in [Id -> 0..Life] /\ age' \in [Id -> 0..Life]
  BY <1>1, LifeAssumption DEF ClockTick
<1>3. SiteTypeOK'
  BY <1>0, <1>2 DEF SiteTypeOK, ClockTick
<1>4. SessionsInv'
  BY <1>0, <1>1, LifeAssumption DEF SessionsInv, ClockTick
<1> QED
  BY <1>3, <1>4 DEF SiteInv

\* The invariant holds in every reachable state.
THEOREM SiteInvariance == SiteSpec => []SiteInv
<1>1. SiteInv /\ [SiteNext]_siteVars => SiteInv'
  <2> SUFFICES ASSUME SiteInv, [SiteNext]_siteVars PROVE SiteInv'
    OBVIOUS
  <2>1. CASE UNCHANGED siteVars
    BY <2>1 DEF siteVars, SiteInv, SiteTypeOK, SessionsInv
  <2> QED
    BY <2>1, UserStep, ServerStep, SiteClockStep DEF SiteNext
<1> QED
  BY <1>1, SiteStart, PTL DEF SiteSpec

\* Tabs, pages, cookies and session rows keep their types: a row never has more
\* than a session's life left, and a tab shows a page the server has.
THEOREM SiteTypes == SiteSpec => []SiteTypeOK
<1>1. SiteInv => SiteTypeOK
  BY DEF SiteInv
<1> QED
  BY <1>1, SiteInvariance, PTL

\* RequireAuth admits no session that a logout has ended or that is as old as a
\* session may get, although Logout leaves the cookie in the browser and
\* UpdateAdminSessionActivity is called at each use.
THEOREM NobodyStaysTooLong == SiteSpec => NobodyOutstays
<1>1. SiteInv /\ [SiteNext]_siteVars =>
        [\A t \in Tab :
           tab[t] = "loading" /\ tab'[t] = "admitted" =>
             /\ CookieFor(req[t].to) \notin ended
             /\ age[CookieFor(req[t].to)] < Life]_siteVars
  <2> SUFFICES ASSUME SiteInv, SiteNext, NEW t \in Tab,
                      tab[t] = "loading", tab'[t] = "admitted"
               PROVE  /\ CookieFor(req[t].to) \notin ended
                      /\ age[CookieFor(req[t].to)] < Life
    BY DEF siteVars
  <2>0. SiteTypeOK /\ SessionsInv
    BY DEF SiteInv
  <2>1. \E h : Admit(t, h)
    <3> USE <2>0 DEF SiteTypeOK, RedirectTo, Load, Show
    <3>1. ASSUME NEW u \in Tab, Type(u) \/ Follow(u) \/ TurnPage(u) PROVE FALSE
      BY <3>1 DEF Type, Follow, TurnPage
    <3>2. ASSUME NEW u \in Tab, Normalize(u) \/ NoRoute(u) \/ TouchAndShow(u) PROVE FALSE
      BY <3>2 DEF Normalize, NoRoute, TouchAndShow
    <3>3. ASSUME ClockTick PROVE FALSE
      BY <3>3 DEF ClockTick
    <3>4. PICK u \in Tab : Dispatch(u)
      BY <3>1, <3>2, <3>3 DEF SiteNext, Serve
    <3>5. PICK h : \/ Public(u, h) \/ TurnAway(u, h) \/ Admit(u, h)
                   \/ LoginPage(u, h) \/ LoginFails(u, h) \/ LoginSucceeds(u, h)
                   \/ Logout(u, h) \/ SetupToken(u, h) \/ SetupWizard(u, h)
                   \/ SetupComplete(u, h)
      BY <3>4 DEF Dispatch
    <3>6. Admit(u, h)
      BY <3>5 DEF Public, TurnAway, LoginPage, LoginFails, LoginSucceeds, Logout, SetupToken,
         SetupWizard, SetupComplete
    <3> QED
      BY <3>6 DEF Admit
  <2>2. CookieFor(req[t].to) \in Id \cup {NoId}
    BY <2>0 DEF CookieFor, SiteTypeOK
  <2> DEFINE i == CookieFor(req[t].to)
  <2>3. i # NoId /\ left[i] > 0
    BY <2>1 DEF Admit
  <2> HIDE DEF i
  <2>4. i \notin ended /\ age[i] < Life
    BY <2>0, <2>2, <2>3, LifeAssumption DEF i, SessionsInv, SiteTypeOK
  <2> QED
    BY <2>4 DEF i
<1> QED
  BY <1>1, SiteInvariance, PTL DEF SiteSpec, NobodyOutstays
=============================================================================
