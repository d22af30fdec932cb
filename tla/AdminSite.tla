----------------------------- MODULE AdminSite -----------------------------
(***************************************************************************)
(* The admin panel as a browser meets it: addresses and the middleware in  *)
(* front of them, routes, redirects, the forms and links of the pages, the *)
(* script of the setup wizard, the cookie jar and the session rows.        *)
(*                                                                         *)
(* A browser has tabs, which share its jar.  A tab is resting on a page or *)
(* loading an address; a redirect is one more address to load.  Whoever    *)
(* uses it follows what the page offers, or types an address.              *)
(***************************************************************************)
EXTENDS Naturals, Sequences

CONSTANTS
  AdminPath,   \* admin_path of the configuration; "admin" by default
  Username,    \* what an address may hold for {username}
  Typed,       \* requests that are made by typing an address or with a script
  Tab,
  Id,          \* session ids
  NoId,        \* no session: no cookie
  Life         \* 30 days, in ticks of the clock

ASSUME TypedAssumption ==
  \A q \in Typed : q.method \in {"GET", "POST"} /\ q.to.slash \in BOOLEAN
ASSUME NoIdAssumption == NoId \notin Id
ASSUME LifeAssumption == Life \in Nat \ {0}

VARIABLES
  tab,       \* of a tab: "resting", "loading", or "admitted" by RequireAuth
  req,       \* the request a tab is loading: method, address, what is in it
  page,      \* what a tab shows; a navigation leaves "blank"
  jar,       \* the browser's admin_session cookies, by their Path
  left,      \* session rows: what is left of expires_at, 0 for none
  complete,  \* IsSetupComplete
  asked,     \* history: the tab was given the right setup token at last
  age,       \* history: ticks since the login that opened a session
  ended      \* history: sessions whose row a logout has deleted

siteVars == <<tab, req, page, jar, left, complete, asked, age, ended>>

-----------------------------------------------------------------------------
(* Addresses and routes. *)

Plain(p) == [path |-> p, slash |-> FALSE]
Slash(p) == [path |-> p, slash |-> TRUE]  \* with a trailing slash
Root == Plain(<<>>)

\* What the program writes into pages and redirects, whatever AdminPath is.
Admin(p) == <<"admin">> \o p
Server(p) == <<"server", "admin">> \o p

Panel(p) == <<"server", AdminPath>> \o p
Config(p) == Panel(<<"config">> \o p)

Get(a) == [method |-> "GET", to |-> a, with |-> "nothing"]
Post(a, x) == [method |-> "POST", to |-> a, with |-> x]

\* The pages of renderAdminPage.
Sections ==
  {<<"backup">>, <<"updates">>, <<"ssl">>, <<"email">>, <<"scheduler">>,
   <<"metrics">>, <<"users">>, <<"logs", "audit">>, <<"network", "tor">>,
   <<"network", "geoip">>, <<"security", "auth">>, <<"security", "tokens">>}

\* The pages that are templates of their own.
Templates == {<<"settings">>, <<"info">>, <<"logs">>}

\* Mutant: the dashboard is mounted at the address of the login page.
Routes_Swapped ==
  {<<"GET", Root, "public">>, <<"GET", Plain(<<"server", "healthz">>), "public">>,
   <<"GET", Plain(<<".well-known", "change-password">>), "changePassword">>,
   <<"POST", Plain(Config(<<"setup", "token">>)), "setupToken">>,
   <<"GET", Plain(Config(<<"setup">>)), "wizard">>,
   <<"POST", Plain(Config(<<"setup", "complete">>)), "setupComplete">>,
   <<"GET", Slash(Panel(<<>>)), "login">>,
   <<"POST", Plain(Panel(<<"login">>)), "login">>,
   <<"GET", Plain(Panel(<<"logout">>)), "logout">>,
   <<"GET", Plain(Panel(<<>>)), "dashboard">>}

\* setupRoutes.
Routes ==
  {<<"GET", Root, "public">>, <<"GET", Plain(<<"server", "healthz">>), "public">>,
   <<"GET", Plain(<<".well-known", "change-password">>), "changePassword">>,
   <<"POST", Plain(Config(<<"setup", "token">>)), "setupToken">>,
   <<"GET", Plain(Config(<<"setup">>)), "wizard">>,
   <<"POST", Plain(Config(<<"setup", "complete">>)), "setupComplete">>,
   <<"GET", Plain(Panel(<<>>)), "login">>,
   <<"POST", Plain(Panel(<<"login">>)), "login">>,
   <<"GET", Plain(Panel(<<"logout">>)), "logout">>,
   <<"GET", Slash(Panel(<<>>)), "dashboard">>,
   <<"POST", Plain(Config(<<"settings">>)), "template">>}
  \cup {<<"GET", Plain(Config(p)), "template">> : p \in Templates}
  \cup {<<"GET", Plain(Config(p)), "section">> : p \in Sections}
  \cup {<<"GET", Plain(Panel(<<u, p>>)), "section">> :
          u \in Username, p \in {"profile", "preferences", "notifications"}}

\* The pages behind RequireAuth.
Guarded == {"dashboard", "template", "section"}

Handlers(q) == {r[3] : r \in {s \in Routes : s[1] = q.method /\ s[2] = q.to}}

\* PathSecurityMiddleware refuses an address with a ".." in it.
Traverses(a) == \E i \in DOMAIN a.path : a.path[i] = ".."

\* The cookie the browser sends to any address of the server, and to one
\* under /server/admin, is that of the longest Path.
CookieFor(a) ==
  LET deep == Len(a.path) >= 2 /\ SubSeq(a.path, 1, 2) = Server(<<>>)
  IN  IF deep /\ jar["/server/admin"] # NoId THEN jar["/server/admin"] ELSE jar["/"]

-----------------------------------------------------------------------------
(* What the pages offer. *)

\* The sidebar of renderAdminPage.
Sidebar ==
  {Get(Slash(Server(<<>>))), Get(Root), Get(Plain(Server(<<"logout">>)))}
  \cup {Get(Plain(Server(<<"config">> \o p))) :
          p \in Templates \cup (Sections \ {<<"logs", "audit">>})}

WizardPages == {"wizard1", "wizard2", "wizard3", "wizard4", "wizard5"}

Offers(p) ==
  CASE p = "token"     -> {Post(Plain(Admin(<<"setup", "token">>)), "token")}
    [] p = "login"     -> {Post(Plain(Admin(<<"login">>)), "password")}
    [] p = "dashboard" -> {Get(Plain(Admin(<<"logout">>)))}
    [] p = "template"  -> {Get(Plain(Admin(<<"logout">>))),
                           Get(Plain(Admin(<<"dashboard">>))),
                           Get(Plain(Admin(<<"server", "settings">>)))}
    [] p = "section"   -> Sidebar
    [] p = "wizard4"   -> {Post(Plain(Admin(<<"setup", "complete">>)), "setup")}
    [] p = "wizard5"   -> {Get(Slash(Admin(<<>>)))}
    [] OTHER           -> {}

Pages ==
  {"blank", "public", "token", "login", "denied", "dashboard", "template", "section",
   "missing", "bad", "done"} \cup WizardPages

SiteTypeOK ==
  /\ tab \in [Tab -> {"resting", "loading", "admitted"}]
  /\ DOMAIN req = Tab
  /\ \A t \in Tab : req[t].method \in {"GET", "POST"} /\ req[t].to.slash \in BOOLEAN
  /\ page \in [Tab -> Pages]
  /\ jar \in [{"/", "/server/admin"} -> Id \cup {NoId}]
  /\ left \in [Id -> 0..Life]
  /\ complete \in BOOLEAN
  /\ asked \in [Tab -> BOOLEAN]
  /\ age \in [Id -> 0..Life]
  /\ ended \subseteq Id

SiteInit ==
  /\ tab = [t \in Tab |-> "resting"]
  /\ req = [t \in Tab |-> Get(Root)]
  /\ page = [t \in Tab |-> "public"]
  /\ jar = [p \in {"/", "/server/admin"} |-> NoId]
  /\ left = [i \in Id |-> 0]
  /\ complete \in BOOLEAN
  /\ asked = [t \in Tab |-> FALSE]
  /\ age = [i \in Id |-> 0]
  /\ ended = {}

\* The wizard's script sends its request without leaving its page.
Load(t, q) ==
  /\ tab' = [tab EXCEPT ![t] = "loading"]
  /\ req' = [req EXCEPT ![t] = q]
  /\ page' = IF page[t] = "wizard4" /\ q.with = "setup" THEN page
             ELSE [page EXCEPT ![t] = "blank"]

RedirectTo(t, a) == Load(t, Get(a))

Show(t, p) ==
  /\ tab' = [tab EXCEPT ![t] = "resting"]
  /\ req' = [req EXCEPT ![t] = Get(Root)]
  /\ page' = [page EXCEPT ![t] = p]

-----------------------------------------------------------------------------
(* The user. *)

Type(t) ==
  /\ tab[t] = "resting"
  /\ \E q \in Typed : Load(t, q)
  /\ asked' = [asked EXCEPT ![t] = FALSE]
  /\ UNCHANGED <<jar, left, complete, age, ended>>

\* A link is followed or a form is sent.  What is typed into the token form
\* is the right token, or anything else.
Follow(t) ==
  /\ tab[t] = "resting"
  /\ \E q \in Offers(page[t]) :
       \E x \in IF q.with = "token" THEN {"token", "nothing"} ELSE {q.with} :
         /\ Load(t, [q EXCEPT !.with = x])
         /\ asked' = [asked EXCEPT ![t] = x = "token"]
  /\ UNCHANGED <<jar, left, complete, age, ended>>

\* nextStep and prevStep of the wizard's script.  The first and the fourth
\* step check or send something; a step that is refused stays where it is.
TurnPage(t) ==
  /\ tab[t] = "resting"
  /\ \/ page[t] = "wizard1" /\ page' = [page EXCEPT ![t] = "wizard2"]
     \/ page[t] = "wizard2" /\ page' \in {[page EXCEPT ![t] = p] : p \in {"wizard1", "wizard3"}}
     \/ page[t] = "wizard3" /\ page' \in {[page EXCEPT ![t] = p] : p \in {"wizard2", "wizard4"}}
     \/ page[t] = "wizard4" /\ page' = [page EXCEPT ![t] = "wizard3"]
  /\ UNCHANGED <<tab, req, jar, left, complete, asked, age, ended>>

-----------------------------------------------------------------------------
(* The server. *)

\* URLNormalizeMiddleware: 301 to the address without its trailing slash.
Normalize(t) ==
  /\ tab[t] = "loading"
  /\ req[t].to.slash
  /\ RedirectTo(t, Plain(req[t].to.path))
  /\ UNCHANGED <<jar, left, complete, asked, age, ended>>

\* No route, or an address that is refused.  The wizard's script takes what is
\* not JSON for a failed setup and stays on its page.
NoRoute(t) ==
  /\ tab[t] = "loading"
  /\ ~req[t].to.slash
  /\ \/ Traverses(req[t].to) /\ Show(t, "bad")
     \/ ~Traverses(req[t].to) /\ Handlers(req[t]) = {}
        /\ Show(t, IF page[t] = "wizard4" THEN "wizard4" ELSE "missing")
  /\ UNCHANGED <<jar, left, complete, asked, age, ended>>

Public(t, h) ==
  /\ \/ h = "public" /\ Show(t, "public")
     \/ h = "changePassword" /\ RedirectTo(t, Plain(<<"auth", "password", "reset">>))
  /\ UNCHANGED <<jar, left, complete, asked, age, ended>>

\* Login before setup is complete, whatever the method; then its GET.
LoginPage(t, h) ==
  /\ h = "login"
  /\ \/ ~complete /\ Show(t, "token")
     \/ complete /\ req[t].method = "GET" /\ Show(t, "login")
  /\ UNCHANGED <<jar, left, complete, asked, age, ended>>

\* Its POST: AdminLogin says when it succeeds.
LoginFails(t, h) ==
  /\ h = "login"
  /\ complete /\ req[t].method = "POST"
  /\ Show(t, "denied")
  /\ UNCHANGED <<jar, left, complete, asked, age, ended>>

LoginSucceeds(t, h) ==
  /\ h = "login"
  /\ complete /\ req[t].method = "POST" /\ req[t].with = "password"
  /\ \E i \in Id :
       /\ left[i] = 0 /\ i \notin ended /\ age[i] = 0  \* a fresh id
       /\ left' = [left EXCEPT ![i] = Life]
       /\ jar' = [jar EXCEPT !["/"] = i]
  /\ RedirectTo(t, Slash(Server(<<>>)))
  /\ UNCHANGED <<complete, asked, age, ended>>

\* Mutant: only the cookie is cleared, and with the wrong Path.
Logout_KeepsRow(t, h) ==
  /\ h = "logout"
  /\ ended' = ended \cup ({CookieFor(req[t].to)} \ {NoId})
  /\ jar' = [jar EXCEPT !["/server/admin"] = NoId]
  /\ RedirectTo(t, Plain(Server(<<>>)))
  /\ UNCHANGED <<left, complete, asked, age>>

\* Mutant: the row is deleted although there is no cookie.
Logout_AnyCookie(t, h) ==
  /\ h = "logout"
  /\ LET i == CookieFor(req[t].to)
     IN  left' = [j \in Id |-> IF j = i THEN 0 ELSE left[j]] /\ ended' = ended \cup {i}
  /\ jar' = [jar EXCEPT !["/server/admin"] = NoId]
  /\ RedirectTo(t, Plain(Server(<<>>)))
  /\ UNCHANGED <<complete, asked, age>>

\* The session's row is deleted, or the error is ignored; the cookie that is
\* cleared has another Path than the one the login has set.
Logout(t, h) ==
  /\ h = "logout"
  /\ LET i == CookieFor(req[t].to)
     IN  IF i = NoId THEN UNCHANGED <<left, ended>>
         ELSE \/ left' = [left EXCEPT ![i] = 0] /\ ended' = ended \cup {i}
              \/ UNCHANGED <<left, ended>>
  /\ jar' = [jar EXCEPT !["/server/admin"] = NoId]
  /\ RedirectTo(t, Plain(Server(<<>>)))
  /\ UNCHANGED <<complete, asked, age>>

\* RequireAuth: no cookie, or no row that has not expired, or no answer from
\* the store.
TurnAway(t, h) ==
  /\ h \in Guarded
  /\ RedirectTo(t, Plain(Server(<<>>)))
  /\ UNCHANGED <<jar, left, complete, asked, age, ended>>

\* GetAdminSession has found the session ...
Admit(t, h) ==
  /\ h \in Guarded
  /\ CookieFor(req[t].to) # NoId
  /\ left[CookieFor(req[t].to)] > 0
  /\ tab' = [tab EXCEPT ![t] = "admitted"]
  /\ UNCHANGED <<req, page, jar, left, complete, asked, age, ended>>

\* Mutant: a session in use is prolonged.
TouchAndShow_Prolongs(t) ==
  /\ tab[t] = "admitted"
  /\ \E h \in Handlers(req[t]) \cap Guarded : Show(t, h)
  /\ LET i == CookieFor(req[t].to)
     IN  left' = IF i # NoId /\ left[i] > 0 THEN [left EXCEPT ![i] = Life] ELSE left
  /\ UNCHANGED <<jar, complete, asked, age, ended>>

\* ... UpdateAdminSessionActivity leaves expires_at alone, and the page comes.
TouchAndShow(t) ==
  /\ tab[t] = "admitted"
  /\ \E h \in Handlers(req[t]) \cap Guarded : Show(t, h)
  /\ UNCHANGED <<jar, left, complete, asked, age, ended>>

\* SetupTokenHandler.
SetupToken(t, h) ==
  /\ h = "setupToken"
  /\ \/ complete /\ RedirectTo(t, Plain(Admin(<<>>)))
     \/ ~complete /\ req[t].with # "token" /\ Show(t, "token")
     \/ ~complete /\ req[t].with = "token" /\ RedirectTo(t, Plain(Admin(<<"setup">>)))
  /\ UNCHANGED <<jar, left, complete, asked, age, ended>>

\* SetupWizardHandler.
SetupWizard(t, h) ==
  /\ h = "wizard"
  /\ IF complete THEN RedirectTo(t, Plain(Admin(<<>>))) ELSE Show(t, "wizard1")
  /\ UNCHANGED <<jar, left, complete, asked, age, ended>>

\* SetupCompleteHandler, as one step: AdminSetup has all of them.  The script
\* goes on to its last page if it is told of a success.
SetupComplete(t, h) ==
  /\ h = "setupComplete"
  /\ complete' \in {complete, TRUE}
  /\ Show(t, IF page[t] # "wizard4" THEN "done"
             ELSE IF complete' # complete THEN "wizard5" ELSE "wizard4")
  /\ UNCHANGED <<jar, left, asked, age, ended>>

\* The clock.  A session's age is counted from its login.
ClockTick ==
  /\ \E i \in Id : left[i] > 0
  /\ left' = [i \in Id |-> IF left[i] > 0 THEN left[i] - 1 ELSE 0]
  /\ age' = [i \in Id |-> IF left[i] > 0 /\ age[i] < Life THEN age[i] + 1 ELSE age[i]]
  /\ UNCHANGED <<tab, req, page, jar, complete, asked, ended>>

\* The handler of a request that got through the middleware.
Dispatch(t) ==
  /\ tab[t] = "loading"
  /\ ~req[t].to.slash
  /\ ~Traverses(req[t].to)
  /\ \E h \in Handlers(req[t]) :
       \/ Public(t, h) \/ TurnAway(t, h) \/ Admit(t, h)
       \/ LoginPage(t, h) \/ LoginFails(t, h) \/ LoginSucceeds(t, h) \/ Logout(t, h)
       \/ SetupToken(t, h) \/ SetupWizard(t, h) \/ SetupComplete(t, h)

Serve(t) == Normalize(t) \/ NoRoute(t) \/ Dispatch(t) \/ TouchAndShow(t)

SiteNext == (\E t \in Tab : Type(t) \/ Follow(t) \/ TurnPage(t) \/ Serve(t)) \/ ClockTick

\* The server answers; nothing is assumed of the user or the clock.
SiteSpec == SiteInit /\ [][SiteNext]_siteVars /\ \A t \in Tab : WF_siteVars(Serve(t))

-----------------------------------------------------------------------------
(* Properties. *)

\* RequireAuth lets nobody in whose session has been deleted by a logout, and
\* nobody whose login is as long ago as a session lasts: although the logout
\* does not reach the cookie, and however often the session has been used.
NobodyOutstays ==
  [][\A t \in Tab :
       tab[t] = "loading" /\ tab'[t] = "admitted" =>
         /\ CookieFor(req[t].to) \notin ended
         /\ age[CookieFor(req[t].to)] < Life]_siteVars

\* The redirects of the middleware, of RequireAuth and of the handlers do not
\* chase each other: every address that is loaded ends in a page.
RedirectsEnd == \A t \in Tab : tab[t] # "resting" ~> tab[t] = "resting"

\* AI.md:31074: who enters the setup token is led to the wizard.
TokenLeadsToWizard ==
  \A t \in Tab :
    tab[t] = "resting" /\ asked[t] /\ ~complete => page[t] \in WizardPages
=============================================================================
