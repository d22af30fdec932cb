----------------------------- MODULE PublicApi -----------------------------
(***************************************************************************)
(* The public handlers on top of the store: accounts, devices and tokens,  *)
(* login and logout, results, history and shared results.  Several         *)
(* requests are inside the server at once, of which those of one browser   *)
(* share a cookie jar; each issues one or two statements, any of which can *)
(* fail (a constraint, the request's deadline, a closed store).            *)
(*                                                                         *)
(* The routes under /users have no parameter "id", so every handler that   *)
(* asks for it gets the empty string: Nobody.                              *)
(***************************************************************************)
EXTENDS ResultStore

CONSTANT MaxViews  \* no request for a result counted that often: for TLC

ASSUME MaxViewsAssumption == MaxViews \in Nat

VARIABLES
  at,       \* where each request is
  req,      \* what it asks for
  row,      \* the row it has read or written
  cookie,   \* the browser's "session" cookie, or Nobody
  counted,  \* history: UPDATEs of share_views that succeeded, by code
  named     \* history: the username each session was opened with

vars == <<tables, conn, drawn, at, req, row, cookie, counted, named>>

Query ==
       [op : {"register"}, username : Name, email : Name]
  \cup [op : {"login"}, username : Name]
  \cup [op : {"forgot"}, email : Name]
  \cup [op : {"addDevice", "dropDevice"}, name : Name]
  \cup [op : {"dropToken", "result", "share"}, id : Id]
  \cup [op : {"logout"}, id : Id \cup {Nobody}]
  \cup [op : {"test"}, shared : BOOLEAN]
  \cup [op : {"addToken", "profile", "devices", "tokens", "history"}]

NoQuery == [op |-> "none"]

TypeOK ==
  /\ StoreTypeOK
  /\ at \in [Request -> {"idle", "asked", "found", "rows", "done"}]
  /\ req \in [Request -> Query \cup {NoQuery}]
  /\ row \in [Request -> User \cup Test \cup Session \cup {Nobody}]
  /\ cookie \in Id \cup {Nobody}
  /\ counted \in [Id -> Nat]
  /\ named \in [Id -> Name \cup {Nobody}]

Init ==
  /\ StoreInit
  /\ at = [r \in Request |-> "idle"]
  /\ req = [r \in Request |-> NoQuery]
  /\ row = [r \in Request |-> Nobody]
  /\ cookie = Nobody
  /\ counted = [i \in Id |-> 0]
  /\ named = [i \in Id |-> Nobody]

\* r, which asks for op, is at p, and gets to q.
Step(r, op, p, q) ==
  /\ req[r].op = op
  /\ at[r] = p
  /\ at' = [at EXCEPT ![r] = q]

Keeps(r, x) == row' = [row EXCEPT ![r] = x]

\* A random id that nobody has seen yet.
Draw(i) == i \in Id \ drawn /\ drawn' = drawn \cup {i}

-----------------------------------------------------------------------------

\* A request comes in.  A browser sends the cookie as it is now.
Ask(r) ==
  /\ at[r] = "idle"
  /\ \E q \in Query :
       /\ q.op = "logout" => q.id = cookie
       /\ q.op = "share" => counted[q.id] < MaxViews
       /\ req' = [req EXCEPT ![r] = q]
  /\ at' = [at EXCEPT ![r] = "asked"]
  /\ UNCHANGED <<tables, conn, drawn, row, cookie, counted, named>>

\* The body is not what the handler asks for, or a Validate function refuses.
Reject(r) ==
  /\ at[r] = "asked"
  /\ req[r].op \in {"register", "login", "forgot", "addDevice", "addToken"}
  /\ at' = [at EXCEPT ![r] = "done"]
  /\ UNCHANGED <<tables, conn, drawn, req, row, cookie, counted, named>>

\* A statement fails.  That ends the request, with an error or (logout,
\* forgot, share views, the INSERT of a test) without one.
Fails(r) ==
  /\ at[r] \in {"asked", "found"}
  /\ at' = [at EXCEPT ![r] = "done"]
  /\ Keeps(r, Nobody)
  /\ UNCHANGED <<tables, conn, drawn, req, cookie, counted, named>>

Register(r) ==
  /\ Step(r, "register", "asked", "done")
  /\ Statement
  /\ \E i \in Id :
       /\ Draw(i)
       /\ CreateUser([id |-> i, username |-> req[r].username, email |-> req[r].email])
  /\ UNCHANGED <<req, row, cookie, counted, named>>

AddDevice(r) ==
  /\ Step(r, "addDevice", "asked", "done")
  /\ Statement
  /\ CreateDevice([name |-> req[r].name, user |-> Nobody])
  /\ UNCHANGED <<drawn, req, row, cookie, counted, named>>

DropDevice(r) ==
  /\ Step(r, "dropDevice", "asked", "done")
  /\ Statement
  /\ DeleteDevice(req[r].name)
  /\ UNCHANGED <<drawn, req, row, cookie, counted, named>>

AddToken(r) ==
  /\ Step(r, "addToken", "asked", "done")
  /\ Statement
  /\ \E i \in Id : Draw(i) /\ CreateAPIToken([id |-> i, user |-> Nobody])
  /\ UNCHANGED <<req, row, cookie, counted, named>>

RevokeToken(r) ==
  /\ Step(r, "dropToken", "asked", "done")
  /\ Statement
  /\ DeleteAPIToken(req[r].id)
  /\ UNCHANGED <<drawn, req, row, cookie, counted, named>>

\* The end of a speed test: GenerateShareCode, unless share=false.
StoreTest(r) ==
  /\ Step(r, "test", "asked", "done")
  /\ Statement
  /\ \E i \in Id :
       /\ Draw(i)
       /\ CreateSpeedTest([id |-> i, code |-> IF req[r].shared THEN i ELSE Nobody,
                           views |-> 0])
  /\ UNCHANGED <<req, row, cookie, counted, named>>

\* GetProfile, GetResult and PasswordResetRequest: one SELECT and an answer.
Read(r) ==
  /\ at[r] = "asked"
  /\ req[r].op \in {"profile", "forgot", "result"}
  /\ at' = [at EXCEPT ![r] = "done"]
  /\ Statement
  /\ UNCHANGED <<tables, drawn, req, row, cookie, counted, named>>

\* ListDevices, ListTokens and GetHistory: the rows are read one by one.
OpenRows(r) ==
  /\ at[r] = "asked"
  /\ req[r].op \in {"devices", "tokens", "history"}
  /\ conn = Nobody
  /\ conn' = r
  /\ at' = [at EXCEPT ![r] = "rows"]
  /\ UNCHANGED <<tables, drawn, req, row, cookie, counted, named>>

\* Mutant: no deferred rows.Close, so a row that does not scan keeps it open.
CloseRows_NotOnError(r) ==
  /\ at[r] = "rows"
  /\ conn' \in {Nobody, conn}
  /\ at' = [at EXCEPT ![r] = "done"]
  /\ UNCHANGED <<tables, drawn, req, row, cookie, counted, named>>

\* rows.Close is deferred: it is called after the last row or an error.
CloseRows(r) ==
  /\ at[r] = "rows"
  /\ conn' = Nobody
  /\ at' = [at EXCEPT ![r] = "done"]
  /\ UNCHANGED <<tables, drawn, req, row, cookie, counted, named>>

\* AuthHandler.Login: the account of that name, if there is one; then the
\* password, which is right or wrong; then the session.
FindUser(r) ==
  /\ Statement
  /\ \/ /\ Step(r, "login", "asked", "found")
        /\ \E u \in UserByUsername(req[r].username) : Keeps(r, u)
     \/ /\ Step(r, "login", "asked", "done")
        /\ UserByUsername(req[r].username) = {}
        /\ UNCHANGED row
  /\ UNCHANGED <<tables, drawn, req, cookie, counted, named>>

WrongPassword(r) ==
  /\ Step(r, "login", "found", "done")
  /\ Keeps(r, Nobody)
  /\ UNCHANGED <<tables, conn, drawn, req, cookie, counted, named>>

OpenSession(r) ==
  /\ Step(r, "login", "found", "done")
  /\ Statement
  /\ \E i \in Id :
       LET s == [id |-> i, user |-> row[r].id]
       IN  /\ Draw(i)
           /\ CreateSession(s)
           /\ Keeps(r, s)
           /\ named' = [named EXCEPT ![i] = req[r].username]
  /\ UNCHANGED <<req, cookie, counted>>

\* AuthHandler.Logout deletes the session of the cookie it was sent.
EndSession(r) ==
  /\ Step(r, "logout", "asked", "done")
  /\ Statement
  /\ DeleteSession(req[r].id)
  /\ UNCHANGED <<drawn, req, row, cookie, counted, named>>

\* GetShare, GetSharePNG and GetShareSVG: the row is read, ...
FindShare(r) ==
  /\ Statement
  /\ \/ /\ Step(r, "share", "asked", "found")
        /\ \E t \in TestByShareCode(req[r].id) : Keeps(r, t)
     \/ /\ Step(r, "share", "asked", "done")
        /\ TestByShareCode(req[r].id) = {}
        /\ UNCHANGED row
  /\ UNCHANGED <<tables, drawn, req, cookie, counted, named>>

\* Mutant: the count that was read, plus one, is written back.
CountView_Rewrites(r) ==
  /\ Step(r, "share", "found", "done")
  /\ Statement
  /\ tests' = {t \in tests : t.id # row[r].id} \cup {[row[r] EXCEPT !.views = @ + 1]}
  /\ counted' = [counted EXCEPT ![req[r].id] = @ + 1]
  /\ UNCHANGED <<users, devices, tokens, sessions, drawn, req, row, cookie, named>>

\* ... and its views are counted, before the page or the image is made.
CountView(r) ==
  /\ Step(r, "share", "found", "done")
  /\ Statement
  /\ IncrementShareViews(req[r].id)
  /\ counted' = [counted EXCEPT ![req[r].id] = @ + 1]
  /\ UNCHANGED <<drawn, req, row, cookie, named>>

\* Mutant: the cookie of a login names the user, not the session.
Answer_NamesUser(r) ==
  /\ at[r] = "done"
  /\ at' = [at EXCEPT ![r] = "idle"]
  /\ req' = [req EXCEPT ![r] = NoQuery]
  /\ row' = [row EXCEPT ![r] = Nobody]
  /\ cookie' = CASE req[r].op = "logout" -> Nobody
                 [] req[r].op = "login" /\ row[r] # Nobody -> req[r].username
                 [] OTHER -> cookie
  /\ UNCHANGED <<tables, conn, drawn, counted, named>>

\* Mutant: the logout clears a cookie of another path.
Answer_OtherPath(r) ==
  /\ at[r] = "done"
  /\ at' = [at EXCEPT ![r] = "idle"]
  /\ req' = [req EXCEPT ![r] = NoQuery]
  /\ row' = [row EXCEPT ![r] = Nobody]
  /\ cookie' = IF req[r].op = "login" /\ row[r] # Nobody THEN row[r].id ELSE cookie
  /\ UNCHANGED <<tables, conn, drawn, counted, named>>

\* The answer reaches the client.  That of a login sets the cookie to the new
\* session, that of a logout clears it, and they may overtake each other.
Answer(r) ==
  /\ at[r] = "done"
  /\ at' = [at EXCEPT ![r] = "idle"]
  /\ req' = [req EXCEPT ![r] = NoQuery]
  /\ row' = [row EXCEPT ![r] = Nobody]
  /\ cookie' = CASE req[r].op = "logout" -> Nobody
                 [] req[r].op = "login" /\ row[r] # Nobody -> row[r].id
                 [] OTHER -> cookie
  /\ UNCHANGED <<tables, conn, drawn, counted, named>>

Handle(r) ==
  \/ Reject(r) \/ Fails(r) \/ Register(r)
  \/ AddDevice(r) \/ DropDevice(r) \/ AddToken(r) \/ RevokeToken(r)
  \/ StoreTest(r) \/ Read(r) \/ OpenRows(r) \/ CloseRows(r)
  \/ FindUser(r) \/ WrongPassword(r) \/ OpenSession(r) \/ EndSession(r)
  \/ FindShare(r) \/ CountView(r) \/ Answer(r)

Next == \E r \in Request : Ask(r) \/ Handle(r)

Spec == Init /\ [][Next]_vars

-----------------------------------------------------------------------------
(* Properties. *)

\* Every view is counted: visitors who read the row of a shared result at the
\* same time do not overwrite each other's count.
ViewsCounted == \A t \in tests : t.code \in Id => t.views = counted[t.code]

\* A session belongs to the one account that has the username it was opened
\* with, whatever is registered between the two statements of the login and
\* afterwards.
SessionOfNamedAccount ==
  \A s \in sessions : {u.id : u \in UserByUsername(named[s.id])} = {s.user}

\* The cookie a browser holds is that of a session in the store, or a logout
\* that has taken the session away is about to clear it: however the answers
\* of its logins and logouts overtake each other, none brings back a session
\* that is gone.
CookieIsLive ==
  \/ cookie = Nobody
  \/ \E s \in sessions : s.id = cookie
  \/ \E r \in Request : at[r] = "done" /\ req[r].op = "logout" /\ req[r].id = cookie

\* The only connection, which every handler of the server needs, is held by
\* nobody but a request that is reading rows, and is given back with its end,
\* on an error too.
ConnectionIsFreed == \A r \in Request : conn = r <=> at[r] = "rows"
=============================================================================
