-------------------------- MODULE PublicApiProofs --------------------------
(***************************************************************************)
(* What holds of the public handlers for any requests, names and ids.      *)
(*                                                                         *)
(* The inductive invariant adds to the properties what a request knows     *)
(* between two statements: the account a login has found is still there    *)
(* (RequestsInv), the session it has opened has never been in the cookie   *)
(* (LoginsInv), and an id that has not been drawn is in no row (FreshInv). *)
(***************************************************************************)
EXTENDS PublicApi, TLAPS

\* Rows know drawn ids only, and nothing was counted under another.
FreshInv ==
  /\ \A t \in tests : t.code \in Id => t.code \in drawn
  /\ \A s \in sessions : s.id \in drawn
  /\ \A i \in Id \ drawn : counted[i] = 0
  /\ cookie \in drawn \cup {Nobody}

\* The account of a session, and no two accounts of one name.
AccountsInv ==
  /\ \A s \in sessions :
       \E u \in users : u.id = s.user /\ u.username = named[s.id]
  /\ \A u, v \in users : u.username = v.username => u = v

\* What a request has read before its second statement.
RequestsInv ==
  \A r \in Request :
    /\ at[r] \in {"idle", "asked"} => row[r] = Nobody
    /\ at[r] = "idle" <=> req[r] = NoQuery
    /\ at[r] = "found" => req[r].op \in {"login", "share"}
    /\ at[r] = "rows" => req[r].op \in {"devices", "tokens", "history"}
    /\ at[r] = "found" /\ req[r].op = "login"
         => row[r] \in users /\ row[r].username = req[r].username
    /\ at[r] = "found" /\ req[r].op = "share" => req[r].id \in drawn
    /\ req[r].op = "logout" => req[r].id \in drawn \cup {Nobody}

\* A session on its way to the browser is in the store, and neither in the
\* cookie nor in another request.
LoginsInv ==
  \A r \in Request :
    at[r] = "done" /\ req[r].op = "login" /\ row[r] # Nobody =>
      /\ row[r] \in sessions
      /\ row[r].id # cookie
      /\ \A q \in Request : req[q].op = "logout" => req[q].id # row[r].id
      /\ \A q \in Request \ {r} :
           at[q] = "done" /\ req[q].op = "login" /\ row[q] # Nobody
             => row[q].id # row[r].id

ApiInv ==
  /\ TypeOK /\ FreshInv /\ AccountsInv /\ RequestsInv /\ LoginsInv
  /\ ViewsCounted /\ CookieIsLive /\ ConnectionIsFreed

\* What the fields of a query are.
LEMMA QueryFields ==
  ASSUME NEW q \in Query \cup {NoQuery}
  PROVE  /\ q.op \in {"register", "login"} => q.username \in Name
         /\ q.op \in {"register"} => q.email \in Name
         /\ q.op \in {"addDevice", "dropDevice"} => q.name \in Name
         /\ q.op \in {"dropToken", "share", "result"} => q.id \in Id
         /\ q.op = "logout" => q.id \in Id \cup {Nobody}
         /\ q.op = "test" => q.shared \in BOOLEAN
         /\ q \in Query <=> q # NoQuery
         /\ q = NoQuery <=> q.op = "none"
  BY DEF Query, NoQuery

\* Before the first request.
LEMMA ApiStart == Init => ApiInv
  BY NobodyAssumption
  DEF Init, StoreInit, ApiInv, TypeOK, StoreTypeOK, FreshInv, AccountsInv,
      RequestsInv, LoginsInv, ViewsCounted, CookieIsLive, ConnectionIsFreed, NoQuery

\* A new request carries the cookie, which is that of a drawn id.
LEMMA AskStep ==
  ASSUME ApiInv, NEW r \in Request, Ask(r)
  PROVE  ApiInv'
<1> USE DEF ApiInv
<1>0. req[r] \in Query \cup {NoQuery}
  BY DEF TypeOK
<1>1. TypeOK'
  BY <1>0, QueryFields, NobodyAssumption
  DEF TypeOK, User, Device, Test, Token, Session, RequestsInv, StoreTypeOK,
      Ask, tables
<1>2. FreshInv' /\ AccountsInv' /\ ViewsCounted' /\ CookieIsLive' /\ ConnectionIsFreed'
  BY <1>0, QueryFields, NobodyAssumption
  DEF FreshInv, AccountsInv, ViewsCounted, CookieIsLive, ConnectionIsFreed,
      RequestsInv, LoginsInv, Test, TypeOK, StoreTypeOK, Ask, tables
<1>3. RequestsInv' /\ LoginsInv'
  BY <1>0, QueryFields, NobodyAssumption
  DEF RequestsInv, LoginsInv, FreshInv, NoQuery, TypeOK, StoreTypeOK, Ask,
      tables
<1> QED
  BY <1>1, <1>2, <1>3

\* A refused body touches no row.
LEMMA RejectStep ==
  ASSUME ApiInv, NEW r \in Request, Reject(r)
  PROVE  ApiInv'
<1> USE DEF ApiInv
<1>0. req[r] \in Query \cup {NoQuery}
  BY DEF TypeOK
<1>1. TypeOK'
  BY <1>0, QueryFields, NobodyAssumption
  DEF TypeOK, User, Device, Test, Token, Session, RequestsInv, StoreTypeOK,
      Reject, tables
<1>2. FreshInv' /\ AccountsInv' /\ ViewsCounted' /\ CookieIsLive' /\ ConnectionIsFreed'
  BY <1>0, QueryFields, NobodyAssumption
  DEF FreshInv, AccountsInv, ViewsCounted, CookieIsLive, ConnectionIsFreed,
      RequestsInv, LoginsInv, Test, TypeOK, StoreTypeOK, Reject, tables
<1>3. RequestsInv' /\ LoginsInv'
  BY <1>0, QueryFields, NobodyAssumption
  DEF RequestsInv, LoginsInv, FreshInv, NoQuery, TypeOK, StoreTypeOK, Reject,
      tables
<1> QED
  BY <1>1, <1>2, <1>3

\* A failed statement leaves the tables as they are and ends its request.
LEMMA FailsStep ==
  ASSUME ApiInv, NEW r \in Request, Fails(r)
  PROVE  ApiInv'
<1> USE DEF ApiInv
<1>0. req[r] \in Query \cup {NoQuery}
  BY DEF TypeOK
<1>1. TypeOK'
  BY <1>0, QueryFields, NobodyAssumption
  DEF TypeOK, User, Device, Test, Token, Session, RequestsInv, StoreTypeOK,
      Fails, Keeps, tables
<1>2. FreshInv' /\ AccountsInv' /\ ViewsCounted' /\ CookieIsLive' /\ ConnectionIsFreed'
  BY <1>0, QueryFields, NobodyAssumption
  DEF FreshInv, AccountsInv, ViewsCounted, CookieIsLive, ConnectionIsFreed,
      RequestsInv, LoginsInv, Test, TypeOK, StoreTypeOK, Fails, Keeps, tables
<1>3. RequestsInv' /\ LoginsInv'
  BY <1>0, QueryFields, NobodyAssumption
  DEF RequestsInv, LoginsInv, FreshInv, NoQuery, TypeOK, StoreTypeOK, Fails,
      Keeps, tables
<1> QED
  BY <1>1, <1>2, <1>3

\* The new account has a name that no other has, and no session's id.
LEMMA RegisterStep ==
  ASSUME ApiInv, NEW r \in Request, Register(r)
  PROVE  ApiInv'
<1> USE DEF ApiInv
<1>0. req[r] \in Query \cup {NoQuery}
  BY DEF TypeOK
<1>1. TypeOK'
  BY <1>0, QueryFields, NobodyAssumption
  DEF TypeOK, User, Device, Test, Token, Session, RequestsInv, StoreTypeOK,
      Register, Step, Draw, Statement, CreateUser
<1>2. FreshInv' /\ AccountsInv' /\ ViewsCounted' /\ CookieIsLive' /\ ConnectionIsFreed'
  BY <1>0, QueryFields, NobodyAssumption
  DEF FreshInv, AccountsInv, ViewsCounted, CookieIsLive, ConnectionIsFreed,
      RequestsInv, LoginsInv, Test, TypeOK, StoreTypeOK, Register, Step, Draw,
      Statement, CreateUser
<1>3. RequestsInv' /\ LoginsInv'
  BY <1>0, QueryFields, NobodyAssumption
  DEF RequestsInv, LoginsInv, FreshInv, NoQuery, TypeOK, StoreTypeOK,
      Register, Step, Draw, Statement, CreateUser
<1> QED
  BY <1>1, <1>2, <1>3

\* A device is in no other row.
LEMMA AddDeviceStep ==
  ASSUME ApiInv, NEW r \in Request, AddDevice(r)
  PROVE  ApiInv'
<1> USE DEF ApiInv
<1>0. req[r] \in Query \cup {NoQuery}
  BY DEF TypeOK
<1>1. TypeOK'
  BY <1>0, QueryFields, NobodyAssumption
  DEF TypeOK, User, Device, Test, Token, Session, RequestsInv, StoreTypeOK,
      AddDevice, Step, Statement, CreateDevice
<1>2. FreshInv' /\ AccountsInv' /\ ViewsCounted' /\ CookieIsLive' /\ ConnectionIsFreed'
  BY <1>0, QueryFields, NobodyAssumption
  DEF FreshInv, AccountsInv, ViewsCounted, CookieIsLive, ConnectionIsFreed,
      RequestsInv, LoginsInv, Test, TypeOK, StoreTypeOK, AddDevice, Step,
      Statement, CreateDevice
<1>3. RequestsInv' /\ LoginsInv'
  BY <1>0, QueryFields, NobodyAssumption
  DEF RequestsInv, LoginsInv, FreshInv, NoQuery, TypeOK, StoreTypeOK,
      AddDevice, Step, Statement, CreateDevice
<1> QED
  BY <1>1, <1>2, <1>3

\* Nothing refers to a device.
LEMMA DropDeviceStep ==
  ASSUME ApiInv, NEW r \in Request, DropDevice(r)
  PROVE  ApiInv'
<1> USE DEF ApiInv
<1>0. req[r] \in Query \cup {NoQuery}
  BY DEF TypeOK
<1>1. TypeOK'
  BY <1>0, QueryFields, NobodyAssumption
  DEF TypeOK, User, Device, Test, Token, Session, RequestsInv, StoreTypeOK,
      DropDevice, Step, Statement, DeleteDevice
<1>2. FreshInv' /\ AccountsInv' /\ ViewsCounted' /\ CookieIsLive' /\ ConnectionIsFreed'
  BY <1>0, QueryFields, NobodyAssumption
  DEF FreshInv, AccountsInv, ViewsCounted, CookieIsLive, ConnectionIsFreed,
      RequestsInv, LoginsInv, Test, TypeOK, StoreTypeOK, DropDevice, Step,
      Statement, DeleteDevice
<1>3. RequestsInv' /\ LoginsInv'
  BY <1>0, QueryFields, NobodyAssumption
  DEF RequestsInv, LoginsInv, FreshInv, NoQuery, TypeOK, StoreTypeOK,
      DropDevice, Step, Statement, DeleteDevice
<1> QED
  BY <1>1, <1>2, <1>3

\* A token's id is its own.
LEMMA AddTokenStep ==
  ASSUME ApiInv, NEW r \in Request, AddToken(r)
  PROVE  ApiInv'
<1> USE DEF ApiInv
<1>0. req[r] \in Query \cup {NoQuery}
  BY DEF TypeOK
<1>1. TypeOK'
  BY <1>0, QueryFields, NobodyAssumption
  DEF TypeOK, User, Device, Test, Token, Session, RequestsInv, StoreTypeOK,
      AddToken, Step, Draw, Statement, CreateAPIToken
<1>2. FreshInv' /\ AccountsInv' /\ ViewsCounted' /\ CookieIsLive' /\ ConnectionIsFreed'
  BY <1>0, QueryFields, NobodyAssumption
  DEF FreshInv, AccountsInv, ViewsCounted, CookieIsLive, ConnectionIsFreed,
      RequestsInv, LoginsInv, Test, TypeOK, StoreTypeOK, AddToken, Step, Draw,
      Statement, CreateAPIToken
<1>3. RequestsInv' /\ LoginsInv'
  BY <1>0, QueryFields, NobodyAssumption
  DEF RequestsInv, LoginsInv, FreshInv, NoQuery, TypeOK, StoreTypeOK,
      AddToken, Step, Draw, Statement, CreateAPIToken
<1> QED
  BY <1>1, <1>2, <1>3

\* Nothing refers to a token.
LEMMA RevokeTokenStep ==
  ASSUME ApiInv, NEW r \in Request, RevokeToken(r)
  PROVE  ApiInv'
<1> USE DEF ApiInv
<1>0. req[r] \in Query \cup {NoQuery}
  BY DEF TypeOK
<1>1. TypeOK'
  BY <1>0, QueryFields, NobodyAssumption
  DEF TypeOK, User, Device, Test, Token, Session, RequestsInv, StoreTypeOK,
      RevokeToken, Step, Statement, DeleteAPIToken
<1>2. FreshInv' /\ AccountsInv' /\ ViewsCounted' /\ CookieIsLive' /\ ConnectionIsFreed'
  BY <1>0, QueryFields, NobodyAssumption
  DEF FreshInv, AccountsInv, ViewsCounted, CookieIsLive, ConnectionIsFreed,
      RequestsInv, LoginsInv, Test, TypeOK, StoreTypeOK, RevokeToken, Step,
      Statement, DeleteAPIToken
<1>3. RequestsInv' /\ LoginsInv'
  BY <1>0, QueryFields, NobodyAssumption
  DEF RequestsInv, LoginsInv, FreshInv, NoQuery, TypeOK, StoreTypeOK,
      RevokeToken, Step, Statement, DeleteAPIToken
<1> QED
  BY <1>1, <1>2, <1>3

\* The code of a new result is a fresh one, under which nothing was counted.
LEMMA StoreTestStep ==
  ASSUME ApiInv, NEW r \in Request, StoreTest(r)
  PROVE  ApiInv'
<1> USE DEF ApiInv
<1>0. req[r] \in Query \cup {NoQuery}
  BY DEF TypeOK
<1>1. TypeOK'
  BY <1>0, QueryFields, NobodyAssumption
  DEF TypeOK, User, Device, Test, Token, Session, RequestsInv, StoreTypeOK,
      StoreTest, Step, Draw, Statement, CreateSpeedTest
<1>2. FreshInv' /\ AccountsInv' /\ ViewsCounted' /\ CookieIsLive' /\ ConnectionIsFreed'
  BY <1>0, QueryFields, NobodyAssumption
  DEF FreshInv, AccountsInv, ViewsCounted, CookieIsLive, ConnectionIsFreed,
      RequestsInv, LoginsInv, Test, TypeOK, StoreTypeOK, StoreTest, Step,
      Draw, Statement, CreateSpeedTest
<1>3. RequestsInv' /\ LoginsInv'
  BY <1>0, QueryFields, NobodyAssumption
  DEF RequestsInv, LoginsInv, FreshInv, NoQuery, TypeOK, StoreTypeOK,
      StoreTest, Step, Draw, Statement, CreateSpeedTest
<1> QED
  BY <1>1, <1>2, <1>3

\* A SELECT of one row changes no table.
LEMMA ReadStep ==
  ASSUME ApiInv, NEW r \in Request, Read(r)
  PROVE  ApiInv'
<1> USE DEF ApiInv
<1>0. req[r] \in Query \cup {NoQuery}
  BY DEF TypeOK
<1>1. TypeOK'
  BY <1>0, QueryFields, NobodyAssumption
  DEF TypeOK, User, Device, Test, Token, Session, RequestsInv, StoreTypeOK,
      Read, Statement, tables
<1>2. FreshInv' /\ AccountsInv' /\ ViewsCounted' /\ CookieIsLive' /\ ConnectionIsFreed'
  BY <1>0, QueryFields, NobodyAssumption
  DEF FreshInv, AccountsInv, ViewsCounted, CookieIsLive, ConnectionIsFreed,
      RequestsInv, LoginsInv, Test, TypeOK, StoreTypeOK, Read, Statement,
      tables
<1>3. RequestsInv' /\ LoginsInv'
  BY <1>0, QueryFields, NobodyAssumption
  DEF RequestsInv, LoginsInv, FreshInv, NoQuery, TypeOK, StoreTypeOK, Read,
      Statement, tables
<1> QED
  BY <1>1, <1>2, <1>3

\* The connection goes to the request that reads rows, ...
LEMMA OpenRowsStep ==
  ASSUME ApiInv, NEW r \in Request, OpenRows(r)
  PROVE  ApiInv'
<1> USE DEF ApiInv
<1>0. req[r] \in Query \cup {NoQuery}
  BY DEF TypeOK
<1>1. TypeOK'
  BY <1>0, QueryFields, NobodyAssumption
  DEF TypeOK, User, Device, Test, Token, Session, RequestsInv, StoreTypeOK,
      OpenRows, tables
<1>2. FreshInv' /\ AccountsInv' /\ ViewsCounted' /\ CookieIsLive' /\ ConnectionIsFreed'
  BY <1>0, QueryFields, NobodyAssumption
  DEF FreshInv, AccountsInv, ViewsCounted, CookieIsLive, ConnectionIsFreed,
      RequestsInv, LoginsInv, Test, TypeOK, StoreTypeOK, OpenRows, tables
<1>3. RequestsInv' /\ LoginsInv'
  BY <1>0, QueryFields, NobodyAssumption
  DEF RequestsInv, LoginsInv, FreshInv, NoQuery, TypeOK, StoreTypeOK,
      OpenRows, tables
<1> QED
  BY <1>1, <1>2, <1>3

\* ... and comes back from it, whether it has read them all or not.
LEMMA CloseRowsStep ==
  ASSUME ApiInv, NEW r \in Request, CloseRows(r)
  PROVE  ApiInv'
<1> USE DEF ApiInv
<1>0. req[r] \in Query \cup {NoQuery}
  BY DEF TypeOK
<1>1. TypeOK'
  BY <1>0, QueryFields, NobodyAssumption
  DEF TypeOK, User, Device, Test, Token, Session, RequestsInv, StoreTypeOK,
      CloseRows, tables
<1>2. FreshInv' /\ AccountsInv' /\ ViewsCounted' /\ CookieIsLive' /\ ConnectionIsFreed'
  BY <1>0, QueryFields, NobodyAssumption
  DEF FreshInv, AccountsInv, ViewsCounted, CookieIsLive, ConnectionIsFreed,
      RequestsInv, LoginsInv, Test, TypeOK, StoreTypeOK, CloseRows, tables
<1>3. RequestsInv' /\ LoginsInv'
  BY <1>0, QueryFields, NobodyAssumption
  DEF RequestsInv, LoginsInv, FreshInv, NoQuery, TypeOK, StoreTypeOK,
      CloseRows, tables
<1> QED
  BY <1>1, <1>2, <1>3

\* A login finds the account of the name it was given.
LEMMA FindUserStep ==
  ASSUME ApiInv, NEW r \in Request, FindUser(r)
  PROVE  ApiInv'
<1> USE DEF ApiInv
<1>0. req[r] \in Query \cup {NoQuery}
  BY DEF TypeOK
<1>1. TypeOK'
  BY <1>0, QueryFields, NobodyAssumption
  DEF TypeOK, User, Device, Test, Token, Session, RequestsInv, StoreTypeOK,
      FindUser, Step, Keeps, Statement, tables, UserByUsername
<1>2. FreshInv' /\ AccountsInv' /\ ViewsCounted' /\ CookieIsLive' /\ ConnectionIsFreed'
  BY <1>0, QueryFields, NobodyAssumption
  DEF FreshInv, AccountsInv, ViewsCounted, CookieIsLive, ConnectionIsFreed,
      RequestsInv, LoginsInv, Test, TypeOK, StoreTypeOK, FindUser, Step,
      Keeps, Statement, tables, UserByUsername
<1>3. RequestsInv' /\ LoginsInv'
  BY <1>0, QueryFields, NobodyAssumption
  DEF RequestsInv, LoginsInv, FreshInv, NoQuery, TypeOK, StoreTypeOK,
      FindUser, Step, Keeps, Statement, tables, UserByUsername
<1> QED
  BY <1>1, <1>2, <1>3

\* Only the answer is left of a login that fails.
LEMMA WrongPasswordStep ==
  ASSUME ApiInv, NEW r \in Request, WrongPassword(r)
  PROVE  ApiInv'
<1> USE DEF ApiInv
<1>0. req[r] \in Query \cup {NoQuery}
  BY DEF TypeOK
<1>1. TypeOK'
  BY <1>0, QueryFields, NobodyAssumption
  DEF TypeOK, User, Device, Test, Token, Session, RequestsInv, StoreTypeOK,
      WrongPassword, Step, Keeps, tables
<1>2. FreshInv' /\ AccountsInv' /\ ViewsCounted' /\ CookieIsLive' /\ ConnectionIsFreed'
  BY <1>0, QueryFields, NobodyAssumption
  DEF FreshInv, AccountsInv, ViewsCounted, CookieIsLive, ConnectionIsFreed,
      RequestsInv, LoginsInv, Test, TypeOK, StoreTypeOK, WrongPassword, Step,
      Keeps, tables
<1>3. RequestsInv' /\ LoginsInv'
  BY <1>0, QueryFields, NobodyAssumption
  DEF RequestsInv, LoginsInv, FreshInv, NoQuery, TypeOK, StoreTypeOK,
      WrongPassword, Step, Keeps, tables
<1> QED
  BY <1>1, <1>2, <1>3

\* The account found is still there; the session's id is fresh, so it is in no
\* cookie and no other request.
LEMMA OpenSessionStep ==
  ASSUME ApiInv, NEW r \in Request, OpenSession(r)
  PROVE  ApiInv'
<1> USE DEF ApiInv
<1>0. req[r] \in Query \cup {NoQuery}
  BY DEF TypeOK
<1>1. TypeOK'
  BY <1>0, QueryFields, NobodyAssumption
  DEF TypeOK, User, Device, Test, Token, Session, RequestsInv, StoreTypeOK,
      OpenSession, Step, Keeps, Draw, Statement, CreateSession
<1>2. FreshInv' /\ AccountsInv' /\ ViewsCounted' /\ CookieIsLive' /\ ConnectionIsFreed'
  BY <1>0, QueryFields, NobodyAssumption
  DEF FreshInv, AccountsInv, ViewsCounted, CookieIsLive, ConnectionIsFreed,
      RequestsInv, LoginsInv, Test, TypeOK, StoreTypeOK, OpenSession, Step,
      Keeps, Draw, Statement, CreateSession
<1>3. RequestsInv' /\ LoginsInv'
  BY <1>0, QueryFields, NobodyAssumption
  DEF RequestsInv, LoginsInv, FreshInv, NoQuery, TypeOK, StoreTypeOK,
      OpenSession, Step, Keeps, Draw, Statement, CreateSession
<1> QED
  BY <1>1, <1>2, <1>3

\* A logout that takes the session of the cookie is about to clear the cookie.
LEMMA EndSessionStep ==
  ASSUME ApiInv, NEW r \in Request, EndSession(r)
  PROVE  ApiInv'
<1> USE DEF ApiInv
<1>0. req[r] \in Query \cup {NoQuery}
  BY DEF TypeOK
<1>1. TypeOK'
  BY <1>0, QueryFields, NobodyAssumption
  DEF TypeOK, User, Device, Test, Token, Session, RequestsInv, StoreTypeOK,
      EndSession, Step, Statement, DeleteSession
<1>2. FreshInv' /\ AccountsInv' /\ ViewsCounted' /\ CookieIsLive' /\ ConnectionIsFreed'
  BY <1>0, QueryFields, NobodyAssumption
  DEF FreshInv, AccountsInv, ViewsCounted, CookieIsLive, ConnectionIsFreed,
      RequestsInv, LoginsInv, Test, TypeOK, StoreTypeOK, EndSession, Step,
      Statement, DeleteSession
<1>3. RequestsInv' /\ LoginsInv'
  BY <1>0, QueryFields, NobodyAssumption
  DEF RequestsInv, LoginsInv, FreshInv, NoQuery, TypeOK, StoreTypeOK,
      EndSession, Step, Statement, DeleteSession
<1> QED
  BY <1>1, <1>2, <1>3

\* A code that is found is one that was drawn.
LEMMA FindShareStep ==
  ASSUME ApiInv, NEW r \in Request, FindShare(r)
  PROVE  ApiInv'
<1> USE DEF ApiInv
<1>0. req[r] \in Query \cup {NoQuery}
  BY DEF TypeOK
<1>1. TypeOK'
  BY <1>0, QueryFields, NobodyAssumption
  DEF TypeOK, User, Device, Test, Token, Session, RequestsInv, StoreTypeOK,
      FindShare, Step, Keeps, Statement, tables, TestByShareCode
<1>2. FreshInv' /\ AccountsInv' /\ ViewsCounted' /\ CookieIsLive' /\ ConnectionIsFreed'
  BY <1>0, QueryFields, NobodyAssumption
  DEF FreshInv, AccountsInv, ViewsCounted, CookieIsLive, ConnectionIsFreed,
      RequestsInv, LoginsInv, Test, TypeOK, StoreTypeOK, FindShare, Step,
      Keeps, Statement, tables, TestByShareCode
<1>3. RequestsInv' /\ LoginsInv'
  BY <1>0, QueryFields, NobodyAssumption
  DEF RequestsInv, LoginsInv, FreshInv, NoQuery, TypeOK, StoreTypeOK,
      FindShare, Step, Keeps, Statement, tables, TestByShareCode
<1> QED
  BY <1>1, <1>2, <1>3

\* The count of the row and the history go up together.
LEMMA CountViewStep ==
  ASSUME ApiInv, NEW r \in Request, CountView(r)
  PROVE  ApiInv'
<1> USE DEF ApiInv
<1>0. req[r] \in Query \cup {NoQuery}
  BY DEF TypeOK
<1>1. TypeOK'
  BY <1>0, QueryFields, NobodyAssumption
  DEF TypeOK, User, Device, Test, Token, Session, RequestsInv, StoreTypeOK,
      CountView, Step, Statement, IncrementShareViews
<1>2. FreshInv' /\ AccountsInv' /\ ViewsCounted' /\ CookieIsLive' /\ ConnectionIsFreed'
  BY <1>0, QueryFields, NobodyAssumption
  DEF FreshInv, AccountsInv, ViewsCounted, CookieIsLive, ConnectionIsFreed,
      RequestsInv, LoginsInv, Test, TypeOK, StoreTypeOK, CountView, Step,
      Statement, IncrementShareViews
<1>3. RequestsInv' /\ LoginsInv'
  BY <1>0, QueryFields, NobodyAssumption
  DEF RequestsInv, LoginsInv, FreshInv, NoQuery, TypeOK, StoreTypeOK,
      CountView, Step, Statement, IncrementShareViews
<1> QED
  BY <1>1, <1>2, <1>3

\* A cookie is set to a session that is in the store.
LEMMA AnswerStep ==
  ASSUME ApiInv, NEW r \in Request, Answer(r)
  PROVE  ApiInv'
<1> USE DEF ApiInv
<1>0. req[r] \in Query \cup {NoQuery}
  BY DEF TypeOK
<1>1. TypeOK'
  BY <1>0, QueryFields, NobodyAssumption
  DEF TypeOK, User, Device, Test, Token, Session, RequestsInv, StoreTypeOK,
      Answer, tables
<1>2. FreshInv' /\ AccountsInv' /\ ViewsCounted' /\ CookieIsLive' /\ ConnectionIsFreed'
  BY <1>0, QueryFields, NobodyAssumption
  DEF FreshInv, AccountsInv, ViewsCounted, CookieIsLive, ConnectionIsFreed,
      RequestsInv, LoginsInv, Test, TypeOK, StoreTypeOK, Answer, tables
<1>3. RequestsInv' /\ LoginsInv'
  BY <1>0, QueryFields, NobodyAssumption
  DEF RequestsInv, LoginsInv, FreshInv, NoQuery, TypeOK, StoreTypeOK, Answer,
      tables
<1> QED
  BY <1>1, <1>2, <1>3

\* A step that changes nothing keeps everything.
LEMMA ApiStutter == ApiInv /\ UNCHANGED vars => ApiInv'
  BY DEF vars, tables, ApiInv, TypeOK, StoreTypeOK, FreshInv, AccountsInv,
      RequestsInv, LoginsInv, ViewsCounted, CookieIsLive, ConnectionIsFreed, Test

-----------------------------------------------------------------------------

\* The inductive invariant of the public handlers.
THEOREM ApiInvariance == Spec => []ApiInv
<1>1. ApiInv /\ [Next]_vars => ApiInv'
  <2> SUFFICES ASSUME ApiInv, [Next]_vars PROVE ApiInv'
    OBVIOUS
  <2>1. ASSUME NEW r \in Request, Ask(r) \/ Handle(r) PROVE ApiInv'
    BY <2>1, AskStep, RejectStep, FailsStep, RegisterStep, AddDeviceStep,
        DropDeviceStep, AddTokenStep, RevokeTokenStep, StoreTestStep,
        ReadStep, OpenRowsStep, CloseRowsStep, FindUserStep,
        WrongPasswordStep, OpenSessionStep, EndSessionStep, FindShareStep,
        CountViewStep, AnswerStep DEF Handle
  <2>2. CASE UNCHANGED vars
    BY <2>2, ApiStutter
  <2> QED
    BY <2>1, <2>2 DEF Next
<1> QED
  BY ApiStart, <1>1, PTL DEF Spec

\* Types of the tables, the requests and the cookie.
THEOREM ApiTypes == Spec => []TypeOK
<1>1. ApiInv => TypeOK
  BY DEF ApiInv
<1> QED
  BY <1>1, ApiInvariance, PTL

\* share_views is the number of views that were counted, for every result.
THEOREM NoViewIsLost == Spec => []ViewsCounted
<1>1. ApiInv => ViewsCounted
  BY DEF ApiInv
<1> QED
  BY <1>1, ApiInvariance, PTL

\* Every session belongs to the account it was opened with, and to no other.
THEOREM SessionsAreTheirOwners == Spec => []SessionOfNamedAccount
<1>1. ApiInv => SessionOfNamedAccount
  BY DEF ApiInv, AccountsInv, SessionOfNamedAccount, UserByUsername
<1> QED
  BY <1>1, ApiInvariance, PTL

\* No answer brings a session back that a logout has taken away.
THEOREM CookiesAreLive == Spec => []CookieIsLive
<1>1. ApiInv => CookieIsLive
  BY DEF ApiInv
<1> QED
  BY <1>1, ApiInvariance, PTL

\* The connection is held by the request that reads rows, and by nobody else.
THEOREM ConnectionComesBack == Spec => []ConnectionIsFreed
<1>1. ApiInv => ConnectionIsFreed
  BY DEF ApiInv
<1> QED
  BY <1>1, ApiInvariance, PTL
=============================================================================
