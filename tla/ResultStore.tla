---------------------------- MODULE ResultStore ----------------------------
(***************************************************************************)
(* The SQLite store: its tables as sets of rows, and the statements that   *)
(* the public handlers issue.  A statement is atomic: it does all it says, *)
(* within the PRIMARY KEY and UNIQUE constraints, or nothing.              *)
(*                                                                         *)
(* The foreign keys of the schema are left out, because SQLite enforces    *)
(* none unless a connection asks for it, which this one does not.          *)
(*                                                                         *)
(* There is one connection.  A SELECT that returns many rows holds it from *)
(* the query to rows.Close; any other statement takes it and gives it back *)
(* in one step.                                                            *)
(***************************************************************************)
EXTENDS Naturals

CONSTANTS
  Id,       \* random ids: of users, tests, tokens and sessions, and codes
  Name,     \* usernames, email addresses and names of devices
  Request,  \* the requests that may be inside the server together
  Nobody    \* the empty string: no user, no code, no cookie

ASSUME NobodyAssumption == Nobody \notin Id \cup Name \cup Request

VARIABLES
  users, devices, tests, tokens, sessions,  \* the tables
  conn,     \* the request that holds the connection, or Nobody
  drawn     \* the random ids drawn so far

tables == <<users, devices, tests, tokens, sessions>>

\* The rows, as far as anything depends on them.  The id of a device is made
\* of its name.
User    == [id : Id, username : Name, email : Name]
Device  == [name : Name, user : Id \cup {Nobody}]
Test    == [id : Id, code : Id \cup {Nobody}, views : Nat]
Token   == [id : Id, user : Id \cup {Nobody}]
Session == [id : Id, user : Id]

StoreTypeOK ==
  /\ users \subseteq User
  /\ devices \subseteq Device
  /\ tests \subseteq Test
  /\ tokens \subseteq Token
  /\ sessions \subseteq Session
  /\ conn \in Request \cup {Nobody}
  /\ drawn \subseteq Id

StoreInit ==
  /\ users = {} /\ devices = {} /\ tests = {} /\ tokens = {} /\ sessions = {}
  /\ conn = Nobody
  /\ drawn = {}

\* One statement that takes the connection and gives it back.
Statement == conn = Nobody /\ UNCHANGED conn

-----------------------------------------------------------------------------
(* Users. *)

\* Mutant: usernames are not UNIQUE.
CreateUser_NameTwice(u) ==
  /\ \A v \in users : v.id # u.id /\ v.email # u.email
  /\ users' = users \cup {u}
  /\ UNCHANGED <<devices, tests, tokens, sessions>>

CreateUser(u) ==
  /\ \A v \in users : v.id # u.id /\ v.username # u.username /\ v.email # u.email
  /\ users' = users \cup {u}
  /\ UNCHANGED <<devices, tests, tokens, sessions>>

UserByUsername(n) == {u \in users : u.username = n}

(* Devices. *)

CreateDevice(d) ==
  /\ \A e \in devices : e.name # d.name
  /\ devices' = devices \cup {d}
  /\ UNCHANGED <<users, tests, tokens, sessions>>

DeleteDevice(n) ==
  /\ devices' = {d \in devices : d.name # n}
  /\ UNCHANGED <<users, tests, tokens, sessions>>

(* Speed tests. *)

CreateSpeedTest(t) ==
  /\ \A u \in tests : u.id # t.id /\ u.code # t.code
  /\ tests' = tests \cup {t}
  /\ UNCHANGED <<users, devices, tokens, sessions>>

TestByShareCode(c) == {t \in tests : t.code = c}

IncrementShareViews(c) ==
  /\ tests' = {IF t.code = c THEN [t EXCEPT !.views = @ + 1] ELSE t : t \in tests}
  /\ UNCHANGED <<users, devices, tokens, sessions>>

(* API tokens. *)

CreateAPIToken(t) ==
  /\ \A u \in tokens : u.id # t.id
  /\ tokens' = tokens \cup {t}
  /\ UNCHANGED <<users, devices, tests, sessions>>

DeleteAPIToken(i) ==
  /\ tokens' = {t \in tokens : t.id # i}
  /\ UNCHANGED <<users, devices, tests, sessions>>

(* Sessions. *)

CreateSession(s) ==
  /\ \A t \in sessions : t.id # s.id
  /\ sessions' = sessions \cup {s}
  /\ UNCHANGED <<users, devices, tests, tokens>>

DeleteSession(i) ==
  /\ sessions' = {s \in sessions : s.id # i}
  /\ UNCHANGED <<users, devices, tests, tokens>>
=============================================================================
