----------------------------- MODULE RateLimiter -----------------------------
(***************************************************************************)
(* Server.rateLimitMiddleware: admission of speed tests per client key.    *)
(*                                                                         *)
(* Requests arrive on connections, one at a time on each (HTTP/1.1).  The  *)
(* middleware lets a request through, or, on two literal paths, counts it  *)
(* under the text of r.RemoteAddr.  That text is the address of the        *)
(* connection, port included, so no two open connections share it; behind  *)
(* a proxy that sets X-Real-IP or X-Forwarded-For the RealIP middleware    *)
(* has replaced it by the client's address alone.                          *)
(*                                                                         *)
(* The route of the tests themselves, /api/v1/speed-tests/ws, is neither   *)
(* of the two paths.                                                       *)
(***************************************************************************)
EXTENDS Integers, FiniteSets

CONSTANTS
  Conn,           \* TCP connections; a connection is also its own "ip:port"
  Ip,             \* client addresses
  PeerIp,         \* the client each connection comes from
  MaxConcurrent,  \* Config.Test.MaxConcurrent
  MinInterval,    \* Config.Test.MinInterval, in ticks of the clock
  MaxTime         \* bound on the clock, for TLC

ASSUME ConnAssumption == IsFiniteSet(Conn)
ASSUME PeerAssumption == PeerIp \in [Conn -> Ip]
\* What Config.Validate accepts.
ASSUME LimitAssumption == MaxConcurrent \in Nat \ {0} /\ MinInterval \in Nat
ASSUME TimeAssumption == MaxTime \in Nat

Key     == Conn \union Ip
Limited == "/api/v1/speedtest/ws"     \* and /start, treated alike
TestWS  == "/api/v1/speed-tests/ws"   \* where TestStatus is mounted

VARIABLES
  now,      \* the monotonic clock
  at,       \* what each connection is doing
  path,     \* the path of its request
  key,      \* the r.RemoteAddr of its request
  known,    \* the keys that have an entry in ipTestCount; none is removed
  active,   \* activeTests of each entry
  last,     \* lastTest of each entry
  began     \* history: when the request being served was let through

vars == <<now, at, path, key, known, active, last, began>>

\* The zero time.Time of a new entry is longer ago than any interval.
LongAgo == -MinInterval

\* The requests that hold a slot of key k.
Holders(k) == {c \in Conn : at[c] = "serving" /\ path[c] = Limited /\ key[c] = k}

TypeOK ==
  /\ now \in 0..MaxTime
  /\ at \in [Conn -> {"idle", "received", "serving"}]
  /\ path \in [Conn -> {Limited, TestWS}]
  /\ key \in [Conn -> Key]
  /\ known \in SUBSET Key
  /\ active \in [Key -> 0..MaxConcurrent]
  /\ last \in [Key -> LongAgo..MaxTime]
  /\ began \in [Conn -> 0..MaxTime]

Init ==
  /\ now = 0
  /\ at = [c \in Conn |-> "idle"]
  /\ path = [c \in Conn |-> TestWS]
  /\ key = [c \in Conn |-> c]
  /\ known = {}
  /\ active = [k \in Key |-> 0]
  /\ last = [k \in Key |-> LongAgo]
  /\ began = [c \in Conn |-> 0]

-----------------------------------------------------------------------------

\* The request on c is answered and forgotten.
Answer(c) ==
  /\ at' = [at EXCEPT ![c] = "idle"]
  /\ path' = [path EXCEPT ![c] = TestWS]
  /\ key' = [key EXCEPT ![c] = c]
  /\ began' = [began EXCEPT ![c] = 0]

\* A request reaches the middleware, directly or through a proxy that names
\* the client.
Request(c) ==
  /\ at[c] = "idle"
  /\ at' = [at EXCEPT ![c] = "received"]
  /\ path' \in {[path EXCEPT ![c] = p] : p \in {Limited, TestWS}}
  /\ key' \in {[key EXCEPT ![c] = k] : k \in {c, PeerIp[c]}}
  /\ UNCHANGED <<now, known, active, last, began>>

\* Any other path goes straight to the next handler.
Pass(c) ==
  /\ at[c] = "received"
  /\ path[c] # Limited
  /\ at' = [at EXCEPT ![c] = "serving"]
  /\ began' = [began EXCEPT ![c] = now]
  /\ UNCHANGED <<now, path, key, known, active, last>>

TooMany(k) == active[k] >= MaxConcurrent
TooSoon(k) == now - last[k] < MinInterval

\* Mutant: the limit is compared with > instead of >=.
Admit_OffByOne(c) ==
  /\ at[c] = "received"
  /\ path[c] = Limited
  /\ active[key[c]] <= MaxConcurrent
  /\ ~TooSoon(key[c])
  /\ known' = known \union {key[c]}
  /\ active' = [active EXCEPT ![key[c]] = @ + 1]
  /\ last' = [last EXCEPT ![key[c]] = now]
  /\ at' = [at EXCEPT ![c] = "serving"]
  /\ began' = [began EXCEPT ![c] = now]
  /\ UNCHANGED <<now, path, key>>

\* Mutant: lastTest is not set when a test is let through.
Admit_KeepsLast(c) ==
  /\ at[c] = "received"
  /\ path[c] = Limited
  /\ ~TooMany(key[c])
  /\ ~TooSoon(key[c])
  /\ known' = known \union {key[c]}
  /\ active' = [active EXCEPT ![key[c]] = @ + 1]
  /\ at' = [at EXCEPT ![c] = "serving"]
  /\ began' = [began EXCEPT ![c] = now]
  /\ UNCHANGED <<now, path, key, last>>

\* The critical section of ipMutex that takes a slot.
Admit(c) ==
  /\ at[c] = "received"
  /\ path[c] = Limited
  /\ ~TooMany(key[c])
  /\ ~TooSoon(key[c])
  /\ known' = known \union {key[c]}
  /\ active' = [active EXCEPT ![key[c]] = @ + 1]
  /\ last' = [last EXCEPT ![key[c]] = now]
  /\ at' = [at EXCEPT ![c] = "serving"]
  /\ began' = [began EXCEPT ![c] = now]
  /\ UNCHANGED <<now, path, key>>

\* The critical section that answers 429: too many tests, or too soon.
Refuse(c) ==
  /\ at[c] = "received"
  /\ path[c] = Limited
  /\ TooMany(key[c]) \/ TooSoon(key[c])
  /\ known' = known \union {key[c]}
  /\ Answer(c)
  /\ UNCHANGED <<now, active, last>>

\* Mutant: the deferred function finds no entry, and gives nothing back.
Return_KeepsSlot(c) ==
  /\ at[c] = "serving"
  /\ Answer(c)
  /\ UNCHANGED <<now, known, active, last>>

\* The next handler returns or panics (the Recoverer is further out): the
\* deferred critical section gives the slot back.
Return(c) ==
  /\ at[c] = "serving"
  /\ Answer(c)
  /\ active' = IF path[c] = Limited /\ key[c] \in known
                 THEN [active EXCEPT ![key[c]] = @ - 1]
                 ELSE active
  /\ UNCHANGED <<now, known, last>>

Tick ==
  /\ now < MaxTime
  /\ now' = now + 1
  /\ UNCHANGED <<at, path, key, known, active, last, began>>

Next ==
  \/ \E c \in Conn : Request(c) \/ Pass(c) \/ Admit(c) \/ Refuse(c) \/ Return(c)
  \/ Tick

Spec == Init /\ [][Next]_vars

\* What is behind the limited paths answers at once (no route is mounted
\* there), so a request that holds a slot returns.
FairSpec ==
  /\ Spec
  /\ \A c \in Conn : WF_vars(at[c] = "serving" /\ path[c] = Limited /\ Return(c))

-----------------------------------------------------------------------------
(* Properties. *)

\* activeTests is the number of requests inside: no refusal, panic or early
\* return of the middleware gains or loses a slot.
SlotsAccounted == \A k \in Key : active[k] = Cardinality(Holders(k))

\* At most MaxConcurrent requests of one key are inside, however their
\* critical sections interleave.
NoOversubscription == \A k \in Key : Cardinality(Holders(k)) <= MaxConcurrent

\* Two requests of one key that are inside together were let through at
\* least MinInterval apart.
StartsSpaced ==
  \A k \in Key : \A c, d \in Holders(k) :
    c # d => began[c] - began[d] >= MinInterval \/ began[d] - began[c] >= MinInterval

\* A key at its limit gets a slot back.
FullIsTemporary == \A k \in Key : TooMany(k) ~> ~TooMany(k)

\* "Max concurrent tests per IP" (config.go:123): the tests being run for one
\* client address are at most MaxConcurrent.
TestsPerIp ==
  \A ip \in Ip :
    Cardinality({c \in Conn : /\ at[c] = "serving"
                              /\ path[c] = TestWS
                              /\ PeerIp[c] = ip}) <= MaxConcurrent
=============================================================================
