-------------------------- MODULE RateLimiterProofs --------------------------
(***************************************************************************)
(* Proofs about RateLimiter, for any finite set of connections, any limit  *)
(* and any interval.                                                       *)
(*                                                                         *)
(* The bound on a key's tests is not inductive: a slot given back must be  *)
(* one that was taken.  LimiterInv counts the holders of every key, and    *)
(* keeps what the spacing of two holders rests on: lastTest is never       *)
(* behind the start of a request that is still inside.                     *)
(***************************************************************************)
EXTENDS RateLimiter, FiniteSetTheorems, TLAPS

\* A request inside has an entry, and lastTest is not behind its start.
EntriesInv ==
  /\ \A k \in Key : last[k] <= now
  /\ \A k \in Key : \A c \in Holders(k) : k \in known /\ began[c] <= last[k]

LimiterInv == TypeOK /\ SlotsAccounted /\ EntriesInv /\ StartsSpaced

\* No key has infinitely many holders.
LEMMA HoldersFinite ==
  ASSUME NEW k PROVE IsFiniteSet(Holders(k)) /\ Cardinality(Holders(k)) \in Nat
<1>1. Holders(k) \subseteq Conn
  BY DEF Holders
<1> QED
  BY <1>1, ConnAssumption, FS_Subset, FS_CardinalityType

\* Numbers and functions of the limiter's state.
LEMMA Numbers ==
  ASSUME TypeOK
  PROVE  /\ now \in Int /\ MinInterval \in Int /\ MaxTime \in Int
         /\ MaxConcurrent \in Nat /\ MaxConcurrent >= 1 /\ now >= 0
         /\ \A k \in Key : active[k] \in Nat /\ last[k] \in Int
         /\ \A c \in Conn : began[c] \in Int /\ key[c] \in Key /\ c \in Key
<1>1. MinInterval \in Nat /\ MaxTime \in Nat /\ MaxConcurrent \in Nat /\ MaxConcurrent # 0
  BY LimitAssumption, TimeAssumption
<1>2. \A k \in Key : active[k] \in 0..MaxConcurrent /\ last[k] \in LongAgo..MaxTime
  BY DEF TypeOK
<1>3. \A c \in Conn : began[c] \in 0..MaxTime /\ key[c] \in Key /\ c \in Key
  BY DEF TypeOK, Key
<1> QED
  BY <1>1, <1>2, <1>3 DEF TypeOK, LongAgo

LEMMA InitLimiter == Init => LimiterInv
<1> SUFFICES ASSUME Init PROVE LimiterInv
  OBVIOUS
<1>1. TypeOK
  <2>1. LongAgo \in LongAgo..MaxTime /\ 0 \in 0..MaxTime /\ 0 \in 0..MaxConcurrent
    BY LimitAssumption, TimeAssumption DEF LongAgo
  <2>2. \A c \in Conn : c \in Key
    BY DEF Key
  <2> QED
    BY <2>1, <2>2 DEF Init, TypeOK
<1>2. \A k : Holders(k) = {}
  BY DEF Init, Holders
<1>3. SlotsAccounted
  BY <1>2, FS_EmptySet DEF Init, SlotsAccounted
<1>4. EntriesInv
  BY <1>2, LimitAssumption DEF Init, EntriesInv, LongAgo
<1>5. StartsSpaced
  BY <1>2 DEF StartsSpaced
<1> QED
  BY <1>1, <1>3, <1>4, <1>5 DEF LimiterInv

-----------------------------------------------------------------------------
(* Steps that take no slot and give none back. *)

\* No slot changes hands, no entry goes backwards.
Neutral ==
  /\ \A k \in Key : Holders(k)' = Holders(k)
  /\ UNCHANGED <<active, last>>
  /\ known \subseteq known'
  /\ now <= now'
  /\ \A k \in Key : \A c \in Holders(k) : began'[c] = began[c]

LEMMA NeutralStep ==
  ASSUME LimiterInv, TypeOK', Neutral PROVE LimiterInv'
<1>1. SlotsAccounted'
  BY DEF LimiterInv, SlotsAccounted, Neutral
<1>2. EntriesInv'
  <2>1. ASSUME NEW k \in Key PROVE last'[k] <= now'
    <3>1. last[k] <= now /\ last[k] \in Int /\ now \in Int /\ now' \in Int
      BY Numbers DEF LimiterInv, EntriesInv, TypeOK
    <3> QED
      BY <3>1 DEF Neutral
  <2>2. ASSUME NEW k \in Key, NEW c \in Holders(k)'
        PROVE  k \in known' /\ began'[c] <= last'[k]
    BY <2>2 DEF LimiterInv, EntriesInv, Neutral
  <2> QED
    BY <2>1, <2>2 DEF EntriesInv
<1>3. StartsSpaced'
  BY DEF LimiterInv, StartsSpaced, Neutral
<1> QED
  BY <1>1, <1>2, <1>3 DEF LimiterInv

LEMMA RequestStep ==
  ASSUME LimiterInv, NEW c \in Conn, Request(c) PROVE LimiterInv'
<1> USE DEF LimiterInv
<1>1. c \in Key /\ PeerIp[c] \in Key
  BY PeerAssumption DEF Key
<1>2. TypeOK'
  BY <1>1 DEF Request, TypeOK
<1>3. \A k : Holders(k)' = Holders(k)
  BY DEF Request, Holders, TypeOK
<1> QED
  BY <1>2, <1>3, NeutralStep, Numbers DEF Neutral, Request

LEMMA PassStep ==
  ASSUME LimiterInv, NEW c \in Conn, Pass(c) PROVE LimiterInv'
<1> USE DEF LimiterInv
<1>1. TypeOK'
  BY DEF Pass, TypeOK
<1>2. \A k : Holders(k)' = Holders(k) /\ c \notin Holders(k)
  BY DEF Pass, Holders, TypeOK
<1>3. \A k \in Key : \A d \in Holders(k) : began'[d] = began[d]
  BY <1>2 DEF Pass, TypeOK, Holders
<1> QED
  BY <1>1, <1>2, <1>3, NeutralStep, Numbers DEF Neutral, Pass

LEMMA RefuseStep ==
  ASSUME LimiterInv, NEW c \in Conn, Refuse(c) PROVE LimiterInv'
<1> USE DEF LimiterInv
<1>1. TypeOK'
  <2>1. c \in Key /\ key[c] \in Key /\ 0 \in 0..MaxTime
    BY Numbers, TimeAssumption
  <2> QED
    BY <2>1 DEF Refuse, Answer, TypeOK
<1>2. \A k : Holders(k)' = Holders(k) /\ c \notin Holders(k)
  BY DEF Refuse, Answer, Holders, TypeOK
<1>3. \A k \in Key : \A d \in Holders(k) : began'[d] = began[d]
  BY <1>2 DEF Refuse, Answer, TypeOK, Holders
<1> QED
  BY <1>1, <1>2, <1>3, NeutralStep, Numbers DEF Neutral, Refuse

LEMMA TickStep == ASSUME LimiterInv, Tick PROVE LimiterInv'
<1> USE DEF LimiterInv
<1>1. TypeOK'
  BY TimeAssumption DEF Tick, TypeOK
<1>2. \A k : Holders(k)' = Holders(k)
  BY DEF Tick, Holders
<1>3. now <= now'
  BY Numbers DEF Tick
<1> QED
  BY <1>1, <1>2, <1>3, NeutralStep DEF Neutral, Tick

-----------------------------------------------------------------------------
(* The two critical sections that move a slot. *)

\* Letting a request through: its key was below the limit and its last test
\* long enough ago.
LEMMA AdmitStep ==
  ASSUME LimiterInv, NEW c \in Conn, Admit(c) PROVE LimiterInv'
<1>h. PICK h \in Key : h = key[c]
  BY Numbers DEF LimiterInv
<1>0. h \in Key /\ active[h] \in Nat /\ active[h] < MaxConcurrent
      /\ now - last[h] >= MinInterval
  BY <1>h, Numbers DEF LimiterInv, Admit, TooMany, TooSoon
<1>1. TypeOK'
  <2>1. active' \in [Key -> 0..MaxConcurrent]
    BY <1>h, <1>0, Numbers DEF LimiterInv, Admit, TypeOK
  <2>2. last' \in [Key -> LongAgo..MaxTime]
    <3>1. now \in LongAgo..MaxTime
      BY Numbers, LimitAssumption DEF LimiterInv, TypeOK, LongAgo
    <3> QED
      BY <1>h, <1>0, <3>1 DEF LimiterInv, Admit, TypeOK
  <2> QED
    BY <1>h, <1>0, <2>1, <2>2 DEF LimiterInv, Admit, TypeOK
<1>2. /\ c \notin Holders(h)
      /\ Holders(h)' = Holders(h) \union {c}
  BY <1>h DEF LimiterInv, Admit, Holders, TypeOK
<1>3. \A k \in Key : k # h => Holders(k)' = Holders(k) /\ c \notin Holders(k)
  BY <1>h DEF LimiterInv, Admit, Holders, TypeOK
<1>4. SlotsAccounted'
  <2>1. ASSUME NEW k \in Key, k # h PROVE active'[k] = Cardinality(Holders(k)')
    BY <1>h, <1>3, <2>1 DEF LimiterInv, SlotsAccounted, Admit, TypeOK
  <2>2. active'[h] = Cardinality(Holders(h)')
    <3>1. active'[h] = active[h] + 1
      BY <1>h, <1>0 DEF LimiterInv, Admit, TypeOK
    <3>2. Cardinality(Holders(h) \union {c}) = Cardinality(Holders(h)) + 1
      BY <1>2, HoldersFinite, FS_AddElement
    <3> QED
      BY <1>0, <1>2, <3>1, <3>2 DEF LimiterInv, SlotsAccounted
  <2>3. \A k \in Key : active'[k] = Cardinality(Holders(k)')
    BY <2>1, <2>2
  <2> QED
    BY <2>3 DEF SlotsAccounted
<1>5. /\ \A k \in Key : k # h => last'[k] = last[k]
      /\ last'[h] = now /\ now' = now
      /\ began'[c] = now
      /\ \A d \in Conn : d # c => began'[d] = began[d]
      /\ known' = known \union {h}
  BY <1>h, <1>0 DEF LimiterInv, Admit, TypeOK
<1>6. EntriesInv'
  <2>1. \A k \in Key : last'[k] <= now'
    BY <1>5, Numbers DEF LimiterInv, EntriesInv
  <2>2. ASSUME NEW k \in Key, NEW d \in Holders(k)'
        PROVE  k \in known' /\ began'[d] <= last'[k]
    <3>1. CASE k # h
      <4>1. d \in Holders(k) /\ d # c /\ d \in Conn
        BY <1>3, <2>2, <3>1 DEF Holders
      <4> QED
        BY <1>5, <3>1, <4>1 DEF LimiterInv, EntriesInv
    <3>2. CASE k = h /\ d = c
      BY <1>5, <3>2, Numbers DEF LimiterInv
    <3>3. CASE k = h /\ d # c
      <4>1. d \in Holders(h) /\ d \in Conn
        BY <1>2, <2>2, <3>3 DEF Holders
      <4>2. began[d] <= last[h] /\ last[h] <= now
        BY <1>0, <4>1 DEF LimiterInv, EntriesInv
      <4>3. began[d] <= now
        BY <1>0, <4>1, <4>2, Numbers DEF LimiterInv
      <4> QED
        BY <1>5, <3>3, <4>1, <4>3
    <3> QED
      BY <3>1, <3>2, <3>3
  <2> QED
    BY <2>1, <2>2 DEF EntriesInv
<1>7. StartsSpaced'
  \* The holders that were already inside started no later than lastTest.
  <2>1. ASSUME NEW d \in Holders(h) PROVE began'[c] - began'[d] >= MinInterval
    <3>1. d \in Conn /\ d # c /\ began[d] <= last[h]
      BY <1>0, <1>2, <2>1 DEF LimiterInv, EntriesInv, Holders
    <3> QED
      BY <1>0, <1>5, <3>1, Numbers DEF LimiterInv
  <2>2. ASSUME NEW k \in Key, NEW d \in Holders(k), NEW e \in Holders(k), d # e
        PROVE  began'[d] - began'[e] >= MinInterval \/ began'[e] - began'[d] >= MinInterval
    <3>1. d \in Conn /\ e \in Conn /\ d # c /\ e # c
      BY <1>2, <1>3, <2>2 DEF Holders
    <3> QED
      BY <1>5, <2>2, <3>1 DEF LimiterInv, StartsSpaced
  <2> QED
    BY <1>2, <1>3, <2>1, <2>2 DEF StartsSpaced
<1> QED
  BY <1>1, <1>4, <1>6, <1>7 DEF LimiterInv

\* The deferred critical section gives back a slot that was taken.
LEMMA ReturnStep ==
  ASSUME LimiterInv, NEW c \in Conn, Return(c) PROVE LimiterInv'
<1> DEFINE h == key[c]
<1>0. c \in Key /\ h \in Key /\ 0 \in 0..MaxTime
  BY Numbers, TimeAssumption DEF LimiterInv
<1>1. \A k \in Key : Holders(k)' = Holders(k) \ {c}
  BY DEF LimiterInv, Return, Answer, Holders, TypeOK
<1>2. \A k \in Key : \A d \in Holders(k)' : d \in Holders(k) /\ began'[d] = began[d]
  BY <1>1 DEF LimiterInv, Return, Answer, Holders, TypeOK
<1>3. /\ at' \in [Conn -> {"idle", "received", "serving"}]
      /\ path' \in [Conn -> {Limited, TestWS}]
      /\ key' \in [Conn -> Key]
      /\ began' \in [Conn -> 0..MaxTime]
  BY <1>0 DEF LimiterInv, Return, Answer, TypeOK
<1>4. active' \in [Key -> 0..MaxConcurrent] /\ SlotsAccounted'
  <2>1. CASE path[c] = Limited
    <3>1. c \in Holders(h) /\ h \in known
      BY <1>0, <2>1 DEF LimiterInv, EntriesInv, Return, Holders
    <3>2. Cardinality(Holders(h) \ {c}) = Cardinality(Holders(h)) - 1
          /\ Cardinality(Holders(h) \ {c}) \in Nat
      <4>1. IsFiniteSet(Holders(h) \ {c})
        BY HoldersFinite, FS_Subset
      <4> QED
        BY <3>1, <4>1, HoldersFinite, FS_RemoveElement, FS_CardinalityType
    <3>3. active[h] = Cardinality(Holders(h)) /\ active[h] \in 0..MaxConcurrent
      BY <1>0 DEF LimiterInv, SlotsAccounted, TypeOK
    <3>4. active' = [active EXCEPT ![h] = @ - 1]
      BY <2>1, <3>1 DEF Return
    <3>5. active[h] - 1 \in 0..MaxConcurrent
      BY <3>2, <3>3, LimitAssumption
    <3>6. active' \in [Key -> 0..MaxConcurrent]
      BY <3>4, <3>5 DEF LimiterInv, TypeOK
    <3>7. ASSUME NEW k \in Key PROVE active'[k] = Cardinality(Holders(k)')
      <4>1. CASE k = h
        BY <1>1, <3>2, <3>3, <3>4, <4>1 DEF LimiterInv, TypeOK
      <4>2. CASE k # h
        <5>1. Holders(k)' = Holders(k)
          BY <1>1, <4>2 DEF Holders
        <5> QED
          BY <3>4, <4>2, <5>1 DEF LimiterInv, SlotsAccounted, TypeOK
      <4> QED
        BY <4>1, <4>2
    <3> QED
      BY <3>6, <3>7 DEF SlotsAccounted
  <2>2. CASE path[c] # Limited
    <3>1. \A k \in Key : Holders(k)' = Holders(k)
      BY <1>1, <2>2 DEF Holders
    <3> QED
      BY <2>2, <3>1 DEF LimiterInv, Return, SlotsAccounted, TypeOK
  <2> QED
    BY <2>1, <2>2
<1>5. TypeOK'
  BY <1>3, <1>4 DEF LimiterInv, Return, TypeOK
<1>6. EntriesInv'
  BY <1>2 DEF LimiterInv, EntriesInv, Return
<1>7. StartsSpaced'
  BY <1>2 DEF LimiterInv, StartsSpaced
<1> QED
  BY <1>4, <1>5, <1>6, <1>7 DEF LimiterInv

-----------------------------------------------------------------------------

\* The invariant holds in every reachable state.
THEOREM LimiterInvariance == Spec => []LimiterInv
<1>1. LimiterInv /\ [Next]_vars => LimiterInv'
  <2> SUFFICES ASSUME LimiterInv, [Next]_vars PROVE LimiterInv'
    OBVIOUS
  <2>1. CASE UNCHANGED vars
    BY <2>1 DEF vars, LimiterInv, TypeOK, SlotsAccounted, EntriesInv, StartsSpaced, Holders
  <2> QED
    BY <2>1, RequestStep, PassStep, AdmitStep, RefuseStep, ReturnStep, TickStep DEF Next
<1> QED
  BY <1>1, InitLimiter, PTL DEF Spec

\* rateLimitMiddleware keeps the types of its table.
THEOREM LimiterTypes == Spec => []TypeOK
<1>1. LimiterInv => TypeOK
  BY DEF LimiterInv
<1> QED
  BY <1>1, LimiterInvariance, PTL

\* activeTests of every key is the number of its requests inside.
THEOREM SlotsAreAccounted == Spec => []SlotsAccounted
<1>1. LimiterInv => SlotsAccounted
  BY DEF LimiterInv
<1> QED
  BY <1>1, LimiterInvariance, PTL

\* No key ever has more than MaxConcurrent requests inside.
THEOREM NeverOversubscribed == Spec => []NoOversubscription
<1>1. LimiterInv => NoOversubscription
  BY Numbers DEF LimiterInv, NoOversubscription, SlotsAccounted, TypeOK
<1> QED
  BY <1>1, LimiterInvariance, PTL

\* Requests of one key that are inside together started MinInterval apart.
THEOREM StartsAreSpaced == Spec => []StartsSpaced
<1>1. LimiterInv => StartsSpaced
  BY DEF LimiterInv
<1> QED
  BY <1>1, LimiterInvariance, PTL
=============================================================================
