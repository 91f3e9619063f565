---------------------------- MODULE AccessProofs ----------------------------
(* Theorems about module Access, for any number of users, requests, services,
   clients and settings. *)
EXTENDS Access, FiniteSetTheorems, TLAPS

-----------------------------------------------------------------------------
(* The bootstrap *)

\* The state row is there once a request has created an administrator, and no
\* two requests have.
BootstrapInv ==
    /\ boot \in [Boot -> {"new", "creating", "refused", "done"}]
    /\ \A b \in Boot : boot[b] = "done" => bootstrapped
    /\ \A a, b \in Boot : boot[a] = "done" /\ boot[b] = "done" => a = b

\* Only the two halves of a bootstrap touch what the invariant is about.
LEMMA OthersLeaveBootstrap ==
    ASSUME [Next]_vars, ~(\E b : BootstrapRead(b) \/ BootstrapCommit(b))
    PROVE  UNCHANGED <<boot, bootstrapped>>
<1>1. CASE UNCHANGED vars
  BY <1>1 DEF vars, identityVars
<1>2. ASSUME NEW c, ClientStep(c)
      PROVE  UNCHANGED <<boot, bootstrapped>>
  BY <1>2 DEF ClientStep, ClientLogin, ClientSignedIn, ClientRefresh, ClientAsk, identityVars
<1>3. ASSUME NEW c, CallStep(c)
      PROVE  UNCHANGED <<boot, bootstrapped>>
  BY <1>3 DEF CallStep, identityVars
<1>4. ASSUME NEW h, BrowserStep(h)
      PROVE  UNCHANGED <<boot, bootstrapped>>
  BY <1>4 DEF BrowserStep, identityVars
<1>5. CASE AdministratorStep
  BY <1>5 DEF AdministratorStep, CreateUser, SetUserStatus
<1>6. CASE IdentityStep
  <2>1. CASE RotateKey
    BY <2>1 DEF RotateKey
  <2>2. CASE Tick
    BY <2>2 DEF Tick
  <2> QED  BY <1>6, <2>1, <2>2 DEF IdentityStep
<1> QED  BY <1>1, <1>2, <1>3, <1>4, <1>5, <1>6 DEF Next

\* At first no request has created an administrator.
LEMMA BootstrapInitially == Init => BootstrapInv
BY DEF Init, IdentityInit, BootstrapInv

\* No step lets a second bootstrap request create one.
LEMMA BootstrapPreserved == BootstrapInv /\ [Next]_vars => BootstrapInv'
<1> SUFFICES ASSUME BootstrapInv, [Next]_vars
             PROVE  BootstrapInv'
  OBVIOUS
<1>1. ASSUME NEW b, BootstrapRead(b)
      PROVE  BootstrapInv'
  BY <1>1 DEF BootstrapRead, BootstrapInv
<1>2. ASSUME NEW b, BootstrapCommit(b)
      PROVE  BootstrapInv'
  <2>1. CASE boot' = [boot EXCEPT ![b] = "refused"] /\ UNCHANGED bootstrapped
    BY <2>1 DEF BootstrapInv
  <2>2. CASE ~bootstrapped /\ bootstrapped' /\ boot' = [boot EXCEPT ![b] = "done"]
    \* Nobody was done before, so b is the only one.
    BY <2>2 DEF BootstrapInv
  <2> QED  BY <1>2, <2>1, <2>2 DEF BootstrapCommit
<1>3. CASE ~(\E b : BootstrapRead(b) \/ BootstrapCommit(b))
  BY <1>3, OthersLeaveBootstrap DEF BootstrapInv
<1> QED  BY <1>1, <1>2, <1>3

\* Where no two requests are done, at most one is counted.
LEMMA BootstrapCounted == BootstrapInv => BootstrapOnce
<1> SUFFICES ASSUME BootstrapInv
             PROVE  BootstrapOnce
  OBVIOUS
<1> DEFINE Done == {b \in Boot : boot[b] = "done"}
<1>1. CASE Done = {}
  BY <1>1, FS_EmptySet DEF BootstrapOnce
<1>2. CASE Done # {}
  <2>1. PICK b \in Boot : Done = {b}
    BY <1>2 DEF BootstrapInv
  <2>2. Cardinality(Done) = 1
    BY <2>1, FS_Singleton
  <2> QED  BY <2>2 DEF BootstrapOnce
<1> QED  BY <1>1, <1>2

\* However many bootstrap requests race, and whatever else goes on, one of them at
\* most creates an administrator (bootstrap_identity).
THEOREM OneBootstrap == Spec => []BootstrapOnce
<1>1. Spec => []BootstrapInv
  BY BootstrapInitially, BootstrapPreserved, PTL DEF Spec
<1> QED  BY <1>1, BootstrapCounted, PTL

-----------------------------------------------------------------------------
(* The rate of the gateway *)

\* What each bucket gave, with what it holds now, is what it held when full and
\* what flowed into it; requests that will have passed are those that have.
RateInv ==
    /\ setting \in Settings /\ clock \in 0..MaxTime
    /\ DOMAIN bucket = Bucket
    /\ \A k \in Bucket : /\ bucket[k].tokens \in 0..Capacity[k]
                         /\ bucket[k].updatedAt \in 0..clock
    /\ passed \in [Bucket -> [0..(MaxTime + 1) -> Nat]]
    /\ \A k \in Bucket : \A t \in (clock + 1)..(MaxTime + 1) : passed[k][t] = passed[k][clock + 1]
    /\ \A k \in Bucket : \A from \in 0..clock :
         Since(k, from) * Cost + Refilled(k) <= Capacity[k] + (clock - from) * Refill[k]

\* Arithmetic for the solver: one more time the cost.
LEMMA OneMoreTimes == \A a, c \in Int : (a + 1) * c = a * c + c
OBVIOUS

\* Arithmetic for the solver: products of naturals are naturals.
LEMMA ProductIsNat == \A a, b \in Nat : a * b \in Nat
OBVIOUS

\* What a bucket holds is between nothing and full.
LEMMA RefilledRange ==
    ASSUME RateInv, NEW k \in Bucket
    PROVE  /\ Refilled(k) \in 0..Capacity[k] /\ Capacity[k] \in Nat /\ Refill[k] \in Nat
           /\ bucket[k].tokens <= Refilled(k)
<1>1. /\ Capacity[k] \in Nat /\ Refill[k] \in Nat /\ bucket[k].tokens \in 0..Capacity[k]
      /\ clock - bucket[k].updatedAt \in Nat
  BY RateAssumption DEF RateInv
<1>2. (clock - bucket[k].updatedAt) * Refill[k] \in Nat
  BY <1>1, ProductIsNat
<1> QED  BY <1>1, <1>2 DEF Refilled, Lesser

\* As time goes on a bucket fills by no more than flows into it.
LEMMA TimeKeepsRate ==
    ASSUME RateInv, clock' = clock + 1, clock' \in 0..MaxTime, UNCHANGED <<setting, rateVars>>
    PROVE  RateInv'
<1>1. UNCHANGED <<bucket, passed>>
  BY DEF rateVars
<1>2. ASSUME NEW k \in Bucket, NEW t \in (clock' + 1)..(MaxTime + 1)
      PROVE  passed[k][t] = passed[k][clock' + 1]
  <2>1. clock \in Nat /\ MaxTime \in Nat
    BY BoundsAssumption DEF RateInv
  <2>2. t \in (clock + 1)..(MaxTime + 1) /\ clock' + 1 \in (clock + 1)..(MaxTime + 1)
    BY <2>1
  <2>3. \A s \in (clock + 1)..(MaxTime + 1) : passed[k][s] = passed[k][clock + 1]
    BY DEF RateInv
  <2> QED  BY <2>2, <2>3
<1>3. ASSUME NEW k \in Bucket, NEW from \in 0..clock'
      PROVE  Since(k, from)' * Cost + Refilled(k)' <= Capacity[k] + (clock' - from) * Refill[k]
  <2>1. /\ Refilled(k) \in 0..Capacity[k] /\ Capacity[k] \in Nat /\ Refill[k] \in Nat
    BY RefilledRange
  <2>2. Refilled(k)' <= Capacity[k] /\ Refilled(k)' <= Refilled(k) + Refill[k] /\ Refilled(k)' \in Int
    <3>1. /\ bucket[k].tokens \in Nat /\ clock - bucket[k].updatedAt \in Nat /\ clock \in Nat
          /\ bucket[k].updatedAt \in Nat
      BY DEF RateInv
    <3>2. (clock' - bucket[k].updatedAt) * Refill[k]
            = (clock - bucket[k].updatedAt) * Refill[k] + Refill[k]
      <4>1. clock' - bucket[k].updatedAt = (clock - bucket[k].updatedAt) + 1
        BY <3>1
      <4> QED  BY <2>1, <3>1, <4>1, OneMoreTimes
    <3>3. (clock - bucket[k].updatedAt) * Refill[k] \in Nat
      BY <2>1, <3>1, ProductIsNat
    <3> QED  BY <1>1, <2>1, <3>1, <3>2, <3>3 DEF Refilled, Lesser
  <2>3. CASE from = clock'
    <3>1. Since(k, from)' = 0
      BY <1>1, <2>3, BoundsAssumption DEF Since, RateInv
    <3>2. (clock' - from) * Refill[k] = 0 /\ 0 * Cost = 0
      BY <2>1, <2>3, RateAssumption
    <3> QED  BY <2>1, <2>2, <3>1, <3>2
  <2>4. CASE from \in 0..clock
    <3>1. Since(k, from)' = Since(k, from) /\ Since(k, from) \in Int
      BY <1>1, <2>4, BoundsAssumption DEF Since, RateInv
    <3>2. Since(k, from) * Cost + Refilled(k) <= Capacity[k] + (clock - from) * Refill[k]
      BY <2>4 DEF RateInv
    <3>3. (clock' - from) * Refill[k] = (clock - from) * Refill[k] + Refill[k]
      <4>1. clock' - from = (clock - from) + 1 /\ clock - from \in Int
        BY <2>4 DEF RateInv
      <4> QED  BY <2>1, <4>1, OneMoreTimes
    <3>4. Since(k, from) * Cost \in Int /\ (clock - from) * Refill[k] \in Int
      BY <2>1, <2>4, <3>1, RateAssumption DEF RateInv
    <3> QED  BY <2>1, <2>2, <3>1, <3>2, <3>3, <3>4
  <2> QED  BY <2>3, <2>4 DEF RateInv
<1> QED  BY <1>1, <1>2, <1>3 DEF RateInv

\* A request that passes costs what a request costs; one that does not costs nothing.
LEMMA ConsumeKeepsRate ==
    ASSUME RateInv, NEW k, NEW passes \in BOOLEAN, Consume(k, passes), UNCHANGED <<setting, clock>>
    PROVE  RateInv'
<1>0. CASE k \notin Bucket
  BY <1>0 DEF Consume, RateInv, Since, Refilled
<1>1. CASE k \in Bucket
  <2>1. /\ Refilled(k) \in 0..Capacity[k] /\ Capacity[k] \in Nat /\ Refill[k] \in Nat
        /\ Cost \in Nat
    BY <1>1, RefilledRange, RateAssumption
  <2>0. DOMAIN bucket = Bucket /\ passed \in [Bucket -> [0..(MaxTime + 1) -> Nat]]
    BY DEF RateInv
  <2>2. /\ DOMAIN bucket' = Bucket
        /\ bucket'[k].tokens = IF passes THEN Refilled(k) - Cost ELSE Refilled(k)
        /\ bucket'[k].updatedAt = clock
        /\ \A l \in Bucket \ {k} : bucket'[l] = bucket[l]
    BY <1>1, <2>0 DEF Consume
  <2>3. passes => Refilled(k) - Cost \in 0..Capacity[k]
    <3>1. passes = Passes(k)
      BY DEF Consume
    <3>2. Passes(k) => Refilled(k) >= Cost
      BY DEF Passes
    <3>3. passes => Refilled(k) >= Cost
      BY <3>1, <3>2
    <3> QED  BY <2>1, <3>3
  <2>4. /\ passed' \in [Bucket -> [0..(MaxTime + 1) -> Nat]]
        /\ \A t \in 0..(MaxTime + 1) :
              passed'[k][t] = IF passes /\ t > clock THEN passed[k][t] + 1 ELSE passed[k][t]
        /\ \A l \in Bucket \ {k} : passed'[l] = passed[l]
    <3>1. CASE passes
      <4>1. passed' = [passed EXCEPT ![k] = OneMore(passed[k])]
        BY <3>1 DEF Consume
      <4>2. \A t \in 0..(MaxTime + 1) :
               OneMore(passed[k])[t] = IF t > clock THEN passed[k][t] + 1 ELSE passed[k][t]
        BY DEF OneMore
      <4>3. OneMore(passed[k]) \in [0..(MaxTime + 1) -> Nat]
        <5>1. \A t \in 0..(MaxTime + 1) : passed[k][t] \in Nat
          BY <1>1, <2>0
        <5>2. \A t \in 0..(MaxTime + 1) :
                 (IF t > clock THEN passed[k][t] + 1 ELSE passed[k][t]) \in Nat
          BY <5>1
        <5> QED  BY <5>2 DEF OneMore
      <4> QED  BY <1>1, <2>0, <3>1, <4>1, <4>2, <4>3
    <3>2. CASE ~passes
      BY <1>1, <2>0, <3>2 DEF Consume
    <3> QED  BY <3>1, <3>2
  <2>5. \A l \in Bucket : \A t \in (clock + 1)..(MaxTime + 1) : passed'[l][t] = passed'[l][clock + 1]
    <3>1. \A l \in Bucket : \A t \in (clock + 1)..(MaxTime + 1) : passed[l][t] = passed[l][clock + 1]
      BY DEF RateInv
    <3>2. clock + 1 \in 0..(MaxTime + 1) /\ clock \in Nat
      BY BoundsAssumption DEF RateInv
    <3>3. ASSUME NEW l \in Bucket \ {k}, NEW t \in (clock + 1)..(MaxTime + 1)
          PROVE  passed'[l][t] = passed'[l][clock + 1]
      BY <2>4, <3>1, <3>3
    <3>4. ASSUME NEW t \in (clock + 1)..(MaxTime + 1)
          PROVE  passed'[k][t] = passed'[k][clock + 1]
      <4>1. t \in 0..(MaxTime + 1) /\ t > clock /\ clock + 1 > clock
        BY <3>2, <3>4, BoundsAssumption
      <4>2. passed[k][t] = passed[k][clock + 1]
        BY <1>1, <3>1, <3>4
      <4> QED  BY <2>4, <3>2, <4>1, <4>2
    <3> QED  BY <3>3, <3>4
  <2>6. Refilled(k)' = IF passes THEN Refilled(k) - Cost ELSE Refilled(k)
    <3>1. (clock - bucket'[k].updatedAt) * Refill[k] = 0 /\ clock \in Nat
      BY <2>1, <2>2 DEF RateInv
    <3> QED  BY <2>1, <2>2, <2>3, <3>1 DEF Refilled, Lesser
  <2>7. ASSUME NEW from \in 0..clock
        PROVE  Since(k, from)' * Cost + Refilled(k)' <= Capacity[k] + (clock - from) * Refill[k]
    <3>1. Since(k, from)' = (IF passes THEN Since(k, from) + 1 ELSE Since(k, from))
          /\ Since(k, from) \in Int
      <4>1. from \in 0..(MaxTime + 1) /\ clock + 1 \in 0..(MaxTime + 1) /\ clock \in Nat
            /\ from \in Nat /\ from <= clock
        BY BoundsAssumption DEF RateInv
      <4>2. passed[k][from] \in Nat /\ passed[k][clock + 1] \in Nat
        BY <1>1, <2>0, <4>1
      <4>3. passed'[k][from] = passed[k][from]
            /\ passed'[k][clock + 1] = IF passes THEN passed[k][clock + 1] + 1 ELSE passed[k][clock + 1]
        BY <2>4, <4>1
      <4> QED  BY <4>2, <4>3 DEF Since
    <3>2. Since(k, from) * Cost + Refilled(k) <= Capacity[k] + (clock - from) * Refill[k]
      BY <1>1 DEF RateInv
    <3>3. (Since(k, from) + 1) * Cost = Since(k, from) * Cost + Cost
      BY <2>1, <3>1, OneMoreTimes
    <3>4. Since(k, from) * Cost \in Int /\ (clock - from) * Refill[k] \in Int
      BY <2>1, <3>1 DEF RateInv
    <3>5. CASE passes
      BY <2>1, <2>6, <3>1, <3>2, <3>3, <3>4, <3>5
    <3>6. CASE ~passes
      BY <2>1, <2>6, <3>1, <3>2, <3>4, <3>6
    <3> QED  BY <3>5, <3>6
  <2>8. \A l \in Bucket \ {k} : \A from \in 0..clock :
           Since(l, from)' * Cost + Refilled(l)' <= Capacity[l] + (clock - from) * Refill[l]
    BY <2>2, <2>4 DEF RateInv, Since, Refilled
  <2>9. \A l \in Bucket : bucket'[l].tokens \in 0..Capacity[l] /\ bucket'[l].updatedAt \in 0..clock
    <3>1. clock \in 0..clock
      BY DEF RateInv
    <3>2. bucket'[k].tokens \in 0..Capacity[k]
      BY <2>1, <2>2, <2>3
    <3> QED  BY <2>2, <3>1, <3>2 DEF RateInv
  <2>10. \A l \in Bucket : \A from \in 0..clock :
            Since(l, from)' * Cost + Refilled(l)' <= Capacity[l] + (clock - from) * Refill[l]
    BY <2>7, <2>8
  <2>11. setting' \in Settings /\ clock' \in 0..MaxTime /\ clock' = clock
    BY DEF RateInv
  <2> QED  BY <2>2, <2>4, <2>5, <2>9, <2>10, <2>11 DEF RateInv
<1> QED  BY <1>0, <1>1

\* A request that finds its bucket keeps the account, and one without a bucket does nothing.
LEMMA UseKeepsRate ==
    ASSUME RateInv, NEW k, NEW passes \in BOOLEAN, Use(k, passes), UNCHANGED <<setting, clock>>
    PROVE  RateInv'
<1>1. CASE UNCHANGED rateVars
  BY <1>1 DEF RateInv, rateVars, Since, Refilled
<1> QED  BY <1>1, ConsumeKeepsRate DEF Use

\* Buckets are full at first and nothing has passed.
LEMMA RateInitially == Init => RateInv
<1> SUFFICES ASSUME Init  PROVE RateInv
  OBVIOUS
<1>1. /\ setting \in Settings /\ clock = 0 /\ MaxTime \in Nat /\ Cost \in Nat
      /\ bucket = [k \in Bucket |-> [tokens |-> Capacity[k], updatedAt |-> 0]]
      /\ passed = [k \in Bucket |-> [t \in 0..(MaxTime + 1) |-> 0]]
  BY BoundsAssumption, RateAssumption DEF Init, IdentityInit, RateInit
<1>2. \A k \in Bucket : Capacity[k] \in Nat /\ Refill[k] \in Nat
  BY RateAssumption
<1>3. \A k \in Bucket : \A from \in 0..clock :
         Since(k, from) * Cost + Refilled(k) <= Capacity[k] + (clock - from) * Refill[k]
  <2> TAKE k \in Bucket
  <2> TAKE from \in 0..clock
  <2>1. Since(k, from) = 0 /\ from = 0
    BY <1>1 DEF Since
  <2>2. (clock - 0) * Refill[k] = 0 /\ 0 * Cost = 0
    BY <1>1, <1>2
  <2>3. Refilled(k) = Capacity[k]
    BY <1>1, <1>2, <2>2 DEF Refilled, Lesser
  <2> QED  BY <1>2, <2>1, <2>2, <2>3
<1> QED  BY <1>1, <1>2, <1>3 DEF RateInv

\* Every step keeps the account of every bucket.
LEMMA RatePreserved == RateInv /\ [Next]_vars => RateInv'
<1> SUFFICES ASSUME RateInv, [Next]_vars  PROVE RateInv'
  OBVIOUS
<1>0. ASSUME UNCHANGED <<setting, clock, rateVars>>
      PROVE  RateInv'
  BY <1>0 DEF RateInv, rateVars, Since, Refilled
<1>1. ASSUME NEW c, ClientStep(c)
      PROVE  RateInv'
  BY <1>0, <1>1, UseKeepsRate
     DEF ClientStep, ClientLogin, ClientSignedIn, ClientRefresh, ClientAsk, identityVars
<1>2. ASSUME NEW c, CallStep(c)
      PROVE  RateInv'
  BY <1>0, <1>2, UseKeepsRate DEF CallStep, Forward, identityVars
<1>3. ASSUME NEW h, BrowserStep(h)
      PROVE  RateInv'
  <2>1. UNCHANGED <<setting, clock>>
    BY <1>3 DEF BrowserStep, identityVars
  <2>2. UNCHANGED rateVars \/ \E k : \E passes \in BOOLEAN : Use(k, passes)
    BY <1>3 DEF BrowserStep, Login, SignedIn, Dies, Logout, Request, ConsoleStep, Call, Hear,
       Refresh, Open, Close
  <2> QED  BY <1>0, <2>1, <2>2, UseKeepsRate
<1>4. CASE AdministratorStep
  BY <1>0, <1>4 DEF AdministratorStep, CreateUser, SetUserStatus
<1>5. CASE IdentityStep
  <2>1. UNCHANGED rateVars
    BY <1>5 DEF IdentityStep
  <2>2. CASE Tick
    <3>1. setting.until \in 0..MaxTime /\ clock \in 0..MaxTime
      BY SettingsAssumption DEF RateInv
    <3>2. clock' = clock + 1 /\ clock < setting.until /\ UNCHANGED <<setting, rateVars>>
      BY <2>1, <2>2 DEF Tick
    <3>3. clock' \in 0..MaxTime
      BY <3>1, <3>2, BoundsAssumption
    <3> QED  BY <3>2, <3>3, TimeKeepsRate
  <2>3. CASE RotateKey
    BY <1>0, <2>1, <2>3 DEF RotateKey
  <2>4. ASSUME NEW b, BootstrapRead(b) \/ BootstrapCommit(b)
        PROVE  RateInv'
    BY <1>0, <2>1, <2>4 DEF BootstrapRead, BootstrapCommit
  <2> QED  BY <1>5, <2>2, <2>3, <2>4 DEF IdentityStep
<1>6. CASE UNCHANGED vars
  BY <1>0, <1>6 DEF vars, identityVars
<1> QED  BY <1>1, <1>2, <1>3, <1>4, <1>5, <1>6 DEF Next

\* In any stretch of time no more requests pass a bucket than it holds when full and
\* what flows into it meanwhile (TokenBucketLimiter.consume).
THEOREM RateIsLimited == Spec => []WithinRate
<1>1. RateInv => WithinRate
  <2> SUFFICES ASSUME RateInv, NEW k \in Bucket, NEW from \in 0..clock
               PROVE  Since(k, from) * Cost <= Capacity[k] + (clock - from) * Refill[k]
    BY DEF WithinRate
  <2>1. Since(k, from) * Cost + Refilled(k) <= Capacity[k] + (clock - from) * Refill[k]
    BY DEF RateInv
  <2>2. Refilled(k) \in Nat /\ Capacity[k] \in Nat /\ Refill[k] \in Nat
    BY RefilledRange
  <2>3. Since(k, from) \in Int /\ clock - from \in Int
    <3>1. clock \in 0..MaxTime /\ passed[k] \in [0..(MaxTime + 1) -> Nat]
      BY DEF RateInv
    <3>2. passed[k][from] \in Nat /\ passed[k][clock + 1] \in Nat
      BY <3>1, BoundsAssumption
    <3> QED  BY <3>1, <3>2 DEF Since
  <2>4. Since(k, from) * Cost \in Int /\ (clock - from) * Refill[k] \in Int
    BY <2>2, <2>3, RateAssumption
  <2> QED  BY <2>1, <2>2, <2>4
<1> QED  BY <1>1, RateInitially, RatePreserved, PTL DEF Spec

-----------------------------------------------------------------------------
(* The sessions of the console *)

Fields == {"at", "session", "pair", "path", "excess", "picked", "signin", "now"}

\* Steps of a login before it has a session.
Early == {"idle", "signing", "evicting", "pruning", "counting", "choosing", "removing", "creating"}

ConsoleInv ==
    /\ setting \in Settings /\ clock \in Nat
    /\ drawn \in 0..MaxDrawn /\ opened \subseteq 1..drawn
    /\ DOMAIN kept = Session
    /\ \A s \in Session : DOMAIN kept[s] = {"pair", "exp"} /\ kept[s].exp \in Nat
    /\ DOMAIN handler = Handler
    /\ \A h \in Handler : DOMAIN handler[h] = Fields
    /\ \A h \in Handler : handler[h].at \in Early \/ handler[h].session \in 1..drawn
    /\ \A h \in Handler : handler[h].at = "idle" => handler[h].session = 0

\* While nobody else is at work on it, a session that was closed is dead, and the
\* handlers that come for it later get no further than to find that out.
ClosedInv ==
    \A s \in DOMAIN closed :
        /\ s \in 1..drawn
        /\ closed[s] = {} =>
             /\ ~Live(s)
             /\ \A h \in Handler : handler[h].session = s =>
                   handler[h].at \in {"getting", "leaving", "gone"}

\* A closed session nobody is at work on but to find it closed.
Finding == {"getting", "leaving", "gone"}

StaysDead(h) ==
    \A s \in 1..drawn :
        ~Live(s) /\ (handler[h].session = s => handler[h].at \in Finding) =>
        ~Live(s)' /\ (handler'[h].session = s => handler'[h].at \in Finding)

\* Whom identity may give a pair of tokens in a step of the handler.
Renews(h, u) ==
    \/ /\ Decodes(handler[h].pair.refresh, "refresh") /\ u = handler[h].pair.refresh.sub
       /\ Active(u)
    \/ /\ handler[h].at = "signing" /\ Awaited(handler[h].signin)
       /\ u = handler[h].signin.user

\* What a step of one handler does to the store and to the handler, at most.
Effect(h) ==
    /\ DOMAIN handler' = Handler /\ \A g \in Handler \ {h} : handler'[g] = handler[g]
    /\ DOMAIN handler'[h] = Fields
    /\ handler'[h].at \in Early \/ handler'[h].session \in 1..drawn'
    /\ handler'[h].at = "idle" => handler'[h].session = 0
    /\ \/ handler'[h].pair \in {handler[h].pair, NoPair}
       \/ \E s \in Session : handler'[h].pair = kept[s].pair
       \/ \E u : Renews(h, u) /\ handler'[h].pair = Pair(u)
    /\ handler'[h].at = "signing" =>
          \E u \in User : Active(u) /\ handler'[h].signin = RowRead(u)
    /\ drawn' \in drawn..MaxDrawn
    /\ DOMAIN kept' = Session
    /\ \A s \in Session : /\ DOMAIN kept'[s] = {"pair", "exp"} /\ kept'[s].exp \in Nat
                          /\ kept'[s].pair \in {kept[s].pair, handler[h].pair, NoPair}
    /\ StaysDead(h)

\* A handler that goes on, or ends.
LEMMA GoesOn ==
    ASSUME ConsoleInv, NEW h \in Handler, NEW at, Goes(h, at) \/ GoesWith(h, at, clock)
    PROVE  /\ DOMAIN handler' = Handler /\ \A g \in Handler \ {h} : handler'[g] = handler[g]
           /\ DOMAIN handler'[h] = Fields /\ handler'[h].at = at
           /\ at = "idle" => handler'[h].session = 0 /\ handler'[h].pair = NoPair
           /\ at # "idle" => /\ handler'[h].session = handler[h].session
                             /\ handler'[h].pair = handler[h].pair
<1>1. DOMAIN handler = Handler /\ DOMAIN handler[h] = Fields
  BY DEF ConsoleInv
<1>0. PICK now : GoesWith(h, at, now)
  BY DEF Goes
<1>2. CASE at = "idle"
  BY <1>0, <1>1, <1>2 DEF GoesWith, Idle, Fields
<1>3. CASE at # "idle"
  <2>1. handler' = [handler EXCEPT ![h] = [@ EXCEPT !.at = at, !.now = now]]
    BY <1>0, <1>3 DEF GoesWith
  <2> QED  BY <1>1, <1>3, <2>1 DEF Fields
<1> QED  BY <1>2, <1>3

\* What remains to be shown of a step that leaves the sessions alone.
LEMMA OnlyHandler ==
    ASSUME ConsoleInv, NEW h \in Handler, UNCHANGED <<kept, drawn, clock>>,
           DOMAIN handler' = Handler, \A g \in Handler \ {h} : handler'[g] = handler[g],
           DOMAIN handler'[h] = Fields,
           handler'[h].at \in Early \/ handler'[h].session \in 1..drawn,
           handler'[h].at = "idle" => handler'[h].session = 0,
           \/ handler'[h].pair \in {handler[h].pair, NoPair}
           \/ \E s \in Session : handler'[h].pair = kept[s].pair
           \/ \E u : Renews(h, u) /\ handler'[h].pair = Pair(u),
           handler'[h].at = "signing" =>
              \E u \in User : Active(u) /\ handler'[h].signin = RowRead(u),
           \A s \in 1..drawn :
              ~Live(s) /\ (handler[h].session = s => handler[h].at \in Finding) =>
              (handler'[h].session = s => handler'[h].at \in Finding)
    PROVE  Effect(h)
<1>1. \A s \in Session : DOMAIN kept[s] = {"pair", "exp"} /\ kept[s].exp \in Nat
  BY DEF ConsoleInv
<1>2. drawn' \in drawn..MaxDrawn /\ DOMAIN kept' = Session
  BY ConsoleAssumption DEF ConsoleInv
<1>3. StaysDead(h)
  BY DEF StaysDead, Live
<1> QED  BY <1>1, <1>2, <1>3 DEF Effect

\* Looking a session up finds out a closed one.
LEMMA GetKeyEffect ==
    ASSUME ConsoleInv, NEW h \in Handler, UNCHANGED clock,
           \/ GetKey(h, "confirming", "touching new", "missing")
           \/ GetKey(h, "replacing", "retouching", "lost")
           \/ GetKey(h, "leaving", "touching last", "gone")
    PROVE  Effect(h)
<1> DEFINE at == handler'[h].at
<1>1. UNCHANGED <<kept, drawn>>
  BY DEF GetKey, storeVars
<1>2. PICK next : /\ Goes(h, next)
                  /\ handler[h].at \notin Early /\ next \notin Early
                  /\ handler[h].at \in Finding /\ ~Live(handler[h].session) => next \in Finding
  BY DEF GetKey, Early, Finding
<1>3. handler[h].session \in 1..drawn
  BY <1>2 DEF ConsoleInv
<1>4. next # "idle" /\ next # "signing"
  BY <1>2 DEF Early
<1> QED  BY <1>1, <1>2, <1>3, <1>4, GoesOn, OnlyHandler

\* So does the first look of a handler, which takes the pair it goes on with.
LEMMA GetPairEffect ==
    ASSUME ConsoleInv, NEW h \in Handler, UNCHANGED clock,
           GetPair(h, "getting", "touching", "gone")
    PROVE  Effect(h)
<1>1. UNCHANGED <<kept, drawn>> /\ handler[h].at = "getting"
  BY DEF GetPair, storeVars
<1>2. DOMAIN handler = Handler /\ DOMAIN handler[h] = Fields /\ handler[h].session \in 1..drawn
  BY <1>1 DEF ConsoleInv, Early
<1>3. CASE Live(handler[h].session)
  <2>1. handler' = [handler EXCEPT ![h] = [@ EXCEPT !.at = "touching",
                                                    !.pair = kept[handler[h].session].pair]]
    BY <1>3 DEF GetPair
  <2>2. /\ DOMAIN handler' = Handler /\ \A g \in Handler \ {h} : handler'[g] = handler[g]
        /\ DOMAIN handler'[h] = Fields /\ handler'[h].at = "touching"
        /\ handler'[h].session = handler[h].session
        /\ handler'[h].pair = kept[handler[h].session].pair
    BY <1>2, <2>1 DEF Fields
  <2>3. handler[h].session \in Session
    BY <1>2, ConsoleAssumption DEF Session, ConsoleInv
  <2> QED  BY <1>1, <1>2, <1>3, <2>2, <2>3, OnlyHandler
<1>4. CASE ~Live(handler[h].session)
  <2>1. handler' = [handler EXCEPT ![h] = [@ EXCEPT !.at = "gone"]]
    BY <1>4 DEF GetPair
  <2>2. /\ DOMAIN handler' = Handler /\ \A g \in Handler \ {h} : handler'[g] = handler[g]
        /\ DOMAIN handler'[h] = Fields /\ handler'[h].at = "gone"
        /\ handler'[h].session = handler[h].session /\ handler'[h].pair = handler[h].pair
    BY <1>2, <2>1 DEF Fields
  <2> QED  BY <1>1, <1>2, <2>2, OnlyHandler DEF Finding
<1> QED  BY <1>3, <1>4

\* A handler that only goes on, or ends.
LEMMA GoesEffect ==
    ASSUME ConsoleInv, NEW h \in Handler, NEW next, Goes(h, next),
           UNCHANGED <<kept, drawn, clock>>,
           handler[h].at \notin Early, next = "idle" \/ next \notin Early,
           handler[h].at \notin Finding \/ next = "idle"
    PROVE  Effect(h)
<1>1. handler[h].session \in 1..drawn
  BY DEF ConsoleInv
<1>2. CASE next = "idle"
  <2>1. "idle" \in Early /\ drawn \in Nat
    BY DEF Early, ConsoleInv
  <2>2. handler'[h].session = 0 /\ handler'[h].pair = NoPair /\ handler'[h].at = "idle"
    BY <1>2, GoesOn
  <2>3. \A s \in 1..drawn : handler'[h].session # s
    BY <2>1, <2>2
  <2> QED  BY <1>2, <2>1, <2>2, <2>3, GoesOn, OnlyHandler
<1>3. CASE next # "idle"
  <2>1. next # "signing"
    BY <1>3 DEF Early
  <2> QED  BY <1>1, <1>3, <2>1, GoesOn, OnlyHandler
<1> QED  BY <1>2, <1>3

\* A handler that goes on, or ends, and writes or deletes its own session.
LEMMA StoreEffect ==
    ASSUME ConsoleInv, NEW h \in Handler, NEW next, Goes(h, next) \/ GoesWith(h, next, clock),
           UNCHANGED <<drawn, clock>>,
           handler[h].at \notin Early, next = "idle" \/ next \notin Early,
           handler[h].at \notin Finding,
           DOMAIN kept' = Session,
           \A s \in Session : s # handler[h].session => kept'[s] = kept[s],
           \A s \in Session : s = handler[h].session =>
                /\ DOMAIN kept'[s] = {"pair", "exp"} /\ kept'[s].exp \in Nat
                /\ kept'[s].pair \in {kept[s].pair, handler[h].pair, NoPair}
    PROVE  Effect(h)
<1>1. handler[h].session \in 1..drawn /\ drawn \in 0..MaxDrawn
  BY DEF ConsoleInv
<1>2. drawn' \in drawn..MaxDrawn /\ (1..drawn) \subseteq Session
  BY <1>1, ConsoleAssumption DEF Session
<1>3. \A s \in Session : /\ DOMAIN kept'[s] = {"pair", "exp"} /\ kept'[s].exp \in Nat
                         /\ kept'[s].pair \in {kept[s].pair, handler[h].pair, NoPair}
  BY DEF ConsoleInv
<1>4. /\ handler'[h].session \in {0, handler[h].session}
      /\ handler'[h].pair \in {handler[h].pair, NoPair}
      /\ handler'[h].at = "idle" => handler'[h].session = 0
      /\ handler'[h].at \in Early \/ handler'[h].session \in 1..drawn'
      /\ handler'[h].at # "signing"
  <2>1. "idle" \in Early /\ "signing" \in Early /\ "signing" # "idle"
    BY DEF Early
  <2> QED  BY <1>1, <2>1, GoesOn
<1>5. StaysDead(h)
  <2> SUFFICES ASSUME NEW s \in 1..drawn, ~Live(s),
                      handler[h].session = s => handler[h].at \in Finding
               PROVE  ~Live(s)' /\ handler'[h].session # s
    BY DEF StaysDead
  <2>1. s # handler[h].session /\ s # 0 /\ s \in Session
    BY <1>2
  <2> QED  BY <1>4, <2>1 DEF Live
<1> QED  BY <1>2, <1>3, <1>4, <1>5, GoesOn DEF Effect

\* A login that makes room goes on with what it has and deletes what it picked.
LEMMA EarlyEffect ==
    ASSUME ConsoleInv, NEW h \in Handler, UNCHANGED <<drawn, clock>>,
           DOMAIN handler' = Handler, \A g \in Handler \ {h} : handler'[g] = handler[g],
           DOMAIN handler'[h] = Fields,
           handler[h].at \in Early, handler'[h].at \in Early \ {"idle", "signing"},
           handler'[h].session = handler[h].session, handler'[h].pair = handler[h].pair,
           DOMAIN kept' = Session,
           \A s \in Session : kept'[s] \in {kept[s], NoSession}
    PROVE  Effect(h)
<1>1. drawn \in 0..MaxDrawn /\ \A s \in Session : DOMAIN kept[s] = {"pair", "exp"} /\ kept[s].exp \in Nat
  BY DEF ConsoleInv
<1>2. drawn' \in drawn..MaxDrawn /\ (1..drawn) \subseteq Session
  BY <1>1, ConsoleAssumption DEF Session
<1>3. \A s \in Session : /\ DOMAIN kept'[s] = {"pair", "exp"} /\ kept'[s].exp \in Nat
                         /\ kept'[s].pair \in {kept[s].pair, handler[h].pair, NoPair}
  BY <1>1 DEF NoSession
<1>4. \A s \in Session : kept'[s].exp \in {kept[s].exp, 0}
  BY DEF NoSession
<1>5. StaysDead(h)
  <2> SUFFICES ASSUME NEW s \in 1..drawn, ~Live(s),
                      handler[h].session = s => handler[h].at \in Finding
               PROVE  ~Live(s)' /\ handler'[h].session # s
    BY DEF StaysDead
  <2>1. handler[h].session # s
    BY DEF Early, Finding
  <2>2. s \in Session /\ clock \in Nat
    BY <1>2 DEF ConsoleInv
  <2> QED  BY <1>1, <1>4, <2>1, <2>2 DEF Live
<1> QED  BY <1>2, <1>3, <1>5 DEF Effect

\* Removing sessions leaves the others as they are.
LEMMA RemoveEffect ==
    ASSUME NEW ss, Remove(ss)
    PROVE  /\ DOMAIN kept' = Session
           /\ \A s \in Session : kept'[s] = IF s \in ss THEN NoSession ELSE kept[s]
BY DEF Remove

\* When a session written now runs out.
LEMMA ExpiryIsNat ==
    ASSUME ConsoleInv
    PROVE  clock + SessionTtl \in Nat
<1>1. clock \in Nat
  BY DEF ConsoleInv
<1>2. SessionTtl \in Nat
  BY ConsoleAssumption
<1> QED  BY <1>1, <1>2

\* The commands of get, replace_tokens and delete.
LEMMA SessionCommands ==
    ASSUME ConsoleInv, NEW h \in Handler, UNCHANGED clock,
           \/ Touch(h, "touching new", "opening") \/ Unindex(h, "missing", "dropping")
           \/ Touch(h, "touching", "calling") \/ Touch(h, "retouching", "saving")
           \/ Unindex(h, "lost", "calling again")
           \/ SetPair(h) \/ AddAgain(h) \/ AddNew(h)
           \/ Touch(h, "touching last", "deleting")
           \/ Drop(h)
    PROVE  Effect(h)
<1>0. DOMAIN kept = Session /\ \A s \in Session : DOMAIN kept[s] = {"pair", "exp"} /\ kept[s].exp \in Nat
  BY DEF ConsoleInv
<1>1. clock + SessionTtl \in Nat
  BY ExpiryIsNat
<1>2. ASSUME NEW from, NEW next, Touch(h, from, next), from \notin Early, next \notin Early,
             from \notin Finding
      PROVE  Effect(h)
  <2>1. /\ DOMAIN kept' = Session
        /\ \A s \in Session : s # handler[h].session => kept'[s] = kept[s]
        /\ \A s \in Session : s = handler[h].session =>
              DOMAIN kept'[s] = {"pair", "exp"} /\ kept'[s].exp \in Nat /\ kept'[s].pair = kept[s].pair
    BY <1>0, <1>1, <1>2 DEF Touch
  <2> QED  BY <1>2, <2>1, StoreEffect DEF Touch
<1>3. ASSUME NEW from, NEW next, Unindex(h, from, next), from \notin Early, next \notin Early,
             from \notin Finding
      PROVE  Effect(h)
  BY <1>3, GoesEffect DEF Unindex
<1>4. CASE AddAgain(h) \/ AddNew(h)
  <2>1. PICK next \in {"calling again", "calling me"} :
           Goes(h, next) /\ UNCHANGED <<kept, drawn>> /\ handler[h].at \in {"reindexing", "indexing"}
    BY <1>4 DEF AddAgain, AddNew
  <2> QED  BY <2>1, GoesEffect DEF Early, Finding
<1>5. CASE SetPair(h)
  <2>1. /\ DOMAIN kept' = Session
        /\ \A s \in Session : s # handler[h].session => kept'[s] = kept[s]
        /\ \A s \in Session : s = handler[h].session =>
              /\ DOMAIN kept'[s] = {"pair", "exp"} /\ kept'[s].exp \in Nat
              /\ kept'[s].pair = handler[h].pair
    BY <1>0, <1>1, <1>5 DEF SetPair, Keep
  <2>2. handler[h].at = "saving" /\ GoesWith(h, "reindexing", clock) /\ UNCHANGED drawn
    BY <1>5 DEF SetPair
  <2> QED  BY <2>1, <2>2, StoreEffect DEF Early, Finding
<1>6. CASE Drop(h)
  <2>1. handler[h].at = "dropping" /\ Goes(h, "idle") /\ UNCHANGED drawn
    BY <1>6 DEF Drop
  <2>2. /\ DOMAIN kept' = Session
        /\ \A s \in Session : kept'[s] = IF s \in {handler[h].session} THEN NoSession ELSE kept[s]
    BY <1>6, RemoveEffect DEF Drop
  <2>3. DOMAIN NoSession = {"pair", "exp"} /\ NoSession.exp \in Nat /\ NoSession.pair = NoPair
    BY DEF NoSession
  <2> QED  BY <2>1, <2>2, <2>3, StoreEffect DEF Early, Finding
<1>7. \A at \in {"touching new", "opening", "missing", "dropping", "touching", "calling",
              "retouching", "saving", "lost", "calling again", "touching last", "deleting"} :
         at \notin Early /\ at \notin Finding
  BY DEF Early, Finding
<1>8. ASSUME \/ Touch(h, "touching new", "opening") \/ Touch(h, "touching", "calling")
             \/ Touch(h, "retouching", "saving") \/ Touch(h, "touching last", "deleting")
      PROVE  Effect(h)
  BY <1>2, <1>7, <1>8
<1>9. ASSUME Unindex(h, "missing", "dropping") \/ Unindex(h, "lost", "calling again")
      PROVE  Effect(h)
  BY <1>3, <1>7, <1>9
<1> QED  BY <1>4, <1>5, <1>6, <1>8, <1>9

\* The end of a get that found no session.
LEMMA GoneEffect ==
    ASSUME ConsoleInv, NEW h \in Handler, UNCHANGED clock, Unindex(h, "gone", "idle")
    PROVE  Effect(h)
<1>1. Goes(h, "idle") /\ UNCHANGED <<kept, drawn>> /\ handler[h].at = "gone"
  BY DEF Unindex
<1> QED  BY <1>1, GoesEffect DEF Early

\* The commands of _evict.
LEMMA EvictCommands ==
    ASSUME ConsoleInv, NEW h \in Handler, UNCHANGED clock,
           \/ PickExpired(h) \/ RemovePicked(h, "pruning", "counting")
           \/ Count(h) \/ PickOldest(h) \/ RemovePicked(h, "removing", "creating")
    PROVE  Effect(h)
<1>0. DOMAIN handler = Handler /\ DOMAIN handler[h] = Fields /\ DOMAIN kept = Session
  BY DEF ConsoleInv
<1>1. CASE PickExpired(h)
  <2> DEFINE old == {s \in DOMAIN index : index[s] <= clock - SessionTtl}
             at == IF old = {} THEN "counting" ELSE "pruning"
  <2>1. handler' = [handler EXCEPT ![h] = [@ EXCEPT !.at = at, !.picked = old, !.now = clock]]
    BY <1>1 DEF PickExpired
  <2>0. at \in {"counting", "pruning"}
    OBVIOUS
  <2> HIDE DEF at, old
  <2>2. /\ DOMAIN handler' = Handler /\ \A g \in Handler \ {h} : handler'[g] = handler[g]
        /\ DOMAIN handler'[h] = Fields /\ handler'[h].at \in {"counting", "pruning"}
        /\ handler'[h].session = handler[h].session /\ handler'[h].pair = handler[h].pair
    BY <1>0, <2>0, <2>1 DEF Fields
  <2>3. UNCHANGED <<kept, drawn>> /\ handler[h].at = "evicting"
    BY <1>1 DEF PickExpired, storeVars
  <2> QED  BY <1>0, <2>2, <2>3, EarlyEffect DEF Early
<1>2. ASSUME NEW from \in {"pruning", "removing"}, NEW next \in {"counting", "creating"},
             RemovePicked(h, from, next)
      PROVE  Effect(h)
  <2>1. handler' = [handler EXCEPT ![h] = [@ EXCEPT !.at = next, !.picked = {}]]
        /\ handler[h].at = from /\ UNCHANGED drawn
    BY <1>2 DEF RemovePicked
  <2>2. /\ DOMAIN handler' = Handler /\ \A g \in Handler \ {h} : handler'[g] = handler[g]
        /\ DOMAIN handler'[h] = Fields /\ handler'[h].at = next
        /\ handler'[h].session = handler[h].session /\ handler'[h].pair = handler[h].pair
    BY <1>0, <2>1 DEF Fields
  <2>3. DOMAIN kept' = Session /\ \A s \in Session : kept'[s] \in {kept[s], NoSession}
    BY <1>2, RemoveEffect DEF RemovePicked
  <2> QED  BY <2>1, <2>2, <2>3, EarlyEffect DEF Early
<1>3. CASE Count(h)
  <2>1. UNCHANGED <<kept, drawn>> /\ handler[h].at = "counting"
    BY <1>3 DEF Count, storeVars
  <2>2. /\ DOMAIN handler' = Handler /\ \A g \in Handler \ {h} : handler'[g] = handler[g]
        /\ DOMAIN handler'[h] = Fields /\ handler'[h].at \in {"choosing", "creating"}
        /\ handler'[h].session = handler[h].session /\ handler'[h].pair = handler[h].pair
    <3>1. CASE Excess > 0
      <4>1. handler' = [handler EXCEPT ![h] = [@ EXCEPT !.at = "choosing", !.excess = Excess]]
        BY <1>3, <3>1 DEF Count
      <4> QED  BY <1>0, <4>1 DEF Fields
    <3>2. CASE ~(Excess > 0)
      <4>1. handler' = [handler EXCEPT ![h] = [@ EXCEPT !.at = "creating"]]
        BY <1>3, <3>2 DEF Count
      <4> QED  BY <1>0, <4>1 DEF Fields
    <3> QED  BY <3>1, <3>2
  <2> QED  BY <1>0, <2>1, <2>2, EarlyEffect DEF Early
<1>4. CASE PickOldest(h)
  <2>1. UNCHANGED <<kept, drawn>> /\ handler[h].at = "choosing"
    BY <1>4 DEF PickOldest, storeVars
  <2>2. PICK ss : handler' = [handler EXCEPT ![h] =
                     [@ EXCEPT !.at = "removing", !.picked = ss, !.excess = 0]]
    BY <1>4 DEF PickOldest
  <2>3. /\ DOMAIN handler' = Handler /\ \A g \in Handler \ {h} : handler'[g] = handler[g]
        /\ DOMAIN handler'[h] = Fields /\ handler'[h].at = "removing"
        /\ handler'[h].session = handler[h].session /\ handler'[h].pair = handler[h].pair
    BY <1>0, <2>2 DEF Fields
  <2> QED  BY <1>0, <2>1, <2>3, EarlyEffect DEF Early
<1> QED  BY <1>1, <1>2, <1>3, <1>4

\* A new session is drawn; nobody had it before.
LEMMA SetNewEffect ==
    ASSUME ConsoleInv, NEW h \in Handler, UNCHANGED clock, SetNew(h)
    PROVE  Effect(h)
<1>0. DOMAIN handler = Handler /\ DOMAIN handler[h] = Fields /\ DOMAIN kept = Session
      /\ (\A s \in Session : DOMAIN kept[s] = {"pair", "exp"} /\ kept[s].exp \in Nat)
      /\ drawn \in 0..MaxDrawn /\ setting \in Settings
  BY DEF ConsoleInv
<1>1. clock + SessionTtl \in Nat
  BY ExpiryIsNat
<1>2. setting.draws \in 0..MaxDrawn
  BY <1>0, SettingsAssumption
<1>3. drawn' = drawn + 1 /\ drawn < setting.draws /\ handler[h].at = "creating"
  BY DEF SetNew
<1>4. drawn' \in 1..MaxDrawn /\ drawn' \in drawn..MaxDrawn /\ drawn' \in Session
      /\ (1..drawn) \subseteq Session /\ drawn' \notin 1..drawn
  BY <1>0, <1>2, <1>3, ConsoleAssumption DEF Session
<1>5. /\ DOMAIN handler' = Handler /\ \A g \in Handler \ {h} : handler'[g] = handler[g]
      /\ DOMAIN handler'[h] = Fields /\ handler'[h].at = "indexing"
      /\ handler'[h].session = drawn' /\ handler'[h].pair = handler[h].pair
  <2>1. handler' = [handler EXCEPT ![h] = [@ EXCEPT !.at = "indexing", !.session = drawn + 1]]
    BY DEF SetNew
  <2> QED  BY <1>0, <1>3, <2>1 DEF Fields
<1>6. /\ DOMAIN kept' = Session
      /\ \A s \in Session \ {drawn'} : kept'[s] = kept[s]
      /\ kept'[drawn'] = [pair |-> handler[h].pair, exp |-> clock + SessionTtl]
  BY <1>0, <1>3, <1>4 DEF SetNew, Keep
<1>7. \A s \in Session : /\ DOMAIN kept'[s] = {"pair", "exp"} /\ kept'[s].exp \in Nat
                         /\ kept'[s].pair \in {kept[s].pair, handler[h].pair, NoPair}
  BY <1>0, <1>1, <1>6
<1>8. StaysDead(h)
  <2> SUFFICES ASSUME NEW s \in 1..drawn, ~Live(s)
               PROVE  ~Live(s)' /\ handler'[h].session # s
    BY DEF StaysDead
  <2>1. s # drawn' /\ s \in Session
    BY <1>4
  <2> QED  BY <1>5, <1>6, <2>1 DEF Live
<1> QED  BY <1>4, <1>5, <1>6, <1>7, <1>8 DEF Effect, Early

\* A handler begins.
LEMMA StartsEffect ==
    ASSUME ConsoleInv, NEW h \in Handler, UNCHANGED <<kept, drawn, clock>>,
           NEW at \in {"getting", "leaving"}, NEW s \in 1..drawn, NEW path, Starts(h, at, s, path)
    PROVE  Effect(h)
<1>1. DOMAIN handler = Handler
  BY DEF ConsoleInv
<1>2. handler' = [handler EXCEPT ![h] = [Idle EXCEPT !.at = at, !.session = s, !.path = path]]
  BY DEF Starts
<1>3. /\ DOMAIN handler' = Handler /\ \A g \in Handler \ {h} : handler'[g] = handler[g]
      /\ DOMAIN handler'[h] = Fields /\ handler'[h].at = at
      /\ handler'[h].session = s /\ handler'[h].pair = NoPair
  BY <1>1, <1>2 DEF Idle, Fields
<1> QED  BY <1>3, OnlyHandler DEF Finding

\* A login waits for its answer, or is refused.
LEMMA LoginEffect ==
    ASSUME ConsoleInv, NEW h \in Handler, UNCHANGED clock, NEW u \in User, Login(h, u)
    PROVE  Effect(h)
<1>1. DOMAIN handler = Handler /\ handler[h].at = "idle" /\ handler[h].session = 0
      /\ UNCHANGED <<kept, drawn>> /\ drawn \in Nat
  BY DEF ConsoleInv, Login, storeVars
<1>2. \/ /\ handler' = [handler EXCEPT ![h] = [Idle EXCEPT !.at = "signing", !.signin = RowRead(u)]]
         /\ Active(u)
      \/ handler' = [handler EXCEPT ![h] = Idle]
  BY DEF Login
<1>3. /\ DOMAIN handler' = Handler /\ \A g \in Handler \ {h} : handler'[g] = handler[g]
      /\ DOMAIN handler'[h] = Fields /\ handler'[h].at \in {"idle", "signing"}
      /\ handler'[h].session = 0 /\ handler'[h].pair = NoPair
      /\ handler'[h].at = "signing" => Active(u) /\ handler'[h].signin = RowRead(u)
  <2>1. CASE handler' = [handler EXCEPT ![h] = Idle]
    BY <1>1, <2>1 DEF Idle, Fields
  <2>2. CASE /\ handler' = [handler EXCEPT ![h] = [Idle EXCEPT !.at = "signing", !.signin = RowRead(u)]]
             /\ Active(u)
    BY <1>1, <2>2 DEF Idle, Fields
  <2> QED  BY <1>2, <2>1, <2>2
<1>4. (\A s \in 1..drawn : handler'[h].session # s) /\ handler'[h].at \in Early
  BY <1>1, <1>3 DEF Early
<1> QED  BY <1>1, <1>3, <1>4, OnlyHandler

\* A login that identity answers in time begins to make room.
LEMMA SignedInEffect ==
    ASSUME ConsoleInv, NEW h \in Handler, UNCHANGED clock, SignedIn(h)
    PROVE  Effect(h)
<1> DEFINE u == handler[h].signin.user
<1>1. DOMAIN handler = Handler /\ handler[h].at = "signing"
      /\ UNCHANGED <<kept, drawn>> /\ drawn \in Nat
  BY DEF ConsoleInv, SignedIn, storeVars
<1>2. \/ /\ handler' = [handler EXCEPT ![h] = [Idle EXCEPT !.at = "evicting", !.pair = Pair(u)]]
         /\ Awaited(handler[h].signin)
      \/ handler' = [handler EXCEPT ![h] = Idle]
  BY DEF SignedIn
<1>3. /\ DOMAIN handler' = Handler /\ \A g \in Handler \ {h} : handler'[g] = handler[g]
      /\ DOMAIN handler'[h] = Fields /\ handler'[h].at \in {"idle", "evicting"}
      /\ handler'[h].session = 0
      /\ \/ handler'[h].pair = NoPair
         \/ Renews(h, u) /\ handler'[h].pair = Pair(u)
  <2>1. CASE handler' = [handler EXCEPT ![h] = Idle]
    BY <1>1, <2>1 DEF Idle, Fields
  <2>2. CASE /\ handler' = [handler EXCEPT ![h] = [Idle EXCEPT !.at = "evicting", !.pair = Pair(u)]]
             /\ Awaited(handler[h].signin)
    <3>1. Renews(h, u)
      BY <1>1, <2>2 DEF Renews
    <3> HIDE DEF u
    <3> QED  BY <1>1, <2>2, <3>1 DEF Idle, Fields
  <2> QED  BY <1>2, <2>1, <2>2
<1>4. (\A s \in 1..drawn : handler'[h].session # s) /\ handler'[h].at \in Early
      /\ handler'[h].at # "signing"
  BY <1>1, <1>3 DEF Early
<1> HIDE DEF u
<1>5. \/ handler'[h].pair \in {handler[h].pair, NoPair}
      \/ \E v : Renews(h, v) /\ handler'[h].pair = Pair(v)
  BY <1>3
<1> QED  BY <1>1, <1>3, <1>4, <1>5, OnlyHandler

\* A handler that ends leaves the store as it is, wherever it was.
LEMMA DiesEffect ==
    ASSUME ConsoleInv, NEW h \in Handler, UNCHANGED clock, Dies(h)
    PROVE  Effect(h)
<1>1. UNCHANGED <<kept, drawn>> /\ Goes(h, "idle") /\ drawn \in Nat
  BY DEF ConsoleInv, Dies, Ends
<1>2. /\ DOMAIN handler' = Handler /\ \A g \in Handler \ {h} : handler'[g] = handler[g]
      /\ DOMAIN handler'[h] = Fields /\ handler'[h].at = "idle"
      /\ handler'[h].session = 0 /\ handler'[h].pair = NoPair
  BY <1>1, GoesOn
<1>3. (\A s \in 1..drawn : handler'[h].session # s) /\ handler'[h].at \in Early
  BY <1>1, <1>2 DEF Early
<1> QED  BY <1>1, <1>2, <1>3, OnlyHandler

\* A refresh gives the user a new pair, or is the end of the session.
LEMMA RefreshEffect ==
    ASSUME ConsoleInv, NEW h \in Handler, UNCHANGED clock, Refresh(h)
    PROVE  Effect(h)
<1>1. DOMAIN handler = Handler /\ DOMAIN handler[h] = Fields /\ handler[h].at = "refreshing"
      /\ UNCHANGED <<kept, drawn>>
  BY DEF ConsoleInv, Refresh, storeVars
<1>2. handler[h].session \in 1..drawn
  BY <1>1 DEF ConsoleInv, Early
<1> DEFINE token == handler[h].pair.refresh
<1>3. \/ /\ handler' = [handler EXCEPT ![h] = [@ EXCEPT !.at = "replacing", !.pair = Pair(token.sub)]]
         /\ MayRefresh(token)
      \/ handler' = [handler EXCEPT ![h] = [@ EXCEPT !.at = "dropping"]]
  BY DEF Refresh
<1>4. /\ DOMAIN handler' = Handler /\ \A g \in Handler \ {h} : handler'[g] = handler[g]
      /\ DOMAIN handler'[h] = Fields /\ handler'[h].at \in {"replacing", "dropping"}
      /\ handler'[h].session = handler[h].session
      /\ \/ handler'[h].pair = handler[h].pair
         \/ MayRefresh(token) /\ handler'[h].pair = Pair(token.sub)
  BY <1>1, <1>3 DEF Fields
<1>5. \A s \in 1..drawn : ~(handler'[h].session = s /\ (handler[h].session = s => handler[h].at \in Finding))
  BY <1>1, <1>4 DEF Finding
<1>6. MayRefresh(token) => Renews(h, token.sub)
  BY DEF MayRefresh, Renews
<1> QED  BY <1>1, <1>2, <1>4, <1>5, <1>6, OnlyHandler

\* Calling, hearing the answer and setting the cookie.
LEMMA OtherSteps ==
    ASSUME ConsoleInv, NEW h \in Handler, UNCHANGED clock,
           \/ Call(h, "calling me", "loading", Me)
           \/ Hear(h, "loading", "confirming", "dropping", "dropping")
           \/ Call(h, "calling", "waiting", handler[h].path)
           \/ Hear(h, "waiting", "idle", "refreshing", "idle")
           \/ Call(h, "calling again", "waiting again", handler[h].path)
           \/ Hear(h, "waiting again", "idle", "dropping", "idle")
           \/ Open(h)
    PROVE  Effect(h)
<1>1. PICK next \in {"loading", "waiting", "waiting again", "confirming", "dropping", "refreshing", "idle"} :
         Goes(h, next)
  BY DEF Call, Hear, Open, Ends
<1>2. UNCHANGED <<kept, drawn>>
      /\ handler[h].at \in {"calling me", "loading", "calling", "waiting", "calling again",
                            "waiting again", "opening"}
  BY DEF Call, Hear, Open, storeVars
<1> QED  BY <1>1, <1>2, GoesEffect DEF Early, Finding

\* A logout deletes the session of its handler and no other.
LEMMA CloseEffect ==
    ASSUME ConsoleInv, NEW h \in Handler, UNCHANGED clock, Close(h)
    PROVE  Effect(h)
<1>1. handler[h].at = "deleting" /\ Goes(h, "idle") /\ UNCHANGED drawn /\ Remove({handler[h].session})
  BY DEF Close, Ends
<1>2. /\ DOMAIN kept' = Session
      /\ \A s \in Session : kept'[s] = IF s \in {handler[h].session} THEN NoSession ELSE kept[s]
  BY <1>1, RemoveEffect
<1>3. DOMAIN NoSession = {"pair", "exp"} /\ NoSession.exp \in Nat /\ NoSession.pair = NoPair
  BY DEF NoSession
<1> QED  BY <1>1, <1>2, <1>3, StoreEffect DEF Early, Finding

\* Whatever a handler does keeps within its effect.
LEMMA BrowserEffect ==
    ASSUME ConsoleInv, NEW h \in Handler, BrowserStep(h)
    PROVE  Effect(h) /\ UNCHANGED identityVars
<1>1. UNCHANGED identityVars /\ UNCHANGED clock
  BY DEF BrowserStep, identityVars
<1>2. ASSUME NEW u \in setting.users, Login(h, u)
      PROVE  Effect(h)
  <2>1. u \in User
    BY SettingsAssumption DEF ConsoleInv
  <2> QED  BY <1>1, <1>2, <2>1, LoginEffect
<1>3. ASSUME NEW s \in 1..drawn, NEW path, Logout(h, s) \/ Request(h, s, path)
      PROVE  Effect(h)
  <2>1. UNCHANGED <<kept, drawn>> /\ \E way : \E at \in {"getting", "leaving"} : Starts(h, at, s, way)
    BY <1>3 DEF Logout, Request, storeVars
  <2> QED  BY <1>1, <2>1, StartsEffect
<1>4. CASE ConsoleStep(h)
  <2>1. CASE StoreStep(h)
    BY <1>1, <2>1, GetKeyEffect, GetPairEffect, SessionCommands, GoneEffect, EvictCommands,
       SetNewEffect DEF StoreStep
  <2> QED  BY <1>1, <1>4, <2>1, OtherSteps, RefreshEffect, CloseEffect, SignedInEffect, DiesEffect
           DEF ConsoleStep
<1> QED  BY <1>1, <1>2, <1>3, <1>4 DEF BrowserStep

\* A step that hands out no cookie and answers no logout leaves both as they are.
LEMMA OnlyOpenAndClose ==
    ASSUME NEW h, BrowserStep(h)
    PROVE  /\ UNCHANGED opened \/ Open(h)
           /\ UNCHANGED closed \/ Close(h)
BY DEF BrowserStep, Login, SignedIn, Dies, Logout, Request, ConsoleStep, Call, Hear, Refresh, Open, Close

\* Every step of a handler keeps the console's types.
LEMMA BrowserKeepsConsole ==
    ASSUME ConsoleInv, NEW h \in Handler, BrowserStep(h)
    PROVE  ConsoleInv'
<1>1. Effect(h) /\ UNCHANGED <<setting, clock>>
  BY BrowserEffect DEF identityVars
<1>2. opened' \subseteq 1..drawn'
  <2>1. drawn \in Nat /\ drawn' >= drawn /\ drawn' \in Nat
    BY <1>1 DEF Effect, ConsoleInv
  <2>2. (1..drawn) \subseteq (1..drawn')
    BY <2>1
  <2>3. CASE UNCHANGED opened
    BY <2>2, <2>3 DEF ConsoleInv
  <2>4. CASE Open(h)
    <3>1. handler[h].session \in 1..drawn /\ opened' = opened \cup {handler[h].session}
      BY <2>4 DEF Open, ConsoleInv, Early
    <3> QED  BY <2>2, <3>1 DEF ConsoleInv
  <2> QED  BY <2>3, <2>4, OnlyOpenAndClose
<1>3. \A g \in Handler : /\ DOMAIN handler'[g] = Fields
                         /\ handler'[g].at \in Early \/ handler'[g].session \in 1..drawn'
                         /\ handler'[g].at = "idle" => handler'[g].session = 0
  <2> TAKE g \in Handler
  <2>1. CASE g = h
    BY <1>1, <2>1 DEF Effect
  <2>2. CASE g # h
    <3>1. handler'[g] = handler[g]
      BY <1>1, <2>2 DEF Effect
    <3>2. drawn \in Nat /\ drawn' >= drawn /\ drawn' \in Nat
      BY <1>1 DEF Effect, ConsoleInv
    <3>3. (1..drawn) \subseteq (1..drawn')
      BY <3>2
    <3> QED  BY <3>1, <3>3 DEF ConsoleInv
  <2> QED  BY <2>1, <2>2
<1>4. drawn' \in 0..MaxDrawn
  <2>1. drawn \in 0..MaxDrawn /\ drawn' \in drawn..MaxDrawn
    BY <1>1 DEF Effect, ConsoleInv
  <2> QED  BY <2>1, ConsoleAssumption
<1> QED  BY <1>1, <1>2, <1>3, <1>4 DEF Effect, ConsoleInv

\* Every step of a handler leaves closed sessions closed.
LEMMA BrowserKeepsClosed ==
    ASSUME ConsoleInv, ClosedInv, NEW h \in Handler, BrowserStep(h)
    PROVE  ClosedInv'
<1>1. Effect(h) /\ UNCHANGED clock
  BY BrowserEffect DEF identityVars
<1>2. drawn' >= drawn /\ drawn \in Nat /\ drawn' \in Nat /\ clock \in Nat
  BY <1>1 DEF Effect, ConsoleInv
<1>3. ASSUME NEW s \in DOMAIN closed
      PROVE  /\ s \in 1..drawn'
             /\ closed[s] = {} =>
                  /\ ~Live(s)'
                  /\ \A g \in Handler : handler'[g].session = s => handler'[g].at \in Finding
  <2>1. /\ s \in 1..drawn
        /\ closed[s] = {} =>
             /\ ~Live(s)
             /\ \A g \in Handler : handler[g].session = s => handler[g].at \in Finding
    BY DEF ClosedInv, Finding
  <2>2. s \in 1..drawn'
    BY <1>2, <2>1
  <2>3. ASSUME closed[s] = {}
        PROVE  ~Live(s)' /\ (handler'[h].session = s => handler'[h].at \in Finding)
    BY <1>1, <2>1, <2>3 DEF Effect, StaysDead
  <2>4. \A g \in Handler \ {h} : handler'[g] = handler[g]
    BY <1>1 DEF Effect
  <2> QED  BY <2>1, <2>2, <2>3, <2>4
<1>4. CASE UNCHANGED closed
  BY <1>3, <1>4 DEF ClosedInv, Finding
<1>5. CASE Close(h)
  <2>0. PICK s0 : s0 = handler[h].session
    OBVIOUS
  <2>1. /\ s0 \in 1..drawn /\ Remove({s0}) /\ Ends(h)
        /\ closed' = [t \in DOMAIN closed \cup {s0} |->
              IF t = s0 THEN {g \in Handler \ {h} : handler[g].session = s0} ELSE closed[t]]
    BY <1>5, <2>0 DEF Close, ConsoleInv, Early
  <2>2. s0 \in Session /\ s0 \in 1..drawn' /\ s0 # 0
    BY <1>2, <2>1, ConsoleAssumption DEF Session, ConsoleInv
  <2>3. ~Live(s0)'
    BY <1>2, <1>1, <2>1, <2>2 DEF Live, Remove, NoSession
  <2>4. handler'[h].session # s0 /\ \A g \in Handler \ {h} : handler'[g] = handler[g]
    BY <2>1, <2>2, GoesOn DEF Ends
  <2>5. closed'[s0] = {} => \A g \in Handler : handler'[g].session # s0
    BY <2>1, <2>4, <2>0
  <2>6. ASSUME NEW s \in DOMAIN closed'
        PROVE  /\ s \in 1..drawn'
               /\ closed'[s] = {} =>
                    /\ ~Live(s)'
                    /\ \A g \in Handler : handler'[g].session = s => handler'[g].at \in Finding
    <3>1. CASE s = s0
      BY <2>2, <2>3, <2>5, <3>1
    <3>2. CASE s # s0
      <4>1. s \in DOMAIN closed /\ closed'[s] = closed[s]
        BY <2>1, <3>2
      <4> QED  BY <1>3, <4>1
    <3> QED  BY <3>1, <3>2
  <2> QED  BY <2>6 DEF ClosedInv, Finding
<1> QED  BY <1>4, <1>5, OnlyOpenAndClose

\* Everything else leaves the console alone, and time does not run backwards.
LEMMA OthersLeaveConsole ==
    ASSUME ConsoleInv, [Next]_vars, ~(\E h \in setting.handlers : BrowserStep(h))
    PROVE  UNCHANGED <<setting, consoleVars>> /\ clock' \in Nat /\ clock' >= clock
<1>0. clock \in Nat
  BY DEF ConsoleInv
<1>1. ASSUME NEW c, ClientStep(c) \/ CallStep(c)
      PROVE  UNCHANGED <<setting, clock, consoleVars>>
  BY <1>1 DEF ClientStep, CallStep, ClientLogin, ClientSignedIn, ClientRefresh, ClientAsk, identityVars
<1>2. CASE AdministratorStep
  BY <1>0, <1>2 DEF AdministratorStep, CreateUser, SetUserStatus
<1>3. CASE IdentityStep
  <2>1. UNCHANGED consoleVars
    BY <1>3 DEF IdentityStep
  <2>2. UNCHANGED setting /\ clock' \in {clock, clock + 1}
    BY <1>3 DEF IdentityStep, BootstrapRead, BootstrapCommit, RotateKey, Tick
  <2> QED  BY <1>0, <2>1, <2>2
<1>4. CASE UNCHANGED vars
  BY <1>0, <1>4 DEF vars, identityVars
<1> QED  BY <1>0, <1>1, <1>2, <1>3, <1>4 DEF Next

\* At first there is no session.
LEMMA ConsoleInitially == Init => ConsoleInv /\ ClosedInv
<1> SUFFICES ASSUME Init  PROVE ConsoleInv /\ ClosedInv
  OBVIOUS
<1>1. /\ setting \in Settings /\ clock = 0 /\ kept = [s \in Session |-> NoSession]
      /\ handler = [h \in Handler |-> Idle] /\ drawn = 0 /\ opened = {}
      /\ closed = [s \in {} |-> {}]
  BY DEF Init, IdentityInit, ConsoleInit
<1> QED  BY <1>1, ConsoleAssumption DEF ConsoleInv, ClosedInv, NoSession, Idle, Fields, Early

\* Every step keeps the console's types and closed sessions closed.
LEMMA ConsolePreserved == ConsoleInv /\ ClosedInv /\ [Next]_vars => (ConsoleInv /\ ClosedInv)'
<1> SUFFICES ASSUME ConsoleInv, ClosedInv, [Next]_vars
             PROVE  ConsoleInv' /\ ClosedInv'
  OBVIOUS
<1>1. ASSUME NEW h \in setting.handlers, BrowserStep(h)
      PROVE  ConsoleInv' /\ ClosedInv'
  <2>1. h \in Handler
    BY SettingsAssumption DEF ConsoleInv
  <2> QED  BY <1>1, <2>1, BrowserKeepsConsole, BrowserKeepsClosed
<1>2. CASE ~(\E h \in setting.handlers : BrowserStep(h))
  <2>1. UNCHANGED <<setting, kept, drawn, handler, opened, closed>> /\ clock' \in Nat /\ clock' >= clock
    BY <1>2, OthersLeaveConsole DEF consoleVars
  <2>2. \A s \in 1..drawn : ~Live(s) => ~Live(s)'
    <3>1. (1..drawn) \subseteq Session /\ clock \in Nat
      BY ConsoleAssumption DEF Session, ConsoleInv
    <3>2. \A s \in 1..drawn : kept[s].exp \in Nat
      BY <3>1 DEF ConsoleInv
    <3> QED  BY <2>1, <3>1, <3>2 DEF Live
  <2>3. ConsoleInv'
    BY <2>1 DEF ConsoleInv
  <2>4. ClosedInv'
    BY <2>1, <2>2 DEF ClosedInv
  <2> QED  BY <2>3, <2>4
<1> QED  BY <1>1, <1>2

\* A session whose logout was answered while nobody else was at work on it stays
\* dead, whatever is asked with its cookie and however the handlers of several
\* processes interleave (logout).
THEOREM LogoutsAreFinal == Spec => []LogoutIsFinal
<1>1. Spec => [](ConsoleInv /\ ClosedInv)
  BY ConsoleInitially, ConsolePreserved, PTL DEF Spec
<1>2. ClosedInv => LogoutIsFinal
  BY DEF ClosedInv, LogoutIsFinal
<1> QED  BY <1>1, <1>2, PTL

-----------------------------------------------------------------------------
(* Tokens and keys *)

\* What identity issued: signed with a key it had, by now; an access token runs out in
\* time, and if its user is disabled within the life of one that a login answered just
\* in time was given.
Issued(t, type, key, now, table) ==
    \/ t = NoToken
    \/ /\ t.type = type /\ t.sub \in User /\ t.key \in 1..key /\ t.exp \in Nat
       /\ type = "access" =>
            /\ t.exp <= now + AccessLife
            /\ table[t.sub].status = "disabled" =>
                  t.exp <= table[t.sub].since + AccessLife + SignInTimeout

IssuedPair(p, key, now, table) ==
    Issued(p.access, "access", key, now, table) /\ Issued(p.refresh, "refresh", key, now, table)

CallFields == {"at", "path", "token", "got", "since"}

IdentityOK ==
    /\ setting \in Settings
    /\ clock \in Nat /\ signingKey \in 1..MaxKey /\ DOMAIN users = User
    /\ \A u \in User : users[u].since \in 0..clock
    /\ DOMAIN retired = 1..MaxKey /\ \A k \in 1..MaxKey : retired[k] \in Nat

\* Every pair that is kept anywhere was issued, and every token that is shown.
PairsOK ==
    /\ DOMAIN wallet = Client
    /\ \A c \in Client : IssuedPair(wallet[c], signingKey, clock, users)
    /\ \A h \in Handler : IssuedPair(handler[h].pair, signingKey, clock, users)
    /\ \A s \in Session : IssuedPair(kept[s].pair, signingKey, clock, users)

\* A login that identity is answering: its user was not disabled before the row was read.
SignInOK(s, now, table) ==
    /\ s.user \in User /\ s.since \in 0..now
    /\ table[s.user].status = "disabled" => table[s.user].since >= s.since

SignInsOK ==
    /\ DOMAIN signin = Client
    /\ \A c \in Client : signin[c] # NoSignIn => SignInOK(signin[c], clock, users)
    /\ \A h \in Handler : handler[h].at = "signing" => SignInOK(handler[h].signin, clock, users)

CallsOK ==
    /\ DOMAIN call = Caller
    /\ \A c \in Caller :
        /\ DOMAIN call[c] = CallFields
        /\ \/ Issued(call[c].token, "access", signingKey, clock, users)
           \/ Issued(call[c].token, "refresh", signingKey, clock, users)

\* A key that identity has replaced was had from it no later than that, but for the
\* time it took to store it.
NotTooOld(k, since, slack, key, ends) == k < key => since <= ends[k] + slack

HeldKey(r, key, now, ends) ==
    /\ r.key \in 0..key /\ r.at \in 0..now
    /\ r.key # 0 => NotTooOld(r.key, r.at, FetchTimeout, key, ends)

HeldAnswer(r, key, now, ends) ==
    r.at \in {"answered", "reanswered"} =>
        /\ r.got \in 1..key /\ r.since \in 0..now
        /\ NotTooOld(r.got, r.since, 0, key, ends)
        /\ r.token.key <= r.got

KeysOK ==
    /\ DOMAIN keys = Service
    /\ \A s \in Service : HeldKey(keys[s], signingKey, clock, retired)
    /\ \A c \in Caller : HeldAnswer(call[c], signingKey, clock, retired)
    /\ \A c \in Caller : ReadsBack(c) => keys["telemetry"].at = clock

\* A token issued now, to a user who was disabled a short while ago at most.
LEMMA IssuedNow ==
    ASSUME IdentityOK, NEW u \in User,
           users[u].status = "disabled" => clock <= users[u].since + SignInTimeout
    PROVE  IssuedPair(Pair(u), signingKey, clock, users)
<1>1. clock \in Nat /\ signingKey \in Nat /\ signingKey \in 1..signingKey
      /\ users[u].since \in Nat
  BY BoundsAssumption DEF IdentityOK
<1>2. clock + AccessLife \in Nat /\ clock + RefreshLife \in Nat
  <2>1. AccessLife \in Nat /\ RefreshLife \in Nat
    BY LivesAssumption
  <2> QED  BY <1>1, <2>1
<1>3. Issued(NewToken(u, "access"), "access", signingKey, clock, users)
  <2> DEFINE t == NewToken(u, "access")
  <2>1. t.type = "access" /\ t.sub = u /\ t.key = signingKey /\ t.exp = clock + AccessLife
    BY DEF NewToken
  <2>2. AccessLife \in Nat /\ SignInTimeout \in Nat
    BY LivesAssumption, SignInAssumption
  <2>3. users[u].status = "disabled" => clock + AccessLife <= users[u].since + AccessLife + SignInTimeout
    BY <1>1, <2>2
  <2>4. clock + AccessLife <= clock + AccessLife
    BY <1>2
  <2> HIDE DEF t
  <2>5. Issued(t, "access", signingKey, clock, users)
    BY <1>1, <1>2, <2>1, <2>3, <2>4 DEF Issued
  <2> QED  BY <2>5 DEF t
<1>4. Issued(NewToken(u, "refresh"), "refresh", signingKey, clock, users)
  BY <1>1, <1>2 DEF Issued, NewToken
<1> QED  BY <1>3, <1>4 DEF IssuedPair, Pair

\* The empty token and the empty pair were issued by nobody, and nothing is required of them.
LEMMA NothingIssued == \A key, now, table :
    /\ IssuedPair(NoPair, key, now, table)
    /\ Issued(NoToken, "access", key, now, table)
BY DEF IssuedPair, Issued, NoPair

\* A login that is answered in time was read no longer ago than that.
LEMMA AnsweredInTime ==
    ASSUME IdentityOK, NEW s, SignInOK(s, clock, users), Awaited(s)
    PROVE  s.user \in User /\ IssuedPair(Pair(s.user), signingKey, clock, users)
<1>1. /\ s.user \in User /\ s.since \in Nat /\ clock \in Nat /\ users[s.user].since \in Nat
      /\ users[s.user].status = "disabled" => users[s.user].since >= s.since
      /\ clock <= s.since + SignInTimeout /\ SignInTimeout \in Nat
  BY SignInAssumption DEF IdentityOK, SignInOK, Awaited
<1>2. users[s.user].status = "disabled" => clock <= users[s.user].since + SignInTimeout
  BY <1>1
<1> QED  BY <1>1, <1>2, IssuedNow

\* A login that begins reads the row of an active user.
LEMMA RowReadNow ==
    ASSUME IdentityOK, NEW u \in User, Active(u)
    PROVE  SignInOK(RowRead(u), clock, users)
BY DEF IdentityOK, SignInOK, RowRead, Active

\* The token of a renewal belongs to a user.
LEMMA RenewedUser ==
    ASSUME NEW t, NEW key, NEW now, NEW table, Issued(t, "refresh", key, now, table),
           Decodes(t, "refresh")
    PROVE  t.sub \in User
BY DEF Issued, Decodes, NoToken

-----------------------------------------------------------------------------
(* What identity does *)

\* A step of identity that may change users, key and time, but not what was issued.
Aging ==
    /\ setting' = setting
    /\ clock' \in Nat /\ clock' >= clock /\ signingKey' \in 1..MaxKey /\ signingKey' >= signingKey
    /\ DOMAIN users' = User
    /\ \A u \in User : \/ users'[u] = users[u]
                       \/ users'[u].since = clock /\ clock' = clock
    /\ DOMAIN retired' = 1..MaxKey
    /\ \/ signingKey' = signingKey /\ retired' = retired
       \/ /\ signingKey' = signingKey + 1 /\ retired'[signingKey] = clock /\ clock' = clock
          /\ \A k \in (1..MaxKey) \ {signingKey} : retired'[k] = retired[k]

\* What identity, an administrator or nobody does only lets keys and users age.
LEMMA IdentityAges ==
    ASSUME IdentityOK, IdentityStep \/ AdministratorStep \/ UNCHANGED identityVars
    PROVE  Aging
<1>0. clock \in Nat /\ signingKey \in 1..MaxKey /\ DOMAIN users = User /\ DOMAIN retired = 1..MaxKey
      /\ signingKey \in Nat /\ MaxKey \in Nat
  BY BoundsAssumption DEF IdentityOK
<1>1. ASSUME UNCHANGED <<setting, clock, signingKey, retired>>,
             UNCHANGED users \/ \E u, status : Become(u, status)
      PROVE  Aging
  <2>1. DOMAIN users' = User
    BY <1>0, <1>1 DEF Become
  <2>2. \A u \in User : users'[u] = users[u] \/ users'[u].since = clock
    BY <1>0, <1>1 DEF Become
  <2> QED  BY <1>0, <1>1, <2>1, <2>2 DEF Aging
<1>2. ASSUME NEW b, BootstrapRead(b) \/ BootstrapCommit(b)
      PROVE  Aging
  <2>1. UNCHANGED <<setting, clock, signingKey, retired>>
    BY <1>2 DEF BootstrapRead, BootstrapCommit
  <2>2. UNCHANGED users \/ \E u, status : Become(u, status)
    BY <1>2 DEF BootstrapRead, BootstrapCommit
  <2> QED  BY <1>1, <2>1, <2>2
<1>3. CASE RotateKey
  <2>1. /\ signingKey < MaxKey /\ signingKey' = signingKey + 1
        /\ retired' = [retired EXCEPT ![signingKey] = clock]
        /\ UNCHANGED <<setting, clock, users>>
    BY <1>3 DEF RotateKey
  <2>2. /\ DOMAIN retired' = 1..MaxKey /\ retired'[signingKey] = clock
        /\ \A k \in (1..MaxKey) \ {signingKey} : retired'[k] = retired[k]
    BY <1>0, <2>1
  <2>3. signingKey' \in 1..MaxKey
    BY <1>0, <2>1
  <2> QED  BY <1>0, <2>1, <2>2, <2>3 DEF Aging
<1>4. CASE Tick
  BY <1>0, <1>4 DEF Tick, Aging
<1>5. CASE AdministratorStep
  <2>1. UNCHANGED <<setting, clock, signingKey, retired>>
    BY <1>5 DEF AdministratorStep, CreateUser, SetUserStatus
  <2>2. \E u, status : Become(u, status)
    BY <1>5 DEF AdministratorStep, CreateUser, SetUserStatus
  <2> QED  BY <1>1, <2>1, <2>2
<1>6. CASE UNCHANGED identityVars
  BY <1>1, <1>6 DEF identityVars
<1> QED  BY <1>2, <1>3, <1>4, <1>5, <1>6 DEF IdentityStep

\* Ageing keeps what is known of keys and users.
LEMMA AgingKeepsIdentity == IdentityOK /\ Aging => IdentityOK'
<1> SUFFICES ASSUME IdentityOK, Aging  PROVE IdentityOK'
  OBVIOUS
<1>1. \A u \in User : users'[u].since \in 0..clock'
  <2>1. clock \in Nat /\ clock' \in Nat /\ clock' >= clock
    BY DEF IdentityOK, Aging
  <2>2. \A u \in User : users[u].since \in 0..clock
    BY DEF IdentityOK
  <2>3. \A u \in User : users'[u] = users[u] \/ users'[u].since = clock
    BY DEF Aging
  <2> QED  BY <2>1, <2>2, <2>3
<1>2. \A k \in 1..MaxKey : retired'[k] \in Nat
  BY DEF IdentityOK, Aging
<1> QED  BY <1>1, <1>2 DEF IdentityOK, Aging

\* What was issued remains so: who is disabled now has tokens of now at most.
LEMMA AgingKeepsTokens ==
    ASSUME IdentityOK, Aging, NEW t, NEW type, Issued(t, type, signingKey, clock, users)
    PROVE  Issued(t, type, signingKey', clock', users')
<1>1. /\ clock \in Nat /\ clock' \in Nat /\ clock' >= clock
      /\ signingKey \in Nat /\ signingKey' \in Nat /\ signingKey' >= signingKey
      /\ AccessLife \in Nat /\ SignInTimeout \in Nat
  BY LivesAssumption, SignInAssumption, BoundsAssumption DEF IdentityOK, Aging
<1>2. CASE t = NoToken
  BY <1>2 DEF Issued
<1>3. CASE t # NoToken
  <2>1. t.type = type /\ t.sub \in User /\ t.key \in 1..signingKey /\ t.exp \in Nat
    BY <1>3 DEF Issued
  <2>2. t.key \in 1..signingKey'
    BY <1>1, <2>1
  <2>3. ASSUME type = "access"
        PROVE  /\ t.exp <= clock' + AccessLife
               /\ users'[t.sub].status = "disabled" =>
                     t.exp <= users'[t.sub].since + AccessLife + SignInTimeout
    <3>1. /\ t.exp <= clock + AccessLife
          /\ users[t.sub].status = "disabled" =>
                t.exp <= users[t.sub].since + AccessLife + SignInTimeout
      BY <1>3, <2>3 DEF Issued
    <3>2. users'[t.sub] = users[t.sub] \/ users'[t.sub].since = clock
      BY <2>1 DEF Aging
    <3> QED  BY <1>1, <2>1, <3>1, <3>2
  <2> QED  BY <2>1, <2>2, <2>3 DEF Issued
<1> QED  BY <1>2, <1>3

\* A login that is being answered began before whatever happens to its user now.
LEMMA AgingKeepsSignIns ==
    ASSUME IdentityOK, Aging, NEW s, SignInOK(s, clock, users)
    PROVE  SignInOK(s, clock', users')
<1>1. clock \in Nat /\ clock' \in Nat /\ clock' >= clock
  BY DEF IdentityOK, Aging
<1>2. users'[s.user] = users[s.user] \/ users'[s.user].since = clock
  BY DEF Aging, SignInOK
<1> QED  BY <1>1, <1>2 DEF SignInOK

\* What was held remains so: a key replaced now was had by now.
LEMMA AgingKeepsKeys ==
    ASSUME IdentityOK, Aging, NEW k \in 1..signingKey, NEW since \in 0..clock, NEW slack \in Nat,
           NotTooOld(k, since, slack, signingKey, retired)
    PROVE  NotTooOld(k, since, slack, signingKey', retired')
<1>1. clock \in Nat /\ signingKey \in 1..MaxKey /\ MaxKey \in Nat
  BY BoundsAssumption DEF IdentityOK
<1>2. CASE signingKey' = signingKey /\ retired' = retired
  BY <1>2 DEF NotTooOld
<1>3. CASE /\ signingKey' = signingKey + 1 /\ retired'[signingKey] = clock
           /\ \A l \in (1..MaxKey) \ {signingKey} : retired'[l] = retired[l]
  <2>1. CASE k = signingKey
    BY <1>1, <1>3, <2>1 DEF NotTooOld
  <2>2. CASE k # signingKey
    <3>1. k < signingKey /\ k \in (1..MaxKey) \ {signingKey}
      BY <1>1, <2>2
    <3> QED  BY <1>3, <3>1 DEF NotTooOld
  <2> QED  BY <2>1, <2>2
<1> QED  BY <1>2, <1>3 DEF Aging

-----------------------------------------------------------------------------
(* What the services do *)

\* Only where a token would not decode anyway is it refused, telemetry-service aside.
RefusedOK == \A c \in Caller :
    call[c].at = "refused" /\ ~At(c, "telemetry") => ~Decodes(call[c].token, "access")

\* The call goes on with the token and the path it had.
CallGoes(c) ==
    /\ DOMAIN call' = Caller /\ \A d \in Caller \ {c} : call'[d] = call[d]
    /\ DOMAIN call'[c] = CallFields
    /\ call'[c].token = call[c].token

\* A verdict follows from the token and a key that was had in time.
JudgesRightly(c) ==
    LET token == call[c].token IN
    /\ NowAccepted(c) =>
        /\ token.type = "access" /\ clock < token.exp
        /\ token.key < signingKey => clock < retired[token.key] + CacheSeconds + FetchTimeout
    /\ call[c].at # "refused" /\ call'[c].at = "refused" /\ ~At(c, "telemetry") =>
        ~Decodes(token, "access")

\* A step of a service on a call, at most.
VerifierEffect(c) ==
    /\ CallGoes(c) /\ call'[c].path = call[c].path /\ JudgesRightly(c)
    /\ DOMAIN keys' = Service
    /\ \A s \in Service : HeldKey(keys'[s], signingKey, clock, retired)
    /\ HeldAnswer(call'[c], signingKey, clock, retired)
    /\ ReadsBack(c)' => keys'["telemetry"].at = clock
    /\ keys'["telemetry"].at \in {keys["telemetry"].at, clock}

\* What _key_for_kid and the rest of verify decide.
LEMMA Verdicts ==
    ASSUME NEW c, NEW key, NEW last \in BOOLEAN
    PROVE  LET token == call[c].token
               v == Judged(c, key, last)
               good == clock < token.exp /\ token.type = "access"
           IN  /\ v \in {"accepted", "refused", "again"}
               /\ v = "accepted" => key = token.key /\ good
               /\ v = "refused" => (key = token.key /\ ~good) \/ (key # token.key /\ last)
BY DEF Judged

\* An access token that was issued names a key that identity had.
LEMMA AccessTokenKey ==
    ASSUME CallsOK, NEW c \in Caller, call[c].token.type = "access"
    PROVE  call[c].token.key \in 1..signingKey
<1>1. Issued(call[c].token, "access", signingKey, clock, users)
      \/ Issued(call[c].token, "refresh", signingKey, clock, users)
  BY DEF CallsOK
<1> QED  BY <1>1 DEF Issued, NoToken

\* No token names a key that identity does not have yet.
LEMMA TokenKeyRange ==
    ASSUME CallsOK, IdentityOK, NEW c \in Caller
    PROVE  call[c].token.key \in 0..signingKey /\ signingKey \in Nat
<1>1. Issued(call[c].token, "access", signingKey, clock, users)
      \/ Issued(call[c].token, "refresh", signingKey, clock, users)
  BY DEF CallsOK
<1>2. signingKey \in Nat
  BY BoundsAssumption DEF IdentityOK
<1> QED  BY <1>1, <1>2 DEF Issued, NoToken

\* A call that looks for the key in the cache of its service judges rightly or goes on.
LEMMA LookupEffect ==
    ASSUME IdentityOK, CallsOK, KeysOK, NEW c \in Caller, NEW s \in Service,
           call[c].at \in {"asked", "again"}, Lookup(c, s)
    PROVE  VerifierEffect(c)
<1>0. DOMAIN call = Caller /\ DOMAIN call[c] = CallFields /\ UNCHANGED keys
  BY DEF CallsOK, Lookup
<1>1. CASE call[c].at = "asked" /\ Fresh(s)
  <2> DEFINE v == Judged(c, keys[s].key, FALSE)
  <2>1. call' = [call EXCEPT ![c] = [@ EXCEPT !.at = v]]
    BY <1>1 DEF Lookup
  <2>2. /\ CallGoes(c) /\ call'[c].path = call[c].path /\ call'[c].at = v
    BY <1>0, <2>1 DEF CallGoes, CallFields
  <2>3. LET token == call[c].token
            good == clock < token.exp /\ token.type = "access"
        IN  /\ v \in {"accepted", "refused", "again"}
            /\ v = "accepted" => keys[s].key = token.key /\ good
            /\ v = "refused" => keys[s].key = token.key /\ ~good
    BY Verdicts
  <2> HIDE DEF v
  <2>4. ASSUME v = "accepted", call[c].token.key < signingKey
        PROVE  clock < retired[call[c].token.key] + CacheSeconds + FetchTimeout
    <3>1. keys[s].key = call[c].token.key /\ call[c].token.type = "access"
      BY <2>3, <2>4
    <3>2. call[c].token.key \in 1..signingKey
      BY <3>1, AccessTokenKey
    <3>3. clock - keys[s].at < CacheSeconds
      BY <1>1 DEF Fresh
    <3>4. HeldKey(keys[s], signingKey, clock, retired)
      BY DEF KeysOK
    <3>5. keys[s].at <= retired[call[c].token.key] + FetchTimeout /\ keys[s].at \in 0..clock
      BY <2>4, <3>1, <3>2, <3>4 DEF HeldKey, NotTooOld
    <3>6. clock \in Nat /\ retired[call[c].token.key] \in Nat /\ FetchTimeout \in Nat /\ CacheSeconds \in Nat
      <4>1. call[c].token.key \in 1..MaxKey
        BY <3>2, BoundsAssumption DEF IdentityOK
      <4> QED  BY <4>1, CacheAssumption DEF IdentityOK
    <3> QED  BY <3>3, <3>5, <3>6
  <2>5. JudgesRightly(c)
    BY <2>2, <2>3, <2>4 DEF JudgesRightly, NowAccepted, Decodes
  <2>6. call'[c].at \notin {"answered", "reanswered", "stored", "restored"}
    BY <2>2, <2>3
  <2> QED  BY <1>0, <2>2, <2>5, <2>6 DEF VerifierEffect, HeldAnswer, ReadsBack, KeysOK
<1>2. CASE ~(call[c].at = "asked" /\ Fresh(s))
  <2>1. \E at \in {"refetching", "fetching"} : call' = [call EXCEPT ![c] = [@ EXCEPT !.at = at]]
    BY <1>2 DEF Lookup
  <2>2. /\ CallGoes(c) /\ call'[c].path = call[c].path /\ call'[c].at \in {"refetching", "fetching"}
    BY <1>0, <2>1 DEF CallGoes, CallFields
  <2>3. JudgesRightly(c)
    BY <2>2 DEF JudgesRightly, NowAccepted
  <2> QED  BY <1>0, <2>2, <2>3 DEF VerifierEffect, HeldAnswer, ReadsBack, KeysOK
<1> QED  BY <1>1, <1>2

\* A call that is given the key by identity holds the one of that moment.
LEMMA AnswerEffect ==
    ASSUME IdentityOK, CallsOK, KeysOK, NEW c \in Caller, Answer(c)
    PROVE  VerifierEffect(c)
<1>0. DOMAIN call = Caller /\ DOMAIN call[c] = CallFields /\ UNCHANGED keys
  BY DEF CallsOK, Answer
<1>1. call' = [call EXCEPT ![c] =
         [@ EXCEPT !.at = IF @ = "fetching" THEN "answered" ELSE "reanswered",
                   !.got = signingKey, !.since = clock]]
  BY DEF Answer
<1>2. /\ CallGoes(c) /\ call'[c].path = call[c].path /\ call'[c].at \in {"answered", "reanswered"}
      /\ call'[c].got = signingKey /\ call'[c].since = clock
  BY <1>0, <1>1 DEF CallGoes, CallFields
<1>3. signingKey \in 1..signingKey /\ clock \in 0..clock /\ signingKey \in Nat /\ ~(signingKey < signingKey)
  BY BoundsAssumption DEF IdentityOK
<1>4. call'[c].token.key <= signingKey
  BY <1>2, TokenKeyRange DEF CallGoes
<1>5. HeldAnswer(call'[c], signingKey, clock, retired)
  BY <1>2, <1>3, <1>4 DEF HeldAnswer, NotTooOld
<1>6. JudgesRightly(c)
  BY <1>2 DEF JudgesRightly, NowAccepted
<1> QED  BY <1>0, <1>2, <1>5, <1>6 DEF VerifierEffect, ReadsBack, KeysOK

\* What is stored was had in time, and is stored now.
LEMMA StoreKeeps ==
    ASSUME IdentityOK, KeysOK, NEW c \in Caller, NEW s \in Service, Store(c, s)
    PROVE  /\ DOMAIN keys' = Service
           /\ \A r \in Service : HeldKey(keys'[r], signingKey, clock, retired)
           /\ keys'[s].at = clock
           /\ keys'["telemetry"].at \in {keys["telemetry"].at, clock}
           /\ call[c].at \in {"answered", "reanswered"}
           /\ call[c].got \in 1..signingKey /\ call[c].token.key <= call[c].got
           /\ call[c].got < signingKey => clock <= retired[call[c].got] + FetchTimeout
<1>0. "telemetry" \in Service
  BY ServiceAssumption
<1>1. call[c].at \in {"answered", "reanswered"} /\ InTime(c)
      /\ keys' = [keys EXCEPT ![s] = [key |-> call[c].got, at |-> clock]]
  BY DEF Store
<1>2. /\ call[c].got \in 1..signingKey /\ call[c].since \in 0..clock
      /\ NotTooOld(call[c].got, call[c].since, 0, signingKey, retired)
      /\ call[c].token.key <= call[c].got
  BY <1>1 DEF KeysOK, HeldAnswer
<1>3. clock \in Nat /\ signingKey \in Nat /\ signingKey \in 1..MaxKey /\ FetchTimeout \in Nat
  BY BoundsAssumption, CacheAssumption DEF IdentityOK
<1>4. clock <= call[c].since + FetchTimeout
  BY <1>1, <1>2 DEF InTime
<1>5. ASSUME call[c].got < signingKey
      PROVE  clock <= retired[call[c].got] + FetchTimeout
  <2>1. call[c].since <= retired[call[c].got] + 0
    BY <1>2, <1>5 DEF NotTooOld
  <2>2. retired[call[c].got] \in Nat
    <3>1. call[c].got \in 1..MaxKey
      BY <1>2, <1>3, BoundsAssumption
    <3> QED  BY <3>1 DEF IdentityOK
  <2> QED  BY <1>2, <1>3, <1>4, <2>1, <2>2
<1>6. keys'[s] = [key |-> call[c].got, at |-> clock] /\ DOMAIN keys' = Service
      /\ \A r \in Service \ {s} : keys'[r] = keys[r]
  BY <1>1 DEF KeysOK
<1>7. HeldKey(keys'[s], signingKey, clock, retired)
  BY <1>2, <1>3, <1>5, <1>6 DEF HeldKey, NotTooOld
<1> QED  BY <1>0, <1>1, <1>2, <1>5, <1>6, <1>7 DEF KeysOK

\* A call that stores the key it was given and judges by it judges rightly.
LEMMA StoreAndJudgeEffect ==
    ASSUME IdentityOK, CallsOK, KeysOK, NEW c \in Caller, NEW s \in Service, StoreAndJudge(c, s)
    PROVE  VerifierEffect(c)
<1>0. DOMAIN call = Caller /\ DOMAIN call[c] = CallFields /\ Store(c, s)
  BY DEF CallsOK, StoreAndJudge
<1> DEFINE last == call[c].at = "reanswered"
           v == Judged(c, call[c].got, last)
<1>1. call' = [call EXCEPT ![c].at = v, ![c].got = 0, ![c].since = 0]
  BY DEF StoreAndJudge
<1>2. /\ CallGoes(c) /\ call'[c].path = call[c].path /\ call'[c].at = v
  BY <1>0, <1>1 DEF CallGoes, CallFields
<1>3. LET token == call[c].token
          good == clock < token.exp /\ token.type = "access"
      IN  /\ v \in {"accepted", "refused", "again"}
          /\ v = "accepted" => call[c].got = token.key /\ good
          /\ v = "refused" => (call[c].got = token.key /\ ~good) \/ call[c].got # token.key
  BY Verdicts
<1> HIDE DEF v, last
<1>4. clock \in Nat /\ signingKey \in Nat /\ CacheSeconds \in Nat \ {0} /\ FetchTimeout \in Nat
  BY BoundsAssumption, CacheAssumption DEF IdentityOK
<1>5. call[c].got \in 1..signingKey /\ call[c].token.key <= call[c].got
      /\ (call[c].got < signingKey => clock <= retired[call[c].got] + FetchTimeout)
  BY <1>0, StoreKeeps
<1>6. ASSUME v = "accepted", call[c].token.key < signingKey
      PROVE  clock < retired[call[c].token.key] + CacheSeconds + FetchTimeout
  <2>1. call[c].token.key = call[c].got
    BY <1>3, <1>6
  <2>2. retired[call[c].got] \in Nat
    <3>1. call[c].got \in 1..MaxKey
      BY <1>5, BoundsAssumption DEF IdentityOK
    <3> QED  BY <3>1 DEF IdentityOK
  <2> QED  BY <1>4, <1>5, <1>6, <2>1, <2>2
<1>7. ASSUME v = "refused"
      PROVE  ~Decodes(call[c].token, "access")
  <2>1. CASE call[c].got = call[c].token.key
    BY <1>3, <1>7, <2>1 DEF Decodes
  <2>2. CASE call[c].got # call[c].token.key
    \* The token names an older key than the one identity answered with.
    <3>1. call[c].token.key \in 0..signingKey
      BY TokenKeyRange
    <3> QED  BY <1>4, <1>5, <2>2, <3>1 DEF Decodes
  <2> QED  BY <2>1, <2>2
<1>8. JudgesRightly(c)
  BY <1>2, <1>3, <1>6, <1>7 DEF JudgesRightly, NowAccepted
<1>9. call'[c].at \notin {"answered", "reanswered", "stored", "restored"}
  BY <1>2, <1>3
<1> QED  BY <1>0, <1>2, <1>8, <1>9, StoreKeeps DEF VerifierEffect, HeldAnswer, ReadsBack

\* A thread of telemetry-service that only stores the key judges nothing yet.
LEMMA StoreOnlyEffect ==
    ASSUME IdentityOK, CallsOK, KeysOK, NEW c \in Caller, StoreOnly(c, "telemetry")
    PROVE  VerifierEffect(c)
<1>0. DOMAIN call = Caller /\ DOMAIN call[c] = CallFields /\ Store(c, "telemetry")
      /\ "telemetry" \in Service
  BY ServiceAssumption DEF CallsOK, StoreOnly
<1>1. call' = [call EXCEPT ![c].at = IF @ = "answered" THEN "stored" ELSE "restored",
                           ![c].got = 0, ![c].since = 0]
  BY DEF StoreOnly
<1>2. /\ CallGoes(c) /\ call'[c].path = call[c].path /\ call'[c].at \in {"stored", "restored"}
  BY <1>0, <1>1 DEF CallGoes, CallFields
<1>3. JudgesRightly(c)
  BY <1>2 DEF JudgesRightly, NowAccepted
<1> QED  BY <1>0, <1>2, <1>3, StoreKeeps DEF VerifierEffect, HeldAnswer

\* At the instant at which it was stored the cache decides.
LEMMA ReadBackEffect ==
    ASSUME IdentityOK, CallsOK, KeysOK, NEW c \in Caller, At(c, "telemetry"), ReadBack(c, "telemetry")
    PROVE  VerifierEffect(c)
<1>0. DOMAIN call = Caller /\ DOMAIN call[c] = CallFields /\ UNCHANGED keys /\ "telemetry" \in Service
  BY ServiceAssumption DEF CallsOK, ReadBack
<1> DEFINE key == keys["telemetry"].key
           v == Judged(c, key, call[c].at = "restored")
<1>1. call' = [call EXCEPT ![c].at = v] /\ ReadsBack(c)
  BY DEF ReadBack
<1>2. /\ CallGoes(c) /\ call'[c].path = call[c].path /\ call'[c].at = v
  BY <1>0, <1>1 DEF CallGoes, CallFields
<1>3. LET token == call[c].token
          good == clock < token.exp /\ token.type = "access"
      IN  /\ v \in {"accepted", "refused", "again"}
          /\ v = "accepted" => key = token.key /\ good
  BY Verdicts
<1> HIDE DEF v
<1>4. clock \in Nat /\ CacheSeconds \in Nat \ {0} /\ FetchTimeout \in Nat
  BY CacheAssumption DEF IdentityOK
<1>5. ASSUME v = "accepted", call[c].token.key < signingKey
      PROVE  clock < retired[call[c].token.key] + CacheSeconds + FetchTimeout
  <2>1. key = call[c].token.key /\ call[c].token.type = "access"
    BY <1>3, <1>5
  <2>2. key \in 1..signingKey
    BY <2>1, AccessTokenKey
  <2>3. HeldKey(keys["telemetry"], signingKey, clock, retired) /\ keys["telemetry"].at = clock
    BY <1>0, <1>1 DEF KeysOK
  <2>4. clock <= retired[key] + FetchTimeout
    BY <1>5, <2>1, <2>2, <2>3 DEF HeldKey, NotTooOld
  <2>5. retired[key] \in Nat
    <3>1. key \in 1..MaxKey
      BY <2>2, BoundsAssumption DEF IdentityOK
    <3> QED  BY <3>1 DEF IdentityOK
  <2> QED  BY <1>4, <2>1, <2>4, <2>5
<1>6. JudgesRightly(c)
  BY <1>2, <1>3, <1>5 DEF JudgesRightly, NowAccepted
<1>7. call'[c].at \notin {"answered", "reanswered", "stored", "restored"}
  BY <1>2, <1>3
<1> QED  BY <1>0, <1>2, <1>6, <1>7 DEF VerifierEffect, HeldAnswer, ReadsBack, KeysOK

\* A call that gets no key is neither accepted nor refused.
LEMMA UnavailableEffect ==
    ASSUME IdentityOK, CallsOK, KeysOK, NEW c \in Caller, Unavailable(c)
    PROVE  VerifierEffect(c)
<1>0. DOMAIN call = Caller /\ DOMAIN call[c] = CallFields /\ UNCHANGED keys
  BY DEF CallsOK, Unavailable
<1>1. call' = [call EXCEPT ![c] = [@ EXCEPT !.at = "unavailable", !.got = 0, !.since = 0]]
  BY DEF Unavailable
<1>2. /\ CallGoes(c) /\ call'[c].path = call[c].path /\ call'[c].at = "unavailable"
  BY <1>0, <1>1 DEF CallGoes, CallFields
<1>3. JudgesRightly(c)
  BY <1>2 DEF JudgesRightly, NowAccepted
<1> QED  BY <1>0, <1>2, <1>3 DEF VerifierEffect, HeldAnswer, ReadsBack, KeysOK

\* identity looks at the user as well, and at its own key.
LEMMA IdentityJudgesEffect ==
    ASSUME IdentityOK, CallsOK, KeysOK, NEW c \in Caller, IdentityJudges(c)
    PROVE  VerifierEffect(c)
<1>0. DOMAIN call = Caller /\ DOMAIN call[c] = CallFields /\ UNCHANGED keys
  BY DEF CallsOK, IdentityJudges
<1> DEFINE v == IF Decodes(call[c].token, "access")
                THEN IF Active(call[c].token.sub) THEN "accepted" ELSE "forbidden"
                ELSE "refused"
<1>1. call' = [call EXCEPT ![c].at = v]
  BY DEF IdentityJudges
<1>2. /\ CallGoes(c) /\ call'[c].path = call[c].path /\ call'[c].at = v
  BY <1>0, <1>1 DEF CallGoes, CallFields
<1>3. signingKey \in Nat
  BY BoundsAssumption DEF IdentityOK
<1>4. JudgesRightly(c)
  BY <1>2, <1>3 DEF JudgesRightly, NowAccepted, Decodes
<1> QED  BY <1>0, <1>2, <1>4 DEF VerifierEffect, HeldAnswer, ReadsBack, KeysOK

\* Whichever service it is, and whether or not its threads wait for each other.
LEMMA VerifyEffect ==
    ASSUME IdentityOK, CallsOK, KeysOK, NEW c \in Caller, Verify(c) \/ IdentityJudges(c)
    PROVE  VerifierEffect(c)
<1>1. ASSUME NEW s \in Service, WithoutLock(c, s)
      PROVE  VerifierEffect(c)
  BY <1>1, LookupEffect, AnswerEffect, StoreAndJudgeEffect, UnavailableEffect DEF WithoutLock
<1>2. ASSUME NEW s \in Service, UnderLock(c, s)
      PROVE  VerifierEffect(c)
  BY <1>1, <1>2 DEF UnderLock, WithoutLock
<1>3. CASE TelemetryVerify(c)
  <2>1. "telemetry" \in Service
    BY ServiceAssumption
  <2> QED  BY <1>1, <1>3, <2>1, StoreOnlyEffect, ReadBackEffect DEF TelemetryVerify, WithoutLock
<1>4. CASE \/ GatewayVerify(c) \/ AuditVerify(c) \/ TenantVerify(c) \/ AssetVerify(c)
           \/ PkiVerify(c) \/ EnrollmentVerify(c)
  BY <1>2, <1>4, ServiceAssumption DEF GatewayVerify, AuditVerify, TenantVerify, AssetVerify,
     PkiVerify, EnrollmentVerify
<1>5. CASE AgentControlVerify(c) \/ CommandVerify(c)
  BY <1>1, <1>5, ServiceAssumption DEF AgentControlVerify, CommandVerify
<1> QED  BY <1>3, <1>4, <1>5, IdentityJudgesEffect DEF Verify

-----------------------------------------------------------------------------
(* The invariant of tokens and keys *)

AccessInv == IdentityOK /\ PairsOK /\ SignInsOK /\ CallsOK /\ KeysOK /\ RefusedOK

\* What remains to be shown of a step on one call.
LEMMA OneCall ==
    ASSUME IdentityOK, CallsOK, KeysOK, RefusedOK, NEW c \in Caller, UNCHANGED identityVars,
           DOMAIN call' = Caller, \A d \in Caller \ {c} : call'[d] = call[d],
           DOMAIN call'[c] = CallFields,
           \/ Issued(call'[c].token, "access", signingKey, clock, users)
           \/ Issued(call'[c].token, "refresh", signingKey, clock, users),
           DOMAIN keys' = Service,
           \A s \in Service : HeldKey(keys'[s], signingKey, clock, retired),
           HeldAnswer(call'[c], signingKey, clock, retired),
           ReadsBack(c)' => keys'["telemetry"].at = clock,
           keys'["telemetry"].at \in {keys["telemetry"].at, clock},
           call'[c].at = "refused" /\ ~At(c, "telemetry")' => ~Decodes(call'[c].token, "access")
    PROVE  CallsOK' /\ KeysOK' /\ RefusedOK'
<1>0. UNCHANGED <<clock, signingKey, users, retired>>
  BY DEF identityVars
<1>1. CallsOK'
  BY <1>0 DEF CallsOK
<1>2. KeysOK'
  <2>1. \A d \in Caller : HeldAnswer(call'[d], signingKey, clock, retired)
    BY DEF KeysOK
  <2>2. \A d \in Caller : ReadsBack(d)' => keys'["telemetry"].at = clock
    BY DEF KeysOK, ReadsBack
  <2> QED  BY <1>0, <2>1, <2>2 DEF KeysOK
<1>3. RefusedOK'
  BY <1>0 DEF RefusedOK, At, Decodes
<1> QED  BY <1>1, <1>2, <1>3

\* A service judges, or the gateway forwards.
LEMMA CallStepKeeps ==
    ASSUME IdentityOK, CallsOK, KeysOK, RefusedOK, NEW c \in Caller, CallStep(c)
    PROVE  CallsOK' /\ KeysOK' /\ RefusedOK' /\ CallGoes(c) /\ JudgesRightly(c)
<1>0. /\ UNCHANGED identityVars /\ DOMAIN call = Caller /\ DOMAIN call[c] = CallFields
      /\ \/ Issued(call[c].token, "access", signingKey, clock, users)
         \/ Issued(call[c].token, "refresh", signingKey, clock, users)
  BY DEF CallStep, CallsOK
<1>1. CASE Verify(c) \/ IdentityJudges(c)
  <2>1. VerifierEffect(c)
    BY <1>1, VerifyEffect
  <2>2. call'[c].at = "refused" /\ ~At(c, "telemetry")' => ~Decodes(call'[c].token, "access")
    <3>1. call'[c].path = call[c].path /\ call'[c].token = call[c].token
      BY <2>1 DEF VerifierEffect, CallGoes
    <3>2. At(c, "telemetry")' = At(c, "telemetry")
      BY <3>1 DEF At
    <3> QED  BY <2>1, <3>1, <3>2 DEF VerifierEffect, JudgesRightly, RefusedOK
  <2>3. CallsOK' /\ KeysOK' /\ RefusedOK'
    BY <1>0, <2>1, <2>2, OneCall DEF VerifierEffect, CallGoes
  <2> QED  BY <2>1, <2>3 DEF VerifierEffect
<1>2. CASE Forward(c)
  <2>1. UNCHANGED keys
    BY <1>2 DEF Forward
  <2>2. CallGoes(c) /\ call'[c].at \in {"asked", "limited"}
    <3>1. PICK passes \in BOOLEAN :
             call' = [call EXCEPT ![c] =
                        IF passes THEN [@ EXCEPT !.at = "asked", !.path = Tail(@)]
                        ELSE [@ EXCEPT !.at = "limited"]]
      BY <1>2 DEF Forward
    <3>2. CASE passes
      BY <1>0, <3>1, <3>2 DEF CallGoes, CallFields
    <3>3. CASE ~passes
      BY <1>0, <3>1, <3>3 DEF CallGoes, CallFields
    <3> QED  BY <3>2, <3>3
  <2>3. HeldAnswer(call'[c], signingKey, clock, retired) /\ ~ReadsBack(c)' /\ JudgesRightly(c)
    BY <2>2 DEF HeldAnswer, ReadsBack, JudgesRightly, NowAccepted
  <2>4. CallsOK' /\ KeysOK' /\ RefusedOK'
    BY <1>0, <2>1, <2>2, <2>3, OneCall DEF CallGoes, KeysOK
  <2> QED  BY <2>2, <2>3, <2>4
<1> QED  BY <1>1, <1>2 DEF CallStep

\* A call begins, or is forgotten.
LEMMA NewCallKeeps ==
    ASSUME IdentityOK, CallsOK, KeysOK, RefusedOK, NEW c \in Caller, UNCHANGED <<identityVars, keys>>,
           \/ call' = [call EXCEPT ![c] = NoCall]
           \/ \E path, token : /\ Ask(c, path, token)
                               /\ \/ Issued(token, "access", signingKey, clock, users)
                                  \/ Issued(token, "refresh", signingKey, clock, users)
    PROVE  CallsOK' /\ KeysOK' /\ RefusedOK' /\ \A d \in Caller : ~NowAccepted(d)
<1>0. DOMAIN call = Caller /\ DOMAIN NoCall = CallFields
  BY DEF CallsOK, NoCall, CallFields
<1>1. /\ DOMAIN call' = Caller /\ \A d \in Caller \ {c} : call'[d] = call[d]
      /\ DOMAIN call'[c] = CallFields /\ call'[c].at \in {"idle", "asked"}
      /\ \/ Issued(call'[c].token, "access", signingKey, clock, users)
         \/ Issued(call'[c].token, "refresh", signingKey, clock, users)
  <2>1. CASE call' = [call EXCEPT ![c] = NoCall]
    <3>1. call'[c] = NoCall /\ DOMAIN call' = Caller /\ \A d \in Caller \ {c} : call'[d] = call[d]
      BY <1>0, <2>1
    <3>2. NoCall.at = "idle" /\ NoCall.token = NoToken
      BY DEF NoCall
    <3> QED  BY <1>0, <3>1, <3>2, NothingIssued
  <2>2. ASSUME NEW path, NEW token, Ask(c, path, token),
               \/ Issued(token, "access", signingKey, clock, users)
               \/ Issued(token, "refresh", signingKey, clock, users)
        PROVE  <1>1!:
    <3>1. call' = [call EXCEPT ![c] = [NoCall EXCEPT !.at = "asked", !.path = path, !.token = token]]
      BY <2>2 DEF Ask
    <3>2. /\ DOMAIN call' = Caller /\ \A d \in Caller \ {c} : call'[d] = call[d]
          /\ DOMAIN call'[c] = CallFields /\ call'[c].at = "asked" /\ call'[c].token = token
      BY <1>0, <3>1 DEF NoCall, CallFields
    <3> QED  BY <2>2, <3>2
  <2> QED  BY <2>1, <2>2
<1>2. /\ HeldAnswer(call'[c], signingKey, clock, retired) /\ ~ReadsBack(c)'
      /\ \A d \in Caller : ~NowAccepted(d)
  BY <1>1 DEF HeldAnswer, ReadsBack, NowAccepted
<1> QED  BY <1>1, <1>2, OneCall DEF KeysOK

\* A client's login is being answered, it gets a pair, or it shows one of its tokens.
LEMMA ClientKeeps ==
    ASSUME AccessInv, NEW c \in DOMAIN setting.clients, ClientStep(c)
    PROVE  AccessInv' /\ \A d \in Caller : ~NowAccepted(d)
<1>0. /\ IdentityOK /\ PairsOK /\ SignInsOK /\ CallsOK /\ KeysOK /\ RefusedOK /\ setting \in Settings
      /\ DOMAIN wallet = Client /\ DOMAIN signin = Client
  BY DEF AccessInv, IdentityOK, PairsOK, SignInsOK
<1>1. /\ c \in Client /\ setting.clients[c] \subseteq User /\ setting.types \subseteq {"access", "refresh"}
      /\ c \in Caller
  BY <1>0, SettingsAssumption, CallersAssumption
<1>2. UNCHANGED <<identityVars, kept, handler>>
  BY DEF ClientStep, ClientLogin, ClientSignedIn, ClientRefresh, ClientAsk, consoleVars
<1>3. IssuedPair(wallet[c], signingKey, clock, users)
  BY <1>0, <1>1 DEF PairsOK
<1>4. CASE /\ UNCHANGED call /\ UNCHANGED keys
           /\ \/ UNCHANGED wallet
              \/ \E u \in User : /\ IssuedPair(Pair(u), signingKey, clock, users)
                                /\ wallet' = [wallet EXCEPT ![c] = Pair(u)]
           /\ \/ UNCHANGED signin
              \/ \E s : /\ s = NoSignIn \/ SignInOK(s, clock, users)
                        /\ signin' = [signin EXCEPT ![c] = s]
  <2>1. DOMAIN wallet' = Client /\ \A d \in Client : IssuedPair(wallet'[d], signingKey, clock, users)
    <3>1. CASE UNCHANGED wallet
      BY <1>0, <3>1 DEF PairsOK
    <3>2. ASSUME NEW u \in User, IssuedPair(Pair(u), signingKey, clock, users),
                 wallet' = [wallet EXCEPT ![c] = Pair(u)]
          PROVE  \A d \in Client : IssuedPair(wallet'[d], signingKey, clock, users)
      <4>1. \A d \in Client : wallet'[d] = Pair(u) \/ wallet'[d] = wallet[d]
        BY <1>0, <3>2
      <4> QED  BY <1>0, <3>2, <4>1 DEF PairsOK
    <3> QED  BY <1>0, <1>4, <3>1, <3>2
  <2>2. UNCHANGED <<setting, clock, users, signingKey, retired, kept, handler, call, keys>>
    BY <1>2, <1>4 DEF identityVars
  <2>3. /\ DOMAIN signin' = Client
        /\ \A d \in Client : signin'[d] # NoSignIn => SignInOK(signin'[d], clock, users)
    <3>1. CASE UNCHANGED signin
      BY <1>0, <3>1 DEF SignInsOK
    <3>2. ASSUME NEW s, s = NoSignIn \/ SignInOK(s, clock, users), signin' = [signin EXCEPT ![c] = s]
          PROVE  \A d \in Client : signin'[d] # NoSignIn => SignInOK(signin'[d], clock, users)
      <4>1. \A d \in Client : signin'[d] = s \/ signin'[d] = signin[d]
        BY <1>0, <3>2
      <4> QED  BY <1>0, <3>2, <4>1 DEF SignInsOK
    <3> QED  BY <1>0, <1>4, <3>1, <3>2
  <2>4. SignInsOK'
    BY <1>0, <2>2, <2>3 DEF SignInsOK
  <2> QED  BY <1>0, <2>1, <2>2, <2>4
           DEF AccessInv, IdentityOK, PairsOK, CallsOK, KeysOK, RefusedOK, At, ReadsBack, Decodes, NowAccepted
<1>5. ASSUME NEW u \in setting.clients[c], ClientLogin(c, u)
      PROVE  <1>4!1
  <2>1. Active(u) => SignInOK(RowRead(u), clock, users)
    BY <1>0, <1>1, RowReadNow
  <2>2. UNCHANGED <<call, keys, wallet>>
    BY <1>5 DEF ClientLogin, verifierVars
  <2>3. UNCHANGED signin \/ (Active(u) /\ signin' = [signin EXCEPT ![c] = RowRead(u)])
    BY <1>5 DEF ClientLogin
  <2> QED  BY <2>1, <2>2, <2>3
<1>8. CASE ClientSignedIn(c)
  <2>1. UNCHANGED <<call, keys>> /\ signin' = [signin EXCEPT ![c] = NoSignIn]
    BY <1>8 DEF ClientSignedIn, verifierVars
  <2>2. SignInOK(signin[c], clock, users)
    BY <1>0, <1>1, <1>8 DEF ClientSignedIn, SignInsOK
  <2>3. \/ UNCHANGED wallet
        \/ Awaited(signin[c]) /\ wallet' = [wallet EXCEPT ![c] = Pair(signin[c].user)]
    BY <1>8 DEF ClientSignedIn
  <2>4. Awaited(signin[c]) =>
           signin[c].user \in User /\ IssuedPair(Pair(signin[c].user), signingKey, clock, users)
    BY <1>0, <2>2, AnsweredInTime
  <2>5. <1>4!1
    BY <2>1, <2>3, <2>4
  <2> QED  BY <1>4, <2>5
<1>6. CASE ClientRefresh(c)
  <2> DEFINE u == wallet[c].refresh.sub
  <2>1. MayRefresh(wallet[c].refresh) => u \in User /\ users[u].status = "active"
    BY <1>3, RenewedUser DEF MayRefresh, IssuedPair, Active
  <2>2. MayRefresh(wallet[c].refresh) => IssuedPair(Pair(u), signingKey, clock, users)
    BY <1>0, <2>1, IssuedNow
  <2>3. UNCHANGED <<call, keys, signin>>
    BY <1>6 DEF ClientRefresh, verifierVars
  <2>4. UNCHANGED wallet \/ (MayRefresh(wallet[c].refresh) /\ wallet' = [wallet EXCEPT ![c] = Pair(u)])
    BY <1>6 DEF ClientRefresh
  <2> HIDE DEF u
  <2> QED  BY <1>4, <2>1, <2>2, <2>3, <2>4
<1>7. ASSUME NEW path, NEW type \in setting.types, ClientAsk(c, path, type)
      PROVE  AccessInv' /\ \A d \in Caller : ~NowAccepted(d)
  <2>1. type = "access" \/ type = "refresh"
    BY <1>1
  <2>2. Ask(c, path, wallet[c][type]) /\ UNCHANGED <<identityVars, keys, wallet, signin>>
    BY <1>7 DEF ClientAsk, clientVars
  <2>3. \/ Issued(wallet[c][type], "access", signingKey, clock, users)
        \/ Issued(wallet[c][type], "refresh", signingKey, clock, users)
    BY <1>3, <2>1 DEF IssuedPair
  <2>4. CallsOK' /\ KeysOK' /\ RefusedOK' /\ \A d \in Caller : ~NowAccepted(d)
    BY <1>0, <1>1, <2>2, <2>3, NewCallKeeps
  <2>5. IdentityOK' /\ PairsOK' /\ SignInsOK'
    <3>1. UNCHANGED <<setting, clock, users, signingKey, retired, kept, handler, wallet, signin>>
      BY <1>2, <2>2 DEF identityVars
    <3> QED  BY <1>0, <3>1 DEF IdentityOK, PairsOK, SignInsOK
  <2> QED  BY <2>4, <2>5 DEF AccessInv
<1> QED  BY <1>4, <1>5, <1>6, <1>7, <1>8 DEF ClientStep

\* The console keeps what was issued, for as long as it likes.
LEMMA BrowserKeeps ==
    ASSUME AccessInv, ConsoleInv, NEW h \in Handler, BrowserStep(h)
    PROVE  AccessInv' /\ \A d \in Caller : ~NowAccepted(d)
<1>0. IdentityOK /\ PairsOK /\ SignInsOK /\ CallsOK /\ KeysOK /\ RefusedOK /\ h \in Caller
  BY ConsoleAssumption DEF AccessInv
<1>1. Effect(h) /\ UNCHANGED <<identityVars, keys, wallet, signin>>
  BY BrowserEffect DEF BrowserStep, clientVars
<1>2. UNCHANGED <<setting, clock, users, signingKey, retired, keys, wallet, signin>>
  BY <1>1 DEF identityVars
<1>3. /\ IssuedPair(handler[h].pair, signingKey, clock, users)
      /\ \A s \in Session : IssuedPair(kept[s].pair, signingKey, clock, users)
  BY <1>0 DEF PairsOK
<1>4. IssuedPair(handler'[h].pair, signingKey, clock, users)
  <2>1. ASSUME NEW u, Renews(h, u)
        PROVE  IssuedPair(Pair(u), signingKey, clock, users)
    <3>1. CASE /\ Decodes(handler[h].pair.refresh, "refresh") /\ u = handler[h].pair.refresh.sub
               /\ Active(u)
      <4>1. u \in User
        BY <1>3, <3>1, RenewedUser DEF IssuedPair
      <4> QED  BY <1>0, <3>1, <4>1, IssuedNow DEF Active
    <3>2. CASE /\ handler[h].at = "signing" /\ Awaited(handler[h].signin)
               /\ u = handler[h].signin.user
      <4>1. SignInOK(handler[h].signin, clock, users)
        BY <1>0, <3>2 DEF SignInsOK
      <4> QED  BY <1>0, <3>2, <4>1, AnsweredInTime
    <3> QED  BY <2>1, <3>1, <3>2 DEF Renews
  <2> QED  BY <1>1, <1>3, <2>1, NothingIssued DEF Effect
<1>5. \A s \in Session : IssuedPair(kept'[s].pair, signingKey, clock, users)
  BY <1>1, <1>3, NothingIssued DEF Effect
<1>6. PairsOK'
  <2>1. \A g \in Handler : IssuedPair(handler'[g].pair, signingKey, clock, users)
    BY <1>0, <1>1, <1>4 DEF Effect, PairsOK
  <2> QED  BY <1>0, <1>2, <1>5, <2>1 DEF PairsOK
<1>9. SignInsOK'
  <2>1. \A g \in Handler \ {h} : handler'[g] = handler[g]
    BY <1>1 DEF Effect
  <2>2. handler'[h].at = "signing" => SignInOK(handler'[h].signin, clock, users)
    BY <1>0, <1>1, RowReadNow DEF Effect
  <2>3. \A g \in Handler : handler'[g].at = "signing" => SignInOK(handler'[g].signin, clock, users)
    BY <1>0, <2>1, <2>2 DEF SignInsOK
  <2> QED  BY <1>0, <1>2, <2>3 DEF SignInsOK
<1>7. \/ UNCHANGED call
      \/ call' = [call EXCEPT ![h] = NoCall]
      \/ \E path : Ask(h, path, handler[h].pair.access)
  BY DEF BrowserStep, Login, SignedIn, Dies, Logout, Request, ConsoleStep, Call, Hear, Refresh, Open, Close
<1>8. CallsOK' /\ KeysOK' /\ RefusedOK' /\ \A d \in Caller : ~NowAccepted(d)
  <2>1. CASE UNCHANGED call
    BY <1>0, <1>2, <2>1 DEF CallsOK, KeysOK, RefusedOK, At, ReadsBack, Decodes, NowAccepted
  <2> QED  BY <1>0, <1>1, <1>3, <1>7, <2>1, NewCallKeeps DEF IssuedPair
<1> QED  BY <1>0, <1>2, <1>6, <1>8, <1>9 DEF AccessInv, IdentityOK

\* Users change, the key changes, time goes on.
LEMMA IdentityKeeps ==
    ASSUME AccessInv, Aging, UNCHANGED <<verifierVars, kept, handler, wallet, signin>>,
           clock' = clock \/ \A c \in Caller : ~ReadsBack(c)
    PROVE  AccessInv' /\ \A d \in Caller : ~NowAccepted(d)
<1>0. IdentityOK /\ PairsOK /\ SignInsOK /\ CallsOK /\ KeysOK /\ RefusedOK /\ UNCHANGED <<call, keys>>
  BY DEF AccessInv, verifierVars
<1>1. IdentityOK'
  BY <1>0, AgingKeepsIdentity
<1>2. \A t, type : Issued(t, type, signingKey, clock, users) => Issued(t, type, signingKey', clock', users')
  BY <1>0, AgingKeepsTokens
<1>3. \A p : IssuedPair(p, signingKey, clock, users) => IssuedPair(p, signingKey', clock', users')
  BY <1>2 DEF IssuedPair
<1>4. PairsOK' /\ SignInsOK'
  <2>1. \A s : SignInOK(s, clock, users) => SignInOK(s, clock', users')
    BY <1>0, AgingKeepsSignIns
  <2>2. SignInsOK'
    BY <1>0, <2>1 DEF SignInsOK
  <2> QED  BY <1>0, <1>3, <2>2 DEF PairsOK
<1>5. CallsOK'
  BY <1>0, <1>2 DEF CallsOK
<1>6. clock \in Nat /\ clock' \in Nat /\ clock' >= clock /\ signingKey \in Nat /\ signingKey' \in Nat
      /\ signingKey' >= signingKey /\ FetchTimeout \in Nat
  BY <1>0, BoundsAssumption, CacheAssumption DEF IdentityOK, Aging
<1>7. KeysOK'
  <2>1. ASSUME NEW s \in Service
        PROVE  HeldKey(keys[s], signingKey', clock', retired')
    <3>1. HeldKey(keys[s], signingKey, clock, retired)
      BY <1>0 DEF KeysOK
    <3>2. keys[s].key \in 0..signingKey' /\ keys[s].at \in 0..clock'
      BY <1>6, <3>1 DEF HeldKey
    <3>3. ASSUME keys[s].key # 0
          PROVE  NotTooOld(keys[s].key, keys[s].at, FetchTimeout, signingKey', retired')
      <4>1. keys[s].key \in 1..signingKey /\ keys[s].at \in 0..clock
            /\ NotTooOld(keys[s].key, keys[s].at, FetchTimeout, signingKey, retired)
        BY <3>1, <3>3 DEF HeldKey
      <4> QED  BY <1>0, <1>6, <4>1, AgingKeepsKeys
    <3> QED  BY <3>2, <3>3 DEF HeldKey
  <2>2. ASSUME NEW c \in Caller
        PROVE  HeldAnswer(call[c], signingKey', clock', retired')
    <3> SUFFICES ASSUME call[c].at \in {"answered", "reanswered"}
                 PROVE  /\ call[c].got \in 1..signingKey' /\ call[c].since \in 0..clock'
                        /\ NotTooOld(call[c].got, call[c].since, 0, signingKey', retired')
                        /\ call[c].token.key <= call[c].got
      BY DEF HeldAnswer
    <3>1. /\ call[c].got \in 1..signingKey /\ call[c].since \in 0..clock
          /\ NotTooOld(call[c].got, call[c].since, 0, signingKey, retired)
          /\ call[c].token.key <= call[c].got
      BY <1>0 DEF KeysOK, HeldAnswer
    <3>2. NotTooOld(call[c].got, call[c].since, 0, signingKey', retired')
      BY <1>0, <3>1, AgingKeepsKeys
    <3> QED  BY <1>6, <3>1, <3>2
  <2> QED  BY <1>0, <2>1, <2>2 DEF KeysOK, ReadsBack
<1>8. RefusedOK'
  <2> SUFFICES ASSUME NEW c \in Caller, call[c].at = "refused", ~At(c, "telemetry")
               PROVE  ~Decodes(call[c].token, "access")'
    BY <1>0 DEF RefusedOK, At
  <2>1. ~Decodes(call[c].token, "access")
    BY <1>0 DEF RefusedOK
  <2>2. call[c].token.type = "access" =>
           call[c].token.key \in 1..signingKey /\ call[c].token.exp \in Nat
    BY <1>0 DEF CallsOK, Issued, NoToken
  \* A token of a key that was replaced stays undecodable, and so does an old one.
  <2> QED  BY <1>0, <1>6, <2>1, <2>2 DEF Decodes
<1> QED  BY <1>0, <1>1, <1>4, <1>5, <1>7, <1>8 DEF AccessInv, NowAccepted

\* At first nothing was issued, asked or cached.
LEMMA AccessInitially == Init => AccessInv
<1> SUFFICES ASSUME Init  PROVE AccessInv
  OBVIOUS
<1>1. /\ setting \in Settings /\ clock = 0 /\ signingKey = 1
      /\ retired = [k \in 1..MaxKey |-> MaxTime + 1]
      /\ users = [u \in User |-> [status |-> IF u \in setting.users THEN "active" ELSE "none",
                                  since |-> 0]]
      /\ wallet = [c \in Client |-> NoPair] /\ signin = [c \in Client |-> NoSignIn]
      /\ keys = [s \in Service |-> IF s \in setting.warm THEN [key |-> 1, at |-> 0] ELSE Empty]
      /\ call = [c \in Caller |-> NoCall]
      /\ kept = [s \in Session |-> NoSession] /\ handler = [h \in Handler |-> Idle]
  BY DEF Init, IdentityInit, VerifierInit, ConsoleInit
<1>2. IdentityOK
  <2>1. MaxTime + 1 \in Nat /\ 1 \in 1..MaxKey
    BY BoundsAssumption
  <2> QED  BY <1>1, <2>1 DEF IdentityOK
<1>3. PairsOK /\ SignInsOK
  <2>1. NoSession.pair = NoPair /\ Idle.pair = NoPair /\ Idle.at = "idle"
    BY DEF NoSession, Idle
  <2>2. PairsOK
    BY <1>1, <2>1, NothingIssued DEF PairsOK
  <2>3. SignInsOK
    BY <1>1, <2>1 DEF SignInsOK
  <2> QED  BY <2>2, <2>3
<1>4. /\ DOMAIN NoCall = CallFields /\ NoCall.at = "idle" /\ NoCall.token = NoToken
  BY DEF NoCall, CallFields
<1>5. CallsOK /\ RefusedOK
  BY <1>1, <1>4, NothingIssued DEF CallsOK, RefusedOK
<1>6. KeysOK
  <2>1. \A s \in Service : HeldKey(keys[s], signingKey, clock, retired)
    <3> TAKE s \in Service
    <3>1. keys[s] = [key |-> 1, at |-> 0] \/ keys[s] = [key |-> 0, at |-> 0]
      BY <1>1 DEF Empty
    <3> QED  BY <1>1, <3>1 DEF HeldKey, NotTooOld
  <2> QED  BY <1>1, <1>4, <2>1 DEF KeysOK, HeldAnswer, ReadsBack
<1> QED  BY <1>2, <1>3, <1>5, <1>6 DEF AccessInv

\* The verdicts of a step, whoever's it is.
RightVerdicts == \A c \in Caller : NowAccepted(c) => CallGoes(c) /\ JudgesRightly(c)

\* Every step keeps the invariant, and every verdict is right.
LEMMA AccessPreserved ==
    AccessInv /\ ConsoleInv /\ [Next]_vars => AccessInv' /\ RightVerdicts
<1> SUFFICES ASSUME AccessInv, ConsoleInv, [Next]_vars
             PROVE  AccessInv' /\ RightVerdicts
  OBVIOUS
<1>0. IdentityOK /\ CallsOK /\ KeysOK /\ RefusedOK /\ PairsOK /\ SignInsOK /\ setting \in Settings
  BY DEF AccessInv, IdentityOK
<1>1. ASSUME NEW c \in DOMAIN setting.clients, ClientStep(c)
      PROVE  AccessInv' /\ RightVerdicts
  BY <1>1, ClientKeeps DEF RightVerdicts
<1>2. ASSUME NEW c \in Caller, CallStep(c)
      PROVE  AccessInv' /\ RightVerdicts
  <2>1. CallsOK' /\ KeysOK' /\ RefusedOK' /\ CallGoes(c) /\ JudgesRightly(c)
    BY <1>0, <1>2, CallStepKeeps
  <2>2. UNCHANGED <<setting, clock, users, signingKey, retired, kept, handler, wallet, signin>>
    BY <1>2 DEF CallStep, identityVars, consoleVars, clientVars
  <2>3. IdentityOK' /\ PairsOK' /\ SignInsOK'
    BY <1>0, <2>2 DEF IdentityOK, PairsOK, SignInsOK
  <2>4. RightVerdicts
    BY <2>1 DEF RightVerdicts, CallGoes, NowAccepted
  <2> QED  BY <2>1, <2>3, <2>4 DEF AccessInv
<1>3. ASSUME NEW h \in setting.handlers, BrowserStep(h)
      PROVE  AccessInv' /\ RightVerdicts
  <2>1. h \in Handler
    BY <1>0, SettingsAssumption
  <2> QED  BY <1>3, <2>1, BrowserKeeps DEF RightVerdicts
<1>4. CASE IdentityStep \/ AdministratorStep \/ UNCHANGED vars
  <2>1. Aging
    BY <1>0, <1>4, IdentityAges DEF vars
  <2>2. UNCHANGED <<verifierVars, kept, handler, wallet, signin>>
    BY <1>4 DEF IdentityStep, AdministratorStep, vars, consoleVars, clientVars
  <2>3. clock' = clock \/ \A c \in Caller : ~ReadsBack(c)
    BY <1>4 DEF IdentityStep, AdministratorStep, vars, identityVars, BootstrapRead, BootstrapCommit,
       RotateKey, CreateUser, SetUserStatus
  <2> QED  BY <2>1, <2>2, <2>3, IdentityKeeps DEF RightVerdicts
<1> QED  BY <1>1, <1>2, <1>3, <1>4 DEF Next

\* The invariant holds always.
LEMMA AccessAlways == Spec => [](AccessInv /\ ConsoleInv)
<1>1. Init => AccessInv /\ ConsoleInv /\ ClosedInv
  BY AccessInitially, ConsoleInitially
<1>2. AccessInv /\ ConsoleInv /\ ClosedInv /\ [Next]_vars => (AccessInv /\ ConsoleInv /\ ClosedInv)'
  BY AccessPreserved, ConsolePreserved
<1> QED  BY <1>1, <1>2, PTL DEF Spec

\* A user who was disabled gets nothing more out of any service once the access tokens
\* issued before have run out, and those of a login that was being answered just then:
\* for any lives of tokens and any time a login may take, any number of services that
\* cache keys and any sessions that browsers keep alive (login, verify, refresh).
THEOREM DisabledUsersAreLockedOut == Spec => LockedOutInTime
<1>1. AccessInv /\ ConsoleInv /\ [Next]_vars =>
        \A c \in Caller : NowAccepted(c) =>
          LET user == users[call[c].token.sub]
          IN  user.status = "disabled" => clock < user.since + AccessLife + SignInTimeout
  <2> SUFFICES ASSUME AccessInv, ConsoleInv, [Next]_vars, NEW c \in Caller, NowAccepted(c),
                      users[call[c].token.sub].status = "disabled"
               PROVE  clock < users[call[c].token.sub].since + AccessLife + SignInTimeout
    OBVIOUS
  <2>1. call[c].token.type = "access" /\ clock < call[c].token.exp
    BY AccessPreserved DEF RightVerdicts, JudgesRightly
  <2>2. \/ Issued(call[c].token, "access", signingKey, clock, users)
        \/ Issued(call[c].token, "refresh", signingKey, clock, users)
    BY DEF AccessInv, CallsOK
  <2>3. /\ call[c].token.sub \in User /\ call[c].token.exp \in Nat
        /\ call[c].token.exp <= users[call[c].token.sub].since + AccessLife + SignInTimeout
    BY <2>1, <2>2 DEF Issued, NoToken
  <2>4. clock \in Nat /\ users[call[c].token.sub].since \in Nat
        /\ AccessLife \in Nat /\ SignInTimeout \in Nat
    BY <2>3, LivesAssumption, SignInAssumption DEF AccessInv, IdentityOK
  <2> QED  BY <2>1, <2>3, <2>4
<1>2. AccessInv /\ ConsoleInv /\ [Next]_vars =>
        [\A c \in Caller : NowAccepted(c) =>
          LET user == users[call[c].token.sub]
          IN  user.status = "disabled" => clock < user.since + AccessLife + SignInTimeout]_vars
  BY <1>1
<1> QED  BY <1>2, AccessAlways, PTL DEF Spec, LockedOutInTime

\* After identity changed its key no service accepts the old one any longer than its
\* cache may be old and a fetch may take (_load_jwks).
THEOREM OldKeysAreRefused == Spec => OldKeyRefusedInTime
<1>1. AccessInv /\ ConsoleInv /\ [Next]_vars =>
        [\A c \in Caller : NowAccepted(c) =>
          LET key == call[c].token.key
          IN  key < signingKey => clock < retired[key] + CacheSeconds + FetchTimeout]_vars
  BY AccessPreserved DEF RightVerdicts, JudgesRightly
<1> QED  BY <1>1, AccessAlways, PTL DEF Spec, OldKeyRefusedInTime

\* No service refuses a token that identity has just signed with a new key
\* (_key_for_kid), telemetry-service aside.
THEOREM FreshTokensAreAccepted == Spec => []FreshTokenAccepted
<1>1. AccessInv => FreshTokenAccepted
  BY DEF AccessInv, RefusedOK, FreshTokenAccepted
<1> QED  BY <1>1, AccessAlways, PTL
=============================================================================
