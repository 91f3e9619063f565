-------------------------- MODULE DeviceTrustProofs --------------------------
(* Theorems about module DeviceTrust, for any certificates, requests, handlers,
   devices, heartbeats, settings and times. *)
EXTENDS DeviceTrust, TLAPS

-----------------------------------------------------------------------------
(* pki-service *)

Rows == [status : {"active", "revoked"}, key : Key, device : Device,
         replaces : Issuance \cup {None}, reason : {None, "superseded", "key_compromise"}]

\* What a handler remembers is a request it may get; the certificate it is about
\* to revoke, or to replace, exists.
HandlerOK(h) ==
    /\ h.at \in {"rotating", "inserting"} => h.request \in Request
    /\ h.at = "rotating" => h.request.op = "rotate"
    /\ h.at \in {"rotating", "inserting"} /\ h.request.op = "rotate" =>
         h.request.old \notin Issuance \/ Exists(h.request.old)
    /\ h.at = "revoking" => h.issuance \in Issuance /\ Exists(h.issuance)

PkiTypeOK ==
    /\ certificates \in [Issuance -> Rows \cup {NoRow}]
    /\ DOMAIN thread = Thread
    /\ \A t \in Thread : HandlerOK(thread[t])
    /\ revokedFor \in [Issuance -> Nat]

\* No time has passed since a revocation that has not happened.
RevokedSince == \A i \in Issuance \ Revoked : revokedFor[i] = 0

\* The absence of a row is no row.
LEMMA NoRowIsNone == NoRow \notin Rows
BY DEF NoRow, Rows

\* Rows stay, and a revoked certificate stays revoked, whatever handlers do.
LEMMA RegisterGrows ==
    ASSUME PkiTypeOK, NEW t \in Thread, NEW requests \in SUBSET Request, PkiStep(t, requests)
    PROVE  /\ PkiTypeOK'
           /\ Revoked \subseteq Revoked'
           /\ UNCHANGED revokedFor
           /\ \A i \in Issuance : Exists(i) => Exists(i)'
<1> USE NoRowIsNone
<1>1. ASSUME NEW r \in requests, Issue(t, r)
      PROVE  UNCHANGED <<certificates, revokedFor>> /\ PkiTypeOK'
  BY <1>1, RequestAssumption DEF Issue, PkiTypeOK, HandlerOK, Existing, Become, Exists
<1>2. ASSUME NEW r \in requests, Rotate(t, r)
      PROVE  UNCHANGED <<certificates, revokedFor>> /\ PkiTypeOK'
  BY <1>2, RequestAssumption DEF Rotate, PkiTypeOK, HandlerOK, Become, Exists
<1>3. CASE Lookup(t)
  BY <1>3, RequestAssumption DEF Lookup, PkiTypeOK, HandlerOK, Existing, Become, Exists, Revoked
<1>4. CASE Collide(t)
  BY <1>4, RequestAssumption DEF Collide, PkiTypeOK, HandlerOK, Existing, Become, Exists, Revoked
<1>5. CASE IssueCommit(t)
  BY <1>5, RequestAssumption DEF IssueCommit, PkiTypeOK, HandlerOK, Become, Exists, Revoked, NewRow, Rows, NoRow
<1>6. CASE RotateCommit(t)
  <2> DEFINE r == thread[t].request
  <2>1. r \in Request /\ ~Exists(r.issuance) /\ r.issuance \in Issuance
        /\ (r.old \notin Issuance \/ Exists(r.old)) /\ UNCHANGED revokedFor
    BY <1>6, RequestAssumption DEF RotateCommit, PkiTypeOK, HandlerOK
  <2>2. NewRow(r) \in Rows
    BY <2>1, RequestAssumption DEF NewRow, Rows
  <2>3. \A row \in Rows : [[row EXCEPT !.status = "revoked"] EXCEPT !.reason = "superseded"] \in Rows
    BY DEF Rows
  <2>4. certificates' = [i \in Issuance |->
           IF i = r.issuance THEN NewRow(r)
           ELSE IF i = r.old
           THEN [[certificates[i] EXCEPT !.status = "revoked"] EXCEPT !.reason = "superseded"]
           ELSE certificates[i]]
    BY <1>6, <2>1 DEF RotateCommit, PkiTypeOK
  <2>5. /\ certificates' \in [Issuance -> Rows \cup {NoRow}]
        /\ \A i \in Issuance : Exists(i) => Exists(i)'
    BY <2>1, <2>2, <2>3, <2>4, ZenonT(30) DEF PkiTypeOK, Exists
  <2>6. Revoked \subseteq Revoked'
    <3> SUFFICES ASSUME NEW i \in Issuance, certificates[i].status = "revoked"
                 PROVE  certificates'[i].status = "revoked"
      BY DEF Revoked
    <3>1. Exists(i) /\ certificates[i] \in Rows /\ i # r.issuance
      BY <2>1 DEF Exists, NoRow, PkiTypeOK
    <3>2. CASE i = r.old
      BY <3>1, <3>2, <2>4 DEF Rows
    <3> QED  BY <3>1, <3>2, <2>4
  <2>7. PkiTypeOK'
    BY <1>6, <2>1, <2>5 DEF RotateCommit, PkiTypeOK, HandlerOK, Become, Exists
  <2> QED  BY <2>1, <2>5, <2>6, <2>7
<1>7. ASSUME NEW i \in Issuance, Revoke(t, i)
      PROVE  UNCHANGED <<certificates, revokedFor>> /\ PkiTypeOK'
  BY <1>7 DEF Revoke, PkiTypeOK, HandlerOK, Become, Exists, Active, NoRow, Rows
<1>8. CASE RevokeCommit(t)
  BY <1>8 DEF RevokeCommit, PkiTypeOK, HandlerOK, Become, Exists, Revoked, Rows, NoRow, Idle
<1>9. CASE End(t)
  BY <1>9 DEF End, PkiTypeOK, HandlerOK, Become, Idle, Exists, Revoked
<1> QED
  BY <1>1, <1>2, <1>3, <1>4, <1>5, <1>6, <1>7, <1>8, <1>9 DEF PkiStep, Revoked, Exists

-----------------------------------------------------------------------------
(* device-edge-service *)

EdgeTypeOK ==
    /\ edge \in [up : BOOLEAN, revoked : SUBSET Issuance, left : 0..CrlLifetime]
    /\ fetch \in [at : {"none", "asked", "read", "built"}, revoked : SUBSET Issuance,
                  left : 0..CrlLifetime, age : 0..FetchTimeout]

\* A list is dated after its rows were read: what it lacks was revoked within the
\* time its fetch took, and that only adds to the list's life.
ListInv ==
    /\ RevokedSince
    /\ fetch.at = "read" => \A i \in Revoked \ fetch.revoked : revokedFor[i] <= fetch.age
    /\ fetch.at = "built" /\ fetch.left > 0 =>
         \A i \in Revoked \ fetch.revoked : revokedFor[i] + fetch.left <= CrlLifetime + FetchTimeout
    /\ edge.left > 0 =>
         \A i \in Revoked \ edge.revoked : revokedFor[i] + edge.left <= CrlLifetime + FetchTimeout

TrustInv == setting \in Settings /\ PkiTypeOK /\ EdgeTypeOK /\ ListInv

\* At first nothing is revoked and every list is fresh.
LEMMA TrustInitially == Init => TrustInv
BY CrlAssumption DEF Init, PkiInit, EdgeInit, TrustInv, PkiTypeOK, EdgeTypeOK, ListInv,
   RevokedSince, Revoked, HandlerOK, Idle, NoRow, Down, NoFetch

\* What is revoked now has been revoked for no time.
LEMMA RevocationKeepsLists ==
    ASSUME TrustInv, PkiTypeOK', Revoked \subseteq Revoked',
           UNCHANGED <<revokedFor, edge, fetch, setting>>
    PROVE  TrustInv'
<1>1. RevokedSince'
  BY DEF TrustInv, ListInv, RevokedSince
<1>2. \A i \in Revoked' \ Revoked : revokedFor[i] = 0
  BY DEF TrustInv, ListInv, RevokedSince, Revoked
<1>3. EdgeTypeOK'
  BY DEF TrustInv, EdgeTypeOK
<1>4. ListInv'
  BY <1>1, <1>2, CrlAssumption DEF TrustInv, ListInv, EdgeTypeOK
<1> QED  BY <1>3, <1>4 DEF TrustInv

\* What the edge does with lists and connections keeps what is known of them.
LEMMA EdgeKeepsLists ==
    ASSUME TrustInv, EdgeStep, UNCHANGED <<pkiVars, setting>>
    PROVE  TrustInv'
<1> USE CrlAssumption DEF TrustInv, EdgeTypeOK, ListInv, RevokedSince
<1>1. PkiTypeOK' /\ UNCHANGED <<Revoked, revokedFor>>
  BY DEF pkiVars, PkiTypeOK, HandlerOK, Exists, Revoked
<1>2. CASE Refresh
  BY <1>1, <1>2 DEF Refresh, NoFetch
<1>3. CASE ReadRevoked
  BY <1>1, <1>3 DEF ReadRevoked, Revoked
<1>4. CASE BuildCrl
  <2>1. fetch' = [at |-> "built", revoked |-> fetch.revoked, left |-> CrlLifetime,
                  age |-> fetch.age] /\ UNCHANGED edge
    BY <1>4 DEF BuildCrl
  <2>2. \A i \in Revoked \ fetch.revoked : revokedFor[i] \in Nat /\ revokedFor[i] <= FetchTimeout
    BY <1>4 DEF BuildCrl, PkiTypeOK, Revoked
  <2> QED  BY <1>1, <2>1, <2>2
<1>5. CASE Load
  BY <1>1, <1>5 DEF Load, NoFetch
<1>6. CASE RefreshFails
  BY <1>1, <1>6 DEF RefreshFails, NoFetch
<1>7. CASE Restart
  BY <1>1, <1>7 DEF Restart, Down, NoFetch
<1> QED  BY <1>2, <1>3, <1>4, <1>5, <1>6, <1>7 DEF EdgeStep

\* Time keeps it: the edge reloads its list before it is too old.
LEMMA TimeKeepsLists ==
    ASSUME TrustInv, PkiTick, EdgeTick, UNCHANGED setting
    PROVE  TrustInv'
<1> USE CrlAssumption, HorizonAssumption DEF TrustInv, EdgeTypeOK, ListInv, RevokedSince
<1>1. UNCHANGED <<certificates, thread, Revoked>>
  BY DEF PkiTick, Revoked
<1>2. revokedFor' \in [Issuance -> Nat]
      /\ \A i \in Issuance : /\ revokedFor'[i] <= revokedFor[i] + 1
                             /\ i \notin Revoked => revokedFor'[i] = 0
  BY DEF PkiTick, PkiTypeOK, Older
<1>3. PkiTypeOK'
  BY <1>1, <1>2 DEF PkiTypeOK, HandlerOK, Exists
<1>4. EdgeTypeOK'
  <2>1. edge' \in [up : BOOLEAN, revoked : SUBSET Issuance, left : 0..CrlLifetime]
    BY DEF EdgeTick
  <2>2. CASE fetch = NoFetch
    BY <2>1, <2>2 DEF EdgeTick
  <2>3. CASE fetch # NoFetch
    <3>1. fetch.age < FetchTimeout
          /\ fetch' = [at |-> fetch.at, revoked |-> fetch.revoked, age |-> fetch.age + 1,
                       left |-> IF fetch.left = 0 THEN 0 ELSE fetch.left - 1]
      BY <2>3 DEF EdgeTick
    <3> QED  BY <2>1, <3>1
  <2> QED  BY <2>2, <2>3
<1>5. ASSUME NEW i \in Revoked
      PROVE  /\ fetch.at = "read" /\ i \notin fetch.revoked => revokedFor'[i] <= fetch'.age
             /\ fetch.at = "built" /\ fetch'.left > 0 /\ i \notin fetch.revoked
                  => revokedFor'[i] + fetch'.left <= CrlLifetime + FetchTimeout
             /\ edge'.left > 0 /\ i \notin edge.revoked
                  => revokedFor'[i] + edge'.left <= CrlLifetime + FetchTimeout
  BY <1>2 DEF EdgeTick, NoFetch, PkiTypeOK, Revoked
<1>6. fetch'.at = fetch.at /\ fetch'.revoked = fetch.revoked /\ edge'.revoked = edge.revoked
  BY DEF EdgeTick
<1> QED  BY <1>1, <1>2, <1>3, <1>4, <1>5, <1>6

\* Every step keeps what is known of lists and connections.
LEMMA TrustPreserved == TrustInv /\ [Next]_vars => TrustInv'
<1> SUFFICES ASSUME TrustInv, [Next]_vars
             PROVE  TrustInv'
  OBVIOUS
<1>1. CASE Pki
  BY <1>1, RegisterGrows, RevocationKeepsLists, SettingsAssumption DEF Pki, TrustInv, edgeVars
<1>2. CASE Edge(EdgeStep)
  BY <1>2, EdgeKeepsLists DEF Edge
<1>3. CASE Tick
  BY <1>3, TimeKeepsLists DEF Tick
<1>4. CASE UNCHANGED <<pkiVars, edgeVars, setting>>
  BY <1>4, RevocationKeepsLists DEF TrustInv, pkiVars, edgeVars, PkiTypeOK, HandlerOK, Exists, Revoked
<1> QED  BY <1>1, <1>2, <1>3, <1>4 DEF Next, Admission, Presence, vars

-----------------------------------------------------------------------------
(* agent-control-service *)

PresenceTypeOK ==
    /\ sessions \in [Device -> [state : {"absent", "online", "offline"}, seen : Nat]]
    /\ DOMAIN announced = Device
    /\ DOMAIN beat = Beat
    /\ \A b \in Beat : beat[b].at = "read" => beat[b].age \in Nat

PresenceInv == setting \in Settings /\ PresenceTypeOK /\ StateIsAnnounced

\* At first no device is present.
LEMMA PresenceInitially == Init => PresenceInv
BY DEF Init, PresenceInit, PresenceInv, PresenceTypeOK, StateIsAnnounced, NoBeat

\* A heartbeat writes the state only together with its event.
LEMMA HeartbeatAnnounces ==
    ASSUME PresenceInv, NEW b \in Beat, BeatStep(b), UNCHANGED setting
    PROVE  PresenceInv'
<1> USE DEF PresenceInv, PresenceTypeOK, StateIsAnnounced
<1>1. CASE ReadSession(b)
  BY <1>1 DEF ReadSession
<1>2. CASE Record(b)
  <2> DEFINE d == beat[b].device
             new == [state |-> IF beat[b].saw = "online" THEN sessions[d].state ELSE "online",
                     seen |-> beat[b].age]
  <2>1. /\ sessions' = [sessions EXCEPT ![d] = new]
        /\ announced' = IF beat[b].saw = "online" THEN announced
                        ELSE [announced EXCEPT ![d] = "online"]
        /\ beat' = [beat EXCEPT ![b] = NoBeat]
    BY <1>2 DEF Record, Announce
  <2>2. d \in Device => new \in [state : {"absent", "online", "offline"}, seen : Nat]
    BY <1>2 DEF Record
  <2>3. PresenceTypeOK'
    BY <2>1, <2>2 DEF NoBeat
  <2>4. \A e \in Device : announced'[e] = sessions'[e].state
    BY <2>1
  <2> QED  BY <2>3, <2>4
<1>3. CASE BeatFails(b)
  BY <1>3 DEF BeatFails, NoBeat
<1> QED  BY <1>1, <1>2, <1>3 DEF BeatStep

\* Every step keeps what is known of presence and its announcements.
LEMMA PresencePreserved == PresenceInv /\ [Next]_vars => PresenceInv'
<1> SUFFICES ASSUME PresenceInv, [Next]_vars
             PROVE  PresenceInv'
  OBVIOUS
<1> USE DEF PresenceInv, PresenceTypeOK, StateIsAnnounced
<1>1. ASSUME NEW b \in Beat, Presence(BeatStep(b))
      PROVE  PresenceInv'
  BY <1>1, HeartbeatAnnounces DEF Presence
<1>2. CASE Presence(SweepRead \/ SweepFails)
  BY <1>2 DEF Presence, SweepRead, SweepFails
<1>3. CASE Presence(SweepCommit)
  BY <1>3 DEF Presence, SweepCommit
<1>4. CASE Admission
  BY <1>4, SettingsAssumption DEF Admission, SendBeat
<1>5. CASE Tick
  BY <1>5, OfflineAssumption DEF Tick, PresenceTick, Older
<1>6. CASE UNCHANGED <<presenceVars, setting>>
  BY <1>6 DEF presenceVars
<1> QED
  BY <1>1, <1>2, <1>3, <1>4, <1>5, <1>6 DEF Next, Pki, Edge, Presence, PresenceStep, vars

-----------------------------------------------------------------------------
(* The theorems *)

\* What was announced last of a device is what the table says of it, however
\* heartbeats and sweeps overlap (apply_heartbeat, mark_stale_devices_offline).
THEOREM StatesAreAnnounced == Spec => []StateIsAnnounced
<1>1. PresenceInv => StateIsAnnounced
  BY DEF PresenceInv
<1> QED  BY <1>1, PresenceInitially, PresencePreserved, PTL DEF Spec

\* An admission is by the list the edge holds, which has not run out.
LEMMA AdmissionIsTimely ==
    ASSUME TrustInv, PresenceInv, [Next]_vars, NEW b \in Beat, beat[b] = NoBeat, beat'[b] # NoBeat
    PROVE  revokedFor[beat'[b].certificate] < CrlLifetime + FetchTimeout
<1>1. CASE Admission
  <2>1. PICK c \in Beat, i \in Issuance : SendBeat(c, i)
    BY <1>1, SettingsAssumption DEF Admission, TrustInv
  <2>2. beat'[b].certificate = i
    BY <2>1 DEF SendBeat
  <2>3. revokedFor[i] < CrlLifetime + FetchTimeout
    BY <2>1, CrlAssumption
    DEF SendBeat, Admits, TrustInv, ListInv, RevokedSince, PkiTypeOK, EdgeTypeOK
  <2> QED  BY <2>2, <2>3
<1>2. ASSUME NEW c \in Beat, Presence(BeatStep(c))
      PROVE  FALSE
  BY <1>2 DEF Presence, BeatStep, ReadSession, Record, BeatFails, NoBeat, PresenceInv, PresenceTypeOK
<1>3. CASE Presence(SweepRead \/ SweepCommit \/ SweepFails)
  BY <1>3 DEF Presence, SweepRead, SweepCommit, SweepFails
<1>4. CASE Tick
  <2>1. beat'[b] = IF beat[b].at = "read"
                   THEN [beat[b] EXCEPT !.age = Older(@, OfflineTimeout + 1)] ELSE beat[b]
    BY <1>4 DEF Tick, PresenceTick, Older
  <2>2. NoBeat.at = "none"
    BY DEF NoBeat
  <2> QED  BY <2>1, <2>2
<1>5. CASE UNCHANGED presenceVars
  BY <1>5 DEF presenceVars
<1> QED
  BY <1>1, <1>2, <1>3, <1>4, <1>5 DEF Next, Pki, Edge, Presence, PresenceStep, vars

\* Nobody is let in with a certificate that was revoked longer ago than a list
\* lives and a fetch takes (ca_crl, LoadDER, ServeHTTP).
THEOREM RevocationsArriveInTime == Spec => RefusedInTime
<1>1. TrustInv /\ PresenceInv /\ [Next]_vars =>
        [\A b \in Beat : beat[b] = NoBeat /\ beat'[b] # NoBeat
           => revokedFor[beat'[b].certificate] < CrlLifetime + FetchTimeout]_vars
  BY AdmissionIsTimely
<1> QED
  BY <1>1, TrustInitially, TrustPreserved, PresenceInitially, PresencePreserved, PTL
  DEF Spec, RefusedInTime

\* A step is a step of one handler.
LEMMA OneHandler ==
    ASSUME NEW t, NEW requests, PkiStep(t, requests)
    PROVE  \E h : thread' = [thread EXCEPT ![t] = h]
BY DEF PkiStep, Issue, Rotate, Lookup, Collide, IssueCommit, RotateCommit, Revoke, RevokeCommit, End,
   Existing, Become

\* It refuses its request if another one has the certificate, or if there is none.
LEMMA RefusedWithReason ==
    ASSUME PkiTypeOK, NEW t \in Thread, NEW requests, PkiStep(t, requests),
           thread'[t].at = "refused"
    PROVE  ~MadeFor(thread'[t].request)
<1>1. ASSUME NEW h, Become(t, h)
      PROVE  thread'[t] = h
  BY <1>1 DEF Become, PkiTypeOK
<1>2. ASSUME NEW r, Existing(t, r)
      PROVE  ~MadeFor(thread'[t].request)
  <2>1. thread'[t] = [at |-> IF MadeFor(r) THEN "answered" ELSE "refused", request |-> r]
    BY <1>1, <1>2 DEF Existing
  <2> QED  BY <2>1
<1>3. ASSUME NEW r, Issue(t, r)
      PROVE  ~MadeFor(thread'[t].request)
  BY <1>1, <1>2, <1>3 DEF Issue
<1>4. CASE Lookup(t)
  <2> DEFINE r == thread[t].request
  <2>1. CASE Exists(r.issuance)
    BY <1>2, <1>4, <2>1 DEF Lookup
  <2>2. CASE ~Exists(r.issuance)
    <3>1. thread'[t] \in {[at |-> "refused", request |-> r], [at |-> "inserting", request |-> r]}
      BY <1>1, <1>4, <2>2 DEF Lookup
    <3> QED  BY <2>2, <3>1 DEF MadeFor
  <2> QED  BY <2>1, <2>2
<1>5. CASE Collide(t)
  BY <1>2, <1>5 DEF Collide
<1>6. CASE IssueCommit(t) \/ RotateCommit(t) \/ RevokeCommit(t) \/ End(t)
  <2>1. thread'[t].at \in {"answered", "idle"}
    <3>1. CASE IssueCommit(t)
      BY <1>1, <3>1 DEF IssueCommit
    <3>2. CASE RotateCommit(t)
      BY <1>1, <3>2 DEF RotateCommit
    <3>3. CASE RevokeCommit(t)
      BY <1>1, <3>3 DEF RevokeCommit, Idle
    <3>4. CASE End(t)
      BY <1>1, <3>4 DEF End, Idle
    <3> QED  BY <1>6, <3>1, <3>2, <3>3, <3>4
  <2> QED  BY <2>1
<1>7. ASSUME NEW r, Rotate(t, r)
      PROVE  FALSE
  BY <1>1, <1>7 DEF Rotate
<1>8. ASSUME NEW i, Revoke(t, i)
      PROVE  FALSE
  BY <1>1, <1>8 DEF Revoke
<1> QED  BY <1>3, <1>4, <1>5, <1>6, <1>7, <1>8 DEF PkiStep

\* A request that is repeated or raced is refused only if no certificate was made
\* for it (_same_issuance, _same_rotation).
THEOREM RetriesAreAnswered == Spec => RetryIsAnswered
<1>1. ASSUME TrustInv, [Next]_vars, NEW t \in Thread,
             thread[t].at # "refused", thread'[t].at = "refused"
      PROVE  ~MadeFor(thread'[t].request)
  <2>1. CASE Pki
    <3>1. PICK u \in Thread, requests \in SUBSET Request : PkiStep(u, requests)
      BY <1>1, <2>1, SettingsAssumption DEF Pki, TrustInv
    <3>2. PICK h : thread' = [thread EXCEPT ![u] = h]
      BY <3>1, OneHandler
    <3>3. u = t /\ thread'[t] = h
      BY <3>2, <1>1 DEF TrustInv, PkiTypeOK
    <3> QED  BY <3>1, <3>3, <1>1, RefusedWithReason DEF TrustInv
  <2> QED
    BY <2>1, <1>1 DEF Next, Edge, Admission, Presence, Tick, PkiTick, pkiVars, vars
<1>2. TrustInv /\ [Next]_vars =>
        [\A t \in Thread : thread[t].at # "refused" /\ thread'[t].at = "refused"
           => ~MadeFor(thread'[t].request)]_pkiVars
  BY <1>1
<1> QED  BY <1>2, TrustInitially, TrustPreserved, PTL DEF Spec, RetryIsAnswered
=============================================================================
