-------------------------- MODULE AuditTrailProofs --------------------------
(* Theorems about module AuditTrail, for any outbox, requests, workers, consumers,
   tenants, events that cannot be published or read, limits and failures. *)
EXTENDS AuditTrail, FiniteSetTheorems, SequenceTheorems, WellFoundedInduction, TLAPS

-----------------------------------------------------------------------------
(* The stream *)

StreamOK ==
    /\ stream \in Seq(Event)
    /\ remembered \subseteq Stored

\* Messages are added at the end and stay.
StreamGrows ==
    /\ DOMAIN stream \subseteq DOMAIN stream'
    /\ \A m \in DOMAIN stream : stream'[m] = stream[m]

\* What the stream has stored stays stored while it only grows.
LEMMA StoredGrows ==
    ASSUME StreamGrows
    PROVE  Stored \subseteq Stored'
BY DEF StreamGrows, Stored

\* What a publish does, and that it is stored if the publish returned.
LEMMA PublishStores ==
    ASSUME StreamOK, NEW e \in Event, NEW returned \in BOOLEAN, Publish(e, returned)
    PROVE  /\ StreamOK' /\ StreamGrows
           /\ Stored' \subseteq Stored \cup {e}
           /\ returned => e \in Stored'
<1>1. CASE UNCHANGED streamVars
  BY <1>1 DEF streamVars, StreamOK, StreamGrows, Publish, Store, Stored
<1>2. CASE stream' = Append(stream, e) /\ remembered' = remembered \cup {e}
  <2>1. /\ stream' \in Seq(Event) /\ Len(stream') = Len(stream) + 1
        /\ \A m \in 1..Len(stream) : stream'[m] = stream[m]
        /\ stream'[Len(stream) + 1] = e
    BY <1>2, AppendProperties DEF StreamOK
  <2>2. DOMAIN stream = 1..Len(stream) /\ DOMAIN stream' = 1..(Len(stream) + 1)
        /\ Len(stream) \in Nat
    BY <2>1, LenProperties DEF StreamOK
  <2>3. StreamGrows
    BY <2>1, <2>2 DEF StreamGrows
  <2>4. Stored' = Stored \cup {e}
    BY <2>1, <2>2 DEF Stored
  <2> QED  BY <1>2, <2>1, <2>3, <2>4 DEF StreamOK
<1> QED  BY <1>1, <1>2 DEF Publish, Store

\* Rows of the outbox and events of the gateway are events.
LEMMA EventTypes == \A n \in Domain : Row(n) \in Event /\ Accepted(n) \in Event /\ Completed(n) \in Event
BY DEF Event, Row, Accepted, Completed

\* The three kinds of events are different, and so are the events of different rows.
LEMMA EventsDiffer ==
    \A n, i : /\ Row(n) # Accepted(i) /\ Row(n) # Completed(i) /\ Accepted(n) # Completed(i)
              /\ Row(n) = Row(i) => n = i
BY DEF Row, Accepted, Completed

-----------------------------------------------------------------------------
(* The gateway *)

GatewayOK ==
    /\ call \in [Request -> {"new", "refused", "intent", "calling", "waiting",
                             "completing", "answered", "cancelled"}]
    /\ upstream \in [Request -> {"none", "arrived", "executed", "declined"}]
    /\ \A r \in Audited : call[r] \in {"calling", "waiting"} \/ upstream[r] # "none"
                            => Accepted(r) \in Stored

\* What is known of the gateway stays true while the stream only grows.
LEMMA GatewayStands ==
    ASSUME GatewayOK, StreamGrows, UNCHANGED gatewayVars
    PROVE  GatewayOK'
BY StoredGrows, GatewayAssumption DEF GatewayOK, gatewayVars

\* A handler goes on to the call only after its notice was stored.
LEMMA HandlerPreserves ==
    ASSUME GatewayOK, StreamOK, NEW r \in Request, Handle(r) \/ Decline(r) \/ Cancel(r)
    PROVE  /\ GatewayOK' /\ StreamOK' /\ StreamGrows
           /\ \E e \in {Accepted(r), Completed(r)} : Stored' \subseteq Stored \cup {e}
<1>0. Accepted(r) \in Event /\ Completed(r) \in Event
  BY EventTypes, RequestAssumption
<1>1. ASSUME UNCHANGED streamVars
      PROVE  StreamOK' /\ StreamGrows /\ Stored' = Stored
  BY <1>1 DEF StreamOK, StreamGrows, Stored, streamVars
<1>2. CASE Admit(r)
  BY <1>1, <1>2, GatewayAssumption DEF Admit, GatewayOK
<1>3. ASSUME NEW returned \in BOOLEAN, Intent(r, returned)
      PROVE  GatewayOK' /\ StreamOK' /\ StreamGrows /\ Stored' \subseteq Stored \cup {Accepted(r)}
  <2>1. /\ StreamOK' /\ StreamGrows
        /\ Stored' \subseteq Stored \cup {Accepted(r)}
        /\ returned => Accepted(r) \in Stored'
    BY <1>0, <1>3, PublishStores DEF Intent
  <2>2. Stored \subseteq Stored'
    BY <2>1, StoredGrows
  <2> QED  BY <1>3, <2>1, <2>2, GatewayAssumption DEF Intent, GatewayOK
<1>4. ASSUME NEW returned \in BOOLEAN, Complete(r, returned)
      PROVE  GatewayOK' /\ StreamOK' /\ StreamGrows /\ Stored' \subseteq Stored \cup {Completed(r)}
  <2>1. StreamOK' /\ StreamGrows /\ Stored' \subseteq Stored \cup {Completed(r)}
    BY <1>0, <1>4, PublishStores DEF Complete
  <2>2. Stored \subseteq Stored'
    BY <2>1, StoredGrows
  <2> QED  BY <1>4, <2>1, <2>2, GatewayAssumption DEF Complete, GatewayOK
<1>5. CASE ConnectError(r)
  BY <1>1, <1>5, GatewayAssumption DEF ConnectError, Ended, GatewayOK
<1>6. CASE Forward(r)
  BY <1>1, <1>6, GatewayAssumption DEF Forward, GatewayOK
<1>7. CASE Response(r)
  BY <1>1, <1>7, GatewayAssumption DEF Response, Ended, GatewayOK
<1>8. CASE RequestError(r)
  BY <1>1, <1>8, GatewayAssumption DEF RequestError, Ended, GatewayOK
<1>9. CASE Decline(r)
  BY <1>1, <1>9, GatewayAssumption DEF Decline, Decide, GatewayOK
<1>10. CASE Cancel(r)
  BY <1>1, <1>10, GatewayAssumption DEF Cancel, GatewayOK
<1> QED
  BY <1>2, <1>3, <1>4, <1>5, <1>6, <1>7, <1>8, <1>9, <1>10, <1>1 DEF Handle, Admit, ConnectError,
     Forward, Response, RequestError, Decline, Decide, Cancel

\* The service behind executes only what the gateway forwarded.
LEMMA ExecutePreserves ==
    ASSUME GatewayOK, StreamOK, NEW r \in Request, Execute(r)
    PROVE  GatewayOK' /\ StreamOK' /\ StreamGrows /\ Stored' = Stored
<1>1. StreamOK' /\ StreamGrows /\ Stored' = Stored
  BY DEF StreamOK, StreamGrows, Stored, streamVars, Execute, Decide
<1> QED  BY <1>1, GatewayAssumption DEF Execute, Decide, GatewayOK

-----------------------------------------------------------------------------
(* The outbox *)

Memory == [phase : {"off", "free", "publishing"}, todo : SUBSET Domain,
           sent : SUBSET Domain, tried : SUBSET Domain]

\* Each worker holds rows that were written; what it has sent is in the stream, and
\* so is what is marked published; what is in the stream was written.
OutboxOK ==
    /\ row \in [Domain -> {"absent", "pending", "published"}]
    /\ worker \in [Worker -> Memory]
    /\ \A w \in Worker :
        /\ \A n \in worker[w].todo : row[n] # "absent"
        /\ \A n \in worker[w].sent : Row(n) \in Stored
    /\ \A n \in Domain : row[n] = "published" => Row(n) \in Stored
    /\ \A n \in Domain : Row(n) \in Stored => row[n] # "absent"

\* Steps of others: the stream grows, but by no row of this outbox.
LEMMA OutboxStands ==
    ASSUME OutboxOK, StreamGrows, UNCHANGED <<row, worker>>,
           \A n \in Domain : Row(n) \in Stored' => Row(n) \in Stored
    PROVE  OutboxOK'
BY StoredGrows DEF OutboxOK

\* Writing a row keeps what is known of the outbox.
LEMMA WritePreserves ==
    ASSUME OutboxOK, NEW n \in Domain, WriteRow(n), Stored' = Stored
    PROVE  OutboxOK'
BY DEF OutboxOK, WriteRow

\* A worker publishes only what was written and marks only what it published.
LEMMA WorkerPreserves ==
    ASSUME OutboxOK, StreamOK, NEW w \in Worker, NEW fault \in BOOLEAN, OutboxStep(w, fault)
    PROVE  /\ OutboxOK' /\ StreamOK' /\ StreamGrows
           /\ \A n \in Domain : row[n] = "absent" <=> row'[n] = "absent"
           /\ \A e \in Stored' : e \in Stored \/ \E n \in Domain : e = Row(n)
<1>0. worker \in [Worker -> Memory]
  BY DEF OutboxOK
<1>1. ASSUME UNCHANGED streamVars
      PROVE  StreamOK' /\ StreamGrows /\ Stored' = Stored
  BY <1>1 DEF StreamOK, StreamGrows, Stored, streamVars
<1>2. CASE Connect(w) \/ Pick(w) \/ EndPass(w) \/ Read(w) \/ Crash(w)
  <2>1. UNCHANGED <<row, streamVars>>
    BY <1>2 DEF Connect, Pick, EndPass, Read, Crash
  <2>2. CASE Connect(w) \/ EndPass(w) \/ Crash(w)
    BY <1>1, <2>1, <2>2 DEF Connect, EndPass, Crash, OutboxOK, Off, Memory
  <2>3. CASE Pick(w)
    <3>1. PICK n \in Pending : worker' = [worker EXCEPT ![w].phase = "publishing",
                                                       ![w].todo = {n},
                                                       ![w].tried = @ \cup {n}]
      BY <2>3 DEF Pick, Oldest, Pickable
    <3>2. /\ worker' \in [Worker -> Memory]
          /\ \A v \in Worker \ {w} : worker'[v] = worker[v]
          /\ worker'[w].todo = {n} /\ worker'[w].sent = worker[w].sent
      BY <3>1, ZenonT(30) DEF OutboxOK, Memory, Pending
    <3> QED  BY <1>1, <2>1, <3>2 DEF OutboxOK, Pending
  <2>4. CASE Read(w)
    BY <1>1, <2>1, <2>4, ZenonT(30) DEF Read, OutboxOK, Oldest, Pending, Memory
  <2>5. OutboxOK'
    BY <1>2, <2>2, <2>3, <2>4
  <2> QED  BY <1>1, <2>1, <2>5
<1>3. ASSUME NEW next \in {"free", "off"}, Save(w, next)
      PROVE  OutboxOK' /\ UNCHANGED streamVars
             /\ \A n \in Domain : row[n] = "absent" <=> row'[n] = "absent"
  <2>1. Stored' = Stored /\ UNCHANGED streamVars
    BY <1>1, <1>3 DEF Save
  <2>2. \A n \in worker[w].sent : row[n] # "absent"
    BY DEF OutboxOK, Memory
  <2>3. row' \in [Domain -> {"absent", "pending", "published"}]
        /\ \A n \in Domain : row'[n] = IF n \in worker[w].sent THEN "published" ELSE row[n]
    BY <1>3 DEF Save, OutboxOK
  <2>4. /\ worker' \in [Worker -> Memory]
        /\ \A v \in Worker \ {w} : worker'[v] = worker[v]
        /\ worker'[w].todo = {} /\ worker'[w].sent = {}
    BY <1>0, <1>3 DEF Save, Memory
  <2> QED  BY <2>1, <2>2, <2>3, <2>4 DEF OutboxOK, Memory
<1>4. CASE Send(w, fault)
  <2>1. PICK n \in Oldest(1, worker[w].todo) :
          /\ IF n \in Rejected
             THEN ~fault /\ UNCHANGED streamVars
             ELSE Publish(Row(n), ~fault)
          /\ worker' = [worker EXCEPT
               ![w].todo = @ \ {n},
               ![w].sent = IF fault \/ n \in Rejected THEN @ ELSE @ \cup {n}]
    BY <1>4 DEF Send
  <2>2. n \in Domain /\ row[n] # "absent" /\ Row(n) \in Event
    BY EventTypes DEF Oldest, OutboxOK, Memory
  <2>3. /\ StreamOK' /\ StreamGrows
        /\ Stored' \subseteq Stored \cup {Row(n)}
        /\ n \notin Rejected /\ ~fault => Row(n) \in Stored'
    <3>1. CASE n \in Rejected
      BY <1>1, <2>1, <3>1
    <3>2. CASE n \notin Rejected
      BY <2>1, <2>2, <3>2, PublishStores
    <3> QED  BY <3>1, <3>2
  <2>4. Stored \subseteq Stored'
    BY <2>3, StoredGrows
  <2>5. /\ worker' \in [Worker -> Memory]
        /\ \A v \in Worker \ {w} : worker'[v] = worker[v]
        /\ worker'[w].todo = worker[w].todo \ {n}
        /\ worker'[w].sent = IF fault \/ n \in Rejected THEN worker[w].sent
                             ELSE worker[w].sent \cup {n}
    BY <1>0, <2>1, <2>2 DEF Memory
  <2>6. UNCHANGED row
    BY <1>4 DEF Send
  <2>7. \A i \in Domain : Row(i) \in Stored' => row[i] # "absent"
    BY <2>2, <2>3, EventsDiffer DEF OutboxOK
  <2>8. OutboxOK'
    BY <2>2, <2>3, <2>4, <2>5, <2>6, <2>7 DEF OutboxOK
  <2> QED  BY <2>2, <2>3, <2>6, <2>8
<1> QED
  BY <1>1, <1>2, <1>3, <1>4 DEF OutboxStep, EnrollmentWorker, PkiWorker, TenantWorker, AssetWorker,
     CommandWorker, TelemetryWorker, AgentControlWorker, RowByRow, Batch, Connect, Pick, EndPass,
     Read, Crash

-----------------------------------------------------------------------------
(* The hash chain *)

IsRecord(k, r) ==
    /\ r = [sequence |-> r.sequence, chain_key |-> k, source_event_id |-> r.source_event_id,
            prev_hash |-> r.prev_hash, record_hash |-> Hash(r)]
    /\ r.sequence \in Nat \ {0}
    /\ r.source_event_id \in Event \ Malformed
    /\ TenantOf[r.source_event_id] = k

\* The rows of a chain are numbered from 1 without gap or repeat, each is linked to
\* the one before it, no event is there twice, and the head is about the last one.
ChainOK(k, rows, head) ==
    /\ IsFiniteSet(rows)
    /\ head.last_sequence = Cardinality(rows)
    /\ \A r \in rows : IsRecord(k, r) /\ r.sequence <= Cardinality(rows)
    /\ \A s \in 1..Cardinality(rows) : \E r \in rows : r.sequence = s
    /\ \A r, q \in rows : r.sequence = q.sequence => r = q
    /\ \A r, q \in rows : r.source_event_id = q.source_event_id => r = q
    /\ \A r \in rows : r.sequence = 1 => r.prev_hash = ZERO_HASH
    /\ \A r, q \in rows : q.sequence = r.sequence - 1 => r.prev_hash = q.record_hash
    /\ rows = {} => head = NoHead
    /\ \A r \in rows : r.sequence = Cardinality(rows) => head.last_hash = r.record_hash

\* The head after record r was appended.
HeadOf(r) == [last_sequence |-> r.sequence, last_hash |-> r.record_hash]

\* An event that is not in a chain can be appended to it, and that keeps it whole.
LEMMA AppendKeepsChain ==
    ASSUME NEW k, NEW rows, NEW head, ChainOK(k, rows, head),
           NEW e \in Event \ Malformed, TenantOf[e] = k,
           \A q \in rows : q.source_event_id # e
    PROVE  LET r == NewRecord(k, e, head)
           IN  /\ ChainOK(k, rows \cup {r}, HeadOf(r))
               /\ \A q \in rows : q.sequence < r.sequence
               /\ r.sequence = Cardinality(rows) + 1
               /\ Cardinality(rows \cup {r}) = Cardinality(rows) + 1
               /\ r.source_event_id = e
<1> DEFINE r == NewRecord(k, e, head)
           n == Cardinality(rows)
           after == rows \cup {r}
<1>1. n \in Nat /\ IsFiniteSet(rows) /\ head.last_sequence = n
  BY FS_CardinalityType DEF ChainOK
<1>2. /\ r = [sequence |-> n + 1, chain_key |-> k, source_event_id |-> e,
              prev_hash |-> head.last_hash, record_hash |-> Hash(r)]
      /\ r.sequence = n + 1 /\ r.source_event_id = e /\ r.prev_hash = head.last_hash
  BY <1>1 DEF NewRecord, Hash
<1>3. IsRecord(k, r)
  BY <1>1, <1>2 DEF IsRecord
<1>4. \A q \in rows : q.sequence \in Nat \ {0} /\ q.sequence <= n
  BY DEF ChainOK, IsRecord
<1>5. r \notin rows /\ IsFiniteSet(after) /\ Cardinality(after) = n + 1
  BY <1>1, <1>2, FS_AddElement
<1> HIDE DEF r
<1>6. \A x \in after : IsRecord(k, x) /\ x.sequence <= n + 1
  BY <1>1, <1>2, <1>3, <1>4 DEF ChainOK
<1>7. \A s \in 1..(n + 1) : \E x \in after : x.sequence = s
  BY <1>1, <1>2 DEF ChainOK
<1>8. /\ \A x, q \in after : x.sequence = q.sequence => x = q
      /\ \A x, q \in after : x.source_event_id = q.source_event_id => x = q
  BY <1>1, <1>2, <1>4 DEF ChainOK
<1>9. \A x \in after : x.sequence = 1 => x.prev_hash = ZERO_HASH
  <2>1. CASE n = 0
    <3>1. rows = {}
      BY <1>1, <2>1, FS_EmptySet
    <3> QED  BY <1>2, <3>1 DEF ChainOK, NoHead
  <2>2. CASE n # 0
    BY <1>1, <1>2, <2>2 DEF ChainOK
  <2> QED  BY <2>1, <2>2
<1>10. \A x, q \in after : q.sequence = x.sequence - 1 => x.prev_hash = q.record_hash
  <2> SUFFICES ASSUME NEW x \in after, NEW q \in after, q.sequence = x.sequence - 1
               PROVE  x.prev_hash = q.record_hash
    OBVIOUS
  <2>1. CASE x = r
    <3>1. q \in rows /\ q.sequence = n
      BY <1>1, <1>2, <2>1
    <3> QED  BY <1>2, <2>1, <3>1 DEF ChainOK
  <2>2. CASE x # r
    <3>1. x \in rows /\ q \in rows
      BY <1>1, <1>2, <1>4, <2>2
    <3> QED  BY <3>1 DEF ChainOK
  <2> QED  BY <2>1, <2>2
<1>11. HeadOf(r).last_sequence = n + 1 /\ after # {}
       /\ \A x \in after : x.sequence = n + 1 => HeadOf(r).last_hash = x.record_hash
  BY <1>1, <1>2, <1>4 DEF HeadOf
<1> HIDE DEF after
<1>12. ChainOK(k, after, HeadOf(r))
  BY <1>5, <1>6, <1>7, <1>8, <1>9, <1>10, <1>11 DEF ChainOK
<1> QED  BY <1>1, <1>2, <1>4, <1>5, <1>12 DEF r, after

\* verify_chain says yes of a whole chain and its head.
LEMMA WholeIsVerified ==
    ASSUME NEW k, NEW rows, NEW head, ChainOK(k, rows, head)
    PROVE  Verified(rows, head)
<1> DEFINE n == Cardinality(rows)
<1>1. n \in Nat
  BY FS_CardinalityType DEF ChainOK
<1>2. {r.sequence : r \in rows} = 1..n
  BY <1>1 DEF ChainOK, IsRecord
<1>3. \A r \in rows : r.record_hash = Hash(r)
  BY DEF ChainOK, IsRecord
<1>4. RowsAgree(rows)
  BY <1>2, <1>3 DEF RowsAgree, ChainOK
<1>5. CASE n = 0
  BY <1>4, <1>5, FS_EmptySet DEF ChainOK, Verified, HeadAgrees
<1>6. CASE n # 0
  <2>1. PICK r \in rows : r.sequence = n
    BY <1>1, <1>6 DEF ChainOK
  <2> QED  BY <1>4, <2>1 DEF ChainOK, Verified, HeadAgrees
<1> QED  BY <1>5, <1>6

\* It says no once a record is taken out or is about another event.
LEMMA AlteredIsNotVerified ==
    ASSUME NEW k, NEW rows, NEW head, ChainOK(k, rows, head), NEW r \in rows
    PROVE  /\ ~Verified(rows \ {r}, head)
           /\ \A e \in Event \ {r.source_event_id} :
                LET q == [r EXCEPT !.source_event_id = e]
                IN  /\ ~Verified(Altered(rows, r, q), head)
                    /\ ~Verified(Altered(rows, r, [q EXCEPT !.record_hash = Hash(q)]), head)
<1> DEFINE n == Cardinality(rows)
<1>1. /\ IsFiniteSet(rows) /\ n \in Nat /\ head.last_sequence = n
      /\ IsRecord(k, r) /\ r.sequence \in 1..n
  BY FS_CardinalityType DEF ChainOK, IsRecord
<1>2. /\ head # NoHead
      /\ IsFiniteSet(rows \ {r}) /\ Cardinality(rows \ {r}) = n - 1
  BY <1>1, FS_RemoveElement DEF NoHead
<1>3. ~Verified(rows \ {r}, head)
  BY <1>1, <1>2 DEF Verified, HeadAgrees
<1>4. ASSUME NEW e \in Event \ {r.source_event_id}
      PROVE  LET q == [r EXCEPT !.source_event_id = e]
             IN  /\ ~Verified(Altered(rows, r, q), head)
                 /\ ~Verified(Altered(rows, r, [q EXCEPT !.record_hash = Hash(q)]), head)
  <2> DEFINE q == [r EXCEPT !.source_event_id = e]
             p == [q EXCEPT !.record_hash = Hash(q)]
  <2>1. /\ q.sequence = r.sequence /\ q.chain_key = k /\ q.source_event_id = e
        /\ q.prev_hash = r.prev_hash /\ q.record_hash = Hash(r)
        /\ p.sequence = r.sequence /\ p.source_event_id = e /\ p.record_hash = Hash(q)
    BY <1>1 DEF IsRecord
  <2>2. Hash(q) # Hash(r)
    BY <2>1 DEF Hash
  <2> HIDE DEF p, q
  <2>3. ~Verified(Altered(rows, r, q), head)
    BY <2>1, <2>2 DEF Verified, RowsAgree, Altered
  <2>4. p \notin rows \ {r}
    BY <2>1 DEF ChainOK
  <2>5. Cardinality(Altered(rows, r, p)) = n
    <3>1. Cardinality((rows \ {r}) \cup {p}) = (n - 1) + 1
      BY <1>2, <2>4, FS_AddElement
    <3> QED  BY <1>1, <3>1 DEF Altered
  <2>6. CASE r.sequence = n
    <3>1. \A x \in Altered(rows, r, p) : x.sequence = n => x.record_hash # head.last_hash
      <4>1. \A x \in rows \ {r} : x.sequence # n
        BY <2>6 DEF ChainOK
      <4>2. head.last_hash = Hash(r)
        BY <1>1, <2>6 DEF ChainOK, IsRecord
      <4> QED  BY <2>1, <2>2, <4>1, <4>2 DEF Altered
    <3>2. ~Verified(Altered(rows, r, p), head)
      BY <1>2, <2>5, <3>1 DEF Verified, HeadAgrees
    <3> QED  BY <2>3, <3>2 DEF p, q
  <2>7. CASE r.sequence # n
    <3>1. PICK x \in rows : x.sequence = r.sequence + 1
      BY <1>1, <2>7 DEF ChainOK
    <3>2. x.prev_hash = r.record_hash /\ r.record_hash = Hash(r) /\ x # r
          /\ p.sequence = x.sequence - 1
      BY <1>1, <2>1, <3>1 DEF ChainOK, IsRecord
    <3>3. ~Verified(Altered(rows, r, p), head)
      BY <2>1, <2>2, <3>2 DEF Verified, RowsAgree, Altered
    <3> QED  BY <2>3, <3>3 DEF p, q
  <2> QED  BY <2>3, <2>6, <2>7 DEF p, q
<1> QED  BY <1>3, <1>4

-----------------------------------------------------------------------------
(* audit-service *)

ChainsOK ==
    /\ DOMAIN records = Chain /\ DOMAIN heads = Chain
    /\ \A k \in Chain : ChainOK(k, records[k], heads[k])

\* Messages delivered or acknowledged exist; nothing readable is acknowledged that
\* is not on record.
MessagesOK ==
    /\ unacked \subseteq DOMAIN stream /\ acked \subseteq DOMAIN stream
    /\ \A m \in acked : stream[m] \in Malformed \/ Recorded(stream[m])

\* What a consumer read stays true until its commit: the event is not on record, the
\* head is the chain's.
ConsumerOK(c) ==
    /\ consumer[c] = [step |-> consumer[c].step, message |-> consumer[c].message,
                      head |-> consumer[c].head]
    /\ consumer[c].step \in {"idle", "taken", "new", "appending", "committed"}
    /\ consumer[c].step # "idle" => consumer[c].message \in DOMAIN stream
    /\ consumer[c].step \in {"new", "appending"} =>
         EventOf(c) \notin Malformed /\ ~Recorded(EventOf(c))
    /\ consumer[c].step = "appending" => consumer[c].head = heads[ChainOf(c)]
    /\ consumer[c].step = "committed" => Recorded(EventOf(c))

\* Because no two consumers hold one event's lock, or one chain's.
Exclusive(c, d) ==
    /\ consumer[c].step \in {"new", "appending"} /\ consumer[d].step \in {"new", "appending"} =>
         EventOf(c) # EventOf(d)
    /\ consumer[c].step = "appending" /\ consumer[d].step = "appending" =>
         ChainOf(c) # ChainOf(d)

ConsumersOK ==
    /\ DOMAIN consumer = Consumer
    /\ \A c \in Consumer : ConsumerOK(c)
    /\ \A c, d \in Consumer : c # d => Exclusive(c, d)

\* The verifier holds its chain's lock from the rows to the head.
VerifierOK ==
    /\ FALSE \notin verdicts
    /\ verifier.step \in {"idle", "reading"}
    /\ verifier.step = "reading" =>
         /\ verifier.chain \in Chain /\ verifier.rows = records[verifier.chain]
         /\ \A c \in Consumer : consumer[c].step = "appending" => ChainOf(c) # verifier.chain

ReaderOK ==
    /\ reader = [chain |-> reader.chain, after |-> reader.after, seen |-> reader.seen]
    /\ reader.chain \in Chain /\ reader.after \in Nat
    /\ reader.after <= Cardinality(records[reader.chain])
    /\ PagesMissNothing

AuditOK == ChainsOK /\ MessagesOK /\ ConsumersOK /\ VerifierOK /\ ReaderOK

\* Steps of others: messages stay where they are.
LEMMA AuditStands ==
    ASSUME AuditOK, StreamGrows, UNCHANGED auditVars
    PROVE  AuditOK'
<1>1. \A e : Recorded(e) <=> Recorded(e)'
  BY DEF Recorded, auditVars
<1>2. ChainsOK' /\ ReaderOK'
  BY DEF AuditOK, ChainsOK, ReaderOK, PagesMissNothing, auditVars
<1>3. MessagesOK'
  BY <1>1 DEF AuditOK, MessagesOK, auditVars, StreamGrows
<1>4. \A c \in Consumer : consumer[c].step # "idle" =>
         EventOf(c)' = EventOf(c) /\ ChainOf(c)' = ChainOf(c)
  BY DEF AuditOK, ConsumersOK, ConsumerOK, EventOf, ChainOf, StreamGrows, auditVars
<1>5. \A c \in Consumer : ConsumerOK(c)'
  BY <1>1, <1>4 DEF AuditOK, ConsumersOK, ConsumerOK, StreamGrows, auditVars
<1>6. \A c, d \in Consumer : c # d => Exclusive(c, d)'
  BY <1>4 DEF AuditOK, ConsumersOK, Exclusive, auditVars
<1>7. ConsumersOK' /\ VerifierOK'
  BY <1>4, <1>5, <1>6 DEF AuditOK, ConsumersOK, VerifierOK, auditVars
<1> QED  BY <1>2, <1>3, <1>7 DEF AuditOK

\* A step of one consumer that changes no record: what remains to be shown of it.
LEMMA OneConsumerMoves ==
    ASSUME AuditOK, NEW c \in Consumer,
           UNCHANGED <<records, heads, verifier, verdicts, reader, streamVars>>,
           MessagesOK', DOMAIN consumer' = Consumer, ConsumerOK(c)',
           \A d \in Consumer \ {c} : consumer'[d] = consumer[d],
           consumer'[c].step \in {"new", "appending"} =>
              \A d \in Consumer \ {c} :
                 consumer[d].step \in {"new", "appending"} => EventOf(d) # EventOf(c)',
           consumer'[c].step = "appending" => ChainFree(ChainOf(c)')
    PROVE  AuditOK'
<1>1. \A d \in Consumer \ {c} : EventOf(d)' = EventOf(d) /\ ChainOf(d)' = ChainOf(d)
  BY DEF EventOf, ChainOf, streamVars
<1>2. \A e : Recorded(e) <=> Recorded(e)'
  BY DEF Recorded
<1>3. ChainsOK' /\ ReaderOK'
  BY DEF AuditOK, ChainsOK, ReaderOK, PagesMissNothing
<1>4. \A d \in Consumer : ConsumerOK(d)'
  BY <1>1, <1>2 DEF AuditOK, ConsumersOK, ConsumerOK, streamVars
<1>5. \A d \in Consumer \ {c} : Exclusive(c, d)' /\ Exclusive(d, c)'
  <2> TAKE d \in Consumer \ {c}
  <2>1. Exclusive(c, d)'
    BY <1>1 DEF Exclusive, ChainFree
  <2> QED  BY <2>1 DEF Exclusive
<1>6. \A b, d \in Consumer \ {c} : b # d => Exclusive(b, d)'
  BY <1>1 DEF AuditOK, ConsumersOK, Exclusive
<1>7. ConsumersOK'
  BY <1>4, <1>5, <1>6 DEF ConsumersOK
<1>8. VerifierOK'
  BY <1>1 DEF AuditOK, VerifierOK, ChainFree
<1> QED  BY <1>3, <1>7, <1>8 DEF AuditOK

\* What may be delivered next is in the stream.
LEMMA DeliverableExists ==
    ASSUME AuditOK, StreamOK
    PROVE  Deliverable \subseteq DOMAIN stream
<1>1. DOMAIN stream = 1..Len(stream) /\ Len(stream) \in Nat
  BY LenProperties DEF StreamOK
<1>2. IsFiniteSet(unacked \cup acked)
  <2>1. unacked \cup acked \in SUBSET (1..Len(stream))
    BY <1>1 DEF AuditOK, MessagesOK
  <2>2. IsFiniteSet(1..Len(stream))
    BY <1>1, FS_Interval
  <2> QED  BY <2>1, <2>2, FS_Subset
<1>3. Cardinality(unacked \cup acked) + 1 \in Nat \ {0}
  BY <1>2, FS_CardinalityType
<1> QED  BY <1>1, <1>3 DEF Deliverable, AuditOK, MessagesOK

\* Taking a delivery keeps what is known of the trail.
LEMMA TakePreserves ==
    ASSUME AuditOK, StreamOK, NEW c \in Consumer, Take(c)
    PROVE  AuditOK'
<1>0. /\ consumer[c] = [step |-> consumer[c].step, message |-> consumer[c].message,
                         head |-> consumer[c].head]
      /\ DOMAIN consumer = Consumer
  BY DEF AuditOK, ConsumersOK, ConsumerOK
<1>1. PICK m \in DOMAIN stream :
        /\ consumer' = [consumer EXCEPT ![c].step = "taken", ![c].message = m]
        /\ unacked' = unacked \cup {m}
  BY DeliverableExists DEF Take
<1>2. /\ consumer'[c] = [step |-> "taken", message |-> m, head |-> consumer[c].head]
      /\ DOMAIN consumer' = Consumer
      /\ \A d \in Consumer \ {c} : consumer'[d] = consumer[d]
  BY <1>0, <1>1
<1>3. MessagesOK' /\ ConsumerOK(c)'
  <2>1. \A e : Recorded(e) <=> Recorded(e)'
    BY DEF Take, Recorded
  <2>2. MessagesOK'
    BY <1>1, <2>1 DEF Take, AuditOK, MessagesOK, streamVars
  <2>3. ConsumerOK(c)'
    BY <1>1, <1>2, <2>1 DEF Take, AuditOK, ConsumersOK, ConsumerOK, streamVars
  <2> QED  BY <2>2, <2>3
<1> QED  BY <1>2, <1>3, OneConsumerMoves DEF Take

\* Refuse, Fail and Ack end what the consumer was doing; Ack only after the commit.
LEMMA IdlePreserves ==
    ASSUME AuditOK, NEW c \in Consumer, Refuse(c) \/ Fail(c) \/ Ack(c)
    PROVE  AuditOK'
<1>1. /\ consumer'[c] = IdleConsumer /\ DOMAIN consumer' = Consumer
      /\ \A d \in Consumer \ {c} : consumer'[d] = consumer[d]
  BY DEF Refuse, Fail, Ack, AuditOK, ConsumersOK
<1>2. ConsumerOK(c)' /\ consumer'[c].step = "idle"
  BY <1>1 DEF ConsumerOK, IdleConsumer
<1>3. UNCHANGED <<records, heads, verifier, verdicts, reader, streamVars>>
  BY DEF Refuse, Fail, Ack
<1>4. MessagesOK'
  <2>1. CASE Refuse(c) \/ Fail(c)
    BY <1>3, <2>1 DEF Refuse, Fail, AuditOK, MessagesOK, Recorded, streamVars
  <2>2. CASE Ack(c)
    <3>1. consumer[c].message \in DOMAIN stream /\ Recorded(stream[consumer[c].message])
      BY <2>2 DEF Ack, AuditOK, ConsumersOK, ConsumerOK, EventOf
    <3> QED  BY <1>3, <2>2, <3>1 DEF Ack, AuditOK, MessagesOK, Recorded, streamVars
  <2> QED  BY <2>1, <2>2
<1> QED  BY <1>1, <1>2, <1>3, <1>4, OneConsumerMoves

\* Locking the event's id keeps it.
LEMMA LockEventPreserves ==
    ASSUME AuditOK, NEW c \in Consumer, LockEvent(c)
    PROVE  AuditOK'
<1> DEFINE next == IF Recorded(EventOf(c)) THEN "committed" ELSE "new"
<1>1. /\ consumer'[c] = [step |-> next, message |-> consumer[c].message, head |-> consumer[c].head]
      /\ DOMAIN consumer' = Consumer
      /\ \A d \in Consumer \ {c} : consumer'[d] = consumer[d]
      /\ EventOf(c)' = EventOf(c)
  BY DEF LockEvent, AuditOK, ConsumersOK, ConsumerOK, EventOf, streamVars
<1>2. MessagesOK' /\ ConsumerOK(c)'
  <2>1. \A e : Recorded(e) <=> Recorded(e)'
    BY DEF LockEvent, Recorded
  <2>2. MessagesOK'
    BY <2>1 DEF LockEvent, AuditOK, MessagesOK, streamVars
  <2>3. ConsumerOK(c)'
    BY <1>1, <2>1 DEF LockEvent, AuditOK, ConsumersOK, ConsumerOK, streamVars
  <2> QED  BY <2>2, <2>3
<1> QED  BY <1>1, <1>2, OneConsumerMoves DEF LockEvent

\* Locking the chain and reading its head keeps it.
LEMMA LockChainPreserves ==
    ASSUME AuditOK, NEW c \in Consumer, LockChain(c)
    PROVE  AuditOK'
<1>0. /\ consumer[c] = [step |-> consumer[c].step, message |-> consumer[c].message,
                         head |-> consumer[c].head]
      /\ DOMAIN consumer = Consumer
  BY DEF AuditOK, ConsumersOK, ConsumerOK
<1>1. /\ consumer'[c] = [step |-> "appending", message |-> consumer[c].message,
                         head |-> heads[ChainOf(c)]]
      /\ DOMAIN consumer' = Consumer
      /\ \A d \in Consumer \ {c} : consumer'[d] = consumer[d]
      /\ EventOf(c)' = EventOf(c) /\ ChainOf(c)' = ChainOf(c)
  BY <1>0 DEF LockChain, EventOf, ChainOf, streamVars
<1>2. MessagesOK' /\ ConsumerOK(c)'
  <2>1. \A e : Recorded(e) <=> Recorded(e)'
    BY DEF LockChain, Recorded
  <2>2. MessagesOK'
    BY <2>1 DEF LockChain, AuditOK, MessagesOK, streamVars
  <2>3. ConsumerOK(c)'
    BY <1>1, <2>1 DEF LockChain, AuditOK, ConsumersOK, ConsumerOK, streamVars
  <2> QED  BY <2>2, <2>3
<1>3. \A d \in Consumer \ {c} :
         consumer[d].step \in {"new", "appending"} => EventOf(d) # EventOf(c)
  BY DEF LockChain, AuditOK, ConsumersOK, Exclusive
<1> QED  BY <1>1, <1>2, <1>3, OneConsumerMoves DEF LockChain

\* What a consumer about to commit appends, and to which chain; the unique
\* constraints do not stop it.
LEMMA AppendIsDue ==
    ASSUME AuditOK, StreamOK, NEW c \in Consumer, consumer[c].step = "appending"
    PROVE  LET k == ChainOf(c)
               r == NewRecord(k, EventOf(c), heads[k])
           IN  /\ consumer[c].head = heads[k]
               /\ k \in Chain /\ EventOf(c) \in Event \ Malformed /\ TenantOf[EventOf(c)] = k
               /\ ~Recorded(EventOf(c)) /\ ~Clashes(r)
               /\ r.source_event_id = EventOf(c) /\ r.chain_key = k
               /\ r.sequence = Cardinality(records[k]) + 1
               /\ Cardinality(records[k]) \in Nat
               /\ Cardinality(records[k] \cup {r}) = Cardinality(records[k]) + 1
               /\ \A q \in records[k] : q.sequence < r.sequence
               /\ ChainOK(k, records[k] \cup {r}, HeadOf(r))
<1> DEFINE k == ChainOf(c)
           r == NewRecord(k, EventOf(c), heads[k])
<1>1. ConsumerOK(c)
  BY DEF AuditOK, ConsumersOK
<1>2. EventOf(c) \in Event \ Malformed /\ ~Recorded(EventOf(c)) /\ consumer[c].head = heads[k]
  BY <1>1 DEF ConsumerOK, EventOf, StreamOK
<1>3. k \in Chain /\ TenantOf[EventOf(c)] = k
  BY <1>2 DEF Chain, ChainOf
<1>4. ChainOK(k, records[k], heads[k]) /\ \A q \in records[k] : q.source_event_id # EventOf(c)
  BY <1>2, <1>3 DEF AuditOK, ChainsOK, Recorded
<1>5. /\ ChainOK(k, records[k] \cup {r}, HeadOf(r))
      /\ \A q \in records[k] : q.sequence < r.sequence
      /\ r.sequence = Cardinality(records[k]) + 1
      /\ Cardinality(records[k] \cup {r}) = Cardinality(records[k]) + 1
      /\ r.source_event_id = EventOf(c)
  BY <1>2, <1>3, <1>4, AppendKeepsChain
<1>6. r.chain_key = k
  BY DEF NewRecord
<1>7. Cardinality(records[k]) \in Nat
  BY <1>4, FS_CardinalityType DEF ChainOK
<1>8. \A q \in records[k] : q.sequence \in Nat
  BY <1>4 DEF ChainOK, IsRecord
<1> HIDE DEF r
<1>9. ~Clashes(r)
  BY <1>2, <1>5, <1>6, <1>7, <1>8 DEF Clashes
<1> QED  BY <1>2, <1>3, <1>5, <1>6, <1>7, <1>9 DEF r

\* Committing a record, as the next of its chain or not at all, keeps it.
LEMMA CommitPreserves ==
    ASSUME AuditOK, StreamOK, NEW c \in Consumer, Commit(c)
    PROVE  AuditOK'
<1> DEFINE k == ChainOf(c)
           r == NewRecord(k, EventOf(c), heads[k])
<1>0. consumer[c].step = "appending"
  BY DEF Commit
<1>1. /\ consumer[c].head = heads[k]
      /\ k \in Chain /\ ~Recorded(EventOf(c)) /\ r.source_event_id = EventOf(c)
      /\ r.sequence = Cardinality(records[k]) + 1 /\ Cardinality(records[k]) \in Nat
      /\ Cardinality(records[k] \cup {r}) = Cardinality(records[k]) + 1
      /\ ChainOK(k, records[k] \cup {r}, HeadOf(r))
  BY <1>0, AppendIsDue
<1>2. /\ records' = [records EXCEPT ![k] = @ \cup {r}]
      /\ heads' = [heads EXCEPT ![k] = HeadOf(r)]
      /\ UNCHANGED <<unacked, acked, verifier, verdicts, reader, streamVars>>
  BY <1>1 DEF Commit, HeadOf
<1> HIDE DEF r
<1>3. /\ DOMAIN records = Chain /\ DOMAIN heads = Chain
      /\ consumer[c] = [step |-> consumer[c].step, message |-> consumer[c].message,
                        head |-> consumer[c].head]
      /\ DOMAIN consumer = Consumer
  BY DEF AuditOK, ChainsOK, ConsumersOK, ConsumerOK
<1>4. /\ consumer'[c] = [step |-> "committed", message |-> consumer[c].message, head |-> NoHead]
      /\ DOMAIN consumer' = Consumer
      /\ \A d \in Consumer \ {c} : consumer'[d] = consumer[d]
  BY <1>3 DEF Commit
<1>5. /\ \A d \in Consumer : EventOf(d)' = EventOf(d) /\ ChainOf(d)' = ChainOf(d)
  BY <1>2, <1>4 DEF EventOf, ChainOf, streamVars
<1>6. \A e : Recorded(e)' <=> Recorded(e) \/ e = EventOf(c)
  BY <1>1, <1>2, <1>3 DEF Recorded
<1>7. ChainsOK'
  <2>1. \A l \in Chain : ChainOK(l, records'[l], heads'[l])
    BY <1>1, <1>2, <1>3 DEF AuditOK, ChainsOK
  <2> QED  BY <1>2, <1>3, <2>1 DEF ChainsOK
<1>8. MessagesOK'
  BY <1>2, <1>6 DEF AuditOK, MessagesOK, streamVars
<1>9. \A d \in Consumer : ConsumerOK(d)'
  <2>1. ConsumerOK(c)'
    BY <1>0, <1>2, <1>4, <1>5, <1>6 DEF AuditOK, ConsumersOK, ConsumerOK, streamVars
  <2>2. ASSUME NEW d \in Consumer \ {c}
        PROVE  ConsumerOK(d)'
    <3>1. ConsumerOK(d) /\ Exclusive(c, d)
      BY DEF AuditOK, ConsumersOK
    <3>2. consumer[d].step \in {"new", "appending"} => EventOf(d) # EventOf(c)
      BY <1>0, <3>1 DEF Exclusive
    <3>3. consumer[d].step = "appending" => heads'[ChainOf(d)] = heads[ChainOf(d)]
      BY <1>0, <1>2, <3>1 DEF Exclusive
    <3> QED  BY <1>2, <1>4, <1>5, <1>6, <3>1, <3>2, <3>3 DEF ConsumerOK, streamVars
  <2> QED  BY <2>1, <2>2
<1>10. ConsumersOK'
  <2>1. \A b, d \in Consumer : b # d => Exclusive(b, d)'
    BY <1>4, <1>5 DEF AuditOK, ConsumersOK, Exclusive
  <2> QED  BY <1>4, <1>9, <2>1 DEF ConsumersOK
<1>11. VerifierOK'
  <2>1. verifier.step = "reading" => verifier.chain # k
    BY <1>0 DEF AuditOK, VerifierOK
  <2>2. verifier.step = "reading" => records'[verifier.chain] = records[verifier.chain]
    BY <1>2, <2>1 DEF AuditOK, VerifierOK
  <2>3. \A d \in Consumer : consumer'[d].step = "appending" =>
           consumer[d].step = "appending" /\ ChainOf(d)' = ChainOf(d)
    BY <1>4, <1>5
  <2> QED  BY <1>2, <2>2, <2>3 DEF AuditOK, VerifierOK
<1>12. ReaderOK'
  <2>1. CASE reader.chain # k
    BY <1>1, <1>2, <1>3, <2>1 DEF AuditOK, ReaderOK, PagesMissNothing
  <2>2. CASE reader.chain = k
    <3>1. /\ records'[k] = records[k] \cup {r} /\ reader' = reader
          /\ r.sequence > reader.after /\ reader.after \in Nat
      BY <1>1, <1>2, <1>3, <2>2 DEF AuditOK, ReaderOK
    <3>2. {x \in records'[k] : x.sequence <= reader.after}
            = {x \in records[k] : x.sequence <= reader.after}
      BY <1>1, <3>1
    <3>3. PagesMissNothing'
      BY <2>2, <3>1, <3>2 DEF AuditOK, ReaderOK, PagesMissNothing
    <3>4. reader.after <= Cardinality(records'[k])
      BY <1>1, <2>2, <3>1 DEF AuditOK, ReaderOK
    <3> QED  BY <1>2, <2>2, <3>3, <3>4 DEF AuditOK, ReaderOK
  <2> QED  BY <2>1, <2>2
<1> QED  BY <1>7, <1>8, <1>10, <1>11, <1>12 DEF AuditOK

\* The verifier, which reads page by page while others append, keeps it.
LEMMA VerifyPreserves ==
    ASSUME AuditOK, (\E k \in Chain : VerifyRows(k)) \/ VerifyHead
    PROVE  AuditOK'
<1>1. UNCHANGED <<unacked, acked, records, heads, consumer, reader, streamVars>>
  BY DEF VerifyRows, VerifyHead
<1>2. ChainsOK' /\ MessagesOK' /\ ConsumersOK' /\ ReaderOK'
  BY <1>1 DEF AuditOK, ChainsOK, MessagesOK, ConsumersOK, ConsumerOK, Exclusive, ReaderOK,
     PagesMissNothing, Recorded, EventOf, ChainOf, streamVars
<1>3. \A c \in Consumer : ChainOf(c)' = ChainOf(c)
  BY <1>1 DEF ChainOf, EventOf, streamVars
<1>4. ASSUME NEW k \in Chain, VerifyRows(k)
      PROVE  VerifierOK'
  BY <1>1, <1>3, <1>4 DEF VerifyRows, AuditOK, VerifierOK, ChainFree
<1>5. ASSUME VerifyHead
      PROVE  VerifierOK'
  <2>1. verifier.chain \in Chain /\ Verified(verifier.rows, heads[verifier.chain])
    BY <1>5, WholeIsVerified DEF VerifyHead, AuditOK, VerifierOK, ChainsOK
  <2> QED  BY <1>5, <2>1 DEF VerifyHead, AuditOK, VerifierOK, NoCheck
<1> QED  BY <1>2, <1>4, <1>5 DEF AuditOK

\* A set of numbers with a bound has a largest one.
LEMMA LargestExists ==
    ASSUME NEW S \in SUBSET Nat, S # {}, NEW n \in Nat, \A s \in S : s <= n
    PROVE  \E m \in S : \A s \in S : s <= m
<1> DEFINE below == {n - s : s \in S}
           less == {pair \in Nat \X Nat : pair[1] < pair[2]}
<1>1. IsWellFoundedOn(less, Nat)
  BY NatLessThanWellFounded DEF OpToRel
<1>2. below \subseteq Nat /\ below # {}
  <2>1. \A s \in S : n - s \in Nat
    OBVIOUS
  <2>2. PICK s \in S : TRUE
    OBVIOUS
  <2> QED  BY <2>1, <2>2
<1>3. \A a, b \in Nat : <<a, b>> \in less <=> a < b
  OBVIOUS
<1> HIDE DEF below, less
<1>4. PICK x \in below : \A y \in below : <<y, x>> \notin less
  BY <1>1, <1>2, WFMin
<1>5. \A y \in below : x <= y
  <2> TAKE y \in below
  <2>1. x \in Nat /\ y \in Nat
    BY <1>2, <1>4
  <2>2. ~(y < x)
    BY <1>3, <1>4, <2>1
  <2> QED  BY <2>1, <2>2
<1>6. PICK m \in S : x = n - m
  BY <1>4 DEF below
<1>7. \A s \in S : n - m <= n - s
  BY <1>5, <1>6 DEF below
<1> QED  BY <1>7

\* The cursor goes to the last record of the page; none before it is left out.
LEMMA PagePreserves ==
    ASSUME AuditOK, NextPage
    PROVE  AuditOK'
<1> DEFINE rows == records[reader.chain]
           rest == {r \in rows : r.sequence > reader.after}
           before(r) == {q \in rest : q.sequence < r.sequence}
           page == {r \in rest : Cardinality(before(r)) < PageSize}
           last == {r.sequence : r \in page}
           top == CHOOSE s \in last : \A t \in last : t <= s
           n == Cardinality(rows)
<1>1. /\ page # {}
      /\ reader' = [reader EXCEPT !.after = top, !.seen = @ \cup page]
      /\ UNCHANGED <<unacked, acked, records, heads, consumer, verifier, verdicts, streamVars>>
  BY DEF NextPage
<1>2. reader = [chain |-> reader.chain, after |-> reader.after, seen |-> reader.seen]
      /\ reader.chain \in Chain /\ reader.after \in Nat
      /\ ChainOK(reader.chain, rows, heads[reader.chain])
  BY DEF AuditOK, ReaderOK, ChainsOK
<1>3. IsFiniteSet(rows) /\ n \in Nat /\ \A r \in rows : r.sequence \in Nat /\ r.sequence <= n
  BY <1>2, FS_CardinalityType DEF ChainOK, IsRecord
<1>4. \E m \in last : \A s \in last : s <= m
  <2>1. last \in SUBSET Nat /\ last # {} /\ \A s \in last : s <= n
    BY <1>1, <1>3
  <2> HIDE DEF last, n
  <2> QED  BY <1>3, <2>1, LargestExists
<1>5. top \in last /\ \A s \in last : s <= top
  BY <1>4
<1>6. PICK p \in page : p.sequence = top
  BY <1>5
<1>7. top \in Nat /\ top <= n /\ top > reader.after
  BY <1>3, <1>6
<1>8. ASSUME NEW r \in rest, r.sequence <= top
      PROVE  r \in page
  <2>1. before(r) \in SUBSET before(p) /\ before(p) \in SUBSET rows
    <3>1. p \in rest /\ p.sequence \in Nat /\ r.sequence \in Nat /\ r.sequence <= p.sequence
      BY <1>3, <1>6, <1>8
    <3>2. \A q \in rest : q.sequence < r.sequence => q.sequence < p.sequence
      BY <1>3, <3>1
    <3> QED  BY <3>2
  <2>2. IsFiniteSet(before(p)) /\ IsFiniteSet(before(r))
        /\ Cardinality(before(r)) <= Cardinality(before(p))
    BY <1>3, <2>1, FS_Subset
  <2>3. Cardinality(before(r)) \in Nat /\ Cardinality(before(p)) \in Nat
    BY <2>2, FS_CardinalityType
  <2> QED  BY <2>2, <2>3, AckAssumption
<1>9. reader.seen \cup page = {r \in rows : r.sequence <= top}
  <2>1. reader.seen = {r \in rows : r.sequence <= reader.after}
    BY DEF AuditOK, ReaderOK, PagesMissNothing
  <2>2. \A r \in page : r \in rest /\ r.sequence <= top
    BY <1>5
  <2>3. \A r \in rows : r \in rest \/ r.sequence <= reader.after
    BY <1>2, <1>3
  <2>4. \A r \in rows : r.sequence <= reader.after => r.sequence <= top
    BY <1>2, <1>3, <1>7
  <2> HIDE DEF page, top
  <2> QED  BY <1>8, <2>1, <2>2, <2>3, <2>4
<1> HIDE DEF page, top
<1>10. reader' = [chain |-> reader.chain, after |-> top, seen |-> reader.seen \cup page]
  BY <1>1, <1>2
<1>11. ReaderOK'
  BY <1>1, <1>2, <1>7, <1>9, <1>10 DEF ReaderOK, PagesMissNothing
<1>12. ChainsOK' /\ MessagesOK' /\ ConsumersOK' /\ VerifierOK'
  <2>1. /\ \A e : Recorded(e) <=> Recorded(e)'
        /\ \A c \in Consumer : EventOf(c)' = EventOf(c) /\ ChainOf(c)' = ChainOf(c)
    BY <1>1 DEF Recorded, EventOf, ChainOf, streamVars
  <2>2. ChainsOK' /\ MessagesOK' /\ VerifierOK'
    BY <1>1, <2>1 DEF AuditOK, ChainsOK, MessagesOK, VerifierOK, streamVars
  <2>3. ConsumersOK'
    BY <1>1, <2>1 DEF AuditOK, ConsumersOK, ConsumerOK, Exclusive, streamVars
  <2> QED  BY <2>2, <2>3
<1> QED  BY <1>11, <1>12 DEF AuditOK

-----------------------------------------------------------------------------
(* The whole *)

TrailInv == setting \in Setting /\ StreamOK /\ GatewayOK /\ OutboxOK /\ AuditOK

\* At first everything is empty.
LEMMA TrailInitially == Init => TrailInv
<1> SUFFICES ASSUME Init  PROVE TrailInv
  OBVIOUS
<1>1. StreamOK /\ Stored = {}
  BY DEF Init, StreamInit, StreamOK, Stored
<1>2. GatewayOK
  BY GatewayAssumption DEF Init, GatewayInit, GatewayOK
<1>3. OutboxOK
  BY <1>1 DEF Init, OutboxInit, OutboxOK, Off, Memory
<1>4. ChainsOK
  BY FS_EmptySet DEF Init, AuditInit, ChainsOK, ChainOK, NoHead
<1>5. MessagesOK /\ ConsumersOK /\ VerifierOK
  BY DEF Init, AuditInit, MessagesOK, ConsumersOK, ConsumerOK, Exclusive, VerifierOK,
     IdleConsumer, NoCheck
<1>6. ReaderOK
  BY FS_EmptySet DEF Init, AuditInit, ReaderOK, PagesMissNothing
<1> QED  BY <1>1, <1>2, <1>3, <1>4, <1>5, <1>6 DEF Init, TrailInv, AuditOK

\* Every step keeps the invariant.
LEMMA TrailStep == TrailInv /\ [Next]_vars => TrailInv'
<1> SUFFICES ASSUME TrailInv, [Next]_vars  PROVE TrailInv'
  OBVIOUS
<1> USE DEF TrailInv
<1>0. ASSUME UNCHANGED streamVars
      PROVE  StreamOK' /\ StreamGrows /\ Stored' = Stored
  BY <1>0 DEF StreamOK, StreamGrows, Stored, streamVars
<1>1. CASE InternalChange
  <2>1. PICK n \in Domain : WriteRow(n)
    BY <1>1, SettingAssumption DEF InternalChange
  <2> QED  BY <1>0, <1>1, <2>1, WritePreserves, GatewayStands, AuditStands DEF InternalChange
<1>2. CASE RequestedChange
  <2>1. PICK r \in Request : Execute(r) /\ IF r \in Safe THEN UNCHANGED outboxVars ELSE WriteRow(r)
    BY <1>2 DEF RequestedChange
  <2>2. GatewayOK' /\ StreamOK' /\ StreamGrows /\ Stored' = Stored
    BY <2>1, ExecutePreserves
  <2>3. OutboxOK'
    BY <2>1, <2>2, WritePreserves, OutboxStands, RequestAssumption DEF outboxVars
  <2> QED  BY <1>2, <2>2, <2>3, AuditStands DEF RequestedChange
<1>3. CASE GatewayStep
  <2>1. PICK r \in Request : Handle(r) \/ Decline(r) \/ Cancel(r)
    BY <1>3 DEF GatewayStep
  <2>2. GatewayOK' /\ StreamOK' /\ StreamGrows
        /\ \E e \in {Accepted(r), Completed(r)} : Stored' \subseteq Stored \cup {e}
    BY <2>1, HandlerPreserves
  <2>3. \A n \in Domain : Row(n) \in Stored' => Row(n) \in Stored
    BY <2>2, EventsDiffer
  <2> QED  BY <1>3, <2>2, <2>3, OutboxStands, AuditStands DEF GatewayStep, outboxVars
<1>4. ASSUME NEW w \in Worker, NEW fault \in BOOLEAN, WorkerStep(w, fault)
      PROVE  TrailInv'
  <2>1. OutboxOK' /\ StreamOK' /\ StreamGrows
    BY <1>4, WorkerPreserves DEF WorkerStep
  <2> QED  BY <1>4, <2>1, GatewayStands, AuditStands DEF WorkerStep
<1>5. ASSUME NEW c \in Consumer, NEW fault \in BOOLEAN, ConsumerStep(c, fault)
      PROVE  TrailInv'
  <2>1. UNCHANGED streamVars
    BY <1>5 DEF ConsumerStep, Fail, Consume, Take, Refuse, LockEvent, LockChain, Commit, Ack
  <2>2. AuditOK'
    BY <1>5, TakePreserves, IdlePreserves, LockEventPreserves, LockChainPreserves, CommitPreserves
       DEF ConsumerStep, Consume
  <2> QED  BY <1>0, <1>5, <2>1, <2>2, GatewayStands, OutboxStands DEF ConsumerStep, outboxVars
<1>6. CASE ApiStep
  <2>1. AuditOK'
    BY <1>6, VerifyPreserves, PagePreserves DEF ApiStep, Api
  <2>2. UNCHANGED streamVars
    BY <1>6 DEF ApiStep, Api, VerifyRows, VerifyHead, NextPage
  <2> QED  BY <1>0, <1>6, <2>1, <2>2, GatewayStands, OutboxStands DEF ApiStep, outboxVars
<1>7. CASE WindowLapses
  <2>1. StreamOK' /\ StreamGrows /\ Stored' = Stored
    BY <1>7 DEF WindowLapses, Forget, StreamOK, StreamGrows, Stored
  <2> QED  BY <1>7, <2>1, GatewayStands, OutboxStands, AuditStands DEF WindowLapses, outboxVars
<1>8. CASE UNCHANGED vars
  BY <1>0, <1>8, GatewayStands, OutboxStands, AuditStands DEF vars, outboxVars
<1> QED  BY <1>1, <1>2, <1>3, <1>4, <1>5, <1>6, <1>7, <1>8 DEF Next

\* The invariant all the properties below follow from.
THEOREM TrailIsSound == Spec => []TrailInv
BY TrailInitially, TrailStep, PTL DEF Spec

\* Nothing is lost between the outbox and the chain (NothingLost).
THEOREM NothingIsLost == Spec => []NothingLost
<1>1. TrailInv => NothingLost
  BY DEF TrailInv, OutboxOK, AuditOK, MessagesOK, NothingLost
<1> QED  BY <1>1, TrailIsSound, PTL

\* No call goes out on an audited route before the notice of its acceptance is
\* stored (NoEffectWithoutIntent).
THEOREM IntentComesFirst == Spec => []NoEffectWithoutIntent
<1>1. TrailInv => NoEffectWithoutIntent
  BY DEF TrailInv, GatewayOK, NoEffectWithoutIntent
<1> QED  BY <1>1, TrailIsSound, PTL

\* One record of an event, in all chains together (RecordedOnce).
THEOREM EventsAreRecordedOnce == Spec => []RecordedOnce
<1>1. TrailInv => RecordedOnce
  <2> SUFFICES ASSUME TrailInv, NEW k \in Chain, NEW l \in Chain, NEW r \in records[k],
                      NEW q \in records[l], r.source_event_id = q.source_event_id
               PROVE  r = q
    BY DEF RecordedOnce
  <2>1. ChainOK(k, records[k], heads[k]) /\ ChainOK(l, records[l], heads[l])
    BY DEF TrailInv, AuditOK, ChainsOK
  <2>2. k = l
    BY <2>1 DEF ChainOK, IsRecord
  <2> QED  BY <2>1, <2>2 DEF ChainOK
<1> QED  BY <1>1, TrailIsSound, PTL

\* verify_chain raises no false alarm (NoFalseAlarm).
THEOREM AlarmsAreTrue == Spec => []NoFalseAlarm
<1>1. TrailInv => NoFalseAlarm
  BY DEF TrailInv, AuditOK, VerifierOK, NoFalseAlarm
<1> QED  BY <1>1, TrailIsSound, PTL

\* One change to a chain, by hand, shows (TamperingShows).
THEOREM AlterationsShow == Spec => []TamperingShows
<1>1. TrailInv => TamperingShows
  BY AlteredIsNotVerified DEF TrailInv, AuditOK, ChainsOK, TamperingShows
<1> QED  BY <1>1, TrailIsSound, PTL

\* The pages of a chain miss no record up to the cursor (PagesMissNothing).
THEOREM PagesAreComplete == Spec => []PagesMissNothing
<1>1. TrailInv => PagesMissNothing
  BY DEF TrailInv, AuditOK, ReaderOK
<1> QED  BY <1>1, TrailIsSound, PTL

\* The two advisory locks of append_record are enough: a commit never meets one of
\* the unique constraints behind them, so no append fails for another's sake.
LocksSuffice ==
    \A c \in Consumer : consumer[c].step = "appending" =>
        ~Clashes(NewRecord(ChainOf(c), EventOf(c), consumer[c].head))

\* No commit of an append meets a unique constraint (append_record).
THEOREM AppendsNeverClash == Spec => []LocksSuffice
<1>1. TrailInv => LocksSuffice
  BY AppendIsDue DEF TrailInv, LocksSuffice
<1> QED  BY <1>1, TrailIsSound, PTL

-----------------------------------------------------------------------------
(* The refinement of AuditLog *)

\* What happened, in the eyes of AuditLog.
Happened ==
    {Row(n) : n \in {i \in Domain : row[i] # "absent"}} \cup (Stored \ {Row(n) : n \in Domain})

\* The log of a chain depends on its records only.
LEMMA LogStands ==
    ASSUME UNCHANGED records
    PROVE  UNCHANGED [k \in Chain |-> LogOf(k)]
BY DEF LogOf

\* What happens to the stream or the outbox is one event, or none.
LEMMA HappeningsRefine ==
    ASSUME UNCHANGED records,
           Happened' = Happened \/ \E e \in Event : Happened' = Happened \cup {e}
    PROVE  [Log!Happen \/ Log!Record]_(Log!logVars)
<1>1. UNCHANGED [k \in Chain |-> LogOf(k)]
  BY LogStands
<1>2. CASE Happened' = Happened
  BY <1>1, <1>2 DEF Log!logVars, Happened
<1>3. CASE \E e \in Event : Happened' = Happened \cup {e}
  BY <1>1, <1>3 DEF Log!Happen, Happened
<1> QED  BY <1>2, <1>3

\* The events of some rows in the order of their sequence.
LogOver(rows) ==
    [i \in 1..Cardinality(rows) |-> (CHOOSE r \in rows : r.sequence = i).source_event_id]

\* The abstract log is a function of the records of a chain.
LEMMA LogOfRecords == \A k : LogOf(k) = LogOver(records[k]) /\ LogOf(k)' = LogOver(records'[k])
BY DEF LogOf, LogOver

\* In a whole chain each place of the log is the event of one record.
LEMMA LogPlaces ==
    ASSUME NEW k, NEW rows, NEW head, ChainOK(k, rows, head)
    PROVE  /\ Cardinality(rows) \in Nat
           /\ DOMAIN LogOver(rows) = 1..Cardinality(rows)
           /\ \A i \in 1..Cardinality(rows) :
                \E q \in rows : q.sequence = i /\ LogOver(rows)[i] = q.source_event_id
BY FS_CardinalityType DEF ChainOK, LogOver

\* A record appended to a chain is an event appended to its log.
LEMMA AppendExtendsLog ==
    ASSUME NEW k, NEW rows, NEW head, ChainOK(k, rows, head), NEW r,
           r.source_event_id \in Event, r.sequence = Cardinality(rows) + 1,
           Cardinality(rows \cup {r}) = Cardinality(rows) + 1
    PROVE  LogOver(rows \cup {r}) = Append(LogOver(rows), r.source_event_id)
<1> DEFINE n == Cardinality(rows)
           old == LogOver(rows)
           new == LogOver(rows \cup {r})
<1>1. /\ n \in Nat /\ DOMAIN old = 1..n
      /\ \A i \in 1..n : \E q \in rows : q.sequence = i /\ old[i] = q.source_event_id
  BY LogPlaces
<1>2. \A q \in rows : q.source_event_id \in Event /\ q.sequence <= n /\ q.sequence \in Nat
  BY DEF ChainOK, IsRecord
<1>3. old \in Seq(Event) /\ Len(old) = n
  <2>1. old = [i \in 1..n |-> (CHOOSE q \in rows : q.sequence = i).source_event_id]
    BY DEF LogOver
  <2>2. \A i \in 1..n : old[i] \in Event
    BY <1>1, <1>2
  <2> HIDE DEF old, n
  <2> QED  BY <1>1, <2>1, <2>2
<1>4. new = [i \in 1..(n + 1) |-> (CHOOSE q \in rows \cup {r} : q.sequence = i).source_event_id]
  BY DEF LogOver
<1>5. \A i \in 1..n : new[i] = old[i]
  <2> TAKE i \in 1..n
  <2>1. PICK q \in rows : q.sequence = i /\ old[i] = q.source_event_id
    BY <1>1
  <2>2. \A x \in rows \cup {r} : x.sequence = i => x = q
    BY <1>1, <2>1 DEF ChainOK
  <2>3. (CHOOSE x \in rows \cup {r} : x.sequence = i) = q
    BY <2>1, <2>2
  <2> QED  BY <1>1, <1>4, <2>1, <2>3
<1>6. new[n + 1] = r.source_event_id
  <2>1. \A x \in rows \cup {r} : x.sequence = n + 1 => x = r
    BY <1>1, <1>2
  <2>2. (CHOOSE x \in rows \cup {r} : x.sequence = n + 1) = r
    BY <2>1
  <2> QED  BY <1>1, <1>4, <2>2
<1> HIDE DEF old, new, n
<1>7. new \in Seq(Event) /\ Len(new) = n + 1
  <2>1. \A i \in 1..(n + 1) : new[i] \in Event
    BY <1>1, <1>3, <1>5, <1>6, ElementOfSeq
  <2> QED  BY <1>1, <1>4, <2>1
<1>8. new = Append(old, r.source_event_id)
  <2> DEFINE longer == Append(old, r.source_event_id)
  <2>1. /\ longer \in Seq(Event) /\ Len(longer) = n + 1
        /\ \A i \in 1..n : longer[i] = old[i]
        /\ longer[n + 1] = r.source_event_id
    BY <1>3, AppendProperties
  <2> HIDE DEF longer
  <2>2. \A i \in 1..(n + 1) : new[i] = longer[i]
    BY <1>1, <1>5, <1>6, <2>1
  <2>3. new = longer
    BY <1>7, <2>1, <2>2, SeqEqual
  <2> QED  BY <2>3 DEF longer
<1> QED  BY <1>8 DEF old, new

\* A commit of a consumer writes an event that happened, at the end of its log.
LEMMA CommitRefines ==
    ASSUME TrailInv, NEW c \in Consumer, Commit(c), UNCHANGED outboxVars
    PROVE  Log!Record
<1>0. consumer[c].step = "appending"
  BY DEF Commit
<1> PICK k, e, r : k = ChainOf(c) /\ e = EventOf(c) /\ r = NewRecord(k, e, heads[k])
  OBVIOUS
<1>1. /\ consumer[c].head = heads[k]
      /\ k \in Chain /\ e \in Event /\ TenantOf[e] = k
      /\ ~Recorded(e) /\ r.source_event_id = e
      /\ r.sequence = Cardinality(records[k]) + 1
      /\ Cardinality(records[k] \cup {r}) = Cardinality(records[k]) + 1
  BY <1>0, AppendIsDue DEF TrailInv
<1>2. /\ records'[k] = records[k] \cup {r}
      /\ \A l \in Chain \ {k} : records'[l] = records[l]
      /\ UNCHANGED streamVars
  BY <1>1 DEF Commit, TrailInv, AuditOK, ChainsOK
<1>3. \A l \in Chain : ChainOK(l, records[l], heads[l])
  BY DEF TrailInv, AuditOK, ChainsOK
<1>4. ~Log!Written(e)
  <2>1. \A l \in Chain : \A i \in DOMAIN LogOf(l) :
           \E q \in records[l] : LogOf(l)[i] = q.source_event_id
    BY <1>3, LogPlaces, LogOfRecords
  <2> QED  BY <1>1, <2>1 DEF Log!Written, Recorded
<1>5. e \in Happened
  <2>1. e \in Stored
    BY <1>0 DEF TrailInv, AuditOK, ConsumersOK, ConsumerOK, Stored, EventOf
  <2> QED  BY <2>1 DEF Happened, TrailInv, OutboxOK
<1>6. LogOf(k)' = Append(LogOf(k), e)
  <2>1. ChainOK(k, records[k], heads[k])
    BY <1>1, <1>3
  <2>2. LogOver(records[k] \cup {r}) = Append(LogOver(records[k]), e)
    BY <1>1, <2>1, AppendExtendsLog
  <2> QED  BY <1>2, <2>2, LogOfRecords
<1>7. [l \in Chain |-> LogOf(l)'] = [[l \in Chain |-> LogOf(l)] EXCEPT ![k] = Append(@, e)]
  <2>1. \A l \in Chain \ {k} : LogOf(l)' = LogOf(l)
    BY <1>2, LogOfRecords
  <2> QED  BY <1>1, <1>6, <2>1
<1>8. Happened' = Happened
  BY <1>2 DEF Happened, outboxVars, streamVars, Stored
<1> QED  BY <1>1, <1>4, <1>5, <1>7, <1>8 DEF Log!Record, Happened

\* Every step is one of the abstract log or leaves it alone.
LEMMA StepRefines == TrailInv /\ [Next]_vars => [Log!Happen \/ Log!Record]_(Log!logVars)
<1> SUFFICES ASSUME TrailInv, [Next]_vars  PROVE [Log!Happen \/ Log!Record]_(Log!logVars)
  OBVIOUS
<1>0. StreamOK /\ GatewayOK /\ OutboxOK /\ AuditOK
  BY DEF TrailInv
\* A row written is one event that happened.
<1>1. ASSUME NEW n \in Domain, WriteRow(n), Stored' = Stored
      PROVE  Happened' = Happened \cup {Row(n)}
  <2>1. \A i \in Domain : row'[i] # "absent" <=> row[i] # "absent" \/ i = n
    BY <1>0, <1>1 DEF WriteRow, OutboxOK
  <2> QED  BY <1>1, <2>1 DEF Happened
\* Neither the worker nor a step that leaves row and stream alone adds anything.
<1>2. CASE InternalChange
  <2>1. PICK n \in Domain : WriteRow(n)
    BY <1>2, SettingAssumption DEF InternalChange, TrailInv
  <2>2. Stored' = Stored /\ UNCHANGED records
    BY <1>2 DEF InternalChange, streamVars, auditVars, Stored
  <2> QED  BY <1>1, <2>1, <2>2, EventTypes, HappeningsRefine
<1>3. CASE RequestedChange
  <2>1. PICK r \in Request : Execute(r) /\ IF r \in Safe THEN UNCHANGED outboxVars ELSE WriteRow(r)
    BY <1>3 DEF RequestedChange
  <2>2. Stored' = Stored /\ UNCHANGED records /\ r \in Domain
    BY <1>3, <2>1, RequestAssumption DEF RequestedChange, Execute, Decide, streamVars, auditVars, Stored
  <2>3. CASE r \in Safe
    <3>1. Happened' = Happened
      BY <2>1, <2>2, <2>3 DEF Happened, outboxVars
    <3> QED  BY <2>2, <3>1, HappeningsRefine
  <2>4. CASE r \notin Safe
    <3>1. Happened' = Happened \cup {Row(r)}
      BY <1>1, <2>1, <2>2, <2>4
    <3> QED  BY <2>2, <3>1, EventTypes, HappeningsRefine
  <2> QED  BY <2>3, <2>4
<1>4. CASE GatewayStep
  <2>1. PICK r \in Request : Handle(r) \/ Decline(r) \/ Cancel(r)
    BY <1>4 DEF GatewayStep
  <2>2. StreamGrows /\ \E e \in {Accepted(r), Completed(r)} : Stored' \subseteq Stored \cup {e}
    BY <1>0, <2>1, HandlerPreserves
  <2>3. PICK e \in {Accepted(r), Completed(r)} : Stored' \subseteq Stored \cup {e}
    BY <2>2
  <2>4. Stored \subseteq Stored'
    BY <2>2, StoredGrows
  <2>5. e \in Event /\ \A n \in Domain : e # Row(n)
    BY EventTypes, EventsDiffer, RequestAssumption
  <2>6. UNCHANGED row /\ UNCHANGED records
    BY <1>4 DEF GatewayStep, outboxVars, auditVars
  <2>7. Happened' = Happened \/ Happened' = Happened \cup {e}
    <3>1. CASE Stored' = Stored
      BY <2>6, <3>1 DEF Happened
    <3>2. CASE Stored' = Stored \cup {e}
      BY <2>5, <2>6, <3>2 DEF Happened
    <3> QED  BY <2>3, <2>4, <3>1, <3>2
  <2> QED  BY <2>5, <2>6, <2>7, HappeningsRefine
<1>5. ASSUME NEW w \in Worker, NEW fault \in BOOLEAN, WorkerStep(w, fault)
      PROVE  [Log!Happen \/ Log!Record]_(Log!logVars)
  <2>1. /\ OutboxOK' /\ StreamGrows
        /\ \A n \in Domain : row[n] = "absent" <=> row'[n] = "absent"
        /\ \A e \in Stored' : e \in Stored \/ \E n \in Domain : e = Row(n)
    BY <1>0, <1>5, WorkerPreserves DEF WorkerStep
  <2>2. Stored \subseteq Stored'
    BY <2>1, StoredGrows
  <2>3. Happened' = Happened
    BY <2>1, <2>2 DEF Happened
  <2>4. UNCHANGED records
    BY <1>5 DEF WorkerStep, auditVars
  <2> QED  BY <2>3, <2>4, HappeningsRefine
<1>6. ASSUME NEW c \in Consumer, NEW fault \in BOOLEAN, ConsumerStep(c, fault)
      PROVE  [Log!Happen \/ Log!Record]_(Log!logVars)
  <2>1. UNCHANGED outboxVars
    BY <1>6 DEF ConsumerStep
  <2>2. CASE Commit(c)
    BY <2>1, <2>2, CommitRefines
  <2>3. CASE Fail(c) \/ Take(c) \/ Refuse(c) \/ LockEvent(c) \/ LockChain(c) \/ Ack(c)
    <3>1. UNCHANGED records /\ UNCHANGED streamVars
      BY <2>3 DEF Fail, Take, Refuse, LockEvent, LockChain, Ack
    <3>2. Happened' = Happened
      BY <2>1, <3>1 DEF Happened, outboxVars, streamVars, Stored
    <3> QED  BY <3>1, <3>2, HappeningsRefine
  <2> QED  BY <1>6, <2>2, <2>3 DEF ConsumerStep, Consume
<1>7. CASE ApiStep \/ WindowLapses \/ UNCHANGED vars
  <2>1. UNCHANGED <<row, stream, records>>
    BY <1>7 DEF ApiStep, Api, VerifyRows, VerifyHead, NextPage, WindowLapses, Forget, vars,
       outboxVars, streamVars, auditVars
  <2>2. Happened' = Happened
    BY <2>1 DEF Happened, Stored
  <2> QED  BY <2>1, <2>2, HappeningsRefine
<1> QED  BY <1>2, <1>3, <1>4, <1>5, <1>6, <1>7 DEF Next

\* From a change to its record, with the outbox, the broker, the gateway, failing
\* workers and consumers in between, the trail is a log: what it records happened,
\* is recorded once, and stays in its place (KeepsTheLog).
THEOREM ImplementsLog == Spec => KeepsTheLog
<1>1. Init => Log!Init
  <2> SUFFICES ASSUME Init  PROVE Log!Init
    OBVIOUS
  <2>1. Stored = {} /\ \A n \in Domain : row[n] = "absent"
    BY DEF Init, StreamInit, OutboxInit, Stored
  <2>2. \A k \in Chain : LogOf(k) = << >>
    BY FS_EmptySet DEF Init, AuditInit, LogOf
  <2> QED  BY <2>1, <2>2 DEF Log!Init
<1> QED  BY <1>1, StepRefines, TrailIsSound, PTL DEF Spec, KeepsTheLog, Log!Spec
=============================================================================
