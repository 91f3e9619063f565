----------------------------- MODULE AuditChain -----------------------------
(***************************************************************************)
(* audit-service: consumers take messages from the stream, at least once,  *)
(* and append each event once to the hash chain of its tenant; a verifier  *)
(* recomputes a chain and a reader pages through it meanwhile.             *)
(***************************************************************************)
EXTENDS JetStream

CONSTANTS
    Consumer,       \* processes that run consumer.py with one durable name
    TenantOf,       \* the tenant_id in an event's data, or Platform
    Platform,
    Malformed,      \* events normalize_event refuses
    MaxAckPending,  \* JetStream's limit on messages delivered and not acked
    PageSize        \* limit of list_records

ASSUME AckAssumption == MaxAckPending \in Nat \ {0} /\ PageSize \in Nat \ {0}

VARIABLES
    unacked,    \* messages delivered at least once and not acknowledged
    acked,      \* messages acknowledged, never delivered again
    records,    \* audit_records: per chain a set of rows
    heads,      \* audit_chain_heads: per chain a row or NoHead
    consumer,   \* per consumer the message it handles and how far it is
    verifier,   \* the chain being verified with the rows it read, or NoCheck
    verdicts,   \* what verify_chain has answered so far
    reader      \* a client that pages through a chain: its cursor, what it saw

auditVars == <<unacked, acked, records, heads, consumer, verifier, verdicts, reader>>

Chain == {TenantOf[e] : e \in Event \ Malformed}

ZERO_HASH == <<>>
NoHead == [last_sequence |-> 0, last_hash |-> ZERO_HASH]
IdleConsumer == [step |-> "idle", message |-> 0, head |-> NoHead]
NoCheck == [step |-> "idle", chain |-> Platform, rows |-> {}]

AuditInit ==
    /\ unacked = {} /\ acked = {}
    /\ records = [k \in Chain |-> {}]
    /\ heads = [k \in Chain |-> NoHead]
    /\ consumer = [c \in Consumer |-> IdleConsumer]
    /\ verifier = NoCheck
    /\ verdicts = {}
    /\ reader \in [chain : Chain \ {Platform}, after : {0}, seen : {{}}]

-----------------------------------------------------------------------------
\* The hash chain.

Hash_NoEvent(r) == <<r.sequence, r.chain_key, r.prev_hash>>

\* SHA-256 over the canonical fields: equal only for equal fields.
Hash(r) == <<r.sequence, r.chain_key, r.source_event_id, r.prev_hash>>

NewRecord(k, e, head) ==
    LET r == [sequence |-> head.last_sequence + 1,
              chain_key |-> k,
              source_event_id |-> e,
              prev_hash |-> head.last_hash]
    IN  [sequence |-> r.sequence, chain_key |-> k, source_event_id |-> e,
         prev_hash |-> r.prev_hash, record_hash |-> Hash(r)]

\* The loop of verify_chain over the rows in the order of their sequence.
RowsAgree(rows) ==
    /\ {r.sequence : r \in rows} = 1..Cardinality(rows)
    /\ \A r \in rows :
        /\ r.record_hash = Hash(r)
        /\ r.sequence = 1 => r.prev_hash = ZERO_HASH
        /\ \A q \in rows : q.sequence = r.sequence - 1 => r.prev_hash = q.record_hash

\* A chain without a head row is not compared with it.
HeadAgrees(rows, head) ==
    \/ head = NoHead
    \/ /\ head.last_sequence = Cardinality(rows)
       /\ \E r \in rows : r.sequence = Cardinality(rows) /\ r.record_hash = head.last_hash

Verified(rows, head) == RowsAgree(rows) /\ HeadAgrees(rows, head)

-----------------------------------------------------------------------------
\* Consumers.

EventOf(c) == stream[consumer[c].message]
ChainOf_Platform(c) == Platform
ChainOf(c) == TenantOf[EventOf(c)]

Recorded_Newest(e) ==
    \E k \in Chain : \E r \in records[k] :
        r.sequence = heads[k].last_sequence /\ r.source_event_id = e
Recorded(e) == \E k \in Chain : \E r \in records[k] : r.source_event_id = e

\* The next new message, within the limit, or again one whose ack is missing:
\* its ack wait may lapse at any time, also while a consumer still holds it.
Deliverable ==
    LET new == Cardinality(unacked \cup acked) + 1 IN
    unacked \cup IF Cardinality(unacked) < MaxAckPending /\ new <= Len(stream)
                 THEN {new} ELSE {}

Take(c) ==
    /\ consumer[c].step = "idle"
    /\ \E m \in Deliverable :
         /\ consumer' = [consumer EXCEPT ![c].step = "taken", ![c].message = m]
         /\ unacked' = unacked \cup {m}
    /\ UNCHANGED <<acked, records, heads, verifier, verdicts, reader, streamVars>>

\* An event normalize_event refuses is left for redelivery, for ever.
Refuse(c) ==
    /\ consumer[c].step = "taken"
    /\ EventOf(c) \in Malformed
    /\ consumer' = [consumer EXCEPT ![c] = IdleConsumer]
    /\ UNCHANGED <<unacked, acked, records, heads, verifier, verdicts, reader, streamVars>>

\* Advisory lock on the event, then the lookup of an existing record.
LockEvent(c) ==
    /\ consumer[c].step = "taken"
    /\ EventOf(c) \notin Malformed
    /\ \A d \in Consumer : consumer[d].step \in {"new", "appending"} => EventOf(d) # EventOf(c)
    /\ consumer' = [consumer EXCEPT ![c].step = IF Recorded(EventOf(c)) THEN "committed" ELSE "new"]
    /\ UNCHANGED <<unacked, acked, records, heads, verifier, verdicts, reader, streamVars>>

ChainFree(k) ==
    /\ \A d \in Consumer : consumer[d].step = "appending" => ChainOf(d) # k
    /\ verifier.step = "reading" => verifier.chain # k

\* Advisory lock on the chain, then its head, created if missing.
LockChain(c) ==
    /\ consumer[c].step = "new"
    /\ ChainFree(ChainOf(c))
    /\ consumer' = [consumer EXCEPT ![c].step = "appending", ![c].head = heads[ChainOf(c)]]
    /\ UNCHANGED <<unacked, acked, records, heads, verifier, verdicts, reader, streamVars>>

\* The unique constraints on (chain_key, sequence) and on source_event_id.
Clashes(r) ==
    \/ Recorded(r.source_event_id)
    \/ \E q \in records[r.chain_key] : q.sequence = r.sequence

Commit(c) ==
    /\ consumer[c].step = "appending"
    /\ LET k == ChainOf(c)
           r == NewRecord(k, EventOf(c), consumer[c].head)
       IN  /\ ~Clashes(r)
           /\ records' = [records EXCEPT ![k] = @ \cup {r}]
           /\ heads' = [heads EXCEPT ![k] = [last_sequence |-> r.sequence,
                                             last_hash |-> r.record_hash]]
    /\ consumer' = [consumer EXCEPT ![c].step = "committed", ![c].head = NoHead]
    /\ UNCHANGED <<unacked, acked, verifier, verdicts, reader, streamVars>>

Ack_BeforeCommit(c) ==
    /\ consumer[c].step \in {"appending", "committed"}
    /\ acked' = acked \cup {consumer[c].message}
    /\ unacked' = unacked \ {consumer[c].message}
    /\ consumer' = [consumer EXCEPT ![c] = IdleConsumer]
    /\ UNCHANGED <<records, heads, verifier, verdicts, reader, streamVars>>

Ack(c) ==
    /\ consumer[c].step = "committed"
    /\ acked' = acked \cup {consumer[c].message}
    /\ unacked' = unacked \ {consumer[c].message}
    /\ consumer' = [consumer EXCEPT ![c] = IdleConsumer]
    /\ UNCHANGED <<records, heads, verifier, verdicts, reader, streamVars>>

\* The process ends, the database fails or the ack is lost: the transaction is
\* rolled back if it was open, and nothing is acknowledged.
Fail(c) ==
    /\ consumer[c].step # "idle"
    /\ consumer' = [consumer EXCEPT ![c] = IdleConsumer]
    /\ UNCHANGED <<unacked, acked, records, heads, verifier, verdicts, reader, streamVars>>

Consume(c) ==
    Take(c) \/ Refuse(c) \/ LockEvent(c) \/ LockChain(c) \/ Commit(c) \/ Ack(c)

-----------------------------------------------------------------------------
\* The API.

VerifyRows_NoLock(k) ==
    /\ verifier.step = "idle"
    /\ verifier' = [step |-> "reading", chain |-> k, rows |-> records[k]]
    /\ UNCHANGED <<unacked, acked, records, heads, consumer, verdicts, reader, streamVars>>

\* verify_chain reads the rows and the head in two statements under the lock.
VerifyRows(k) ==
    /\ verifier.step = "idle"
    /\ ChainFree(k)
    /\ verifier' = [step |-> "reading", chain |-> k, rows |-> records[k]]
    /\ UNCHANGED <<unacked, acked, records, heads, consumer, verdicts, reader, streamVars>>

VerifyHead ==
    /\ verifier.step = "reading"
    /\ verdicts' = verdicts \cup {Verified(verifier.rows, heads[verifier.chain])}
    /\ verifier' = NoCheck
    /\ UNCHANGED <<unacked, acked, records, heads, consumer, reader, streamVars>>

NextPage_NewestFirst ==
    LET rest == {r \in records[reader.chain] : r.sequence > reader.after}
        page == {r \in rest : Cardinality({q \in rest : q.sequence > r.sequence}) < PageSize}
    IN  /\ page # {}
        /\ reader' = [reader EXCEPT !.after = heads[reader.chain].last_sequence,
                                    !.seen = @ \cup page]
        /\ UNCHANGED <<unacked, acked, records, heads, consumer, verifier, verdicts, streamVars>>

\* list_records of a tenant: after the cursor, ascending, one page.
NextPage ==
    LET rest == {r \in records[reader.chain] : r.sequence > reader.after}
        page == {r \in rest : Cardinality({q \in rest : q.sequence < r.sequence}) < PageSize}
        last == {r.sequence : r \in page}
    IN  /\ page # {}
        /\ reader' = [reader EXCEPT !.after = CHOOSE s \in last : \A t \in last : t <= s,
                                    !.seen = @ \cup page]
        /\ UNCHANGED <<unacked, acked, records, heads, consumer, verifier, verdicts, streamVars>>

Api == (\E k \in Chain : VerifyRows(k)) \/ VerifyHead \/ NextPage

-----------------------------------------------------------------------------
\* Properties.

\* However often a message comes, to whichever consumers: one record of it
\* (append_record's lookup under the event lock, the unique source_event_id).
RecordedOnce ==
    \A k \in Chain, l \in Chain : \A r \in records[k], q \in records[l] :
        r.source_event_id = q.source_event_id => r = q

\* verify_chain never raises a false alarm while consumers append.
NoFalseAlarm == FALSE \notin verdicts

Altered(rows, r, q) == (rows \ {r}) \cup {q}

\* One change to a chain, by hand, shows: another event in a record, with its
\* hash recomputed or not, or a record taken out, the last one included.
TamperingShows ==
    \A k \in Chain : \A r \in records[k] :
        /\ ~Verified(records[k] \ {r}, heads[k])
        /\ \A e \in Event \ {r.source_event_id} :
             LET q == [r EXCEPT !.source_event_id = e]
             IN  /\ ~Verified(Altered(records[k], r, q), heads[k])
                 /\ ~Verified(Altered(records[k], r, [q EXCEPT !.record_hash = Hash(q)]), heads[k])

\* A client that pages with the cursor has seen every record up to it, also
\* the ones committed meanwhile: no append comes in behind the cursor
\* (next_after_sequence in list_records).
PagesMissNothing ==
    reader.seen = {r \in records[reader.chain] : r.sequence <= reader.after}

=============================================================================
