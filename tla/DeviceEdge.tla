------------------------------ MODULE DeviceEdge ------------------------------
(***************************************************************************)
(* device-edge-service lets a device in by the certificate of its TLS      *)
(* connection.  It asks pki-service nothing: it holds a signed list of     *)
(* revoked certificates, fetches another from time to time, keeps the last *)
(* good one when that fails, and admits nobody once the list has run out.  *)
(* pki-service reads the revoked rows first and dates the list after that. *)
(***************************************************************************)
EXTENDS Certificates

CONSTANTS
    CrlLifetime,    \* crl_lifetime_hours
    FetchTimeout    \* the timeout of the edge's HTTP client

ASSUME CrlAssumption == CrlLifetime \in Nat \ {0} /\ FetchTimeout \in Nat

VARIABLES
    edge,           \* is it running, the list it holds, and how long that is valid
    fetch           \* the list on its way, what is left of it, and the time spent

edgeVars == <<edge, fetch>>

Down == [up |-> FALSE, revoked |-> {}, left |-> 0]
NoFetch == [at |-> "none", revoked |-> {}, left |-> 0, age |-> 0]

EdgeInit == edge = Down /\ fetch = NoFetch

\* The ticker fires, or the process starts.
Refresh ==
    /\ fetch = NoFetch
    /\ fetch' = [fetch EXCEPT !.at = "asked"]
    /\ UNCHANGED edge

\* ca_crl selects the revoked rows,
ReadRevoked ==
    /\ fetch.at = "asked"
    /\ fetch' = [fetch EXCEPT !.at = "read", !.revoked = Revoked]
    /\ UNCHANGED edge

\* and build_crl dates and signs the list.
BuildCrl ==
    /\ fetch.at = "read"
    /\ fetch' = [fetch EXCEPT !.at = "built", !.left = CrlLifetime]
    /\ UNCHANGED edge

\* LoadDER; a list that has run out is refused.
Load ==
    /\ fetch.at = "built"
    /\ edge' = IF fetch.left > 0
               THEN [up |-> TRUE, revoked |-> fetch.revoked, left |-> fetch.left] ELSE edge
    /\ fetch' = NoFetch

\* Mutant: after a failure the last good list counts as new.
RefreshFails_Renews ==
    /\ fetch # NoFetch
    /\ fetch' = NoFetch
    /\ edge' = [edge EXCEPT !.left = CrlLifetime]

\* pki-service cannot be reached or has no signer, or the answer is late.
RefreshFails ==
    /\ fetch # NoFetch
    /\ fetch' = NoFetch
    /\ UNCHANGED edge

\* The process ends; it is up again only with a list.
Restart ==
    /\ edge.up
    /\ edge' = Down /\ fetch' = NoFetch

EdgeStep == Refresh \/ ReadRevoked \/ BuildCrl \/ Load \/ RefreshFails \/ Restart

\* Time passes; the client gives up a fetch after FetchTimeout.
EdgeTick ==
    /\ fetch # NoFetch => fetch.age < FetchTimeout
    /\ fetch' = IF fetch = NoFetch THEN fetch
                ELSE [fetch EXCEPT !.age = @ + 1, !.left = IF @ = 0 THEN 0 ELSE @ - 1]
    /\ edge' = [edge EXCEPT !.left = IF @ = 0 THEN 0 ELSE @ - 1]

\* Mutant: the last good list is good for ever.
Admits_LastGood(i) == edge.up /\ i \notin edge.revoked

\* ServeHTTP up to the upstream call.
Admits(i) == edge.up /\ edge.left > 0 /\ i \notin edge.revoked
=============================================================================
