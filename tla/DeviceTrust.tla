------------------------------ MODULE DeviceTrust ------------------------------
(***************************************************************************)
(* What a certificate is good for, and for how long: pki-service issues,   *)
(* replaces and revokes it, device-edge-service lets its device in, and    *)
(* agent-control-service takes the device for online.                      *)
(***************************************************************************)
EXTENDS DevicePresence

CONSTANTS
    Settings        \* the instances considered: which handlers are at work, what
                    \* they are asked, which heartbeats may be on their way

ASSUME SettingsAssumption == \A s \in Settings :
    s.threads \subseteq Thread /\ s.requests \subseteq Request /\ s.beats \subseteq Beat

VARIABLE
    setting         \* the one in question; never changes

vars == <<pkiVars, edgeVars, presenceVars, setting>>

Init == setting \in Settings /\ PkiInit /\ EdgeInit /\ PresenceInit

Pki ==
    /\ \E t \in setting.threads : PkiStep(t, setting.requests)
    /\ UNCHANGED <<edgeVars, presenceVars, setting>>

Edge(step) == setting.beats # {} /\ step /\ UNCHANGED <<pkiVars, presenceVars, setting>>

Admission ==
    /\ \E b \in setting.beats, i \in Issuance : SendBeat(b, i)
    /\ UNCHANGED <<pkiVars, edgeVars, setting>>

Presence(step) == step /\ UNCHANGED <<pkiVars, edgeVars, setting>>

Tick ==
    /\ setting.beats # {}
    /\ PkiTick /\ EdgeTick /\ PresenceTick /\ UNCHANGED setting

Next == Pki \/ Edge(EdgeStep) \/ Admission \/ Presence(PresenceStep) \/ Tick

Spec == Init /\ [][Next]_vars

\* Handlers end and clients time out, the offline worker goes round, time passes.
\* Nothing says that a refresh of the list ever succeeds.
Fairness ==
    /\ WF_vars(Tick)
    /\ WF_vars(Edge(RefreshFails))
    /\ \A b \in Beat : WF_vars(Presence(BeatStep(b)))
    /\ WF_vars(Presence(SweepRead))
    /\ SF_vars(Presence(SweepCommit))

FairSpec == Spec /\ Fairness

-----------------------------------------------------------------------------
\* Nobody is let in with a certificate whose revocation is as old as a list may
\* be when it runs out, whether pki-service can be reached or not, and whatever
\* was revoked while a list was built (ca_crl, LoadDER, Valid).
RefusedInTime ==
    [][\A b \in Beat : beat[b] = NoBeat /\ beat'[b] # NoBeat
          => revokedFor[beat'[b].certificate] < CrlLifetime + FetchTimeout]_vars

\* A device without a certificate that is not revoked is offline in the end and
\* stays so, although heartbeats admitted before are still on their way and
\* sweeps overlap with them.
RevokedGoesDark == \A d \in Device :
    <>[](\A i \in Issuance : Active(i) => certificates[i].device # d)
        => <>[](sessions[d].state # "online")
================================================================================
