----------------------------- MODULE AuditTrail -----------------------------
(***************************************************************************)
(* What the system as a whole promises of an event: it is recorded on the  *)
(* device, then sealed by the ledger, then acknowledged on the device, one *)
(* event at a time, and none of the three is ever undone.                  *)
(***************************************************************************)
CONSTANT Event

VARIABLES recorded, sealed, acknowledged

trailVars == <<recorded, sealed, acknowledged>>

TrailInit == recorded = {} /\ sealed = {} /\ acknowledged = {}

RecordEvent(e) ==
    /\ e \notin recorded
    /\ recorded' = recorded \cup {e}
    /\ UNCHANGED <<sealed, acknowledged>>

SealRecorded(e) ==
    /\ e \in recorded \ sealed
    /\ sealed' = sealed \cup {e}
    /\ UNCHANGED <<recorded, acknowledged>>

Acknowledge(e) ==
    /\ e \in sealed \ acknowledged
    /\ acknowledged' = acknowledged \cup {e}
    /\ UNCHANGED <<recorded, sealed>>

TrailNext == \E e \in Event : RecordEvent(e) \/ SealRecorded(e) \/ Acknowledge(e)

TrailSpec == TrailInit /\ [][TrailNext]_trailVars
=============================================================================
