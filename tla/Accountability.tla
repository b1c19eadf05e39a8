--------------------------- MODULE Accountability ---------------------------
(***************************************************************************)
(* What the daemon and the ledger together promise of a call that needs    *)
(* the ledger: it is recorded before it is executed, executed once at      *)
(* most, its outcome is recorded before the client sees it, and what is    *)
(* recorded goes the way of AuditTrail, the request before the outcome.    *)
(* The events are the pairs of a call and "request" or "outcome".          *)
(***************************************************************************)
EXTENDS AuditTrail, Naturals

CONSTANT Call

VARIABLES
    executions,  \* how often each call was given to a server
    shown        \* the calls whose outcome a client has seen

promiseVars == <<trailVars, executions, shown>>

PromiseInit ==
    /\ TrailInit
    /\ executions = [c \in Call |-> 0]
    /\ shown = {}

RecordRequest(c) ==
    /\ RecordEvent(<<c, "request">>)
    /\ UNCHANGED <<executions, shown>>

Execute(c) ==
    /\ <<c, "request">> \in recorded
    /\ executions[c] = 0
    /\ executions' = [executions EXCEPT ![c] = 1]
    /\ UNCHANGED <<trailVars, shown>>

RecordOutcome(c) ==
    /\ executions[c] = 1
    /\ RecordEvent(<<c, "outcome">>)
    /\ UNCHANGED <<executions, shown>>

Show(c) ==
    /\ <<c, "outcome">> \in recorded
    /\ shown' = shown \cup {c}
    /\ UNCHANGED <<trailVars, executions>>

SealRequest(c) ==
    /\ SealRecorded(<<c, "request">>)
    /\ UNCHANGED <<executions, shown>>

SealOutcome(c) ==
    /\ <<c, "request">> \in sealed
    /\ SealRecorded(<<c, "outcome">>)
    /\ UNCHANGED <<executions, shown>>

AcknowledgeEvent(e) ==
    /\ Acknowledge(e)
    /\ UNCHANGED <<executions, shown>>

PromiseNext ==
    \/ \E c \in Call :
          \/ RecordRequest(c) \/ Execute(c) \/ RecordOutcome(c) \/ Show(c)
          \/ SealRequest(c) \/ SealOutcome(c)
    \/ \E e \in Event : AcknowledgeEvent(e)

PromiseSpec == PromiseInit /\ [][PromiseNext]_promiseVars
=============================================================================
