----------------------------- MODULE LeaseGate -----------------------------
(***************************************************************************)
(* The kill-switch: ensure_lease in the proxies and POST /lease on the     *)
(* ledger.  A lease of TTL seconds is asked for when the cached one has    *)
(* expired, in a request that ends after Timeout seconds at most; it is    *)
(* compared with the proxy's clock when it is used, not when it arrives.   *)
(* A device is revoked by a restart of the ledger without it.              *)
(*                                                                         *)
(* Time is that of the proxies' host; the ledger's clock is off by skew.   *)
(***************************************************************************)
EXTENDS Integers

CONSTANTS
    Procs,
    TTL,       \* 30 seconds
    Timeout,   \* of the HTTP client, 5 seconds
    Skews,     \* what the ledger's clock may be ahead by
    MaxTime    \* bound on the clock of an instance

ASSUME LeaseAssumption ==
    /\ TTL \in Nat /\ Timeout \in Nat
    /\ Skews \subseteq Int
    /\ MaxTime \in Nat

VARIABLES
    now,         \* the clock
    skew,        \* the ledger's clock is now + skew
    registered,  \* the device is in AUTHORIZED_DEVICES
    revokedAt,   \* when it was removed (history)
    st,          \* where the parent task is with its call
    deadline,    \* when its request for a lease times out
    answer,      \* the expires_at it has been sent
    lease,       \* lease_expires_at, NoLease when it is None
    admittedAt   \* when ensure_lease returned Ok to the admitted call (history)

vars == <<now, skew, registered, revokedAt, st, deadline, answer, lease, admittedAt>>

States == {"idle", "asking", "granted", "refused", "admitted"}

NoLease == 0

Waiting(p) == st[p] \in {"asking", "granted", "refused"}

Admit(p) ==
    /\ st' = [st EXCEPT ![p] = "admitted"]
    /\ admittedAt' = [admittedAt EXCEPT ![p] = now]

(* Variant of UseLease: the expiry is not read again. *)
UseAnyLease(p) ==
    /\ st[p] = "idle" /\ lease[p] # NoLease
    /\ Admit(p)
    /\ UNCHANGED <<now, skew, registered, revokedAt, deadline, answer, lease>>

UseLease(p) ==
    /\ st[p] = "idle" /\ now < lease[p]
    /\ Admit(p)
    /\ UNCHANGED <<now, skew, registered, revokedAt, deadline, answer, lease>>

AskLease(p) ==
    /\ st[p] = "idle" /\ now >= lease[p]
    /\ st' = [st EXCEPT ![p] = "asking"]
    /\ deadline' = [deadline EXCEPT ![p] = now + Timeout]
    /\ UNCHANGED <<now, skew, registered, revokedAt, answer, lease, admittedAt>>

(* The handler of POST /lease. *)
RequestLease(p) ==
    /\ st[p] = "asking"
    /\ IF registered
       THEN /\ st' = [st EXCEPT ![p] = "granted"]
            /\ answer' = [answer EXCEPT ![p] = now + skew + TTL]
       ELSE st' = [st EXCEPT ![p] = "refused"] /\ UNCHANGED answer
    /\ UNCHANGED <<now, skew, registered, revokedAt, deadline, lease, admittedAt>>

(* A request is over: its deadline and its answer are of no more use. *)
EndRequest(p) ==
    /\ deadline' = [deadline EXCEPT ![p] = 0]
    /\ answer' = [answer EXCEPT ![p] = NoLease]

(* The signed expires_at is taken as it is. *)
TakeLease(p) ==
    /\ st[p] = "granted"
    /\ lease' = [lease EXCEPT ![p] = answer[p]]
    /\ Admit(p)
    /\ EndRequest(p)
    /\ UNCHANGED <<now, skew, registered, revokedAt>>

(* Variant of Deny: a state of its own for the denied call. *)
DenyForGood(p) ==
    /\ Waiting(p)
    /\ st' = [st EXCEPT ![p] = "denied"]
    /\ UNCHANGED <<now, skew, registered, revokedAt, deadline, answer, lease, admittedAt>>

(* Revoked, a network error, the timeout: the call is denied. *)
Deny(p) ==
    /\ Waiting(p)
    /\ st' = [st EXCEPT ![p] = "idle"]
    /\ EndRequest(p)
    /\ UNCHANGED <<now, skew, registered, revokedAt, lease, admittedAt>>

(* The call is recorded and handed to the server, or fails to be recorded.  *)
Forward(p) ==
    /\ st[p] = "admitted"
    /\ st' = [st EXCEPT ![p] = "idle"]
    /\ admittedAt' = [admittedAt EXCEPT ![p] = 0]
    /\ UNCHANGED <<now, skew, registered, revokedAt, deadline, answer, lease>>

(* A crash and a new start of the process: the lease is in memory only. *)
Restart(p) ==
    /\ st' = [st EXCEPT ![p] = "idle"]
    /\ lease' = [lease EXCEPT ![p] = NoLease]
    /\ EndRequest(p)
    /\ admittedAt' = [admittedAt EXCEPT ![p] = 0]
    /\ UNCHANGED <<now, skew, registered, revokedAt>>

Revoke ==
    /\ registered
    /\ registered' = FALSE
    /\ revokedAt' = now
    /\ UNCHANGED <<now, skew, st, deadline, answer, lease, admittedAt>>

Reinstate ==
    /\ ~registered
    /\ registered' = TRUE
    /\ revokedAt' = 0
    /\ UNCHANGED <<now, skew, st, deadline, answer, lease, admittedAt>>

(* A request is over when its deadline has come. *)
Tick ==
    /\ now < MaxTime
    /\ \A p \in Procs : Waiting(p) => now < deadline[p]
    /\ now' = now + 1
    /\ UNCHANGED <<skew, registered, revokedAt, st, deadline, answer, lease, admittedAt>>

Init ==
    /\ now = 0
    /\ skew \in Skews
    /\ registered \in BOOLEAN
    /\ revokedAt = 0
    /\ st = [p \in Procs |-> "idle"]
    /\ deadline = [p \in Procs |-> 0]
    /\ answer = [p \in Procs |-> NoLease]
    /\ lease = [p \in Procs |-> NoLease]
    /\ admittedAt = [p \in Procs |-> 0]

GateStep(p) ==
    \/ UseLease(p) \/ AskLease(p) \/ RequestLease(p) \/ TakeLease(p)
    \/ Deny(p) \/ Forward(p)

ProcStep(p) == GateStep(p) \/ Restart(p)

Next == Tick \/ Revoke \/ Reinstate \/ \E p \in Procs : ProcStep(p)

Spec == Init /\ [][Next]_vars

-----------------------------------------------------------------------------
(* Properties *)

TypeOK ==
    /\ now \in Nat
    /\ skew \in Skews
    /\ registered \in BOOLEAN
    /\ revokedAt \in Nat
    /\ st \in [Procs -> States]
    /\ deadline \in [Procs -> Nat]
    /\ answer \in [Procs -> Int]
    /\ lease \in [Procs -> Int]
    /\ admittedAt \in [Procs -> Nat]

(* What the code keeps of the promise to stop a revoked device: a call is   *)
(* admitted no later than a lease can last that was signed before the       *)
(* revocation, as the device's host reads the expiry, or than the answer to *)
(* a request that was granted before it can take to arrive.  It is of the   *)
(* admission: nothing bounds the insertion and the write after it.          *)
KillSwitch ==
    \A p \in Procs : (~registered /\ st[p] = "admitted" /\ admittedAt[p] >= revokedAt) =>
        \/ admittedAt[p] < revokedAt + TTL + skew
        \/ admittedAt[p] <= revokedAt + Timeout

(* What README.md:19 promises: a revoked device is stopped within the 30    *)
(* seconds of a lease.  MCLeaseGate_shutdown shows that a clock of the      *)
(* ledger that is ahead prolongs it.                                        *)
ShutDownInTTL ==
    \A p \in Procs : (~registered /\ st[p] = "admitted") =>
        admittedAt[p] <= revokedAt + TTL
=============================================================================
