--------------------------- MODULE LeaseGateProofs ---------------------------
(***************************************************************************)
(* Theorems about LeaseGate, for any number of processes, any lease and    *)
(* request times, any difference of the clocks and any MaxTime.            *)
(***************************************************************************)
EXTENDS LeaseGate, TLAPS

(* The last time a lease can have been signed for the device. *)
LastSigned == IF registered THEN now ELSE revokedAt

(* What is in force or on its way was signed by then, and what is on its    *)
(* way arrives before its request times out.                                *)
LeaseInv ==
    /\ revokedAt <= now
    /\ \A p \in Procs :
          /\ admittedAt[p] <= now
          /\ Waiting(p) => now <= deadline[p]
          /\ st[p] = "asking" => deadline[p] <= now + Timeout
          /\ st[p] = "granted" => /\ answer[p] <= LastSigned + skew + TTL
                                  /\ deadline[p] <= LastSigned + Timeout
          /\ lease[p] # NoLease => lease[p] <= LastSigned + skew + TTL

LEMMA SkewType == TypeOK => skew \in Int
  BY LeaseAssumption DEF TypeOK

LEMMA ProcType ==
    ASSUME TypeOK, NEW p \in Procs, ProcStep(p)
    PROVE  TypeOK'
  <1> USE DEF TypeOK, States, NoLease
  <1>1. CASE UseLease(p)
    BY <1>1 DEF UseLease, Admit
  <1>2. CASE AskLease(p)
    BY <1>2, LeaseAssumption DEF AskLease
  <1>3. CASE RequestLease(p)
    <2>1. now + skew + TTL \in Int
      BY SkewType, LeaseAssumption
    <2>2. QED
      BY <1>3, <2>1 DEF RequestLease
  <1>4. CASE TakeLease(p)
    BY <1>4 DEF TakeLease, Admit, EndRequest
  <1>5. CASE Deny(p) \/ Forward(p)
    BY <1>5 DEF Deny, Forward, EndRequest
  <1>6. CASE Restart(p)
    BY <1>6 DEF Restart, EndRequest
  <1>7. QED
    BY <1>1, <1>2, <1>3, <1>4, <1>5, <1>6 DEF ProcStep, GateStep

LEMMA TypeStep == TypeOK /\ [Next]_vars => TypeOK'
  <1> SUFFICES ASSUME TypeOK, [Next]_vars
               PROVE  TypeOK'
    OBVIOUS
  <1>1. CASE Tick
    BY <1>1 DEF Tick, TypeOK
  <1>2. CASE Revoke
    BY <1>2 DEF Revoke, TypeOK
  <1>3. CASE Reinstate
    BY <1>3 DEF Reinstate, TypeOK
  <1>4. CASE UNCHANGED vars
    BY <1>4 DEF vars, TypeOK
  <1>5. QED
    BY <1>1, <1>2, <1>3, <1>4, ProcType DEF Next

(* Every state is of its type. *)
THEOREM TypeCorrect == Spec => []TypeOK
  <1>1. Init => TypeOK
    BY DEF Init, TypeOK, States, NoLease
  <1>2. QED
    BY <1>1, TypeStep, PTL DEF Spec

LEMMA ProcLease ==
    ASSUME TypeOK, LeaseInv, KillSwitch, NEW p \in Procs, ProcStep(p)
    PROVE  (LeaseInv /\ KillSwitch)'
  <1> USE LeaseAssumption, SkewType DEF TypeOK, LeaseInv, KillSwitch, Waiting, LastSigned, NoLease
  <1>1. CASE UseLease(p)
    BY <1>1 DEF UseLease, Admit
  <1>2. CASE AskLease(p)
    BY <1>2 DEF AskLease
  <1>3. CASE RequestLease(p)
    BY <1>3 DEF RequestLease
  <1>4. CASE TakeLease(p)
    BY <1>4 DEF TakeLease, Admit, EndRequest
  <1>5. CASE Deny(p) \/ Forward(p)
    BY <1>5 DEF Deny, Forward, EndRequest
  <1>6. CASE Restart(p)
    BY <1>6 DEF Restart, EndRequest
  <1>7. QED
    BY <1>1, <1>2, <1>3, <1>4, <1>5, <1>6 DEF ProcStep, GateStep

LEMMA LeaseStep == TypeOK /\ LeaseInv /\ KillSwitch /\ [Next]_vars => (LeaseInv /\ KillSwitch)'
  <1> SUFFICES ASSUME TypeOK, LeaseInv, KillSwitch, [Next]_vars
               PROVE  (LeaseInv /\ KillSwitch)'
    OBVIOUS
  <1>1. ASSUME NEW p \in Procs, ProcStep(p)
        PROVE  (LeaseInv /\ KillSwitch)'
    BY <1>1, ProcLease
  <1> USE LeaseAssumption, SkewType DEF TypeOK, LeaseInv, KillSwitch, Waiting, LastSigned, NoLease
  <1>2. CASE Tick
    BY <1>2 DEF Tick
  <1>3. CASE Revoke
    BY <1>3 DEF Revoke
  <1>4. CASE Reinstate
    BY <1>4 DEF Reinstate
  <1>5. CASE UNCHANGED vars
    BY <1>5 DEF vars
  <1>6. QED
    BY <1>1, <1>2, <1>3, <1>4, <1>5 DEF Next

(* A revoked device is admitted only for as long as a lease signed before   *)
(* the revocation lasts, or an answer granted before it takes to arrive.    *)
THEOREM KillSwitchCorrect == Spec => []KillSwitch
  <1>1. Init => LeaseInv /\ KillSwitch
    BY LeaseAssumption DEF Init, LeaseInv, KillSwitch, Waiting, LastSigned, NoLease
  <1>2. TypeOK /\ LeaseInv /\ KillSwitch /\ [Next]_vars => (LeaseInv /\ KillSwitch)'
    BY LeaseStep
  <1>3. QED
    BY <1>1, <1>2, TypeCorrect, PTL DEF Spec

(* Where the ledger's clock is never ahead of the device's, and a request    *)
(* takes no longer than a lease, the promise of README.md:19 is kept for     *)
(* the admission: only a clock that is ahead breaks it.                      *)
THEOREM ShutDownCorrect ==
    ASSUME Timeout <= TTL, \A s \in Skews : s <= 0
    PROVE  Spec => []ShutDownInTTL
  <1>1. TypeOK /\ KillSwitch => ShutDownInTTL
    <2> SUFFICES ASSUME TypeOK, KillSwitch, NEW p \in Procs, ~registered, st[p] = "admitted"
                 PROVE  admittedAt[p] <= revokedAt + TTL
      BY DEF ShutDownInTTL
    <2>1. admittedAt[p] \in Nat /\ revokedAt \in Nat /\ skew \in Skews
      BY DEF TypeOK
    <2>2. skew \in Int /\ skew <= 0
      BY <2>1, LeaseAssumption
    <2>3. QED
      BY <2>1, <2>2, LeaseAssumption DEF KillSwitch
  <1>2. QED
    BY <1>1, TypeCorrect, KillSwitchCorrect, PTL
=============================================================================
