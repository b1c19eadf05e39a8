---------------------------- MODULE MCLeaseGate ----------------------------
(* Small instances of LeaseGate. *)
EXTENDS LeaseGate
=============================================================================
