---------------------------- MODULE MCPolicyGate ----------------------------
(* Small instances of PolicyGate. *)
EXTENDS PolicyGate

CONSTANTS t1, t2
MCTools == {t1, t2}
=============================================================================
