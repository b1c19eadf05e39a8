------------------------------ MODULE MCBundle ------------------------------
(* Small instances of Bundle. *)
EXTENDS Bundle

SignedBy(n, k) == [nonce |-> n, status |-> "SEAL_REQUESTED", key |-> k]

MCRows == {SignedBy("n1", "k1"), SignedBy("n2", "k1"), SignedBy("n2", "k2")}
=============================================================================
