---------------------------- MODULE MCSealQueue ----------------------------
(* Small instances of SealQueue. *)
EXTENDS SealQueue, TLC

CONSTANTS w1, w2

WorkerSymmetry == Permutations({w1, w2})

OtherRow == [nonce |-> "f1", status |-> "SEAL_REQUESTED", payload |-> "x", ts |-> 0, key |-> "kf"]

OneForeignRow == {OtherRow}
NoForeignRow == {}
=============================================================================
