------------------------------ MODULE MCRelay ------------------------------
(* Small instances of Relay. *)
EXTENDS Relay, TLC

CONSTANTS p1, p2, b1, b2

(* Neither the processes nor what the calls carry are told apart. *)
RelaySymmetry == Permutations(Procs) \cup Permutations(Bodies)
=============================================================================
