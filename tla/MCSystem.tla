------------------------------ MODULE MCSystem ------------------------------
(* Small instances of System. *)
EXTENDS System

CONSTANTS p1, b1

AnswersAndCalls == Call \cup Message
OneKey == {DeviceKey}
BothWorkers == Procs \X {"background", "flush"}
NoForeignRow == {}
=============================================================================
