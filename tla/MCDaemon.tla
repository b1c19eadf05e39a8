------------------------------ MODULE MCDaemon ------------------------------
(* Small instances of Daemon. *)
EXTENDS Daemon

CONSTANTS p1, d2

SomeSkews == {-2, 0, 2}

(* A policy with an allowed host in one tool and a NetworkDeny in another.  *)
ListPolicy ==
    [default_deny |-> TRUE,
     tool_policies |->
        [tool \in {"t1", "t2"} |->
            IF tool = "t1" THEN {[kind |-> "NetworkConnect", hosts |-> {"h1"}]}
            ELSE {[kind |-> "NetworkDeny"]}]]

Files == {ListPolicy}
=============================================================================
