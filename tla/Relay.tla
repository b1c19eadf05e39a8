------------------------------- MODULE Relay -------------------------------
(***************************************************************************)
(* relay_with_intercept: each proxy process runs two tasks between an MCP  *)
(* client and the MCP server it has spawned.  The parent task reads the    *)
(* client's lines and forwards them to the server, a tools/call that the   *)
(* policy sends through the ledger only after its SEAL_REQUESTED row is    *)
(* durable.  The child task relays what the server writes, and seals the   *)
(* outcome of a pending call first.  Several processes may share one queue *)
(* database; each can be killed between any two steps and started again.   *)
(*                                                                         *)
(* The lease is an outcome here (LeaseGate says when it is granted), and   *)
(* the stable nonce of a call is the call itself: it hashes the device and *)
(* the canonical id, method and params.                                    *)
(***************************************************************************)
EXTENDS QueueDb

CONSTANTS
    Procs,       \* proxy processes sharing the queue database
    CallIds,     \* JSON-RPC ids of the calls that need the ledger
    Fractional,  \* the numeric ids among them that as_i64 cannot represent
    Bodies,      \* their params
    OpenIds,     \* ids of the lines forwarded without sealing
    ServerIds,   \* ids of the requests the server itself sends
    PipeCap,     \* lines a pipe holds before its writer blocks
    ClientStates,\* what the clients of an instance may do
    DeviceKey,   \* ACCOUNTABILITY_PRIVATE_KEY
    None

ASSUME RelayAssumption ==
    /\ PipeCap \in Nat \ {0}
    /\ ClientStates \subseteq {"reads", "stalled", "gone"}
    /\ Fractional \subseteq CallIds

VARIABLES
    up,        \* the process is running
    pc,        \* where the parent task is
    cur,       \* the line it is handling
    pending,   \* pending_calls: id to stable nonce
    toServer,  \* the pipe to the server's stdin
    serving,   \* lines the server has read and not answered
    fromServer,\* the pipe from its stdout
    alive,     \* the server process is running
    cpc,       \* where the child task is
    msg,       \* the message it is handling
    sealing,   \* the nonce it has taken out of pending_calls for it
    client,    \* whether the client reads what the process writes
    out,       \* the line last written to it
    forwards   \* how often each call was handed to a server (history)

parentVars == <<pc, cur>>
childVars == <<cpc, msg, sealing>>
serverVars == <<toServer, serving, fromServer, alive>>
clientVars == <<client, out>>
vars == <<log, up, parentVars, pending, serverVars, childVars, clientVars, forwards>>

Call == [kind: {"sealed"}, id: CallIds, body: Bodies]
OpenLine == [kind: {"open"}, id: OpenIds]
Line == Call \cup OpenLine

(* A line of the server: a response to the line "re", failed when it has an *)
(* "error" member, or a request of its own (re = None).                     *)
Message == [id: CallIds \cup OpenIds \cup ServerIds, failed: BOOLEAN,
            re: Line \cup {None}]

(* The error responses of the daemon, which nothing here tells apart. *)
Refusal == [what: {"error"}]

(* The line is not forwarded; its error response waits for the client.      *)
Refuse(p) ==
    /\ pc' = [pc EXCEPT ![p] = "refuse"]
    /\ cur' = [cur EXCEPT ![p] = None]

ASSUME NoneAssumption == None \notin Message \cup Line

NoPending == [i \in CallIds |-> None]
Pending(p, id) == id \in CallIds /\ pending[p][id] # None

-----------------------------------------------------------------------------
(* The parent task *)

Reading(p) == up[p] /\ pc[p] = "read"

(* A JSON-RPC batch, or a call that needs the ledger and has no id.         *)
RejectMalformed(p) ==
    /\ Reading(p)
    /\ Refuse(p)
    /\ UNCHANGED <<log, up, pending, serverVars, childVars, clientVars, forwards>>

(* A call the policy bypasses, any other JSON-RPC message, a line that is   *)
(* not JSON.  A failed write ends the task.                                 *)
PassThrough(p) ==
    /\ Reading(p)
    /\ \E line \in OpenLine :
          IF alive[p]
          THEN /\ Len(toServer[p]) < PipeCap
               /\ toServer' = [toServer EXCEPT ![p] = Append(@, line)]
               /\ UNCHANGED pc
          ELSE pc' = [pc EXCEPT ![p] = "done"] /\ UNCHANGED toServer
    /\ UNCHANGED <<log, up, cur, pending, serving, fromServer, alive, childVars, clientVars, forwards>>

RefuseInFlight(p) ==
    /\ Reading(p)
    /\ \E c \in Call : Pending(p, c.id)
    /\ Refuse(p)
    /\ UNCHANGED <<log, up, pending, serverVars, childVars, clientVars, forwards>>

(* Variant of AcceptCall: the id is not looked up in pending_calls. *)
AcceptReusedId(p) ==
    /\ Reading(p)
    /\ \E c \in Call : cur' = [cur EXCEPT ![p] = c]
    /\ pc' = [pc EXCEPT ![p] = "nonce"]
    /\ UNCHANGED <<log, up, pending, serverVars, childVars, clientVars, forwards>>

AcceptCall(p) ==
    /\ Reading(p)
    /\ \E c \in Call : ~Pending(p, c.id) /\ cur' = [cur EXCEPT ![p] = c]
    /\ pc' = [pc EXCEPT ![p] = "nonce"]
    /\ UNCHANGED <<log, up, pending, serverVars, childVars, clientVars, forwards>>

(* has_nonce reports FALSE when the query fails. *)
CheckNonce(p) ==
    /\ up[p] /\ pc[p] = "nonce"
    /\ \/ HasNonce(cur[p]) /\ Refuse(p)
       \/ pc' = [pc EXCEPT ![p] = "lease"] /\ UNCHANGED cur
    /\ UNCHANGED <<log, up, pending, serverVars, childVars, clientVars, forwards>>

EnsureLease(p) ==
    /\ up[p] /\ pc[p] = "lease"
    /\ \/ pc' = [pc EXCEPT ![p] = "insert"] /\ UNCHANGED cur
       \/ Refuse(p)
    /\ UNCHANGED <<log, up, pending, serverVars, childVars, clientVars, forwards>>

(* The unwrap of as_i64 panics: the task is gone and stdin with it. *)
PanicOnId(p) ==
    /\ up[p] /\ pc[p] = "insert" /\ cur[p].id \in Fractional
    /\ pc' = [pc EXCEPT ![p] = "done"]
    /\ cur' = [cur EXCEPT ![p] = None]
    /\ UNCHANGED <<log, up, pending, serverVars, childVars, clientVars, forwards>>

(* Variant of InsertRequested: it goes on when the INSERT fails.            *)
InsertFailOpen(p) ==
    /\ up[p] /\ pc[p] = "insert" /\ cur[p].id \notin Fractional
    /\ InsertLocalEvent(cur[p], "SEAL_REQUESTED", cur[p], DeviceKey) \/ UNCHANGED log
    /\ pc' = [pc EXCEPT ![p] = "register"]
    /\ UNCHANGED <<cur, up, pending, serverVars, childVars, clientVars, forwards>>

(* The INSERT of SEAL_REQUESTED; it fails on the primary key, or because    *)
(* the database does.                                                       *)
InsertRequested(p) ==
    /\ up[p] /\ pc[p] = "insert" /\ cur[p].id \notin Fractional
    /\ \/ /\ InsertLocalEvent(cur[p], "SEAL_REQUESTED", cur[p], DeviceKey)
          /\ pc' = [pc EXCEPT ![p] = "register"]
          /\ UNCHANGED cur
       \/ Refuse(p) /\ UNCHANGED log
    /\ UNCHANGED <<up, pending, serverVars, childVars, clientVars, forwards>>

(* Variant of Register: nothing is kept for the child task. *)
RegisterNothing(p) ==
    /\ up[p] /\ pc[p] = "register"
    /\ pc' = [pc EXCEPT ![p] = "forward"]
    /\ UNCHANGED <<log, up, cur, pending, serverVars, childVars, clientVars, forwards>>

Register(p) ==
    /\ up[p] /\ pc[p] = "register"
    /\ pending' = [pending EXCEPT ![p][cur[p].id] = cur[p]]
    /\ pc' = [pc EXCEPT ![p] = "forward"]
    /\ UNCHANGED <<log, up, cur, serverVars, childVars, clientVars, forwards>>

Forward(p) ==
    /\ up[p] /\ pc[p] = "forward"
    /\ IF alive[p]
       THEN /\ Len(toServer[p]) < PipeCap
            /\ toServer' = [toServer EXCEPT ![p] = Append(@, cur[p])]
            /\ forwards' = [forwards EXCEPT ![cur[p]] = @ + 1]
            /\ pc' = [pc EXCEPT ![p] = "read"]
       ELSE pc' = [pc EXCEPT ![p] = "done"] /\ UNCHANGED <<toServer, forwards>>
    /\ cur' = [cur EXCEPT ![p] = None]
    /\ UNCHANGED <<log, up, pending, serving, fromServer, alive, childVars, clientVars>>

(* Variant of WriteRefusal: the task waits for a client that is gone.       *)
WriteToReader(p) ==
    /\ up[p] /\ pc[p] = "refuse" /\ client[p] = "reads"
    /\ out' = [out EXCEPT ![p] = [what |-> "error"]]
    /\ pc' = [pc EXCEPT ![p] = "read"]
    /\ UNCHANGED <<log, up, cur, pending, serverVars, childVars, client, forwards>>

(* The write, under the lock the tasks share, takes as long as the client   *)
(* does not read; its errors are ignored.                                   *)
WriteRefusal(p) ==
    /\ up[p] /\ pc[p] = "refuse" /\ client[p] # "stalled"
    /\ out' = IF client[p] = "gone" THEN out ELSE [out EXCEPT ![p] = [what |-> "error"]]
    /\ pc' = [pc EXCEPT ![p] = "read"]
    /\ UNCHANGED <<log, up, cur, pending, serverVars, childVars, client, forwards>>

(* End of the client's input, or a line that is not UTF-8. *)
CloseInput(p) ==
    /\ Reading(p)
    /\ pc' = [pc EXCEPT ![p] = "done"]
    /\ UNCHANGED <<log, up, cur, pending, serverVars, childVars, clientVars, forwards>>

ParentStep(p) ==
    \/ CheckNonce(p) \/ EnsureLease(p) \/ PanicOnId(p)
    \/ InsertRequested(p) \/ Register(p) \/ Forward(p) \/ WriteRefusal(p)

ParentRead(p) ==
    RejectMalformed(p) \/ PassThrough(p) \/ RefuseInFlight(p) \/ AcceptCall(p) \/ CloseInput(p)

-----------------------------------------------------------------------------
(* The MCP server *)

ServerRead(p) ==
    /\ alive[p] /\ toServer[p] # <<>>
    /\ serving' = [serving EXCEPT ![p] = @ \cup {Head(toServer[p])}]
    /\ toServer' = [toServer EXCEPT ![p] = Tail(@)]
    /\ UNCHANGED <<log, up, parentVars, pending, fromServer, alive, childVars, clientVars, forwards>>

ServerAnswer(p, line) ==
    /\ alive[p] /\ Len(fromServer[p]) < PipeCap
    /\ line \in serving[p]
    /\ serving' = [serving EXCEPT ![p] = @ \ {line}]
    /\ \E failed \in BOOLEAN :
          fromServer' = [fromServer EXCEPT ![p] =
              Append(@, [id |-> line.id, failed |-> failed, re |-> line])]
    /\ UNCHANGED <<log, up, parentVars, pending, toServer, alive, childVars, clientVars, forwards>>

(* A request of the server's own: sampling, roots, ping. *)
ServerRequest(p) ==
    /\ alive[p] /\ Len(fromServer[p]) < PipeCap
    /\ \E id \in ServerIds :
          fromServer' = [fromServer EXCEPT ![p] =
              Append(@, [id |-> id, failed |-> FALSE, re |-> None])]
    /\ UNCHANGED <<log, up, parentVars, pending, toServer, serving, alive, childVars, clientVars, forwards>>

(* What it had not read is lost, what it had written can still be read. *)
ServerExit(p) ==
    /\ alive[p]
    /\ alive' = [alive EXCEPT ![p] = FALSE]
    /\ toServer' = [toServer EXCEPT ![p] = <<>>]
    /\ serving' = [serving EXCEPT ![p] = {}]
    /\ UNCHANGED <<log, up, parentVars, pending, fromServer, childVars, clientVars, forwards>>

-----------------------------------------------------------------------------
(* The child task *)

(* Variant of TakeMessage: an object is taken for the outcome of some       *)
(* pending call, whatever its id.                                           *)
TakeByArrival(p) ==
    /\ up[p] /\ cpc[p] = "read" /\ fromServer[p] # <<>>
    /\ msg' = [msg EXCEPT ![p] = Head(fromServer[p])]
    /\ \/ \E i \in CallIds :
             /\ Pending(p, i)
             /\ sealing' = [sealing EXCEPT ![p] = pending[p][i]]
             /\ pending' = [pending EXCEPT ![p][i] = None]
             /\ cpc' = [cpc EXCEPT ![p] = "seal"]
       \/ /\ pending[p] = NoPending
          /\ cpc' = [cpc EXCEPT ![p] = "relay"]
          /\ UNCHANGED <<sealing, pending>>
    /\ fromServer' = [fromServer EXCEPT ![p] = Tail(@)]
    /\ UNCHANGED <<log, up, parentVars, toServer, serving, alive, clientVars, forwards>>

(* Any object with an id that is pending is taken for the outcome of the    *)
(* pending call.                                                            *)
TakeMessage(p) ==
    /\ up[p] /\ cpc[p] = "read" /\ fromServer[p] # <<>>
    /\ LET m == Head(fromServer[p]) IN
          /\ msg' = [msg EXCEPT ![p] = m]
          /\ IF Pending(p, m.id)
             THEN /\ sealing' = [sealing EXCEPT ![p] = pending[p][m.id]]
                  /\ pending' = [pending EXCEPT ![p][m.id] = None]
                  /\ cpc' = [cpc EXCEPT ![p] = "seal"]
             ELSE /\ cpc' = [cpc EXCEPT ![p] = "relay"]
                  /\ UNCHANGED <<sealing, pending>>
    /\ fromServer' = [fromServer EXCEPT ![p] = Tail(@)]
    /\ UNCHANGED <<log, up, parentVars, toServer, serving, alive, clientVars, forwards>>

(* Variant of Outcome: an answer is an answer. *)
OutcomeByArrival(m) == "SEAL_COMPLETED"

Outcome(m) == IF m.failed THEN "SEAL_FAILED" ELSE "SEAL_COMPLETED"

SealTerminal(p) ==
    /\ up[p] /\ cpc[p] = "seal"
    /\ InsertLocalEvent(sealing[p], Outcome(msg[p]), msg[p], DeviceKey)
    /\ sealing' = [sealing EXCEPT ![p] = None]
    /\ cpc' = [cpc EXCEPT ![p] = "relay"]
    /\ UNCHANGED <<up, parentVars, pending, serverVars, msg, clientVars, forwards>>

(* The write to the client, under the shared lock.  The error of a write to *)
(* a client that is gone is reported to it, which ends the task, or to the  *)
(* flush after it, which is ignored.                                        *)
RelayMessage(p) ==
    /\ up[p] /\ cpc[p] = "relay"
    /\ \/ /\ client[p] = "reads"
          /\ out' = [out EXCEPT ![p] = msg[p]]
          /\ cpc' = [cpc EXCEPT ![p] = "read"]
       \/ /\ client[p] = "gone"
          /\ \E next \in {"read", "done"} : cpc' = [cpc EXCEPT ![p] = next]
          /\ UNCHANGED out
    /\ msg' = [msg EXCEPT ![p] = None]
    /\ UNCHANGED <<log, up, parentVars, pending, serverVars, sealing, client, forwards>>

EndTask(p) ==
    /\ up[p] /\ cpc[p] = "read" /\ fromServer[p] = <<>>
    /\ cpc' = [cpc EXCEPT ![p] = "done"]
    /\ UNCHANGED <<log, up, parentVars, pending, serverVars, msg, sealing, clientVars, forwards>>

EndOfOutput(p) == ~alive[p] /\ EndTask(p)

(* A server that goes on has closed its stdout, or has written what is not  *)
(* UTF-8.                                                                   *)
LoseOutput(p) == alive[p] /\ EndTask(p)

ChildStep(p) == TakeMessage(p) \/ SealTerminal(p) \/ RelayMessage(p) \/ EndOfOutput(p)

-----------------------------------------------------------------------------
(* Processes and clients *)

(* A client stops reading, reads again, or closes its end of the pipe.      *)
ClientStep(p) ==
    /\ up[p] /\ client[p] # "gone"
    /\ \E state \in ClientStates : client' = [client EXCEPT ![p] = state]
    /\ UNCHANGED <<log, up, parentVars, pending, serverVars, childVars, out, forwards>>

Halt(p) ==
    /\ up' = [up EXCEPT ![p] = FALSE]
    /\ alive' = [alive EXCEPT ![p] = FALSE]
    /\ pc' = [pc EXCEPT ![p] = "read"]
    /\ cur' = [cur EXCEPT ![p] = None]
    /\ pending' = [pending EXCEPT ![p] = NoPending]
    /\ toServer' = [toServer EXCEPT ![p] = <<>>]
    /\ serving' = [serving EXCEPT ![p] = {}]
    /\ fromServer' = [fromServer EXCEPT ![p] = <<>>]
    /\ cpc' = [cpc EXCEPT ![p] = "read"]
    /\ msg' = [msg EXCEPT ![p] = None]
    /\ sealing' = [sealing EXCEPT ![p] = None]
    /\ client' = [client EXCEPT ![p] = "reads"]
    /\ out' = [out EXCEPT ![p] = None]
    /\ UNCHANGED <<log, forwards>>

(* A kill, a power loss, the exit(1) when a terminal row cannot be stored,  *)
(* the injected exits: only the database survives.  The server, if it goes  *)
(* on with what it has read, is not heard any more.                         *)
Crash(p) == up[p] /\ Halt(p)

(* Both tasks have ended and the server has exited. *)
Exit(p) ==
    /\ up[p] /\ pc[p] = "done" /\ cpc[p] = "done" /\ ~alive[p]
    /\ Halt(p)

Start(p) ==
    /\ ~up[p]
    /\ up' = [up EXCEPT ![p] = TRUE]
    /\ alive' = [alive EXCEPT ![p] = TRUE]
    /\ UNCHANGED <<log, parentVars, pending, toServer, serving, fromServer, childVars, clientVars, forwards>>

Init ==
    /\ log = <<>>
    /\ up = [p \in Procs |-> FALSE]
    /\ pc = [p \in Procs |-> "read"]
    /\ cur = [p \in Procs |-> None]
    /\ pending = [p \in Procs |-> NoPending]
    /\ toServer = [p \in Procs |-> <<>>]
    /\ serving = [p \in Procs |-> {}]
    /\ fromServer = [p \in Procs |-> <<>>]
    /\ alive = [p \in Procs |-> FALSE]
    /\ cpc = [p \in Procs |-> "read"]
    /\ msg = [p \in Procs |-> None]
    /\ sealing = [p \in Procs |-> None]
    /\ client = [p \in Procs |-> "reads"]
    /\ out = [p \in Procs |-> None]
    /\ forwards = [c \in Call |-> 0]

ServerStep(p) ==
    \/ ServerRead(p) \/ ServerRequest(p) \/ ServerExit(p)
    \/ \E line \in Line : ServerAnswer(p, line)

Next == \E p \in Procs :
    ParentRead(p) \/ ParentStep(p) \/ ServerStep(p) \/ ChildStep(p) \/ LoseOutput(p)
        \/ ClientStep(p) \/ Crash(p) \/ Exit(p) \/ Start(p)

Spec == Init /\ [][Next]_vars

(* Tokio keeps polling a task that can run, and hands the lock of the       *)
(* client's pipe to the tasks in turn, so that each writes when the client  *)
(* reads again and again.  The server keeps reading, and its answer to a    *)
(* line is not put off for ever by what else it writes.  Nothing is assumed *)
(* of the client.                                                           *)
Fairness == \A p \in Procs :
    /\ WF_vars(ParentStep(p))
    /\ SF_vars(WriteRefusal(p))
    /\ WF_vars(ChildStep(p))
    /\ SF_vars(RelayMessage(p))
    /\ WF_vars(ServerRead(p))
    /\ \A line \in Line : SF_vars(ServerAnswer(p, line))

FairSpec == Spec /\ Fairness

-----------------------------------------------------------------------------
(* Properties *)

PCs == {"read", "nonce", "lease", "insert", "register", "forward", "refuse", "done"}
ChildPCs == {"read", "seal", "relay", "done"}

TypeOK ==
    /\ log \in Seq(Row(Call, Call \cup Message, {DeviceKey}))
    /\ up \in [Procs -> BOOLEAN]
    /\ pc \in [Procs -> PCs]
    /\ cur \in [Procs -> Call \cup {None}]
    /\ pending \in [Procs -> [CallIds -> Call \cup {None}]]
    /\ toServer \in [Procs -> Seq(Line)]
    /\ serving \in [Procs -> SUBSET Line]
    /\ fromServer \in [Procs -> Seq(Message)]
    /\ alive \in [Procs -> BOOLEAN]
    /\ cpc \in [Procs -> ChildPCs]
    /\ msg \in [Procs -> Message \cup {None}]
    /\ sealing \in [Procs -> Call \cup {None}]
    /\ client \in [Procs -> {"reads", "stalled", "gone"}]
    /\ out \in [Procs -> Message \cup Refusal \cup {None}]
    /\ forwards \in [Call -> Nat]

(* A task that is handling a line has it. *)
TaskInv ==
    \A p \in Procs :
        /\ pc[p] \notin {"read", "refuse", "done"} => cur[p] \in Call
        /\ cpc[p] = "seal" => sealing[p] \in Call
        /\ cpc[p] \in {"seal", "relay"} => msg[p] \in Message

(* The parent task is between the INSERT and the end of the write. *)
Recorded(p) == pc[p] \in {"register", "forward"}

(* What AtMostOnce and ForwardedIsRecorded rest on: the INSERT is where the *)
(* processes are serialised, so a recorded call is in the hands of one      *)
(* process at most, and has not been forwarded as long as it is.            *)
OnceInv ==
    /\ \A p \in Procs : Recorded(p) =>
          HasRow(cur[p], "SEAL_REQUESTED") /\ forwards[cur[p]] = 0
    /\ \A p, q \in Procs : Recorded(p) /\ Recorded(q) /\ cur[p] = cur[q] => p = q
    /\ \A c \in Call : forwards[c] > 0 => HasRow(c, "SEAL_REQUESTED")
    /\ \A c \in Call : forwards[c] <= 1

(* The process still has to conclude the call: it is about to register it,  *)
(* has it pending, or is sealing its outcome.                               *)
Registering(p, c) == pc[p] = "register" /\ cur[p] = c
Awaits(p, c) == Registering(p, c) \/ pending[p][c.id] = c \/ sealing[p] = c

(* What the contract of the log rests on: a call that is awaited has its    *)
(* first row and no second, one process awaits it, in one place.            *)
AwaitInv ==
    /\ \A p \in Procs, i \in CallIds : pending[p][i] # None => pending[p][i].id = i
    /\ \A p \in Procs, c \in Call : Awaits(p, c) =>
          HasRow(c, "SEAL_REQUESTED") /\ ~HasTerminal(c)
    /\ \A p, q \in Procs, c \in Call : Awaits(p, c) /\ Awaits(q, c) => p = q
    /\ \A p \in Procs, c \in Call :
          /\ ~(pending[p][c.id] = c /\ sealing[p] = c)
          /\ Registering(p, c) => pending[p][c.id] # c /\ sealing[p] # c
    /\ \A c \in Call : HasTerminal(c) => HasRow(c, "SEAL_REQUESTED")

(* No call reaches a server more than once, whatever the retries of the     *)
(* client, the processes sharing the queue and their crashes: has_nonce can *)
(* miss a row, and two processes can both pass it before either inserts.    *)
AtMostOnce == \A c \in Call : forwards[c] <= 1

(* A call a server has been given has its SEAL_REQUESTED row on disk: no    *)
(* crash and no failed insert leaves an execution the log does not show.    *)
ForwardedIsRecorded == \A c \in Call : forwards[c] > 0 => HasRow(c, "SEAL_REQUESTED")

(* The client sees the outcome of a sealed call only when the log holds the *)
(* terminal row of that call, made of that very answer, and every terminal  *)
(* row is made of the answer to its call.                                   *)
OutcomeIsSealed ==
    /\ \A p \in Procs : (out[p] \in Message /\ out[p].re \in Call) =>
          \E r \in Rows : r.nonce = out[p].re /\ r.status \in Terminal /\ r.payload = out[p]
    /\ \A r \in Rows : r.status \in Terminal =>
          /\ r.payload.re = r.nonce
          /\ r.status = IF r.payload.failed THEN "SEAL_FAILED" ELSE "SEAL_COMPLETED"

(* A call is logged as completed only after a server has been given it.     *)
(* Holds when the server does not reuse the ids of pending calls for its    *)
(* own requests; MCRelay_collision shows what happens when it does.         *)
CompletedWasForwarded ==
    \A r \in Rows : r.status = "SEAL_COMPLETED" => forwards[r.nonce] > 0

(* The log keeps the contract of AuditLog. *)
Contract == INSTANCE AuditLog WITH Nonces <- Call, Payloads <- Call \cup Message,
                                   Keys <- {DeviceKey}
ContractSpec == Contract!AuditSpec

(* A line the parent task has read is dealt with: the task comes back to    *)
(* read_line, or it has ended, or the process is gone, unless the client    *)
(* has stopped reading: then both tasks wait for its pipe, for ever.        *)
LineIsHandled ==
    \A p \in Procs :
        (pc[p] \notin {"read", "done"})
            ~> (pc[p] \in {"read", "done"} \/ ~up[p] \/ [](client[p] = "stalled"))

(* A call that is registered gets its terminal row unless the process or    *)
(* its server stops, the child task has ended, or the client has stopped    *)
(* reading for ever.                                                        *)
CallIsConcluded ==
    \A p \in Procs : \A c \in Call :
        (pc[p] = "forward" /\ cur[p] = c)
            ~> (HasTerminal(c) \/ ~up[p] \/ ~alive[p] \/ cpc[p] = "done"
                    \/ [](client[p] = "stalled"))
=============================================================================
