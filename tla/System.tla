------------------------------- MODULE System -------------------------------
(***************************************************************************)
(* The whole system: the proxy processes of a device (Relay), the tasks in *)
(* them that empty its queue (SealQueue, whose proxies they are), the      *)
(* network and the ledger.  Each process has a background task, started    *)
(* with its relay, and ten rounds of sync_queue after both tasks of the    *)
(* relay have ended.  A process that stops leaves its POSTs to the network.*)
(***************************************************************************)
EXTENDS Relay, SealQueue

(* The events of SealQueue are those Relay logs, and its workers belong to  *)
(* processes.                                                               *)
ASSUME SystemAssumption ==
    /\ Nonces = Call
    /\ Payloads = Call \cup Message
    /\ Keys = {DeviceKey}
    /\ Workers \subseteq Procs \X {"background", "flush"}

VARIABLE shown  \* the calls whose outcome a client has seen (history)

remoteVars == <<receipts, call, late, events, registry>>
systemVars == <<vars, remoteVars, shown>>

Ended(p) == pc[p] = "done" /\ cpc[p] = "done" /\ ~alive[p]

(* The background task polls all the time, the rounds of sync_queue before  *)
(* the exit come when both tasks and the server have ended.                 *)
Polls(w) == up[w[1]] /\ (w[2] = "flush" => Ended(w[1]))

-----------------------------------------------------------------------------
(* The processes *)

Witness ==
    shown' = shown \cup {c \in Call : \E p \in Procs : out'[p] \in Message /\ out'[p].re = c}

(* relay_with_intercept returns when its last round is over; the POST of    *)
(* the background task is dropped with the process.                         *)
Leave(p) ==
    /\ Exit(p)
    /\ \A w \in Workers : w = <<p, "flush">> => call[w].st = "idle"

(* The workers of a new process start idle. *)
Launch(p) ==
    /\ Start(p)
    /\ \A w \in Workers : w[1] = p => call[w].st = "idle"

RelayStep(p) ==
    /\ \/ ParentRead(p) \/ ParentStep(p) \/ ServerStep(p) \/ ChildStep(p) \/ LoseOutput(p)
       \/ ClientStep(p) \/ Crash(p) \/ Leave(p) \/ Launch(p)
    /\ Witness
    /\ UNCHANGED remoteVars

(* The queue *)

PollQueue(w) == Polls(w) /\ SendOldest(w) /\ UNCHANGED <<vars, shown>>

(* With its process gone a POST is still executed, but not answered to      *)
(* anyone.                                                                  *)
EndPost(w) ==
    /\ GiveUp(w) \/ (Polls(w) /\ StoreReceipt(w))
    /\ UNCHANGED <<vars, shown>>

ExecutePost(w) == AnswerSeal(w) /\ UNCHANGED <<vars, shown>>

RemoteStep ==
    /\ ForeignSeal \/ Reconfigure \/ (\E row \in late : LateSeal(row))
    /\ UNCHANGED <<vars, shown>>

SystemInit == Init /\ QueueInit /\ shown = {}

SystemNext ==
    \/ \E p \in Procs : RelayStep(p)
    \/ \E w \in Workers : PollQueue(w) \/ EndPost(w) \/ ExecutePost(w)
    \/ RemoteStep

SystemSpec == SystemInit /\ [][SystemNext]_systemVars

(* As in SealQueue, for the workers of processes that run. *)
SystemFairness == \A w \in Workers :
    /\ WF_systemVars(PollQueue(w))
    /\ WF_systemVars(EndPost(w))
    /\ SF_systemVars(ExecutePost(w) /\ call'[w].answer # Rejected)
    /\ SF_systemVars(call[w].answer # Rejected /\ Polls(w) /\ StoreReceipt(w) /\ UNCHANGED <<vars, shown>>)

SystemFairSpec == SystemSpec /\ SystemFairness

-----------------------------------------------------------------------------
(* Properties *)

(* What the ledger says of a device is true: the device has logged it, and  *)
(* the outcome of a call is the answer of a server that was given the call, *)
(* once.                                                                    *)
EntryIsTrue ==
    \A e \in Entries : e.row \in Event =>
        /\ e.row \in Rows
        /\ e.row.status \in Terminal =>
              /\ forwards[e.row.nonce] = 1
              /\ e.row.payload.re = e.row.nonce
              /\ e.row.status = IF e.row.payload.failed THEN "SEAL_FAILED" ELSE "SEAL_COMPLETED"

(* The events of the abstract specification. *)
Part(row) == <<row.nonce, IF row.status = "SEAL_REQUESTED" THEN "request" ELSE "outcome">>

Parts(rows) == {Part(row) : row \in rows}

(* All of it together keeps the promise of Accountability. *)
Promise == INSTANCE Accountability WITH
    Event <- Call \X {"request", "outcome"},
    recorded <- Parts(Rows),
    executions <- forwards,
    sealed <- Parts({e.row : e \in Entries} \ ForeignRows),
    acknowledged <- Parts({r.row : r \in receipts})
PromiseSpec == Promise!PromiseSpec

(* While some process stays up and the ledger keeps the key of the device,  *)
(* every event that is logged, by whichever process, gets its receipt.      *)
EventuallyReceipted ==
    \A p \in Procs : (<>[]up[p] /\ <>[](registry = DeviceKey)) =>
        \A c \in Call, s \in ActionStatus :
            HasRow(c, s) ~> (\E r \in receipts : r.row.nonce = c /\ r.row.status = s)
=============================================================================
