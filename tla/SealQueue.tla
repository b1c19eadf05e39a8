----------------------------- MODULE SealQueue -----------------------------
(***************************************************************************)
(* The way of an event from the local log to the ledger and of its receipt *)
(* back: sync_queue, which every process runs each second in its           *)
(* background task and ten times before it exits, POST /seal over a        *)
(* network that loses and delays, and verify_and_store_receipt.  Several   *)
(* workers read the same queue, a worker that gives up may be answered     *)
(* later, and the ledger may be restarted with other keys.                 *)
(*                                                                         *)
(* The proxies appear as the contract of the log, AuditLog.                *)
(***************************************************************************)
EXTENDS AuditLog, Ledger

CONSTANTS
    Workers,      \* the tasks that run sync_queue
    ForeignRows,  \* rows of other devices
    NoRow         \* of a worker that sends nothing

Event == Row(Nonces, Payloads, Keys)

ASSUME SealQueueAssumption ==
    /\ NoKey \notin Keys
    /\ NoRow \notin Event
    /\ NoKey \notin Event
    /\ \A f \in ForeignRows, r \in Event : ~SameKey(f, r)

VARIABLES
    receipts,  \* table receipts, and the receipt columns of the log
    call,      \* the POST each worker is waiting for
    late       \* rows of POSTs given up that may still reach the ledger

queueVars == <<log, receipts, call, late, events, registry>>

IdleCall == [st |-> "idle", row |-> NoRow, answer |-> Rejected]

IsAcked(row) == \E r \in receipts : SameKey(r.row, row)

(* Variant of Unacked: the receipts are looked up by nonce. *)
UnackedNonces == {i \in DOMAIN log : ~\E r \in receipts : r.row.nonce = log[i].nonce}

Unacked == {i \in DOMAIN log : ~IsAcked(log[i])}

(* Variant of Oldest: ORDER BY local_timestamp DESC. *)
Newest == CHOOSE i \in Unacked : \A j \in Unacked :
    log[i].ts > log[j].ts \/ (log[i].ts = log[j].ts /\ i >= j)

(* ORDER BY local_timestamp LIMIT 1, which keeps the first of equals. *)
Oldest == CHOOSE i \in Unacked : \A j \in Unacked :
    log[i].ts < log[j].ts \/ (log[i].ts = log[j].ts /\ i <= j)

-----------------------------------------------------------------------------
(* The proxies *)

Insert ==
    /\ AuditNext
    /\ UNCHANGED <<receipts, call, late, events, registry>>

(* The sync workers *)

SendOldest(w) ==
    /\ call[w].st = "idle"
    /\ Unacked # {}
    /\ call' = [call EXCEPT ![w] = [st |-> "sent", row |-> log[Oldest], answer |-> Rejected]]
    /\ UNCHANGED <<log, receipts, late, events, registry>>

(* A network error, the client's timeout, a ledger restart, the end of the  *)
(* process: the request may be lost, or reach the ledger later.             *)
GiveUp(w) ==
    /\ call[w].st # "idle"
    /\ \/ call[w].st = "sent" /\ late' = late \cup {call[w].row}
       \/ UNCHANGED late
    /\ call' = [call EXCEPT ![w] = IdleCall]
    /\ UNCHANGED <<log, receipts, events, registry>>

(* Variant of Verified: the signature is not looked at. *)
Trusted(row, answer) == TRUE

(* The receipt signs the event that was sent. *)
Verified(row, answer) == answer # Rejected /\ answer.row = row

(* A receipt already there makes the INSERT fail and the transaction roll   *)
(* back.                                                                    *)
StoreReceipt(w) ==
    /\ call[w].st = "answered"
    /\ LET a == call[w].answer IN
          receipts' = IF Verified(call[w].row, a) /\ ~IsAcked(a.row)
                      THEN receipts \cup {a} ELSE receipts
    /\ call' = [call EXCEPT ![w] = IdleCall]
    /\ UNCHANGED <<log, late, events, registry>>

(* The ledger *)

AnswerSeal(w) ==
    /\ call[w].st = "sent"
    /\ \E a \in Answers(call[w].row) :
          /\ SealEvent(call[w].row, a)
          /\ call' = [call EXCEPT ![w].st = "answered", ![w].answer = a]
    /\ UNCHANGED <<log, receipts, late, registry>>

LateSeal(row) ==
    /\ row \in late
    /\ \E a \in Answers(row) : SealEvent(row, a)
    /\ late' = late \ {row}
    /\ UNCHANGED <<log, receipts, call, registry>>

ForeignSeal ==
    /\ \E row \in ForeignRows, t \in LedgerTimes :
          ~IsStored(row) /\ events' = Append(events, NewEntry(row, t))
    /\ UNCHANGED <<log, receipts, call, late, registry>>

(* A restart of the ledger with another AUTHORIZED_DEVICES_JSON. *)
Reconfigure ==
    /\ registry' \in Keys \cup {NoKey}
    /\ UNCHANGED <<log, receipts, call, late, events>>

QueueInit ==
    /\ AuditInit
    /\ receipts = {}
    /\ call = [w \in Workers |-> IdleCall]
    /\ late = {}
    /\ events = <<>>
    /\ registry \in Keys

QueueNext ==
    \/ Insert \/ ForeignSeal \/ Reconfigure
    \/ \E w \in Workers : SendOldest(w) \/ GiveUp(w) \/ StoreReceipt(w) \/ AnswerSeal(w)
    \/ \E row \in late : LateSeal(row)

QueueSpec == QueueInit /\ [][QueueNext]_queueVars

(* A worker polls again each second and its POST ends, by the timeout of 5  *)
(* seconds if need be; a ledger that holds the key and gets a request again *)
(* and again accepts it and is heard some time.                             *)
AcceptSeal(w) == AnswerSeal(w) /\ call'[w].answer # Rejected
StoreAccepted(w) == call[w].answer # Rejected /\ StoreReceipt(w)

QueueFairness == \A w \in Workers :
    /\ WF_queueVars(SendOldest(w))
    /\ WF_queueVars(GiveUp(w) \/ StoreReceipt(w))
    /\ SF_queueVars(AcceptSeal(w))
    /\ SF_queueVars(StoreAccepted(w))

QueueFairSpec == QueueSpec /\ QueueFairness

-----------------------------------------------------------------------------
(* Properties *)

Chained == [row: Event \cup ForeignRows, lts: LedgerTimes]
Entry == [row: Event \cup ForeignRows, lts: LedgerTimes, chain: Seq(Chained)]

QueueTypeOK ==
    /\ log \in Seq(Event)
    /\ events \in Seq(Entry)
    /\ registry \in Keys \cup {NoKey}
    /\ receipts \subseteq Entry
    /\ late \subseteq Event
    /\ call \in [Workers -> [st: {"idle", "sent", "answered"},
                             row: Event \cup {NoRow},
                             answer: Entry \cup {Rejected}]]

(* A receipt kept on the device is that of an entry of the ledger, same row,*)
(* same timestamp, same chain hash, however often the row was sent, by how  *)
(* many workers, and whichever of the answers came back.                    *)
ReceiptIsOnLedger == receipts \subseteq Entries

(* The ledger holds an event once, however often it was sent. *)
SealedOnce == \A i, j \in DOMAIN events : SameKey(events[i].row, events[j].row) => i = j

(* The chain hash of an entry commits to every entry before it. *)
ChainCommits == \A i \in DOMAIN events :
    events[i].chain = [j \in 1..i |-> [row |-> events[j].row, lts |-> events[j].lts]]

(* On the ledger the outcome of a call comes after its request: the queue   *)
(* is drained oldest first and its head is not left before its receipt is   *)
(* there.  Needs a clock that is not set back between the two.              *)
RequestedIsSealedFirst == \A i \in DOMAIN events :
    (events[i].row \in Event /\ events[i].row.status \in Terminal) =>
        \E j \in 1..(i - 1) : /\ events[j].row.nonce = events[i].row.nonce
                             /\ events[j].row.status = "SEAL_REQUESTED"

(* The ledger has one outcome of a call at most: a repeated request repeats *)
(* the stored row, never the other terminal status, although the key of its *)
(* table would take both.                                                   *)
OneOutcome == \A i, j \in DOMAIN events :
    (/\ {events[i].row, events[j].row} \subseteq Event
     /\ {events[i].row.status, events[j].row.status} \subseteq Terminal
     /\ events[i].row.nonce = events[j].row.nonce) => i = j

(* The queue, the network and the ledger together implement AuditTrail: no  *)
(* event is sealed that the device has not logged, none is acknowledged     *)
(* that the ledger has not sealed, and nothing is taken back.               *)
Trail == INSTANCE AuditTrail WITH
    recorded <- Rows,
    sealed <- {e.row : e \in Entries} \ ForeignRows,
    acknowledged <- {r.row : r \in receipts}
TrailSpec == Trail!TrailSpec

(* README: destructive actions cannot happen "without leaving a permanent,  *)
(* undeniable cryptographic receipt", whatever becomes of the device.       *)
EveryEventIsReceipted == \A row \in Event : (row \in Rows) ~> IsAcked(row)
=============================================================================
