---------------------------- MODULE SystemProofs ----------------------------
(***************************************************************************)
(* Theorems about System, for any number of processes, workers, calls and  *)
(* crashes: it implements Relay and SealQueue, so that everything proved   *)
(* of them holds of it; what the ledger says is true; and it keeps the     *)
(* promise of Accountability.                                              *)
(***************************************************************************)
EXTENDS System, RelayProofs, SealQueueProofs

-----------------------------------------------------------------------------
(* The system is a relay and a queue *)

(* A step of the system is a step of the relay or leaves it alone.          *)
LEMMA RelayRefines == [SystemNext]_systemVars => [Next]_vars
  <1> SUFFICES ASSUME [SystemNext]_systemVars
               PROVE  [Next]_vars
    OBVIOUS
  <1>1. ASSUME NEW p \in Procs, RelayStep(p)
        PROVE  Next
    BY <1>1 DEF RelayStep, Leave, Launch, Next
  <1>2. ASSUME NEW w \in Workers, PollQueue(w) \/ EndPost(w) \/ ExecutePost(w)
        PROVE  UNCHANGED vars
    BY <1>2 DEF PollQueue, EndPost, ExecutePost
  <1>3. CASE RemoteStep
    BY <1>3 DEF RemoteStep
  <1>4. QED
    BY <1>1, <1>2, <1>3 DEF SystemNext, systemVars

(* The system behaves as Relay, whatever its queue and the ledger do.       *)
LEMMA RelayOfSystem == SystemSpec => Spec
  <1>1. SystemInit => Init
    BY DEF SystemInit
  <1>2. QED
    BY <1>1, RelayRefines, PTL DEF SystemSpec, Spec

(* What Relay owes to AuditLog is what SealQueue expects of its proxies.    *)
LEMMA ContractIsInsert ==
    ASSUME Contract!AuditNext
    PROVE  AuditNext
  <1>1. PICK r \in Contract!Row(Call, Call \cup Message, {DeviceKey}) : Contract!Record(r)
    BY DEF Contract!AuditNext
  <1>2. r \in Row(Nonces, Payloads, Keys)
    BY SystemAssumption DEF Contract!Row, Row, Contract!ActionStatus, ActionStatus,
       Contract!Terminal, Terminal
  <1>3. Record(r)
    BY <1>1 DEF Contract!Record, Record, HasRow, HasNonce, HasTerminal, Stamps, Contract!HasRow,
       Contract!HasNonce, Contract!HasTerminal, Contract!Stamps, Rows, Contract!Rows,
       Terminal, Contract!Terminal
  <1>4. QED
    BY <1>2, <1>3 DEF AuditNext

(* A step of the system is a step of the queue or leaves it alone.          *)
LEMMA QueueRefines ==
    TypeOK /\ TaskInv /\ AwaitInv /\ [SystemNext]_systemVars => [QueueNext]_queueVars
  <1> SUFFICES ASSUME TypeOK, TaskInv, AwaitInv, [SystemNext]_systemVars
               PROVE  [QueueNext]_queueVars
    OBVIOUS
  <1>1. [Next]_vars
    BY RelayRefines
  <1>2. ASSUME NEW p \in Procs, RelayStep(p)
        PROVE  [QueueNext]_queueVars
    <2>1. UNCHANGED <<receipts, call, late, events, registry>>
      BY <1>2 DEF RelayStep, remoteVars
    <2>2. AuditNext \/ UNCHANGED log
      BY <1>1, LogStep, ContractIsInsert
    <2>3. QED
      BY <2>1, <2>2 DEF QueueNext, Insert, queueVars
  <1>3. ASSUME NEW w \in Workers, PollQueue(w) \/ EndPost(w) \/ ExecutePost(w)
        PROVE  QueueNext
    BY <1>3 DEF PollQueue, EndPost, ExecutePost, QueueNext
  <1>4. CASE RemoteStep
    BY <1>4 DEF RemoteStep, QueueNext
  <1>5. CASE UNCHANGED systemVars
    BY <1>5 DEF systemVars, vars, remoteVars, queueVars
  <1>6. QED
    BY <1>2, <1>3, <1>4, <1>5 DEF SystemNext

(* The system behaves as SealQueue: the processes write the log as the      *)
(* queue expects, and the workers come and go with their processes.         *)
THEOREM QueueOfSystem == SystemSpec => QueueSpec
  <1>1. SystemInit => QueueInit
    BY DEF SystemInit
  <1>2. TypeOK /\ TaskInv /\ AwaitInv /\ [SystemNext]_systemVars => [QueueNext]_queueVars
    BY QueueRefines
  <1>3. SystemSpec => []TypeOK /\ []TaskInv /\ []AwaitInv
    BY RelayOfSystem, TypeCorrect, AwaitCorrect, PTL
  <1>4. QED
    BY <1>1, <1>2, <1>3, PTL DEF SystemSpec, QueueSpec

(* The client ids, the ids of other lines and those of the server's own     *)
(* requests are distinct from here on: what the ledger says of the device   *)
(* is true.                                                                 *)
THEOREM EntryIsTrueCorrect ==
    ASSUME DistinctIds
    PROVE  SystemSpec => []EntryIsTrue
  <1>1. TypeOK /\ OnceInv /\ GivenInv /\ OutcomeIsSealed /\ EntriesLogged => EntryIsTrue
    <2> SUFFICES ASSUME TypeOK, OnceInv, GivenInv, OutcomeIsSealed, EntriesLogged,
                        NEW e \in Entries, e.row \in Event
                 PROVE  /\ e.row \in Rows
                        /\ e.row.status \in Terminal =>
                              /\ forwards[e.row.nonce] = 1
                              /\ e.row.payload.re = e.row.nonce
                              /\ e.row.status = IF e.row.payload.failed THEN "SEAL_FAILED"
                                               ELSE "SEAL_COMPLETED"
      BY DEF EntryIsTrue
    <2>1. e.row \in Rows
      BY ForeignIsNotEvent DEF EntriesLogged
    <2>2. CASE e.row.status \in Terminal
      <3>1. e.row.nonce \in Call
        BY <2>1, LoggedCalls DEF AuditRow, Row
      <3>2. forwards[e.row.nonce] \in Nat /\ forwards[e.row.nonce] <= 1 /\ forwards[e.row.nonce] > 0
        BY <2>1, <2>2, <3>1 DEF TypeOK, OnceInv, GivenInv, Given
      <3>3. QED
        BY <2>1, <2>2, <3>2 DEF OutcomeIsSealed
    <2>3. QED
      BY <2>1, <2>2
  <1>2. SystemSpec => []EntriesLogged
    BY QueueOfSystem, LoggedCorrect, PTL
  <1>3. SystemSpec => [](TypeOK /\ OnceInv /\ GivenInv /\ OutcomeIsSealed)
    BY RelayOfSystem, TypeCorrect, OnceCorrect, GivenCorrect, OutcomeIsSealedCorrect, PTL
  <1>4. QED
    BY <1>1, <1>2, <1>3, PTL

-----------------------------------------------------------------------------
(* The promise of Accountability *)

(* A call whose outcome a client is being shown is among those shown.       *)
ShownInv ==
    /\ shown \subseteq Call
    /\ \A p \in Procs : out[p] \in Message /\ out[p].re \in Call => out[p].re \in shown

LEMMA ShownStep == ShownInv /\ [SystemNext]_systemVars => ShownInv'
  <1> SUFFICES ASSUME ShownInv, [SystemNext]_systemVars
               PROVE  ShownInv'
    OBVIOUS
  <1>1. ASSUME NEW p \in Procs, RelayStep(p)
        PROVE  ShownInv'
    BY <1>1 DEF RelayStep, Witness, ShownInv
  <1>2. CASE UNCHANGED <<out, shown>>
    BY <1>2 DEF ShownInv
  <1>3. QED
    BY <1>1, <1>2
    DEF SystemNext, PollQueue, EndPost, ExecutePost, RemoteStep, systemVars, vars, clientVars

LEMMA ShownCorrect == SystemSpec => []ShownInv
  <1>1. SystemInit => ShownInv
    BY NoneAssumption DEF SystemInit, Init, ShownInv
  <1>2. QED
    BY <1>1, ShownStep, PTL DEF SystemSpec

(* A refusal, or the end of a process, shows nothing new.                   *)
LEMMA NothingShown ==
    ASSUME ShownInv, Witness,
           \A q \in Procs : out'[q] = out[q] \/ out'[q] \in Refusal \cup {None}
    PROVE  shown' = shown
  <1>1. ASSUME NEW q \in Procs, out'[q] \in Message, out'[q].re \in Call
        PROVE  out'[q].re \in shown
    BY <1>1, RefusalIsNoMessage DEF ShownInv
  <1>2. QED
    BY <1>1 DEF Witness

(* The rows of a log tell the events of Accountability apart.               *)
LEMMA PartOfRow ==
    ASSUME TypeOK, NEW r \in Rows
    PROVE  /\ r.nonce \in Call /\ r.status \in ActionStatus
           /\ Part(r) = <<r.nonce, "request">> \/ Part(r) = <<r.nonce, "outcome">>
           /\ Part(r) = <<r.nonce, "request">> <=> r.status = "SEAL_REQUESTED"
           /\ Part(r) = <<r.nonce, "outcome">> <=> r.status \in Terminal
  <1>1. r.nonce \in Call /\ r.status \in ActionStatus
    BY LoggedCalls DEF AuditRow, Row
  <1>2. QED
    BY <1>1 DEF Part, ActionStatus, Terminal

LEMMA PartsApart ==
    ASSUME TypeOK, OutcomeInv, NEW r1 \in Rows, NEW r2 \in Rows, Part(r1) = Part(r2)
    PROVE  r1 = r2
  <1>1. r1.nonce = r2.nonce
    BY DEF Part
  <1>2. CASE r1.status = "SEAL_REQUESTED"
    <2>1. r2.status = "SEAL_REQUESTED"
      BY <1>2 DEF Part
    <2>2. QED
      BY <1>1, <1>2, <2>1 DEF OutcomeInv, SameKey
  <1>3. CASE r1.status # "SEAL_REQUESTED"
    <2>1. r2.status # "SEAL_REQUESTED"
      BY <1>3 DEF Part
    <2>2. r1.status \in Terminal /\ r2.status \in Terminal
      BY <1>3, <2>1, PartOfRow DEF ActionStatus
    <2>3. QED
      BY <1>1, <2>2 DEF OutcomeInv
  <1>4. QED
    BY <1>2, <1>3

LEMMA PartsGrow == \A rows, r : Parts(rows \cup {r}) = Parts(rows) \cup {Part(r)}
  BY DEF Parts

(* The steps of the relay keep the promise: its INSERTs record, its write   *)
(* to the server executes, its write to the client shows.                   *)
LEMMA RelayKeepsPromise ==
    ASSUME TypeOK, TaskInv, OnceInv, AwaitInv, GivenInv, SealInv, ShownInv,
           NEW p \in Procs, RelayStep(p)
    PROVE  [Promise!PromiseNext]_(Promise!promiseVars)
  <1> DEFINE recorded == Parts(Rows)
             sealed == Parts({e.row : e \in Entries} \ ForeignRows)
             acknowledged == Parts({r.row : r \in receipts})
             Stutter == recorded' = recorded /\ forwards' = forwards /\ shown' = shown
  <1>0. sealed' = sealed /\ acknowledged' = acknowledged
    BY DEF RelayStep, remoteVars, Entries
  <1>00. Witness
    BY DEF RelayStep
  <1> HIDE DEF sealed, acknowledged
  <1>1. ASSUME Stutter
        PROVE  UNCHANGED Promise!promiseVars
    BY <1>0, <1>1 DEF Promise!promiseVars, Promise!trailVars, sealed, acknowledged
  <1>2. ASSUME UNCHANGED log
        PROVE  recorded' = recorded
    BY <1>2 DEF Rows
  <1>3. ASSUME InsertRequested(p), log' # log
        PROVE  Promise!PromiseNext
    <2>1. /\ cur[p] \in Call /\ UNCHANGED forwards
          /\ InsertLocalEvent(cur[p], "SEAL_REQUESTED", cur[p], DeviceKey)
      BY <1>3, InsertFrame
    <2>2. UNCHANGED out
      BY <1>3 DEF InsertRequested, clientVars
    <2>3. PICK r : /\ Rows' = Rows \cup {r}
                   /\ r.nonce = cur[p] /\ r.status = "SEAL_REQUESTED"
      BY <2>1, RowsGrow
    <2>4. recorded' = recorded \cup {<<cur[p], "request">>}
      BY <2>3, PartsGrow DEF Part
    <2>5. <<cur[p], "request">> \notin recorded
      BY <2>1, PartOfRow DEF Parts, Part, InsertLocalEvent, HasRow
    <2>6. shown' = shown
      BY <1>00, <2>2, NothingShown
    <2>7. Promise!RecordRequest(cur[p])
      BY <1>0, <2>1, <2>4, <2>5, <2>6
      DEF Promise!RecordRequest, Promise!RecordEvent, sealed, acknowledged
    <2>8. QED
      BY <2>1, <2>7 DEF Promise!PromiseNext
  <1>4. ASSUME SealTerminal(p)
        PROVE  Promise!PromiseNext
    <2>1. PICK c \in Call : c = sealing[p] /\ ~HasTerminal(c)
      BY <1>4, AwaitSeal
    <2>2. /\ InsertLocalEvent(c, Outcome(msg[p]), msg[p], DeviceKey)
          /\ cpc[p] = "seal" /\ UNCHANGED <<forwards, out>>
      BY <1>4, <2>1 DEF SealTerminal, clientVars
    <2>3. PICK r : /\ Rows' = Rows \cup {r}
                   /\ r.nonce = c /\ r.status = Outcome(msg[p])
      BY <2>2, RowsGrow
    <2>4. recorded' = recorded \cup {<<c, "outcome">>}
      BY <2>3, PartsGrow DEF Part, Outcome
    <2>5. <<c, "outcome">> \notin recorded
      <3>1. \A q \in Rows : Part(q) = <<c, "outcome">> => q.nonce = c
        BY DEF Part
      <3>2. QED
        BY <2>1, <3>1, PartOfRow DEF Parts, HasTerminal
    <2>6. forwards[c] = 1
      <3>1. forwards[c] \in Nat /\ forwards[c] <= 1 /\ forwards[c] > 0
        BY <2>1, <2>2 DEF TypeOK, OnceInv, GivenInv, Given
      <3>2. QED
        BY <3>1
    <2>7. shown' = shown
      BY <1>00, <2>2, NothingShown
    <2>8. Promise!RecordOutcome(c)
      BY <1>0, <2>2, <2>4, <2>5, <2>6, <2>7
      DEF Promise!RecordOutcome, Promise!RecordEvent, sealed, acknowledged
    <2>9. QED
      BY <2>1, <2>8 DEF Promise!PromiseNext
  <1>5. ASSUME Forward(p), alive[p]
        PROVE  Promise!PromiseNext
    <2>1. PICK c \in Call : c = cur[p] /\ HasRow(c, "SEAL_REQUESTED") /\ forwards[c] = 0
      BY <1>5 DEF Forward, TaskInv, OnceInv, Recorded
    <2>2. /\ forwards' = [forwards EXCEPT ![c] = 1] /\ UNCHANGED <<log, out>>
      BY <1>5, <2>1 DEF Forward, clientVars
    <2>3. <<c, "request">> \in recorded
      BY <2>1 DEF HasRow, Parts, Part
    <2>4. shown' = shown
      BY <1>00, <2>2, NothingShown
    <2>5. Promise!Execute(c)
      BY <1>0, <1>2, <2>1, <2>2, <2>3, <2>4
      DEF Promise!Execute, Promise!trailVars, sealed, acknowledged
    <2>6. QED
      BY <2>5 DEF Promise!PromiseNext
  <1>6. ASSUME RelayMessage(p)
        PROVE  Promise!PromiseNext \/ Stutter
    <2>1. /\ UNCHANGED <<log, forwards>>
          /\ cpc[p] = "relay" /\ out' \in {out, [out EXCEPT ![p] = msg[p]]}
      BY <1>6 DEF RelayMessage
    <2>2. CASE out' # out /\ msg[p].re \in Call
      <3>1. PICK c \in Call : c = msg[p].re
        BY <2>2
      <3>2. msg[p] \in Message
        BY <2>1 DEF TaskInv
      <3>3. /\ \A q \in Procs : out'[q] = IF q = p THEN msg[p] ELSE out[q]
        BY <2>1, <2>2 DEF TypeOK
      <3>4. shown' = shown \cup {c}
        BY <1>00, <3>1, <3>2, <3>3 DEF Witness, ShownInv
      <3>5. <<c, "outcome">> \in recorded
        <4>1. PICK r \in Rows : r.nonce = c /\ r.status \in Terminal
          BY <2>1, <3>1 DEF SealInv, SealedIn
        <4>2. QED
          BY <4>1 DEF Parts, Part, Terminal
      <3>6. Promise!Show(c)
        BY <1>0, <1>2, <2>1, <3>4, <3>5 DEF Promise!Show, Promise!trailVars, sealed, acknowledged
      <3>7. QED
        BY <3>6 DEF Promise!PromiseNext
    <2>3. CASE out' = out
      BY <1>00, <1>2, <2>1, <2>3, NothingShown
    <2>4. CASE msg[p].re \notin Call
      <3>1. \A q \in Procs : out'[q] = out[q] \/ out'[q].re \notin Call
        BY <2>1, <2>4 DEF TypeOK
      <3>2. shown' = shown
        BY <1>00, <3>1 DEF Witness, ShownInv
      <3>3. QED
        BY <1>2, <2>1, <3>2
    <2>5. QED
      BY <2>2, <2>3, <2>4
  <1>7. ASSUME UNCHANGED <<log, forwards>>,
               \A q \in Procs : out'[q] = out[q] \/ out'[q] \in Refusal \cup {None}
        PROVE  Stutter
    BY <1>00, <1>2, <1>7, NothingShown
  <1>8. ASSUME ParentRead(p)
        PROVE  Stutter
    BY <1>7, <1>8, ReadFrame
    DEF ParentRead, RejectMalformed, PassThrough, RefuseInFlight, AcceptCall, CloseInput, clientVars
  <1>9. ASSUME ParentStep(p), ~(InsertRequested(p) /\ log' # log), ~(Forward(p) /\ alive[p])
        PROVE  Stutter
    <2>1. CASE WriteRefusal(p)
      <3>1. [what |-> "error"] \in Refusal
        BY DEF Refusal
      <3>2. \A q \in Procs : out'[q] = out[q] \/ out'[q] \in Refusal \cup {None}
        BY <2>1, <3>1 DEF WriteRefusal, TypeOK
      <3>3. QED
        BY <1>7, <2>1, <3>2 DEF WriteRefusal
    <2>2. QED
      BY <1>7, <1>9, <2>1
      DEF ParentStep, CheckNonce, EnsureLease, PanicOnId, InsertRequested, Register, Forward,
          clientVars
  <1>10. ASSUME ServerStep(p) \/ TakeMessage(p) \/ EndTask(p) \/ Start(p) \/ ClientStep(p)
         PROVE  Stutter
    BY <1>7, <1>10, ServerFrame
    DEF ServerStep, ServerRead, ServerAnswer, ServerRequest, ServerExit, TakeMessage, EndTask,
        Start, ClientStep, clientVars
  <1>11. ASSUME Halt(p)
         PROVE  Stutter
    BY <1>7, <1>11 DEF Halt, TypeOK
  <1> HIDE DEF Stutter
  <1>12. QED
    BY <1>1, <1>3, <1>4, <1>5, <1>6, <1>8, <1>9, <1>10, <1>11
    DEF RelayStep, ParentStep, ChildStep, EndOfOutput, LoseOutput, Crash, Exit, Leave, Launch

(* The rows of the device on the ledger, and those with a receipt.          *)
SealedRows == {e.row : e \in Entries} \ ForeignRows
AckedRows == {r.row : r \in receipts}

TrailInv == AckedRows \subseteq SealedRows /\ SealedRows \subseteq Rows

LEMMA TrailInvCorrect == QueueSpec => []TrailInv
  <1>1. QueueInit => TrailInv
    BY DEF QueueInit, AuditInit, TrailInv, AckedRows, SealedRows, Rows, Entries
  <1>2. TrailInv /\ [Trail!TrailNext]_(Trail!trailVars) => TrailInv'
    BY DEF TrailInv, AckedRows, SealedRows, Trail!TrailNext, Trail!trailVars,
       Trail!RecordEvent, Trail!SealRecorded, Trail!Acknowledge
  <1>3. QueueTypeOK /\ FlightInv /\ ReceiptIsOnLedger /\ [QueueNext]_queueVars
            => [Trail!TrailNext]_(Trail!trailVars)
    BY TrailStep
  <1>4. QED
    BY <1>1, <1>2, <1>3, QueueTypeCorrect, ReceiptIsOnLedgerCorrect, PTL DEF QueueSpec

(* An outcome on the ledger has the request of its call there.              *)
RequestsSealed ==
    \A r \in SealedRows : r.status \in Terminal =>
        \E q \in SealedRows : q.nonce = r.nonce /\ q.status = "SEAL_REQUESTED"

LEMMA RequestIsSealed ==
    TypeOK /\ AwaitInv /\ QueueTypeOK /\ TrailInv /\ RequestedIsSealedFirst => RequestsSealed
  <1> SUFFICES ASSUME TypeOK, AwaitInv, QueueTypeOK, TrailInv, RequestedIsSealedFirst,
                      NEW r \in SealedRows, r.status \in Terminal
               PROVE  \E q \in SealedRows : q.nonce = r.nonce /\ q.status = "SEAL_REQUESTED"
    BY DEF RequestsSealed
  <1>1. r \in Rows /\ r \in Event
    BY RowsTyped DEF TrailInv
  <1>2. PICK i \in DOMAIN events : events[i].row = r
    BY DEF SealedRows, Entries
  <1>3. PICK j \in 1..(i - 1) : events[j].row.nonce = r.nonce /\ events[j].row.status = "SEAL_REQUESTED"
    BY <1>1, <1>2 DEF RequestedIsSealedFirst
  <1>4. j \in DOMAIN events
    BY <1>2, <1>3 DEF QueueTypeOK
  <1>5. PICK q : q = events[j].row
    OBVIOUS
  <1>6. q \notin ForeignRows
    <2>1. PICK o \in Rows : o.nonce = r.nonce /\ o.status = "SEAL_REQUESTED"
      <3>1. r.nonce \in Call
        BY <1>1, PartOfRow
      <3>2. HasTerminal(r.nonce)
        BY <1>1 DEF HasTerminal
      <3>3. QED
        BY <3>1, <3>2 DEF AwaitInv, HasRow
    <2>2. o \in Event /\ SameKey(q, o)
      BY <1>3, <1>5, <2>1, RowsTyped DEF SameKey
    <2>3. QED
      BY <2>2, SealQueueAssumption
  <1>7. QED
    BY <1>3, <1>4, <1>5, <1>6 DEF SealedRows, Entries

(* The steps of the workers, the network and the ledger keep the promise:   *)
(* they are steps of AuditTrail, where the request of a call goes first.    *)
LEMMA QueueKeepsPromise ==
    ASSUME TypeOK, QueueTypeOK, FlightInv, ReceiptIsOnLedger, OutcomeInv, TrailInv, RequestsSealed',
           [QueueNext]_queueVars, UNCHANGED <<vars, shown>>
    PROVE  [Promise!PromiseNext]_(Promise!promiseVars)
  <1>1. Rows' = Rows /\ forwards' = forwards /\ shown' = shown
    BY DEF vars, Rows
  <1>2. [Trail!TrailNext]_(Trail!trailVars)
    BY TrailStep
  <1>3. \A r \in Rows : Part(r) \in Call \X {"request", "outcome"} /\ r.nonce \in Call
    BY PartOfRow
  <1>4. CASE UNCHANGED Trail!trailVars
    BY <1>1, <1>4 DEF Trail!trailVars, Promise!promiseVars, Promise!trailVars, Parts
  <1>5. ASSUME NEW e, Trail!RecordEvent(e)
        PROVE  FALSE
    BY <1>1, <1>5 DEF Trail!RecordEvent
  <1>6. ASSUME NEW e, Trail!SealRecorded(e)
        PROVE  Promise!PromiseNext
    <2>1. /\ e \in Rows /\ e \notin SealedRows
          /\ SealedRows' = SealedRows \cup {e} /\ AckedRows' = AckedRows
      BY <1>6 DEF Trail!SealRecorded, SealedRows, AckedRows
    <2>2. Part(e) \in Parts(Rows) /\ Part(e) \notin Parts(SealedRows)
      BY <2>1, PartsApart DEF Parts, TrailInv
    <2>3. Parts(SealedRows)' = Parts(SealedRows) \cup {Part(e)}
      BY <2>1, PartsGrow DEF Parts
    <2>4. Promise!SealRecorded(Part(e))
      BY <1>1, <2>1, <2>2, <2>3 DEF Promise!SealRecorded, SealedRows, AckedRows, Parts
    <2>5. CASE Part(e) = <<e.nonce, "request">>
      BY <1>1, <1>3, <2>1, <2>4, <2>5 DEF Promise!SealRequest, Promise!PromiseNext
    <2>6. CASE Part(e) = <<e.nonce, "outcome">>
      <3>1. PICK q \in SealedRows' : q.nonce = e.nonce /\ q.status = "SEAL_REQUESTED"
        BY <2>1, <2>6, PartOfRow DEF RequestsSealed
      <3>2. q \in SealedRows /\ Part(q) = <<e.nonce, "request">>
        BY <2>1, <2>6, <3>1 DEF Part
      <3>3. <<e.nonce, "request">> \in Parts(SealedRows)
        BY <3>2 DEF Parts
      <3>4. QED
        BY <1>1, <1>3, <2>1, <2>4, <2>6, <3>3
        DEF Promise!SealOutcome, Promise!PromiseNext, SealedRows
    <2>7. QED
      BY <2>1, <2>5, <2>6, PartOfRow
  <1>7. ASSUME NEW e, Trail!Acknowledge(e)
        PROVE  Promise!PromiseNext
    <2>1. /\ e \in SealedRows /\ e \notin AckedRows
          /\ AckedRows' = AckedRows \cup {e} /\ SealedRows' = SealedRows
      BY <1>7 DEF Trail!Acknowledge, SealedRows, AckedRows
    <2>2. Part(e) \in Parts(SealedRows) /\ Part(e) \notin Parts(AckedRows)
      BY <2>1, PartsApart DEF Parts, TrailInv
    <2>3. Parts(AckedRows)' = Parts(AckedRows) \cup {Part(e)}
      BY <2>1, PartsGrow DEF Parts
    <2>4. Promise!Acknowledge(Part(e))
      BY <1>1, <2>1, <2>2, <2>3 DEF Promise!Acknowledge, SealedRows, AckedRows, Parts
    <2>5. QED
      BY <1>1, <1>3, <2>1, <2>4 DEF Promise!AcknowledgeEvent, Promise!PromiseNext, TrailInv
  <1>8. QED
    BY <1>2, <1>4, <1>5, <1>6, <1>7 DEF Trail!TrailNext

LEMMA PromiseStep ==
    /\ TypeOK /\ TaskInv /\ OnceInv /\ AwaitInv /\ GivenInv /\ SealInv /\ ShownInv
    /\ QueueTypeOK /\ FlightInv /\ ReceiptIsOnLedger /\ OutcomeInv /\ TrailInv
    /\ RequestsSealed' /\ [SystemNext]_systemVars
    => [Promise!PromiseNext]_(Promise!promiseVars)
  <1> SUFFICES ASSUME TypeOK, TaskInv, OnceInv, AwaitInv, GivenInv, SealInv, ShownInv,
                      QueueTypeOK, FlightInv, ReceiptIsOnLedger, OutcomeInv, TrailInv,
                      RequestsSealed', [SystemNext]_systemVars
               PROVE  [Promise!PromiseNext]_(Promise!promiseVars)
    OBVIOUS
  <1>1. ASSUME NEW p \in Procs, RelayStep(p)
        PROVE  [Promise!PromiseNext]_(Promise!promiseVars)
    BY <1>1, RelayKeepsPromise
  <1>2. ASSUME UNCHANGED <<vars, shown>>
        PROVE  [Promise!PromiseNext]_(Promise!promiseVars)
    BY <1>2, QueueRefines, QueueKeepsPromise
  <1>3. QED
    BY <1>1, <1>2
    DEF SystemNext, PollQueue, EndPost, ExecutePost, RemoteStep, systemVars

(* Where ids are distinct and the clock is not set back, the processes, the *)
(* queue, the network and the ledger together keep the promise: a call is   *)
(* recorded before it is executed, executed once at most, its outcome is    *)
(* recorded before it is shown, and the ledger has the request, then the    *)
(* outcome, and the device its receipts after that.                         *)
THEOREM PromiseCorrect ==
    ASSUME DistinctIds, MonotonicClock
    PROVE  SystemSpec => PromiseSpec
  <1>1. SystemInit => Promise!PromiseInit
    BY DEF SystemInit, Init, QueueInit, AuditInit, Promise!PromiseInit, Promise!TrailInit,
       Parts, Rows, Entries
  <1>2. SystemSpec => [](TypeOK /\ TaskInv /\ OnceInv /\ AwaitInv /\ GivenInv /\ SealInv)
    BY RelayOfSystem, TypeCorrect, OnceCorrect, AwaitCorrect, GivenCorrect, SealCorrect, PTL
  <1>3. SystemSpec => []( /\ QueueTypeOK /\ FlightInv /\ ReceiptIsOnLedger /\ OutcomeInv
                          /\ TrailInv /\ RequestedIsSealedFirst)
    BY QueueOfSystem, QueueTypeCorrect, ReceiptIsOnLedgerCorrect, LoggedCorrect, TrailInvCorrect,
       RequestedIsSealedFirstCorrect, PTL
  <1>4. SystemSpec => []RequestsSealed
    BY <1>2, <1>3, RequestIsSealed, PTL
  <1>5. /\ TypeOK /\ TaskInv /\ OnceInv /\ AwaitInv /\ GivenInv /\ SealInv /\ ShownInv
        /\ QueueTypeOK /\ FlightInv /\ ReceiptIsOnLedger /\ OutcomeInv /\ TrailInv
        /\ RequestsSealed' /\ [SystemNext]_systemVars
        => [Promise!PromiseNext]_(Promise!promiseVars)
    BY PromiseStep
  <1>6. QED
    BY <1>1, <1>2, <1>3, <1>4, <1>5, ShownCorrect, PTL
    DEF SystemSpec, PromiseSpec, Promise!PromiseSpec
=============================================================================
