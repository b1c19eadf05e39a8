---------------------------- MODULE RelayProofs ----------------------------
(***************************************************************************)
(* Theorems about Relay, for any number of processes, ids, params and any  *)
(* capacity of the pipes.                                                  *)
(***************************************************************************)
EXTENDS Relay, TLAPS

AuditRow == Row(Call, Call \cup Message, {DeviceKey})

(* What an INSERT appends is a row of the type of its arguments. *)
LEMMA InsertTypes ==
    ASSUME NEW n \in Call, NEW s \in ActionStatus, NEW m \in Call \cup Message,
           log \in Seq(AuditRow), InsertLocalEvent(n, s, m, DeviceKey)
    PROVE  log' \in Seq(AuditRow)
  <1>1. PICK t \in Stamps(n) :
            log' = Append(log, [nonce |-> n, status |-> s, payload |-> m,
                                ts |-> t, key |-> DeviceKey])
    BY DEF InsertLocalEvent
  <1>2. [nonce |-> n, status |-> s, payload |-> m, ts |-> t, key |-> DeviceKey] \in AuditRow
    BY DEF Stamps, AuditRow, Row
  <1>3. QED
    BY <1>1, <1>2

(* ... and the rows are those there were and the new one. *)
LEMMA InsertRows ==
    ASSUME NEW n, NEW s, NEW m, NEW k, NEW S, log \in Seq(S),
           InsertLocalEvent(n, s, m, k)
    PROVE  /\ ~HasRow(n, s)
           /\ \A c, t : HasRow(c, t)' <=> HasRow(c, t) \/ (c = n /\ t = s)
           /\ \A c : HasTerminal(c)' <=> HasTerminal(c) \/ (c = n /\ s \in Terminal)
  <1>1. PICK t \in Stamps(n) :
            log' = Append(log, [nonce |-> n, status |-> s, payload |-> m, ts |-> t, key |-> k])
    BY DEF InsertLocalEvent
  <1> DEFINE r == [nonce |-> n, status |-> s, payload |-> m, ts |-> t, key |-> k]
  <1>2. Rows' = Rows \cup {r}
    BY <1>1 DEF Rows
  <1>3. r.nonce = n /\ r.status = s
    OBVIOUS
  <1> HIDE DEF r
  <1>4. \A c, u : HasRow(c, u)' <=> HasRow(c, u) \/ (c = n /\ u = s)
    BY <1>2, <1>3 DEF HasRow
  <1>5. ~HasRow(n, s)
    BY DEF InsertLocalEvent
  <1>6. \A c : HasTerminal(c)' <=> HasTerminal(c) \/ (c = n /\ s \in Terminal)
    BY <1>2, <1>3 DEF HasTerminal
  <1>7. QED
    BY <1>4, <1>5, <1>6

LEMMA InitType == Init => TypeOK
  BY DEF Init, TypeOK, NoPending, PCs, ChildPCs

LEMMA HaltType ==
    ASSUME TypeOK, NEW p \in Procs, Halt(p)
    PROVE  TypeOK'
  BY DEF Halt, TypeOK, NoPending, PCs, ChildPCs

(* The parent task only adds rows of the call it is handling. *)
LEMMA ParentType ==
    ASSUME TypeOK, TaskInv, NEW p \in Procs, ParentRead(p) \/ ParentStep(p)
    PROVE  TypeOK'
  <1>0. pc[p] \in {"insert", "register", "forward"} => cur[p] \in Call
    BY DEF TaskInv
  <1>1. CASE RejectMalformed(p)
    BY <1>1 DEF RejectMalformed, Reading, Refuse, TypeOK, PCs, serverVars, childVars, clientVars
  <1>2. CASE PassThrough(p)
    <2>1. PICK line \in OpenLine :
              \/ toServer' = [toServer EXCEPT ![p] = Append(@, line)] /\ UNCHANGED pc
              \/ pc' = [pc EXCEPT ![p] = "done"] /\ UNCHANGED toServer
      BY <1>2 DEF PassThrough
    <2>2. Append(toServer[p], line) \in Seq(Line)
      BY <2>1 DEF TypeOK, Line
    <2>3. toServer' \in [Procs -> Seq(Line)]
      BY <2>1, <2>2 DEF TypeOK
    <2>4. pc' \in [Procs -> PCs]
      BY <2>1 DEF TypeOK, PCs
    <2>5. QED
      BY <1>2, <2>3, <2>4 DEF PassThrough, TypeOK, childVars, clientVars
  <1>3. CASE RefuseInFlight(p)
    BY <1>3 DEF RefuseInFlight, Reading, Refuse, TypeOK, PCs, serverVars, childVars, clientVars
  <1>4. CASE AcceptCall(p)
    BY <1>4 DEF AcceptCall, Reading, TypeOK, PCs, parentVars, serverVars, childVars, clientVars
  <1>5. CASE CloseInput(p)
    BY <1>5 DEF CloseInput, Reading, TypeOK, PCs, parentVars, serverVars, childVars, clientVars
  <1>6. CASE CheckNonce(p)
    <2>1. CASE Refuse(p)
      BY <1>6, <2>1 DEF CheckNonce, Refuse, TypeOK, PCs, serverVars, childVars, clientVars
    <2>2. CASE pc' = [pc EXCEPT ![p] = "lease"] /\ UNCHANGED cur
      BY <1>6, <2>2 DEF CheckNonce, TypeOK, PCs, serverVars, childVars, clientVars
    <2>3. QED
      BY <1>6, <2>1, <2>2 DEF CheckNonce
  <1>7. CASE EnsureLease(p)
    <2>1. CASE Refuse(p)
      BY <1>7, <2>1 DEF EnsureLease, Refuse, TypeOK, PCs, serverVars, childVars, clientVars
    <2>2. CASE pc' = [pc EXCEPT ![p] = "insert"] /\ UNCHANGED cur
      BY <1>7, <2>2 DEF EnsureLease, TypeOK, PCs, serverVars, childVars, clientVars
    <2>3. QED
      BY <1>7, <2>1, <2>2 DEF EnsureLease
  <1>8. CASE PanicOnId(p)
    BY <1>8 DEF PanicOnId, TypeOK, PCs, parentVars, serverVars, childVars, clientVars
  <1>9. CASE InsertRequested(p)
    <2>1. CASE Refuse(p) /\ UNCHANGED log
      BY <1>9, <2>1 DEF InsertRequested, Refuse, TypeOK, PCs, serverVars, childVars, clientVars
    <2>2. CASE /\ InsertLocalEvent(cur[p], "SEAL_REQUESTED", cur[p], DeviceKey)
               /\ pc' = [pc EXCEPT ![p] = "register"]
               /\ UNCHANGED cur
      <3>1. log' \in Seq(AuditRow)
        BY <1>0, <1>9, <2>2, InsertTypes DEF InsertRequested, TypeOK, AuditRow, ActionStatus
      <3>2. QED
        BY <1>9, <2>2, <3>1 DEF InsertRequested, TypeOK, PCs, AuditRow, serverVars, childVars, clientVars
    <2>3. QED
      BY <1>9, <2>1, <2>2 DEF InsertRequested
  <1>10. CASE Register(p)
    BY <1>0, <1>10 DEF Register, TypeOK, PCs, Call, parentVars, serverVars, childVars, clientVars
  <1>11. CASE Forward(p)
    <2>1. CASE alive[p]
      <3>1. Append(toServer[p], cur[p]) \in Seq(Line)
        BY <1>0, <1>11 DEF Forward, TypeOK, Line
      <3>2. cur[p] \in Call /\ forwards' = [forwards EXCEPT ![cur[p]] = @ + 1]
        BY <1>0, <1>11, <2>1 DEF Forward
      <3>5. forwards' \in [Call -> Nat]
        BY <3>2 DEF TypeOK
      <3>3. toServer' \in [Procs -> Seq(Line)]
        BY <1>11, <2>1, <3>1 DEF Forward, TypeOK
      <3>4. QED
        BY <1>11, <2>1, <3>5, <3>3 DEF Forward, TypeOK, PCs, childVars, clientVars
    <2>2. CASE ~alive[p]
      BY <1>11, <2>2 DEF Forward, TypeOK, PCs, childVars, clientVars
    <2>3. QED
      BY <2>1, <2>2
  <1>12. CASE WriteRefusal(p)
    <2>1. [what |-> "error"] \in Refusal
      BY DEF Refusal
    <2>2. QED
      BY <1>12, <2>1 DEF WriteRefusal, TypeOK, PCs, serverVars, childVars
  <1>13. QED
    BY <1>1, <1>2, <1>3, <1>4, <1>5, <1>6, <1>7, <1>8, <1>9, <1>10, <1>11, <1>12
    DEF ParentRead, ParentStep

LEMMA ServerType ==
    ASSUME TypeOK, NEW p \in Procs, ServerStep(p)
    PROVE  TypeOK'
  <1>1. CASE ServerRead(p)
    <2>1. toServer[p] \in Seq(Line) /\ toServer[p] # <<>>
      BY <1>1 DEF ServerRead, TypeOK
    <2>2. Head(toServer[p]) \in Line /\ Tail(toServer[p]) \in Seq(Line)
      BY <2>1
    <2>3. QED
      BY <1>1, <2>2 DEF ServerRead, TypeOK, parentVars, childVars, clientVars
  <1>2. ASSUME NEW line \in Line, ServerAnswer(p, line)
        PROVE  TypeOK'
    <2>1. PICK failed \in BOOLEAN :
              fromServer' = [fromServer EXCEPT ![p] =
                  Append(@, [id |-> line.id, failed |-> failed, re |-> line])]
      BY <1>2 DEF ServerAnswer
    <2>2. line.id \in CallIds \cup OpenIds
      BY DEF Line, Call, OpenLine
    <2>3. [id |-> line.id, failed |-> failed, re |-> line] \in Message
      BY <2>2 DEF Message
    <2>4. fromServer' \in [Procs -> Seq(Message)]
      BY <2>1, <2>3 DEF TypeOK
    <2>5. QED
      BY <1>2, <2>4 DEF ServerAnswer, TypeOK, parentVars, childVars, clientVars
  <1>3. CASE ServerRequest(p)
    <2>1. PICK id \in ServerIds :
              fromServer' = [fromServer EXCEPT ![p] =
                  Append(@, [id |-> id, failed |-> FALSE, re |-> None])]
      BY <1>3 DEF ServerRequest
    <2>2. [id |-> id, failed |-> FALSE, re |-> None] \in Message
      BY DEF Message
    <2>3. fromServer' \in [Procs -> Seq(Message)]
      BY <2>1, <2>2 DEF TypeOK
    <2>4. QED
      BY <1>3, <2>3 DEF ServerRequest, TypeOK, parentVars, childVars, clientVars
  <1>4. CASE ServerExit(p)
    BY <1>4 DEF ServerExit, TypeOK, parentVars, childVars, clientVars
  <1>5. QED
    BY <1>1, <1>2, <1>3, <1>4 DEF ServerStep

LEMMA ChildType ==
    ASSUME TypeOK, TaskInv, NEW p \in Procs, ChildStep(p) \/ LoseOutput(p)
    PROVE  TypeOK'
  <1>1. CASE TakeMessage(p)
    <2> DEFINE m == Head(fromServer[p])
    <2>1. fromServer[p] \in Seq(Message) /\ fromServer[p] # <<>>
      BY <1>1 DEF TakeMessage, TypeOK
    <2>2. m \in Message /\ Tail(fromServer[p]) \in Seq(Message)
      BY <2>1
    <2> HIDE DEF m
    <2>3. fromServer' \in [Procs -> Seq(Message)] /\ msg' \in [Procs -> Message \cup {None}]
      BY <1>1, <2>2 DEF TakeMessage, TypeOK, m
    <2>4. CASE Pending(p, m.id)
      <3>1. /\ sealing' = [sealing EXCEPT ![p] = pending[p][m.id]]
            /\ pending' = [pending EXCEPT ![p][m.id] = None]
            /\ cpc' = [cpc EXCEPT ![p] = "seal"]
        BY <1>1, <2>4 DEF TakeMessage, m
      <3>2. sealing' \in [Procs -> Call \cup {None}]
        BY <2>4, <3>1 DEF TypeOK, Pending
      <3>3. pending' \in [Procs -> [CallIds -> Call \cup {None}]]
        BY <3>1 DEF TypeOK
      <3>4. cpc' \in [Procs -> ChildPCs]
        BY <3>1 DEF TypeOK, ChildPCs
      <3>5. QED
        BY <1>1, <2>3, <3>2, <3>3, <3>4 DEF TakeMessage, TypeOK, parentVars, clientVars
    <2>5. CASE ~Pending(p, m.id)
      <3>1. cpc' = [cpc EXCEPT ![p] = "relay"] /\ UNCHANGED <<sealing, pending>>
        BY <1>1, <2>5 DEF TakeMessage, m
      <3>2. QED
        BY <1>1, <2>3, <3>1 DEF TakeMessage, TypeOK, ChildPCs, parentVars, clientVars
    <2>6. QED
      BY <2>4, <2>5
  <1>2. CASE SealTerminal(p)
    <2>1. log' \in Seq(AuditRow)
      <3>1. sealing[p] \in Call /\ msg[p] \in Call \cup Message
        BY <1>2 DEF SealTerminal, TaskInv
      <3>2. Outcome(msg[p]) \in ActionStatus
        BY DEF Outcome, ActionStatus, Terminal
      <3>3. QED
        BY <1>2, <3>1, <3>2, InsertTypes DEF SealTerminal, TypeOK, AuditRow
    <2>2. QED
      BY <1>2, <2>1 DEF SealTerminal, TypeOK, AuditRow, ChildPCs, parentVars, serverVars, clientVars
  <1>3. CASE RelayMessage(p)
    <2>1. out' \in [Procs -> Message \cup Refusal \cup {None}]
      BY <1>3 DEF RelayMessage, TaskInv, TypeOK
    <2>2. cpc' \in [Procs -> ChildPCs]
      BY <1>3 DEF RelayMessage, TypeOK, ChildPCs
    <2>3. QED
      BY <1>3, <2>1, <2>2 DEF RelayMessage, TypeOK, parentVars, serverVars, clientVars
  <1>4. CASE EndOfOutput(p) \/ LoseOutput(p)
    BY <1>4 DEF EndOfOutput, LoseOutput, EndTask, TypeOK, ChildPCs, parentVars, serverVars, clientVars
  <1>5. QED
    BY <1>1, <1>2, <1>3, <1>4 DEF ChildStep

LEMMA TypeStep == TypeOK /\ TaskInv /\ [Next]_vars => TypeOK'
  <1> SUFFICES ASSUME TypeOK, TaskInv, [Next]_vars
               PROVE  TypeOK'
    OBVIOUS
  <1>1. ASSUME NEW p \in Procs, ParentRead(p) \/ ParentStep(p)
        PROVE  TypeOK'
    BY <1>1, ParentType
  <1>2. ASSUME NEW p \in Procs, ServerStep(p)
        PROVE  TypeOK'
    BY <1>2, ServerType
  <1>3. ASSUME NEW p \in Procs, ChildStep(p) \/ LoseOutput(p)
        PROVE  TypeOK'
    BY <1>3, ChildType
  <1>4. ASSUME NEW p \in Procs, Crash(p) \/ Exit(p)
        PROVE  TypeOK'
    BY <1>4, HaltType DEF Crash, Exit
  <1>5. ASSUME NEW p \in Procs, Start(p) \/ ClientStep(p)
        PROVE  TypeOK'
    BY <1>5, RelayAssumption DEF Start, ClientStep, TypeOK, parentVars, serverVars, childVars, clientVars
  <1>6. CASE UNCHANGED vars
    BY <1>6 DEF vars, TypeOK, parentVars, serverVars, childVars, clientVars
  <1>7. QED
    BY <1>1, <1>2, <1>3, <1>4, <1>5, <1>6 DEF Next

LEMMA TaskStep == TypeOK /\ TaskInv /\ [Next]_vars => TaskInv'
  <1> SUFFICES ASSUME TypeOK, TaskInv, [Next]_vars
               PROVE  TaskInv'
    OBVIOUS
  <1> USE DEF TypeOK, TaskInv
  <1>1. ASSUME NEW p \in Procs, ParentRead(p)
        PROVE  TaskInv'
    BY <1>1 DEF ParentRead, RejectMalformed, PassThrough, RefuseInFlight, Refuse, AcceptCall, CloseInput,
                Reading, PCs, parentVars, childVars
  <1>2. ASSUME NEW p \in Procs, ParentStep(p)
        PROVE  TaskInv'
    BY <1>2 DEF ParentStep, CheckNonce, EnsureLease, PanicOnId, WriteRefusal, InsertRequested, Register, Forward,
                Refuse, PCs, childVars
  <1>3. ASSUME NEW p \in Procs, ServerStep(p)
        PROVE  TaskInv'
    BY <1>3 DEF ServerStep, ServerRead, ServerAnswer, ServerRequest, ServerExit, parentVars, childVars
  <1>4. ASSUME NEW p \in Procs, TakeMessage(p)
        PROVE  TaskInv'
    <2> DEFINE m == Head(fromServer[p])
    <2>1. m \in Message
      BY <1>4 DEF TakeMessage
    <2> HIDE DEF m
    <2>2. CASE Pending(p, m.id)
      BY <1>4, <2>1, <2>2 DEF TakeMessage, Pending, m, parentVars, ChildPCs
    <2>3. CASE ~Pending(p, m.id)
      BY <1>4, <2>1, <2>3 DEF TakeMessage, m, parentVars, ChildPCs
    <2>4. QED
      BY <2>2, <2>3
  <1>5. ASSUME NEW p \in Procs, SealTerminal(p) \/ RelayMessage(p) \/ EndTask(p)
        PROVE  TaskInv'
    BY <1>5 DEF SealTerminal, RelayMessage, EndTask, parentVars, ChildPCs
  <1>6. ASSUME NEW p \in Procs, Halt(p)
        PROVE  TaskInv'
    BY <1>6 DEF Halt
  <1>7. ASSUME NEW p \in Procs, Start(p) \/ ClientStep(p)
        PROVE  TaskInv'
    BY <1>7 DEF Start, ClientStep, parentVars, childVars
  <1>8. CASE UNCHANGED vars
    BY <1>8 DEF vars, parentVars, childVars
  <1>9. QED
    BY <1>1, <1>2, <1>3, <1>4, <1>5, <1>6, <1>7, <1>8 DEF Next, ChildStep, EndOfOutput, LoseOutput, Crash, Exit

THEOREM TypeCorrect == Spec => [](TypeOK /\ TaskInv)
  <1>1. Init => TypeOK /\ TaskInv
    BY InitType DEF Init, TaskInv
  <1>2. TypeOK /\ TaskInv /\ [Next]_vars => (TypeOK /\ TaskInv)'
    BY TypeStep, TaskStep
  <1>3. QED
    BY <1>1, <1>2, PTL DEF Spec

-----------------------------------------------------------------------------
(* Which steps touch what the safety invariants speak of. *)

LEMMA ServerFrame ==
    ASSUME NEW p \in Procs, ServerStep(p)
    PROVE  UNCHANGED <<log, pc, cur, pending, sealing, forwards>>
  BY DEF ServerStep, ServerRead, ServerAnswer, ServerRequest, ServerExit, parentVars, childVars

LEMMA ReadFrame ==
    ASSUME TypeOK, NEW p \in Procs, ParentRead(p)
    PROVE  /\ UNCHANGED <<log, pending, sealing, forwards>>
           /\ \A q \in Procs : q # p => pc'[q] = pc[q] /\ cur'[q] = cur[q]
           /\ pc[p] = "read" /\ pc'[p] \in {"read", "nonce", "refuse", "done"}
  BY DEF ParentRead, RejectMalformed, PassThrough, RefuseInFlight, Refuse, AcceptCall, CloseInput,
         Reading, TypeOK, parentVars, childVars

LEMMA HaltFrame ==
    ASSUME TypeOK, NEW p \in Procs, Halt(p)
    PROVE  /\ UNCHANGED <<log, forwards>>
           /\ \A q \in Procs : q # p =>
                 /\ pc'[q] = pc[q] /\ cur'[q] = cur[q]
                 /\ pending'[q] = pending[q] /\ sealing'[q] = sealing[q]
           /\ pc'[p] = "read" /\ cur'[p] = None
           /\ pending'[p] = NoPending /\ sealing'[p] = None
  BY DEF Halt, TypeOK

(* The steps between read_line and the INSERT only move the parent task.    *)
LEMMA BeforeInsertFrame ==
    ASSUME TypeOK, NEW p \in Procs, CheckNonce(p) \/ EnsureLease(p) \/ PanicOnId(p)
                                     \/ WriteRefusal(p)
    PROVE  /\ UNCHANGED <<log, pending, sealing, forwards>>
           /\ \A q \in Procs : q # p => pc'[q] = pc[q] /\ cur'[q] = cur[q]
           /\ ~Recorded(p) /\ ~Recorded(p)'
  BY DEF CheckNonce, EnsureLease, PanicOnId, WriteRefusal, Refuse, Recorded, TypeOK, PCs, serverVars, childVars

(* An INSERT of SEAL_REQUESTED succeeds for a new call, or nothing happens  *)
(* but that the line is dropped.                                            *)
LEMMA InsertFrame ==
    ASSUME TypeOK, TaskInv, NEW p \in Procs, InsertRequested(p)
    PROVE  /\ UNCHANGED <<pending, sealing, forwards>>
           /\ \A q \in Procs : q # p => pc'[q] = pc[q] /\ cur'[q] = cur[q]
           /\ pc[p] = "insert" /\ cur[p] \in Call
           /\ \/ /\ InsertLocalEvent(cur[p], "SEAL_REQUESTED", cur[p], DeviceKey)
                 /\ pc'[p] = "register" /\ cur'[p] = cur[p]
              \/ pc'[p] = "refuse" /\ UNCHANGED log
  <1>1. pc[p] = "insert" /\ cur[p] \in Call /\ UNCHANGED <<pending, sealing, forwards>>
    BY DEF InsertRequested, TaskInv, serverVars, childVars
  <1>2. CASE /\ InsertLocalEvent(cur[p], "SEAL_REQUESTED", cur[p], DeviceKey)
             /\ pc' = [pc EXCEPT ![p] = "register"]
             /\ UNCHANGED cur
    BY <1>1, <1>2 DEF TypeOK
  <1>3. CASE Refuse(p) /\ UNCHANGED log
    BY <1>1, <1>3 DEF Refuse, TypeOK
  <1>4. QED
    BY <1>2, <1>3 DEF InsertRequested

LEMMA OnceStep == TypeOK /\ TaskInv /\ OnceInv /\ [Next]_vars => OnceInv'
  <1> SUFFICES ASSUME TypeOK, TaskInv, OnceInv, [Next]_vars
               PROVE  OnceInv'
    OBVIOUS
  <1>0. ASSUME UNCHANGED log
        PROVE  \A c, s : HasRow(c, s)' <=> HasRow(c, s)
    BY <1>0 DEF HasRow, Rows
  <1>1. ASSUME NEW p \in Procs, ParentRead(p)
        PROVE  OnceInv'
    BY <1>0, <1>1, ReadFrame DEF OnceInv, Recorded
  <1>2. ASSUME NEW p \in Procs, CheckNonce(p) \/ EnsureLease(p) \/ PanicOnId(p)
                                 \/ WriteRefusal(p)
        PROVE  OnceInv'
    BY <1>0, <1>2, BeforeInsertFrame DEF OnceInv, Recorded
  <1>3. ASSUME NEW p \in Procs, InsertRequested(p)
        PROVE  OnceInv'
    <2>1. CASE pc'[p] = "refuse" /\ UNCHANGED log
      BY <1>0, <1>3, <2>1, InsertFrame DEF OnceInv, Recorded
    <2>2. CASE /\ InsertLocalEvent(cur[p], "SEAL_REQUESTED", cur[p], DeviceKey)
               /\ pc'[p] = "register" /\ cur'[p] = cur[p]
      <3>1. cur[p] \in Call /\ ~HasRow(cur[p], "SEAL_REQUESTED")
        BY <1>3, <2>2, InsertFrame, InsertRows DEF TypeOK
      <3>2. \A c, s : HasRow(c, s)' <=> HasRow(c, s) \/ (c = cur[p] /\ s = "SEAL_REQUESTED")
        BY <2>2, InsertRows DEF TypeOK
      <3>3. forwards[cur[p]] = 0
        BY <3>1 DEF OnceInv, TypeOK
      <3>4. \A q \in Procs : Recorded(q) => cur[q] # cur[p]
        BY <3>1 DEF OnceInv
      <3>5. forwards' = forwards /\ \A q \in Procs : q # p => pc'[q] = pc[q] /\ cur'[q] = cur[q]
        BY <1>3, InsertFrame
      <3>6. \A q \in Procs : Recorded(q)' => HasRow(cur[q], "SEAL_REQUESTED")' /\ forwards'[cur'[q]] = 0
        BY <2>2, <3>2, <3>3, <3>5 DEF OnceInv, Recorded
      <3>7. \A q, r \in Procs : Recorded(q)' /\ Recorded(r)' /\ cur'[q] = cur'[r] => q = r
        BY <2>2, <3>4, <3>5 DEF OnceInv, Recorded
      <3>8. QED
        BY <3>2, <3>5, <3>6, <3>7 DEF OnceInv, HasRow
    <2>3. QED
      BY <1>3, <2>1, <2>2, InsertFrame
  <1>4. ASSUME NEW p \in Procs, Register(p)
        PROVE  OnceInv'
    BY <1>0, <1>4 DEF Register, OnceInv, Recorded, TypeOK, childVars
  <1>5. ASSUME NEW p \in Procs, Forward(p)
        PROVE  OnceInv'
    <2>1. Recorded(p) /\ cur[p] \in Call /\ UNCHANGED log /\ ~Recorded(p)'
      BY <1>5 DEF Forward, Recorded, TaskInv, TypeOK
    <2>2. \A q \in Procs : q # p => pc'[q] = pc[q] /\ cur'[q] = cur[q]
      BY <1>5 DEF Forward, TypeOK
    <2>3. \A c \in Call : c # cur[p] => forwards'[c] = forwards[c]
      BY <1>5 DEF Forward, TypeOK
    <2>4. forwards'[cur[p]] \in {0, 1} /\ HasRow(cur[p], "SEAL_REQUESTED")
      BY <1>5, <2>1 DEF Forward, OnceInv, TypeOK
    <2>5. \A q \in Procs : Recorded(q)' => q # p /\ Recorded(q) /\ cur'[q] = cur[q] /\ cur[q] # cur[p]
      BY <2>1, <2>2 DEF OnceInv, Recorded
    <2>6. \A q \in Procs : Recorded(q) => cur[q] \in Call
      BY DEF Recorded, TaskInv
    <2>7. \A q \in Procs : Recorded(q)' => HasRow(cur[q], "SEAL_REQUESTED")' /\ forwards'[cur'[q]] = 0
      BY <1>0, <2>1, <2>3, <2>5, <2>6 DEF OnceInv, HasRow
    <2>8. \A q, r \in Procs : Recorded(q)' /\ Recorded(r)' /\ cur'[q] = cur'[r] => q = r
      BY <2>5 DEF OnceInv
    <2>9. \A c \in Call : /\ forwards'[c] > 0 => HasRow(c, "SEAL_REQUESTED")'
                          /\ forwards'[c] <= 1
      BY <1>0, <2>1, <2>3, <2>4 DEF OnceInv
    <2>10. QED
      BY <2>7, <2>8, <2>9 DEF OnceInv
  <1>6. ASSUME NEW p \in Procs, ServerStep(p)
        PROVE  OnceInv'
    BY <1>0, <1>6, ServerFrame DEF OnceInv, Recorded
  <1>7. ASSUME NEW p \in Procs, TakeMessage(p) \/ RelayMessage(p) \/ EndTask(p)
        PROVE  OnceInv'
    BY <1>0, <1>7 DEF TakeMessage, RelayMessage, EndTask, OnceInv, Recorded, parentVars
  <1>8. ASSUME NEW p \in Procs, SealTerminal(p)
        PROVE  OnceInv'
    <2>1. \A c, s : HasRow(c, s) => HasRow(c, s)'
      BY <1>8, InsertRows DEF SealTerminal, TypeOK
    <2>2. UNCHANGED <<pc, cur, forwards>>
      BY <1>8 DEF SealTerminal, parentVars
    <2>3. QED
      BY <2>1, <2>2 DEF OnceInv, Recorded, HasRow
  <1>9. ASSUME NEW p \in Procs, Halt(p)
        PROVE  OnceInv'
    BY <1>0, <1>9, HaltFrame DEF OnceInv, Recorded
  <1>10. ASSUME NEW p \in Procs, Start(p) \/ ClientStep(p)
        PROVE  OnceInv'
    BY <1>0, <1>10 DEF Start, ClientStep, OnceInv, Recorded, parentVars
  <1>11. CASE UNCHANGED vars
    BY <1>0, <1>11 DEF vars, OnceInv, Recorded, parentVars
  <1>12. QED
    BY <1>1, <1>2, <1>3, <1>4, <1>5, <1>6, <1>7, <1>8, <1>9, <1>10, <1>11
    DEF Next, ParentStep, ChildStep, EndOfOutput, LoseOutput, Crash, Exit

THEOREM OnceCorrect == Spec => []OnceInv
  <1>1. Init => OnceInv
    BY DEF Init, OnceInv, Recorded
  <1>2. TypeOK /\ TaskInv /\ OnceInv /\ [Next]_vars => OnceInv'
    BY OnceStep
  <1>3. QED
    BY <1>1, <1>2, TypeCorrect, PTL DEF Spec

(* No call is handed to a server twice. *)
THEOREM AtMostOnceCorrect == Spec => []AtMostOnce
  <1>1. OnceInv => AtMostOnce
    BY DEF OnceInv, AtMostOnce
  <1>2. QED
    BY <1>1, OnceCorrect, PTL

(* No call is handed to a server that is not on disk. *)
THEOREM ForwardedIsRecordedCorrect == Spec => []ForwardedIsRecorded
  <1>1. OnceInv => ForwardedIsRecorded
    BY DEF OnceInv, ForwardedIsRecorded
  <1>2. QED
    BY <1>1, OnceCorrect, PTL

-----------------------------------------------------------------------------
(* The contract of the log *)

LEMMA NotNone == \A c \in Call : c # None
  BY NoneAssumption DEF Line

(* A step that leaves the log alone and adds nothing to what is awaited.    *)
LEMMA AwaitShrinks ==
    ASSUME AwaitInv, UNCHANGED log,
           \A q \in Procs, i \in CallIds : pending'[q][i] \in {pending[q][i], None},
           \A q \in Procs : sealing'[q] \in {sealing[q], None},
           \A q \in Procs : pc'[q] = "register" => pc[q] = "register" /\ cur'[q] = cur[q]
    PROVE  AwaitInv'
  <1>1. \A c, s : HasRow(c, s)' <=> HasRow(c, s)
    BY DEF HasRow, Rows
  <1>2. \A c : HasTerminal(c)' <=> HasTerminal(c)
    BY DEF HasTerminal, Rows
  <1>3. \A c \in Call : c # None /\ c.id \in CallIds
    BY NotNone DEF Call
  <1>4. \A q \in Procs, c \in Call :
            /\ Registering(q, c)' => Registering(q, c)
            /\ pending'[q][c.id] = c => pending[q][c.id] = c
            /\ sealing'[q] = c => sealing[q] = c
    BY <1>3 DEF Registering
  <1>5. \A q \in Procs, c \in Call : Awaits(q, c)' => Awaits(q, c)
    BY <1>4 DEF Awaits
  <1>6. \A q \in Procs, i \in CallIds : pending'[q][i] # None => pending'[q][i].id = i
    BY DEF AwaitInv
  <1>7. QED
    BY <1>1, <1>2, <1>4, <1>5, <1>6 DEF AwaitInv

(* The row of a new call: this process awaits it, and nobody else does.     *)
LEMMA AwaitInsert ==
    ASSUME TypeOK, AwaitInv, NEW p \in Procs, cur[p] \in Call,
           InsertLocalEvent(cur[p], "SEAL_REQUESTED", cur[p], DeviceKey),
           pc[p] # "register", pc'[p] = "register", cur'[p] = cur[p],
           \A q \in Procs : q # p => pc'[q] = pc[q] /\ cur'[q] = cur[q],
           UNCHANGED <<pending, sealing>>
    PROVE  AwaitInv'
  <1>1. ~HasRow(cur[p], "SEAL_REQUESTED")
    BY InsertRows DEF TypeOK
  <1>2. \A c, s : HasRow(c, s)' <=> HasRow(c, s) \/ (c = cur[p] /\ s = "SEAL_REQUESTED")
    BY InsertRows DEF TypeOK
  <1>3. \A c : HasTerminal(c)' <=> HasTerminal(c)
    <2>1. \A c : HasTerminal(c)' <=>
            HasTerminal(c) \/ (c = cur[p] /\ "SEAL_REQUESTED" \in Terminal)
      BY InsertRows DEF TypeOK
    <2>2. QED
      BY <2>1 DEF Terminal
  <1>4. \A q \in Procs : ~Awaits(q, cur[p]) /\ ~HasTerminal(cur[p])
    BY <1>1 DEF AwaitInv
  <1>5. \A q \in Procs, c \in Call : Registering(q, c)' <=> Registering(q, c) \/ (q = p /\ c = cur[p])
    BY DEF Registering
  <1>6. \A q \in Procs, c \in Call : Awaits(q, c)' <=> Awaits(q, c) \/ (q = p /\ c = cur[p])
    BY <1>5 DEF Awaits
  <1>7. \A q \in Procs, c \in Call : Awaits(q, c)' => HasRow(c, "SEAL_REQUESTED")' /\ ~HasTerminal(c)'
    BY <1>2, <1>3, <1>4, <1>6 DEF AwaitInv
  <1>8. \A q, r \in Procs, c \in Call : Awaits(q, c)' /\ Awaits(r, c)' => q = r
    BY <1>4, <1>6 DEF AwaitInv
  <1>9. \A q \in Procs, c \in Call : Registering(q, c)' => pending[q][c.id] # c /\ sealing[q] # c
    BY <1>4, <1>5 DEF AwaitInv, Awaits
  <1>10. \A c \in Call : HasTerminal(c)' => HasRow(c, "SEAL_REQUESTED")'
    BY <1>2, <1>3 DEF AwaitInv
  <1>11. QED
    BY <1>7, <1>8, <1>9, <1>10 DEF AwaitInv

(* The terminal row of the call whose outcome the child task has taken.     *)
LEMMA AwaitSeal ==
    ASSUME TypeOK, TaskInv, AwaitInv, NEW p \in Procs, SealTerminal(p)
    PROVE  /\ AwaitInv'
           /\ sealing[p] \in Call /\ HasRow(sealing[p], "SEAL_REQUESTED") /\ ~HasTerminal(sealing[p])
  <1> DEFINE s == Outcome(msg[p])
  <1>0. PICK n \in Call : n = sealing[p]
    BY DEF SealTerminal, TaskInv
  <1>1. /\ InsertLocalEvent(n, s, msg[p], DeviceKey)
        /\ UNCHANGED <<pc, cur, pending>> /\ sealing' = [sealing EXCEPT ![p] = None]
    BY <1>0 DEF SealTerminal, parentVars
  <1>2. Awaits(p, n) /\ HasRow(n, "SEAL_REQUESTED") /\ ~HasTerminal(n)
    BY <1>0 DEF Awaits, AwaitInv
  <1>3. s \in Terminal /\ s # "SEAL_REQUESTED"
    BY DEF Outcome, Terminal
  <1> HIDE DEF s
  <1>4. \A c, t : HasRow(c, t)' <=> HasRow(c, t) \/ (c = n /\ t = s)
    BY <1>1, InsertRows DEF TypeOK
  <1>5. \A c : HasTerminal(c)' <=> HasTerminal(c) \/ c = n
    BY <1>1, <1>3, InsertRows DEF TypeOK
  <1>6. sealing'[p] = None /\ \A q \in Procs : q # p => sealing'[q] = sealing[q]
    BY <1>1 DEF TypeOK
  <1>7. \A q \in Procs, c \in Call : Registering(q, c)' <=> Registering(q, c)
    BY <1>1 DEF Registering
  <1>8. \A q \in Procs, c \in Call : Awaits(q, c)' => Awaits(q, c) /\ c # n
    <2>1. \A q \in Procs, c \in Call : Awaits(q, c)' => Awaits(q, c)
      BY <1>1, <1>6, <1>7, NotNone DEF Awaits
    <2>2. ~Awaits(p, n)'
      BY <1>1, <1>6, <1>7, <1>0, NotNone DEF Awaits, AwaitInv
    <2>3. \A q \in Procs : Awaits(q, n) => q = p
      BY <1>1, <1>2 DEF AwaitInv
    <2>4. QED
      BY <1>1, <2>1, <2>2, <2>3
  <1>9. \A q \in Procs, c \in Call : Awaits(q, c)' => HasRow(c, "SEAL_REQUESTED")' /\ ~HasTerminal(c)'
    BY <1>4, <1>5, <1>8 DEF AwaitInv
  <1>10. \A q \in Procs, c \in Call :
            /\ ~(pending[q][c.id] = c /\ sealing'[q] = c)
            /\ Registering(q, c)' => pending[q][c.id] # c /\ sealing'[q] # c
    BY <1>6, <1>7, NotNone DEF AwaitInv
  <1>11. \A c \in Call : HasTerminal(c)' => HasRow(c, "SEAL_REQUESTED")'
    BY <1>2, <1>4, <1>5 DEF AwaitInv
  <1>12. AwaitInv'
    BY <1>1, <1>8, <1>9, <1>10, <1>11 DEF AwaitInv
  <1>13. QED
    BY <1>0, <1>2, <1>12
(* The call moves from the parent task to pending_calls.                    *)
LEMMA AwaitRegister ==
    ASSUME TypeOK, TaskInv, AwaitInv, NEW p \in Procs, Register(p)
    PROVE  AwaitInv'
  <1>0. PICK n \in Call : n = cur[p]
    BY DEF Register, TaskInv
  <1>1. /\ Registering(p, n) /\ n.id \in CallIds
        /\ UNCHANGED <<log, cur, sealing>>
        /\ pending' = [pending EXCEPT ![p][n.id] = n]
        /\ pc' = [pc EXCEPT ![p] = "forward"]
    BY <1>0 DEF Register, Registering, Call, childVars
  <1>2. /\ pending'[p][n.id] = n
        /\ \A q \in Procs, i \in CallIds : (q # p \/ i # n.id) => pending'[q][i] = pending[q][i]
    BY <1>1 DEF TypeOK
  <1>3. pc'[p] = "forward" /\ \A q \in Procs : q # p => pc'[q] = pc[q]
    BY <1>1 DEF TypeOK
  <1>4. (\A c, s : HasRow(c, s)' <=> HasRow(c, s)) /\ (\A c : HasTerminal(c)' <=> HasTerminal(c))
    BY <1>1 DEF HasRow, HasTerminal, Rows
  <1>5. \A q \in Procs, c \in Call : Registering(q, c)' => Registering(q, c) /\ q # p
    BY <1>1, <1>3 DEF Registering
  <1>6. \A c \in Call : c.id \in CallIds
    BY DEF Call
  <1>7. \A q \in Procs, c \in Call :
            pending'[q][c.id] = c => pending[q][c.id] = c \/ (q = p /\ c = n)
    BY <1>2, <1>6
  <1>8. \A q \in Procs, c \in Call : Awaits(q, c)' => Awaits(q, c)
    BY <1>1, <1>5, <1>7 DEF Awaits
  <1>9. \A q \in Procs, i \in CallIds : pending'[q][i] # None => pending'[q][i].id = i
    BY <1>2 DEF AwaitInv
  <1>10. \A q \in Procs, c \in Call :
            /\ ~(pending'[q][c.id] = c /\ sealing'[q] = c)
            /\ Registering(q, c)' => pending'[q][c.id] # c /\ sealing'[q] # c
    <2>1. sealing[p] # n
      BY <1>1 DEF AwaitInv
    <2>2. \A q \in Procs, c \in Call : Registering(q, c)' => ~(q = p /\ c = n)
      BY <1>5
    <2>3. QED
      BY <1>1, <1>5, <1>7, <2>1, <2>2 DEF AwaitInv
  <1>11. QED
    BY <1>4, <1>8, <1>9, <1>10 DEF AwaitInv

(* ... and from there to the child task.                                    *)
LEMMA AwaitTake ==
    ASSUME TypeOK, TaskInv, AwaitInv, NEW p \in Procs, TakeMessage(p)
    PROVE  AwaitInv'
  <1>0. PICK m : m = Head(fromServer[p])
    OBVIOUS
  <1>1. UNCHANGED <<log, pc, cur>>
    BY DEF TakeMessage, parentVars
  <1>2. CASE ~Pending(p, m.id)
    <2>1. UNCHANGED <<sealing, pending>>
      BY <1>0, <1>2 DEF TakeMessage
    <2>2. QED
      BY <1>1, <2>1, AwaitShrinks
  <1>3. CASE Pending(p, m.id)
    <2>0. PICK n \in Call : n = pending[p][m.id]
      BY <1>3 DEF Pending, TypeOK
    <2>1. /\ sealing' = [sealing EXCEPT ![p] = n]
          /\ pending' = [pending EXCEPT ![p][m.id] = None]
          /\ m.id \in CallIds /\ n.id = m.id
      BY <1>0, <1>3, <2>0 DEF TakeMessage, Pending, AwaitInv
    <2>2. Awaits(p, n) /\ pending[p][n.id] = n /\ ~Registering(p, n)
      BY <2>0, <2>1 DEF Awaits, AwaitInv
    <2>3. sealing'[p] = n /\ \A q \in Procs : q # p => sealing'[q] = sealing[q]
      BY <2>1 DEF TypeOK
    <2>4. /\ pending'[p][n.id] = None
          /\ \A q \in Procs, i \in CallIds : (q # p \/ i # n.id) => pending'[q][i] = pending[q][i]
      BY <2>1 DEF TypeOK
    <2>5. (\A c, s : HasRow(c, s)' <=> HasRow(c, s)) /\ (\A c : HasTerminal(c)' <=> HasTerminal(c))
      BY <1>1 DEF HasRow, HasTerminal, Rows
    <2>6. \A q \in Procs, c \in Call : Registering(q, c)' <=> Registering(q, c)
      BY <1>1 DEF Registering
    <2>7. \A c \in Call : c # None /\ c.id \in CallIds
      BY NotNone DEF Call
    <2>8. \A q \in Procs, c \in Call :
              /\ pending'[q][c.id] = c => pending[q][c.id] = c /\ ~(q = p /\ c = n)
              /\ sealing'[q] = c => sealing[q] = c \/ (q = p /\ c = n)
      BY <2>3, <2>4, <2>7
    <2>9. \A q \in Procs, c \in Call : Awaits(q, c)' => Awaits(q, c)
      BY <2>2, <2>6, <2>8 DEF Awaits
    <2>10. \A q \in Procs, i \in CallIds : pending'[q][i] # None => pending'[q][i].id = i
      BY <2>4 DEF AwaitInv
    <2>11. \A q \in Procs, c \in Call :
              /\ ~(pending'[q][c.id] = c /\ sealing'[q] = c)
              /\ Registering(q, c)' => pending'[q][c.id] # c /\ sealing'[q] # c
      <3>1. \A q \in Procs, c \in Call : Registering(q, c) => ~(q = p /\ c = n)
        BY <2>2
      <3>2. QED
        BY <2>6, <2>8, <3>1 DEF AwaitInv
    <2>12. QED
      BY <2>5, <2>9, <2>10, <2>11 DEF AwaitInv
  <1>4. QED
    BY <1>2, <1>3

LEMMA AwaitStep == TypeOK /\ TaskInv /\ AwaitInv /\ [Next]_vars => AwaitInv'
  <1> SUFFICES ASSUME TypeOK, TaskInv, AwaitInv, [Next]_vars
               PROVE  AwaitInv'
    OBVIOUS
  <1>1. ASSUME NEW p \in Procs, ParentRead(p)
        PROVE  AwaitInv'
    BY <1>1, ReadFrame, AwaitShrinks
  <1>2. ASSUME NEW p \in Procs, CheckNonce(p) \/ EnsureLease(p) \/ PanicOnId(p)
                                 \/ WriteRefusal(p)
        PROVE  AwaitInv'
    BY <1>2, BeforeInsertFrame, AwaitShrinks DEF Recorded
  <1>3. ASSUME NEW p \in Procs, InsertRequested(p)
        PROVE  AwaitInv'
    <2>1. CASE pc'[p] = "refuse" /\ UNCHANGED log
      BY <1>3, <2>1, InsertFrame, AwaitShrinks
    <2>2. CASE /\ InsertLocalEvent(cur[p], "SEAL_REQUESTED", cur[p], DeviceKey)
               /\ pc'[p] = "register" /\ cur'[p] = cur[p]
      BY <1>3, <2>2, InsertFrame, AwaitInsert
    <2>3. QED
      BY <1>3, <2>1, <2>2, InsertFrame
  <1>4. ASSUME NEW p \in Procs, Register(p)
        PROVE  AwaitInv'
    BY <1>4, AwaitRegister
  <1>5. ASSUME NEW p \in Procs, Forward(p)
        PROVE  AwaitInv'
    <2>1. UNCHANGED <<log, pending, sealing>>
      BY <1>5 DEF Forward, childVars
    <2>2. \A q \in Procs : pc'[q] = "register" => pc[q] = "register" /\ cur'[q] = cur[q]
      BY <1>5 DEF Forward, TypeOK
    <2>3. QED
      BY <2>1, <2>2, AwaitShrinks
  <1>6. ASSUME NEW p \in Procs, ServerStep(p)
        PROVE  AwaitInv'
    BY <1>6, ServerFrame, AwaitShrinks
  <1>7. ASSUME NEW p \in Procs, TakeMessage(p)
        PROVE  AwaitInv'
    BY <1>7, AwaitTake
  <1>8. ASSUME NEW p \in Procs, SealTerminal(p)
        PROVE  AwaitInv'
    BY <1>8, AwaitSeal
  <1>9. ASSUME NEW p \in Procs, RelayMessage(p) \/ EndTask(p) \/ Start(p) \/ ClientStep(p)
        PROVE  AwaitInv'
    <2>1. UNCHANGED <<log, pc, cur, pending, sealing>>
      BY <1>9 DEF RelayMessage, EndTask, Start, ClientStep, parentVars, childVars
    <2>2. QED
      BY <2>1, AwaitShrinks
  <1>10. ASSUME NEW p \in Procs, Halt(p)
         PROVE  AwaitInv'
    BY <1>10, HaltFrame, AwaitShrinks DEF NoPending
  <1>11. CASE UNCHANGED vars
    BY <1>11, AwaitShrinks DEF vars, parentVars, childVars
  <1>12. QED
    BY <1>1, <1>2, <1>3, <1>4, <1>5, <1>6, <1>7, <1>8, <1>9, <1>10, <1>11
    DEF Next, ParentStep, ChildStep, EndOfOutput, LoseOutput, Crash, Exit

THEOREM AwaitCorrect == Spec => []AwaitInv
  <1>1. Init => AwaitInv
    BY NotNone DEF Init, AwaitInv, Awaits, Registering, NoPending, HasTerminal, Rows, Call
  <1>2. TypeOK /\ TaskInv /\ AwaitInv /\ [Next]_vars => AwaitInv'
    BY AwaitStep
  <1>3. QED
    BY <1>1, <1>2, TypeCorrect, PTL DEF Spec

(* Of a call that has any row at all the first is its SEAL_REQUESTED.       *)
LEMMA FirstIsRequested ==
    ASSUME TypeOK, AwaitInv, NEW c \in Call, HasNonce(c)
    PROVE  HasRow(c, "SEAL_REQUESTED")
  <1>1. PICK r \in Rows : r.nonce = c
    BY DEF HasNonce
  <1>2. r.status \in ActionStatus
    <2>1. PICK i \in DOMAIN log : r = log[i]
      BY DEF Rows
    <2>2. r \in Row(Call, Call \cup Message, {DeviceKey})
      BY <2>1 DEF TypeOK
    <2>3. QED
      BY <2>2 DEF Row
  <1>3. CASE r.status = "SEAL_REQUESTED"
    BY <1>1, <1>3 DEF HasRow
  <1>4. CASE r.status \in Terminal
    BY <1>1, <1>4 DEF HasTerminal, AwaitInv
  <1>5. QED
    BY <1>2, <1>3, <1>4 DEF ActionStatus

(* A successful INSERT is a step of the abstract log.                       *)
LEMMA InsertIsRecord ==
    ASSUME NEW n \in Call, NEW s \in ActionStatus, NEW m \in Call \cup Message,
           TypeOK, InsertLocalEvent(n, s, m, DeviceKey),
           IF s = "SEAL_REQUESTED" THEN ~HasNonce(n)
           ELSE HasRow(n, "SEAL_REQUESTED") /\ ~HasTerminal(n)
    PROVE  Contract!AuditNext
  <1>1. PICK t \in Stamps(n) :
            log' = Append(log, [nonce |-> n, status |-> s, payload |-> m,
                                ts |-> t, key |-> DeviceKey])
    BY DEF InsertLocalEvent
  <1> DEFINE r == [nonce |-> n, status |-> s, payload |-> m, ts |-> t, key |-> DeviceKey]
  <1>2. r \in Row(Call, Call \cup Message, {DeviceKey})
    BY DEF Stamps, Row
  <1>3. r.nonce = n /\ r.status = s /\ r.ts = t /\ log' = Append(log, r)
    BY <1>1
  <1> HIDE DEF r
  <1>4. Contract!Record(r)
    BY <1>3 DEF Contract!Record, HasRow, HasNonce, HasTerminal, Stamps, Contract!HasRow,
       Contract!HasNonce, Contract!HasTerminal, Contract!Stamps, Rows, Contract!Rows,
       Terminal, Contract!Terminal
  <1>5. QED
    BY <1>2, <1>4 DEF Contract!AuditNext, Contract!Row, Row, Contract!ActionStatus,
       ActionStatus, Contract!Terminal, Terminal

LEMMA LogStep == TypeOK /\ TaskInv /\ AwaitInv /\ [Next]_vars => [Contract!AuditNext]_log
  <1> SUFFICES ASSUME TypeOK, TaskInv, AwaitInv, [Next]_vars
               PROVE  Contract!AuditNext \/ UNCHANGED log
    OBVIOUS
  <1>1. ASSUME NEW p \in Procs, InsertRequested(p), log' # log
        PROVE  Contract!AuditNext
    <2>1. cur[p] \in Call /\ InsertLocalEvent(cur[p], "SEAL_REQUESTED", cur[p], DeviceKey)
      BY <1>1, InsertFrame
    <2>2. ~HasNonce(cur[p])
      BY <2>1, FirstIsRequested DEF InsertLocalEvent
    <2>3. QED
      BY <2>1, <2>2, InsertIsRecord DEF ActionStatus
  <1>2. ASSUME NEW p \in Procs, SealTerminal(p)
        PROVE  Contract!AuditNext
    <2>1. PICK n \in Call, s \in ActionStatus :
              n = sealing[p] /\ s = Outcome(msg[p]) /\ s # "SEAL_REQUESTED"
      BY <1>2, AwaitSeal DEF Outcome, ActionStatus, Terminal
    <2>2. HasRow(n, "SEAL_REQUESTED") /\ ~HasTerminal(n)
      BY <1>2, <2>1, AwaitSeal
    <2>3. InsertLocalEvent(n, s, msg[p], DeviceKey) /\ msg[p] \in Message
      BY <1>2, <2>1 DEF SealTerminal, TaskInv
    <2>4. QED
      BY <2>1, <2>2, <2>3, InsertIsRecord
  <1>3. ASSUME NEW p \in Procs,
               \/ ParentRead(p) \/ CheckNonce(p) \/ EnsureLease(p) \/ PanicOnId(p)
               \/ WriteRefusal(p) \/ Register(p) \/ Forward(p) \/ ServerStep(p) \/ TakeMessage(p)
               \/ RelayMessage(p) \/ EndTask(p) \/ Halt(p) \/ Start(p) \/ ClientStep(p)
        PROVE  UNCHANGED log
    BY <1>3, ReadFrame, BeforeInsertFrame, ServerFrame, HaltFrame
    DEF Register, Forward, TakeMessage, RelayMessage, EndTask, Start, ClientStep
  <1>4. CASE UNCHANGED vars
    BY <1>4 DEF vars
  <1>5. QED
    BY <1>1, <1>2, <1>3, <1>4 DEF Next, ParentStep, ChildStep, EndOfOutput, LoseOutput, Crash, Exit

(* However many processes share the log and wherever they stop, it starts   *)
(* every call with SEAL_REQUESTED and ends it with one terminal row.        *)
THEOREM ContractCorrect == Spec => ContractSpec
  <1>1. Init => Contract!AuditInit
    BY DEF Init, Contract!AuditInit
  <1>2. TypeOK /\ TaskInv /\ AwaitInv /\ [Next]_vars => [Contract!AuditNext]_log
    BY LogStep
  <1>3. QED
    BY <1>1, <1>2, TypeCorrect, AwaitCorrect, PTL DEF Spec, ContractSpec, Contract!AuditSpec

-----------------------------------------------------------------------------
(* The outcome of a call.  Between the parent task and the child task one   *)
(* line or message at most carries the id of a pending call, and it is of   *)
(* that call; this needs that no other line has such an id.                 *)

DistinctIds == (ServerIds \cup OpenIds) \cap CallIds = {}

(* No line or message in the pipes or at the server has the id.             *)
Free(i, to, srv, from) ==
    /\ \A k \in 1..Len(to) : to[k].id # i
    /\ \A line \in srv : line.id # i
    /\ \A k \in 1..Len(from) : from[k].id # i

(* What has the id of a call is of the call that is pending under it...     *)
OfPending(to, srv, from, pend) ==
    /\ \A k \in 1..Len(to) : to[k].id \in CallIds => to[k] = pend[to[k].id]
    /\ \A line \in srv : line.id \in CallIds => line = pend[line.id]
    /\ \A k \in 1..Len(from) :
          /\ from[k].id \in CallIds => from[k].re \in Call /\ from[k].re = pend[from[k].id]
          /\ from[k].re \in Call => from[k].id = from[k].re.id

(* ... and there is one such line or message at most.                       *)
OneForId(to, srv, from) ==
    /\ \A k, l \in 1..Len(to) : to[k].id \in CallIds /\ to[k].id = to[l].id => k = l
    /\ \A k, l \in 1..Len(from) : from[k].id \in CallIds /\ from[k].id = from[l].id => k = l
    /\ \A k \in 1..Len(to), line \in srv : to[k].id \in CallIds => to[k].id # line.id
    /\ \A k \in 1..Len(to), l \in 1..Len(from) : to[k].id \in CallIds => to[k].id # from[l].id
    /\ \A line \in srv, l \in 1..Len(from) : line.id \in CallIds => line.id # from[l].id

FlowOK(to, srv, from, pend) == OfPending(to, srv, from, pend) /\ OneForId(to, srv, from)

Flow(p) == FlowOK(toServer[p], serving[p], fromServer[p], pending[p])

(* The line the parent task handles waits for its id to be free of pending  *)
(* calls, and when it is registered nothing else has its id.                *)
Handled(p) ==
    /\ pc[p] \in {"nonce", "lease", "insert", "register"} => pending[p][cur[p].id] = None
    /\ pc[p] = "forward" =>
          /\ pending[p][cur[p].id] = cur[p]
          /\ Free(cur[p].id, toServer[p], serving[p], fromServer[p])

FlowInv == \A p \in Procs : Flow(p) /\ Handled(p)

LEMMA LineIds ==
    ASSUME DistinctIds
    PROVE  /\ \A line \in Line : line # None /\ (line.id \in CallIds => line \in Call)
           /\ \A c \in Call : c.id \in CallIds /\ c \in Line
           /\ None \notin Call
  BY NoneAssumption DEF DistinctIds, Line, Call, OpenLine

LEMMA FlowPass ==
    ASSUME DistinctIds, NEW to \in Seq(Line), NEW srv, NEW from, NEW pend,
           FlowOK(to, srv, from, pend), NEW line \in OpenLine
    PROVE  FlowOK(Append(to, line), srv, from, pend)
  <1>1. line.id \notin CallIds
    BY DEF DistinctIds, OpenLine
  <1>2. /\ Len(to) \in Nat /\ Len(Append(to, line)) = Len(to) + 1
        /\ \A k \in 1..(Len(to) + 1) : Append(to, line)[k] = IF k = Len(to) + 1 THEN line ELSE to[k]
    BY DEF Line
  <1>3. OfPending(Append(to, line), srv, from, pend)
    BY <1>1, <1>2 DEF FlowOK, OfPending
  <1>4. OneForId(Append(to, line), srv, from)
    BY <1>1, <1>2 DEF FlowOK, OneForId
  <1>5. QED
    BY <1>3, <1>4 DEF FlowOK

LEMMA FlowForward ==
    ASSUME DistinctIds, NEW to \in Seq(Line), NEW srv, NEW from, NEW pend,
           FlowOK(to, srv, from, pend), NEW c \in Call, pend[c.id] = c, Free(c.id, to, srv, from)
    PROVE  FlowOK(Append(to, c), srv, from, pend)
  <1>1. /\ Len(to) \in Nat /\ Len(Append(to, c)) = Len(to) + 1
        /\ \A k \in 1..(Len(to) + 1) : Append(to, c)[k] = IF k = Len(to) + 1 THEN c ELSE to[k]
    BY DEF Line
  <1>2. OfPending(Append(to, c), srv, from, pend)
    BY <1>1 DEF FlowOK, OfPending
  <1>3. OneForId(Append(to, c), srv, from)
    BY <1>1 DEF FlowOK, OneForId, Free
  <1>4. QED
    BY <1>2, <1>3 DEF FlowOK

LEMMA FlowRegister ==
    ASSUME DistinctIds, NEW to \in Seq(Line), NEW srv \in SUBSET Line, NEW from \in Seq(Message),
           NEW pend \in [CallIds -> Call \cup {None}],
           FlowOK(to, srv, from, pend), NEW c \in Call, pend[c.id] = None
    PROVE  /\ FlowOK(to, srv, from, [pend EXCEPT ![c.id] = c])
           /\ Free(c.id, to, srv, from)
  <1>1. c.id \in CallIds
    BY DEF Call
  <1>2. \A k \in 1..Len(to) : to[k] # None
    BY LineIds
  <1>3. Free(c.id, to, srv, from)
    <2>1. \A k \in 1..Len(to) : to[k].id # c.id
      BY <1>1, <1>2 DEF FlowOK, OfPending
    <2>2. \A line \in srv : line.id # c.id
      BY <1>1, LineIds DEF FlowOK, OfPending
    <2>3. \A k \in 1..Len(from) : from[k].id # c.id
      BY <1>1, LineIds DEF FlowOK, OfPending
    <2>4. QED
      BY <2>1, <2>2, <2>3 DEF Free
  <1> DEFINE after == [pend EXCEPT ![c.id] = c]
  <1>4. \A i \in CallIds : i # c.id => after[i] = pend[i]
    OBVIOUS
  <1> HIDE DEF after
  <1>5. FlowOK(to, srv, from, after)
    BY <1>3, <1>4 DEF FlowOK, OfPending, OneForId, Free
  <1>6. QED
    BY <1>3, <1>5 DEF after

LEMMA FlowRead ==
    ASSUME DistinctIds, NEW to \in Seq(Line), to # <<>>, NEW srv \in SUBSET Line,
           NEW from \in Seq(Message), NEW pend, FlowOK(to, srv, from, pend)
    PROVE  /\ FlowOK(Tail(to), srv \cup {Head(to)}, from, pend)
           /\ \A i : Free(i, to, srv, from) => Free(i, Tail(to), srv \cup {Head(to)}, from)
  <1> DEFINE rest == Tail(to)
             head == Head(to)
  <1>1. /\ Len(to) \in Nat /\ 1 \in 1..Len(to) /\ head = to[1]
        /\ Len(rest) = Len(to) - 1
        /\ \A k \in 1..Len(rest) : rest[k] = to[k + 1] /\ k + 1 \in 1..Len(to) /\ k + 1 # 1
    OBVIOUS
  <1> HIDE DEF rest, head
  <1>2. FlowOK(rest, srv \cup {head}, from, pend)
    <2>1. OfPending(rest, srv \cup {head}, from, pend)
      BY <1>1 DEF FlowOK, OfPending
    <2>2. \A k, l \in 1..Len(rest) : rest[k].id \in CallIds /\ rest[k].id = rest[l].id => k = l
      <3>1. TAKE k, l \in 1..Len(rest)
      <3>2. rest[k] = to[k + 1] /\ rest[l] = to[l + 1] /\ k + 1 \in 1..Len(to) /\ l + 1 \in 1..Len(to)
        BY <1>1
      <3>3. rest[k].id \in CallIds /\ rest[k].id = rest[l].id => k + 1 = l + 1
        BY <3>2 DEF FlowOK, OneForId
      <3>4. QED
        BY <1>1, <3>3
    <2>3. \A k \in 1..Len(rest), line \in srv \cup {head} : rest[k].id \in CallIds => rest[k].id # line.id
      BY <1>1 DEF FlowOK, OneForId
    <2>4. /\ \A k, l \in 1..Len(from) : from[k].id \in CallIds /\ from[k].id = from[l].id => k = l
          /\ \A k \in 1..Len(rest), l \in 1..Len(from) : rest[k].id \in CallIds => rest[k].id # from[l].id
          /\ \A line \in srv \cup {head}, l \in 1..Len(from) : line.id \in CallIds => line.id # from[l].id
      BY <1>1 DEF FlowOK, OneForId
    <2>5. QED
      BY <2>1, <2>2, <2>3, <2>4 DEF FlowOK, OneForId
  <1>3. \A i : Free(i, to, srv, from) => Free(i, rest, srv \cup {head}, from)
    BY <1>1 DEF Free
  <1>4. QED
    BY <1>2, <1>3 DEF rest, head

LEMMA FlowAnswer ==
    ASSUME DistinctIds, NEW to \in Seq(Line), NEW srv \in SUBSET Line, NEW from \in Seq(Message),
           NEW pend, FlowOK(to, srv, from, pend), NEW line \in srv, NEW failed \in BOOLEAN
    PROVE  LET m == [id |-> line.id, failed |-> failed, re |-> line] IN
              /\ FlowOK(to, srv \ {line}, Append(from, m), pend)
              /\ \A i : Free(i, to, srv, from) => Free(i, to, srv \ {line}, Append(from, m))
  <1> DEFINE m == [id |-> line.id, failed |-> failed, re |-> line]
             after == Append(from, m)
  <1>1. /\ Len(from) \in Nat /\ Len(after) = Len(from) + 1
        /\ \A k \in 1..Len(after) : after[k] = IF k = Len(from) + 1 THEN m ELSE from[k]
    OBVIOUS
  <1>2. m.id = line.id /\ m.re = line
    OBVIOUS
  <1> HIDE DEF after, m
  <1>3. line \in Line /\ (line.id \in CallIds => line \in Call) /\ (line \in Call => line.id \in CallIds)
    BY LineIds
  <1>4. \A other \in srv : other.id \in CallIds /\ other.id = line.id => other = line
    BY DEF FlowOK, OfPending
  <1>5. OfPending(to, srv \ {line}, after, pend)
    BY <1>1, <1>2, <1>3 DEF FlowOK, OfPending
  <1>6. OneForId(to, srv \ {line}, after)
    <2>1. \A k, l \in 1..Len(after) : after[k].id \in CallIds /\ after[k].id = after[l].id => k = l
      <3>1. \A k \in 1..Len(from) : line.id \in CallIds => from[k].id # line.id
        BY DEF FlowOK, OneForId
      <3>2. \A k, l \in 1..Len(from) : from[k].id \in CallIds /\ from[k].id = from[l].id => k = l
        BY DEF FlowOK, OneForId
      <3>3. /\ \A k \in 1..Len(from) : after[k] = from[k]
            /\ after[Len(from) + 1].id = line.id
            /\ \A k \in 1..Len(after) : k \in 1..Len(from) \/ k = Len(from) + 1
        BY <1>1, <1>2
      <3>4. TAKE k, l \in 1..Len(after)
      <3>5. CASE k \in 1..Len(from) /\ l \in 1..Len(from)
        BY <3>2, <3>3, <3>5
      <3>6. CASE k \in 1..Len(from) /\ l = Len(from) + 1
        BY <3>1, <3>3, <3>6
      <3>7. CASE k = Len(from) + 1 /\ l \in 1..Len(from)
        BY <3>1, <3>3, <3>7
      <3>8. QED
        BY <3>3, <3>5, <3>6, <3>7, SMTT(20)
    <2>2. \A k, l \in 1..Len(to) : to[k].id \in CallIds /\ to[k].id = to[l].id => k = l
      BY DEF FlowOK, OneForId
    <2>3. \A k \in 1..Len(to), other \in srv \ {line} : to[k].id \in CallIds => to[k].id # other.id
      BY DEF FlowOK, OneForId
    <2>4. \A k \in 1..Len(to), l \in 1..Len(after) : to[k].id \in CallIds => to[k].id # after[l].id
      BY <1>1, <1>2 DEF FlowOK, OneForId
    <2>5. \A other \in srv \ {line}, l \in 1..Len(after) : other.id \in CallIds => other.id # after[l].id
      BY <1>1, <1>2, <1>4 DEF FlowOK, OneForId
    <2>6. QED
      BY <2>1, <2>2, <2>3, <2>4, <2>5 DEF OneForId
  <1>7. \A i : Free(i, to, srv, from) => Free(i, to, srv \ {line}, after)
    BY <1>1, <1>2 DEF Free
  <1>8. QED
    BY <1>5, <1>6, <1>7 DEF FlowOK, after, m

LEMMA FlowRequest ==
    ASSUME DistinctIds, NEW to, NEW srv, NEW from \in Seq(Message), NEW pend,
           FlowOK(to, srv, from, pend), NEW id \in ServerIds
    PROVE  LET m == [id |-> id, failed |-> FALSE, re |-> None] IN
              /\ FlowOK(to, srv, Append(from, m), pend)
              /\ \A i \in CallIds : Free(i, to, srv, from) => Free(i, to, srv, Append(from, m))
  <1> DEFINE m == [id |-> id, failed |-> FALSE, re |-> None]
             after == Append(from, m)
  <1>1. /\ Len(from) \in Nat /\ Len(after) = Len(from) + 1
        /\ \A k \in 1..Len(after) : after[k] = IF k = Len(from) + 1 THEN m ELSE from[k]
    OBVIOUS
  <1>2. m.id \notin CallIds /\ m.re \notin Call
    BY LineIds DEF DistinctIds
  <1> HIDE DEF after, m
  <1>3. FlowOK(to, srv, after, pend)
    <2>1. OfPending(to, srv, after, pend)
      BY <1>1, <1>2 DEF FlowOK, OfPending
    <2>2. OneForId(to, srv, after)
      BY <1>1, <1>2, SMTT(20) DEF FlowOK, OneForId
    <2>3. QED
      BY <2>1, <2>2 DEF FlowOK
  <1>4. \A i \in CallIds : Free(i, to, srv, from) => Free(i, to, srv, after)
    BY <1>1, <1>2 DEF Free
  <1>5. QED
    BY <1>3, <1>4 DEF after, m

LEMMA FlowExit ==
    ASSUME NEW to, NEW srv, NEW from, NEW pend, FlowOK(to, srv, from, pend)
    PROVE  /\ FlowOK(<<>>, {}, from, pend)
           /\ \A i : Free(i, to, srv, from) => Free(i, <<>>, {}, from)
  BY DEF FlowOK, OfPending, OneForId, Free

LEMMA FlowTake ==
    ASSUME DistinctIds, NEW to \in Seq(Line), NEW srv \in SUBSET Line, NEW from \in Seq(Message),
           from # <<>>, NEW pend \in [CallIds -> Call \cup {None}], FlowOK(to, srv, from, pend)
    PROVE  LET m == Head(from) IN
              /\ FlowOK(to, srv, Tail(from), pend)
              /\ m.id \in CallIds => FlowOK(to, srv, Tail(from), [pend EXCEPT ![m.id] = None])
              /\ m.id \in CallIds => m.re \in Call /\ m.re = pend[m.id]
              /\ m.re \in Call => m.id = m.re.id
              /\ \A i : Free(i, to, srv, from) => i # m.id /\ Free(i, to, srv, Tail(from))
  <1> DEFINE m == Head(from)
             rest == Tail(from)
             after == [pend EXCEPT ![m.id] = None]
  <1>1. /\ Len(from) \in Nat /\ 1 \in 1..Len(from) /\ m = from[1]
        /\ Len(rest) = Len(from) - 1
        /\ \A k \in 1..Len(rest) : rest[k] = from[k + 1] /\ k + 1 \in 1..Len(from) /\ k + 1 # 1
    OBVIOUS
  <1> HIDE DEF rest, m
  <1>2. \A i \in CallIds : i # m.id => after[i] = pend[i]
    OBVIOUS
  <1> HIDE DEF after
  <1>3. OneForId(to, srv, rest)
    <2>1. \A k, l \in 1..Len(rest) : rest[k].id \in CallIds /\ rest[k].id = rest[l].id => k = l
      <3>1. TAKE k, l \in 1..Len(rest)
      <3>2. rest[k] = from[k + 1] /\ rest[l] = from[l + 1] /\ k + 1 \in 1..Len(from) /\ l + 1 \in 1..Len(from)
        BY <1>1
      <3>3. rest[k].id \in CallIds /\ rest[k].id = rest[l].id => k + 1 = l + 1
        BY <3>2 DEF FlowOK, OneForId
      <3>4. QED
        BY <1>1, <3>3
    <2>2. \A k \in 1..Len(to), l \in 1..Len(rest) : to[k].id \in CallIds => to[k].id # rest[l].id
      BY <1>1 DEF FlowOK, OneForId
    <2>3. \A line \in srv, l \in 1..Len(rest) : line.id \in CallIds => line.id # rest[l].id
      BY <1>1 DEF FlowOK, OneForId
    <2>4. QED
      BY <2>1, <2>2, <2>3 DEF FlowOK, OneForId
  <1>4. OfPending(to, srv, rest, pend)
    <2>1. ASSUME NEW k \in 1..Len(rest)
          PROVE  /\ rest[k].id \in CallIds => rest[k].re \in Call /\ rest[k].re = pend[rest[k].id]
                 /\ rest[k].re \in Call => rest[k].id = rest[k].re.id
      <3>1. rest[k] = from[k + 1] /\ k + 1 \in 1..Len(from)
        BY <1>1
      <3>2. QED
        BY <3>1 DEF FlowOK, OfPending
    <2>2. QED
      BY <2>1 DEF FlowOK, OfPending
  <1>5. /\ m.id \in CallIds => m.re \in Call /\ m.re = pend[m.id]
        /\ m.re \in Call => m.id = m.re.id
    BY <1>1 DEF FlowOK, OfPending
  <1>6. m.id \in CallIds => Free(m.id, to, srv, rest)
    BY <1>1 DEF FlowOK, OneForId, Free
  <1>7. m.id \in CallIds => OfPending(to, srv, rest, after)
    BY <1>2, <1>4, <1>6 DEF OfPending, Free
  <1>8. \A i : Free(i, to, srv, from) => i # m.id /\ Free(i, to, srv, rest)
    BY <1>1 DEF Free
  <1>9. QED
    BY <1>3, <1>4, <1>5, <1>7, <1>8 DEF FlowOK, m, rest, after

(* A step of one process leaves what the others handle.                     *)
FlowSame(q) ==
    /\ toServer'[q] = toServer[q] /\ serving'[q] = serving[q] /\ fromServer'[q] = fromServer[q]
    /\ pending'[q] = pending[q] /\ pc'[q] = pc[q] /\ cur'[q] = cur[q]

LEMMA FlowFrame ==
    ASSUME NEW q \in Procs, Flow(q) /\ Handled(q), FlowSame(q)
    PROVE  (Flow(q) /\ Handled(q))'
  BY DEF FlowSame, Flow, Handled

LEMMA OthersFlow ==
    ASSUME TypeOK, NEW p \in Procs, NEW q \in Procs, q # p,
           ParentRead(p) \/ ParentStep(p) \/ ServerStep(p) \/ ChildStep(p) \/ LoseOutput(p)
               \/ ClientStep(p) \/ Halt(p) \/ Start(p)
    PROVE  FlowSame(q)
  <1> USE DEF TypeOK, FlowSame, parentVars, serverVars, childVars
  <1>1. CASE ParentRead(p)
    BY <1>1 DEF ParentRead, RejectMalformed, PassThrough, RefuseInFlight, Refuse, AcceptCall, CloseInput
  <1>2. CASE ParentStep(p)
    BY <1>2 DEF ParentStep, CheckNonce, EnsureLease, PanicOnId, WriteRefusal, InsertRequested, Register, Forward, Refuse
  <1>3. CASE ServerStep(p)
    BY <1>3 DEF ServerStep, ServerRead, ServerAnswer, ServerRequest, ServerExit
  <1>4. CASE ChildStep(p) \/ LoseOutput(p)
    BY <1>4 DEF ChildStep, TakeMessage, SealTerminal, RelayMessage, EndOfOutput, LoseOutput, EndTask
  <1>5. CASE Halt(p)
    BY <1>5 DEF Halt
  <1>6. CASE Start(p) \/ ClientStep(p)
    BY <1>6 DEF Start, ClientStep
  <1>7. QED
    BY <1>1, <1>2, <1>3, <1>4, <1>5, <1>6

LEMMA PipesTyped ==
    ASSUME TypeOK, NEW p \in Procs
    PROVE  /\ toServer[p] \in Seq(Line) /\ serving[p] \in SUBSET Line
           /\ fromServer[p] \in Seq(Message) /\ pending[p] \in [CallIds -> Call \cup {None}]
  BY DEF TypeOK

LEMMA ParentFlow ==
    ASSUME DistinctIds, TypeOK, TaskInv, NEW p \in Procs, Flow(p), Handled(p),
           ParentRead(p) \/ ParentStep(p)
    PROVE  (Flow(p) /\ Handled(p))'
  <1>0. pc[p] \notin {"read", "refuse", "done"} => cur[p] \in Call
    BY DEF TaskInv
  <1>1. CASE RejectMalformed(p) \/ RefuseInFlight(p)
    BY <1>1 DEF RejectMalformed, RefuseInFlight, Refuse, TypeOK, Flow, Handled, serverVars
  <1>2. CASE PassThrough(p)
    <2>1. UNCHANGED <<pending, serving, fromServer>> /\ pc'[p] \in {"read", "done"}
      BY <1>2 DEF PassThrough, Reading, TypeOK
    <2>2. PICK line \in OpenLine : toServer'[p] \in {toServer[p], Append(toServer[p], line)}
      BY <1>2 DEF PassThrough, TypeOK
    <2>3. FlowOK(Append(toServer[p], line), serving[p], fromServer[p], pending[p])
      BY <2>2, FlowPass, PipesTyped DEF Flow
    <2>4. QED
      BY <2>1, <2>2, <2>3 DEF Flow, Handled
  <1>3. CASE AcceptCall(p)
    <2>1. PICK c \in Call : ~Pending(p, c.id) /\ cur'[p] = c
      BY <1>3 DEF AcceptCall, TypeOK
    <2>2. pending[p][c.id] = None
      BY <2>1 DEF Pending, Call
    <2>3. pc'[p] = "nonce" /\ UNCHANGED <<pending, toServer, serving, fromServer>>
      BY <1>3 DEF AcceptCall, TypeOK, serverVars
    <2>4. QED
      BY <2>1, <2>2, <2>3 DEF Flow, Handled
  <1>4. CASE CloseInput(p)
    BY <1>4 DEF CloseInput, serverVars, Flow, Handled, TypeOK
  <1>5. CASE CheckNonce(p) \/ EnsureLease(p) \/ PanicOnId(p) \/ InsertRequested(p)
               \/ WriteRefusal(p)
    <2>1. UNCHANGED <<pending, toServer, serving, fromServer>>
      BY <1>5 DEF CheckNonce, EnsureLease, PanicOnId, WriteRefusal, InsertRequested, serverVars
    <2>2. \/ pc'[p] \in {"read", "refuse", "done"}
          \/ pc[p] \in {"nonce", "lease", "insert"} /\ pc'[p] \in {"lease", "insert", "register"} /\ cur'[p] = cur[p]
      BY <1>5 DEF CheckNonce, EnsureLease, PanicOnId, WriteRefusal, InsertRequested, Refuse, TypeOK
    <2>3. QED
      BY <2>1, <2>2 DEF Flow, Handled
  <1>6. CASE Register(p)
    <2>1. cur[p] \in Call /\ pending[p][cur[p].id] = None
      BY <1>0, <1>6 DEF Register, Handled
    <2>2. /\ FlowOK(toServer[p], serving[p], fromServer[p], [pending[p] EXCEPT ![cur[p].id] = cur[p]])
          /\ Free(cur[p].id, toServer[p], serving[p], fromServer[p])
      BY <2>1, FlowRegister, PipesTyped DEF Flow
    <2>3. /\ pending'[p] = [pending[p] EXCEPT ![cur[p].id] = cur[p]]
          /\ pc'[p] = "forward" /\ UNCHANGED <<cur, toServer, serving, fromServer>>
      BY <1>6 DEF Register, TypeOK, serverVars
    <2>4. pending'[p][cur[p].id] = cur[p]
      BY <2>1, <2>3, PipesTyped DEF Call
    <2>5. QED
      BY <2>2, <2>3, <2>4 DEF Flow, Handled
  <1>7. CASE Forward(p)
    <2>1. /\ cur[p] \in Call /\ pending[p][cur[p].id] = cur[p]
          /\ Free(cur[p].id, toServer[p], serving[p], fromServer[p])
      BY <1>0, <1>7 DEF Forward, Handled
    <2>2. FlowOK(Append(toServer[p], cur[p]), serving[p], fromServer[p], pending[p])
      BY <2>1, FlowForward, PipesTyped DEF Flow
    <2>3. /\ toServer'[p] \in {toServer[p], Append(toServer[p], cur[p])}
          /\ pc'[p] \in {"read", "done"} /\ UNCHANGED <<pending, serving, fromServer>>
      BY <1>7 DEF Forward, TypeOK
    <2>4. QED
      BY <2>2, <2>3 DEF Flow, Handled
  <1>8. QED
    BY <1>1, <1>2, <1>3, <1>4, <1>5, <1>6, <1>7 DEF ParentRead, ParentStep

LEMMA ServerFlow ==
    ASSUME DistinctIds, TypeOK, TaskInv, NEW p \in Procs, Flow(p), Handled(p), ServerStep(p)
    PROVE  (Flow(p) /\ Handled(p))'
  <1>0. UNCHANGED <<pc, cur, pending>>
    BY ServerFrame
  <1>1. pc[p] = "forward" => cur[p].id \in CallIds
    BY DEF TaskInv, Call
  <1>2. SUFFICES /\ FlowOK(toServer'[p], serving'[p], fromServer'[p], pending[p])
                 /\ \A i \in CallIds : Free(i, toServer[p], serving[p], fromServer[p])
                                          => Free(i, toServer'[p], serving'[p], fromServer'[p])
    BY <1>0, <1>1 DEF Flow, Handled
  <1>3. CASE ServerRead(p)
    <2>1. /\ toServer[p] # <<>>
          /\ toServer'[p] = Tail(toServer[p]) /\ serving'[p] = serving[p] \cup {Head(toServer[p])}
          /\ fromServer'[p] = fromServer[p]
      BY <1>3 DEF ServerRead, TypeOK
    <2> DEFINE srv == serving[p] \cup {Head(toServer[p])}
    <2>2. /\ FlowOK(Tail(toServer[p]), srv, fromServer[p], pending[p])
          /\ \A i : Free(i, toServer[p], serving[p], fromServer[p])
                    => Free(i, Tail(toServer[p]), srv, fromServer[p])
      BY <2>1, FlowRead, PipesTyped DEF Flow
    <2>3. QED
      BY <2>1, <2>2
  <1>4. ASSUME NEW line \in Line, ServerAnswer(p, line)
        PROVE  /\ FlowOK(toServer'[p], serving'[p], fromServer'[p], pending[p])
               /\ \A i \in CallIds : Free(i, toServer[p], serving[p], fromServer[p])
                                        => Free(i, toServer'[p], serving'[p], fromServer'[p])
    <2>1. PICK failed \in BOOLEAN :
              fromServer' = [fromServer EXCEPT ![p] =
                  Append(@, [id |-> line.id, failed |-> failed, re |-> line])]
      BY <1>4 DEF ServerAnswer
    <2>2. /\ line \in serving[p] /\ toServer'[p] = toServer[p]
          /\ serving'[p] = serving[p] \ {line}
          /\ fromServer'[p] = Append(fromServer[p], [id |-> line.id, failed |-> failed, re |-> line])
      BY <1>4, <2>1 DEF ServerAnswer, TypeOK
    <2> DEFINE from == Append(fromServer[p], [id |-> line.id, failed |-> failed, re |-> line])
    <2>3. /\ FlowOK(toServer[p], serving[p] \ {line}, from, pending[p])
          /\ \A i : Free(i, toServer[p], serving[p], fromServer[p])
                    => Free(i, toServer[p], serving[p] \ {line}, from)
      BY <2>1, <2>2, FlowAnswer, PipesTyped DEF Flow
    <2>4. QED
      BY <2>2, <2>3
  <1>5. CASE ServerRequest(p)
    <2>1. PICK id \in ServerIds :
              fromServer' = [fromServer EXCEPT ![p] =
                  Append(@, [id |-> id, failed |-> FALSE, re |-> None])]
      BY <1>5 DEF ServerRequest
    <2>2. /\ toServer'[p] = toServer[p] /\ serving'[p] = serving[p]
          /\ fromServer'[p] = Append(fromServer[p], [id |-> id, failed |-> FALSE, re |-> None])
      BY <1>5, <2>1 DEF ServerRequest, TypeOK
    <2> DEFINE from == Append(fromServer[p], [id |-> id, failed |-> FALSE, re |-> None])
    <2>3. /\ FlowOK(toServer[p], serving[p], from, pending[p])
          /\ \A i \in CallIds : Free(i, toServer[p], serving[p], fromServer[p])
                    => Free(i, toServer[p], serving[p], from)
      BY <2>1, <2>2, FlowRequest, PipesTyped DEF Flow
    <2>4. QED
      BY <2>2, <2>3
  <1>6. CASE ServerExit(p)
    <2>1. toServer'[p] = <<>> /\ serving'[p] = {} /\ fromServer'[p] = fromServer[p]
      BY <1>6 DEF ServerExit, TypeOK
    <2>2. QED
      BY <2>1, FlowExit DEF Flow
  <1>7. QED
    BY <1>3, <1>4, <1>5, <1>6 DEF ServerStep

(* What the child task takes: an outcome of the call it finds pending, or   *)
(* a message that is no outcome of a call.                                  *)
LEMMA TakeFlow ==
    ASSUME DistinctIds, TypeOK, TaskInv, NEW p \in Procs, Flow(p), Handled(p), TakeMessage(p)
    PROVE  /\ (Flow(p) /\ Handled(p))'
           /\ msg'[p] = Head(fromServer[p])
           /\ \/ cpc'[p] = "seal" /\ sealing'[p] = msg'[p].re
              \/ cpc'[p] = "relay" /\ msg'[p].re \notin Call
  <1> DEFINE m == Head(fromServer[p])
             rest == Tail(fromServer[p])
  <1>1. /\ fromServer[p] # <<>> /\ fromServer'[p] = rest /\ msg'[p] = m
        /\ UNCHANGED <<pc, cur, toServer, serving>>
    BY DEF TakeMessage, TypeOK, parentVars
  <1>2. /\ FlowOK(toServer[p], serving[p], rest, pending[p])
        /\ m.id \in CallIds => FlowOK(toServer[p], serving[p], rest, [pending[p] EXCEPT ![m.id] = None])
        /\ m.id \in CallIds => m.re \in Call /\ m.re = pending[p][m.id]
        /\ m.re \in Call => m.id = m.re.id
        /\ \A i : Free(i, toServer[p], serving[p], fromServer[p])
                  => i # m.id /\ Free(i, toServer[p], serving[p], rest)
    BY <1>1, FlowTake, PipesTyped DEF Flow
  <1>3. pc[p] \notin {"read", "refuse", "done"} => cur[p].id \in CallIds
    BY DEF TaskInv, Call
  <1>4. CASE Pending(p, m.id)
    <2>1. /\ sealing'[p] = pending[p][m.id] /\ cpc'[p] = "seal"
          /\ pending'[p] = [pending[p] EXCEPT ![m.id] = None]
      BY <1>4 DEF TakeMessage, TypeOK
    <2>2. m.id \in CallIds
      BY <1>4 DEF Pending
    <2> HIDE DEF m, rest
    <2>3. \A i \in CallIds : pending'[p][i] = IF i = m.id THEN None ELSE pending[p][i]
      BY <2>1, <2>2, PipesTyped
    <2>4. Handled(p)'
      BY <1>1, <1>2, <1>3, <2>3 DEF Handled
    <2>5. Flow(p)'
      BY <1>1, <1>2, <2>1, <2>2 DEF Flow
    <2>6. msg'[p] = m /\ sealing'[p] = msg'[p].re
      BY <1>1, <1>2, <2>1, <2>2
    <2>7. QED
      BY <2>1, <2>4, <2>5, <2>6 DEF m
  <1>5. CASE ~Pending(p, m.id)
    <2>1. cpc'[p] = "relay" /\ UNCHANGED pending
      BY <1>5 DEF TakeMessage, TypeOK
    <2> HIDE DEF m, rest
    <2>2. m.re \notin Call
      <3>1. m.re \in Call => m.id \in CallIds
        BY <1>2 DEF Call
      <3>2. m.id \in CallIds => pending[p][m.id] # None
        BY <1>2, LineIds
      <3>3. QED
        BY <1>5, <3>1, <3>2 DEF Pending
    <2>3. (Flow(p) /\ Handled(p))'
      BY <1>1, <1>2, <2>1 DEF Flow, Handled
    <2>4. QED
      BY <1>1, <2>1, <2>2, <2>3 DEF m
  <1>6. QED
    BY <1>4, <1>5

LEMMA ChildFlow ==
    ASSUME DistinctIds, TypeOK, TaskInv, NEW p \in Procs, Flow(p), Handled(p),
           ChildStep(p) \/ LoseOutput(p)
    PROVE  (Flow(p) /\ Handled(p))'
  <1>1. CASE TakeMessage(p)
    BY <1>1, TakeFlow
  <1>2. CASE SealTerminal(p) \/ RelayMessage(p) \/ EndTask(p)
    BY <1>2 DEF SealTerminal, RelayMessage, EndTask, parentVars, serverVars, Flow, Handled
  <1>3. QED
    BY <1>1, <1>2 DEF ChildStep, EndOfOutput, LoseOutput

LEMMA FlowStep == DistinctIds /\ TypeOK /\ TaskInv /\ FlowInv /\ [Next]_vars => FlowInv'
  <1> SUFFICES ASSUME DistinctIds, TypeOK, TaskInv, FlowInv, [Next]_vars
               PROVE  FlowInv'
    OBVIOUS
  <1>1. ASSUME NEW p \in Procs,
               ParentRead(p) \/ ParentStep(p) \/ ServerStep(p) \/ ChildStep(p) \/ LoseOutput(p)
               \/ ClientStep(p) \/ Halt(p) \/ Start(p)
        PROVE  FlowInv'
    <2>1. ASSUME NEW q \in Procs, q # p
          PROVE  (Flow(q) /\ Handled(q))'
      BY <1>1, <2>1, OthersFlow, FlowFrame DEF FlowInv
    <2>2. CASE ParentRead(p) \/ ParentStep(p) \/ ServerStep(p) \/ ChildStep(p) \/ LoseOutput(p)
      BY <2>1, <2>2, ParentFlow, ServerFlow, ChildFlow DEF FlowInv
    <2>3. CASE Halt(p)
      <3>1. /\ toServer'[p] = <<>> /\ serving'[p] = {} /\ fromServer'[p] = <<>> /\ pc'[p] = "read"
        BY <2>3 DEF Halt, TypeOK
      <3>2. (Flow(p) /\ Handled(p))'
        BY <3>1 DEF Flow, Handled, FlowOK, OfPending, OneForId
      <3>3. QED
        BY <2>1, <3>2 DEF FlowInv
    <2>4. CASE Start(p) \/ ClientStep(p)
      <3>1. FlowSame(p)
        BY <2>4 DEF Start, ClientStep, FlowSame, parentVars, serverVars
      <3>2. QED
        BY <2>1, <3>1, FlowFrame DEF FlowInv
    <2>5. QED
      BY <1>1, <2>2, <2>3, <2>4
  <1>2. CASE UNCHANGED vars
    BY <1>2 DEF vars, parentVars, serverVars, FlowInv, Flow, Handled
  <1>3. QED
    BY <1>1, <1>2 DEF Next, Crash, Exit

(* The terminal row of the call that a message answers, made of it.         *)
SealedIn(m, rows) == \E r \in rows : r.nonce = m.re /\ r.status \in Terminal /\ r.payload = m

SealInv ==
    /\ \A p \in Procs : cpc[p] = "seal" => sealing[p] = msg[p].re
    /\ \A p \in Procs : cpc[p] = "relay" /\ msg[p].re \in Call => SealedIn(msg[p], Rows)

LEMMA RefusalIsNoMessage == \A r \in Refusal \cup {None} : r \notin Message
  <1>1. ASSUME NEW r \in Refusal
        PROVE  r \notin Message
    <2>1. DOMAIN r = {"what"}
      BY DEF Refusal
    <2>2. \A m \in Message : "id" \in DOMAIN m
      BY DEF Message
    <2>3. QED
      BY <2>1, <2>2
  <1>2. QED
    BY <1>1, NoneAssumption

LEMMA RowsGrow ==
    ASSUME TypeOK, NEW n, NEW s, NEW m, InsertLocalEvent(n, s, m, DeviceKey)
    PROVE  \E r : /\ Rows' = Rows \cup {r}
                  /\ r.nonce = n /\ r.status = s /\ r.payload = m
  <1>1. PICK t \in Stamps(n) :
            log' = Append(log, [nonce |-> n, status |-> s, payload |-> m, ts |-> t, key |-> DeviceKey])
    BY DEF InsertLocalEvent
  <1> DEFINE r == [nonce |-> n, status |-> s, payload |-> m, ts |-> t, key |-> DeviceKey]
  <1>2. r.nonce = n /\ r.status = s /\ r.payload = m /\ log' = Append(log, r)
    BY <1>1
  <1> HIDE DEF r
  <1>3. log \in Seq(AuditRow)
    BY DEF TypeOK, AuditRow
  <1>4. Rows' = Rows \cup {r}
    BY <1>2, <1>3 DEF Rows
  <1>5. QED
    BY <1>2, <1>4

LEMMA OutcomeStep ==
    /\ DistinctIds /\ TypeOK /\ TaskInv /\ FlowInv /\ SealInv /\ OutcomeIsSealed /\ [Next]_vars
    => (SealInv /\ OutcomeIsSealed)'
  <1> SUFFICES ASSUME DistinctIds, TypeOK, TaskInv, FlowInv, SealInv, OutcomeIsSealed, [Next]_vars
               PROVE  (SealInv /\ OutcomeIsSealed)'
    OBVIOUS
  <1>0. UNCHANGED log => Rows' = Rows
    BY DEF Rows
  <1> USE DEF SealInv, OutcomeIsSealed, SealedIn
  <1>1. CASE UNCHANGED <<log, childVars, out>>
    BY <1>0, <1>1 DEF childVars
  <1>2. ASSUME NEW p \in Procs, UNCHANGED <<log, childVars>>,
               \E refusal \in Refusal : out' = [out EXCEPT ![p] = refusal]
        PROVE  (SealInv /\ OutcomeIsSealed)'
    <2>1. Rows' = Rows /\ UNCHANGED <<cpc, msg, sealing>>
      BY <1>0, <1>2 DEF childVars
    <2>2. PICK refusal \in Refusal : out' = [out EXCEPT ![p] = refusal]
      BY <1>2
    <2>3. out'[p] \notin Message /\ \A q \in Procs : q # p => out'[q] = out[q]
      BY <2>2, RefusalIsNoMessage DEF TypeOK
    <2>4. QED
      BY <2>1, <2>3
  <1>3. ASSUME NEW p \in Procs, InsertRequested(p), log' # log
        PROVE  (SealInv /\ OutcomeIsSealed)'
    <2>1. InsertLocalEvent(cur[p], "SEAL_REQUESTED", cur[p], DeviceKey) /\ UNCHANGED <<childVars, out>>
      BY <1>3 DEF InsertRequested, Refuse, clientVars
    <2>2. PICK r : Rows' = Rows \cup {r} /\ r.status = "SEAL_REQUESTED"
      BY <2>1, RowsGrow
    <2>3. QED
      BY <2>1, <2>2 DEF childVars, Terminal
  <1>4. ASSUME NEW p \in Procs, TakeMessage(p)
        PROVE  (SealInv /\ OutcomeIsSealed)'
    <2>1. \/ cpc'[p] = "seal" /\ sealing'[p] = msg'[p].re
          \/ cpc'[p] = "relay" /\ msg'[p].re \notin Call
      BY <1>4, TakeFlow DEF FlowInv
    <2>2. /\ UNCHANGED <<log, out>>
          /\ \A q \in Procs : q # p =>
                cpc'[q] = cpc[q] /\ msg'[q] = msg[q] /\ sealing'[q] = sealing[q]
      BY <1>4 DEF TakeMessage, TypeOK, clientVars
    <2>3. QED
      BY <1>0, <2>1, <2>2
  <1>5. ASSUME NEW p \in Procs, SealTerminal(p)
        PROVE  (SealInv /\ OutcomeIsSealed)'
    <2>1. /\ InsertLocalEvent(sealing[p], Outcome(msg[p]), msg[p], DeviceKey)
          /\ cpc[p] = "seal" /\ cpc' = [cpc EXCEPT ![p] = "relay"]
          /\ sealing' = [sealing EXCEPT ![p] = None] /\ UNCHANGED <<msg, out>>
      BY <1>5 DEF SealTerminal, clientVars
    <2>2. PICK r : /\ Rows' = Rows \cup {r}
                   /\ r.nonce = sealing[p] /\ r.status = Outcome(msg[p]) /\ r.payload = msg[p]
      BY <2>1, RowsGrow
    <2>3. r.nonce = msg[p].re /\ r.status \in Terminal
      BY <2>1, <2>2 DEF Outcome, Terminal
    <2>4. /\ cpc'[p] = "relay"
          /\ \A q \in Procs : q # p => cpc'[q] = cpc[q] /\ sealing'[q] = sealing[q]
      BY <2>1 DEF TypeOK
    <2>5. SealInv'
      BY <2>1, <2>2, <2>3, <2>4
    <2>6. OutcomeIsSealed'
      BY <2>1, <2>2, <2>3 DEF Outcome
    <2>7. QED
      BY <2>5, <2>6
  <1>6. ASSUME NEW p \in Procs, RelayMessage(p)
        PROVE  (SealInv /\ OutcomeIsSealed)'
    <2>1. /\ UNCHANGED <<log, sealing>> /\ cpc[p] = "relay" /\ cpc'[p] \in {"read", "done"}
          /\ out'[p] \in {out[p], msg[p]}
          /\ \A q \in Procs : q # p =>
                cpc'[q] = cpc[q] /\ msg'[q] = msg[q] /\ out'[q] = out[q]
      BY <1>6 DEF RelayMessage, TypeOK
    <2>2. QED
      BY <1>0, <2>1
  <1>7. ASSUME NEW p \in Procs, EndTask(p)
        PROVE  (SealInv /\ OutcomeIsSealed)'
    BY <1>0, <1>7 DEF EndTask, TypeOK, clientVars
  <1>8. ASSUME NEW p \in Procs, Halt(p)
        PROVE  (SealInv /\ OutcomeIsSealed)'
    <2>1. /\ UNCHANGED log /\ cpc'[p] = "read" /\ out'[p] = None
          /\ \A q \in Procs : q # p =>
                cpc'[q] = cpc[q] /\ msg'[q] = msg[q] /\ sealing'[q] = sealing[q] /\ out'[q] = out[q]
      BY <1>8 DEF Halt, TypeOK
    <2>2. QED
      BY <1>0, <2>1, NoneAssumption
  <1>9. ASSUME NEW p \in Procs, ParentRead(p) \/ ParentStep(p) \/ ServerStep(p) \/ Start(p) \/ ClientStep(p)
        PROVE  (SealInv /\ OutcomeIsSealed)'
    <2>1. CASE WriteRefusal(p)
      <3>1. [what |-> "error"] \in Refusal
        BY DEF Refusal
      <3>2. UNCHANGED <<log, childVars>>
        BY <2>1 DEF WriteRefusal
      <3>3. out' = out \/ out' = [out EXCEPT ![p] = [what |-> "error"]]
        BY <2>1 DEF WriteRefusal
      <3>4. QED
        BY <1>1, <1>2, <3>1, <3>2, <3>3
    <2>2. CASE InsertRequested(p)
      BY <1>1, <1>3, <2>2 DEF InsertRequested, clientVars
    <2>3. CASE \/ RejectMalformed(p) \/ PassThrough(p) \/ RefuseInFlight(p) \/ AcceptCall(p)
               \/ CloseInput(p) \/ CheckNonce(p) \/ EnsureLease(p) \/ PanicOnId(p)
               \/ Register(p) \/ Forward(p) \/ Start(p) \/ ClientStep(p)
      BY <1>1, <2>3
      DEF RejectMalformed, PassThrough, RefuseInFlight, AcceptCall, CloseInput, CheckNonce,
          EnsureLease, PanicOnId, Register, Forward, Start, ClientStep, clientVars
    <2>4. CASE ServerStep(p)
      BY <1>1, <2>4 DEF ServerStep, ServerRead, ServerAnswer, ServerRequest, ServerExit, clientVars
    <2>5. QED
      BY <1>9, <2>1, <2>2, <2>3, <2>4 DEF ParentRead, ParentStep
  <1>10. CASE UNCHANGED vars
    BY <1>1, <1>10 DEF vars, clientVars
  <1>11. QED
    BY <1>4, <1>5, <1>6, <1>7, <1>8, <1>9, <1>10 DEF Next, ChildStep, EndOfOutput, LoseOutput, Crash, Exit

(* The invariants of the flow hold in every state.                          *)
LEMMA SealCorrect ==
    ASSUME DistinctIds
    PROVE  Spec => [](FlowInv /\ SealInv /\ OutcomeIsSealed)
  <1>1. Init => FlowInv
    BY DEF Init, FlowInv, Flow, Handled, FlowOK, OfPending, OneForId
  <1>2. Init => SealInv /\ OutcomeIsSealed
    BY NoneAssumption DEF Init, SealInv, OutcomeIsSealed, Rows
  <1>3. TypeOK /\ TaskInv /\ FlowInv /\ [Next]_vars => FlowInv'
    BY FlowStep
  <1>4. /\ TypeOK /\ TaskInv /\ FlowInv /\ SealInv /\ OutcomeIsSealed /\ [Next]_vars
        => (SealInv /\ OutcomeIsSealed)'
    BY OutcomeStep
  <1>5. QED
    BY <1>1, <1>2, <1>3, <1>4, TypeCorrect, PTL DEF Spec

(* Where the ids of the calls are used by no other line and by no request   *)
(* of the server's own: an outcome the client has been shown is in the log, *)
(* made of that very answer, and every terminal row is of its own call.     *)
THEOREM OutcomeIsSealedCorrect ==
    ASSUME DistinctIds
    PROVE  Spec => []OutcomeIsSealed
  BY SealCorrect, PTL

-----------------------------------------------------------------------------
(* What is concluded was given to a server.                                 *)

Given(runs, c) == c \in Call => runs[c] > 0

(* The lines and messages of a call, in either pipe, at the server, in the  *)
(* hands of the child task or in the log, exist because it was forwarded.   *)
Pipes(runs, to, srv, from) ==
    /\ \A k \in 1..Len(to) : Given(runs, to[k])
    /\ \A line \in srv : Given(runs, line)
    /\ \A k \in 1..Len(from) : Given(runs, from[k].re)

GivenInv ==
    /\ \A p \in Procs : Pipes(forwards, toServer[p], serving[p], fromServer[p])
    /\ \A p \in Procs : cpc[p] = "seal" => Given(forwards, sealing[p])
    /\ \A r \in Rows : r.status \in Terminal => Given(forwards, r.nonce)

(* A forwarded call stays one.                                              *)
LEMMA GivenStays ==
    ASSUME TypeOK, TaskInv, [Next]_vars
    PROVE  \A c : Given(forwards, c) => Given(forwards', c)
  <1>1. ASSUME NEW p \in Procs, Forward(p)
        PROVE  \A c : Given(forwards, c) => Given(forwards', c)
    <2>1. cur[p] \in Call
      BY <1>1 DEF Forward, TaskInv
    <2>2. UNCHANGED forwards \/ forwards' = [forwards EXCEPT ![cur[p]] = @ + 1]
      BY <1>1 DEF Forward
    <2>3. \A c \in Call : forwards[c] \in Nat /\ forwards'[c] \in {forwards[c], forwards[c] + 1}
      BY <2>1, <2>2 DEF TypeOK
    <2>4. \A c \in Call : forwards[c] > 0 => forwards'[c] > 0
      BY <2>3
    <2>5. QED
      BY <2>4 DEF Given
  <1>2. CASE UNCHANGED forwards
    BY <1>2 DEF Given
  <1>3. ASSUME NEW p \in Procs,
               \/ ParentRead(p) \/ CheckNonce(p) \/ EnsureLease(p) \/ PanicOnId(p)
               \/ WriteRefusal(p) \/ InsertRequested(p) \/ Register(p) \/ ServerStep(p)
               \/ ChildStep(p) \/ LoseOutput(p) \/ ClientStep(p) \/ Halt(p) \/ Start(p)
        PROVE  UNCHANGED forwards
    BY <1>3, ReadFrame, BeforeInsertFrame, InsertFrame, ServerFrame, HaltFrame
    DEF Register, ChildStep, TakeMessage, SealTerminal, RelayMessage, EndOfOutput, LoseOutput,
        EndTask, Start, ClientStep
  <1>4. QED
    BY <1>1, <1>2, <1>3 DEF Next, ParentStep, Crash, Exit, vars

(* The pipes of the process that takes a step.                              *)
LEMMA PipesStep ==
    ASSUME TypeOK, TaskInv, NEW p \in Procs, Pipes(forwards, toServer[p], serving[p], fromServer[p]),
           ParentRead(p) \/ ParentStep(p) \/ ServerStep(p) \/ ChildStep(p) \/ LoseOutput(p)
               \/ ClientStep(p) \/ Halt(p) \/ Start(p),
           \A c : Given(forwards, c) => Given(forwards', c)
    PROVE  Pipes(forwards', toServer'[p], serving'[p], fromServer'[p])
  <1>0. /\ toServer[p] \in Seq(Line) /\ serving[p] \subseteq Line /\ fromServer[p] \in Seq(Message)
        /\ \A c : Given(forwards, c) => Given(forwards', c)
    BY PipesTyped
  <1>1. CASE toServer'[p] = toServer[p] /\ serving'[p] = serving[p] /\ fromServer'[p] = fromServer[p]
    BY <1>0, <1>1 DEF Pipes
  <1>2. ASSUME NEW line \in Line, Given(forwards', line), toServer'[p] = Append(toServer[p], line),
               serving'[p] = serving[p], fromServer'[p] = fromServer[p]
        PROVE  Pipes(forwards', toServer'[p], serving'[p], fromServer'[p])
    <2>1. \A k \in 1..Len(toServer'[p]) :
              toServer'[p][k] = line \/ (k \in 1..Len(toServer[p]) /\ toServer'[p][k] = toServer[p][k])
      BY <1>0, <1>2
    <2>2. \A k \in 1..Len(toServer'[p]) : Given(forwards', toServer'[p][k])
      BY <1>0, <1>2, <2>1 DEF Pipes
    <2>3. QED
      BY <1>0, <1>2, <2>2 DEF Pipes
  <1>3. ASSUME NEW m \in Message, Given(forwards, m.re), fromServer'[p] = Append(fromServer[p], m),
               serving'[p] \subseteq serving[p], toServer'[p] = toServer[p]
        PROVE  Pipes(forwards', toServer'[p], serving'[p], fromServer'[p])
    <2>1. \A k \in 1..Len(fromServer'[p]) :
              fromServer'[p][k] = m \/ (k \in 1..Len(fromServer[p]) /\ fromServer'[p][k] = fromServer[p][k])
      BY <1>0, <1>3
    <2>2. \A k \in 1..Len(fromServer'[p]) : Given(forwards', fromServer'[p][k].re)
      BY <1>0, <1>3, <2>1 DEF Pipes
    <2>3. QED
      BY <1>0, <1>3, <2>2 DEF Pipes
  <1>4. CASE ParentRead(p)
    <2>1. CASE PassThrough(p)
      <3>1. PICK line \in OpenLine : toServer'[p] \in {toServer[p], Append(toServer[p], line)}
        BY <2>1 DEF PassThrough, TypeOK
      <3>2. line \in Line /\ line \notin Call
        BY DEF Line, Call, OpenLine
      <3>3. UNCHANGED <<serving, fromServer>>
        BY <2>1 DEF PassThrough
      <3>4. QED
        BY <1>1, <1>2, <3>1, <3>2, <3>3 DEF Given
    <2>2. QED
      BY <1>1, <1>4, <2>1 DEF ParentRead, RejectMalformed, RefuseInFlight, Refuse, AcceptCall, CloseInput, serverVars
  <1>5. CASE ParentStep(p)
    <2>1. CASE Forward(p) /\ alive[p]
      <3>1. cur[p] \in Call /\ cur[p] \in Line
        BY <2>1 DEF Forward, TaskInv, Line
      <3>2. /\ toServer'[p] = Append(toServer[p], cur[p]) /\ forwards'[cur[p]] > 0
            /\ UNCHANGED <<serving, fromServer>>
        BY <2>1, <3>1 DEF Forward, TypeOK
      <3>3. QED
        BY <1>2, <3>1, <3>2 DEF Given
    <2>2. CASE ~(Forward(p) /\ alive[p])
      BY <1>1, <1>5, <2>2
      DEF ParentStep, CheckNonce, EnsureLease, PanicOnId, WriteRefusal, InsertRequested, Register, Forward, serverVars
    <2>3. QED
      BY <2>1, <2>2
  <1>6. CASE ServerStep(p)
    <2>1. CASE ServerRead(p)
      <3>1. /\ toServer[p] # <<>> /\ toServer'[p] = Tail(toServer[p])
            /\ serving'[p] = serving[p] \cup {Head(toServer[p])} /\ fromServer'[p] = fromServer[p]
        BY <2>1 DEF ServerRead, TypeOK
      <3>2. \A k \in 1..Len(Tail(toServer[p])) :
                k + 1 \in 1..Len(toServer[p]) /\ Tail(toServer[p])[k] = toServer[p][k + 1]
        BY <1>0, <3>1
      <3>3. Head(toServer[p]) = toServer[p][1] /\ 1 \in 1..Len(toServer[p])
        BY <1>0, <3>1
      <3>4. QED
        BY <1>0, <3>1, <3>2, <3>3 DEF Pipes
    <2>2. ASSUME NEW line \in Line, ServerAnswer(p, line)
          PROVE  Pipes(forwards', toServer'[p], serving'[p], fromServer'[p])
      <3>1. PICK failed \in BOOLEAN :
                fromServer' = [fromServer EXCEPT ![p] =
                    Append(@, [id |-> line.id, failed |-> failed, re |-> line])]
        BY <2>2 DEF ServerAnswer
      <3> DEFINE m == [id |-> line.id, failed |-> failed, re |-> line]
      <3>2. m \in Message
        BY DEF Line, Call, OpenLine, Message
      <3>3. m.re = line /\ Given(forwards, line)
        BY <2>2 DEF ServerAnswer, Pipes
      <3>4. /\ fromServer'[p] = Append(fromServer[p], m) /\ toServer'[p] = toServer[p]
            /\ serving'[p] \subseteq serving[p]
        BY <2>2, <3>1 DEF ServerAnswer, TypeOK
      <3> HIDE DEF m
      <3>5. QED
        BY <1>3, <3>2, <3>3, <3>4
    <2>3. CASE ServerRequest(p)
      <3>1. PICK id \in ServerIds :
                fromServer' = [fromServer EXCEPT ![p] =
                    Append(@, [id |-> id, failed |-> FALSE, re |-> None])]
        BY <2>3 DEF ServerRequest
      <3> DEFINE m == [id |-> id, failed |-> FALSE, re |-> None]
      <3>2. m \in Message /\ m.re = None
        BY DEF Message
      <3>3. /\ fromServer'[p] = Append(fromServer[p], m) /\ toServer'[p] = toServer[p]
            /\ serving'[p] = serving[p]
        BY <2>3, <3>1 DEF ServerRequest, TypeOK
      <3> HIDE DEF m
      <3>4. QED
        BY <1>3, <3>2, <3>3, NotNone DEF Given
    <2>4. CASE ServerExit(p)
      <3>1. toServer'[p] = <<>> /\ serving'[p] = {} /\ fromServer'[p] = fromServer[p]
        BY <2>4 DEF ServerExit, TypeOK
      <3>2. QED
        BY <1>0, <3>1 DEF Pipes
    <2>5. QED
      BY <1>6, <2>1, <2>2, <2>3, <2>4 DEF ServerStep
  <1>7. CASE ChildStep(p) \/ LoseOutput(p)
    <2>1. CASE TakeMessage(p)
      <3>1. /\ fromServer[p] # <<>> /\ fromServer'[p] = Tail(fromServer[p])
            /\ UNCHANGED <<toServer, serving>>
        BY <2>1 DEF TakeMessage, TypeOK
      <3>2. \A k \in 1..Len(Tail(fromServer[p])) :
                k + 1 \in 1..Len(fromServer[p]) /\ Tail(fromServer[p])[k] = fromServer[p][k + 1]
        BY <1>0, <3>1
      <3>3. QED
        BY <1>0, <3>1, <3>2 DEF Pipes
    <2>2. QED
      BY <1>1, <1>7, <2>1 DEF ChildStep, SealTerminal, RelayMessage, EndOfOutput, LoseOutput, EndTask, serverVars
  <1>8. CASE Halt(p)
    <2>1. toServer'[p] = <<>> /\ serving'[p] = {} /\ fromServer'[p] = <<>>
      BY <1>8 DEF Halt, TypeOK
    <2>2. QED
      BY <2>1 DEF Pipes
  <1>9. CASE Start(p) \/ ClientStep(p)
    BY <1>1, <1>9 DEF Start, ClientStep, serverVars
  <1>10. QED
    BY <1>4, <1>5, <1>6, <1>7, <1>8, <1>9

(* ... and of the others, which the step leaves alone.                      *)
LEMMA PipesFrame ==
    ASSUME NEW q \in Procs, Pipes(forwards, toServer[q], serving[q], fromServer[q]), FlowSame(q),
           \A c : Given(forwards, c) => Given(forwards', c)
    PROVE  Pipes(forwards', toServer'[q], serving'[q], fromServer'[q])
  BY DEF FlowSame, Pipes

LEMMA GivenStep ==
    DistinctIds /\ TypeOK /\ TaskInv /\ FlowInv /\ GivenInv /\ [Next]_vars => GivenInv'
  <1> SUFFICES ASSUME DistinctIds, TypeOK, TaskInv, FlowInv, GivenInv, [Next]_vars
               PROVE  GivenInv'
    OBVIOUS
  <1>0. \A c : Given(forwards, c) => Given(forwards', c)
    BY GivenStays
  <1>1. \A q \in Procs : Pipes(forwards', toServer'[q], serving'[q], fromServer'[q])
    <2>1. ASSUME NEW p \in Procs,
                 ParentRead(p) \/ ParentStep(p) \/ ServerStep(p) \/ ChildStep(p) \/ LoseOutput(p)
               \/ ClientStep(p) \/ Halt(p) \/ Start(p)
          PROVE  \A q \in Procs : Pipes(forwards', toServer'[q], serving'[q], fromServer'[q])
      <3>1. ASSUME NEW q \in Procs, q # p
            PROVE  Pipes(forwards', toServer'[q], serving'[q], fromServer'[q])
        BY <1>0, <2>1, <3>1, OthersFlow, PipesFrame DEF GivenInv
      <3>2. Pipes(forwards', toServer'[p], serving'[p], fromServer'[p])
        BY <1>0, <2>1, PipesStep DEF GivenInv
      <3>3. QED
        BY <3>1, <3>2
    <2>2. CASE UNCHANGED vars
      BY <1>0, <2>2 DEF vars, serverVars, GivenInv, Pipes
    <2>3. QED
      BY <2>1, <2>2 DEF Next, Crash, Exit
  <1>2. ASSUME UNCHANGED <<log, cpc, sealing>>
        PROVE  GivenInv'
    <2>1. Rows' = Rows
      BY <1>2 DEF Rows
    <2>2. QED
      BY <1>0, <1>1, <1>2, <2>1 DEF GivenInv
  <1>3. ASSUME NEW p \in Procs, InsertRequested(p), log' # log
        PROVE  GivenInv'
    <2>1. InsertLocalEvent(cur[p], "SEAL_REQUESTED", cur[p], DeviceKey) /\ UNCHANGED <<cpc, sealing>>
      BY <1>3 DEF InsertRequested, childVars
    <2>2. PICK r : Rows' = Rows \cup {r} /\ r.status = "SEAL_REQUESTED"
      BY <2>1, RowsGrow
    <2>3. QED
      BY <1>0, <1>1, <2>1, <2>2 DEF GivenInv, Terminal
  <1>4. ASSUME NEW p \in Procs, TakeMessage(p)
        PROVE  GivenInv'
    <2>1. /\ msg'[p] = Head(fromServer[p]) /\ fromServer[p] # <<>>
          /\ cpc'[p] = "seal" => sealing'[p] = msg'[p].re
      BY <1>4, TakeFlow DEF FlowInv, TakeMessage
    <2>2. Given(forwards, Head(fromServer[p]).re)
      <3>1. Head(fromServer[p]) = fromServer[p][1] /\ 1 \in 1..Len(fromServer[p])
        BY <2>1, PipesTyped
      <3>2. QED
        BY <3>1 DEF GivenInv, Pipes
    <2>3. cpc'[p] = "seal" => Given(forwards', sealing'[p])
      BY <1>0, <2>1, <2>2
    <2>4. /\ UNCHANGED log
          /\ \A q \in Procs : q # p => cpc'[q] = cpc[q] /\ sealing'[q] = sealing[q]
      BY <1>4 DEF TakeMessage, TypeOK
    <2>5. Rows' = Rows
      BY <2>4 DEF Rows
    <2>6. QED
      BY <1>0, <1>1, <2>3, <2>4, <2>5 DEF GivenInv
  <1>5. ASSUME NEW p \in Procs, SealTerminal(p)
        PROVE  GivenInv'
    <2>1. /\ InsertLocalEvent(sealing[p], Outcome(msg[p]), msg[p], DeviceKey)
          /\ cpc[p] = "seal" /\ cpc' = [cpc EXCEPT ![p] = "relay"]
          /\ sealing' = [sealing EXCEPT ![p] = None]
      BY <1>5 DEF SealTerminal
    <2>2. PICK r : Rows' = Rows \cup {r} /\ r.nonce = sealing[p]
      BY <2>1, RowsGrow
    <2>3. Given(forwards, r.nonce)
      BY <2>1, <2>2 DEF GivenInv
    <2>4. \A q \in Procs : cpc'[q] = "seal" => cpc[q] = "seal" /\ sealing'[q] = sealing[q]
      BY <2>1 DEF TypeOK
    <2>5. QED
      BY <1>0, <1>1, <2>2, <2>3, <2>4 DEF GivenInv
  <1>6. ASSUME NEW p \in Procs, RelayMessage(p) \/ EndTask(p) \/ Halt(p)
        PROVE  GivenInv'
    <2>1. UNCHANGED log
      BY <1>6 DEF RelayMessage, EndTask, Halt
    <2>2. Rows' = Rows
      BY <2>1 DEF Rows
    <2>3. \A q \in Procs : cpc'[q] = "seal" => cpc[q] = "seal" /\ sealing'[q] = sealing[q]
      BY <1>6 DEF RelayMessage, EndTask, Halt, TypeOK
    <2>4. QED
      BY <1>0, <1>1, <2>2, <2>3 DEF GivenInv
  <1>7. ASSUME NEW p \in Procs, ParentRead(p) \/ ParentStep(p) \/ ServerStep(p) \/ Start(p) \/ ClientStep(p)
        PROVE  GivenInv'
    <2>1. CASE InsertRequested(p)
      BY <1>2, <1>3, <2>1 DEF InsertRequested, childVars
    <2>2. CASE ~InsertRequested(p)
      BY <1>2, <1>7, <2>2
      DEF ParentRead, RejectMalformed, PassThrough, RefuseInFlight, Refuse, AcceptCall, CloseInput,
          ParentStep, CheckNonce, EnsureLease, PanicOnId, WriteRefusal, Register, Forward,
          ServerStep, ServerRead, ServerAnswer, ServerRequest, ServerExit, Start, ClientStep,
          childVars
    <2>3. QED
      BY <2>1, <2>2
  <1>8. CASE UNCHANGED vars
    BY <1>2, <1>8 DEF vars, childVars
  <1>9. QED
    BY <1>4, <1>5, <1>6, <1>7, <1>8 DEF Next, ChildStep, EndOfOutput, LoseOutput, Crash, Exit

(* Where the ids of the calls are used by nothing else, every outcome in    *)
(* the log is that of a call a server was given.                            *)
LEMMA GivenCorrect ==
    ASSUME DistinctIds
    PROVE  Spec => []GivenInv
  <1>1. Init => FlowInv /\ GivenInv
    BY DEF Init, FlowInv, Flow, Handled, FlowOK, OfPending, OneForId, GivenInv, Pipes, Rows
  <1>2. TypeOK /\ TaskInv /\ FlowInv /\ [Next]_vars => FlowInv'
    BY FlowStep
  <1>3. TypeOK /\ TaskInv /\ FlowInv /\ GivenInv /\ [Next]_vars => GivenInv'
    BY GivenStep
  <1>4. QED
    BY <1>1, <1>2, <1>3, TypeCorrect, PTL DEF Spec

LEMMA LoggedCalls ==
    ASSUME TypeOK
    PROVE  \A r \in Rows : r \in AuditRow
  BY DEF TypeOK, Rows, AuditRow

(* ... in particular no call is logged as completed that never ran.         *)
THEOREM CompletedWasForwardedCorrect ==
    ASSUME DistinctIds
    PROVE  Spec => []CompletedWasForwarded
  <1>1. TypeOK /\ GivenInv => CompletedWasForwarded
    BY LoggedCalls DEF GivenInv, Given, CompletedWasForwarded, Terminal, AuditRow, Row
  <1>2. QED
    BY <1>1, TypeCorrect, GivenCorrect, PTL
=============================================================================
