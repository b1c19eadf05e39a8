--------------------------- MODULE SealQueueProofs ---------------------------
(***************************************************************************)
(* Theorems about SealQueue, for any number of workers, calls and keys.    *)
(***************************************************************************)
EXTENDS SealQueue, WellFoundedInduction, TLAPS

(* What a worker or the network holds comes from the log, and what a worker *)
(* has been answered comes from the ledger.                                 *)
FlightInv ==
    /\ \A w \in Workers : call[w].st # "idle" => call[w].row \in Rows
    /\ \A w \in Workers : call[w].st = "answered" => call[w].answer \in Entries \cup {Rejected}
    /\ late \subseteq Rows

LEMMA RowsTyped == QueueTypeOK => Rows \subseteq Event
  <1> SUFFICES ASSUME QueueTypeOK, NEW r \in Rows
               PROVE  r \in Event
    OBVIOUS
  <1>1. PICK i \in DOMAIN log : r = log[i]
    BY DEF Rows
  <1>2. QED
    BY <1>1 DEF QueueTypeOK

LEMMA EntriesTyped == QueueTypeOK => Entries \subseteq Entry
  <1> SUFFICES ASSUME QueueTypeOK, NEW e \in Entries
               PROVE  e \in Entry
    OBVIOUS
  <1>1. PICK i \in DOMAIN events : e = events[i]
    BY DEF Entries
  <1>2. QED
    BY <1>1 DEF QueueTypeOK

(* What an append to a table leaves of it.                                  *)
LEMMA LogGrows ==
    ASSUME QueueTypeOK, AuditNext
    PROVE  /\ log' \in Seq(Event)
           /\ \E r \in Event : Record(r) /\ Rows' = Rows \cup {r}
  <1>1. PICK r \in Event : Record(r)
    BY DEF AuditNext, Event
  <1>2. log' = Append(log, r)
    BY <1>1 DEF Record
  <1>3. Rows' = Rows \cup {r}
    BY <1>2 DEF Rows, QueueTypeOK
  <1>4. QED
    BY <1>1, <1>2, <1>3 DEF QueueTypeOK

LEMMA NewEntryTyped ==
    ASSUME QueueTypeOK, NEW row \in Event \cup ForeignRows, NEW t \in LedgerTimes
    PROVE  NewEntry(row, t) \in Entry
  <1>1. LastHash \in Seq(Chained)
    <2>1. CASE events = <<>>
      BY <2>1 DEF LastHash, Genesis
    <2>2. CASE events # <<>>
      <3>1. events[Len(events)] \in Entry
        BY <2>2 DEF QueueTypeOK
      <3>2. QED
        BY <2>2, <3>1 DEF LastHash, Entry
    <2>3. QED
      BY <2>1, <2>2
  <1>2. [row |-> row, lts |-> t] \in Chained
    BY DEF Chained
  <1>3. Append(LastHash, [row |-> row, lts |-> t]) \in Seq(Chained)
    BY <1>1, <1>2
  <1>4. QED
    BY <1>3 DEF NewEntry, ChainHash, Entry

LEMMA EventsGrow ==
    ASSUME QueueTypeOK, NEW e \in Entry, events' = Append(events, e)
    PROVE  /\ events' \in Seq(Entry)
           /\ Entries' = Entries \cup {e}
  BY DEF QueueTypeOK, Entries

(* The handler of /seal adds one entry for the row or none, and answers     *)
(* with an entry it holds or not at all.                                    *)
LEMMA SealTypes ==
    ASSUME QueueTypeOK, NEW row \in Event, NEW a, SealEvent(row, a)
    PROVE  /\ events' \in Seq(Entry)
           /\ a = Rejected \/ (a \in Entry /\ a \in Entries' /\ a.row = row)
           /\ \/ UNCHANGED events
              \/ ~IsStored(row) /\ a.row = row /\ events' = Append(events, a) /\ Entries' = Entries \cup {a}
  <1>1. CASE a = Rejected /\ UNCHANGED events
    BY <1>1 DEF QueueTypeOK
  <1>2. CASE /\ Accepts(row) /\ ~IsStored(row)
             /\ \E t \in LedgerTimes : a = NewEntry(row, t)
             /\ events' = Append(events, a)
    <2>1. a \in Entry /\ a.row = row
      BY <1>2, NewEntryTyped DEF NewEntry
    <2>2. QED
      BY <1>2, <2>1, EventsGrow
  <1>3. CASE /\ Accepts(row)
             /\ a \in Entries /\ a.row = row
             /\ UNCHANGED events
    <2>1. a \in Entry
      BY <1>3, EntriesTyped
    <2>2. QED
      BY <1>3, <2>1 DEF Entries, QueueTypeOK
  <1>4. QED
    BY <1>1, <1>2, <1>3 DEF SealEvent

LEMMA LeastNat ==
    ASSUME NEW T, T \subseteq Nat, T # {}
    PROVE  \E x \in T : \A y \in T : x <= y
  <1>1. PICK x \in T : \A y \in T : ~(<<y, x>> \in OpToRel(<, Nat))
    BY NatLessThanWellFounded, WFMin
  <1>2. \A y \in T : <<y, x>> \in Nat \X Nat /\ ~(y < x)
    BY <1>1 DEF OpToRel
  <1>3. \A y \in T : x <= y
    <2>1. TAKE y \in T
    <2>2. x \in Nat /\ y \in Nat /\ ~(y < x)
      BY <1>2
    <2>3. QED
      BY <2>2
  <1>4. QED
    BY <1>3

(* ORDER BY local_timestamp LIMIT 1 finds a row when there is one.          *)
LEMMA OldestIsLeast ==
    ASSUME QueueTypeOK, Unacked # {}
    PROVE  /\ Oldest \in Unacked
           /\ \A j \in Unacked : \/ log[Oldest].ts < log[j].ts
                                 \/ log[Oldest].ts = log[j].ts /\ Oldest <= j
  <1>1. \A i \in DOMAIN log : i \in Nat /\ log[i].ts \in Nat
    <2>1. TAKE i \in DOMAIN log
    <2>2. i \in Nat /\ log[i] \in Event
      BY DEF QueueTypeOK
    <2>3. log[i].ts \in Times
      BY <2>2 DEF Event, Row
    <2>4. QED
      BY <2>2, <2>3, ClockAssumption
  <1>2. Unacked \subseteq DOMAIN log
    BY DEF Unacked
  <1>3. PICK i \in Unacked : \A j \in Unacked : log[i].ts <= log[j].ts
    <2> DEFINE T == {log[i].ts : i \in Unacked}
    <2>1. T \subseteq Nat /\ T # {}
      BY <1>1, <1>2
    <2>2. PICK t \in T : \A u \in T : t <= u
      BY <2>1, LeastNat
    <2>3. QED
      BY <2>2
  <1>4. PICK k \in Unacked : /\ log[k].ts = log[i].ts
                             /\ \A j \in Unacked : log[j].ts = log[i].ts => k <= j
    <2> DEFINE T == {j \in Unacked : log[j].ts = log[i].ts}
    <2>1. T \subseteq Nat /\ T # {}
      BY <1>1, <1>2
    <2>2. PICK k \in T : \A j \in T : k <= j
      BY <2>1, LeastNat
    <2>3. QED
      BY <2>2
  <1>5. \A j \in Unacked : log[k].ts < log[j].ts \/ (log[k].ts = log[j].ts /\ k <= j)
    BY <1>1, <1>2, <1>3, <1>4
  <1>6. QED
    BY <1>5 DEF Oldest

LEMMA QueueTypeStep == QueueTypeOK /\ FlightInv /\ [QueueNext]_queueVars => QueueTypeOK'
  <1> SUFFICES ASSUME QueueTypeOK, FlightInv, [QueueNext]_queueVars
               PROVE  QueueTypeOK'
    OBVIOUS
  <1>1. CASE Insert
    <2>1. log' \in Seq(Event)
      BY <1>1, LogGrows DEF Insert
    <2>2. QED
      BY <1>1, <2>1 DEF Insert, QueueTypeOK
  <1>2. CASE ForeignSeal
    <2>1. PICK row \in ForeignRows, t \in LedgerTimes : events' = Append(events, NewEntry(row, t))
      BY <1>2 DEF ForeignSeal
    <2>2. events' \in Seq(Entry)
      BY <2>1, NewEntryTyped, EventsGrow
    <2>3. QED
      BY <1>2, <2>2 DEF ForeignSeal, QueueTypeOK
  <1>3. CASE Reconfigure
    BY <1>3 DEF Reconfigure, QueueTypeOK
  <1>4. ASSUME NEW w \in Workers, SendOldest(w)
        PROVE  QueueTypeOK'
    <2>1. Oldest \in DOMAIN log
      BY <1>4, OldestIsLeast DEF SendOldest, Unacked
    <2>2. log[Oldest] \in Event
      BY <2>1 DEF QueueTypeOK
    <2>3. QED
      BY <1>4, <2>2 DEF SendOldest, QueueTypeOK
  <1>5. ASSUME NEW w \in Workers, GiveUp(w)
        PROVE  QueueTypeOK'
    <2>1. call' \in [Workers -> [st: {"idle", "sent", "answered"}, row: Event \cup {NoRow},
                                 answer: Entry \cup {Rejected}]]
      BY <1>5 DEF GiveUp, IdleCall, QueueTypeOK
    <2>2. late' \subseteq Event
      BY <1>5, RowsTyped DEF GiveUp, FlightInv, QueueTypeOK
    <2>3. QED
      BY <1>5, <2>1, <2>2 DEF GiveUp, QueueTypeOK
  <1>6. ASSUME NEW w \in Workers, StoreReceipt(w)
        PROVE  QueueTypeOK'
    <2>1. call' \in [Workers -> [st: {"idle", "sent", "answered"}, row: Event \cup {NoRow},
                                 answer: Entry \cup {Rejected}]]
      BY <1>6 DEF StoreReceipt, IdleCall, QueueTypeOK
    <2>2. receipts' \subseteq Entry
      BY <1>6 DEF StoreReceipt, Verified, QueueTypeOK
    <2>3. QED
      BY <1>6, <2>1, <2>2 DEF StoreReceipt, QueueTypeOK
  <1>7. ASSUME NEW w \in Workers, AnswerSeal(w)
        PROVE  QueueTypeOK'
    <2>1. PICK a : /\ SealEvent(call[w].row, a)
                   /\ call' = [call EXCEPT ![w].st = "answered", ![w].answer = a]
      BY <1>7 DEF AnswerSeal
    <2>2. call[w].row \in Event
      BY <1>7, RowsTyped DEF AnswerSeal, FlightInv
    <2>3. events' \in Seq(Entry) /\ a \in Entry \cup {Rejected}
      BY <2>1, <2>2, SealTypes
    <2>4. call' \in [Workers -> [st: {"idle", "sent", "answered"}, row: Event \cup {NoRow},
                                 answer: Entry \cup {Rejected}]]
      BY <2>1, <2>3 DEF QueueTypeOK
    <2>5. QED
      BY <1>7, <2>3, <2>4 DEF AnswerSeal, QueueTypeOK
  <1>8. ASSUME NEW row \in late, LateSeal(row)
        PROVE  QueueTypeOK'
    <2>1. events' \in Seq(Entry)
      BY <1>8, SealTypes DEF LateSeal, QueueTypeOK
    <2>2. QED
      BY <1>8, <2>1 DEF LateSeal, QueueTypeOK
  <1>9. CASE UNCHANGED queueVars
    BY <1>9 DEF queueVars, QueueTypeOK
  <1>10. QED
    BY <1>1, <1>2, <1>3, <1>4, <1>5, <1>6, <1>7, <1>8, <1>9 DEF QueueNext

(* Tables only grow.                                                        *)
LEMMA TablesGrow ==
    ASSUME QueueTypeOK, FlightInv, [QueueNext]_queueVars
    PROVE  Rows \subseteq Rows' /\ Entries \subseteq Entries'
  <1>0. UNCHANGED events => Entries' = Entries
    BY DEF Entries
  <1>00. UNCHANGED log => Rows' = Rows
    BY DEF Rows
  <1>1. CASE Insert
    BY <1>0, <1>1, LogGrows DEF Insert
  <1>2. CASE ForeignSeal
    <2>1. PICK row \in ForeignRows, t \in LedgerTimes : events' = Append(events, NewEntry(row, t))
      BY <1>2 DEF ForeignSeal
    <2>2. QED
      BY <1>00, <1>2, <2>1, NewEntryTyped, EventsGrow DEF ForeignSeal
  <1>3. ASSUME NEW w \in Workers, AnswerSeal(w)
        PROVE  Rows \subseteq Rows' /\ Entries \subseteq Entries'
    <2>1. PICK a : SealEvent(call[w].row, a) /\ UNCHANGED log
      BY <1>3 DEF AnswerSeal
    <2>2. call[w].row \in Event
      BY <1>3, RowsTyped DEF AnswerSeal, FlightInv
    <2>3. QED
      BY <1>0, <1>00, <2>1, <2>2, SealTypes
  <1>4. ASSUME NEW row \in late, LateSeal(row)
        PROVE  Rows \subseteq Rows' /\ Entries \subseteq Entries'
    BY <1>0, <1>00, <1>4, SealTypes DEF LateSeal, QueueTypeOK
  <1>5. ASSUME NEW w \in Workers, SendOldest(w) \/ GiveUp(w) \/ StoreReceipt(w)
        PROVE  Rows \subseteq Rows' /\ Entries \subseteq Entries'
    BY <1>0, <1>00, <1>5 DEF SendOldest, GiveUp, StoreReceipt
  <1>6. CASE Reconfigure \/ UNCHANGED queueVars
    BY <1>0, <1>00, <1>6 DEF Reconfigure, queueVars
  <1>7. QED
    BY <1>1, <1>2, <1>3, <1>4, <1>5, <1>6 DEF QueueNext

LEMMA FlightStep == QueueTypeOK /\ FlightInv /\ [QueueNext]_queueVars => FlightInv'
  <1> SUFFICES ASSUME QueueTypeOK, FlightInv, [QueueNext]_queueVars
               PROVE  FlightInv'
    OBVIOUS
  <1>0. Rows \subseteq Rows' /\ Entries \subseteq Entries'
    BY TablesGrow
  <1>1. ASSUME UNCHANGED <<call, late>>
        PROVE  FlightInv'
    BY <1>0, <1>1 DEF FlightInv
  <1>2. ASSUME NEW w \in Workers, SendOldest(w)
        PROVE  FlightInv'
    <2>1. Oldest \in DOMAIN log
      BY <1>2, OldestIsLeast DEF SendOldest, Unacked
    <2>2. PICK r \in Rows : r = log[Oldest]
      BY <2>1 DEF Rows
    <2>3. /\ call' = [call EXCEPT ![w] = [st |-> "sent", row |-> r, answer |-> Rejected]]
          /\ UNCHANGED late
      BY <1>2, <2>2 DEF SendOldest
    <2>4. QED
      BY <1>0, <2>3 DEF FlightInv, QueueTypeOK
  <1>3. ASSUME NEW w \in Workers, GiveUp(w)
        PROVE  FlightInv'
    <2>1. late' \subseteq Rows
      BY <1>3 DEF GiveUp, FlightInv
    <2>2. QED
      BY <1>0, <1>3, <2>1 DEF GiveUp, IdleCall, FlightInv, QueueTypeOK
  <1>4. ASSUME NEW w \in Workers, StoreReceipt(w)
        PROVE  FlightInv'
    BY <1>0, <1>4 DEF StoreReceipt, IdleCall, FlightInv, QueueTypeOK
  <1>5. ASSUME NEW w \in Workers, AnswerSeal(w)
        PROVE  FlightInv'
    <2>1. PICK a : /\ SealEvent(call[w].row, a)
                   /\ call' = [call EXCEPT ![w].st = "answered", ![w].answer = a]
                   /\ UNCHANGED late
      BY <1>5 DEF AnswerSeal
    <2>2. call[w].st = "sent" /\ call[w].row \in Event
      BY <1>5, RowsTyped DEF AnswerSeal, FlightInv
    <2>3. a \in Entries' \cup {Rejected}
      BY <2>1, <2>2, SealTypes
    <2>4. /\ call'[w].st = "answered" /\ call'[w].row = call[w].row /\ call'[w].answer = a
          /\ \A v \in Workers : v # w => call'[v] = call[v]
      BY <2>1 DEF QueueTypeOK
    <2>5. \A v \in Workers : call'[v].st # "idle" => call'[v].row \in Rows'
      BY <1>0, <2>2, <2>4 DEF FlightInv
    <2>6. Rejected' = Rejected
      BY DEF Rejected, Genesis
    <2>7. \A v \in Workers : call'[v].st = "answered" => call'[v].answer \in Entries' \cup {Rejected}
      BY <1>0, <2>3, <2>4 DEF FlightInv
    <2>8. QED
      BY <1>0, <2>1, <2>5, <2>6, <2>7 DEF FlightInv
  <1>6. ASSUME NEW row \in late, LateSeal(row)
        PROVE  FlightInv'
    BY <1>0, <1>6 DEF LateSeal, FlightInv
  <1>7. QED
    BY <1>1, <1>2, <1>3, <1>4, <1>5, <1>6
    DEF QueueNext, Insert, ForeignSeal, Reconfigure, queueVars

(* Every state is of its type.                                              *)
THEOREM QueueTypeCorrect == QueueSpec => [](QueueTypeOK /\ FlightInv)
  <1>1. QueueInit => QueueTypeOK /\ FlightInv
    BY DEF QueueInit, AuditInit, QueueTypeOK, FlightInv, IdleCall
  <1>2. QueueTypeOK /\ FlightInv /\ [QueueNext]_queueVars => (QueueTypeOK /\ FlightInv)'
    BY QueueTypeStep, FlightStep
  <1>3. QED
    BY <1>1, <1>2, PTL DEF QueueSpec
-----------------------------------------------------------------------------
(* The ledger *)

LEMMA ForeignIsNotEvent == \A f \in ForeignRows : f \notin Event
  BY SealQueueAssumption DEF SameKey

(* A step leaves the ledger alone or adds one entry for a row it does not   *)
(* hold, which the device has logged or another device has sent.            *)
LEMMA LedgerStep ==
    ASSUME QueueTypeOK, FlightInv, [QueueNext]_queueVars
    PROVE  \/ UNCHANGED events
           \/ \E row \in Rows \cup ForeignRows, t \in LedgerTimes :
                 ~IsStored(row) /\ events' = Append(events, NewEntry(row, t))
  <1>1. ASSUME NEW row \in Rows, NEW a, SealEvent(row, a)
        PROVE  \/ UNCHANGED events
               \/ \E t \in LedgerTimes :
                     ~IsStored(row) /\ events' = Append(events, NewEntry(row, t))
    BY <1>1 DEF SealEvent
  <1>2. ASSUME NEW w \in Workers, AnswerSeal(w)
        PROVE  \/ UNCHANGED events
               \/ \E row \in Rows, t \in LedgerTimes :
                     ~IsStored(row) /\ events' = Append(events, NewEntry(row, t))
    BY <1>1, <1>2 DEF AnswerSeal, FlightInv
  <1>3. ASSUME NEW row \in late, LateSeal(row)
        PROVE  \/ UNCHANGED events
               \/ \E r \in Rows, t \in LedgerTimes :
                     ~IsStored(r) /\ events' = Append(events, NewEntry(r, t))
    BY <1>1, <1>3 DEF LateSeal, FlightInv
  <1>4. CASE ForeignSeal
    BY <1>4 DEF ForeignSeal
  <1>5. QED
    BY <1>2, <1>3, <1>4
    DEF QueueNext, Insert, Reconfigure, SendOldest, GiveUp, StoreReceipt, queueVars

LEMMA AppendedEntry ==
    ASSUME QueueTypeOK, NEW row \in Rows \cup ForeignRows, NEW t \in LedgerTimes,
           events' = Append(events, NewEntry(row, t))
    PROVE  /\ Len(events') = Len(events) + 1 /\ Len(events) \in Nat
           /\ DOMAIN events = 1..Len(events) /\ DOMAIN events' = 1..(Len(events) + 1)
           /\ events'[Len(events) + 1] = NewEntry(row, t)
           /\ \A i \in 1..Len(events) : events'[i] = events[i]
  BY RowsTyped, NewEntryTyped DEF QueueTypeOK

LEMMA SealedOnceStep == QueueTypeOK /\ FlightInv /\ SealedOnce /\ [QueueNext]_queueVars => SealedOnce'
  <1> SUFFICES ASSUME QueueTypeOK, FlightInv, SealedOnce, [QueueNext]_queueVars
               PROVE  SealedOnce'
    OBVIOUS
  <1>1. CASE UNCHANGED events
    BY <1>1 DEF SealedOnce, SameKey
  <1>2. ASSUME NEW row \in Rows \cup ForeignRows, NEW t \in LedgerTimes,
               ~IsStored(row), events' = Append(events, NewEntry(row, t))
        PROVE  SealedOnce'
    <2> DEFINE n == Len(events)
    <2>1. /\ DOMAIN events = 1..n /\ DOMAIN events' = 1..(n + 1) /\ n \in Nat
          /\ events'[n + 1].row = row
          /\ \A i \in 1..n : events'[i] = events[i]
      BY <1>2, AppendedEntry DEF NewEntry
    <2>2. \A i \in 1..n : ~SameKey(events[i].row, row) /\ ~SameKey(row, events[i].row)
      BY <1>2, <2>1 DEF IsStored, Entries, SameKey
    <2> HIDE DEF n
    <2>3. \A i, j \in 1..(n + 1) : SameKey(events'[i].row, events'[j].row) => i = j
      <3>1. TAKE i, j \in 1..(n + 1)
      <3>2. CASE i = n + 1 /\ j = n + 1
        BY <3>2
      <3>3. CASE i \in 1..n /\ j \in 1..n
        BY <2>1, <3>3 DEF SealedOnce
      <3>4. CASE (i \in 1..n /\ j = n + 1) \/ (i = n + 1 /\ j \in 1..n)
        BY <2>1, <2>2, <3>4
      <3>5. QED
        BY <2>1, <3>2, <3>3, <3>4
    <2>4. QED
      BY <2>1, <2>3 DEF SealedOnce, SameKey
  <1>3. QED
    BY <1>1, <1>2, LedgerStep

(* However often an event is sent, the ledger holds it once.                *)
THEOREM SealedOnceCorrect == QueueSpec => []SealedOnce
  <1>1. QueueInit => SealedOnce
    BY DEF QueueInit, SealedOnce
  <1>2. QueueTypeOK /\ FlightInv /\ SealedOnce /\ [QueueNext]_queueVars => SealedOnce'
    BY SealedOnceStep
  <1>3. QED
    BY <1>1, <1>2, QueueTypeCorrect, PTL DEF QueueSpec

LEMMA ChainStep == QueueTypeOK /\ FlightInv /\ ChainCommits /\ [QueueNext]_queueVars => ChainCommits'
  <1> SUFFICES ASSUME QueueTypeOK, FlightInv, ChainCommits, [QueueNext]_queueVars
               PROVE  ChainCommits'
    OBVIOUS
  <1>1. CASE UNCHANGED events
    BY <1>1 DEF ChainCommits
  <1>2. ASSUME NEW row \in Rows \cup ForeignRows, NEW t \in LedgerTimes,
               events' = Append(events, NewEntry(row, t))
        PROVE  ChainCommits'
    <2> DEFINE n == Len(events)
               link(e) == [row |-> e.row, lts |-> e.lts]
    <2>1. /\ DOMAIN events = 1..n /\ DOMAIN events' = 1..(n + 1) /\ n \in Nat
          /\ events'[n + 1] = NewEntry(row, t)
          /\ \A i \in 1..n : events'[i] = events[i]
      BY <1>2, AppendedEntry
    <2>2. LastHash = [j \in 1..n |-> link(events[j])]
      <3>1. CASE n = 0
        <4>1. events = <<>>
          BY <3>1 DEF QueueTypeOK
        <4>2. [j \in 1..n |-> link(events[j])] = <<>>
          BY <3>1
        <4>3. QED
          BY <4>1, <4>2 DEF LastHash, Genesis
      <3>2. CASE n # 0
        <4>1. events # <<>> /\ n \in DOMAIN events
          BY <2>1, <3>2
        <4>2. QED
          BY <4>1 DEF LastHash, ChainCommits
      <3>3. QED
        BY <3>1, <3>2
    <2>3. events'[n + 1].chain = Append(LastHash, [row |-> row, lts |-> t])
      BY <2>1 DEF NewEntry, ChainHash
    <2>4. events'[n + 1].row = row /\ events'[n + 1].lts = t
      BY <2>1 DEF NewEntry
    <2>5. events'[n + 1].chain = [j \in 1..(n + 1) |-> link(events'[j])]
      <3>1. Append(LastHash, [row |-> row, lts |-> t]) =
                [j \in 1..(n + 1) |-> IF j = n + 1 THEN [row |-> row, lts |-> t]
                                      ELSE link(events[j])]
        BY <2>1, <2>2
      <3>2. \A j \in 1..(n + 1) :
                (IF j = n + 1 THEN [row |-> row, lts |-> t] ELSE link(events[j])) = link(events'[j])
        BY <2>1, <2>4
      <3>3. QED
        BY <2>3, <3>1, <3>2
    <2>6. ASSUME NEW i \in 1..n
          PROVE  events'[i].chain = [j \in 1..i |-> link(events'[j])]
      <3>1. events[i].chain = [j \in 1..i |-> link(events[j])]
        BY <2>1, <2>6 DEF ChainCommits
      <3>2. \A j \in 1..i : events'[j] = events[j]
        BY <2>1, <2>6
      <3>3. QED
        BY <2>1, <3>1, <3>2
    <2> HIDE DEF n
    <2>7. \A i \in 1..(n + 1) : events'[i].chain = [j \in 1..i |-> link(events'[j])]
      BY <2>1, <2>5, <2>6
    <2>8. QED
      BY <2>1, <2>7 DEF ChainCommits
  <1>3. QED
    BY <1>1, <1>2, LedgerStep

(* The chain hash of every entry commits to the whole ledger up to it.      *)
THEOREM ChainCommitsCorrect == QueueSpec => []ChainCommits
  <1>1. QueueInit => ChainCommits
    BY DEF QueueInit, ChainCommits
  <1>2. QueueTypeOK /\ FlightInv /\ ChainCommits /\ [QueueNext]_queueVars => ChainCommits'
    BY ChainStep
  <1>3. QED
    BY <1>1, <1>2, QueueTypeCorrect, PTL DEF QueueSpec

(* Every receipt a device keeps is of an entry of the ledger.               *)
THEOREM ReceiptIsOnLedgerCorrect == QueueSpec => []ReceiptIsOnLedger
  <1>1. QueueInit => ReceiptIsOnLedger
    BY DEF QueueInit, ReceiptIsOnLedger
  <1>2. QueueTypeOK /\ FlightInv /\ ReceiptIsOnLedger /\ [QueueNext]_queueVars => ReceiptIsOnLedger'
    <2> SUFFICES ASSUME QueueTypeOK, FlightInv, ReceiptIsOnLedger, [QueueNext]_queueVars
                 PROVE  receipts' \subseteq Entries'
      BY DEF ReceiptIsOnLedger
    <2>1. Entries \subseteq Entries'
      BY TablesGrow
    <2>2. receipts' \subseteq Entries
      <3>1. ASSUME NEW w \in Workers, StoreReceipt(w)
            PROVE  receipts' \subseteq Entries
        BY <3>1 DEF StoreReceipt, Verified, FlightInv, ReceiptIsOnLedger
      <3>2. CASE UNCHANGED receipts
        BY <3>2 DEF ReceiptIsOnLedger
      <3>3. QED
        BY <3>1, <3>2 DEF QueueNext, Insert, ForeignSeal, Reconfigure, SendOldest, GiveUp,
           AnswerSeal, LateSeal, queueVars
    <2>3. QED
      BY <2>1, <2>2
  <1>3. QED
    BY <1>1, <1>2, QueueTypeCorrect, PTL DEF QueueSpec
-----------------------------------------------------------------------------
(* The order of the events of a call *)

IsRequest(row, n) == row.nonce = n /\ row.status = "SEAL_REQUESTED"

RequestStored(n) == \E e \in Entries : IsRequest(e.row, n)

(* A terminal row comes after the request of its call in the log, and is    *)
(* only sent when that is on the ledger.                                    *)
OrderInv ==
    /\ \A i \in DOMAIN log : log[i].status \in Terminal =>
          \E j \in 1..(i - 1) : IsRequest(log[j], log[i].nonce) /\ log[j].ts <= log[i].ts
    /\ \A w \in Workers : (call[w].st = "sent" /\ call[w].row.status \in Terminal) =>
          RequestStored(call[w].row.nonce)
    /\ \A r \in late : r.status \in Terminal => RequestStored(r.nonce)

LEMMA LogOrderStep ==
    ASSUME QueueTypeOK, OrderInv, MonotonicClock, Insert
    PROVE  \A i \in DOMAIN log' : log'[i].status \in Terminal =>
              \E j \in 1..(i - 1) : IsRequest(log'[j], log'[i].nonce) /\ log'[j].ts <= log'[i].ts
  <1>1. PICK r \in Event : Record(r)
    BY LogGrows DEF Insert
  <1> DEFINE n == Len(log)
  <1>2. /\ n \in Nat /\ DOMAIN log = 1..n /\ DOMAIN log' = 1..(n + 1)
        /\ log'[n + 1] = r /\ \A i \in 1..n : log'[i] = log[i]
    BY <1>1 DEF Record, QueueTypeOK
  <1> HIDE DEF n
  <1>3. CASE r.status \in Terminal
    <2>1. PICK j \in 1..n : IsRequest(log[j], r.nonce)
      <3>1. HasRow(r.nonce, "SEAL_REQUESTED")
        BY <1>1, <1>3 DEF Record, Terminal
      <3>2. QED
        BY <1>2, <3>1 DEF HasRow, Rows, IsRequest
    <2>2. log[j].ts <= r.ts
      <3>1. log[j] \in Rows /\ log[j].nonce = r.nonce
        BY <1>2, <2>1 DEF Rows, IsRequest
      <3>2. QED
        BY <1>1, <3>1 DEF Record, Stamps
    <2>3. j \in 1..(n + 1 - 1) /\ IsRequest(log'[j], r.nonce) /\ log'[j].ts <= r.ts
      BY <1>2, <2>1, <2>2
    <2>4. \A i \in 1..n : log'[i].status \in Terminal =>
              \E k \in 1..(i - 1) : IsRequest(log'[k], log'[i].nonce) /\ log'[k].ts <= log'[i].ts
      <3>1. \A i \in 1..n : \A k \in 1..(i - 1) : k \in 1..n
        BY <1>2
      <3>2. QED
        BY <1>2, <3>1 DEF OrderInv
    <2>5. \A i \in DOMAIN log' : i \in 1..n \/ i = n + 1
      BY <1>2
    <2>6. QED
      BY <1>2, <2>3, <2>4, <2>5
  <1>4. CASE r.status \notin Terminal
    <2>1. \A i \in DOMAIN log' : log'[i].status \in Terminal => i \in 1..n
      BY <1>2, <1>4
    <2>2. \A i \in 1..n : \A k \in 1..(i - 1) : k \in 1..n
      BY <1>2
    <2>3. QED
      BY <1>2, <2>1, <2>2 DEF OrderInv
  <1>5. QED
    BY <1>3, <1>4

(* The head of the queue is a terminal row only when the request of its     *)
(* call, which is older, has left the queue.                                *)
LEMMA HeadOrder ==
    ASSUME QueueTypeOK, OrderInv, ReceiptIsOnLedger, Unacked # {},
           log[Oldest].status \in Terminal
    PROVE  RequestStored(log[Oldest].nonce)
  <1>1. PICK i \in Unacked : i = Oldest
    BY OldestIsLeast
  <1>2. i \in DOMAIN log
    BY DEF Unacked
  <1>3. PICK j \in 1..(i - 1) : IsRequest(log[j], log[i].nonce) /\ log[j].ts <= log[i].ts
    BY <1>1, <1>2 DEF OrderInv
  <1>4. i \in Nat /\ j \in Nat /\ j < i /\ j \in DOMAIN log
    BY <1>2 DEF QueueTypeOK
  <1>5. log[i].ts \in Nat /\ log[j].ts \in Nat
    <2>1. log[i] \in Event /\ log[j] \in Event
      BY <1>2, <1>4 DEF QueueTypeOK
    <2>2. log[i].ts \in Times /\ log[j].ts \in Times
      BY <2>1 DEF Event, Row
    <2>3. QED
      BY <2>2, ClockAssumption
  <1>6. j \notin Unacked
    <2>1. \A k \in Unacked : log[i].ts < log[k].ts \/ (log[i].ts = log[k].ts /\ i <= k)
      BY <1>1, OldestIsLeast
    <2>2. ~(log[i].ts < log[j].ts) /\ ~(i <= j)
      BY <1>3, <1>4, <1>5
    <2>3. QED
      BY <2>1, <2>2
  <1>7. PICK a \in receipts : SameKey(a.row, log[j])
    BY <1>4, <1>6 DEF Unacked, IsAcked
  <1>8. a \in Entries /\ IsRequest(a.row, log[i].nonce)
    BY <1>3, <1>7 DEF ReceiptIsOnLedger, SameKey, IsRequest
  <1>9. QED
    BY <1>1, <1>8 DEF RequestStored

LEMMA OrderStep ==
    QueueTypeOK /\ FlightInv /\ ReceiptIsOnLedger /\ OrderInv /\ MonotonicClock /\ [QueueNext]_queueVars
        => OrderInv'
  <1> SUFFICES ASSUME QueueTypeOK, FlightInv, ReceiptIsOnLedger, OrderInv, MonotonicClock, [QueueNext]_queueVars
               PROVE  OrderInv'
    OBVIOUS
  <1>1. \A n : RequestStored(n) => RequestStored(n)'
    BY TablesGrow DEF RequestStored
  <1>2. CASE Insert
    <2>1. UNCHANGED <<call, late>>
      BY <1>2 DEF Insert
    <2>2. QED
      BY <1>1, <1>2, <2>1, LogOrderStep DEF OrderInv, RequestStored
  <1>3. ASSUME NEW w \in Workers, SendOldest(w)
        PROVE  OrderInv'
    <2>1. PICK r : r = log[Oldest]
      OBVIOUS
    <2>2. /\ call' = [call EXCEPT ![w] = [st |-> "sent", row |-> r, answer |-> Rejected]]
          /\ UNCHANGED <<log, late>>
          /\ r.status \in Terminal => RequestStored(r.nonce)
      BY <1>3, <2>1, HeadOrder DEF SendOldest
    <2>3. \A v \in Workers : IF v = w THEN call'[v].row = r ELSE call'[v] = call[v]
      BY <2>2 DEF QueueTypeOK
    <2>4. \A v \in Workers : (call'[v].st = "sent" /\ call'[v].row.status \in Terminal) =>
              RequestStored(call'[v].row.nonce)
      BY <2>2, <2>3 DEF OrderInv
    <2>5. UNCHANGED events
      BY <1>3 DEF SendOldest
    <2>6. QED
      BY <2>2, <2>4, <2>5 DEF OrderInv, RequestStored, Entries
  <1>4. ASSUME NEW w \in Workers, GiveUp(w)
        PROVE  OrderInv'
    <2>1. UNCHANGED <<log, events>>
      BY <1>4 DEF GiveUp
    <2>2. \A r \in late' : r.status \in Terminal => RequestStored(r.nonce)
      BY <1>4 DEF GiveUp, OrderInv
    <2>3. \A v \in Workers : call'[v].st = "sent" => call'[v] = call[v]
      BY <1>4 DEF GiveUp, IdleCall, QueueTypeOK
    <2>4. QED
      BY <2>1, <2>2, <2>3 DEF OrderInv, RequestStored, Entries
  <1>5. ASSUME UNCHANGED log, late' \subseteq late,
               \A v \in Workers : call'[v].st = "sent" => call'[v] = call[v]
        PROVE  OrderInv'
    BY <1>1, <1>5 DEF OrderInv, RequestStored
  <1>6. ASSUME NEW w \in Workers, StoreReceipt(w) \/ AnswerSeal(w)
        PROVE  OrderInv'
    <2>1. \A v \in Workers : call'[v].st = "sent" => call'[v] = call[v]
      BY <1>6 DEF StoreReceipt, AnswerSeal, IdleCall, QueueTypeOK
    <2>2. UNCHANGED <<log, late>>
      BY <1>6 DEF StoreReceipt, AnswerSeal
    <2>3. QED
      BY <1>5, <2>1, <2>2
  <1>7. QED
    BY <1>2, <1>3, <1>4, <1>5, <1>6
    DEF QueueNext, ForeignSeal, Reconfigure, LateSeal, queueVars

LEMMA SealOrder ==
    ASSUME QueueTypeOK, FlightInv, OrderInv, RequestedIsSealedFirst, [QueueNext]_queueVars
    PROVE  RequestedIsSealedFirst'
  <1>1. \/ UNCHANGED events
        \/ \E row \in Rows \cup ForeignRows, t \in LedgerTimes :
              /\ row \in Event /\ row.status \in Terminal => RequestStored(row.nonce)
              /\ events' = Append(events, NewEntry(row, t))
    <2>1. ASSUME NEW w \in Workers, AnswerSeal(w)
          PROVE  \/ UNCHANGED events
                 \/ \E t \in LedgerTimes : /\ call[w].st = "sent"
                                           /\ events' = Append(events, NewEntry(call[w].row, t))
      BY <2>1 DEF AnswerSeal, SealEvent
    <2>2. ASSUME NEW row \in late, LateSeal(row)
          PROVE  \/ UNCHANGED events
                 \/ \E t \in LedgerTimes : events' = Append(events, NewEntry(row, t))
      BY <2>2 DEF LateSeal, SealEvent
    <2>3. ASSUME ForeignSeal
          PROVE  \E row \in ForeignRows, t \in LedgerTimes : events' = Append(events, NewEntry(row, t))
      BY <2>3 DEF ForeignSeal
    <2>4. CASE \E w \in Workers : AnswerSeal(w)
      BY <2>1, <2>4 DEF FlightInv, OrderInv
    <2>5. CASE \E row \in late : LateSeal(row)
      BY <2>2, <2>5 DEF FlightInv, OrderInv
    <2>6. CASE ForeignSeal
      BY <2>3, <2>6, ForeignIsNotEvent
    <2>7. QED
      BY <2>4, <2>5, <2>6 DEF QueueNext, Insert, Reconfigure, SendOldest, GiveUp, StoreReceipt, queueVars
  <1>2. CASE UNCHANGED events
    BY <1>2 DEF RequestedIsSealedFirst
  <1>3. ASSUME NEW row \in Rows \cup ForeignRows, NEW t \in LedgerTimes,
               row \in Event /\ row.status \in Terminal => RequestStored(row.nonce),
               events' = Append(events, NewEntry(row, t))
        PROVE  RequestedIsSealedFirst'
    <2> DEFINE n == Len(events)
               sealedBefore(i) == (events'[i].row \in Event /\ events'[i].row.status \in Terminal) =>
                   \E j \in 1..(i - 1) : IsRequest(events'[j].row, events'[i].row.nonce)
    <2>1. /\ DOMAIN events = 1..n /\ DOMAIN events' = 1..(n + 1) /\ n \in Nat
          /\ events'[n + 1].row = row
          /\ \A i \in 1..n : events'[i] = events[i]
      BY <1>3, AppendedEntry DEF NewEntry
    <2> HIDE DEF n
    <2>2. sealedBefore(n + 1)
      <3>1. n + 1 - 1 = n
        BY <2>1
      <3>2. RequestStored(row.nonce) => \E j \in 1..n : IsRequest(events'[j].row, row.nonce)
        BY <2>1 DEF RequestStored, Entries
      <3>3. QED
        BY <1>3, <2>1, <3>1, <3>2
    <2>3. ASSUME NEW i \in 1..n
          PROVE  sealedBefore(i)
      <3>1. \A k \in 1..(i - 1) : k \in 1..n
        BY <2>1
      <3>2. QED
        BY <2>1, <3>1 DEF RequestedIsSealedFirst, IsRequest
    <2>4. \A i \in 1..(n + 1) : sealedBefore(i)
      BY <2>1, <2>2, <2>3
    <2>5. QED
      BY <2>1, <2>4 DEF RequestedIsSealedFirst, IsRequest
  <1>4. QED
    BY <1>1, <1>2, <1>3

(* With a clock that is not set back the ledger never shows the outcome of  *)
(* a call before its request.                                               *)
THEOREM RequestedIsSealedFirstCorrect ==
    ASSUME MonotonicClock
    PROVE  QueueSpec => []RequestedIsSealedFirst
  <1>1. QueueInit => OrderInv /\ RequestedIsSealedFirst
    BY DEF QueueInit, AuditInit, OrderInv, IdleCall, RequestedIsSealedFirst
  <1>2. /\ QueueTypeOK /\ FlightInv /\ ReceiptIsOnLedger /\ OrderInv /\ RequestedIsSealedFirst
        /\ [QueueNext]_queueVars
        => (OrderInv /\ RequestedIsSealedFirst)'
    BY OrderStep, SealOrder
  <1>3. QED
    BY <1>1, <1>2, QueueTypeCorrect, ReceiptIsOnLedgerCorrect, PTL DEF QueueSpec

-----------------------------------------------------------------------------
(* One outcome *)

(* A call has one terminal row at most, which follows its request.          *)
OutcomeInv ==
    /\ \A r1, r2 \in Rows :
          (r1.status \in Terminal /\ r2.status \in Terminal /\ r1.nonce = r2.nonce) => r1 = r2
    /\ \A r1, r2 \in Rows : SameKey(r1, r2) => r1 = r2

LEMMA OutcomeInvStep ==
    QueueTypeOK /\ FlightInv /\ OutcomeInv /\ [QueueNext]_queueVars => OutcomeInv'
  <1> SUFFICES ASSUME QueueTypeOK, FlightInv, OutcomeInv, [QueueNext]_queueVars
               PROVE  OutcomeInv'
    OBVIOUS
  <1>1. CASE Insert
    <2>1. PICK r \in Event : Record(r) /\ Rows' = Rows \cup {r}
      BY <1>1, LogGrows DEF Insert
    <2>2. r.status \in ActionStatus
      BY DEF Event, Row
    <2>3. \A q \in Rows : ~SameKey(q, r) /\ ~SameKey(r, q)
      BY <2>1, <2>2 DEF Record, SameKey, HasNonce, HasTerminal, ActionStatus
    <2>4. r.status \in Terminal => \A q \in Rows : ~(q.nonce = r.nonce /\ q.status \in Terminal)
      BY <2>1 DEF Record, HasTerminal, Terminal
    <2>5. QED
      BY <2>1, <2>3, <2>4 DEF OutcomeInv, SameKey
  <1>2. CASE UNCHANGED log
    BY <1>2 DEF OutcomeInv, SameKey, Rows
  <1>3. QED
    BY <1>1, <1>2
    DEF QueueNext, ForeignSeal, Reconfigure, SendOldest, GiveUp, StoreReceipt, AnswerSeal,
        LateSeal, queueVars

(* Every entry of the device is a row of its log.                           *)
EntriesLogged == \A e \in Entries : e.row \in Rows \cup ForeignRows

LEMMA EntriesLoggedStep ==
    QueueTypeOK /\ FlightInv /\ EntriesLogged /\ [QueueNext]_queueVars => EntriesLogged'
  <1> SUFFICES ASSUME QueueTypeOK, FlightInv, EntriesLogged, [QueueNext]_queueVars
               PROVE  EntriesLogged'
    OBVIOUS
  <1>1. Rows \subseteq Rows'
    BY TablesGrow
  <1>2. CASE UNCHANGED events
    BY <1>1, <1>2 DEF EntriesLogged, Entries
  <1>3. ASSUME NEW row \in Rows \cup ForeignRows, NEW t \in LedgerTimes,
               events' = Append(events, NewEntry(row, t))
        PROVE  EntriesLogged'
    <2>1. Entries' = Entries \cup {NewEntry(row, t)} /\ NewEntry(row, t).row = row
      BY <1>3, RowsTyped, NewEntryTyped, EventsGrow DEF NewEntry
    <2>2. QED
      BY <1>1, <2>1 DEF EntriesLogged
  <1>4. QED
    BY <1>2, <1>3, LedgerStep

LEMMA LoggedCorrect == QueueSpec => [](OutcomeInv /\ EntriesLogged)
  <1>1. QueueInit => OutcomeInv /\ EntriesLogged
    BY DEF QueueInit, AuditInit, OutcomeInv, EntriesLogged, Rows, Entries
  <1>2. /\ QueueTypeOK /\ FlightInv /\ OutcomeInv /\ EntriesLogged /\ [QueueNext]_queueVars
        => (OutcomeInv /\ EntriesLogged)'
    BY OutcomeInvStep, EntriesLoggedStep
  <1>3. QED
    BY <1>1, <1>2, QueueTypeCorrect, PTL DEF QueueSpec

(* The ledger never has two outcomes of a call.                             *)
THEOREM OneOutcomeCorrect == QueueSpec => []OneOutcome
  <1>1. SealedOnce /\ OutcomeInv /\ EntriesLogged => OneOutcome
    <2> SUFFICES ASSUME SealedOnce, OutcomeInv, EntriesLogged,
                        NEW i \in DOMAIN events, NEW j \in DOMAIN events,
                        events[i].row \in Event, events[j].row \in Event,
                        events[i].row.status \in Terminal, events[j].row.status \in Terminal,
                        events[i].row.nonce = events[j].row.nonce
                 PROVE  i = j
      BY DEF OneOutcome
    <2>1. events[i].row \in Rows /\ events[j].row \in Rows
      BY ForeignIsNotEvent DEF EntriesLogged, Entries
    <2>2. events[i].row = events[j].row
      BY <2>1 DEF OutcomeInv
    <2>3. QED
      BY <2>2 DEF SealedOnce, SameKey
  <1>2. QED
    BY <1>1, SealedOnceCorrect, LoggedCorrect, PTL

-----------------------------------------------------------------------------
(* The abstract trail *)

LEMMA TrailStep ==
    QueueTypeOK /\ FlightInv /\ ReceiptIsOnLedger /\ [QueueNext]_queueVars => [Trail!TrailNext]_(Trail!trailVars)
  <1> DEFINE sealed == {e.row : e \in Entries} \ ForeignRows
             acknowledged == {r.row : r \in receipts}
  <1> SUFFICES ASSUME QueueTypeOK, FlightInv, ReceiptIsOnLedger, [QueueNext]_queueVars
               PROVE  Trail!TrailNext \/ (Rows' = Rows /\ sealed' = sealed /\ acknowledged' = acknowledged)
    BY DEF Trail!trailVars
  <1>1. UNCHANGED log => Rows' = Rows
    BY DEF Rows
  <1>2. UNCHANGED events => sealed' = sealed
    BY DEF Entries
  <1>3. UNCHANGED receipts => acknowledged' = acknowledged
    OBVIOUS
  <1>4. CASE Insert
    <2>1. PICK r \in Event : Record(r) /\ Rows' = Rows \cup {r}
      BY <1>4, LogGrows DEF Insert
    <2>2. r.status \in ActionStatus
      BY DEF Event, Row
    <2>3. r \notin Rows
      BY <2>1, <2>2 DEF Record, HasNonce, HasTerminal, ActionStatus
    <2>4. sealed' = sealed /\ acknowledged' = acknowledged
      BY <1>2, <1>3, <1>4 DEF Insert
    <2>5. Trail!RecordEvent(r)
      BY <2>1, <2>3, <2>4 DEF Trail!RecordEvent
    <2>6. QED
      BY <2>5 DEF Trail!TrailNext
  <1>5. ASSUME UNCHANGED <<log, receipts>>
        PROVE  Trail!TrailNext \/ (Rows' = Rows /\ sealed' = sealed /\ acknowledged' = acknowledged)
    <2>1. CASE UNCHANGED events
      BY <1>1, <1>2, <1>3, <1>5, <2>1
    <2>2. ASSUME NEW row \in Rows \cup ForeignRows, NEW t \in LedgerTimes, ~IsStored(row),
                 events' = Append(events, NewEntry(row, t))
          PROVE  Trail!TrailNext \/ (Rows' = Rows /\ sealed' = sealed /\ acknowledged' = acknowledged)
      <3>1. /\ Entries' = Entries \cup {NewEntry(row, t)} /\ NewEntry(row, t).row = row
            /\ row \in Event \/ row \in ForeignRows
        BY <2>2, NewEntryTyped, EventsGrow, RowsTyped DEF NewEntry
      <3>2. CASE row \in ForeignRows
        <4>1. sealed' = sealed
          BY <3>1, <3>2
        <4>2. QED
          BY <1>1, <1>3, <1>5, <4>1
      <3>3. CASE row \notin ForeignRows
        <4>1. row \in Rows /\ row \in Event /\ row \notin sealed
          BY <2>2, <3>1, <3>3 DEF IsStored, SameKey
        <4>2. sealed' = sealed \cup {row}
          BY <3>1, <3>3
        <4>3. Trail!SealRecorded(row)
          BY <1>1, <1>3, <1>5, <4>1, <4>2 DEF Trail!SealRecorded
        <4>4. QED
          BY <4>1, <4>3 DEF Trail!TrailNext
      <3>4. QED
        BY <3>2, <3>3
    <2>3. QED
      BY <2>1, <2>2, LedgerStep
  <1>6. ASSUME NEW w \in Workers, StoreReceipt(w), ~UNCHANGED receipts
        PROVE  Trail!TrailNext
    <2>1. PICK a : a = call[w].answer
      OBVIOUS
    <2>2. /\ a \in Entries /\ a.row \in Rows /\ ~IsAcked(a.row) /\ receipts' = receipts \cup {a}
          /\ UNCHANGED <<log, events>>
      BY <1>6, <2>1 DEF StoreReceipt, Verified, FlightInv
    <2>3. a.row \in Event /\ a.row \notin ForeignRows
      BY <2>2, RowsTyped, ForeignIsNotEvent
    <2>4. a.row \in sealed \ acknowledged
      BY <2>2, <2>3 DEF IsAcked, SameKey
    <2>5. acknowledged' = acknowledged \cup {a.row}
      BY <2>2
    <2>6. Trail!Acknowledge(a.row)
      BY <1>1, <1>2, <2>2, <2>4, <2>5 DEF Trail!Acknowledge
    <2>7. QED
      BY <2>3, <2>6 DEF Trail!TrailNext
  <1>7. ASSUME NEW w \in Workers, StoreReceipt(w)
        PROVE  UNCHANGED <<log, events>>
    BY <1>7 DEF StoreReceipt
  <1>8. CASE \E w \in Workers : StoreReceipt(w)
    BY <1>1, <1>2, <1>3, <1>6, <1>7, <1>8
  <1>9. QED
    BY <1>4, <1>5, <1>8 DEF QueueNext, ForeignSeal, Reconfigure, SendOldest, GiveUp, AnswerSeal, LateSeal, queueVars

(* The queue, the workers, the network and the ledger implement AuditTrail. *)
THEOREM TrailCorrect == QueueSpec => TrailSpec
  <1>1. QueueInit => Trail!TrailInit
    BY DEF QueueInit, AuditInit, Trail!TrailInit, Rows, Entries
  <1>2. QueueTypeOK /\ FlightInv /\ ReceiptIsOnLedger /\ [QueueNext]_queueVars
            => [Trail!TrailNext]_(Trail!trailVars)
    BY TrailStep
  <1>3. QED
    BY <1>1, <1>2, QueueTypeCorrect, ReceiptIsOnLedgerCorrect, PTL
    DEF QueueSpec, TrailSpec, Trail!TrailSpec
=============================================================================
