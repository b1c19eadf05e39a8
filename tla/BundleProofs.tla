---------------------------- MODULE BundleProofs ----------------------------
(***************************************************************************)
(* Theorems about Verifier and Bundle, for any rows, keys and clock of the *)
(* ledger, bundles of any length and any bounds.  Of the page: what it     *)
(* accepts is the ledger's history, and what it refuses is not or was      *)
(* signed with another key.  Of Bundle: with its transactions and exports  *)
(* it implements Verifier, so what is proved of a pasted bundle holds of   *)
(* an exported one, and an export is the ledger's history and the device's.*)
(***************************************************************************)
EXTENDS Bundle, SequenceTheorems, TLAPS

Chained == [row : Rows, lts : LedgerTimes]

Content(e) == [row |-> e.row, lts |-> e.lts]

-----------------------------------------------------------------------------
(* Types *)

LEMMA EntriesTyped == TypeOK => Entries \subseteq Entry
  <1> SUFFICES ASSUME TypeOK, NEW e \in Entries
               PROVE  e \in Entry
    OBVIOUS
  <1>1. PICK i \in DOMAIN events : e = events[i]
    BY DEF Entries
  <1>2. QED
    BY <1>1 DEF TypeOK

LEMMA HashesTyped == TypeOK => Hashes \subseteq Hash /\ Genesis \in Hash
  <1>1. Genesis \in Hash
    BY DEF Genesis, Hash
  <1>2. TypeOK => \A e \in Entries : e.chain \in Hash
    BY EntriesTyped DEF Entry
  <1>3. QED
    BY <1>1, <1>2 DEF Hashes

LEMMA LastHashTyped == TypeOK => LastHash \in Hash
  <1>1. CASE events = <<>>
    BY <1>1, HashesTyped DEF LastHash
  <1>2. CASE events # <<>>
    <2>1. TypeOK => events[Len(events)] \in Entry
      BY <1>2 DEF TypeOK
    <2>2. QED
      BY <1>2, <2>1 DEF LastHash, Entry
  <1>3. QED
    BY <1>1, <1>2

LEMMA ChainHashTyped ==
    ASSUME NEW h \in Hash, NEW row \in Rows, NEW t \in LedgerTimes
    PROVE  /\ ChainHash(h, row, t) \in Hash
           /\ Len(ChainHash(h, row, t)) = Len(h) + 1
           /\ \A k \in 1..Len(h) : ChainHash(h, row, t)[k] = h[k]
           /\ ChainHash(h, row, t)[Len(h) + 1] = [row |-> row, lts |-> t]
  <1>1. [row |-> row, lts |-> t] \in [row : Rows, lts : LedgerTimes]
    OBVIOUS
  <1>2. QED
    BY <1>1 DEF ChainHash, Hash

LEMMA NewEntryTyped ==
    ASSUME TypeOK, NEW row \in Rows, NEW t \in LedgerTimes
    PROVE  NewEntry(row, t) \in Entry
  BY LastHashTyped, ChainHashTyped DEF NewEntry, Entry

(* POST /seal appends a new entry or leaves the table alone. *)
LEMMA SealAppends ==
    ASSUME TypeOK, NEW row \in Rows, Seal(row)
    PROVE  \/ UNCHANGED events
           \/ \E t \in LedgerTimes : events' = Append(events, NewEntry(row, t))
  BY DEF Seal, SealEvent

LEMMA RecordTyped ==
    ASSUME NEW e \in Entry, NEW h \in Hash
    PROVE  RecordOf(e, h) \in BundleRecord
  BY DEF RecordOf, Entry, BundleRecord

LEMMA LogsTyped ==
    ASSUME TypeOK
    PROVE  /\ Logs \in Seq(BundleRecord)
           /\ Len(Logs) = Len(events)
           /\ \A i \in 1..Len(events) :
                Logs[i] = RecordOf(events[i], IF i = 1 THEN Genesis ELSE events[i - 1].chain)
  <1>1. DOMAIN events = 1..Len(events) /\ Len(events) \in Nat
    BY DEF TypeOK
  <1>2. ASSUME NEW i \in 1..Len(events)
        PROVE  RecordOf(events[i], IF i = 1 THEN Genesis ELSE events[i - 1].chain) \in BundleRecord
    <2>1. events[i] \in Entry
      BY <1>1 DEF TypeOK
    <2>2. CASE i = 1
      BY <2>1, <2>2, HashesTyped, RecordTyped
    <2>3. CASE i # 1
      <3>1. events[i - 1] \in Entry
        BY <1>1, <2>3 DEF TypeOK
      <3>2. events[i - 1].chain \in Hash
        BY <3>1 DEF Entry
      <3>3. QED
        BY <2>1, <2>3, <3>2, RecordTyped
    <2>4. QED
      BY <2>2, <2>3
  <1>3. Logs \in [1..Len(events) -> BundleRecord]
    BY <1>1, <1>2 DEF Logs
  <1>4. QED
    BY <1>1, <1>3 DEF Logs

LEMMA PasteableTyped == TypeOK => Pasteable \subseteq BundleRecord
  <1> SUFFICES ASSUME TypeOK, NEW r \in Pasteable
               PROVE  r \in BundleRecord
    OBVIOUS
  <1>1. CASE r \in SignedAnew
    <2>1. PICK row \in Rows, t \in LedgerTimes, h \in Hashes :
              r = RecordOf([row |-> row, lts |-> t, chain |-> ChainHash(h, row, t)], h)
      BY <1>1 DEF SignedAnew
    <2>2. h \in Hash
      BY HashesTyped
    <2>3. [row |-> row, lts |-> t, chain |-> ChainHash(h, row, t)] \in Entry
      BY <2>2, ChainHashTyped DEF Entry
    <2>4. QED
      BY <2>1, <2>2, <2>3, RecordTyped
  <1>2. ASSUME NEW i \in DOMAIN events, r \in Replaced(Logs[i])
        PROVE  r \in BundleRecord
    <2>1. Logs[i] \in BundleRecord
      BY LogsTyped DEF TypeOK
    <2>2. QED
      BY <1>2, <2>1, HashesTyped, EntriesTyped DEF Replaced, BundleRecord
  <1>3. QED
    BY <1>1, <1>2 DEF Pasteable

(* A page without a verdict has not begun. *)
IdleInv == verdict = "none" => checked = 0 /\ prevHash = Genesis

LEMMA IdleStep == IdleInv /\ [Next]_vars => IdleInv'
  BY DEF IdleInv, Next, Seal, Reconfigure, Anchor, Submit, CheckRecord, Conclude, Clear, vars

LEMMA TypeStep == TypeOK /\ IdleInv /\ [Next]_vars => TypeOK'
  <1> SUFFICES ASSUME TypeOK, IdleInv, [Next]_vars
               PROVE  TypeOK'
    OBVIOUS
  <1>1. ASSUME NEW row \in Rows, Seal(row)
        PROVE  TypeOK'
    <2>1. events' \in Seq(Entry)
      BY <1>1, SealAppends, NewEntryTyped DEF TypeOK
    <2>2. QED
      BY <1>1, <2>1 DEF Seal, TypeOK, inputs
  <1>2. CASE Reconfigure
    BY <1>2 DEF Reconfigure, TypeOK, inputs
  <1>3. CASE Anchor
    <2>1. anchors' \subseteq Hash
      BY <1>3, LastHashTyped, HashesTyped DEF Anchor, TypeOK
    <2>2. QED
      BY <1>3, <2>1 DEF Anchor, TypeOK, inputs
  <1>4. CASE Submit
    <2>1. PICK n \in 0..MaxRecords : bundle' \in [1..n -> Pasteable]
      BY <1>4 DEF Submit
    <2>2. bundle' \in Seq(BundleRecord)
      <3>1. n \in Nat
        BY VerifierAssumption
      <3>2. bundle' \in [1..n -> BundleRecord]
        BY <2>1, PasteableTyped
      <3>3. QED
        BY <3>1, <3>2
    <2>3. checked' \in 0..Len(bundle')
      BY <1>4, <2>2 DEF Submit, IdleInv
    <2>4. QED
      BY <1>4, <2>2, <2>3 DEF Submit, TypeOK, ledgerVars
  <1>5. CASE CheckRecord
    <2>1. bundle[checked + 1] \in BundleRecord
      BY <1>5 DEF CheckRecord, TypeOK
    <2>2. bundle[checked + 1].chain \in Hash
      BY <2>1 DEF BundleRecord
    <2>3. QED
      BY <1>5, <2>2 DEF CheckRecord, TypeOK, ledgerVars, inputs
  <1>6. CASE Conclude
    BY <1>6 DEF Conclude, TypeOK, ledgerVars, inputs
  <1>7. CASE Clear
    BY <1>7, HashesTyped DEF Clear, TypeOK, ledgerVars
  <1>8. CASE UNCHANGED vars
    BY <1>8 DEF vars, TypeOK, ledgerVars, inputs
  <1>9. QED
    BY <1>1, <1>2, <1>3, <1>4, <1>5, <1>6, <1>7, <1>8 DEF Next

(* Every state is of its type: whatever is pasted, the page never looks     *)
(* past the end of the bundle.                                              *)
THEOREM TypeCorrect == Spec => []TypeOK
  <1>1. Init => TypeOK /\ IdleInv
    BY VerifierAssumption DEF Init, TypeOK, IdleInv, Genesis, Hash
  <1>2. QED
    BY <1>1, TypeStep, IdleStep, PTL DEF Spec

-----------------------------------------------------------------------------
(* The chain *)

(* A hash that commits to the first entries of a table.                     *)
IsHead(h, table) ==
    /\ Len(h) <= Len(table)
    /\ \A k \in 1..Len(h) : h[k] = Content(table[k])

(* The chain hash of an entry commits to the entries up to it, and what is  *)
(* published or expected is such a hash.                                    *)
ChainInv ==
    /\ \A i \in 1..Len(events) : IsHead(events[i].chain, events) /\ Len(events[i].chain) = i
    /\ \A h \in anchors : IsHead(h, events)
    /\ IsHead(expected, events)

LEMMA EventsTyped ==
    ASSUME TypeOK, NEW i \in 1..Len(events)
    PROVE  events[i] \in Entry /\ events[i].chain \in Hash
  <1>1. events[i] \in Entry
    BY DEF TypeOK
  <1>2. QED
    BY <1>1 DEF Entry

LEMMA GenesisIsHead == TypeOK => IsHead(Genesis, events) /\ Len(Genesis) = 0
  BY DEF IsHead, Genesis, TypeOK

LEMMA HeadsStay ==
    ASSUME TypeOK, NEW row \in Rows, Seal(row)
    PROVE  \A h \in Hash : IsHead(h, events) => IsHead(h, events')
  <1> SUFFICES ASSUME NEW h \in Hash, IsHead(h, events)
               PROVE  IsHead(h, events')
    OBVIOUS
  <1>1. CASE UNCHANGED events
    BY <1>1
  <1>2. ASSUME NEW t \in LedgerTimes, events' = Append(events, NewEntry(row, t))
        PROVE  IsHead(h, events')
    <2>1. Len(events') = Len(events) + 1 /\ \A k \in 1..Len(events) : events'[k] = events[k]
      BY <1>2, NewEntryTyped DEF TypeOK
    <2>2. Len(h) \in Nat /\ Len(events) \in Nat
      BY DEF Hash, TypeOK
    <2>3. QED
      BY <2>1, <2>2 DEF IsHead
  <1>3. QED
    BY <1>1, <1>2, SealAppends

LEMMA LastHashIsHead ==
    ASSUME TypeOK, ChainInv
    PROVE  IsHead(LastHash, events) /\ Len(LastHash) = Len(events)
  <1>1. CASE events = <<>>
    BY <1>1, GenesisIsHead DEF LastHash
  <1>2. CASE events # <<>>
    <2>1. Len(events) \in 1..Len(events)
      BY <1>2 DEF TypeOK
    <2>2. QED
      BY <1>2, <2>1 DEF LastHash, ChainInv
  <1>3. QED
    BY <1>1, <1>2

LEMMA ChainStep == TypeOK /\ ChainInv /\ [Next]_vars => ChainInv'
  <1> SUFFICES ASSUME TypeOK, ChainInv, [Next]_vars
               PROVE  ChainInv'
    OBVIOUS
  <1>0. /\ anchors \subseteq Hash /\ expected \in Hash
        /\ \A i \in 1..Len(events) : events[i].chain \in Hash
    BY EventsTyped DEF TypeOK
  <1>1. ASSUME NEW row \in Rows, Seal(row)
        PROVE  ChainInv'
    <2>1. (\A h \in anchors : IsHead(h, events')) /\ IsHead(expected, events')
      BY <1>0, <1>1, HeadsStay DEF ChainInv
    <2>2. \A i \in 1..Len(events') :
              /\ Len(events'[i].chain) = i
              /\ Len(events'[i].chain) <= Len(events')
              /\ \A k \in 1..Len(events'[i].chain) : events'[i].chain[k] = Content(events'[k])
      <3>1. CASE UNCHANGED events
        BY <3>1 DEF ChainInv, IsHead
      <3>2. ASSUME NEW t \in LedgerTimes, events' = Append(events, NewEntry(row, t))
            PROVE  \A i \in 1..Len(events') :
                      /\ Len(events'[i].chain) = i
                      /\ Len(events'[i].chain) <= Len(events')
                      /\ \A k \in 1..Len(events'[i].chain) : events'[i].chain[k] = Content(events'[k])
        <4> DEFINE new == NewEntry(row, t)
        <4>1. /\ Len(events) \in Nat
              /\ Len(events') = Len(events) + 1
              /\ \A k \in 1..Len(events) : events'[k] = events[k]
              /\ events'[Len(events) + 1] = new
          BY <3>2, NewEntryTyped DEF TypeOK
        <4>2. LastHash \in Hash /\ new.chain = ChainHash(LastHash, row, t)
          BY LastHashTyped DEF NewEntry
        <4>3. Content(new) = [row |-> row, lts |-> t]
          BY DEF NewEntry, Content
        <4>4. /\ Len(new.chain) = Len(events) + 1
              /\ \A k \in 1..Len(events) : new.chain[k] = Content(events[k])
              /\ new.chain[Len(events) + 1] = Content(new)
          BY <4>2, <4>3, LastHashIsHead, ChainHashTyped DEF IsHead
        <4> HIDE DEF new
        <4>5. TAKE i \in 1..Len(events')
        <4>6. CASE i \in 1..Len(events)
          <5>1. Len(events[i].chain) = i /\ \A k \in 1..i : events[i].chain[k] = Content(events[k])
            BY <4>6 DEF ChainInv, IsHead
          <5>2. QED
            BY <4>1, <4>6, <5>1
        <4>7. CASE i = Len(events) + 1
          BY <4>1, <4>4, <4>7
        <4>8. QED
          BY <4>1, <4>6, <4>7
      <3>3. QED
        BY <1>1, <3>1, <3>2, SealAppends
    <2>3. anchors' = anchors /\ expected' = expected
      BY <1>1 DEF Seal, inputs
    <2>4. QED
      BY <2>1, <2>2, <2>3 DEF ChainInv, IsHead
  <1>2. CASE Anchor
    BY <1>2, LastHashIsHead, GenesisIsHead DEF Anchor, ChainInv, IsHead, inputs
  <1>3. CASE Submit
    BY <1>3 DEF Submit, ChainInv, IsHead, ledgerVars
  <1>4. CASE Clear
    BY <1>4, GenesisIsHead DEF Clear, ChainInv, IsHead, ledgerVars
  <1>5. CASE Reconfigure \/ CheckRecord \/ Conclude \/ UNCHANGED vars
    BY <1>5 DEF Reconfigure, CheckRecord, Conclude, vars, ChainInv, IsHead, ledgerVars, inputs
  <1>6. QED
    BY <1>1, <1>2, <1>3, <1>4, <1>5 DEF Next

-----------------------------------------------------------------------------
(* The page *)

(* h is made of the first n elements of g. *)
Begins(h, n, g) == Len(h) = n /\ \A k \in 1..n : h[k] = g[k]

(* What the checks have established of the records they have passed: their  *)
(* hashes are those that lead to prevHash.                                  *)
PassedInv ==
    /\ Len(prevHash) = checked
    /\ \A j \in 1..checked :
          /\ DeviceSigned(bundle[j]) /\ Receipted(bundle[j])
          /\ prevHash[j] = Content(bundle[j])
          /\ Begins(bundle[j].chain, j, prevHash)
          /\ Begins(bundle[j].previous, j - 1, prevHash)

PageInv ==
    /\ PassedInv
    /\ verdict = "valid" => checked = Len(bundle) /\ prevHash = expected

LEMMA RecordFields ==
    ASSUME NEW r \in BundleRecord
    PROVE  /\ r.row \in Rows /\ r.lts \in LedgerTimes /\ r.signature \in Rows
           /\ r.previous \in Hash /\ r.chain \in Hash
           /\ r.receipt \in Entry
  BY DEF BundleRecord

LEMMA PassedStep ==
    ASSUME TypeOK, PassedInv, verdict = "checking", checked < Len(bundle),
           DeviceSigned(bundle[checked + 1]), Linked(bundle[checked + 1]), Receipted(bundle[checked + 1]),
           checked' = checked + 1, prevHash' = bundle[checked + 1].chain,
           UNCHANGED inputs
    PROVE  PassedInv'
  <1> DEFINE r == bundle[checked + 1]
  <1>1. r \in BundleRecord /\ checked \in Nat /\ prevHash \in Hash
    BY DEF TypeOK
  <1>2. r.row \in Rows /\ r.lts \in LedgerTimes
    BY <1>1, RecordFields
  <1>3. /\ r.chain = ChainHash(prevHash, r.row, r.lts)
        /\ r.previous = prevHash
    BY DEF Linked
  <1>4. Len(prevHash) = checked
    BY DEF PassedInv
  <1>5. /\ Len(r.chain) = checked + 1
        /\ \A k \in 1..checked : r.chain[k] = prevHash[k]
        /\ r.chain[checked + 1] = Content(r)
    BY <1>1, <1>2, <1>3, <1>4, ChainHashTyped DEF Content
  <1>6. bundle' = bundle /\ trusted' = trusted
    BY DEF inputs
  <1>7. ASSUME NEW j \in 1..(checked + 1)
        PROVE  /\ DeviceSigned(bundle[j]) /\ Receipted(bundle[j])
               /\ r.chain[j] = Content(bundle[j])
               /\ Begins(bundle[j].chain, j, r.chain)
               /\ Begins(bundle[j].previous, j - 1, r.chain)
    <2>1. CASE j \in 1..checked
      <3>1. \A k \in 1..j : k \in 1..checked
        BY <1>1, <2>1
      <3>2. \A k \in 1..(j - 1) : k \in 1..checked
        BY <1>1, <2>1
      <3> HIDE DEF r
      <3>3. QED
        BY <1>5, <2>1, <3>1, <3>2 DEF PassedInv, Begins
    <2>2. CASE j = checked + 1
      BY <1>1, <1>3, <1>4, <1>5, <2>2 DEF Begins
    <2>3. QED
      BY <1>1, <2>1, <2>2
  <1>8. QED
    BY <1>5, <1>6, <1>7 DEF PassedInv, Begins, DeviceSigned, Receipted

LEMMA PageStep == TypeOK /\ IdleInv /\ PageInv /\ [Next]_vars => PageInv'
  <1> SUFFICES ASSUME TypeOK, IdleInv, PageInv, [Next]_vars
               PROVE  PageInv'
    OBVIOUS
  <1>1. CASE UNCHANGED <<inputs, checked, prevHash, verdict>>
    BY <1>1 DEF PageInv, PassedInv, Begins, DeviceSigned, Receipted, inputs
  <1>2. CASE Submit
    BY <1>2 DEF Submit, IdleInv, PageInv, PassedInv, Genesis
  <1>3. CASE CheckRecord
    <2>1. CASE /\ verdict' = "failed"
               /\ UNCHANGED <<checked, prevHash>>
      BY <1>3, <2>1 DEF CheckRecord, PageInv, PassedInv, Begins, DeviceSigned, Receipted, inputs
    <2>2. CASE UNCHANGED verdict
      BY <1>3, <2>2, PassedStep DEF CheckRecord, PageInv
    <2>3. QED
      BY <1>3, <2>1, <2>2 DEF CheckRecord
  <1>4. CASE Conclude
    BY <1>4 DEF Conclude, PageInv, PassedInv, Begins, DeviceSigned, Receipted, inputs
  <1>5. CASE Clear
    BY <1>5 DEF Clear, PageInv, PassedInv, Genesis
  <1>6. QED
    BY <1>1, <1>2, <1>3, <1>4, <1>5 DEF Next, Seal, Reconfigure, Anchor, vars

(* Two hashes with the same elements are one. *)
LEMMA SameHash ==
    ASSUME NEW h \in Hash, NEW g \in Hash, Len(h) = Len(g), \A k \in 1..Len(h) : h[k] = g[k]
    PROVE  h = g
  BY SeqEqual DEF Hash

(* The chain hash of an entry is that of its predecessor and its content.   *)
LEMMA EntryIsLinked ==
    ASSUME TypeOK, ChainInv, NEW i \in 1..Len(events)
    PROVE  LET previous == IF i = 1 THEN Genesis ELSE events[i - 1].chain IN
              /\ previous \in Hash /\ Len(previous) = i - 1
              /\ \A k \in 1..(i - 1) : previous[k] = Content(events[k])
              /\ events[i].chain = ChainHash(previous, events[i].row, events[i].lts)
  <1> DEFINE previous == IF i = 1 THEN Genesis ELSE events[i - 1].chain
  <1>1. Len(events) \in Nat /\ events[i] \in Entry /\ events[i].chain \in Hash
    BY EventsTyped DEF TypeOK
  <1>2. /\ previous \in Hash /\ Len(previous) = i - 1
        /\ \A k \in 1..(i - 1) : previous[k] = Content(events[k])
    <2>1. CASE i = 1
      BY <2>1, HashesTyped DEF Genesis
    <2>2. CASE i # 1
      <3>1. i - 1 \in 1..Len(events)
        BY <1>1, <2>2
      <3>2. QED
        BY <2>2, <3>1, EventsTyped DEF ChainInv, IsHead
    <2>3. QED
      BY <2>1, <2>2
  <1>3. events[i].row \in Rows /\ events[i].lts \in LedgerTimes
    BY <1>1 DEF Entry
  <1> DEFINE g == ChainHash(previous, events[i].row, events[i].lts)
  <1>4. /\ g \in Hash /\ Len(g) = i
        /\ \A k \in 1..(i - 1) : g[k] = Content(events[k])
        /\ g[i] = Content(events[i])
    <2> HIDE DEF previous
    <2>1. QED
      BY <1>2, <1>3, ChainHashTyped DEF Content
  <1>5. Len(events[i].chain) = i /\ \A k \in 1..i : events[i].chain[k] = Content(events[k])
    BY DEF ChainInv, IsHead
  <1>6. events[i].chain = g
    <2> HIDE DEF g
    <2>1. QED
      BY <1>1, <1>4, <1>5, SameHash
  <1>7. QED
    BY <1>2, <1>6

(* A bundle is history when it has the length of the expected hash and each *)
(* record is that of the ledger.                                            *)
LEMMA HistoryByRecord ==
    TypeOK /\ ChainInv =>
        (IsHistory <=> /\ Len(bundle) = Len(expected)
                       /\ \A j \in 1..Len(expected) : bundle[j] = Logs[j])
  <1> SUFFICES ASSUME TypeOK, ChainInv
               PROVE  IsHistory <=> /\ Len(bundle) = Len(expected)
                                    /\ \A j \in 1..Len(expected) : bundle[j] = Logs[j]
    OBVIOUS
  <1>1. /\ Len(expected) \in Nat /\ Len(expected) <= Len(events)
        /\ bundle \in Seq(BundleRecord)
    BY DEF ChainInv, IsHead, TypeOK, Hash
  <1>2. Logs \in Seq(BundleRecord) /\ Len(Logs) = Len(events)
    BY LogsTyped
  <1> DEFINE first == SubSeq(Logs, 1, Len(expected))
  <1>3. /\ first \in Seq(BundleRecord) /\ Len(first) = Len(expected)
        /\ \A j \in 1..Len(expected) : first[j] = Logs[j]
    BY <1>1, <1>2
  <1>4. IsHistory <=> bundle = first
    BY DEF IsHistory
  <1> HIDE DEF first
  <1>5. ASSUME Len(bundle) = Len(expected), \A j \in 1..Len(expected) : bundle[j] = Logs[j]
        PROVE  bundle = first
    BY <1>1, <1>3, <1>5, SeqEqual
  <1>6. QED
    BY <1>3, <1>4, <1>5

(* A record that has passed where the checks follow the ledger's chain is   *)
(* the ledger's.                                                            *)
LEMMA PassedIsGenuine ==
    ASSUME TypeOK, ChainInv, PassedInv, IsHead(prevHash, events), NEW j \in 1..checked
    PROVE  bundle[j] = Logs[j]
  <1> DEFINE previous == IF j = 1 THEN Genesis ELSE events[j - 1].chain
  <1>1. checked \in Nat /\ checked <= Len(bundle) /\ checked <= Len(events) /\ Len(events) \in Nat
    BY DEF TypeOK, PassedInv, IsHead
  <1>2. bundle[j] \in BundleRecord /\ j \in 1..Len(events)
    BY <1>1 DEF TypeOK
  <1>3. events[j] \in Entry /\ events[j].chain \in Hash
    BY <1>2, EventsTyped
  <1>4. bundle[j].row = events[j].row /\ bundle[j].lts = events[j].lts
    <2>1. Content(bundle[j]) = Content(events[j])
      BY DEF PassedInv, IsHead
    <2>2. QED
      BY <2>1 DEF Content
  <1>5. bundle[j].chain = events[j].chain
    <2>1. /\ Len(bundle[j].chain) = j /\ Len(events[j].chain) = j
          /\ \A k \in 1..j : bundle[j].chain[k] = events[j].chain[k]
      BY <1>1, <1>2 DEF PassedInv, Begins, ChainInv, IsHead
    <2>2. QED
      BY <1>2, <1>3, <2>1, RecordFields, SameHash
  <1>6. bundle[j].previous = previous
    <2>1. /\ previous \in Hash /\ Len(previous) = j - 1
          /\ \A k \in 1..(j - 1) : previous[k] = Content(events[k])
      BY <1>2, EntryIsLinked
    <2>2. /\ Len(bundle[j].previous) = j - 1
          /\ \A k \in 1..(j - 1) : bundle[j].previous[k] = Content(events[k])
      BY <1>1 DEF PassedInv, Begins, IsHead
    <2> HIDE DEF previous
    <2>3. QED
      BY <1>2, <2>1, <2>2, RecordFields, SameHash
  <1>7. bundle[j].signature = bundle[j].row
    BY DEF PassedInv, DeviceSigned
  <1>8. bundle[j].receipt = events[j]
    <2>1. bundle[j].receipt = [row |-> events[j].row, lts |-> events[j].lts, chain |-> events[j].chain]
      BY <1>4, <1>5 DEF PassedInv, Receipted
    <2>2. QED
      BY <1>3, <2>1 DEF Entry
  <1>9. Logs[j] = RecordOf(events[j], previous)
    BY <1>2, LogsTyped
  <1>10. bundle[j] = RecordOf(events[j], previous)
    <2> HIDE DEF previous
    <2>1. bundle[j] = [row |-> bundle[j].row, signature |-> bundle[j].signature,
                       lts |-> bundle[j].lts, previous |-> bundle[j].previous,
                       chain |-> bundle[j].chain, receipt |-> bundle[j].receipt]
      BY <1>2 DEF BundleRecord
    <2>2. QED
      BY <1>4, <1>5, <1>6, <1>7, <1>8, <2>1 DEF RecordOf
  <1>11. QED
    BY <1>9, <1>10

LEMMA AcceptedByChecks == TypeOK /\ ChainInv /\ PageInv => AcceptedIsHistory
  <1> SUFFICES ASSUME TypeOK, ChainInv, PageInv, verdict = "valid"
               PROVE  IsHistory
    BY DEF AcceptedIsHistory
  <1>1. checked = Len(bundle) /\ prevHash = expected /\ Len(expected) = checked
    BY DEF PageInv, PassedInv
  <1>2. IsHead(prevHash, events)
    BY <1>1 DEF ChainInv
  <1>3. \A j \in 1..checked : bundle[j] = Logs[j]
    BY <1>2, PassedIsGenuine DEF PageInv
  <1>4. QED
    BY <1>1, <1>3, HistoryByRecord

LEMMA PageCorrect == Spec => [](TypeOK /\ ChainInv /\ PageInv)
  <1>1. Init => TypeOK /\ IdleInv
    BY VerifierAssumption DEF Init, TypeOK, IdleInv, Genesis, Hash
  <1>2. Init => ChainInv
    BY DEF Init, ChainInv, IsHead, Genesis
  <1>3. Init => PageInv
    BY DEF Init, PageInv, PassedInv, Genesis
  <1>4. QED
    BY <1>1, <1>2, <1>3, TypeStep, IdleStep, ChainStep, PageStep, PTL DEF Spec

(* Whoever signed the records: a bundle the page calls valid is what the    *)
(* ledger held when the expected head was published.                        *)
THEOREM AcceptedIsHistoryCorrect == Spec => []AcceptedIsHistory
  BY PageCorrect, AcceptedByChecks, PTL

(* What a record of the history says of itself.                             *)
LEMMA GenuineRecord ==
    ASSUME TypeOK, NEW j \in 1..Len(events)
    PROVE  /\ Logs[j].row = events[j].row /\ Logs[j].signature = Logs[j].row
           /\ Content(Logs[j]) = Content(events[j])
           /\ Logs[j].chain = events[j].chain
           /\ Receipted(Logs[j])
  <1> DEFINE previous == IF j = 1 THEN Genesis ELSE events[j - 1].chain
  <1>1. Logs[j] = RecordOf(events[j], previous)
    BY LogsTyped
  <1> HIDE DEF previous
  <1>2. events[j] \in Entry
    BY EventsTyped
  <1>3. events[j] = [row |-> events[j].row, lts |-> events[j].lts, chain |-> events[j].chain]
    BY <1>2 DEF Entry
  <1>4. QED
    BY <1>1, <1>3 DEF RecordOf, Receipted, Content

(* As long as the records are the ledger's, prevHash follows its chain.     *)
LEMMA ChecksFollowChain ==
    ASSUME TypeOK, ChainInv, PassedInv, checked <= Len(events),
           \A j \in 1..checked : bundle[j] = Logs[j]
    PROVE  /\ prevHash \in Hash /\ Len(prevHash) = checked
           /\ \A k \in 1..checked : prevHash[k] = Content(events[k])
  <1>1. checked \in Nat /\ Len(events) \in Nat
    BY DEF TypeOK
  <1>2. ASSUME NEW k \in 1..checked
        PROVE  prevHash[k] = Content(events[k])
    <2>1. k \in 1..Len(events)
      BY <1>1
    <2>2. QED
      BY <2>1, GenuineRecord DEF PassedInv
  <1>3. QED
    BY <1>2 DEF PassedInv, TypeOK

(* A record of the history, signed with the device's key, passes.           *)
LEMMA GenuinePasses ==
    ASSUME TypeOK, ChainInv, PassedInv, IsHistory, checked < Len(bundle),
           bundle[checked + 1].row.key = trusted
    PROVE  /\ DeviceSigned(bundle[checked + 1])
           /\ Linked(bundle[checked + 1])
           /\ Receipted(bundle[checked + 1])
  <1> DEFINE i == checked + 1
             previous == IF i = 1 THEN Genesis ELSE events[i - 1].chain
  <1>1. /\ checked \in Nat /\ Len(events) \in Nat /\ Len(bundle) \in Nat
        /\ Len(bundle) = Len(expected) /\ Len(expected) <= Len(events)
        /\ \A j \in 1..Len(bundle) : bundle[j] = Logs[j]
    <2>1. /\ Len(bundle) = Len(expected)
          /\ \A j \in 1..Len(expected) : bundle[j] = Logs[j]
      BY HistoryByRecord
    <2>2. checked \in Nat /\ Len(events) \in Nat /\ Len(bundle) \in Nat
      BY DEF TypeOK
    <2>3. Len(expected) <= Len(events)
      BY DEF ChainInv, IsHead
    <2>4. QED
      BY <2>1, <2>2, <2>3
  <1>2. i \in 1..Len(events) /\ bundle[i] = Logs[i]
    BY <1>1
  <1>3. DeviceSigned(bundle[i]) /\ Receipted(bundle[i])
    BY <1>2, GenuineRecord DEF DeviceSigned
  <1>4. /\ prevHash \in Hash /\ Len(prevHash) = checked
        /\ \A k \in 1..checked : prevHash[k] = Content(events[k])
    BY <1>1, ChecksFollowChain
  <1>5. /\ previous \in Hash /\ Len(previous) = checked
        /\ \A k \in 1..checked : previous[k] = Content(events[k])
        /\ events[i].chain = ChainHash(previous, events[i].row, events[i].lts)
    BY <1>1, <1>2, EntryIsLinked
  <1>6. Logs[i] = RecordOf(events[i], previous)
    BY <1>2, LogsTyped
  <1> HIDE DEF previous
  <1>7. previous = prevHash
    BY <1>4, <1>5, SameHash
  <1>8. QED
    BY <1>2, <1>3, <1>5, <1>6, <1>7 DEF Linked, RecordOf

(* The checks that have passed a whole history are at its head.             *)
LEMMA HistoryEndsAtHead ==
    ASSUME TypeOK, ChainInv, PassedInv, IsHistory, checked = Len(bundle)
    PROVE  prevHash = expected
  <1>1. /\ checked \in Nat
        /\ Len(bundle) = Len(expected) /\ Len(expected) <= Len(events)
        /\ \A j \in 1..Len(bundle) : bundle[j] = Logs[j]
    BY HistoryByRecord DEF TypeOK, ChainInv, IsHead
  <1>2. /\ prevHash \in Hash /\ Len(prevHash) = checked
        /\ \A k \in 1..checked : prevHash[k] = Content(events[k])
    BY <1>1, ChecksFollowChain
  <1>3. expected \in Hash /\ \A k \in 1..checked : expected[k] = Content(events[k])
    BY <1>1 DEF TypeOK, ChainInv, IsHead
  <1>4. QED
    BY <1>1, <1>2, <1>3, SameHash

(* What is not history does not become it when the ledger grows.            *)
LEMMA HistoryStays ==
    TypeOK /\ ChainInv /\ (TypeOK /\ ChainInv)' /\ [Next]_vars /\ UNCHANGED <<bundle, expected>>
        => (IsHistory' => IsHistory)
  <1> SUFFICES ASSUME TypeOK, ChainInv, (TypeOK /\ ChainInv)', [Next]_vars,
                      UNCHANGED <<bundle, expected>>, IsHistory'
               PROVE  IsHistory
    OBVIOUS
  <1>1. (IsHistory <=> /\ Len(bundle) = Len(expected)
                       /\ \A j \in 1..Len(expected) : bundle[j] = Logs[j])'
    BY HistoryByRecord, PTL
  <1>2. ASSUME NEW j \in 1..Len(events)
        PROVE  Logs'[j] = Logs[j]
    <2>1. CASE UNCHANGED events
      BY <2>1 DEF Logs
    <2>2. ASSUME NEW row \in Rows, NEW t \in LedgerTimes, events' = Append(events, NewEntry(row, t))
          PROVE  Logs'[j] = Logs[j]
      <3>1. /\ Len(events) \in Nat /\ Len(events') = Len(events) + 1
            /\ \A k \in 1..Len(events) : events'[k] = events[k]
            /\ DOMAIN events = 1..Len(events) /\ DOMAIN events' = 1..(Len(events) + 1)
        BY <2>2, NewEntryTyped DEF TypeOK
      <3>2. j # 1 => j - 1 \in 1..Len(events)
        BY <3>1
      <3>3. QED
        BY <3>1, <3>2 DEF Logs
    <2>3. QED
      BY <2>1, <2>2, SealAppends
      DEF Next, Reconfigure, Anchor, Submit, CheckRecord, Conclude, Clear, vars, ledgerVars
  <1>3. Len(expected) <= Len(events) /\ Len(expected) \in Nat /\ Len(events) \in Nat
    BY DEF ChainInv, IsHead, TypeOK, Hash
  <1>4. QED
    BY <1>1, <1>2, <1>3, HistoryByRecord

LEMMA FailedStep ==
    /\ TypeOK /\ ChainInv /\ PageInv /\ FailedForCause
    /\ (TypeOK /\ ChainInv)' /\ [Next]_vars
    => FailedForCause'
  <1> SUFFICES ASSUME TypeOK, ChainInv, PageInv, FailedForCause,
                      (TypeOK /\ ChainInv)', [Next]_vars, (verdict = "failed")'
               PROVE  ~IsHistory' \/ (\E i \in DOMAIN bundle : bundle[i].row.key # trusted)'
    BY DEF FailedForCause
  <1>1. CASE UNCHANGED <<inputs, verdict>>
    BY <1>1, HistoryStays DEF FailedForCause, inputs
  <1>2. CASE CheckRecord /\ verdict' # verdict
    <2>1. /\ verdict = "checking" /\ checked < Len(bundle)
          /\ ~(/\ DeviceSigned(bundle[checked + 1])
               /\ Linked(bundle[checked + 1])
               /\ Receipted(bundle[checked + 1]))
      BY <1>2 DEF CheckRecord
    <2>2. checked + 1 \in DOMAIN bundle
      BY <2>1 DEF TypeOK
    <2>3. ~IsHistory \/ bundle[checked + 1].row.key # trusted
      BY <2>1, GenuinePasses DEF PageInv
    <2>4. QED
      BY <1>2, <2>2, <2>3, HistoryStays DEF CheckRecord, inputs
  <1>3. CASE Conclude
    <2>1. checked = Len(bundle) /\ prevHash # expected
      BY <1>3 DEF Conclude
    <2>2. ~IsHistory
      BY <2>1, HistoryEndsAtHead DEF PageInv
    <2>3. QED
      BY <1>3, <2>2, HistoryStays DEF Conclude, inputs
  <1>4. CASE Submit \/ Clear
    BY <1>4 DEF Submit, Clear
  <1>5. QED
    BY <1>1, <1>2, <1>3, <1>4 DEF Next, Seal, Reconfigure, Anchor, CheckRecord, vars

(* The ledger's history is refused only when the device's key has been      *)
(* replaced since one of its records was signed.                            *)
THEOREM FailedForCauseCorrect == Spec => []FailedForCause
  <1>1. Init => FailedForCause
    BY DEF Init, FailedForCause
  <1>2. QED
    BY <1>1, PageCorrect, FailedStep, PTL DEF Spec
-----------------------------------------------------------------------------
(* Transactions and the export *)

(* What is not committed yet is still what the handler would accept.        *)
TransactionInv ==
    /\ Len(events) <= MaxEvents
    /\ open # NoEntry =>
          /\ open.row \in Rows /\ Accepts(open.row) /\ ~IsStored(open.row)
          /\ Len(events) < MaxEvents
          /\ \E t \in LedgerTimes : open = NewEntry(open.row, t)

(* s is a part of the log, and of the transaction it was read in.           *)
Committed(s, seen) == IF seen = NoEntry THEN Len(s) ELSE Len(s) - 1

ExportOf(s, seen, logs) ==
    LET n == Committed(s, seen)
    IN  /\ n \in 0..Len(logs) /\ \A i \in 1..n : s[i] = logs[i]
        /\ seen # NoEntry => s[n + 1] = RecordOf(seen, HeadOf(s, n))

(* What was exported was signed by the device and by the ledger.            *)
ExportInv ==
    /\ {fetched, file} \subseteq Seq(SignedAnew)
    /\ {seenOpen, fileOpen} \subseteq Entry \cup {NoEntry}
    /\ Len(fetched) <= MaxEvents /\ Len(file) <= MaxEvents
    /\ ExportOf(fetched, seenOpen, Logs) /\ ExportOf(file, fileOpen, Logs)

(* The records compared so far are those fetched, and known on the device,  *)
(* where a key has one row.                                                 *)
CompareInv ==
    /\ source \in {"export", "text"}
    /\ exporter \in {"idle", "fetching", "comparing"}
    /\ known \subseteq local /\ local \subseteq Rows
    /\ devices \in Keys \cup {NoKey}
    /\ \A r1, r2 \in local : SameKey(r1, r2) => r1 = r2
    /\ records \in Seq(SignedAnew) /\ Len(records) <= Len(fetched)
    /\ \A i \in 1..Len(records) : records[i] = fetched[i] /\ records[i].row \in known
    /\ exporter = "idle" => known = {} /\ fetched = <<>> /\ records = <<>>
    /\ exporter = "fetching" => fetched = <<>> /\ records = <<>>

LedgerInv == TypeOK /\ IdleInv /\ ChainInv

-----------------------------------------------------------------------------
(* What a table exports *)

LEMMA SignedTyped == TypeOK => SignedAnew \subseteq BundleRecord
  BY PasteableTyped DEF Pasteable

LEMMA NewEntrySigned ==
    ASSUME TypeOK, NEW row \in Rows, NEW t \in LedgerTimes
    PROVE  RecordOf(NewEntry(row, t), LastHash) \in SignedAnew
  <1>1. LastHash \in Hashes
    <2>1. CASE events = <<>>
      BY <2>1 DEF LastHash, Hashes
    <2>2. CASE events # <<>>
      <3>1. events[Len(events)] \in Entries
        BY <2>2 DEF Entries, TypeOK
      <3>2. QED
        BY <2>2, <3>1 DEF LastHash, Hashes
    <2>3. QED
      BY <2>1, <2>2
  <1>2. QED
    BY <1>1 DEF SignedAnew, NewEntry

LEMMA LogsSigned ==
    ASSUME TypeOK, ChainInv, NEW i \in 1..Len(events)
    PROVE  Logs[i] \in SignedAnew
  <1> DEFINE previous == IF i = 1 THEN Genesis ELSE events[i - 1].chain
  <1>1. Logs[i] = RecordOf(events[i], previous)
    BY LogsTyped
  <1>2. events[i].chain = ChainHash(previous, events[i].row, events[i].lts)
    BY EntryIsLinked
  <1>3. previous \in Hashes
    <2>1. CASE i = 1
      BY <2>1 DEF Hashes
    <2>2. CASE i # 1
      <3>1. i - 1 \in DOMAIN events
        BY <2>2 DEF TypeOK
      <3>2. QED
        BY <2>2, <3>1 DEF Hashes, Entries
    <2>3. QED
      BY <2>1, <2>2
  <1> HIDE DEF previous
  <1>4. events[i] \in Entry
    BY EventsTyped
  <1>5. /\ events[i].row \in Rows /\ events[i].lts \in LedgerTimes
        /\ events[i] = [row |-> events[i].row, lts |-> events[i].lts,
                        chain |-> ChainHash(previous, events[i].row, events[i].lts)]
    BY <1>2, <1>4 DEF Entry
  <1>6. QED
    BY <1>1, <1>3, <1>5 DEF SignedAnew

LEMMA TableRowsExport ==
    ASSUME TypeOK, ChainInv, TransactionInv
    PROVE  /\ TableRows \in Seq(SignedAnew)
           /\ Len(TableRows) <= MaxEvents
           /\ ExportOf(TableRows, open, Logs)
  <1>1. Logs \in Seq(SignedAnew) /\ Len(Logs) = Len(events) /\ Len(events) \in Nat
    <2>1. Len(Logs) = Len(events) /\ Logs \in Seq(BundleRecord) /\ Len(events) \in Nat
      BY LogsTyped DEF TypeOK
    <2>2. \A i \in 1..Len(events) : Logs[i] \in SignedAnew
      BY LogsSigned
    <2>3. QED
      BY <2>1, <2>2
  <1>2. CASE open = NoEntry
    <2>1. TableRows = Logs
      BY <1>2 DEF TableRows
    <2>2. QED
      BY <1>1, <1>2, <2>1 DEF TransactionInv, ExportOf, Committed
  <1>3. CASE open # NoEntry
    <2>1. PICK t \in LedgerTimes : open = NewEntry(open.row, t)
      BY <1>3 DEF TransactionInv
    <2>2. RecordOf(open, LastHash) \in SignedAnew
      BY <1>3, <2>1, NewEntrySigned DEF TransactionInv
    <2>3. TableRows = Append(Logs, RecordOf(open, LastHash))
      BY <1>3 DEF TableRows
    <2>4. LastHash = HeadOf(TableRows, Len(events))
      <3>1. CASE events = <<>>
        BY <3>1 DEF LastHash, HeadOf
      <3>2. CASE events # <<>>
        <4>1. Len(events) \in 1..Len(events) /\ events \in Seq(Entry)
          BY <1>1, <3>2 DEF TypeOK
        <4>2. TableRows[Len(events)] = Logs[Len(events)]
          BY <1>1, <2>3, <4>1
        <4>3. Logs[Len(events)].chain = events[Len(events)].chain
          BY <4>1 DEF Logs, RecordOf
        <4>4. QED
          BY <3>2, <4>1, <4>2, <4>3 DEF LastHash, HeadOf
      <3>3. QED
        BY <3>1, <3>2
    <2>5. /\ Len(TableRows) = Len(events) + 1
          /\ \A i \in 1..Len(events) : TableRows[i] = Logs[i]
          /\ TableRows[Len(events) + 1] = RecordOf(open, LastHash)
      BY <1>1, <2>2, <2>3
    <2>6. Committed(TableRows, open) = Len(events)
      BY <1>1, <1>3, <2>5 DEF Committed
    <2>7. ExportOf(TableRows, open, Logs)
      BY <1>1, <2>4, <2>5, <2>6 DEF ExportOf
    <2>8. QED
      BY <1>1, <1>3, <2>2, <2>3, <2>7, VerifierAssumption DEF TransactionInv
  <1>4. QED
    BY <1>2, <1>3

LEMMA LedgerGrows ==
    ASSUME TypeOK, [Next]_vars
    PROVE  /\ SignedAnew \subseteq SignedAnew'
           /\ Len(Logs) <= Len(Logs') /\ \A i \in 1..Len(Logs) : Logs'[i] = Logs[i]
  <1>1. CASE UNCHANGED events
    <2>1. Logs' = Logs /\ SignedAnew' = SignedAnew
      BY <1>1 DEF Logs, SignedAnew, Hashes, Entries
    <2>2. Len(Logs) \in Nat
      BY LogsTyped DEF TypeOK
    <2>3. QED
      BY <2>1, <2>2
  <1>2. ASSUME NEW row \in Rows, NEW t \in LedgerTimes, events' = Append(events, NewEntry(row, t))
        PROVE  /\ SignedAnew \subseteq SignedAnew'
               /\ Len(Logs) <= Len(Logs') /\ \A i \in 1..Len(Logs) : Logs'[i] = Logs[i]
    <2>1. /\ Len(events) \in Nat /\ Len(events') = Len(events) + 1
          /\ \A k \in 1..Len(events) : events'[k] = events[k]
          /\ DOMAIN events = 1..Len(events) /\ DOMAIN events' = 1..(Len(events) + 1)
      BY <1>2, NewEntryTyped DEF TypeOK
    <2>2. Entries \subseteq Entries'
      BY <2>1 DEF Entries
    <2>3. SignedAnew \subseteq SignedAnew'
      BY <2>2 DEF SignedAnew, Hashes
    <2>4. Len(Logs) = Len(events)
      BY LogsTyped
    <2>5. Len(Logs') = Len(events) + 1
      BY <2>1 DEF Logs
    <2>6. \A i \in 1..Len(events) : Logs'[i] = Logs[i]
      <3>1. TAKE i \in 1..Len(events)
      <3>2. i # 1 => i - 1 \in 1..Len(events)
        BY <2>1
      <3>3. QED
        BY <2>1, <3>2 DEF Logs
    <2>7. QED
      BY <2>1, <2>3, <2>4, <2>5, <2>6
  <1>3. QED
    BY <1>1, <1>2, SealAppends
    DEF Next, Reconfigure, Anchor, Submit, CheckRecord, Conclude, Clear, vars, ledgerVars

LEMMA ExportStays ==
    ASSUME TypeOK, [Next]_vars
    PROVE  /\ \A s \in Seq(SignedAnew) : s \in Seq(SignedAnew')
           /\ \A s \in Seq(SignedAnew) : \A seen :
                 ExportOf(s, seen, Logs) => ExportOf(s, seen, Logs')
  <1>1. \A s \in Seq(SignedAnew) : s \in Seq(SignedAnew')
    BY LedgerGrows, SeqMonotonic
  <1>2. ASSUME NEW s \in Seq(SignedAnew), NEW seen, ExportOf(s, seen, Logs)
        PROVE  ExportOf(s, seen, Logs')
    <2> DEFINE n == Committed(s, seen)
    <2>1. n \in 0..Len(Logs) /\ \A i \in 1..n : s[i] = Logs[i]
      BY <1>2 DEF ExportOf
    <2>2. Len(Logs) \in Nat /\ Len(Logs) <= Len(Logs')
      BY LogsTyped, LedgerGrows DEF TypeOK
    <2>3. Len(Logs') \in Nat
      BY DEF Logs
    <2> HIDE DEF n
    <2>4. n \in 0..Len(Logs') /\ \A i \in 1..n : s[i] = Logs'[i]
      BY <2>1, <2>2, <2>3, LedgerGrows
    <2>5. seen # NoEntry => s[n + 1] = RecordOf(seen, HeadOf(s, n))
      BY <1>2 DEF ExportOf, n
    <2>6. QED
      BY <2>4, <2>5 DEF ExportOf, n
  <1>3. QED
    BY <1>1, <1>2

-----------------------------------------------------------------------------
(* A step of the export or of a transaction is a step of Verifier. *)

LEMMA CommitSeals ==
    ASSUME TypeOK, TransactionInv, Commit
    PROVE  \E row \in Rows : Seal(row)
  <1>1. PICK t \in LedgerTimes : open = NewEntry(open.row, t)
    BY DEF Commit, TransactionInv
  <1>2. open.row \in Rows /\ Accepts(open.row) /\ ~IsStored(open.row) /\ Len(events) < MaxEvents
    BY DEF Commit, TransactionInv
  <1>3. open # Rejected /\ open \in Answers(open.row)
    <2>1. open.chain = ChainHash(LastHash, open.row, t)
      BY <1>1 DEF NewEntry
    <2>2. Len(open.chain) = Len(LastHash) + 1 /\ Len(LastHash) \in Nat
      <3>1. LastHash \in Hash
        BY LastHashTyped
      <3>2. \A row \in Rows : Len(ChainHash(LastHash, row, t)) = Len(LastHash) + 1
        BY <1>1, <3>1, ChainHashTyped
      <3>3. Len(open.chain) = Len(LastHash) + 1
        BY <1>2, <2>1, <3>2
      <3>4. QED
        BY <3>1, <3>3 DEF Hash
    <2>3. Len(Rejected.chain) = 0
      BY DEF Rejected, Genesis
    <2>4. open # Rejected
      BY <2>2, <2>3
    <2>5. QED
      BY <1>1, <1>2, <2>4 DEF Answers
  <1>4. SealEvent(open.row, open)
    BY <1>1, <1>2 DEF SealEvent, Commit
  <1>5. Seal(open.row)
    BY <1>2, <1>3, <1>4 DEF Seal, Commit, pageVars
  <1>6. QED
    BY <1>2, <1>5

LEMMA SubmitFileSubmits ==
    ASSUME LedgerInv, ExportInv, SubmitFile
    PROVE  Submit
  <1>1. file \in Seq(SignedAnew) /\ Len(file) \in 0..MaxRecords
    BY VerifierAssumption, BundleAssumption DEF ExportInv
  <1>2. file \in [1..Len(file) -> Pasteable]
    BY <1>1 DEF Pasteable
  <1>3. QED
    BY <1>1, <1>2 DEF SubmitFile, Submit

LEMMA RefineStep == LedgerInv /\ TransactionInv /\ ExportInv /\ [BundleNext]_bundleVars => [Next]_vars
  <1> SUFFICES ASSUME LedgerInv, TransactionInv, ExportInv, [BundleNext]_bundleVars
               PROVE  Next \/ UNCHANGED vars
    OBVIOUS
  <1>1. CASE (\E row \in Rows : Log(row) \/ InsertEvent(row)) \/ Rollback
    BY <1>1 DEF Log, InsertEvent, Rollback
  <1>2. CASE Commit
    BY <1>2, CommitSeals DEF Next, LedgerInv
  <1>3. CASE Restart
    BY <1>3 DEF Restart, Next
  <1>4. CASE ReadLocal \/ FetchLogs \/ CompareRecord \/ WriteBundle \/ FailExport
    BY <1>4 DEF ReadLocal, FetchLogs, CompareRecord, WriteBundle, FailExport
  <1>5. CASE SubmitFile
    BY <1>5, SubmitFileSubmits DEF Next
  <1>6. CASE SubmitText \/ Page
    BY <1>6 DEF SubmitText, Page, Next
  <1>7. CASE UNCHANGED bundleVars
    BY <1>7 DEF bundleVars
  <1>8. QED
    BY <1>1, <1>2, <1>3, <1>4, <1>5, <1>6, <1>7 DEF BundleNext

LEMMA TransactionStep ==
    LedgerInv /\ TransactionInv /\ [BundleNext]_bundleVars => TransactionInv'
  <1> SUFFICES ASSUME LedgerInv, TransactionInv, [BundleNext]_bundleVars
               PROVE  TransactionInv'
    OBVIOUS
  <1> USE DEF TransactionInv, Accepts, IsStored, Entries, NewEntry, LastHash
  <1>0. events \in Seq(Entry) /\ Len(events) \in Nat
    BY DEF LedgerInv, TypeOK
  <1>1. CASE UNCHANGED <<events, registry, open>>
    BY <1>1
  <1>2. ASSUME NEW row \in Rows, InsertEvent(row)
        PROVE  TransactionInv'
    BY <1>2 DEF InsertEvent, vars, ledgerVars
  <1>3. CASE Commit
    BY <1>0, <1>3, VerifierAssumption DEF Commit
  <1>4. CASE Rollback
    BY <1>4 DEF Rollback, vars, ledgerVars
  <1>5. CASE Restart
    BY <1>5 DEF Restart, Reconfigure
  <1>6. CASE \E row \in Rows : Log(row)
    BY <1>1, <1>6 DEF Log, vars, ledgerVars
  <1>7. CASE ReadLocal \/ FetchLogs \/ CompareRecord \/ WriteBundle \/ FailExport
    BY <1>1, <1>7 DEF ReadLocal, FetchLogs, CompareRecord, WriteBundle, FailExport, vars, ledgerVars
  <1>8. CASE SubmitFile \/ SubmitText \/ Page
    BY <1>1, <1>8 DEF SubmitFile, SubmitText, Page, Submit, Anchor, CheckRecord, Conclude, Clear, ledgerVars
  <1>9. CASE UNCHANGED bundleVars
    BY <1>1, <1>9 DEF bundleVars, vars, ledgerVars
  <1>10. QED
    BY <1>2, <1>3, <1>4, <1>5, <1>6, <1>7, <1>8, <1>9 DEF BundleNext

LEMMA ExportStep ==
    LedgerInv /\ TransactionInv /\ ExportInv /\ CompareInv /\ [BundleNext]_bundleVars => ExportInv'
  <1> SUFFICES ASSUME LedgerInv, TransactionInv, ExportInv, CompareInv, [BundleNext]_bundleVars
               PROVE  ExportInv'
    OBVIOUS
  <1>0. [Next]_vars
    BY RefineStep
  <1>1. /\ {fetched, file, TableRows, <<>>} \subseteq Seq(SignedAnew)
        /\ Len(fetched) <= MaxEvents /\ Len(file) <= MaxEvents
        /\ Len(TableRows) <= MaxEvents /\ Len(<<>>) <= MaxEvents
    BY TableRowsExport, VerifierAssumption DEF LedgerInv, ExportInv
  <1>2. /\ ExportOf(fetched, seenOpen, Logs) /\ ExportOf(file, fileOpen, Logs)
        /\ ExportOf(TableRows, open, Logs) /\ ExportOf(<<>>, NoEntry, Logs)
        /\ {seenOpen, fileOpen, open, NoEntry} \subseteq Entry \cup {NoEntry}
    <2>1. ExportOf(<<>>, NoEntry, Logs)
      <3>1. Len(Logs) \in Nat
        BY LogsTyped DEF LedgerInv, TypeOK
      <3>2. QED
        BY <3>1 DEF ExportOf, Committed
    <2>2. open \in Entry \cup {NoEntry}
      BY NewEntryTyped DEF LedgerInv, TransactionInv
    <2>3. QED
      BY <2>1, <2>2, TableRowsExport DEF LedgerInv, ExportInv
  <1>3. /\ \/ fetched' = fetched /\ seenOpen' = seenOpen
           \/ fetched' = TableRows /\ seenOpen' = open
           \/ fetched' = <<>> /\ seenOpen' = NoEntry
        /\ \/ file' = file /\ fileOpen' = fileOpen
           \/ file' = fetched /\ fileOpen' = seenOpen
    <2>1. CASE ReadLocal \/ FetchLogs \/ FailExport
      BY <2>1 DEF ReadLocal, FetchLogs, FailExport, EndExport
    <2>2. CASE CompareRecord
      BY <2>2 DEF CompareRecord, EndExport
    <2>3. CASE WriteBundle
      <3>1. records = fetched
        <4>1. Len(records) = Len(fetched)
          BY <2>3 DEF WriteBundle
        <4>2. QED
          BY <1>1, <4>1, SeqEqual DEF CompareInv
      <3>2. QED
        BY <2>3, <3>1 DEF WriteBundle, EndExport
    <2>4. CASE UNCHANGED <<fetched, file, seenOpen, fileOpen>>
      BY <2>4
    <2>5. QED
      BY <2>1, <2>2, <2>3, <2>4 DEF BundleNext, bundleVars, exportVars, readVars,
         Log, InsertEvent, Commit, Rollback, Restart, SubmitFile, SubmitText, Page
  <1>4. \A s \in Seq(SignedAnew) : \A seen :
            s \in Seq(SignedAnew') /\ (ExportOf(s, seen, Logs) => ExportOf(s, seen, Logs'))
    BY <1>0, ExportStays DEF LedgerInv
  <1>5. /\ fetched' \in Seq(SignedAnew') /\ Len(fetched') <= MaxEvents
        /\ ExportOf(fetched', seenOpen', Logs')
    BY <1>1, <1>2, <1>3, <1>4
  <1>6. /\ file' \in Seq(SignedAnew') /\ Len(file') <= MaxEvents
        /\ ExportOf(file', fileOpen', Logs')
    BY <1>1, <1>2, <1>3, <1>4
  <1>7. {seenOpen', fileOpen'} \subseteq Entry \cup {NoEntry}
    BY <1>2, <1>3
  <1>8. QED
    BY <1>5, <1>6, <1>7 DEF ExportInv

(* A local record that matches is the record the ledger has returned.       *)
LEMMA MatchIsSame ==
    ASSUME NEW r \in SignedAnew, NEW row, Matches(row, r)
    PROVE  [r EXCEPT !.row = row, !.signature = row] = r /\ r.row = row
  <1>1. PICK signed \in Rows, t \in LedgerTimes, h \in Hashes :
            r = RecordOf([row |-> signed, lts |-> t, chain |-> ChainHash(h, signed, t)], h)
    BY DEF SignedAnew
  <1> DEFINE e == [row |-> signed, lts |-> t, chain |-> ChainHash(h, signed, t)]
  <1>2. r.receipt = [row |-> row, lts |-> r.lts, chain |-> r.chain]
    BY DEF Matches
  <1>3. r.receipt = e /\ r.row = e.row /\ r.signature = e.row
    BY <1>1 DEF RecordOf
  <1>4. e.row = row
    BY <1>2, <1>3
  <1>5. QED
    BY <1>1, <1>3, <1>4 DEF RecordOf

LEMMA CompareStep ==
    LedgerInv /\ TransactionInv /\ ExportInv /\ CompareInv /\ [BundleNext]_bundleVars => CompareInv'
  <1> SUFFICES ASSUME LedgerInv, TransactionInv, ExportInv, CompareInv, [BundleNext]_bundleVars
               PROVE  CompareInv'
    OBVIOUS
  <1>0. \A s \in Seq(SignedAnew) : s \in Seq(SignedAnew')
    BY RefineStep, ExportStays DEF LedgerInv
  <1>1. records \in Seq(SignedAnew') /\ <<>> \in Seq(SignedAnew')
    BY <1>0 DEF CompareInv
  <1>2. ASSUME NEW row \in Rows, Log(row)
        PROVE  CompareInv'
    BY <1>1, <1>2 DEF Log, CompareInv, SameKey, readVars
  <1>3. CASE ReadLocal
    <2>1. records = <<>>
      BY <1>3 DEF ReadLocal, CompareInv
    <2>2. registry \in Keys \cup {NoKey}
      BY DEF LedgerInv, TypeOK
    <2>3. QED
      BY <1>1, <1>3, <2>1, <2>2 DEF ReadLocal, CompareInv
  <1>4. CASE FetchLogs
    <2>1. records = <<>>
      BY <1>4 DEF FetchLogs, CompareInv
    <2>2. Len(TableRows) \in Nat
      BY TableRowsExport DEF LedgerInv
    <2>3. QED
      BY <1>1, <1>4, <2>1, <2>2 DEF FetchLogs, CompareInv
  <1>5. ASSUME EndExport, UNCHANGED <<source, local>>
        PROVE  CompareInv'
    BY <1>1, <1>5 DEF EndExport, CompareInv
  <1>6. ASSUME CompareRecord, ~EndExport
        PROVE  CompareInv'
    <2> DEFINE r == fetched[Len(records) + 1]
    <2>1. PICK row \in known :
              /\ Matches(row, r)
              /\ records' = Append(records, [r EXCEPT !.row = row, !.signature = row])
              /\ UNCHANGED <<exporter, devices, known, fetched>>
      BY <1>6 DEF CompareRecord
    <2>2. /\ Len(records) \in Nat /\ Len(fetched) \in Nat /\ Len(records) < Len(fetched)
          /\ r \in SignedAnew
      <3>1. /\ Len(records) \in Nat /\ Len(records) < Len(fetched)
            /\ fetched \in Seq(SignedAnew)
        <4>1. Len(records) < Len(fetched)
          BY <1>6 DEF CompareRecord
        <4>2. Len(records) \in Nat
          BY DEF CompareInv
        <4>3. fetched \in Seq(SignedAnew)
          BY DEF ExportInv
        <4>4. QED
          BY <4>1, <4>2, <4>3
      <3>2. Len(records) + 1 \in 1..Len(fetched) /\ Len(fetched) \in Nat
        BY <3>1
      <3>3. QED
        BY <3>1, <3>2, ElementOfSeq
    <2>3. records' = Append(records, r) /\ r.row = row
      BY <2>1, <2>2, MatchIsSame
    <2>4. records' \in Seq(SignedAnew) /\ Len(records') = Len(records) + 1
      BY <2>2, <2>3 DEF CompareInv
    <2>5. \A i \in 1..Len(records') : records'[i] = fetched[i] /\ records'[i].row \in known
      BY <2>2, <2>3 DEF CompareInv
    <2>6. records' \in Seq(SignedAnew')
      BY <1>0, <2>4
    <2>7. UNCHANGED <<source, local>>
      BY <1>6 DEF CompareRecord
    <2>8. exporter = "comparing"
      BY <1>6 DEF CompareRecord
    <2> HIDE DEF r
    <2>9. QED
      BY <2>1, <2>2, <2>4, <2>5, <2>6, <2>7, <2>8 DEF CompareInv
  <1>7. CASE UNCHANGED <<source, local, exporter, readVars>>
    BY <1>1, <1>7 DEF CompareInv, readVars
  <1>8. QED
    BY <1>2, <1>3, <1>4, <1>5, <1>6, <1>7 DEF BundleNext, bundleVars, exportVars, CompareRecord,
       WriteBundle, FailExport, InsertEvent, Commit, Rollback, Restart, SubmitFile, SubmitText, Page

LEMMA BundleInv == BundleSpec => [](LedgerInv /\ TransactionInv /\ ExportInv /\ CompareInv)
  <1>1. BundleInit => LedgerInv
    BY VerifierAssumption
    DEF BundleInit, Init, LedgerInv, TypeOK, IdleInv, ChainInv, IsHead, Genesis, Hash
  <1>2. BundleInit => TransactionInv
    BY VerifierAssumption DEF BundleInit, Init, TransactionInv
  <1>3. BundleInit => ExportInv /\ CompareInv
    <2>1. BundleInit => Len(Logs) = 0
      BY DEF BundleInit, Init, Logs
    <2>2. BundleInit => ExportOf(<<>>, NoEntry, Logs)
      BY <2>1 DEF ExportOf, Committed
    <2>3. QED
      BY <2>2, VerifierAssumption DEF BundleInit, ExportInv, CompareInv
  <1>4. LedgerInv /\ [Next]_vars => LedgerInv'
    BY TypeStep, IdleStep, ChainStep DEF LedgerInv
  <1>5. QED
    BY <1>1, <1>2, <1>3, <1>4, RefineStep, TransactionStep, ExportStep, CompareStep, PTL DEF BundleSpec

-----------------------------------------------------------------------------
(* Theorems *)

(* The transactions of the ledger and the export implement Verifier: what   *)
(* the page says of a pasted bundle it says of an exported one.             *)
THEOREM VerifierCorrect == BundleSpec => Spec
  <1>1. BundleInit => Init
    BY DEF BundleInit
  <1>2. QED
    BY <1>1, BundleInv, RefineStep, PTL DEF BundleSpec, Spec

(* Every state is of its type.                                              *)
THEOREM BundleTypeCorrect == BundleSpec => []BundleTypeOK
  <1>1. LedgerInv /\ TransactionInv /\ ExportInv /\ CompareInv => BundleTypeOK
    <2> SUFFICES ASSUME LedgerInv, TransactionInv, ExportInv, CompareInv
                 PROVE  BundleTypeOK
      OBVIOUS
    <2>1. {fetched, records, file} \subseteq Seq(BundleRecord)
      BY SignedTyped, SeqMonotonic DEF LedgerInv, ExportInv, CompareInv
    <2>2. {open, seenOpen, fileOpen} \subseteq Entry \cup {NoEntry}
      BY NewEntryTyped DEF LedgerInv, TransactionInv, ExportInv
    <2>3. QED
      BY <2>1, <2>2 DEF BundleTypeOK, CompareInv
  <1>2. QED
    BY <1>1, BundleInv, PTL

(* Every record of an export but one read from an open transaction is, at   *)
(* its place, on the ledger, and that one is chained to them.               *)
THEOREM ExportIsHistoryCorrect == BundleSpec => []ExportIsHistory
  <1>1. LedgerInv /\ ExportInv => ExportIsHistory
    <2> SUFFICES ASSUME LedgerInv, ExportInv
                 PROVE  ExportIsHistory
      OBVIOUS
    <2> DEFINE n == Committed(file, fileOpen)
    <2>1. /\ Logs \in Seq(BundleRecord) /\ Len(Logs) = Len(events)
          /\ file \in Seq(BundleRecord) /\ Len(file) \in Nat /\ Len(events) \in Nat
      BY LogsTyped, SignedTyped, SeqMonotonic DEF LedgerInv, ExportInv, TypeOK
    <2>2. /\ n \in 0..Len(events) /\ n <= Len(file) /\ \A i \in 1..n : file[i] = Logs[i]
          /\ fileOpen # NoEntry => file[n + 1] = RecordOf(fileOpen, HeadOf(file, n))
      BY <2>1 DEF ExportInv, ExportOf, Committed
    <2> HIDE DEF n
    <2>3. /\ SubSeq(file, 1, n) \in Seq(BundleRecord) /\ Len(SubSeq(file, 1, n)) = n
          /\ \A i \in 1..n : SubSeq(file, 1, n)[i] = file[i]
      BY <2>1, <2>2
    <2>4. /\ SubSeq(Logs, 1, n) \in Seq(BundleRecord) /\ Len(SubSeq(Logs, 1, n)) = n
          /\ \A i \in 1..n : SubSeq(Logs, 1, n)[i] = Logs[i]
      BY <2>1, <2>2
    <2>5. SubSeq(file, 1, n) = SubSeq(Logs, 1, n)
      BY <2>2, <2>3, <2>4, SeqEqual
    <2>6. QED
      BY <2>2, <2>5 DEF ExportIsHistory, n, Committed
  <1>2. QED
    BY <1>1, BundleInv, PTL

(* A bundle is only written when it has all the local records that were     *)
(* read and no other.                                                       *)
THEOREM ExportIsLocalCorrect == BundleSpec => ExportIsLocal
  <1>1. CompareInv /\ [BundleNext]_bundleVars =>
            [file' # file => {file'[i].row : i \in DOMAIN file'} = known]_bundleVars
    <2> SUFFICES ASSUME CompareInv, BundleNext, file' # file
                 PROVE  {file'[i].row : i \in DOMAIN file'} = known
      OBVIOUS
    <2>1. WriteBundle
      BY DEF BundleNext, Log, InsertEvent, Commit, Rollback, Restart, ReadLocal, FetchLogs, CompareRecord,
         FailExport, SubmitFile, SubmitText, Page, exportVars
    <2>2. file' = records /\ \A row \in known : IsFetched(row)
      BY <2>1 DEF WriteBundle
    <2>3. Len(records) = Len(fetched)
      BY <2>1 DEF WriteBundle
    <2>4. DOMAIN records = 1..Len(records)
      BY DEF CompareInv
    <2>5. {records[i].row : i \in DOMAIN records} \subseteq known
      BY <2>4 DEF CompareInv
    <2>6. ASSUME NEW row \in known
          PROVE  row \in {records[i].row : i \in DOMAIN records}
      <3>1. PICK i \in DOMAIN fetched : SameKey(row, fetched[i].row)
        BY <2>2 DEF IsFetched
      <3>2. i \in DOMAIN records
        BY <2>3, <2>4, <3>1
      <3>3. records[i] = fetched[i] /\ records[i].row \in known
        BY <2>4, <3>2 DEF CompareInv
      <3>4. row = records[i].row
        BY <3>1, <3>3 DEF CompareInv
      <3>5. QED
        BY <3>2, <3>4
    <2>7. QED
      BY <2>2, <2>5, <2>6
  <1>2. QED
    BY <1>1, BundleInv, PTL DEF BundleSpec, ExportIsLocal
=============================================================================
