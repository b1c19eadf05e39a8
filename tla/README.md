# Verification of the agent accountability proxy and ledger

This directory holds TLA+ models of the accountability daemon (`src/daemon`)
and of its remote ledger (`src/ledger`), the TLC configurations that check them
on small instances and TLAPS proofs of their main properties for every value of
the constants. `PROJECT.json` relates each definition to the lines it stands for.

## 1. The system

An AI agent (the *client*) talks JSON-RPC over stdin/stdout to an MCP *server*.
The daemon sits between them: it starts the server, passes lines both ways and,
for the `tools/call`s its policy calls irreversible, demands a lease from the
ledger, logs the call in a local SQLite database before the server sees it, logs
the outcome before the client sees it, and sends both events to the ledger,
which countersigns them into a hash chain.

| part | code | state | operations |
|---|---|---|---|
| stdio relay | `accountability-proxy/src/stdio_proxy.rs` | the line each of the two tasks handles, `pending_calls`, two pipes, the server process | read, classify, refuse, log, register, forward; read, seal, relay; crash, exit, start |
| queue database | `ledger_client.rs` (`new`, `has_nonce`, `insert_local_event`) | `local_audit_log` with key (nonce, action_status) | lookup, insert |
| lease | `ledger_client.rs` (`ensure_lease`), `main.py` (`/lease`) | `lease_expires_at`, `AUTHORIZED_DEVICES`, two clocks | use, ask, grant, refuse, time out |
| synchronisation | `ledger_client.rs` (`sync_queue`, `verify_and_store_receipt`) | `receipts` and the receipt columns, the request in flight | send the oldest event, verify and store its receipt |
| ledger | `main.py` (`/seal`) | `events`, the registry | append, answer again, refuse |
| ledger startup | `main.py:30-107` | `events`, `events_old`, two triggers | create, inspect, rename, copy, drop, add columns, protect, each committed by itself |
| relay policy | `stdio_proxy.rs:66-104` | none (environment) | the first rule that names the tool decides |
| CLI | `accountability-cli/src/main.rs` | how far the start is, the profile file all daemons share | load the policy, write the profile, start the server through `sandbox-exec`, enter the relay |
| core library | `accountability-core/src/domain/policy.rs` | capability policy | parsing; network and file check, which nothing calls |
| sandbox | `accountability-sandbox` | none | profile text (macOS); the Linux parts apply nothing |
| ledger read | `main.py` (`/logs`) | the transaction of `/seal`, through the shared connection | list the rows |
| bundle | `create_bundle.py` | local records, ledger records, a file | read both, compare both ways, write |
| verifier | `build_verifier.py` (`verifier.html` is its output) | the pasted bundle, the running hash, results | check each record, compare with the anchor |
| anchoring | `anchor_ledger.py` | none | publish the head of the chain, or the empty hash when the query fails |

**Interactions.** The two relay tasks share `pending_calls` and, through one
connection each process, the database; several processes may open the same
database. The background worker of each process reads the same log and talks
HTTP to the ledger, which serves `/seal` in one exclusive transaction. `/logs`
runs in another thread on the same connection and sees that transaction. The
daemons of a machine share the path of the sandbox profile, which `sandbox-exec`
opens some time after the daemon wrote it. Both relay tasks write to the client
under one lock.

**What is hard.** The interleaving of the two tasks, of several processes and of
several workers on one database; a crash between any two steps, after which only
the database is left; a check (`has_nonce`) that is not atomic with what it
protects and reports absence when it fails; lost, late and repeated requests;
clocks that differ or are set back; a key that is revoked or replaced while
events wait or after they are sealed; a migration that is cut short between two
committed statements and is not tried again; a file that two daemons write and a
third program reads; an export that compares what it read at two moments; a client
that stops reading and holds up both tasks. `PROJECT.json` lists each hazard with
its line.

**What makes each part correct.** Relay: a call is executed at most once, never
unrecorded, and no outcome is shown unsealed. Log: the first row of a call is
its request and one terminal row follows. Queue: each event is on the ledger
once and acknowledged in the end. Ledger: the chain commits to all of it.
Lease: a revoked device is admitted no longer than a lease lasts. Startup: the served table is
append-only and nothing is destroyed. Policy: a call is unrecorded only where the
policy opts out. Launch: a server runs under the profile of its own policy unless
another daemon used the path meanwhile. Export: the file is the ledger's history
and the device's records. Verifier:
what it accepts is the ledger's history.

At most once, not exactly once: a crash between the insertion and the write to
the server leaves a recorded call that never ran and that is refused when it is
repeated (`RefuseInFlight`, `CheckNonce`). That is what the code chooses.

## 2. Modules

                 QueueDb ── AuditLog (what the log promises)
                  │  │          ▲ refines (ContractSpec)
                  │  └──── Relay (RelayProofs)
                  │             ▲ refines
    Accountability ◄─refines─ System (SystemProofs)
         │ extends              ▼ refines (QueueSpec)
    AuditTrail ◄──refines── SealQueue (SealQueueProofs) ── AuditLog, QueueDb
                                │
                              Ledger ── Verifier ◄─refines─ Bundle (BundleProofs)
    LeaseGate (LeaseGateProofs) ── Daemon (DaemonProofs) ── Capabilities
    LedgerMigration (LedgerMigrationProofs)
    PolicyGate (PolicyGateProofs)

* **QueueDb**: the table `local_audit_log` and its `INSERT`. A row keeps nonce,
  status, payload, timestamp and the key that signed it. `Stamps` says which
  timestamps a new row may carry: the clock is read before the lock is taken, so
  rows of different calls may be logged out of order even with a good clock.
* **AuditLog**: the contract of the log. `Relay` is shown to implement it
  (`ContractSpec`), and `SealQueue` uses it for the proxies. The table itself
  enforces only its key: that a request comes first and one outcome follows is
  what the two tasks make of it.
* **Relay**: both tasks of `relay_with_intercept` and the MCP server, per
  process. `Refusal` is any error response of the daemon: no property tells one
  from another. `pc`/`cur` is where the parent task is and the line it holds, between
  two awaits; `cpc`/`msg`/`sealing` the same for the child task. `Crash` may come
  at any step and loses all but the log; the injected exits and the `exit(1)` of
  a failed terminal insertion are crashes too. The policy decides whether a line
  is a `Call` (`AcceptCall`) or passes (`PassThrough`); the lease is an outcome
  (`EnsureLease`). `out` is the last line written to the client, `forwards` is a
  history variable. The server is external: it may answer in any order, fail,
  send requests of its own, or exit. So is the client (`client`): it may stop
  reading, read again or leave. A task that has something to write to it
  (`WriteRefusal`, `RelayMessage`) waits while it does not read; a client that is
  gone costs the child task its life (a failed write) or nothing (a failed flush),
  and the parent task nothing, as it ignores the error.
* **Ledger**: `POST /seal` as one step on `events`, which is what the exclusive
  transaction in a handler without `await` makes of it.
* **SealQueue**: `sync_queue` of any number of workers, the network, the ledger
  and its reconfiguration. A request given up stays in `late` and may still be
  executed once; losing it is leaving it there. `Verified` is the check of the
  ledger's signature. Its proxies are
  AuditLog (`Insert`). The specification is `QueueSpec`, as its names live beside
  those of Relay in System.
* **AuditTrail**: what a user may rely on: recorded, then sealed, then
  acknowledged, nothing taken back.
* **System**: Relay and SealQueue on one log, with the lifetime of the processes
  that neither has: a worker polls only in a process that is up, the ten rounds
  before the exit (`"flush"`) only when both relay tasks and the server have ended,
  and a process that goes leaves its requests to the network. A round may return
  on any error, so `Leave` asks for no number of rounds. The lease stays an
  outcome of `EnsureLease`. `shown` is a history variable.
* **Accountability**: the promise of the repository's README in one page, for a
  call: request recorded, executed once at most, outcome recorded, shown; both
  events sealed, the request first, then acknowledged.
* **LedgerMigration**: the startup, one action per statement, because the
  connection commits each by itself. `pc` is the next statement. `StatementFails`
  is an error that an `except` forgets, of the migration or of an `ALTER TABLE`: the
  ledger may then serve a table that lacks columns, and each insertion into it
  fails. `Crash` may come at any step.
  A trigger has a table, follows it when it is renamed and is not created where
  one of its name exists, as in SQLite: that is what `ProtectedWhenServing` hangs
  on. `sealed` is the history of all answered rows. The instances start from an
  empty file and from tables of each older version.
* **PolicyGate**: the policy is chosen once, fields may be missing or unknown;
  `next` is the loop over the rules. What it is compared with (`OptedOut`) is what
  the README says, stated over the whole policy: the text `bypass`, or a condition
  that is met, is what it takes to pass without the ledger.
* **Verifier**: the ledger with its key changes, its published heads, and the page
  that checks a pasted bundle record by record (`checked`, `prevHash`, `verdict`).
  `Pasteable` is what the text may hold: genuine records, records with altered
  parts, records signed anew with the device's key. The next text is submitted
  when the verdict is there; the page does not enforce that.
* **Bundle**: how records come to that page. The insertion and the commit of
  `/seal` are two steps here, `open` is the row between them, and `TableRows` is
  what `/logs` then lists. `create_bundle` is split where it reads: `known` (the
  local records), `devices` (its registry, read with them), `fetched` (the answer,
  empty for an error answered in JSON), `records` (compared so far), `file`; the
  device logs, the ledger seals and is reconfigured between any two of these
  steps. The table `local_events` is external (`Log`), as the daemon does not
  create it. `seenOpen` and `fileOpen` are history variables: the transaction the
  answer was read in, if any. The auditor submits the exported file or any
  `Pasteable` text.
* **Capabilities**: the capability policy, its two defaults and the network rules
  of the Seatbelt profile, as functions. A host pattern, which the engine would
  match as a glob, is written literally and in the place of a port
  (`macos.rs:39`); a profile is therefore whether it denies the network and which
  texts stand where its ports are, and nothing is said of hosts.
* **Daemon**: `main` around `LeaseGate`: `stage` is where it is, `sbFile` the set of
  profiles the shared file can be read as (empty while truncated, any of them
  where two writers overlap), `confined` the profile a server got. A server whose
  `sandbox-exec` has not read the file (`AwaitsProfile`) does not keep the relay
  from running and asking for leases; the end of the process loses the lease.
  `disturbed` is a history variable. For the daemons in `Others` only the launch is
  followed. On other platforms nothing confines the server.
* **LeaseGate**: `ensure_lease` and `/lease` against a discrete clock. Tick does
  not pass the deadline of a request, which is the client's timeout. Its bounds are
  of the admission: no clock is read between that and the write to the server.

Definitions called *variant* are deliberate faults, used only to see that each
checked property notices one; no specification refers to them.

Abstractions used throughout: a hash is what it hashes (SHA-256 and the chain
hash are injective), so the stable nonce of a call is the call and the chain hash
of an entry the sequence of records up to it; a signature is the identity of its
signer; encryption, formatting and logging are left out.

## 3. What is checked

| run | instance | question | result |
|---|---|---|---|
| shared | 2 processes, 2 calls with one id, symmetry | at most once, recorded before forwarded, sealed before shown, under crashes and restarts; implements AuditLog | holds |
| ids | 1 process, 2 calls (one with a fractional id), open lines, server requests, a client that stalls or leaves, fairness | the panic, other traffic; no answer is logged for a call that was not forwarded; a line is left hanging, or a forwarded call unconcluded, only behind a client that never reads again | holds |
| whole | 1 process that comes and goes, 1 call, both sync tasks, the ledger, fairness | what the ledger says happened; the whole keeps the promise of Accountability; the processes are proxies of SealQueue; every event gets its receipt, whichever process sends it | holds |
| launch | 2 daemons, no file, a file of two tools, a file that cannot be parsed, macOS and elsewhere; TTL 2, timeout 1, clocks off by -2, 0, 2, kills and new starts | own profile unless disturbed; how long a revoked device is admitted | holds |
| collision | server requests that reuse the client's ids | a completed call was forwarded | **violated**: a request of the server is sealed as an outcome (`stdio_proxy.rs:241-247`) |
| safety | 2 workers, 2 keys, a second device | receipts, idempotence, chain, order, one outcome for each call; implements AuditTrail | holds |
| revoked | the key is removed | every event gets a receipt (README, line 94) | **violated**: a queued event of a revoked device is refused for ever |
| shutdown | TTL 3, timeout 2, a ledger whose clock is right or 2 ahead | a revoked device is stopped within the time of a lease (README, line 19) | **violated**: the expiry is of the ledger's clock and compared with the device's (`ledger_client.rs:155`) |
| startup | databases of every version, up to 2 crashes or failed statements | append-only when serving, nothing destroyed, whole unless a table is left | holds |
| older | a table without the later columns, no fault | the migration keeps the rows (`main.py:48`) | **violated**: the copy of `main.py:77` precedes the `ALTER TABLE` of line 85, fails on the number of columns, and the ledger starts empty |
| default | policies of up to 2 rules over 2 tools, values below, at and above the limit, modes the relay does not know | unrecorded only where the policy says bypass (README, line 24) | **violated**: a `default_mode` other than `require_ledger`, as `block`, forwards what no rule names (`stdio_proxy.rs:70`) |
| page | 3 events under 2 keys, exported files and any text of up to 2 records, a published head, key changes, open transactions | the file is the history, but for a last record of an open transaction, and the local records; what is accepted is history; what fails, fails for a cause; implements Verifier | holds |

**Bounds and why they suffice.** `PipeCap = 1` already makes writers block and
lets both pipes hold a line while both tasks hold another. Two processes and one
call give every race on one primary key; a second call with the same id gives
every reuse of it, in one process and across two. Other traffic and the panic are
in `ids`, as all of it at once is too large; the theorems have no such bounds. One or two timestamps give ties and inversions. Two workers give
two requests in flight for one row; `late` is a set of rows, so a row can be sent
again while it is late. `whole` has one
process and one call: the process may crash or leave and start again while its
requests are in the network, so a row is met by the workers of several lives of
it; two processes or two calls are too large together with the ledger. The races
of two processes are in `shared`, of two workers in `safety`, and the
theorems of `SystemProofs` hold for any number of all of them. `MaxTime` is three leases.
Two faults leave a table behind and then cut the next startup short as well. Two
rules give a rule that hides another; two records give a reordered, a truncated
and a spliced bundle, and one record that is committed before one that is not.
`MaxAnchors = 1`: a bundle is compared with one head, which may have been
published at any time. `launch` leaves the calls to the other runs: it looks at
starts and leases, where two daemons already give every overlap on the file. Only
`ids` has all three states of a client, which matter to its liveness;
`whole` has one that stalls, `shared` one that reads, as the theorems have them
all. The log and the ledger
are bounded by the finite number of calls.

**Fairness.** Relay: weak fairness of each task of a running process (tokio polls
ready tasks), of the server's reading, and strong fairness of the server's answer
to each line, as other output can fill the pipe again and again. Nothing is
assumed of the client, least of all that it reads: while it does not, both tasks
wait, and `LineIsHandled` and `CallIsConcluded` except the client that never reads
again. The writes to it are strongly fair, as it may read only now and then:
the mutex of tokio is first come, first served, so when the client reads again
and again each waiting task gets its turn. Crashes,
restarts and the client's input are not fair. SealQueue: a worker polls each
second and its request ends (timeout of 5 seconds); the network and the ledger
are only assumed to let a request through infinitely often if it is made
infinitely often (strong fairness). System: the same, for the workers of
processes that run; nothing is fair about the relay. `EventuallyReceipted` has two
premises: some process stays up, as nobody polls otherwise, and the ledger keeps
the key of the device (`revoked` shows what happens if not). `LeaseGate` has no
liveness property.

`LedgerMigration`, `PolicyGate`, `Daemon`, `Verifier` and `Bundle` have no
liveness property either: each of them may wait for a person, or stop.
Deadlock is checked in every run.

## 4. What is proved

* `RelayProofs`. `TypeCorrect` (with `TaskInv`: a task that handles a line has
  it). `OnceInv` is the inductive invariant of `AtMostOnceCorrect` and
  `ForwardedIsRecordedCorrect`: neither property says that a call between its
  insertion and the write is held by one process and not yet forwarded, and
  without that a second write cannot be excluded. It rests on the primary key
  alone, not on `has_nonce`. `AwaitInv` is that of `ContractCorrect`: a call
  awaited by a process (about to be registered, pending, or being sealed) is
  awaited in one place, has its first row and no terminal row; the terminal
  insertion is then always the second row. `OutcomeIsSealedCorrect` follows every
  message with the id of a call through the pipes: there is at most one (`Flow`,
  `OneForId`), it is pending until the child task takes it, and it is sealed
  before it is shown. It needs `DistinctIds`: neither open lines nor requests of
  the server reuse the id of a call. Run `collision` shows what happens without.
  `CompletedWasForwardedCorrect` adds `GivenInv`: every response, in the server, in
  the pipe or with the child task, is to a line that was forwarded.
* `SealQueueProofs`. `FlightInv`: rows in flight are from the log, answers are
  entries. On it rest `ReceiptIsOnLedgerCorrect`, `SealedOnceCorrect`,
  `ChainCommitsCorrect` and the refinement `TrailCorrect`. `OrderInv` (a terminal
  row is in flight only when its request is on the ledger) gives
  `RequestedIsSealedFirstCorrect` under `MonotonicClock`; that the oldest row
  exists is from the well-foundedness of the naturals. `OneOutcomeCorrect` joins the
  two ends: a key of the log has one row (`OutcomeInv`), an entry is a row of the
  log (`EntriesLogged`), so the ledger has one outcome for a call, although it
  would store two that differ.
* `SystemProofs`. A step of the whole is one of `Relay` or leaves it alone by the
  way the actions are composed (the lemma `RelayOfSystem`), so the invariants of
  `RelayProofs` hold of the whole. That it is one of `SealQueue` (`QueueOfSystem`) is
  not by construction: the proxies of SealQueue are AuditLog's, so it needs that a
  row `Relay` inserts is one AuditLog allows (`AwaitInv`, `ContractIsInsert`).
  `EntryIsTrueCorrect` follows an outcome from the server to the ledger.
  `PromiseCorrect` is the refinement of Accountability. A step of the relay keeps
  the trail (`RelayKeepsPromise`): what it records is what is forwarded or shown
  next. A step of the queue is one of AuditTrail (`TrailStep`) on rows,
  and becomes one on pairs of a call and its part because such a pair has one row
  (`PartsApart`); an outcome is sealed after its request by `RequestsSealed`, which
  follows from `RequestedIsSealedFirst`. `DistinctIds` and `MonotonicClock` are its
  two assumptions: without the first a request of the server is an outcome
  (`collision`), without the second an outcome can be older than its request and
  is then sent first.
* `LedgerMigrationProofs`. `IInv` says which tables exist at each statement, that
  no trigger is ever on the old table, and where all rows are while they are
  moved; `NothingDestroyed` needs that the rows are whole in `events_old` until
  the copy has succeeded, which is why `DropOld` is only reached from it.
* `LeaseGateProofs`. `LeaseInv` bounds every lease and answer by the last time
  the device was registered (`LastSigned`) and gives `KillSwitchCorrect`.
  `ShutDownCorrect` draws from it when the README's thirty seconds are kept: the
  ledger's clock is not ahead and a request times out within the time of a lease.
* `DaemonProofs`. `UndisturbedIsOwnCorrect` rests on an invariant on the file: while
  an undisturbed daemon uses it, it holds exactly its profile (or nothing, while
  truncated). The bound of the kill switch is carried over by `KillSwitchOfDaemons`.
* `BundleProofs`, the page. The records that passed so far form a chain from the
  genesis hash with the running hash as its head, and each has a receipt that
  only the ledger could sign, so equal chain hashes are equal histories. This gives
  `AcceptedIsHistoryCorrect`; conversely the ledger's own records pass each check
  but that of the key, which is `FailedForCauseCorrect`.
* `BundleProofs`, the export. `VerifierCorrect` needs that the open row would be
  accepted, and that an exported file is text the page can be given
  (`BundleAssumption`: the page has room for what is exported). Compared records
  are equal to fetched ones, and these are the history with, at most, the record of
  the transaction they were read in (`seenOpen`) after it, which gives
  `ExportIsHistoryCorrect` and `ExportIsLocalCorrect`.
* `PolicyGateProofs`. The loop has passed no rule that names the tool. The theorem
  has the hypothesis that the default mode is one the documents use
  (`DefaultIsKnown`); run `default` shows what happens without.

The proofs use the named assumptions of the modules only: `Times` are naturals,
`None` is no line, foreign rows share no key with the device's, and so on. Every
safety property and every refinement of a passing run is proved; those that need
`DistinctIds` or `MonotonicClock` say so in their statement. Of the five violated
properties three are proved under the condition whose absence the run shows:
`CompletedWasForwarded`, `ShutDownInTTL` and `UnrecordedIsOptedOut`. Liveness
(`LineIsHandled`, `CallIsConcluded`, `EventuallyReceipted`) is out of the prover's
reach and model-checked only, as are the violations.

## 5. Plan

1. (done) the relay, the log, the queue, the ledger, the lease, their proofs.
2. (done) `LedgerMigration` with its proofs, `PolicyGate`, `Verifier`.
3. (done) proofs of `OutcomeIsSealed`, `Verifier` and `PolicyGate`.
4. (done) `Capabilities` and `Daemon` over `LeaseGate`; `Bundle` over `Verifier`;
   its refinement and their proofs.
5. (done) `System` against `Accountability`, its refinements and proofs; the
   remaining safety properties of the runs.
6. Left: the lease in `System`, so that a revoked device is bounded up to its last
   call; the page of `Verifier` over the ledger of `System` (what is accepted was
   executed), which needs disjoint names; the chain of a migrated ledger,
   whose oldest rows have no hash (`main.py:183`); the file check of the policy
   engine, once something calls it.

## 6. Not modelled

* The network and file checks of the policy engine, `ProxySession`, the JSON-RPC types and the
  audit entries of the core library: no running process uses them. The CLI loads
  the policy only to write the profile.
* Landlock and seccomp: both return success and apply nothing, and nothing calls
  them. The two file rules of the macOS profile do not depend on any state.
* Health and demo endpoints, static pages, vendored cryptography, deployment
  scripts, logging, and the flags of the CLI that are parsed and never read.
* The order of the columns of `events`: an `ALTER TABLE` that fails on a lock while
  the next one succeeds leaves another order, and the copy of a later migration
  goes by position. `StatementFails` takes the lock to outlast the rest.
* A second submission of the page while one is being verified
  (`build_verifier.py:66`): each has its own running hash, but both write to one
  list of results.
* Request validation of the ledger: the daemon's own events always pass it.

Facts met while modelling that no run states as a property, because each is a
single line of the code: a rule with mode `block` is treated as `require_ledger`,
although the demo's policy (`main.py:316`) has one and its log says `REJECTED`
(`:355`); the profile writes a host pattern in the place of a port; without a policy file,
or with one that cannot be read, the profile leaves the network open, although
the help text (`main.rs:30`) calls blocking it the default behaviour, and only a
file that cannot be parsed leads to blocking; `NetworkDeny` and the file
capabilities leave no trace in the profile; nothing is confined on Linux; the
export compares the ledger with a table `local_events` that the daemon does not
create, so on a daemon's own database it can only export an empty ledger; a
bundle exported during a transaction that is then rolled back has a record the
ledger does not have, although `create_bundle.py:169` prints that both "match
exactly" (`ExportIsHistory` says that it is the only such record).
