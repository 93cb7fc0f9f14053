# MindChat in TLA+

A specification of the parts of MindChat where state, threads and failures
meet: how a connection is planned, dialled and tunnelled, the worker threads of
the XMPP transport and the session lock above them, what they make of stanzas,
the domain core and its snapshots, the state file, and the Android gateway that
polls the core and saves it.  `TLC` checks the modules on small instances; `TLAPS`
proves their safety for every instance.

Paths below are relative to the repository; `core/` stands for
`crates/mindchat-core/src/` and `app/` for `app/src/main/java/com/mindchat/app/`.

## 1. The system

MindChat is an XMPP messenger for Android: a Kotlin app over one native library
written in Rust.  From the network to the screen:

| Component | State | Operations | Module |
|---|---|---|---|
| Connect plan and phase (`core/xmpp.rs`: `resolve_endpoints_with`, `connect_attempt`, `try_group`) | the candidates left, the last failure, the time used | SRV order, races, budgets and deadlines | `ConnectPlan`, `ConnectPhase` |
| Proxy tunnels (`core/proxy.rs`) | one handshake: what was sent, the read buffer | SOCKS5 and HTTP CONNECT; the probe | `ProxyTunnel` |
| Registration (`core/xmpp.rs`, `core/ffi.rs`) | one exchange per candidate | XEP-0077, then connecting the new account | `Registration` |
| Calls to the network (`core/ffi.rs`) | the call in progress | `connect_account_with_proxy`, `register_account`, `test_proxy` | `Dial` |
| Transport (`core/xmpp.rs`) | one worker thread per connected account, its command channel, one event channel for all | `connect`, `disconnect`, `send`, `next_event`; the loop of `run_worker` | `TransportSession` |
| Coordinator (`core/lib.rs`, `TransportCoordinator`) | none of its own | `connect_with_proxy`, `disconnect`, `flush_outbox`, `poll_next_event` | `TransportSession` |
| FFI handle (`core/ffi.rs`) | the session lock; diagnostics of the last save and load | one method per foreign call, each under the lock | `TransportSession`, `Gateway` |
| Stanzas (`core/xmpp.rs`: `handle_client_event`, `handle_iq`, the `translate_*` functions) | the capabilities of the stream | roster, presence, discovery, texts, receipts | `Inbound` |
| Domain core (`core/lib.rs`, `MindChatCore`) | accounts, contacts, conversations, messages, reactions, four id counters | adding, sending, receiving, receipts, reactions, deletions; `snapshot`, `from_snapshot` | `CoreState` |
| State file (`core/persistence.rs`, `core/state_cipher.rs`, `app/StateKey.kt`) | one encrypted file, replaced atomically; the key; `PersistenceTrack` | save, load, quarantine, migration of a plaintext file | `StateFile`, `AtomicFile` |
| Gateway (`app/MindChatGateway.kt`, `app/GatewayPoll.kt`) | published UI state, `pendingOutboxAccounts`, mutation and persisted epochs, the persistence mutex | methods of the screen, `pollTransport`, `persistNow` | `Gateway` |
| Lifecycle (`app/MindChatApp.kt`) | STARTED or not; the poll job; save jobs | poll every 750 ms while on screen, save on `ON_STOP` | `Gateway` |
| Proxy library (`app/Proxy.kt`, `app/KeystoreProxyCredentialStore.kt`) | entries and their assignment | edits from one screen | not modelled |
| App lock (`app/AppLock.kt`) | locked, prompting, unlocked; a nonce | prompts, answers, background | planned |
| Mapping, settings, appearance, diagnostics, screens | caches of preferences; the view | pure functions and layout | not modelled |
| `vendor/tokio-xmpp` | streams and their management | third-party | seen through its events |

**How they interact.**  The screen calls the gateway on the main thread; the
gateway calls the native handle there and, for a poll or a save, on an I/O
thread.  Every native call takes the session lock.  `disconnect`, `send` and
so `flush_outbox` and `delete_account` wait for a worker *while holding the
lock*; workers never take it, they talk through channels: commands towards a
worker, events towards the poll.  Only a poll moves events into the core, and
only a save moves the core into the file.

**What is hard here.**

* Two incarnations of a worker share one event channel, and an event names an
  account and no incarnation.
* A call that timed out leaves its command in the worker's channel; the retry
  is queued behind it.
* A worker can be told to stop, lose its handle, lose the network or be given
  a command in each phase, also while it still connects.
* The gateway decides on copies: the set of pending accounts and the accounts
  shown online are read before the I/O part of a poll and used after it.
* Cancelling a poll stops the coroutine and not the native calls under way.
* Epoch, snapshot and file write of a save are separate steps between which
  other threads change the core.
* The budgets of resolvers, head starts and groups add up under one deadline,
  and the first answer of a race decides for all who run in it.
* A tunnel's last reply and the first bytes of the server may arrive in one
  piece, or in many.
* A lost answer to a registration leaves an account on the server that the app
  knows nothing of.
* Presence is requested before the roster that says whose presence counts, and
  a resumed stream delivers what belonged to the session before.
* Kills and power losses fall between the system calls of a save, of which
  several may be under way; a start must decide what a file it cannot read is.
* Ids are allocated behind the largest *saved* id, while receipts for unsaved
  messages are on their way.

**What makes each component correct.**

* Dialling: candidates are tried in the documented order, a verdict has its
  reason, refused credentials are not sent again, two dead groups leave time for
  a third, a proxy never leaks, a tunnel is intact, every call ends.
* Stanzas: once nothing is under way, whoever is on the server's roster is a
  contact and shows the last presence that came, of whichever of its devices (a
  contact deleted elsewhere stays, as no code removes it); capabilities are those
  of the present stream; texts are shown once; receipts are answered once and
  credited to the right message.
* State file: always one complete state of the core, never older than what
  memory forgot, and correctly reported.
* Session layer: the outbox of an account drains in order, no answer is
  credited to the wrong send, every blocked call returns, no account stays on
  Connecting, every abandoned worker ends, a deleted account leaves nothing.
* Core: every reference resolves, ids are fresh, one conversation per peer,
  badges are explained by messages, deliveries never regress and are caused by
  the message's own stanza.
* Gateway: what the tracker calls clean is on disk, the file never goes back,
  a queued text of an online account is handed over (it may not be, section 3),
  the screen comes to show what the transport did.

`PROJECT.json` lists every hazard with its line and the properties meant to
catch it.

## 2. The modules

### TransportSession

Models `core/xmpp.rs` (worker and transport), the coordinator of `core/lib.rs`
and the lock discipline of `core/ffi.rs`.

| Specification | Code |
|---|---|
| `conn`, `status`, `msgOf`, `nextMsg` | the projections of `MindChatCore` that events and flushes change |
| `tracked`, `cmds`, `events` | `TokioXmppTransport.connections`, the command channel of a `WorkerHandle`, the `mpsc` event channel |
| `owner`, `phase`, `live` | a worker's account, its place in `run_worker`, `session_live` |
| `call` | the foreign call that holds the lock and waits for a worker |
| `handed` | ghost: the messages some worker gave to its stream |
| `ConnectSucceeds`, `ConnectFails`, `CommandWhileConnecting` | the connect phase of `run_worker` |
| `WorkerSend`, `WorkerDisconnect`, `HandleDropped`, `LossKept`, `LossStops`, `SessionRestored`, `ReceiptArrives` | the arms of its loop |
| `Connect`, `Disconnect`, `DeleteAccount`, `SendText`, `FlushBegins` | foreign calls; those that wait continue in `FlushSends`, `FlushContinues`, `FlushEnds`, `DisconnectReturns`, `DeleteReturns`, or run into `CallTimesOut` |
| `PollEvent` | `poll_next_event`: take, retire the worker, apply |

A call that does not wait is one step, as the lock makes it.  A call that waits
is split where it waits.  A worker's turn of its `select!` loop is one step.
The stream below a worker is reduced to up or down; resuming it is the choice of
the environment, allowed only for accounts with `auto_reconnect`.

### CoreState

Models `MindChatCore` and what `persistence.rs` does to a snapshot.  Every
operation is an action; input that the code refuses changes nothing and is left
out.  `wire` is external: the stanzas that reached a server, for which a peer
may send a receipt at any time, also in a later process.  `stamp` names a
message across restarts; the code has no such field, which is what
`UnrelatedReceiptIgnored` is about.  `Save` may happen at any time (a poll, or
leaving the screen) and keeps the snapshot as a load will give it, that is,
without capabilities and presence (`sanitize_snapshot`: it is applied early
because nothing else reads the file); `Restart` loses what was not saved and
rebuilds the counters (`from_snapshot`).
Bodies, names, times, proxies and change notifications are abstracted.  The
variable `disk` is the content of the file: how it is written is the matter of
`StateFile`.

### Gateway

Models `NativeMindChatGateway` with its three kinds of activity: the method on
the main thread (`main`: core call, `markDirty`, `refresh`), the poll (`poll`:
begin on the main thread, drain, flush per account, mark, snapshot, save, resume
on the main thread) and the saves (`saver`, one of the poll and one per job
that `ON_STOP` launched: lock and capture the epoch, take the native snapshot,
write).  Each native call is one step.  The transport below emits events;
`flush_outbox` sends a prefix of the queue and may then fail.

Cancellation follows the use of coroutines in the code: `ON_STOP` cancels the
poll, whose blocking part runs on; it stops only before it is dispatched
(`PollDropped`), when it waits for the mutex (`SaveAbandoned`), or when its
result would be delivered (`PollDropped`).  `repeatOnLifecycle` starts no poll
before the previous one ended.

The core is abstracted to connections, outgoing messages and two counters, for
incoming texts and for edits.  An `Outbox` is the positions of an account's
messages that wait; `Flushed` is the set of cores that a flush may leave.  `deleteAccount` appears as the edit it is for an
account without a session; its cascade is in `CoreState` and its effect on a
session in `TransportSession`.

### StateFile and AtomicFile

`StateFile` models `save_state` and `save_state_encrypted` down to the system
calls of `write_atomic`, `load_state_encrypted`, the bookkeeping of
`PersistenceTrack` in `core/ffi.rs`, and `restoreState` of the gateway with the
key provider below it.

| Specification | Code |
|---|---|
| `core` | `MindChatCore`: the number of edits it has seen and its serialized size |
| `path`, `durable` | the file as the system shows it, and as a power loss would leave it |
| `refused` | the file a start could not restore and tried to rename aside |
| `save` | per thread: captured, written, synced, renamed, and the file it carries |
| `key`, `track`, `notice` | `stateKey`, `PersistenceTrack`, the dismissed notice |
| `RestoreSucceeds`, `RestoreFails`, `Migrate` | the paths of `restoreState` |
| `Save`, `WriteAll`, `SyncAll`, `Rename`, `WriteFails`, `RecordSave` | a save; each system call is a step |
| `LoseKey`, `Killed`, `PowerLoss`, `Settle` | the environment |

A file is its form (plain, sealed, torn, garbage), the state in it, its key, its
schema version, and whether it was synced.  A power loss tears what was not.
The magic header, the nonce and the tag are the form and the key: a sealed file
opens under its own key only.

`AtomicFile` is the promise: the file is absent, unreadable as it was found, or
one complete state that the core had; it changes in one step to a state that a
save captured; a power loss brings back only the file before.
`ImplementsAtomicFile` is `AtomicFile!Spec` under the mapping `file` to the state
in `path` (and `durable` alike), `live` to the edits of `core`, and `inflight` to
the states that staged saves have captured.

### ConnectPlan, ConnectPhase, ProxyTunnel, Registration and Dial

`ConnectPlan` holds the pure functions: the server field
(`split_host_and_port` of the transport and the other one of the proxy), the
candidates with SRV order and duplicates, the groups, the classification of a
first event.  `PlanIsFaithful` compares them with what their comments say: the
groups are the plan cut where the port or the TLS mode changes (`GroupsCut`); a
domain's own addresses come first and then those of SRV targets by priority and
weight (`OrderKept`); every address is tried, and once (`EachOnce`).  The order of
two targets binds the addresses that only the later one has: an address that
several records name stands where the first of them puts it.

`ConnectPhase` is `connect_attempt` with `try_group` as a machine over time: the
head start of the first address, the race, the budget of a group, the deadline.
Times are in quarters of a second and pass only in timeouts, which is where the
code's clocks meet.  What answers at an address (`net`) is fixed for a phase: online,
refused or temporarily refused credentials, a stream that dies, silence, or a bad
certificate, which the vendored client retries without a word.  Through a proxy
the phase is one attempt that repeats the handshake of `ProxyTunnel` until a
first event or the timeout.

`ProxyTunnel` keeps bytes where framing depends on them: SOCKS5 replies are
sequences of bytes whose length the reply itself determines, an HTTP reply is a
sequence of lines read through a buffer that may take any prefix of what has
come.

`Registration` is `run_registration`: the candidates one by one, refusals,
losses at every step, also of the answer to a submission the server has carried
out, the polite close and the deadline.

`Dial` composes them under the calls of `core/ffi.rs`.  Its initial states are the
networks, resolver answers, proxies and registrars of the instance, so that one
behaviour is one call in one environment.  What a worker is beyond the connect
phase is `TransportSession`, whose `ConnectSucceeds` and `ConnectFails` are the
results of this one.

### Inbound

Models what a live session makes of stanzas and what the core makes of its
events, for one account.  `MCInbound` lets either the contacts or the texts move in
each behaviour (`side`), as the two share nothing but the queues.

| Specification | Code |
|---|---|
| `down`, `up`, `events` | the stream in both directions, the event channel |
| `live`, `streamCaps` | `session_live`, `stream_capabilities` of the worker |
| `contacts`, `caps`, `inbox`, `out` | the projections of `MindChatCore` |
| `roster`, `shows`, `features`, `announced` | external: the server and the peers |
| `HandleStanza` | `handle_client_event`, `handle_iq`: the events of a stanza and the answers to it |
| `HandleOnline`, `HandleDisconnected` | a session that begins, is resumed, or is lost |
| `PollEvent` | `apply_transport_event` |
| `UpsertContact`, `SendMessage` | the user |
| `ServerAnswers`, `RosterChanges`, `PeerShows`, `PeerWrites` | the server and the peers |

A resumed stream keeps both queues; one that begins anew loses them, which
`ghost.lost` and `ghost.cut` remember: a server that delivers them again to the
new session is not modelled.  The server sends what RFC 6121 says: the presences
of those subscribed to, one for each device that is there, after the available
presence; a push for every change of the roster.  Rosters come from the server
alone; `handle_iq` does not look at their sender.

A peer is on several `Devices`, each with a presence of its own (`shows`), and a
presence carries a full address.  `TranslatePresence` leaves its bare part, as the
code does, so the core has one presence per peer: the last that came.
`ghost.told` is the last presence of each peer that the session was sent, and
`LastPresenceIsShown` compares the contact with it.  That is less than a user
expects: `OfflineMeansGone`, in no run, says that who is shown offline is there on
no device, and TLC refutes it in the instance of `inbound` with a peer
whose phone signs off while its desk stays.  When a roster entry closes (the
subscription to the peer ends) `told` forgets the peer; the unavailable presences
a server may send then are left out.

### How they fit together

`TransportSession` and `Gateway` share the coordinator's interface:
`Gateway!Flushed` allows what `FlushBegins .. FlushEnds` of `TransportSession`
do to the outbox in one call, and `Gateway!EmitEvent` what workers emit.
`CoreState` refines the `status` of both into the full core.  `Dial` opens the
phase that `TransportSession` leaves open, `Inbound` the session it keeps up, and
`StateFile` the write that `CoreState!Save` and the savers of `Gateway` do in one
step; that one step is what `AtomicFile` promises.

## 3. The runs

All passing runs explore their whole state space.  `CHECK_DEADLOCK FALSE`
everywhere: users and networks may stop, and the bounds end every behaviour.

| Run | Instance | Shows |
|---|---|---|
| `session_safety` | 1 account, 2 workers, 2 messages, 3 events, 2 commands | ordered outbox, answers credited to the right send, no lost answer, complete deletion |
| `session_liveness` | 1 account, 2 workers, 1 message, 2 events, 1 command | no account stuck on Connecting, abandoned workers end, calls return |
| `core_cascade` | 1 account, 1 contact, 2 conversations, 2 messages, 1 reaction, 1 restart | references resolve in the core and on disk; ids are fresh |
| `core_delivery` | 2 accounts, 2 conversations, direct and group, 2 messages, all capabilities | one conversation per peer, explained badges, deliveries that only advance and are caused by the own stanza |
| `gateway_safety` | 1 account, 1 restored message, 2 user operations of any kind, 1 lifecycle save, failing saves, 1 event beside those of connects, 1 stop | clean means saved; the file never goes back; the screen comes to show what the transport did, unless a poll in progress is cancelled |
| `state_file` | 2 writers, 3 sizes around the bound, 1 edit, 1 lost key, 1 kill or power loss, every kind of found file | the file is always one complete state (`AtomicFile`); memory covers it; the report describes it |
| `dial` | 8 networks with every mix of behaviours, 168 further plans, 32 proxies, 8 registrars | order of the plan, reasons of verdicts, budgets, no leak, sound tunnels, every call ends |
| `inbound` | 1 peer on 2 devices, 3 roster entries, 2 presences, 2 feature sets, 4 texts, 2 sessions, 2 changes, 1 operation of the user, 3 events behind | the roster is complete, the last presence is shown, texts are shown once, receipts are right, requests are answered, capabilities fit the stream |
| `gateway_liveness` | 2 accounts with a restored message each, 2 connects, 2 further events, no stop | one queued message per account is handed over |

The bounds are the smallest at which the hazards occur.  Two workers are a
worker and the predecessor whose events are still queued; two commands are a
timed-out send and its retry; two messages make an order, and with
`FlushMaxBatch = 1` also a batch that is cut off.  Three buffered events let the
terminal event of one worker stand before and behind those of the next.  In the
core, two messages allow a reply and a deletion that would orphan it; one
restart with an arbitrary earlier save shows every loss.  In the gateway a drain
batch of one event with two batches per cycle has the full, the partial and the
cut-off batch of `nextDrainStep`.  Two writers are the poll's save and a lifecycle's;
one edit distinguishes their states, and one stop falls anywhere; the three sizes
fit, fit until sealed, and do not fit.  `state_file` saves sealed files only, as
the app does; plaintext is among the files it finds.  The networks of `dial` have
up to four groups and the limits are the code's own, in quarters of a second;
resolvers answer at once, late, and in the last moment.  In `inbound` contacts
and texts move in different behaviours: they share the queues and nothing else, and
together would leave room for one event at a time.  Two changes of the server's
side around one of the user's are a result and a push that cross, two devices of a
peer, or a presence and the roster entry it needs; the second session is resumed or
new.  `gateway_liveness` has neither a stop nor a second message of an account: with a
second message `QueuedIsAttempted` fails, as the second table below shows.
In `gateway_safety` two operations fall between any steps of a poll, and the app may
leave the screen; only the cancellation of a poll in progress is excepted, by
`TransportIsShown` itself.  What the bounds leave open for safety the proofs close: every
invariant of these runs, and every action property, is a theorem for all values of
the constants (section 4), `SentMeansWired` within one process.

Each property of a passing run also has a mutant in `PROJECT.json`, a definition
with a plausible bug under which the same run reports the property as violated.

### Disagreements with comments and release notes

These runs end in a counterexample.  Each property states what the repository
says, and the trace is what the code does.

| Run | Statement | What happens |
|---|---|---|
| `session_retire` | "detaches only that exiting thread" (`core/xmpp.rs`, `next_event`) | a worker that survives a loss to resume its stream is retired by the poll, which closes its channel and so ends the session |
| `gateway_race_queue` | "Unchanged poll: nothing to apply and nothing queued." (`pollTransport`) | a text written after the flush of a poll in progress is unscheduled when that poll resumes; no poll flushes it |
| `state_size` | "so the app never writes a file it would refuse on next launch" (`save_state_encrypted`) | the bound is checked before encryption, which adds 37 bytes; a state that just fits is saved and refused |

The modules state further sentences of the repository that TLC refutes; add the
property to the configuration named, with the constants given, to see the trace.

| Property | Configuration | Statement | What happens |
|---|---|---|---|
| `TerminalEventGuaranteed` | `session_safety` | "a terminal event is guaranteed within CONNECT_PHASE_TIMEOUT" (`run_worker`) | a flush after a stale `Connected` sends to a worker that still connects; it leaves without an event and its slot stays taken |
| `StaleOnlineEnds` | `session_liveness` | "bounding stale-Online to ~3 minutes" (`CHANGELOG.md`) | a `Connected` that was queued when the account went offline is applied afterwards; no worker is left to take it back |
| `UnrelatedReceiptIgnored` | `core_cascade` | "unrelated message. Such receipts are ignored" (`apply_delivery_update`) | after a restart that lost a message its id goes to a new one, which the late receipt marks as delivered |
| `FreshQuarantineIsShown` | `state_file` | "a fresh quarantine re-shows it" (`app/`, `quarantineNoticeDismissed`) | the dismissal is remembered across restarts and hides the next quarantine, too |
| `BadCertificateIsTerminal` | `dial` | TLS validation failures are "terminal, non-recoverable errors" (`CHANGELOG.md`) | the vendored client retries the connection inside and gives no event; the phase ends as a lost network |
| `ReachableServerIsTried` | `dial` | "against the first reachable endpoint" (`run_registration`) | a first address that swallows packets uses up the whole deadline |
| `QueuedIsAttempted` | `gateway_liveness` with `Accounts <- OneAccount`, `Restored <- TwoOfOne`, `FlushMaxBatch = 1` | "schedule them so the next poll flushes their queue" (`pollTransport`); "Messages left behind stay pending and are retried by the next flush call" (`flush_outbox`) | what a batch leaves behind is unscheduled with the rest of its account; there is no next call |
| `UiCatchesUp` | `gateway_liveness` with `Accounts <- OneAccount`, `Restored <- OneMessage`, `LifeJobs <- OneJob`, `MaxStops = 1` | "so the resumed UI catches up" (`MindChatApp.kt`) | a cancelled poll consumed the events and its result is dropped; later polls find nothing to publish |
| `NeverStaleConnecting` | `gateway_race_queue` with `UserOps <- ConnectAndDisconnect`, `LifeJobs <- NoJob` | "otherwise the UI can stay on a stale Connecting snapshot forever" (`pollTransport`, of the case it guards) | a disconnect between the snapshot of a poll and its publication is overwritten on screen; the account shows Connecting for ever |
| `IgnoredIsNoContact` | `inbound` | "Directed presence from a non-roster JID is intentionally ignored" (`update_contact_presence`) | in a first session presences arrive before the roster result and are ignored as well; the contact shows offline until its next change |
| `AnotherMaySucceed` | `dial` | "Another candidate may still succeed" (`RegistrationAttemptError`) | the answer to a submission is lost after the account was created; the next candidate can only report a conflict |

Seen while modelling and part of the models: a failed `disconnect` leaves the
account as it was, with no event to come, although `disconnectAccount` relies on
one; a second connect of a connected account projects Failed over the live
session; `upsert_contact` resets the subscription that `RosterSubscription` calls
server-confirmed; contacts keep their presence when the account goes offline; the
poll that sees an account come online is the only one that schedules its restored
messages, and its result may be dropped; a batch that ends at a failed send leaves
the rest of the queue unscheduled, as one that is full does; an edit or a text for
an offline account, written between the snapshot of a poll and its publication,
disappears from the screen until the next change; unchanged polls do not save, although
`deleteAccount` counts on "the next poll/persist cycle"; `saveSnapshot` does not
always write the snapshot it is given (the file is then newer, and
`CleanMeansSaved` holds all the same); a key provider that throws and a passing
I/O error set a good file aside, and if that rename fails the next save replaces
it (`MemoryCoversDisk` names this exception); a migration that fails is not
repeated before the next save; staging files that a kill left are never removed;
SRV targets of different priority race in one group if port and TLS mode agree,
so that the first answer, also a failure, decides over all of them
(`VerdictIsExplained` says when); an address in brackets without a port goes to a
proxy with its brackets and is not resolved without one; the session lock is held
for the whole of a registration; registration never uses a proxy.

### Fairness

`TransportSession!FairSpec`: the connect phase ends by its deadline
(`CONNECT_PHASE_TIMEOUT`), so weak fairness of its end; the `select!` of a worker
polls its arms fairly, so a command or a dropped handle is served although
network events keep coming; blocking calls have timeouts, so weak fairness of
the steps of a call; and strong fairness of `PollEvent`, as the poll returns
every 750 ms and the session lock is free again and again in between.  Nothing
is assumed of users, network and server.  The last assumption holds while the app
is on screen; what happens otherwise is the matter of `Gateway`.

`Gateway!FairSpec`: weak fairness of each thread's steps (main, I/O), of the poll
loop while the app is on screen, and of the end of a connect phase.  Users,
stops, starts, losses and incoming texts are free.  `QueuedIsAttempted`,
`UiCatchesUp` and `NeverStaleConnecting` are about behaviours in which the app
eventually stays on screen (`started` is part of each formula);
`TransportIsShown` is about those in which no stop cancels a poll in progress, and
holds wherever the app is then.

`Dial!Spec`: weak fairness of `Next`, as a worker, a registration and a probe run
on their own thread, and of `ProxyTimesOut`, as a timer runs out although the
client goes on retrying a tunnel.  Every other wait of `Dial` ends in a timeout
that is itself a step.  `StateFile` and `Inbound` state safety only.

## 4. The proofs

One module of proofs per component, for all values of the constants that its
assumption allows: any number of accounts, workers, messages, writers, peers and
texts, any bounds, any plan, any proxy.

### Sessions

`TransportSessionProofs`, from `SessionAssumption` (the sets and bounds are what
their names say, and a flush sends at least one message):

| Theorem | States |
|---|---|
| `TypesHold` | `Spec => []TypeOK` |
| `OutboxOrder` | `Spec => []SentPrefix` |
| `HandOver` | `Spec => []SentWasHandedOver` |
| `AnswerPending` | `Spec => []AwaitedCommandIsQueued` |
| `DeletionComplete` | `Spec => []DeletedLeavesNothing` |

None of these invariants is inductive.  `OutboxOrder` is the interesting one:
a receipt may arrive for a message whose send timed out and was reported as
failed, so that a later message could become delivered before an earlier one is
sent.  What excludes it is a fact about messages that are not sent at all yet:
a send is only ever queued, handed over or acknowledged when every earlier
message of the account counts as sent (*settled*), and a settled prefix stays
settled.  The inductive invariant `IInv` therefore says, beside the types, that
only stored messages have a state (`Stored`), that queued and handed-over
messages have a settled prefix (`QueuedSettled`, `HandedSettled`), that receipts
in the channel are about handed-over messages (`ReceiptsHanded`), that slots hold
workers which were started, for that account (`TrackedStarted`), and what a
waiting call looks like (`CallSound`), besides two of the invariants themselves.
There is one lemma per action that the invariant could suffer from, and the
theorems follow from `IInv` by `PTL`.  `DeletionComplete` needs, in addition, that
account ids are not reused within a process.

### State file

`StateFileProofs`, from `StateFileAssumption`:

| Theorem | States |
|---|---|
| `TypesHold` | `Spec => []TypeOK` |
| `MemoryCovers` | `Spec => []MemoryCoversDisk` |
| `ReportIsTrue` | `Spec => []ReportDescribesFile` |
| `FileIsAtomic` | `Spec => ImplementsAtomicFile`, the refinement of `AtomicFile` |

The file alone says too little.  `IInv` follows a state from its capture to the
disk: what a save carries is a complete file, and synced once the save says so
(`SavesAreWhole`); so what a rename shows and what a power loss brings back is
whole as well (`FilesAreSynced`); nothing staged or stored is newer than the core
(`NothingIsNewer`); a start has no save of its own process beside it
(`StartsAlone`); after a rename there is a file (`SavedIsThere`).  For the
refinement a capture is `AtomicFile`'s begin of a save, a rename its step to the new
state, and writing and syncing are stutters; `FileIsAtomic` maps each action so.

### Core

`CoreStateProofs`, from `CoreAssumption`:

| Theorem | States |
|---|---|
| `TypesHold` | `Spec => []TypeOK` |
| `ReferencesResolve` | `Spec => []EveryReferenceResolves` |
| `FreshIds` | `Spec => []IdsAreFresh` |
| `UniqueConversations` | `Spec => []OneConversationPerPeer` |
| `BadgesAreExplained` | `Spec => []UnreadIsExplained` |
| `DeliveryAdvances` | `Spec => DeliveryNeverRegresses` |
| `SentWasWired` | `Spec => [](restarts = 0 => SentMeansWired)` |

A restart rebuilds the core from the snapshot, so whatever a step relies on in the
core the snapshot must satisfy, too (`SnapshotSound`).  The cascade of a deletion is
sound because a reply stays within its conversation (`RepliesResolve`).
`SentWasWired` needs that a stanza on the wire is that of the message with its id,
while there is one (`WireInv`); a restart that lost a message gives its id to
another and breaks just that, which is what `UnrelatedReceiptIgnored` shows: past
such a restart `SentMeansWired` is false, and `core_delivery` checks it in one
process.

### Gateway

`GatewayProofs`, from `GatewayAssumption`:

| Theorem | States |
|---|---|
| `TypesHold` | `Spec => []TypeOK` |
| `CleanIsSaved` | `Spec => []CleanMeansSaved` |
| `DiskAdvances` | `Spec => DiskNeverRegresses` |

That a clean tracker means a saved core follows from what a save under way knows:
it holds the mutex and its epoch is not behind the acknowledged one
(`HolderIsAhead`); if its epoch is still the current one and nothing waits to be
marked, its image is the core (`ImageIsCurrent`).  That the file never goes back
follows from an order on cores (`Leq`): the image lies between file and core
(`ImageIsBetween`), and draining, flushing and editing only go up.

### Calls to the network

`PlanProofs` and `DialProofs`, from `ConnectPlanAssumption` (limits are positive),
`DialAssumption` (what resolvers and registrars may answer), `ProxiesAssumption`
(a proxy keeps to the framing of its protocol, `Conforms`; whatever else it says is
free) and `BudgetAssumption` (two groups and the head start of a third fit into
the phase, true of the code's limits and evaluated with them):

| Theorem | States |
|---|---|
| `DedupeSound`, `SrvSorted`, `GroupsOfPlan` | what `dedupe_candidates`, `order_srv_candidates` and `group_attempts` return, for any input |
| `PlanFaithful` | `Spec => []PlanIsFaithful` |
| `TypesHold` | `Spec => []TypeOK` |
| `NoLeak` | `Spec => []ProxyNeverLeaks` |
| `RegisteredIsCreated` | `Spec => []RegisteredMeansCreated` |
| `NoRetry` | `Spec => []NoRetryAfterVerdict` |
| `VerdictExplained` | `Spec => []VerdictIsExplained` |
| `ThirdGroupReached` | `Spec => []ThirdGroupIsReached` |
| `TunnelSound` | `Spec => []TunnelIsSound` |

The phase is proved over all plans: the groups left are the last of the plan and
those before them were passed (`Underway`), the time used is at most what so many
groups may cost (`InTime`), and each way to end says which groups were passed
(`Decided`).  A SOCKS5 handshake knows at every read what the replies before it said;
for HTTP the proxy's answer is at every step the lines read, the buffer and what is
left in the socket, in this order, however the bytes are cut (`Split`, part of
`TunnelInv`).

The plan is computed by recursive functions.  Induction over an operator is beyond
the provers, so `NumberLemmas` states it over sets (`Upwards`: a set of naturals
that holds 0 and with every number the next one up to n holds all up to n) and
derives that a function defined by recursion has its equations (`Recursion`);
removal of duplicates, grouping and flattening are proved with it.

### Inbound

`InboundProofs`, from `InboundAssumption` (finitely many peers and devices, the
values of rosters and presences) and `TextsAssumption` (a peer of ours sends a receipt in our
own form only for what it got; anyone else may quote what he likes):

| Theorem | States |
|---|---|
| `TypesHold` | `Spec => []TypeOK` |
| `DeliveredWasReceived` | `Spec => []DeliveredMeansReceived` |
| `TextsShownOnce` | `Spec => []TextsAreShownOnce` |
| `RequestsAnswered` | `Spec => []RequestsAreAnswered` |
| `CapabilitiesHold` | `Spec => []CapabilitiesAreCurrent` |
| `RosterCompletes` | `Spec => []RosterIsComplete` |
| `LastPresencesAreShown` | `Spec => []LastPresenceIsShown` |

The last five speak of the moment when nothing is under way, so their invariants
must say what is.  A *number* (the stamp of a text or of a request) travels in
order: what has arrived is below what is in the second queue, and that is below
what is in the first (`InLine`); none is missing but for those the stream took
(`TextsRemain`, `RequestsRemain`).  A *value* the core copies ends up right
(`EndsWell`): some stanza or event on its way makes it right with nothing behind
that makes it wrong (`Mends`), or it is right and nothing on its way spoils it
(`Spares`).  Capabilities, roster and presence are three instances of this; a push
that crosses a roster result, a resumed stream and an edit of the user are cases
of their steps.  For presences the value to come is `ghost.told`: whatever joins the
stream, the last of it that tells of a peer makes the contact right, and nothing
after it undoes that (`TellingEnds`); the greatest position of a finite set comes
from `NumberLemmas`.

### Only model-checked

Every liveness property (those of `session_liveness` and `gateway_liveness`,
`TransportIsShown` of `gateway_safety`, `AlwaysAnswers` of `dial`): fairness and `ENABLED` are beyond the prover's backends.  The disagreements of section 3 are counterexamples of TLC.

## 5. The plan

Done: the modules of section 2, and proofs of every invariant and every action
property the passing runs check.  Left, in this order:

1. **`AppLock`**: prompts, late answers, background and settings changes.
2. **`Lifecycle`**: an activity that is recreated remembers a new gateway while
   a save of the old one may be under way: two cores, one file.
3. **Composition**: that the calls `FlushBegins .. FlushEnds` of `TransportSession`
   implement `Gateway!Flushed`.

## 6. Not modelled

Screens, themes, settings, preferences and the proxy library are
single-threaded and have no protocol.  The app lock and a second gateway are
planned.  Of the cipher, only what a key opens is modelled; of TLS, only whether
a certificate is trusted.  The vendored XMPP library is third-party and appears
through the events it gives a worker.  Resolvers are their answers.  Lengths
beyond framing (a SOCKS5 password over 255 bytes) are left out, as are panics (a
poisoned session lock), exhausted memory and wrap-around of 64-bit ids.

Unreachable in the code: the branch of `next_event` for a closed event channel, as
the transport keeps a sender itself, and the ends of a race's clients without an
event (no step).  The refusal of a malformed target in `connect_attempt_proxy` is in
`DialProxy` but never taken: `connect` has parsed the same field before, and what
passes there and fails here, a host with whitespace inside, is not among the
fields of the model.
