-------------------------------- MODULE Gateway --------------------------------
(***************************************************************************)
(* NativeMindChatGateway (MindChatGateway.kt): the bridge between the      *)
(* screen and the native core.  Its methods run on the main thread; the    *)
(* body of pollTransport and every save run on an I/O thread, so one       *)
(* native call of each may fall between any two of the other.  A native    *)
(* call holds the session lock and is one step.                            *)
(*                                                                         *)
(* The core is abstracted to what a poll and a save can tell apart: the    *)
(* connection of each account, the outgoing messages in order, and counts  *)
(* of incoming texts and of edits (deletions, renames, contacts, badges).  *)
(* No native call fails except a send and a save.                          *)
(***************************************************************************)
EXTENDS Integers, FiniteSets, Sequences

CONSTANTS
  Accounts,         \* configured accounts
  Restored,         \* accounts of the unsent messages that the start restores
  UserOps,          \* what the user does: a subset of {"connect", "disconnect", "send", "edit"}
  LifeJobs,         \* jobs that ON_STOP may launch at the same time
  SavesMayFail,     \* whether the file system may refuse a save
  DrainBatch,       \* MAX_EVENTS_PER_DRAIN_BATCH
  MaxDrainBatches,  \* MAX_DRAIN_BATCHES_PER_CYCLE
  FlushMaxBatch,    \* FLUSH_OUTBOX_MAX_BATCH
  MaxOps,           \* bound: user operations
  MaxEmitted,       \* bound: transport events
  MaxStops          \* bound: times the app leaves the screen

ASSUME GatewayAssumption ==
  /\ Restored \in Seq(Accounts)
  /\ "poll" \notin LifeJobs /\ "nobody" \notin LifeJobs
  /\ SavesMayFail \in BOOLEAN
  /\ {DrainBatch, MaxDrainBatches, FlushMaxBatch} \subseteq Nat \ {0}
  /\ {MaxOps, MaxEmitted, MaxStops} \subseteq Nat

VARIABLES
  core,           \* the native core
  ui,             \* the published state: what the screen shows of the core
  disk,           \* the state file
  session,        \* the worker of each account
  events,         \* the transport's event queue
  pendingOutbox,  \* pendingOutboxAccounts
  epoch,          \* mutationEpoch
  persisted,      \* persistedEpoch
  mutex,          \* holder of persistenceMutex
  saver,          \* the saves in progress: one of the poll, one per life job
  main,           \* the gateway method on the main thread
  poll,           \* the poll in progress
  started,        \* the lifecycle is at least STARTED: the app is on screen
  cancelled,      \* the poll in progress is cancelled
  ops, emitted, stops  \* counters of the bounds

tracker == <<epoch, persisted>>
bounds == <<ops, emitted, stops>>
vars == <<core, ui, disk, session, events, pendingOutbox, tracker, mutex, saver,
          main, poll, started, cancelled, bounds>>

-----------------------------------------------------------------------------
(* Data. *)

Connection == {"Offline", "Connecting", "Online"}
Retryable == {"Pending", "Failed"}
Text(a) == [account |-> a, delivery |-> "Pending"]
Event == [kind : {"Connected", "Disconnected", "IncomingText"}, account : Accounts]

Outgoing == [account : Accounts, delivery : Retryable \cup {"Sent"}]
Core == [conn : [Accounts -> Connection], sent : Seq(Outgoing), texts : Nat, edits : Nat]

\* What a state file keeps: a restored account is offline.
Durable(c) == [c EXCEPT !.conn = [a \in Accounts |-> "Offline"]]

Online(c) == {a \in Accounts : c.conn[a] = "Online"}

Savers == {"poll"} \cup LifeJobs
Nobody == "nobody"

NoMethod == [at |-> "idle", schedule |-> {}]
NoSave(d) == [pc |-> "idle", epoch |-> 0, image |-> d]
SaveRecord(e) == [pc : {"idle", "ready", "waits", "captured", "taken"}, epoch : 0..e, image : Core]
PollRecord ==
  [pc : {"idle", "drains", "flushes", "marks", "snaps", "checks", "saves", "resumes"},
   pending : SUBSET Accounts, online : SUBSET Accounts, processed : BOOLEAN,
   batches : 0..MaxDrainBatches, left : SUBSET Accounts, snap : Core]

\* apply_transport_event.
ApplyEvent(c, e) ==
  [c EXCEPT !.conn = IF e.kind = "IncomingText" THEN @
                     ELSE [@ EXCEPT ![e.account] =
                             IF e.kind = "Connected" THEN "Online" ELSE "Offline"],
            !.texts = IF e.kind = "IncomingText" THEN @ + 1 ELSE @]

\* The events of one batch, in order.
ApplyEvents(c, es) ==
  LET run[i \in 0..Len(es)] == IF i = 0 THEN c ELSE ApplyEvent(run[i - 1], es[i])
  IN run[Len(es)]

\* The positions of what the account has not sent yet, in order.
Outbox(c, a) ==
  {i \in DOMAIN c.sent : c.sent[i].account = a /\ c.sent[i].delivery \in Retryable}

Before(i, queue) == Cardinality({j \in queue : j < i})

\* The cores that flush_outbox of an online account may leave: the first k of
\* its queue are sent, and then a send fails or the time is over.  Without a
\* worker every send fails; the first is always tried.
Flushed(c, a) ==
  LET queue == Outbox(c, a)
      batch == {i \in queue : Before(i, queue) < FlushMaxBatch}
      after(k, fails) == [c EXCEPT !.sent = [i \in DOMAIN @ |->
        IF i \in batch /\ Before(i, queue) < k THEN [@[i] EXCEPT !.delivery = "Sent"]
        ELSE IF fails /\ i \in batch /\ Before(i, queue) = k THEN [@[i] EXCEPT !.delivery = "Failed"]
        ELSE @[i]]]
  IN IF a \notin Online(c) THEN {c}
     ELSE IF session[a] # "up" THEN {after(0, TRUE)}
     ELSE {after(k, TRUE) : k \in 0..Cardinality(batch)}
            \cup {after(k, FALSE) : k \in 1..Cardinality(batch)}

TypeOK ==
  /\ core \in Core /\ ui \in Core /\ disk \in Core
  /\ session \in [Accounts -> {"none", "starting", "up"}]
  /\ events \in Seq(Event)
  /\ pendingOutbox \subseteq Accounts
  /\ epoch \in Nat /\ persisted \in 0..epoch
  /\ mutex \in Savers \cup {Nobody}
  /\ saver \in [Savers -> SaveRecord(epoch)]
  /\ main \in [at : {"idle", "marks", "refreshes"}, schedule : SUBSET Accounts]
  /\ poll \in PollRecord
  /\ started \in BOOLEAN /\ cancelled \in BOOLEAN

\* restoreState ran and published its result.
Init ==
  /\ core = [conn |-> [a \in Accounts |-> "Offline"],
             sent |-> [i \in 1..Len(Restored) |-> Text(Restored[i])], texts |-> 0, edits |-> 0]
  /\ ui = core
  /\ disk = core
  /\ session = [a \in Accounts |-> "none"]
  /\ events = <<>>
  /\ pendingOutbox = {}
  /\ epoch = 0 /\ persisted = 0
  /\ mutex = Nobody
  /\ saver = [s \in Savers |-> NoSave(disk)]
  /\ main = NoMethod
  /\ poll = [pc |-> "idle", pending |-> {}, online |-> {}, processed |-> FALSE,
             batches |-> 0, left |-> {}, snap |-> core]
  /\ started = TRUE /\ cancelled = FALSE
  /\ ops = 0 /\ emitted = 0 /\ stops = 0

-----------------------------------------------------------------------------
(* The main thread: a method calls the core, marks the mutation, refreshes. *)

\* Bound: MaxOps.
Begins(op) ==
  /\ op \in UserOps
  /\ started
  /\ main.at = "idle"
  /\ ops < MaxOps
  /\ ops' = ops + 1
  /\ UNCHANGED <<ui, disk, events, pendingOutbox, tracker, mutex, saver, poll,
                 started, cancelled, emitted, stops>>

Calls(schedule) == main' = [at |-> "marks", schedule |-> schedule]

ReconnectAccount(a) ==
  /\ Begins("connect")
  /\ session[a] = "none"
  /\ session' = [session EXCEPT ![a] = "starting"]
  /\ core' = [core EXCEPT !.conn[a] = "Connecting"]
  /\ Calls({})

DisconnectAccount(a) ==
  /\ Begins("disconnect")
  /\ session[a] # "none"
  /\ session' = [session EXCEPT ![a] = "none"]
  /\ core' = [core EXCEPT !.conn[a] = "Offline"]
  /\ Calls({})

SendText(a) ==
  /\ Begins("send")
  /\ core' = [core EXCEPT !.sent = Append(@, Text(a))]
  /\ Calls({a})
  /\ UNCHANGED session

\* deleteConversation, renameAccount, addContact, markConversationRead, and
\* deleteAccount of an account that is offline.
Edit ==
  /\ Begins("edit")
  /\ core' = [core EXCEPT !.edits = @ + 1]
  /\ Calls({})
  /\ UNCHANGED session

MethodMarks ==
  /\ main.at = "marks"
  /\ epoch' = epoch + 1
  /\ pendingOutbox' = pendingOutbox \cup main.schedule
  /\ main' = [main EXCEPT !.at = "refreshes"]
  /\ UNCHANGED <<core, ui, disk, session, events, persisted, mutex, saver, poll,
                 started, cancelled, bounds>>

MethodRefreshes ==
  /\ main.at = "refreshes"
  /\ ui' = core
  /\ main' = NoMethod
  /\ UNCHANGED <<core, disk, session, events, pendingOutbox, tracker, mutex, saver, poll,
                 started, cancelled, bounds>>

-----------------------------------------------------------------------------
(* The transport, as far as the gateway sees it. *)

EmitEvent(kind, a) ==
  /\ events' = Append(events, [kind |-> kind, account |-> a])
  /\ UNCHANGED <<core, ui, disk, pendingOutbox, tracker, mutex, saver, main, poll,
                 started, cancelled, ops, stops>>

\* Bound: MaxEmitted events that no connect phase emits.
Bounded == emitted < MaxEmitted /\ emitted' = emitted + 1

\* The connect phase ends within its deadline, one way or the other.
SessionSettles(a) ==
  /\ session[a] = "starting"
  /\ \/ session' = [session EXCEPT ![a] = "up"] /\ EmitEvent("Connected", a)
     \/ session' = [session EXCEPT ![a] = "none"] /\ EmitEvent("Disconnected", a)
  /\ UNCHANGED emitted

SessionEnds(a) ==
  /\ session[a] = "up"
  /\ Bounded
  /\ session' = [session EXCEPT ![a] = "none"]
  /\ EmitEvent("Disconnected", a)

TextArrives(a) ==
  /\ session[a] = "up"
  /\ Bounded
  /\ EmitEvent("IncomingText", a)
  /\ UNCHANGED session

-----------------------------------------------------------------------------
(* pollTransport. *)

InPoll == UNCHANGED <<disk, session, persisted, mutex, main, started, bounds>>

\* On the main thread: what is pending, and who is online on the screen.
PollBegins ==
  /\ poll.pc = "idle"
  /\ started
  /\ main.at = "idle"
  /\ poll' = [poll EXCEPT !.pc = "drains", !.pending = pendingOutbox, !.online = Online(ui),
                          !.processed = FALSE, !.batches = 0, !.left = pendingOutbox]
  /\ UNCHANGED <<core, ui, events, pendingOutbox, epoch, saver, cancelled>>
  /\ InPoll

\* drainTransportEvents: another batch while the last was full and one is left;
\* then the poll ends unless something happened or some pending account seemed
\* online.
PollDrains ==
  /\ poll.pc = "drains"
  /\ LET n == IF Len(events) < DrainBatch THEN Len(events) ELSE DrainBatch
         processed == poll.processed \/ n > 0
         again == n = DrainBatch /\ poll.batches + 1 < MaxDrainBatches
         unchanged == ~processed /\ poll.pending \cap poll.online = {}
     IN /\ core' = ApplyEvents(core, SubSeq(events, 1, n))
        /\ events' = SubSeq(events, n + 1, Len(events))
        /\ poll' = [poll EXCEPT !.processed = processed, !.batches = @ + 1,
                                !.pc = IF again THEN "drains"
                                       ELSE IF unchanged THEN "idle" ELSE "flushes"]
        /\ cancelled' = (cancelled /\ poll'.pc # "idle")
  /\ UNCHANGED <<ui, pendingOutbox, epoch, saver>>
  /\ InPoll

\* flushOutbox of one pending account; a failure is ignored.
PollFlushes ==
  /\ poll.pc = "flushes"
  /\ \/ /\ poll.left = {}
        /\ poll' = [poll EXCEPT !.pc = "marks"]
        /\ UNCHANGED core
     \/ \E a \in poll.left :
          /\ core' \in Flushed(core, a)
          /\ poll' = [poll EXCEPT !.left = @ \ {a}]
  /\ UNCHANGED <<ui, events, pendingOutbox, epoch, saver, cancelled>>
  /\ InPoll

PollMarks ==
  /\ poll.pc = "marks"
  /\ epoch' = epoch + 1
  /\ poll' = [poll EXCEPT !.pc = "snaps"]
  /\ UNCHANGED <<core, ui, events, pendingOutbox, saver, cancelled>>
  /\ InPoll

\* The one snapshot of a poll.
PollSnapshots ==
  /\ poll.pc = "snaps"
  /\ poll' = [poll EXCEPT !.pc = "checks", !.snap = core]
  /\ UNCHANGED <<core, ui, events, pendingOutbox, epoch, saver, cancelled>>
  /\ InPoll

PollSaves ==
  /\ poll.pc = "checks"
  /\ \/ /\ epoch # persisted
        /\ poll' = [poll EXCEPT !.pc = "saves"]
        /\ saver' = [saver EXCEPT !["poll"].pc = "waits"]
     \/ /\ epoch = persisted
        /\ poll' = [poll EXCEPT !.pc = "resumes"]
        /\ UNCHANGED saver
  /\ UNCHANGED <<core, ui, events, pendingOutbox, epoch, cancelled>>
  /\ InPoll

\* Variant: an account that connected during the poll is not scheduled.
PollResumesForgetting ==
  /\ poll.pc = "resumes"
  /\ ~cancelled
  /\ main.at = "idle"
  /\ pendingOutbox' = pendingOutbox \ poll.pending
  /\ ui' = poll.snap
  /\ poll' = [poll EXCEPT !.pc = "idle"]
  /\ UNCHANGED <<core, events, epoch, saver, cancelled>>
  /\ InPoll

\* Variant: the screen is refreshed only by a poll that flushed something.
PollResumesQuietly ==
  /\ poll.pc = "resumes"
  /\ ~cancelled
  /\ main.at = "idle"
  /\ pendingOutbox' = (pendingOutbox \ poll.pending) \cup (Online(poll.snap) \ poll.online)
  /\ ui' = IF poll.pending = {} THEN ui ELSE poll.snap
  /\ poll' = [poll EXCEPT !.pc = "idle"]
  /\ UNCHANGED <<core, events, epoch, saver, cancelled>>
  /\ InPoll

\* Back on the main thread: the flushed accounts are no longer pending, those
\* that came online are, and the screen shows the snapshot.
PollResumes ==
  /\ poll.pc = "resumes"
  /\ ~cancelled
  /\ main.at = "idle"
  /\ pendingOutbox' = (pendingOutbox \ poll.pending) \cup (Online(poll.snap) \ poll.online)
  /\ ui' = poll.snap
  /\ poll' = [poll EXCEPT !.pc = "idle"]
  /\ UNCHANGED <<core, events, epoch, saver, cancelled>>
  /\ InPoll

\* A cancelled poll either has not reached the I/O thread, or gets its result
\* dropped.
PollDropped ==
  /\ cancelled
  /\ poll.pc = "resumes" \/ (poll.pc = "drains" /\ poll.batches = 0)
  /\ poll' = [poll EXCEPT !.pc = "idle"]
  /\ cancelled' = FALSE
  /\ UNCHANGED <<core, ui, events, pendingOutbox, epoch, saver>>
  /\ InPoll

-----------------------------------------------------------------------------
(* saveSnapshot and persistNow. *)

InSave == UNCHANGED <<core, ui, session, events, pendingOutbox, epoch, main, started, bounds>>

\* persistNow on its I/O thread.
PersistNow(j) ==
  /\ saver[j].pc = "ready"
  /\ saver' = [saver EXCEPT ![j].pc = IF epoch # persisted THEN "waits" ELSE "idle"]
  /\ UNCHANGED <<disk, persisted, mutex, poll, cancelled>>
  /\ InSave

\* Variant: saves are not serialized.
SaveLocksUnguarded(s) ==
  /\ saver[s].pc = "waits"
  /\ mutex' = s
  /\ saver' = [saver EXCEPT ![s].pc = "captured", ![s].epoch = epoch]
  /\ UNCHANGED <<disk, persisted, poll, cancelled>>
  /\ InSave

SaveLocks(s) ==
  /\ saver[s].pc = "waits"
  /\ mutex = Nobody
  /\ mutex' = s
  /\ saver' = [saver EXCEPT ![s].pc = "captured", ![s].epoch = epoch]
  /\ UNCHANGED <<disk, persisted, poll, cancelled>>
  /\ InSave

\* Waiting for the mutex is where a cancelled poll stops.
SaveAbandoned ==
  /\ cancelled
  /\ saver["poll"].pc = "waits"
  /\ mutex # Nobody
  /\ saver' = [saver EXCEPT !["poll"] = [@ EXCEPT !.pc = "idle"]]
  /\ poll' = [poll EXCEPT !.pc = "idle"]
  /\ cancelled' = FALSE
  /\ UNCHANGED <<disk, persisted, mutex>>
  /\ InSave

\* saveStateSecured takes its snapshot under the session lock ...
SaveTakes(s) ==
  /\ saver[s].pc = "captured"
  /\ saver' = [saver EXCEPT ![s].pc = "taken", ![s].image = Durable(core)]
  /\ UNCHANGED <<disk, persisted, mutex, poll, cancelled>>
  /\ InSave

\* Variant: a save acknowledges everything marked until it completes.
AcknowledgedAll(s) == epoch
\* Variant: it acknowledges the epoch after the captured one.
AcknowledgedNext(s) == saver[s].epoch + 1
\* markPersisted.
Acknowledged(s) == IF persisted >= saver[s].epoch THEN persisted ELSE saver[s].epoch

\* ... and writes the file outside it.
SaveWrites(s) ==
  /\ saver[s].pc = "taken"
  /\ \/ disk' = saver[s].image /\ persisted' = Acknowledged(s)
     \/ SavesMayFail /\ UNCHANGED <<disk, persisted>>
  /\ mutex' = Nobody
  /\ saver' = [saver EXCEPT ![s] = NoSave(disk')]
  /\ poll' = IF s = "poll" THEN [poll EXCEPT !.pc = "resumes"] ELSE poll
  /\ UNCHANGED cancelled
  /\ InSave

-----------------------------------------------------------------------------
(* The lifecycle.  Bound: MaxStops. *)

InLife == UNCHANGED <<core, ui, disk, session, events, pendingOutbox, tracker, mutex, main,
                      poll, ops, emitted>>

\* ON_STOP: the poll is cancelled and persistNow is launched.
Stop ==
  /\ started
  /\ main.at = "idle"
  /\ stops < MaxStops
  /\ stops' = stops + 1
  /\ started' = FALSE
  /\ cancelled' = (poll.pc # "idle")
  /\ \E j \in LifeJobs : saver[j].pc = "idle" /\ saver' = [saver EXCEPT ![j].pc = "ready"]
  /\ InLife

Start ==
  /\ ~started
  /\ started' = TRUE
  /\ UNCHANGED <<cancelled, saver, stops>>
  /\ InLife

MainStep ==
  \/ \E a \in Accounts : ReconnectAccount(a) \/ DisconnectAccount(a) \/ SendText(a)
  \/ Edit \/ MethodMarks \/ MethodRefreshes

TransportStep == \E a \in Accounts : SessionSettles(a) \/ SessionEnds(a) \/ TextArrives(a)

PollStep == \/ PollBegins \/ PollDrains \/ PollFlushes \/ PollMarks \/ PollSnapshots
            \/ PollSaves \/ PollResumes \/ PollDropped

SaverStep(s) == SaveLocks(s) \/ SaveTakes(s) \/ SaveWrites(s)

SaveStep == \/ \E s \in Savers : SaverStep(s)
            \/ \E j \in LifeJobs : PersistNow(j)
            \/ SaveAbandoned

Next == MainStep \/ TransportStep \/ PollStep \/ SaveStep \/ Stop \/ Start

Spec == Init /\ [][Next]_vars

\* The threads run, the loop polls again while the app is on screen, and the
\* connect phase has a deadline.
Fairness ==
  /\ WF_vars(MethodMarks) /\ WF_vars(MethodRefreshes)
  /\ WF_vars(PollStep)
  /\ \A s \in Savers : WF_vars(SaverStep(s))
  /\ \A j \in LifeJobs : WF_vars(PersistNow(j))
  /\ \A a \in Accounts : WF_vars(SessionSettles(a))

FairSpec == Spec /\ Fairness

-----------------------------------------------------------------------------
(* Properties. *)

\* A core call that changed something durable and is not marked yet.
Unmarked ==
  \/ main.at = "marks"
  \/ poll.pc = "drains" /\ poll.processed
  \/ poll.pc \in {"flushes", "marks"}

\* Once the tracker says that nothing needs saving, the state file holds
\* everything the core knows: no save acknowledges a mutation it did not
\* write, whatever ran on the other thread meanwhile
\* (PersistenceStateTracker, saveSnapshot).
CleanMeansSaved == epoch = persisted /\ ~Unmarked => disk = Durable(core)

Delivery == [d \in Retryable \cup {"Sent"} |->
               CASE d = "Pending" -> 0 [] d = "Failed" -> 1 [] OTHER -> 2]

\* The file never goes back to an older core, although the poll and the
\* lifecycle save on their own and each takes its snapshot long before it
\* writes (persistenceMutex).
DiskNeverRegresses ==
  [][/\ disk'.texts >= disk.texts
     /\ disk'.edits >= disk.edits
     /\ Len(disk'.sent) >= Len(disk.sent)
     /\ \A i \in 1..Len(disk.sent) :
          Delivery[disk'.sent[i].delivery] >= Delivery[disk.sent[i].delivery]]_vars

\* Text that waits for an account that stays online, while the app stays on
\* screen, is handed to the transport at some time (pollTransport: "schedule
\* them so the next poll flushes their queue"; "Unchanged poll: nothing to
\* apply and nothing queued").  It holds of one restored message per account;
\* a second one, or one written during a poll, may wait for ever.
QueuedIsAttempted ==
  \A i \in 1..(Len(Restored) + MaxOps) :
    ~<>[](/\ started
          /\ i \in DOMAIN core.sent
          /\ core.sent[i].delivery = "Pending"
          /\ core.sent[i].account \in Online(core))

\* The screen shows what the transport did: the texts, the deliveries and the
\* accounts that came online.
ShowsTransport ==
  /\ ui.texts = core.texts
  /\ \A a \in Accounts : core.conn[a] = "Online" => ui.conn[a] = "Online"
  /\ \A i \in DOMAIN core.sent : core.sent[i].delivery # "Pending" =>
       i \in DOMAIN ui.sent /\ ui.sent[i].delivery = core.sent[i].delivery

\* Unless a poll is cancelled, the screen always comes to show what the transport
\* did, although methods and polls publish over each other (pollTransport: "a
\* changed poll captures exactly one core snapshot, after event processing and
\* the outbox flush").  Of what the user did it does not: NeverStaleConnecting.
TransportIsShown == []~cancelled => []<>ShowsTransport

\* An app that came back to the screen does not show an old state for ever
\* (MindChatApp: the loop restarts with one immediate poll "so the resumed UI
\* catches up").
UiCatchesUp == ~<>[](started /\ ui # core)

\* No account is shown on Connecting for ever while the core knows better
\* (pollTransport keeps the projection visible, "otherwise the UI can stay on a
\* stale Connecting snapshot forever").
NeverStaleConnecting ==
  \A a \in Accounts :
    ~<>[](started /\ ui.conn[a] = "Connecting" /\ core.conn[a] # "Connecting")

=============================================================================
