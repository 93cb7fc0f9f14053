--------------------------- MODULE TransportSession ---------------------------
(***************************************************************************)
(* The session layer of mindchat-core: the worker threads of               *)
(* TokioXmppTransport (xmpp.rs), the event channel they share, and the     *)
(* TransportCoordinator (lib.rs) behind the session lock of the FFI handle *)
(* (ffi.rs), which projects the events onto each account and drives the    *)
(* outbox.                                                                 *)
(*                                                                         *)
(* Two kinds of step interleave.  A worker step is one turn of run_worker  *)
(* for one worker incarnation.  A session step is one foreign call, or one *)
(* part of a call that blocks: disconnect and send hold the session lock   *)
(* while they wait for a worker's answer, so workers move in between and   *)
(* no other foreign call does.                                             *)
(*                                                                         *)
(* Abstracted: the XMPP stream under a worker (it is up or down, and a     *)
(* stanza was handed to it or not), message bodies, and every event that   *)
(* changes neither a connection state nor a delivery state.                *)
(***************************************************************************)
EXTENDS Integers, Sequences, FiniteSets

CONSTANTS
  Accounts,        \* account ids
  AutoReconnect,   \* the accounts whose auto_reconnect flag is set
  MaxWorkers,      \* bound: worker incarnations started in one process run
  MaxMsgs,         \* bound: outgoing messages created in one process run
  MaxEvents,       \* bound: events buffered in the mpsc channel
  MaxCommands,     \* bound: commands buffered for one worker
  FlushMaxBatch    \* FLUSH_OUTBOX_MAX_BATCH

ASSUME SessionAssumption ==
  /\ Accounts # {}
  /\ AutoReconnect \subseteq Accounts
  /\ MaxWorkers \in Nat
  /\ MaxMsgs \in Nat
  /\ MaxEvents \in Nat
  /\ MaxCommands \in Nat
  /\ FlushMaxBatch \in Nat \ {0}

Workers == 1..MaxWorkers
NoWorker == 0
Msgs == 1..MaxMsgs
NoMsg == 0

VARIABLES
  conn,     \* conn[a]: connection_state of account a, "Deleted" once removed
  tracked,  \* tracked[a]: the worker in the transport's map, or NoWorker
  owner,    \* owner[w]: the account worker w was started for
  phase,    \* phase[w]: where run_worker of w is
  live,     \* live[w]: session_live of w
  cmds,     \* cmds[w]: the command channel of w
  events,   \* the event channel shared by all workers
  call,     \* the foreign call that holds the session lock and waits
  status,   \* status[m]: delivery state of message m, "Absent" if not stored
  msgOf,    \* msgOf[m]: the account message m was written for
  nextMsg,  \* next_message_id
  handed    \* the messages some worker put on its stream's transmit queue

workerVars == <<owner, phase, live, cmds>>
msgVars == <<status, msgOf, nextMsg>>
vars == <<conn, tracked, workerVars, events, call, msgVars, handed>>

-----------------------------------------------------------------------------
(* Types. *)

ConnectionState == {"Offline", "Connecting", "Online", "Failed"}
DeliveryState == {"Pending", "Failed", "Sent", "Delivered"}
SentStates == {"Sent", "Delivered"}
Retryable == {"Pending", "Failed"}
Phase == {"unborn", "connecting", "running", "exited"}

SendCmd(m) == [op |-> "send", msg |-> m]
DisconnectCmd == [op |-> "disconnect", msg |-> NoMsg]
Command == [op : {"send", "disconnect"}, msg : Msgs \cup {NoMsg}]

Connected(a) == [type |-> "Connected", acct |-> a, recoverable |-> TRUE, msg |-> NoMsg]
Disconnected(a, rec) ==
  [type |-> "Disconnected", acct |-> a, recoverable |-> rec, msg |-> NoMsg]
DeliveryUpdated(a, m) ==
  [type |-> "DeliveryUpdated", acct |-> a, recoverable |-> TRUE, msg |-> m]
Event == [type : {"Connected", "Disconnected", "DeliveryUpdated"},
          acct : Accounts, recoverable : BOOLEAN, msg : Msgs \cup {NoMsg}]

\* A blocking call: what it is for, the worker whose answer it awaits, the
\* message in flight and the number already sent (flush), and the answer.
NoCall == [op |-> "idle", acct |-> CHOOSE a \in Accounts : TRUE,
           worker |-> NoWorker, msg |-> NoMsg, sent |-> 0, reply |-> "none"]
Call == [op : {"idle", "disconnect", "delete", "flush"}, acct : Accounts,
         worker : Workers \cup {NoWorker}, msg : Msgs \cup {NoMsg},
         sent : 0..FlushMaxBatch, reply : {"none", "wait", "ok", "err"}]

\* Every variable keeps its type: account and worker records of the session.
TypeOK ==
  /\ conn \in [Accounts -> ConnectionState \cup {"Deleted"}]
  /\ tracked \in [Accounts -> Workers \cup {NoWorker}]
  /\ owner \in [Workers -> Accounts]
  /\ phase \in [Workers -> Phase]
  /\ live \in [Workers -> BOOLEAN]
  /\ cmds \in [Workers -> Seq(Command)]
  /\ events \in Seq(Event)
  /\ call \in Call
  /\ status \in [Msgs -> DeliveryState \cup {"Absent"}]
  /\ msgOf \in [Msgs -> Accounts]
  /\ nextMsg \in 1..(MaxMsgs + 1)
  /\ handed \in SUBSET Msgs

Init ==
  /\ conn = [a \in Accounts |-> "Offline"]
  /\ tracked = [a \in Accounts |-> NoWorker]
  /\ owner = [w \in Workers |-> NoCall.acct]
  /\ phase = [w \in Workers |-> "unborn"]
  /\ live = [w \in Workers |-> FALSE]
  /\ cmds = [w \in Workers |-> <<>>]
  /\ events = <<>>
  /\ call = NoCall
  /\ status = [m \in Msgs |-> "Absent"]
  /\ msgOf = [m \in Msgs |-> NoCall.acct]
  /\ nextMsg = 1
  /\ handed = {}

-----------------------------------------------------------------------------
(* Worker steps. *)

\* send_event; MaxEvents caps the unbounded channel of the code.
Emit(e) == /\ Len(events) < MaxEvents
           /\ events' = Append(events, e)

\* The handle of w lives in the transport's map or in a blocking disconnect.
HandleHeld(w) ==
  \/ \E a \in Accounts : tracked[a] = w
  \/ call.op \in {"disconnect", "delete"} /\ call.worker = w

Awaits(w) == call.reply = "wait" /\ call.worker = w

\* Variant: one response channel for all commands of a worker.
ReplyShared(w, r) ==
  IF Awaits(w) THEN call' = [call EXCEPT !.reply = r] ELSE UNCHANGED call

\* Answering the head command reaches the waiting call only if that call put
\* the command there: it is then the last one in the channel.
Reply(w, r) ==
  IF Awaits(w) /\ Len(cmds[w]) = 1
  THEN call' = [call EXCEPT !.reply = r]
  ELSE UNCHANGED call

\* run_worker returns: the command receiver and all it still holds is dropped.
LeaveLoop(w) ==
  /\ phase' = [phase EXCEPT ![w] = "exited"]
  /\ live' = [live EXCEPT ![w] = FALSE]
  /\ cmds' = [cmds EXCEPT ![w] = <<>>]
  /\ UNCHANGED owner

\* Variant: the response senders outlive the loop.
LastReplyLost(w, r) == UNCHANGED call

\* The command at hand is answered with r as the loop ends; a call whose
\* command is still behind it sees its response channel closed.
LastReply(w, r) ==
  \/ Awaits(w) /\ Len(cmds[w]) = 1 /\ call' = [call EXCEPT !.reply = r]
  \/ Awaits(w) /\ Len(cmds[w]) # 1 /\ call' = [call EXCEPT !.reply = "err"]
  \/ ~Awaits(w) /\ UNCHANGED call

\* The connect phase selects between the command channel and the handshake.
\* A command ends the worker with no event: a disconnect is confirmed, a send
\* is refused.
CommandWhileConnecting(w) ==
  /\ phase[w] = "connecting"
  /\ cmds[w] # <<>>
  /\ \/ Head(cmds[w]).op = "disconnect" /\ LastReply(w, "ok")
     \/ Head(cmds[w]).op = "send" /\ LastReply(w, "err")
  /\ LeaveLoop(w)
  /\ UNCHANGED <<conn, tracked, events, msgVars, handed>>

\* Variant: only the connect phase notices the closed channel.
HandleDroppedConnecting(w) ==
  /\ phase[w] = "connecting"
  /\ cmds[w] = <<>>
  /\ ~HandleHeld(w)
  /\ LeaveLoop(w)
  /\ UNCHANGED <<conn, tracked, events, call, msgVars, handed>>

\* The handle was dropped: the command channel is empty and closed.
HandleDropped(w) ==
  /\ phase[w] \in {"connecting", "running"}
  /\ cmds[w] = <<>>
  /\ ~HandleHeld(w)
  /\ LeaveLoop(w)
  /\ UNCHANGED <<conn, tracked, events, call, msgVars, handed>>

\* The handshake produced a client whose first event is Online.
ConnectSucceeds(w) ==
  /\ phase[w] = "connecting"
  /\ Emit(Connected(owner[w]))
  /\ phase' = [phase EXCEPT ![w] = "running"]
  /\ live' = [live EXCEPT ![w] = TRUE]
  /\ UNCHANGED <<conn, tracked, owner, cmds, call, msgVars, handed>>

\* Variant: the failed phase returns without a terminal event.
ConnectFailsSilently(w) ==
  /\ phase[w] = "connecting"
  /\ LastReply(w, "err")
  /\ LeaveLoop(w)
  /\ UNCHANGED <<conn, tracked, events, msgVars, handed>>

\* Every candidate failed, the credentials or the certificate were refused
\* (not recoverable), or CONNECT_PHASE_TIMEOUT elapsed.
ConnectFails(w) ==
  /\ phase[w] = "connecting"
  /\ \E rec \in BOOLEAN : Emit(Disconnected(owner[w], rec))
  /\ LastReply(w, "err")
  /\ LeaveLoop(w)
  /\ UNCHANGED <<conn, tracked, msgVars, handed>>

\* The loop executes a send.  It succeeds once the stanza was written; it
\* fails after WORKER_SEND_TIMEOUT with the stanza still queued in the stream
\* and due to go out later, or because the stream ended first.
WorkerSend(w) ==
  /\ phase[w] = "running"
  /\ cmds[w] # <<>>
  /\ Head(cmds[w]).op = "send"
  /\ \/ Reply(w, "ok") /\ handed' = handed \cup {Head(cmds[w]).msg}
     \/ Reply(w, "err") /\ handed' = handed \cup {Head(cmds[w]).msg}
     \/ Reply(w, "err") /\ UNCHANGED handed
  /\ cmds' = [cmds EXCEPT ![w] = Tail(@)]
  /\ UNCHANGED <<conn, tracked, owner, phase, live, events, msgVars>>

\* A user disconnect: send_end, answer with its result, leave without event.
WorkerDisconnect(w) ==
  /\ phase[w] = "running"
  /\ cmds[w] # <<>>
  /\ Head(cmds[w]).op = "disconnect"
  /\ \E r \in {"ok", "err"} : LastReply(w, r)
  /\ LeaveLoop(w)
  /\ UNCHANGED <<conn, tracked, events, msgVars, handed>>

\* The loop loses its session but keeps polling, so that the stream can
\* resume (LoopAction::Keep, or the watchdog followed by request_reconnect).
\* A failed resumption reports the loss again while the session is not live.
LossKept(w) ==
  /\ phase[w] = "running"
  /\ owner[w] \in AutoReconnect
  /\ Emit(Disconnected(owner[w], TRUE))
  /\ live' = [live EXCEPT ![w] = FALSE]
  /\ UNCHANGED <<conn, tracked, owner, phase, cmds, call, msgVars, handed>>

\* The loss ends the loop: authentication or TLS failure (not recoverable),
\* an exhausted reconnect budget, the end of the stream, a panic (all
\* recoverable), or any loss when auto_reconnect is off.
LossStops(w) ==
  /\ phase[w] = "running"
  /\ \E rec \in BOOLEAN : Emit(Disconnected(owner[w], rec))
  /\ LastReply(w, "err")
  /\ LeaveLoop(w)
  /\ UNCHANGED <<conn, tracked, msgVars, handed>>

\* The stream was reset or resumed: Online again.
SessionRestored(w) ==
  /\ phase[w] = "running"
  /\ ~live[w]
  /\ Emit(Connected(owner[w]))
  /\ live' = [live EXCEPT ![w] = TRUE]
  /\ UNCHANGED <<conn, tracked, owner, phase, cmds, call, msgVars, handed>>

\* A receipt of the peer for a message that went out on this account.
ReceiptArrives(w) ==
  /\ phase[w] = "running"
  /\ live[w]
  /\ \E m \in handed : msgOf[m] = owner[w] /\ Emit(DeliveryUpdated(owner[w], m))
  /\ UNCHANGED <<conn, tracked, workerVars, call, msgVars, handed>>

WorkerStep(w) ==
  \/ CommandWhileConnecting(w)
  \/ HandleDropped(w)
  \/ ConnectSucceeds(w)
  \/ ConnectFails(w)
  \/ WorkerSend(w)
  \/ WorkerDisconnect(w)
  \/ LossKept(w)
  \/ LossStops(w)
  \/ SessionRestored(w)
  \/ ReceiptArrives(w)

-----------------------------------------------------------------------------
(* Session steps: the session lock is free, or its holder's call advances. *)

LockFree == call.op = "idle"
Known(a) == conn[a] # "Deleted"
Alive(w) == w # NoWorker /\ phase[w] # "exited"

\* connect_with_proxy: the account is projected as connecting, then refused
\* when a worker is still tracked or when the request or the thread cannot be
\* made; otherwise a new worker takes the account's slot.
Connect(a) ==
  /\ LockFree
  /\ Known(a)
  /\ \/ /\ conn' = [conn EXCEPT ![a] = "Failed"]
        /\ UNCHANGED <<tracked, workerVars>>
     \/ /\ tracked[a] = NoWorker
        /\ \E w \in Workers :
             /\ phase[w] = "unborn"
             /\ \A v \in Workers : v < w => phase[v] # "unborn"
             /\ tracked' = [tracked EXCEPT ![a] = w]
             /\ owner' = [owner EXCEPT ![w] = a]
             /\ phase' = [phase EXCEPT ![w] = "connecting"]
             /\ conn' = [conn EXCEPT ![a] = "Connecting"]
             /\ UNCHANGED <<live, cmds>>
  /\ UNCHANGED <<events, call, msgVars, handed>>

\* Variant: no cascade to the account's messages.
RemoveAccountOnly(a) ==
  /\ conn' = [conn EXCEPT ![a] = "Deleted"]
  /\ UNCHANGED msgVars

\* The account and everything it owns leave the core.
RemoveAccount(a) ==
  /\ conn' = [conn EXCEPT ![a] = "Deleted"]
  /\ status' = [m \in Msgs |-> IF msgOf[m] = a THEN "Absent" ELSE status[m]]
  /\ UNCHANGED <<msgOf, nextMsg>>

\* The transport's disconnect gives up the handle first.  A worker that is
\* gone makes it fail at once; otherwise it waits for the worker's answer.
BeginClose(a, op) ==
  LET w == tracked[a] IN
  /\ Alive(w)
  /\ Len(cmds[w]) < MaxCommands
  /\ cmds' = [cmds EXCEPT ![w] = Append(@, DisconnectCmd)]
  /\ call' = [NoCall EXCEPT !.op = op, !.acct = a, !.worker = w, !.reply = "wait"]
  /\ UNCHANGED <<conn, msgVars>>

\* disconnect_account: with no live worker it fails and only frees the slot.
Disconnect(a) ==
  /\ LockFree
  /\ Known(a)
  /\ tracked[a] # NoWorker
  /\ tracked' = [tracked EXCEPT ![a] = NoWorker]
  /\ \/ BeginClose(a, "disconnect")
     \/ ~Alive(tracked[a]) /\ UNCHANGED <<conn, cmds, call, msgVars>>
  /\ UNCHANGED <<owner, phase, live, events, handed>>

\* delete_account: a best-effort disconnect, whose outcome is ignored.
DeleteAccount(a) ==
  /\ LockFree
  /\ Known(a)
  /\ tracked' = [tracked EXCEPT ![a] = NoWorker]
  /\ \/ BeginClose(a, "delete")
     \/ ~Alive(tracked[a]) /\ RemoveAccount(a) /\ UNCHANGED <<cmds, call>>
  /\ UNCHANGED <<owner, phase, live, events, handed>>

\* disconnect_account returns: only a confirmed close is projected.
DisconnectReturns ==
  /\ call.op = "disconnect"
  /\ call.reply \in {"ok", "err"}
  /\ conn' = IF call.reply = "ok" THEN [conn EXCEPT ![call.acct] = "Offline"] ELSE conn
  /\ call' = NoCall
  /\ UNCHANGED <<tracked, workerVars, events, msgVars, handed>>

DeleteReturns ==
  /\ call.op = "delete"
  /\ call.reply \in {"ok", "err"}
  /\ RemoveAccount(call.acct)
  /\ call' = NoCall
  /\ UNCHANGED <<tracked, workerVars, events, handed>>

\* DISCONNECT_TIMEOUT or SEND_TIMEOUT elapses at the handle.  While it
\* connects, a worker answers a command at once, so only a running worker (busy
\* with an event, a send or send_end) can be that late.  The command stays in
\* the channel and is still executed.
CallTimesOut ==
  /\ call.reply = "wait"
  /\ phase[call.worker] = "running"
  /\ call' = [call EXCEPT !.reply = "err"]
  /\ UNCHANGED <<conn, tracked, workerVars, events, msgVars, handed>>

\* send_text: the message is queued whatever the connection state.
SendText(a) ==
  /\ LockFree
  /\ Known(a)
  /\ nextMsg \in Msgs
  /\ status' = [status EXCEPT ![nextMsg] = "Pending"]
  /\ msgOf' = [msgOf EXCEPT ![nextMsg] = a]
  /\ nextMsg' = nextMsg + 1
  /\ UNCHANGED <<conn, tracked, workerVars, events, call, handed>>

\* pending_outgoing_messages, sorted by id: the flush takes the smallest.
Outbox(a) == {m \in Msgs : msgOf[m] = a /\ status[m] \in Retryable}
\* (Variant: taken in any order.)
FirstOfUnsorted(a, m) == m \in Outbox(a)
FirstOf(a, m) == m \in Outbox(a) /\ \A n \in Outbox(a) : m <= n

\* flush_outbox: only an online account is flushed.
FlushBegins(a) ==
  /\ LockFree
  /\ conn[a] = "Online"
  /\ Outbox(a) # {}
  /\ call' = [NoCall EXCEPT !.op = "flush", !.acct = a]
  /\ UNCHANGED <<conn, tracked, workerVars, events, msgVars, handed>>

\* Variant: the batch limit is forgotten.
FlushSendsUnbounded ==
  LET a == call.acct
      w == tracked[a]
  IN /\ call.op = "flush"
     /\ call.reply = "none"
     /\ \E m \in Msgs :
          /\ FirstOf(a, m)
          /\ Alive(w)
          /\ Len(cmds[w]) < MaxCommands
          /\ cmds' = [cmds EXCEPT ![w] = Append(@, SendCmd(m))]
          /\ call' = [call EXCEPT !.worker = w, !.msg = m, !.reply = "wait"]
     /\ UNCHANGED <<conn, tracked, owner, phase, live, events, msgVars, handed>>

\* One turn of the batch: without a worker to take the command the message is
\* marked failed and the batch aborted.
FlushSends ==
  LET a == call.acct
      w == tracked[a]
  IN /\ call.op = "flush"
     /\ call.reply = "none"
     /\ call.sent < FlushMaxBatch
     /\ \E m \in Msgs :
          /\ FirstOf(a, m)
          /\ \/ /\ Alive(w)
                /\ Len(cmds[w]) < MaxCommands
                /\ cmds' = [cmds EXCEPT ![w] = Append(@, SendCmd(m))]
                /\ call' = [call EXCEPT !.worker = w, !.msg = m, !.reply = "wait"]
                /\ UNCHANGED status
             \/ /\ ~Alive(w)
                /\ status' = [status EXCEPT ![m] = "Failed"]
                /\ call' = NoCall
                /\ UNCHANGED cmds
     /\ UNCHANGED <<conn, tracked, owner, phase, live, events, msgOf, nextMsg, handed>>

\* The worker answered: the message is sent and the batch goes on, or it is
\* marked failed and the batch aborts.
FlushContinues ==
  /\ call.op = "flush"
  /\ \/ /\ call.reply = "ok"
        /\ status' = [status EXCEPT ![call.msg] = "Sent"]
        /\ call' = [NoCall EXCEPT !.op = "flush", !.acct = call.acct, !.sent = call.sent + 1]
     \/ /\ call.reply = "err"
        /\ status' = [status EXCEPT ![call.msg] = "Failed"]
        /\ call' = NoCall
  /\ UNCHANGED <<conn, tracked, workerVars, events, msgOf, nextMsg, handed>>

\* The batch is over: nothing left, the batch limit, or (after at least one
\* send) the FLUSH_SEND_TIMEOUT budget is spent.
FlushEnds ==
  /\ call.op = "flush"
  /\ call.reply = "none"
  /\ Outbox(call.acct) = {} \/ call.sent > 0
  /\ call' = NoCall
  /\ UNCHANGED <<conn, tracked, workerVars, events, msgVars, handed>>

\* apply_delivery_update: only a strict advance of the delivery rank counts.
Rank == [s \in DeliveryState |->
           CASE s = "Pending" -> 0 [] s = "Failed" -> 1 [] s = "Sent" -> 2 [] OTHER -> 3]
ApplyReceipt(a, m) ==
  status' = IF status[m] # "Absent" /\ msgOf[m] = a /\ Rank["Delivered"] > Rank[status[m]]
            THEN [status EXCEPT ![m] = "Delivered"]
            ELSE status

\* apply_transport_event: an event of an account the core does not know is
\* consumed and ignored.
ApplyEvent(e) ==
  \/ /\ e.type = "DeliveryUpdated" \/ ~Known(e.acct)
     /\ UNCHANGED conn
     /\ IF e.type = "DeliveryUpdated" THEN ApplyReceipt(e.acct, e.msg) ELSE UNCHANGED status
  \/ /\ Known(e.acct)
     /\ \/ e.type = "Connected" /\ conn' = [conn EXCEPT ![e.acct] = "Online"]
        \/ e.type = "Disconnected" /\ e.recoverable
             /\ conn' = [conn EXCEPT ![e.acct] = "Offline"]
        \/ e.type = "Disconnected" /\ ~e.recoverable
             /\ conn' = [conn EXCEPT ![e.acct] = "Failed"]
     /\ UNCHANGED status

\* next_event: a Disconnected frees the slot of its account, whichever worker
\* sent it.
Retire(e) ==
  tracked' = IF e.type = "Disconnected" THEN [tracked EXCEPT ![e.acct] = NoWorker] ELSE tracked

\* poll_next_event: one event is taken, its worker retired, its effect applied.
PollEvent ==
  /\ LockFree
  /\ events # <<>>
  /\ events' = Tail(events)
  /\ Retire(Head(events))
  /\ ApplyEvent(Head(events))
  /\ UNCHANGED <<workerVars, call, msgOf, nextMsg, handed>>

CallStep == \/ DisconnectReturns \/ DeleteReturns \/ CallTimesOut
            \/ FlushSends \/ FlushContinues \/ FlushEnds

UserStep(a) == \/ Connect(a) \/ Disconnect(a) \/ DeleteAccount(a)
               \/ SendText(a) \/ FlushBegins(a)

Next == \/ \E w \in Workers : WorkerStep(w)
        \/ \E a \in Accounts : UserStep(a)
        \/ CallStep
        \/ PollEvent

Spec == Init /\ [][Next]_vars

-----------------------------------------------------------------------------
(* Fairness: what the code's scheduling guarantees.                        *)
(* Connecting ends within CONNECT_PHASE_TIMEOUT; a worker's loop selects   *)
(* fairly, so a command or a closed channel is noticed although events     *)
(* keep arriving; a blocking call has a timeout; the app polls every 750   *)
(* ms, and gets the session lock although other calls take it in between.  *)
(* Users, the network and the server promise nothing.                      *)

Connects(w) == ConnectSucceeds(w) \/ ConnectFails(w)
ServesCommands(w) == \/ CommandWhileConnecting(w) \/ HandleDropped(w)
                     \/ WorkerSend(w) \/ WorkerDisconnect(w)

Fairness == /\ \A w \in Workers : WF_vars(Connects(w)) /\ WF_vars(ServesCommands(w))
            /\ WF_vars(CallStep)
            /\ SF_vars(PollEvent)

FairSpec == Spec /\ Fairness

-----------------------------------------------------------------------------
(* Safety. *)

\* The outbox of an account drains in message order: once a message counts as
\* sent or delivered, so does every earlier message of the account.  Timeouts
\* leave sends behind in a worker's channel, and a receipt may promote a
\* message whose send was reported as failed (flush_outbox,
\* apply_delivery_update).
SentPrefix ==
  \A m, n \in Msgs :
    m < n /\ msgOf[m] = msgOf[n] /\ status[n] \in SentStates => status[m] \in SentStates

\* A message is shown as sent or delivered only if some worker did put it on
\* its stream: no answer to an earlier, timed-out send is mistaken for the
\* answer to a later one.
SentWasHandedOver == \A m \in Msgs : status[m] \in SentStates => m \in handed

\* A call that waits for an answer waits for a worker that still holds its
\* command, as the last one in the channel: no answer is ever lost, whatever
\* the worker does in the meantime (disconnect, send and run_worker).
AwaitedCommandIsQueued ==
  call.reply = "wait" =>
    LET w == call.worker IN
    /\ phase[w] \in {"connecting", "running"}
    /\ cmds[w] # <<>>
    /\ cmds[w][Len(cmds[w])] = IF call.op = "flush" THEN SendCmd(call.msg) ELSE DisconnectCmd

\* A deleted account keeps neither the transport's slot nor a message, even
\* when its worker outlives it and its events arrive late (delete_account).
DeletedLeavesNothing ==
  \A a \in Accounts : conn[a] = "Deleted" =>
    /\ tracked[a] = NoWorker
    /\ \A m \in Msgs : msgOf[m] = a => status[m] = "Absent"

-----------------------------------------------------------------------------
(* Liveness. *)

\* No account stays on "Connecting": whatever happens to the worker, to stale
\* events of its predecessors or to a failing disconnect, the attempt ends.
NeverStuckConnecting ==
  \A a \in Accounts : conn[a] = "Connecting" ~> conn[a] # "Connecting"

\* A worker whose handle was given up (retired, disconnected or deleted) ends:
\* no session is left behind that no one can close.
AbandonedWorkerExits ==
  \A w \in Workers : phase[w] # "unborn" /\ ~HandleHeld(w) ~> phase[w] = "exited"

\* Every foreign call gives the session lock back.
CallReturns == call.op # "idle" ~> LockFree

-----------------------------------------------------------------------------
(* What comments and release notes of the repository say, and the code does  *)
(* not do.                                                                   *)

\* "The worker emits its terminal event before returning from its Tokio loop.
\* Dropping an unfinished JoinHandle detaches only that exiting thread"
\* (retire_worker): a worker retired by next_event is one that has ended.
RetiresOnlyExiting ==
  [][\A a \in Accounts : PollEvent /\ tracked[a] # NoWorker /\ tracked'[a] = NoWorker
       => phase[tracked[a]] = "exited"]_vars

\* "a terminal event is guaranteed within CONNECT_PHASE_TIMEOUT" (run_worker):
\* a tracked worker that ended has left a Disconnected in the channel.
TerminalEventGuaranteed ==
  \A a \in Accounts : tracked[a] # NoWorker /\ phase[tracked[a]] = "exited" =>
    \E i \in 1..Len(events) : events[i].type = "Disconnected" /\ events[i].acct = a

\* "bounding stale-Online to ~3 minutes" (CHANGELOG, INBOUND_STALE_TIMEOUT):
\* an account that was projected offline and has no worker is not shown online
\* once the events have drained.
StaleOnlineEnds ==
  \A a \in Accounts : conn[a] = "Offline" /\ tracked[a] = NoWorker
                        ~> events = <<>> /\ (conn[a] # "Online" \/ tracked[a] # NoWorker)

=============================================================================
