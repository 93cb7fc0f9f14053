------------------------ MODULE TransportSessionProofs ------------------------
(***************************************************************************)
(* Proofs about TransportSession, for any accounts, any number of worker   *)
(* incarnations and messages, and any capacity of the channels.            *)
(*                                                                         *)
(* The outbox order and the hand-over property are not inductive: a send   *)
(* that timed out stays in a worker's channel, and a receipt for it may    *)
(* arrive long after.  The inductive invariant therefore says of every     *)
(* place a message can be (a channel, a stream, a receipt, the call in     *)
(* progress) that everything before it in its outbox has been sent.        *)
(***************************************************************************)
EXTENDS TransportSession, SequenceTheorems, TLAPS

\* Everything the account of m wrote before m is sent, unless it is deleted.
Settled(m) ==
  /\ m < nextMsg
  /\ conn[msgOf[m]] # "Deleted" =>
       \A k \in Msgs : k < m /\ msgOf[k] = msgOf[m] => status[k] \in SentStates

\* Messages exist from their allocation to the deletion of their account.
Stored ==
  \A m \in Msgs : /\ m >= nextMsg => status[m] = "Absent"
                  /\ m < nextMsg => (status[m] = "Absent" <=> conn[msgOf[m]] = "Deleted")

QueuedSettled ==
  \A w \in Workers : \A i \in 1..Len(cmds[w]) :
    cmds[w][i].op = "send" => cmds[w][i].msg \in Msgs /\ Settled(cmds[w][i].msg)

HandedSettled == \A m \in handed : Settled(m)

ReceiptsHanded ==
  \A i \in 1..Len(events) : events[i].type = "DeliveryUpdated" => events[i].msg \in handed

TrackedStarted ==
  \A a \in Accounts : tracked[a] # NoWorker => phase[tracked[a]] # "unborn" /\ conn[a] # "Deleted"

\* What the call that holds the lock relies on.
CallSound ==
  /\ call.op = "idle" => call.reply = "none"
  /\ call.reply = "wait" => call.worker # NoWorker
  /\ call.op # "idle" => conn[call.acct] # "Deleted"
  /\ call.op = "delete" => tracked[call.acct] = NoWorker
  /\ call.op = "flush" /\ call.reply # "none" =>
       /\ call.msg \in Msgs
       /\ call.sent < FlushMaxBatch
       /\ msgOf[call.msg] = call.acct
       /\ status[call.msg] \in Retryable
       /\ Settled(call.msg)
       /\ call.reply = "ok" => call.msg \in handed

IInv == /\ TypeOK
        /\ Stored
        /\ QueuedSettled
        /\ HandedSettled
        /\ ReceiptsHanded
        /\ TrackedStarted
        /\ CallSound
        /\ SentWasHandedOver
        /\ AwaitedCommandIsQueued

-----------------------------------------------------------------------------

USE SessionAssumption
    DEF Workers, Msgs, NoWorker, NoMsg, ConnectionState, DeliveryState, SentStates,
        Retryable, Phase, Command, SendCmd, DisconnectCmd, Event, Connected, Disconnected,
        DeliveryUpdated, Call, LockFree, Known, Alive

\* The idle call is a call.
LEMMA NoCallTyped == NoCall \in Call /\ NoCall.op = "idle" /\ NoCall.reply = "none"
  BY DEF NoCall

LEMMA InitIInv == Init => IInv
<1> SUFFICES ASSUME Init PROVE IInv
  OBVIOUS
<1> USE NoCallTyped DEF Init
<1>1. TypeOK
  BY DEF TypeOK, NoCall
<1>2. Stored /\ QueuedSettled /\ HandedSettled /\ ReceiptsHanded
  BY DEF Stored, QueuedSettled, HandedSettled, ReceiptsHanded
<1>3. TrackedStarted /\ CallSound /\ SentWasHandedOver /\ AwaitedCommandIsQueued
  BY DEF TrackedStarted, CallSound, SentWasHandedOver, AwaitedCommandIsQueued, NoCall
<1> QED
  BY <1>1, <1>2, <1>3 DEF IInv

\* What a step may do to the outboxes without disturbing Settled: ids only
\* grow, sent messages stay sent while their account exists, and a deleted
\* account stays deleted.
Forward ==
  /\ nextMsg <= nextMsg'
  /\ \A k \in Msgs : k < nextMsg =>
       /\ msgOf'[k] = msgOf[k]
       /\ status[k] \in SentStates /\ conn'[msgOf[k]] # "Deleted" => status'[k] \in SentStates
  /\ \A a \in Accounts : conn[a] = "Deleted" => conn'[a] = "Deleted"

LEMMA SettledStable ==
  ASSUME TypeOK, TypeOK', Forward, NEW m \in Msgs, Settled(m)
  PROVE  Settled(m)'
  BY DEF TypeOK, Forward, Settled

LEMMA UnchangedForward ==
  ASSUME TypeOK, UNCHANGED <<conn, msgVars>>
  PROVE  Forward
  BY DEF TypeOK, Forward, msgVars

-----------------------------------------------------------------------------
(* Worker steps: no worker writes the core's messages or connection states. *)

\* What every worker step keeps, whether or not it puts a stanza on a stream.
LEMMA CoreKept ==
  ASSUME IInv, TypeOK', UNCHANGED <<conn, msgVars>>, handed' = handed
  PROVE  /\ Stored' /\ HandedSettled' /\ SentWasHandedOver'
         /\ \A m \in Msgs : Settled(m)' <=> Settled(m)
<1>1. \A m \in Msgs : Settled(m)' <=> Settled(m)
  BY DEF Settled, msgVars
<1>2. Stored' /\ SentWasHandedOver'
  BY DEF IInv, Stored, SentWasHandedOver, msgVars
<1>3. HandedSettled'
  BY <1>1 DEF IInv, HandedSettled, TypeOK
<1> QED
  BY <1>1, <1>2, <1>3

\* An answer changes nothing but the answer.
LEMMA AnswerFields ==
  ASSUME call \in Call, NEW r \in {"ok", "err"}, call' = [call EXCEPT !.reply = r]
  PROVE  /\ call' \in Call /\ call'.reply = r
         /\ call'.op = call.op /\ call'.acct = call.acct /\ call'.worker = call.worker
         /\ call'.msg = call.msg /\ call'.sent = call.sent
  OBVIOUS

LEMMA LastReplyFields ==
  ASSUME TypeOK, NEW w \in Workers, NEW r \in {"ok", "err"}, LastReply(w, r)
  PROVE  /\ call' \in Call
         /\ call'.op = call.op /\ call'.acct = call.acct /\ call'.worker = call.worker
         /\ call'.msg = call.msg /\ call'.sent = call.sent
         /\ \/ Awaits(w) /\ Len(cmds[w]) = 1 /\ call'.reply = r
            \/ Awaits(w) /\ Len(cmds[w]) # 1 /\ call'.reply = "err"
            \/ ~Awaits(w) /\ call'.reply = call.reply
<1> USE DEF LastReply
<1>0. call \in Call
  BY DEF TypeOK
<1>1. CASE Awaits(w) /\ call' = [call EXCEPT !.reply = r] /\ Len(cmds[w]) = 1
  BY <1>0, <1>1, AnswerFields
<1>2. CASE Awaits(w) /\ call' = [call EXCEPT !.reply = "err"] /\ Len(cmds[w]) # 1
  BY <1>0, <1>2, AnswerFields
<1>3. CASE ~Awaits(w) /\ UNCHANGED call
  BY <1>0, <1>3
<1> QED
  BY <1>1, <1>2, <1>3

LEMMA LeaveLoopTyped ==
  ASSUME TypeOK, NEW w \in Workers, NEW r \in {"ok", "err"}, LeaveLoop(w), LastReply(w, r),
         UNCHANGED <<conn, tracked, msgVars, handed>>, events' \in Seq(Event)
  PROVE  TypeOK'
<1>1. call' \in Call
  BY LastReplyFields
<1>2. /\ owner' \in [Workers -> Accounts] /\ phase' \in [Workers -> Phase]
      /\ live' \in [Workers -> BOOLEAN] /\ cmds' \in [Workers -> Seq(Command)]
  <2>1. owner' \in [Workers -> Accounts]
    BY DEF TypeOK, LeaveLoop
  <2>2. phase' \in [Workers -> Phase]
    BY DEF TypeOK, LeaveLoop
  <2>3. live' \in [Workers -> BOOLEAN]
    BY DEF TypeOK, LeaveLoop
  <2>4. cmds' \in [Workers -> Seq(Command)]
    <3>1. cmds \in [Workers -> Seq(Command)] /\ cmds' = [cmds EXCEPT ![w] = <<>>]
      BY DEF TypeOK, LeaveLoop
    <3>2. <<>> \in Seq(Command)
      OBVIOUS
    <3> QED
      BY <3>1, <3>2
  <2> QED
    BY <2>1, <2>2, <2>3, <2>4
<1>3. /\ conn' \in [Accounts -> ConnectionState \cup {"Deleted"}]
      /\ tracked' \in [Accounts -> Workers \cup {NoWorker}]
      /\ status' \in [Msgs -> DeliveryState \cup {"Absent"}]
      /\ msgOf' \in [Msgs -> Accounts] /\ nextMsg' \in 1..(MaxMsgs + 1)
      /\ handed' \in SUBSET Msgs
  BY DEF TypeOK, msgVars
<1> QED
  BY <1>1, <1>2, <1>3, Zenon DEF TypeOK

\* A worker that leaves its loop answers the call that waits for it and drops
\* the commands it still held.
LEMMA LeaveLoopSound ==
  ASSUME IInv, TypeOK', UNCHANGED <<conn, tracked, msgVars, handed>>,
         NEW w \in Workers, NEW r \in {"ok", "err"},
         phase[w] \in {"connecting", "running"}, LeaveLoop(w), LastReply(w, r),
         call.op = "flush" /\ Awaits(w) /\ Len(cmds[w]) = 1 => r = "err"
  PROVE  QueuedSettled' /\ TrackedStarted' /\ CallSound' /\ AwaitedCommandIsQueued'
<1>0. \A m \in Msgs : Settled(m)' <=> Settled(m)
  BY CoreKept
<1>1. /\ cmds'[w] = <<>> /\ phase'[w] = "exited"
      /\ \A v \in Workers : v # w => cmds'[v] = cmds[v] /\ phase'[v] = phase[v]
  BY DEF IInv, TypeOK, LeaveLoop
<1>2. QueuedSettled'
  <2> SUFFICES ASSUME NEW v \in Workers, NEW i \in 1..Len(cmds'[v]), cmds'[v][i].op = "send"
               PROVE  (cmds[v][i].msg \in Msgs /\ Settled(cmds[v][i].msg))'
    BY DEF QueuedSettled
  <2>1. cmds'[v] = cmds[v]
    BY <1>1
  <2> QED
    BY <1>0, <2>1 DEF IInv, QueuedSettled
<1>3. TrackedStarted'
  BY <1>1 DEF IInv, TypeOK, TrackedStarted
<1>4. /\ call'.op = call.op /\ call'.acct = call.acct /\ call'.worker = call.worker
      /\ call'.msg = call.msg /\ call'.sent = call.sent
      /\ \/ Awaits(w) /\ (call'.reply = "err" \/ (call'.reply = r /\ Len(cmds[w]) = 1))
         \/ ~Awaits(w) /\ call'.reply = call.reply
  <2>1. TypeOK
    BY DEF IInv
  <2> QED
    BY <2>1, LastReplyFields
<1>5. CallSound'
  <2>1. CallSound
    BY DEF IInv
  <2>2. CASE call.op = "flush" /\ call'.reply # "none"
    BY <1>0, <1>4, <2>1, <2>2 DEF CallSound, msgVars, Awaits
  <2>3. CASE ~(call.op = "flush" /\ call'.reply # "none")
    BY <1>4, <2>1, <2>3 DEF CallSound, Awaits
  <2> QED
    BY <2>2, <2>3
<1>6. AwaitedCommandIsQueued'
  <2> SUFFICES ASSUME call'.reply = "wait" PROVE AwaitedCommandIsQueued'
    BY DEF AwaitedCommandIsQueued
  <2>1. call.reply = "wait" /\ AwaitedCommandIsQueued /\ call.worker # w
    BY <1>4 DEF IInv, Awaits
  <2>2. call.worker \in Workers
    BY <2>1 DEF IInv, TypeOK, CallSound
  <2> QED
    BY <1>1, <1>4, <2>1, <2>2 DEF AwaitedCommandIsQueued
<1> QED
  BY <1>2, <1>3, <1>5, <1>6

LEMMA CommandWhileConnectingInv ==
  ASSUME IInv, NEW w \in Workers, CommandWhileConnecting(w)
  PROVE  IInv'
<1> PICK r \in {"ok", "err"} : /\ LastReply(w, r)
                               /\ r = "ok" => Head(cmds[w]).op = "disconnect"
  BY DEF CommandWhileConnecting
<1>1. phase[w] = "connecting" /\ LeaveLoop(w) /\ UNCHANGED <<conn, tracked, events, msgVars, handed>>
  BY DEF CommandWhileConnecting
<1>2. TypeOK'
  <2>1. TypeOK /\ events' \in Seq(Event)
    BY <1>1 DEF IInv, TypeOK
  <2> QED
    BY <1>1, <2>1, LeaveLoopTyped
<1>3. call.op = "flush" /\ Awaits(w) /\ Len(cmds[w]) = 1 => Head(cmds[w]).op = "send"
  BY DEF IInv, TypeOK, AwaitedCommandIsQueued, Awaits
<1>4. QueuedSettled' /\ TrackedStarted' /\ CallSound' /\ AwaitedCommandIsQueued'
  BY <1>1, <1>2, <1>3, LeaveLoopSound
<1>5. ReceiptsHanded'
  BY <1>1 DEF IInv, ReceiptsHanded
<1> QED
  BY <1>1, <1>2, <1>4, <1>5, CoreKept DEF IInv

LEMMA HandleDroppedInv ==
  ASSUME IInv, NEW w \in Workers, HandleDropped(w)
  PROVE  IInv'
<1> USE DEF HandleDropped
<1>1. TypeOK'
  BY DEF IInv, TypeOK, LeaveLoop, msgVars
<1>2. ~Awaits(w)
  BY DEF IInv, TypeOK, AwaitedCommandIsQueued, Awaits
<1>3. LastReply(w, "err")
  BY <1>2 DEF LastReply
<1>4. QueuedSettled' /\ TrackedStarted' /\ CallSound' /\ AwaitedCommandIsQueued'
  BY <1>1, <1>3, LeaveLoopSound
<1>5. ReceiptsHanded'
  BY DEF IInv, ReceiptsHanded
<1> QED
  BY <1>1, <1>4, <1>5, CoreKept DEF IInv

\* Sending an event of another kind disturbs nothing but the channel.
LEMMA EmitSound ==
  ASSUME IInv, NEW e \in Event, Emit(e), UNCHANGED handed,
         e.type = "DeliveryUpdated" => e.msg \in handed
  PROVE  ReceiptsHanded' /\ events' \in Seq(Event)
<1>1. events \in Seq(Event) /\ events' = Append(events, e)
  BY DEF IInv, TypeOK, Emit
<1>2. events' \in Seq(Event)
  BY <1>1
<1>3. \A i \in 1..Len(events') : events'[i] = e \/ (i \in 1..Len(events) /\ events'[i] = events[i])
  BY <1>1
<1>4. ReceiptsHanded'
  BY <1>3 DEF IInv, ReceiptsHanded
<1> QED
  BY <1>2, <1>4

\* A worker that only reports what it saw of its stream.
LEMMA ReportInv ==
  ASSUME IInv, TypeOK', NEW w \in Workers, phase[w] \in {"connecting", "running"},
         UNCHANGED <<conn, tracked, owner, cmds, call, msgVars, handed>>,
         phase' \in {phase, [phase EXCEPT ![w] = "running"]}, ReceiptsHanded'
  PROVE  IInv'
<1>1. \A m \in Msgs : Settled(m)' <=> Settled(m)
  BY CoreKept
<1>2. QueuedSettled'
  BY <1>1 DEF IInv, QueuedSettled
<1>3. phase' = phase \/ (phase'[w] = "running" /\ \A v \in Workers : v # w => phase'[v] = phase[v])
  BY DEF IInv, TypeOK
<1>4. TrackedStarted'
  BY <1>3 DEF IInv, TypeOK, TrackedStarted
<1>5. CallSound'
  BY <1>1 DEF IInv, CallSound, msgVars
<1>6. AwaitedCommandIsQueued'
  <2>1. call.reply = "wait" => call.worker \in Workers
    BY DEF IInv, TypeOK, CallSound
  <2> QED
    BY <1>3, <2>1 DEF IInv, AwaitedCommandIsQueued
<1> QED
  BY <1>2, <1>4, <1>5, <1>6, CoreKept DEF IInv

LEMMA ConnectSucceedsInv ==
  ASSUME IInv, NEW w \in Workers, ConnectSucceeds(w)
  PROVE  IInv'
<1>1. Connected(owner[w]) \in Event
  BY DEF IInv, TypeOK
<1>2. ReceiptsHanded' /\ events' \in Seq(Event)
  BY <1>1, EmitSound DEF ConnectSucceeds, msgVars
<1>3. TypeOK'
  BY <1>2 DEF IInv, TypeOK, ConnectSucceeds, msgVars
<1> QED
  BY <1>2, <1>3, ReportInv DEF ConnectSucceeds, msgVars

LEMMA SessionRestoredInv ==
  ASSUME IInv, NEW w \in Workers, SessionRestored(w)
  PROVE  IInv'
<1>1. Connected(owner[w]) \in Event
  BY DEF IInv, TypeOK
<1>2. ReceiptsHanded' /\ events' \in Seq(Event)
  BY <1>1, EmitSound DEF SessionRestored, msgVars
<1>3. TypeOK'
  BY <1>2 DEF IInv, TypeOK, SessionRestored, msgVars
<1> QED
  BY <1>2, <1>3, ReportInv DEF SessionRestored, msgVars

LEMMA LossKeptInv ==
  ASSUME IInv, NEW w \in Workers, LossKept(w)
  PROVE  IInv'
<1>1. Disconnected(owner[w], TRUE) \in Event
  BY DEF IInv, TypeOK
<1>2. ReceiptsHanded' /\ events' \in Seq(Event)
  BY <1>1, EmitSound DEF LossKept, msgVars
<1>3. TypeOK'
  BY <1>2 DEF IInv, TypeOK, LossKept, msgVars
<1> QED
  BY <1>2, <1>3, ReportInv DEF LossKept, msgVars

LEMMA ReceiptArrivesInv ==
  ASSUME IInv, NEW w \in Workers, ReceiptArrives(w)
  PROVE  IInv'
<1>1. PICK m \in handed : Emit(DeliveryUpdated(owner[w], m))
  BY DEF ReceiptArrives
<1>2. DeliveryUpdated(owner[w], m) \in Event
  BY DEF IInv, TypeOK
<1>3. ReceiptsHanded' /\ events' \in Seq(Event)
  BY <1>1, <1>2, EmitSound DEF ReceiptArrives, msgVars
<1>4. TypeOK'
  BY <1>3 DEF IInv, TypeOK, ReceiptArrives, msgVars, workerVars
<1> QED
  BY <1>3, <1>4, ReportInv DEF ReceiptArrives, msgVars, workerVars

\* A worker that ends with a report.
LEMMA StopInv ==
  ASSUME IInv, NEW w \in Workers, ConnectFails(w) \/ LossStops(w)
  PROVE  IInv'
<1>1. /\ phase[w] \in {"connecting", "running"} /\ LeaveLoop(w) /\ LastReply(w, "err")
      /\ UNCHANGED <<conn, tracked, msgVars, handed>>
      /\ \E rec \in BOOLEAN : Emit(Disconnected(owner[w], rec))
  BY DEF ConnectFails, LossStops
<1>2. PICK rec \in BOOLEAN : Emit(Disconnected(owner[w], rec))
  BY <1>1
<1>3. Disconnected(owner[w], rec) \in Event
  BY DEF IInv, TypeOK
<1>4. ReceiptsHanded' /\ events' \in Seq(Event)
  BY <1>1, <1>2, <1>3, EmitSound
<1>5. TypeOK /\ TypeOK'
  BY <1>1, <1>4, LeaveLoopTyped DEF IInv
<1>6. QueuedSettled' /\ TrackedStarted' /\ CallSound' /\ AwaitedCommandIsQueued'
  BY <1>1, <1>5, LeaveLoopSound
<1> QED
  BY <1>1, <1>4, <1>5, <1>6, CoreKept DEF IInv

LEMMA WorkerDisconnectInv ==
  ASSUME IInv, NEW w \in Workers, WorkerDisconnect(w)
  PROVE  IInv'
<1> PICK r \in {"ok", "err"} : LastReply(w, r)
  BY DEF WorkerDisconnect
<1>1. /\ phase[w] = "running" /\ LeaveLoop(w) /\ Head(cmds[w]).op = "disconnect"
      /\ UNCHANGED <<conn, tracked, events, msgVars, handed>>
  BY DEF WorkerDisconnect
<1>2. TypeOK'
  <2>1. TypeOK /\ events' \in Seq(Event)
    BY <1>1 DEF IInv, TypeOK
  <2> QED
    BY <1>1, <2>1, LeaveLoopTyped
<1>3. call.op = "flush" /\ Awaits(w) /\ Len(cmds[w]) = 1 => Head(cmds[w]).op = "send"
  BY DEF IInv, TypeOK, AwaitedCommandIsQueued, Awaits
<1>4. QueuedSettled' /\ TrackedStarted' /\ CallSound' /\ AwaitedCommandIsQueued'
  BY <1>1, <1>2, <1>3, LeaveLoopSound
<1>5. ReceiptsHanded'
  BY <1>1 DEF IInv, ReceiptsHanded
<1> QED
  BY <1>1, <1>2, <1>4, <1>5, CoreKept DEF IInv

LEMMA ReplyFields ==
  ASSUME TypeOK, NEW w \in Workers, NEW r \in {"ok", "err"}, Reply(w, r)
  PROVE  /\ call' \in Call
         /\ call'.op = call.op /\ call'.acct = call.acct /\ call'.worker = call.worker
         /\ call'.msg = call.msg /\ call'.sent = call.sent
         /\ \/ Awaits(w) /\ Len(cmds[w]) = 1 /\ call'.reply = r
            \/ ~(Awaits(w) /\ Len(cmds[w]) = 1) /\ call'.reply = call.reply
<1>0. call \in Call
  BY DEF TypeOK
<1>1. CASE Awaits(w) /\ Len(cmds[w]) = 1 /\ call' = [call EXCEPT !.reply = r]
  BY <1>0, <1>1, AnswerFields
<1>2. CASE ~(Awaits(w) /\ Len(cmds[w]) = 1) /\ UNCHANGED call
  BY <1>0, <1>2
<1> QED
  BY <1>1, <1>2 DEF Reply

\* A queue of two or more keeps its last element when it is served.
LEMMA LongTail ==
  ASSUME NEW q \in Seq(Command), q # <<>>, Len(q) # 1
  PROVE  Tail(q) # <<>> /\ Tail(q)[Len(Tail(q))] = q[Len(q)]
<1>0. Len(<<>>) = 0 /\ Len(q) \in Nat \ {0}
  BY EmptySeq, Zenon
<1>1. Len(q) \in Nat /\ Len(q) >= 2
  BY <1>0
<1>2. Len(Tail(q)) = Len(q) - 1 /\ \A i \in 1..Len(Tail(q)) : Tail(q)[i] = q[i + 1]
  BY HeadTailProperties
<1>3. Tail(q)[Len(Tail(q))] = q[Len(Tail(q)) + 1]
  BY <1>1, <1>2
<1> QED
  <2>1. Len(Tail(q)) # Len(<<>>)
    BY <1>0, <1>1, <1>2
  <2>2. Len(Tail(q)) + 1 = Len(q)
    BY <1>1, <1>2
  <2> QED
    BY <1>3, <2>1, <2>2

\* The loop takes a send off the channel: the answer goes to the call that put
\* it there, or to nobody.
LEMMA WorkerSendInv ==
  ASSUME IInv, NEW w \in Workers, WorkerSend(w)
  PROVE  IInv'
<1> DEFINE m == Head(cmds[w]).msg
<1>1. /\ phase[w] = "running" /\ cmds[w] # <<>> /\ Head(cmds[w]).op = "send"
      /\ cmds' = [cmds EXCEPT ![w] = Tail(@)]
      /\ UNCHANGED <<conn, tracked, owner, phase, live, events, msgVars>>
  BY DEF WorkerSend
<1>2. PICK r \in {"ok", "err"} : /\ Reply(w, r)
                                 /\ handed' = handed \cup {m} \/ (r = "err" /\ handed' = handed)
  BY DEF WorkerSend
<1> HIDE DEF m
<1>3. TypeOK /\ cmds[w] \in Seq(Command)
  BY DEF IInv, TypeOK
<1>4. m \in Msgs /\ Settled(m) /\ cmds[w][1].msg = m
  BY <1>1, <1>3 DEF IInv, QueuedSettled, m
<1>5. \A k \in Msgs : Settled(k)' <=> Settled(k)
  BY <1>1 DEF Settled, msgVars
<1>6. /\ Len(Tail(cmds[w])) = Len(cmds[w]) - 1 /\ Tail(cmds[w]) \in Seq(Command)
      /\ \A i \in 1..Len(Tail(cmds[w])) :
           i + 1 \in 1..Len(cmds[w]) /\ Tail(cmds[w])[i] = cmds[w][i + 1]
  BY <1>1, <1>3
<1>7. cmds'[w] = Tail(cmds[w]) /\ \A v \in Workers : v # w => cmds'[v] = cmds[v]
  BY <1>1, <1>3 DEF TypeOK
<1>8. /\ call' \in Call
      /\ call'.op = call.op /\ call'.acct = call.acct /\ call'.worker = call.worker
      /\ call'.msg = call.msg /\ call'.sent = call.sent
      /\ \/ Awaits(w) /\ Len(cmds[w]) = 1 /\ call'.reply = r
         \/ ~(Awaits(w) /\ Len(cmds[w]) = 1) /\ call'.reply = call.reply
  BY <1>2, <1>3, ReplyFields
<1>9. TypeOK'
  <2>1. cmds' \in [Workers -> Seq(Command)]
    BY <1>1, <1>3, <1>6 DEF TypeOK
  <2>2. handed' \in SUBSET Msgs
    <3>1. handed \in SUBSET Msgs /\ handed' \subseteq handed \cup {m}
      BY <1>2, <1>3 DEF TypeOK
    <3> QED
      BY <1>4, <3>1
  <2> QED
    BY <1>1, <1>3, <1>8, <2>1, <2>2, Zenon DEF TypeOK, msgVars
<1>10. QueuedSettled'
  <2> SUFFICES ASSUME NEW v \in Workers, NEW i \in 1..Len(cmds'[v]), cmds'[v][i].op = "send"
               PROVE  (cmds[v][i].msg \in Msgs /\ Settled(cmds[v][i].msg))'
    BY DEF QueuedSettled
  <2>1. CASE v # w
    BY <1>5, <1>7, <2>1 DEF IInv, QueuedSettled
  <2>2. CASE v = w
    <3>1. cmds'[v][i] = cmds[w][i + 1] /\ i + 1 \in 1..Len(cmds[w])
      BY <1>6, <1>7, <2>2
    <3>2. cmds[w][i + 1].msg \in Msgs /\ Settled(cmds[w][i + 1].msg)
      BY <3>1 DEF IInv, QueuedSettled
    <3> QED
      BY <1>5, <3>1, <3>2
  <2> QED
    BY <2>1, <2>2
<1>11. HandedSettled' /\ ReceiptsHanded' /\ SentWasHandedOver'
  <2>1. handed \subseteq handed' /\ handed' \subseteq handed \cup {m}
    BY <1>2
  <2>2. HandedSettled'
    BY <1>3, <1>4, <1>5, <2>1 DEF IInv, TypeOK, HandedSettled
  <2>3. ReceiptsHanded' /\ SentWasHandedOver'
    BY <1>1, <2>1 DEF IInv, ReceiptsHanded, SentWasHandedOver, msgVars
  <2> QED
    BY <2>2, <2>3
<1>12. CallSound'
  <2>1. CallSound
    BY DEF IInv
  <2>2. CASE Awaits(w) /\ Len(cmds[w]) = 1 /\ call.op = "flush"
    <3>1. m = call.msg
      BY <1>1, <1>4, <2>2 DEF IInv, AwaitedCommandIsQueued, Awaits
    <3>2. call'.reply = r /\ (r = "ok" => call.msg \in handed')
      BY <1>2, <1>8, <2>2, <3>1
    <3> QED
      BY <1>1, <1>5, <1>8, <2>1, <2>2, <3>2 DEF CallSound, msgVars, Awaits
  <2>3. CASE Awaits(w) /\ Len(cmds[w]) = 1 /\ call.op # "flush"
    BY <1>1, <1>8, <2>1, <2>3 DEF CallSound, Awaits
  <2>4. CASE ~(Awaits(w) /\ Len(cmds[w]) = 1)
    <3>1. call.msg \in handed => call.msg \in handed'
      BY <1>2
    <3> QED
      BY <1>1, <1>5, <1>8, <2>1, <2>4, <3>1 DEF CallSound, msgVars
  <2> QED
    BY <2>2, <2>3, <2>4
<1>13. AwaitedCommandIsQueued'
  <2> SUFFICES ASSUME call'.reply = "wait" PROVE AwaitedCommandIsQueued'
    BY DEF AwaitedCommandIsQueued
  <2>1. call.reply = "wait" /\ call.worker \in Workers /\ (call.worker = w => Len(cmds[w]) # 1)
    BY <1>2, <1>8 DEF IInv, TypeOK, CallSound, Awaits
  <2>2. CASE call.worker # w
    BY <1>1, <1>7, <1>8, <2>1, <2>2 DEF IInv, AwaitedCommandIsQueued
  <2>3. CASE call.worker = w
    <3>1. /\ Tail(cmds[w]) # <<>>
          /\ Tail(cmds[w])[Len(Tail(cmds[w]))] = cmds[w][Len(cmds[w])]
      BY <1>1, <1>3, <2>1, <2>3, LongTail
    <3> QED
      BY <1>1, <1>7, <1>8, <2>1, <2>3, <3>1 DEF IInv, AwaitedCommandIsQueued
  <2> QED
    BY <2>2, <2>3
<1>14. Stored' /\ TrackedStarted'
  BY <1>1 DEF IInv, Stored, TrackedStarted, msgVars
<1> QED
  BY <1>9, <1>10, <1>11, <1>12, <1>13, <1>14 DEF IInv

-----------------------------------------------------------------------------
(* Session steps. *)

LEMMA FreeLock ==
  ASSUME IInv, LockFree, UNCHANGED call
  PROVE  CallSound' /\ AwaitedCommandIsQueued'
<1>1. call.op = "idle" /\ call.reply = "none"
  BY DEF IInv, CallSound
<1> QED
  BY <1>1 DEF CallSound, AwaitedCommandIsQueued

LEMMA ReturnedCall ==
  ASSUME call' = NoCall
  PROVE  call' \in Call /\ CallSound' /\ AwaitedCommandIsQueued'
<1>1. call'.op = "idle" /\ call'.reply = "none" /\ call' \in Call
  BY NoCallTyped
<1> QED
  BY <1>1 DEF CallSound, AwaitedCommandIsQueued

\* A step that moves the outboxes forward keeps every message settled wherever
\* it already is.
LEMMA ForwardKeeps ==
  ASSUME IInv, TypeOK', Forward, handed' = handed
  PROVE  /\ \A m \in Msgs : Settled(m) => Settled(m)'
         /\ HandedSettled'
         /\ cmds' = cmds => QueuedSettled'
<1>1. TypeOK
  BY DEF IInv
<1>2. \A m \in Msgs : Settled(m) => Settled(m)'
  BY <1>1, SettledStable
<1>3. HandedSettled'
  BY <1>1, <1>2 DEF IInv, HandedSettled, TypeOK
<1>4. ASSUME cmds' = cmds PROVE QueuedSettled'
  BY <1>2, <1>4 DEF IInv, QueuedSettled
<1> QED
  BY <1>2, <1>3, <1>4

LEMMA ConnectInv ==
  ASSUME IInv, NEW a \in Accounts, Connect(a)
  PROVE  IInv'
<1>0. /\ TypeOK /\ LockFree /\ conn[a] # "Deleted"
      /\ UNCHANGED <<live, cmds, events, call, msgVars, handed>>
  BY DEF IInv, Connect, workerVars
<1>1. PICK s \in {"Failed", "Connecting"} : conn' = [conn EXCEPT ![a] = s]
  BY DEF Connect
<1>2. \/ UNCHANGED <<tracked, owner, phase>>
      \/ \E w \in Workers : /\ tracked' = [tracked EXCEPT ![a] = w]
                            /\ owner' = [owner EXCEPT ![w] = a]
                            /\ phase' = [phase EXCEPT ![w] = "connecting"]
  BY DEF Connect, workerVars
<1>3. TypeOK'
  <2>1. conn' \in [Accounts -> ConnectionState \cup {"Deleted"}]
    BY <1>0, <1>1 DEF TypeOK
  <2>2. /\ tracked' \in [Accounts -> Workers \cup {NoWorker}]
        /\ owner' \in [Workers -> Accounts] /\ phase' \in [Workers -> Phase]
    <3>1. CASE UNCHANGED <<tracked, owner, phase>>
      BY <1>0, <3>1 DEF TypeOK
    <3>2. ASSUME NEW w \in Workers, tracked' = [tracked EXCEPT ![a] = w],
                 owner' = [owner EXCEPT ![w] = a], phase' = [phase EXCEPT ![w] = "connecting"]
          PROVE  /\ tracked' \in [Accounts -> Workers \cup {NoWorker}]
                 /\ owner' \in [Workers -> Accounts] /\ phase' \in [Workers -> Phase]
      BY <1>0, <3>2 DEF TypeOK
    <3> QED
      BY <1>2, <3>1, <3>2
  <2> QED
    BY <1>0, <2>1, <2>2 DEF TypeOK, msgVars
<1>4. \A b \in Accounts : conn'[b] = "Deleted" <=> conn[b] = "Deleted"
  BY <1>0, <1>1 DEF TypeOK
<1>5. Forward
  BY <1>0, <1>4 DEF TypeOK, Forward, msgVars
<1>6. Stored' /\ SentWasHandedOver' /\ ReceiptsHanded'
  BY <1>0, <1>4 DEF IInv, TypeOK, Stored, SentWasHandedOver, ReceiptsHanded, msgVars
<1>7. TrackedStarted'
  <2>1. CASE UNCHANGED <<tracked, owner, phase>>
    BY <1>0, <1>4, <2>1 DEF IInv, TrackedStarted
  <2>2. ASSUME NEW w \in Workers, tracked' = [tracked EXCEPT ![a] = w],
               phase' = [phase EXCEPT ![w] = "connecting"]
        PROVE  TrackedStarted'
    BY <1>0, <1>4, <2>2 DEF IInv, TypeOK, TrackedStarted
  <2> QED
    BY <1>2, <2>1, <2>2
<1> QED
  BY <1>0, <1>3, <1>5, <1>6, <1>7, ForwardKeeps, FreeLock DEF IInv

LEMMA SendTextInv ==
  ASSUME IInv, NEW a \in Accounts, SendText(a)
  PROVE  IInv'
<1>0. /\ TypeOK /\ LockFree /\ conn[a] # "Deleted" /\ nextMsg \in Msgs
      /\ status' = [status EXCEPT ![nextMsg] = "Pending"]
      /\ msgOf' = [msgOf EXCEPT ![nextMsg] = a]
      /\ nextMsg' = nextMsg + 1
      /\ UNCHANGED <<conn, tracked, owner, phase, live, cmds, events, call, handed>>
  BY DEF IInv, SendText, workerVars
<1>1. TypeOK'
  <2>1. nextMsg' \in 1..(MaxMsgs + 1)
    BY <1>0 DEF TypeOK
  <2>2. status' \in [Msgs -> DeliveryState \cup {"Absent"}] /\ msgOf' \in [Msgs -> Accounts]
    BY <1>0 DEF TypeOK
  <2> QED
    BY <1>0, <2>1, <2>2 DEF TypeOK
<1>2. \A k \in Msgs : k # nextMsg => status'[k] = status[k] /\ msgOf'[k] = msgOf[k]
  BY <1>0 DEF TypeOK
<1>3. status'[nextMsg] = "Pending" /\ msgOf'[nextMsg] = a
  BY <1>0 DEF TypeOK
<1>4. Forward
  BY <1>0, <1>2 DEF TypeOK, Forward
<1>5. Stored'
  BY <1>0, <1>2, <1>3 DEF IInv, TypeOK, Stored
<1>6. SentWasHandedOver' /\ ReceiptsHanded' /\ TrackedStarted'
  BY <1>0, <1>2, <1>3 DEF IInv, TypeOK, SentWasHandedOver, ReceiptsHanded, TrackedStarted
<1> QED
  BY <1>0, <1>1, <1>4, <1>5, <1>6, ForwardKeeps, FreeLock DEF IInv

\* A command is put at the end of a worker's channel.
LEMMA CommandQueued ==
  ASSUME IInv, NEW w \in Workers, NEW c \in Command, cmds' = [cmds EXCEPT ![w] = Append(@, c)],
         UNCHANGED <<conn, msgVars>>, c.op = "send" => c.msg \in Msgs /\ Settled(c.msg)
  PROVE  /\ cmds' \in [Workers -> Seq(Command)] /\ QueuedSettled'
         /\ cmds'[w] # <<>> /\ cmds'[w][Len(cmds'[w])] = c
<1>1. cmds \in [Workers -> Seq(Command)] /\ cmds[w] \in Seq(Command)
  BY DEF IInv, TypeOK
<1>2. /\ Append(cmds[w], c) \in Seq(Command) /\ Append(cmds[w], c) # <<>>
      /\ Len(cmds[w]) \in Nat /\ Len(Append(cmds[w], c)) = Len(cmds[w]) + 1
      /\ Append(cmds[w], c)[Len(cmds[w]) + 1] = c
      /\ \A i \in 1..Len(cmds[w]) : Append(cmds[w], c)[i] = cmds[w][i]
  BY <1>1, AppendProperties
<1>3. cmds'[w] = Append(cmds[w], c) /\ \A v \in Workers : v # w => cmds'[v] = cmds[v]
  BY <1>1
<1>4. cmds' \in [Workers -> Seq(Command)]
  BY <1>1, <1>2
<1>5. \A m \in Msgs : Settled(m)' <=> Settled(m)
  BY DEF Settled, msgVars
<1>6. QueuedSettled'
  <2> SUFFICES ASSUME NEW v \in Workers, NEW i \in 1..Len(cmds'[v]), cmds'[v][i].op = "send"
               PROVE  (cmds[v][i].msg \in Msgs /\ Settled(cmds[v][i].msg))'
    BY DEF QueuedSettled
  <2>1. CASE v # w
    BY <1>3, <1>5, <2>1 DEF IInv, QueuedSettled
  <2>2. CASE v = w /\ i = Len(cmds[w]) + 1
    BY <1>2, <1>3, <1>5, <2>2
  <2>3. CASE v = w /\ i # Len(cmds[w]) + 1
    <3>1. i \in 1..Len(cmds[w])
      BY <1>2, <1>3, <2>3
    <3>2. cmds'[v][i] = cmds[v][i]
      BY <1>2, <1>3, <2>3, <3>1
    <3> QED
      BY <1>5, <2>3, <3>1, <3>2 DEF IInv, QueuedSettled
  <2> QED
    BY <2>1, <2>2, <2>3
<1> QED
  BY <1>2, <1>3, <1>4, <1>6

\* The handle is given up and the close is awaited.
LEMMA BeginCloseSound ==
  ASSUME IInv, NEW a \in Accounts, NEW op \in {"disconnect", "delete"}, Known(a),
         tracked' = [tracked EXCEPT ![a] = NoWorker], BeginClose(a, op),
         UNCHANGED <<owner, phase, live, events, handed>>
  PROVE  IInv'
<1> DEFINE w == tracked[a]
<1>0. /\ TypeOK /\ phase[w] # "exited" /\ w \in Workers
      /\ cmds' = [cmds EXCEPT ![w] = Append(@, DisconnectCmd)]
      /\ UNCHANGED <<conn, msgVars>>
  BY DEF IInv, TypeOK, BeginClose
<1>1. phase[w] \in {"connecting", "running"}
  BY <1>0 DEF IInv, TypeOK, TrackedStarted
<1>2. /\ call' \in Call /\ call'.op = op /\ call'.acct = a /\ call'.worker = w
      /\ call'.reply = "wait"
  <2>1. call' = [NoCall EXCEPT !.op = op, !.acct = a, !.worker = w, !.reply = "wait"]
    BY DEF BeginClose
  <2>2. NoCall \in Call
    BY NoCallTyped
  <2> HIDE DEF w
  <2> QED
    BY <1>0, <2>1, <2>2
<1> HIDE DEF w
<1>3. /\ cmds' \in [Workers -> Seq(Command)] /\ QueuedSettled'
      /\ cmds'[w] # <<>> /\ cmds'[w][Len(cmds'[w])] = DisconnectCmd
  <2>1. DisconnectCmd \in Command /\ DisconnectCmd.op # "send"
    OBVIOUS
  <2> QED
    BY <1>0, <2>1, CommandQueued
<1>4. TypeOK'
  <2>1. tracked' \in [Accounts -> Workers \cup {NoWorker}]
    BY <1>0 DEF TypeOK
  <2> QED
    BY <1>0, <1>2, <1>3, <2>1, Zenon DEF TypeOK, msgVars
<1>5. tracked'[a] = NoWorker /\ \A b \in Accounts : b # a => tracked'[b] = tracked[b]
  BY <1>0 DEF TypeOK
<1>6. TrackedStarted' /\ ReceiptsHanded'
  BY <1>0, <1>5 DEF IInv, TrackedStarted, ReceiptsHanded
<1>7. CallSound'
  BY <1>0, <1>2, <1>5 DEF CallSound
<1>8. AwaitedCommandIsQueued'
  BY <1>1, <1>2, <1>3 DEF AwaitedCommandIsQueued
<1> QED
  BY <1>0, <1>3, <1>4, <1>6, <1>7, <1>8, CoreKept DEF IInv

LEMMA DisconnectInv ==
  ASSUME IInv, NEW a \in Accounts, Disconnect(a)
  PROVE  IInv'
<1>0. /\ TypeOK /\ LockFree /\ Known(a) /\ tracked' = [tracked EXCEPT ![a] = NoWorker]
      /\ UNCHANGED <<owner, phase, live, events, handed>>
  BY DEF IInv, Disconnect
<1>1. CASE BeginClose(a, "disconnect")
  BY <1>0, <1>1, BeginCloseSound
<1>2. CASE UNCHANGED <<conn, cmds, call, msgVars>>
  <2>1. TypeOK'
    BY <1>0, <1>2 DEF TypeOK, msgVars
  <2>2. Forward
    BY <1>0, <1>2, UnchangedForward
  <2>3. TrackedStarted' /\ ReceiptsHanded'
    BY <1>0, <1>2 DEF IInv, TypeOK, TrackedStarted, ReceiptsHanded
  <2> QED
    BY <1>0, <1>2, <2>1, <2>2, <2>3, ForwardKeeps, FreeLock, CoreKept DEF IInv
<1> QED
  BY <1>1, <1>2 DEF Disconnect

\* The account, its slot and its messages go together.
LEMMA RemoveAccountSound ==
  ASSUME IInv, NEW a \in Accounts, RemoveAccount(a), tracked' = [tracked EXCEPT ![a] = NoWorker],
         UNCHANGED <<workerVars, events, handed>>, call' \in Call,
         CallSound', AwaitedCommandIsQueued'
  PROVE  IInv'
<1>0. /\ TypeOK /\ conn' = [conn EXCEPT ![a] = "Deleted"]
      /\ status' = [m \in Msgs |-> IF msgOf[m] = a THEN "Absent" ELSE status[m]]
      /\ UNCHANGED <<msgOf, nextMsg, owner, phase, live, cmds, events, handed>>
  BY DEF IInv, RemoveAccount, workerVars
<1>1. TypeOK'
  BY <1>0 DEF TypeOK
<1>2. /\ conn'[a] = "Deleted" /\ tracked'[a] = NoWorker
      /\ \A b \in Accounts : b # a => conn'[b] = conn[b] /\ tracked'[b] = tracked[b]
      /\ \A m \in Msgs : status'[m] = IF msgOf[m] = a THEN "Absent" ELSE status[m]
      /\ \A m \in Msgs : msgOf[m] \in Accounts
  BY <1>0 DEF TypeOK
<1>3. Forward
  BY <1>0, <1>2 DEF TypeOK, Forward
<1>4. Stored'
  BY <1>0, <1>2 DEF IInv, Stored
<1>5. SentWasHandedOver' /\ ReceiptsHanded' /\ TrackedStarted'
  BY <1>0, <1>2 DEF IInv, SentWasHandedOver, ReceiptsHanded, TrackedStarted
<1> QED
  BY <1>0, <1>1, <1>3, <1>4, <1>5, ForwardKeeps DEF IInv

LEMMA DeleteAccountInv ==
  ASSUME IInv, NEW a \in Accounts, DeleteAccount(a)
  PROVE  IInv'
<1>0. /\ TypeOK /\ LockFree /\ Known(a) /\ tracked' = [tracked EXCEPT ![a] = NoWorker]
      /\ UNCHANGED <<owner, phase, live, events, handed>>
  BY DEF IInv, DeleteAccount
<1>1. CASE BeginClose(a, "delete")
  BY <1>0, <1>1, BeginCloseSound
<1>2. CASE RemoveAccount(a) /\ UNCHANGED <<cmds, call>>
  <2>1. call' \in Call
    BY <1>0, <1>2 DEF TypeOK
  <2> QED
    BY <1>0, <1>2, <2>1, RemoveAccountSound, FreeLock DEF workerVars
<1> QED
  BY <1>1, <1>2 DEF DeleteAccount

LEMMA DeleteReturnsInv ==
  ASSUME IInv, DeleteReturns
  PROVE  IInv'
<1>1. TypeOK /\ call.acct \in Accounts
  BY DEF IInv, TypeOK
<1>2. tracked' = [tracked EXCEPT ![call.acct] = NoWorker]
  BY <1>1 DEF IInv, TypeOK, CallSound, DeleteReturns
<1> QED
  BY <1>1, <1>2, RemoveAccountSound, ReturnedCall DEF DeleteReturns

LEMMA DisconnectReturnsInv ==
  ASSUME IInv, DisconnectReturns
  PROVE  IInv'
<1>0. /\ TypeOK /\ call.acct \in Accounts /\ conn[call.acct] # "Deleted" /\ call' = NoCall
      /\ conn' \in {conn, [conn EXCEPT ![call.acct] = "Offline"]}
      /\ UNCHANGED <<tracked, workerVars, events, msgVars, handed>>
  BY DEF IInv, TypeOK, CallSound, DisconnectReturns
<1>1. call' \in Call /\ CallSound' /\ AwaitedCommandIsQueued'
  BY <1>0, ReturnedCall
<1>2. conn' \in [Accounts -> ConnectionState \cup {"Deleted"}]
  BY <1>0 DEF TypeOK
<1>3. TypeOK'
  BY <1>0, <1>1, <1>2, Zenon DEF TypeOK, workerVars, msgVars
<1>4. \A b \in Accounts : conn'[b] = "Deleted" <=> conn[b] = "Deleted"
  BY <1>0 DEF TypeOK
<1>5. Forward
  BY <1>0, <1>4 DEF TypeOK, Forward, msgVars
<1>6. Stored' /\ SentWasHandedOver' /\ ReceiptsHanded' /\ TrackedStarted'
  BY <1>0, <1>4 DEF IInv, TypeOK, Stored, SentWasHandedOver, ReceiptsHanded, TrackedStarted,
                    msgVars, workerVars
<1> QED
  BY <1>0, <1>1, <1>3, <1>5, <1>6, ForwardKeeps DEF IInv, workerVars

\* A late answer is no answer.
LEMMA CallTimesOutInv ==
  ASSUME IInv, CallTimesOut
  PROVE  IInv'
<1>0. /\ TypeOK /\ call \in Call /\ call.reply = "wait" /\ call' = [call EXCEPT !.reply = "err"]
      /\ UNCHANGED <<conn, tracked, workerVars, events, msgVars, handed>>
  BY DEF IInv, TypeOK, CallTimesOut
<1>1. /\ call' \in Call /\ call'.reply = "err"
      /\ call'.op = call.op /\ call'.acct = call.acct /\ call'.worker = call.worker
      /\ call'.msg = call.msg /\ call'.sent = call.sent
  BY <1>0, AnswerFields
<1>2. TypeOK'
  BY <1>0, <1>1, Zenon DEF TypeOK, workerVars, msgVars
<1>3. Forward
  BY <1>0, UnchangedForward
<1>4. \A m \in Msgs : Settled(m)' <=> Settled(m)
  BY <1>0, <1>2, CoreKept
<1>5. CallSound' /\ AwaitedCommandIsQueued'
  BY <1>0, <1>1, <1>4 DEF IInv, CallSound, AwaitedCommandIsQueued, msgVars
<1>6. TrackedStarted' /\ ReceiptsHanded'
  BY <1>0 DEF IInv, TrackedStarted, ReceiptsHanded, workerVars
<1> QED
  BY <1>0, <1>2, <1>3, <1>5, <1>6, CoreKept, ForwardKeeps DEF IInv, workerVars

\* A new batch, or one that goes on after a send.
LEMMA BatchCall ==
  ASSUME NEW a \in Accounts, NEW n \in 0..FlushMaxBatch,
         call' = [NoCall EXCEPT !.op = "flush", !.acct = a, !.sent = n]
  PROVE  call' \in Call /\ call'.op = "flush" /\ call'.acct = a /\ call'.reply = "none"
  BY NoCallTyped

LEMMA FlushBeginsInv ==
  ASSUME IInv, NEW a \in Accounts, FlushBegins(a)
  PROVE  IInv'
<1>0. /\ TypeOK /\ conn[a] = "Online" /\ call' = [NoCall EXCEPT !.op = "flush", !.acct = a]
      /\ UNCHANGED <<conn, tracked, workerVars, events, msgVars, handed>>
  BY DEF IInv, FlushBegins
<1>1. call' \in Call /\ call'.op = "flush" /\ call'.acct = a /\ call'.reply = "none"
  BY <1>0, NoCallTyped
<1>2. TypeOK'
  BY <1>0, <1>1, Zenon DEF TypeOK, workerVars, msgVars
<1>3. Forward
  BY <1>0, UnchangedForward
<1>4. CallSound' /\ AwaitedCommandIsQueued'
  BY <1>0, <1>1 DEF CallSound, AwaitedCommandIsQueued
<1>5. TrackedStarted' /\ ReceiptsHanded'
  BY <1>0 DEF IInv, TrackedStarted, ReceiptsHanded, workerVars
<1> QED
  BY <1>0, <1>2, <1>3, <1>4, <1>5, CoreKept, ForwardKeeps DEF IInv, workerVars

LEMMA FlushEndsInv ==
  ASSUME IInv, FlushEnds
  PROVE  IInv'
<1>0. TypeOK /\ call' = NoCall /\ UNCHANGED <<conn, tracked, workerVars, events, msgVars, handed>>
  BY DEF IInv, FlushEnds
<1>1. call' \in Call /\ CallSound' /\ AwaitedCommandIsQueued'
  BY <1>0, ReturnedCall
<1>2. TypeOK'
  BY <1>0, <1>1, Zenon DEF TypeOK, workerVars, msgVars
<1>3. Forward
  BY <1>0, UnchangedForward
<1>4. TrackedStarted' /\ ReceiptsHanded'
  BY <1>0 DEF IInv, TrackedStarted, ReceiptsHanded, workerVars
<1> QED
  BY <1>0, <1>1, <1>2, <1>3, <1>4, CoreKept, ForwardKeeps DEF IInv, workerVars

\* A step that gives one stored message another delivery state, and takes no
\* sent message back.
LEMMA Restatus ==
  ASSUME IInv, NEW m \in Msgs, NEW s \in DeliveryState, status[m] # "Absent",
         status' = [status EXCEPT ![m] = s], status[m] \in SentStates => s \in SentStates,
         s \in SentStates => m \in handed,
         conn' = conn, msgOf' = msgOf, nextMsg' = nextMsg, handed' = handed
  PROVE  Forward /\ Stored' /\ SentWasHandedOver'
<1>1. TypeOK
  BY DEF IInv
<1>2. status'[m] = s /\ \A k \in Msgs : k # m => status'[k] = status[k]
  BY <1>1 DEF TypeOK
<1>3. Forward
  BY <1>1, <1>2 DEF TypeOK, Forward
<1>4. Stored' /\ SentWasHandedOver'
  BY <1>1, <1>2 DEF IInv, TypeOK, Stored, SentWasHandedOver
<1> QED
  BY <1>3, <1>4

LEMMA FlushContinuesInv ==
  ASSUME IInv, FlushContinues
  PROVE  IInv'
<1> DEFINE m == call.msg
<1>0. /\ TypeOK /\ call \in Call /\ call.op = "flush" /\ call.reply \in {"ok", "err"}
      /\ UNCHANGED <<conn, tracked, workerVars, events, msgOf, nextMsg, handed>>
  BY DEF IInv, TypeOK, FlushContinues
<1>1. /\ m \in Msgs /\ call.sent < FlushMaxBatch /\ call.sent \in Nat /\ call.acct \in Accounts
      /\ status[m] \in Retryable /\ conn[call.acct] # "Deleted"
      /\ call.reply = "ok" => m \in handed
  BY <1>0 DEF IInv, CallSound
<1> HIDE DEF m
<1>2. Forward /\ Stored' /\ SentWasHandedOver' /\ status' \in [Msgs -> DeliveryState \cup {"Absent"}]
  <2>1. PICK s \in {"Sent", "Failed"} :
           status' = [status EXCEPT ![m] = s] /\ (s = "Sent" => m \in handed)
    BY <1>0, <1>1 DEF FlushContinues, m
  <2>2. status' \in [Msgs -> DeliveryState \cup {"Absent"}]
    BY <1>0, <1>1, <2>1 DEF TypeOK
  <2> QED
    BY <1>0, <1>1, <2>1, <2>2, Restatus
<1>3. call' \in Call /\ CallSound' /\ AwaitedCommandIsQueued'
  <2>1. CASE call' = NoCall
    BY <2>1, ReturnedCall
  <2>2. CASE call' = [NoCall EXCEPT !.op = "flush", !.acct = call.acct, !.sent = call.sent + 1]
    <3>1. call.sent + 1 \in 0..FlushMaxBatch
      BY <1>1
    <3>2. call' \in Call /\ call'.op = "flush" /\ call'.acct = call.acct /\ call'.reply = "none"
      BY <1>1, <2>2, <3>1, BatchCall
    <3> QED
      BY <1>0, <1>1, <3>2 DEF CallSound, AwaitedCommandIsQueued
  <2> QED
    BY <2>1, <2>2 DEF FlushContinues
<1>4. TypeOK'
  BY <1>0, <1>2, <1>3, Zenon DEF TypeOK, workerVars
<1>5. TrackedStarted' /\ ReceiptsHanded'
  BY <1>0 DEF IInv, TrackedStarted, ReceiptsHanded, workerVars
<1> QED
  BY <1>0, <1>2, <1>3, <1>4, <1>5, ForwardKeeps DEF IInv, workerVars

\* The smallest pending message of a known account has its outbox behind it.
LEMMA FirstSettled ==
  ASSUME IInv, NEW a \in Accounts, conn[a] # "Deleted", NEW m \in Msgs, FirstOf(a, m)
  PROVE  Settled(m) /\ msgOf[m] = a /\ status[m] \in Retryable
<1>1. TypeOK /\ msgOf[m] = a /\ status[m] \in Retryable
  BY DEF IInv, FirstOf, Outbox
<1>2. m < nextMsg
  BY <1>1 DEF IInv, TypeOK, Stored
<1>3. ASSUME NEW k \in Msgs, k < m, msgOf[k] = a
      PROVE  status[k] \in SentStates
  <2>1. status[k] # "Absent"
    BY <1>1, <1>2, <1>3 DEF IInv, TypeOK, Stored
  <2>2. status[k] \notin Retryable
    BY <1>3 DEF FirstOf, Outbox
  <2> QED
    BY <1>1, <2>1, <2>2 DEF TypeOK
<1> QED
  BY <1>1, <1>2, <1>3 DEF Settled

LEMMA FlushSendsInv ==
  ASSUME IInv, FlushSends
  PROVE  IInv'
<1> DEFINE a == call.acct
           w == tracked[a]
<1>0. /\ TypeOK /\ call \in Call /\ call.op = "flush" /\ call.reply = "none"
      /\ call.sent < FlushMaxBatch /\ a \in Accounts /\ conn[a] # "Deleted"
      /\ UNCHANGED <<conn, tracked, owner, phase, live, events, msgOf, nextMsg, handed>>
  BY DEF IInv, TypeOK, CallSound, FlushSends
<1>1. PICK m \in Msgs :
        /\ FirstOf(a, m)
        /\ \/ /\ Alive(w) /\ cmds' = [cmds EXCEPT ![w] = Append(@, SendCmd(m))]
              /\ call' = [call EXCEPT !.worker = w, !.msg = m, !.reply = "wait"]
              /\ UNCHANGED status
           \/ /\ status' = [status EXCEPT ![m] = "Failed"]
              /\ call' = NoCall /\ UNCHANGED cmds
  BY DEF FlushSends
<1> HIDE DEF a
<1>2. Settled(m) /\ msgOf[m] = a /\ status[m] \in Retryable
  BY <1>0, <1>1, FirstSettled
<1>3. TrackedStarted' /\ ReceiptsHanded'
  BY <1>0 DEF IInv, TrackedStarted, ReceiptsHanded
<1>4. CASE /\ Alive(w) /\ cmds' = [cmds EXCEPT ![w] = Append(@, SendCmd(m))]
           /\ call' = [call EXCEPT !.worker = w, !.msg = m, !.reply = "wait"]
           /\ UNCHANGED status
  <2>1. w \in Workers /\ phase[w] \in {"connecting", "running"}
    BY <1>0, <1>4 DEF IInv, TypeOK, TrackedStarted
  <2> HIDE DEF w
  <2>2. /\ call' \in Call /\ call'.op = "flush" /\ call'.acct = a /\ call'.worker = w
        /\ call'.msg = m /\ call'.reply = "wait" /\ call'.sent = call.sent
    BY <1>0, <1>4, <2>1 DEF a
  <2>3. SendCmd(m) \in Command /\ SendCmd(m).msg = m
    OBVIOUS
  <2>4. UNCHANGED <<conn, msgVars>>
    BY <1>0, <1>4 DEF msgVars
  <2>5. /\ cmds' \in [Workers -> Seq(Command)] /\ QueuedSettled'
        /\ cmds'[w] # <<>> /\ cmds'[w][Len(cmds'[w])] = SendCmd(m)
    BY <1>2, <1>4, <2>1, <2>3, <2>4, CommandQueued
  <2>6. TypeOK'
    BY <1>0, <1>4, <2>2, <2>5, Zenon DEF TypeOK
  <2>7. Settled(m)'
    BY <1>0, <1>2, <2>4, <2>6, CoreKept
  <2>8. CallSound'
    BY <1>0, <1>2, <1>4, <2>1, <2>2, <2>7 DEF CallSound
  <2>9. AwaitedCommandIsQueued'
    BY <1>0, <2>1, <2>2, <2>5 DEF AwaitedCommandIsQueued
  <2> QED
    BY <1>0, <1>3, <2>4, <2>5, <2>6, <2>8, <2>9, CoreKept DEF IInv
<1>5. CASE status' = [status EXCEPT ![m] = "Failed"] /\ call' = NoCall /\ UNCHANGED cmds
  <2>1. Forward /\ Stored' /\ SentWasHandedOver'
    BY <1>0, <1>2, <1>5, Restatus
  <2>2. call' \in Call /\ CallSound' /\ AwaitedCommandIsQueued'
    BY <1>5, ReturnedCall
  <2>3. status' \in [Msgs -> DeliveryState \cup {"Absent"}]
    BY <1>0, <1>5 DEF TypeOK
  <2>4. TypeOK'
    BY <1>0, <1>5, <2>2, <2>3, Zenon DEF TypeOK
  <2> QED
    BY <1>0, <1>3, <1>5, <2>1, <2>2, <2>4, ForwardKeeps DEF IInv
<1> QED
  BY <1>1, <1>4, <1>5

\* One event is taken from the channel and projected.
LEMMA PollEventInv ==
  ASSUME IInv, PollEvent
  PROVE  IInv'
<1> DEFINE e == Head(events)
           a == e.acct
<1>0. /\ TypeOK /\ LockFree /\ events # <<>> /\ events' = Tail(events)
      /\ UNCHANGED <<workerVars, call, msgOf, nextMsg, handed>>
      /\ Retire(e) /\ ApplyEvent(e)
  BY DEF IInv, PollEvent
<1>1. /\ e \in Event /\ e = events[1] /\ events' \in Seq(Event)
      /\ Len(events') = Len(events) - 1 /\ Len(events) \in Nat \ {0}
      /\ \A i \in 1..Len(events') : events'[i] = events[i + 1]
  <2>1. events \in Seq(Event) /\ e = events[1]
    BY <1>0 DEF TypeOK
  <2>2. Len(events) \in Nat \ {0}
    BY <1>0, <2>1, EmptySeq, Zenon
  <2> QED
    BY <1>0, <2>1, <2>2, HeadTailProperties
<1>2. e.type = "DeliveryUpdated" => e.msg \in handed /\ e.msg \in Msgs
  BY <1>0, <1>1 DEF IInv, ReceiptsHanded, TypeOK
<1> HIDE DEF e
<1>3. a \in Accounts
  BY <1>1
<1>4. /\ tracked' \in [Accounts -> Workers \cup {NoWorker}]
      /\ \A b \in Accounts : tracked'[b] \in {NoWorker, tracked[b]}
  BY <1>0, <1>3 DEF Retire, TypeOK
<1> HIDE DEF a
<1>5. ReceiptsHanded'
  <2>1. \A i \in 1..Len(events') : i + 1 \in 1..Len(events) /\ events'[i] = events[i + 1]
    BY <1>1
  <2> QED
    BY <1>0, <2>1 DEF IInv, ReceiptsHanded
<1>6. \/ UNCHANGED <<conn, status>>
      \/ conn' = conn /\ \E m \in handed : /\ m \in Msgs /\ status[m] # "Absent"
                                          /\ status' = [status EXCEPT ![m] = "Delivered"]
      \/ status' = status /\ conn[a] # "Deleted"
           /\ \E s \in ConnectionState : conn' = [conn EXCEPT ![a] = s]
  <2>1. CASE (e.type = "DeliveryUpdated" \/ ~Known(a)) /\ UNCHANGED conn
               /\ IF e.type = "DeliveryUpdated" THEN ApplyReceipt(a, e.msg) ELSE UNCHANGED status
    BY <1>2, <2>1 DEF ApplyReceipt
  <2>2. CASE /\ Known(a) /\ UNCHANGED status
             /\ \E s \in {"Online", "Offline", "Failed"} : conn' = [conn EXCEPT ![a] = s]
    BY <2>2
  <2> QED
    BY <1>0, <2>1, <2>2 DEF ApplyEvent, a
<1>7. /\ conn' \in [Accounts -> ConnectionState \cup {"Deleted"}]
      /\ status' \in [Msgs -> DeliveryState \cup {"Absent"}]
      /\ Forward /\ Stored' /\ SentWasHandedOver'
      /\ \A b \in Accounts : conn'[b] = "Deleted" <=> conn[b] = "Deleted"
  <2>1. CASE UNCHANGED <<conn, status>>
    <3>1. Forward
      BY <1>0, <2>1, UnchangedForward DEF msgVars
    <3> QED
      BY <1>0, <2>1, <3>1 DEF IInv, TypeOK, Stored, SentWasHandedOver
  <2>2. ASSUME NEW m \in handed, m \in Msgs, status[m] # "Absent", conn' = conn,
               status' = [status EXCEPT ![m] = "Delivered"]
        PROVE  <1>7!:
    <3>1. Forward /\ Stored' /\ SentWasHandedOver'
      BY <1>0, <2>2, Restatus
    <3> QED
      BY <1>0, <2>2, <3>1 DEF TypeOK
  <2>3. ASSUME NEW s \in ConnectionState, conn' = [conn EXCEPT ![a] = s], status' = status,
               conn[a] # "Deleted"
        PROVE  <1>7!:
    <3>1. /\ conn' \in [Accounts -> ConnectionState \cup {"Deleted"}]
          /\ \A b \in Accounts : conn'[b] = "Deleted" <=> conn[b] = "Deleted"
      BY <1>0, <1>3, <2>3 DEF TypeOK
    <3>2. Forward
      BY <1>0, <2>3, <3>1 DEF TypeOK, Forward
    <3>3. Stored' /\ SentWasHandedOver'
      BY <1>0, <2>3, <3>1 DEF IInv, TypeOK, Stored, SentWasHandedOver
    <3> QED
      BY <1>0, <2>3, <3>1, <3>2, <3>3 DEF TypeOK
  <2> QED
    BY <1>6, <2>1, <2>2, <2>3
<1>8. TypeOK'
  BY <1>0, <1>1, <1>4, <1>7, Zenon DEF TypeOK, workerVars
<1>9. TrackedStarted'
  BY <1>0, <1>4, <1>7 DEF IInv, TrackedStarted, workerVars
<1> QED
  BY <1>0, <1>5, <1>7, <1>8, <1>9, ForwardKeeps, FreeLock DEF IInv, workerVars

-----------------------------------------------------------------------------
(* The theorems. *)

LEMMA NextIInv == IInv /\ [Next]_vars => IInv'
<1> SUFFICES ASSUME IInv, [Next]_vars PROVE IInv'
  OBVIOUS
<1>1. CASE UNCHANGED vars
  <2>1. TypeOK'
    BY <1>1, Zenon DEF IInv, TypeOK, vars, workerVars, msgVars
  <2>2. \A m \in Msgs : Settled(m)' <=> Settled(m)
    BY <1>1 DEF vars, msgVars, Settled
  <2>3. QueuedSettled' /\ HandedSettled' /\ CallSound'
    BY <1>1, <2>2 DEF IInv, TypeOK, vars, workerVars, msgVars, QueuedSettled, HandedSettled, CallSound
  <2> QED
    BY <1>1, <2>1, <2>3 DEF IInv, vars, workerVars, msgVars, Stored, ReceiptsHanded,
                            TrackedStarted, SentWasHandedOver, AwaitedCommandIsQueued
<1>2. ASSUME NEW w \in Workers, WorkerStep(w)
      PROVE  IInv'
  BY <1>2, CommandWhileConnectingInv, HandleDroppedInv, ConnectSucceedsInv, StopInv, WorkerSendInv,
     WorkerDisconnectInv, LossKeptInv, SessionRestoredInv, ReceiptArrivesInv DEF WorkerStep
<1>3. ASSUME NEW a \in Accounts, UserStep(a)
      PROVE  IInv'
  BY <1>3, ConnectInv, DisconnectInv, DeleteAccountInv, SendTextInv, FlushBeginsInv DEF UserStep
<1>4. ASSUME CallStep
      PROVE  IInv'
  BY <1>4, DisconnectReturnsInv, DeleteReturnsInv, CallTimesOutInv, FlushSendsInv,
     FlushContinuesInv, FlushEndsInv DEF CallStep
<1> QED
  BY <1>1, <1>2, <1>3, <1>4, PollEventInv DEF Next

LEMMA Invariance == Spec => []IInv
  BY InitIInv, NextIInv, PTL DEF Spec

\* Types hold in every behaviour: in particular a batch never sends more than
\* FLUSH_OUTBOX_MAX_BATCH messages and ids never leave their range.
THEOREM TypesHold == Spec => []TypeOK
  BY Invariance, PTL DEF IInv

\* Outbox order, whatever times out and whenever receipts arrive.
THEOREM OutboxOrder == Spec => []SentPrefix
<1>1. IInv => SentPrefix
  <2> SUFFICES ASSUME IInv, NEW m \in Msgs, NEW n \in Msgs, m < n, msgOf[m] = msgOf[n],
                      status[n] \in SentStates
               PROVE  status[m] \in SentStates
    BY DEF SentPrefix
  <2>1. Settled(n)
    BY DEF IInv, SentWasHandedOver, HandedSettled
  <2>2. n < nextMsg /\ conn[msgOf[n]] # "Deleted"
    BY DEF IInv, TypeOK, Stored
  <2> QED
    BY <2>1, <2>2 DEF Settled
<1> QED
  BY <1>1, Invariance, PTL

\* No answer is mistaken for the answer to another send.
THEOREM HandOver == Spec => []SentWasHandedOver
  BY Invariance, PTL DEF IInv

\* No blocking call waits for an answer nobody will give.
THEOREM AnswerPending == Spec => []AwaitedCommandIsQueued
  BY Invariance, PTL DEF IInv

\* Deletion is complete, whatever the account's worker still does.
THEOREM DeletionComplete == Spec => []DeletedLeavesNothing
<1>1. IInv => DeletedLeavesNothing
  BY DEF IInv, TypeOK, Stored, TrackedStarted, DeletedLeavesNothing
<1> QED
  BY <1>1, Invariance, PTL

=============================================================================
