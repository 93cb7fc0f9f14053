---------------------------- MODULE GatewayProofs ----------------------------
(***************************************************************************)
(* Proofs about Gateway, for any accounts, lifecycle jobs, batch sizes and *)
(* bounds.                                                                 *)
(*                                                                         *)
(* That a clean tracker means a saved core is not inductive.  The          *)
(* invariant adds what a save in progress knows: it holds the mutex, its   *)
(* epoch is not behind the acknowledged one, and its image is the core     *)
(* whenever its epoch is still the current one and nothing is unmarked;    *)
(* and the image lies between the file and the core.                       *)
(***************************************************************************)
EXTENDS Gateway, NumberLemmas, SequenceTheorems

\* How far a core or a file has come.
Leq(c, d) ==
  /\ c.texts <= d.texts
  /\ c.edits <= d.edits
  /\ Len(c.sent) <= Len(d.sent)
  /\ \A i \in 1..Len(c.sent) : Delivery[c.sent[i].delivery] <= Delivery[d.sent[i].delivery]

\* A poll that drains has a batch left, and before the first it has processed
\* nothing.
DrainsHaveRoom ==
  poll.pc = "drains" =>
    poll.batches < MaxDrainBatches /\ (poll.batches = 0 => ~poll.processed)

\* The saver of the poll works only while the poll waits for it.
PollWaitsForSave == saver["poll"].pc # "idle" => poll.pc = "saves"

Holds(s) == saver[s].pc \in {"captured", "taken"}

HolderIsAhead ==
  \A s \in Savers : Holds(s) => mutex = s /\ persisted <= saver[s].epoch

ImageIsCurrent ==
  \A s \in Savers :
    saver[s].pc = "taken" /\ saver[s].epoch = epoch /\ ~Unmarked => saver[s].image = Durable(core)

ImageIsBetween ==
  /\ Leq(disk, core)
  /\ \A s \in Savers : saver[s].pc = "taken" => Leq(disk, saver[s].image) /\ Leq(saver[s].image, core)

IInv == /\ TypeOK
        /\ DrainsHaveRoom
        /\ PollWaitsForSave
        /\ HolderIsAhead
        /\ ImageIsCurrent
        /\ CleanMeansSaved
        /\ ImageIsBetween

-----------------------------------------------------------------------------
(* Cores. *)

LEMMA Bounds ==
  /\ DrainBatch \in Nat /\ DrainBatch > 0
  /\ MaxDrainBatches \in Nat /\ MaxDrainBatches > 0
  BY GatewayAssumption

LEMMA CoreFields ==
  ASSUME NEW c \in Core
  PROVE  /\ c.conn \in [Accounts -> Connection] /\ c.sent \in Seq(Outgoing)
         /\ c.texts \in Nat /\ c.edits \in Nat /\ Len(c.sent) \in Nat
         /\ DOMAIN c.sent = 1..Len(c.sent)
         /\ \A i \in 1..Len(c.sent) : c.sent[i] \in Outgoing
<1>1. /\ c.conn \in [Accounts -> Connection] /\ c.sent \in Seq(Outgoing)
      /\ c.texts \in Nat /\ c.edits \in Nat
  BY DEF Core
<1> QED
  BY <1>1

LEMMA RankTyped ==
  ASSUME NEW o \in Outgoing
  PROVE  Delivery[o.delivery] \in 0..2
  BY DEF Outgoing, Delivery, Retryable

LEMMA Ranks ==
  ASSUME NEW c \in Core, NEW i \in 1..Len(c.sent)
  PROVE  Delivery[c.sent[i].delivery] \in 0..2
<1>1. c.sent[i] \in Outgoing
  BY CoreFields
<1> QED
  BY <1>1, RankTyped

LEMMA LeqReflexive == ASSUME NEW c \in Core PROVE Leq(c, c)
<1>1. c.texts \in Nat /\ c.edits \in Nat /\ Len(c.sent) \in Nat
  BY CoreFields
<1>2. \A i \in 1..Len(c.sent) : Delivery[c.sent[i].delivery] \in 0..2
  BY Ranks
<1> QED
  BY <1>1, <1>2 DEF Leq

LEMMA LeqTransitive ==
  ASSUME NEW c \in Core, NEW d \in Core, NEW e \in Core, Leq(c, d), Leq(d, e)
  PROVE  Leq(c, e)
<1>1. /\ c.texts \in Nat /\ c.edits \in Nat /\ Len(c.sent) \in Nat
      /\ d.texts \in Nat /\ d.edits \in Nat /\ Len(d.sent) \in Nat
      /\ e.texts \in Nat /\ e.edits \in Nat /\ Len(e.sent) \in Nat
  BY CoreFields
<1>2. /\ c.texts <= d.texts /\ c.edits <= d.edits /\ Len(c.sent) <= Len(d.sent)
      /\ d.texts <= e.texts /\ d.edits <= e.edits /\ Len(d.sent) <= Len(e.sent)
  BY DEF Leq
<1>3. c.texts <= e.texts /\ c.edits <= e.edits /\ Len(c.sent) <= Len(e.sent)
  BY <1>1, <1>2
<1>4. ASSUME NEW i \in 1..Len(c.sent)
      PROVE  Delivery[c.sent[i].delivery] <= Delivery[e.sent[i].delivery]
  <2>1. i \in 1..Len(d.sent) /\ i \in 1..Len(e.sent)
    BY <1>1, <1>2
  <2> DEFINE x == Delivery[c.sent[i].delivery]
             y == Delivery[d.sent[i].delivery]
             z == Delivery[e.sent[i].delivery]
  <2>2. x \in 0..2 /\ y \in 0..2 /\ z \in 0..2
    BY <2>1, Ranks
  <2>3. x <= y /\ y <= z
    BY <2>1 DEF Leq
  <2> HIDE DEF x, y, z
  <2>4. x <= z
    BY <2>2, <2>3
  <2> QED
    BY <2>4 DEF x, z
<1> QED
  BY <1>3, <1>4 DEF Leq

\* The file of a core is as far as the core.
LEMMA DurableFields ==
  ASSUME NEW c \in Core
  PROVE  /\ Durable(c) \in Core
         /\ Durable(c).sent = c.sent /\ Durable(c).texts = c.texts /\ Durable(c).edits = c.edits
<1>1. [a \in Accounts |-> "Offline"] \in [Accounts -> Connection]
  BY DEF Connection
<1> QED
  BY <1>1 DEF Durable, Core

LEMMA SameProgress ==
  ASSUME NEW c \in Core, NEW d, d.sent = c.sent, d.texts = c.texts, d.edits = c.edits
  PROVE  Leq(c, d) /\ Leq(d, c)
  BY LeqReflexive DEF Leq

\* One event: the connection changes, or a text is counted.
LEMMA ApplyEventFields ==
  ASSUME NEW c \in Core, NEW e \in Event
  PROVE  /\ ApplyEvent(c, e) \in Core
         /\ ApplyEvent(c, e).sent = c.sent /\ ApplyEvent(c, e).edits = c.edits
         /\ c.texts <= ApplyEvent(c, e).texts
<1> DEFINE conn == IF e.kind = "IncomingText" THEN c.conn
                   ELSE [c.conn EXCEPT ![e.account] =
                           IF e.kind = "Connected" THEN "Online" ELSE "Offline"]
           texts == IF e.kind = "IncomingText" THEN c.texts + 1 ELSE c.texts
<1>1. ApplyEvent(c, e) = [c EXCEPT !.conn = conn, !.texts = texts]
  BY DEF ApplyEvent
<1>2. conn \in [Accounts -> Connection] /\ texts \in Nat /\ c.texts <= texts
  BY CoreFields DEF Event, Connection
<1> HIDE DEF conn, texts
<1> QED
  BY <1>1, <1>2 DEF Core

\* f holds the core after each of the first n events.
IsRun(f, c, es, n) == f = [i \in 0..n |-> IF i = 0 THEN c ELSE ApplyEvent(f[i - 1], es[i])]

\* The loop over a batch has a value after every event: a least event without
\* one would follow an event that has one.
LEMMA RunExists ==
  ASSUME NEW c, NEW es, NEW n \in Nat
  PROVE  \E f : IsRun(f, c, es, n)
<1> DEFINE T == {k \in Nat : ~ \E f : IsRun(f, c, es, k)}
<1>1. SUFFICES ASSUME T # {} PROVE FALSE
  BY <1>1
<1>2. PICK k \in T : \A j \in T : k <= j
  <2>1. T \in SUBSET Nat
    OBVIOUS
  <2> HIDE DEF T
  <2> QED
    BY <1>1, <2>1, LeastNatural
<1>3. k # 0
  <2>1. IsRun([i \in 0..0 |-> c], c, es, 0)
    BY DEF IsRun
  <2> QED
    BY <2>1
<1>4. k - 1 \in Nat /\ k \in Nat
  BY <1>3
<1>5. k - 1 \notin T
  BY <1>2, <1>4
<1>6. PICK f : IsRun(f, c, es, k - 1)
  BY <1>4, <1>5
<1> DEFINE g == [i \in 0..k |-> IF i = k THEN ApplyEvent(f[k - 1], es[k]) ELSE f[i]]
<1>7. \A i \in 0..k : g[i] = (IF i = 0 THEN c ELSE ApplyEvent(g[i - 1], es[i]))
  <2> SUFFICES ASSUME NEW i \in 0..k
               PROVE  g[i] = (IF i = 0 THEN c ELSE ApplyEvent(g[i - 1], es[i]))
    OBVIOUS
  <2>1. CASE i = k
    <3>1. g[k] = ApplyEvent(f[k - 1], es[k]) /\ g[k - 1] = f[k - 1]
      BY <1>4
    <3> QED
      BY <1>3, <2>1, <3>1
  <2>2. CASE i # k
    <3>1. i \in 0..(k - 1)
      BY <1>4, <2>2
    <3>2. f[i] = (IF i = 0 THEN c ELSE ApplyEvent(f[i - 1], es[i]))
      BY <1>6, <3>1 DEF IsRun
    <3>3. g[i] = f[i] /\ (i # 0 => g[i - 1] = f[i - 1])
      BY <1>4, <2>2
    <3> QED
      BY <3>2, <3>3
  <2> QED
    BY <2>1, <2>2
<1>8. g = [i \in 0..k |-> g[i]]
  OBVIOUS
<1> HIDE DEF g
<1>9. IsRun(g, c, es, k)
  BY <1>7, <1>8 DEF IsRun
<1> QED
  BY <1>2, <1>9

\* A batch of events leaves a core that has come at least as far, and an empty
\* one leaves it alone.
LEMMA ApplyEventsFields ==
  ASSUME NEW c \in Core, NEW es \in Seq(Event)
  PROVE  /\ ApplyEvents(c, es) \in Core
         /\ Leq(c, ApplyEvents(c, es))
         /\ Len(es) = 0 => ApplyEvents(c, es) = c
<1> DEFINE run[i \in 0..Len(es)] == IF i = 0 THEN c ELSE ApplyEvent(run[i - 1], es[i])
<1>1. Len(es) \in Nat /\ \A i \in 1..Len(es) : es[i] \in Event
  OBVIOUS
<1>2. ApplyEvents(c, es) = run[Len(es)]
  BY DEF ApplyEvents
<1>3. run = [i \in 0..Len(es) |-> IF i = 0 THEN c ELSE ApplyEvent(run[i - 1], es[i])]
  <2>1. \E f : IsRun(f, c, es, Len(es))
    <3> HIDE DEF run
    <3> QED
      BY <1>1, RunExists
  <2> QED
    BY <2>1, Zenon DEF IsRun
<1> HIDE DEF run
<1> DEFINE Good(d) == d \in Core /\ d.sent = c.sent /\ d.edits = c.edits /\ c.texts <= d.texts
           T == {i \in Nat : i <= Len(es) /\ ~Good(run[i])}
<1>4. run[0] = c
  BY <1>1, <1>3
<1>5. T = {}
  <2> SUFFICES ASSUME T # {} PROVE FALSE
    OBVIOUS
  <2>1. PICK i \in T : \A j \in T : i <= j
    <3>1. T \in SUBSET Nat
      OBVIOUS
    <3> HIDE DEF T
    <3> QED
      BY <3>1, LeastNatural
  <2>2. Good(c)
    BY CoreFields
  <2>3. i # 0
    BY <1>4, <2>1, <2>2
  <2>4. i - 1 \in Nat /\ i \in 1..Len(es) /\ i - 1 <= Len(es)
    BY <1>1, <2>3
  <2>5. i - 1 \notin T
    BY <2>1, <2>4
  <2>6. Good(run[i - 1])
    BY <2>4, <2>5
  <2>7. run[i] = ApplyEvent(run[i - 1], es[i]) /\ es[i] \in Event
    BY <1>1, <1>3, <2>3, <2>4
  <2>8. /\ ApplyEvent(run[i - 1], es[i]) \in Core
        /\ ApplyEvent(run[i - 1], es[i]).sent = c.sent
        /\ ApplyEvent(run[i - 1], es[i]).edits = c.edits
        /\ run[i - 1].texts <= ApplyEvent(run[i - 1], es[i]).texts
    BY <2>6, <2>7, ApplyEventFields
  <2>9. c.texts \in Nat /\ run[i - 1].texts \in Nat /\ run[i].texts \in Nat
    BY <2>6, <2>7, <2>8, CoreFields
  <2>10. Good(run[i])
    BY <2>6, <2>7, <2>8, <2>9
  <2> QED
    BY <2>1, <2>10
<1>6. Good(run[Len(es)])
  BY <1>1, <1>5
<1>7. \A d : Good(d) => Leq(c, d)
  <2> SUFFICES ASSUME NEW d, Good(d) PROVE Leq(c, d)
    OBVIOUS
  <2>1. Leq(c, c)
    BY LeqReflexive
  <2> QED
    BY <2>1 DEF Leq
<1> QED
  BY <1>2, <1>4, <1>6, <1>7

\* A flush moves messages that wait, and only onwards.
LEMMA FlushedFields ==
  ASSUME NEW c \in Core, NEW a, NEW d \in Flushed(c, a)
  PROVE  d \in Core /\ Leq(c, d)
<1> DEFINE queue == Outbox(c, a)
           batch == {i \in queue : Before(i, queue) < FlushMaxBatch}
           after(k, fails) == [c EXCEPT !.sent = [i \in DOMAIN c.sent |->
             IF i \in batch /\ Before(i, queue) < k THEN [c.sent[i] EXCEPT !.delivery = "Sent"]
             ELSE IF fails /\ i \in batch /\ Before(i, queue) = k
                  THEN [c.sent[i] EXCEPT !.delivery = "Failed"]
             ELSE c.sent[i]]]
<1>1. d = c \/ \E k, fails : d = after(k, fails)
  <2>1. Flushed(c, a) = IF a \notin Online(c) THEN {c}
                        ELSE IF session[a] # "up" THEN {after(0, TRUE)}
                        ELSE {after(k, TRUE) : k \in 0..Cardinality(batch)}
                               \cup {after(k, FALSE) : k \in 1..Cardinality(batch)}
    BY DEF Flushed
  <2> HIDE DEF after
  <2> QED
    BY <2>1
<1>2. \A i \in batch : c.sent[i].delivery \in Retryable
  BY DEF Outbox
<1> HIDE DEF batch
<1>3. ASSUME NEW k, NEW fails, d = after(k, fails) PROVE d \in Core /\ Leq(c, d)
  <2> DEFINE sent == [i \in DOMAIN c.sent |->
             IF i \in batch /\ Before(i, queue) < k THEN [c.sent[i] EXCEPT !.delivery = "Sent"]
             ELSE IF fails /\ i \in batch /\ Before(i, queue) = k
                  THEN [c.sent[i] EXCEPT !.delivery = "Failed"]
             ELSE c.sent[i]]
  <2>1. /\ Len(c.sent) \in Nat /\ DOMAIN c.sent = 1..Len(c.sent)
        /\ \A i \in 1..Len(c.sent) : c.sent[i] \in Outgoing
    BY CoreFields
  <2>2. ASSUME NEW i \in 1..Len(c.sent)
        PROVE  /\ sent[i] \in Outgoing
               /\ Delivery[c.sent[i].delivery] <= Delivery[sent[i].delivery]
    <3>1. /\ sent[i] \in {c.sent[i], [c.sent[i] EXCEPT !.delivery = "Sent"],
                         [c.sent[i] EXCEPT !.delivery = "Failed"]}
          /\ sent[i] = [c.sent[i] EXCEPT !.delivery = "Failed"] =>
               c.sent[i].delivery \in Retryable \/ sent[i] = [c.sent[i] EXCEPT !.delivery = "Sent"]
                 \/ sent[i] = c.sent[i]
      BY <1>2, <2>1
    <3>2. c.sent[i] \in Outgoing
      BY <2>1
    <3> HIDE DEF sent
    <3>3. CASE sent[i] = c.sent[i]
      BY <3>2, <3>3, RankTyped
    <3>4. CASE sent[i] = [c.sent[i] EXCEPT !.delivery = "Sent"]
      <4>1. sent[i] \in Outgoing /\ sent[i].delivery = "Sent"
        BY <3>2, <3>4 DEF Outgoing
      <4>2. Delivery["Sent"] = 2
        BY DEF Delivery, Retryable
      <4> QED
        BY <3>2, <4>1, <4>2, RankTyped
    <3>5. CASE sent[i] = [c.sent[i] EXCEPT !.delivery = "Failed"] /\ c.sent[i].delivery \in Retryable
      <4>1. sent[i] \in Outgoing /\ sent[i].delivery = "Failed"
        BY <3>2, <3>5 DEF Outgoing, Retryable
      <4>2. Delivery["Failed"] = 1 /\ Delivery["Pending"] = 0
        BY DEF Delivery, Retryable
      <4> QED
        BY <3>5, <4>1, <4>2 DEF Retryable
    <3> QED
      BY <3>1, <3>3, <3>4, <3>5
  <2>3. sent \in Seq(Outgoing) /\ Len(sent) = Len(c.sent)
    <3>1. sent = [i \in 1..Len(c.sent) |-> sent[i]]
      BY <2>1
    <3> HIDE DEF sent
    <3>2. sent \in [1..Len(c.sent) -> Outgoing]
      BY <2>2, <3>1
    <3> QED
      BY <2>1, <3>2, SeqDef, LenProperties
  <2>4. d = [c EXCEPT !.sent = sent]
    BY <1>3
  <2> HIDE DEF sent
  <2>5. d \in Core /\ d.sent = sent /\ d.texts = c.texts /\ d.edits = c.edits
    BY <2>3, <2>4 DEF Core
  <2>6. c.texts \in Nat /\ c.edits \in Nat
    BY CoreFields
  <2>7. \A i \in 1..Len(c.sent) : Delivery[c.sent[i].delivery] <= Delivery[d.sent[i].delivery]
    BY <2>2, <2>5
  <2> QED
    BY <2>1, <2>3, <2>5, <2>6, <2>7 DEF Leq
<1>4. CASE d = c
  BY <1>4, LeqReflexive
<1> QED
  BY <1>1, <1>3, <1>4

-----------------------------------------------------------------------------
(* The saves. *)

SaveInv == HolderIsAhead /\ ImageIsCurrent /\ CleanMeansSaved /\ ImageIsBetween

LEMMA SaverTyped ==
  ASSUME TypeOK, NEW s \in Savers
  PROVE  /\ saver[s] \in SaveRecord(epoch)
         /\ saver[s].epoch \in 0..epoch /\ saver[s].image \in Core
         /\ epoch \in Nat /\ persisted \in 0..epoch
<1>1. saver[s] \in SaveRecord(epoch) /\ epoch \in Nat /\ persisted \in 0..epoch
  BY DEF TypeOK
<1> QED
  BY <1>1 DEF SaveRecord

\* A core call that is not marked yet leaves nothing to show but that the core
\* has moved on.
LEMMA MutationKeeps ==
  ASSUME IInv, core' \in Core, Leq(core, core'), Unmarked',
         UNCHANGED <<disk, epoch, persisted, mutex, saver>>
  PROVE  SaveInv'
<1>1. HolderIsAhead' /\ ImageIsCurrent' /\ CleanMeansSaved'
  BY DEF IInv, HolderIsAhead, Holds, ImageIsCurrent, CleanMeansSaved
<1>2. core \in Core /\ disk \in Core /\ \A s \in Savers : saver[s].image \in Core
  BY SaverTyped DEF IInv, TypeOK
<1>3. Leq(disk, core')
  BY <1>2, LeqTransitive DEF IInv, ImageIsBetween
<1>4. ASSUME NEW s \in Savers, saver[s].pc = "taken"
      PROVE  Leq(disk, saver[s].image) /\ Leq(saver[s].image, core')
  <2>1. Leq(disk, saver[s].image) /\ Leq(saver[s].image, core) /\ saver[s].image \in Core
    BY <1>2, <1>4 DEF IInv, ImageIsBetween
  <2> DEFINE image == saver[s].image
  <2> HIDE DEF image
  <2>2. Leq(image, core')
    BY <1>2, <2>1, LeqTransitive DEF image
  <2> QED
    BY <2>1, <2>2 DEF image
<1>5. ImageIsBetween'
  BY <1>3, <1>4 DEF ImageIsBetween
<1> QED
  BY <1>1, <1>5 DEF SaveInv

\* Once an epoch is marked, no save in progress and no acknowledged one covers
\* it.
LEMMA MarkKeeps ==
  ASSUME IInv, epoch' = epoch + 1, UNCHANGED <<core, disk, persisted, mutex, saver>>
  PROVE  SaveInv'
<1>1. HolderIsAhead' /\ ImageIsBetween'
  BY DEF IInv, HolderIsAhead, Holds, ImageIsBetween
<1>2. CleanMeansSaved'
  BY DEF IInv, TypeOK, CleanMeansSaved
<1>3. \A s \in Savers : saver[s].epoch # epoch + 1
  BY SaverTyped DEF IInv
<1>4. ImageIsCurrent'
  BY <1>3 DEF ImageIsCurrent
<1> QED
  BY <1>1, <1>2, <1>4 DEF SaveInv

\* Nothing is lost where the core, the file and the tracker stay, no mark is
\* skipped, and no save in progress is touched.
LEMMA QuietKeeps ==
  ASSUME IInv, UNCHANGED <<core, disk, epoch, persisted, mutex>>,
         Unmarked => Unmarked',
         \A s \in Savers : Holds(s)' => saver'[s] = saver[s]
  PROVE  SaveInv'
<1>1. \A s \in Savers : Holds(s)' => Holds(s) /\ saver'[s] = saver[s]
  BY DEF Holds
<1>2. \A s \in Savers : saver'[s].pc = "taken" => saver[s].pc = "taken" /\ saver'[s] = saver[s]
  BY <1>1 DEF Holds
<1>3. HolderIsAhead'
  BY <1>1 DEF IInv, HolderIsAhead
<1>4. ImageIsCurrent'
  BY <1>2 DEF IInv, ImageIsCurrent
<1>5. CleanMeansSaved'
  BY DEF IInv, CleanMeansSaved
<1>6. ImageIsBetween'
  BY <1>2 DEF IInv, ImageIsBetween
<1> QED
  BY <1>3, <1>4, <1>5, <1>6 DEF SaveInv

LEMMA QuietSavers ==
  ASSUME UNCHANGED saver
  PROVE  \A s \in Savers : Holds(s)' => saver'[s] = saver[s]
  OBVIOUS

-----------------------------------------------------------------------------
(* The main thread and the transport. *)

\* What a gateway method that calls the core leaves alone.
LEMMA CallInv ==
  ASSUME IInv, NEW op, Begins(op), NEW schedule \in SUBSET Accounts, Calls(schedule),
         core' \in Core, Leq(core, core'),
         session' \in [Accounts -> {"none", "starting", "up"}]
  PROVE  IInv'
<1>1. UNCHANGED <<ui, disk, events, pendingOutbox, epoch, persisted, mutex, saver, poll,
                  started, cancelled>>
  BY DEF Begins, tracker
<1>2. main' = [at |-> "marks", schedule |-> schedule]
  BY DEF Calls
<1>3. TypeOK'
  <2>1. main' \in [at : {"idle", "marks", "refreshes"}, schedule : SUBSET Accounts]
    BY <1>2
  <2> QED
    BY <1>1, <2>1 DEF IInv, TypeOK
<1>4. DrainsHaveRoom' /\ PollWaitsForSave'
  BY <1>1 DEF IInv, DrainsHaveRoom, PollWaitsForSave
<1>5. Unmarked'
  BY <1>2 DEF Unmarked
<1>6. SaveInv'
  BY <1>1, <1>5, MutationKeeps
<1> QED
  BY <1>3, <1>4, <1>6 DEF IInv, SaveInv

LEMMA ConnectionSet ==
  ASSUME NEW c \in Core, NEW a \in Accounts, NEW v \in Connection
  PROVE  [c EXCEPT !.conn[a] = v] \in Core /\ Leq(c, [c EXCEPT !.conn[a] = v])
<1> DEFINE conn == [c.conn EXCEPT ![a] = v]
<1>1. conn \in [Accounts -> Connection]
  BY CoreFields
<1>2. [c EXCEPT !.conn[a] = v] = [c EXCEPT !.conn = conn]
  OBVIOUS
<1> HIDE DEF conn
<1> DEFINE d == [c EXCEPT !.conn = conn]
<1>3. d \in Core /\ d.sent = c.sent /\ d.texts = c.texts /\ d.edits = c.edits
  BY <1>1 DEF Core
<1> HIDE DEF d
<1>4. Leq(c, d)
  BY <1>3, SameProgress
<1> QED
  BY <1>2, <1>3, <1>4 DEF d

LEMMA ReconnectAccountInv ==
  ASSUME IInv, NEW a \in Accounts, ReconnectAccount(a)
  PROVE  IInv'
<1>1. core' \in Core /\ Leq(core, core')
  BY ConnectionSet DEF ReconnectAccount, IInv, TypeOK, Connection
<1>2. session' \in [Accounts -> {"none", "starting", "up"}]
  BY DEF ReconnectAccount, IInv, TypeOK
<1>3. Begins("connect") /\ Calls({})
  BY DEF ReconnectAccount
<1> QED
  BY <1>1, <1>2, <1>3, CallInv

LEMMA DisconnectAccountInv ==
  ASSUME IInv, NEW a \in Accounts, DisconnectAccount(a)
  PROVE  IInv'
<1>1. core' \in Core /\ Leq(core, core')
  BY ConnectionSet DEF DisconnectAccount, IInv, TypeOK, Connection
<1>2. session' \in [Accounts -> {"none", "starting", "up"}]
  BY DEF DisconnectAccount, IInv, TypeOK
<1>3. Begins("disconnect") /\ Calls({})
  BY DEF DisconnectAccount
<1> QED
  BY <1>1, <1>2, <1>3, CallInv

LEMMA SendTextInv ==
  ASSUME IInv, NEW a \in Accounts, SendText(a)
  PROVE  IInv'
<1> DEFINE sent == Append(core.sent, Text(a))
<1>1. core \in Core /\ core.sent \in Seq(Outgoing) /\ Text(a) \in Outgoing
  BY CoreFields DEF IInv, TypeOK, Text, Outgoing, Retryable
<1>2. /\ sent \in Seq(Outgoing) /\ Len(sent) = Len(core.sent) + 1
      /\ \A i \in 1..Len(core.sent) : sent[i] = core.sent[i]
  BY <1>1, AppendProperties
<1>3. core' = [core EXCEPT !.sent = sent]
  BY DEF SendText
<1> HIDE DEF sent
<1>4. core' \in Core /\ core'.sent = sent /\ core'.texts = core.texts /\ core'.edits = core.edits
  BY <1>1, <1>2, <1>3 DEF Core
<1>5. Leq(core, core) /\ Len(core.sent) \in Nat
  BY <1>1, LeqReflexive, CoreFields
<1>6. Leq(core, core')
  BY <1>2, <1>4, <1>5 DEF Leq
<1>7. session' \in [Accounts -> {"none", "starting", "up"}]
  BY DEF SendText, IInv, TypeOK
<1>8. Begins("send") /\ Calls({a})
  BY DEF SendText
<1> QED
  BY <1>4, <1>6, <1>7, <1>8, CallInv

LEMMA EditInv ==
  ASSUME IInv, Edit
  PROVE  IInv'
<1>1. core \in Core /\ core.edits \in Nat /\ Leq(core, core)
  BY CoreFields, LeqReflexive DEF IInv, TypeOK
<1>2. /\ core' \in Core /\ core'.sent = core.sent /\ core'.texts = core.texts
      /\ core'.edits = core.edits + 1
  BY <1>1 DEF Edit, Core
<1>3. Leq(core, core')
  BY <1>1, <1>2 DEF Leq
<1>4. session' \in [Accounts -> {"none", "starting", "up"}]
  BY DEF Edit, IInv, TypeOK
<1>5. Begins("edit") /\ Calls({})
  BY DEF Edit
<1> QED
  BY <1>2, <1>3, <1>4, <1>5, CallInv

\* A later epoch leaves the records of the saves as they are.
LEMMA LaterEpoch ==
  ASSUME TypeOK, epoch' = epoch + 1, UNCHANGED <<persisted, saver>>
  PROVE  epoch' \in Nat /\ persisted' \in 0..epoch' /\ saver' \in [Savers -> SaveRecord(epoch')]
<1>1. epoch \in Nat /\ persisted \in 0..epoch /\ saver \in [Savers -> SaveRecord(epoch)]
  BY DEF TypeOK
<1>2. 0..epoch \subseteq 0..epoch'
  BY <1>1
<1>3. SaveRecord(epoch) \subseteq SaveRecord(epoch')
  BY <1>2 DEF SaveRecord
<1> QED
  BY <1>1, <1>2, <1>3

LEMMA MethodMarksInv ==
  ASSUME IInv, MethodMarks
  PROVE  IInv'
<1>1. TypeOK'
  <2>1. epoch' \in Nat /\ persisted' \in 0..epoch' /\ saver' \in [Savers -> SaveRecord(epoch')]
    BY LaterEpoch DEF IInv, MethodMarks
  <2>2. main' \in [at : {"idle", "marks", "refreshes"}, schedule : SUBSET Accounts]
    BY DEF IInv, TypeOK, MethodMarks
  <2>3. pendingOutbox' \subseteq Accounts
    BY DEF IInv, TypeOK, MethodMarks
  <2> QED
    BY <2>1, <2>2, <2>3 DEF IInv, TypeOK, MethodMarks
<1>2. DrainsHaveRoom' /\ PollWaitsForSave'
  BY DEF IInv, DrainsHaveRoom, PollWaitsForSave, MethodMarks
<1>3. SaveInv'
  BY MarkKeeps DEF MethodMarks
<1> QED
  BY <1>1, <1>2, <1>3 DEF IInv, SaveInv

LEMMA MethodRefreshesInv ==
  ASSUME IInv, MethodRefreshes
  PROVE  IInv'
<1>1. /\ UNCHANGED <<core, disk, session, events, pendingOutbox, epoch, persisted, mutex, saver,
                     poll, started, cancelled>>
      /\ ui' = core /\ main.at = "refreshes" /\ main' = NoMethod
  BY DEF MethodRefreshes, tracker
<1>2. main' \in [at : {"idle", "marks", "refreshes"}, schedule : SUBSET Accounts]
  BY <1>1 DEF NoMethod
<1>3. TypeOK'
  BY <1>1, <1>2 DEF IInv, TypeOK
<1>4. DrainsHaveRoom' /\ PollWaitsForSave'
  BY <1>1 DEF IInv, DrainsHaveRoom, PollWaitsForSave
<1>5. Unmarked => Unmarked'
  BY <1>1 DEF Unmarked
<1>6. SaveInv'
  BY <1>1, <1>5, QuietKeeps
<1> QED
  BY <1>3, <1>4, <1>6 DEF IInv, SaveInv

LEMMA EmitEventInv ==
  ASSUME IInv, NEW e \in Event, EmitEvent(e.kind, e.account),
         session' \in [Accounts -> {"none", "starting", "up"}]
  PROVE  IInv'
<1>1. UNCHANGED <<core, ui, disk, pendingOutbox, epoch, persisted, mutex, saver, main, poll,
                  started, cancelled>>
  BY DEF EmitEvent, tracker
<1>2. events' \in Seq(Event)
  <2>1. [kind |-> e.kind, account |-> e.account] \in Event
    BY DEF Event
  <2> DEFINE f == [kind |-> e.kind, account |-> e.account]
  <2> HIDE DEF f
  <2>2. events' = Append(events, f) /\ f \in Event /\ events \in Seq(Event)
    BY <2>1 DEF EmitEvent, IInv, TypeOK, f
  <2> QED
    BY <2>2, AppendProperties
<1>3. TypeOK'
  BY <1>1, <1>2 DEF IInv, TypeOK
<1>4. DrainsHaveRoom' /\ PollWaitsForSave'
  BY <1>1 DEF IInv, DrainsHaveRoom, PollWaitsForSave
<1>5. Unmarked => Unmarked'
  BY <1>1 DEF Unmarked
<1>6. SaveInv'
  BY <1>1, <1>5, QuietKeeps
<1> QED
  BY <1>3, <1>4, <1>6 DEF IInv, SaveInv

LEMMA TransportStepInv ==
  ASSUME IInv, TransportStep
  PROVE  IInv'
<1>1. PICK a \in Accounts : SessionSettles(a) \/ SessionEnds(a) \/ TextArrives(a)
  BY DEF TransportStep
<1>2. session' \in [Accounts -> {"none", "starting", "up"}]
  BY <1>1 DEF SessionSettles, SessionEnds, TextArrives, IInv, TypeOK
<1>3. \E kind \in {"Connected", "Disconnected", "IncomingText"} : EmitEvent(kind, a)
  BY <1>1 DEF SessionSettles, SessionEnds, TextArrives
<1>4. PICK kind \in {"Connected", "Disconnected", "IncomingText"} : EmitEvent(kind, a)
  BY <1>3
<1> DEFINE e == [kind |-> kind, account |-> a]
<1>5. e \in Event /\ e.kind = kind /\ e.account = a
  BY DEF Event
<1> HIDE DEF e
<1> QED
  BY <1>2, <1>4, <1>5, EmitEventInv

-----------------------------------------------------------------------------
(* The poll. *)

\* A step of the poll that changes neither the core nor the tracker.
LEMMA PollQuiet ==
  ASSUME IInv, InPoll, UNCHANGED <<core, epoch>>,
         ui' \in Core, events' \in Seq(Event), pendingOutbox' \subseteq Accounts,
         saver' \in [Savers -> SaveRecord(epoch)], cancelled' \in BOOLEAN, poll' \in PollRecord,
         DrainsHaveRoom', PollWaitsForSave', Unmarked => Unmarked',
         \A s \in Savers : Holds(s)' => saver'[s] = saver[s]
  PROVE  IInv'
<1>1. UNCHANGED <<core, disk, session, epoch, persisted, mutex, main, started>>
  BY DEF InPoll
<1>2. TypeOK'
  BY <1>1 DEF IInv, TypeOK
<1>3. SaveInv'
  BY <1>1, QuietKeeps
<1> QED
  BY <1>2, <1>3 DEF IInv, SaveInv

LEMMA PollTo ==
  ASSUME TypeOK, NEW pc \in {"idle", "drains", "flushes", "marks", "snaps", "checks", "saves", "resumes"}
  PROVE  [poll EXCEPT !.pc = pc] \in PollRecord /\ [poll EXCEPT !.pc = pc].pc = pc
<1>1. poll \in PollRecord
  BY DEF TypeOK
<1> QED
  BY <1>1 DEF PollRecord

LEMMA PollTyped ==
  ASSUME TypeOK
  PROVE  /\ poll \in PollRecord /\ poll.snap \in Core /\ poll.pending \subseteq Accounts
         /\ poll.left \subseteq Accounts /\ poll.processed \in BOOLEAN /\ poll.batches \in Nat
<1>1. poll \in PollRecord
  BY DEF TypeOK
<1> QED
  BY <1>1 DEF PollRecord

LEMMA PollBeginsInv ==
  ASSUME IInv, PollBegins
  PROVE  IInv'
<1>1. poll' \in PollRecord /\ poll'.batches = 0 /\ poll'.processed = FALSE /\ poll'.pc = "drains"
  <2>1. poll \in PollRecord /\ pendingOutbox \in SUBSET Accounts /\ Online(ui) \in SUBSET Accounts
    BY DEF IInv, TypeOK, Online
  <2>2. 0 \in 0..MaxDrainBatches
    BY Bounds
  <2> DEFINE f == FALSE
  <2>3. poll' = [poll EXCEPT !.pc = "drains", !.pending = pendingOutbox, !.online = Online(ui),
                             !.processed = f, !.batches = 0, !.left = pendingOutbox] /\ f \in BOOLEAN
    BY DEF PollBegins
  <2> HIDE DEF f
  <2>4. poll' \in PollRecord /\ poll'.batches = 0 /\ poll'.processed = f /\ poll'.pc = "drains"
    BY <2>1, <2>2, <2>3 DEF PollRecord
  <2> QED
    BY <2>4 DEF f
<1>2. poll.pc = "idle"
  BY DEF PollBegins
<1>3. DrainsHaveRoom'
  BY <1>1, Bounds DEF DrainsHaveRoom
<1>4. PollWaitsForSave'
  BY <1>2 DEF PollWaitsForSave, IInv, PollBegins
<1>5. Unmarked => Unmarked'
  BY <1>2 DEF Unmarked, PollBegins, InPoll
<1>6. UNCHANGED <<core, ui, events, pendingOutbox, epoch, saver, cancelled>> /\ InPoll
  BY DEF PollBegins
<1>7. /\ ui \in Core /\ events \in Seq(Event) /\ pendingOutbox \subseteq Accounts
      /\ saver \in [Savers -> SaveRecord(epoch)] /\ cancelled \in BOOLEAN
  BY DEF IInv, TypeOK
<1> QED
  BY <1>1, <1>3, <1>4, <1>5, <1>6, <1>7, QuietSavers, PollQuiet

LEMMA Batches ==
  ASSUME NEW es \in Seq(Event), NEW n \in 0..Len(es)
  PROVE  /\ SubSeq(es, 1, n) \in Seq(Event) /\ Len(SubSeq(es, 1, n)) = n
         /\ SubSeq(es, n + 1, Len(es)) \in Seq(Event)
<1>1. Len(es) \in Nat /\ \A i \in 1..Len(es) : es[i] \in Event
  OBVIOUS
<1>2. \A i \in 1..n : es[i] \in Event
  BY <1>1
<1>3. \A i \in (n + 1)..Len(es) : es[i] \in Event
  BY <1>1
<1> QED
  BY <1>1, <1>2, <1>3, SubSeqProperties

LEMMA PollDrainsInv ==
  ASSUME IInv, PollDrains
  PROVE  IInv'
<1> DEFINE n == IF Len(events) < DrainBatch THEN Len(events) ELSE DrainBatch
           processed == poll.processed \/ n > 0
           again == n = DrainBatch /\ poll.batches + 1 < MaxDrainBatches
           unchanged == ~processed /\ poll.pending \cap poll.online = {}
           pc == IF again THEN "drains" ELSE IF unchanged THEN "idle" ELSE "flushes"
           now == SubSeq(events, 1, n)
<1>1. events \in Seq(Event) /\ Len(events) \in Nat /\ core \in Core /\ n \in 0..Len(events)
  BY Bounds DEF IInv, TypeOK
<1>2. now \in Seq(Event) /\ Len(now) = n /\ SubSeq(events, n + 1, Len(events)) \in Seq(Event)
  <2> HIDE DEF n
  <2> QED
    BY <1>1, Batches
<1>3. /\ core' = ApplyEvents(core, now)
      /\ events' = SubSeq(events, n + 1, Len(events))
      /\ poll' = [poll EXCEPT !.processed = processed, !.batches = poll.batches + 1, !.pc = pc]
      /\ cancelled' = (cancelled /\ poll'.pc # "idle")
      /\ poll.pc = "drains"
      /\ UNCHANGED <<ui, disk, session, pendingOutbox, epoch, persisted, mutex, saver, main, started>>
  BY DEF PollDrains, InPoll
<1>4. core' \in Core /\ Leq(core, core') /\ (n = 0 => core' = core)
  <2> HIDE DEF now
  <2> QED
    BY <1>1, <1>2, <1>3, ApplyEventsFields
<1>5. /\ poll.batches \in Nat /\ poll.batches < MaxDrainBatches /\ MaxDrainBatches \in Nat
      /\ poll.batches + 1 \in 0..MaxDrainBatches /\ poll.processed \in BOOLEAN
  BY PollTyped, Bounds, <1>3 DEF IInv, DrainsHaveRoom
<1>6. processed \in BOOLEAN /\ pc \in {"drains", "idle", "flushes"}
  BY <1>5
<1>7. /\ poll' \in PollRecord /\ poll'.pc = pc /\ poll'.processed = processed
      /\ poll'.batches = poll.batches + 1
  <2>1. poll \in PollRecord
    BY PollTyped DEF IInv
  <2> HIDE DEF pc, processed
  <2> QED
    BY <1>3, <1>5, <1>6, <2>1 DEF PollRecord
<1>8. pc = "drains" => poll.batches + 1 < MaxDrainBatches /\ n > 0
  BY Bounds
<1>9. DrainsHaveRoom'
  BY <1>5, <1>7, <1>8 DEF DrainsHaveRoom
<1>10. PollWaitsForSave'
  BY <1>3 DEF IInv, PollWaitsForSave
<1>11. TypeOK'
  <2>1. cancelled' \in BOOLEAN
    BY <1>3, Zenon
  <2> QED
    BY <1>2, <1>3, <1>4, <1>7, <2>1 DEF IInv, TypeOK
<1>12. processed => Unmarked'
  <2>1. processed => pc \in {"drains", "flushes"}
    OBVIOUS
  <2> HIDE DEF processed, pc
  <2> QED
    BY <1>7, <2>1 DEF Unmarked
<1>13. SaveInv'
  <2>1. CASE n > 0
    <3>1. Unmarked'
      BY <1>12, <2>1
    <3> QED
      BY <1>3, <1>4, <3>1, MutationKeeps
  <2>2. CASE n = 0
    <3>1. core' = core
      BY <1>4, <2>2
    <3>2. Unmarked => Unmarked'
      <4>1. poll.processed => Unmarked'
        BY <1>12
      <4> QED
        BY <1>3, <4>1 DEF Unmarked
    <3> QED
      BY <1>3, <3>1, <3>2, QuietSavers, QuietKeeps
  <2> QED
    BY <1>1, <2>1, <2>2
<1> QED
  BY <1>9, <1>10, <1>11, <1>13 DEF IInv, SaveInv

LEMMA PollFlushesInv ==
  ASSUME IInv, PollFlushes
  PROVE  IInv'
<1>1. /\ UNCHANGED <<ui, disk, session, events, pendingOutbox, epoch, persisted, mutex, saver, main,
                     started, cancelled>>
      /\ poll.pc = "flushes"
  BY DEF PollFlushes, InPoll
<1>2. core \in Core /\ Leq(core, core)
  BY LeqReflexive DEF IInv, TypeOK
<1>3. core' \in Core /\ Leq(core, core')
  BY <1>2, FlushedFields DEF PollFlushes
<1>4. poll' \in PollRecord /\ poll'.pc \in {"flushes", "marks"}
  <2>1. CASE poll' = [poll EXCEPT !.pc = "marks"]
    BY <2>1, PollTo DEF IInv
  <2>2. ASSUME NEW a, poll' = [poll EXCEPT !.left = @ \ {a}]
        PROVE  poll' \in PollRecord /\ poll'.pc \in {"flushes", "marks"}
    <3> DEFINE left == poll.left \ {a}
    <3>1. poll \in PollRecord /\ left \in SUBSET Accounts /\ poll' = [poll EXCEPT !.left = left]
      BY <2>2, PollTyped DEF IInv
    <3> HIDE DEF left
    <3> QED
      BY <1>1, <3>1 DEF PollRecord
  <2> QED
    BY <2>1, <2>2 DEF PollFlushes
<1>5. TypeOK'
  BY <1>1, <1>3, <1>4 DEF IInv, TypeOK
<1>6. DrainsHaveRoom' /\ PollWaitsForSave'
  BY <1>1, <1>4 DEF IInv, DrainsHaveRoom, PollWaitsForSave
<1>7. Unmarked'
  BY <1>4 DEF Unmarked
<1>8. SaveInv'
  BY <1>1, <1>3, <1>7, MutationKeeps
<1> QED
  BY <1>5, <1>6, <1>8 DEF IInv, SaveInv

LEMMA PollMarksInv ==
  ASSUME IInv, PollMarks
  PROVE  IInv'
<1>1. /\ UNCHANGED <<core, ui, disk, session, events, pendingOutbox, persisted, mutex, saver, main,
                     started, cancelled>>
      /\ poll.pc = "marks" /\ epoch' = epoch + 1 /\ poll' = [poll EXCEPT !.pc = "snaps"]
  BY DEF PollMarks, InPoll
<1>2. poll' \in PollRecord /\ poll'.pc = "snaps"
  BY <1>1, PollTo DEF IInv
<1>3. epoch' \in Nat /\ persisted' \in 0..epoch' /\ saver' \in [Savers -> SaveRecord(epoch')]
  BY <1>1, LaterEpoch DEF IInv
<1>4. TypeOK'
  BY <1>1, <1>2, <1>3 DEF IInv, TypeOK
<1>5. DrainsHaveRoom' /\ PollWaitsForSave'
  BY <1>1, <1>2 DEF IInv, DrainsHaveRoom, PollWaitsForSave
<1>6. SaveInv'
  BY <1>1, MarkKeeps
<1> QED
  BY <1>4, <1>5, <1>6 DEF IInv, SaveInv

LEMMA PollSnapshotsInv ==
  ASSUME IInv, PollSnapshots
  PROVE  IInv'
<1>1. /\ UNCHANGED <<core, ui, events, pendingOutbox, epoch, saver, cancelled>> /\ InPoll
      /\ poll.pc = "snaps" /\ poll' = [poll EXCEPT !.pc = "checks", !.snap = core]
  BY DEF PollSnapshots
<1>2. /\ core \in Core /\ ui \in Core /\ events \in Seq(Event) /\ pendingOutbox \subseteq Accounts
      /\ saver \in [Savers -> SaveRecord(epoch)] /\ cancelled \in BOOLEAN /\ poll \in PollRecord
  BY DEF IInv, TypeOK
<1>3. poll' \in PollRecord /\ poll'.pc = "checks"
  BY <1>1, <1>2 DEF PollRecord
<1>4. DrainsHaveRoom' /\ PollWaitsForSave'
  BY <1>1, <1>3 DEF IInv, DrainsHaveRoom, PollWaitsForSave
<1>5. Unmarked => Unmarked'
  BY <1>1 DEF Unmarked, InPoll
<1> QED
  BY <1>1, <1>2, <1>3, <1>4, <1>5, QuietSavers, PollQuiet

\* One save moves to a place where it does not hold the mutex.
LEMMA SaverTo ==
  ASSUME TypeOK, NEW s \in Savers, NEW pc \in {"idle", "ready", "waits"},
         saver' = [saver EXCEPT ![s].pc = pc]
  PROVE  /\ saver' \in [Savers -> SaveRecord(epoch)]
         /\ saver'[s].pc = pc /\ \A t \in Savers \ {s} : saver'[t] = saver[t]
         /\ \A t \in Savers : Holds(t)' => saver'[t] = saver[t]
<1> DEFINE r == [saver[s] EXCEPT !.pc = pc]
<1>1. saver[s] \in SaveRecord(epoch) /\ saver \in [Savers -> SaveRecord(epoch)]
  BY DEF TypeOK
<1>2. r \in SaveRecord(epoch) /\ r.pc = pc
  BY <1>1 DEF SaveRecord
<1>3. saver' = [saver EXCEPT ![s] = r]
  OBVIOUS
<1> HIDE DEF r
<1>4. /\ saver' \in [Savers -> SaveRecord(epoch)] /\ saver'[s] = r
      /\ \A t \in Savers \ {s} : saver'[t] = saver[t]
  BY <1>1, <1>2, <1>3
<1> QED
  BY <1>2, <1>4 DEF Holds

LEMMA PollSavesInv ==
  ASSUME IInv, PollSaves
  PROVE  IInv'
<1>1. /\ UNCHANGED <<core, ui, events, pendingOutbox, epoch, cancelled>> /\ InPoll
      /\ poll.pc = "checks"
      /\ \/ poll' = [poll EXCEPT !.pc = "saves"] /\ saver' = [saver EXCEPT !["poll"].pc = "waits"]
         \/ poll' = [poll EXCEPT !.pc = "resumes"] /\ UNCHANGED saver
  BY DEF PollSaves
<1>2. /\ ui \in Core /\ events \in Seq(Event) /\ pendingOutbox \subseteq Accounts
      /\ saver \in [Savers -> SaveRecord(epoch)] /\ cancelled \in BOOLEAN /\ poll \in PollRecord
  BY DEF IInv, TypeOK
<1>3. poll' \in PollRecord /\ poll'.pc \in {"saves", "resumes"}
  BY <1>1, PollTo DEF IInv
<1>4. "poll" \in Savers
  BY DEF Savers
<1>5. /\ saver' \in [Savers -> SaveRecord(epoch)]
      /\ \A s \in Savers : Holds(s)' => saver'[s] = saver[s]
  BY <1>1, <1>2, <1>4, SaverTo DEF IInv
<1>6. DrainsHaveRoom'
  BY <1>3 DEF DrainsHaveRoom
<1>7. PollWaitsForSave'
  <2>1. CASE poll' = [poll EXCEPT !.pc = "saves"]
    BY <1>2, <2>1 DEF PollWaitsForSave, PollRecord
  <2>2. CASE UNCHANGED saver
    BY <1>1, <2>2 DEF IInv, PollWaitsForSave
  <2> QED
    BY <1>1, <2>1, <2>2
<1>8. Unmarked => Unmarked'
  BY <1>1 DEF Unmarked, InPoll
<1> QED
  BY <1>1, <1>2, <1>3, <1>5, <1>6, <1>7, <1>8, PollQuiet

LEMMA PollResumesInv ==
  ASSUME IInv, PollResumes
  PROVE  IInv'
<1>1. /\ UNCHANGED <<core, events, epoch, saver, cancelled>> /\ InPoll
      /\ poll.pc = "resumes" /\ poll' = [poll EXCEPT !.pc = "idle"] /\ ui' = poll.snap
  BY DEF PollResumes
<1>2. /\ events \in Seq(Event) /\ saver \in [Savers -> SaveRecord(epoch)] /\ cancelled \in BOOLEAN
      /\ ui' \in Core /\ pendingOutbox' \subseteq Accounts
  BY PollTyped DEF IInv, TypeOK, PollResumes, Online
<1>3. poll' \in PollRecord /\ poll'.pc = "idle"
  BY <1>1, PollTo DEF IInv
<1>4. DrainsHaveRoom' /\ PollWaitsForSave'
  BY <1>1, <1>3 DEF IInv, DrainsHaveRoom, PollWaitsForSave
<1>5. Unmarked => Unmarked'
  BY <1>1 DEF Unmarked, InPoll
<1> QED
  BY <1>1, <1>2, <1>3, <1>4, <1>5, QuietSavers, PollQuiet

LEMMA PollDroppedInv ==
  ASSUME IInv, PollDropped
  PROVE  IInv'
<1>1. /\ UNCHANGED <<core, ui, events, pendingOutbox, epoch, saver>> /\ InPoll
      /\ poll.pc = "resumes" \/ (poll.pc = "drains" /\ poll.batches = 0)
      /\ poll' = [poll EXCEPT !.pc = "idle"] /\ cancelled' \in BOOLEAN
  BY DEF PollDropped
<1>2. /\ ui \in Core /\ events \in Seq(Event) /\ pendingOutbox \subseteq Accounts
      /\ saver \in [Savers -> SaveRecord(epoch)]
  BY DEF IInv, TypeOK
<1>3. poll' \in PollRecord /\ poll'.pc = "idle"
  BY <1>1, PollTo DEF IInv
<1>4. DrainsHaveRoom' /\ PollWaitsForSave'
  BY <1>1, <1>3 DEF IInv, DrainsHaveRoom, PollWaitsForSave
<1>5. Unmarked => Unmarked'
  <2>1. ~(poll.pc = "drains" /\ poll.processed)
    BY <1>1 DEF IInv, DrainsHaveRoom
  <2> QED
    BY <1>1, <2>1 DEF Unmarked, InPoll
<1> QED
  BY <1>1, <1>2, <1>3, <1>4, <1>5, QuietSavers, PollQuiet

-----------------------------------------------------------------------------
(* The saves and the lifecycle, step by step. *)

LEMMA LifeJobsApart == "poll" \notin LifeJobs /\ Nobody \notin Savers /\ "poll" \in Savers
  BY GatewayAssumption DEF Savers, Nobody

LEMMA PersistNowInv ==
  ASSUME IInv, NEW j \in LifeJobs, PersistNow(j)
  PROVE  IInv'
<1> DEFINE pc == IF epoch # persisted THEN "waits" ELSE "idle"
<1>1. /\ UNCHANGED <<core, ui, disk, session, events, pendingOutbox, epoch, persisted, mutex, main,
                     poll, started, cancelled>>
      /\ saver' = [saver EXCEPT ![j].pc = pc] /\ pc \in {"idle", "ready", "waits"}
  BY DEF PersistNow, InSave
<1>2. j \in Savers /\ j # "poll" /\ "poll" \in Savers
  BY LifeJobsApart DEF Savers
<1> HIDE DEF pc
<1>3. /\ saver' \in [Savers -> SaveRecord(epoch)]
      /\ \A t \in Savers \ {j} : saver'[t] = saver[t]
      /\ \A t \in Savers : Holds(t)' => saver'[t] = saver[t]
  BY <1>1, <1>2, SaverTo DEF IInv
<1>4. TypeOK'
  BY <1>1, <1>3 DEF IInv, TypeOK
<1>5. DrainsHaveRoom' /\ PollWaitsForSave'
  BY <1>1, <1>2, <1>3 DEF IInv, DrainsHaveRoom, PollWaitsForSave
<1>6. Unmarked => Unmarked'
  BY <1>1 DEF Unmarked
<1>7. SaveInv'
  BY <1>1, <1>3, <1>6, QuietKeeps
<1> QED
  BY <1>4, <1>5, <1>7 DEF IInv, SaveInv

LEMMA SaveAbandonedInv ==
  ASSUME IInv, SaveAbandoned
  PROVE  IInv'
<1>1. /\ UNCHANGED <<core, ui, disk, session, events, pendingOutbox, epoch, persisted, mutex, main,
                     started>>
      /\ saver["poll"].pc = "waits" /\ saver' = [saver EXCEPT !["poll"].pc = "idle"]
      /\ poll' = [poll EXCEPT !.pc = "idle"] /\ cancelled' \in BOOLEAN
  BY DEF SaveAbandoned, InSave
<1>2. poll.pc = "saves"
  BY <1>1 DEF IInv, PollWaitsForSave
<1>3. poll' \in PollRecord /\ poll'.pc = "idle"
  BY <1>1, PollTo DEF IInv
<1>4. /\ saver' \in [Savers -> SaveRecord(epoch)] /\ saver'["poll"].pc = "idle"
      /\ \A t \in Savers : Holds(t)' => saver'[t] = saver[t]
  BY <1>1, LifeJobsApart, SaverTo DEF IInv
<1>5. TypeOK'
  BY <1>1, <1>3, <1>4 DEF IInv, TypeOK
<1>6. DrainsHaveRoom' /\ PollWaitsForSave'
  BY <1>3, <1>4 DEF DrainsHaveRoom, PollWaitsForSave
<1>7. Unmarked => Unmarked'
  BY <1>1, <1>2 DEF Unmarked
<1>8. SaveInv'
  BY <1>1, <1>4, <1>7, QuietKeeps
<1> QED
  BY <1>5, <1>6, <1>8 DEF IInv, SaveInv

\* The record of one save is replaced.
LEMMA SaverIs ==
  ASSUME TypeOK, NEW s \in Savers, NEW r \in SaveRecord(epoch), saver' = [saver EXCEPT ![s] = r]
  PROVE  /\ saver' \in [Savers -> SaveRecord(epoch)] /\ saver'[s] = r
         /\ \A t \in Savers \ {s} : saver'[t] = saver[t]
  BY DEF TypeOK

LEMMA SaveLocksInv ==
  ASSUME IInv, NEW s \in Savers, SaveLocks(s)
  PROVE  IInv'
<1> DEFINE r == [saver[s] EXCEPT !.pc = "captured", !.epoch = epoch]
<1>1. /\ UNCHANGED <<core, ui, disk, session, events, pendingOutbox, epoch, persisted, main, poll,
                     started, cancelled>>
      /\ saver[s].pc = "waits" /\ mutex = Nobody /\ mutex' = s
      /\ saver' = [saver EXCEPT ![s] = r]
  BY DEF SaveLocks, InSave
<1>2. r \in SaveRecord(epoch) /\ r.pc = "captured" /\ r.epoch = epoch
  <2>1. saver[s] \in SaveRecord(epoch) /\ epoch \in 0..epoch
    BY SaverTyped DEF IInv
  <2> QED
    BY <2>1 DEF SaveRecord
<1> HIDE DEF r
<1>3. /\ saver' \in [Savers -> SaveRecord(epoch)] /\ saver'[s] = r
      /\ \A t \in Savers \ {s} : saver'[t] = saver[t]
  BY <1>1, <1>2, SaverIs DEF IInv
<1>4. TypeOK'
  BY <1>1, <1>3 DEF IInv, TypeOK
<1>5. DrainsHaveRoom'
  BY <1>1 DEF IInv, DrainsHaveRoom
<1>6. PollWaitsForSave'
  BY <1>1, <1>3, LifeJobsApart DEF IInv, PollWaitsForSave
<1>7. \A t \in Savers : ~Holds(t)
  BY <1>1, LifeJobsApart DEF IInv, HolderIsAhead
<1>8. HolderIsAhead'
  <2>1. persisted <= epoch
    BY DEF IInv, TypeOK
  <2>2. \A t \in Savers \ {s} : ~Holds(t)'
    BY <1>3, <1>7 DEF Holds
  <2> QED
    BY <1>1, <1>2, <1>3, <2>1, <2>2 DEF HolderIsAhead
<1>9. \A t \in Savers : saver'[t].pc # "taken"
  BY <1>2, <1>3, <1>7 DEF Holds
<1>10. ImageIsCurrent'
  BY <1>9 DEF ImageIsCurrent
<1>11. ImageIsBetween'
  BY <1>1, <1>9 DEF IInv, ImageIsBetween
<1>12. CleanMeansSaved'
  BY <1>1 DEF IInv, CleanMeansSaved, Unmarked
<1> QED
  BY <1>4, <1>5, <1>6, <1>8, <1>10, <1>11, <1>12 DEF IInv

LEMMA SaveTakesInv ==
  ASSUME IInv, NEW s \in Savers, SaveTakes(s)
  PROVE  IInv'
<1> DEFINE image == Durable(core)
           r == [saver[s] EXCEPT !.pc = "taken", !.image = image]
<1>1. /\ UNCHANGED <<core, ui, disk, session, events, pendingOutbox, epoch, persisted, mutex, main,
                     poll, started, cancelled>>
      /\ saver[s].pc = "captured" /\ saver' = [saver EXCEPT ![s] = r]
  BY DEF SaveTakes, InSave
<1>2. core \in Core /\ disk \in Core /\ image \in Core
  BY DurableFields DEF IInv, TypeOK
<1>3. r \in SaveRecord(epoch) /\ r.pc = "taken" /\ r.epoch = saver[s].epoch /\ r.image = image
  <2>1. saver[s] \in SaveRecord(epoch)
    BY SaverTyped DEF IInv
  <2> HIDE DEF image
  <2> QED
    BY <1>2, <2>1 DEF SaveRecord
<1> HIDE DEF r
<1>4. /\ saver' \in [Savers -> SaveRecord(epoch)] /\ saver'[s] = r
      /\ \A t \in Savers \ {s} : saver'[t] = saver[t]
  BY <1>1, <1>3, SaverIs DEF IInv
<1>5. TypeOK'
  BY <1>1, <1>4 DEF IInv, TypeOK
<1>6. DrainsHaveRoom'
  BY <1>1 DEF IInv, DrainsHaveRoom
<1>7. PollWaitsForSave'
  BY <1>1, <1>4, LifeJobsApart DEF IInv, PollWaitsForSave
<1>8. Holds(s) /\ \A t \in Savers : Holds(t)' => Holds(t) /\ saver'[t].epoch = saver[t].epoch
  BY <1>1, <1>3, <1>4 DEF Holds
<1>9. HolderIsAhead'
  BY <1>1, <1>8 DEF IInv, HolderIsAhead
<1>10. ImageIsCurrent'
  BY <1>1, <1>3, <1>4 DEF IInv, ImageIsCurrent, Unmarked
<1>11. Leq(disk, image) /\ Leq(image, core)
  <2>1. /\ image.sent = core.sent /\ image.texts = core.texts /\ image.edits = core.edits
        /\ Leq(disk, core)
    BY <1>2, DurableFields DEF IInv, ImageIsBetween
  <2> HIDE DEF image
  <2>2. Leq(core, image) /\ Leq(image, core)
    BY <1>2, <2>1, SameProgress
  <2> QED
    BY <1>2, <2>1, <2>2, LeqTransitive
<1>12. ImageIsBetween'
  <2>1. ASSUME NEW t \in Savers, saver'[t].pc = "taken"
        PROVE  Leq(disk, saver'[t].image) /\ Leq(saver'[t].image, core)
    <3>1. CASE t = s
      BY <1>3, <1>4, <1>11, <3>1
    <3>2. CASE t # s
      BY <1>4, <2>1, <3>2 DEF IInv, ImageIsBetween
    <3> QED
      BY <3>1, <3>2
  <2> QED
    BY <1>1, <2>1 DEF IInv, ImageIsBetween
<1>13. CleanMeansSaved'
  BY <1>1 DEF IInv, CleanMeansSaved, Unmarked
<1> QED
  BY <1>5, <1>6, <1>7, <1>9, <1>10, <1>12, <1>13 DEF IInv

LEMMA SaveWritesInv ==
  ASSUME IInv, NEW s \in Savers, SaveWrites(s)
  PROVE  IInv'
<1> DEFINE r == NoSave(disk')
<1>1. /\ UNCHANGED <<core, ui, session, events, pendingOutbox, epoch, main, started, cancelled>>
      /\ saver[s].pc = "taken" /\ mutex' = Nobody /\ saver' = [saver EXCEPT ![s] = r]
      /\ poll' = IF s = "poll" THEN [poll EXCEPT !.pc = "resumes"] ELSE poll
      /\ \/ disk' = saver[s].image /\ persisted' = Acknowledged(s)
         \/ UNCHANGED <<disk, persisted>>
  BY DEF SaveWrites, InSave
<1>2. /\ saver[s].epoch \in 0..epoch /\ saver[s].image \in Core /\ epoch \in Nat
      /\ persisted \in 0..epoch /\ disk \in Core
  BY SaverTyped DEF IInv, TypeOK
<1>3. disk' \in Core
  BY <1>1, <1>2
<1>4. r \in SaveRecord(epoch) /\ r.pc = "idle"
  <2>1. 0 \in 0..epoch
    BY <1>2
  <2> QED
    BY <1>3, <2>1 DEF NoSave, SaveRecord
<1> HIDE DEF r
<1>5. /\ saver' \in [Savers -> SaveRecord(epoch)] /\ saver'[s] = r
      /\ \A t \in Savers \ {s} : saver'[t] = saver[t]
  BY <1>1, <1>4, SaverIs DEF IInv
<1>6. Holds(s) /\ mutex = s /\ persisted <= saver[s].epoch
  BY <1>1 DEF IInv, HolderIsAhead, Holds
<1>7. \A t \in Savers : ~Holds(t)'
  BY <1>4, <1>5, <1>6 DEF IInv, HolderIsAhead, Holds
<1>8. persisted' \in 0..epoch
  BY <1>1, <1>2, <1>6 DEF Acknowledged
<1>9. poll' \in PollRecord /\ (s = "poll" => poll.pc = "saves" /\ poll'.pc = "resumes")
                           /\ (s # "poll" => poll' = poll)
  <2>1. s = "poll" => poll.pc = "saves"
    BY <1>1 DEF IInv, PollWaitsForSave
  <2>2. poll \in PollRecord
    BY PollTyped DEF IInv
  <2> QED
    BY <1>1, <2>1, <2>2, PollTo DEF IInv
<1>10. TypeOK'
  BY <1>1, <1>3, <1>5, <1>8, <1>9 DEF IInv, TypeOK
<1>11. DrainsHaveRoom'
  BY <1>9 DEF IInv, DrainsHaveRoom
<1>12. PollWaitsForSave'
  BY <1>4, <1>5, <1>9, LifeJobsApart DEF IInv, PollWaitsForSave
<1>13. Unmarked => Unmarked'
  BY <1>1, <1>9 DEF Unmarked
<1>14. HolderIsAhead'
  BY <1>7 DEF HolderIsAhead
<1>15. \A t \in Savers : saver'[t].pc # "taken"
  BY <1>7 DEF Holds
<1>16. ImageIsCurrent'
  BY <1>15 DEF ImageIsCurrent
<1>17. ImageIsBetween'
  <2>1. Leq(disk', core')
    BY <1>1 DEF IInv, ImageIsBetween
  <2> QED
    BY <1>15, <2>1 DEF ImageIsBetween
<1>18. CleanMeansSaved'
  <2>1. CASE disk' = saver[s].image /\ persisted' = Acknowledged(s)
    <3>1. persisted' = saver[s].epoch
      BY <1>2, <1>6, <2>1 DEF Acknowledged
    <3>2. saver[s].epoch = epoch /\ ~Unmarked' => saver[s].image = Durable(core)
      BY <1>1, <1>13 DEF IInv, ImageIsCurrent
    <3> QED
      BY <1>1, <2>1, <3>1, <3>2 DEF CleanMeansSaved
  <2>2. CASE UNCHANGED <<disk, persisted>>
    BY <1>1, <1>13, <2>2 DEF IInv, CleanMeansSaved
  <2> QED
    BY <1>1, <2>1, <2>2
<1> QED
  BY <1>10, <1>11, <1>12, <1>14, <1>16, <1>17, <1>18 DEF IInv

LEMMA StopInv ==
  ASSUME IInv, Stop
  PROVE  IInv'
<1>1. /\ UNCHANGED <<core, ui, disk, session, events, pendingOutbox, epoch, persisted, mutex, main,
                     poll>>
      /\ started' \in BOOLEAN /\ cancelled' \in BOOLEAN
  BY DEF Stop, InLife, tracker
<1>2. PICK j \in LifeJobs : saver' = [saver EXCEPT ![j].pc = "ready"]
  BY DEF Stop
<1>3. j \in Savers /\ j # "poll" /\ "poll" \in Savers
  BY LifeJobsApart DEF Savers
<1>4. /\ saver' \in [Savers -> SaveRecord(epoch)]
      /\ \A t \in Savers \ {j} : saver'[t] = saver[t]
      /\ \A t \in Savers : Holds(t)' => saver'[t] = saver[t]
  BY <1>2, <1>3, SaverTo DEF IInv
<1>5. TypeOK'
  BY <1>1, <1>4 DEF IInv, TypeOK
<1>6. DrainsHaveRoom' /\ PollWaitsForSave'
  BY <1>1, <1>3, <1>4 DEF IInv, DrainsHaveRoom, PollWaitsForSave
<1>7. Unmarked => Unmarked'
  BY <1>1 DEF Unmarked
<1>8. SaveInv'
  BY <1>1, <1>4, <1>7, QuietKeeps
<1> QED
  BY <1>5, <1>6, <1>8 DEF IInv, SaveInv

\* Nothing the invariant speaks of has changed.
LEMMA FrameInv ==
  ASSUME IInv, UNCHANGED <<core, ui, disk, session, events, pendingOutbox, epoch, persisted, mutex,
                           saver, main, poll, cancelled>>,
         started' \in BOOLEAN
  PROVE  IInv'
<1>1. TypeOK'
  BY DEF IInv, TypeOK
<1>2. DrainsHaveRoom' /\ PollWaitsForSave'
  BY DEF IInv, DrainsHaveRoom, PollWaitsForSave
<1>3. Unmarked => Unmarked'
  BY DEF Unmarked
<1>4. SaveInv'
  BY <1>3, QuietSavers, QuietKeeps
<1> QED
  BY <1>1, <1>2, <1>4 DEF IInv, SaveInv

-----------------------------------------------------------------------------
(* The invariant. *)

LEMMA InitIInv == Init => IInv
<1> SUFFICES ASSUME Init PROVE IInv
  OBVIOUS
<1> DEFINE sent == [i \in 1..Len(Restored) |-> Text(Restored[i])]
           conn == [a \in Accounts |-> "Offline"]
<1>1. sent \in Seq(Outgoing)
  <2>1. Restored \in Seq(Accounts)
    BY GatewayAssumption
  <2>2. Len(Restored) \in Nat /\ \A i \in 1..Len(Restored) : Restored[i] \in Accounts
    BY <2>1
  <2>3. \A i \in 1..Len(Restored) : Text(Restored[i]) \in Outgoing
    BY <2>2 DEF Text, Outgoing, Retryable
  <2>4. sent \in [1..Len(Restored) -> Outgoing]
    BY <2>3
  <2> HIDE DEF sent
  <2> QED
    BY <2>2, <2>4, SeqDef
<1>2. conn \in [Accounts -> Connection]
  BY DEF Connection
<1>3. core = [conn |-> conn, sent |-> sent, texts |-> 0, edits |-> 0] /\ disk = core /\ ui = core
  BY DEF Init
<1>4. core \in Core /\ core = Durable(core)
  <2> HIDE DEF sent
  <2>1. core \in Core
    <3> HIDE DEF conn
    <3> QED
      BY <1>1, <1>2, <1>3 DEF Core
  <2>2. Durable(core) = [core EXCEPT !.conn = conn]
    BY DEF Durable
  <2> HIDE DEF conn
  <2> QED
    BY <1>3, <2>1, <2>2 DEF Core
<1>5. saver \in [Savers -> SaveRecord(0)] /\ \A s \in Savers : saver[s].pc = "idle"
  <2>1. NoSave(disk) \in SaveRecord(0) /\ NoSave(disk).pc = "idle"
    BY <1>3, <1>4 DEF NoSave, SaveRecord
  <2>2. saver = [s \in Savers |-> NoSave(disk)]
    BY DEF Init
  <2> QED
    BY <2>1, <2>2
<1>6. poll \in PollRecord /\ poll.pc = "idle"
  <2>1. 0 \in 0..MaxDrainBatches
    BY Bounds
  <2> QED
    BY <1>4, <2>1 DEF Init, PollRecord
<1>7. main \in [at : {"idle", "marks", "refreshes"}, schedule : SUBSET Accounts]
  BY DEF Init, NoMethod
<1>8. epoch = 0 /\ persisted = 0 /\ mutex = Nobody /\ started = TRUE /\ cancelled = FALSE
      /\ events = <<>> /\ pendingOutbox = {} /\ session = [a \in Accounts |-> "none"]
  BY DEF Init
<1>9. TypeOK
  <2>1. epoch \in Nat /\ persisted \in 0..epoch /\ saver \in [Savers -> SaveRecord(epoch)]
    BY <1>5, <1>8
  <2>2. events \in Seq(Event)
    BY <1>8
  <2>3. /\ session \in [Accounts -> {"none", "starting", "up"}]
        /\ pendingOutbox \subseteq Accounts /\ mutex \in Savers \cup {Nobody}
        /\ started \in BOOLEAN /\ cancelled \in BOOLEAN
    BY <1>8
  <2> QED
    BY <1>3, <1>4, <1>6, <1>7, <2>1, <2>2, <2>3 DEF TypeOK
<1>10. DrainsHaveRoom /\ PollWaitsForSave
  BY <1>5, <1>6, LifeJobsApart DEF DrainsHaveRoom, PollWaitsForSave
<1>11. HolderIsAhead /\ ImageIsCurrent
  BY <1>5 DEF HolderIsAhead, Holds, ImageIsCurrent
<1>12. CleanMeansSaved
  BY <1>3, <1>4 DEF CleanMeansSaved
<1>13. ImageIsBetween
  <2>1. Leq(disk, core)
    BY <1>3, <1>4, LeqReflexive
  <2> QED
    BY <1>5, <2>1 DEF ImageIsBetween
<1> QED
  BY <1>9, <1>10, <1>11, <1>12, <1>13 DEF IInv

LEMMA NextIInv == IInv /\ [Next]_vars => IInv'
<1> SUFFICES ASSUME IInv, [Next]_vars PROVE IInv'
  OBVIOUS
<1>1. CASE MainStep
  BY <1>1, ReconnectAccountInv, DisconnectAccountInv, SendTextInv, EditInv, MethodMarksInv,
     MethodRefreshesInv DEF MainStep
<1>2. CASE TransportStep
  BY <1>2, TransportStepInv
<1>3. CASE PollStep
  BY <1>3, PollBeginsInv, PollDrainsInv, PollFlushesInv, PollMarksInv, PollSnapshotsInv,
     PollSavesInv, PollResumesInv, PollDroppedInv DEF PollStep
<1>4. CASE SaveStep
  BY <1>4, SaveLocksInv, SaveTakesInv, SaveWritesInv, PersistNowInv, SaveAbandonedInv
     DEF SaveStep, SaverStep
<1>5. CASE Stop
  BY <1>5, StopInv
<1>6. CASE Start
  BY <1>6, FrameInv DEF Start, InLife, tracker
<1>7. CASE UNCHANGED vars
  <2>1. started' \in BOOLEAN
    BY <1>7 DEF vars, IInv, TypeOK
  <2> QED
    BY <1>7, <2>1, FrameInv DEF vars, tracker
<1> QED
  BY <1>1, <1>2, <1>3, <1>4, <1>5, <1>6, <1>7 DEF Next

\* A write of the file only moves it towards the core, and no other step
\* touches it.
LEMMA FileMovesOn ==
  ASSUME IInv, [Next]_vars
  PROVE  Leq(disk, disk')
<1>1. disk \in Core
  BY DEF IInv, TypeOK
<1>2. CASE UNCHANGED disk
  BY <1>1, <1>2, LeqReflexive
<1>3. ASSUME NEW s \in Savers, SaveWrites(s) PROVE Leq(disk, disk')
  <2>1. saver[s].pc = "taken" /\ (disk' = saver[s].image \/ disk' = disk)
    BY <1>3 DEF SaveWrites
  <2>2. Leq(disk, saver[s].image)
    BY <2>1 DEF IInv, ImageIsBetween
  <2> QED
    BY <1>2, <2>1, <2>2
<1>4. CASE MainStep
  BY <1>2, <1>4 DEF MainStep, ReconnectAccount, DisconnectAccount, SendText, Edit, Begins,
     MethodMarks, MethodRefreshes
<1>5. CASE TransportStep
  BY <1>2, <1>5 DEF TransportStep, SessionSettles, SessionEnds, TextArrives, EmitEvent
<1>6. CASE PollStep
  BY <1>2, <1>6 DEF PollStep, PollBegins, PollDrains, PollFlushes, PollMarks, PollSnapshots,
     PollSaves, PollResumes, PollDropped, InPoll
<1>7. CASE SaveStep
  BY <1>2, <1>3, <1>7 DEF SaveStep, SaverStep, SaveLocks, SaveTakes, PersistNow, SaveAbandoned
<1>8. CASE Stop \/ Start \/ UNCHANGED vars
  BY <1>2, <1>8 DEF Stop, Start, InLife, vars
<1> QED
  BY <1>4, <1>5, <1>6, <1>7, <1>8 DEF Next

-----------------------------------------------------------------------------
(* The theorems. *)

\* The inductive invariant holds in every reachable state.
THEOREM Invariance == Spec => []IInv
<1> QED
  BY InitIInv, NextIInv, PTL DEF Spec

\* The variables of the gateway keep their types: no poll drains more than
\* MAX_DRAIN_BATCHES_PER_CYCLE batches, no save carries an epoch that was not
\* marked yet, and none is acknowledged (PersistenceStateTracker).
THEOREM TypesHold == Spec => []TypeOK
<1>1. IInv => TypeOK
  BY DEF IInv
<1> QED
  BY <1>1, Invariance, PTL

\* Whenever the tracker says that nothing needs saving and no core call waits to
\* be marked, the state file holds the core, for any number of accounts,
\* lifecycle jobs, batches and saves that fail (saveSnapshot, markPersisted).
THEOREM CleanIsSaved == Spec => []CleanMeansSaved
<1>1. IInv => CleanMeansSaved
  BY DEF IInv
<1> QED
  BY <1>1, Invariance, PTL

\* No save takes the file back: one image at a time is on its way to the file,
\* and it lies between the file and the core (persistenceMutex).
THEOREM DiskAdvances == Spec => DiskNeverRegresses
<1>1. IInv /\ [Next]_vars =>
        [/\ disk'.texts >= disk.texts
         /\ disk'.edits >= disk.edits
         /\ Len(disk'.sent) >= Len(disk.sent)
         /\ \A i \in 1..Len(disk.sent) :
              Delivery[disk'.sent[i].delivery] >= Delivery[disk.sent[i].delivery]]_vars
  <2> SUFFICES ASSUME IInv, [Next]_vars
               PROVE  /\ disk'.texts >= disk.texts
                      /\ disk'.edits >= disk.edits
                      /\ Len(disk'.sent) >= Len(disk.sent)
                      /\ \A i \in 1..Len(disk.sent) :
                           Delivery[disk'.sent[i].delivery] >= Delivery[disk.sent[i].delivery]
    OBVIOUS
  <2>1. Leq(disk, disk')
    BY FileMovesOn
  <2> QED
    BY <2>1 DEF Leq
<1> QED
  BY <1>1, Invariance, PTL DEF Spec, DiskNeverRegresses

=============================================================================
