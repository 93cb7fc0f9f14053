----------------------------- MODULE InboundProofs -----------------------------
(***************************************************************************)
(* Proofs about Inbound, for any peers, rosters, presences, features and   *)
(* texts, and for any bounds.                                              *)
(*                                                                         *)
(* Two ideas carry the invariants.  A number that travels (the stamp of a  *)
(* text, or of a request for a receipt) does so in order: what has arrived *)
(* is below what is in the second queue, and that is below what is still   *)
(* in the first (InLine).  A value that the core copies ends up right if a *)
(* stanza or an event that makes it right is on its way with none that     *)
(* makes it wrong behind it (EndsWell).                                    *)
(***************************************************************************)
EXTENDS Inbound, NumberLemmas, FiniteSetTheorems, SequenceTheorems, TLAPS

-----------------------------------------------------------------------------
(* What the queues hold, given the texts sent and the messages received.   *)

RosterItem == [jid : Peers, item : Items]
PresenceStanza(who) == [is : {"presence"}, from : [bare : who, resource : Devices], show : Shows]
AllCapabilities == {"StreamManagement"} \cup CapabilitiesFromDisco(DOMAIN Capability)

Stanza(texts, got) ==
  {Stamped(texts[n], n) : n \in DOMAIN texts}
    \cup {Receipt(pi[1], pi[2]) : pi \in got}
    \cup PresenceStanza(Peers)
    \cup [is : {"roster", "push"}, items : Seq(RosterItem)]
    \cup [is : {"disco"}, features : Announces]

TextEvent(texts, n) ==
  [is |-> "IncomingText", sender |-> texts[n].from, body |-> texts[n].body, stamp |-> n]

Event(texts, got) ==
  [is : {"Connected", "CapabilitiesDiscovered"}, capabilities : SUBSET AllCapabilities]
    \cup [is : {"Disconnected"}]
    \cup [is : {"RosterContactUpsert"}, jid : Peers, subscription : Subscriptions]
    \cup [is : {"RosterContactRemoved"}, jid : Peers]
    \cup [is : {"ContactPresenceUpdated"}, jid : Peers, presence : Presences]
    \cup {TextEvent(texts, n) : n \in DOMAIN texts}
    \cup {[is |-> "DeliveryUpdated", sender |-> pi[1], id |-> pi[2]] : pi \in got}
    \cup [is : {"DeliveryUpdated"}, sender : {texts[n].from : n \in DOMAIN texts} \ Peers, id : Nat]

Request(texts) ==
  [is : {"available", "getRoster", "getDisco", "result"}]
    \cup {[is |-> "ack", of |-> n] : n \in DOMAIN texts}
    \cup [is : {"message"}, to : Peers, id : Nat, request : BOOLEAN]

Outgoing == [peer : Peers, kind : {"Direct", "MultiUserChat"}, state : {"Sent", "Delivered"}]

History ==
  [sessions : Nat, sent : Nat, written : Nat, texts : Seq(Texts), lost : SUBSET Nat,
   cut : SUBSET Nat, acked : Seq(Nat), got : SUBSET (Peers \X Nat),
   told : [Peers -> Shows \cup {"nothing"}], hidden : SUBSET Peers, edited : SUBSET Peers]

Typed ==
  /\ TypeOK
  /\ ghost \in History
  /\ down \in Seq(Stanza(ghost.texts, ghost.got))
  /\ up \in Seq(Request(ghost.texts))
  /\ events \in Seq(Event(ghost.texts, ghost.got))
  /\ out \in Seq(Outgoing) /\ inbox \in Seq(Nat)
  /\ streamCaps \subseteq {"StreamManagement"}

-----------------------------------------------------------------------------
(* Numbers in line: 0 stands for what carries none.                        *)

StanzaMark(s) == IF s.is = "message" THEN s.stamp ELSE 0
EventMark(e) == IF e.is = "IncomingText" THEN e.stamp ELSE 0
RequestMark(r) == IF r.is = "ack" THEN r.of ELSE 0
StanzaMarks(q) == [i \in DOMAIN q |-> StanzaMark(q[i])]
EventMarks(q) == [i \in DOMAIN q |-> EventMark(q[i])]
RequestMarks(q) == [i \in DOMAIN q |-> RequestMark(q[i])]

Ascending(f) == \A i, j \in DOMAIN f : i < j /\ f[i] # 0 /\ f[j] # 0 => f[i] < f[j]
Below(f, g) == \A i \in DOMAIN f, j \in DOMAIN g : f[i] # 0 /\ g[j] # 0 => f[i] < g[j]
UpTo(f, n) == \A i \in DOMAIN f : f[i] <= n

InLine(a, f, g, n) ==
  /\ 0 \notin ToSet(a)
  /\ Ascending(a) /\ Ascending(f) /\ Ascending(g)
  /\ Below(a, f) /\ Below(a, g) /\ Below(f, g)
  /\ UpTo(a, n) /\ UpTo(f, n) /\ UpTo(g, n)

TextsInLine == InLine(inbox, EventMarks(events), StanzaMarks(down), Len(ghost.texts))
RequestsInLine == InLine(ghost.acked, RequestMarks(up), StanzaMarks(down), Len(ghost.texts))

TextsRemain ==
  \A n \in DOMAIN ghost.texts :
    Shown(ghost.texts[n]) /\ n \notin ghost.lost =>
      n \in ToSet(inbox) \cup ToSet(EventMarks(events)) \cup ToSet(StanzaMarks(down))

Asked(m) == IsDirectReceiptMessage(m) /\ m.request /\ m.id = "usable" /\ m.from # "nobody"

RequestsRemain ==
  \A n \in DOMAIN ghost.texts :
    Asked(ghost.texts[n]) /\ n \notin ghost.cut =>
      n \in ToSet(ghost.acked) \cup ToSet(RequestMarks(up)) \cup ToSet(StanzaMarks(down))

-----------------------------------------------------------------------------
(* Values on their way: what an element of a queue will do to a value.     *)

Effects == {"none", "good", "bad"}
Verdict(b) == IF b THEN "good" ELSE "bad"

Spares(f) == \A i \in DOMAIN f : f[i] # "bad"
Mends(f) == \E i \in DOMAIN f : f[i] = "good" /\ \A j \in DOMAIN f : j > i => f[j] # "bad"
Closes(now, f) == Mends(f) \/ (Spares(f) /\ now)
EndsWell(now, f, g) == Mends(g) \/ (Spares(g) /\ Closes(now, f))

EventCap(e, fit) ==
  IF e.is \in {"Connected", "CapabilitiesDiscovered"} THEN Verdict(e.capabilities \in fit) ELSE "none"
StanzaCap(s, stream, fit) ==
  IF s.is = "disco" THEN Verdict(stream \cup CapabilitiesFromDisco(s.features) \in fit) ELSE "none"
EventCaps(q, fit) == [i \in DOMAIN q |-> EventCap(q[i], fit)]
StanzaCaps(q, stream, fit) == [i \in DOMAIN q |-> StanzaCap(q[i], stream, fit)]

EventEntry(e, p, sub) ==
  IF e.is = "RosterContactUpsert" /\ e.jid = p THEN Verdict(e.subscription = sub)
  ELSE IF e.is = "RosterContactRemoved" /\ e.jid = p THEN "bad" ELSE "none"
Entries(s, p) == {s.items[k].item : k \in {j \in DOMAIN s.items : s.items[j].jid = p}}
StanzaEntry(s, p, sub) ==
  IF s.is \in {"roster", "push"} /\ Entries(s, p) # {}
  THEN Verdict(\A x \in Entries(s, p) : x # "absent" /\ RosterSubscription(x) = sub) ELSE "none"
EventRoster(q, p, sub) == [i \in DOMAIN q |-> EventEntry(q[i], p, sub)]
StanzaRoster(q, p, sub) == [i \in DOMAIN q |-> StanzaEntry(q[i], p, sub)]

EventShow(e, p, v) ==
  IF e.is = "ContactPresenceUpdated" /\ e.jid = p THEN Verdict(e.presence = v)
  ELSE IF e.is = "RosterContactRemoved" /\ e.jid = p THEN "bad" ELSE "none"
StanzaShow(s, p, v) ==
  IF Tells(p, s) THEN Verdict(ContactPresence(s.show) = v)
  ELSE IF s.is \in {"roster", "push"} /\ "absent" \in Entries(s, p) THEN "bad" ELSE "none"
EventPresence(q, p, v) == [i \in DOMAIN q |-> EventShow(q[i], p, v)]
StanzaPresence(q, p, v) == [i \in DOMAIN q |-> StanzaShow(q[i], p, v)]

Awaits(q, what) == \E i \in DOMAIN q : q[i].is = what
Announcing(q, found) == \A i \in DOMAIN q : q[i].is = "disco" => q[i].features = found
Asks(what) == Awaits(up, what)
Current == StreamCapabilities \cup CapabilitiesFromDisco(features)

SessionSound ==
  /\ live => Open
  /\ Open => streamCaps = StreamCapabilities
  /\ Open => announced \/ Asks("available")
  /\ announced \/ up # <<>> => Open
  /\ Announcing(down, features)

CapsFit == Open => Closes(caps \subseteq Current, EventCaps(events, SUBSET Current))
CapsArrive ==
  Open => \/ Asks("getDisco")
          \/ EndsWell(caps = Current, EventCaps(events, {Current}),
                      StanzaCaps(down, streamCaps, {Current}))

Held(p) ==
  /\ p \in DOMAIN contacts
  /\ contacts[p].subscription = RosterSubscription(roster[p]) \/ p \in ghost.edited
EntryComes(p) ==
  Open /\ roster[p] # "absent" =>
    \/ Asks("getRoster")
    \/ EndsWell(Held(p), EventRoster(events, p, RosterSubscription(roster[p])),
                StanzaRoster(down, p, RosterSubscription(roster[p])))

Noticed(p) ==
  \/ p \in ghost.hidden
  \/ p \in DOMAIN contacts /\ contacts[p].presence = ContactPresence(ghost.told[p])
PresenceComes(p) ==
  ghost.told[p] # "nothing" =>
    EndsWell(Noticed(p), EventPresence(events, p, ContactPresence(ghost.told[p])),
             StanzaPresence(down, p, ContactPresence(ghost.told[p])))

-----------------------------------------------------------------------------
(* Shapes. *)

LEMMA StampedFields ==
  ASSUME NEW m \in Texts, NEW n
  PROVE  /\ Stamped(m, n).is = "message" /\ Stamped(m, n).stamp = n
         /\ Stamped(m, n).from = m.from /\ Stamped(m, n).type = m.type
         /\ Stamped(m, n).body = m.body /\ Stamped(m, n).request = m.request
         /\ Stamped(m, n).id = m.id /\ Stamped(m, n).received = m.received
  BY DEF Stamped

-----------------------------------------------------------------------------
(* Sequences. *)

LEMMA JoinFacts ==
  ASSUME NEW S, NEW s \in Seq(S), NEW t \in Seq(S)
  PROVE  /\ s \o t \in Seq(S)
         /\ \A i \in DOMAIN s : i \in DOMAIN (s \o t) /\ (s \o t)[i] = s[i]
         /\ \A j \in DOMAIN t : Len(s) + j \in DOMAIN (s \o t) /\ (s \o t)[Len(s) + j] = t[j]
         /\ \A i \in DOMAIN (s \o t) :
              i \in DOMAIN s \/ \E j \in DOMAIN t : i = Len(s) + j
<1> DEFINE u == s \o t  a == Len(s)  b == Len(t)
<1>1. u \in Seq(S) /\ Len(u) = a + b
      /\ \A i \in 1 .. a + b : u[i] = IF i <= a THEN s[i] ELSE t[i - a]
  BY ConcatProperties
<1>2. a \in Nat /\ b \in Nat /\ DOMAIN s = 1 .. a /\ DOMAIN t = 1 .. b
  BY LenProperties
<1>3. DOMAIN u = 1 .. a + b
  BY <1>1, LenProperties
<1> HIDE DEF u, a, b
<1>4. \A i \in 1 .. a : i \in DOMAIN u /\ u[i] = s[i]
  BY <1>1, <1>2, <1>3
<1>5. \A j \in 1 .. b : a + j \in DOMAIN u /\ u[a + j] = t[j]
  <2> SUFFICES ASSUME NEW j \in 1 .. b PROVE a + j \in DOMAIN u /\ u[a + j] = t[j]
    OBVIOUS
  <2>1. a + j \in 1 .. a + b /\ ~ (a + j <= a) /\ (a + j) - a = j
    BY <1>2
  <2> QED
    BY <1>1, <1>3, <2>1
<1>6. \A i \in DOMAIN u : i \in 1 .. a \/ \E j \in 1 .. b : i = a + j
  <2> SUFFICES ASSUME NEW i \in 1 .. a + b, ~ (i \in 1 .. a) PROVE \E j \in 1 .. b : i = a + j
    BY <1>3
  <2>1. i - a \in 1 .. b /\ i = a + (i - a)
    BY <1>2
  <2> QED
    BY <2>1
<1> QED
  BY <1>1, <1>2, <1>4, <1>5, <1>6 DEF u, a, b

LEMMA TailFacts ==
  ASSUME NEW S, NEW s \in Seq(S), s # <<>>
  PROVE  /\ Head(s) \in S /\ Tail(s) \in Seq(S)
         /\ 1 \in DOMAIN s /\ Head(s) = s[1]
         /\ \A i \in DOMAIN Tail(s) : i + 1 \in DOMAIN s /\ Tail(s)[i] = s[i + 1]
         /\ \A j \in DOMAIN s : j = 1 \/ \E i \in DOMAIN Tail(s) : j = i + 1
<1> DEFINE t == Tail(s)  n == Len(s)
<1>1. Head(s) \in S /\ t \in Seq(S) /\ Len(t) = n - 1 /\ \A i \in 1 .. Len(t) : t[i] = s[i + 1]
  BY HeadTailProperties
<1>2. n \in Nat /\ n # 0 /\ DOMAIN s = 1 .. n
  BY LenProperties, EmptySeq
<1>3. DOMAIN t = 1 .. n - 1
  BY <1>1, LenProperties
<1>4. Head(s) = s[1]
  BY <1>2
<1> HIDE DEF t, n
<1>5. \A j \in 1 .. n : j = 1 \/ \E i \in 1 .. n - 1 : j = i + 1
  <2> SUFFICES ASSUME NEW j \in 1 .. n, j # 1 PROVE \E i \in 1 .. n - 1 : j = i + 1
    OBVIOUS
  <2>1. j - 1 \in 1 .. n - 1 /\ j = (j - 1) + 1
    BY <1>2
  <2> QED
    BY <2>1
<1>6. \A i \in 1 .. n - 1 : i + 1 \in 1 .. n /\ t[i] = s[i + 1]
  BY <1>1, <1>2
<1>7. \A i \in DOMAIN t : i + 1 \in DOMAIN s /\ t[i] = s[i + 1]
  BY <1>2, <1>3, <1>6
<1>8. \A j \in DOMAIN s : j = 1 \/ \E i \in DOMAIN t : j = i + 1
  BY <1>2, <1>3, <1>5
<1>9. 1 \in DOMAIN s
  BY <1>2
<1> QED
  BY <1>1, <1>4, <1>7, <1>8, <1>9, Zenon DEF t

LEMMA OneFacts ==
  ASSUME NEW S, NEW x \in S
  PROVE  /\ <<x>> \in Seq(S) /\ DOMAIN <<x>> = {1} /\ <<x>>[1] = x
         /\ \A s \in Seq(S) : Append(s, x) = s \o <<x>>
<1>1. \A s \in Seq(S) : Append(s, x) = s \o <<x>>
  BY AppendIsConcat
<1> QED
  BY <1>1

LEMMA NoneFacts ==
  ASSUME NEW S
  PROVE  <<>> \in Seq(S) /\ DOMAIN <<>> = {}
  OBVIOUS

\* A function on the positions of a sequence is a sequence, and maps position by
\* position.
LEMMA MapIsSeq ==
  ASSUME NEW S, NEW s \in Seq(S), NEW V, NEW f \in [DOMAIN s -> V]
  PROVE  f \in Seq(V) /\ DOMAIN f = DOMAIN s /\ Len(f) = Len(s) /\ Len(s) \in Nat
<1>1. Len(s) \in Nat /\ DOMAIN s = 1 .. Len(s)
  BY LenProperties
<1>2. f \in Seq(V)
  BY <1>1, SeqDef
<1>3. Len(f) \in Nat /\ DOMAIN f = 1 .. Len(f)
  BY <1>2, LenProperties
<1>4. Len(f) = Len(s)
  BY <1>1, <1>3
<1> QED
  BY <1>1, <1>2, <1>4

LEMMA JoinedIs ==
  ASSUME NEW V, NEW f \in Seq(V), NEW g \in Seq(V), NEW h \in Seq(V), Len(h) = Len(f) + Len(g),
         \A i \in DOMAIN f : h[i] = f[i],
         \A j \in DOMAIN g : h[Len(f) + j] = g[j]
  PROVE  h = f \o g
<1>5. f \o g \in Seq(V) /\ Len(f \o g) = Len(f) + Len(g)
  BY ConcatProperties, Zenon
<1>6. \A i \in 1 .. Len(h) : h[i] = (f \o g)[i]
  <2> SUFFICES ASSUME NEW i \in DOMAIN (f \o g) PROVE h[i] = (f \o g)[i]
    BY <1>5, LenProperties
  <2>1. CASE i \in DOMAIN f
    BY <2>1, JoinFacts
  <2>2. CASE \E j \in DOMAIN g : i = Len(f) + j
    BY <2>2, JoinFacts
  <2> QED
    BY <2>1, <2>2, JoinFacts
<1> QED
  BY <1>5, <1>6, SeqEqual

LEMMA TailIs ==
  ASSUME NEW V, NEW f \in Seq(V), f # <<>>, NEW h \in Seq(V), Len(h) = Len(f) - 1,
         \A i \in DOMAIN h : h[i] = f[i + 1]
  PROVE  h = Tail(f)
<1>5. Tail(f) \in Seq(V) /\ Len(Tail(f)) = Len(f) - 1
  BY HeadTailProperties
<1>6. \A i \in 1 .. Len(h) : h[i] = Tail(f)[i]
  <2>1. \A i \in DOMAIN Tail(f) : Tail(f)[i] = f[i + 1]
    BY TailFacts, Zenon
  <2>2. DOMAIN Tail(f) = 1 .. Len(Tail(f)) /\ DOMAIN h = 1 .. Len(h)
    BY <1>5, LenProperties, Zenon
  <2> QED
    BY <2>1, <2>2, <1>5
<1> QED
  BY <1>5, <1>6, SeqEqual

\* What is read off each element of a queue follows the queue.
Readings(S, V) == [S -> V]
Read(m, q) == [i \in DOMAIN q |-> m[q[i]]]

LEMMA ReadIsSeq ==
  ASSUME NEW S, NEW V, NEW m \in Readings(S, V), NEW q \in Seq(S)
  PROVE  /\ Read(m, q) \in Seq(V) /\ DOMAIN Read(m, q) = DOMAIN q /\ Len(Read(m, q)) = Len(q)
         /\ \A i \in DOMAIN q : Read(m, q)[i] = m[q[i]]
<1>1. \A i \in DOMAIN q : q[i] \in S
  BY LenProperties, ElementOfSeq
<1>2. Read(m, q) \in [DOMAIN q -> V]
  BY <1>1 DEF Read, Readings
<1>3. \A i \in DOMAIN q : Read(m, q)[i] = m[q[i]]
  BY DEF Read
<1> QED
  BY <1>2, <1>3, MapIsSeq

LEMMA ReadJoin ==
  ASSUME NEW S, NEW V, NEW m \in Readings(S, V), NEW q \in Seq(S), NEW r \in Seq(S)
  PROVE  Read(m, q \o r) = Read(m, q) \o Read(m, r)
<1> DEFINE u == q \o r
<1>1. /\ u \in Seq(S) /\ Len(u) = Len(q) + Len(r)
      /\ \A i \in DOMAIN q : i \in DOMAIN u /\ u[i] = q[i]
      /\ \A j \in DOMAIN r : Len(q) + j \in DOMAIN u /\ u[Len(q) + j] = r[j]
  BY JoinFacts, ConcatProperties
<1> HIDE DEF u
<1> DEFINE f == Read(m, q)  g == Read(m, r)  h == Read(m, u)
<1>2. /\ f \in Seq(V) /\ DOMAIN f = DOMAIN q /\ Len(f) = Len(q) /\ \A i \in DOMAIN q : f[i] = m[q[i]]
      /\ g \in Seq(V) /\ DOMAIN g = DOMAIN r /\ Len(g) = Len(r) /\ \A i \in DOMAIN r : g[i] = m[r[i]]
      /\ h \in Seq(V) /\ DOMAIN h = DOMAIN u /\ Len(h) = Len(u) /\ \A i \in DOMAIN u : h[i] = m[u[i]]
  BY <1>1, ReadIsSeq
<1> HIDE DEF f, g, h
<1>3. \A i \in DOMAIN f : h[i] = f[i]
  BY <1>1, <1>2
<1>4. \A j \in DOMAIN g : h[Len(f) + j] = g[j]
  <2> SUFFICES ASSUME NEW j \in DOMAIN g PROVE h[Len(f) + j] = g[j]
    OBVIOUS
  <2>1. j \in DOMAIN r /\ Len(f) = Len(q)
    BY <1>2
  <2>2. Len(q) + j \in DOMAIN u /\ u[Len(q) + j] = r[j]
    BY <1>1, <2>1
  <2>3. h[Len(q) + j] = m[u[Len(q) + j]] /\ g[j] = m[r[j]]
    BY <1>2, <2>1, <2>2
  <2> QED
    BY <2>1, <2>2, <2>3
<1>5. Len(h) = Len(f) + Len(g)
  BY <1>1, <1>2
<1>6. h = f \o g
  BY ZenonT(60), <1>2, <1>3, <1>4, <1>5, JoinedIs
<1> QED
  BY <1>6 DEF u, f, g, h

LEMMA ReadTail ==
  ASSUME NEW S, NEW V, NEW m \in Readings(S, V), NEW q \in Seq(S), q # <<>>
  PROVE  /\ Read(m, q) # <<>> /\ Head(Read(m, q)) = m[Head(q)]
         /\ Read(m, Tail(q)) = Tail(Read(m, q))
<1> DEFINE v == Tail(q)  f == Read(m, q)  h == Read(m, v)
<1>1. /\ v \in Seq(S) /\ Len(v) = Len(q) - 1 /\ 1 \in DOMAIN q /\ Head(q) = q[1]
      /\ \A i \in DOMAIN v : i + 1 \in DOMAIN q /\ v[i] = q[i + 1]
  BY TailFacts, HeadTailProperties
<1> HIDE DEF v
<1>2. /\ f \in Seq(V) /\ DOMAIN f = DOMAIN q /\ Len(f) = Len(q) /\ \A i \in DOMAIN q : f[i] = m[q[i]]
      /\ h \in Seq(V) /\ DOMAIN h = DOMAIN v /\ Len(h) = Len(v) /\ \A i \in DOMAIN v : h[i] = m[v[i]]
  BY <1>1, ReadIsSeq
<1> HIDE DEF f, h
<1>3. f # <<>>
  BY <1>1, <1>2
<1>4. Head(f) = m[Head(q)]
  <2>1. Head(f) = f[1]
    BY <1>2, <1>3, TailFacts
  <2> QED
    BY <1>1, <1>2, <2>1
<1>5. \A i \in DOMAIN h : h[i] = f[i + 1]
  BY <1>1, <1>2
<1>6. h = Tail(f)
  BY <1>1, <1>2, <1>3, <1>5, TailIs
<1> QED
  BY <1>3, <1>4, <1>6 DEF f, h, v

-----------------------------------------------------------------------------
(* Effects and numbers in line. *)

LEMMA EffectOfJoin ==
  ASSUME NEW f \in Seq(Effects), NEW g \in Seq(Effects)
  PROVE  /\ f \o g \in Seq(Effects)
         /\ Spares(f) /\ Spares(g) => Spares(f \o g)
         /\ Mends(g) => Mends(f \o g)
         /\ Mends(f) /\ Spares(g) => Mends(f \o g)
<1> DEFINE h == f \o g  a == Len(f)
<1>1. /\ h \in Seq(Effects)
      /\ \A i \in DOMAIN f : i \in DOMAIN h /\ h[i] = f[i]
      /\ \A j \in DOMAIN g : a + j \in DOMAIN h /\ h[a + j] = g[j]
      /\ \A i \in DOMAIN h : i \in DOMAIN f \/ \E j \in DOMAIN g : i = a + j
  BY JoinFacts
<1>2. a \in Nat /\ DOMAIN f = 1 .. a /\ Len(g) \in Nat /\ DOMAIN g = 1 .. Len(g)
  BY LenProperties
<1> HIDE DEF h, a
<1>3. ASSUME Spares(f), Spares(g) PROVE Spares(h)
  BY <1>1, <1>3 DEF Spares
<1>4. ASSUME Mends(g) PROVE Mends(h)
  <2>1. PICK i \in DOMAIN g : g[i] = "good" /\ \A j \in DOMAIN g : j > i => g[j] # "bad"
    BY <1>4 DEF Mends
  <2>2. a + i \in DOMAIN h /\ h[a + i] = "good"
    BY <1>1, <2>1
  <2>3. \A k \in DOMAIN h : k > a + i => h[k] # "bad"
    <3> SUFFICES ASSUME NEW k \in DOMAIN h, k > a + i PROVE h[k] # "bad"
      OBVIOUS
    <3>1. k \notin 1 .. a
      BY <1>2
    <3>2. PICK j \in DOMAIN g : k = a + j
      BY <1>1, <1>2, <3>1
    <3>3. j > i
      BY <1>2, <3>2
    <3> QED
      BY <1>1, <2>1, <3>2, <3>3
  <2> QED
    BY <2>2, <2>3 DEF Mends
<1>5. ASSUME Mends(f), Spares(g) PROVE Mends(h)
  <2>1. PICK i \in DOMAIN f : f[i] = "good" /\ \A j \in DOMAIN f : j > i => f[j] # "bad"
    BY <1>5 DEF Mends
  <2>2. \A k \in DOMAIN h : k > i => h[k] # "bad"
    BY <1>1, <1>5, <2>1 DEF Spares
  <2> QED
    BY <1>1, <2>1, <2>2 DEF Mends
<1> QED
  BY <1>1, <1>3, <1>4, <1>5 DEF h

LEMMA EffectOfTail ==
  ASSUME NEW f \in Seq(Effects), f # <<>>
  PROVE  /\ Tail(f) \in Seq(Effects)
         /\ Spares(f) => Spares(Tail(f)) /\ Head(f) \in {"none", "good"}
         /\ Mends(f) => Mends(Tail(f)) \/ (Spares(Tail(f)) /\ Head(f) = "good")
<1> DEFINE t == Tail(f)
<1>1. /\ Head(f) \in Effects /\ t \in Seq(Effects) /\ 1 \in DOMAIN f /\ Head(f) = f[1]
      /\ \A i \in DOMAIN t : i + 1 \in DOMAIN f /\ t[i] = f[i + 1]
      /\ \A j \in DOMAIN f : j = 1 \/ \E i \in DOMAIN t : j = i + 1
  BY TailFacts
<1>2. DOMAIN t = 1 .. Len(t) /\ Len(t) \in Nat
  BY <1>1, LenProperties
<1> HIDE DEF t
<1>3. ASSUME Spares(f) PROVE Spares(t) /\ Head(f) \in {"none", "good"}
  BY <1>1, <1>3 DEF Spares, Effects
<1>4. ASSUME Mends(f) PROVE Mends(t) \/ (Spares(t) /\ Head(f) = "good")
  <2>1. PICK i \in DOMAIN f : f[i] = "good" /\ \A j \in DOMAIN f : j > i => f[j] # "bad"
    BY <1>4 DEF Mends
  <2>2. CASE i = 1
    <3>1. \A j \in DOMAIN t : j + 1 > 1
      BY <1>2
    <3> QED
      BY <1>1, <2>1, <2>2, <3>1 DEF Spares
  <2>3. ASSUME NEW k \in DOMAIN t, i = k + 1 PROVE Mends(t)
    <3>1. t[k] = "good"
      BY <1>1, <2>1, <2>3
    <3>2. \A j \in DOMAIN t : j > k => j + 1 > i
      BY <1>2, <2>3
    <3> QED
      BY <1>1, <2>1, <3>1, <3>2 DEF Mends
  <2> QED
    BY <1>1, <2>2, <2>3
<1> QED
  BY <1>1, <1>3, <1>4 DEF t

\* A stanza is handled: its effect moves to the other queue.
LEMMA EffectMoves ==
  ASSUME NEW f \in Seq(Effects), NEW g \in Seq(Effects), g # <<>>, NEW h \in Seq(Effects),
         Head(g) = "good" => Mends(h),
         Head(g) = "none" => Spares(h)
  PROVE  /\ Mends(g) => Mends(Tail(g)) \/ (Spares(Tail(g)) /\ Mends(f \o h))
         /\ Spares(g) /\ Mends(f) => Spares(Tail(g)) /\ Mends(f \o h)
         /\ Spares(g) /\ Spares(f) => Spares(Tail(g)) /\ (Mends(f \o h) \/ Spares(f \o h))
<1>1. /\ Spares(g) => Spares(Tail(g)) /\ Head(g) \in {"none", "good"}
      /\ Mends(g) => Mends(Tail(g)) \/ (Spares(Tail(g)) /\ Head(g) = "good")
  BY EffectOfTail
<1>2. /\ Spares(f) /\ Spares(h) => Spares(f \o h)
      /\ Mends(h) => Mends(f \o h)
      /\ Mends(f) /\ Spares(h) => Mends(f \o h)
  BY EffectOfJoin
<1> QED
  BY <1>1, <1>2

LEMMA NumbersOfJoin ==
  ASSUME NEW f \in Seq(Nat), NEW g \in Seq(Nat), NEW n \in Nat
  PROVE  /\ f \o g \in Seq(Nat)
         /\ Ascending(f) /\ Ascending(g) /\ Below(f, g) => Ascending(f \o g)
         /\ \A h : Below(f, h) /\ Below(g, h) => Below(f \o g, h)
         /\ \A h : Below(h, f) /\ Below(h, g) => Below(h, f \o g)
         /\ UpTo(f, n) /\ UpTo(g, n) => UpTo(f \o g, n)
         /\ ToSet(f \o g) = ToSet(f) \cup ToSet(g)
<1> DEFINE u == f \o g  a == Len(f)
<1>1. /\ u \in Seq(Nat)
      /\ \A i \in DOMAIN f : i \in DOMAIN u /\ u[i] = f[i]
      /\ \A j \in DOMAIN g : a + j \in DOMAIN u /\ u[a + j] = g[j]
      /\ \A i \in DOMAIN u : i \in DOMAIN f \/ \E j \in DOMAIN g : i = a + j
  BY JoinFacts
<1>2. a \in Nat /\ DOMAIN f = 1 .. a /\ Len(g) \in Nat /\ DOMAIN g = 1 .. Len(g)
  BY LenProperties
<1> HIDE DEF u, a
<1>3. ASSUME Ascending(f), Ascending(g), Below(f, g) PROVE Ascending(u)
  <2> SUFFICES ASSUME NEW i \in DOMAIN u, NEW j \in DOMAIN u, i < j, u[i] # 0, u[j] # 0
               PROVE  u[i] < u[j]
    BY DEF Ascending
  <2>1. CASE i \in DOMAIN f /\ j \in DOMAIN f
    BY <1>1, <1>3, <2>1 DEF Ascending
  <2>2. CASE i \in DOMAIN f /\ \E k \in DOMAIN g : j = a + k
    BY <1>1, <1>3, <2>2 DEF Below
  <2>3. ASSUME NEW k \in DOMAIN g, i = a + k, NEW l \in DOMAIN g, j = a + l PROVE u[i] < u[j]
    <3>1. k < l
      BY <1>2, <2>3
    <3>2. u[i] = g[k] /\ u[j] = g[l]
      BY <1>1, <2>3
    <3> QED
      BY <1>3, <2>3, <3>1, <3>2 DEF Ascending
  <2>4. CASE (\E k \in DOMAIN g : i = a + k) /\ j \in DOMAIN f
    BY <1>2, <2>4
  <2> QED
    BY <1>1, <2>1, <2>2, <2>3, <2>4
<1>4. \A h : Below(f, h) /\ Below(g, h) => Below(u, h)
  BY <1>1 DEF Below
<1>5. \A h : Below(h, f) /\ Below(h, g) => Below(h, u)
  BY <1>1 DEF Below
<1>6. UpTo(f, n) /\ UpTo(g, n) => UpTo(u, n)
  BY <1>1 DEF UpTo
<1>7. ToSet(u) = ToSet(f) \cup ToSet(g)
  <2>1. ASSUME NEW x \in ToSet(u) PROVE x \in ToSet(f) \/ x \in ToSet(g)
    <3>1. PICK i \in DOMAIN u : x = u[i]
      BY DEF ToSet
    <3>2. CASE i \in DOMAIN f
      BY <1>1, <3>1, <3>2 DEF ToSet
    <3>3. CASE \E j \in DOMAIN g : i = a + j
      BY <1>1, <3>1, <3>3 DEF ToSet
    <3> QED
      BY <1>1, <3>2, <3>3
  <2>2. \A x \in ToSet(f) : x \in ToSet(u)
    BY <1>1 DEF ToSet
  <2>3. \A x \in ToSet(g) : x \in ToSet(u)
    BY <1>1 DEF ToSet
  <2> QED
    BY <2>1, <2>2, <2>3
<1> QED
  BY <1>1, <1>3, <1>4, <1>5, <1>6, <1>7 DEF u

LEMMA NumbersOfTail ==
  ASSUME NEW f \in Seq(Nat), f # <<>>, NEW n \in Nat
  PROVE  /\ Tail(f) \in Seq(Nat) /\ Head(f) \in Nat
         /\ Ascending(f) => Ascending(Tail(f)) /\ Below(<<Head(f)>>, Tail(f))
         /\ \A h : Below(f, h) => Below(Tail(f), h) /\ Below(<<Head(f)>>, h)
         /\ \A h : Below(h, f) => Below(h, Tail(f)) /\ Below(h, <<Head(f)>>)
         /\ UpTo(f, n) => UpTo(Tail(f), n) /\ Head(f) <= n
         /\ ToSet(f) = ToSet(Tail(f)) \cup {Head(f)}
<1> DEFINE t == Tail(f)  x == Head(f)
<1>1. /\ x \in Nat /\ t \in Seq(Nat) /\ 1 \in DOMAIN f /\ x = f[1]
      /\ \A i \in DOMAIN t : i + 1 \in DOMAIN f /\ t[i] = f[i + 1]
      /\ \A j \in DOMAIN f : j = 1 \/ \E i \in DOMAIN t : j = i + 1
  BY TailFacts
<1>2. DOMAIN t = 1 .. Len(t) /\ Len(t) \in Nat
  BY <1>1, LenProperties
<1>3. DOMAIN <<x>> = {1} /\ <<x>>[1] = x
  OBVIOUS
<1> DEFINE o == <<x>>
<1> HIDE DEF t, x, o
<1>4. DOMAIN o = {1} /\ o[1] = x
  BY <1>3 DEF o
<1>5. ASSUME Ascending(f) PROVE Ascending(t) /\ Below(o, t)
  <2>1. \A i \in DOMAIN t : 1 < i + 1
    BY <1>2
  <2>2. \A i, j \in DOMAIN t : i < j => i + 1 < j + 1
    BY <1>2
  <2>3. Ascending(t)
    BY <1>1, <1>5, <2>2 DEF Ascending
  <2>4. Below(o, t)
    BY <1>1, <1>4, <1>5, <2>1 DEF Ascending, Below
  <2> QED
    BY <2>3, <2>4
<1>6. \A h : Below(f, h) => Below(t, h) /\ Below(o, h)
  BY <1>1, <1>4 DEF Below
<1>7. \A h : Below(h, f) => Below(h, t) /\ Below(h, o)
  BY <1>1, <1>4 DEF Below
<1>8. UpTo(f, n) => UpTo(t, n) /\ x <= n
  BY <1>1 DEF UpTo
<1>9. ToSet(f) = ToSet(t) \cup {x}
  <2>1. \A y \in ToSet(f) : y = x \/ y \in ToSet(t)
    BY <1>1 DEF ToSet
  <2>2. \A y \in ToSet(t) : y \in ToSet(f)
    BY <1>1 DEF ToSet
  <2>3. x \in ToSet(f)
    BY <1>1 DEF ToSet
  <2> QED
    BY <2>1, <2>2, <2>3
<1> QED
  BY <1>1, <1>5, <1>6, <1>7, <1>8, <1>9 DEF t, x, o

\* The first of the second queue arrives, or is dropped there.
LEMMA LineArrives ==
  ASSUME NEW a \in Seq(Nat), NEW f \in Seq(Nat), NEW g \in Seq(Nat), NEW n \in Nat,
         InLine(a, f, g, n), f # <<>>
  PROVE  /\ InLine(a, Tail(f), g, n)
         /\ Head(f) # 0 => InLine(Append(a, Head(f)), Tail(f), g, n)
<1> DEFINE t == Tail(f)  x == Head(f)  o == <<x>>  b == a \o o
<1>1. /\ t \in Seq(Nat) /\ x \in Nat /\ Ascending(t) /\ Below(o, t) /\ Below(t, g) /\ Below(o, g)
      /\ Below(a, t) /\ Below(a, o) /\ UpTo(t, n) /\ x <= n
  BY NumbersOfTail DEF InLine
<1>2. o \in Seq(Nat) /\ Append(a, x) = b /\ DOMAIN o = {1} /\ o[1] = x
  BY <1>1, OneFacts
<1> HIDE DEF t, x, o
<1>3. Ascending(o) /\ UpTo(o, n) /\ ToSet(o) = {x}
  BY <1>1, <1>2 DEF Ascending, UpTo, ToSet
<1>4. Ascending(b) /\ UpTo(b, n) /\ ToSet(b) = ToSet(a) \cup {x} /\ Below(b, t) /\ Below(b, g)
  <2>1. Ascending(a) /\ UpTo(a, n) /\ Below(a, g)
    BY DEF InLine
  <2> QED
    BY <1>1, <1>2, <1>3, <2>1, NumbersOfJoin
<1> HIDE DEF b
<1>5. InLine(a, t, g, n)
  BY <1>1 DEF InLine
<1>6. x # 0 => InLine(b, t, g, n)
  BY <1>1, <1>4 DEF InLine
<1> QED
  BY <1>2, <1>5, <1>6 DEF t, x

\* The first of the last queue moves to the second, if at all.
LEMMA LineMoves ==
  ASSUME NEW a \in Seq(Nat), NEW f \in Seq(Nat), NEW g \in Seq(Nat), NEW n \in Nat,
         InLine(a, f, g, n), g # <<>>, NEW h \in Seq(Nat), Ascending(h),
         \A i \in DOMAIN h : h[i] \in {0, Head(g)}
  PROVE  InLine(a, f \o h, Tail(g), n)
<1> DEFINE t == Tail(g)  x == Head(g)  o == <<x>>  u == f \o h
<1>1. /\ t \in Seq(Nat) /\ x \in Nat /\ Ascending(t) /\ Below(o, t) /\ Below(a, t) /\ Below(a, o)
      /\ Below(f, t) /\ Below(f, o) /\ UpTo(t, n) /\ x <= n
  BY NumbersOfTail DEF InLine
<1>2. DOMAIN o = {1} /\ o[1] = x
  OBVIOUS
<1>0. \A i \in DOMAIN h : h[i] = 0 \/ h[i] = x
  OBVIOUS
<1> HIDE DEF t, o, x
<1>3. Below(h, t) /\ Below(a, h) /\ Below(f, h) /\ UpTo(h, n)
  <2>1. Below(h, t)
    BY <1>0, <1>1, <1>2 DEF Below
  <2>2. Below(a, h) /\ Below(f, h)
    BY <1>0, <1>1, <1>2 DEF Below
  <2>3. 0 <= n
    OBVIOUS
  <2>4. UpTo(h, n)
    BY <1>0, <1>1, <2>3 DEF UpTo
  <2> QED
    BY <2>1, <2>2, <2>4
<1>4. Ascending(u) /\ UpTo(u, n) /\ Below(u, t) /\ Below(a, u)
  <2>1. Ascending(f) /\ UpTo(f, n) /\ Below(a, f)
    BY DEF InLine
  <2> QED
    BY <1>1, <1>3, <2>1, NumbersOfJoin
<1> HIDE DEF u
<1>5. InLine(a, u, t, n)
  BY <1>1, <1>4 DEF InLine
<1> QED
  BY <1>5 DEF t, u

\* What carries no number disturbs no line.
LEMMA LineIgnores ==
  ASSUME NEW a \in Seq(Nat), NEW f \in Seq(Nat), NEW g \in Seq(Nat), NEW n \in Nat,
         InLine(a, f, g, n), NEW h \in Seq(Nat), \A i \in DOMAIN h : h[i] = 0
  PROVE  InLine(a, f \o h, g, n) /\ InLine(a, f, g \o h, n)
<1>1. Ascending(h) /\ UpTo(h, n) /\ \A s : Below(s, h) /\ Below(h, s)
  BY DEF Ascending, UpTo, Below
<1>2. /\ Ascending(f) /\ Ascending(g) /\ UpTo(f, n) /\ UpTo(g, n)
      /\ Below(a, f) /\ Below(a, g) /\ Below(f, g) /\ Ascending(a) /\ UpTo(a, n) /\ 0 \notin ToSet(a)
  BY DEF InLine
<1> DEFINE u == f \o h  v == g \o h
<1>3. Ascending(u) /\ UpTo(u, n) /\ Below(u, g) /\ Below(a, u)
  BY <1>1, <1>2, NumbersOfJoin
<1>4. Ascending(v) /\ UpTo(v, n) /\ Below(f, v) /\ Below(a, v)
  BY <1>1, <1>2, NumbersOfJoin
<1> HIDE DEF u, v
<1>5. InLine(a, u, g, n) /\ InLine(a, f, v, n)
  BY <1>2, <1>3, <1>4 DEF InLine
<1> QED
  BY <1>5 DEF u, v

\* The next number is put at the end.
LEMMA LineGrows ==
  ASSUME NEW a \in Seq(Nat), NEW f \in Seq(Nat), NEW g \in Seq(Nat), NEW n \in Nat,
         InLine(a, f, g, n)
  PROVE  InLine(a, f, g \o <<n + 1>>, n + 1)
<1> DEFINE x == n + 1  o == <<x>>  v == g \o o
<1>0. x \in Nat /\ x > n
  OBVIOUS
<1> HIDE DEF x
<1>1. o \in Seq(Nat) /\ DOMAIN o = {1} /\ o[1] = x
  BY <1>0
<1>2. /\ Ascending(f) /\ Ascending(g) /\ UpTo(f, n) /\ UpTo(g, n)
      /\ Below(a, f) /\ Below(a, g) /\ Below(f, g) /\ Ascending(a) /\ UpTo(a, n) /\ 0 \notin ToSet(a)
  BY DEF InLine
<1>3. \A s \in Seq(Nat) : UpTo(s, n) => UpTo(s, x) /\ Below(s, <<x>>)
  <2> SUFFICES ASSUME NEW s \in Seq(Nat), UpTo(s, n) PROVE UpTo(s, x) /\ Below(s, o)
    OBVIOUS
  <2>1. \A i \in DOMAIN s : s[i] \in Nat /\ s[i] <= n
    BY DEF UpTo
  <2> HIDE DEF o
  <2> QED
    BY <2>1, <1>0, <1>1 DEF UpTo, Below
<1> HIDE DEF o
<1>4. Ascending(o) /\ UpTo(o, x)
  BY <1>0, <1>1 DEF Ascending, UpTo
<1>5. UpTo(a, x) /\ UpTo(f, x) /\ UpTo(g, x) /\ Below(a, o) /\ Below(f, o) /\ Below(g, o)
  BY <1>2, <1>3 DEF o
<1>6. Ascending(v) /\ UpTo(v, x) /\ Below(a, v) /\ Below(f, v)
  BY <1>0, <1>1, <1>2, <1>4, <1>5, NumbersOfJoin
<1> HIDE DEF v
<1>7. InLine(a, f, v, x)
  BY <1>2, <1>5, <1>6 DEF InLine
<1> QED
  BY <1>7 DEF x, o, v

\* Queues are emptied.
LEMMA LineCut ==
  ASSUME NEW a \in Seq(Nat), NEW f \in Seq(Nat), NEW g \in Seq(Nat), NEW n \in Nat,
         InLine(a, f, g, n)
  PROVE  InLine(a, f, <<>>, n) /\ InLine(a, <<>>, <<>>, n)
<1>1. DOMAIN <<>> = {}
  OBVIOUS
<1> DEFINE e == <<>>
<1> HIDE DEF e
<1>2. Ascending(e) /\ UpTo(e, n) /\ \A s : Below(s, e) /\ Below(e, s)
  BY <1>1 DEF e, Ascending, UpTo, Below
<1>3. InLine(a, f, e, n) /\ InLine(a, e, e, n)
  BY <1>2 DEF InLine
<1> QED
  BY <1>3 DEF e

-----------------------------------------------------------------------------
(* What the queues hold. *)

LEMMA StanzaCases ==
  ASSUME NEW T \in Seq(Texts), NEW G \in SUBSET (Peers \X Nat), NEW s \in Stanza(T, G)
  PROVE  /\ s.is \in {"message", "presence", "roster", "push", "disco"}
         /\ s.is = "message" =>
              \/ \E n \in DOMAIN T : T[n] \in Texts /\ s = Stamped(T[n], n)
              \/ \E p \in Peers, i \in Nat : <<p, i>> \in G /\ s = Receipt(p, i)
         /\ s.is = "presence" => s.from.bare \in Peers /\ s.show \in Shows
         /\ s.is \in {"roster", "push"} => s.items \in Seq(RosterItem)
         /\ s.is = "disco" => s.features \in Announces
<1>1. CASE \E n \in DOMAIN T : s = Stamped(T[n], n)
  <2>1. PICK n \in DOMAIN T : s = Stamped(T[n], n)
    BY <1>1
  <2>2. T[n] \in Texts
    OBVIOUS
  <2>3. s.is = "message"
    BY <2>1, <2>2, StampedFields
  <2> QED
    BY <2>1, <2>2, <2>3
<1>2. CASE \E pi \in G : s = Receipt(pi[1], pi[2])
  <2>1. PICK pi \in G : s = Receipt(pi[1], pi[2])
    BY <1>2
  <2>0. pi \in Peers \X Nat
    OBVIOUS
  <2>2. pi[1] \in Peers /\ pi[2] \in Nat /\ <<pi[1], pi[2]>> = pi
    BY <2>0
  <2>3. s.is = "message"
    BY <2>1 DEF Receipt
  <2> QED
    BY <2>1, <2>2, <2>3
<1>3. CASE s \in PresenceStanza(Peers)
  BY <1>3 DEF PresenceStanza
<1>4. CASE s \in [is : {"roster", "push"}, items : Seq(RosterItem)]
  BY <1>4
<1>5. CASE s \in [is : {"disco"}, features : Announces]
  BY <1>5
<1> QED
  BY <1>1, <1>2, <1>3, <1>4, <1>5 DEF Stanza

LEMMA TextEventFields ==
  ASSUME NEW T, NEW n
  PROVE  /\ TextEvent(T, n).is = "IncomingText" /\ TextEvent(T, n).stamp = n
         /\ TextEvent(T, n).sender = T[n].from /\ TextEvent(T, n).body = T[n].body
  BY DEF TextEvent

LEMMA EventCases ==
  ASSUME NEW T \in Seq(Texts), NEW G \in SUBSET (Peers \X Nat), NEW e \in Event(T, G)
  PROVE  /\ e.is \in {"Connected", "CapabilitiesDiscovered", "Disconnected", "RosterContactUpsert",
                      "RosterContactRemoved", "ContactPresenceUpdated", "IncomingText",
                      "DeliveryUpdated"}
         /\ e.is = "RosterContactUpsert" => e.jid \in Peers /\ e.subscription \in Subscriptions
         /\ e.is = "RosterContactRemoved" => e.jid \in Peers
         /\ e.is = "ContactPresenceUpdated" => e.jid \in Peers /\ e.presence \in Presences
         /\ e.is = "IncomingText" => e.stamp \in DOMAIN T /\ e = TextEvent(T, e.stamp)
         /\ e.is = "DeliveryUpdated" /\ e.sender \in Peers => <<e.sender, e.id>> \in G
<1>1. CASE e \in [is : {"Connected", "CapabilitiesDiscovered"}, capabilities : SUBSET AllCapabilities]
  BY <1>1
<1>2. CASE e \in [is : {"Disconnected"}]
  BY <1>2
<1>3. CASE e \in [is : {"RosterContactUpsert"}, jid : Peers, subscription : Subscriptions]
  BY <1>3
<1>4. CASE e \in [is : {"RosterContactRemoved"}, jid : Peers]
  BY <1>4
<1>5. CASE e \in [is : {"ContactPresenceUpdated"}, jid : Peers, presence : Presences]
  BY <1>5
<1>6. CASE \E n \in DOMAIN T : e = TextEvent(T, n)
  BY <1>6, TextEventFields
<1>7. CASE \E pi \in G : e = [is |-> "DeliveryUpdated", sender |-> pi[1], id |-> pi[2]]
  <2>1. PICK pi \in G : e = [is |-> "DeliveryUpdated", sender |-> pi[1], id |-> pi[2]]
    BY <1>7
  <2>2. pi \in Peers \X Nat
    OBVIOUS
  <2>3. pi = <<pi[1], pi[2]>>
    BY <2>2
  <2>4. e.is = "DeliveryUpdated" /\ e.sender = pi[1] /\ e.id = pi[2]
    BY <2>1
  <2> QED
    BY <2>3, <2>4
<1>8. CASE e \in [is : {"DeliveryUpdated"}, sender : {T[n].from : n \in DOMAIN T} \ Peers, id : Nat]
  BY <1>8
<1> QED
  BY <1>1, <1>2, <1>3, <1>4, <1>5, <1>6, <1>7, <1>8 DEF Event

LEMMA RequestCases ==
  ASSUME NEW T \in Seq(Texts), NEW r \in Request(T)
  PROVE  /\ r.is \in {"available", "getRoster", "getDisco", "result", "ack", "message"}
         /\ r.is = "ack" => r.of \in DOMAIN T
         /\ r.is = "message" => r.to \in Peers /\ r.id \in Nat
<1>1. CASE r \in [is : {"available", "getRoster", "getDisco", "result"}]
  BY <1>1
<1>2. CASE \E n \in DOMAIN T : r = [is |-> "ack", of |-> n]
  BY <1>2
<1>3. CASE r \in [is : {"message"}, to : Peers, id : Nat, request : BOOLEAN]
  BY <1>3
<1> QED
  BY <1>1, <1>2, <1>3 DEF Request

\* Nothing stops being a stanza, an event or a request because more is sent or
\* received.
LEMMA QueuesGrow ==
  ASSUME NEW T, NEW U, DOMAIN T \subseteq DOMAIN U, \A n \in DOMAIN T : U[n] = T[n],
         NEW G, NEW H, G \subseteq H
  PROVE  /\ Stanza(T, G) \subseteq Stanza(U, H)
         /\ Event(T, G) \subseteq Event(U, H)
         /\ Request(T) \subseteq Request(U)
         /\ \A q \in Seq(Stanza(T, G)) : q \in Seq(Stanza(U, H))
         /\ \A q \in Seq(Event(T, G)) : q \in Seq(Event(U, H))
         /\ \A q \in Seq(Request(T)) : q \in Seq(Request(U))
<1>1. Stanza(T, G) \subseteq Stanza(U, H)
  BY DEF Stanza
<1>2. Event(T, G) \subseteq Event(U, H)
  <2>1. {T[n].from : n \in DOMAIN T} \subseteq {U[n].from : n \in DOMAIN U}
    BY Zenon
  <2>2. {TextEvent(T, n) : n \in DOMAIN T} \subseteq {TextEvent(U, n) : n \in DOMAIN U}
    <3>1. \A n \in DOMAIN T : TextEvent(T, n) = TextEvent(U, n)
      BY DEF TextEvent
    <3> QED
      BY <3>1
  <2>3. {[is |-> "DeliveryUpdated", sender |-> pi[1], id |-> pi[2]] : pi \in G}
          \subseteq {[is |-> "DeliveryUpdated", sender |-> pi[1], id |-> pi[2]] : pi \in H}
    OBVIOUS
  <2>4. [is : {"DeliveryUpdated"}, sender : {T[n].from : n \in DOMAIN T} \ Peers, id : Nat]
          \subseteq [is : {"DeliveryUpdated"}, sender : {U[n].from : n \in DOMAIN U} \ Peers, id : Nat]
    BY <2>1
  <2> QED
    BY <2>2, <2>3, <2>4, Zenon DEF Event
<1>3. Request(T) \subseteq Request(U)
  BY DEF Request
<1>4. \A S1, S2 : S1 \subseteq S2 => \A q \in Seq(S1) : q \in Seq(S2)
  BY SeqMonotonic, Zenon
<1> QED
  BY <1>1, <1>2, <1>3, <1>4, Zenon

-----------------------------------------------------------------------------
(* Sets in order. *)

LEMMA InOrderFacts ==
  ASSUME NEW S \in SUBSET Nat, IsFiniteSet(S)
  PROVE  InOrder(S) \in [1 .. Cardinality(S) -> S] /\ Cardinality(S) \in Nat
<1> DEFINE upTo(i) == {j \in S : j <= i}
           rank == [i \in S |-> Cardinality(upTo(i))]
           c == Cardinality(S)
<1>1. c \in Nat
  BY FS_CardinalityType
<1>2. \A i \in S : /\ IsFiniteSet(upTo(i)) /\ upTo(i) \subseteq S /\ i \in upTo(i)
                   /\ Cardinality(upTo(i)) \in 1 .. c
  <2> SUFFICES ASSUME NEW i \in S
               PROVE  IsFiniteSet(upTo(i)) /\ i \in upTo(i) /\ Cardinality(upTo(i)) \in 1 .. c
    OBVIOUS
  <2>1. i \in upTo(i)
    OBVIOUS
  <2> DEFINE U == upTo(i)
  <2>2. U \in SUBSET S /\ i \in U
    BY <2>1
  <2> HIDE DEF U
  <2>3. IsFiniteSet(U) /\ Cardinality(U) <= c
    BY <2>2, FS_Subset
  <2>4. Cardinality(U) \in Nat /\ Cardinality(U) # 0
    BY <2>2, <2>3, FS_CardinalityType, FS_EmptySet
  <2> QED
    BY <1>1, <2>2, <2>3, <2>4 DEF U
<1>3. \A i, k \in S : i < k => Cardinality(upTo(i)) # Cardinality(upTo(k))
  <2> SUFFICES ASSUME NEW i \in S, NEW k \in S, i < k
               PROVE  Cardinality(upTo(i)) # Cardinality(upTo(k))
    OBVIOUS
  <2> DEFINE U == upTo(i)  V == upTo(k)
  <2>0. \A j \in S : j <= i => j <= k
    OBVIOUS
  <2>1. U \in SUBSET V /\ k \in V /\ k \notin U
    <3>1. k \in Nat /\ i \in Nat
      OBVIOUS
    <3>2. k <= k /\ ~ (k <= i)
      BY <3>1
    <3>3. U \subseteq V
      BY <2>0
    <3> QED
      BY <3>2, <3>3
  <2>2. IsFiniteSet(V)
    BY <1>2
  <2> HIDE DEF U, V
  <2>3. Cardinality(U) # Cardinality(V)
    BY <2>1, <2>2, FS_Subset
  <2> QED
    BY <2>3 DEF U, V
<1> DEFINE R == 1 .. c
<1>4. rank \in [S -> R]
  BY <1>2
<1>5. IsInjective(rank)
  <2>1. \A i, k \in S : i = k \/ i < k \/ k < i
    OBVIOUS
  <2> QED
    BY <1>3, <1>4, <2>1 DEF IsInjective
<1>6. rank \in Injection(S, R)
  BY <1>4, <1>5 DEF Injection
<1>7. IsFiniteSet(R) /\ Cardinality(R) = c
  <2>1. IsFiniteSet(1 .. c) /\ Cardinality(1 .. c) = IF 1 > c THEN 0 ELSE c - 1 + 1
    BY <1>1, FS_Interval
  <2> HIDE DEF c
  <2> QED
    BY <1>1, <2>1
<1>8. rank \in Surjection(S, R)
  <2> HIDE DEF rank, R
  <2> QED
    BY <1>6, <1>7, FS_Injection
<1>9. \A k \in R : \E i \in S : Cardinality({j \in S : j <= i}) = k
  BY <1>8 DEF Surjection
<1> QED
  BY <1>1, <1>9 DEF InOrder

-----------------------------------------------------------------------------
(* Translations. *)

LEMMA SubsetOfNaturalsIsFinite ==
  ASSUME NEW V, NEW q \in Seq(V), NEW S \in SUBSET (DOMAIN q)
  PROVE  IsFiniteSet(S) /\ S \in SUBSET Nat
<1>1. DOMAIN q = 1 .. Len(q) /\ Len(q) \in Nat
  BY LenProperties
<1>2. IsFiniteSet(1 .. Len(q))
  BY <1>1, FS_Interval
<1> QED
  BY <1>1, <1>2, FS_Subset

LEMMA ReceiptsTyped ==
  ASSUME NEW T \in Seq(Texts), NEW G \in SUBSET (Peers \X Nat), NEW s \in Stanza(T, G),
         s.is = "message"
  PROVE  /\ TranslateIncomingReceipts(s) \in Seq(Event(T, G))
         /\ \A k \in DOMAIN TranslateIncomingReceipts(s) :
              TranslateIncomingReceipts(s)[k].is = "DeliveryUpdated"
<1> DEFINE S == {i \in DOMAIN s.received : ParseReceiptMessageId(s.received[i]) # {}}
           parsed == InOrder(S)
           c == Cardinality(S)
           x(k) == [is |-> "DeliveryUpdated", sender |-> s.from, id |-> s.received[parsed[k]].number]
           r == [k \in 1 .. c |-> x(k)]
<1>1. CASE ~ IsDirectReceiptMessage(s) \/ s.from = "nobody"
  <2>1. TranslateIncomingReceipts(s) = <<>>
    BY <1>1 DEF TranslateIncomingReceipts
  <2> QED
    BY <2>1, NoneFacts
<1>2. CASE ~ (~ IsDirectReceiptMessage(s) \/ s.from = "nobody")
  <2>1. ASSUME NEW V, s.received \in Seq(V)
        PROVE  parsed \in [1 .. c -> S] /\ c \in Nat
    <3>1. S \in SUBSET (DOMAIN s.received)
      OBVIOUS
    <3> HIDE DEF S
    <3>2. IsFiniteSet(S) /\ S \in SUBSET Nat
      BY <2>1, <3>1, SubsetOfNaturalsIsFinite
    <3> QED
      BY <3>2, InOrderFacts
  <2>2. ASSUME parsed \in [1 .. c -> S], c \in Nat, \A k \in 1 .. c : x(k) \in Event(T, G)
        PROVE  /\ TranslateIncomingReceipts(s) \in Seq(Event(T, G))
               /\ \A k \in DOMAIN TranslateIncomingReceipts(s) :
                    TranslateIncomingReceipts(s)[k].is = "DeliveryUpdated"
    <3>1. DOMAIN parsed = 1 .. c
      BY <2>2
    <3>2. TranslateIncomingReceipts(s) = [k \in DOMAIN parsed |-> x(k)]
      BY <1>2 DEF TranslateIncomingReceipts
    <3>3. TranslateIncomingReceipts(s) = r
      BY <3>1, <3>2
    <3>4. r \in [1 .. c -> Event(T, G)]
      BY <2>2
    <3>5. r \in Seq(Event(T, G))
      <4> DEFINE E == Event(T, G)
      <4> HIDE DEF r, c, E
      <4>1. r \in [1 .. c -> E]
        BY <3>4 DEF E
      <4>2. r \in Seq(E)
        BY <2>2, <4>1, SeqDef
      <4> QED
        BY <4>2 DEF E
    <3>6. \A k \in DOMAIN r : r[k].is = "DeliveryUpdated"
      OBVIOUS
    <3> QED
      BY <3>3, <3>5, <3>6
  <2>3. CASE \E n \in DOMAIN T : T[n] \in Texts /\ s = Stamped(T[n], n)
    <3>1. PICK n \in DOMAIN T : T[n] \in Texts /\ s = Stamped(T[n], n)
      BY <2>3
    <3>2. s.from = T[n].from /\ s.received = T[n].received
      BY <3>1, StampedFields
    <3>3. s.received \in Seq([form : STRING, number : Nat])
      BY <3>1, <3>2, TextsAssumption
    <3>4. parsed \in [1 .. c -> S] /\ c \in Nat
      BY <2>1, <3>3
    <3>5. s.from \in Peers => S = {}
      BY <3>1, <3>2, TextsAssumption DEF ParseReceiptMessageId
    <3>6. ASSUME NEW k \in 1 .. c PROVE x(k) \in Event(T, G)
      <4>1. parsed[k] \in S /\ S # {}
        BY <3>4
      <4>2. s.received[parsed[k]] \in [form : STRING, number : Nat]
        <5> DEFINE i == parsed[k]
        <5>1. i \in DOMAIN s.received
          BY <4>1
        <5> HIDE DEF i
        <5>2. s.received[i] \in [form : STRING, number : Nat]
          <6> DEFINE q == s.received
          <6>1. q \in Seq([form : STRING, number : Nat]) /\ i \in DOMAIN q
            BY <3>3, <5>1
          <6> HIDE DEF q
          <6>2. i \in 1 .. Len(q)
            BY <6>1, LenProperties
          <6>3. q[i] \in [form : STRING, number : Nat]
            BY <6>1, <6>2, ElementOfSeq
          <6> QED
            BY <6>3 DEF q
        <5> QED
          BY <5>2 DEF i
      <4> DEFINE number == s.received[parsed[k]].number
      <4>3. number \in Nat
        BY <4>2
      <4>4. s.from \in {T[m].from : m \in DOMAIN T} \ Peers
        BY <3>1, <3>2, <3>5, <4>1
      <4> HIDE DEF number, S, parsed
      <4>5. [is |-> "DeliveryUpdated", sender |-> s.from, id |-> number] \in Event(T, G)
        BY <4>3, <4>4 DEF Event
      <4> QED
        BY <4>5 DEF number
    <3> QED
      BY <2>2, <3>4, <3>6
  <2>4. CASE \E p \in Peers, i \in Nat : <<p, i>> \in G /\ s = Receipt(p, i)
    <3>1. PICK p \in Peers, i \in Nat : <<p, i>> \in G /\ s = Receipt(p, i)
      BY <2>4
    <3> DEFINE q == [form |-> "mindchat", number |-> i]
    <3>2. s.from = p /\ s.received = <<q>>
      BY <3>1 DEF Receipt
    <3>3. q.number = i
      OBVIOUS
    <3> HIDE DEF q
    <3>4. s.received \in Seq({q}) /\ DOMAIN s.received = {1} /\ s.received[1] = q
      BY <3>2
    <3>5. parsed \in [1 .. c -> S] /\ c \in Nat
      BY <2>1, <3>4
    <3>6. ASSUME NEW k \in 1 .. c PROVE x(k) \in Event(T, G)
      <4>1. parsed[k] \in S
        BY <3>5
      <4>2. parsed[k] \in {1}
        BY <3>4, <4>1
      <4>3. s.received[parsed[k]].number = i
        BY <3>3, <3>4, <4>2
      <4>4. x(k) = [is |-> "DeliveryUpdated", sender |-> p, id |-> i]
        BY <3>2, <4>3
      <4> HIDE DEF x
      <4> DEFINE pi == <<p, i>>
      <4>5. pi \in G /\ x(k) = [is |-> "DeliveryUpdated", sender |-> pi[1], id |-> pi[2]]
        BY <3>1, <4>4
      <4> HIDE DEF pi
      <4> QED
        BY <4>5 DEF Event
    <3> QED
      BY <2>2, <3>5, <3>6
  <2> QED
    BY <2>3, <2>4, StanzaCases
<1> QED
  BY <1>1, <1>2

LEMMA TextTyped ==
  ASSUME NEW T \in Seq(Texts), NEW G \in SUBSET (Peers \X Nat), NEW s \in Stanza(T, G),
         s.is = "message"
  PROVE  /\ TranslateIncomingMessage(s) \in Seq(Event(T, G))
         /\ TranslateIncomingMessage(s) = <<>> \/
              (s.stamp \in DOMAIN T /\ TranslateIncomingMessage(s) = <<TextEvent(T, s.stamp)>>)
         /\ s.stamp \in DOMAIN T /\ Shown(T[s.stamp]) => TranslateIncomingMessage(s) # <<>>
  <1>1. CASE \E n \in DOMAIN T : T[n] \in Texts /\ s = Stamped(T[n], n)
    <2>1. PICK n \in DOMAIN T : T[n] \in Texts /\ s = Stamped(T[n], n)
      BY <1>1
    <2>2. /\ s.from = T[n].from /\ s.type = T[n].type /\ s.body = T[n].body /\ s.stamp = n
      BY <2>1, StampedFields
    <2>3. TextEvent(T, n) \in Event(T, G)
      BY DEF Event
    <2>4. <<TextEvent(T, n)>> \in Seq(Event(T, G)) /\ <<>> \in Seq(Event(T, G))
      BY <2>3
    <2>5. TranslateIncomingMessage(s) = <<>> \/ TranslateIncomingMessage(s) = <<TextEvent(T, n)>>
      BY <2>2 DEF TranslateIncomingMessage, TextEvent
    <2>6. Shown(T[n]) => TranslateIncomingMessage(s) # <<>>
      BY <2>2, InboundAssumption DEF TranslateIncomingMessage, Shown
    <2> QED
      BY <2>1, <2>2, <2>4, <2>5, <2>6
  <1>2. CASE \E p \in Peers, i \in Nat : <<p, i>> \in G /\ s = Receipt(p, i)
    <2>1. s.body = "none" /\ s.stamp = 0
      BY <1>2 DEF Receipt
    <2>2. TranslateIncomingMessage(s) = <<>>
      BY <2>1 DEF TranslateIncomingMessage
    <2>3. DOMAIN T = 1 .. Len(T) /\ Len(T) \in Nat
      BY LenProperties
    <2> QED
      BY <2>1, <2>2, <2>3, NoneFacts
  <1> QED
    BY <1>1, <1>2, StanzaCases

LEMMA RosterTyped ==
  ASSUME NEW T \in Seq(Texts), NEW G \in SUBSET (Peers \X Nat), NEW items \in Seq(RosterItem)
  PROVE  /\ EmitRoster(items) \in Seq(Event(T, G))
         /\ DOMAIN EmitRoster(items) = DOMAIN items
         /\ \A k \in DOMAIN items :
              /\ items[k].jid \in Peers /\ items[k].item \in Items
              /\ EmitRoster(items)[k].jid = items[k].jid
              /\ items[k].item = "absent" => EmitRoster(items)[k].is = "RosterContactRemoved"
              /\ items[k].item # "absent" =>
                   /\ EmitRoster(items)[k].is = "RosterContactUpsert"
                   /\ EmitRoster(items)[k].subscription = RosterSubscription(items[k].item)
<1> DEFINE r == EmitRoster(items)
<1>1. DOMAIN items = 1 .. Len(items) /\ Len(items) \in Nat
  BY LenProperties
<1>2. DOMAIN r = DOMAIN items
  BY DEF EmitRoster
<1>3. \A x : RosterSubscription(x) \in Subscriptions
  BY DEF RosterSubscription, Subscriptions
<1>4. ASSUME NEW k \in DOMAIN items
      PROVE  /\ items[k].jid \in Peers /\ items[k].item \in Items
             /\ items[k].item = "absent" => r[k] = [is |-> "RosterContactRemoved", jid |-> items[k].jid]
             /\ items[k].item # "absent" =>
                  r[k] = [is |-> "RosterContactUpsert", jid |-> items[k].jid,
                          subscription |-> RosterSubscription(items[k].item)]
  <2>1. items[k] \in RosterItem
    BY <1>1, ElementOfSeq
  <2> QED
    BY <2>1 DEF EmitRoster, RosterItem
<1>5. ASSUME NEW k \in DOMAIN items PROVE r[k] \in Event(T, G)
  <2> DEFINE p == items[k].jid  x == items[k].item  sub == RosterSubscription(x)
  <2>0. p \in Peers /\ sub \in Subscriptions
    BY <1>3, <1>4
  <2>1. CASE x = "absent"
    <3>1. r[k] = [is |-> "RosterContactRemoved", jid |-> p]
      BY <1>4, <2>1
    <3> HIDE DEF r, p
    <3> QED
      BY <2>0, <3>1 DEF Event
  <2>2. CASE x # "absent"
    <3>1. r[k] = [is |-> "RosterContactUpsert", jid |-> p, subscription |-> sub]
      BY <1>4, <2>2
    <3> HIDE DEF r, p, sub
    <3> QED
      BY <2>0, <3>1 DEF Event
  <2> QED
    BY <2>1, <2>2
<1>6. r \in Seq(Event(T, G))
  <2> DEFINE E == Event(T, G)
  <2>1. r \in [DOMAIN items -> E]
    BY <1>5 DEF EmitRoster
  <2> HIDE DEF r, E
  <2>2. r \in Seq(E)
    BY <2>1, <1>1, SeqDef
  <2> QED
    BY <2>2 DEF E
<1> QED
  BY <1>2, <1>4, <1>6

LEMMA PresenceTyped ==
  ASSUME NEW T \in Seq(Texts), NEW G \in SUBSET (Peers \X Nat), NEW s,
         s.from.bare \in Peers, s.show \in Shows
  PROVE  /\ TranslatePresence(s) \in Seq(Event(T, G))
         /\ s.show = "subscribe" => TranslatePresence(s) = <<>>
         /\ s.show # "subscribe" =>
              TranslatePresence(s) =
                <<[is |-> "ContactPresenceUpdated", jid |-> s.from.bare, presence |-> ContactPresence(s.show)]>>
<1>1. s.show # "subscribe" => ContactPresence(s.show) \in Presences
  BY InboundAssumption DEF ContactPresence, Presences
<1>2. CASE s.show = "subscribe"
  BY <1>2, NoneFacts DEF TranslatePresence
<1>3. CASE s.show # "subscribe"
  <2> DEFINE v == ContactPresence(s.show)
             e == [is |-> "ContactPresenceUpdated", jid |-> s.from.bare, presence |-> v]
  <2>1. v \in Presences
    BY <1>1, <1>3
  <2>2. TranslatePresence(s) = <<e>>
    BY <1>3 DEF TranslatePresence
  <2> HIDE DEF v
  <2>3. e \in Event(T, G)
    BY <2>1 DEF Event
  <2> HIDE DEF e
  <2>4. <<e>> \in Seq(Event(T, G))
    BY <2>3
  <2> QED
    BY <1>3, <2>2, <2>4 DEF e, v
<1> QED
  BY <1>2, <1>3

LEMMA EventsTyped ==
  ASSUME NEW T \in Seq(Texts), NEW G \in SUBSET (Peers \X Nat), NEW s \in Stanza(T, G),
         streamCaps \subseteq {"StreamManagement"}
  PROVE  EventsOf(s) \in Seq(Event(T, G))
<1>0. /\ s.is \in {"message", "presence", "roster", "push", "disco"}
      /\ s.is = "presence" => s.from.bare \in Peers /\ s.show \in Shows
      /\ s.is \in {"roster", "push"} => s.items \in Seq(RosterItem)
  BY StanzaCases
<1>1. CASE s.is = "message"
  <2> DEFINE r == TranslateIncomingReceipts(s)  t == TranslateIncomingMessage(s)
  <2>1. r \in Seq(Event(T, G)) /\ t \in Seq(Event(T, G))
    BY <1>1, ReceiptsTyped, TextTyped
  <2>2. EventsOf(s) = r \o t
    BY <1>1 DEF EventsOf
  <2> HIDE DEF r, t
  <2>3. r \o t \in Seq(Event(T, G))
    BY <2>1, ConcatProperties
  <2> QED
    BY <2>2, <2>3
<1>2. CASE s.is = "presence"
  <2>1. EventsOf(s) = TranslatePresence(s)
    BY <1>2 DEF EventsOf
  <2> QED
    BY <1>0, <1>2, <2>1, PresenceTyped
<1>3. CASE s.is \in {"roster", "push"}
  <2>1. EventsOf(s) = EmitRoster(s.items)
    BY <1>3 DEF EventsOf
  <2> QED
    BY <1>0, <1>3, <2>1, RosterTyped
<1>4. CASE s.is = "disco"
  <2> DEFINE c == streamCaps \cup CapabilitiesFromDisco(s.features)
             e == [is |-> "CapabilitiesDiscovered", capabilities |-> c]
  <2>1. c \subseteq AllCapabilities
    BY DEF AllCapabilities, CapabilitiesFromDisco
  <2>2. EventsOf(s) = <<e>>
    BY <1>4 DEF EventsOf
  <2> HIDE DEF c
  <2>3. e \in Event(T, G)
    BY <2>1 DEF Event
  <2> HIDE DEF e
  <2>4. <<e>> \in Seq(Event(T, G))
    BY <2>3
  <2> QED
    BY <2>2, <2>4
<1> QED
  BY <1>0, <1>1, <1>2, <1>3, <1>4

LEMMA AnswersTyped ==
  ASSUME NEW T \in Seq(Texts), NEW G \in SUBSET (Peers \X Nat), NEW s \in Stanza(T, G)
  PROVE  /\ AnswersTo(s) \in Seq(Request(T))
         /\ \/ AnswersTo(s) = <<>>
            \/ AnswersTo(s) = <<[is |-> "result"]>>
            \/ s.is = "message" /\ s.stamp \in DOMAIN T /\ AnswersTo(s) = <<[is |-> "ack", of |-> s.stamp]>>
         /\ s.is = "message" /\ s.stamp \in DOMAIN T /\ Asked(T[s.stamp]) =>
              AnswersTo(s) = <<[is |-> "ack", of |-> s.stamp]>>
<1>0. <<>> \in Seq(Request(T))
  OBVIOUS
<1>1. CASE s.is = "message"
  <2>0. AnswersTo(s) = ReceiptAcknowledgement(s)
    BY <1>1 DEF AnswersTo
  <2>1. CASE \E n \in DOMAIN T : T[n] \in Texts /\ s = Stamped(T[n], n)
    <3>1. PICK n \in DOMAIN T : T[n] \in Texts /\ s = Stamped(T[n], n)
      BY <2>1
    <3> DEFINE e == [is |-> "ack", of |-> n]
    <3>2. /\ s.from = T[n].from /\ s.type = T[n].type /\ s.id = T[n].id /\ s.stamp = n
          /\ s.request = T[n].request
      BY <3>1, StampedFields
    <3>3. e \in Request(T)
      BY DEF Request
    <3>4. AnswersTo(s) = <<>> \/ AnswersTo(s) = <<e>>
      BY <2>0, <3>2 DEF ReceiptAcknowledgement
    <3>5. Asked(T[n]) => AnswersTo(s) = <<e>>
      BY <2>0, <3>2 DEF ReceiptAcknowledgement, Asked, IsDirectReceiptMessage
    <3>6. <<e>> \in Seq(Request(T))
      BY <3>3
    <3> QED
      BY <1>0, <1>1, <3>1, <3>2, <3>4, <3>5, <3>6
  <2>2. CASE \E p \in Peers, i \in Nat : <<p, i>> \in G /\ s = Receipt(p, i)
    <3>1. s.request = FALSE /\ s.stamp = 0
      BY <2>2 DEF Receipt
    <3>2. AnswersTo(s) = <<>>
      BY <2>0, <3>1 DEF ReceiptAcknowledgement
    <3>3. 0 \notin DOMAIN T
      BY LenProperties
    <3> QED
      BY <1>0, <3>1, <3>2, <3>3
  <2> QED
    BY <1>1, <2>1, <2>2, StanzaCases
<1>2. CASE s.is = "push"
  <2>1. AnswersTo(s) = <<[is |-> "result"]>>
    BY <1>2 DEF AnswersTo
  <2>2. [is |-> "result"] \in Request(T)
    BY DEF Request
  <2> QED
    BY <1>2, <2>1, <2>2
<1>3. CASE s.is \notin {"message", "push"}
  <2>1. AnswersTo(s) = <<>>
    BY <1>3 DEF AnswersTo
  <2> QED
    BY <1>0, <1>3, <2>1
<1> QED
  BY <1>1, <1>2, <1>3

-----------------------------------------------------------------------------
(* What the server lists. *)

LEMMA SetToSeqFacts ==
  ASSUME NEW S, IsFiniteSet(S)
  PROVE  SetToSeq(S) \in Seq(S) /\ \A x \in S : \E i \in DOMAIN SetToSeq(S) : SetToSeq(S)[i] = x
<1> DEFINE n == Cardinality(S)  R == 1 .. n  q == SetToSeq(S)
<1>1. n \in Nat /\ ExistsBijection(R, S)
  BY FS_CardinalityType
<1>2. \E f \in [R -> S] : IsInjective(f)
  BY <1>1 DEF ExistsBijection, Bijection, Injection
<1>3. q \in [R -> S] /\ IsInjective(q)
  BY <1>2 DEF SetToSeq
<1>4. IsFiniteSet(R) /\ Cardinality(R) = n
  <2>1. IsFiniteSet(1 .. n) /\ Cardinality(1 .. n) = IF 1 > n THEN 0 ELSE n - 1 + 1
    BY <1>1, FS_Interval
  <2> HIDE DEF n
  <2> QED
    BY <1>1, <2>1
<1>5. q \in Injection(R, S)
  BY <1>3 DEF Injection
<1>6. q \in Surjection(R, S)
  <2> HIDE DEF q, R
  <2> QED
    BY <1>4, <1>5, FS_Injection
<1>7. q \in Seq(S)
  <2> HIDE DEF q, n
  <2> QED
    BY <1>1, <1>3, SeqDef
<1> HIDE DEF q, R
<1>8. DOMAIN q = R
  BY <1>3
<1>9. \A x \in S : \E i \in DOMAIN q : q[i] = x
  BY <1>6, <1>8 DEF Surjection
<1> QED
  BY <1>7, <1>9 DEF q

LEMMA PresencesListed ==
  ASSUME TypeOK, NEW who \in SUBSET Peers
  PROVE  PresencesOf(who) \in Seq(PresenceStanza(who))
<1> DEFINE P == {x \in who \X Devices : shows[x[1]][x[2]] # "unavailable"}
           f == [x \in P |-> PresenceOf(x[1], x[2], shows[x[1]][x[2]])]
           S == {PresenceOf(x[1], x[2], shows[x[1]][x[2]]) : x \in P}
<1>1. IsFiniteSet(P)
  <2>1. IsFiniteSet(who) /\ IsFiniteSet(Devices)
    BY InboundAssumption, FS_Subset
  <2>2. IsFiniteSet(who \X Devices)
    BY <2>1, FS_Product
  <2>3. P \subseteq who \X Devices
    OBVIOUS
  <2> QED
    BY <2>2, <2>3, FS_Subset
<1>2. f \in Surjection(P, S)
  <2> HIDE DEF P
  <2> QED
    BY DEF Surjection
<1>3. IsFiniteSet(S)
  <2> HIDE DEF f, S, P
  <2> QED
    BY <1>1, <1>2, FS_Surjection
<1>4. S \subseteq PresenceStanza(who)
  <2> SUFFICES ASSUME NEW x \in P
               PROVE  PresenceOf(x[1], x[2], shows[x[1]][x[2]]) \in PresenceStanza(who)
    OBVIOUS
  <2>1. x[1] \in who /\ x[2] \in Devices
    OBVIOUS
  <2>2. shows[x[1]][x[2]] \in Shows
    BY <2>1 DEF TypeOK
  <2> QED
    BY <2>1, <2>2 DEF PresenceOf, PresenceStanza
<1>5. PresencesOf(who) = SetToSeq(S)
  BY DEF PresencesOf
<1> HIDE DEF S
<1>6. SetToSeq(S) \in Seq(S)
  BY <1>3, SetToSeqFacts
<1> QED
  BY <1>4, <1>5, <1>6, SeqMonotonic

LEMMA PresencesAreStanzas ==
  ASSUME NEW who \in SUBSET Peers, NEW q \in Seq(PresenceStanza(who)), NEW T, NEW G
  PROVE  q \in Seq(Stanza(T, G))
<1>1. PresenceStanza(who) \subseteq Stanza(T, G)
  BY DEF PresenceStanza, Stanza
<1> QED
  BY <1>1, SeqMonotonic

LEMMA PresencesOnly ==
  ASSUME NEW who \in SUBSET Peers, NEW q \in Seq(PresenceStanza(who)), NEW i \in DOMAIN q
  PROVE  q[i].is = "presence" /\ q[i].from.bare \in who /\ q[i].show \in Shows
<1>1. q[i] \in PresenceStanza(who)
  BY LenProperties, ElementOfSeq
<1> QED
  BY <1>1 DEF PresenceStanza

\* The last of some positions of a queue.
LEMMA LastOf ==
  ASSUME NEW V, NEW q \in Seq(V), NEW S \in SUBSET (DOMAIN q), S # {}
  PROVE  Max(S) \in S /\ \A i \in S : i <= Max(S)
<1>1. DOMAIN q = 1 .. Len(q) /\ Len(q) \in Nat
  BY LenProperties
<1>2. S \in SUBSET (0 .. Len(q))
  BY <1>1
<1> QED
  BY <1>1, <1>2, MaxIsGreatest

LEMMA ToldTyped ==
  ASSUME ghost.told \in [Peers -> Shows \cup {"nothing"}],
         NEW who \in SUBSET Peers, NEW q \in Seq(PresenceStanza(who))
  PROVE  ToldBy(q) \in [Peers -> Shows \cup {"nothing"}]
<1> DEFINE About(p) == {i \in DOMAIN q : Tells(p, q[i])}
<1>1. \A i \in DOMAIN q : q[i].show \in Shows
  BY PresencesOnly
<1>2. ASSUME NEW p \in Peers, About(p) # {} PROVE Max(About(p)) \in DOMAIN q
  <2> DEFINE S == About(p)
  <2>1. S \in SUBSET (DOMAIN q) /\ S # {}
    BY <1>2
  <2> HIDE DEF S
  <2>2. Max(S) \in S
    BY <2>1, LastOf
  <2> QED
    BY <2>1, <2>2 DEF S
<1>3. \A p \in Peers : ToldBy(q)[p] = IF About(p) = {} THEN ghost.told[p] ELSE q[Max(About(p))].show
  BY DEF ToldBy
<1>4. DOMAIN ToldBy(q) = Peers /\ ToldBy(q) = [p \in Peers |-> ToldBy(q)[p]]
  BY DEF ToldBy
<1> HIDE DEF About
<1>5. \A p \in Peers : ToldBy(q)[p] \in Shows \cup {"nothing"}
  BY <1>1, <1>2, <1>3
<1> QED
  BY <1>4, <1>5

\* The roster result: one entry for each peer on it, with what the server holds.
Listed == {p \in Peers : roster[p] # "absent"}
RosterResult ==
  [i \in DOMAIN SetToSeq(Listed) |->
     [jid |-> SetToSeq(Listed)[i], item |-> roster[SetToSeq(Listed)[i]]]]

LEMMA RosterListed ==
  ASSUME TypeOK
  PROVE  /\ RosterResult \in Seq(RosterItem)
         /\ \A k \in DOMAIN RosterResult :
              /\ RosterResult[k].jid \in Listed
              /\ RosterResult[k].item = roster[RosterResult[k].jid]
         /\ \A p \in Listed : \E k \in DOMAIN RosterResult : RosterResult[k].jid = p
<1> DEFINE S == Listed  q == SetToSeq(S)
<1>1. IsFiniteSet(S) /\ S \subseteq Peers
  BY InboundAssumption, FS_Subset DEF Listed
<1>2. q \in Seq(S) /\ \A x \in S : \E i \in DOMAIN q : q[i] = x
  BY <1>1, SetToSeqFacts
<1>3. DOMAIN q = 1 .. Len(q) /\ Len(q) \in Nat /\ \A i \in DOMAIN q : q[i] \in S
  BY <1>2, LenProperties, ElementOfSeq
<1>4. RosterResult = [i \in DOMAIN q |-> [jid |-> q[i], item |-> roster[q[i]]]]
  BY DEF RosterResult
<1> HIDE DEF q, S
<1>5. \A i \in DOMAIN q : RosterResult[i].jid = q[i] /\ RosterResult[i].item = roster[q[i]]
  BY <1>4
<1>6. \A i \in DOMAIN q : RosterResult[i] \in RosterItem
  BY <1>1, <1>3, <1>4 DEF RosterItem, TypeOK
<1>7. RosterResult \in [DOMAIN q -> RosterItem]
  BY <1>4, <1>6
<1>8. RosterResult \in Seq(RosterItem)
  BY <1>2, <1>7, MapIsSeq
<1>9. DOMAIN RosterResult = DOMAIN q
  BY <1>4
<1> QED
  BY <1>2, <1>3, <1>5, <1>8, <1>9 DEF S

-----------------------------------------------------------------------------
(* Types, and the causes of deliveries. *)

Sound == Typed /\ DeliveredMeansReceived

LEMMA TypedFields ==
  ASSUME Typed
  PROVE  /\ ghost.texts \in Seq(Texts) /\ ghost.got \in SUBSET (Peers \X Nat)
         /\ ghost.sessions \in Nat /\ ghost.sent \in Nat /\ ghost.written \in Nat
         /\ ghost.lost \subseteq Nat /\ ghost.cut \subseteq Nat /\ ghost.acked \in Seq(Nat)
         /\ ghost.hidden \subseteq Peers /\ ghost.edited \subseteq Peers
         /\ ghost.told \in [Peers -> Shows \cup {"nothing"}]
         /\ DOMAIN ghost = {"sessions", "sent", "written", "texts", "lost", "cut", "acked", "got",
                            "told", "hidden", "edited"}
  BY DEF Typed, History

LEMMA InitIsSound == Init => Sound
<1> SUFFICES ASSUME Init PROVE Sound
  OBVIOUS
<1>1. ghost.texts = <<>> /\ ghost.got = {} /\ ghost \in History
  <2>1. <<>> \in Seq(Texts) /\ <<>> \in Seq(Nat)
    OBVIOUS
  <2> QED
    BY <2>1 DEF Init, NothingTold, History
<1>2. down \in Seq(Stanza(ghost.texts, ghost.got)) /\ up \in Seq(Request(ghost.texts))
      /\ events \in Seq(Event(ghost.texts, ghost.got)) /\ out \in Seq(Outgoing) /\ inbox \in Seq(Nat)
  BY DEF Init
<1>3. TypeOK /\ streamCaps \subseteq {"StreamManagement"}
  <2>1. DOMAIN contacts = {} /\ DOMAIN out = {}
    BY DEF Init
  <2>2. live \in BOOLEAN /\ announced \in BOOLEAN
    BY DEF Init
  <2>3. /\ roster \in [Peers -> Items] /\ shows \in [Peers -> [Devices -> Shows]]
        /\ features \in Announces /\ streamCaps = {}
    BY DEF Init
  <2> QED
    BY <2>1, <2>2, <2>3 DEF TypeOK
<1>4. DeliveredMeansReceived
  BY DEF Init, DeliveredMeansReceived
<1> QED
  BY <1>1, <1>2, <1>3, <1>4 DEF Sound, Typed

LEMMA StanzaKeepsSound ==
  ASSUME Sound, HandleStanza
  PROVE  Sound'
<1> DEFINE T == ghost.texts  G == ghost.got  s == Head(down)
<1>1. T \in Seq(Texts) /\ G \in SUBSET (Peers \X Nat)
  BY TypedFields DEF Sound
<1>2. down \in Seq(Stanza(T, G)) /\ up \in Seq(Request(T)) /\ events \in Seq(Event(T, G))
  BY DEF Sound, Typed
<1>3. ghost' = ghost /\ down # <<>>
  BY DEF HandleStanza
<1>4. s \in Stanza(T, G) /\ Tail(down) \in Seq(Stanza(T, G))
  BY <1>2, <1>3, TailFacts
<1>5. EventsOf(s) \in Seq(Event(T, G)) /\ AnswersTo(s) \in Seq(Request(T))
  BY <1>1, <1>4, EventsTyped, AnswersTyped DEF Sound, Typed
<1>6. events \o EventsOf(s) \in Seq(Event(T, G)) /\ up \o AnswersTo(s) \in Seq(Request(T))
  BY <1>2, <1>5, ConcatProperties
<1>7. events' \in Seq(Event(T, G)) /\ up' \in Seq(Request(T)) /\ down' \in Seq(Stanza(T, G))
  BY <1>4, <1>6 DEF HandleStanza
<1> HIDE DEF T, G, s
<1>8. TypeOK' /\ DeliveredMeansReceived'
  BY DEF Sound, Typed, TypeOK, HandleStanza, core, server, DeliveredMeansReceived
<1> QED
  BY <1>3, <1>7, <1>8 DEF Sound, Typed, HandleStanza, core, server, T, G

LEMMA RequestsTyped ==
  ASSUME NEW T
  PROVE  Requests \in Seq(Request(T))
<1>1. [is |-> "available"] \in Request(T) /\ [is |-> "getRoster"] \in Request(T)
      /\ [is |-> "getDisco"] \in Request(T)
  BY DEF Request
<1> QED
  BY <1>1 DEF Requests

\* Numbers of texts in a stream.
LEMMA StampsTyped ==
  ASSUME Typed
  PROVE  StampsIn(down) \subseteq Nat /\ AcksIn(up) \subseteq Nat
<1> DEFINE T == ghost.texts  G == ghost.got
<1>1. T \in Seq(Texts) /\ G \in SUBSET (Peers \X Nat)
  BY TypedFields
<1>2. down \in Seq(Stanza(T, G)) /\ up \in Seq(Request(T))
  BY DEF Typed
<1> HIDE DEF T, G
<1>3. \A s \in ToSet(down) : s \in Stanza(T, G)
  BY <1>2, LenProperties, ElementOfSeq DEF ToSet
<1>4. \A r \in ToSet(up) : r \in Request(T)
  BY <1>2, LenProperties, ElementOfSeq DEF ToSet
<1>5. DOMAIN T \subseteq Nat
  BY <1>1, LenProperties
<1>6. ASSUME NEW s \in ToSet(down), s.is = "message" PROVE s.stamp \in Nat
  <2>1. s \in Stanza(T, G)
    BY <1>3
  <2>2. \/ \E n \in DOMAIN T : T[n] \in Texts /\ s = Stamped(T[n], n)
        \/ \E p \in Peers, i \in Nat : <<p, i>> \in G /\ s = Receipt(p, i)
    BY <1>1, <1>6, <2>1, StanzaCases
  <2>3. CASE \E n \in DOMAIN T : T[n] \in Texts /\ s = Stamped(T[n], n)
    BY <1>5, <2>3, StampedFields
  <2>4. CASE \E p \in Peers, i \in Nat : <<p, i>> \in G /\ s = Receipt(p, i)
    BY <2>4 DEF Receipt
  <2> QED
    BY <2>2, <2>3, <2>4
<1>7. \A r \in ToSet(up) : r.is = "ack" => r.of \in Nat
  BY <1>1, <1>4, <1>5, RequestCases
<1> QED
  BY <1>6, <1>7 DEF StampsIn, AcksIn

LEMMA OnlineKeepsSound ==
  ASSUME Sound, HandleOnline
  PROVE  Sound'
<1> DEFINE T == ghost.texts  G == ghost.got
<1>1. T \in Seq(Texts) /\ G \in SUBSET (Peers \X Nat)
  BY TypedFields DEF Sound
<1>2. down \in Seq(Stanza(T, G)) /\ up \in Seq(Request(T)) /\ events \in Seq(Event(T, G))
  BY DEF Sound, Typed
<1>0. PICK resumed \in BOOLEAN :
        /\ IF resumed THEN UNCHANGED <<features, down, announced>>
           ELSE features' \in Announces /\ down' = <<>> /\ announced' = FALSE
        /\ up' = (IF resumed THEN up ELSE <<>>) \o Requests
        /\ ghost' = [ghost EXCEPT !.sessions = @ + 1,
                                  !.told = IF resumed THEN @ ELSE NothingTold,
                                  !.lost = IF resumed THEN @ ELSE @ \cup StampsIn(down),
                                  !.cut = IF resumed THEN @ ELSE @ \cup StampsIn(down) \cup AcksIn(up)]
  BY DEF HandleOnline
<1>3. ghost' \in History /\ ghost'.texts = T /\ ghost'.got = G
  <2> DEFINE l == IF resumed THEN ghost.lost ELSE ghost.lost \cup StampsIn(down)
             y == IF resumed THEN ghost.told ELSE NothingTold
             k == IF resumed THEN ghost.cut ELSE ghost.cut \cup StampsIn(down) \cup AcksIn(up)
  <2>1. l \subseteq Nat /\ k \subseteq Nat /\ y \in [Peers -> Shows \cup {"nothing"}]
    BY TypedFields, StampsTyped DEF Sound, NothingTold
  <2>2. ghost' = [ghost EXCEPT !.sessions = @ + 1, !.told = y, !.lost = l, !.cut = k]
    BY <1>0
  <2> HIDE DEF l, k, y
  <2>3. ghost \in History
    BY DEF Sound, Typed
  <2>4. ghost' \in History
    <3> DEFINE x == ghost.sessions + 1
    <3>1. x \in Nat
      BY TypedFields DEF Sound
    <3>2. ghost' = [ghost EXCEPT !.sessions = x, !.told = y, !.lost = l, !.cut = k]
      BY <2>2
    <3> HIDE DEF x
    <3>3. l \in SUBSET Nat /\ k \in SUBSET Nat /\ y \in [Peers -> Shows \cup {"nothing"}]
      BY <2>1
    <3> QED
      BY <2>3, <3>1, <3>2, <3>3 DEF History
  <2>5. ghost'.texts = ghost.texts /\ ghost'.got = ghost.got
    BY <2>2, <2>3 DEF History
  <2> QED
    BY <2>4, <2>5
<1>4. down' \in Seq(Stanza(T, G))
  <2>1. down' = down \/ down' = <<>>
    BY <1>0
  <2>2. <<>> \in Seq(Stanza(T, G))
    BY NoneFacts, Zenon
  <2> QED
    BY <1>2, <2>1, <2>2, Zenon
<1>5. up' \in Seq(Request(T))
  <2>1. \A q \in Seq(Request(T)) : q \o Requests \in Seq(Request(T))
    BY RequestsTyped, ConcatProperties
  <2>2. up \o Requests \in Seq(Request(T)) /\ <<>> \o Requests \in Seq(Request(T))
    BY <1>2, <2>1
  <2>3. up' = up \o Requests \/ up' = <<>> \o Requests
    BY DEF HandleOnline
  <2> QED
    BY <2>2, <2>3
<1>6. streamCaps' \subseteq {"StreamManagement"}
  BY DEF HandleOnline, StreamCapabilities
<1>7. events' \in Seq(Event(T, G))
  <2> DEFINE c == streamCaps'  e == [is |-> "Connected", capabilities |-> c]
  <2>1. c \subseteq AllCapabilities
    BY <1>6 DEF AllCapabilities
  <2>2. events' = Append(events, e)
    BY DEF HandleOnline
  <2> HIDE DEF c
  <2>3. e \in Event(T, G)
    BY <2>1 DEF Event
  <2> HIDE DEF e
  <2> QED
    BY <1>2, <2>2, <2>3, AppendProperties
<1>8. features' \in Announces /\ announced' \in BOOLEAN /\ live' \in BOOLEAN
  BY DEF HandleOnline, Sound, Typed, TypeOK
<1>9. TypeOK'
  BY <1>8 DEF Sound, Typed, TypeOK, HandleOnline, core
<1>10. DeliveredMeansReceived'
  BY <1>3 DEF Sound, HandleOnline, core, DeliveredMeansReceived
<1> HIDE DEF T, G
<1> QED
  BY <1>3, <1>4, <1>5, <1>6, <1>7, <1>9, <1>10 DEF Sound, Typed, HandleOnline, core

LEMMA DisconnectKeepsSound ==
  ASSUME Sound, HandleDisconnected
  PROVE  Sound'
<1> DEFINE T == ghost.texts  G == ghost.got  e == [is |-> "Disconnected"]
<1>1. ghost' = ghost /\ events' = Append(events, e) /\ down' = down /\ up' = up
  BY DEF HandleDisconnected
<1>2. e \in Event(T, G)
  BY DEF Event
<1>3. events \in Seq(Event(T, G))
  BY DEF Sound, Typed
<1> HIDE DEF e
<1>4. events' \in Seq(Event(T, G))
  BY <1>1, <1>2, <1>3, AppendProperties
<1>5. TypeOK' /\ DeliveredMeansReceived'
  BY DEF Sound, Typed, TypeOK, HandleDisconnected, core, server, DeliveredMeansReceived
<1> QED
  BY <1>1, <1>4, <1>5 DEF Sound, Typed, HandleDisconnected, core, server

LEMMA PollKeepsContacts ==
  ASSUME Sound, PollEvent
  PROVE  /\ DOMAIN contacts' \subseteq Peers
         /\ \A p \in DOMAIN contacts' :
              contacts'[p] \in [presence : Presences, subscription : Subscriptions]
<1> DEFINE e == Head(events)
<1>1. /\ e.is = "RosterContactUpsert" => e.jid \in Peers /\ e.subscription \in Subscriptions
      /\ e.is = "ContactPresenceUpdated" => e.jid \in Peers /\ e.presence \in Presences
  <2>1. e \in Event(ghost.texts, ghost.got)
    BY TailFacts DEF Sound, Typed, PollEvent
  <2> QED
    BY <2>1, TypedFields, EventCases DEF Sound
<1>2. DOMAIN contacts \subseteq Peers /\ \A p \in DOMAIN contacts :
        contacts[p] \in [presence : Presences, subscription : Subscriptions]
  BY DEF Sound, Typed, TypeOK
<1>3. contacts' = CASE e.is = "RosterContactUpsert" -> SyncRosterContact(e)
                    [] e.is = "RosterContactRemoved" -> Restrict(contacts, DOMAIN contacts \ {e.jid})
                    [] e.is = "ContactPresenceUpdated" -> UpdateContactPresence(e)
                    [] OTHER -> contacts
  BY DEF PollEvent
<1> HIDE DEF e
<1>4. CASE e.is = "RosterContactUpsert"
  <2> DEFINE v == [subscription |-> e.subscription,
                   presence |-> IF e.jid \in DOMAIN contacts THEN contacts[e.jid].presence ELSE "Offline"]
  <2>1. contacts' = Put(contacts, e.jid, v)
    BY <1>3, <1>4 DEF SyncRosterContact
  <2>2. v \in [presence : Presences, subscription : Subscriptions]
    BY <1>1, <1>2, <1>4 DEF Presences
  <2> HIDE DEF v
  <2>3. /\ DOMAIN contacts' = DOMAIN contacts \cup {e.jid} /\ contacts'[e.jid] = v
        /\ \A x \in DOMAIN contacts : x # e.jid => contacts'[x] = contacts[x]
    BY <2>1 DEF Put
  <2> QED
    BY <1>1, <1>2, <1>4, <2>2, <2>3
<1>5. CASE e.is = "RosterContactRemoved"
  <2>1. contacts' = [x \in DOMAIN contacts \ {e.jid} |-> contacts[x]]
    BY <1>3, <1>5 DEF Restrict
  <2> QED
    BY <1>2, <2>1
<1>6. CASE e.is = "ContactPresenceUpdated"
  <2>1. contacts' = IF e.jid \in DOMAIN contacts
                    THEN [contacts EXCEPT ![e.jid].presence = e.presence] ELSE contacts
    BY <1>3, <1>6 DEF UpdateContactPresence
  <2> QED
    BY <1>1, <1>2, <1>6, <2>1
<1>7. CASE e.is \notin {"RosterContactUpsert", "RosterContactRemoved", "ContactPresenceUpdated"}
  BY <1>2, <1>3, <1>7
<1> QED
  BY <1>4, <1>5, <1>6, <1>7

LEMMA PollKeepsOut ==
  ASSUME Sound, PollEvent
  PROVE  out' \in Seq(Outgoing) /\ DeliveredMeansReceived'
<1> DEFINE e == Head(events)
<1>0. e \in Event(ghost.texts, ghost.got)
  BY TailFacts DEF Sound, Typed, PollEvent
<1>1. e.is = "DeliveryUpdated" /\ e.sender \in Peers => <<e.sender, e.id>> \in ghost.got
  BY <1>0, TypedFields, EventCases DEF Sound
<1>2. /\ out \in Seq(Outgoing) /\ DOMAIN out = 1 .. Len(out)
      /\ \A i \in DOMAIN out : out[i].state = "Delivered" =>
           out[i].kind = "Direct" /\ <<out[i].peer, i>> \in ghost.got
  BY LenProperties DEF Sound, Typed, DeliveredMeansReceived
<1>3. ghost'.got = ghost.got
  BY TypedFields DEF PollEvent, Sound
<1>4. out' = IF e.is = "DeliveryUpdated" /\ ReceivesReceipt(e)
             THEN [out EXCEPT ![e.id].state = "Delivered"] ELSE out
  BY DEF PollEvent
<1> HIDE DEF e
<1>5. CASE e.is = "DeliveryUpdated" /\ ReceivesReceipt(e)
  <2> DEFINE i == e.id  v == [out[i] EXCEPT !.state = "Delivered"]
  <2>1. i \in 1 .. Len(out) /\ out[i].kind = "Direct" /\ <<out[i].peer, i>> \in ghost.got
    BY <1>1, <1>2, <1>5 DEF ReceivesReceipt, ValidJid
  <2>2. out[i] \in Outgoing
    BY <1>2, <2>1, ElementOfSeq
  <2>3. v \in Outgoing /\ v.kind = out[i].kind /\ v.peer = out[i].peer
    BY <2>2 DEF Outgoing
  <2>4. out' = [out EXCEPT ![i] = v]
    BY <1>4, <1>5
  <2> HIDE DEF i, v
  <2>5. /\ out' \in Seq(Outgoing) /\ Len(out') = Len(out)
        /\ \A j \in 1 .. Len(out) : out'[j] = IF j = i THEN v ELSE out[j]
    BY <1>2, <2>1, <2>3, <2>4, ExceptSeq
  <2>6. DOMAIN out' = DOMAIN out
    BY <1>2, <2>5, LenProperties
  <2>7. \A j \in DOMAIN out' : out'[j].state = "Delivered" =>
          out'[j].kind = "Direct" /\ <<out'[j].peer, j>> \in ghost'.got
    BY <1>2, <1>3, <2>1, <2>3, <2>5, <2>6
  <2> QED
    BY <2>5, <2>7 DEF DeliveredMeansReceived
<1>6. CASE ~ (e.is = "DeliveryUpdated" /\ ReceivesReceipt(e))
  BY <1>2, <1>3, <1>4, <1>6 DEF DeliveredMeansReceived
<1> QED
  BY <1>5, <1>6

LEMMA OutIsTyped ==
  ASSUME NEW q \in Seq(Outgoing)
  PROVE  \A i \in DOMAIN q :
           q[i] \in [peer : Peers, kind : {"Direct", "MultiUserChat"}, state : {"Sent", "Delivered"}]
<1>1. \A i \in DOMAIN q : q[i] \in Outgoing
  BY LenProperties, ElementOfSeq
<1> QED
  BY <1>1 DEF Outgoing

LEMMA PollKeepsSound ==
  ASSUME Sound, PollEvent
  PROVE  Sound'
<1> DEFINE T == ghost.texts  G == ghost.got  e == Head(events)
<1>1. T \in Seq(Texts) /\ G \in SUBSET (Peers \X Nat)
  BY TypedFields DEF Sound
<1>2. events \in Seq(Event(T, G)) /\ events # <<>> /\ events' = Tail(events)
  BY DEF Sound, Typed, PollEvent
<1>3. e \in Event(T, G) /\ events' \in Seq(Event(T, G))
  BY <1>2, TailFacts
<1>4. /\ e.is = "RosterContactUpsert" => e.jid \in Peers
      /\ e.is = "ContactPresenceUpdated" => e.jid \in Peers
      /\ e.is = "IncomingText" => e.stamp \in DOMAIN T
  BY <1>1, <1>3, EventCases
<1>5. ghost' \in History /\ ghost'.texts = T /\ ghost'.got = G
  <2> DEFINE h == IF e.is # "ContactPresenceUpdated" THEN ghost.hidden
                  ELSE IF e.jid \in DOMAIN contacts THEN ghost.hidden \ {e.jid} ELSE ghost.hidden \cup {e.jid}
             d == IF e.is = "RosterContactUpsert" THEN ghost.edited \ {e.jid} ELSE ghost.edited
  <2>1. ghost.hidden \subseteq Peers /\ ghost.edited \subseteq Peers /\ ghost \in History
    BY TypedFields DEF Sound, Typed
  <2>2. h \in SUBSET Peers /\ d \in SUBSET Peers
    BY <1>4, <2>1
  <2>3. ghost' = [ghost EXCEPT !.hidden = h, !.edited = d]
    BY DEF PollEvent
  <2> HIDE DEF h, d
  <2>4. ghost' \in History
    BY <2>1, <2>2, <2>3 DEF History
  <2>5. ghost'.texts = T /\ ghost'.got = G
    BY <2>1, <2>3 DEF History
  <2> QED
    BY <2>4, <2>5
<1>6. inbox' \in Seq(Nat)
  <2>1. inbox \in Seq(Nat)
    BY DEF Sound, Typed
  <2>2. inbox' = inbox \/ (e.is = "IncomingText" /\ inbox' = Append(inbox, e.stamp))
    BY DEF PollEvent
  <2>3. e.is = "IncomingText" => e.stamp \in Nat
    BY <1>1, <1>4, LenProperties
  <2> HIDE DEF e
  <2> QED
    BY <2>1, <2>2, <2>3, AppendProperties
<1>7. out' \in Seq(Outgoing) /\ DeliveredMeansReceived'
  BY PollKeepsOut
<1>8. TypeOK'
  <2>1. \A i \in DOMAIN out' :
          out'[i] \in [peer : Peers, kind : {"Direct", "MultiUserChat"}, state : {"Sent", "Delivered"}]
    BY <1>7, OutIsTyped
  <2> QED
    BY <2>1, PollKeepsContacts DEF Sound, Typed, TypeOK, PollEvent, server
<1>9. down' \in Seq(Stanza(T, G)) /\ up' \in Seq(Request(T)) /\ streamCaps' \subseteq {"StreamManagement"}
  BY DEF Sound, Typed, PollEvent, server
<1> HIDE DEF T, G, e
<1> QED
  BY <1>3, <1>5, <1>6, <1>7, <1>8, <1>9 DEF Sound, Typed

LEMMA UserKeepsSound ==
  ASSUME Sound, NEW p \in Peers,
         UpsertContact(p) \/ \E k \in {"Direct", "MultiUserChat"} : SendMessage(p, k)
  PROVE  Sound'
<1> DEFINE T == ghost.texts  G == ghost.got
<1>1. T \in Seq(Texts) /\ G \in SUBSET (Peers \X Nat) /\ ghost \in History
  BY TypedFields DEF Sound, Typed
<1>2. CASE UpsertContact(p)
  <2> DEFINE v == [presence |-> "Offline", subscription |-> "None"]
  <2>1. v \in [presence : Presences, subscription : Subscriptions]
    BY DEF Presences, Subscriptions
  <2>2. contacts' = Put(contacts, p, v)
    BY <1>2 DEF UpsertContact
  <2> HIDE DEF v
  <2>3. /\ DOMAIN contacts' = DOMAIN contacts \cup {p} /\ contacts'[p] = v
        /\ \A x \in DOMAIN contacts : x # p => contacts'[x] = contacts[x]
    BY <2>2 DEF Put
  <2>4. ghost' \in History /\ ghost'.texts = T /\ ghost'.got = G
    <3> DEFINE w == ghost.written + 1  h == ghost.hidden \cup {p}  d == ghost.edited \cup {p}
    <3>1. w \in Nat /\ h \in SUBSET Peers /\ d \in SUBSET Peers
      BY TypedFields DEF Sound
    <3>2. ghost' = [ghost EXCEPT !.written = w, !.hidden = h, !.edited = d]
      BY <1>2 DEF UpsertContact
    <3> HIDE DEF w, h, d
    <3>3. ghost' \in History
      BY <1>1, <3>1, <3>2 DEF History
    <3>4. ghost'.texts = ghost.texts /\ ghost'.got = ghost.got
      BY <1>1, <3>2 DEF History
    <3> QED
      BY <3>3, <3>4
  <2>5. TypeOK'
    BY <1>2, <2>1, <2>3 DEF Sound, Typed, TypeOK, UpsertContact, server
  <2>6. DeliveredMeansReceived'
    BY <1>2, <2>4 DEF Sound, DeliveredMeansReceived, UpsertContact
  <2>7. /\ down' \in Seq(Stanza(T, G)) /\ up' \in Seq(Request(T)) /\ events' \in Seq(Event(T, G))
        /\ out' \in Seq(Outgoing) /\ inbox' \in Seq(Nat) /\ streamCaps' \subseteq {"StreamManagement"}
    BY <1>2 DEF Sound, Typed, UpsertContact, server
  <2> HIDE DEF T, G
  <2> QED
    BY <2>4, <2>5, <2>6, <2>7 DEF Sound, Typed
<1>3. ASSUME NEW k \in {"Direct", "MultiUserChat"}, SendMessage(p, k) PROVE Sound'
  <2> DEFINE n == Len(out) + 1  o == [peer |-> p, kind |-> k, state |-> "Sent"]
             b == (k = "Direct")  r == [is |-> "message", to |-> p, id |-> n, request |-> b]
  <2>0. out \in Seq(Outgoing) /\ DOMAIN out = 1 .. Len(out) /\ Len(out) \in Nat /\ up \in Seq(Request(T))
    BY LenProperties DEF Sound, Typed
  <2>1. out' = Append(out, o) /\ up' = Append(up, r)
    BY <1>3 DEF SendMessage
  <2>2. o \in Outgoing /\ o.state = "Sent"
    BY DEF Outgoing
  <2>3. n \in Nat /\ b \in BOOLEAN
    BY <2>0
  <2> HIDE DEF n, b
  <2>4. r \in Request(T)
    BY <2>3 DEF Request
  <2> HIDE DEF o, r
  <2>5. /\ out' \in Seq(Outgoing) /\ DOMAIN out' = 1 .. Len(out) + 1
        /\ \A i \in 1 .. Len(out) : out'[i] = out[i]
        /\ out'[Len(out) + 1] = o
    <3>1. /\ out' \in Seq(Outgoing) /\ Len(out') = Len(out) + 1
          /\ \A i \in 1 .. Len(out) : out'[i] = out[i]
          /\ out'[Len(out) + 1] = o
      BY <2>0, <2>1, <2>2, AppendProperties
    <3>2. DOMAIN out' = 1 .. Len(out')
      BY <3>1, LenProperties, Zenon
    <3>3. DOMAIN out' = 1 .. Len(out) + 1
      BY <3>1, <3>2, Zenon
    <3> QED
      BY <3>1, <3>3
  <2>6. up' \in Seq(Request(T))
    BY <2>0, <2>1, <2>4, AppendProperties
  <2>7. ghost' \in History /\ ghost'.texts = T /\ ghost'.got = G
    <3> DEFINE w == ghost.written + 1
    <3>1. w \in Nat
      BY TypedFields DEF Sound
    <3>2. ghost' = [ghost EXCEPT !.written = w]
      BY <1>3 DEF SendMessage
    <3> HIDE DEF w
    <3>3. ghost' \in History
      BY <1>1, <3>1, <3>2 DEF History
    <3>4. ghost'.texts = ghost.texts /\ ghost'.got = ghost.got
      BY <1>1, <3>2 DEF History
    <3> QED
      BY <3>3, <3>4
  <2>8. TypeOK'
    <3>1. \A i \in DOMAIN out' :
            out'[i] \in [peer : Peers, kind : {"Direct", "MultiUserChat"}, state : {"Sent", "Delivered"}]
      BY <2>5, OutIsTyped
    <3> QED
      BY <1>3, <3>1 DEF Sound, Typed, TypeOK, SendMessage, server
  <2>9. DeliveredMeansReceived'
    <3>1. \A i \in DOMAIN out' : i \in DOMAIN out \/ i = Len(out) + 1
      BY <2>0, <2>5
    <3> QED
      BY <2>0, <2>2, <2>5, <2>7, <3>1 DEF Sound, DeliveredMeansReceived
  <2>10. /\ down' \in Seq(Stanza(T, G)) /\ events' \in Seq(Event(T, G))
         /\ inbox' \in Seq(Nat) /\ streamCaps' \subseteq {"StreamManagement"}
    BY <1>3 DEF Sound, Typed, SendMessage, server
  <2> HIDE DEF T, G
  <2> QED
    BY <2>5, <2>6, <2>7, <2>8, <2>9, <2>10 DEF Sound, Typed
<1> QED
  BY <1>2, <1>3

\* What the server adds to the stream for a request.
Answer(r, h) ==
  \/ h = <<>> /\ r.is \in {"message", "ack", "result"}
  \/ r.is = "available" /\ h \in Seq(PresenceStanza(Peers))
  \/ r.is = "getRoster" /\ h = <<[is |-> "roster", items |-> RosterResult]>>
  \/ r.is = "getDisco" /\ h = <<[is |-> "disco", features |-> features]>>
  \/ r.is = "message" /\ r.to \in Peers /\ r.id \in Nat /\ h = <<Receipt(r.to, r.id)>>

LEMMA ServerAdds ==
  ASSUME Sound, ServerAnswers
  PROVE  /\ ghost' \in History /\ ghost'.texts = ghost.texts /\ ghost.got \subseteq ghost'.got
         /\ Head(up) \in Request(ghost.texts) /\ up' = Tail(up) /\ up' \in Seq(Request(ghost.texts))
         /\ ghost'.acked = (IF Head(up).is = "ack" THEN Append(ghost.acked, Head(up).of) ELSE ghost.acked)
         /\ \A f \in {"sessions", "lost", "cut", "hidden", "edited"} : ghost'[f] = ghost[f]
         /\ \E h \in Seq(Stanza(ghost.texts, ghost'.got)) :
              /\ Answer(Head(up), h) /\ down' = down \o h
              /\ ghost'.told = (IF Head(up).is = "available" THEN ToldBy(h) ELSE ghost.told)
<1> DEFINE T == ghost.texts  r == Head(up)
<1>1. T \in Seq(Texts) /\ ghost.got \in SUBSET (Peers \X Nat) /\ ghost \in History
  BY TypedFields DEF Sound, Typed
<1>2. up \in Seq(Request(T)) /\ up # <<>> /\ up' = Tail(up)
  BY DEF Sound, Typed, ServerAnswers
<1>3. r \in Request(T) /\ up' \in Seq(Request(T))
  BY <1>2, TailFacts
<1>4. /\ r.is \in {"available", "getRoster", "getDisco", "result", "ack", "message"}
      /\ r.is = "ack" => r.of \in Nat
      /\ r.is = "message" => r.to \in Peers /\ r.id \in Nat
  BY <1>1, <1>3, RequestCases, LenProperties
<1>0. TypeOK
  BY DEF Sound, Typed
<1> DEFINE o == IF announced THEN <<>> ELSE PresencesOf({p \in Peers : Visible(p)})
           y == ToldBy(o)
<1>12. o \in Seq(PresenceStanza(Peers)) /\ y \in [Peers -> Shows \cup {"nothing"}]
  <2>1. o \in Seq(PresenceStanza({p \in Peers : Visible(p)}))
    BY <1>0, PresencesListed, NoneFacts, Zenon
  <2>2. PresenceStanza({p \in Peers : Visible(p)}) \subseteq PresenceStanza(Peers)
    BY DEF PresenceStanza
  <2> HIDE DEF o
  <2>3. o \in Seq(PresenceStanza(Peers))
    BY <2>1, <2>2, SeqMonotonic
  <2> QED
    BY <2>3, ToldTyped, TypedFields DEF Sound
<1>5. ghost' = CASE r.is = "available" -> [ghost EXCEPT !.told = y]
                 [] r.is = "ack" -> [ghost EXCEPT !.acked = Append(@, r.of)]
                 [] r.is = "message" -> [ghost EXCEPT !.got = @ \cup {<<r.to, r.id>>}]
                 [] OTHER -> ghost
  BY DEF ServerAnswers
<1> HIDE DEF o, y
<1>6. /\ ghost' \in History /\ ghost'.texts = T /\ ghost.got \subseteq ghost'.got
      /\ r.is = "message" => <<r.to, r.id>> \in ghost'.got
      /\ ghost'.acked = (IF r.is = "ack" THEN Append(ghost.acked, r.of) ELSE ghost.acked)
      /\ \A f \in {"sessions", "lost", "cut", "hidden", "edited"} : ghost'[f] = ghost[f]
      /\ ghost'.told = (IF r.is = "available" THEN y ELSE ghost.told)
  <2> HIDE DEF r, T
  <2>1. CASE r.is = "ack"
    <3> DEFINE a == Append(ghost.acked, r.of)
    <3>1. a \in Seq(Nat)
      BY <1>4, <2>1, TypedFields, AppendProperties DEF Sound
    <3>2. ghost' = [ghost EXCEPT !.acked = a]
      BY <1>5, <2>1
    <3> HIDE DEF a
    <3>3. ghost' \in History
      BY <1>1, <3>1, <3>2 DEF History
    <3>4. ghost'.texts = ghost.texts /\ ghost'.got = ghost.got /\ ghost'.acked = a /\ ghost'.told = ghost.told
          /\ \A f \in {"sessions", "lost", "cut", "hidden", "edited"} : ghost'[f] = ghost[f]
      BY <1>1, <3>2 DEF History
    <3> QED
      BY <2>1, <3>3, <3>4 DEF T, a
  <2>2. CASE r.is = "message"
    <3> DEFINE g == ghost.got \cup {<<r.to, r.id>>}
    <3>1. g \in SUBSET (Peers \X Nat)
      BY <1>1, <1>4, <2>2
    <3>2. ghost' = [ghost EXCEPT !.got = g]
      BY <1>5, <2>2
    <3> HIDE DEF g
    <3>3. ghost' \in History
      BY <1>1, <3>1, <3>2 DEF History
    <3>4. ghost'.texts = ghost.texts /\ ghost'.got = g /\ ghost'.acked = ghost.acked /\ ghost'.told = ghost.told
          /\ \A f \in {"sessions", "lost", "cut", "hidden", "edited"} : ghost'[f] = ghost[f]
      BY <1>1, <3>2 DEF History
    <3> QED
      BY <2>2, <3>3, <3>4 DEF T, g
  <2>3. CASE r.is \notin {"available", "ack", "message"}
    BY <1>1, <1>5, <2>3 DEF T
  <2>4. CASE r.is = "available"
    <3>2. ghost' = [ghost EXCEPT !.told = y]
      BY <1>5, <2>4
    <3>3. ghost' \in History
      BY <1>1, <1>12, <3>2 DEF History
    <3>4. ghost'.texts = ghost.texts /\ ghost'.got = ghost.got /\ ghost'.acked = ghost.acked /\ ghost'.told = y
          /\ \A f \in {"sessions", "lost", "cut", "hidden", "edited"} : ghost'[f] = ghost[f]
      BY <1>1, <3>2 DEF History
    <3> QED
      BY <2>4, <3>3, <3>4 DEF T
  <2> QED
    BY <2>1, <2>2, <2>3, <2>4
<1> DEFINE S == Stanza(T, ghost'.got)
<1>7. down \in Seq(S)
  <2>1. down \in Seq(Stanza(T, ghost.got))
    BY DEF Sound, Typed
  <2>2. \A q \in Seq(Stanza(T, ghost.got)) : q \in Seq(Stanza(T, ghost'.got))
    <3> DEFINE G == ghost.got  H == ghost'.got
    <3>1. G \subseteq H
      BY <1>6
    <3> HIDE DEF T, G, H
    <3>2. \A q \in Seq(Stanza(T, G)) : q \in Seq(Stanza(T, H))
      BY <3>1, QueuesGrow
    <3> QED
      BY <3>2 DEF G, H
  <2> QED
    BY <2>1, <2>2
<1>8. ASSUME NEW x, down' = Append(down, x), x \in S PROVE <<x>> \in Seq(S) /\ down' = down \o <<x>>
  <2> HIDE DEF S
  <2> QED
    BY <1>7, <1>8, OneFacts
<1>9. ASSUME down' = down PROVE <<>> \in Seq(S) /\ down' = down \o <<>>
  <2> HIDE DEF S
  <2> QED
    BY <1>7, <1>9, ConcatEmptySeq
<1>11. \E h \in Seq(S) : /\ Answer(r, h) /\ down' = down \o h
                         /\ r.is = "available" => h = o
  <2>1. CASE r.is = "available"
    <3>1. down' = down \o o
      BY <2>1 DEF ServerAnswers, o
    <3>2. o \in Seq(S)
      BY <1>12, PresencesAreStanzas
    <3>3. Answer(r, o)
      BY <1>12, <2>1 DEF Answer
    <3> QED
      BY <3>1, <3>2, <3>3
  <2>3. CASE r.is = "getRoster"
    <3> DEFINE x == [is |-> "roster", items |-> RosterResult]
    <3>1. down' = Append(down, x)
      BY <2>3 DEF ServerAnswers, RosterResult, Listed
    <3>2. RosterResult \in Seq(RosterItem)
      BY <1>0, RosterListed
    <3>3. x \in S
      BY <3>2 DEF Stanza
    <3>4. <<x>> \in Seq(S) /\ down' = down \o <<x>>
      BY <1>8, <3>1, <3>3
    <3>5. Answer(r, <<x>>)
      BY <2>3 DEF Answer
    <3> QED
      BY <2>3, <3>4, <3>5
  <2>4. CASE r.is = "getDisco"
    <3> DEFINE x == [is |-> "disco", features |-> features]
    <3>1. down' = Append(down, x)
      BY <2>4 DEF ServerAnswers
    <3>3. x \in S
      BY <1>0 DEF Stanza, TypeOK
    <3>4. <<x>> \in Seq(S) /\ down' = down \o <<x>>
      BY <1>8, <3>1, <3>3
    <3>5. Answer(r, <<x>>)
      BY <2>4 DEF Answer
    <3> QED
      BY <2>4, <3>4, <3>5
  <2>5. CASE r.is = "message"
    <3> DEFINE x == Receipt(r.to, r.id)
    <3>1. down' = down \/ down' = Append(down, x)
      BY <2>5 DEF ServerAnswers
    <3>3. x \in S
      <4> DEFINE pi == <<r.to, r.id>>
      <4>1. pi \in ghost'.got /\ x = Receipt(pi[1], pi[2])
        BY <1>6, <2>5
      <4> HIDE DEF pi, x
      <4> QED
        BY <4>1 DEF Stanza
    <3>4. CASE down' = Append(down, x)
      <4>1. <<x>> \in Seq(S) /\ down' = down \o <<x>>
        BY <1>8, <3>4, <3>3
      <4>2. Answer(r, <<x>>)
        BY <1>4, <2>5 DEF Answer
      <4> QED
        BY <2>5, <4>1, <4>2
    <3>5. CASE down' = down
      BY <1>9, <2>5, <3>5 DEF Answer
    <3> QED
      BY <3>1, <3>4, <3>5
  <2>6. CASE r.is \in {"ack", "result"}
    <3>1. down' = down
      BY <2>6 DEF ServerAnswers
    <3> QED
      BY <1>9, <2>6, <3>1 DEF Answer
  <2> QED
    BY <1>4, <2>1, <2>3, <2>4, <2>5, <2>6
<1> QED
  BY <1>2, <1>3, <1>6, <1>11 DEF y

LEMMA ServerKeepsSound ==
  ASSUME Sound, ServerAnswers
  PROVE  Sound'
<1> DEFINE T == ghost.texts  G == ghost.got  H == ghost'.got
<1>1. /\ ghost' \in History /\ ghost'.texts = T /\ G \subseteq H
      /\ up' \in Seq(Request(T))
      /\ \E h \in Seq(Stanza(T, H)) : Answer(Head(up), h) /\ down' = down \o h
  BY ServerAdds
<1>2. /\ down \in Seq(Stanza(T, G)) /\ events \in Seq(Event(T, G))
      /\ T \in Seq(Texts)
  BY TypedFields DEF Sound, Typed
<1>3. events' = events /\ out' = out /\ contacts' = contacts
  BY DEF ServerAnswers, core
<1>4. TypeOK'
  BY DEF Sound, Typed, TypeOK, ServerAnswers, core
<1>5. DeliveredMeansReceived'
  BY <1>1, <1>3 DEF Sound, DeliveredMeansReceived
<1>6. /\ out' \in Seq(Outgoing) /\ inbox' \in Seq(Nat) /\ streamCaps' \subseteq {"StreamManagement"}
  BY DEF Sound, Typed, ServerAnswers, core
<1> HIDE DEF T, G, H
<1>7. down \in Seq(Stanza(T, H)) /\ events \in Seq(Event(T, H))
  BY <1>1, <1>2, QueuesGrow
<1>8. down' \in Seq(Stanza(T, H))
  BY <1>1, <1>7, ConcatProperties
<1> QED
  BY <1>1, <1>3, <1>4, <1>5, <1>6, <1>7, <1>8 DEF Sound, Typed, H

\* What the server adds to the stream for a change of the roster.
Push(p, item) == [is |-> "push", items |-> <<[jid |-> p, item |-> item]>>]
Pushed(p, item, o, S) ==
  /\ roster' = [roster EXCEPT ![p] = item]
  /\ o \in Seq(PresenceStanza({p})) /\ o \in Seq(S) /\ (~announced => o = <<>>)
  /\ ~Open => down' = down
  /\ Open => <<Push(p, item)>> \in Seq(S) /\ down' = (down \o <<Push(p, item)>>) \o o
  /\ ghost'.told = IF Opening(item) THEN ToldBy(o) ELSE [ghost.told EXCEPT ![p] = "nothing"]

LEMMA RosterAdds ==
  ASSUME Sound, NEW p \in Peers, RosterChanges(p)
  PROVE  /\ ghost' \in History /\ ghost'.texts = ghost.texts /\ ghost'.got = ghost.got
         /\ \A f \in {"sessions", "lost", "cut", "hidden", "edited", "acked"} : ghost'[f] = ghost[f]
         /\ \E item \in Items \ {roster[p]}, o \in Seq(PresenceStanza({p})) :
              Pushed(p, item, o, Stanza(ghost.texts, ghost.got))
<1> DEFINE T == ghost.texts  G == ghost.got
<1>1. ghost \in History /\ TypeOK
  BY DEF Sound, Typed
<1>2. PICK item \in Items \ {roster[p]} :
        LET o == IF announced /\ ~Visible(p) /\ Opening(item) THEN PresencesOf({p}) ELSE <<>>
        IN /\ roster' = [roster EXCEPT ![p] = item]
           /\ down' = IF ~Open THEN down
                      ELSE down \o <<[is |-> "push", items |-> <<[jid |-> p, item |-> item]>>]>> \o o
           /\ ghost' = [ghost EXCEPT !.sent = @ + 1,
                           !.told = IF Opening(item) THEN ToldBy(o) ELSE [@ EXCEPT ![p] = "nothing"]]
  BY DEF RosterChanges
<1> DEFINE o == IF announced /\ ~Visible(p) /\ Opening(item) THEN PresencesOf({p}) ELSE <<>>
           y == IF Opening(item) THEN ToldBy(o) ELSE [ghost.told EXCEPT ![p] = "nothing"]
           n == ghost.sent + 1
<1>3. /\ roster' = [roster EXCEPT ![p] = item]
      /\ down' = IF ~Open THEN down ELSE (down \o <<Push(p, item)>>) \o o
      /\ ghost' = [ghost EXCEPT !.sent = n, !.told = y]
  BY <1>2 DEF Push
<1>4. o \in Seq(PresenceStanza({p})) /\ (~announced => o = <<>>)
  BY <1>1, PresencesListed, NoneFacts, Zenon
<1>5. o \in Seq(Stanza(T, G))
  <2> HIDE DEF o
  <2> QED
    BY <1>4, PresencesAreStanzas
<1>6. n \in Nat /\ y \in [Peers -> Shows \cup {"nothing"}]
  <2>1. ghost.sent \in Nat /\ ghost.told \in [Peers -> Shows \cup {"nothing"}]
    BY TypedFields DEF Sound
  <2> HIDE DEF o
  <2>2. ToldBy(o) \in [Peers -> Shows \cup {"nothing"}]
    BY <1>4, <2>1, ToldTyped
  <2> QED
    BY <2>1, <2>2
<1>7. Push(p, item) \in Stanza(T, G)
  <2> DEFINE x == [jid |-> p, item |-> item]
  <2>1. x \in RosterItem
    BY DEF RosterItem
  <2> HIDE DEF x
  <2>2. <<x>> \in Seq(RosterItem)
    BY <2>1
  <2> DEFINE z == <<x>>
  <2>3. z \in Seq(RosterItem) /\ Push(p, item) = [is |-> "push", items |-> z]
    BY <2>2 DEF x, Push
  <2> HIDE DEF z
  <2> QED
    BY <2>3 DEF Stanza
<1>8. <<Push(p, item)>> \in Seq(Stanza(T, G))
  BY <1>7, OneFacts
<1> HIDE DEF n, y
<1>9. ghost' \in History
  BY <1>1, <1>3, <1>6 DEF History
<1>10. /\ ghost'.texts = ghost.texts /\ ghost'.got = ghost.got /\ ghost'.told = y
       /\ \A f \in {"sessions", "lost", "cut", "hidden", "edited", "acked"} : ghost'[f] = ghost[f]
  BY <1>1, <1>3 DEF History
<1> HIDE DEF o
<1>11. Pushed(p, item, o, Stanza(T, G))
  BY <1>3, <1>4, <1>5, <1>8, <1>10 DEF Pushed, y
<1> QED
  BY <1>4, <1>9, <1>10, <1>11

LEMMA RosterKeepsSound ==
  ASSUME Sound, NEW p \in Peers, RosterChanges(p)
  PROVE  Sound'
<1> DEFINE T == ghost.texts  G == ghost.got  S == Stanza(T, G)
<1>1. ghost' \in History /\ ghost'.texts = T /\ ghost'.got = G
  BY RosterAdds
<1>2. PICK item \in Items \ {roster[p]}, o \in Seq(PresenceStanza({p})) : Pushed(p, item, o, S)
  BY RosterAdds
<1>3. down' \in Seq(S)
  <2> DEFINE d == down \o <<Push(p, item)>>
  <2>0. down \in Seq(S)
    BY DEF Sound, Typed
  <2> HIDE DEF S
  <2>1. CASE ~Open
    BY <1>2, <2>0, <2>1 DEF Pushed
  <2>2. CASE Open
    <3>1. <<Push(p, item)>> \in Seq(S) /\ o \in Seq(S) /\ down' = d \o o
      BY <1>2, <2>2 DEF Pushed
    <3>2. d \in Seq(S)
      BY <2>0, <3>1, ConcatProperties
    <3> HIDE DEF d
    <3> QED
      BY <3>1, <3>2, ConcatProperties
  <2> QED
    BY <2>1, <2>2
<1>4. TypeOK'
  BY <1>2 DEF Pushed, Sound, Typed, TypeOK, RosterChanges, core
<1>5. DeliveredMeansReceived'
  BY <1>1 DEF Sound, DeliveredMeansReceived, RosterChanges, core
<1>6. /\ out' \in Seq(Outgoing) /\ inbox' \in Seq(Nat) /\ streamCaps' \subseteq {"StreamManagement"}
      /\ up' \in Seq(Request(T)) /\ events' \in Seq(Event(T, G))
  BY DEF Sound, Typed, RosterChanges, core
<1> QED
  BY <1>1, <1>3, <1>4, <1>5, <1>6 DEF Sound, Typed

\* A push tells of one peer; the presences it opens follow it.
Pushes(p, item, y) ==
  /\ Open => 1 \in DOMAIN y /\ y[1] = Push(p, item)
  /\ \A i \in DOMAIN y : (i = 1 /\ y[i] = Push(p, item)) \/ y[i].is = "presence"

LEMMA PushFacts ==
  ASSUME NEW p, NEW item
  PROVE  /\ Push(p, item).is = "push"
         /\ \A q : Entries(Push(p, item), q) = IF q = p THEN {item} ELSE {}
<1> DEFINE l == <<[jid |-> p, item |-> item]>>
<1>1. DOMAIN l = {1} /\ l[1].jid = p /\ l[1].item = item
  OBVIOUS
<1>2. Push(p, item).is = "push" /\ Push(p, item).items = l
  BY DEF Push
<1> HIDE DEF l
<1> QED
  BY <1>1, <1>2 DEF Entries

LEMMA RosterJoins ==
  ASSUME Sound, NEW p \in Peers, RosterChanges(p)
  PROVE  \E item \in Items \ {roster[p]}, y \in Seq(Stanza(ghost.texts, ghost.got)) :
           roster' = [roster EXCEPT ![p] = item] /\ down' = down \o y /\ Pushes(p, item, y)
<1> DEFINE S == Stanza(ghost.texts, ghost.got)
<1>1. PICK item \in Items \ {roster[p]}, o \in Seq(PresenceStanza({p})) : Pushed(p, item, o, S)
  BY RosterAdds
<1>2. down \in Seq(S) /\ roster' = [roster EXCEPT ![p] = item]
  BY <1>1 DEF Sound, Typed, Pushed
<1>3. CASE ~Open
  <2> DEFINE n == <<>>
  <2> HIDE DEF S
  <2>1. n \in Seq(S) /\ DOMAIN n = {} /\ down' = down \o n
    BY <1>1, <1>2, <1>3, NoneFacts, ConcatEmptySeq DEF Pushed
  <2> HIDE DEF n
  <2>2. Pushes(p, item, n)
    BY <1>3, <2>1 DEF Pushes
  <2> QED
    BY <1>2, <2>1, <2>2 DEF S
<1>4. CASE Open
  <2> DEFINE a == <<Push(p, item)>>  y == a \o o
  <2>1. a \in Seq(S) /\ o \in Seq(S) /\ down' = (down \o a) \o o
    BY <1>1, <1>4 DEF Pushed
  <2>2. DOMAIN a = {1} /\ a[1] = Push(p, item)
    OBVIOUS
  <2>3. \A j \in DOMAIN o : o[j].is = "presence"
    BY PresencesOnly
  <2> HIDE DEF a, S
  <2>4. /\ y \in Seq(S)
        /\ \A i \in DOMAIN a : i \in DOMAIN y /\ y[i] = a[i]
        /\ \A j \in DOMAIN o : Len(a) + j \in DOMAIN y /\ y[Len(a) + j] = o[j]
        /\ \A i \in DOMAIN y : i \in DOMAIN a \/ \E j \in DOMAIN o : i = Len(a) + j
    BY <2>1, JoinFacts
  <2>5. down' = down \o y
    BY <1>2, <2>1, ConcatAssociative
  <2> HIDE DEF y
  <2>6. Pushes(p, item, y)
    BY <2>2, <2>3, <2>4 DEF Pushes
  <2> QED
    BY <1>2, <2>4, <2>5, <2>6 DEF S
<1> QED
  BY <1>3, <1>4

\* What reaches the stream when a peer shows itself on a device.
LEMMA ShowAdds ==
  ASSUME Sound, NEW p \in Peers, NEW d \in Devices, PeerShows(p, d)
  PROVE  /\ ghost' \in History /\ ghost'.texts = ghost.texts /\ ghost'.got = ghost.got
         /\ \A f \in {"sessions", "lost", "cut", "hidden", "edited", "acked"} : ghost'[f] = ghost[f]
         /\ shows' \in [Peers -> [Devices -> Shows]]
         /\ \E o \in Seq(PresenceStanza({p})) :
              o \in Seq(Stanza(ghost.texts, ghost.got)) /\ down' = down \o o /\ ghost'.told = ToldBy(o)
<1> DEFINE T == ghost.texts  G == ghost.got
<1>1. ghost \in History /\ TypeOK
  BY DEF Sound, Typed
<1>2. PICK show \in Shows :
        LET o == IF announced /\ (Visible(p) \/ show = "subscribe") THEN <<PresenceOf(p, d, show)>> ELSE <<>>
        IN /\ shows' = IF show = "subscribe" THEN shows ELSE [shows EXCEPT ![p][d] = show]
           /\ down' = down \o o
           /\ ghost' = [ghost EXCEPT !.sent = @ + 1, !.told = ToldBy(o)]
  BY DEF PeerShows
<1> DEFINE o == IF announced /\ (Visible(p) \/ show = "subscribe") THEN <<PresenceOf(p, d, show)>> ELSE <<>>
           y == ToldBy(o)
           n == ghost.sent + 1
<1>3. down' = down \o o /\ ghost' = [ghost EXCEPT !.sent = n, !.told = y]
  BY <1>2
<1>4. o \in Seq(PresenceStanza({p}))
  <2> DEFINE b == PresenceOf(p, d, show)  S == PresenceStanza({p})
  <2>1. b \in S
    BY DEF PresenceOf, PresenceStanza
  <2> HIDE DEF b, S
  <2>2. <<b>> \in Seq(S) /\ <<>> \in Seq(S)
    BY <2>1, OneFacts, NoneFacts
  <2> QED
    BY <2>2 DEF b, S
<1> HIDE DEF o
<1>5. o \in Seq(Stanza(T, G))
  BY <1>4, PresencesAreStanzas
<1>6. n \in Nat /\ y \in [Peers -> Shows \cup {"nothing"}]
  <2>1. ghost.sent \in Nat /\ ghost.told \in [Peers -> Shows \cup {"nothing"}]
    BY TypedFields DEF Sound
  <2>2. ToldBy(o) \in [Peers -> Shows \cup {"nothing"}]
    BY <1>4, <2>1, ToldTyped
  <2> QED
    BY <2>1, <2>2
<1>7. shows' \in [Peers -> [Devices -> Shows]]
  BY <1>1, <1>2 DEF TypeOK
<1> HIDE DEF n, y
<1>8. ghost' \in History
  BY <1>1, <1>3, <1>6 DEF History
<1>9. /\ ghost'.texts = ghost.texts /\ ghost'.got = ghost.got /\ ghost'.told = y
      /\ \A f \in {"sessions", "lost", "cut", "hidden", "edited", "acked"} : ghost'[f] = ghost[f]
  BY <1>1, <1>3 DEF History
<1> QED
  BY <1>3, <1>4, <1>5, <1>7, <1>8, <1>9 DEF y

LEMMA ShowKeepsSound ==
  ASSUME Sound, NEW p \in Peers, NEW d \in Devices, PeerShows(p, d)
  PROVE  Sound'
<1> DEFINE T == ghost.texts  G == ghost.got  S == Stanza(T, G)
<1>1. /\ ghost' \in History /\ ghost'.texts = T /\ ghost'.got = G
      /\ shows' \in [Peers -> [Devices -> Shows]]
  BY ShowAdds
<1>2. PICK o \in Seq(PresenceStanza({p})) : o \in Seq(S) /\ down' = down \o o
  BY ShowAdds
<1>3. down' \in Seq(S)
  <2>1. down \in Seq(S)
    BY DEF Sound, Typed
  <2> HIDE DEF S
  <2> QED
    BY <1>2, <2>1, ConcatProperties
<1>4. TypeOK'
  BY <1>1 DEF Sound, Typed, TypeOK, PeerShows, core
<1>5. DeliveredMeansReceived'
  BY <1>1 DEF Sound, DeliveredMeansReceived, PeerShows, core
<1>6. /\ out' \in Seq(Outgoing) /\ inbox' \in Seq(Nat) /\ streamCaps' \subseteq {"StreamManagement"}
      /\ up' \in Seq(Request(T)) /\ events' \in Seq(Event(T, G))
  BY DEF Sound, Typed, PeerShows, core
<1> HIDE DEF T, G
<1> QED
  BY <1>1, <1>3, <1>4, <1>5, <1>6 DEF Sound, Typed

\* A text joins the stream under the next number.
LEMMA WriteAdds ==
  ASSUME Sound, PeerWrites
  PROVE  /\ ghost' \in History /\ ghost'.got = ghost.got
         /\ \A f \in {"sessions", "lost", "cut", "told", "hidden", "edited", "acked"} : ghost'[f] = ghost[f]
         /\ Len(ghost.texts) \in Nat /\ DOMAIN ghost.texts = 1 .. Len(ghost.texts)
         /\ \E m \in Texts :
              /\ ghost'.texts \in Seq(Texts) /\ Len(ghost'.texts) = Len(ghost.texts) + 1
              /\ DOMAIN ghost'.texts = 1 .. Len(ghost.texts) + 1
              /\ \A n \in DOMAIN ghost.texts : ghost'.texts[n] = ghost.texts[n]
              /\ ghost'.texts[Len(ghost.texts) + 1] = m
              /\ Stamped(m, Len(ghost.texts) + 1) \in Stanza(ghost'.texts, ghost'.got)
              /\ down \in Seq(Stanza(ghost'.texts, ghost'.got))
              /\ down' = down \o <<Stamped(m, Len(ghost.texts) + 1)>>
<1>1. PICK m \in Texts :
        /\ down' = Append(down, Stamped(m, Len(ghost.texts) + 1))
        /\ ghost' = [ghost EXCEPT !.sent = @ + 1, !.texts = Append(@, m)]
  BY DEF PeerWrites
<1> DEFINE T == ghost.texts  U == Append(T, m)  k == Len(T)  x == Stamped(m, k + 1)  G == ghost.got
<1>2. T \in Seq(Texts) /\ G \in SUBSET (Peers \X Nat) /\ ghost \in History
      /\ down \in Seq(Stanza(T, G))
  BY TypedFields DEF Sound, Typed
<1>3. k \in Nat /\ DOMAIN T = 1 .. k
  BY <1>2, LenProperties
<1>4. /\ U \in Seq(Texts) /\ Len(U) = k + 1 /\ U[k + 1] = m
      /\ \A n \in 1 .. k : U[n] = T[n]
  BY <1>2, AppendProperties
<1>5. DOMAIN U = 1 .. k + 1
  BY <1>4, LenProperties, Zenon
<1>6. /\ ghost' \in History /\ ghost'.texts = U /\ ghost'.got = G
      /\ \A f \in {"sessions", "lost", "cut", "told", "hidden", "edited", "acked"} : ghost'[f] = ghost[f]
  <2> DEFINE n == ghost.sent + 1
  <2>1. n \in Nat
    BY TypedFields DEF Sound
  <2>2. ghost' = [ghost EXCEPT !.sent = n, !.texts = U]
    BY <1>1
  <2> HIDE DEF n, U
  <2>3. ghost' \in History
    BY <1>2, <1>4, <2>1, <2>2 DEF History
  <2>4. /\ ghost'.texts = U /\ ghost'.got = ghost.got
        /\ \A f \in {"sessions", "lost", "cut", "told", "hidden", "edited", "acked"} : ghost'[f] = ghost[f]
    BY <1>2, <2>2 DEF History
  <2> QED
    BY <2>3, <2>4
<1> HIDE DEF U, T, k, G
<1> DEFINE S == Stanza(U, G)
<1>7. x \in S
  <2>1. k + 1 \in DOMAIN U /\ x = Stamped(U[k + 1], k + 1)
    BY <1>3, <1>4, <1>5
  <2> QED
    BY <2>1 DEF Stanza
<1>8. down \in Seq(S)
  <2>1. DOMAIN T \subseteq DOMAIN U /\ \A n \in DOMAIN T : U[n] = T[n]
    BY <1>3, <1>4, <1>5
  <2> QED
    BY <1>2, <2>1, QueuesGrow
<1>9. down' = down \o <<x>>
  <2>1. down' = Append(down, x)
    BY <1>1 DEF k, T
  <2> HIDE DEF S, x
  <2> QED
    BY <1>7, <1>8, <2>1, OneFacts
<1>10. /\ ghost'.texts \in Seq(Texts) /\ Len(ghost'.texts) = k + 1
       /\ DOMAIN ghost'.texts = 1 .. k + 1
       /\ \A n \in DOMAIN T : ghost'.texts[n] = T[n]
       /\ ghost'.texts[k + 1] = m
       /\ x \in Stanza(ghost'.texts, ghost'.got)
       /\ down \in Seq(Stanza(ghost'.texts, ghost'.got))
       /\ down' = down \o <<x>>
  BY <1>3, <1>4, <1>5, <1>6, <1>7, <1>8, <1>9
<1> QED
  BY <1>3, <1>6, <1>10 DEF T, k, G

LEMMA WriteKeepsSound ==
  ASSUME Sound, PeerWrites
  PROVE  Sound'
<1> DEFINE T == ghost.texts  G == ghost.got  U == ghost'.texts  S == Stanza(U, G)
<1>1. /\ ghost' \in History /\ ghost'.got = G
      /\ DOMAIN T \subseteq DOMAIN U /\ \A n \in DOMAIN T : U[n] = T[n]
  <2>1. /\ ghost' \in History /\ ghost'.got = G /\ Len(T) \in Nat /\ DOMAIN T = 1 .. Len(T)
        /\ DOMAIN U = 1 .. Len(T) + 1 /\ \A n \in DOMAIN T : U[n] = T[n]
    BY WriteAdds
  <2> DEFINE k == Len(T)
  <2> HIDE DEF k
  <2>2. k \in Nat => 1 .. k \subseteq 1 .. k + 1
    OBVIOUS
  <2> QED
    BY <2>1, <2>2 DEF k
<1>2. down' \in Seq(S)
  <2>1. \E m \in Texts :
          /\ Stamped(m, Len(T) + 1) \in Stanza(U, ghost'.got)
          /\ down \in Seq(Stanza(U, ghost'.got)) /\ down' = down \o <<Stamped(m, Len(T) + 1)>>
    BY WriteAdds
  <2>2. PICK x \in S : down \in Seq(S) /\ down' = down \o <<x>>
    BY <1>1, <2>1
  <2> HIDE DEF S
  <2> QED
    BY <2>2, OneFacts, ConcatProperties
<1>3. /\ events' = events /\ up' = up /\ out' = out /\ contacts' = contacts
  BY DEF PeerWrites, core
<1>4. events \in Seq(Event(T, G)) /\ up \in Seq(Request(T))
  BY DEF Sound, Typed
<1>5. TypeOK'
  BY DEF Sound, Typed, TypeOK, PeerWrites, core, server
<1>6. DeliveredMeansReceived'
  BY <1>1, <1>3 DEF Sound, DeliveredMeansReceived
<1>7. /\ out' \in Seq(Outgoing) /\ inbox' \in Seq(Nat) /\ streamCaps' \subseteq {"StreamManagement"}
  BY DEF Sound, Typed, PeerWrites, core, server
<1> HIDE DEF T, G, U
<1>8. events \in Seq(Event(U, G)) /\ up \in Seq(Request(U))
  BY <1>1, <1>4, QueuesGrow
<1> QED
  BY <1>1, <1>2, <1>3, <1>5, <1>6, <1>7, <1>8 DEF Sound, Typed, U

LEMMA StepKeepsSound ==
  ASSUME Sound, [Next]_vars
  PROVE  Sound'
<1>1. CASE SessionStep
  BY <1>1, StanzaKeepsSound, OnlineKeepsSound, DisconnectKeepsSound DEF SessionStep
<1>2. CASE PollEvent
  BY <1>2, PollKeepsSound
<1>3. CASE UserStep
  BY <1>3, UserKeepsSound DEF UserStep
<1>4. CASE ServerStep
  BY <1>4, ServerKeepsSound, RosterKeepsSound, ShowKeepsSound, WriteKeepsSound DEF ServerStep
<1>5. CASE UNCHANGED vars
  BY <1>5 DEF Sound, Typed, TypeOK, DeliveredMeansReceived, vars, core, server
<1> QED
  BY <1>1, <1>2, <1>3, <1>4, <1>5 DEF Next

\* The queues hold what the translations of the worker and the server put into
\* them, and no delivery lacks its cause: an invariant that every step keeps.
THEOREM SoundInvariance == Spec => []Sound
<1>1. Init => Sound
  BY InitIsSound
<1>2. Sound /\ [Next]_vars => Sound'
  BY StepKeepsSound
<1> QED
  BY <1>1, <1>2, PTL DEF Spec

\* Contacts, messages, rosters and presences keep their types, whatever stanzas
\* come (apply_transport_event, sync_roster_contact, apply_delivery_update).
THEOREM TypesHold == Spec => []TypeOK
<1>1. Sound => TypeOK
  BY DEF Sound, Typed
<1> QED
  BY <1>1, SoundInvariance, PTL

\* An outgoing message counts as delivered only if its own peer got it, in a
\* direct conversation, whatever ids others quote (apply_delivery_update).
THEOREM DeliveredWasReceived == Spec => []DeliveredMeansReceived
<1>1. Sound => DeliveredMeansReceived
  BY DEF Sound
<1> QED
  BY <1>1, SoundInvariance, PTL

-----------------------------------------------------------------------------
(* Numbers on their way. *)

LEMMA StanzaMarksFacts ==
  ASSUME NEW T \in Seq(Texts), NEW G \in SUBSET (Peers \X Nat)
  PROVE  /\ \A q \in Seq(Stanza(T, G)) :
              /\ StanzaMarks(q) \in Seq(Nat) /\ DOMAIN StanzaMarks(q) = DOMAIN q
              /\ \A i \in DOMAIN q : StanzaMarks(q)[i] = StanzaMark(q[i])
         /\ \A q, r \in Seq(Stanza(T, G)) : StanzaMarks(q \o r) = StanzaMarks(q) \o StanzaMarks(r)
         /\ \A q \in Seq(Stanza(T, G)) : q # <<>> =>
              /\ StanzaMarks(q) # <<>> /\ Head(StanzaMarks(q)) = StanzaMark(Head(q))
              /\ StanzaMarks(Tail(q)) = Tail(StanzaMarks(q))
<1> DEFINE Q == Stanza(T, G)  m == [s \in Q |-> StanzaMark(s)]
<1>1. ASSUME NEW s \in Q PROVE StanzaMark(s) \in Nat
  <2>1. DOMAIN T \subseteq Nat
    BY LenProperties
  <2>2. s.is = "message" =>
              \/ \E n \in DOMAIN T : T[n] \in Texts /\ s = Stamped(T[n], n)
              \/ \E p \in Peers, i \in Nat : <<p, i>> \in G /\ s = Receipt(p, i)
    BY StanzaCases
  <2>3. CASE \E n \in DOMAIN T : T[n] \in Texts /\ s = Stamped(T[n], n)
    BY <2>1, <2>3, StampedFields DEF StanzaMark
  <2>4. CASE \E p \in Peers, i \in Nat : <<p, i>> \in G /\ s = Receipt(p, i)
    BY <2>4 DEF Receipt, StanzaMark
  <2> QED
    BY <2>2, <2>3, <2>4 DEF StanzaMark
<1>2. m \in Readings(Q, Nat)
  BY <1>1 DEF Readings
<1>3. ASSUME NEW q \in Seq(Q) PROVE StanzaMarks(q) = Read(m, q)
  <2>1. \A i \in DOMAIN q : q[i] \in Q
    <3> HIDE DEF m, Q
    <3> QED
      BY LenProperties, ElementOfSeq
  <2> QED
    BY <2>1 DEF StanzaMarks, Read
<1>4. \A s \in Q : m[s] = StanzaMark(s)
  OBVIOUS
<1> HIDE DEF m, Q
<1>5. ASSUME NEW q \in Seq(Q)
      PROVE  /\ StanzaMarks(q) \in Seq(Nat) /\ DOMAIN StanzaMarks(q) = DOMAIN q
             /\ \A i \in DOMAIN q : StanzaMarks(q)[i] = StanzaMark(q[i])
  <2>1. \A i \in DOMAIN q : q[i] \in Q
    BY LenProperties, ElementOfSeq
  <2> QED
    BY <1>2, <1>3, <1>4, <2>1, ReadIsSeq
<1>6. ASSUME NEW q \in Seq(Q), NEW r \in Seq(Q) PROVE StanzaMarks(q \o r) = StanzaMarks(q) \o StanzaMarks(r)
  <2> DEFINE u == q \o r
  <2>1. Read(m, u) = Read(m, q) \o Read(m, r)
    BY <1>2, ReadJoin
  <2>2. u \in Seq(Q)
    BY ConcatProperties
  <2> HIDE DEF u
  <2>3. StanzaMarks(u) = StanzaMarks(q) \o StanzaMarks(r)
    BY <1>3, <2>1, <2>2
  <2> QED
    BY <2>3 DEF u
<1>7. ASSUME NEW q \in Seq(Q), q # <<>>
      PROVE  /\ StanzaMarks(q) # <<>> /\ Head(StanzaMarks(q)) = StanzaMark(Head(q))
             /\ StanzaMarks(Tail(q)) = Tail(StanzaMarks(q))
  <2>1. Read(m, q) # <<>> /\ Head(Read(m, q)) = m[Head(q)] /\ Read(m, Tail(q)) = Tail(Read(m, q))
    BY <1>2, <1>7, ReadTail
  <2>2. Head(q) \in Q /\ Tail(q) \in Seq(Q)
    BY <1>7, TailFacts
  <2> QED
    BY <1>3, <1>4, <2>1, <2>2
<1> QED
  BY <1>5, <1>6, <1>7 DEF Q

LEMMA EventMarksFacts ==
  ASSUME NEW T \in Seq(Texts), NEW G \in SUBSET (Peers \X Nat)
  PROVE  /\ \A q \in Seq(Event(T, G)) :
              /\ EventMarks(q) \in Seq(Nat) /\ DOMAIN EventMarks(q) = DOMAIN q
              /\ \A i \in DOMAIN q : EventMarks(q)[i] = EventMark(q[i])
         /\ \A q, r \in Seq(Event(T, G)) : EventMarks(q \o r) = EventMarks(q) \o EventMarks(r)
         /\ \A q \in Seq(Event(T, G)) : q # <<>> =>
              /\ EventMarks(q) # <<>> /\ Head(EventMarks(q)) = EventMark(Head(q))
              /\ EventMarks(Tail(q)) = Tail(EventMarks(q))
<1> DEFINE Q == Event(T, G)  m == [s \in Q |-> EventMark(s)]
<1>1. ASSUME NEW s \in Q PROVE EventMark(s) \in Nat
  <2>1. DOMAIN T \subseteq Nat
    BY LenProperties
  <2> QED
    BY <2>1, EventCases DEF EventMark
<1>2. m \in Readings(Q, Nat)
  BY <1>1 DEF Readings
<1>3. ASSUME NEW q \in Seq(Q) PROVE EventMarks(q) = Read(m, q)
  <2>1. \A i \in DOMAIN q : q[i] \in Q
    <3> HIDE DEF m, Q
    <3> QED
      BY LenProperties, ElementOfSeq
  <2> QED
    BY <2>1 DEF EventMarks, Read
<1>4. \A s \in Q : m[s] = EventMark(s)
  OBVIOUS
<1> HIDE DEF m, Q
<1>5. ASSUME NEW q \in Seq(Q)
      PROVE  /\ EventMarks(q) \in Seq(Nat) /\ DOMAIN EventMarks(q) = DOMAIN q
             /\ \A i \in DOMAIN q : EventMarks(q)[i] = EventMark(q[i])
  <2>1. \A i \in DOMAIN q : q[i] \in Q
    BY LenProperties, ElementOfSeq
  <2> QED
    BY <1>2, <1>3, <1>4, <2>1, ReadIsSeq
<1>6. ASSUME NEW q \in Seq(Q), NEW r \in Seq(Q) PROVE EventMarks(q \o r) = EventMarks(q) \o EventMarks(r)
  <2> DEFINE u == q \o r
  <2>1. Read(m, u) = Read(m, q) \o Read(m, r)
    BY <1>2, ReadJoin
  <2>2. u \in Seq(Q)
    BY ConcatProperties
  <2> HIDE DEF u
  <2>3. EventMarks(u) = EventMarks(q) \o EventMarks(r)
    BY <1>3, <2>1, <2>2
  <2> QED
    BY <2>3 DEF u
<1>7. ASSUME NEW q \in Seq(Q), q # <<>>
      PROVE  /\ EventMarks(q) # <<>> /\ Head(EventMarks(q)) = EventMark(Head(q))
             /\ EventMarks(Tail(q)) = Tail(EventMarks(q))
  <2>1. Read(m, q) # <<>> /\ Head(Read(m, q)) = m[Head(q)] /\ Read(m, Tail(q)) = Tail(Read(m, q))
    BY <1>2, <1>7, ReadTail
  <2>2. Head(q) \in Q /\ Tail(q) \in Seq(Q)
    BY <1>7, TailFacts
  <2> QED
    BY <1>3, <1>4, <2>1, <2>2
<1> QED
  BY <1>5, <1>6, <1>7 DEF Q

LEMMA RequestMarksFacts ==
  ASSUME NEW T \in Seq(Texts)
  PROVE  /\ \A q \in Seq(Request(T)) :
              /\ RequestMarks(q) \in Seq(Nat) /\ DOMAIN RequestMarks(q) = DOMAIN q
              /\ \A i \in DOMAIN q : RequestMarks(q)[i] = RequestMark(q[i])
         /\ \A q, r \in Seq(Request(T)) : RequestMarks(q \o r) = RequestMarks(q) \o RequestMarks(r)
         /\ \A q \in Seq(Request(T)) : q # <<>> =>
              /\ RequestMarks(q) # <<>> /\ Head(RequestMarks(q)) = RequestMark(Head(q))
              /\ RequestMarks(Tail(q)) = Tail(RequestMarks(q))
<1> DEFINE Q == Request(T)  m == [s \in Q |-> RequestMark(s)]
<1>1. ASSUME NEW s \in Q PROVE RequestMark(s) \in Nat
  <2>1. DOMAIN T \subseteq Nat
    BY LenProperties
  <2> QED
    BY <2>1, RequestCases DEF RequestMark
<1>2. m \in Readings(Q, Nat)
  BY <1>1 DEF Readings
<1>3. ASSUME NEW q \in Seq(Q) PROVE RequestMarks(q) = Read(m, q)
  <2>1. \A i \in DOMAIN q : q[i] \in Q
    <3> HIDE DEF m, Q
    <3> QED
      BY LenProperties, ElementOfSeq
  <2> QED
    BY <2>1 DEF RequestMarks, Read
<1>4. \A s \in Q : m[s] = RequestMark(s)
  OBVIOUS
<1> HIDE DEF m, Q
<1>5. ASSUME NEW q \in Seq(Q)
      PROVE  /\ RequestMarks(q) \in Seq(Nat) /\ DOMAIN RequestMarks(q) = DOMAIN q
             /\ \A i \in DOMAIN q : RequestMarks(q)[i] = RequestMark(q[i])
  <2>1. \A i \in DOMAIN q : q[i] \in Q
    BY LenProperties, ElementOfSeq
  <2> QED
    BY <1>2, <1>3, <1>4, <2>1, ReadIsSeq
<1>6. ASSUME NEW q \in Seq(Q), NEW r \in Seq(Q) PROVE RequestMarks(q \o r) = RequestMarks(q) \o RequestMarks(r)
  <2> DEFINE u == q \o r
  <2>1. Read(m, u) = Read(m, q) \o Read(m, r)
    BY <1>2, ReadJoin
  <2>2. u \in Seq(Q)
    BY ConcatProperties
  <2> HIDE DEF u
  <2>3. RequestMarks(u) = RequestMarks(q) \o RequestMarks(r)
    BY <1>3, <2>1, <2>2
  <2> QED
    BY <2>3 DEF u
<1>7. ASSUME NEW q \in Seq(Q), q # <<>>
      PROVE  /\ RequestMarks(q) # <<>> /\ Head(RequestMarks(q)) = RequestMark(Head(q))
             /\ RequestMarks(Tail(q)) = Tail(RequestMarks(q))
  <2>1. Read(m, q) # <<>> /\ Head(Read(m, q)) = m[Head(q)] /\ Read(m, Tail(q)) = Tail(Read(m, q))
    BY <1>2, <1>7, ReadTail
  <2>2. Head(q) \in Q /\ Tail(q) \in Seq(Q)
    BY <1>7, TailFacts
  <2> QED
    BY <1>3, <1>4, <2>1, <2>2
<1> QED
  BY <1>5, <1>6, <1>7 DEF Q

\* What a stanza leads to carries its number, if any, and that once; a text that
\* is to be shown does.
LEMMA MarksOfEvents ==
  ASSUME NEW T \in Seq(Texts), NEW G \in SUBSET (Peers \X Nat), NEW s \in Stanza(T, G),
         streamCaps \subseteq {"StreamManagement"}
  PROVE  LET h == EventMarks(EventsOf(s))
         IN  /\ h \in Seq(Nat) /\ Ascending(h) /\ \A i \in DOMAIN h : h[i] \in {0, StanzaMark(s)}
             /\ s.is = "message" /\ s.stamp \in DOMAIN T /\ Shown(T[s.stamp]) => s.stamp \in ToSet(h)
<1> DEFINE q == EventsOf(s)  h == EventMarks(q)  S == Event(T, G)
<1>0. q \in Seq(S)
  BY EventsTyped
<1>1. h \in Seq(Nat) /\ DOMAIN h = DOMAIN q /\ \A i \in DOMAIN q : h[i] = EventMark(q[i])
  <2> HIDE DEF q
  <2> QED
    BY <1>0, EventMarksFacts
<1>2. CASE s.is = "message"
  <2> DEFINE r == TranslateIncomingReceipts(s)  t == TranslateIncomingMessage(s)
  <2>1. r \in Seq(S) /\ t \in Seq(S) /\ \A k \in DOMAIN r : r[k].is = "DeliveryUpdated"
    BY <1>2, ReceiptsTyped, TextTyped
  <2>2. q = r \o t
    BY <1>2 DEF EventsOf
  <2>3. t = <<>> \/ (s.stamp \in DOMAIN T /\ t = <<TextEvent(T, s.stamp)>>)
    BY <1>2, TextTyped
  <2>4. s.stamp \in DOMAIN T /\ Shown(T[s.stamp]) => t = <<TextEvent(T, s.stamp)>>
    BY <1>2, TextTyped
  <2> HIDE DEF r, t, q, S
  <2>5. /\ \A i \in DOMAIN r : i \in DOMAIN q /\ q[i] = r[i]
        /\ \A j \in DOMAIN t : Len(r) + j \in DOMAIN q /\ q[Len(r) + j] = t[j]
        /\ \A i \in DOMAIN q : i \in DOMAIN r \/ \E j \in DOMAIN t : i = Len(r) + j
    BY <2>1, <2>2, JoinFacts
  <2>6. \A i \in DOMAIN r : h[i] = 0
    BY <1>1, <2>1, <2>5 DEF EventMark
  <2>7. CASE t = <<>>
    <3>1. DOMAIN t = {}
      BY <2>7
    <3>2. \A i \in DOMAIN h : h[i] = 0
      BY <1>1, <2>5, <2>6, <3>1
    <3>3. ~ (s.stamp \in DOMAIN T /\ Shown(T[s.stamp]))
      BY <2>4, <2>7
    <3> QED
      BY <1>1, <3>2, <3>3 DEF Ascending, q
  <2>8. CASE s.stamp \in DOMAIN T /\ t = <<TextEvent(T, s.stamp)>>
    <3> DEFINE e == TextEvent(T, s.stamp)  k == Len(r) + 1
    <3>0. e.is = "IncomingText" /\ e.stamp = s.stamp
      BY TextEventFields
    <3> HIDE DEF e
    <3>1. DOMAIN t = {1} /\ t[1] = e
      BY <2>8 DEF e
    <3>2. k \in DOMAIN q /\ h[k] = s.stamp
      BY <1>1, <2>5, <3>0, <3>1 DEF EventMark
    <3>3. \A i \in DOMAIN h : h[i] = 0 \/ i = k
      BY <1>1, <2>5, <2>6, <3>1
    <3>4. \A i \in DOMAIN h : h[i] = 0 \/ h[i] = s.stamp
      BY <3>2, <3>3
    <3>5. Ascending(h)
      <4>1. \A i, j \in DOMAIN h : h[i] # 0 /\ h[j] # 0 => i = j
        BY <3>3
      <4>2. \A i, j \in DOMAIN h : i < j => i # j
        <5>1. \A i \in DOMAIN h : i \in Nat
          BY <1>1, LenProperties
        <5> QED
          BY <5>1
      <4> QED
        BY <4>1, <4>2 DEF Ascending
    <3>6. s.stamp \in ToSet(h)
      BY <1>1, <3>2 DEF ToSet
    <3> QED
      BY <1>1, <1>2, <3>4, <3>5, <3>6 DEF StanzaMark, q
  <2> QED
    BY <2>3, <2>7, <2>8
<1>3. CASE s.is # "message"
  <2>1. \A i \in DOMAIN q : q[i].is # "IncomingText"
    <3>0. /\ s.is \in {"presence", "roster", "push", "disco"}
          /\ s.is = "presence" => s.from.bare \in Peers /\ s.show \in Shows
          /\ s.is \in {"roster", "push"} => s.items \in Seq(RosterItem)
      BY <1>3, StanzaCases
    <3>1. CASE s.is = "presence"
      <4>1. q = TranslatePresence(s)
        BY <3>1 DEF EventsOf
      <4> HIDE DEF q
      <4>2. CASE s.show = "subscribe"
        BY <3>0, <3>1, <4>1, <4>2, PresenceTyped, NoneFacts
      <4>3. CASE s.show # "subscribe"
        <5> DEFINE e == [is |-> "ContactPresenceUpdated", jid |-> s.from.bare,
                         presence |-> ContactPresence(s.show)]
        <5>1. q = <<e>> /\ e.is # "IncomingText"
          BY <3>0, <3>1, <4>1, <4>3, PresenceTyped
        <5> HIDE DEF e
        <5> QED
          BY <5>1
      <4> QED
        BY <4>2, <4>3
    <3>2. CASE s.is \in {"roster", "push"}
      <4>1. q = EmitRoster(s.items)
        BY <3>2 DEF EventsOf
      <4>2. \A i \in DOMAIN s.items : EmitRoster(s.items)[i].is # "IncomingText"
        BY DEF EmitRoster
      <4>3. DOMAIN EmitRoster(s.items) = DOMAIN s.items
        BY DEF EmitRoster
      <4> HIDE DEF q
      <4> QED
        BY <4>1, <4>2, <4>3
    <3>3. CASE s.is = "disco"
      BY <3>3 DEF EventsOf
    <3> QED
      BY <3>0, <3>1, <3>2, <3>3
  <2> HIDE DEF q
  <2>2. \A i \in DOMAIN h : h[i] = 0
    BY <1>1, <2>1 DEF EventMark
  <2> QED
    BY <1>1, <1>3, <2>2 DEF Ascending, q
<1> QED
  BY <1>2, <1>3

\* A stanza is answered under its number, if at all, and whenever it asks.
LEMMA MarksOfAnswers ==
  ASSUME NEW T \in Seq(Texts), NEW G \in SUBSET (Peers \X Nat), NEW s \in Stanza(T, G)
  PROVE  LET h == RequestMarks(AnswersTo(s))
         IN  /\ h \in Seq(Nat) /\ Ascending(h) /\ \A i \in DOMAIN h : h[i] \in {0, StanzaMark(s)}
             /\ s.is = "message" /\ s.stamp \in DOMAIN T /\ Asked(T[s.stamp]) => s.stamp \in ToSet(h)
<1> DEFINE q == AnswersTo(s)  h == RequestMarks(q)
<1>0. /\ q \in Seq(Request(T))
      /\ \/ q = <<>>
         \/ q = <<[is |-> "result"]>>
         \/ s.is = "message" /\ s.stamp \in DOMAIN T /\ q = <<[is |-> "ack", of |-> s.stamp]>>
      /\ s.is = "message" /\ s.stamp \in DOMAIN T /\ Asked(T[s.stamp]) =>
           q = <<[is |-> "ack", of |-> s.stamp]>>
  BY AnswersTyped
<1> HIDE DEF q
<1>1. h \in Seq(Nat) /\ DOMAIN h = DOMAIN q /\ \A i \in DOMAIN q : h[i] = RequestMark(q[i])
  BY <1>0, RequestMarksFacts
<1>2. CASE q = <<>>
  <2>1. DOMAIN q = {} /\ ~ (q = <<[is |-> "ack", of |-> s.stamp]>>)
    BY <1>2
  <2> QED
    BY <1>0, <1>1, <2>1 DEF Ascending, q
<1>3. CASE q = <<[is |-> "result"]>>
  <2>1. DOMAIN q = {1} /\ q[1].is = "result"
    BY <1>3
  <2>2. ~ (q = <<[is |-> "ack", of |-> s.stamp]>>)
    BY <2>1
  <2>3. \A i \in DOMAIN h : h[i] = 0
    BY <1>1, <2>1 DEF RequestMark
  <2> QED
    BY <1>0, <1>1, <2>2, <2>3 DEF Ascending, q
<1>4. CASE s.is = "message" /\ s.stamp \in DOMAIN T /\ q = <<[is |-> "ack", of |-> s.stamp]>>
  <2>1. DOMAIN q = {1} /\ q[1].is = "ack" /\ q[1].of = s.stamp
    BY <1>4
  <2>2. DOMAIN h = {1} /\ h[1] = s.stamp
    BY <1>1, <2>1 DEF RequestMark
  <2>3. Ascending(h) /\ s.stamp \in ToSet(h)
    BY <2>2 DEF Ascending, ToSet
  <2> QED
    BY <1>1, <1>4, <2>2, <2>3 DEF StanzaMark, q
<1> QED
  BY <1>0, <1>2, <1>3, <1>4

\* What the server adds carries no number of a text.
LEMMA MarksOfServer ==
  ASSUME NEW T \in Seq(Texts), NEW G \in SUBSET (Peers \X Nat), NEW r,
         NEW h \in Seq(Stanza(T, G)), Answer(r, h)
  PROVE  StanzaMarks(h) \in Seq(Nat) /\ \A i \in DOMAIN StanzaMarks(h) : StanzaMarks(h)[i] = 0
<1>1. /\ StanzaMarks(h) \in Seq(Nat) /\ DOMAIN StanzaMarks(h) = DOMAIN h
      /\ \A i \in DOMAIN h : StanzaMarks(h)[i] = StanzaMark(h[i])
  BY StanzaMarksFacts
<1>2. ASSUME NEW i \in DOMAIN h PROVE StanzaMark(h[i]) = 0
  <2>1. CASE h = <<>>
    BY <2>1
  <2>2. CASE h \in Seq(PresenceStanza(Peers))
    BY <2>2, PresencesOnly DEF StanzaMark
  <2>3. CASE h = <<[is |-> "roster", items |-> RosterResult]>>
    BY <2>3 DEF StanzaMark
  <2>4. CASE h = <<[is |-> "disco", features |-> features]>>
    BY <2>4 DEF StanzaMark
  <2>5. CASE h = <<Receipt(r.to, r.id)>>
    <3>1. h[i] = Receipt(r.to, r.id)
      BY <2>5
    <3> QED
      BY <3>1 DEF Receipt, StanzaMark
  <2> QED
    BY <2>1, <2>2, <2>3, <2>4, <2>5 DEF Answer
<1> QED
  BY <1>1, <1>2

Numbered == TextsInLine /\ TextsRemain /\ RequestsInLine /\ RequestsRemain

\* The numbers of the three queues and of what has arrived are numbers.
LEMMA NumbersTyped ==
  ASSUME Sound
  PROVE  /\ ghost.texts \in Seq(Texts) /\ ghost.got \in SUBSET (Peers \X Nat)
         /\ down \in Seq(Stanza(ghost.texts, ghost.got)) /\ up \in Seq(Request(ghost.texts))
         /\ events \in Seq(Event(ghost.texts, ghost.got))
         /\ StanzaMarks(down) \in Seq(Nat) /\ RequestMarks(up) \in Seq(Nat) /\ EventMarks(events) \in Seq(Nat)
         /\ inbox \in Seq(Nat) /\ ghost.acked \in Seq(Nat)
         /\ Len(ghost.texts) \in Nat /\ DOMAIN ghost.texts = 1 .. Len(ghost.texts)
<1>1. /\ ghost.texts \in Seq(Texts) /\ ghost.got \in SUBSET (Peers \X Nat) /\ ghost.acked \in Seq(Nat)
  BY TypedFields DEF Sound
<1>2. /\ down \in Seq(Stanza(ghost.texts, ghost.got)) /\ up \in Seq(Request(ghost.texts))
      /\ events \in Seq(Event(ghost.texts, ghost.got)) /\ inbox \in Seq(Nat)
  BY DEF Sound, Typed
<1> QED
  BY <1>1, <1>2, StanzaMarksFacts, EventMarksFacts, RequestMarksFacts, LenProperties

LEMMA InitIsNumbered == Init => Numbered
<1> SUFFICES ASSUME Init PROVE Numbered
  OBVIOUS
<1> DEFINE e == <<>>
<1>1. /\ inbox = e /\ ghost.acked = e /\ ghost.texts = e /\ events = e /\ down = e /\ up = e
      /\ DOMAIN e = {}
  BY DEF Init
<1> HIDE DEF e
<1>2. EventMarks(e) = e /\ StanzaMarks(e) = e /\ RequestMarks(e) = e
  BY <1>1 DEF EventMarks, StanzaMarks, RequestMarks, e
<1>3. \A n : InLine(e, e, e, n)
  BY <1>1 DEF InLine, ToSet, Ascending, Below, UpTo
<1> QED
  BY <1>1, <1>2, <1>3 DEF Numbered, TextsInLine, TextsRemain, RequestsInLine, RequestsRemain

LEMMA StanzaKeepsNumbers ==
  ASSUME Sound, Numbered, HandleStanza
  PROVE  Numbered'
<1> DEFINE T == ghost.texts  G == ghost.got  s == Head(down)  n == Len(T)
           f == EventMarks(events)  g == StanzaMarks(down)  u == RequestMarks(up)
           h == EventMarks(EventsOf(s))  a == RequestMarks(AnswersTo(s))
<1>1. /\ T \in Seq(Texts) /\ G \in SUBSET (Peers \X Nat)
      /\ down \in Seq(Stanza(T, G)) /\ up \in Seq(Request(T)) /\ events \in Seq(Event(T, G))
      /\ f \in Seq(Nat) /\ g \in Seq(Nat) /\ u \in Seq(Nat)
      /\ inbox \in Seq(Nat) /\ ghost.acked \in Seq(Nat) /\ n \in Nat /\ DOMAIN T = 1 .. n
  BY NumbersTyped
<1>2. /\ ghost' = ghost /\ inbox' = inbox /\ down # <<>> /\ down' = Tail(down)
      /\ events' = events \o EventsOf(s) /\ up' = up \o AnswersTo(s)
  BY DEF HandleStanza, core
<1>3. s \in Stanza(T, G) /\ streamCaps \subseteq {"StreamManagement"}
  BY <1>1, <1>2, TailFacts DEF Sound, Typed
<1>4. /\ h \in Seq(Nat) /\ Ascending(h) /\ \A i \in DOMAIN h : h[i] \in {0, StanzaMark(s)}
      /\ s.is = "message" /\ s.stamp \in DOMAIN T /\ Shown(T[s.stamp]) => s.stamp \in ToSet(h)
  BY <1>1, <1>3, MarksOfEvents
<1>5. /\ a \in Seq(Nat) /\ Ascending(a) /\ \A i \in DOMAIN a : a[i] \in {0, StanzaMark(s)}
      /\ s.is = "message" /\ s.stamp \in DOMAIN T /\ Asked(T[s.stamp]) => s.stamp \in ToSet(a)
  BY <1>1, <1>3, MarksOfAnswers
<1>6. EventsOf(s) \in Seq(Event(T, G)) /\ AnswersTo(s) \in Seq(Request(T))
  BY <1>1, <1>3, EventsTyped, AnswersTyped
<1>7. EventMarks(events') = f \o h
  BY <1>1, <1>2, <1>6, EventMarksFacts
<1>8. RequestMarks(up') = u \o a
  BY <1>1, <1>2, <1>6, RequestMarksFacts
<1>9. g # <<>> /\ Head(g) = StanzaMark(s) /\ StanzaMarks(down') = Tail(g)
  BY ZenonT(60), <1>1, <1>2, StanzaMarksFacts
<1>10. InLine(inbox, f, g, n) /\ InLine(ghost.acked, u, g, n)
  BY DEF Numbered, TextsInLine, RequestsInLine
<1>11. /\ \A k \in DOMAIN T : Shown(T[k]) /\ k \notin ghost.lost => k \in ToSet(inbox) \cup ToSet(f) \cup ToSet(g)
       /\ \A k \in DOMAIN T : Asked(T[k]) /\ k \notin ghost.cut => k \in ToSet(ghost.acked) \cup ToSet(u) \cup ToSet(g)
  BY DEF Numbered, TextsRemain, RequestsRemain
<1>12. \A k \in DOMAIN T : k = StanzaMark(s) => s.is = "message" /\ s.stamp = k
  BY <1>1 DEF StanzaMark
<1> HIDE DEF f, g, u, h, a, T, G, s, n
<1>13. InLine(inbox, f \o h, Tail(g), n) /\ InLine(ghost.acked, u \o a, Tail(g), n)
  <2>1. InLine(inbox, f \o h, Tail(g), n)
    BY <1>1, <1>4, <1>9, <1>10, LineMoves
  <2>2. InLine(ghost.acked, u \o a, Tail(g), n)
    BY <1>1, <1>5, <1>9, <1>10, LineMoves
  <2> QED
    BY <2>1, <2>2
<1>14. /\ ToSet(f \o h) = ToSet(f) \cup ToSet(h) /\ ToSet(u \o a) = ToSet(u) \cup ToSet(a)
       /\ ToSet(g) = ToSet(Tail(g)) \cup {StanzaMark(s)}
  BY <1>1, <1>4, <1>5, <1>9, NumbersOfJoin, NumbersOfTail
<1>15. \A k \in DOMAIN T : Shown(T[k]) /\ k \notin ghost.lost =>
         k \in ToSet(inbox) \cup ToSet(f \o h) \cup ToSet(Tail(g))
  BY <1>4, <1>11, <1>12, <1>14
<1>16. \A k \in DOMAIN T : Asked(T[k]) /\ k \notin ghost.cut =>
         k \in ToSet(ghost.acked) \cup ToSet(u \o a) \cup ToSet(Tail(g))
  BY <1>5, <1>11, <1>12, <1>14
<1>17. TextsInLine' /\ RequestsInLine'
  BY <1>2, <1>7, <1>8, <1>9, <1>13 DEF TextsInLine, RequestsInLine, n, T
<1>18. TextsRemain' /\ RequestsRemain'
  BY <1>2, <1>7, <1>8, <1>9, <1>15, <1>16 DEF TextsRemain, RequestsRemain, T
<1> QED
  BY <1>17, <1>18 DEF Numbered

\* What a new session does to the queues: it resumes the stream, or begins anew.
LEMMA OnlineAdds ==
  ASSUME Sound, HandleOnline
  PROVE  /\ \A f \in {"texts", "got", "acked", "hidden", "edited"} : ghost'[f] = ghost[f]
         /\ Open' /\ live' /\ streamCaps' = StreamCapabilities'
         /\ events' = events \o <<[is |-> "Connected", capabilities |-> StreamCapabilities']>>
         /\ <<[is |-> "Connected", capabilities |-> StreamCapabilities']>> \in Seq(Event(ghost.texts, ghost.got))
         /\ Requests \in Seq(Request(ghost.texts))
         /\ inbox' = inbox /\ contacts' = contacts /\ caps' = caps /\ roster' = roster /\ shows' = shows
         /\ \/ /\ Open /\ down' = down /\ up' = up \o Requests
               /\ features' = features /\ announced' = announced
               /\ ghost'.lost = ghost.lost /\ ghost'.cut = ghost.cut /\ ghost'.told = ghost.told
            \/ /\ down' = <<>> /\ up' = Requests /\ ~announced' /\ ghost'.told = NothingTold
               /\ ghost'.lost = ghost.lost \cup StampsIn(down)
               /\ ghost'.cut = ghost.cut \cup StampsIn(down) \cup AcksIn(up)
<1>0. PICK resumed \in BOOLEAN :
        /\ resumed => ghost.sessions > 0
        /\ IF resumed THEN UNCHANGED <<features, down, announced>>
           ELSE features' \in Announces /\ down' = <<>> /\ announced' = FALSE
        /\ up' = (IF resumed THEN up ELSE <<>>) \o Requests
        /\ ghost' = [ghost EXCEPT !.sessions = @ + 1,
                                  !.told = IF resumed THEN @ ELSE NothingTold,
                                  !.lost = IF resumed THEN @ ELSE @ \cup StampsIn(down),
                                  !.cut = IF resumed THEN @ ELSE @ \cup StampsIn(down) \cup AcksIn(up)]
  BY DEF HandleOnline
<1> DEFINE l == IF resumed THEN ghost.lost ELSE ghost.lost \cup StampsIn(down)
           y == IF resumed THEN ghost.told ELSE NothingTold
           k == IF resumed THEN ghost.cut ELSE ghost.cut \cup StampsIn(down) \cup AcksIn(up)
<1>1. /\ \A f \in {"texts", "got", "acked", "hidden", "edited"} : ghost'[f] = ghost[f]
      /\ ghost'.lost = l /\ ghost'.cut = k /\ ghost'.told = y /\ ghost'.sessions = ghost.sessions + 1
  <2>1. ghost' = [ghost EXCEPT !.sessions = @ + 1, !.told = y, !.lost = l, !.cut = k]
    BY <1>0
  <2>2. ghost \in History
    BY DEF Sound, Typed
  <2> HIDE DEF l, k, y
  <2> QED
    BY <2>1, <2>2 DEF History
<1>2. Open'
  BY <1>1, TypedFields DEF Open, Sound
<1>3. Requests \in Seq(Request(ghost.texts))
  BY RequestsTyped
<1> DEFINE c == StreamCapabilities'  e == [is |-> "Connected", capabilities |-> c]  S == Event(ghost.texts, ghost.got)
<1>4. events' = Append(events, e) /\ live' /\ streamCaps' = StreamCapabilities'
  BY DEF HandleOnline
<1>5. e \in S
  <2>1. c \in SUBSET AllCapabilities
    BY DEF AllCapabilities, StreamCapabilities
  <2> HIDE DEF c
  <2> QED
    BY <2>1 DEF Event
<1>6. events' = events \o <<e>> /\ <<e>> \in Seq(S)
  <2>1. events \in Seq(S)
    BY DEF Sound, Typed
  <2> HIDE DEF e, S
  <2> QED
    BY <1>4, <1>5, <2>1, OneFacts
<1>7. CASE resumed
  <2>1. /\ Open /\ down' = down /\ up' = up \o Requests
        /\ features' = features /\ announced' = announced
    BY <1>0, <1>7 DEF Open
  <2> QED
    BY <1>1, <1>2, <1>3, <1>4, <1>6, <1>7, <2>1 DEF HandleOnline, core
<1>8. CASE ~resumed
  <2>1. down' = <<>> /\ up' = <<>> \o Requests /\ ~announced'
    BY <1>0, <1>8
  <2>2. <<>> \o Requests = Requests
    BY <1>3, ConcatEmptySeq
  <2> QED
    BY <1>1, <1>2, <1>3, <1>4, <1>6, <1>8, <2>1, <2>2 DEF HandleOnline, core
<1> QED
  BY <1>7, <1>8

\* A number in a queue is in the stream.
LEMMA StampsFound ==
  ASSUME Sound, NEW n \in Nat \ {0}
  PROVE  /\ n \in ToSet(StanzaMarks(down)) => n \in StampsIn(down)
         /\ n \in ToSet(RequestMarks(up)) => n \in AcksIn(up)
<1>1. ASSUME n \in ToSet(StanzaMarks(down)) PROVE n \in StampsIn(down)
  <2>1. PICK i \in DOMAIN down : n = StanzaMark(down[i])
    BY <1>1 DEF ToSet, StanzaMarks
  <2>2. down[i].is = "message" /\ down[i].stamp = n
    BY <2>1 DEF StanzaMark
  <2> QED
    BY <2>2 DEF StampsIn, ToSet
<1>2. ASSUME n \in ToSet(RequestMarks(up)) PROVE n \in AcksIn(up)
  <2>1. PICK i \in DOMAIN up : n = RequestMark(up[i])
    BY <1>2 DEF ToSet, RequestMarks
  <2>2. up[i].is = "ack" /\ up[i].of = n
    BY <2>1 DEF RequestMark
  <2> QED
    BY <2>2 DEF AcksIn, ToSet
<1> QED
  BY <1>1, <1>2

LEMMA OnlineKeepsNumbers ==
  ASSUME Sound, Numbered, HandleOnline
  PROVE  Numbered'
<1> DEFINE T == ghost.texts  G == ghost.got  n == Len(T)
           f == EventMarks(events)  g == StanzaMarks(down)  u == RequestMarks(up)
           e == <<[is |-> "Connected", capabilities |-> StreamCapabilities']>>
           h == EventMarks(e)  a == RequestMarks(Requests)
<1>1. /\ T \in Seq(Texts) /\ G \in SUBSET (Peers \X Nat)
      /\ down \in Seq(Stanza(T, G)) /\ up \in Seq(Request(T)) /\ events \in Seq(Event(T, G))
      /\ f \in Seq(Nat) /\ g \in Seq(Nat) /\ u \in Seq(Nat)
      /\ inbox \in Seq(Nat) /\ ghost.acked \in Seq(Nat) /\ n \in Nat /\ DOMAIN T = 1 .. n
  BY NumbersTyped
<1>2. /\ ghost'.texts = T /\ ghost'.acked = ghost.acked /\ inbox' = inbox
      /\ events' = events \o e /\ e \in Seq(Event(T, G)) /\ Requests \in Seq(Request(T))
      /\ \/ /\ down' = down /\ up' = up \o Requests
            /\ ghost'.lost = ghost.lost /\ ghost'.cut = ghost.cut
         \/ /\ down' = <<>> /\ up' = Requests
            /\ ghost'.lost = ghost.lost \cup StampsIn(down)
            /\ ghost'.cut = ghost.cut \cup StampsIn(down) \cup AcksIn(up)
  BY OnlineAdds
<1>3. h \in Seq(Nat) /\ \A i \in DOMAIN h : h[i] = 0
  <2>1. DOMAIN e = {1} /\ e[1].is = "Connected"
    OBVIOUS
  <2> HIDE DEF e
  <2>2. h \in Seq(Nat) /\ DOMAIN h = DOMAIN e /\ \A i \in DOMAIN e : h[i] = EventMark(e[i])
    BY <1>1, <1>2, EventMarksFacts
  <2> QED
    BY <2>1, <2>2 DEF EventMark
<1>4. a \in Seq(Nat) /\ \A i \in DOMAIN a : a[i] = 0
  <2>1. DOMAIN Requests = {1, 2, 3} /\ \A i \in DOMAIN Requests : Requests[i].is # "ack"
    BY DEF Requests
  <2>2. a \in Seq(Nat) /\ DOMAIN a = DOMAIN Requests /\ \A i \in DOMAIN Requests : a[i] = RequestMark(Requests[i])
    BY <1>1, <1>2, RequestMarksFacts
  <2> QED
    BY <2>1, <2>2 DEF RequestMark
<1> HIDE DEF e
<1>5. EventMarks(events') = f \o h
  BY <1>1, <1>2, EventMarksFacts
<1>6. up' = up \o Requests => RequestMarks(up') = u \o a
  BY <1>1, <1>2, RequestMarksFacts
<1>7. InLine(inbox, f, g, n) /\ InLine(ghost.acked, u, g, n)
  BY DEF Numbered, TextsInLine, RequestsInLine
<1>8. /\ \A k \in DOMAIN T : Shown(T[k]) /\ k \notin ghost.lost => k \in ToSet(inbox) \cup ToSet(f) \cup ToSet(g)
      /\ \A k \in DOMAIN T : Asked(T[k]) /\ k \notin ghost.cut => k \in ToSet(ghost.acked) \cup ToSet(u) \cup ToSet(g)
  BY DEF Numbered, TextsRemain, RequestsRemain
<1>9. \A k \in DOMAIN T : /\ k \in ToSet(g) => k \in StampsIn(down)
                          /\ k \in ToSet(u) => k \in AcksIn(up)
  <2>1. \A k \in DOMAIN T : k \in Nat \ {0}
    BY <1>1
  <2> QED
    BY <2>1, StampsFound
<1>10. StanzaMarks(<<>>) = <<>>
  BY DEF StanzaMarks
<1> HIDE DEF f, g, u, h, a, T, G, n
<1>11. /\ ToSet(f \o h) = ToSet(f) \cup ToSet(h) /\ ToSet(u \o a) = ToSet(u) \cup ToSet(a)
  BY <1>1, <1>3, <1>4, NumbersOfJoin
<1>12. CASE /\ down' = down /\ up' = up \o Requests
            /\ ghost'.lost = ghost.lost /\ ghost'.cut = ghost.cut
  <2>1. InLine(inbox, f \o h, g, n) /\ InLine(ghost.acked, u \o a, g, n)
    BY <1>1, <1>3, <1>4, <1>7, LineIgnores
  <2>2. TextsInLine' /\ RequestsInLine'
    BY <1>2, <1>5, <1>6, <1>12, <2>1 DEF TextsInLine, RequestsInLine, n, T, g
  <2>3. TextsRemain' /\ RequestsRemain'
    BY <1>2, <1>5, <1>6, <1>8, <1>11, <1>12 DEF TextsRemain, RequestsRemain, T, g
  <2> QED
    BY <2>2, <2>3 DEF Numbered
<1>13. CASE /\ down' = <<>> /\ up' = Requests
            /\ ghost'.lost = ghost.lost \cup StampsIn(down)
            /\ ghost'.cut = ghost.cut \cup StampsIn(down) \cup AcksIn(up)
  <2> DEFINE z == <<>>
  <2>0. z \in Seq(Nat) /\ StanzaMarks(down') = z /\ RequestMarks(up') = a
    BY <1>10, <1>13 DEF a
  <2>1. InLine(inbox, f, z, n) /\ InLine(ghost.acked, z, z, n)
    BY <1>1, <1>7, LineCut
  <2>2. z \o a = a
    BY <1>4, ConcatEmptySeq
  <2> HIDE DEF z
  <2>3. InLine(inbox, f \o h, z, n) /\ InLine(ghost.acked, z \o a, z, n)
    BY <1>1, <1>3, <1>4, <2>0, <2>1, LineIgnores
  <2>4. TextsInLine' /\ RequestsInLine'
    BY <1>2, <1>5, <2>0, <2>2, <2>3 DEF TextsInLine, RequestsInLine, n, T
  <2>5. TextsRemain' /\ RequestsRemain'
    BY <1>2, <1>5, <1>8, <1>9, <1>11, <1>13, <2>0 DEF TextsRemain, RequestsRemain, T
  <2> QED
    BY <2>4, <2>5 DEF Numbered
<1> QED
  BY <1>2, <1>12, <1>13

LEMMA PollHistory ==
  ASSUME Sound, PollEvent
  PROVE  /\ \A f \in {"texts", "got", "acked", "lost", "cut", "told", "sessions"} : ghost'[f] = ghost[f]
         /\ ghost'.hidden = (IF Head(events).is # "ContactPresenceUpdated" THEN ghost.hidden
                             ELSE IF Head(events).jid \in DOMAIN contacts THEN ghost.hidden \ {Head(events).jid}
                             ELSE ghost.hidden \cup {Head(events).jid})
         /\ ghost'.edited = (IF Head(events).is = "RosterContactUpsert"
                             THEN ghost.edited \ {Head(events).jid} ELSE ghost.edited)
<1> DEFINE e == Head(events)
           h == IF e.is # "ContactPresenceUpdated" THEN ghost.hidden
                ELSE IF e.jid \in DOMAIN contacts THEN ghost.hidden \ {e.jid} ELSE ghost.hidden \cup {e.jid}
           d == IF e.is = "RosterContactUpsert" THEN ghost.edited \ {e.jid} ELSE ghost.edited
<1>1. ghost' = [ghost EXCEPT !.hidden = h, !.edited = d]
  BY DEF PollEvent
<1>2. ghost \in History
  BY DEF Sound, Typed
<1> HIDE DEF h, d
<1>3. /\ \A f \in {"texts", "got", "acked", "lost", "cut", "told", "sessions"} : ghost'[f] = ghost[f]
      /\ ghost'.hidden = h /\ ghost'.edited = d
  BY <1>1, <1>2 DEF History
<1> QED
  BY <1>3 DEF h, d

LEMMA AppendedNumber ==
  ASSUME NEW a \in Seq(Nat), NEW x \in Nat
  PROVE  ToSet(Append(a, x)) = ToSet(a) \cup {x}
<1> DEFINE o == <<x>>
<1>1. o \in Seq(Nat) /\ Append(a, x) = a \o o /\ DOMAIN o = {1} /\ o[1] = x
  BY OneFacts
<1> HIDE DEF o
<1>2. ToSet(a \o o) = ToSet(a) \cup ToSet(o)
  BY <1>1, NumbersOfJoin
<1>3. ToSet(o) = {x}
  BY <1>1 DEF ToSet
<1> QED
  BY <1>1, <1>2, <1>3

LEMMA PollKeepsNumbers ==
  ASSUME Sound, Numbered, PollEvent
  PROVE  Numbered'
<1> DEFINE T == ghost.texts  G == ghost.got  e == Head(events)  n == Len(T)
           f == EventMarks(events)  g == StanzaMarks(down)  u == RequestMarks(up)
<1>1. /\ T \in Seq(Texts) /\ G \in SUBSET (Peers \X Nat)
      /\ down \in Seq(Stanza(T, G)) /\ up \in Seq(Request(T)) /\ events \in Seq(Event(T, G))
      /\ f \in Seq(Nat) /\ g \in Seq(Nat) /\ u \in Seq(Nat)
      /\ inbox \in Seq(Nat) /\ ghost.acked \in Seq(Nat) /\ n \in Nat /\ DOMAIN T = 1 .. n
  BY NumbersTyped
<1>2. /\ events # <<>> /\ events' = Tail(events) /\ down' = down /\ up' = up
      /\ inbox' = IF e.is = "IncomingText" /\ ValidJid(e.sender) /\ e.body # "long"
                  THEN Append(inbox, e.stamp) ELSE inbox
  BY DEF PollEvent
<1>3. /\ ghost'.texts = T /\ ghost'.acked = ghost.acked /\ ghost'.lost = ghost.lost /\ ghost'.cut = ghost.cut
  BY PollHistory
<1>4. e \in Event(T, G)
  BY <1>1, <1>2, TailFacts
<1>5. e.is = "IncomingText" => /\ e.stamp \in DOMAIN T
                               /\ e.sender = T[e.stamp].from /\ e.body = T[e.stamp].body
  <2>1. e.is = "IncomingText" => e.stamp \in DOMAIN T /\ e = TextEvent(T, e.stamp)
    BY <1>1, <1>4, EventCases
  <2> HIDE DEF e
  <2> QED
    BY <2>1, TextEventFields
<1>6. f # <<>> /\ Head(f) = EventMark(e) /\ EventMarks(events') = Tail(f)
  BY ZenonT(60), <1>1, <1>2, EventMarksFacts
<1>7. InLine(inbox, f, g, n)
  BY DEF Numbered, TextsInLine
<1>8. \A k \in DOMAIN T : Shown(T[k]) /\ k \notin ghost.lost => k \in ToSet(inbox) \cup ToSet(f) \cup ToSet(g)
  BY DEF Numbered, TextsRemain
<1>9. RequestsInLine' /\ RequestsRemain'
  BY <1>2, <1>3 DEF Numbered, RequestsInLine, RequestsRemain
<1>10. EventMark(e) = IF e.is = "IncomingText" THEN e.stamp ELSE 0
  BY DEF EventMark
<1>11. \A k \in DOMAIN T : Shown(T[k]) => T[k].from \in Peers /\ T[k].body # "long"
  BY DEF Shown
<1> HIDE DEF f, g, u, T, G, e, n
<1>12. /\ InLine(inbox, Tail(f), g, n)
       /\ Head(f) # 0 => InLine(Append(inbox, Head(f)), Tail(f), g, n)
  BY <1>1, <1>6, <1>7, LineArrives
<1>13. ToSet(f) = ToSet(Tail(f)) \cup {Head(f)}
  BY <1>1, <1>6, NumbersOfTail
<1>14. \A k \in DOMAIN T : k # 0 /\ k \in Nat
  BY <1>1
<1>15. TextsInLine'
  <2>1. InLine(inbox', Tail(f), g, n)
    BY <1>2, <1>5, <1>6, <1>10, <1>12, <1>14
  <2> QED
    BY <1>2, <1>3, <1>6, <2>1 DEF TextsInLine, T, g, n
<1>16. ASSUME NEW k \in DOMAIN T, Shown(T[k]), k \notin ghost.lost
       PROVE  k \in ToSet(inbox') \cup ToSet(Tail(f)) \cup ToSet(g)
  <2>1. \A x \in Nat : ToSet(Append(inbox, x)) = ToSet(inbox) \cup {x}
    BY <1>1, AppendedNumber
  <2>2. ToSet(inbox) \subseteq ToSet(inbox')
    BY <1>2, <1>5, <1>14, <2>1
  <2>3. CASE k = Head(f)
    <3>1. e.is = "IncomingText" /\ e.stamp = k
      BY <1>6, <1>10, <1>14, <2>3
    <3>2. inbox' = Append(inbox, k)
      BY <1>2, <1>5, <1>11, <1>16, <3>1 DEF ValidJid
    <3> QED
      BY <1>14, <2>1, <3>2
  <2>4. CASE k # Head(f)
    BY <1>8, <1>13, <1>16, <2>2, <2>4
  <2> QED
    BY <2>3, <2>4
<1>17. TextsRemain'
  BY <1>2, <1>3, <1>6, <1>16 DEF TextsRemain, T, g
<1> QED
  BY <1>9, <1>15, <1>17 DEF Numbered

LEMMA ServerKeepsNumbers ==
  ASSUME Sound, Numbered, ServerAnswers
  PROVE  Numbered'
<1> DEFINE T == ghost.texts  G == ghost'.got  r == Head(up)  n == Len(T)
           f == EventMarks(events)  g == StanzaMarks(down)  u == RequestMarks(up)
<1>1. /\ T \in Seq(Texts)
      /\ down \in Seq(Stanza(T, ghost.got)) /\ up \in Seq(Request(T)) /\ events \in Seq(Event(T, ghost.got))
      /\ f \in Seq(Nat) /\ g \in Seq(Nat) /\ u \in Seq(Nat)
      /\ inbox \in Seq(Nat) /\ ghost.acked \in Seq(Nat) /\ n \in Nat /\ DOMAIN T = 1 .. n
  BY NumbersTyped
<1>2. /\ ghost' \in History /\ ghost'.texts = T /\ ghost.got \subseteq G
      /\ r \in Request(T) /\ up' = Tail(up)
      /\ ghost'.acked = (IF r.is = "ack" THEN Append(ghost.acked, r.of) ELSE ghost.acked)
      /\ ghost'.lost = ghost.lost /\ ghost'.cut = ghost.cut
      /\ \E h \in Seq(Stanza(T, G)) : Answer(r, h) /\ down' = down \o h
  BY ServerAdds
<1>3. G \in SUBSET (Peers \X Nat)
  BY <1>2 DEF History
<1>4. PICK h \in Seq(Stanza(T, G)) : Answer(r, h) /\ down' = down \o h
  BY <1>2
<1> DEFINE z == StanzaMarks(h)
<1>5. z \in Seq(Nat) /\ \A i \in DOMAIN z : z[i] = 0
  BY ZenonT(60), <1>1, <1>3, <1>4, MarksOfServer
<1>6. inbox' = inbox /\ events' = events /\ up # <<>>
  BY DEF ServerAnswers, core
<1>7. u # <<>> /\ Head(u) = RequestMark(r) /\ RequestMarks(up') = Tail(u)
  BY <1>1, <1>2, <1>6, RequestMarksFacts
<1>8. StanzaMarks(down') = g \o z
  <2>1. down \in Seq(Stanza(T, G))
    <3>1. \A q \in Seq(Stanza(T, ghost.got)) : q \in Seq(Stanza(T, G))
      <4> DEFINE H == ghost.got
      <4>1. H \subseteq G
        BY <1>2
      <4> HIDE DEF G, H, T
      <4> QED
        BY <4>1, QueuesGrow DEF H
    <3> QED
      BY <1>1, <3>1
  <2> HIDE DEF G, T
  <2> QED
    BY <1>1, <1>3, <1>4, <2>1, StanzaMarksFacts
<1>9. InLine(inbox, f, g, n) /\ InLine(ghost.acked, u, g, n)
  BY DEF Numbered, TextsInLine, RequestsInLine
<1>10. /\ \A k \in DOMAIN T : Shown(T[k]) /\ k \notin ghost.lost => k \in ToSet(inbox) \cup ToSet(f) \cup ToSet(g)
       /\ \A k \in DOMAIN T : Asked(T[k]) /\ k \notin ghost.cut => k \in ToSet(ghost.acked) \cup ToSet(u) \cup ToSet(g)
  BY DEF Numbered, TextsRemain, RequestsRemain
<1>11. r.is = "ack" => r.of \in DOMAIN T
  BY <1>1, <1>2, RequestCases
<1>12. RequestMark(r) = IF r.is = "ack" THEN r.of ELSE 0
  BY DEF RequestMark
<1>13. \A k \in DOMAIN T : k # 0 /\ k \in Nat
  BY <1>1
<1> HIDE DEF f, g, u, T, G, r, n, z
<1>14. /\ InLine(ghost.acked, Tail(u), g, n)
       /\ Head(u) # 0 => InLine(Append(ghost.acked, Head(u)), Tail(u), g, n)
  BY <1>1, <1>7, <1>9, LineArrives
<1>15. InLine(inbox, f, g \o z, n)
  BY <1>1, <1>5, <1>9, LineIgnores
<1>16. InLine(ghost'.acked, Tail(u), g \o z, n)
  <2> DEFINE a == ghost'.acked  t == Tail(u)
  <2>1. InLine(a, t, g, n)
    BY <1>2, <1>7, <1>11, <1>12, <1>13, <1>14
  <2>2. a \in Seq(Nat) /\ t \in Seq(Nat)
    BY <1>1, <1>2, <1>7, NumbersOfTail DEF History
  <2> HIDE DEF a, t
  <2>3. InLine(a, t, g \o z, n)
    BY <1>1, <1>5, <2>1, <2>2, LineIgnores
  <2> QED
    BY <2>3 DEF a, t
<1>17. ToSet(u) = ToSet(Tail(u)) \cup {Head(u)} /\ ToSet(g \o z) = ToSet(g) \cup ToSet(z)
  BY <1>1, <1>5, <1>7, NumbersOfTail, NumbersOfJoin
<1>18. ASSUME NEW k \in DOMAIN T, Asked(T[k]), k \notin ghost.cut
       PROVE  k \in ToSet(ghost'.acked) \cup ToSet(Tail(u)) \cup ToSet(g \o z)
  <2>1. \A x \in Nat : ToSet(Append(ghost.acked, x)) = ToSet(ghost.acked) \cup {x}
    BY <1>1, AppendedNumber
  <2>2. ToSet(ghost.acked) \subseteq ToSet(ghost'.acked)
    BY <1>2, <1>11, <1>13, <2>1
  <2>3. CASE k = Head(u)
    <3>1. r.is = "ack" /\ r.of = k
      BY <1>7, <1>12, <1>13, <2>3
    <3>2. ghost'.acked = Append(ghost.acked, k)
      BY <1>2, <3>1
    <3> QED
      BY <1>13, <2>1, <3>2
  <2>4. CASE k # Head(u)
    BY <1>10, <1>17, <1>18, <2>2, <2>4
  <2> QED
    BY <2>3, <2>4
<1>19. TextsInLine' /\ RequestsInLine'
  BY <1>2, <1>6, <1>7, <1>8, <1>15, <1>16 DEF TextsInLine, RequestsInLine, T, f, n
<1>20. TextsRemain'
  BY <1>2, <1>6, <1>8, <1>10, <1>17 DEF TextsRemain, T, f
<1>21. RequestsRemain'
  BY <1>2, <1>7, <1>8, <1>18 DEF RequestsRemain, T
<1> QED
  BY <1>19, <1>20, <1>21 DEF Numbered

\* Whatever carries no number may join the queues.
LEMMA NumbersStay ==
  ASSUME Sound, Numbered,
         \A f \in {"texts", "acked", "lost", "cut"} : ghost'[f] = ghost[f], inbox' = inbox,
         NEW x \in Seq(Stanza(ghost.texts, ghost.got)), \A i \in DOMAIN x : StanzaMark(x[i]) = 0,
         NEW y \in Seq(Request(ghost.texts)), \A i \in DOMAIN y : RequestMark(y[i]) = 0,
         NEW z \in Seq(Event(ghost.texts, ghost.got)), \A i \in DOMAIN z : EventMark(z[i]) = 0,
         down' = down \o x, up' = up \o y, events' = events \o z
  PROVE  Numbered'
<1> DEFINE T == ghost.texts  G == ghost.got  n == Len(T)
           f == EventMarks(events)  g == StanzaMarks(down)  u == RequestMarks(up)
           a == StanzaMarks(x)  b == RequestMarks(y)  c == EventMarks(z)
<1>1. /\ T \in Seq(Texts) /\ G \in SUBSET (Peers \X Nat)
      /\ down \in Seq(Stanza(T, G)) /\ up \in Seq(Request(T)) /\ events \in Seq(Event(T, G))
      /\ f \in Seq(Nat) /\ g \in Seq(Nat) /\ u \in Seq(Nat)
      /\ inbox \in Seq(Nat) /\ ghost.acked \in Seq(Nat) /\ n \in Nat
  BY NumbersTyped
<1>2. a \in Seq(Nat) /\ \A i \in DOMAIN a : a[i] = 0
  <2>1. a \in Seq(Nat) /\ DOMAIN a = DOMAIN x /\ \A i \in DOMAIN x : a[i] = StanzaMark(x[i])
    BY <1>1, StanzaMarksFacts
  <2> HIDE DEF a
  <2> QED
    BY <2>1
<1>3. b \in Seq(Nat) /\ \A i \in DOMAIN b : b[i] = 0
  <2>1. b \in Seq(Nat) /\ DOMAIN b = DOMAIN y /\ \A i \in DOMAIN y : b[i] = RequestMark(y[i])
    BY <1>1, RequestMarksFacts
  <2> HIDE DEF b
  <2> QED
    BY <2>1
<1>4. c \in Seq(Nat) /\ \A i \in DOMAIN c : c[i] = 0
  <2>1. c \in Seq(Nat) /\ DOMAIN c = DOMAIN z /\ \A i \in DOMAIN z : c[i] = EventMark(z[i])
    BY <1>1, EventMarksFacts
  <2> HIDE DEF c
  <2> QED
    BY <2>1
<1>5. StanzaMarks(down') = g \o a
  BY <1>1, StanzaMarksFacts
<1>6. RequestMarks(up') = u \o b
  BY <1>1, RequestMarksFacts
<1>7. EventMarks(events') = f \o c
  BY <1>1, EventMarksFacts
<1>8. InLine(inbox, f, g, n) /\ InLine(ghost.acked, u, g, n)
  BY DEF Numbered, TextsInLine, RequestsInLine
<1>9. /\ \A k \in DOMAIN T : Shown(T[k]) /\ k \notin ghost.lost => k \in ToSet(inbox) \cup ToSet(f) \cup ToSet(g)
      /\ \A k \in DOMAIN T : Asked(T[k]) /\ k \notin ghost.cut => k \in ToSet(ghost.acked) \cup ToSet(u) \cup ToSet(g)
  BY DEF Numbered, TextsRemain, RequestsRemain
<1>10. ghost'.texts = T /\ ghost'.acked = ghost.acked /\ ghost'.lost = ghost.lost /\ ghost'.cut = ghost.cut
  OBVIOUS
<1> HIDE DEF f, g, u, a, b, c, T, G, n
<1>11. ToSet(f \o c) = ToSet(f) \cup ToSet(c) /\ ToSet(u \o b) = ToSet(u) \cup ToSet(b)
       /\ ToSet(g \o a) = ToSet(g) \cup ToSet(a)
  BY <1>1, <1>2, <1>3, <1>4, NumbersOfJoin
<1>12. InLine(inbox, f \o c, g \o a, n)
  <2> DEFINE w == g \o a
  <2>1. InLine(inbox, f, w, n) /\ w \in Seq(Nat)
    BY <1>1, <1>2, <1>8, LineIgnores, ConcatProperties
  <2> HIDE DEF w
  <2>2. InLine(inbox, f \o c, w, n)
    BY <1>1, <1>4, <2>1, LineIgnores
  <2> QED
    BY <2>2 DEF w
<1>13. InLine(ghost.acked, u \o b, g \o a, n)
  <2> DEFINE w == g \o a
  <2>1. InLine(ghost.acked, u, w, n) /\ w \in Seq(Nat)
    BY <1>1, <1>2, <1>8, LineIgnores, ConcatProperties
  <2> HIDE DEF w
  <2>2. InLine(ghost.acked, u \o b, w, n)
    BY <1>1, <1>3, <2>1, LineIgnores
  <2> QED
    BY <2>2 DEF w
<1>14. TextsInLine' /\ RequestsInLine'
  BY <1>5, <1>6, <1>7, <1>10, <1>12, <1>13 DEF TextsInLine, RequestsInLine, n, T
<1>15. TextsRemain' /\ RequestsRemain'
  BY <1>5, <1>6, <1>7, <1>9, <1>10, <1>11 DEF TextsRemain, RequestsRemain, T
<1> QED
  BY <1>14, <1>15 DEF Numbered

LEMMA DisconnectKeepsNumbers ==
  ASSUME Sound, Numbered, HandleDisconnected
  PROVE  Numbered'
<1> DEFINE T == ghost.texts  G == ghost.got  e == [is |-> "Disconnected"]  S == Event(T, G)
           z == <<e>>  x == <<>>  y == <<>>
<1>1. /\ ghost' = ghost /\ inbox' = inbox /\ down' = down /\ up' = up /\ events' = Append(events, e)
  BY DEF HandleDisconnected, core
<1>2. down \in Seq(Stanza(T, G)) /\ up \in Seq(Request(T)) /\ events \in Seq(S)
  BY NumbersTyped
<1>3. e \in S /\ EventMark(e) = 0
  BY DEF Event, EventMark
<1> HIDE DEF e, S
<1>4. z \in Seq(S) /\ events' = events \o z /\ DOMAIN z = {1} /\ z[1] = e
  BY <1>1, <1>2, <1>3, OneFacts
<1>5. x \in Seq(Stanza(T, G)) /\ y \in Seq(Request(T)) /\ DOMAIN x = {} /\ DOMAIN y = {}
  BY NoneFacts
<1>6. down' = down \o x /\ up' = up \o y
  BY <1>1, <1>2, ConcatEmptySeq
<1> HIDE DEF x, y, z
<1> QED
  BY <1>1, <1>3, <1>4, <1>5, <1>6, NumbersStay DEF S

LEMMA UserKeepsNumbers ==
  ASSUME Sound, Numbered, NEW p \in Peers,
         UpsertContact(p) \/ \E k \in {"Direct", "MultiUserChat"} : SendMessage(p, k)
  PROVE  Numbered'
<1> DEFINE T == ghost.texts  G == ghost.got  x == <<>>
<1>1. ghost \in History /\ down \in Seq(Stanza(T, G)) /\ up \in Seq(Request(T)) /\ events \in Seq(Event(T, G))
  BY NumbersTyped DEF Sound, Typed
<1>2. \A f \in {"texts", "acked", "lost", "cut"} : ghost'[f] = ghost[f]
  <2>1. CASE UpsertContact(p)
    <3> DEFINE w == ghost.written + 1  h == ghost.hidden \cup {p}  d == ghost.edited \cup {p}
    <3>2. ghost' = [ghost EXCEPT !.written = w, !.hidden = h, !.edited = d]
      BY <2>1 DEF UpsertContact
    <3> HIDE DEF w, h, d
    <3> QED
      BY <1>1, <3>2 DEF History
  <2>2. CASE \E k \in {"Direct", "MultiUserChat"} : SendMessage(p, k)
    <3> DEFINE w == ghost.written + 1
    <3>2. ghost' = [ghost EXCEPT !.written = w]
      BY <2>2 DEF SendMessage
    <3> HIDE DEF w
    <3> QED
      BY <1>1, <3>2 DEF History
  <2> QED
    BY <2>1, <2>2
<1>3. inbox' = inbox /\ down' = down /\ events' = events
  BY DEF UpsertContact, SendMessage
<1>4. /\ x \in Seq(Stanza(T, G)) /\ x \in Seq(Request(T)) /\ x \in Seq(Event(T, G)) /\ DOMAIN x = {}
      /\ down' = down \o x /\ events' = events \o x /\ up \o x = up
  BY <1>1, <1>3, NoneFacts, ConcatEmptySeq
<1>5. \E y \in Seq(Request(T)) : (\A i \in DOMAIN y : RequestMark(y[i]) = 0) /\ up' = up \o y
  <2>1. CASE UpsertContact(p)
    <3>1. up' = up
      BY <2>1 DEF UpsertContact
    <3> HIDE DEF x
    <3> QED
      BY <1>4, <3>1
  <2>2. ASSUME NEW k \in {"Direct", "MultiUserChat"}, SendMessage(p, k)
        PROVE  \E y \in Seq(Request(T)) : (\A i \in DOMAIN y : RequestMark(y[i]) = 0) /\ up' = up \o y
    <3> DEFINE n == Len(out) + 1  b == (k = "Direct")
               r == [is |-> "message", to |-> p, id |-> n, request |-> b]  S == Request(T)
    <3>1. up' = Append(up, r)
      BY <2>2 DEF SendMessage
    <3>2. n \in Nat /\ b \in BOOLEAN
      BY LenProperties DEF Sound, Typed
    <3> HIDE DEF n, b
    <3>3. r \in S /\ RequestMark(r) = 0
      BY <3>2 DEF Request, RequestMark
    <3> DEFINE y == <<r>>
    <3> HIDE DEF r, S
    <3>4. up \in Seq(S)
      BY <1>1 DEF S
    <3>5. y \in Seq(S) /\ up' = up \o y /\ DOMAIN y = {1} /\ y[1] = r
      BY <3>1, <3>3, <3>4, OneFacts
    <3> HIDE DEF y
    <3>6. \A i \in DOMAIN y : RequestMark(y[i]) = 0
      BY <3>3, <3>5
    <3> QED
      BY <3>5, <3>6 DEF S
  <2> QED
    BY <2>1, <2>2
<1> HIDE DEF x
<1> QED
  BY <1>2, <1>3, <1>4, <1>5, NumbersStay

LEMMA RosterKeepsNumbers ==
  ASSUME Sound, Numbered, NEW p \in Peers, RosterChanges(p)
  PROVE  Numbered'
<1> DEFINE T == ghost.texts  G == ghost.got  S == Stanza(T, G)  x == <<>>
<1>1. down \in Seq(S) /\ up \in Seq(Request(T)) /\ events \in Seq(Event(T, G))
  BY NumbersTyped
<1>2. \A f \in {"texts", "acked", "lost", "cut"} : ghost'[f] = ghost[f]
  <2>1. ghost'.texts = ghost.texts /\ ghost'.acked = ghost.acked /\ ghost'.lost = ghost.lost /\ ghost'.cut = ghost.cut
    BY RosterAdds
  <2> QED
    BY <2>1
<1>3. inbox' = inbox /\ up' = up /\ events' = events
  BY DEF RosterChanges, core
<1>4. /\ x \in Seq(Request(T)) /\ x \in Seq(Event(T, G)) /\ DOMAIN x = {}
      /\ up' = up \o x /\ events' = events \o x
  BY <1>1, <1>3, NoneFacts, ConcatEmptySeq
<1>5. \E y \in Seq(S) : (\A i \in DOMAIN y : StanzaMark(y[i]) = 0) /\ down' = down \o y
  <2>1. PICK item \in Items \ {roster[p]}, y \in Seq(S) : down' = down \o y /\ Pushes(p, item, y)
    BY RosterJoins
  <2>2. \A i \in DOMAIN y : y[i].is \in {"push", "presence"}
    BY <2>1, PushFacts DEF Pushes
  <2> QED
    BY <2>1, <2>2 DEF StanzaMark
<1> HIDE DEF x
<1> QED
  BY <1>2, <1>3, <1>4, <1>5, NumbersStay

LEMMA ShowKeepsNumbers ==
  ASSUME Sound, Numbered, NEW p \in Peers, NEW d \in Devices, PeerShows(p, d)
  PROVE  Numbered'
<1> DEFINE T == ghost.texts  G == ghost.got  S == Stanza(T, G)  x == <<>>
<1>1. down \in Seq(S) /\ up \in Seq(Request(T)) /\ events \in Seq(Event(T, G))
  BY NumbersTyped
<1>2. \A f \in {"texts", "acked", "lost", "cut"} : ghost'[f] = ghost[f]
  <2>1. ghost'.texts = ghost.texts /\ ghost'.acked = ghost.acked /\ ghost'.lost = ghost.lost /\ ghost'.cut = ghost.cut
    BY ShowAdds
  <2> QED
    BY <2>1
<1>3. inbox' = inbox /\ up' = up /\ events' = events
  BY DEF PeerShows, core
<1>4. /\ x \in Seq(Request(T)) /\ x \in Seq(Event(T, G)) /\ DOMAIN x = {}
      /\ up' = up \o x /\ events' = events \o x
  BY <1>1, <1>3, NoneFacts, ConcatEmptySeq
<1>5. \E y \in Seq(S) : (\A i \in DOMAIN y : StanzaMark(y[i]) = 0) /\ down' = down \o y
  <2>1. PICK o \in Seq(PresenceStanza({p})) : o \in Seq(S) /\ down' = down \o o
    BY ShowAdds
  <2>2. \A i \in DOMAIN o : o[i].is = "presence"
    BY PresencesOnly
  <2> QED
    BY <2>1, <2>2 DEF StanzaMark
<1> HIDE DEF x
<1> QED
  BY <1>2, <1>3, <1>4, <1>5, NumbersStay

LEMMA WriteKeepsNumbers ==
  ASSUME Sound, Numbered, PeerWrites
  PROVE  Numbered'
<1> DEFINE T == ghost.texts  n == Len(T)  U == ghost'.texts  H == ghost'.got
           f == EventMarks(events)  g == StanzaMarks(down)  u == RequestMarks(up)
           o == <<n + 1>>
<1>1. /\ f \in Seq(Nat) /\ g \in Seq(Nat) /\ u \in Seq(Nat)
      /\ inbox \in Seq(Nat) /\ ghost.acked \in Seq(Nat) /\ n \in Nat /\ DOMAIN T = 1 .. n
  BY NumbersTyped
<1>2. /\ ghost' \in History /\ ghost'.acked = ghost.acked /\ ghost'.lost = ghost.lost /\ ghost'.cut = ghost.cut
      /\ \E m \in Texts :
           /\ U \in Seq(Texts) /\ Len(U) = n + 1
           /\ DOMAIN U = 1 .. n + 1
           /\ \A k \in DOMAIN T : U[k] = T[k]
           /\ Stamped(m, n + 1) \in Stanza(U, H)
           /\ down \in Seq(Stanza(U, H))
           /\ down' = down \o <<Stamped(m, n + 1)>>
  BY WriteAdds
<1>3. PICK m \in Texts :
        /\ U \in Seq(Texts) /\ Len(U) = n + 1 /\ DOMAIN U = 1 .. n + 1
        /\ \A k \in DOMAIN T : U[k] = T[k]
        /\ Stamped(m, n + 1) \in Stanza(U, H)
        /\ down \in Seq(Stanza(U, H)) /\ down' = down \o <<Stamped(m, n + 1)>>
  BY <1>2
<1>4. H \in SUBSET (Peers \X Nat) /\ inbox' = inbox /\ events' = events /\ up' = up
  BY <1>2 DEF History, PeerWrites, core
<1>5. StanzaMarks(down') = g \o o
  <2> DEFINE x == Stamped(m, n + 1)  y == <<x>>  S == Stanza(U, H)
  <2>1. StanzaMark(x) = n + 1
    BY StampedFields DEF StanzaMark
  <2>2. x \in S /\ down \in Seq(S) /\ down' = down \o y
    BY <1>3
  <2> HIDE DEF x, S
  <2>3. y \in Seq(S) /\ DOMAIN y = {1} /\ y[1] = x
    BY <2>2, OneFacts
  <2> HIDE DEF y
  <2>4. StanzaMarks(down') = g \o StanzaMarks(y)
    BY <1>3, <1>4, <2>2, <2>3, StanzaMarksFacts DEF S
  <2>5. StanzaMarks(y) = [i \in {1} |-> n + 1]
    BY <2>1, <2>3 DEF StanzaMarks
  <2>6. [i \in {1} |-> n + 1] = o
    OBVIOUS
  <2> QED
    BY <2>4, <2>5, <2>6
<1>6. InLine(inbox, f, g, n) /\ InLine(ghost.acked, u, g, n)
  BY DEF Numbered, TextsInLine, RequestsInLine
<1>7. /\ \A k \in DOMAIN T : Shown(T[k]) /\ k \notin ghost.lost => k \in ToSet(inbox) \cup ToSet(f) \cup ToSet(g)
      /\ \A k \in DOMAIN T : Asked(T[k]) /\ k \notin ghost.cut => k \in ToSet(ghost.acked) \cup ToSet(u) \cup ToSet(g)
  BY DEF Numbered, TextsRemain, RequestsRemain
<1>8. InLine(inbox, f, g \o o, n + 1) /\ InLine(ghost.acked, u, g \o o, n + 1)
  <2> HIDE DEF f, g, u, n
  <2>1. InLine(inbox, f, g \o o, n + 1)
    BY <1>1, <1>6, LineGrows
  <2>2. InLine(ghost.acked, u, g \o o, n + 1)
    BY <1>1, <1>6, LineGrows
  <2> QED
    BY <2>1, <2>2
<1>9. ToSet(g \o o) = ToSet(g) \cup {n + 1}
  <2> DEFINE w == n + 1
  <2>1. w \in Nat
    BY <1>1
  <2> HIDE DEF w, g
  <2>2. ToSet(Append(g, w)) = ToSet(g) \cup {w} /\ Append(g, w) = g \o <<w>>
    BY <1>1, <2>1, AppendedNumber, OneFacts
  <2> QED
    BY <2>2 DEF w
<1>10. \A k \in DOMAIN U : (k \in DOMAIN T /\ U[k] = T[k]) \/ k = n + 1
  <2>1. \A k \in 1 .. n + 1 : k \in 1 .. n \/ k = n + 1
    <3> HIDE DEF n
    <3> QED
      BY <1>1
  <2> HIDE DEF n, T, U
  <2> QED
    BY <1>1, <1>3, <2>1
<1> HIDE DEF T, U, H, f, g, u, o, n
<1>11. TextsInLine' /\ RequestsInLine'
  BY <1>2, <1>3, <1>4, <1>5, <1>8 DEF TextsInLine, RequestsInLine, U, f, u
<1>12. TextsRemain'
  BY <1>2, <1>4, <1>5, <1>7, <1>9, <1>10 DEF TextsRemain, U, f
<1>13. RequestsRemain'
  BY <1>2, <1>4, <1>5, <1>7, <1>9, <1>10 DEF RequestsRemain, U, u
<1> QED
  BY <1>11, <1>12, <1>13 DEF Numbered

LEMMA StepKeepsNumbers ==
  ASSUME Sound, Numbered, [Next]_vars
  PROVE  Numbered'
<1>1. CASE SessionStep
  BY <1>1, StanzaKeepsNumbers, OnlineKeepsNumbers, DisconnectKeepsNumbers DEF SessionStep
<1>2. CASE PollEvent
  BY <1>2, PollKeepsNumbers
<1>3. CASE UserStep
  BY <1>3, UserKeepsNumbers DEF UserStep
<1>4. CASE ServerStep
  BY <1>4, ServerKeepsNumbers, RosterKeepsNumbers, ShowKeepsNumbers, WriteKeepsNumbers DEF ServerStep
<1>5. CASE UNCHANGED vars
  BY <1>5 DEF Numbered, TextsInLine, TextsRemain, RequestsInLine, RequestsRemain, vars, core
<1> QED
  BY <1>1, <1>2, <1>3, <1>4, <1>5 DEF Next

\* Numbers keep their order through the queues, and none is missing that no
\* stream took with it.
THEOREM NumbersInvariance == Spec => []Numbered
<1>1. Init => Numbered
  BY InitIsNumbered
<1>2. Sound /\ Numbered /\ [Next]_vars => Numbered'
  BY StepKeepsNumbers
<1> QED
  BY <1>1, <1>2, SoundInvariance, PTL DEF Spec

LEMMA NoNumbers ==
  ToSet(EventMarks(<<>>)) = {} /\ ToSet(StanzaMarks(<<>>)) = {} /\ ToSet(RequestMarks(<<>>)) = {}
<1>1. DOMAIN <<>> = {}
  OBVIOUS
<1> QED
  BY <1>1 DEF ToSet, EventMarks, StanzaMarks, RequestMarks

LEMMA OnceInOrder ==
  ASSUME NEW a \in Seq(Nat), Ascending(a), 0 \notin ToSet(a)
  PROVE  /\ \A i, j \in DOMAIN a : i < j => a[i] < a[j]
         /\ \A i, j \in DOMAIN a : i # j => a[i] # a[j]
<1>1. \A i \in DOMAIN a : a[i] # 0 /\ a[i] \in Nat /\ i \in Nat
  BY LenProperties DEF ToSet
<1>2. \A i, j \in DOMAIN a : i < j => a[i] < a[j]
  BY <1>1 DEF Ascending
<1>3. ASSUME NEW i \in DOMAIN a, NEW j \in DOMAIN a, i # j PROVE a[i] # a[j]
  <2>1. i < j \/ j < i
    BY <1>1, <1>3
  <2> QED
    BY <1>1, <1>2, <2>1
<1> QED
  BY <1>2, <1>3

\* Texts are shown in the order they were sent, none twice, and in the end all
\* of them but those that a stream took with it (translate_incoming_message,
\* poll_transport_events).
THEOREM TextsShownOnce == Spec => []TextsAreShownOnce
<1>1. Sound /\ Numbered => TextsAreShownOnce
  <2> SUFFICES ASSUME Sound, Numbered PROVE TextsAreShownOnce
    OBVIOUS
  <2>1. \A i, j \in DOMAIN inbox : i < j => inbox[i] < inbox[j]
    <3>1. inbox \in Seq(Nat) /\ Ascending(inbox) /\ 0 \notin ToSet(inbox)
      BY NumbersTyped DEF Numbered, TextsInLine, InLine
    <3> QED
      BY <3>1, OnceInOrder
  <2>2. ASSUME Quiet, NEW n \in DOMAIN ghost.texts, Shown(ghost.texts[n]), n \notin ghost.lost
        PROVE  n \in ToSet(inbox)
    BY <2>2, NoNumbers DEF Numbered, TextsRemain, Quiet
  <2> QED
    BY <2>1, <2>2 DEF TextsAreShownOnce
<1> QED
  BY <1>1, SoundInvariance, NumbersInvariance, PTL

\* Whoever asks for a receipt gets one, once, also for a stanza that shows
\* nothing (receipt_acknowledgement).
THEOREM RequestsAnswered == Spec => []RequestsAreAnswered
<1>1. Sound /\ Numbered => RequestsAreAnswered
  <2> SUFFICES ASSUME Sound, Numbered PROVE RequestsAreAnswered
    OBVIOUS
  <2>1. \A i, j \in DOMAIN ghost.acked : i # j => ghost.acked[i] # ghost.acked[j]
    <3> DEFINE a == ghost.acked
    <3>1. a \in Seq(Nat) /\ Ascending(a) /\ 0 \notin ToSet(a)
      BY NumbersTyped DEF Numbered, RequestsInLine, InLine
    <3> HIDE DEF a
    <3>2. \A i, j \in DOMAIN a : i # j => a[i] # a[j]
      BY <3>1, OnceInOrder
    <3> QED
      BY <3>2 DEF a
  <2>2. ASSUME Quiet, NEW n \in DOMAIN ghost.texts, Asked(ghost.texts[n]), n \notin ghost.cut
        PROVE  n \in ToSet(ghost.acked)
    BY <2>2, NoNumbers DEF Numbered, RequestsRemain, Quiet
  <2> QED
    BY <2>1, <2>2 DEF RequestsAreAnswered, Asked, IsDirectReceiptMessage
<1> QED
  BY <1>1, SoundInvariance, NumbersInvariance, PTL

-----------------------------------------------------------------------------
(* Values on their way. *)

LEMMA EventCapsFacts ==
  ASSUME NEW S, NEW q \in Seq(S), NEW r \in Seq(S), NEW fit
  PROVE  /\ EventCaps(q, fit) \in Seq(Effects) /\ DOMAIN EventCaps(q, fit) = DOMAIN q
         /\ \A i \in DOMAIN q : EventCaps(q, fit)[i] = EventCap(q[i], fit)
         /\ EventCaps(q \o r, fit) = EventCaps(q, fit) \o EventCaps(r, fit)
         /\ q # <<>> =>
              /\ EventCaps(q, fit) # <<>> /\ Head(EventCaps(q, fit)) = EventCap(Head(q), fit)
              /\ EventCaps(Tail(q), fit) = Tail(EventCaps(q, fit))
<1> DEFINE m == [s \in S |-> EventCap(s, fit)]  u == q \o r
<1>1. m \in Readings(S, Effects)
  BY DEF EventCap, Verdict, Effects, Readings
<1>2. \A s \in S : m[s] = EventCap(s, fit)
  OBVIOUS
<1> HIDE DEF m
<1>3. ASSUME NEW v \in Seq(S) PROVE EventCaps(v, fit) = Read(m, v)
  <2>1. \A i \in DOMAIN v : v[i] \in S
    BY LenProperties, ElementOfSeq
  <2> QED
    BY <1>2, <2>1 DEF EventCaps, Read
<1>4. EventCaps(q, fit) \in Seq(Effects) /\ DOMAIN EventCaps(q, fit) = DOMAIN q
      /\ \A i \in DOMAIN q : EventCaps(q, fit)[i] = EventCap(q[i], fit)
  <2>1. \A i \in DOMAIN q : q[i] \in S
    BY LenProperties, ElementOfSeq
  <2> QED
    BY <1>1, <1>2, <1>3, <2>1, ReadIsSeq
<1>5. EventCaps(u, fit) = EventCaps(q, fit) \o EventCaps(r, fit)
  <2>1. Read(m, u) = Read(m, q) \o Read(m, r) /\ u \in Seq(S)
    BY <1>1, ReadJoin, ConcatProperties
  <2> HIDE DEF u
  <2> QED
    BY <1>3, <2>1
<1>6. ASSUME q # <<>>
      PROVE  /\ EventCaps(q, fit) # <<>> /\ Head(EventCaps(q, fit)) = EventCap(Head(q), fit)
             /\ EventCaps(Tail(q), fit) = Tail(EventCaps(q, fit))
  <2>1. Read(m, q) # <<>> /\ Head(Read(m, q)) = m[Head(q)] /\ Read(m, Tail(q)) = Tail(Read(m, q))
    BY <1>1, <1>6, ReadTail
  <2>2. Head(q) \in S /\ Tail(q) \in Seq(S)
    BY <1>6, TailFacts
  <2> QED
    BY <1>2, <1>3, <2>1, <2>2
<1> QED
  BY <1>4, <1>5, <1>6

LEMMA StanzaCapsFacts ==
  ASSUME NEW S, NEW q \in Seq(S), NEW r \in Seq(S), NEW stream, NEW fit
  PROVE  /\ StanzaCaps(q, stream, fit) \in Seq(Effects) /\ DOMAIN StanzaCaps(q, stream, fit) = DOMAIN q
         /\ \A i \in DOMAIN q : StanzaCaps(q, stream, fit)[i] = StanzaCap(q[i], stream, fit)
         /\ StanzaCaps(q \o r, stream, fit) = StanzaCaps(q, stream, fit) \o StanzaCaps(r, stream, fit)
         /\ q # <<>> =>
              /\ StanzaCaps(q, stream, fit) # <<>> /\ Head(StanzaCaps(q, stream, fit)) = StanzaCap(Head(q), stream, fit)
              /\ StanzaCaps(Tail(q), stream, fit) = Tail(StanzaCaps(q, stream, fit))
<1> DEFINE m == [s \in S |-> StanzaCap(s, stream, fit)]  u == q \o r
<1>1. m \in Readings(S, Effects)
  BY DEF StanzaCap, Verdict, Effects, Readings
<1>2. \A s \in S : m[s] = StanzaCap(s, stream, fit)
  OBVIOUS
<1> HIDE DEF m
<1>3. ASSUME NEW v \in Seq(S) PROVE StanzaCaps(v, stream, fit) = Read(m, v)
  <2>1. \A i \in DOMAIN v : v[i] \in S
    BY LenProperties, ElementOfSeq
  <2> QED
    BY <1>2, <2>1 DEF StanzaCaps, Read
<1>4. StanzaCaps(q, stream, fit) \in Seq(Effects) /\ DOMAIN StanzaCaps(q, stream, fit) = DOMAIN q
      /\ \A i \in DOMAIN q : StanzaCaps(q, stream, fit)[i] = StanzaCap(q[i], stream, fit)
  <2>1. \A i \in DOMAIN q : q[i] \in S
    BY LenProperties, ElementOfSeq
  <2> QED
    BY <1>1, <1>2, <1>3, <2>1, ReadIsSeq
<1>5. StanzaCaps(u, stream, fit) = StanzaCaps(q, stream, fit) \o StanzaCaps(r, stream, fit)
  <2>1. Read(m, u) = Read(m, q) \o Read(m, r) /\ u \in Seq(S)
    BY <1>1, ReadJoin, ConcatProperties
  <2> HIDE DEF u
  <2> QED
    BY <1>3, <2>1
<1>6. ASSUME q # <<>>
      PROVE  /\ StanzaCaps(q, stream, fit) # <<>> /\ Head(StanzaCaps(q, stream, fit)) = StanzaCap(Head(q), stream, fit)
             /\ StanzaCaps(Tail(q), stream, fit) = Tail(StanzaCaps(q, stream, fit))
  <2>1. Read(m, q) # <<>> /\ Head(Read(m, q)) = m[Head(q)] /\ Read(m, Tail(q)) = Tail(Read(m, q))
    BY <1>1, <1>6, ReadTail
  <2>2. Head(q) \in S /\ Tail(q) \in Seq(S)
    BY <1>6, TailFacts
  <2> QED
    BY <1>2, <1>3, <2>1, <2>2
<1> QED
  BY <1>4, <1>5, <1>6

LEMMA EventRosterFacts ==
  ASSUME NEW S, NEW q \in Seq(S), NEW r \in Seq(S), NEW p, NEW sub
  PROVE  /\ EventRoster(q, p, sub) \in Seq(Effects) /\ DOMAIN EventRoster(q, p, sub) = DOMAIN q
         /\ \A i \in DOMAIN q : EventRoster(q, p, sub)[i] = EventEntry(q[i], p, sub)
         /\ EventRoster(q \o r, p, sub) = EventRoster(q, p, sub) \o EventRoster(r, p, sub)
         /\ q # <<>> =>
              /\ EventRoster(q, p, sub) # <<>> /\ Head(EventRoster(q, p, sub)) = EventEntry(Head(q), p, sub)
              /\ EventRoster(Tail(q), p, sub) = Tail(EventRoster(q, p, sub))
<1> DEFINE m == [s \in S |-> EventEntry(s, p, sub)]  u == q \o r
<1>1. m \in Readings(S, Effects)
  BY DEF EventEntry, Verdict, Effects, Readings
<1>2. \A s \in S : m[s] = EventEntry(s, p, sub)
  OBVIOUS
<1> HIDE DEF m
<1>3. ASSUME NEW v \in Seq(S) PROVE EventRoster(v, p, sub) = Read(m, v)
  <2>1. \A i \in DOMAIN v : v[i] \in S
    BY LenProperties, ElementOfSeq
  <2> QED
    BY <1>2, <2>1 DEF EventRoster, Read
<1>4. EventRoster(q, p, sub) \in Seq(Effects) /\ DOMAIN EventRoster(q, p, sub) = DOMAIN q
      /\ \A i \in DOMAIN q : EventRoster(q, p, sub)[i] = EventEntry(q[i], p, sub)
  <2>1. \A i \in DOMAIN q : q[i] \in S
    BY LenProperties, ElementOfSeq
  <2> QED
    BY <1>1, <1>2, <1>3, <2>1, ReadIsSeq
<1>5. EventRoster(u, p, sub) = EventRoster(q, p, sub) \o EventRoster(r, p, sub)
  <2>1. Read(m, u) = Read(m, q) \o Read(m, r) /\ u \in Seq(S)
    BY <1>1, ReadJoin, ConcatProperties
  <2> HIDE DEF u
  <2> QED
    BY <1>3, <2>1
<1>6. ASSUME q # <<>>
      PROVE  /\ EventRoster(q, p, sub) # <<>> /\ Head(EventRoster(q, p, sub)) = EventEntry(Head(q), p, sub)
             /\ EventRoster(Tail(q), p, sub) = Tail(EventRoster(q, p, sub))
  <2>1. Read(m, q) # <<>> /\ Head(Read(m, q)) = m[Head(q)] /\ Read(m, Tail(q)) = Tail(Read(m, q))
    BY <1>1, <1>6, ReadTail
  <2>2. Head(q) \in S /\ Tail(q) \in Seq(S)
    BY <1>6, TailFacts
  <2> QED
    BY <1>2, <1>3, <2>1, <2>2
<1> QED
  BY <1>4, <1>5, <1>6

LEMMA StanzaRosterFacts ==
  ASSUME NEW S, NEW q \in Seq(S), NEW r \in Seq(S), NEW p, NEW sub
  PROVE  /\ StanzaRoster(q, p, sub) \in Seq(Effects) /\ DOMAIN StanzaRoster(q, p, sub) = DOMAIN q
         /\ \A i \in DOMAIN q : StanzaRoster(q, p, sub)[i] = StanzaEntry(q[i], p, sub)
         /\ StanzaRoster(q \o r, p, sub) = StanzaRoster(q, p, sub) \o StanzaRoster(r, p, sub)
         /\ q # <<>> =>
              /\ StanzaRoster(q, p, sub) # <<>> /\ Head(StanzaRoster(q, p, sub)) = StanzaEntry(Head(q), p, sub)
              /\ StanzaRoster(Tail(q), p, sub) = Tail(StanzaRoster(q, p, sub))
<1> DEFINE m == [s \in S |-> StanzaEntry(s, p, sub)]  u == q \o r
<1>1. m \in Readings(S, Effects)
  BY DEF StanzaEntry, Verdict, Effects, Readings
<1>2. \A s \in S : m[s] = StanzaEntry(s, p, sub)
  OBVIOUS
<1> HIDE DEF m
<1>3. ASSUME NEW v \in Seq(S) PROVE StanzaRoster(v, p, sub) = Read(m, v)
  <2>1. \A i \in DOMAIN v : v[i] \in S
    BY LenProperties, ElementOfSeq
  <2> QED
    BY <1>2, <2>1 DEF StanzaRoster, Read
<1>4. StanzaRoster(q, p, sub) \in Seq(Effects) /\ DOMAIN StanzaRoster(q, p, sub) = DOMAIN q
      /\ \A i \in DOMAIN q : StanzaRoster(q, p, sub)[i] = StanzaEntry(q[i], p, sub)
  <2>1. \A i \in DOMAIN q : q[i] \in S
    BY LenProperties, ElementOfSeq
  <2> QED
    BY <1>1, <1>2, <1>3, <2>1, ReadIsSeq
<1>5. StanzaRoster(u, p, sub) = StanzaRoster(q, p, sub) \o StanzaRoster(r, p, sub)
  <2>1. Read(m, u) = Read(m, q) \o Read(m, r) /\ u \in Seq(S)
    BY <1>1, ReadJoin, ConcatProperties
  <2> HIDE DEF u
  <2> QED
    BY <1>3, <2>1
<1>6. ASSUME q # <<>>
      PROVE  /\ StanzaRoster(q, p, sub) # <<>> /\ Head(StanzaRoster(q, p, sub)) = StanzaEntry(Head(q), p, sub)
             /\ StanzaRoster(Tail(q), p, sub) = Tail(StanzaRoster(q, p, sub))
  <2>1. Read(m, q) # <<>> /\ Head(Read(m, q)) = m[Head(q)] /\ Read(m, Tail(q)) = Tail(Read(m, q))
    BY <1>1, <1>6, ReadTail
  <2>2. Head(q) \in S /\ Tail(q) \in Seq(S)
    BY <1>6, TailFacts
  <2> QED
    BY <1>2, <1>3, <2>1, <2>2
<1> QED
  BY <1>4, <1>5, <1>6

LEMMA EventPresenceFacts ==
  ASSUME NEW S, NEW q \in Seq(S), NEW r \in Seq(S), NEW p, NEW w
  PROVE  /\ EventPresence(q, p, w) \in Seq(Effects) /\ DOMAIN EventPresence(q, p, w) = DOMAIN q
         /\ \A i \in DOMAIN q : EventPresence(q, p, w)[i] = EventShow(q[i], p, w)
         /\ EventPresence(q \o r, p, w) = EventPresence(q, p, w) \o EventPresence(r, p, w)
         /\ q # <<>> =>
              /\ EventPresence(q, p, w) # <<>> /\ Head(EventPresence(q, p, w)) = EventShow(Head(q), p, w)
              /\ EventPresence(Tail(q), p, w) = Tail(EventPresence(q, p, w))
<1> DEFINE m == [s \in S |-> EventShow(s, p, w)]  u == q \o r
<1>1. m \in Readings(S, Effects)
  BY DEF EventShow, Verdict, Effects, Readings
<1>2. \A s \in S : m[s] = EventShow(s, p, w)
  OBVIOUS
<1> HIDE DEF m
<1>3. ASSUME NEW v \in Seq(S) PROVE EventPresence(v, p, w) = Read(m, v)
  <2>1. \A i \in DOMAIN v : v[i] \in S
    BY LenProperties, ElementOfSeq
  <2> QED
    BY <1>2, <2>1 DEF EventPresence, Read
<1>4. EventPresence(q, p, w) \in Seq(Effects) /\ DOMAIN EventPresence(q, p, w) = DOMAIN q
      /\ \A i \in DOMAIN q : EventPresence(q, p, w)[i] = EventShow(q[i], p, w)
  <2>1. \A i \in DOMAIN q : q[i] \in S
    BY LenProperties, ElementOfSeq
  <2> QED
    BY <1>1, <1>2, <1>3, <2>1, ReadIsSeq
<1>5. EventPresence(u, p, w) = EventPresence(q, p, w) \o EventPresence(r, p, w)
  <2>1. Read(m, u) = Read(m, q) \o Read(m, r) /\ u \in Seq(S)
    BY <1>1, ReadJoin, ConcatProperties
  <2> HIDE DEF u
  <2> QED
    BY <1>3, <2>1
<1>6. ASSUME q # <<>>
      PROVE  /\ EventPresence(q, p, w) # <<>> /\ Head(EventPresence(q, p, w)) = EventShow(Head(q), p, w)
             /\ EventPresence(Tail(q), p, w) = Tail(EventPresence(q, p, w))
  <2>1. Read(m, q) # <<>> /\ Head(Read(m, q)) = m[Head(q)] /\ Read(m, Tail(q)) = Tail(Read(m, q))
    BY <1>1, <1>6, ReadTail
  <2>2. Head(q) \in S /\ Tail(q) \in Seq(S)
    BY <1>6, TailFacts
  <2> QED
    BY <1>2, <1>3, <2>1, <2>2
<1> QED
  BY <1>4, <1>5, <1>6

LEMMA StanzaPresenceFacts ==
  ASSUME NEW S, NEW q \in Seq(S), NEW r \in Seq(S), NEW p, NEW w
  PROVE  /\ StanzaPresence(q, p, w) \in Seq(Effects) /\ DOMAIN StanzaPresence(q, p, w) = DOMAIN q
         /\ \A i \in DOMAIN q : StanzaPresence(q, p, w)[i] = StanzaShow(q[i], p, w)
         /\ StanzaPresence(q \o r, p, w) = StanzaPresence(q, p, w) \o StanzaPresence(r, p, w)
         /\ q # <<>> =>
              /\ StanzaPresence(q, p, w) # <<>> /\ Head(StanzaPresence(q, p, w)) = StanzaShow(Head(q), p, w)
              /\ StanzaPresence(Tail(q), p, w) = Tail(StanzaPresence(q, p, w))
<1> DEFINE m == [s \in S |-> StanzaShow(s, p, w)]  u == q \o r
<1>1. m \in Readings(S, Effects)
  BY DEF StanzaShow, Verdict, Effects, Readings
<1>2. \A s \in S : m[s] = StanzaShow(s, p, w)
  OBVIOUS
<1> HIDE DEF m
<1>3. ASSUME NEW v \in Seq(S) PROVE StanzaPresence(v, p, w) = Read(m, v)
  <2>1. \A i \in DOMAIN v : v[i] \in S
    BY LenProperties, ElementOfSeq
  <2> QED
    BY <1>2, <2>1 DEF StanzaPresence, Read
<1>4. StanzaPresence(q, p, w) \in Seq(Effects) /\ DOMAIN StanzaPresence(q, p, w) = DOMAIN q
      /\ \A i \in DOMAIN q : StanzaPresence(q, p, w)[i] = StanzaShow(q[i], p, w)
  <2>1. \A i \in DOMAIN q : q[i] \in S
    BY LenProperties, ElementOfSeq
  <2> QED
    BY <1>1, <1>2, <1>3, <2>1, ReadIsSeq
<1>5. StanzaPresence(u, p, w) = StanzaPresence(q, p, w) \o StanzaPresence(r, p, w)
  <2>1. Read(m, u) = Read(m, q) \o Read(m, r) /\ u \in Seq(S)
    BY <1>1, ReadJoin, ConcatProperties
  <2> HIDE DEF u
  <2> QED
    BY <1>3, <2>1
<1>6. ASSUME q # <<>>
      PROVE  /\ StanzaPresence(q, p, w) # <<>> /\ Head(StanzaPresence(q, p, w)) = StanzaShow(Head(q), p, w)
             /\ StanzaPresence(Tail(q), p, w) = Tail(StanzaPresence(q, p, w))
  <2>1. Read(m, q) # <<>> /\ Head(Read(m, q)) = m[Head(q)] /\ Read(m, Tail(q)) = Tail(Read(m, q))
    BY <1>1, <1>6, ReadTail
  <2>2. Head(q) \in S /\ Tail(q) \in Seq(S)
    BY <1>6, TailFacts
  <2> QED
    BY <1>2, <1>3, <2>1, <2>2
<1> QED
  BY <1>4, <1>5, <1>6

LEMMA NothingComes ==
  Spares(<<>>) /\ ~Mends(<<>>) /\ <<>> \in Seq(Effects)
<1>1. DOMAIN <<>> = {}
  OBVIOUS
<1> QED
  BY <1>1 DEF Spares, Mends

\* What may join the two queues without changing how they end.
LEMMA EndStays ==
  ASSUME NEW f \in Seq(Effects), NEW g \in Seq(Effects), NEW x \in Seq(Effects), NEW y \in Seq(Effects),
         Spares(x), Spares(y), NEW now, NEW later, now => later, EndsWell(now, f, g)
  PROVE  EndsWell(later, f \o x, g \o y)
<1>1. /\ Spares(f) => Spares(f \o x)
      /\ Mends(f) => Mends(f \o x)
      /\ Spares(g) => Spares(g \o y)
      /\ Mends(g) => Mends(g \o y)
  BY EffectOfJoin
<1> QED
  BY <1>1 DEF EndsWell, Closes

\* A stanza that mends the value is behind all that came before.
LEMMA EndMends ==
  ASSUME NEW g \in Seq(Effects), NEW y \in Seq(Effects), Mends(y), NEW now, NEW f
  PROVE  EndsWell(now, f, g \o y)
<1>1. Mends(g \o y)
  BY EffectOfJoin
<1> QED
  BY <1>1 DEF EndsWell

LEMMA EndMoves ==
  ASSUME NEW f \in Seq(Effects), NEW g \in Seq(Effects), g # <<>>, NEW h \in Seq(Effects),
         Head(g) = "good" => Mends(h),
         Head(g) = "none" => Spares(h),
         NEW now, EndsWell(now, f, g)
  PROVE  EndsWell(now, f \o h, Tail(g))
<1>1. /\ Mends(g) => Mends(Tail(g)) \/ (Spares(Tail(g)) /\ Mends(f \o h))
      /\ Spares(g) /\ Mends(f) => Spares(Tail(g)) /\ Mends(f \o h)
      /\ Spares(g) /\ Spares(f) => Spares(Tail(g)) /\ (Mends(f \o h) \/ Spares(f \o h))
  BY EffectMoves
<1> QED
  BY <1>1 DEF EndsWell, Closes

LEMMA EndArrives ==
  ASSUME NEW f \in Seq(Effects), f # <<>>, NEW g \in Seq(Effects), NEW now, NEW later,
         Head(f) = "good" => later,
         Head(f) = "none" /\ now => later,
         EndsWell(now, f, g)
  PROVE  EndsWell(later, Tail(f), g)
<1>1. /\ Spares(f) => Spares(Tail(f)) /\ Head(f) \in {"none", "good"}
      /\ Mends(f) => Mends(Tail(f)) \/ (Spares(Tail(f)) /\ Head(f) = "good")
  BY EffectOfTail
<1> QED
  BY <1>1 DEF EndsWell, Closes

LEMMA EndIsNow ==
  ASSUME NEW now, EndsWell(now, <<>>, <<>>)
  PROVE  now
  BY NothingComes DEF EndsWell, Closes

\* One element.
LEMMA OneMends ==
  ASSUME NEW f, DOMAIN f = {1}
  PROVE  /\ f[1] = "good" => Mends(f) /\ Spares(f)
         /\ f[1] = "none" => Spares(f)
  BY DEF Mends, Spares

-----------------------------------------------------------------------------
(* What a stanza does to a value, its events do. *)

LEMMA EventsOfStanza ==
  ASSUME NEW T \in Seq(Texts), NEW G \in SUBSET (Peers \X Nat), NEW s \in Stanza(T, G)
  PROVE  LET q == EventsOf(s)
         IN  /\ s.is = "message" => \A i \in DOMAIN q : q[i].is \in {"DeliveryUpdated", "IncomingText"}
             /\ s.is = "presence" /\ s.show = "subscribe" => DOMAIN q = {}
             /\ s.is = "presence" /\ s.show # "subscribe" =>
                  /\ DOMAIN q = {1} /\ q[1].is = "ContactPresenceUpdated" /\ q[1].jid = s.from.bare
                  /\ q[1].presence = ContactPresence(s.show)
             /\ s.is \in {"roster", "push"} =>
                  /\ DOMAIN q = DOMAIN s.items
                  /\ \A k \in DOMAIN q :
                       /\ q[k].jid = s.items[k].jid
                       /\ s.items[k].item = "absent" => q[k].is = "RosterContactRemoved"
                       /\ s.items[k].item # "absent" =>
                            /\ q[k].is = "RosterContactUpsert"
                            /\ q[k].subscription = RosterSubscription(s.items[k].item)
             /\ s.is = "disco" =>
                  /\ DOMAIN q = {1} /\ q[1].is = "CapabilitiesDiscovered"
                  /\ q[1].capabilities = streamCaps \cup CapabilitiesFromDisco(s.features)
<1> DEFINE q == EventsOf(s)  S == Event(T, G)
<1>0. /\ s.is \in {"message", "presence", "roster", "push", "disco"}
      /\ s.is = "presence" => s.from.bare \in Peers /\ s.show \in Shows
      /\ s.is \in {"roster", "push"} => s.items \in Seq(RosterItem)
  BY StanzaCases
<1>1. CASE s.is = "message"
  <2> DEFINE r == TranslateIncomingReceipts(s)  t == TranslateIncomingMessage(s)
  <2>1. r \in Seq(S) /\ t \in Seq(S) /\ \A k \in DOMAIN r : r[k].is = "DeliveryUpdated"
    BY <1>1, ReceiptsTyped, TextTyped
  <2>2. q = r \o t
    BY <1>1 DEF EventsOf
  <2>3. t = <<>> \/ t = <<TextEvent(T, s.stamp)>>
    BY <1>1, TextTyped
  <2>4. \A j \in DOMAIN t : t[j].is = "IncomingText"
    <3> HIDE DEF t
    <3>1. DOMAIN t = {} \/ (DOMAIN t = {1} /\ t[1] = TextEvent(T, s.stamp))
      BY <2>3
    <3> QED
      BY <3>1, TextEventFields
  <2> HIDE DEF r, t, q, S
  <2>5. /\ \A i \in DOMAIN r : i \in DOMAIN q /\ q[i] = r[i]
        /\ \A j \in DOMAIN t : Len(r) + j \in DOMAIN q /\ q[Len(r) + j] = t[j]
        /\ \A i \in DOMAIN q : i \in DOMAIN r \/ \E j \in DOMAIN t : i = Len(r) + j
    BY <2>1, <2>2, JoinFacts
  <2>6. \A i \in DOMAIN q : q[i].is \in {"DeliveryUpdated", "IncomingText"}
    BY ONLY <2>1, <2>4, <2>5
  <2> QED
    BY <1>1, <2>6 DEF q
<1>2. CASE s.is = "presence"
  <2>1. /\ s.show = "subscribe" => q = <<>>
        /\ s.show # "subscribe" =>
             q = <<[is |-> "ContactPresenceUpdated", jid |-> s.from.bare, presence |-> ContactPresence(s.show)]>>
    BY <1>0, <1>2, PresenceTyped DEF EventsOf
  <2> QED
    BY <1>2, <2>1
<1>3. CASE s.is \in {"roster", "push"}
  <2>1. q = EmitRoster(s.items)
    BY <1>3 DEF EventsOf
  <2> DEFINE items == s.items
  <2>2. items \in Seq(RosterItem)
    BY <1>0, <1>3
  <2> HIDE DEF items
  <2>3. /\ DOMAIN EmitRoster(items) = DOMAIN items
        /\ \A k \in DOMAIN items :
             /\ EmitRoster(items)[k].jid = items[k].jid
             /\ items[k].item = "absent" => EmitRoster(items)[k].is = "RosterContactRemoved"
             /\ items[k].item # "absent" =>
                  /\ EmitRoster(items)[k].is = "RosterContactUpsert"
                  /\ EmitRoster(items)[k].subscription = RosterSubscription(items[k].item)
    BY <2>2, RosterTyped
  <2> QED
    BY <1>3, <2>1, <2>3 DEF items
<1>4. CASE s.is = "disco"
  BY <1>4 DEF EventsOf
<1> QED
  BY <1>0, <1>1, <1>2, <1>3, <1>4

LEMMA CapsOfStanza ==
  ASSUME NEW T \in Seq(Texts), NEW G \in SUBSET (Peers \X Nat), NEW s \in Stanza(T, G),
         streamCaps \subseteq {"StreamManagement"}, NEW fit
  PROVE  /\ EventCaps(EventsOf(s), fit) \in Seq(Effects)
         /\ StanzaCap(s, streamCaps, fit) = "good" => Mends(EventCaps(EventsOf(s), fit))
         /\ StanzaCap(s, streamCaps, fit) = "none" => Spares(EventCaps(EventsOf(s), fit))
<1> DEFINE q == EventsOf(s)  h == EventCaps(q, fit)
<1>1. q \in Seq(Event(T, G))
  BY EventsTyped
<1>2. h \in Seq(Effects) /\ DOMAIN h = DOMAIN q /\ \A i \in DOMAIN q : h[i] = EventCap(q[i], fit)
  <2> HIDE DEF q
  <2> QED
    BY <1>1, EventCapsFacts
<1>3. s.is \in {"message", "presence", "roster", "push", "disco"}
  BY StanzaCases
<1>4. CASE s.is = "disco"
  <2>1. DOMAIN q = {1} /\ q[1].is = "CapabilitiesDiscovered"
        /\ q[1].capabilities = streamCaps \cup CapabilitiesFromDisco(s.features)
    BY <1>4, EventsOfStanza
  <2> HIDE DEF q
  <2>2. DOMAIN h = {1} /\ h[1] = StanzaCap(s, streamCaps, fit)
    BY <1>2, <1>4, <2>1 DEF EventCap, StanzaCap
  <2> HIDE DEF h
  <2> QED
    BY <1>2, <2>2, OneMends DEF h, q
<1>5. CASE s.is # "disco"
  <2>1. \A i \in DOMAIN q : q[i].is \notin {"Connected", "CapabilitiesDiscovered"}
    <3>1. CASE s.is = "message"
      <4>1. \A i \in DOMAIN q : q[i].is \in {"DeliveryUpdated", "IncomingText"}
        BY <3>1, EventsOfStanza
      <4> HIDE DEF q
      <4> QED
        BY <4>1
    <3>2. CASE s.is = "presence"
      <4>1. DOMAIN q = {} \/ (DOMAIN q = {1} /\ q[1].is = "ContactPresenceUpdated")
        BY <3>2, EventsOfStanza
      <4> HIDE DEF q
      <4> QED
        BY <4>1
    <3>3. CASE s.is \in {"roster", "push"}
      <4>1. \A k \in DOMAIN q : q[k].is = "RosterContactRemoved" \/ q[k].is = "RosterContactUpsert"
        BY <3>3, EventsOfStanza
      <4> HIDE DEF q
      <4> QED
        BY <4>1
    <3> QED
      BY <1>3, <1>5, <3>1, <3>2, <3>3
  <2> HIDE DEF q
  <2>2. Spares(h) /\ StanzaCap(s, streamCaps, fit) = "none"
    BY <1>2, <1>5, <2>1 DEF Spares, EventCap, StanzaCap
  <2> QED
    BY <1>2, <2>2 DEF q
<1> QED
  BY <1>4, <1>5

LEMMA EntryOfStanza ==
  ASSUME NEW T \in Seq(Texts), NEW G \in SUBSET (Peers \X Nat), NEW s \in Stanza(T, G),
         streamCaps \subseteq {"StreamManagement"}, NEW p, NEW sub
  PROVE  /\ EventRoster(EventsOf(s), p, sub) \in Seq(Effects)
         /\ StanzaEntry(s, p, sub) = "good" => Mends(EventRoster(EventsOf(s), p, sub))
         /\ StanzaEntry(s, p, sub) = "none" => Spares(EventRoster(EventsOf(s), p, sub))
<1> DEFINE q == EventsOf(s)  h == EventRoster(q, p, sub)
<1>1. q \in Seq(Event(T, G))
  BY EventsTyped
<1>2. h \in Seq(Effects) /\ DOMAIN h = DOMAIN q /\ \A i \in DOMAIN q : h[i] = EventEntry(q[i], p, sub)
  <2> HIDE DEF q
  <2>1. h = [i \in DOMAIN q |-> EventEntry(q[i], p, sub)]
    BY DEF EventRoster
  <2>2. \A i \in DOMAIN q : EventEntry(q[i], p, sub) \in Effects
    BY DEF EventEntry, Verdict, Effects
  <2>3. h \in [DOMAIN q -> Effects]
    BY <2>1, <2>2
  <2> HIDE DEF h
  <2>4. h \in Seq(Effects)
    BY <1>1, <2>3, MapIsSeq
  <2> QED
    BY <2>1, <2>4
<1>3. s.is \in {"message", "presence", "roster", "push", "disco"}
  BY StanzaCases
<1>4. CASE s.is \in {"roster", "push"}
  <2> DEFINE items == s.items
  <2>1. /\ DOMAIN q = DOMAIN items
        /\ \A k \in DOMAIN q :
             /\ q[k].jid = items[k].jid
             /\ items[k].item = "absent" => q[k].is = "RosterContactRemoved"
             /\ items[k].item # "absent" =>
                  q[k].is = "RosterContactUpsert" /\ q[k].subscription = RosterSubscription(items[k].item)
    BY <1>4, EventsOfStanza
  <2> HIDE DEF q
  <2>2. \A k \in DOMAIN q :
          /\ items[k].jid # p => h[k] = "none"
          /\ items[k].jid = p /\ items[k].item # "absent" /\ RosterSubscription(items[k].item) = sub =>
               h[k] = "good"
    BY <1>2, <2>1 DEF EventEntry, Verdict
  <2>3. \A k \in DOMAIN items : items[k].jid = p => items[k].item \in Entries(s, p)
    BY DEF Entries
  <2>4. ASSUME StanzaEntry(s, p, sub) = "good" PROVE Mends(h)
    <3>1. Entries(s, p) # {} /\ \A x \in Entries(s, p) : x # "absent" /\ RosterSubscription(x) = sub
      BY <1>4, <2>4 DEF StanzaEntry, Verdict
    <3>2. PICK k \in DOMAIN items : items[k].jid = p
      BY <3>1 DEF Entries
    <3>3. \A i \in DOMAIN q : h[i] \in {"none", "good"}
      BY <2>1, <2>2, <2>3, <3>1
    <3>4. h[k] = "good" /\ k \in DOMAIN h
      BY <1>2, <2>1, <2>2, <2>3, <3>1, <3>2
    <3> QED
      BY <1>2, <3>3, <3>4 DEF Mends
  <2>5. ASSUME StanzaEntry(s, p, sub) = "none" PROVE Spares(h)
    <3>1. Entries(s, p) = {}
      BY <1>4, <2>5 DEF StanzaEntry, Verdict
    <3> QED
      BY <1>2, <2>1, <2>2, <2>3, <3>1 DEF Spares
  <2> QED
    BY <1>2, <2>4, <2>5 DEF q
<1>5. CASE s.is \notin {"roster", "push"}
  <2>1. \A i \in DOMAIN q : q[i].is \notin {"RosterContactUpsert", "RosterContactRemoved"}
    <3>1. CASE s.is = "message"
      <4>1. \A i \in DOMAIN q : q[i].is \in {"DeliveryUpdated", "IncomingText"}
        BY <3>1, EventsOfStanza
      <4> HIDE DEF q
      <4> QED
        BY <4>1
    <3>2. CASE s.is = "presence"
      <4>1. DOMAIN q = {} \/ (DOMAIN q = {1} /\ q[1].is = "ContactPresenceUpdated")
        BY <3>2, EventsOfStanza
      <4> HIDE DEF q
      <4> QED
        BY <4>1
    <3>3. CASE s.is = "disco"
      <4>1. DOMAIN q = {1} /\ q[1].is = "CapabilitiesDiscovered"
        BY <3>3, EventsOfStanza
      <4> HIDE DEF q
      <4> QED
        BY <4>1
    <3> QED
      BY <1>3, <1>5, <3>1, <3>2, <3>3
  <2> HIDE DEF q
  <2>2. Spares(h) /\ StanzaEntry(s, p, sub) = "none"
    BY <1>2, <1>5, <2>1 DEF Spares, EventEntry, StanzaEntry
  <2> QED
    BY <1>2, <2>2 DEF q
<1> QED
  BY <1>4, <1>5

LEMMA ShowOfStanza ==
  ASSUME NEW T \in Seq(Texts), NEW G \in SUBSET (Peers \X Nat), NEW s \in Stanza(T, G),
         streamCaps \subseteq {"StreamManagement"}, NEW p, NEW w
  PROVE  /\ EventPresence(EventsOf(s), p, w) \in Seq(Effects)
         /\ StanzaShow(s, p, w) = "good" => Mends(EventPresence(EventsOf(s), p, w))
         /\ StanzaShow(s, p, w) = "none" => Spares(EventPresence(EventsOf(s), p, w))
<1> DEFINE q == EventsOf(s)  h == EventPresence(q, p, w)
<1>1. q \in Seq(Event(T, G))
  BY EventsTyped
<1>2. h \in Seq(Effects) /\ DOMAIN h = DOMAIN q /\ \A i \in DOMAIN q : h[i] = EventShow(q[i], p, w)
  <2> HIDE DEF q
  <2>1. h = [i \in DOMAIN q |-> EventShow(q[i], p, w)]
    BY DEF EventPresence
  <2>2. \A i \in DOMAIN q : EventShow(q[i], p, w) \in Effects
    BY DEF EventShow, Verdict, Effects
  <2>3. h \in [DOMAIN q -> Effects]
    BY <2>1, <2>2
  <2> HIDE DEF h
  <2>4. h \in Seq(Effects)
    BY <1>1, <2>3, MapIsSeq
  <2> QED
    BY <2>1, <2>4
<1>3. s.is \in {"message", "presence", "roster", "push", "disco"}
  BY StanzaCases
<1>4. CASE s.is = "presence" /\ s.show # "subscribe"
  <2>1. /\ DOMAIN q = {1} /\ q[1].is = "ContactPresenceUpdated" /\ q[1].jid = s.from.bare
        /\ q[1].presence = ContactPresence(s.show)
    BY <1>4, EventsOfStanza
  <2> HIDE DEF q
  <2>2. DOMAIN h = {1} /\ h[1] = StanzaShow(s, p, w)
    BY <1>2, <1>4, <2>1 DEF EventShow, StanzaShow, Tells
  <2> HIDE DEF h
  <2> QED
    BY <1>2, <2>2, OneMends DEF h, q
<1>5. CASE s.is \in {"roster", "push"}
  <2> DEFINE items == s.items
  <2>1. /\ DOMAIN q = DOMAIN items
        /\ \A k \in DOMAIN q :
             /\ q[k].jid = items[k].jid
             /\ items[k].item = "absent" => q[k].is = "RosterContactRemoved"
             /\ items[k].item # "absent" => q[k].is = "RosterContactUpsert"
    BY <1>5, EventsOfStanza
  <2> HIDE DEF q
  <2>2. \A k \in DOMAIN q : items[k].jid # p \/ items[k].item # "absent" => h[k] = "none"
    BY <1>2, <2>1 DEF EventShow
  <2>3. \A k \in DOMAIN items : items[k].jid = p => items[k].item \in Entries(s, p)
    BY DEF Entries
  <2>4. StanzaShow(s, p, w) = IF "absent" \in Entries(s, p) THEN "bad" ELSE "none"
    BY <1>5 DEF StanzaShow, Tells
  <2>5. ASSUME "absent" \notin Entries(s, p) PROVE Spares(h)
    BY <1>2, <2>1, <2>2, <2>3, <2>5 DEF Spares
  <2> QED
    BY <1>2, <2>4, <2>5 DEF q
<1>6. CASE s.is \in {"message", "disco"} \/ (s.is = "presence" /\ s.show = "subscribe")
  <2>1. \A i \in DOMAIN q : q[i].is \notin {"ContactPresenceUpdated", "RosterContactRemoved"}
    <3>1. CASE s.is = "message"
      <4>1. \A i \in DOMAIN q : q[i].is \in {"DeliveryUpdated", "IncomingText"}
        BY <3>1, EventsOfStanza
      <4> HIDE DEF q
      <4> QED
        BY <4>1
    <3>2. CASE s.is = "presence" /\ s.show = "subscribe"
      <4>1. DOMAIN q = {}
        BY <3>2, EventsOfStanza
      <4> HIDE DEF q
      <4> QED
        BY <4>1
    <3>3. CASE s.is = "disco"
      <4>1. DOMAIN q = {1} /\ q[1].is = "CapabilitiesDiscovered"
        BY <3>3, EventsOfStanza
      <4> HIDE DEF q
      <4> QED
        BY <4>1
    <3> QED
      BY <1>6, <3>1, <3>2, <3>3
  <2> HIDE DEF q
  <2>2. Spares(h) /\ StanzaShow(s, p, w) = "none"
    BY <1>2, <1>6, <2>1 DEF Spares, EventShow, StanzaShow, Tells
  <2> QED
    BY <1>2, <2>2 DEF q
<1> QED
  BY <1>3, <1>4, <1>5, <1>6

-----------------------------------------------------------------------------
(* How the queues end when more joins them. *)

LEMMA CapsStays ==
  ASSUME NEW E, NEW S, NEW q \in Seq(E), NEW x \in Seq(E), NEW d \in Seq(S), NEW y \in Seq(S),
         NEW stream, NEW fit, NEW now,
         Spares(EventCaps(x, fit)), Spares(StanzaCaps(y, stream, fit)),
         EndsWell(now, EventCaps(q, fit), StanzaCaps(d, stream, fit))
  PROVE  EndsWell(now, EventCaps(q \o x, fit), StanzaCaps(d \o y, stream, fit))
<1>1. /\ EventCaps(q, fit) \in Seq(Effects) /\ EventCaps(x, fit) \in Seq(Effects)
      /\ EventCaps(q \o x, fit) = EventCaps(q, fit) \o EventCaps(x, fit)
  BY EventCapsFacts
<1>2. /\ StanzaCaps(d, stream, fit) \in Seq(Effects) /\ StanzaCaps(y, stream, fit) \in Seq(Effects)
      /\ StanzaCaps(d \o y, stream, fit) = StanzaCaps(d, stream, fit) \o StanzaCaps(y, stream, fit)
  BY StanzaCapsFacts
<1> QED
  BY <1>1, <1>2, EndStays

LEMMA CapsMends ==
  ASSUME NEW S, NEW d \in Seq(S), NEW y \in Seq(S), NEW stream, NEW fit, NEW now, NEW f,
         Mends(StanzaCaps(y, stream, fit))
  PROVE  EndsWell(now, f, StanzaCaps(d \o y, stream, fit))
<1>1. /\ StanzaCaps(d, stream, fit) \in Seq(Effects) /\ StanzaCaps(y, stream, fit) \in Seq(Effects)
      /\ StanzaCaps(d \o y, stream, fit) = StanzaCaps(d, stream, fit) \o StanzaCaps(y, stream, fit)
  BY StanzaCapsFacts
<1> QED
  BY <1>1, EndMends

LEMMA EntryStays ==
  ASSUME NEW E, NEW S, NEW q \in Seq(E), NEW x \in Seq(E), NEW d \in Seq(S), NEW y \in Seq(S),
         NEW p, NEW sub, NEW now,
         Spares(EventRoster(x, p, sub)), Spares(StanzaRoster(y, p, sub)),
         EndsWell(now, EventRoster(q, p, sub), StanzaRoster(d, p, sub))
  PROVE  EndsWell(now, EventRoster(q \o x, p, sub), StanzaRoster(d \o y, p, sub))
<1>1. /\ EventRoster(q, p, sub) \in Seq(Effects) /\ EventRoster(x, p, sub) \in Seq(Effects)
      /\ EventRoster(q \o x, p, sub) = EventRoster(q, p, sub) \o EventRoster(x, p, sub)
  BY EventRosterFacts
<1>2. /\ StanzaRoster(d, p, sub) \in Seq(Effects) /\ StanzaRoster(y, p, sub) \in Seq(Effects)
      /\ StanzaRoster(d \o y, p, sub) = StanzaRoster(d, p, sub) \o StanzaRoster(y, p, sub)
  BY StanzaRosterFacts
<1> QED
  BY <1>1, <1>2, EndStays

LEMMA EntryMends ==
  ASSUME NEW S, NEW d \in Seq(S), NEW y \in Seq(S), NEW p, NEW sub, NEW now, NEW f,
         Mends(StanzaRoster(y, p, sub))
  PROVE  EndsWell(now, f, StanzaRoster(d \o y, p, sub))
<1>1. /\ StanzaRoster(d, p, sub) \in Seq(Effects) /\ StanzaRoster(y, p, sub) \in Seq(Effects)
      /\ StanzaRoster(d \o y, p, sub) = StanzaRoster(d, p, sub) \o StanzaRoster(y, p, sub)
  BY StanzaRosterFacts
<1> QED
  BY <1>1, EndMends

LEMMA ShowStays ==
  ASSUME NEW E, NEW S, NEW q \in Seq(E), NEW x \in Seq(E), NEW d \in Seq(S), NEW y \in Seq(S),
         NEW p, NEW w, NEW now,
         Spares(EventPresence(x, p, w)), Spares(StanzaPresence(y, p, w)),
         EndsWell(now, EventPresence(q, p, w), StanzaPresence(d, p, w))
  PROVE  EndsWell(now, EventPresence(q \o x, p, w), StanzaPresence(d \o y, p, w))
<1>1. /\ EventPresence(q, p, w) \in Seq(Effects) /\ EventPresence(x, p, w) \in Seq(Effects)
      /\ EventPresence(q \o x, p, w) = EventPresence(q, p, w) \o EventPresence(x, p, w)
  BY EventPresenceFacts
<1>2. /\ StanzaPresence(d, p, w) \in Seq(Effects) /\ StanzaPresence(y, p, w) \in Seq(Effects)
      /\ StanzaPresence(d \o y, p, w) = StanzaPresence(d, p, w) \o StanzaPresence(y, p, w)
  BY StanzaPresenceFacts
<1> QED
  BY <1>1, <1>2, EndStays

LEMMA ShowMends ==
  ASSUME NEW S, NEW d \in Seq(S), NEW y \in Seq(S), NEW p, NEW w, NEW now, NEW f,
         Mends(StanzaPresence(y, p, w))
  PROVE  EndsWell(now, f, StanzaPresence(d \o y, p, w))
<1>1. /\ StanzaPresence(d, p, w) \in Seq(Effects) /\ StanzaPresence(y, p, w) \in Seq(Effects)
      /\ StanzaPresence(d \o y, p, w) = StanzaPresence(d, p, w) \o StanzaPresence(y, p, w)
  BY StanzaPresenceFacts
<1> QED
  BY <1>1, EndMends

LEMMA CapsMoves ==
  ASSUME NEW E, NEW S, NEW q \in Seq(E), NEW x \in Seq(E), NEW d \in Seq(S), d # <<>>, NEW stream, NEW fit, NEW now,
         StanzaCap(Head(d), stream, fit) = "good" => Mends(EventCaps(x, fit)),
         StanzaCap(Head(d), stream, fit) = "none" => Spares(EventCaps(x, fit)),
         EndsWell(now, EventCaps(q, fit), StanzaCaps(d, stream, fit))
  PROVE  EndsWell(now, EventCaps(q \o x, fit), StanzaCaps(Tail(d), stream, fit))
<1> DEFINE f == EventCaps(q, fit)  g == StanzaCaps(d, stream, fit)  h == EventCaps(x, fit)
<1>1. f \in Seq(Effects) /\ h \in Seq(Effects) /\ EventCaps(q \o x, fit) = f \o h
  BY EventCapsFacts
<1>2. g \in Seq(Effects) /\ g # <<>> /\ Head(g) = StanzaCap(Head(d), stream, fit)
      /\ StanzaCaps(Tail(d), stream, fit) = Tail(g)
  BY StanzaCapsFacts
<1>3. /\ Head(g) = "good" => Mends(h)
      /\ Head(g) = "none" => Spares(h)
      /\ EndsWell(now, f, g)
  BY <1>2
<1> HIDE DEF f, g, h
<1>4. EndsWell(now, f \o h, Tail(g))
  BY <1>1, <1>2, <1>3, EndMoves
<1> QED
  BY <1>1, <1>2, <1>4

LEMMA CapsArrives ==
  ASSUME NEW E, NEW S, NEW q \in Seq(E), q # <<>>, NEW d \in Seq(S), NEW stream, NEW fit, NEW now, NEW later,
         EventCap(Head(q), fit) = "good" => later,
         EventCap(Head(q), fit) = "none" /\ now => later,
         EndsWell(now, EventCaps(q, fit), StanzaCaps(d, stream, fit))
  PROVE  EndsWell(later, EventCaps(Tail(q), fit), StanzaCaps(d, stream, fit))
<1> DEFINE f == EventCaps(q, fit)  g == StanzaCaps(d, stream, fit)
<1>1. f \in Seq(Effects) /\ f # <<>> /\ Head(f) = EventCap(Head(q), fit)
      /\ EventCaps(Tail(q), fit) = Tail(f)
  BY EventCapsFacts
<1>2. g \in Seq(Effects)
  BY StanzaCapsFacts
<1>3. /\ Head(f) = "good" => later
      /\ Head(f) = "none" /\ now => later
      /\ EndsWell(now, f, g)
  BY <1>1
<1> HIDE DEF f, g
<1>4. EndsWell(later, Tail(f), g)
  BY <1>1, <1>2, <1>3, EndArrives
<1> QED
  BY <1>1, <1>4 DEF g

LEMMA EntryMoves ==
  ASSUME NEW E, NEW S, NEW q \in Seq(E), NEW x \in Seq(E), NEW d \in Seq(S), d # <<>>, NEW p, NEW sub, NEW now,
         StanzaEntry(Head(d), p, sub) = "good" => Mends(EventRoster(x, p, sub)),
         StanzaEntry(Head(d), p, sub) = "none" => Spares(EventRoster(x, p, sub)),
         EndsWell(now, EventRoster(q, p, sub), StanzaRoster(d, p, sub))
  PROVE  EndsWell(now, EventRoster(q \o x, p, sub), StanzaRoster(Tail(d), p, sub))
<1> DEFINE f == EventRoster(q, p, sub)  g == StanzaRoster(d, p, sub)  h == EventRoster(x, p, sub)
<1>1. f \in Seq(Effects) /\ h \in Seq(Effects) /\ EventRoster(q \o x, p, sub) = f \o h
  BY EventRosterFacts
<1>2. g \in Seq(Effects) /\ g # <<>> /\ Head(g) = StanzaEntry(Head(d), p, sub)
      /\ StanzaRoster(Tail(d), p, sub) = Tail(g)
  BY StanzaRosterFacts
<1>3. /\ Head(g) = "good" => Mends(h)
      /\ Head(g) = "none" => Spares(h)
      /\ EndsWell(now, f, g)
  BY <1>2
<1> HIDE DEF f, g, h
<1>4. EndsWell(now, f \o h, Tail(g))
  BY <1>1, <1>2, <1>3, EndMoves
<1> QED
  BY <1>1, <1>2, <1>4

LEMMA EntryArrives ==
  ASSUME NEW E, NEW S, NEW q \in Seq(E), q # <<>>, NEW d \in Seq(S), NEW p, NEW sub, NEW now, NEW later,
         EventEntry(Head(q), p, sub) = "good" => later,
         EventEntry(Head(q), p, sub) = "none" /\ now => later,
         EndsWell(now, EventRoster(q, p, sub), StanzaRoster(d, p, sub))
  PROVE  EndsWell(later, EventRoster(Tail(q), p, sub), StanzaRoster(d, p, sub))
<1> DEFINE f == EventRoster(q, p, sub)  g == StanzaRoster(d, p, sub)
<1>1. f \in Seq(Effects) /\ f # <<>> /\ Head(f) = EventEntry(Head(q), p, sub)
      /\ EventRoster(Tail(q), p, sub) = Tail(f)
  BY EventRosterFacts
<1>2. g \in Seq(Effects)
  BY StanzaRosterFacts
<1>3. /\ Head(f) = "good" => later
      /\ Head(f) = "none" /\ now => later
      /\ EndsWell(now, f, g)
  BY <1>1
<1> HIDE DEF f, g
<1>4. EndsWell(later, Tail(f), g)
  BY <1>1, <1>2, <1>3, EndArrives
<1> QED
  BY <1>1, <1>4 DEF g

LEMMA ShowMoves ==
  ASSUME NEW E, NEW S, NEW q \in Seq(E), NEW x \in Seq(E), NEW d \in Seq(S), d # <<>>, NEW p, NEW w, NEW now,
         StanzaShow(Head(d), p, w) = "good" => Mends(EventPresence(x, p, w)),
         StanzaShow(Head(d), p, w) = "none" => Spares(EventPresence(x, p, w)),
         EndsWell(now, EventPresence(q, p, w), StanzaPresence(d, p, w))
  PROVE  EndsWell(now, EventPresence(q \o x, p, w), StanzaPresence(Tail(d), p, w))
<1> DEFINE f == EventPresence(q, p, w)  g == StanzaPresence(d, p, w)  h == EventPresence(x, p, w)
<1>1. f \in Seq(Effects) /\ h \in Seq(Effects) /\ EventPresence(q \o x, p, w) = f \o h
  BY EventPresenceFacts
<1>2. g \in Seq(Effects) /\ g # <<>> /\ Head(g) = StanzaShow(Head(d), p, w)
      /\ StanzaPresence(Tail(d), p, w) = Tail(g)
  BY StanzaPresenceFacts
<1>3. /\ Head(g) = "good" => Mends(h)
      /\ Head(g) = "none" => Spares(h)
      /\ EndsWell(now, f, g)
  BY <1>2
<1> HIDE DEF f, g, h
<1>4. EndsWell(now, f \o h, Tail(g))
  BY <1>1, <1>2, <1>3, EndMoves
<1> QED
  BY <1>1, <1>2, <1>4

LEMMA ShowArrives ==
  ASSUME NEW E, NEW S, NEW q \in Seq(E), q # <<>>, NEW d \in Seq(S), NEW p, NEW w, NEW now, NEW later,
         EventShow(Head(q), p, w) = "good" => later,
         EventShow(Head(q), p, w) = "none" /\ now => later,
         EndsWell(now, EventPresence(q, p, w), StanzaPresence(d, p, w))
  PROVE  EndsWell(later, EventPresence(Tail(q), p, w), StanzaPresence(d, p, w))
<1> DEFINE f == EventPresence(q, p, w)  g == StanzaPresence(d, p, w)
<1>1. f \in Seq(Effects) /\ f # <<>> /\ Head(f) = EventShow(Head(q), p, w)
      /\ EventPresence(Tail(q), p, w) = Tail(f)
  BY EventPresenceFacts
<1>2. g \in Seq(Effects)
  BY StanzaPresenceFacts
<1>3. /\ Head(f) = "good" => later
      /\ Head(f) = "none" /\ now => later
      /\ EndsWell(now, f, g)
  BY <1>1
<1> HIDE DEF f, g
<1>4. EndsWell(later, Tail(f), g)
  BY <1>1, <1>2, <1>3, EndArrives
<1> QED
  BY <1>1, <1>4 DEF g

-----------------------------------------------------------------------------
(* Requests on their way, and what a session holds between them. *)

LEMMA AwaitsJoin ==
  ASSUME NEW S, NEW q \in Seq(S), NEW r \in Seq(S), NEW what, Awaits(q, what) \/ Awaits(r, what)
  PROVE  Awaits(q \o r, what)
<1> DEFINE u == q \o r
<1>1. /\ \A i \in DOMAIN q : i \in DOMAIN u /\ u[i] = q[i]
      /\ \A j \in DOMAIN r : Len(q) + j \in DOMAIN u /\ u[Len(q) + j] = r[j]
  BY JoinFacts
<1> HIDE DEF u
<1>2. Awaits(u, what)
  BY <1>1 DEF Awaits
<1> QED
  BY <1>2 DEF u

LEMMA AwaitsTail ==
  ASSUME NEW S, NEW q \in Seq(S), q # <<>>, NEW what, Awaits(q, what)
  PROVE  Head(q).is = what \/ Awaits(Tail(q), what)
<1>1. /\ Head(q) = q[1]
      /\ \A i \in DOMAIN Tail(q) : Tail(q)[i] = q[i + 1]
      /\ \A j \in DOMAIN q : j = 1 \/ \E i \in DOMAIN Tail(q) : j = i + 1
  BY TailFacts
<1> QED
  BY <1>1 DEF Awaits

LEMMA AnnouncesJoin ==
  ASSUME NEW S, NEW q \in Seq(S), NEW r \in Seq(S), NEW f, Announcing(q, f), Announcing(r, f)
  PROVE  Announcing(q \o r, f)
<1> DEFINE u == q \o r
<1>1. /\ \A i \in DOMAIN q : i \in DOMAIN u /\ u[i] = q[i]
      /\ \A j \in DOMAIN r : Len(q) + j \in DOMAIN u /\ u[Len(q) + j] = r[j]
      /\ \A i \in DOMAIN u : i \in DOMAIN q \/ \E j \in DOMAIN r : i = Len(q) + j
  BY JoinFacts
<1> HIDE DEF u
<1>2. Announcing(u, f)
  BY <1>1 DEF Announcing
<1> QED
  BY <1>2 DEF u

LEMMA AnnouncesTail ==
  ASSUME NEW S, NEW q \in Seq(S), q # <<>>, NEW f, Announcing(q, f)
  PROVE  /\ Announcing(Tail(q), f)
         /\ Head(q).is = "disco" => Head(q).features = f
<1>1. /\ 1 \in DOMAIN q /\ Head(q) = q[1]
      /\ \A i \in DOMAIN Tail(q) : i + 1 \in DOMAIN q /\ Tail(q)[i] = q[i + 1]
  BY TailFacts
<1> QED
  BY <1>1 DEF Announcing

LEMMA QueuesTyped ==
  ASSUME Sound
  PROVE  /\ ghost.texts \in Seq(Texts) /\ ghost.got \in SUBSET (Peers \X Nat) /\ ghost.sessions \in Nat
         /\ down \in Seq(Stanza(ghost.texts, ghost.got)) /\ up \in Seq(Request(ghost.texts))
         /\ events \in Seq(Event(ghost.texts, ghost.got))
         /\ streamCaps \subseteq {"StreamManagement"}
  BY TypedFields DEF Sound, Typed

\* What a request adds to the stream for each of the values.
LEMMA AnswerAnnounces ==
  ASSUME NEW r, NEW h, Answer(r, h)
  PROVE  Announcing(h, features) /\ (r.is = "getDisco" => DOMAIN h = {1} /\ h[1].is = "disco")
<1>1. CASE h = <<>> /\ r.is \in {"message", "ack", "result"}
  <2>1. DOMAIN h = {}
    BY <1>1
  <2> QED
    BY <1>1, <2>1 DEF Announcing
<1>2. CASE r.is = "available" /\ h \in Seq(PresenceStanza(Peers))
  BY <1>2, PresencesOnly DEF Announcing
<1>3. CASE r.is = "getRoster" /\ h = <<[is |-> "roster", items |-> RosterResult]>>
  BY <1>3 DEF Announcing
<1>4. CASE r.is = "getDisco" /\ h = <<[is |-> "disco", features |-> features]>>
  BY <1>4 DEF Announcing
<1>5. CASE r.is = "message" /\ r.to \in Peers /\ r.id \in Nat /\ h = <<Receipt(r.to, r.id)>>
  <2> DEFINE x == Receipt(r.to, r.id)
  <2>1. x.is = "message" /\ h = <<x>>
    BY <1>5 DEF Receipt
  <2> HIDE DEF x
  <2> QED
    BY <1>5, <2>1 DEF Announcing
<1> QED
  BY <1>1, <1>2, <1>3, <1>4, <1>5 DEF Answer

LEMMA ServerKeepsSession ==
  ASSUME Sound, SessionSound, ServerAnswers
  PROVE  SessionSound' /\ Open
<1> DEFINE T == ghost.texts  S == Stanza(T, ghost'.got)
<1>1. PICK h \in Seq(S) : Answer(Head(up), h) /\ down' = down \o h
  BY ServerAdds
<1>2. /\ ghost'.sessions = ghost.sessions /\ up # <<>> /\ up' = Tail(up) /\ live' = live
      /\ streamCaps' = streamCaps /\ features' = features /\ announced' = (announced \/ Head(up).is = "available")
  BY ServerAdds DEF ServerAnswers
<1>3. down \in Seq(S) /\ up \in Seq(Request(T))
  <2>1. ghost.got \subseteq ghost'.got
    BY ServerAdds
  <2> QED
    BY <2>1, QueuesTyped, QueuesGrow
<1>4. Open /\ Open'
  BY <1>2 DEF SessionSound, Open
<1>5. Announcing(down', features')
  <2>1. Announcing(h, features) /\ Announcing(down, features)
    BY <1>1, AnswerAnnounces DEF SessionSound
  <2> HIDE DEF S
  <2> QED
    BY <1>1, <1>2, <1>3, <2>1, AnnouncesJoin
<1>6. announced' \/ Asks("available")'
  <2>1. announced \/ Awaits(up, "available")
    BY <1>4 DEF SessionSound, Asks
  <2>2. Awaits(up, "available") => Head(up).is = "available" \/ Awaits(Tail(up), "available")
    BY <1>2, <1>3, AwaitsTail
  <2> QED
    BY <1>2, <2>1, <2>2 DEF Asks
<1> QED
  BY <1>2, <1>4, <1>5, <1>6 DEF SessionSound, StreamCapabilities

\* Stanzas that announce nothing.
LEMMA OneStanza ==
  ASSUME NEW x, x.is # "disco", NEW f
  PROVE  Announcing(<<x>>, f)
  BY DEF Announcing

LEMMA RosterKeepsSession ==
  ASSUME Sound, SessionSound, NEW p \in Peers, RosterChanges(p)
  PROVE  SessionSound'
<1> DEFINE S == Stanza(ghost.texts, ghost.got)
<1>1. ghost'.sessions = ghost.sessions
  BY RosterAdds
<1>2. PICK item \in Items \ {roster[p]}, y \in Seq(S) : down' = down \o y /\ Pushes(p, item, y)
  BY RosterJoins
<1>3. Announcing(y, features)
  <2>1. \A i \in DOMAIN y : y[i] = Push(p, item) \/ y[i].is = "presence"
    BY <1>2 DEF Pushes
  <2>2. \A i \in DOMAIN y : y[i].is # "disco"
    BY <2>1, PushFacts
  <2> QED
    BY <2>2 DEF Announcing
<1>4. Announcing(down, features) /\ down \in Seq(S)
  BY QueuesTyped DEF SessionSound
<1>5. Announcing(down', features)
  <2> HIDE DEF S
  <2> QED
    BY <1>2, <1>3, <1>4, AnnouncesJoin
<1> QED
  BY <1>1, <1>5 DEF SessionSound, Open, Asks, StreamCapabilities, RosterChanges

LEMMA StepKeepsSession ==
  ASSUME Sound, SessionSound, [Next]_vars
  PROVE  SessionSound'
<1> DEFINE T == ghost.texts  G == ghost.got  S == Stanza(T, G)  R == Request(T)
<1>0. down \in Seq(S) /\ up \in Seq(R) /\ Announcing(down, features)
  BY QueuesTyped DEF SessionSound
<1>1. CASE HandleStanza
  <2>1. /\ live /\ ghost' = ghost /\ down # <<>> /\ down' = Tail(down) /\ up' = up \o AnswersTo(Head(down))
        /\ live' = live /\ streamCaps' = streamCaps /\ features' = features /\ announced' = announced
    BY <1>1 DEF HandleStanza, server
  <2>2. Head(down) \in S
    BY <1>0, <2>1, TailFacts
  <2>3. AnswersTo(Head(down)) \in Seq(R)
    BY <2>2, QueuesTyped, AnswersTyped
  <2>4. Announcing(Tail(down), features)
    <3> HIDE DEF S
    <3> QED
      BY <1>0, <2>1, AnnouncesTail
  <2>5. Asks("available") => Awaits(up', "available")
    <3> HIDE DEF R
    <3> QED
      BY <1>0, <2>1, <2>3, AwaitsJoin DEF Asks
  <2> QED
    BY <2>1, <2>4, <2>5 DEF SessionSound, Open, Asks, StreamCapabilities
<1>2. CASE HandleOnline
  <2>1. /\ Open' /\ live' /\ streamCaps' = StreamCapabilities'
        /\ Requests \in Seq(R)
        /\ \/ /\ Open /\ down' = down /\ up' = up \o Requests
              /\ features' = features /\ announced' = announced
           \/ down' = <<>> /\ up' = Requests /\ ~announced'
    BY <1>2, OnlineAdds
  <2>2. Awaits(Requests, "available")
    BY DEF Requests, Awaits
  <2>3. Awaits(up', "available")
    <3> HIDE DEF R
    <3> QED
      BY ZenonT(60), <1>0, <2>1, <2>2, AwaitsJoin
  <2>4. Announcing(<<>>, features')
    BY DEF Announcing
  <2> QED
    BY <1>0, <2>1, <2>3, <2>4 DEF SessionSound, Asks
<1>3. CASE HandleDisconnected
  BY <1>3 DEF HandleDisconnected, server, SessionSound, Open, Asks, StreamCapabilities
<1>4. CASE PollEvent
  <2>1. ghost'.sessions = ghost.sessions
    BY <1>4, PollHistory
  <2> QED
    BY <1>4, <2>1 DEF PollEvent, server, SessionSound, Open, Asks, StreamCapabilities
<1>5. ASSUME NEW p \in Peers, UpsertContact(p) PROVE SessionSound'
  <2>1. ghost'.sessions = ghost.sessions
    BY <1>5, TypedFields DEF UpsertContact, Sound
  <2> QED
    BY <1>5, <2>1 DEF UpsertContact, server, SessionSound, Open, Asks, StreamCapabilities
<1>6. ASSUME NEW p \in Peers, NEW k \in {"Direct", "MultiUserChat"}, SendMessage(p, k) PROVE SessionSound'
  <2> DEFINE b == (k = "Direct")  n == Len(out) + 1
             x == [is |-> "message", to |-> p, id |-> n, request |-> b]
  <2>1. ghost'.sessions = ghost.sessions
    BY <1>6, TypedFields DEF SendMessage, Sound
  <2>2. up' = Append(up, x) /\ live
    BY <1>6 DEF SendMessage
  <2>3. x \in R
    <3>1. b \in BOOLEAN
      OBVIOUS
    <3>2. n \in Nat
      <4>1. out \in Seq(Outgoing)
        BY DEF Sound, Typed
      <4> QED
        BY <4>1, LenProperties
    <3> HIDE DEF b, n
    <3> QED
      BY <3>1, <3>2 DEF Request
  <2>4. Asks("available") => Awaits(up', "available")
    <3> DEFINE o == <<x>>
    <3> HIDE DEF x, R
    <3>1. o \in Seq(R) /\ up' = up \o o
      BY <1>0, <2>2, <2>3, OneFacts
    <3> HIDE DEF o
    <3> QED
      BY <1>0, <3>1, AwaitsJoin DEF Asks
  <2> QED
    BY <1>6, <2>1, <2>2, <2>4 DEF SendMessage, server, SessionSound, Open, Asks, StreamCapabilities
<1>7. CASE ServerAnswers
  BY <1>7, ServerKeepsSession
<1>8. ASSUME NEW p \in Peers, RosterChanges(p) PROVE SessionSound'
  BY <1>8, RosterKeepsSession
<1>9. ASSUME NEW p \in Peers, NEW d \in Devices, PeerShows(p, d) PROVE SessionSound'
  <2>1. PICK o \in Seq(PresenceStanza({p})) : o \in Seq(S) /\ down' = down \o o
    BY <1>9, ShowAdds
  <2>2. Announcing(o, features)
    BY PresencesOnly DEF Announcing
  <2>3. Announcing(down', features)
    <3> HIDE DEF S
    <3> QED
      BY <1>0, <2>1, <2>2, AnnouncesJoin
  <2>4. ghost'.sessions = ghost.sessions
    BY <1>9, ShowAdds
  <2> QED
    BY <1>9, <2>3, <2>4 DEF PeerShows, SessionSound, Open, Asks, StreamCapabilities
<1>10. CASE PeerWrites
  <2> DEFINE U == Stanza(ghost'.texts, ghost'.got)
  <2>1. PICK m \in Texts :
          /\ Stamped(m, Len(ghost.texts) + 1) \in U /\ down \in Seq(U)
          /\ down' = down \o <<Stamped(m, Len(ghost.texts) + 1)>>
    BY <1>10, WriteAdds
  <2> DEFINE x == Stamped(m, Len(ghost.texts) + 1)  o == <<x>>
  <2>2. x.is # "disco" /\ x \in U /\ down' = down \o o
    BY <2>1, StampedFields
  <2> HIDE DEF x, U
  <2>3. Announcing(o, features) /\ o \in Seq(U)
    BY <2>2, OneStanza, OneFacts
  <2> HIDE DEF o
  <2>4. Announcing(down', features)
    BY <1>0, <2>1, <2>2, <2>3, AnnouncesJoin
  <2>5. ghost'.sessions = ghost.sessions
    BY <1>10, WriteAdds
  <2> QED
    BY <1>10, <2>4, <2>5 DEF PeerWrites, server, SessionSound, Open, Asks, StreamCapabilities
<1>11. CASE UNCHANGED vars
  BY <1>11 DEF vars, server, SessionSound, Open, Asks, StreamCapabilities
<1> QED
  BY <1>1, <1>2, <1>3, <1>4, <1>5, <1>6, <1>7, <1>8, <1>9, <1>10, <1>11
     DEF Next, SessionStep, UserStep, ServerStep

-----------------------------------------------------------------------------
(* What each step adds to the stream, as one sequence. *)

LEMMA WriteJoins ==
  ASSUME Sound, PeerWrites
  PROVE  /\ down \in Seq(Stanza(ghost'.texts, ghost'.got))
         /\ \E y \in Seq(Stanza(ghost'.texts, ghost'.got)) :
              down' = down \o y /\ DOMAIN y = {1} /\ y[1].is = "message"
<1> DEFINE S == Stanza(ghost'.texts, ghost'.got)
<1>1. PICK m \in Texts :
        /\ Stamped(m, Len(ghost.texts) + 1) \in S /\ down \in Seq(S)
        /\ down' = down \o <<Stamped(m, Len(ghost.texts) + 1)>>
  BY WriteAdds
<1> DEFINE x == Stamped(m, Len(ghost.texts) + 1)  o == <<x>>
<1>2. x.is = "message" /\ x \in S /\ down' = down \o o
  BY <1>1, StampedFields
<1> HIDE DEF x, S
<1>3. o \in Seq(S) /\ DOMAIN o = {1} /\ o[1] = x
  BY <1>2, OneFacts
<1> HIDE DEF o
<1> QED
  BY <1>1, <1>2, <1>3 DEF S

LEMMA UserAsks ==
  ASSUME Sound, NEW p \in Peers, NEW what, Asks(what),
         UpsertContact(p) \/ \E k \in {"Direct", "MultiUserChat"} : SendMessage(p, k)
  PROVE  Asks(what)'
<1>1. CASE UpsertContact(p)
  BY <1>1 DEF UpsertContact, Asks
<1>2. ASSUME NEW k \in {"Direct", "MultiUserChat"}, SendMessage(p, k) PROVE Awaits(up', what)
  <2> DEFINE x == [is |-> "message", to |-> p, id |-> Len(out) + 1, request |-> (k = "Direct")]
  <2>1. up' = Append(up, x)
    BY <1>2 DEF SendMessage
  <2> DEFINE R == Request(ghost.texts) \cup {x}  o == <<x>>
  <2>2. up \in Seq(R) /\ x \in R
    <3>1. up \in Seq(Request(ghost.texts))
      BY QueuesTyped
    <3> DEFINE Q == Request(ghost.texts)
    <3> HIDE DEF Q, x
    <3>2. Q \subseteq Q \cup {x} /\ up \in Seq(Q)
      BY <3>1 DEF Q
    <3>3. up \in Seq(Q \cup {x})
      BY <3>2, SeqMonotonic
    <3> QED
      BY <3>3 DEF Q
  <2> HIDE DEF x, R
  <2>3. o \in Seq(R) /\ up' = up \o o
    BY <2>1, <2>2, OneFacts
  <2> HIDE DEF o
  <2> QED
    BY <2>2, <2>3, AwaitsJoin DEF Asks
<1> QED
  BY <1>1, <1>2 DEF Asks

-----------------------------------------------------------------------------
(* The capabilities. *)

LEMMA FitJoin ==
  ASSUME NEW E, NEW q \in Seq(E), NEW x \in Seq(E), NEW fit, NEW now,
         Mends(EventCaps(x, fit)) \/ (Spares(EventCaps(x, fit)) /\ Closes(now, EventCaps(q, fit)))
  PROVE  Closes(now, EventCaps(q \o x, fit))
<1>1. /\ EventCaps(q, fit) \in Seq(Effects) /\ EventCaps(x, fit) \in Seq(Effects)
      /\ EventCaps(q \o x, fit) = EventCaps(q, fit) \o EventCaps(x, fit)
  BY EventCapsFacts
<1> QED
  BY <1>1, EffectOfJoin DEF Closes

LEMMA FitTail ==
  ASSUME NEW E, NEW q \in Seq(E), q # <<>>, NEW fit, NEW now, NEW later,
         EventCap(Head(q), fit) = "good" => later,
         EventCap(Head(q), fit) = "none" /\ now => later,
         Closes(now, EventCaps(q, fit))
  PROVE  Closes(later, EventCaps(Tail(q), fit))
<1> DEFINE f == EventCaps(q, fit)
<1>1. f \in Seq(Effects) /\ f # <<>> /\ Head(f) = EventCap(Head(q), fit) /\ EventCaps(Tail(q), fit) = Tail(f)
  BY EventCapsFacts
<1>2. /\ Head(f) = "good" => later
      /\ Head(f) = "none" /\ now => later
      /\ Closes(now, f)
  BY <1>1
<1> HIDE DEF f
<1>3. /\ Spares(f) => Spares(Tail(f)) /\ Head(f) \in {"none", "good"}
      /\ Mends(f) => Mends(Tail(f)) \/ (Spares(Tail(f)) /\ Head(f) = "good")
  BY <1>1, EffectOfTail
<1> QED
  BY <1>1, <1>2, <1>3 DEF Closes

LEMMA OneEventCap ==
  ASSUME NEW e, NEW fit
  PROVE  /\ EventCap(e, fit) = "good" => Mends(EventCaps(<<e>>, fit))
         /\ EventCap(e, fit) = "none" => Spares(EventCaps(<<e>>, fit))
<1> DEFINE q == <<e>>
<1>1. DOMAIN q = {1} /\ q[1] = e
  OBVIOUS
<1> HIDE DEF q
<1>2. DOMAIN EventCaps(q, fit) = {1} /\ EventCaps(q, fit)[1] = EventCap(e, fit)
  BY <1>1 DEF EventCaps
<1> QED
  BY <1>2, OneMends DEF q

LEMMA NothingDiscovered ==
  ASSUME NEW y, \A i \in DOMAIN y : y[i].is # "disco", NEW stream, NEW fit
  PROVE  Spares(StanzaCaps(y, stream, fit))
  BY DEF Spares, StanzaCaps, StanzaCap

\* Steps that only add to the stream, and no answer about features.
LEMMA CapsUntouched ==
  ASSUME CapsFit, CapsArrive, NEW E, events \in Seq(E), NEW S, down \in Seq(S), NEW y \in Seq(S),
         \A i \in DOMAIN y : y[i].is # "disco", down' = down \o y,
         UNCHANGED <<events, caps, streamCaps, features>>, Open' => Open,
         Asks("getDisco") => Asks("getDisco")'
  PROVE  CapsFit' /\ CapsArrive'
<1> DEFINE K == Current  now == (caps = K)
<1>1. K' = K
  BY DEF Current, StreamCapabilities
<1>2. CapsFit'
  BY DEF CapsFit, Current, StreamCapabilities
<1>3. CapsArrive'
  <2> SUFFICES ASSUME Open', ~ Asks("getDisco")'
               PROVE  EndsWell(now', EventCaps(events', {K'}), StanzaCaps(down', streamCaps', {K'}))
    BY DEF CapsArrive
  <2>1. EndsWell(now, EventCaps(events, {K}), StanzaCaps(down, streamCaps, {K}))
    BY DEF CapsArrive
  <2> DEFINE n == <<>>
  <2>2. n \in Seq(E) /\ DOMAIN n = {} /\ events \o n = events
    BY NoneFacts, ConcatEmptySeq
  <2> HIDE DEF n, K, now
  <2>3. Spares(EventCaps(n, {K}))
    BY <2>2 DEF Spares, EventCaps
  <2>4. Spares(StanzaCaps(y, streamCaps, {K}))
    BY NothingDiscovered
  <2>5. EndsWell(now, EventCaps(events \o n, {K}), StanzaCaps(down \o y, streamCaps, {K}))
    BY <2>1, <2>2, <2>3, <2>4, CapsStays
  <2>6. now' = now
    BY <1>1 DEF now
  <2> QED
    BY <1>1, <2>2, <2>5, <2>6
<1> QED
  BY <1>2, <1>3

LEMMA StanzaKeepsCaps ==
  ASSUME Sound, SessionSound, CapsFit, CapsArrive, HandleStanza
  PROVE  CapsFit' /\ CapsArrive'
<1> DEFINE T == ghost.texts  G == ghost.got  E == Event(T, G)  S == Stanza(T, G)  R == Request(T)
           s == Head(down)  x == EventsOf(s)  z == AnswersTo(s)  K == Current
<1>1. /\ live /\ ghost' = ghost /\ down # <<>> /\ down' = Tail(down) /\ up' = up \o z /\ events' = events \o x
      /\ caps' = caps /\ streamCaps' = streamCaps /\ features' = features
  BY DEF HandleStanza, core, server
<1>2. /\ T \in Seq(Texts) /\ G \in SUBSET (Peers \X Nat) /\ streamCaps \subseteq {"StreamManagement"}
      /\ events \in Seq(E) /\ down \in Seq(S) /\ up \in Seq(R)
  BY QueuesTyped
<1>3. s \in S /\ x \in Seq(E) /\ z \in Seq(R)
  <2>1. s \in S
    BY <1>1, <1>2, TailFacts
  <2> QED
    BY <1>2, <2>1, EventsTyped, AnswersTyped
<1>4. Open /\ Open' /\ K' = K /\ streamCaps = StreamCapabilities
  BY <1>1 DEF SessionSound, Open, Current, StreamCapabilities
<1>5. s.is = "disco" => s.features = features
  <2> HIDE DEF S
  <2> QED
    BY <1>1, <1>2, AnnouncesTail DEF SessionSound
<1>6. \A fit : /\ StanzaCap(s, streamCaps, fit) = "good" => Mends(EventCaps(x, fit))
               /\ StanzaCap(s, streamCaps, fit) = "none" => Spares(EventCaps(x, fit))
  BY <1>2, <1>3, CapsOfStanza
<1>7. StanzaCap(s, streamCaps, SUBSET K) \in {"good", "none"}
  BY <1>4, <1>5 DEF StanzaCap, Verdict, Current
<1>8. Asks("getDisco") => Asks("getDisco")'
  <2> HIDE DEF R, z
  <2> QED
    BY <1>1, <1>2, <1>3, AwaitsJoin DEF Asks
<1>9. Closes(caps \subseteq K, EventCaps(events, SUBSET K))
  BY <1>4 DEF CapsFit
<1>10. ASSUME ~ Asks("getDisco")' PROVE EndsWell(caps = K, EventCaps(events, {K}), StanzaCaps(down, streamCaps, {K}))
  BY <1>4, <1>8, <1>10 DEF CapsArrive
<1> HIDE DEF T, G, E, S, R, s, x, z, K
<1> DEFINE fits == caps \subseteq K  equal == (caps = K)
<1>11. Closes(fits, EventCaps(events \o x, SUBSET K))
  <2> DEFINE fit == SUBSET K
  <2>1. Closes(fits, EventCaps(events, fit))
    BY <1>9
  <2>2. Mends(EventCaps(x, fit)) \/ Spares(EventCaps(x, fit))
    BY <1>6, <1>7
  <2> HIDE DEF fits, fit
  <2>3. Mends(EventCaps(x, fit)) \/ (Spares(EventCaps(x, fit)) /\ Closes(fits, EventCaps(events, fit)))
    BY <2>1, <2>2
  <2>4. Closes(fits, EventCaps(events \o x, fit))
    BY <1>2, <1>3, <2>3, FitJoin
  <2> QED
    BY <2>4 DEF fit
<1>12. ASSUME ~ Asks("getDisco")'
       PROVE  EndsWell(equal, EventCaps(events \o x, {K}), StanzaCaps(Tail(down), streamCaps, {K}))
  <2> DEFINE fit == {K}
  <2>1. EndsWell(equal, EventCaps(events, fit), StanzaCaps(down, streamCaps, fit))
    BY <1>10, <1>12
  <2> HIDE DEF equal, fit
  <2>2. EndsWell(equal, EventCaps(events \o x, fit), StanzaCaps(Tail(down), streamCaps, fit))
    BY <1>1, <1>2, <1>3, <1>6, <2>1, CapsMoves DEF s
  <2> QED
    BY <2>2 DEF fit
<1>13. CapsFit'
  BY <1>1, <1>4, <1>11 DEF CapsFit, K
<1>14. CapsArrive'
  BY <1>1, <1>4, <1>12 DEF CapsArrive, K
<1> QED
  BY <1>13, <1>14

LEMMA OnlineKeepsCaps ==
  ASSUME Sound, SessionSound, HandleOnline
  PROVE  CapsFit' /\ CapsArrive'
<1> DEFINE T == ghost.texts  G == ghost.got  E == Event(T, G)  K == Current'
           c == StreamCapabilities'  e == [is |-> "Connected", capabilities |-> c]  x == <<e>>
<1>1. events' = events \o x /\ x \in Seq(E)
  BY OnlineAdds
<1>2. events \in Seq(E) /\ up \in Seq(Request(T)) /\ Requests \in Seq(Request(T))
  BY QueuesTyped, OnlineAdds
<1>3. EventCap(e, SUBSET K) = "good"
  <2>1. c \subseteq K
    BY DEF Current
  <2> HIDE DEF c, K
  <2> QED
    BY <2>1 DEF EventCap, Verdict
<1>4. Mends(EventCaps(x, SUBSET K))
  <2> HIDE DEF e
  <2> QED
    BY <1>3, OneEventCap
<1>5. CapsFit'
  <2> DEFINE fit == SUBSET K  now == caps' \subseteq K
  <2>1. Mends(EventCaps(x, fit)) \/ (Spares(EventCaps(x, fit)) /\ Closes(now, EventCaps(events, fit)))
    BY <1>4
  <2> HIDE DEF fit, now, x, E
  <2>2. Closes(now, EventCaps(events \o x, fit))
    BY <1>1, <1>2, <2>1, FitJoin
  <2> QED
    BY <1>1, <2>2 DEF CapsFit, fit, now
<1>6. Asks("getDisco")'
  <2>1. up' = up \o Requests \/ up' = Requests
    BY OnlineAdds
  <2>2. Awaits(Requests, "getDisco")
    BY DEF Requests, Awaits
  <2> QED
    BY <1>2, <2>1, <2>2, AwaitsJoin DEF Asks
<1> QED
  BY <1>5, <1>6 DEF CapsArrive

LEMMA DisconnectKeepsCaps ==
  ASSUME Sound, SessionSound, CapsFit, CapsArrive, HandleDisconnected
  PROVE  CapsFit' /\ CapsArrive'
<1> DEFINE T == ghost.texts  G == ghost.got  E == Event(T, G)  S == Stanza(T, G)
           e == [is |-> "Disconnected"]  x == <<e>>  K == Current  n == <<>>
<1>1. /\ ghost' = ghost /\ down' = down /\ up' = up /\ events' = Append(events, e)
      /\ caps' = caps /\ streamCaps' = streamCaps /\ features' = features
  BY DEF HandleDisconnected, core, server
<1>2. events \in Seq(E) /\ down \in Seq(S) /\ K' = K /\ e \in E
  BY <1>1, QueuesTyped DEF Current, StreamCapabilities, Event
<1>3. \A fit : EventCap(e, fit) = "none"
  BY DEF EventCap
<1> HIDE DEF e, E, S, K
<1>4. events' = events \o x /\ x \in Seq(E) /\ \A fit : Spares(EventCaps(x, fit))
  <2>1. \A fit : Spares(EventCaps(x, fit))
    BY <1>3, OneEventCap
  <2> QED
    BY <1>1, <1>2, <2>1, OneFacts
<1>5. n \in Seq(S) /\ DOMAIN n = {} /\ down = down \o n
  BY <1>2, NoneFacts, ConcatEmptySeq
<1>6. \A fit : Spares(StanzaCaps(n, streamCaps, fit))
  BY <1>5, NothingDiscovered
<1> HIDE DEF x, n
<1> DEFINE fits == caps \subseteq K  equal == (caps = K)
<1>7. Closes(fits, EventCaps(events, SUBSET K)) => Closes(fits, EventCaps(events', SUBSET K))
  <2> DEFINE fit == SUBSET K
  <2>1. ASSUME Closes(fits, EventCaps(events, fit)) PROVE Closes(fits, EventCaps(events \o x, fit))
    <3> HIDE DEF fits, fit
    <3> QED
      BY <1>2, <1>4, <2>1, FitJoin
  <2> QED
    BY <1>4, <2>1
<1>8. EndsWell(equal, EventCaps(events, {K}), StanzaCaps(down, streamCaps, {K})) =>
        EndsWell(equal, EventCaps(events', {K}), StanzaCaps(down, streamCaps, {K}))
  <2> DEFINE fit == {K}
  <2>1. ASSUME EndsWell(equal, EventCaps(events, fit), StanzaCaps(down, streamCaps, fit))
        PROVE  EndsWell(equal, EventCaps(events \o x, fit), StanzaCaps(down \o n, streamCaps, fit))
    <3> HIDE DEF equal, fit
    <3> QED
      BY <1>2, <1>4, <1>5, <1>6, <2>1, CapsStays
  <2> QED
    BY <1>4, <1>5, <2>1
<1>9. Open' => Open
  BY <1>1 DEF Open
<1>10. CapsFit'
  BY <1>1, <1>2, <1>7, <1>9 DEF CapsFit, K
<1>11. CapsArrive'
  BY <1>1, <1>2, <1>8, <1>9 DEF CapsArrive, K, Asks
<1> QED
  BY <1>10, <1>11

LEMMA AnswerNotDisco ==
  ASSUME NEW r, NEW h, Answer(r, h), r.is # "getDisco"
  PROVE  \A i \in DOMAIN h : h[i].is # "disco"
<1>1. CASE h = <<>>
  <2>1. DOMAIN h = {}
    BY <1>1
  <2> QED
    BY <2>1
<1>2. CASE h \in Seq(PresenceStanza(Peers))
  BY <1>2, PresencesOnly
<1>3. CASE h = <<[is |-> "roster", items |-> RosterResult]>>
  BY <1>3
<1>4. CASE h = <<Receipt(r.to, r.id)>>
  <2> DEFINE x == Receipt(r.to, r.id)
  <2>1. x.is = "message" /\ h = <<x>>
    BY <1>4 DEF Receipt
  <2> HIDE DEF x
  <2> QED
    BY <2>1
<1> QED
  BY <1>1, <1>2, <1>3, <1>4 DEF Answer

LEMMA PollKeepsCaps ==
  ASSUME Sound, SessionSound, CapsFit, CapsArrive, PollEvent
  PROVE  CapsFit' /\ CapsArrive'
<1> DEFINE E == Event(ghost.texts, ghost.got)  S == Stanza(ghost.texts, ghost.got)  e == Head(events)
           K == Current  fits == caps \subseteq K  fit1 == caps' \subseteq K
           equal == (caps = K)  equal1 == (caps' = K)
<1>1. /\ events # <<>> /\ events' = Tail(events) /\ down' = down /\ up' = up /\ streamCaps' = streamCaps
      /\ features' = features
      /\ caps' = IF e.is \in {"Connected", "CapabilitiesDiscovered"} THEN e.capabilities ELSE caps
  BY DEF PollEvent, server
<1>2. events \in Seq(E) /\ down \in Seq(S) /\ K' = K
  BY <1>1, QueuesTyped DEF Current, StreamCapabilities
<1>3. Open' => Open
  BY PollHistory DEF Open
<1>4. /\ EventCap(e, SUBSET K) = "good" => fit1
      /\ EventCap(e, SUBSET K) = "none" /\ fits => fit1
      /\ EventCap(e, {K}) = "good" => equal1
      /\ EventCap(e, {K}) = "none" /\ equal => equal1
  <2> HIDE DEF e, K
  <2> QED
    BY <1>1 DEF EventCap, Verdict
<1>5. ASSUME Open PROVE Closes(fit1, EventCaps(Tail(events), SUBSET K))
  <2> DEFINE fit == SUBSET K
  <2>1. Closes(fits, EventCaps(events, fit))
    BY <1>5 DEF CapsFit
  <2>2. /\ EventCap(e, fit) = "good" => fit1
        /\ EventCap(e, fit) = "none" /\ fits => fit1
    BY <1>4
  <2> HIDE DEF fit, fits, fit1, E
  <2>3. Closes(fit1, EventCaps(Tail(events), fit))
    BY <1>1, <1>2, <2>1, <2>2, FitTail
  <2> QED
    BY <2>3 DEF fit
<1>6. ASSUME Open, ~ Asks("getDisco")
      PROVE  EndsWell(equal1, EventCaps(Tail(events), {K}), StanzaCaps(down, streamCaps, {K}))
  <2> DEFINE fit == {K}
  <2>1. EndsWell(equal, EventCaps(events, fit), StanzaCaps(down, streamCaps, fit))
    BY <1>6 DEF CapsArrive
  <2>2. /\ EventCap(e, fit) = "good" => equal1
        /\ EventCap(e, fit) = "none" /\ equal => equal1
    BY <1>4
  <2> HIDE DEF fit, equal, equal1, E, S
  <2>3. EndsWell(equal1, EventCaps(Tail(events), fit), StanzaCaps(down, streamCaps, fit))
    BY <1>1, <1>2, <2>1, <2>2, CapsArrives
  <2> QED
    BY <2>3 DEF fit
<1>7. CapsFit'
  BY <1>1, <1>2, <1>3, <1>5 DEF CapsFit
<1>8. CapsArrive'
  BY <1>1, <1>2, <1>3, <1>6 DEF CapsArrive, Asks
<1> QED
  BY <1>7, <1>8

LEMMA ServerKeepsCaps ==
  ASSUME Sound, SessionSound, CapsFit, CapsArrive, ServerAnswers
  PROVE  CapsFit' /\ CapsArrive'
<1> DEFINE T == ghost.texts  S == Stanza(T, ghost'.got)  E == Event(T, ghost.got)  r == Head(up)  K == Current
<1>1. PICK h \in Seq(S) : Answer(r, h) /\ down' = down \o h
  BY ServerAdds
<1>2. /\ ghost'.sessions = ghost.sessions /\ up # <<>> /\ up' = Tail(up)
      /\ UNCHANGED <<events, caps, streamCaps, features>>
  BY ServerAdds DEF ServerAnswers, core
<1>3. down \in Seq(S) /\ up \in Seq(Request(T)) /\ events \in Seq(E)
  <2>1. ghost.got \subseteq ghost'.got
    BY ServerAdds
  <2> QED
    BY <2>1, QueuesTyped, QueuesGrow
<1>4. Open' => Open
  BY <1>2 DEF Open
<1>5. CASE r.is = "getDisco"
  <2>1. CapsFit'
    BY <1>2, <1>4 DEF CapsFit, Current, StreamCapabilities
  <2>2. DOMAIN h = {1} /\ h[1].is = "disco" /\ h[1].features = features
    BY <1>1, <1>5, AnswerAnnounces DEF Announcing
  <2>3. Open /\ streamCaps = StreamCapabilities /\ K' = K
    BY <1>2, ServerKeepsSession DEF SessionSound, Current, StreamCapabilities
  <2>4. StanzaCap(h[1], streamCaps, {K}) = "good"
    BY <2>2, <2>3 DEF StanzaCap, Verdict, Current
  <2>5. Mends(StanzaCaps(h, streamCaps, {K}))
    BY <2>2, <2>4, OneMends DEF StanzaCaps
  <2>6. EndsWell(caps = K, EventCaps(events, {K}), StanzaCaps(down \o h, streamCaps, {K}))
    <3> DEFINE now == (caps = K)  fit == {K}
    <3>1. Mends(StanzaCaps(h, streamCaps, fit))
      BY <2>5
    <3> HIDE DEF now, fit, S
    <3>2. EndsWell(now, EventCaps(events, fit), StanzaCaps(down \o h, streamCaps, fit))
      BY <1>3, <3>1, CapsMends
    <3> QED
      BY <3>2 DEF now, fit
  <2>7. CapsArrive'
    BY <1>1, <1>2, <2>3, <2>6 DEF CapsArrive
  <2> QED
    BY <2>1, <2>7
<1>6. CASE r.is # "getDisco"
  <2>1. \A i \in DOMAIN h : h[i].is # "disco"
    BY <1>1, <1>6, AnswerNotDisco
  <2>2. Asks("getDisco") => Asks("getDisco")'
    BY <1>2, <1>3, <1>6, AwaitsTail DEF Asks
  <2> HIDE DEF S, E
  <2> QED
    BY <1>1, <1>2, <1>3, <1>4, <2>1, <2>2, CapsUntouched
<1> QED
  BY <1>5, <1>6

LEMMA StepKeepsCaps ==
  ASSUME Sound, SessionSound, CapsFit, CapsArrive, [Next]_vars
  PROVE  CapsFit' /\ CapsArrive'
<1> DEFINE T == ghost.texts  G == ghost.got  S == Stanza(T, G)  E == Event(T, G)
<1>0. down \in Seq(S) /\ events \in Seq(E)
  BY QueuesTyped
<1>1. CASE SessionStep
  BY <1>1, StanzaKeepsCaps, OnlineKeepsCaps, DisconnectKeepsCaps DEF SessionStep
<1>2. CASE PollEvent
  BY <1>2, PollKeepsCaps
<1>3. ASSUME NEW p \in Peers, UpsertContact(p) \/ \E k \in {"Direct", "MultiUserChat"} : SendMessage(p, k)
      PROVE  CapsFit' /\ CapsArrive'
  <2>1. Asks("getDisco") => Asks("getDisco")'
    BY <1>3, UserAsks
  <2>2. /\ down' = down /\ events' = events /\ caps' = caps /\ streamCaps' = streamCaps /\ features' = features
        /\ ghost'.sessions = ghost.sessions
    BY <1>3, TypedFields DEF UpsertContact, SendMessage, server, Sound
  <2>3. Open' = Open
    BY <2>2 DEF Open
  <2> QED
    BY <2>1, <2>2, <2>3 DEF CapsFit, CapsArrive, Current, StreamCapabilities
<1>4. CASE ServerAnswers
  BY <1>4, ServerKeepsCaps
<1>5. ASSUME NEW p \in Peers, RosterChanges(p) PROVE CapsFit' /\ CapsArrive'
  <2>1. PICK item \in Items \ {roster[p]}, y \in Seq(S) : down' = down \o y /\ Pushes(p, item, y)
    BY <1>5, RosterJoins
  <2>2. \A i \in DOMAIN y : y[i].is # "disco"
    BY <2>1, PushFacts DEF Pushes
  <2>3. UNCHANGED <<events, up, caps, streamCaps, features>> /\ ghost'.sessions = ghost.sessions
    BY <1>5, RosterAdds DEF RosterChanges, core
  <2>4. Open' = Open /\ Asks("getDisco")' = Asks("getDisco")
    BY <2>3 DEF Open, Asks
  <2> HIDE DEF S, E
  <2> QED
    BY <1>0, <2>1, <2>2, <2>3, <2>4, CapsUntouched
<1>6. ASSUME NEW p \in Peers, NEW d \in Devices, PeerShows(p, d) PROVE CapsFit' /\ CapsArrive'
  <2>1. PICK y \in Seq(PresenceStanza({p})) : y \in Seq(S) /\ down' = down \o y
    BY <1>6, ShowAdds
  <2>2. \A i \in DOMAIN y : y[i].is # "disco"
    BY PresencesOnly
  <2>3. UNCHANGED <<events, up, caps, streamCaps, features>> /\ ghost'.sessions = ghost.sessions
    BY <1>6, ShowAdds DEF PeerShows, core
  <2>4. Open' = Open /\ Asks("getDisco")' = Asks("getDisco")
    BY <2>3 DEF Open, Asks
  <2> HIDE DEF S, E
  <2> QED
    BY <1>0, <2>1, <2>2, <2>3, <2>4, CapsUntouched
<1>7. CASE PeerWrites
  <2> DEFINE U == Stanza(ghost'.texts, ghost'.got)
  <2>1. down \in Seq(U)
    BY <1>7, WriteJoins
  <2>2. PICK y \in Seq(U) : down' = down \o y /\ DOMAIN y = {1} /\ y[1].is = "message"
    BY <1>7, WriteJoins
  <2>3. UNCHANGED <<events, up, caps, streamCaps, features>> /\ ghost'.sessions = ghost.sessions
    BY <1>7, WriteAdds DEF PeerWrites, core, server
  <2>4. Open' = Open /\ Asks("getDisco")' = Asks("getDisco")
    BY <2>3 DEF Open, Asks
  <2>5. \A i \in DOMAIN y : y[i].is # "disco"
    BY <2>2
  <2> HIDE DEF U, E
  <2> QED
    BY <1>0, <2>1, <2>2, <2>3, <2>4, <2>5, CapsUntouched
<1>8. CASE UNCHANGED vars
  BY <1>8 DEF vars, core, server, CapsFit, CapsArrive, Current, StreamCapabilities, Open, Asks
<1> QED
  BY <1>1, <1>2, <1>3, <1>4, <1>5, <1>6, <1>7, <1>8 DEF Next, UserStep, ServerStep

Discovering == SessionSound /\ CapsFit /\ CapsArrive

\* The capabilities on their way to the core end with those of the present
\* stream and server, and nothing on its way is foreign to them
\* (handle_client_event, handle_iq).
THEOREM CapabilitiesInvariance == Spec => []Discovering
<1>1. Init => Discovering
  <2>1. Init => ~Open
    BY DEF Init, Open
  <2>2. Init => ~live /\ ~announced /\ up = <<>> /\ Announcing(down, features)
    BY DEF Init, Announcing
  <2> QED
    BY <2>1, <2>2 DEF Discovering, SessionSound, CapsFit, CapsArrive
<1>2. Sound /\ Discovering /\ [Next]_vars => Discovering'
  BY StepKeepsSession, StepKeepsCaps DEF Discovering
<1> QED
  BY <1>1, <1>2, SoundInvariance, PTL DEF Spec

LEMMA NothingAsked ==
  ASSUME up = <<>>, NEW what
  PROVE  ~ Asks(what)
<1>1. DOMAIN up = {}
  OBVIOUS
<1> QED
  BY <1>1 DEF Asks, Awaits

\* An account that has caught up offers nothing that its present stream and
\* server did not announce, and in the end all of it (handle_client_event,
\* handle_iq, apply_transport_event).
THEOREM CapabilitiesHold == Spec => []CapabilitiesAreCurrent
<1>1. Discovering => CapabilitiesAreCurrent
  <2> SUFFICES ASSUME Discovering, live PROVE CapabilitiesAreCurrent
    BY DEF CapabilitiesAreCurrent, Quiet
  <2> DEFINE K == Current  fits == caps \subseteq K  equal == (caps = K)  n == <<>>
  <2>1. Open /\ streamCaps = StreamCapabilities
    BY DEF Discovering, SessionSound
  <2>2. \A fit : EventCaps(n, fit) = n /\ StanzaCaps(n, streamCaps, fit) = n
    BY DEF EventCaps, StanzaCaps
  <2>3. ASSUME events = n PROVE fits
    <3>1. Closes(fits, n)
      BY <2>1, <2>2, <2>3 DEF Discovering, CapsFit
    <3> QED
      BY <3>1, NothingComes DEF Closes
  <2>4. ASSUME Quiet PROVE equal
    <3>1. EndsWell(equal, n, n)
      BY <2>1, <2>2, <2>4, NothingAsked DEF Discovering, CapsArrive, Quiet
    <3> QED
      BY <3>1, EndIsNow
  <2> QED
    BY <2>1, <2>3, <2>4 DEF CapabilitiesAreCurrent, Current
<1> QED
  BY <1>1, CapabilitiesInvariance, PTL


-----------------------------------------------------------------------------
(* The roster. *)

LEMMA EndLater ==
  ASSUME NEW now, NEW later, now => later, NEW f, NEW g, EndsWell(now, f, g)
  PROVE  EndsWell(later, f, g)
  BY DEF EndsWell, Closes

\* Stanzas without an entry for a peer.
NoEntry(y, p) == \A i \in DOMAIN y : y[i].is \notin {"roster", "push"} \/ Entries(y[i], p) = {}

LEMMA NoEntrySpares ==
  ASSUME NEW y, NEW p, NoEntry(y, p), NEW sub
  PROVE  Spares(StanzaRoster(y, p, sub))
  BY DEF NoEntry, Spares, StanzaRoster, StanzaEntry

\* Steps that bring nothing for the entry of a peer.
LEMMA EntryUntouched ==
  ASSUME NEW p \in Peers, EntryComes(p), NEW E, events \in Seq(E), NEW x \in Seq(E),
         NEW S, down \in Seq(S), NEW y \in Seq(S),
         \A i \in DOMAIN x : x[i].is \notin {"RosterContactUpsert", "RosterContactRemoved"},
         NoEntry(y, p), events' = events \o x, down' = down \o y, roster'[p] = roster[p], Open' => Open,
         Asks("getRoster") => Asks("getRoster")', Held(p) => Held(p)'
  PROVE  EntryComes(p)'
<1> SUFFICES ASSUME Open', roster'[p] # "absent", ~ Asks("getRoster")'
             PROVE  EndsWell(Held(p)', EventRoster(events', p, RosterSubscription(roster'[p])),
                             StanzaRoster(down', p, RosterSubscription(roster'[p])))
  BY DEF EntryComes
<1> DEFINE sub == RosterSubscription(roster[p])  now == Held(p)  later == Held(p)'
<1>1. EndsWell(now, EventRoster(events, p, sub), StanzaRoster(down, p, sub))
  BY DEF EntryComes
<1>2. Spares(EventRoster(x, p, sub))
  BY DEF Spares, EventRoster, EventEntry
<1>3. Spares(StanzaRoster(y, p, sub))
  BY NoEntrySpares
<1>4. (now => later) /\ RosterSubscription(roster'[p]) = sub
  OBVIOUS
<1> HIDE DEF sub, now, later
<1>5. EndsWell(now, EventRoster(events \o x, p, sub), StanzaRoster(down \o y, p, sub))
  BY <1>1, <1>2, <1>3, EntryStays
<1>6. EndsWell(later, EventRoster(events \o x, p, sub), StanzaRoster(down \o y, p, sub))
  BY <1>4, <1>5, EndLater
<1> QED
  BY <1>4, <1>6 DEF later

LEMMA StanzaKeepsEntry ==
  ASSUME Sound, SessionSound, NEW p \in Peers, EntryComes(p), HandleStanza
  PROVE  EntryComes(p)'
<1> DEFINE T == ghost.texts  G == ghost.got  E == Event(T, G)  S == Stanza(T, G)  R == Request(T)
           s == Head(down)  x == EventsOf(s)  z == AnswersTo(s)  sub == RosterSubscription(roster[p])
           now == Held(p)
<1>1. /\ live /\ ghost' = ghost /\ down # <<>> /\ down' = Tail(down) /\ up' = up \o z /\ events' = events \o x
      /\ contacts' = contacts /\ roster' = roster
  BY DEF HandleStanza, core, server
<1>2. /\ T \in Seq(Texts) /\ G \in SUBSET (Peers \X Nat) /\ streamCaps \subseteq {"StreamManagement"}
      /\ events \in Seq(E) /\ down \in Seq(S) /\ up \in Seq(R)
  BY QueuesTyped
<1>3. s \in S /\ x \in Seq(E) /\ z \in Seq(R)
  <2>1. s \in S
    BY <1>1, <1>2, TailFacts
  <2> QED
    BY <1>2, <2>1, EventsTyped, AnswersTyped
<1>4. Asks("getRoster") => Asks("getRoster")'
  <2> HIDE DEF R, z
  <2> QED
    BY <1>1, <1>2, <1>3, AwaitsJoin DEF Asks
<1>5. /\ StanzaEntry(s, p, sub) = "good" => Mends(EventRoster(x, p, sub))
      /\ StanzaEntry(s, p, sub) = "none" => Spares(EventRoster(x, p, sub))
  BY <1>2, <1>3, EntryOfStanza
<1>6. (Open' => Open) /\ Held(p)' = now
  BY <1>1 DEF Open, Held
<1> SUFFICES ASSUME Open', roster'[p] # "absent", ~ Asks("getRoster")'
             PROVE  EndsWell(Held(p)', EventRoster(events', p, RosterSubscription(roster'[p])),
                             StanzaRoster(down', p, RosterSubscription(roster'[p])))
  BY DEF EntryComes
<1>7. EndsWell(now, EventRoster(events, p, sub), StanzaRoster(down, p, sub))
  BY <1>1, <1>4, <1>6 DEF EntryComes
<1>8. RosterSubscription(roster'[p]) = sub
  BY <1>1
<1> HIDE DEF T, G, E, S, R, x, z, sub, now
<1>9. EndsWell(now, EventRoster(events \o x, p, sub), StanzaRoster(Tail(down), p, sub))
  BY <1>1, <1>2, <1>3, <1>5, <1>7, EntryMoves DEF s
<1> QED
  BY <1>1, <1>6, <1>8, <1>9

LEMMA PollKeepsEntry ==
  ASSUME Sound, SessionSound, NEW p \in Peers, EntryComes(p), PollEvent
  PROVE  EntryComes(p)'
<1> DEFINE E == Event(ghost.texts, ghost.got)  S == Stanza(ghost.texts, ghost.got)  e == Head(events)
           sub == RosterSubscription(roster[p])  now == Held(p)  later == Held(p)'
<1>1. /\ events # <<>> /\ events' = Tail(events) /\ down' = down /\ up' = up /\ roster' = roster
      /\ contacts' = CASE e.is = "RosterContactUpsert" -> SyncRosterContact(e)
                       [] e.is = "RosterContactRemoved" -> Restrict(contacts, DOMAIN contacts \ {e.jid})
                       [] e.is = "ContactPresenceUpdated" -> UpdateContactPresence(e)
                       [] OTHER -> contacts
  BY DEF PollEvent, server
<1>2. events \in Seq(E) /\ down \in Seq(S)
  BY QueuesTyped
<1>3. Open' => Open
  BY PollHistory DEF Open
<1>4. ghost'.edited = IF e.is = "RosterContactUpsert" THEN ghost.edited \ {e.jid} ELSE ghost.edited
  BY PollHistory
<1>5. /\ EventEntry(e, p, sub) = "good" => later
      /\ EventEntry(e, p, sub) = "none" /\ now => later
  <2>0. RosterSubscription(roster'[p]) = sub
    BY <1>1
  <2> HIDE DEF e, sub
  <2>1. CASE e.is = "RosterContactUpsert"
    <3> DEFINE v == [subscription |-> e.subscription,
                     presence |-> IF e.jid \in DOMAIN contacts THEN contacts[e.jid].presence ELSE "Offline"]
           j == e.jid
    <3>1. contacts' = Put(contacts, j, v)
      BY <1>1, <2>1 DEF SyncRosterContact
    <3>2. v.subscription = e.subscription
      OBVIOUS
    <3> HIDE DEF v, j
    <3>3. /\ DOMAIN contacts' = DOMAIN contacts \cup {j} /\ contacts'[j] = v
          /\ \A q \in DOMAIN contacts : q # j => contacts'[q] = contacts[q]
      BY <3>1 DEF Put
    <3> QED
      BY <1>4, <2>0, <2>1, <3>2, <3>3 DEF EventEntry, Verdict, Held, sub, j
  <2>2. CASE e.is = "RosterContactRemoved"
    <3>1. contacts' = Restrict(contacts, DOMAIN contacts \ {e.jid})
      BY <1>1, <2>2
    <3>2. e.jid # p /\ p \in DOMAIN contacts => p \in DOMAIN contacts' /\ contacts'[p] = contacts[p]
      BY <3>1 DEF Restrict
    <3> QED
      BY <1>4, <2>0, <2>2, <3>2 DEF EventEntry, Verdict, Held, sub
  <2>3. CASE e.is = "ContactPresenceUpdated"
    <3>1. contacts' = UpdateContactPresence(e)
      BY <1>1, <2>3
    <3>2. p \in DOMAIN contacts => p \in DOMAIN contacts' /\ contacts'[p].subscription = contacts[p].subscription
      <4>1. ASSUME p \in DOMAIN contacts PROVE contacts[p] \in [presence : Presences, subscription : Subscriptions]
        BY <4>1 DEF Sound, Typed, TypeOK
      <4> QED
        BY <3>1, <4>1 DEF UpdateContactPresence
    <3> QED
      BY <1>4, <2>0, <2>3, <3>2 DEF EventEntry, Verdict, Held, sub
  <2>4. CASE e.is \notin {"RosterContactUpsert", "RosterContactRemoved", "ContactPresenceUpdated"}
    <3>1. contacts' = contacts
      BY <1>1, <2>4
    <3> QED
      BY <1>4, <2>0, <2>4, <3>1 DEF EventEntry, Verdict, Held, sub
  <2> QED
    BY <2>1, <2>2, <2>3, <2>4
<1> SUFFICES ASSUME Open', roster'[p] # "absent", ~ Asks("getRoster")'
             PROVE  EndsWell(Held(p)', EventRoster(events', p, RosterSubscription(roster'[p])),
                             StanzaRoster(down', p, RosterSubscription(roster'[p])))
  BY DEF EntryComes
<1>6. EndsWell(now, EventRoster(events, p, sub), StanzaRoster(down, p, sub))
  BY <1>1, <1>3 DEF EntryComes, Asks
<1>7. RosterSubscription(roster'[p]) = sub
  BY <1>1
<1> HIDE DEF E, S, sub, now, later
<1>8. EndsWell(later, EventRoster(Tail(events), p, sub), StanzaRoster(down, p, sub))
  BY <1>1, <1>2, <1>5, <1>6, EntryArrives DEF e
<1> QED
  BY <1>1, <1>7, <1>8 DEF later

LEMMA AnswerNoEntry ==
  ASSUME NEW r, NEW h, Answer(r, h), r.is # "getRoster", NEW p
  PROVE  NoEntry(h, p)
<1>1. CASE h = <<>>
  <2>1. DOMAIN h = {}
    BY <1>1
  <2> QED
    BY <2>1 DEF NoEntry
<1>2. CASE h \in Seq(PresenceStanza(Peers))
  BY <1>2, PresencesOnly DEF NoEntry
<1>3. CASE h = <<[is |-> "disco", features |-> features]>>
  BY <1>3 DEF NoEntry
<1>4. CASE h = <<Receipt(r.to, r.id)>>
  <2> DEFINE x == Receipt(r.to, r.id)
  <2>1. x.is = "message" /\ h = <<x>>
    BY <1>4 DEF Receipt
  <2> HIDE DEF x
  <2> QED
    BY <2>1 DEF NoEntry
<1> QED
  BY <1>1, <1>2, <1>3, <1>4 DEF Answer

\* The roster result holds for each peer on the roster what the server holds.
LEMMA ResultIsGood ==
  ASSUME TypeOK, NEW p \in Peers, roster[p] # "absent",
         NEW s, s.is = "roster", s.items = RosterResult
  PROVE  StanzaEntry(s, p, RosterSubscription(roster[p])) = "good"
<1>1. /\ \A k \in DOMAIN RosterResult : RosterResult[k].item = roster[RosterResult[k].jid]
      /\ \E k \in DOMAIN RosterResult : RosterResult[k].jid = p
  BY RosterListed DEF Listed
<1> DEFINE q == RosterResult
<1>2. Entries(s, p) = {roster[p]}
  <2> HIDE DEF q
  <2>1. /\ \A k \in DOMAIN q : q[k].item = roster[q[k].jid]
        /\ \E k \in DOMAIN q : q[k].jid = p
        /\ s.items = q
    BY <1>1 DEF q
  <2> QED
    BY <2>1 DEF Entries
<1> QED
  BY <1>2 DEF StanzaEntry, Verdict

LEMMA ServerKeepsEntry ==
  ASSUME Sound, SessionSound, NEW p \in Peers, EntryComes(p), ServerAnswers
  PROVE  EntryComes(p)'
<1> DEFINE T == ghost.texts  S == Stanza(T, ghost'.got)  E == Event(T, ghost.got)  r == Head(up)
           sub == RosterSubscription(roster[p])  now == Held(p)
<1>1. PICK h \in Seq(S) : Answer(r, h) /\ down' = down \o h
  BY ServerAdds
<1>2. /\ ghost'.sessions = ghost.sessions /\ ghost'.edited = ghost.edited /\ up # <<>> /\ up' = Tail(up)
      /\ UNCHANGED <<events, contacts, roster>>
  BY ServerAdds DEF ServerAnswers, core
<1>3. down \in Seq(S) /\ up \in Seq(Request(T)) /\ events \in Seq(E)
  <2>1. ghost.got \subseteq ghost'.got
    BY ServerAdds
  <2> QED
    BY <2>1, QueuesTyped, QueuesGrow
<1>4. (Open' => Open) /\ Held(p)' = now
  BY <1>2 DEF Open, Held
<1>5. CASE r.is = "getRoster"
  <2> SUFFICES ASSUME roster[p] # "absent"
               PROVE  EndsWell(now, EventRoster(events, p, sub), StanzaRoster(down \o h, p, sub))
    BY <1>1, <1>2, <1>4 DEF EntryComes
  <2>1. h = <<[is |-> "roster", items |-> RosterResult]>>
    BY <1>1, <1>5 DEF Answer
  <2>2. DOMAIN h = {1} /\ h[1].is = "roster" /\ h[1].items = RosterResult
    BY <2>1
  <2>3. StanzaEntry(h[1], p, sub) = "good"
    BY <2>2, ResultIsGood DEF Sound, Typed
  <2>4. Mends(StanzaRoster(h, p, sub))
    <3> HIDE DEF sub
    <3> QED
      BY <2>2, <2>3, OneMends DEF StanzaRoster
  <2> HIDE DEF now, sub, S, E
  <2> QED
    BY <1>3, <2>4, EntryMends
<1>6. CASE r.is # "getRoster"
  <2>1. NoEntry(h, p)
    BY <1>1, <1>6, AnswerNoEntry
  <2>2. Asks("getRoster") => Asks("getRoster")'
    BY <1>2, <1>3, <1>6, AwaitsTail DEF Asks
  <2> DEFINE n == <<>>
  <2>3. n \in Seq(E) /\ DOMAIN n = {} /\ events \o n = events
    BY <1>3, NoneFacts, ConcatEmptySeq
  <2> HIDE DEF S, E, n, now
  <2>4. /\ events' = events \o n /\ roster'[p] = roster[p]
        /\ Held(p) => Held(p)'
        /\ \A i \in DOMAIN n : n[i].is \notin {"RosterContactUpsert", "RosterContactRemoved"}
    BY <1>2, <1>4, <2>3 DEF now
  <2> QED
    BY <1>1, <1>3, <1>4, <2>1, <2>2, <2>3, <2>4, EntryUntouched
<1> QED
  BY <1>5, <1>6

LEMMA ChangeKeepsEntry ==
  ASSUME Sound, SessionSound, NEW p \in Peers, EntryComes(p), NEW q \in Peers, RosterChanges(q)
  PROVE  EntryComes(p)'
<1> DEFINE S == Stanza(ghost.texts, ghost.got)  E == Event(ghost.texts, ghost.got)
<1>1. PICK item \in Items \ {roster[q]}, y \in Seq(S) :
        roster' = [roster EXCEPT ![q] = item] /\ down' = down \o y /\ Pushes(q, item, y)
  BY RosterJoins
<1>2. UNCHANGED <<events, up, contacts>> /\ ghost'.sessions = ghost.sessions /\ ghost'.edited = ghost.edited
  BY RosterAdds DEF RosterChanges, core
<1>3. down \in Seq(S) /\ events \in Seq(E) /\ roster \in [Peers -> Items]
  BY QueuesTyped DEF Sound, Typed, TypeOK
<1>4. (Open' => Open) /\ Asks("getRoster")' = Asks("getRoster")
  BY <1>2 DEF Open, Asks
<1>5. CASE q = p
  <2> DEFINE sub == RosterSubscription(item)  later == Held(p)'
  <2>1. roster'[p] = item
    BY <1>1, <1>3, <1>5
  <2> SUFFICES ASSUME Open', item # "absent"
               PROVE  EndsWell(later, EventRoster(events, p, sub), StanzaRoster(down \o y, p, sub))
    BY <1>1, <1>2, <2>1 DEF EntryComes
  <2>2. 1 \in DOMAIN y /\ y[1].is = "push" /\ Entries(y[1], p) = {item}
        /\ \A i \in DOMAIN y : i = 1 \/ y[i].is = "presence"
    BY <1>1, <1>4, <1>5, PushFacts DEF Pushes
  <2>3. StanzaEntry(y[1], p, sub) = "good"
    BY <2>2 DEF StanzaEntry, Verdict
  <2>4. \A i \in DOMAIN y : i # 1 => StanzaEntry(y[i], p, sub) = "none"
    BY <2>2 DEF StanzaEntry
  <2>5. Mends(StanzaRoster(y, p, sub))
    <3> HIDE DEF sub
    <3> QED
      BY <2>2, <2>3, <2>4 DEF Mends, StanzaRoster
  <2> HIDE DEF S, E, sub, later
  <2> QED
    BY <1>3, <2>5, EntryMends
<1>6. CASE q # p
  <2>1. NoEntry(y, p)
    BY <1>1, <1>6, PushFacts DEF Pushes, NoEntry
  <2> DEFINE n == <<>>
  <2>2. n \in Seq(E) /\ DOMAIN n = {} /\ events \o n = events
    BY <1>3, NoneFacts, ConcatEmptySeq
  <2> HIDE DEF S, E, n
  <2>3. roster'[p] = roster[p]
    BY <1>1, <1>3, <1>6
  <2>4. Held(p) => Held(p)'
    BY <1>2, <2>3 DEF Held
  <2>5. /\ events' = events \o n
        /\ \A i \in DOMAIN n : n[i].is \notin {"RosterContactUpsert", "RosterContactRemoved"}
    BY <1>2, <2>2
  <2> QED
    BY <1>1, <1>3, <1>4, <2>1, <2>2, <2>3, <2>4, <2>5, EntryUntouched
<1> QED
  BY <1>5, <1>6

LEMMA UserKeepsEntry ==
  ASSUME Sound, NEW p \in Peers, EntryComes(p), NEW q \in Peers,
         UpsertContact(q) \/ \E k \in {"Direct", "MultiUserChat"} : SendMessage(q, k)
  PROVE  EntryComes(p)'
<1> DEFINE E == Event(ghost.texts, ghost.got)  S == Stanza(ghost.texts, ghost.got)  n == <<>>
<1>1. /\ down' = down /\ events' = events /\ roster' = roster /\ ghost'.sessions = ghost.sessions
  BY TypedFields DEF UpsertContact, SendMessage, server, Sound
<1>2. down \in Seq(S) /\ events \in Seq(E) /\ ghost.edited \subseteq Peers /\ DOMAIN contacts \subseteq Peers
  BY QueuesTyped, TypedFields DEF Sound, Typed, TypeOK
<1>3. Held(p) => Held(p)'
  <2>1. CASE UpsertContact(q)
    <3> DEFINE v == [presence |-> "Offline", subscription |-> "None"]
    <3>1. contacts' = Put(contacts, q, v)
      BY <2>1 DEF UpsertContact
    <3> HIDE DEF v
    <3>2. /\ DOMAIN contacts' = DOMAIN contacts \cup {q}
          /\ \A x \in DOMAIN contacts : x # q => contacts'[x] = contacts[x]
      BY <3>1 DEF Put
    <3>3. ghost'.edited = ghost.edited \cup {q}
      <4> DEFINE w == ghost.written + 1  h == ghost.hidden \cup {q}  d == ghost.edited \cup {q}
      <4>1. ghost' = [ghost EXCEPT !.written = w, !.hidden = h, !.edited = d]
        BY <2>1 DEF UpsertContact
      <4> HIDE DEF w, h, d
      <4>2. ghost'.edited = d
        BY <4>1, TypedFields DEF Sound
      <4> QED
        BY <4>2 DEF d
    <3> QED
      BY <1>1, <3>2, <3>3 DEF Held
  <2>2. CASE \E k \in {"Direct", "MultiUserChat"} : SendMessage(q, k)
    <3>1. contacts' = contacts /\ ghost'.edited = ghost.edited
      BY <2>2, TypedFields DEF SendMessage, Sound
    <3> QED
      BY <1>1, <3>1 DEF Held
  <2> QED
    BY <2>1, <2>2
<1>4. n \in Seq(E) /\ n \in Seq(S) /\ DOMAIN n = {} /\ events \o n = events /\ down \o n = down
  BY <1>2, NoneFacts, ConcatEmptySeq
<1>5. Asks("getRoster") => Asks("getRoster")'
  BY UserAsks
<1> HIDE DEF E, S, n
<1>6. /\ events' = events \o n /\ down' = down \o n /\ roster'[p] = roster[p] /\ (Open' => Open)
      /\ \A i \in DOMAIN n : n[i].is \notin {"RosterContactUpsert", "RosterContactRemoved"}
      /\ NoEntry(n, p)
  BY <1>1, <1>4 DEF Open, NoEntry
<1> QED
  BY <1>2, <1>3, <1>4, <1>5, <1>6, EntryUntouched

LEMMA DisconnectKeepsEntry ==
  ASSUME Sound, NEW p \in Peers, EntryComes(p), HandleDisconnected
  PROVE  EntryComes(p)'
<1> DEFINE E == Event(ghost.texts, ghost.got)  S == Stanza(ghost.texts, ghost.got)  n == <<>>
           e == [is |-> "Disconnected"]  x == <<e>>
<1>1. /\ ghost' = ghost /\ down' = down /\ up' = up /\ events' = Append(events, e)
      /\ contacts' = contacts /\ roster' = roster
  BY DEF HandleDisconnected, core, server
<1>2. events \in Seq(E) /\ down \in Seq(S) /\ e \in E
  BY QueuesTyped DEF Event
<1>3. n \in Seq(S) /\ DOMAIN n = {} /\ down \o n = down
  BY <1>2, NoneFacts, ConcatEmptySeq
<1>4. e.is \notin {"RosterContactUpsert", "RosterContactRemoved"}
  OBVIOUS
<1> HIDE DEF e, E, S
<1>5. x \in Seq(E) /\ DOMAIN x = {1} /\ x[1] = e /\ events' = events \o x
  BY <1>1, <1>2, OneFacts
<1> HIDE DEF x, n
<1>6. /\ \A i \in DOMAIN x : x[i].is \notin {"RosterContactUpsert", "RosterContactRemoved"}
      /\ NoEntry(n, p) /\ down' = down \o n /\ roster'[p] = roster[p] /\ (Open' => Open)
      /\ Asks("getRoster") => Asks("getRoster")'
      /\ Held(p) => Held(p)'
  BY <1>1, <1>3, <1>4, <1>5 DEF NoEntry, Open, Asks, Held
<1> QED
  BY <1>2, <1>3, <1>5, <1>6, EntryUntouched

LEMMA OnlineKeepsEntry ==
  ASSUME Sound, NEW p \in Peers, HandleOnline
  PROVE  EntryComes(p)'
<1>1. up \in Seq(Request(ghost.texts)) /\ Requests \in Seq(Request(ghost.texts))
  BY QueuesTyped, OnlineAdds
<1>2. up' = up \o Requests \/ up' = Requests
  BY OnlineAdds
<1>3. Awaits(Requests, "getRoster")
  BY DEF Requests, Awaits
<1> QED
  BY <1>1, <1>2, <1>3, AwaitsJoin DEF Asks, EntryComes

LEMMA StepKeepsEntry ==
  ASSUME Sound, SessionSound, NEW p \in Peers, EntryComes(p), [Next]_vars
  PROVE  EntryComes(p)'
<1> DEFINE S == Stanza(ghost.texts, ghost.got)  E == Event(ghost.texts, ghost.got)  n == <<>>
<1>0. down \in Seq(S) /\ events \in Seq(E)
  BY QueuesTyped
<1>1. CASE SessionStep
  BY <1>1, StanzaKeepsEntry, OnlineKeepsEntry, DisconnectKeepsEntry DEF SessionStep
<1>2. CASE PollEvent
  BY <1>2, PollKeepsEntry
<1>3. CASE UserStep
  BY <1>3, UserKeepsEntry DEF UserStep
<1>4. CASE ServerAnswers
  BY <1>4, ServerKeepsEntry
<1>5. ASSUME NEW q \in Peers, RosterChanges(q) PROVE EntryComes(p)'
  BY <1>5, ChangeKeepsEntry
<1>6. ASSUME NEW q \in Peers, NEW d \in Devices, PeerShows(q, d) PROVE EntryComes(p)'
  <2>1. PICK y \in Seq(PresenceStanza({q})) : y \in Seq(S) /\ down' = down \o y
    BY <1>6, ShowAdds
  <2>2. NoEntry(y, p)
    BY PresencesOnly DEF NoEntry
  <2>3. /\ UNCHANGED <<events, up, contacts, roster>> /\ ghost'.sessions = ghost.sessions
        /\ ghost'.edited = ghost.edited
    BY <1>6, ShowAdds DEF PeerShows, core
  <2>4. n \in Seq(E) /\ DOMAIN n = {} /\ events \o n = events
    BY <1>0, NoneFacts, ConcatEmptySeq
  <2> HIDE DEF S, E, n
  <2>5. /\ \A i \in DOMAIN n : n[i].is \notin {"RosterContactUpsert", "RosterContactRemoved"}
        /\ events' = events \o n /\ roster'[p] = roster[p] /\ (Open' => Open)
        /\ Asks("getRoster") => Asks("getRoster")'
        /\ Held(p) => Held(p)'
    BY <2>3, <2>4 DEF Open, Asks, Held
  <2> QED
    BY <1>0, <2>1, <2>2, <2>4, <2>5, EntryUntouched
<1>7. CASE PeerWrites
  <2> DEFINE U == Stanza(ghost'.texts, ghost'.got)
  <2>1. down \in Seq(U)
    BY <1>7, WriteJoins
  <2>2. PICK y \in Seq(U) : down' = down \o y /\ DOMAIN y = {1} /\ y[1].is = "message"
    BY <1>7, WriteJoins
  <2>3. /\ UNCHANGED <<events, up, contacts, roster>> /\ ghost'.sessions = ghost.sessions
        /\ ghost'.edited = ghost.edited
    BY <1>7, WriteAdds DEF PeerWrites, core, server
  <2>4. n \in Seq(E) /\ DOMAIN n = {} /\ events \o n = events
    BY <1>0, NoneFacts, ConcatEmptySeq
  <2> HIDE DEF U, E, n
  <2>5. /\ \A i \in DOMAIN n : n[i].is \notin {"RosterContactUpsert", "RosterContactRemoved"}
        /\ events' = events \o n /\ roster'[p] = roster[p] /\ (Open' => Open)
        /\ Asks("getRoster") => Asks("getRoster")'
        /\ Held(p) => Held(p)'
        /\ NoEntry(y, p)
    BY <2>2, <2>3, <2>4 DEF Open, Asks, Held, NoEntry
  <2> QED
    BY <1>0, <2>1, <2>2, <2>4, <2>5, EntryUntouched
<1>8. CASE UNCHANGED vars
  BY <1>8 DEF vars, core, server, EntryComes, Held, Open, Asks
<1> QED
  BY <1>1, <1>2, <1>3, <1>4, <1>5, <1>6, <1>7, <1>8 DEF Next, ServerStep

RosterArrives == \A p \in Peers : EntryComes(p)

\* An entry that the server holds is asked for, or on its way with nothing
\* behind it that undoes it, or with the core (handle_iq, emit_roster).
THEOREM RosterInvariance == Spec => []RosterArrives
<1>1. Init => RosterArrives
  BY DEF Init, Open, RosterArrives, EntryComes
<1>2. Sound /\ Discovering /\ RosterArrives /\ [Next]_vars => RosterArrives'
  BY StepKeepsEntry DEF Discovering, RosterArrives
<1> QED
  BY <1>1, <1>2, SoundInvariance, CapabilitiesInvariance, PTL DEF Spec

\* Once nothing is under way, whoever is on the server's roster is a contact,
\* with the subscription the server holds unless the user has replaced the
\* contact (handle_iq, emit_roster, sync_roster_contact).
THEOREM RosterCompletes == Spec => []RosterIsComplete
<1>1. Discovering /\ RosterArrives => RosterIsComplete
  <2> SUFFICES ASSUME Discovering, RosterArrives, Quiet, NEW p \in Peers, roster[p] # "absent"
               PROVE  Held(p)
    BY DEF RosterIsComplete, Held
  <2> DEFINE n == <<>>  sub == RosterSubscription(roster[p])
  <2>1. Open /\ ~ Asks("getRoster") /\ events = n /\ down = n
    BY NothingAsked DEF Discovering, SessionSound, Quiet
  <2>2. EventRoster(n, p, sub) = n /\ StanzaRoster(n, p, sub) = n
    BY DEF EventRoster, StanzaRoster
  <2>3. EndsWell(Held(p), n, n)
    BY <2>1, <2>2 DEF RosterArrives, EntryComes
  <2> QED
    BY <2>3, EndIsNow
<1> QED
  BY <1>1, CapabilitiesInvariance, RosterInvariance, PTL

-----------------------------------------------------------------------------
(* Presences. *)

\* Stanzas that show nothing of a peer and do not end its contact.
NoShow(y, p) ==
  \A i \in DOMAIN y : /\ ~Tells(p, y[i])
                      /\ y[i].is \in {"roster", "push"} => "absent" \notin Entries(y[i], p)
NoShowEvents == {"Connected", "CapabilitiesDiscovered", "Disconnected"}

LEMMA NoShowSpares ==
  ASSUME NEW y, NEW p, NoShow(y, p), NEW v
  PROVE  Spares(StanzaPresence(y, p, v))
  BY DEF NoShow, Spares, StanzaPresence, StanzaShow

\* Steps that bring nothing that shows a peer.
LEMMA ShowUntouched ==
  ASSUME NEW p \in Peers, PresenceComes(p), NEW E, events \in Seq(E), NEW x \in Seq(E),
         NEW S, down \in Seq(S), NEW y \in Seq(S),
         \A i \in DOMAIN x : x[i].is \in NoShowEvents,
         NoShow(y, p), events' = events \o x, down' = down \o y, ghost'.told[p] = ghost.told[p], Noticed(p) => Noticed(p)'
  PROVE  PresenceComes(p)'
<1> SUFFICES ASSUME ghost'.told[p] # "nothing"
             PROVE  EndsWell(Noticed(p)', EventPresence(events', p, ContactPresence(ghost'.told[p])),
                             StanzaPresence(down', p, ContactPresence(ghost'.told[p])))
  BY DEF PresenceComes
<1> DEFINE v == ContactPresence(ghost.told[p])  now == Noticed(p)  later == Noticed(p)'
<1>1. EndsWell(now, EventPresence(events, p, v), StanzaPresence(down, p, v))
  BY DEF PresenceComes
<1>2. Spares(EventPresence(x, p, v))
  BY DEF Spares, EventPresence, EventShow, NoShowEvents
<1>3. Spares(StanzaPresence(y, p, v))
  BY NoShowSpares
<1>4. (now => later) /\ ContactPresence(ghost'.told[p]) = v
  OBVIOUS
<1> HIDE DEF v, now, later
<1>5. EndsWell(now, EventPresence(events \o x, p, v), StanzaPresence(down \o y, p, v))
  BY <1>1, <1>2, <1>3, ShowStays
<1>6. EndsWell(later, EventPresence(events \o x, p, v), StanzaPresence(down \o y, p, v))
  BY <1>4, <1>5, EndLater
<1> QED
  BY <1>4, <1>6 DEF later

LEMMA StanzaKeepsShow ==
  ASSUME Sound, SessionSound, NEW p \in Peers, PresenceComes(p), HandleStanza
  PROVE  PresenceComes(p)'
<1> DEFINE T == ghost.texts  G == ghost.got  E == Event(T, G)  S == Stanza(T, G)
           s == Head(down)  x == EventsOf(s)  v == ContactPresence(ghost.told[p])  now == Noticed(p)
<1>1. /\ ghost' = ghost /\ down # <<>> /\ down' = Tail(down) /\ events' = events \o x
      /\ contacts' = contacts
  BY DEF HandleStanza, core, server
<1>2. /\ T \in Seq(Texts) /\ G \in SUBSET (Peers \X Nat) /\ streamCaps \subseteq {"StreamManagement"}
      /\ events \in Seq(E) /\ down \in Seq(S)
  BY QueuesTyped
<1>3. s \in S /\ x \in Seq(E)
  <2>1. s \in S
    BY <1>1, <1>2, TailFacts
  <2> QED
    BY <1>2, <2>1, EventsTyped
<1>4. /\ StanzaShow(s, p, v) = "good" => Mends(EventPresence(x, p, v))
      /\ StanzaShow(s, p, v) = "none" => Spares(EventPresence(x, p, v))
  BY <1>2, <1>3, ShowOfStanza
<1>5. Noticed(p)' = now /\ ContactPresence(ghost'.told[p]) = v
  BY <1>1 DEF Noticed
<1> SUFFICES ASSUME ghost'.told[p] # "nothing"
             PROVE  EndsWell(Noticed(p)', EventPresence(events', p, ContactPresence(ghost'.told[p])),
                             StanzaPresence(down', p, ContactPresence(ghost'.told[p])))
  BY DEF PresenceComes
<1>6. EndsWell(now, EventPresence(events, p, v), StanzaPresence(down, p, v))
  BY <1>1 DEF PresenceComes
<1> HIDE DEF T, G, E, S, x, v, now
<1>7. EndsWell(now, EventPresence(events \o x, p, v), StanzaPresence(Tail(down), p, v))
  BY <1>1, <1>2, <1>3, <1>4, <1>6, ShowMoves DEF s
<1> QED
  BY <1>1, <1>5, <1>7

LEMMA PollKeepsShow ==
  ASSUME Sound, NEW p \in Peers, PresenceComes(p), PollEvent
  PROVE  PresenceComes(p)'
<1> DEFINE E == Event(ghost.texts, ghost.got)  S == Stanza(ghost.texts, ghost.got)  e == Head(events)
           v == ContactPresence(ghost.told[p])  now == Noticed(p)  later == Noticed(p)'
<1>1. /\ events # <<>> /\ events' = Tail(events) /\ down' = down
      /\ contacts' = CASE e.is = "RosterContactUpsert" -> SyncRosterContact(e)
                       [] e.is = "RosterContactRemoved" -> Restrict(contacts, DOMAIN contacts \ {e.jid})
                       [] e.is = "ContactPresenceUpdated" -> UpdateContactPresence(e)
                       [] OTHER -> contacts
  BY DEF PollEvent, server
<1>2. events \in Seq(E) /\ down \in Seq(S)
  BY QueuesTyped
<1>3. ghost'.hidden = (IF e.is # "ContactPresenceUpdated" THEN ghost.hidden
                       ELSE IF e.jid \in DOMAIN contacts THEN ghost.hidden \ {e.jid}
                       ELSE ghost.hidden \cup {e.jid})
  BY PollHistory
<1>8. ghost'.told = ghost.told
  BY PollHistory
<1>4. /\ EventShow(e, p, v) = "good" => later
      /\ EventShow(e, p, v) = "none" /\ now => later
  <2>0. ContactPresence(ghost'.told[p]) = v
    BY <1>8
  <2> HIDE DEF e, v
  <2>1. CASE e.is = "RosterContactUpsert"
    <3> DEFINE w == [subscription |-> e.subscription,
                     presence |-> IF e.jid \in DOMAIN contacts THEN contacts[e.jid].presence ELSE "Offline"]
           j == e.jid
    <3>1. contacts' = Put(contacts, j, w)
      BY <1>1, <2>1 DEF SyncRosterContact
    <3>2. j \in DOMAIN contacts => w.presence = contacts[j].presence
      OBVIOUS
    <3> HIDE DEF w, j
    <3>3. /\ DOMAIN contacts' = DOMAIN contacts \cup {j} /\ contacts'[j] = w
          /\ \A q \in DOMAIN contacts : q # j => contacts'[q] = contacts[q]
      BY <3>1 DEF Put
    <3> QED
      BY <1>3, <2>0, <2>1, <3>2, <3>3 DEF EventShow, Verdict, Noticed, v, j
  <2>2. CASE e.is = "RosterContactRemoved"
    <3>1. contacts' = Restrict(contacts, DOMAIN contacts \ {e.jid})
      BY <1>1, <2>2
    <3>2. e.jid # p /\ p \in DOMAIN contacts => p \in DOMAIN contacts' /\ contacts'[p] = contacts[p]
      BY <3>1 DEF Restrict
    <3> QED
      BY <1>3, <2>0, <2>2, <3>2 DEF EventShow, Verdict, Noticed, v
  <2>3. CASE e.is = "ContactPresenceUpdated"
    <3> DEFINE j == e.jid  a == e.presence
    <3>1. contacts' = IF j \in DOMAIN contacts THEN [contacts EXCEPT ![j].presence = a] ELSE contacts
      BY <1>1, <2>3 DEF UpdateContactPresence
    <3>2. \A q \in DOMAIN contacts : contacts[q] \in [presence : Presences, subscription : Subscriptions]
      BY DEF Sound, Typed, TypeOK
    <3> HIDE DEF j, a
    <3>3. DOMAIN contacts' = DOMAIN contacts /\ \A q \in DOMAIN contacts : q # j => contacts'[q] = contacts[q]
      BY <3>1
    <3>4. j \in DOMAIN contacts => contacts'[j].presence = a
      BY <3>1, <3>2
    <3> QED
      BY <1>3, <2>0, <2>3, <3>3, <3>4 DEF EventShow, Verdict, Noticed, v, j, a
  <2>4. CASE e.is \notin {"RosterContactUpsert", "RosterContactRemoved", "ContactPresenceUpdated"}
    <3>1. contacts' = contacts
      BY <1>1, <2>4
    <3> QED
      BY <1>3, <2>0, <2>4, <3>1 DEF EventShow, Verdict, Noticed, v
  <2> QED
    BY <2>1, <2>2, <2>3, <2>4
<1> SUFFICES ASSUME ghost'.told[p] # "nothing"
             PROVE  EndsWell(Noticed(p)', EventPresence(events', p, ContactPresence(ghost'.told[p])),
                             StanzaPresence(down', p, ContactPresence(ghost'.told[p])))
  BY DEF PresenceComes
<1>5. EndsWell(now, EventPresence(events, p, v), StanzaPresence(down, p, v))
  BY <1>8 DEF PresenceComes
<1>6. ContactPresence(ghost'.told[p]) = v
  BY <1>8
<1> HIDE DEF E, S, v, now, later
<1>7. EndsWell(later, EventPresence(Tail(events), p, v), StanzaPresence(down, p, v))
  BY <1>1, <1>2, <1>4, <1>5, ShowArrives DEF e
<1> QED
  BY <1>1, <1>6, <1>7 DEF later

\* Presences joining the stream end with the last one that tells of a peer.
LEMMA TellingEnds ==
  ASSUME NEW p \in Peers, PresenceComes(p), NEW E, events \in Seq(E),
         NEW S, down \in Seq(S), NEW a \in Seq(S), NoShow(a, p),
         NEW who \in SUBSET Peers, NEW o \in Seq(PresenceStanza(who)), o \in Seq(S),
         down' = (down \o a) \o o, ghost'.told[p] = ToldBy(o)[p],
         events' = events, contacts' = contacts, ghost'.hidden = ghost.hidden
  PROVE  PresenceComes(p)'
<1> DEFINE about == {i \in DOMAIN o : Tells(p, o[i])}
<1>1. \A i \in DOMAIN o : o[i].is = "presence"
  BY PresencesOnly
<1>2. ToldBy(o)[p] = IF about = {} THEN ghost.told[p] ELSE o[Max(about)].show
  BY DEF ToldBy
<1>3. CASE about = {}
  <2> DEFINE y == a \o o  n == <<>>
  <2>1. NoShow(o, p)
    BY <1>1, <1>3 DEF NoShow
  <2>2. ghost'.told[p] = ghost.told[p]
    BY <1>2, <1>3
  <2> HIDE DEF about
  <2>3. /\ y \in Seq(S)
        /\ \A i \in DOMAIN a : i \in DOMAIN y /\ y[i] = a[i]
        /\ \A j \in DOMAIN o : Len(a) + j \in DOMAIN y /\ y[Len(a) + j] = o[j]
        /\ \A i \in DOMAIN y : i \in DOMAIN a \/ \E j \in DOMAIN o : i = Len(a) + j
    BY JoinFacts
  <2>4. down' = down \o y
    BY ConcatAssociative
  <2> HIDE DEF y
  <2>5. NoShow(y, p)
    <3> SUFFICES ASSUME NEW i \in DOMAIN y
                 PROVE  ~Tells(p, y[i]) /\ (y[i].is \in {"roster", "push"} => "absent" \notin Entries(y[i], p))
      BY DEF NoShow
    <3>1. CASE i \in DOMAIN a
      BY <2>3, <3>1 DEF NoShow
    <3>2. CASE \E j \in DOMAIN o : i = Len(a) + j
      BY <2>1, <2>3, <3>2 DEF NoShow
    <3> QED
      BY <2>3, <3>1, <3>2
  <2>6. n \in Seq(E) /\ DOMAIN n = {} /\ events \o n = events
    BY NoneFacts, ConcatEmptySeq
  <2> HIDE DEF n
  <2>7. /\ events' = events \o n
        /\ Noticed(p) => Noticed(p)'
        /\ \A i \in DOMAIN n : n[i].is \in NoShowEvents
    BY <2>2, <2>6 DEF Noticed
  <2> QED
    BY <2>2, <2>3, <2>4, <2>5, <2>6, <2>7, ShowUntouched
<1>4. CASE about # {}
  <2> DEFINE k == Max(about)  w == ContactPresence(o[k].show)  later == Noticed(p)'
  <2>1. about \in SUBSET (DOMAIN o)
    OBVIOUS
  <2>2. k \in about /\ \A i \in about : i <= k
    <3> HIDE DEF about
    <3> QED
      BY <1>4, <2>1, LastOf
  <2>3. ghost'.told[p] = o[k].show
    BY <1>2, <1>4
  <2> HIDE DEF k
  <2>4. k \in DOMAIN o /\ Tells(p, o[k])
    BY <2>2
  <2>5. \A i \in DOMAIN o : i > k => ~Tells(p, o[i])
    <3>1. \A i \in DOMAIN o : i \in Nat
      BY LenProperties
    <3>2. \A i \in DOMAIN o : Tells(p, o[i]) => i <= k
      BY <2>2
    <3> QED
      BY <2>4, <3>1, <3>2
  <2> HIDE DEF about
  <2>6. StanzaShow(o[k], p, w) = "good"
    BY <2>4 DEF StanzaShow, Verdict
  <2>7. \A i \in DOMAIN o : i > k => StanzaShow(o[i], p, w) = "none"
    BY <1>1, <2>5 DEF StanzaShow
  <2>8. Mends(StanzaPresence(o, p, w))
    <3> HIDE DEF w
    <3> DEFINE f == StanzaPresence(o, p, w)
    <3>1. DOMAIN f = DOMAIN o /\ \A i \in DOMAIN o : f[i] = StanzaShow(o[i], p, w)
      BY DEF StanzaPresence
    <3> HIDE DEF f
    <3>2. k \in DOMAIN f /\ f[k] = "good"
      BY <2>4, <2>6, <3>1
    <3>3. \A j \in DOMAIN f : j > k => f[j] # "bad"
      BY <2>7, <3>1
    <3>4. Mends(f)
      BY ONLY <3>2, <3>3 DEF Mends
    <3> QED
      BY <3>4 DEF f
  <2>9. down \o a \in Seq(S)
    BY ConcatProperties
  <2>10. EndsWell(later, EventPresence(events, p, w), StanzaPresence((down \o a) \o o, p, w))
    <3> HIDE DEF w, later
    <3> QED
      BY <2>8, <2>9, ShowMends
  <2> QED
    BY <2>3, <2>10 DEF PresenceComes
<1> QED
  BY <1>3, <1>4

LEMMA AnswerNoShow ==
  ASSUME TypeOK, NEW r, NEW h, Answer(r, h), r.is # "available", NEW p
  PROVE  NoShow(h, p)
<1>1. CASE h = <<>>
  <2>1. DOMAIN h = {}
    BY <1>1
  <2> QED
    BY <2>1 DEF NoShow, Tells
<1>2. CASE h = <<[is |-> "roster", items |-> RosterResult]>>
  <2> DEFINE q == RosterResult
  <2>1. DOMAIN h = {1} /\ h[1].is = "roster" /\ h[1].items = q
    BY <1>2
  <2>2. \A k \in DOMAIN q : q[k].item # "absent"
    BY RosterListed DEF Listed
  <2> HIDE DEF q
  <2>3. "absent" \notin Entries(h[1], p)
    BY <2>1, <2>2 DEF Entries
  <2> QED
    BY <2>1, <2>3 DEF NoShow, Tells
<1>3. CASE h = <<[is |-> "disco", features |-> features]>>
  BY <1>3 DEF NoShow, Tells
<1>4. CASE h = <<Receipt(r.to, r.id)>>
  <2> DEFINE x == Receipt(r.to, r.id)
  <2>1. x.is = "message" /\ h = <<x>>
    BY <1>4 DEF Receipt
  <2> HIDE DEF x
  <2> QED
    BY <2>1 DEF NoShow, Tells
<1> QED
  BY <1>1, <1>2, <1>3, <1>4 DEF Answer

LEMMA ServerKeepsShow ==
  ASSUME Sound, NEW p \in Peers, PresenceComes(p), ServerAnswers
  PROVE  PresenceComes(p)'
<1> DEFINE T == ghost.texts  S == Stanza(T, ghost'.got)  E == Event(T, ghost.got)  r == Head(up)  n == <<>>
<1>1. PICK h \in Seq(S) : /\ Answer(r, h) /\ down' = down \o h
                          /\ ghost'.told = (IF r.is = "available" THEN ToldBy(h) ELSE ghost.told)
  BY ServerAdds
<1>2. ghost'.hidden = ghost.hidden /\ UNCHANGED <<events, contacts>>
  BY ServerAdds DEF ServerAnswers, core
<1>3. down \in Seq(S) /\ events \in Seq(E)
  <2>1. ghost.got \subseteq ghost'.got
    BY ServerAdds
  <2> QED
    BY <2>1, QueuesTyped, QueuesGrow
<1>4. n \in Seq(S) /\ n \in Seq(E) /\ DOMAIN n = {} /\ events \o n = events /\ down \o n = down
  BY <1>3, NoneFacts, ConcatEmptySeq
<1>5. NoShow(n, p)
  BY <1>4 DEF NoShow
<1>6. CASE r.is = "available"
  <2>1. h \in Seq(PresenceStanza(Peers)) /\ ghost'.told[p] = ToldBy(h)[p]
    BY <1>1, <1>6 DEF Answer
  <2> HIDE DEF S, E, n
  <2>2. down' = (down \o n) \o h
    BY <1>1, <1>4
  <2> QED
    BY <1>1, <1>2, <1>3, <1>4, <1>5, <2>1, <2>2, TellingEnds
<1>7. CASE r.is # "available"
  <2>1. NoShow(h, p)
    BY <1>1, <1>7, AnswerNoShow DEF Sound, Typed
  <2> HIDE DEF S, E, n
  <2>2. /\ events' = events \o n /\ ghost'.told[p] = ghost.told[p]
        /\ Noticed(p) => Noticed(p)'
        /\ \A i \in DOMAIN n : n[i].is \in NoShowEvents
    BY <1>1, <1>2, <1>4, <1>7 DEF Noticed
  <2> QED
    BY <1>1, <1>3, <1>4, <2>1, <2>2, ShowUntouched
<1> QED
  BY <1>6, <1>7

LEMMA ChangeKeepsShow ==
  ASSUME Sound, SessionSound, NEW p \in Peers, PresenceComes(p), NEW q \in Peers, RosterChanges(q)
  PROVE  PresenceComes(p)'
<1> DEFINE S == Stanza(ghost.texts, ghost.got)  E == Event(ghost.texts, ghost.got)  n == <<>>
<1>1. PICK item \in Items \ {roster[q]}, o \in Seq(PresenceStanza({q})) : Pushed(q, item, o, S)
  BY RosterAdds
<1>2. UNCHANGED <<events, contacts>> /\ ghost'.hidden = ghost.hidden
  BY RosterAdds DEF RosterChanges, core
<1>3. /\ down \in Seq(S) /\ events \in Seq(E) /\ o \in Seq(S)
      /\ ghost.told \in [Peers -> Shows \cup {"nothing"}]
  BY <1>1, QueuesTyped, TypedFields DEF Sound, Pushed
<1>4. n \in Seq(S) /\ n \in Seq(E) /\ DOMAIN n = {} /\ events \o n = events /\ down \o n = down
  BY <1>3, NoneFacts, ConcatEmptySeq
<1>5. CASE q = p /\ ~Opening(item)
  <2>1. ghost'.told[p] = "nothing"
    BY <1>1, <1>3, <1>5 DEF Pushed
  <2> QED
    BY <2>1 DEF PresenceComes
<1>6. CASE q # p \/ Opening(item)
  <2>1. ghost'.told[p] = ToldBy(o)[p]
    <3>1. CASE Opening(item)
      BY <1>1, <3>1 DEF Pushed
    <3>2. CASE q # p /\ ~Opening(item)
      <4>1. ghost'.told[p] = ghost.told[p]
        BY <1>1, <1>3, <3>2 DEF Pushed
      <4>2. \A i \in DOMAIN o : ~Tells(p, o[i])
        BY <3>2, PresencesOnly DEF Tells
      <4>3. ToldBy(o)[p] = ghost.told[p]
        BY <4>2 DEF ToldBy
      <4> QED
        BY <4>1, <4>3
    <3> QED
      BY <1>6, <3>1, <3>2
  <2>2. \E a \in Seq(S) : NoShow(a, p) /\ down' = (down \o a) \o o
    <3>1. CASE ~Open
      <4>1. o = n /\ down' = down
        BY <1>1, <3>1 DEF Pushed, SessionSound
      <4>2. NoShow(n, p)
        BY <1>4 DEF NoShow
      <4> HIDE DEF n, S
      <4>3. down' = (down \o n) \o o
        BY <1>4, <4>1
      <4> QED
        BY <1>4, <4>2, <4>3
    <3>2. CASE Open
      <4> DEFINE a == <<Push(q, item)>>
      <4>1. a \in Seq(S) /\ down' = (down \o a) \o o
        BY <1>1, <3>2 DEF Pushed
      <4>2. DOMAIN a = {1} /\ a[1] = Push(q, item)
        OBVIOUS
      <4>3. /\ Push(q, item).is = "push"
            /\ Entries(Push(q, item), p) = IF p = q THEN {item} ELSE {}
        BY PushFacts
      <4>4. Opening(item) => item # "absent"
        BY DEF Opening
      <4> HIDE DEF a, S
      <4>5. NoShow(a, p)
        BY <1>6, <4>2, <4>3, <4>4 DEF NoShow, Tells
      <4> QED
        BY <4>1, <4>5
    <3> QED
      BY <3>1, <3>2
  <2>3. PICK a \in Seq(S) : NoShow(a, p) /\ down' = (down \o a) \o o
    BY <2>2
  <2> HIDE DEF S, E, n
  <2> QED
    BY <1>2, <1>3, <2>1, <2>3, TellingEnds
<1> QED
  BY <1>5, <1>6

LEMMA PeerKeepsShow ==
  ASSUME Sound, NEW p \in Peers, PresenceComes(p), NEW q \in Peers, NEW d \in Devices, PeerShows(q, d)
  PROVE  PresenceComes(p)'
<1> DEFINE S == Stanza(ghost.texts, ghost.got)  E == Event(ghost.texts, ghost.got)  n == <<>>
<1>1. PICK o \in Seq(PresenceStanza({q})) : o \in Seq(S) /\ down' = down \o o /\ ghost'.told = ToldBy(o)
  BY ShowAdds
<1>2. UNCHANGED <<events, contacts>> /\ ghost'.hidden = ghost.hidden
  BY ShowAdds DEF PeerShows, core
<1>3. down \in Seq(S) /\ events \in Seq(E)
  BY QueuesTyped
<1>4. n \in Seq(S) /\ DOMAIN n = {} /\ down \o n = down
  BY <1>3, NoneFacts, ConcatEmptySeq
<1> HIDE DEF S, E, n
<1>5. NoShow(n, p) /\ down' = (down \o n) \o o /\ ghost'.told[p] = ToldBy(o)[p]
  BY <1>1, <1>4 DEF NoShow
<1> QED
  BY <1>1, <1>2, <1>3, <1>4, <1>5, TellingEnds

LEMMA UserKeepsShow ==
  ASSUME Sound, NEW p \in Peers, PresenceComes(p), NEW q \in Peers,
         UpsertContact(q) \/ \E k \in {"Direct", "MultiUserChat"} : SendMessage(q, k)
  PROVE  PresenceComes(p)'
<1> DEFINE E == Event(ghost.texts, ghost.got)  S == Stanza(ghost.texts, ghost.got)  n == <<>>
<1>1. /\ down' = down /\ events' = events /\ ghost'.told = ghost.told
  BY TypedFields DEF UpsertContact, SendMessage, Sound
<1>2. down \in Seq(S) /\ events \in Seq(E) /\ DOMAIN contacts \subseteq Peers
  BY QueuesTyped DEF Sound, Typed, TypeOK
<1>3. Noticed(p) => Noticed(p)'
  <2>1. CASE UpsertContact(q)
    <3> DEFINE v == [presence |-> "Offline", subscription |-> "None"]
    <3>1. contacts' = Put(contacts, q, v)
      BY <2>1 DEF UpsertContact
    <3> HIDE DEF v
    <3>2. /\ DOMAIN contacts' = DOMAIN contacts \cup {q}
          /\ \A x \in DOMAIN contacts : x # q => contacts'[x] = contacts[x]
      BY <3>1 DEF Put
    <3>3. ghost'.hidden = ghost.hidden \cup {q}
      <4> DEFINE w == ghost.written + 1  h == ghost.hidden \cup {q}  d == ghost.edited \cup {q}
      <4>1. ghost' = [ghost EXCEPT !.written = w, !.hidden = h, !.edited = d]
        BY <2>1 DEF UpsertContact
      <4> HIDE DEF w, h, d
      <4>2. ghost'.hidden = h
        BY <4>1, TypedFields DEF Sound
      <4> QED
        BY <4>2 DEF h
    <3> QED
      BY <1>1, <3>2, <3>3 DEF Noticed
  <2>2. CASE \E k \in {"Direct", "MultiUserChat"} : SendMessage(q, k)
    <3>1. contacts' = contacts /\ ghost'.hidden = ghost.hidden
      BY <2>2, TypedFields DEF SendMessage, Sound
    <3> QED
      BY <1>1, <3>1 DEF Noticed
  <2> QED
    BY <2>1, <2>2
<1>4. n \in Seq(E) /\ n \in Seq(S) /\ DOMAIN n = {} /\ events \o n = events /\ down \o n = down
  BY <1>2, NoneFacts, ConcatEmptySeq
<1> HIDE DEF E, S, n
<1>5. /\ events' = events \o n /\ down' = down \o n /\ ghost'.told[p] = ghost.told[p]
      /\ \A i \in DOMAIN n : n[i].is \in NoShowEvents
      /\ NoShow(n, p)
  BY <1>1, <1>4 DEF NoShow
<1> QED
  BY <1>2, <1>3, <1>4, <1>5, ShowUntouched

LEMMA SessionKeepsShow ==
  ASSUME Sound, NEW p \in Peers, PresenceComes(p), HandleOnline \/ HandleDisconnected
  PROVE  PresenceComes(p)'
<1> DEFINE E == Event(ghost.texts, ghost.got)  S == Stanza(ghost.texts, ghost.got)  n == <<>>
           c == StreamCapabilities'  e == [is |-> "Disconnected"]  o == <<e>>
           b == [is |-> "Connected", capabilities |-> c]  a == <<b>>
<1>0. down \in Seq(S) /\ events \in Seq(E) /\ e \in E
  BY QueuesTyped DEF Event
<1>1. n \in Seq(S) /\ DOMAIN n = {} /\ down \o n = down
  BY <1>0, NoneFacts, ConcatEmptySeq
<1>2. CASE HandleOnline
  <2>1. /\ a \in Seq(E) /\ events' = events \o a
        /\ ghost'.hidden = ghost.hidden /\ contacts' = contacts
    BY <1>2, OnlineAdds
  <2>2. (down' = down /\ ghost'.told = ghost.told) \/ ghost'.told = NothingTold
    BY <1>2, OnlineAdds
  <2>3. \A i \in DOMAIN a : a[i].is \in NoShowEvents
    BY DEF NoShowEvents
  <2> HIDE DEF E, S, n, a
  <2>4. CASE down' = down /\ ghost'.told = ghost.told
    <3>1. /\ NoShow(n, p) /\ down' = down \o n /\ ghost'.told[p] = ghost.told[p]
          /\ Noticed(p) => Noticed(p)'
      BY <1>1, <2>1, <2>4 DEF NoShow, Noticed
    <3> QED
      BY <1>0, <1>1, <2>1, <2>3, <3>1, ShowUntouched
  <2>5. CASE ghost'.told = NothingTold
    BY <2>5 DEF NothingTold, PresenceComes
  <2> QED
    BY <2>2, <2>4, <2>5
<1>3. CASE HandleDisconnected
  <2>1. /\ events' = Append(events, e) /\ down' = down
        /\ ghost' = ghost /\ contacts' = contacts
    BY <1>3 DEF HandleDisconnected, core
  <2>2. e.is \in NoShowEvents
    BY DEF NoShowEvents
  <2> HIDE DEF E, S, n, e
  <2>3. o \in Seq(E) /\ DOMAIN o = {1} /\ o[1] = e /\ events' = events \o o
    BY <1>0, <2>1, OneFacts
  <2> HIDE DEF o
  <2>4. /\ NoShow(n, p) /\ down' = down \o n /\ ghost'.told[p] = ghost.told[p]
        /\ Noticed(p) => Noticed(p)'
        /\ \A i \in DOMAIN o : o[i].is \in NoShowEvents
    BY <1>1, <2>1, <2>2, <2>3 DEF NoShow, Noticed
  <2> QED
    BY <1>0, <1>1, <2>3, <2>4, ShowUntouched
<1> QED
  BY <1>2, <1>3

LEMMA WriteKeepsShow ==
  ASSUME Sound, NEW p \in Peers, PresenceComes(p), PeerWrites
  PROVE  PresenceComes(p)'
<1> DEFINE U == Stanza(ghost'.texts, ghost'.got)  E == Event(ghost.texts, ghost.got)  n == <<>>
<1>0. events \in Seq(E)
  BY QueuesTyped
<1>1. down \in Seq(U)
  BY WriteJoins
<1>2. PICK y \in Seq(U) : down' = down \o y /\ DOMAIN y = {1} /\ y[1].is = "message"
  BY WriteJoins
<1>3. UNCHANGED <<events, contacts>> /\ ghost'.hidden = ghost.hidden /\ ghost'.told = ghost.told
  BY WriteAdds DEF PeerWrites, core
<1>4. n \in Seq(E) /\ DOMAIN n = {} /\ events \o n = events
  BY <1>0, NoneFacts, ConcatEmptySeq
<1> HIDE DEF U, E, n
<1>5. /\ events' = events \o n /\ ghost'.told[p] = ghost.told[p]
      /\ Noticed(p) => Noticed(p)'
      /\ \A i \in DOMAIN n : n[i].is \in NoShowEvents
      /\ NoShow(y, p)
  BY <1>2, <1>3, <1>4 DEF Noticed, NoShow, Tells
<1> QED
  BY <1>0, <1>1, <1>2, <1>4, <1>5, ShowUntouched

LEMMA StepKeepsShow ==
  ASSUME Sound, SessionSound, NEW p \in Peers, PresenceComes(p), [Next]_vars
  PROVE  PresenceComes(p)'
<1>1. CASE SessionStep
  BY <1>1, StanzaKeepsShow, SessionKeepsShow DEF SessionStep
<1>2. CASE PollEvent
  BY <1>2, PollKeepsShow
<1>3. CASE UserStep
  BY <1>3, UserKeepsShow DEF UserStep
<1>4. CASE ServerStep
  BY <1>4, ServerKeepsShow, ChangeKeepsShow, PeerKeepsShow, WriteKeepsShow DEF ServerStep
<1>5. CASE UNCHANGED vars
  BY <1>5 DEF vars, core, PresenceComes, Noticed
<1> QED
  BY <1>1, <1>2, <1>3, <1>4, <1>5 DEF Next

PresenceArrives == \A p \in Peers : PresenceComes(p)

\* The last presence that the session was sent of a peer, by any of its
\* devices, is on its way with nothing behind it that undoes it, or with the
\* core, or the core had no contact for it or the user has replaced the contact
\* (translate_presence, update_contact_presence).
THEOREM PresenceInvariance == Spec => []PresenceArrives
<1>1. Init => PresenceArrives
  <2> SUFFICES ASSUME Init, NEW p \in Peers PROVE PresenceComes(p)
    BY DEF PresenceArrives
  <2>1. ghost.told[p] = "nothing"
    BY DEF Init, NothingTold
  <2> QED
    BY <2>1 DEF PresenceComes
<1>2. Sound /\ Discovering /\ PresenceArrives /\ [Next]_vars => PresenceArrives'
  BY StepKeepsShow DEF Discovering, PresenceArrives
<1> QED
  BY <1>1, <1>2, SoundInvariance, CapabilitiesInvariance, PTL DEF Spec

\* Once nothing is under way, a contact shows the last presence that the session
\* was sent of any device of the peer, as far as its roster entry stayed open,
\* unless the core had no contact for it when it came, or the user replaced the
\* contact since (translate_presence, update_contact_presence).
THEOREM LastPresencesAreShown == Spec => []LastPresenceIsShown
<1>1. PresenceArrives => LastPresenceIsShown
  <2> SUFFICES ASSUME PresenceArrives, Quiet, NEW p \in Peers, ghost.told[p] # "nothing"
               PROVE  Noticed(p)
    BY DEF LastPresenceIsShown, Noticed
  <2> DEFINE n == <<>>  v == ContactPresence(ghost.told[p])
  <2>1. events = n /\ down = n
    BY DEF Quiet
  <2>2. EventPresence(n, p, v) = n /\ StanzaPresence(n, p, v) = n
    BY DEF EventPresence, StanzaPresence
  <2>3. EndsWell(Noticed(p), n, n)
    BY <2>1, <2>2 DEF PresenceArrives, PresenceComes
  <2> QED
    BY <2>3, EndIsNow
<1> QED
  BY <1>1, PresenceInvariance, PTL

=============================================================================
