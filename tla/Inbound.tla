-------------------------------- MODULE Inbound --------------------------------
(***************************************************************************)
(* What a live session makes of the stanzas it receives: the worker's      *)
(* translation of rosters, presences, service discovery, messages and      *)
(* receipts into events, its answers to the server (xmpp.rs), and the      *)
(* core's projection of those events (lib.rs), for one account.            *)
(*                                                                         *)
(* The stream, the events and the requests are three queues; a loss keeps  *)
(* the two of the stream if it is resumed and empties them otherwise.  The *)
(* server and the peers are external: a peer is on several devices, each   *)
(* with a presence of its own; rosters come from the server alone; what a  *)
(* lost stream took is not delivered again.  Names, bodies, statuses and   *)
(* times are abstracted; a send that times out is a loss of the stream.    *)
(***************************************************************************)
EXTENDS Integers, FiniteSets, SequencesExt

CONSTANTS
  Peers,         \* bare addresses
  Devices,       \* resources under which a peer may be there
  Items,         \* roster entries a server may hold
  Shows,         \* presences a device may announce
  Announces,     \* namespaces that a server may announce; "stream-sm" in the stream, others by discovery
  Texts,         \* message stanzas that peers may send
  MaxSessions,   \* bound: sessions
  MaxEvents,     \* bound: events a poll leaves waiting while stanzas are handled
  MaxStanzas,    \* bound: changes of server and peers
  MaxWritten     \* bound: operations of the user

ASSUME InboundAssumption ==
  /\ Items \subseteq {"absent", "none", "ask", "to", "from", "both"}
  /\ Shows \subseteq {"chat", "away", "dnd", "unavailable", "subscribe"}
  /\ {MaxSessions, MaxEvents, MaxStanzas, MaxWritten} \subseteq Nat
  /\ IsFiniteSet(Peers) /\ IsFiniteSet(Devices) /\ "nobody" \notin Peers /\ "absent" \in Items /\ "unavailable" \in Shows

\* A peer of ours confirms a message by its receipt, and never one that it did
\* not get: whoever else writes may quote what he likes.
ASSUME TextsAssumption ==
  \A m \in Texts :
    /\ m.received \in Seq([form : STRING, number : Nat])
    /\ m.from \in Peers => \A k \in DOMAIN m.received : m.received[k].form # "mindchat"

VARIABLES
  down, up, events,  \* stanzas from and to the server, events to the core
  live,              \* session_live of the worker
  streamCaps,        \* stream_capabilities of the worker
  contacts,          \* the core: peer -> [presence, subscription]
  caps,              \* the core: capabilities of the account
  inbox,             \* the core: texts shown, by stamp
  out,               \* the core: outgoing messages; their ids are their numbers
  roster, shows, features, announced,  \* the server and the peers
  ghost              \* history: [sessions, sent, written, texts, lost, cut, acked, got, told, hidden, edited]

core == <<contacts, caps, inbox, out>>
server == <<roster, shows, features, announced>>
vars == <<down, up, events, live, streamCaps, core, server, ghost>>

Ids == 1..MaxWritten
Presences == {"Online", "Away", "DoNotDisturb", "Offline"}
Subscriptions == {"None", "Inbound", "Outbound", "Mutual", "PendingOutbound"}

\* Contacts, capabilities and messages have their types.
TypeOK ==
  /\ DOMAIN contacts \subseteq Peers
  /\ \A p \in DOMAIN contacts :
       contacts[p] \in [presence : Presences, subscription : Subscriptions]
  /\ \A i \in DOMAIN out :
       out[i] \in [peer : Peers, kind : {"Direct", "MultiUserChat"}, state : {"Sent", "Delivered"}]
  /\ live \in BOOLEAN /\ announced \in BOOLEAN
  /\ roster \in [Peers -> Items] /\ shows \in [Peers -> [Devices -> Shows]] /\ features \in Announces

NothingTold == [p \in Peers |-> "nothing"]

Init ==
  /\ down = <<>> /\ up = <<>> /\ events = <<>> /\ live = FALSE /\ streamCaps = {}
  /\ contacts = <<>> /\ caps = {} /\ inbox = <<>> /\ out = <<>>
  /\ roster \in [Peers -> Items] /\ shows \in [Peers -> [Devices -> Shows \ {"subscribe"}]]
  /\ features \in Announces /\ announced = FALSE
  /\ ghost = [sessions |-> 0, sent |-> 0, written |-> 0, texts |-> <<>>, lost |-> {}, cut |-> {}, acked |-> <<>>,
              got |-> {}, told |-> NothingTold, hidden |-> {}, edited |-> {}]

-----------------------------------------------------------------------------
(* Translations of the worker. *)

\* stream_capabilities_from_features.
StreamCapabilities == IF "stream-sm" \in features THEN {"StreamManagement"} ELSE {}

Capability == [muc |-> "MultiUserChat", mam |-> "MessageArchiveManagement", sm |-> "StreamManagement",
               upload |-> "HttpFileUpload", push |-> "PushNotifications", receipts |-> "Receipts",
               markers |-> "ChatMarkers", chatstates |-> "ChatStates", reactions |-> "MessageReactions",
               correct |-> "MessageCorrections", reply |-> "MessageReplies", omemo |-> "Omemo"]

\* capabilities_from_disco: features it does not know are left out.
CapabilitiesFromDisco(found) == {Capability[f] : f \in found \cap DOMAIN Capability}

RosterSubscription(item) ==
  CASE item = "to" -> "Inbound" [] item = "from" -> "Outbound" [] item = "both" -> "Mutual"
    [] item = "ask" -> "PendingOutbound" [] OTHER -> "None"

\* emit_roster: the items of a result or a push, in their order.
EmitRoster(items) ==
  [i \in DOMAIN items |->
     IF items[i].item = "absent" THEN [is |-> "RosterContactRemoved", jid |-> items[i].jid]
     ELSE [is |-> "RosterContactUpsert", jid |-> items[i].jid,
           subscription |-> RosterSubscription(items[i].item)]]

\* Variant: what is shown is taken as it came.
ContactPresenceRaw(show) == show

\* contact_presence of translate_presence.
ContactPresence(show) ==
  CASE show = "chat" -> "Online" [] show = "away" -> "Away" [] show = "dnd" -> "DoNotDisturb"
    [] show = "unavailable" -> "Offline"

\* Variant: the sender keeps its resource.
TranslatePresenceFull(s) ==
  IF s.show = "subscribe" THEN <<>>
  ELSE <<[is |-> "ContactPresenceUpdated", jid |-> s.from, presence |-> ContactPresence(s.show)]>>

\* translate_presence: of the sender only the bare address is left, whichever
\* device it is; other types are no presence.
TranslatePresence(s) ==
  IF s.show = "subscribe" THEN <<>>
  ELSE <<[is |-> "ContactPresenceUpdated", jid |-> s.from.bare, presence |-> ContactPresence(s.show)]>>

IsDirectReceiptMessage(m) == m.type \in {"chat", "normal"}

\* parse_receipt_message_id: "mindchat-" and a number that is not zero.
ParseReceiptMessageId(text) == IF text.form = "mindchat" THEN {text.number} \ {0} ELSE {}

\* The members of a finite set of numbers, from the smallest.
InOrder(S) ==
  [k \in 1..Cardinality(S) |-> CHOOSE i \in S : Cardinality({j \in S : j <= i}) = k]

\* translate_incoming_receipts: what does not parse is passed over.
TranslateIncomingReceipts(m) ==
  LET parsed == InOrder({i \in DOMAIN m.received : ParseReceiptMessageId(m.received[i]) # {}})
  IN IF ~IsDirectReceiptMessage(m) \/ m.from = "nobody" THEN <<>>
     ELSE [k \in DOMAIN parsed |-> [is |-> "DeliveryUpdated", sender |-> m.from,
                                    id |-> m.received[parsed[k]].number]]

\* Variant: a stanza with receipts has no text.
TranslateIncomingUnmixed(m) ==
  IF m.type # "chat" \/ m.from = "nobody" \/ m.body \in {"none", "blank"} \/ m.received # <<>> THEN <<>>
  ELSE <<[is |-> "IncomingText", sender |-> m.from, body |-> m.body, stamp |-> m.stamp]>>

\* translate_incoming_message.
TranslateIncomingMessage(m) ==
  IF m.type # "chat" \/ m.from = "nobody" \/ m.body \in {"none", "blank"} THEN <<>>
  ELSE <<[is |-> "IncomingText", sender |-> m.from, body |-> m.body, stamp |-> m.stamp]>>

\* Variant: only chat messages are acknowledged.
AcknowledgementOfChat(m) ==
  IF m.type # "chat" \/ ~m.request \/ m.from = "nobody" \/ m.id # "usable" THEN <<>>
  ELSE <<[is |-> "ack", of |-> m.stamp]>>

\* receipt_acknowledgement: whatever becomes of the text.
ReceiptAcknowledgement(m) ==
  IF ~IsDirectReceiptMessage(m) \/ ~m.request \/ m.from = "nobody" \/ m.id # "usable" THEN <<>>
  ELSE <<[is |-> "ack", of |-> m.stamp]>>

\* Variant: what discovery finds replaces what the stream announced.
EventsOfDiscoOnly(s) ==
  CASE s.is = "message" -> TranslateIncomingReceipts(s) \o TranslateIncomingMessage(s)
    [] s.is = "presence" -> TranslatePresence(s)
    [] s.is \in {"roster", "push"} -> EmitRoster(s.items)
    [] s.is = "disco" -> <<[is |-> "CapabilitiesDiscovered",
                            capabilities |-> CapabilitiesFromDisco(s.features)]>>

\* handle_client_event and handle_iq: the events a stanza leads to ...
EventsOf(s) ==
  CASE s.is = "message" -> TranslateIncomingReceipts(s) \o TranslateIncomingMessage(s)
    [] s.is = "presence" -> TranslatePresence(s)
    [] s.is \in {"roster", "push"} -> EmitRoster(s.items)
    [] s.is = "disco" -> <<[is |-> "CapabilitiesDiscovered",
                            capabilities |-> streamCaps \cup CapabilitiesFromDisco(s.features)]>>

\* ... and what it is answered with.
AnswersTo(s) ==
  CASE s.is = "message" -> ReceiptAcknowledgement(s)
    [] s.is = "push" -> <<[is |-> "result"]>>
    [] OTHER -> <<>>

HandleStanza ==
  /\ live /\ down # <<>> /\ Len(events) < MaxEvents
  /\ events' = events \o EventsOf(Head(down))
  /\ up' = up \o AnswersTo(Head(down))
  /\ down' = Tail(down)
  /\ UNCHANGED <<live, streamCaps, core, server, ghost>>

Requests == <<[is |-> "available"], [is |-> "getRoster"], [is |-> "getDisco"]>>
StampsIn(stream) == {m.stamp : m \in {s \in ToSet(stream) : s.is = "message"}}
AcksIn(stream) == {a.of : a \in {s \in ToSet(stream) : s.is = "ack"}}

\* Online: the stream begins anew, perhaps on a server with other features, or
\* is resumed with what was under way.
HandleOnline ==
  /\ ~live /\ ghost.sessions < MaxSessions
  /\ \E resumed \in IF ghost.sessions > 0 THEN BOOLEAN ELSE {FALSE} :
       /\ IF resumed THEN UNCHANGED <<features, down, announced>>
          ELSE features' \in Announces /\ down' = <<>> /\ announced' = FALSE
       /\ up' = (IF resumed THEN up ELSE <<>>) \o Requests
       /\ ghost' = [ghost EXCEPT !.sessions = @ + 1,
                                 !.told = IF resumed THEN @ ELSE NothingTold,
                                 !.lost = IF resumed THEN @ ELSE @ \cup StampsIn(down),
                                 !.cut = IF resumed THEN @ ELSE @ \cup StampsIn(down) \cup AcksIn(up)]
  /\ live' = TRUE
  /\ streamCaps' = StreamCapabilities'
  /\ events' = Append(events, [is |-> "Connected", capabilities |-> streamCaps'])
  /\ UNCHANGED <<core, roster, shows>>

HandleDisconnected ==
  /\ live /\ live' = FALSE
  /\ events' = Append(events, [is |-> "Disconnected"])
  /\ UNCHANGED <<down, up, streamCaps, core, server, ghost>>

-----------------------------------------------------------------------------
(* The core. *)

Put(f, k, v) == [x \in DOMAIN f \cup {k} |-> IF x = k THEN v ELSE f[x]]
ValidJid(j) == j \in Peers  \* validate_jid; a server's own address has no local part

\* Variant: what is known of a contact is not replaced.
SyncRosterContactOnce(e) ==
  IF e.jid \in DOMAIN contacts THEN contacts
  ELSE Put(contacts, e.jid, [subscription |-> e.subscription, presence |-> "Offline"])

\* Variant: a roster entry starts offline, as one that the user adds.
SyncRosterContactAnew(e) ==
  Put(contacts, e.jid, [subscription |-> e.subscription, presence |-> "Offline"])

\* sync_roster_contact keeps the presence.
SyncRosterContact(e) ==
  Put(contacts, e.jid,
      [subscription |-> e.subscription,
       presence |-> IF e.jid \in DOMAIN contacts THEN contacts[e.jid].presence ELSE "Offline"])

\* Variant: a receipt is matched by its id.
ReceivesReceiptById(e) == e.id \in DOMAIN out /\ out[e.id].state = "Sent"

\* apply_delivery_update.
ReceivesReceipt(e) ==
  /\ ValidJid(e.sender) /\ e.id \in DOMAIN out
  /\ out[e.id].kind = "Direct" /\ out[e.id].peer = e.sender
  /\ out[e.id].state = "Sent"

\* update_contact_presence ignores who is no contact.
UpdateContactPresence(e) ==
  IF e.jid \in DOMAIN contacts THEN [contacts EXCEPT ![e.jid].presence = e.presence] ELSE contacts

\* apply_transport_event.  A text that receive_transport_text refuses is an
\* error that poll_transport_events passes over.
PollEvent ==
  /\ events # <<>> /\ events' = Tail(events)
  /\ LET e == Head(events) IN
     /\ contacts' = CASE e.is = "RosterContactUpsert" -> SyncRosterContact(e)
                      [] e.is = "RosterContactRemoved" -> Restrict(contacts, DOMAIN contacts \ {e.jid})
                      [] e.is = "ContactPresenceUpdated" -> UpdateContactPresence(e)
                      [] OTHER -> contacts
     /\ caps' = IF e.is \in {"Connected", "CapabilitiesDiscovered"} THEN e.capabilities ELSE caps
     /\ inbox' = IF e.is = "IncomingText" /\ ValidJid(e.sender) /\ e.body # "long"
                 THEN Append(inbox, e.stamp) ELSE inbox
     /\ out' = IF e.is = "DeliveryUpdated" /\ ReceivesReceipt(e)
               THEN [out EXCEPT ![e.id].state = "Delivered"] ELSE out
     /\ ghost' = [ghost EXCEPT !.hidden =
                    IF e.is # "ContactPresenceUpdated" THEN @
                    ELSE IF e.jid \in DOMAIN contacts THEN @ \ {e.jid} ELSE @ \cup {e.jid},
                   !.edited = IF e.is = "RosterContactUpsert" THEN @ \ {e.jid} ELSE @]
  /\ UNCHANGED <<down, up, live, streamCaps, server>>

\* upsert_contact, as the user adds one.
UpsertContact(p) ==
  /\ ghost.written < MaxWritten
  /\ contacts' = Put(contacts, p, [presence |-> "Offline", subscription |-> "None"])
  /\ ghost' = [ghost EXCEPT !.written = @ + 1, !.hidden = @ \cup {p}, !.edited = @ \cup {p}]
  /\ UNCHANGED <<down, up, events, live, streamCaps, caps, inbox, out, server>>

\* A message of the user, written and handed over; build_message_stanza asks
\* for a receipt in a direct conversation only.
SendMessage(p, kind) ==
  /\ live /\ ghost.written < MaxWritten
  /\ out' = Append(out, [peer |-> p, kind |-> kind, state |-> "Sent"])
  /\ up' = Append(up, [is |-> "message", to |-> p, id |-> Len(out) + 1, request |-> kind = "Direct"])
  /\ ghost' = [ghost EXCEPT !.written = @ + 1]
  /\ UNCHANGED <<down, events, live, streamCaps, contacts, caps, inbox, server>>

-----------------------------------------------------------------------------
(* The server and the peers. *)

\* The server keeps a session that was lost until it begins anew.
Open == ghost.sessions > 0
Opening(item) == item \in {"to", "both"}
Visible(p) == Opening(roster[p])
PresenceOf(p, d, show) == [is |-> "presence", from |-> [bare |-> p, resource |-> d], show |-> show]

\* One presence of each device that is there.
PresencesOf(who) ==
  SetToSeq({PresenceOf(x[1], x[2], shows[x[1]][x[2]]) :
              x \in {x \in who \X Devices : shows[x[1]][x[2]] # "unavailable"}})

\* History: the last presence of each peer that the session was sent, by any device.
Tells(p, s) == s.is = "presence" /\ s.from.bare = p /\ s.show # "subscribe"
ToldBy(sent) ==
  [p \in Peers |-> LET about == {i \in DOMAIN sent : Tells(p, sent[i])}
                   IN IF about = {} THEN ghost.told[p] ELSE sent[Max(about)].show]

Stamped(m, n) ==
  [is |-> "message", from |-> m.from, type |-> m.type, body |-> m.body, request |-> m.request, id |-> m.id,
   received |-> m.received, stamp |-> n]
Receipt(p, i) ==
  [is |-> "message", from |-> p, type |-> "chat", body |-> "none", request |-> FALSE, id |-> "usable",
   received |-> <<[form |-> "mindchat", number |-> i]>>, stamp |-> 0]

ServerAnswers ==
  /\ up # <<>> /\ up' = Tail(up)
  /\ LET r == Head(up)
         opened == IF r.is = "available" /\ ~announced
                   THEN PresencesOf({p \in Peers : Visible(p)}) ELSE <<>>
         items == SetToSeq({p \in Peers : roster[p] # "absent"})
     IN /\ \/ r.is = "available" /\ down' = down \o opened
           \/ /\ r.is = "getRoster"
              /\ down' = Append(down, [is |-> "roster", items |->
                   [i \in DOMAIN items |-> [jid |-> items[i], item |-> roster[items[i]]]]])
           \/ r.is = "getDisco" /\ down' = Append(down, [is |-> "disco", features |-> features])
           \/ r.is = "message" /\ UNCHANGED down
           \/ r.is = "message" /\ r.request /\ down' = Append(down, Receipt(r.to, r.id))
           \/ r.is \in {"ack", "result"} /\ UNCHANGED down
        /\ announced' = (announced \/ r.is = "available")
        /\ ghost' = CASE r.is = "available" -> [ghost EXCEPT !.told = ToldBy(opened)]
                      [] r.is = "ack" -> [ghost EXCEPT !.acked = Append(@, r.of)]
                      [] r.is = "message" -> [ghost EXCEPT !.got = @ \cup {<<r.to, r.id>>}]
                      [] OTHER -> ghost
  /\ UNCHANGED <<events, live, streamCaps, core, roster, shows, features>>

\* A change of the roster is pushed to a session; the presences it opens are
\* told at once, and one that it closes no more.
RosterChanges(p) ==
  /\ ghost.sent < MaxStanzas
  /\ \E item \in Items \ {roster[p]} :
       LET opened == IF announced /\ ~Visible(p) /\ Opening(item) THEN PresencesOf({p}) ELSE <<>>
       IN /\ roster' = [roster EXCEPT ![p] = item]
          /\ down' = IF ~Open THEN down
                     ELSE down \o <<[is |-> "push", items |-> <<[jid |-> p, item |-> item]>>]>> \o opened
          /\ ghost' = [ghost EXCEPT !.sent = @ + 1,
                          !.told = IF Opening(item) THEN ToldBy(opened) ELSE [@ EXCEPT ![p] = "nothing"]]
  /\ UNCHANGED <<up, events, live, streamCaps, core, shows, features, announced>>

PeerShows(p, d) ==
  /\ ghost.sent < MaxStanzas
  /\ \E show \in Shows \ ({shows[p][d]} \cap {"unavailable"}) :
       LET sent == IF announced /\ (Visible(p) \/ show = "subscribe")
                   THEN <<PresenceOf(p, d, show)>> ELSE <<>>
       IN /\ shows' = IF show = "subscribe" THEN shows ELSE [shows EXCEPT ![p][d] = show]
          /\ down' = down \o sent
          /\ ghost' = [ghost EXCEPT !.sent = @ + 1, !.told = ToldBy(sent)]
  /\ UNCHANGED <<up, events, live, streamCaps, core, roster, features, announced>>

PeerWrites ==
  /\ Open /\ ghost.sent < MaxStanzas
  /\ \E m \in Texts :
       /\ down' = Append(down, Stamped(m, Len(ghost.texts) + 1))
       /\ ghost' = [ghost EXCEPT !.sent = @ + 1, !.texts = Append(@, m)]
  /\ UNCHANGED <<up, events, live, streamCaps, core, server>>

-----------------------------------------------------------------------------

SessionStep == HandleStanza \/ HandleOnline \/ HandleDisconnected
UserStep == \E p \in Peers : UpsertContact(p) \/ \E k \in {"Direct", "MultiUserChat"} : SendMessage(p, k)
ServerStep == ServerAnswers \/ PeerWrites
              \/ \E p \in Peers : RosterChanges(p) \/ \E d \in Devices : PeerShows(p, d)

Next == SessionStep \/ PollEvent \/ UserStep \/ ServerStep

Spec == Init /\ [][Next]_vars

-----------------------------------------------------------------------------
(* Properties. *)

Quiet == live /\ down = <<>> /\ up = <<>> /\ events = <<>>

\* Once nothing is under way, whoever is on the server's roster is a contact,
\* with the subscription the server holds unless the user has replaced the
\* contact: results and pushes, of this session and of the one before, cannot
\* leave an older entry behind (handle_iq, emit_roster, sync_roster_contact).
RosterIsComplete ==
  Quiet => \A p \in Peers : roster[p] # "absent" =>
    /\ p \in DOMAIN contacts
    /\ contacts[p].subscription = RosterSubscription(roster[p]) \/ p \in ghost.edited

\* Once nothing is under way, a contact shows the last presence that the session
\* was sent of any device of the peer, as far as its roster entry stayed open,
\* unless the core had no contact for it when it came, or the user replaced the
\* contact since (translate_presence, update_contact_presence).
LastPresenceIsShown ==
  Quiet => \A p \in Peers :
    ghost.told[p] # "nothing" /\ p \notin ghost.hidden =>
      p \in DOMAIN contacts /\ contacts[p].presence = ContactPresence(ghost.told[p])

\* An account that has caught up offers nothing that its present stream and
\* server did not announce, and in the end all of it: what an earlier session
\* discovered does not stay (handle_client_event, handle_iq).
CapabilitiesAreCurrent ==
  /\ live /\ events = <<>> => caps \subseteq streamCaps \cup CapabilitiesFromDisco(features)
  /\ Quiet => caps = StreamCapabilities \cup CapabilitiesFromDisco(features)

Shown(m) == m.type = "chat" /\ m.from \in Peers /\ m.body = "text"

\* Texts are shown in the order they were sent, none twice, and once nothing is
\* under way all of them but those that a stream took with it, also one that
\* brings a receipt with it (translate_incoming_message, poll_transport_events).
TextsAreShownOnce ==
  /\ \A i, j \in DOMAIN inbox : i < j => inbox[i] < inbox[j]
  /\ Quiet => \A n \in DOMAIN ghost.texts :
       Shown(ghost.texts[n]) /\ n \notin ghost.lost => n \in ToSet(inbox)

\* An outgoing message counts as delivered only if its own peer got it, in a
\* direct conversation, whatever ids others quote
\* (translate_incoming_receipts, apply_delivery_update).
DeliveredMeansReceived ==
  \A i \in DOMAIN out : out[i].state = "Delivered" =>
    out[i].kind = "Direct" /\ <<out[i].peer, i>> \in ghost.got

\* Whoever asks for a receipt gets one, once, also for a stanza that shows
\* nothing (receipt_acknowledgement).
RequestsAreAnswered ==
  /\ \A i, j \in DOMAIN ghost.acked : i # j => ghost.acked[i] # ghost.acked[j]
  /\ Quiet => \A n \in DOMAIN ghost.texts :
       LET m == ghost.texts[n]
       IN m.type \in {"chat", "normal"} /\ m.request /\ m.id = "usable" /\ m.from # "nobody" /\ n \notin ghost.cut
            => n \in ToSet(ghost.acked)

\* A presence that update_contact_presence ignores comes from no one on the
\* roster ("Directed presence from a non-roster JID is intentionally ignored so
\* it cannot create an unrequested contact projection").
IgnoredIsNoContact ==
  [][events # <<>> /\ events' = Tail(events) /\ Head(events).is = "ContactPresenceUpdated" =>
       Head(events).jid \in DOMAIN contacts \/ roster[Head(events).jid] = "absent"]_vars

\* Who is shown offline is there on no device.  It does not hold: the sign-off of
\* one device hides the others (translate_presence).
OfflineMeansGone ==
  Quiet => \A p \in Peers :
    ghost.told[p] # "nothing" /\ p \notin ghost.hidden /\ contacts[p].presence = "Offline" =>
      \A d \in Devices : shows[p][d] = "unavailable"

=============================================================================
