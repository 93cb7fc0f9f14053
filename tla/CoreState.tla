------------------------------- MODULE CoreState -------------------------------
(***************************************************************************)
(* The domain state of mindchat-core (MindChatCore, lib.rs) together with  *)
(* the snapshot that survives a process (persistence.rs): every operation  *)
(* of the core, the save of a snapshot, and the restart that rebuilds the  *)
(* core from the last saved one.  All of them run under the session lock,  *)
(* so each is one step.                                                    *)
(*                                                                         *)
(* Abstracted: names, titles, bodies, timestamps, proxies and the list of  *)
(* change notifications; input the core refuses changes nothing.           *)
(* Connection states and the blocking part of a flush are the matter of    *)
(* TransportSession.                                                       *)
(***************************************************************************)
EXTENDS Integers, FiniteSets, FiniteSetsExt, Functions

CONSTANTS
  Peers,          \* bare addresses of conversations
  RosterPeers,    \* bare addresses of contacts
  Capabilities,   \* the capabilities that servers may advertise
  MaxAccounts,    \* bound: account ids
  MaxConvs,       \* bound: conversation ids
  MaxMessages,    \* bound: message ids
  MaxReactions,   \* bound: reaction ids
  MaxBorn,        \* bound: messages created over all process runs
  MaxRestarts     \* bound: process restarts

ASSUME CoreAssumption ==
  /\ Capabilities \subseteq {"MultiUserChat", "MessageReactions", "HttpFileUpload"}
  /\ {MaxAccounts, MaxConvs, MaxMessages, MaxReactions, MaxBorn, MaxRestarts} \subseteq Nat

VARIABLES
  next,           \* next_account_id, next_conversation_id, ...
  accounts,       \* account id -> its capabilities
  contacts,       \* <<account id, address>> -> contact
  conversations,  \* conversation id -> conversation
  messages,       \* message id -> message
  reactions,      \* reaction id -> the message it is attached to
  disk,           \* the snapshot last saved, as a load will give it
  wire,           \* stanzas handed to a server, for which a receipt may come
  born,           \* number of messages created so far, over all runs
  restarts        \* number of restarts so far

state == <<next, accounts, contacts, conversations, messages, reactions>>
vars == <<state, disk, wire, born, restarts>>

-----------------------------------------------------------------------------
(* Data. *)

ConversationKind == {"Direct", "MultiUserChat"}
DeliveryState == {"Pending", "Failed", "Sent", "Delivered"}
Retryable == {"Pending", "Failed"}
NoReply == 0

AccountIds == 1..MaxAccounts
ConvIds == 1..MaxConvs
MessageIds == 1..MaxMessages
ReactionIds == 1..MaxReactions

Contact == [presence : {"Offline", "Online"}, subscription : {"None", "Mutual"}]
Conversation == [account : AccountIds, kind : ConversationKind, address : Peers, unread : Nat]
\* "stamp" names the message across restarts; the code has no such field.
Message == [conversation : ConvIds, outgoing : BOOLEAN, kind : {"Text", "Attachment"},
            delivery : DeliveryState, reply : MessageIds \cup {NoReply}, stamp : Nat]
Stanza == [account : AccountIds, address : Peers, id : MessageIds, stamp : Nat]

IsPartialFunction(f, D, R) == DOMAIN f \subseteq D /\ \A x \in DOMAIN f : f[x] \in R

Put(f, k, v) == [x \in DOMAIN f \cup {k} |-> IF x = k THEN v ELSE f[x]]

Snapshot == [accounts |-> accounts, contacts |-> contacts, conversations |-> conversations,
             messages |-> messages, reactions |-> reactions]

\* The references of a core or of a snapshot s, each to something s contains.
\* A reply stays in its conversation and answers an earlier message.
Resolves(s) ==
  /\ \A k \in DOMAIN s.contacts : k[1] \in DOMAIN s.accounts
  /\ \A c \in DOMAIN s.conversations : s.conversations[c].account \in DOMAIN s.accounts
  /\ \A m \in DOMAIN s.messages :
       /\ s.messages[m].conversation \in DOMAIN s.conversations
       /\ s.messages[m].reply # NoReply =>
            /\ s.messages[m].reply \in DOMAIN s.messages
            /\ s.messages[m].reply < m
            /\ s.messages[s.messages[m].reply].conversation = s.messages[m].conversation
  /\ \A r \in DOMAIN s.reactions : s.reactions[r] \in DOMAIN s.messages

\* Types of the core's maps; ids below their counters.
TypeOK ==
  /\ next \in [account : 1..(MaxAccounts + 1), conversation : 1..(MaxConvs + 1),
               message : 1..(MaxMessages + 1), reaction : 1..(MaxReactions + 1)]
  /\ IsPartialFunction(accounts, AccountIds, SUBSET Capabilities)
  /\ IsPartialFunction(contacts, AccountIds \X RosterPeers, Contact)
  /\ IsPartialFunction(conversations, ConvIds, Conversation)
  /\ IsPartialFunction(messages, MessageIds, Message)
  /\ IsPartialFunction(reactions, ReactionIds, MessageIds)
  /\ wire \subseteq Stanza
  /\ born \in 0..MaxBorn
  /\ restarts \in 0..MaxRestarts

Init ==
  /\ next = [account |-> 1, conversation |-> 1, message |-> 1, reaction |-> 1]
  /\ accounts = <<>>
  /\ contacts = <<>>
  /\ conversations = <<>>
  /\ messages = <<>>
  /\ reactions = <<>>
  /\ disk = Snapshot
  /\ wire = {}
  /\ born = 0
  /\ restarts = 0

Outside == <<disk, wire, born, restarts>>

-----------------------------------------------------------------------------
(* Accounts and roster. *)

AddAccount ==
  /\ next.account \in AccountIds
  /\ accounts' = Put(accounts, next.account, {})
  /\ next' = [next EXCEPT !.account = @ + 1]
  /\ UNCHANGED <<contacts, conversations, messages, reactions, Outside>>

\* A Connected or CapabilitiesDiscovered event replaces the capabilities.
SetCapabilities(a) ==
  /\ a \in DOMAIN accounts
  /\ \E caps \in SUBSET Capabilities : accounts' = [accounts EXCEPT ![a] = caps]
  /\ UNCHANGED <<next, contacts, conversations, messages, reactions, Outside>>

\* upsert_contact, from the user: it replaces the whole contact.
UpsertContact(a, j) ==
  /\ a \in DOMAIN accounts
  /\ contacts' = Put(contacts, <<a, j>>, [presence |-> "Offline", subscription |-> "None"])
  /\ UNCHANGED <<next, accounts, conversations, messages, reactions, Outside>>

PresenceOf(a, j) ==
  IF <<a, j>> \in DOMAIN contacts THEN contacts[<<a, j>>].presence ELSE "Offline"

\* sync_roster_contact, from the server: the known presence is kept.
SyncRosterContact(a, j) ==
  /\ a \in DOMAIN accounts
  /\ \E s \in {"None", "Mutual"} :
       contacts' = Put(contacts, <<a, j>>, [presence |-> PresenceOf(a, j), subscription |-> s])
  /\ UNCHANGED <<next, accounts, conversations, messages, reactions, Outside>>

RemoveContact(a, j) ==
  /\ <<a, j>> \in DOMAIN contacts
  /\ contacts' = Restrict(contacts, DOMAIN contacts \ {<<a, j>>})
  /\ UNCHANGED <<next, accounts, conversations, messages, reactions, Outside>>

UpdateContactPresence(a, j) ==
  /\ <<a, j>> \in DOMAIN contacts
  /\ \E p \in {"Offline", "Online"} : contacts' = [contacts EXCEPT ![<<a, j>>].presence = p]
  /\ UNCHANGED <<next, accounts, conversations, messages, reactions, Outside>>

-----------------------------------------------------------------------------
(* Conversations and messages. *)

ConvsWith(a, k, j) ==
  {c \in DOMAIN conversations : /\ conversations[c].account = a
                                /\ conversations[c].kind = k
                                /\ conversations[c].address = j}

NewConversation(a, k, j) == [account |-> a, kind |-> k, address |-> j, unread |-> 0]
NewMessage(c, out, reply) ==
  [conversation |-> c, outgoing |-> out, kind |-> "Text",
   delivery |-> IF out THEN "Pending" ELSE "Delivered", reply |-> reply, stamp |-> born + 1]

CanWrite == next.message \in MessageIds /\ born < MaxBorn
HasCapability(c, cap) == cap \in accounts[conversations[c].account]

\* open_conversation of one that does not exist yet.
OpenConversation(a, k, j) ==
  /\ a \in DOMAIN accounts
  /\ k = "MultiUserChat" => "MultiUserChat" \in accounts[a]
  /\ ConvsWith(a, k, j) = {}
  /\ next.conversation \in ConvIds
  /\ conversations' = Put(conversations, next.conversation, NewConversation(a, k, j))
  /\ next' = [next EXCEPT !.conversation = @ + 1]
  /\ UNCHANGED <<accounts, contacts, messages, reactions, Outside>>

\* Variant: writing a message counts as unread too.
SendTextTouching(c) ==
  /\ c \in DOMAIN conversations
  /\ CanWrite
  /\ messages' = Put(messages, next.message, NewMessage(c, TRUE, NoReply))
  /\ conversations' = [conversations EXCEPT ![c].unread = @ + 1]
  /\ next' = [next EXCEPT !.message = @ + 1]
  /\ born' = born + 1
  /\ UNCHANGED <<accounts, contacts, reactions, disk, wire, restarts>>

\* send_text: a new pending message, perhaps in reply to one of its
\* conversation.
SendText(c) ==
  /\ c \in DOMAIN conversations
  /\ CanWrite
  /\ \E reply \in {NoReply} \cup {m \in DOMAIN messages : messages[m].conversation = c} :
       messages' = Put(messages, next.message, NewMessage(c, TRUE, reply))
  /\ next' = [next EXCEPT !.message = @ + 1]
  /\ born' = born + 1
  /\ UNCHANGED <<accounts, contacts, conversations, reactions, disk, wire, restarts>>

\* Variant: every incoming message opens a conversation of its own.
ReceiveTextUnmatched(a, k, j) ==
  /\ a \in DOMAIN accounts
  /\ CanWrite
  /\ next.conversation \in ConvIds
  /\ conversations' = Put(conversations, next.conversation,
                          [NewConversation(a, k, j) EXCEPT !.unread = 1])
  /\ messages' = Put(messages, next.message, NewMessage(next.conversation, FALSE, NoReply))
  /\ next' = [next EXCEPT !.message = @ + 1, !.conversation = @ + 1]
  /\ born' = born + 1
  /\ UNCHANGED <<accounts, contacts, reactions, disk, wire, restarts>>

\* receive_transport_text: the conversation with the sender is found or made,
\* the message is added and counted as unread.
ReceiveText(a, k, j) ==
  /\ a \in DOMAIN accounts
  /\ CanWrite
  /\ \E c \in IF ConvsWith(a, k, j) # {} THEN ConvsWith(a, k, j) ELSE {next.conversation} :
       LET conv == IF c \in DOMAIN conversations THEN conversations[c] ELSE NewConversation(a, k, j)
       IN /\ c \in ConvIds
          /\ conversations' = Put(conversations, c, [conv EXCEPT !.unread = @ + 1])
          /\ messages' = Put(messages, next.message, NewMessage(c, FALSE, NoReply))
          /\ next' = [next EXCEPT !.message = @ + 1,
                                  !.conversation = IF c = @ THEN @ + 1 ELSE @]
  /\ born' = born + 1
  /\ UNCHANGED <<accounts, contacts, reactions, disk, wire, restarts>>

\* attach: needs the upload capability of the conversation's account.
Attach(m) ==
  /\ m \in DOMAIN messages
  /\ HasCapability(messages[m].conversation, "HttpFileUpload")
  /\ messages' = [messages EXCEPT ![m].kind = "Attachment"]
  /\ UNCHANGED <<next, accounts, contacts, conversations, reactions, Outside>>

AddReaction(m) ==
  /\ m \in DOMAIN messages
  /\ HasCapability(messages[m].conversation, "MessageReactions")
  /\ next.reaction \in ReactionIds
  /\ reactions' = Put(reactions, next.reaction, m)
  /\ next' = [next EXCEPT !.reaction = @ + 1]
  /\ UNCHANGED <<accounts, contacts, conversations, messages, Outside>>

MarkConversationRead(c) ==
  /\ c \in DOMAIN conversations
  /\ conversations' = [conversations EXCEPT ![c].unread = 0]
  /\ UNCHANGED <<next, accounts, contacts, messages, reactions, Outside>>

\* Variant: the reactions of the removed messages stay.
RemoveConversationsOnly(cs) ==
  LET ms == {m \in DOMAIN messages : messages[m].conversation \in cs}
  IN /\ conversations' = Restrict(conversations, DOMAIN conversations \ cs)
     /\ messages' = Restrict(messages, DOMAIN messages \ ms)
     /\ UNCHANGED reactions

\* remove_conversation_state of every conversation in cs.
RemoveConversations(cs) ==
  LET ms == {m \in DOMAIN messages : messages[m].conversation \in cs}
      rs == {r \in DOMAIN reactions : reactions[r] \in ms}
  IN /\ conversations' = Restrict(conversations, DOMAIN conversations \ cs)
     /\ messages' = Restrict(messages, DOMAIN messages \ ms)
     /\ reactions' = Restrict(reactions, DOMAIN reactions \ rs)

DeleteConversation(c) ==
  /\ c \in DOMAIN conversations
  /\ RemoveConversations({c})
  /\ UNCHANGED <<next, accounts, contacts, Outside>>

DeleteAccount(a) ==
  /\ a \in DOMAIN accounts
  /\ RemoveConversations({c \in DOMAIN conversations : conversations[c].account = a})
  /\ contacts' = Restrict(contacts, {k \in DOMAIN contacts : k[1] # a})
  /\ accounts' = Restrict(accounts, DOMAIN accounts \ {a})
  /\ UNCHANGED <<next, Outside>>

-----------------------------------------------------------------------------
(* Delivery. *)

\* Variant: everything the account wrote is sent again.
OutboxOfAll(a) ==
  {m \in DOMAIN messages : /\ messages[m].outgoing
                           /\ conversations[messages[m].conversation].account = a}

\* pending_outgoing_messages.
Outbox(a) ==
  {m \in DOMAIN messages : /\ messages[m].outgoing
                           /\ messages[m].delivery \in Retryable
                           /\ conversations[messages[m].conversation].account = a}

\* One send of flush_outbox.  A send that fails may have put its stanza on the
\* way all the same.
FlushOne(a) ==
  /\ Outbox(a) # {}
  /\ LET m == Min(Outbox(a))
         stanza == [account |-> a, address |-> conversations[messages[m].conversation].address,
                    id |-> m, stamp |-> messages[m].stamp]
     IN \/ /\ messages' = [messages EXCEPT ![m].delivery = "Sent"]
           /\ wire' = wire \cup {stanza}
        \/ /\ messages' = [messages EXCEPT ![m].delivery = "Failed"]
           /\ wire' \in {wire, wire \cup {stanza}}
  /\ UNCHANGED <<next, accounts, contacts, conversations, reactions, disk, born, restarts>>

Rank == [s \in DeliveryState |->
           CASE s = "Pending" -> 0 [] s = "Failed" -> 1 [] s = "Sent" -> 2 [] OTHER -> 3]

\* Variant: a receipt of any address counts.
AcknowledgesAnyone(s) ==
  /\ s.account \in DOMAIN accounts
  /\ s.id \in DOMAIN messages
  /\ messages[s.id].outgoing
  /\ conversations[messages[s.id].conversation].account = s.account
  /\ Rank["Delivered"] > Rank[messages[s.id].delivery]

\* apply_delivery_update: only the peer of a direct conversation of the account
\* acknowledges, and only a strict advance counts.
Acknowledges(s) ==
  /\ s.account \in DOMAIN accounts
  /\ s.id \in DOMAIN messages
  /\ messages[s.id].outgoing
  /\ LET c == conversations[messages[s.id].conversation]
     IN c.account = s.account /\ c.kind = "Direct" /\ c.address = s.address
  /\ Rank["Delivered"] > Rank[messages[s.id].delivery]

\* A receipt quotes the account it arrives on, the address it comes from and
\* the id of a stanza that reached the peer.
ReceiptArrives ==
  /\ \E s \in wire :
       Acknowledges(s) /\ messages' = [messages EXCEPT ![s.id].delivery = "Delivered"]
  /\ UNCHANGED <<next, accounts, contacts, conversations, reactions, Outside>>

-----------------------------------------------------------------------------
(* Persistence. *)

\* sanitize_snapshot, which every load applies to what it read.
Sanitized(s) ==
  [s EXCEPT !.accounts = [a \in DOMAIN @ |-> {}],
            !.contacts = [k \in DOMAIN @ |-> [@[k] EXCEPT !.presence = "Offline"]]]

\* The file is kept as a load will give it: nothing else reads it.
\* Bound: a save that no restart can read any more is left out.
Save ==
  /\ restarts < MaxRestarts
  /\ disk' = Sanitized(Snapshot)
  /\ UNCHANGED <<state, wire, born, restarts>>

\* Variant: the counter continues with the largest id in use.
BehindNot(S) == Max(S \cup {0})
\* Variant: it continues behind the number of ids in use.
BehindCount(S) == Cardinality(S) + 1
\* from_snapshot: each counter continues behind the largest id in use.
Behind(S) == Max(S \cup {0}) + 1

\* The process ends, whatever was not saved is lost, and a new one loads the
\* snapshot.
Restart ==
  /\ restarts < MaxRestarts
  /\ restarts' = restarts + 1
  /\ accounts' = disk.accounts
  /\ contacts' = disk.contacts
  /\ conversations' = disk.conversations
  /\ messages' = disk.messages
  /\ reactions' = disk.reactions
  /\ next' = [account |-> Behind(DOMAIN disk.accounts),
              conversation |-> Behind(DOMAIN disk.conversations),
              message |-> Behind(DOMAIN disk.messages),
              reaction |-> Behind(DOMAIN disk.reactions)]
  /\ UNCHANGED <<disk, wire, born>>

RosterStep ==
  \E a \in AccountIds, j \in RosterPeers :
    \/ UpsertContact(a, j) \/ SyncRosterContact(a, j)
    \/ RemoveContact(a, j) \/ UpdateContactPresence(a, j)

AccountStep ==
  \/ AddAccount
  \/ \E a \in AccountIds : SetCapabilities(a) \/ DeleteAccount(a)

ConversationStep ==
  \/ \E a \in AccountIds, k \in ConversationKind, j \in Peers :
       OpenConversation(a, k, j) \/ ReceiveText(a, k, j)
  \/ \E c \in ConvIds : SendText(c) \/ MarkConversationRead(c) \/ DeleteConversation(c)
  \/ \E m \in MessageIds : Attach(m) \/ AddReaction(m)

DeliveryStep == (\E a \in AccountIds : FlushOne(a)) \/ ReceiptArrives

Next == \/ AccountStep \/ RosterStep \/ ConversationStep \/ DeliveryStep
        \/ Save \/ Restart

Spec == Init /\ [][Next]_vars

-----------------------------------------------------------------------------
(* Properties. *)

\* Nothing in the core or in its snapshot refers to something deleted: the
\* cascades of delete_account and delete_conversation leave no orphan, and no
\* step between a save and a restart can (remove_conversation_state).
EveryReferenceResolves == Resolves(Snapshot) /\ Resolves(disk)

\* A new id never falls on a stored one, before and after a restart: nothing is
\* overwritten by an allocation (allocate_*_id, from_snapshot).
IdsAreFresh ==
  /\ \A a \in DOMAIN accounts : a < next.account
  /\ \A c \in DOMAIN conversations : c < next.conversation
  /\ \A m \in DOMAIN messages : m < next.message
  /\ \A r \in DOMAIN reactions : r < next.reaction

\* Both ways of making a conversation agree on who has one: the lookup of
\* open_conversation and receive_transport_text never has a choice.
OneConversationPerPeer ==
  \A c, d \in DOMAIN conversations :
    /\ conversations[c].account = conversations[d].account
    /\ conversations[c].kind = conversations[d].kind
    /\ conversations[c].address = conversations[d].address
    => c = d

\* The unread badge never counts more than the incoming messages one can open
\* (touch_conversation and mark_conversation_read against the cascades).
UnreadIsExplained ==
  \A c \in DOMAIN conversations :
    conversations[c].unread
      <= Cardinality({m \in DOMAIN messages :
                        messages[m].conversation = c /\ ~messages[m].outgoing})

\* Within a process, a message that counts as sent is never offered to the
\* outbox again, nor is a receipt taken back (set_delivery_state).
DeliveryNeverRegresses ==
  [][restarts' = restarts =>
       \A m \in DOMAIN messages \cap DOMAIN messages' :
         messages[m].delivery \notin Retryable =>
           Rank[messages'[m].delivery] >= Rank[messages[m].delivery]]_vars

\* A message counts as sent or delivered only if its own stanza went out, and
\* as delivered only in a direct conversation: neither a group nor another
\* account acknowledges it (apply_delivery_update).
SentMeansWired ==
  \A m \in DOMAIN messages :
    messages[m].outgoing /\ messages[m].delivery \notin Retryable =>
      /\ \E s \in wire : s.stamp = messages[m].stamp
      /\ messages[m].delivery = "Delivered" =>
           conversations[messages[m].conversation].kind = "Direct"

\* "it may receive a receipt for an unknown, already-restored, or unrelated
\* message. Such receipts are ignored" (apply_delivery_update): the same across
\* restarts, where ids that were never saved are given out again.
UnrelatedReceiptIgnored == SentMeansWired

=============================================================================
