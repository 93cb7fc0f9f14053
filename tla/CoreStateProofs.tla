---------------------------- MODULE CoreStateProofs ----------------------------
(***************************************************************************)
(* Proofs about CoreState, for any peers, capabilities and bounds.         *)
(*                                                                         *)
(* The core is rebuilt from its snapshot, so whatever a step relies on in  *)
(* the core must hold of the snapshot too: the inductive invariant states  *)
(* types, references, the uniqueness of conversations and the unread       *)
(* counts of both.                                                         *)
(***************************************************************************)
EXTENDS CoreState, NumberLemmas, FiniteSetTheorems

(* The references of the core, one kind at a time. *)

ContactsResolve == \A k \in DOMAIN contacts : k[1] \in DOMAIN accounts

ConversationsResolve == \A c \in DOMAIN conversations : conversations[c].account \in DOMAIN accounts

MessagesResolve == \A m \in DOMAIN messages : messages[m].conversation \in DOMAIN conversations

RepliesResolve ==
  \A m \in DOMAIN messages :
    messages[m].reply # NoReply =>
      /\ messages[m].reply \in DOMAIN messages
      /\ messages[m].reply < m
      /\ messages[messages[m].reply].conversation = messages[m].conversation

ReactionsResolve == \A r \in DOMAIN reactions : reactions[r] \in DOMAIN messages

CoreResolves == /\ ContactsResolve /\ ConversationsResolve
                /\ MessagesResolve /\ RepliesResolve /\ ReactionsResolve

Incoming(ms, c) == {m \in DOMAIN ms : ms[m].conversation = c /\ ~ms[m].outgoing}

(* What a load may rely on. *)

SnapshotTyped(s) ==
  /\ IsPartialFunction(s.accounts, AccountIds, SUBSET Capabilities)
  /\ IsPartialFunction(s.contacts, AccountIds \X RosterPeers, Contact)
  /\ IsPartialFunction(s.conversations, ConvIds, Conversation)
  /\ IsPartialFunction(s.messages, MessageIds, Message)
  /\ IsPartialFunction(s.reactions, ReactionIds, MessageIds)

SnapshotUnique(s) ==
  \A c, d \in DOMAIN s.conversations :
    /\ s.conversations[c].account = s.conversations[d].account
    /\ s.conversations[c].kind = s.conversations[d].kind
    /\ s.conversations[c].address = s.conversations[d].address
    => c = d

SnapshotExplained(s) ==
  \A c \in DOMAIN s.conversations :
    s.conversations[c].unread <= Cardinality(Incoming(s.messages, c))

SnapshotSound(s) ==
  SnapshotTyped(s) /\ Resolves(s) /\ SnapshotUnique(s) /\ SnapshotExplained(s)

IInv == /\ TypeOK
        /\ CoreResolves
        /\ IdsAreFresh
        /\ OneConversationPerPeer
        /\ UnreadIsExplained
        /\ SnapshotSound(disk)

-----------------------------------------------------------------------------
(* Partial functions. *)

USE CoreAssumption

LEMMA RestrictMap ==
  ASSUME NEW D, NEW R, NEW f, IsPartialFunction(f, D, R), NEW S \in SUBSET DOMAIN f
  PROVE  /\ IsPartialFunction(Restrict(f, S), D, R)
         /\ DOMAIN Restrict(f, S) = S
         /\ \A x \in S : Restrict(f, S)[x] = f[x]
  BY DEF IsPartialFunction, Restrict

LEMMA UpdateMap ==
  ASSUME NEW D, NEW R, NEW f, IsPartialFunction(f, D, R), NEW k \in DOMAIN f, NEW v \in R
  PROVE  /\ IsPartialFunction([f EXCEPT ![k] = v], D, R)
         /\ DOMAIN [f EXCEPT ![k] = v] = DOMAIN f
         /\ [f EXCEPT ![k] = v][k] = v
         /\ \A x \in DOMAIN f : x # k => [f EXCEPT ![k] = v][x] = f[x]
  BY DEF IsPartialFunction

\* The incoming messages of a conversation are finitely many.
LEMMA IncomingFinite ==
  ASSUME NEW ms, DOMAIN ms \subseteq MessageIds, NEW c
  PROVE  IsFiniteSet(Incoming(ms, c)) /\ Cardinality(Incoming(ms, c)) \in Nat
<1>1. IsFiniteSet(MessageIds)
  BY FS_Interval DEF MessageIds
<1>2. Incoming(ms, c) \subseteq MessageIds
  BY DEF Incoming
<1>3. IsFiniteSet(Incoming(ms, c))
  BY <1>1, <1>2, FS_Subset
<1> QED
  BY <1>3, FS_CardinalityType

LEMMA UnreadOfIncoming ==
  UnreadIsExplained <=>
    \A c \in DOMAIN conversations : conversations[c].unread <= Cardinality(Incoming(messages, c))
  BY DEF UnreadIsExplained, Incoming

-----------------------------------------------------------------------------
(* Accounts and roster. *)

ContactsOnly == UNCHANGED <<next, accounts, conversations, messages, reactions, disk, wire, born, restarts>>

LEMMA ContactsInv ==
  ASSUME IInv, ContactsOnly,
         IsPartialFunction(contacts', AccountIds \X RosterPeers, Contact),
         \A k \in DOMAIN contacts' : k \in DOMAIN contacts \/ k[1] \in DOMAIN accounts
  PROVE  IInv'
<1> USE DEF IInv, ContactsOnly
<1>1. TypeOK'
  BY DEF TypeOK
<1>2. CoreResolves'
  BY DEF CoreResolves, ContactsResolve, ConversationsResolve, MessagesResolve, RepliesResolve,
         ReactionsResolve
<1>3. IdsAreFresh' /\ OneConversationPerPeer'
  BY DEF IdsAreFresh, OneConversationPerPeer
<1>4. UnreadIsExplained'
  BY DEF UnreadIsExplained
<1>5. SnapshotSound(disk)'
  OBVIOUS
<1> QED
  BY <1>1, <1>2, <1>3, <1>4, <1>5

LEMMA RosterStepInv ==
  ASSUME IInv, RosterStep
  PROVE  IInv'
<1>1. PICK a \in AccountIds, j \in RosterPeers :
        \/ UpsertContact(a, j) \/ SyncRosterContact(a, j)
        \/ RemoveContact(a, j) \/ UpdateContactPresence(a, j)
  BY DEF RosterStep
<1>2. /\ IsPartialFunction(contacts, AccountIds \X RosterPeers, Contact)
      /\ <<a, j>> \in AccountIds \X RosterPeers /\ <<a, j>>[1] = a
  BY DEF IInv, TypeOK
<1>3. CASE UpsertContact(a, j) \/ SyncRosterContact(a, j)
  <2>1. PresenceOf(a, j) \in {"Offline", "Online"}
    BY <1>2 DEF PresenceOf, IsPartialFunction, Contact
  <2>2. PICK c \in Contact : contacts' = Put(contacts, <<a, j>>, c)
    BY <1>3, <2>1 DEF UpsertContact, SyncRosterContact, Contact
  <2>3. a \in DOMAIN accounts /\ ContactsOnly
    BY <1>3 DEF UpsertContact, SyncRosterContact, ContactsOnly, Outside
  <2>4. /\ IsPartialFunction(contacts', AccountIds \X RosterPeers, Contact)
        /\ DOMAIN contacts' = DOMAIN contacts \cup {<<a, j>>}
    <3> DEFINE k == <<a, j>>
    <3>1. contacts' = Put(contacts, k, c) /\ k \in AccountIds \X RosterPeers
      BY <1>2, <2>2
    <3> HIDE DEF k
    <3>2. /\ IsPartialFunction(contacts', AccountIds \X RosterPeers, Contact)
          /\ DOMAIN contacts' = DOMAIN contacts \cup {k}
      BY <1>2, <3>1 DEF Put, IsPartialFunction
    <3> QED
      BY <3>2 DEF k
  <2> QED
    BY <1>2, <2>3, <2>4, ContactsInv
<1>4. CASE RemoveContact(a, j)
  <2>1. contacts' = Restrict(contacts, DOMAIN contacts \ {<<a, j>>}) /\ ContactsOnly
    BY <1>4 DEF RemoveContact, ContactsOnly, Outside
  <2>2. /\ IsPartialFunction(contacts', AccountIds \X RosterPeers, Contact)
        /\ DOMAIN contacts' = DOMAIN contacts \ {<<a, j>>}
    BY <1>2, <2>1, RestrictMap
  <2> QED
    BY <2>1, <2>2, ContactsInv
<1>5. CASE UpdateContactPresence(a, j)
  <2>1. /\ <<a, j>> \in DOMAIN contacts /\ ContactsOnly
    BY <1>5 DEF UpdateContactPresence, ContactsOnly, Outside
  <2>2. PICK p \in {"Offline", "Online"} :
          contacts' = [contacts EXCEPT ![<<a, j>>] = [contacts[<<a, j>>] EXCEPT !.presence = p]]
    BY <1>5 DEF UpdateContactPresence
  <2>3. contacts[<<a, j>>] \in Contact
    BY <1>2, <2>1 DEF IsPartialFunction
  <2>4. [contacts[<<a, j>>] EXCEPT !.presence = p] \in Contact
    BY <2>3 DEF Contact
  <2>5. /\ IsPartialFunction(contacts', AccountIds \X RosterPeers, Contact)
        /\ DOMAIN contacts' = DOMAIN contacts
    <3> DEFINE k == <<a, j>>
               v == [contacts[k] EXCEPT !.presence = p]
    <3>1. contacts' = [contacts EXCEPT ![k] = v] /\ k \in DOMAIN contacts /\ v \in Contact
      BY <2>1, <2>2, <2>4
    <3> HIDE DEF k, v
    <3> QED
      BY <1>2, <3>1, UpdateMap
  <2> QED
    BY <2>1, <2>5, ContactsInv
<1> QED
  BY <1>1, <1>3, <1>4, <1>5

\* What the type invariant says of the counters and of the bounds.
LEMMA Counters ==
  ASSUME TypeOK
  PROVE  /\ next.account \in Nat /\ next.conversation \in Nat
         /\ next.message \in Nat /\ next.reaction \in Nat
         /\ MaxAccounts \in Nat /\ MaxConvs \in Nat /\ MaxMessages \in Nat /\ MaxReactions \in Nat
  BY DEF TypeOK

\* A counter that allocates an id within its bound stays within it.
LEMMA CountersAdvance ==
  ASSUME TypeOK
  PROVE  LET T == [account : 1..(MaxAccounts + 1), conversation : 1..(MaxConvs + 1),
                   message : 1..(MaxMessages + 1), reaction : 1..(MaxReactions + 1)]
         IN /\ next.account \in AccountIds => [next EXCEPT !.account = @ + 1] \in T
            /\ next.conversation \in ConvIds => [next EXCEPT !.conversation = @ + 1] \in T
            /\ next.message \in MessageIds => [next EXCEPT !.message = @ + 1] \in T
            /\ next.reaction \in ReactionIds => [next EXCEPT !.reaction = @ + 1] \in T
<1>1. /\ next.account \in AccountIds => next.account + 1 \in 1..(MaxAccounts + 1)
      /\ next.conversation \in ConvIds => next.conversation + 1 \in 1..(MaxConvs + 1)
      /\ next.message \in MessageIds => next.message + 1 \in 1..(MaxMessages + 1)
      /\ next.reaction \in ReactionIds => next.reaction + 1 \in 1..(MaxReactions + 1)
  BY Counters DEF AccountIds, ConvIds, MessageIds, ReactionIds
<1>2. next \in [account : 1..(MaxAccounts + 1), conversation : 1..(MaxConvs + 1),
               message : 1..(MaxMessages + 1), reaction : 1..(MaxReactions + 1)]
  BY DEF TypeOK
<1> QED
  BY <1>1, <1>2

LEMMA AddAccountInv ==
  ASSUME IInv, AddAccount
  PROVE  IInv'
<1>1. /\ accounts' = Put(accounts, next.account, {}) /\ next.account \in AccountIds
      /\ next' = [next EXCEPT !.account = @ + 1]
      /\ UNCHANGED <<contacts, conversations, messages, reactions, disk, wire, born, restarts>>
  BY DEF AddAccount, Outside
<1>2. IsPartialFunction(accounts, AccountIds, SUBSET Capabilities) /\ {} \in SUBSET Capabilities
  BY DEF IInv, TypeOK
<1>3. /\ IsPartialFunction(accounts', AccountIds, SUBSET Capabilities)
      /\ DOMAIN accounts' = DOMAIN accounts \cup {next.account}
  BY <1>1, <1>2 DEF Put, IsPartialFunction
<1>4. TypeOK'
  <2>1. next' \in [account : 1..(MaxAccounts + 1), conversation : 1..(MaxConvs + 1),
                  message : 1..(MaxMessages + 1), reaction : 1..(MaxReactions + 1)]
    BY <1>1, CountersAdvance DEF IInv
  <2> QED
    BY <1>1, <1>3, <2>1 DEF IInv, TypeOK
<1>5. CoreResolves'
  BY <1>1, <1>3 DEF IInv, CoreResolves, ContactsResolve, ConversationsResolve, MessagesResolve,
                    RepliesResolve, ReactionsResolve
<1>6. IdsAreFresh'
  <2>1. \A a \in DOMAIN accounts : a \in Nat
    BY <1>2 DEF IsPartialFunction, AccountIds
  <2>2. /\ next'.account = next.account + 1 /\ next'.conversation = next.conversation
        /\ next'.message = next.message /\ next'.reaction = next.reaction
    BY <1>1 DEF IInv, TypeOK
  <2> QED
    BY <1>1, <1>3, <2>1, <2>2, Counters DEF IInv, IdsAreFresh
<1>7. OneConversationPerPeer' /\ UnreadIsExplained' /\ SnapshotSound(disk)'
  BY <1>1 DEF IInv, OneConversationPerPeer, UnreadIsExplained
<1> QED
  BY <1>4, <1>5, <1>6, <1>7 DEF IInv

LEMMA SetCapabilitiesInv ==
  ASSUME IInv, NEW a, SetCapabilities(a)
  PROVE  IInv'
<1>1. /\ a \in DOMAIN accounts
      /\ UNCHANGED <<next, contacts, conversations, messages, reactions, disk, wire, born, restarts>>
  BY DEF SetCapabilities, Outside
<1>2. PICK caps \in SUBSET Capabilities : accounts' = [accounts EXCEPT ![a] = caps]
  BY DEF SetCapabilities
<1>3. /\ IsPartialFunction(accounts', AccountIds, SUBSET Capabilities)
      /\ DOMAIN accounts' = DOMAIN accounts
  BY <1>1, <1>2 DEF IInv, TypeOK, IsPartialFunction
<1>4. TypeOK'
  BY <1>1, <1>3 DEF IInv, TypeOK
<1>5. CoreResolves'
  BY <1>1, <1>3 DEF IInv, CoreResolves, ContactsResolve, ConversationsResolve, MessagesResolve,
                    RepliesResolve, ReactionsResolve
<1>6. IdsAreFresh' /\ OneConversationPerPeer' /\ UnreadIsExplained' /\ SnapshotSound(disk)'
  BY <1>1, <1>3 DEF IInv, IdsAreFresh, OneConversationPerPeer, UnreadIsExplained
<1> QED
  BY <1>4, <1>5, <1>6 DEF IInv

-----------------------------------------------------------------------------
(* Conversations and messages. *)

LEMMA OpenConversationInv ==
  ASSUME IInv, NEW a \in AccountIds, NEW k \in ConversationKind, NEW j \in Peers,
         OpenConversation(a, k, j)
  PROVE  IInv'
<1> DEFINE c == next.conversation
           v == NewConversation(a, k, j)
<1>1. /\ conversations' = Put(conversations, c, v) /\ c \in ConvIds
      /\ a \in DOMAIN accounts /\ ConvsWith(a, k, j) = {}
      /\ next' = [next EXCEPT !.conversation = @ + 1]
      /\ UNCHANGED <<accounts, contacts, messages, reactions, disk, wire, born, restarts>>
  BY DEF OpenConversation, Outside
<1>2. v \in Conversation /\ v.account = a /\ v.kind = k /\ v.address = j /\ v.unread = 0
  BY DEF NewConversation, Conversation
<1> HIDE DEF v
<1>3. IsPartialFunction(conversations, ConvIds, Conversation)
  BY DEF IInv, TypeOK
<1>4. /\ IsPartialFunction(conversations', ConvIds, Conversation)
      /\ DOMAIN conversations' = DOMAIN conversations \cup {c}
      /\ conversations'[c] = v
      /\ \A d \in DOMAIN conversations : d # c => conversations'[d] = conversations[d]
  BY <1>1, <1>2, <1>3 DEF Put, IsPartialFunction
<1>5. c \notin DOMAIN conversations
  BY Counters DEF IInv, IdsAreFresh
<1>6. TypeOK'
  <2>1. next' \in [account : 1..(MaxAccounts + 1), conversation : 1..(MaxConvs + 1),
                  message : 1..(MaxMessages + 1), reaction : 1..(MaxReactions + 1)]
    BY <1>1, CountersAdvance DEF IInv
  <2> QED
    BY <1>1, <1>4, <2>1 DEF IInv, TypeOK
<1>7. CoreResolves'
  BY <1>1, <1>2, <1>4, <1>5 DEF IInv, CoreResolves, ContactsResolve, ConversationsResolve,
                    MessagesResolve, RepliesResolve, ReactionsResolve
<1>8. IdsAreFresh'
  <2>1. \A d \in DOMAIN conversations : d \in Nat
    BY <1>3 DEF IsPartialFunction, ConvIds
  <2>2. /\ next'.conversation = c + 1 /\ next'.account = next.account
        /\ next'.message = next.message /\ next'.reaction = next.reaction
    BY <1>1 DEF IInv, TypeOK
  <2> QED
    BY <1>1, <1>4, <2>1, <2>2, Counters DEF IInv, IdsAreFresh
<1>9. OneConversationPerPeer'
  <2>1. \A d \in DOMAIN conversations :
          ~ (/\ conversations[d].account = a
             /\ conversations[d].kind = k
             /\ conversations[d].address = j)
    BY <1>1 DEF ConvsWith
  <2> QED
    BY <1>2, <1>4, <1>5, <2>1 DEF IInv, OneConversationPerPeer
<1>10. UnreadIsExplained'
  <2>1. \A d : Cardinality(Incoming(messages, d)) \in Nat
    BY IncomingFinite DEF IInv, TypeOK, IsPartialFunction
  <2>2. \A d \in DOMAIN conversations' : conversations'[d].unread <= Cardinality(Incoming(messages, d))
    BY <1>2, <1>4, <1>5, <2>1, UnreadOfIncoming DEF IInv
  <2> QED
    BY <1>1, <2>2 DEF UnreadIsExplained, Incoming
<1>11. SnapshotSound(disk)'
  BY <1>1 DEF IInv
<1> QED
  BY <1>6, <1>7, <1>8, <1>9, <1>10, <1>11 DEF IInv

\* The message that a step adds.
LEMMA NewMessageTyped ==
  ASSUME IInv, NEW c \in ConvIds, NEW out \in BOOLEAN, NEW reply \in MessageIds \cup {NoReply}
  PROVE  LET v == NewMessage(c, out, reply)
         IN v \in Message /\ v.conversation = c /\ (v.outgoing <=> out) /\ v.reply = reply
<1>1. born + 1 \in Nat
  BY DEF IInv, TypeOK
<1>2. (IF out THEN "Pending" ELSE "Delivered") \in DeliveryState
  BY DEF DeliveryState
<1> QED
  BY <1>1, <1>2 DEF NewMessage, Message

LEMMA SendTextInv ==
  ASSUME IInv, NEW c, SendText(c)
  PROVE  IInv'
<1> DEFINE m == next.message
<1>1. /\ c \in DOMAIN conversations /\ m \in MessageIds /\ born < MaxBorn
      /\ next' = [next EXCEPT !.message = @ + 1]
      /\ born' = born + 1
      /\ UNCHANGED <<accounts, contacts, conversations, reactions, disk, wire, restarts>>
  BY DEF SendText, CanWrite
<1>2. PICK reply \in {NoReply} \cup {n \in DOMAIN messages : messages[n].conversation = c} :
        messages' = Put(messages, m, NewMessage(c, TRUE, reply))
  BY DEF SendText
<1>3. /\ IsPartialFunction(messages, MessageIds, Message)
      /\ IsPartialFunction(conversations, ConvIds, Conversation)
  BY DEF IInv, TypeOK
<1>4. c \in ConvIds /\ reply \in MessageIds \cup {NoReply}
  BY <1>1, <1>3 DEF IsPartialFunction
<1>5. PICK v \in Message : /\ messages' = Put(messages, m, v)
                           /\ v.conversation = c /\ v.outgoing /\ v.reply = reply
  <2>1. LET v == NewMessage(c, TRUE, reply)
        IN v \in Message /\ v.conversation = c /\ (v.outgoing <=> TRUE) /\ v.reply = reply
    BY <1>4, NewMessageTyped, ZenonT(40)
  <2> QED
    BY <1>2, <2>1
<1>6. /\ IsPartialFunction(messages', MessageIds, Message)
      /\ DOMAIN messages' = DOMAIN messages \cup {m}
      /\ messages'[m] = v
      /\ \A n \in DOMAIN messages : n # m => messages'[n] = messages[n]
  BY <1>1, <1>3, <1>5 DEF Put, IsPartialFunction
<1>7. /\ m \notin DOMAIN messages
      /\ \A n \in DOMAIN messages : n < m
  BY Counters DEF IInv, IdsAreFresh
<1>8. TypeOK'
  <2>1. next' \in [account : 1..(MaxAccounts + 1), conversation : 1..(MaxConvs + 1),
                  message : 1..(MaxMessages + 1), reaction : 1..(MaxReactions + 1)]
    BY <1>1, CountersAdvance DEF IInv
  <2> QED
    BY <1>1, <1>6, <2>1 DEF IInv, TypeOK
<1>9. CoreResolves'
  <2>1. ContactsResolve' /\ ConversationsResolve' /\ MessagesResolve' /\ ReactionsResolve'
    BY <1>1, <1>5, <1>6, <1>7 DEF IInv, CoreResolves, ContactsResolve, ConversationsResolve,
                    MessagesResolve, ReactionsResolve
  <2>2. RepliesResolve'
    <3> SUFFICES ASSUME NEW n \in DOMAIN messages', messages'[n].reply # NoReply
                 PROVE  /\ messages'[n].reply \in DOMAIN messages'
                        /\ messages'[n].reply < n
                        /\ messages'[messages'[n].reply].conversation = messages'[n].conversation
      BY DEF RepliesResolve
    <3>1. CASE n = m
      BY <1>2, <1>5, <1>6, <1>7, <3>1
    <3>2. CASE n \in DOMAIN messages
      BY <1>6, <1>7, <3>2 DEF IInv, CoreResolves, RepliesResolve
    <3> QED
      BY <1>6, <3>1, <3>2
  <2> QED
    BY <2>1, <2>2 DEF CoreResolves
<1>10. IdsAreFresh'
  <2>1. \A n \in DOMAIN messages : n \in Nat
    BY <1>3 DEF IsPartialFunction, MessageIds
  <2>2. /\ next'.message = m + 1 /\ next'.account = next.account
        /\ next'.conversation = next.conversation /\ next'.reaction = next.reaction
    BY <1>1 DEF IInv, TypeOK
  <2> QED
    BY <1>1, <1>6, <2>1, <2>2, Counters DEF IInv, IdsAreFresh
<1>11. OneConversationPerPeer' /\ SnapshotSound(disk)'
  BY <1>1 DEF IInv, OneConversationPerPeer
<1>12. UnreadIsExplained'
  <2>1. \A d : Incoming(messages', d) = Incoming(messages, d)
    BY <1>5, <1>6, <1>7 DEF Incoming
  <2>2. \A d \in DOMAIN conversations' : conversations'[d].unread <= Cardinality(Incoming(messages', d))
    BY <1>1, <2>1, UnreadOfIncoming DEF IInv
  <2> QED
    BY <2>2 DEF UnreadIsExplained, Incoming
<1> QED
  BY <1>8, <1>9, <1>10, <1>11, <1>12 DEF IInv

\* An incoming message and the count of its conversation grow together.
LEMMA ReceiveTextInv ==
  ASSUME IInv, NEW a \in AccountIds, NEW k \in ConversationKind, NEW j \in Peers,
         ReceiveText(a, k, j)
  PROVE  IInv'
<1> DEFINE m == next.message
<1>1. /\ a \in DOMAIN accounts /\ m \in MessageIds /\ born < MaxBorn
      /\ born' = born + 1
      /\ UNCHANGED <<accounts, contacts, reactions, disk, wire, restarts>>
  BY DEF ReceiveText, CanWrite
<1> DEFINE Conv(c) == IF c \in DOMAIN conversations THEN conversations[c] ELSE NewConversation(a, k, j)
<1>2. PICK c \in IF ConvsWith(a, k, j) # {} THEN ConvsWith(a, k, j) ELSE {next.conversation} :
        /\ c \in ConvIds
        /\ conversations' = Put(conversations, c, [Conv(c) EXCEPT !.unread = @ + 1])
        /\ messages' = Put(messages, m, NewMessage(c, FALSE, NoReply))
        /\ next' = [next EXCEPT !.message = @ + 1, !.conversation = IF c = @ THEN @ + 1 ELSE @]
  BY DEF ReceiveText
<1>3. /\ IsPartialFunction(messages, MessageIds, Message)
      /\ IsPartialFunction(conversations, ConvIds, Conversation)
  BY DEF IInv, TypeOK
<1>4. next.conversation \notin DOMAIN conversations /\ m \notin DOMAIN messages
  BY Counters DEF IInv, IdsAreFresh
<1>5. /\ Conv(c) \in Conversation
      /\ Conv(c).account = a /\ Conv(c).kind = k /\ Conv(c).address = j
      /\ c \notin DOMAIN conversations => c = next.conversation /\ ConvsWith(a, k, j) = {}
                                          /\ Conv(c).unread = 0
  <2>1. CASE ConvsWith(a, k, j) # {}
    <3>1. c \in DOMAIN conversations /\ conversations[c].account = a
          /\ conversations[c].kind = k /\ conversations[c].address = j
      BY <1>2, <2>1 DEF ConvsWith
    <3> QED
      BY <1>3, <3>1 DEF IsPartialFunction
  <2>2. CASE ConvsWith(a, k, j) = {}
    <3>1. c = next.conversation /\ c \notin DOMAIN conversations
      BY <1>2, <1>4, <2>2
    <3> QED
      BY <2>2, <3>1 DEF NewConversation, Conversation
  <2> QED
    BY <2>1, <2>2
<1> DEFINE w == [Conv(c) EXCEPT !.unread = @ + 1]
<1>6. /\ w \in Conversation /\ w.unread = Conv(c).unread + 1
      /\ w.account = a /\ w.kind = k /\ w.address = j
      /\ c \in DOMAIN conversations => w.unread = conversations[c].unread + 1
      /\ c \notin DOMAIN conversations => w.unread = 1
  <2>1. Conv(c).unread \in Nat
    BY <1>5 DEF Conversation
  <2>2. c \in DOMAIN conversations => Conv(c) = conversations[c]
    OBVIOUS
  <2> HIDE DEF Conv
  <2> QED
    BY <1>5, <2>1, <2>2 DEF Conversation
<1>7. conversations' = Put(conversations, c, w)
  BY <1>2
<1> HIDE DEF w, Conv
<1>8. /\ IsPartialFunction(conversations', ConvIds, Conversation)
      /\ DOMAIN conversations' = DOMAIN conversations \cup {c}
      /\ conversations'[c] = w
      /\ \A d \in DOMAIN conversations : d # c => conversations'[d] = conversations[d]
  BY <1>2, <1>3, <1>6, <1>7 DEF Put, IsPartialFunction
<1>9. PICK v \in Message : /\ messages' = Put(messages, m, v)
                           /\ v.conversation = c /\ ~v.outgoing /\ v.reply = NoReply
  <2>0. c \in ConvIds /\ NoReply \in MessageIds \cup {NoReply}
    BY <1>2
  <2>1. LET v == NewMessage(c, FALSE, NoReply)
        IN v \in Message /\ v.conversation = c /\ (v.outgoing <=> FALSE) /\ v.reply = NoReply
    BY <2>0, NewMessageTyped, ZenonT(40)
  <2> QED
    BY <1>2, <2>1
<1>10. /\ IsPartialFunction(messages', MessageIds, Message)
       /\ DOMAIN messages' = DOMAIN messages \cup {m}
       /\ messages'[m] = v
       /\ \A n \in DOMAIN messages : n # m => messages'[n] = messages[n]
  BY <1>1, <1>3, <1>9 DEF Put, IsPartialFunction
<1>11. /\ next'.message = m + 1 /\ next'.account = next.account /\ next'.reaction = next.reaction
       /\ next'.conversation = (IF c = next.conversation THEN next.conversation + 1
                                ELSE next.conversation)
  BY <1>2 DEF IInv, TypeOK
<1>12. TypeOK'
  <2>1. next' \in [account : 1..(MaxAccounts + 1), conversation : 1..(MaxConvs + 1),
                   message : 1..(MaxMessages + 1), reaction : 1..(MaxReactions + 1)]
    <3>1. m + 1 \in 1..(MaxMessages + 1)
      BY <1>1, Counters DEF IInv, MessageIds
    <3>2. (IF c = next.conversation THEN next.conversation + 1 ELSE next.conversation)
            \in 1..(MaxConvs + 1)
      <4>1. c \in 1..MaxConvs /\ next.conversation \in 1..(MaxConvs + 1) /\ MaxConvs \in Nat
        <5>1. c \in ConvIds
          BY <1>2
        <5> QED
          BY <5>1, Counters DEF IInv, TypeOK, ConvIds
      <4> DEFINE spare == next.conversation
      <4> HIDE DEF spare
      <4>2. c \in 1..MaxConvs /\ spare \in 1..(MaxConvs + 1) /\ MaxConvs \in Nat
        BY <4>1 DEF spare
      <4>3. (IF c = spare THEN spare + 1 ELSE spare) \in 1..(MaxConvs + 1)
        BY <4>2
      <4> QED
        BY <4>3 DEF spare
    <3>3. next \in [account : 1..(MaxAccounts + 1), conversation : 1..(MaxConvs + 1),
                    message : 1..(MaxMessages + 1), reaction : 1..(MaxReactions + 1)]
      BY DEF IInv, TypeOK
    <3> QED
      BY <1>2, <3>1, <3>2, <3>3
  <2>2. born' \in 0..MaxBorn
    BY <1>1 DEF IInv, TypeOK
  <2> QED
    BY <1>1, <1>8, <1>10, <2>1, <2>2 DEF IInv, TypeOK
<1>13. CoreResolves'
  <2>1. ContactsResolve' /\ ConversationsResolve' /\ MessagesResolve' /\ ReactionsResolve'
    BY <1>1, <1>4, <1>6, <1>8, <1>9, <1>10
       DEF IInv, CoreResolves, ContactsResolve, ConversationsResolve, MessagesResolve, ReactionsResolve
  <2>2. RepliesResolve'
    BY <1>4, <1>9, <1>10 DEF IInv, CoreResolves, RepliesResolve
  <2> QED
    BY <2>1, <2>2 DEF CoreResolves
<1>14. IdsAreFresh'
  <2>1. /\ \A n \in DOMAIN messages : n \in Nat
        /\ \A d \in DOMAIN conversations : d \in Nat
    BY <1>3 DEF IsPartialFunction, MessageIds, ConvIds
  <2>2. c \in DOMAIN conversations \/ c = next.conversation
    BY <1>5
  <2> QED
    BY <1>1, <1>8, <1>10, <1>11, <2>1, <2>2, Counters DEF IInv, IdsAreFresh
<1>15. OneConversationPerPeer'
  <2>1. CASE c \in DOMAIN conversations
    <3>1. /\ conversations[c].account = a /\ conversations[c].kind = k /\ conversations[c].address = j
      BY <1>5, <2>1 DEF Conv
    <3> QED
      BY <1>6, <1>8, <2>1, <3>1 DEF IInv, OneConversationPerPeer
  <2>2. CASE c \notin DOMAIN conversations
    <3>1. \A d \in DOMAIN conversations :
            ~ (/\ conversations[d].account = a
               /\ conversations[d].kind = k
               /\ conversations[d].address = j)
      BY <1>5, <2>2 DEF ConvsWith
    <3> QED
      BY <1>6, <1>8, <2>2, <3>1 DEF IInv, OneConversationPerPeer
  <2> QED
    BY <2>1, <2>2
<1>16. UnreadIsExplained'
  <2>1. \A d : d # c => Incoming(messages', d) = Incoming(messages, d)
    BY <1>4, <1>9, <1>10 DEF Incoming
  <2>2. Incoming(messages', c) = Incoming(messages, c) \cup {m} /\ m \notin Incoming(messages, c)
    BY <1>4, <1>9, <1>10 DEF Incoming
  <2>3. IsFiniteSet(Incoming(messages, c)) /\ Cardinality(Incoming(messages, c)) \in Nat
    BY <1>3, IncomingFinite DEF IsPartialFunction
  <2>4. Cardinality(Incoming(messages', c)) = Cardinality(Incoming(messages, c)) + 1
    BY <2>2, <2>3, FS_AddElement
  <2>5. c \in DOMAIN conversations =>
          /\ conversations[c].unread <= Cardinality(Incoming(messages, c))
          /\ conversations[c].unread \in Nat
    BY <1>3, UnreadOfIncoming DEF IInv, IsPartialFunction, Conversation
  <2>6. w.unread <= Cardinality(Incoming(messages', c))
    BY <1>6, <2>3, <2>4, <2>5
  <2>7. \A d \in DOMAIN conversations' : conversations'[d].unread <= Cardinality(Incoming(messages', d))
    BY <1>8, <2>1, <2>6, UnreadOfIncoming DEF IInv
  <2> QED
    BY <2>7 DEF UnreadIsExplained, Incoming
<1>17. SnapshotSound(disk)'
  BY <1>1 DEF IInv
<1> QED
  BY <1>12, <1>13, <1>14, <1>15, <1>16, <1>17 DEF IInv

\* A message that keeps its place: its kind or its delivery state changes.
LEMMA EditedInv ==
  ASSUME IInv, NEW m \in DOMAIN messages, NEW v \in Message,
         messages' = [messages EXCEPT ![m] = v],
         v.conversation = messages[m].conversation, v.outgoing = messages[m].outgoing,
         v.reply = messages[m].reply, wire' \subseteq Stanza,
         UNCHANGED <<next, accounts, contacts, conversations, reactions, disk, born, restarts>>
  PROVE  IInv'
<1>1. IsPartialFunction(messages, MessageIds, Message)
  BY DEF IInv, TypeOK
<1>2. /\ IsPartialFunction(messages', MessageIds, Message)
      /\ DOMAIN messages' = DOMAIN messages
      /\ \A n \in DOMAIN messages : /\ messages'[n].conversation = messages[n].conversation
                                    /\ messages'[n].outgoing = messages[n].outgoing
                                    /\ messages'[n].reply = messages[n].reply
  BY <1>1 DEF IsPartialFunction
<1>3. TypeOK'
  BY <1>2 DEF IInv, TypeOK
<1>4. CoreResolves'
  BY <1>2 DEF IInv, CoreResolves, ContactsResolve, ConversationsResolve, MessagesResolve,
              RepliesResolve, ReactionsResolve
<1>5. IdsAreFresh' /\ OneConversationPerPeer' /\ SnapshotSound(disk)'
  BY <1>2 DEF IInv, IdsAreFresh, OneConversationPerPeer
<1>6. UnreadIsExplained'
  <2>1. \A d : Incoming(messages', d) = Incoming(messages, d)
    BY <1>2 DEF Incoming
  <2>2. \A d \in DOMAIN conversations' : conversations'[d].unread <= Cardinality(Incoming(messages', d))
    BY <2>1, UnreadOfIncoming DEF IInv
  <2> QED
    BY <2>2 DEF UnreadIsExplained, Incoming
<1> QED
  BY <1>3, <1>4, <1>5, <1>6 DEF IInv

LEMMA AttachInv ==
  ASSUME IInv, NEW m, Attach(m)
  PROVE  IInv'
<1> DEFINE v == [messages[m] EXCEPT !.kind = "Attachment"]
<1>1. /\ m \in DOMAIN messages /\ messages' = [messages EXCEPT ![m] = v]
      /\ UNCHANGED <<next, accounts, contacts, conversations, reactions, disk, wire, born, restarts>>
  BY DEF Attach, Outside
<1>2. messages[m] \in Message /\ wire \subseteq Stanza
  BY <1>1 DEF IInv, TypeOK, IsPartialFunction
<1>3. /\ v \in Message /\ v.conversation = messages[m].conversation
      /\ v.outgoing = messages[m].outgoing /\ v.reply = messages[m].reply
  BY <1>2 DEF Message
<1> HIDE DEF v
<1> QED
  BY <1>1, <1>2, <1>3, EditedInv

LEMMA AddReactionInv ==
  ASSUME IInv, NEW m, AddReaction(m)
  PROVE  IInv'
<1> DEFINE r == next.reaction
<1>1. /\ m \in DOMAIN messages /\ r \in ReactionIds
      /\ reactions' = Put(reactions, r, m)
      /\ next' = [next EXCEPT !.reaction = @ + 1]
      /\ UNCHANGED <<accounts, contacts, conversations, messages, disk, wire, born, restarts>>
  BY DEF AddReaction, Outside
<1>2. IsPartialFunction(reactions, ReactionIds, MessageIds) /\ m \in MessageIds
  BY <1>1 DEF IInv, TypeOK, IsPartialFunction
<1>3. /\ IsPartialFunction(reactions', ReactionIds, MessageIds)
      /\ DOMAIN reactions' = DOMAIN reactions \cup {r}
      /\ reactions'[r] = m
      /\ \A q \in DOMAIN reactions : q # r => reactions'[q] = reactions[q]
  BY <1>1, <1>2 DEF Put, IsPartialFunction
<1>4. TypeOK'
  <2>1. next' \in [account : 1..(MaxAccounts + 1), conversation : 1..(MaxConvs + 1),
                  message : 1..(MaxMessages + 1), reaction : 1..(MaxReactions + 1)]
    BY <1>1, CountersAdvance DEF IInv
  <2> QED
    BY <1>1, <1>3, <2>1 DEF IInv, TypeOK
<1>5. CoreResolves'
  BY <1>1, <1>3 DEF IInv, CoreResolves, ContactsResolve, ConversationsResolve, MessagesResolve,
                    RepliesResolve, ReactionsResolve
<1>6. IdsAreFresh'
  <2>1. \A q \in DOMAIN reactions : q \in Nat
    BY <1>2 DEF IsPartialFunction, ReactionIds
  <2>2. /\ next'.reaction = r + 1 /\ next'.account = next.account
        /\ next'.conversation = next.conversation /\ next'.message = next.message
    BY <1>1 DEF IInv, TypeOK
  <2> QED
    BY <1>1, <1>3, <2>1, <2>2, Counters DEF IInv, IdsAreFresh
<1>7. OneConversationPerPeer' /\ UnreadIsExplained' /\ SnapshotSound(disk)'
  BY <1>1 DEF IInv, OneConversationPerPeer, UnreadIsExplained
<1> QED
  BY <1>4, <1>5, <1>6, <1>7 DEF IInv

LEMMA MarkConversationReadInv ==
  ASSUME IInv, NEW c, MarkConversationRead(c)
  PROVE  IInv'
<1>1. /\ c \in DOMAIN conversations
      /\ conversations' = [conversations EXCEPT ![c] = [conversations[c] EXCEPT !.unread = 0]]
      /\ UNCHANGED <<next, accounts, contacts, messages, reactions, disk, wire, born, restarts>>
  BY DEF MarkConversationRead, Outside
<1>2. IsPartialFunction(conversations, ConvIds, Conversation) /\ conversations[c] \in Conversation
  BY <1>1 DEF IInv, TypeOK, IsPartialFunction
<1> DEFINE v == [conversations[c] EXCEPT !.unread = 0]
<1>3. /\ v \in Conversation /\ v.account = conversations[c].account /\ v.unread = 0
      /\ v.kind = conversations[c].kind /\ v.address = conversations[c].address
  BY <1>2 DEF Conversation
<1>4. conversations' = [conversations EXCEPT ![c] = v]
  BY <1>1
<1> HIDE DEF v
<1>5. /\ IsPartialFunction(conversations', ConvIds, Conversation)
      /\ DOMAIN conversations' = DOMAIN conversations
      /\ \A d \in DOMAIN conversations :
           /\ conversations'[d].account = conversations[d].account
           /\ conversations'[d].kind = conversations[d].kind
           /\ conversations'[d].address = conversations[d].address
           /\ conversations'[d].unread \in {0, conversations[d].unread}
  BY <1>1, <1>2, <1>3, <1>4 DEF IsPartialFunction
<1>6. TypeOK'
  BY <1>1, <1>5 DEF IInv, TypeOK
<1>7. CoreResolves'
  BY <1>1, <1>5 DEF IInv, CoreResolves, ContactsResolve, ConversationsResolve, MessagesResolve,
                    RepliesResolve, ReactionsResolve
<1>8. IdsAreFresh' /\ OneConversationPerPeer' /\ SnapshotSound(disk)'
  BY <1>1, <1>5 DEF IInv, IdsAreFresh, OneConversationPerPeer
<1>9. UnreadIsExplained'
  <2>1. \A d : Cardinality(Incoming(messages, d)) \in Nat
    BY IncomingFinite DEF IInv, TypeOK, IsPartialFunction
  <2>2. \A d \in DOMAIN conversations' : conversations'[d].unread <= Cardinality(Incoming(messages', d))
    BY <1>1, <1>5, <2>1, UnreadOfIncoming DEF IInv
  <2> QED
    BY <2>2 DEF UnreadIsExplained, Incoming
<1> QED
  BY <1>6, <1>7, <1>8, <1>9 DEF IInv

\* The cascade: with conversations go their messages, and with messages their
\* reactions; whatever stays keeps what it refers to.
LEMMA CascadeInv ==
  ASSUME IInv, NEW cs \in SUBSET DOMAIN conversations, RemoveConversations(cs),
         IsPartialFunction(accounts', AccountIds, SUBSET Capabilities),
         DOMAIN accounts' \subseteq DOMAIN accounts,
         IsPartialFunction(contacts', AccountIds \X RosterPeers, Contact),
         \A k \in DOMAIN contacts' : k[1] \in DOMAIN accounts',
         \A c \in DOMAIN conversations \ cs : conversations[c].account \in DOMAIN accounts',
         UNCHANGED <<next, disk, wire, born, restarts>>
  PROVE  IInv'
<1> DEFINE ms == {m \in DOMAIN messages : messages[m].conversation \in cs}
           rs == {r \in DOMAIN reactions : reactions[r] \in ms}
<1>1. /\ IsPartialFunction(conversations, ConvIds, Conversation)
      /\ IsPartialFunction(messages, MessageIds, Message)
      /\ IsPartialFunction(reactions, ReactionIds, MessageIds)
  BY DEF IInv, TypeOK
<1>2. /\ IsPartialFunction(conversations', ConvIds, Conversation)
      /\ DOMAIN conversations' = DOMAIN conversations \ cs
      /\ \A c \in DOMAIN conversations' : conversations'[c] = conversations[c]
  BY <1>1, RestrictMap DEF RemoveConversations
<1>3. /\ IsPartialFunction(messages', MessageIds, Message)
      /\ DOMAIN messages' = DOMAIN messages \ ms
      /\ \A m \in DOMAIN messages' : messages'[m] = messages[m]
  BY <1>1, RestrictMap DEF RemoveConversations
<1>4. /\ IsPartialFunction(reactions', ReactionIds, MessageIds)
      /\ DOMAIN reactions' = DOMAIN reactions \ rs
      /\ \A r \in DOMAIN reactions' : reactions'[r] = reactions[r]
  BY <1>1, RestrictMap DEF RemoveConversations
<1>5. TypeOK'
  BY <1>2, <1>3, <1>4 DEF IInv, TypeOK
<1>6. CoreResolves'
  <2>1. ContactsResolve' /\ ConversationsResolve'
    BY <1>2 DEF ContactsResolve, ConversationsResolve
  <2>2. MessagesResolve' /\ ReactionsResolve'
    BY <1>2, <1>3, <1>4 DEF IInv, CoreResolves, MessagesResolve, ReactionsResolve
  <2>3. RepliesResolve'
    <3> SUFFICES ASSUME NEW n \in DOMAIN messages', messages'[n].reply # NoReply
                 PROVE  /\ messages'[n].reply \in DOMAIN messages'
                        /\ messages'[n].reply < n
                        /\ messages'[messages'[n].reply].conversation = messages'[n].conversation
      BY DEF RepliesResolve
    <3>1. n \in DOMAIN messages /\ messages'[n] = messages[n] /\ messages[n].conversation \notin cs
      BY <1>3
    <3>2. /\ messages[n].reply \in DOMAIN messages
          /\ messages[n].reply < n
          /\ messages[messages[n].reply].conversation = messages[n].conversation
      BY <3>1 DEF IInv, CoreResolves, RepliesResolve
    <3> QED
      BY <1>3, <3>1, <3>2
  <2> QED
    BY <2>1, <2>2, <2>3 DEF CoreResolves
<1>7. IdsAreFresh' /\ OneConversationPerPeer' /\ SnapshotSound(disk)'
  BY <1>2, <1>3, <1>4 DEF IInv, IdsAreFresh, OneConversationPerPeer
<1>8. UnreadIsExplained'
  <2>1. \A d \in DOMAIN conversations' : Incoming(messages', d) = Incoming(messages, d)
    BY <1>2, <1>3 DEF Incoming
  <2>2. \A d \in DOMAIN conversations' : conversations'[d].unread <= Cardinality(Incoming(messages', d))
    BY <1>2, <2>1, UnreadOfIncoming DEF IInv
  <2> QED
    BY <2>2 DEF UnreadIsExplained, Incoming
<1> QED
  BY <1>5, <1>6, <1>7, <1>8 DEF IInv

LEMMA DeleteConversationInv ==
  ASSUME IInv, NEW c, DeleteConversation(c)
  PROVE  IInv'
<1>1. /\ {c} \in SUBSET DOMAIN conversations /\ RemoveConversations({c})
      /\ UNCHANGED <<next, accounts, contacts, disk, wire, born, restarts>>
  BY DEF DeleteConversation, Outside
<1>2. /\ IsPartialFunction(accounts', AccountIds, SUBSET Capabilities)
      /\ IsPartialFunction(contacts', AccountIds \X RosterPeers, Contact)
      /\ DOMAIN accounts' \subseteq DOMAIN accounts
      /\ \A k \in DOMAIN contacts' : k[1] \in DOMAIN accounts'
      /\ \A d \in DOMAIN conversations \ {c} : conversations[d].account \in DOMAIN accounts'
  BY <1>1 DEF IInv, TypeOK, CoreResolves, ContactsResolve, ConversationsResolve
<1> QED
  BY <1>1, <1>2, CascadeInv

LEMMA DeleteAccountInv ==
  ASSUME IInv, NEW a, DeleteAccount(a)
  PROVE  IInv'
<1> DEFINE cs == {c \in DOMAIN conversations : conversations[c].account = a}
           ks == {k \in DOMAIN contacts : k[1] # a}
<1>1. /\ cs \in SUBSET DOMAIN conversations /\ RemoveConversations(cs)
      /\ contacts' = Restrict(contacts, ks)
      /\ accounts' = Restrict(accounts, DOMAIN accounts \ {a})
      /\ UNCHANGED <<next, disk, wire, born, restarts>>
  BY DEF DeleteAccount, Outside
<1>2. /\ IsPartialFunction(accounts', AccountIds, SUBSET Capabilities)
      /\ DOMAIN accounts' = DOMAIN accounts \ {a}
  BY <1>1, RestrictMap DEF IInv, TypeOK
<1>3. /\ IsPartialFunction(contacts', AccountIds \X RosterPeers, Contact)
      /\ DOMAIN contacts' = ks
  BY <1>1, RestrictMap DEF IInv, TypeOK
<1>4. \A k \in DOMAIN contacts' : k[1] \in DOMAIN accounts'
  BY <1>2, <1>3 DEF IInv, CoreResolves, ContactsResolve
<1>5. \A d \in DOMAIN conversations \ cs : conversations[d].account \in DOMAIN accounts'
  BY <1>2 DEF IInv, CoreResolves, ConversationsResolve
<1>6. DOMAIN accounts' \subseteq DOMAIN accounts
  BY <1>2
<1> HIDE DEF cs
<1> QED
  BY <1>1, <1>2, <1>3, <1>4, <1>5, <1>6, CascadeInv

-----------------------------------------------------------------------------
(* Delivery. *)

\* What a flush takes is the first message that waits.
LEMMA FlushTakes ==
  ASSUME IInv, NEW a, Outbox(a) # {}
  PROVE  /\ Min(Outbox(a)) \in DOMAIN messages
         /\ messages[Min(Outbox(a))].delivery \in Retryable
         /\ messages[Min(Outbox(a))].outgoing
         /\ conversations[messages[Min(Outbox(a))].conversation].account = a
<1>1. Outbox(a) \in SUBSET Nat
  BY DEF IInv, TypeOK, IsPartialFunction, MessageIds, Outbox
<1>2. Min(Outbox(a)) \in Outbox(a)
  BY <1>1, MinIsLeast
<1> QED
  BY <1>2 DEF Outbox

\* One send, or a receipt, as an edit of one message.
LEMMA DeliveryStepInv ==
  ASSUME IInv, DeliveryStep
  PROVE  IInv'
<1>1. ASSUME NEW m \in DOMAIN messages, NEW d \in DeliveryState, wire' \subseteq Stanza,
             messages' = [messages EXCEPT ![m].delivery = d],
             UNCHANGED <<next, accounts, contacts, conversations, reactions, disk, born, restarts>>
      PROVE  IInv'
  <2> DEFINE v == [messages[m] EXCEPT !.delivery = d]
  <2>1. messages[m] \in Message /\ messages' = [messages EXCEPT ![m] = v]
    BY <1>1 DEF IInv, TypeOK, IsPartialFunction
  <2>2. /\ v \in Message /\ v.conversation = messages[m].conversation
        /\ v.outgoing = messages[m].outgoing /\ v.reply = messages[m].reply
    BY <2>1 DEF Message
  <2> HIDE DEF v
  <2> QED
    BY <1>1, <2>1, <2>2, EditedInv
<1>2. ASSUME NEW a \in AccountIds, FlushOne(a)
      PROVE  IInv'
  <2> DEFINE m == Min(Outbox(a))
             stanza == [account |-> a, address |-> conversations[messages[m].conversation].address,
                        id |-> m, stamp |-> messages[m].stamp]
  <2>1. /\ m \in DOMAIN messages
        /\ UNCHANGED <<next, accounts, contacts, conversations, reactions, disk, born, restarts>>
    BY <1>2, FlushTakes DEF FlushOne
  <2>2. stanza \in Stanza
    <3>1. messages[m] \in Message /\ m \in MessageIds
      BY <2>1 DEF IInv, TypeOK, IsPartialFunction
    <3>2. conversations[messages[m].conversation] \in Conversation
      BY <2>1 DEF IInv, TypeOK, IsPartialFunction, CoreResolves, MessagesResolve
    <3> HIDE DEF m
    <3> QED
      BY <3>1, <3>2 DEF Stanza, Message, Conversation
  <2>3. PICK d \in {"Sent", "Failed"} : messages' = [messages EXCEPT ![m].delivery = d]
    BY <1>2 DEF FlushOne
  <2>4. wire' \in {wire, wire \cup {stanza}}
    BY <1>2 DEF FlushOne
  <2>5. d \in DeliveryState /\ wire' \subseteq Stanza
    BY <2>2, <2>4 DEF DeliveryState, IInv, TypeOK
  <2> HIDE DEF m, stanza
  <2> QED
    BY <1>1, <2>1, <2>3, <2>5
<1>3. CASE ReceiptArrives
  <2>1. UNCHANGED <<next, accounts, contacts, conversations, reactions, disk, wire, born, restarts>>
    BY <1>3 DEF ReceiptArrives, Outside
  <2>2. PICK s \in wire : /\ s.id \in DOMAIN messages
                          /\ messages' = [messages EXCEPT ![s.id].delivery = "Delivered"]
    BY <1>3 DEF ReceiptArrives, Acknowledges
  <2>3. "Delivered" \in DeliveryState /\ wire \subseteq Stanza
    BY DEF DeliveryState, IInv, TypeOK
  <2> QED
    BY <1>1, <2>1, <2>2, <2>3
<1> QED
  BY <1>2, <1>3 DEF DeliveryStep

-----------------------------------------------------------------------------
(* Persistence. *)

\* A load keeps every part of a snapshot but capabilities and presence.
LEMMA SanitizedFields ==
  ASSUME NEW s, s = Sanitized(Snapshot)
  PROVE  /\ s.accounts = [a \in DOMAIN accounts |-> {}]
         /\ s.contacts = [k \in DOMAIN contacts |-> [contacts[k] EXCEPT !.presence = "Offline"]]
         /\ s.conversations = conversations
         /\ s.messages = messages
         /\ s.reactions = reactions
  BY DEF Sanitized, Snapshot

LEMMA SaveInv ==
  ASSUME IInv, Save
  PROVE  IInv'
<1>1. disk' = Sanitized(Snapshot) /\ UNCHANGED <<state, wire, born, restarts>>
  BY DEF Save
<1> DEFINE s == disk'
<1>2. /\ s.accounts = [a \in DOMAIN accounts |-> {}]
      /\ s.contacts = [k \in DOMAIN contacts |-> [contacts[k] EXCEPT !.presence = "Offline"]]
      /\ s.conversations = conversations
      /\ s.messages = messages
      /\ s.reactions = reactions
  BY <1>1, SanitizedFields
<1> HIDE DEF s
<1>3. SnapshotTyped(s)
  <2>1. IsPartialFunction(s.accounts, AccountIds, SUBSET Capabilities)
    BY <1>2 DEF IInv, TypeOK, IsPartialFunction
  <2>2. IsPartialFunction(s.contacts, AccountIds \X RosterPeers, Contact)
    <3>1. \A k \in DOMAIN contacts : [contacts[k] EXCEPT !.presence = "Offline"] \in Contact
      BY DEF IInv, TypeOK, IsPartialFunction, Contact
    <3> QED
      BY <1>2, <3>1 DEF IInv, TypeOK, IsPartialFunction
  <2> QED
    BY <1>2, <2>1, <2>2 DEF SnapshotTyped, IInv, TypeOK
<1>4. Resolves(s)
  <2>1. DOMAIN s.accounts = DOMAIN accounts /\ DOMAIN s.contacts = DOMAIN contacts
    BY <1>2
  <2> QED
    BY <1>2, <2>1 DEF Resolves, IInv, CoreResolves, ContactsResolve, ConversationsResolve,
                      MessagesResolve, RepliesResolve, ReactionsResolve
<1>5. SnapshotUnique(s)
  BY <1>2 DEF SnapshotUnique, IInv, OneConversationPerPeer
<1>6. SnapshotExplained(s)
  BY <1>2, UnreadOfIncoming DEF SnapshotExplained, IInv
<1>7. SnapshotSound(disk)'
  BY <1>3, <1>4, <1>5, <1>6 DEF s, SnapshotSound
<1>8. TypeOK' /\ CoreResolves'
  BY <1>1 DEF state, IInv, TypeOK, CoreResolves, ContactsResolve, ConversationsResolve,
              MessagesResolve, RepliesResolve, ReactionsResolve
<1>9. IdsAreFresh' /\ OneConversationPerPeer' /\ UnreadIsExplained'
  BY <1>1 DEF state, IInv, IdsAreFresh, OneConversationPerPeer, UnreadIsExplained
<1> QED
  BY <1>7, <1>8, <1>9 DEF IInv

\* The counter of a load is behind every id in use and within its bound.
LEMMA BehindIsFresh ==
  ASSUME NEW N \in Nat, NEW S \in SUBSET (1..N)
  PROVE  Behind(S) \in 1..(N + 1) /\ \A x \in S : x < Behind(S)
<1>1. S \cup {0} \in SUBSET (0..N) /\ S \cup {0} # {}
  OBVIOUS
<1>2. Max(S \cup {0}) \in S \cup {0} /\ \A y \in S \cup {0} : y <= Max(S \cup {0})
  BY <1>1, MaxIsGreatest
<1> DEFINE M == Max(S \cup {0})
<1>3. Behind(S) = M + 1
  BY DEF Behind
<1>4. M \in 0..N /\ \A x \in S : x <= M
  BY <1>1, <1>2
<1> HIDE DEF M
<1> QED
  BY <1>3, <1>4

LEMMA RestartInv ==
  ASSUME IInv, Restart
  PROVE  IInv'
<1>1. /\ accounts' = disk.accounts /\ contacts' = disk.contacts
      /\ conversations' = disk.conversations /\ messages' = disk.messages
      /\ reactions' = disk.reactions
      /\ next' = [account |-> Behind(DOMAIN disk.accounts),
                  conversation |-> Behind(DOMAIN disk.conversations),
                  message |-> Behind(DOMAIN disk.messages),
                  reaction |-> Behind(DOMAIN disk.reactions)]
      /\ UNCHANGED <<disk, wire, born>>
  BY DEF Restart
<1>2. restarts' \in 0..MaxRestarts
  BY DEF Restart, IInv, TypeOK
<1>3. SnapshotTyped(disk) /\ Resolves(disk) /\ SnapshotUnique(disk) /\ SnapshotExplained(disk)
  BY DEF IInv, SnapshotSound
<1>4. /\ DOMAIN disk.accounts \in SUBSET (1..MaxAccounts)
      /\ DOMAIN disk.conversations \in SUBSET (1..MaxConvs)
      /\ DOMAIN disk.messages \in SUBSET (1..MaxMessages)
      /\ DOMAIN disk.reactions \in SUBSET (1..MaxReactions)
  BY <1>3 DEF SnapshotTyped, IsPartialFunction, AccountIds, ConvIds, MessageIds, ReactionIds
<1>5. /\ next'.account = Behind(DOMAIN disk.accounts)
      /\ next'.conversation = Behind(DOMAIN disk.conversations)
      /\ next'.message = Behind(DOMAIN disk.messages)
      /\ next'.reaction = Behind(DOMAIN disk.reactions)
  BY <1>1
<1>6. /\ next'.account \in 1..(MaxAccounts + 1) /\ \A a \in DOMAIN accounts' : a < next'.account
      /\ next'.conversation \in 1..(MaxConvs + 1)
      /\ \A c \in DOMAIN conversations' : c < next'.conversation
      /\ next'.message \in 1..(MaxMessages + 1) /\ \A m \in DOMAIN messages' : m < next'.message
      /\ next'.reaction \in 1..(MaxReactions + 1) /\ \A r \in DOMAIN reactions' : r < next'.reaction
  BY <1>1, <1>4, <1>5, BehindIsFresh, Counters DEF IInv
<1>7. TypeOK'
  <2>1. next' \in [account : 1..(MaxAccounts + 1), conversation : 1..(MaxConvs + 1),
                  message : 1..(MaxMessages + 1), reaction : 1..(MaxReactions + 1)]
    BY <1>1, <1>5, <1>6
  <2> QED
    BY <1>1, <1>2, <1>3, <2>1 DEF IInv, TypeOK, SnapshotTyped
<1>8. CoreResolves'
  BY <1>1, <1>3 DEF Resolves, CoreResolves, ContactsResolve, ConversationsResolve,
                    MessagesResolve, RepliesResolve, ReactionsResolve
<1>9. IdsAreFresh' /\ OneConversationPerPeer'
  BY <1>1, <1>3, <1>6 DEF IdsAreFresh, OneConversationPerPeer, SnapshotUnique
<1>10. UnreadIsExplained'
  BY <1>1, <1>3 DEF UnreadIsExplained, SnapshotExplained, Incoming
<1>11. SnapshotSound(disk)'
  BY <1>1 DEF IInv
<1> QED
  BY <1>7, <1>8, <1>9, <1>10, <1>11 DEF IInv

-----------------------------------------------------------------------------
(* The invariant. *)

LEMMA InitIInv == Init => IInv
<1> SUFFICES ASSUME Init PROVE IInv
  OBVIOUS
<1>1. /\ accounts = <<>> /\ contacts = <<>> /\ conversations = <<>> /\ messages = <<>>
      /\ reactions = <<>> /\ disk = Snapshot
  BY DEF Init
<1>2. /\ DOMAIN accounts = {} /\ DOMAIN contacts = {} /\ DOMAIN conversations = {}
      /\ DOMAIN messages = {} /\ DOMAIN reactions = {}
  BY <1>1
<1>3. /\ DOMAIN disk.accounts = {} /\ DOMAIN disk.contacts = {} /\ DOMAIN disk.conversations = {}
      /\ DOMAIN disk.messages = {} /\ DOMAIN disk.reactions = {}
  BY <1>1, <1>2 DEF Snapshot
<1>4. TypeOK
  <2>1. next \in [account : 1..(MaxAccounts + 1), conversation : 1..(MaxConvs + 1),
                  message : 1..(MaxMessages + 1), reaction : 1..(MaxReactions + 1)]
    BY DEF Init
  <2> QED
    BY <1>2, <2>1 DEF Init, TypeOK, IsPartialFunction
<1>5. CoreResolves /\ IdsAreFresh /\ OneConversationPerPeer /\ UnreadIsExplained
  BY <1>2 DEF CoreResolves, ContactsResolve, ConversationsResolve, MessagesResolve, RepliesResolve,
              ReactionsResolve, IdsAreFresh, OneConversationPerPeer, UnreadIsExplained
<1>6. SnapshotSound(disk)
  BY <1>3 DEF SnapshotSound, SnapshotTyped, IsPartialFunction, Resolves, SnapshotUnique,
              SnapshotExplained
<1> QED
  BY <1>4, <1>5, <1>6 DEF IInv

LEMMA NextIInv == IInv /\ [Next]_vars => IInv'
<1> SUFFICES ASSUME IInv, [Next]_vars PROVE IInv'
  OBVIOUS
<1>1. CASE AccountStep
  BY <1>1, AddAccountInv, SetCapabilitiesInv, DeleteAccountInv DEF AccountStep
<1>2. CASE RosterStep
  BY <1>2, RosterStepInv
<1>3. CASE ConversationStep
  BY <1>3, OpenConversationInv, ReceiveTextInv, SendTextInv, MarkConversationReadInv,
     DeleteConversationInv, AttachInv, AddReactionInv DEF ConversationStep
<1>4. CASE DeliveryStep
  BY <1>4, DeliveryStepInv
<1>5. CASE Save
  BY <1>5, SaveInv
<1>6. CASE Restart
  BY <1>6, RestartInv
<1>7. CASE UNCHANGED vars
  <2>1. TypeOK' /\ CoreResolves'
    BY <1>7 DEF vars, state, IInv, TypeOK, CoreResolves, ContactsResolve, ConversationsResolve,
                MessagesResolve, RepliesResolve, ReactionsResolve
  <2>2. IdsAreFresh' /\ OneConversationPerPeer' /\ UnreadIsExplained' /\ SnapshotSound(disk)'
    BY <1>7 DEF vars, state, IInv, IdsAreFresh, OneConversationPerPeer, UnreadIsExplained
  <2> QED
    BY <2>1, <2>2 DEF IInv
<1> QED
  BY <1>1, <1>2, <1>3, <1>4, <1>5, <1>6, <1>7 DEF Next

\* The invariant holds in every reachable state, across saves and restarts.
THEOREM Invariance == Spec => []IInv
  BY InitIInv, NextIInv, PTL DEF Spec

\* Every operation of the core, and every load, keeps the types of its maps.
THEOREM TypesHold == Spec => []TypeOK
<1>1. IInv => TypeOK
  BY DEF IInv
<1> QED
  BY <1>1, Invariance, PTL

\* The cascades of delete_account and delete_conversation leave nothing behind
\* that refers to what they removed, in the core and in its snapshot.
THEOREM ReferencesResolve == Spec => []EveryReferenceResolves
<1>1. IInv => EveryReferenceResolves
  <2> SUFFICES ASSUME IInv PROVE EveryReferenceResolves
    OBVIOUS
  <2> DEFINE s == Snapshot
  <2>1. /\ s.accounts = accounts /\ s.contacts = contacts /\ s.conversations = conversations
        /\ s.messages = messages /\ s.reactions = reactions
    BY DEF Snapshot
  <2> HIDE DEF s
  <2>2. Resolves(s)
    BY <2>1 DEF Resolves, IInv, CoreResolves, ContactsResolve, ConversationsResolve,
                MessagesResolve, RepliesResolve, ReactionsResolve
  <2> QED
    BY <2>2 DEF s, EveryReferenceResolves, IInv, SnapshotSound
<1> QED
  BY <1>1, Invariance, PTL

\* No allocation falls on an id in use, also after a load has set the counters.
THEOREM FreshIds == Spec => []IdsAreFresh
<1>1. IInv => IdsAreFresh
  BY DEF IInv
<1> QED
  BY <1>1, Invariance, PTL

\* open_conversation and receive_transport_text never make a second
\* conversation with the same peer.
THEOREM UniqueConversations == Spec => []OneConversationPerPeer
<1>1. IInv => OneConversationPerPeer
  BY DEF IInv
<1> QED
  BY <1>1, Invariance, PTL

\* The unread badge never exceeds the incoming messages there are.
THEOREM BadgesAreExplained == Spec => []UnreadIsExplained
<1>1. IInv => UnreadIsExplained
  BY DEF IInv
<1> QED
  BY <1>1, Invariance, PTL

-----------------------------------------------------------------------------
(* Delivery over several steps. *)

\* A step that is no part of a delivery keeps every message that stays, adds
\* at most one under a new id, and puts nothing on the wire.
KeepsMessage(m) ==
  /\ m \in DOMAIN messages
  /\ messages'[m].delivery = messages[m].delivery
  /\ messages'[m].stamp = messages[m].stamp
  /\ messages'[m].outgoing = messages[m].outgoing
  /\ messages'[m].conversation = messages[m].conversation

AddsMessage(m) ==
  /\ m = next.message /\ m \notin DOMAIN messages /\ m < next'.message
  /\ messages'[m].outgoing => messages'[m].delivery = "Pending"

KeepsKinds ==
  \A c \in DOMAIN conversations \cap DOMAIN conversations' :
    conversations'[c].kind = conversations[c].kind

QuietStep ==
  /\ wire' = wire
  /\ next.message <= next'.message
  /\ \A m \in DOMAIN messages' : KeepsMessage(m) \/ AddsMessage(m)
  /\ KeepsKinds

LEMMA MessagesStay ==
  ASSUME IInv, UNCHANGED <<messages, wire>>, next'.message = next.message, KeepsKinds
  PROVE  QuietStep
  BY Counters DEF IInv, QuietStep, KeepsMessage

LEMMA CascadeIsQuiet ==
  ASSUME IInv, NEW cs, RemoveConversations(cs), UNCHANGED <<next, wire>>
  PROVE  QuietStep
<1>1. /\ DOMAIN messages' \subseteq DOMAIN messages
      /\ \A m \in DOMAIN messages' : messages'[m] = messages[m]
      /\ \A c \in DOMAIN conversations \cap DOMAIN conversations' : conversations'[c] = conversations[c]
  BY DEF RemoveConversations, Restrict
<1> QED
  BY <1>1, Counters DEF IInv, QuietStep, KeepsMessage, KeepsKinds

LEMMA NewMessageIsQuiet ==
  ASSUME IInv, NEW c, NEW out \in BOOLEAN, NEW reply,
         messages' = Put(messages, next.message, NewMessage(c, out, reply)),
         next'.message = next.message + 1, UNCHANGED wire, KeepsKinds
  PROVE  QuietStep
<1>1. next.message \notin DOMAIN messages
  BY Counters DEF IInv, IdsAreFresh
<1>2. /\ DOMAIN messages' = DOMAIN messages \cup {next.message}
      /\ \A m \in DOMAIN messages : messages'[m] = messages[m]
      /\ messages'[next.message] = NewMessage(c, out, reply)
  BY <1>1 DEF Put
<1>3. messages'[next.message].outgoing => messages'[next.message].delivery = "Pending"
  BY <1>2 DEF NewMessage
<1> QED
  BY <1>1, <1>2, <1>3, Counters DEF IInv, QuietStep, KeepsMessage, AddsMessage

LEMMA QuietSteps ==
  ASSUME IInv, AccountStep \/ RosterStep \/ ConversationStep \/ Save \/ UNCHANGED vars
  PROVE  QuietStep
<1>1. CASE RosterStep \/ Save \/ UNCHANGED vars
  <2>1. UNCHANGED <<messages, wire, next, conversations>>
    BY <1>1 DEF RosterStep, UpsertContact, SyncRosterContact, RemoveContact, UpdateContactPresence,
                Save, Outside, vars, state
  <2> QED
    BY <2>1, MessagesStay DEF KeepsKinds
<1>2. CASE AddAccount
  <2>1. UNCHANGED <<messages, wire, conversations>> /\ next' = [next EXCEPT !.account = @ + 1]
    BY <1>2 DEF AddAccount, Outside
  <2>2. next'.message = next.message
    BY <2>1 DEF IInv, TypeOK
  <2> QED
    BY <2>1, <2>2, MessagesStay DEF KeepsKinds
<1>3. ASSUME NEW a, SetCapabilities(a) PROVE QuietStep
  <2>1. UNCHANGED <<messages, wire, next, conversations>>
    BY <1>3 DEF SetCapabilities, Outside
  <2> QED
    BY <2>1, MessagesStay DEF KeepsKinds
<1>4. ASSUME NEW a, DeleteAccount(a) PROVE QuietStep
  BY <1>4, CascadeIsQuiet DEF DeleteAccount, Outside
<1>5. ASSUME NEW c, DeleteConversation(c) PROVE QuietStep
  BY <1>5, CascadeIsQuiet DEF DeleteConversation, Outside
<1>6. ASSUME NEW a, NEW k, NEW j, OpenConversation(a, k, j) PROVE QuietStep
  <2>1. /\ UNCHANGED <<messages, wire>> /\ next' = [next EXCEPT !.conversation = @ + 1]
        /\ conversations' = Put(conversations, next.conversation, NewConversation(a, k, j))
    BY <1>6 DEF OpenConversation, Outside
  <2>2. next'.message = next.message /\ next.conversation \notin DOMAIN conversations
    BY <2>1, Counters DEF IInv, TypeOK, IdsAreFresh
  <2>3. KeepsKinds
    BY <2>1, <2>2 DEF KeepsKinds, Put
  <2> QED
    BY <2>1, <2>2, <2>3, MessagesStay
<1>7. ASSUME NEW a, NEW k, NEW j, ReceiveText(a, k, j) PROVE QuietStep
  <2> DEFINE Conv(c) == IF c \in DOMAIN conversations THEN conversations[c] ELSE NewConversation(a, k, j)
  <2>1. PICK c :
          /\ conversations' = Put(conversations, c, [Conv(c) EXCEPT !.unread = @ + 1])
          /\ messages' = Put(messages, next.message, NewMessage(c, FALSE, NoReply))
          /\ next' = [next EXCEPT !.message = @ + 1, !.conversation = IF c = @ THEN @ + 1 ELSE @]
          /\ UNCHANGED wire
    BY <1>7 DEF ReceiveText
  <2>2. next'.message = next.message + 1
    BY <2>1 DEF IInv, TypeOK
  <2>3. KeepsKinds
    <3>1. \A d \in DOMAIN conversations : d # c => conversations'[d] = conversations[d]
      BY <2>1 DEF Put
    <3>2. c \in DOMAIN conversations => conversations'[c] = [conversations[c] EXCEPT !.unread = @ + 1]
      BY <2>1 DEF Put
    <3>3. c \in DOMAIN conversations => conversations[c] \in Conversation
      BY DEF IInv, TypeOK, IsPartialFunction
    <3>4. c \in DOMAIN conversations => conversations'[c].kind = conversations[c].kind
      BY <3>2, <3>3 DEF Conversation
    <3> QED
      BY <3>1, <3>4 DEF KeepsKinds
  <2> QED
    BY <2>1, <2>2, <2>3, NewMessageIsQuiet
<1>8. ASSUME NEW c, SendText(c) PROVE QuietStep
  <2>1. PICK reply : messages' = Put(messages, next.message, NewMessage(c, TRUE, reply))
    BY <1>8 DEF SendText
  <2>2. UNCHANGED <<conversations, wire>> /\ next'.message = next.message + 1
    BY <1>8 DEF SendText, IInv, TypeOK
  <2> QED
    BY <2>1, <2>2, NewMessageIsQuiet DEF KeepsKinds
<1>9. ASSUME NEW c, MarkConversationRead(c) PROVE QuietStep
  <2>1. /\ UNCHANGED <<messages, wire, next>>
        /\ conversations' = [conversations EXCEPT ![c] = [conversations[c] EXCEPT !.unread = 0]]
    BY <1>9 DEF MarkConversationRead, Outside
  <2>2. \A d \in DOMAIN conversations : conversations[d] \in Conversation
    BY DEF IInv, TypeOK, IsPartialFunction
  <2>3. KeepsKinds
    BY <2>1, <2>2 DEF KeepsKinds, Conversation
  <2> QED
    BY <2>1, <2>3, MessagesStay
<1>10. ASSUME NEW m, Attach(m) PROVE QuietStep
  <2>1. /\ m \in DOMAIN messages /\ UNCHANGED <<conversations, wire, next>>
        /\ messages' = [messages EXCEPT ![m] = [messages[m] EXCEPT !.kind = "Attachment"]]
    BY <1>10 DEF Attach, Outside
  <2>2. \A n \in DOMAIN messages : messages[n] \in Message
    BY DEF IInv, TypeOK, IsPartialFunction
  <2>3. \A n \in DOMAIN messages' : KeepsMessage(n)
    BY <2>1, <2>2 DEF KeepsMessage, Message
  <2> QED
    BY <2>1, <2>3, Counters DEF IInv, QuietStep, KeepsKinds
<1>11. ASSUME NEW m, AddReaction(m) PROVE QuietStep
  <2>1. UNCHANGED <<messages, wire, conversations>> /\ next' = [next EXCEPT !.reaction = @ + 1]
    BY <1>11 DEF AddReaction, Outside
  <2>2. next'.message = next.message
    BY <2>1 DEF IInv, TypeOK
  <2> QED
    BY <2>1, <2>2, MessagesStay DEF KeepsKinds
<1>12. CASE AccountStep
  BY <1>2, <1>3, <1>4, <1>12 DEF AccountStep
<1>13. CASE ConversationStep
  BY <1>5, <1>6, <1>7, <1>8, <1>9, <1>10, <1>11, <1>13 DEF ConversationStep
<1> QED
  BY <1>1, <1>12, <1>13

\* What one send does: the first waiting message is sent, or fails.
LEMMA FlushStep ==
  ASSUME IInv, NEW a, FlushOne(a)
  PROVE  \E m \in DOMAIN messages, d \in {"Sent", "Failed"} :
           /\ messages[m].delivery \in Retryable
           /\ messages' = [messages EXCEPT ![m] = [messages[m] EXCEPT !.delivery = d]]
           /\ \E s : /\ s.id = m /\ s.stamp = messages[m].stamp
                     /\ wire' \in {wire, wire \cup {s}}
                     /\ d = "Sent" => s \in wire'
<1> DEFINE m == Min(Outbox(a))
           s == [account |-> a, address |-> conversations[messages[m].conversation].address,
                 id |-> m, stamp |-> messages[m].stamp]
<1>1. m \in DOMAIN messages /\ messages[m].delivery \in Retryable
  BY FlushTakes DEF FlushOne
<1>2. \/ messages' = [messages EXCEPT ![m].delivery = "Sent"] /\ wire' = wire \cup {s}
      \/ messages' = [messages EXCEPT ![m].delivery = "Failed"] /\ wire' \in {wire, wire \cup {s}}
  BY DEF FlushOne
<1>3. s.id = m /\ s.stamp = messages[m].stamp
  OBVIOUS
<1> HIDE DEF m, s
<1>4. CASE messages' = [messages EXCEPT ![m].delivery = "Sent"] /\ wire' = wire \cup {s}
  BY <1>1, <1>3, <1>4
<1>5. CASE messages' = [messages EXCEPT ![m].delivery = "Failed"] /\ wire' \in {wire, wire \cup {s}}
  BY <1>1, <1>3, <1>5
<1> QED
  BY <1>2, <1>4, <1>5

\* A receipt raises the delivery state of the message of one stanza.
LEMMA ReceiptStep ==
  ASSUME IInv, ReceiptArrives
  PROVE  \E s \in wire :
           /\ s.id \in DOMAIN messages
           /\ Rank["Delivered"] > Rank[messages[s.id].delivery]
           /\ conversations[messages[s.id].conversation].kind = "Direct"
           /\ messages' = [messages EXCEPT ![s.id] = [messages[s.id] EXCEPT !.delivery = "Delivered"]]
  BY DEF ReceiptArrives, Acknowledges

LEMMA RankTyped == \A d \in DeliveryState : Rank[d] \in Nat
  BY DEF Rank, DeliveryState

Advances ==
  restarts' = restarts =>
    \A m \in DOMAIN messages \cap DOMAIN messages' :
      messages[m].delivery \notin Retryable =>
        Rank[messages'[m].delivery] >= Rank[messages[m].delivery]

LEMMA NextAdvances == IInv /\ [Next]_vars => Advances
<1> SUFFICES ASSUME IInv, [Next]_vars PROVE Advances
  OBVIOUS
<1>1. \A m \in DOMAIN messages : messages[m] \in Message /\ Rank[messages[m].delivery] \in Nat
  BY RankTyped DEF IInv, TypeOK, IsPartialFunction, Message
<1>2. CASE AccountStep \/ RosterStep \/ ConversationStep \/ Save \/ UNCHANGED vars
  BY <1>1, <1>2, QuietSteps DEF QuietStep, KeepsMessage, AddsMessage, Advances
<1>3. CASE \E a \in AccountIds : FlushOne(a)
  <2>1. PICK n \in DOMAIN messages, d \in {"Sent", "Failed"} :
          /\ messages[n].delivery \in Retryable
          /\ messages' = [messages EXCEPT ![n] = [messages[n] EXCEPT !.delivery = d]]
    BY <1>3, FlushStep
  <2>2. \A m \in DOMAIN messages : m # n => messages'[m] = messages[m]
    BY <2>1
  <2> QED
    BY <1>1, <2>1, <2>2 DEF Advances
<1>4. CASE ReceiptArrives
  <2>1. PICK s \in wire :
          /\ s.id \in DOMAIN messages
          /\ Rank["Delivered"] > Rank[messages[s.id].delivery]
          /\ messages' = [messages EXCEPT ![s.id] = [messages[s.id] EXCEPT !.delivery = "Delivered"]]
    BY <1>4, ReceiptStep
  <2>2. \A m \in DOMAIN messages : m # s.id => messages'[m] = messages[m]
    BY <2>1
  <2>3. messages'[s.id].delivery = "Delivered"
    BY <1>1, <2>1 DEF Message
  <2>4. Rank["Delivered"] \in Nat
    BY RankTyped DEF DeliveryState
  <2> QED
    BY <1>1, <2>1, <2>2, <2>3, <2>4 DEF Advances
<1>5. CASE Restart
  BY <1>5 DEF Restart, Advances, IInv, TypeOK
<1> QED
  BY <1>2, <1>3, <1>4, <1>5 DEF Next, DeliveryStep

\* Within a process, a message that was sent is never sent again, and no
\* receipt is taken back.
THEOREM DeliveryAdvances == Spec => DeliveryNeverRegresses
<1>1. IInv /\ [Next]_vars => [Advances]_vars
  BY NextAdvances
<1>2. Spec => [][Advances]_vars
  BY <1>1, Invariance, PTL DEF Spec
<1> QED
  BY <1>2 DEF Advances, DeliveryNeverRegresses

\* As long as no process has restarted, an id names one message for ever: a
\* stanza on the wire is that of the message with its id, while there is one.
WireInv ==
  restarts = 0 =>
    /\ \A s \in wire : /\ s.id < next.message
                       /\ s.id \in DOMAIN messages => messages[s.id].stamp = s.stamp
    /\ SentMeansWired

LEMMA QuietWireInv ==
  ASSUME IInv, IInv', WireInv, QuietStep, restarts' = restarts
  PROVE  WireInv'
<1> SUFFICES ASSUME restarts = 0 PROVE WireInv'
  BY DEF WireInv
<1>1. ASSUME NEW s \in wire'
      PROVE  s.id < next'.message /\ (s.id \in DOMAIN messages' => messages'[s.id].stamp = s.stamp)
  <2>1. s \in wire /\ s.id \in Nat /\ s.id < next.message
    <3>1. s \in wire
      BY <1>1 DEF QuietStep
    <3>2. s \in Stanza
      BY <3>1 DEF IInv, TypeOK
    <3> QED
      BY <3>1, <3>2 DEF WireInv, Stanza, MessageIds
  <2>2. next'.message \in Nat /\ next.message \in Nat /\ next.message <= next'.message
    BY Counters DEF QuietStep, IInv, TypeOK
  <2>3. s.id \in DOMAIN messages' => KeepsMessage(s.id)
    BY <2>1, <2>2 DEF QuietStep, AddsMessage
  <2> QED
    BY <2>1, <2>2, <2>3 DEF WireInv, KeepsMessage
<1>2. SentMeansWired'
  <2> SUFFICES ASSUME NEW m \in DOMAIN messages',
                      messages'[m].outgoing, messages'[m].delivery \notin Retryable
               PROVE  /\ \E s \in wire' : s.stamp = messages'[m].stamp
                      /\ messages'[m].delivery = "Delivered" =>
                           conversations'[messages'[m].conversation].kind = "Direct"
    BY DEF SentMeansWired
  <2>1. KeepsMessage(m)
    BY DEF QuietStep, AddsMessage, Retryable
  <2>2. messages[m].conversation \in DOMAIN conversations \cap DOMAIN conversations'
    BY <2>1 DEF KeepsMessage, IInv, CoreResolves, MessagesResolve
  <2>3. conversations'[messages[m].conversation].kind = conversations[messages[m].conversation].kind
    BY <2>2 DEF QuietStep, KeepsKinds
  <2> QED
    BY <2>1, <2>3 DEF KeepsMessage, WireInv, SentMeansWired, QuietStep
<1> QED
  BY <1>1, <1>2 DEF WireInv

LEMMA NextWireInv == IInv /\ IInv' /\ WireInv /\ [Next]_vars => WireInv'
<1> SUFFICES ASSUME IInv, IInv', WireInv, [Next]_vars PROVE WireInv'
  OBVIOUS
<1>1. CASE AccountStep \/ RosterStep \/ ConversationStep \/ Save \/ UNCHANGED vars
  <2>1. restarts' = restarts
    BY <1>1 DEF AccountStep, AddAccount, SetCapabilities, DeleteAccount, RosterStep, UpsertContact,
         SyncRosterContact, RemoveContact, UpdateContactPresence, ConversationStep,
         OpenConversation, ReceiveText, SendText, MarkConversationRead, DeleteConversation,
         Attach, AddReaction, Save, Outside, vars
  <2> QED
    BY <1>1, <2>1, QuietSteps, QuietWireInv
<1>2. \A m \in DOMAIN messages : messages[m] \in Message /\ m < next.message
  BY DEF IInv, TypeOK, IsPartialFunction, IdsAreFresh
<1>3. CASE \E a \in AccountIds : FlushOne(a)
  <2>1. UNCHANGED <<next, conversations, restarts>>
    BY <1>3 DEF FlushOne
  <2>2. PICK n \in DOMAIN messages, d \in {"Sent", "Failed"} :
          /\ messages' = [messages EXCEPT ![n] = [messages[n] EXCEPT !.delivery = d]]
          /\ \E s : /\ s.id = n /\ s.stamp = messages[n].stamp
                    /\ wire' \in {wire, wire \cup {s}}
                    /\ d = "Sent" => s \in wire'
    BY <1>3, FlushStep
  <2>3. PICK t : /\ t.id = n /\ t.stamp = messages[n].stamp
                 /\ wire' \in {wire, wire \cup {t}}
                 /\ d = "Sent" => t \in wire'
    BY <2>2
  <2>4. /\ DOMAIN messages' = DOMAIN messages
        /\ \A m \in DOMAIN messages : m # n => messages'[m] = messages[m]
        /\ messages'[n].delivery = d /\ messages'[n].stamp = messages[n].stamp
        /\ messages'[n].conversation = messages[n].conversation
    BY <1>2, <2>2 DEF Message
  <2>5. wire \subseteq wire'
    BY <2>3
  <2>6. SentMeansWired => SentMeansWired'
    <3> SUFFICES ASSUME SentMeansWired, NEW m \in DOMAIN messages',
                        messages'[m].outgoing, messages'[m].delivery \notin Retryable
                 PROVE  /\ \E s \in wire' : s.stamp = messages'[m].stamp
                        /\ messages'[m].delivery = "Delivered" =>
                             conversations'[messages'[m].conversation].kind = "Direct"
      BY DEF SentMeansWired
    <3>1. CASE m = n
      BY <2>3, <2>4, <3>1 DEF Retryable
    <3>2. CASE m # n
      BY <2>1, <2>4, <2>5, <3>2 DEF SentMeansWired
    <3> QED
      BY <3>1, <3>2
  <2>7. ASSUME restarts = 0, NEW s \in wire'
        PROVE  s.id < next'.message /\ (s.id \in DOMAIN messages' => messages'[s.id].stamp = s.stamp)
    <3>1. CASE s = t
      BY <1>2, <2>1, <2>3, <2>4, <3>1
    <3>2. CASE s \in wire
      BY <2>1, <2>4, <2>7, <3>2 DEF WireInv
    <3> QED
      BY <2>3, <2>7, <3>1, <3>2
  <2> QED
    BY <2>1, <2>6, <2>7 DEF WireInv
<1>4. CASE ReceiptArrives
  <2>1. UNCHANGED <<next, conversations, restarts, wire>>
    BY <1>4 DEF ReceiptArrives, Outside
  <2>2. PICK t \in wire :
          /\ t.id \in DOMAIN messages
          /\ conversations[messages[t.id].conversation].kind = "Direct"
          /\ messages' = [messages EXCEPT ![t.id] = [messages[t.id] EXCEPT !.delivery = "Delivered"]]
    BY <1>4, ReceiptStep
  <2>3. /\ DOMAIN messages' = DOMAIN messages
        /\ \A m \in DOMAIN messages : m # t.id => messages'[m] = messages[m]
        /\ messages'[t.id].stamp = messages[t.id].stamp
        /\ messages'[t.id].conversation = messages[t.id].conversation
    BY <1>2, <2>2 DEF Message
  <2> SUFFICES ASSUME restarts = 0 PROVE WireInv'
    BY <2>1 DEF WireInv
  <2>4. messages[t.id].stamp = t.stamp
    BY <2>2 DEF WireInv
  <2>5. SentMeansWired'
    BY <2>1, <2>2, <2>3, <2>4 DEF WireInv, SentMeansWired
  <2> QED
    BY <2>1, <2>3, <2>5 DEF WireInv
<1>5. CASE Restart
  BY <1>5 DEF Restart, WireInv, IInv, TypeOK
<1> QED
  BY <1>1, <1>3, <1>4, <1>5 DEF Next, DeliveryStep

\* Until a first restart gives ids out again, a message counts as sent or
\* delivered only if its own stanza went out, and as delivered only in a direct
\* conversation.  Across restarts this is false, see UnrelatedReceiptIgnored.
THEOREM SentWasWired == Spec => [](restarts = 0 => SentMeansWired)
<1>1. Init => WireInv
  BY DEF Init, WireInv, SentMeansWired
<1>2. WireInv => (restarts = 0 => SentMeansWired)
  BY DEF WireInv
<1> QED
  BY <1>1, <1>2, NextWireInv, Invariance, PTL DEF Spec

=============================================================================
