\* Delivery in one process: two accounts, direct and group conversations and
\* every capability.
CONSTANTS
  p1 = p1
  Peers <- OnePeer
  RosterPeers <- NoPeer
  Capabilities <- AllCapabilities
  MaxAccounts = 2
  MaxConvs = 2
  MaxMessages = 2
  MaxReactions = 0
  MaxBorn = 2
  MaxRestarts = 0
SPECIFICATION Spec
INVARIANTS OneConversationPerPeer UnreadIsExplained SentMeansWired
PROPERTY DeliveryNeverRegresses
CHECK_DEADLOCK FALSE
