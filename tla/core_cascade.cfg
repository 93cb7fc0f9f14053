\* Cascades of deletions, saves and a restart: one account with a contact, two
\* conversations, two messages that may answer each other, and a reaction.
CONSTANTS
  p1 = p1
  Peers <- OnePeer
  RosterPeers <- OnePeer
  Capabilities <- ReactionsOnly
  MaxAccounts = 1
  MaxConvs = 2
  MaxMessages = 2
  MaxReactions = 1
  MaxBorn = 2
  MaxRestarts = 1
SPECIFICATION Spec
INVARIANTS TypeOK EveryReferenceResolves IdsAreFresh
CHECK_DEADLOCK FALSE
