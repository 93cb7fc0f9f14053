\* A peer on two devices, its roster entry, its texts and the user, in a session
\* that is resumed or begun anew.
CONSTANTS
  p1 = p1
  p2 = p2
  Peers <- OnePeer
  Devices = {"phone", "desk"}
  Items = {"absent", "none", "both"}
  Shows = {"chat", "unavailable"}
  Announces = {{"stream-sm", "other"}, {"muc"}}
  Texts <- SomeTexts
  MaxSessions = 2
  MaxEvents = 3
  MaxStanzas = 2
  MaxWritten = 1
SPECIFICATION SideSpec
INVARIANTS
  TypeOK RosterIsComplete LastPresenceIsShown CapabilitiesAreCurrent
  TextsAreShownOnce DeliveredMeansReceived RequestsAreAnswered
CHECK_DEADLOCK FALSE
