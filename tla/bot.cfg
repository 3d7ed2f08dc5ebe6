SPECIFICATION Spec
CONSTANTS
  Environments <- MCEnvironments
  Classes <- MCClasses
  Requirable <- MCRequirable
  MaxStarts = 3
  Unset = Unset
  Nobody = Nobody
  Stanzas <- MCStanzas
  Typed <- MCBotJid
  Addresses <- MCAddresses
  Words <- MCWords
  Bares <- MCBares
  MaxArrivals = 2
  MaxEdits = 2
INVARIANTS TypeOK HandledOnce RepliesFollowEdits
PROPERTIES OnlineMeansReady ComesOnline
CHECK_DEADLOCK FALSE
