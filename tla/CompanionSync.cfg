SPECIFICATION FairSpec
CONSTANTS
  Slots = {tcp0}
  NamedApps = {named}
  PlainApps = {plain}
  LiveApps = {named}
  RingSize = 2
  MaxClients = 2
  MaxMsgs = 3
  MaxFails = 1
  MaxStarts = 2
  MaxCuts = 1
INVARIANTS NothingElsePassedOver NumbersAscend CleanIsDurable
PROPERTIES LoggedStays EverythingSettles
CHECK_DEADLOCK FALSE
