CONSTANTS
  NoMessage = NoMessage
  MaxEvents = 2
  JournalMax = 1
  HeldMax = 2
  AlertsMax = 1
  PageMax = 1
  Window = 2
  MaxCommands = 1
  MaxAlerts = 2
  Urgencies = {TRUE, FALSE}
  MaxLog = 2
  MaxReads = 1
  MaxRetries = 0
  MaxFaults = 1
SPECIFICATION FairSpec
INVARIANTS AckedIsStored
PROPERTIES AlertsArrive OutcomeArrives
