CONSTANTS
  NoMessage = NoMessage
  MaxEvents = 2
  JournalMax = 1
  HeldMax = 2
  AlertsMax = 1
  PageMax = 1
  Window = 2
  MaxCommands = 2
  MaxAlerts = 1
  Urgencies = {TRUE}
  MaxLog = 3
  MaxReads = 0
  MaxRetries = 1
  MaxFaults = 1
SPECIFICATION Spec
INVARIANTS NoForgottenCommand SendsAreDecisions OutcomeIsTheCommands AckedOutcomeKept
