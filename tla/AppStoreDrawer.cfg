CONSTANTS
  N = 2
  MaxEditions = 2
  LangEditions = 1
SPECIFICATION AppSpec
INVARIANTS NewestResultStands
CHECK_DEADLOCK FALSE
