CONSTANTS
  N = 2
  MaxEditions = 3
  LangEditions = 2
SPECIFICATION AppSpec
INVARIANTS RowsAreTrue RemovedStaysAway WaitsAreServed OldOrNewSurvives OutcomeIsTruthful
PROPERTIES LeftoversUntouched
CHECK_DEADLOCK FALSE
