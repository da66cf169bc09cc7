CONSTANTS
  ui = ui worker = worker
  rUi = rUi rW1 = rW1 rW2 = rW2
  wUi = wUi wNest = wNest wMount = wMount
  NoTask = NoTask
  Tasks <- MCTasks
  Readers <- MCReaders
  Transitions <- MCTransitions
  TaskOf <- MCTaskOf
  MaxReaders = 2
SPECIFICATION FairSpec
INVARIANTS ExclusivePhase CountIsExact BorrowedInside
PROPERTIES ImplementsGate ReservationServed
