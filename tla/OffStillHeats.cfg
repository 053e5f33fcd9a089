SPECIFICATION Spec
CONSTANTS
  CommandQueueLen = 1
  EventQueueLen = 1
  NumActuators = 1
  Levels <- MCLevels
  Garbage <- NoGarbage
  Slot = {s1}
  NoTask = NoTask
  MayFail = {}
  HastyOperator = FALSE
  MaxPrompts = 1
INVARIANT OffMeansIdle
