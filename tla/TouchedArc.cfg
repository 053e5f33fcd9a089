SPECIFICATION Spec
CONSTANTS
  CommandQueueLen = 1
  EventQueueLen = 1
  NumActuators = 1
  Levels <- NoLevels
  Garbage <- MCGarbage
  Slot = {s1}
  NoTask = NoTask
  MayFail = {}
  HastyOperator = FALSE
  MaxPrompts = 1
INVARIANT ActuatorPercent
