SPECIFICATION FairSpec
CONSTANTS
  CommandQueueLen = 1
  EventQueueLen = 1
  NumActuators = 1
  Levels <- NoLevels
  Garbage <- NoGarbage
  Slot = {s1, s2}
  NoTask = NoTask
  MayFail = {}
  HastyOperator = TRUE
  MaxPrompts = 1
PROPERTY DisplayKeepsReading
CHECK_DEADLOCK FALSE
