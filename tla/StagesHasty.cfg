SPECIFICATION TimerSpec
CONSTANTS
  CommandQueueLen = 2
  EventQueueLen = 2
  NumActuators = 1
  Levels <- NoLevels
  Garbage <- NoLevels
  Slot = {s1, s2}
  NoTask = NoTask
  MayFail <- TorraOnly
  HastyOperator = TRUE
  MaxPrompts = 1
SYMMETRY SlotSymmetry
INVARIANTS StagesInOrder StaleButtonNotified HandlesReady OldTimeIsCleared OneClockWriter
PROPERTY StageProtocol
\* Everyone can end up waiting for everyone: see DisplayStops.cfg.
CHECK_DEADLOCK FALSE
