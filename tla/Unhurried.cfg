SPECIFICATION FairTimerSpec
CONSTANTS
  CommandQueueLen = 1
  EventQueueLen = 1
  NumActuators = 1
  Levels <- NoLevels
  Garbage <- TooMuch
  Slot = {s1, s2}
  NoTask = NoTask
  MayFail <- TorraOnly
  HastyOperator = FALSE
  MaxPrompts = 1
INVARIANTS OneStageTask NeverPanics
PROPERTIES ControllerReturns ButtonCatchesUp TimerComesToRun
