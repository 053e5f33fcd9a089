SPECIFICATION ArcPanelSpec
CONSTANTS
  CommandQueueLen = 1
  EventQueueLen = 1
  NumActuators = 2
  Levels <- OneLevel
  Garbage <- NoGarbage
  Slot = {s1}
  NoTask = NoTask
  MayFail = {}
  HastyOperator = TRUE
  MaxPrompts = 1
INVARIANTS TypeOK StateFollowsStage ArcFollowsActuator RestingArcsAgree
PROPERTY ActuatorsGated
\* Everyone can end up waiting for everyone: see DisplayStops.cfg.
CHECK_DEADLOCK FALSE
