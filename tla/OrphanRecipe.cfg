SPECIFICATION Spec
CONSTANTS
  CommandQueueLen = 1
  EventQueueLen = 1
  NumActuators = 1
  Levels <- NoLevels
  Garbage <- NoGarbage
  Slot = {s1, s2}
  NoTask = NoTask
  MayFail = {}
  HastyOperator = TRUE
  MaxPrompts = 1
SYMMETRY SlotSymmetry
INVARIANT RecipeIsCurrent
CHECK_DEADLOCK FALSE
