SPECIFICATION Spec
CONSTANT MaxVisits = 2
INVARIANT LabelNamesOther
CHECK_DEADLOCK FALSE
