SPECIFICATION FairBootSpec
CONSTANTS
  MaxPowerCuts = 4
  MaxVisits = 40
INVARIANT BackLeadsToMenu
PROPERTIES ErasedOnlyIfUnreadable ComesUp
\* The firmware runs, the power fails no more, and the operator has gone back.
CHECK_DEADLOCK FALSE
