SPECIFICATION Spec
CONSTANTS
  Channel = {"grao"}
  Samples = {1, 10}
  MinSample = 1
  MaxSample = 10
  MinIterations = 11
INVARIANTS TypeOK ReadingsInRange
