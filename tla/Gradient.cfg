SPECIFICATION Spec
CONSTANTS
  Channel = {"ar", "grao"}
  Samples = {9}
  MinSample = 9
  MaxSample = 9
  MinIterations = 11
PROPERTY SteadyHasNoGradient
