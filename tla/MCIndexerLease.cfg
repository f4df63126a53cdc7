SPECIFICATION Spec
CONSTANTS
  i1 = i1
  i2 = i2
  i3 = i3
  None = none
  Instances <- ThreeInstances
  Skew <- Clocks
  MaxSkew = 1
  Ttl = 3
  MaxIteration = 5
INVARIANTS
  TypeOK
  OverlapNeedsOverrun
PROPERTIES
  ScanningGoesOn
