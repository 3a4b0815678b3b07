SPECIFICATION FairSpec
CONSTANTS
  NacMax = 2
INVARIANTS OnePlace WriteMeansCard Settled
PROPERTY RequestsReturn
