SPECIFICATION FairSpec
CONSTANTS
  Inputs = {i1, i2}
  Outputs = {o1, o2}
  Silences = {z1, z2}
  DSP_BUFFER_SIZE = 2
  Counts = {3}
  Rates = {1, 2}
  FirstRate = 1
  TagMod = 1
  Nil = Nil
INVARIANTS PdcaHasRoom OnePlace
PROPERTY RequestsReturn
