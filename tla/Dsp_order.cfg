SPECIFICATION Spec
CONSTANTS
  Inputs = {i1, i2}
  Outputs = {o1, o2, o3}
  Silences = {z1, z2}
  DSP_BUFFER_SIZE = 2
  Counts = {1, 3}
  Rates = {1}
  FirstRate = 1
  TagMod = 13
  Nil = Nil
SYMMETRY Symmetry
INVARIANTS AudioInOrder PlayingKept
