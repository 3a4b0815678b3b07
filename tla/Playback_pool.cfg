SPECIFICATION Spec
CONSTANTS
  Msgs = {m1, m2, m3}
  Clients = {c1, c2}
  Commands = {"RESUME", "PAUSE", "STOP", "INVALID"}
  TxMod = 1
  CbChoices = {TRUE, FALSE}
  HeardMax = 1
  Nil = Nil
SYMMETRY Symmetry
INVARIANTS OnePlace SendsNeverBlock FileOwned
CHECK_DEADLOCK FALSE
