SPECIFICATION Spec
CONSTANTS
  Msgs = {m1, m2, m3}
  Senders = {s1, s2}
  Payloads = {p}
  CtsReported = TRUE
  Nil = Nil
  Quiet = Quiet
SYMMETRY Symmetry
INVARIANTS OnePlace ReceiveFinds
