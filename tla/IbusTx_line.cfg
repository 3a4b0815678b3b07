SPECIFICATION FairSpec
CONSTANTS
  Msgs = {m1, m2, m3}
  Senders = {s1, s2}
  Payloads = {p, q}
  CtsReported = FALSE
  Nil = Nil
  Quiet = Quiet
INVARIANTS DmaOwned
PROPERTIES ImplementsLine WakeUpDrains
