SPECIFICATION FairSpec
CONSTANTS
  Msgs = {m1, m2}
  Clients = {blu}
  Commands = {"RESUME", "PAUSE", "STOP"}
  TxMod = 2
  CbChoices = {TRUE, FALSE}
  HeardMax = 1
  Nil = Nil
PROPERTIES ImplementsService CommandsServed SongsClosed
