SPECIFICATION FairPSpec
CONSTANTS
  Main = Main
  Default = Default
  Poison = Poison
  Threads = {Main, c1, c2, w1, w2}
  Values = {Default, Poison, r1, r2, r3}
  Clients = {c1, c2}
  Workers = {w1, w2}
  Requests = {r1, r2, r3}
  Refused = {r3}
  Throwing = {c1, w1}
  Size = 2
INVARIANTS NoRace PoolTypeOK HandledOnce
PROPERTIES ImplementsFifo Terminates
CHECK_DEADLOCK FALSE
