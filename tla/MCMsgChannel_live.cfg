SPECIFICATION FairSpec
CONSTANTS
  c1 = c1
  c2 = c2
  p1 = p1
  m1 = m1
  NoMessage = NoMessage
  Producers = {p1}
  Consumers = {c1, c2}
  Messages = {m1}
  Capacity = 1
  SeqMod = 8
  WaitModes = {"deadline", "forever"}
  MaxCalls = 1
  MaxInterrupts = 1
PROPERTIES SleeperServed TimedCallReturns
