SPECIFICATION Spec
CONSTANTS
  t1 = t1
  t2 = t2
  m1 = m1
  m2 = m2
  NoMessage = NoMessage
  Producers = {t1, t2}
  Consumers = {t1, t2}
  Messages = {m1, m2}
  Capacity = 2
  SeqMod = 8
  WaitModes = {"once", "deadline", "forever"}
  MaxCalls = 3
  MaxInterrupts = 1
SYMMETRY Symmetry
INVARIANTS TypeOK MutualExclusion WaitersExact NoLostWakeup
  TimeoutOnlyPastDeadline
PROPERTY ImplementsFifo
