CONSTANTS
  Callers = {c1, c2, c3, c4}
  RawCap = 2
  Progress = {text}
  Terminal = {end}
  Subscribers = {u1, u2}
  Slow = {u2}
  MaxEvents = 3
  Scopes = {s1, s2}
  Flushers = {f1, f2}
  Endless = {s2}
  WorkerCap = 1
  MaxPush = 2
  Procs = {p1, p2, p3, p4}
  Crashers = {p1}
  Sleepers = {p2}
SPECIFICATION FairSpec
INVARIANTS
  NoLostWakeup
  EachOnce
  SomebodyFlushes
  OneHolder
PROPERTIES
  SleepersServed
  EveryoneFinishes
  PromisedLog
  QueueSettles
  LeftoverIsReclaimed
