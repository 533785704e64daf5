CONSTANTS
  c1 = c1 c2 = c2 a = a k1 = k1
  Callers = {c1, c2}
  RawCap = 1
  Scopes = {a}
  NoRun = NoRun
  ScopeOf <- SameScope
  Nowait = {c2}
  Controllers = {k1}
  Orders <- AnyOrder
SPECIFICATION FairSpec
CHECK_DEADLOCK FALSE
INVARIANTS
  NothingLeaks
  OneRunPerScope
  
PROPERTY SlotComesBack
