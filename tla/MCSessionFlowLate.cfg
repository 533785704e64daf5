CONSTANTS
  Runs = {r1, r2}
  Commands = {c1}
  Sids = {s1, s2}
  Dirs = {d1, d2}
  Policies = {p1, p2}
  Agents = {"claude", "codex"}
  None = None
  MaxOffers = 1
  MaxTrouble = 0
SPECIFICATION Spec
CHECK_DEADLOCK FALSE
PROPERTIES
  NewStartsAfresh
