CONSTANTS
  a = a b = b empty = empty blank = blank ask = ask link = link
  NoEvent = NoEvent NoText = NoText
  Bodies = {a, b, empty, blank}
  Empty = empty
  Blank = blank
  Keys = {ask, link}
  Links = {link}
  Lines <- SomeLines
  Finals <- SomeFinals
  Stoppers = {k}
  ChanCap = 1
  MaxLines = 3
SPECIFICATION FairSpec
CHECK_DEADLOCK FALSE
INVARIANTS
  EndsOnce
  SoundOutput
PROPERTIES
  CandidateSurvives
  StopIsReported
  ExitEndsRun
