\* Few signals, every failure and two sizes; the bounds of the other instance
\* are in MCUiLoop.
SPECIFICATION LoopSpec
CONSTANTS
  Sizes = {s1, s2}
  Keys <- MenuKeys
  Events <- FewEvents
  Batch = 2
  MaxInbox = 1
  MaxTyped = 2
  Fails = TRUE
INVARIANTS
  SleepsUpToDate
  ScreenTakesKeys
SYMMETRY SizesAlike
