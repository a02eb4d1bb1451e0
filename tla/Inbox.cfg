\* Two producing threads and the UI thread's own input, two slots; the bounds
\* of the loop are in MCWakeInbox.
SPECIFICATION ThreadsSpec
CONSTANTS
  a = a
  b = b
  x = x
  y = y
  Producers = {a, b}
  Consumer = Consumer
  NoThread = NoThread
  Events = {x, y}
  NoEvent = NoEvent
  QLen = 2
  OwnInput = TRUE
INVARIANTS
  NoLostWake
PROPERTIES
  IsChannel
  FrameShown
