\* Switching ports while the first one hangs up.
SPECIFICATION Spec
CONSTANTS
  h1 = h1
  p1 = p1
  p2 = p2
  plain = plain
  Ports = {p1, p2}
  NoPort = NoPort
  Lines = {plain}
  NoConfig = NoConfig
  BadLines = {}
  DtrLines = {}
  SupportsDtrDsr = TRUE
  Handles = {h1}
  NoHandle = NoHandle
  DefaultLine = plain
  InboxLen = 2
  AoQueueLen = 3
  UiQueueLen = 3
  MaxBacklog = 2
PROPERTIES
  OnlyHungPortsAreLost
