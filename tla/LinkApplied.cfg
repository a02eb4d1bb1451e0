\* A rejected connect to the second port, then a configuration.
SPECIFICATION Spec
CONSTANTS
  h1 = h1
  odd = odd
  p1 = p1
  p2 = p2
  plain = plain
  Ports = {p1, p2}
  NoPort = NoPort
  Lines = {plain, odd}
  NoConfig = NoConfig
  BadLines = {odd}
  DtrLines = {}
  SupportsDtrDsr = TRUE
  Handles = {h1}
  NoHandle = NoHandle
  DefaultLine = plain
  InboxLen = 2
  AoQueueLen = 3
  UiQueueLen = 3
  MaxBacklog = 2
SYMMETRY Interchangeable
INVARIANTS
  AppliedIsOfOpenPort
