\* Two ports, one wait object reused: switching, losing and reopening ports.
SPECIFICATION Spec
CONSTANTS
  h1 = h1
  p1 = p1
  p2 = p2
  plain = plain
  Ports = {p1, p2}
  NoPort = NoPort
  Lines = {plain}
  NoConfig = NoConfig
  BadLines = {}
  DtrLines = {}
  SupportsDtrDsr = TRUE
  Handles = {h1}
  NoHandle = NoHandle
  DefaultLine = plain
  InboxLen = 2
  AoQueueLen = 2
  UiQueueLen = 1
  MaxBacklog = 2
SYMMETRY Interchangeable
INVARIANTS
  TypeOK
  SettledStatusIsTrue
  LinkCoherent
  PacketsAreOfOneConnection
  PacketsOnlyWhileUp
  NoSleepOnRequests
