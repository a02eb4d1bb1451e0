\* Two ports; plain lines, RTS/CTS lines and DTR/DSR lines the platform refuses.
SPECIFICATION Spec
CONSTANTS
  p1 = p1
  p2 = p2
  h1 = h1
  h2 = h2
  plain = plain
  rtscts = rtscts
  dtrdsr = dtrdsr
  Ports = {p1, p2}
  NoPort = NoPort
  Lines = {plain, rtscts, dtrdsr}
  NoConfig = NoConfig
  RtsLines = {rtscts}
  DtrLines = {dtrdsr}
  SupportsDtrDsr = FALSE
  Handles = {h1, h2}
  NoHandle = NoHandle
INVARIANTS
  ResourcesMatch
  LineIsApplied
  PinsParked
PROPERTIES
  IsRuntime
