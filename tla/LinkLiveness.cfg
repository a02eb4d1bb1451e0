\* One port, one message of the user under way at a time; settings that are
\* accepted and settings the platform refuses.
SPECIFICATION Spec
CONSTANTS
  dtr = dtr
  h1 = h1
  p1 = p1
  plain = plain
  Ports = {p1}
  NoPort = NoPort
  Lines = {plain, dtr}
  NoConfig = NoConfig
  BadLines = {}
  DtrLines = {dtr}
  SupportsDtrDsr = FALSE
  Handles = {h1}
  NoHandle = NoHandle
  DefaultLine = plain
  InboxLen = 2
  AoQueueLen = 2
  UiQueueLen = 1
  MaxBacklog = 1
PROPERTIES
  RequestsAreAnswered
  HangUpIsNoticed
