\* Packets of 4 bytes from reads of up to 3: packets end inside a read, at
\* its end and after the idle time.
SPECIFICATION Spec
CONSTANTS
  PacketSize = 4
  ReadSize = 3
  IdleMs = 3
  MaxBytes = 9
INVARIANTS
  BytesInOrder
  PollMeetsDeadline
PROPERTIES
  CutWhenQuiet
  BytesLeave
