\* Pools of three and one, queues of two and one; the commands of the other
\* two groups are in MCAoRuntime.
SPECIFICATION RuntimeSpec
CONSTANTS
  MidBlocks = {m1, m2, m3}
  BigBlocks = {b1}
  NoBlock = none
  BlinkyLen = 1
  SpLen = 1
  Commands <- PortCommands
  Ticking = FALSE
INVARIANTS
  BlocksAccounted
  TokensAreEvents
  UsedWhenReady
  PoolOutlastsQueue
PROPERTIES
  PortsListed
