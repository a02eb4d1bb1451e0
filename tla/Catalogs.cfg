\* Two names, a buffer more than there are lists, two loads; a tree of two
\* levels, one deeper than the limit, in which more files can be than may be
\* listed.
SPECIFICATION CatalogsSpec
CONSTANTS
  a = a
  b = b
  b1 = b1
  b2 = b2
  b3 = b3
  None = None
  Names <- MCNames
  Buffers <- MCBuffers
  MaxInbox = 1
  MaxLoads = 2
  Kinds <- SomeKinds
  Json <- JsonNames
  TooLong <- LongPaths
  Order <- StrcmpOrder
  MaxFiles = 2
  MaxDepth = 1
  MaxChanges = 2
INVARIANTS
  ListsInForce
  UiAgrees
PROPERTIES
  LoadsAnswered
  CatalogIsASnapshot
