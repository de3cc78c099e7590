\* Two devices with segmented xTEDS, one of which may be replaced, and an
\* application; three Hellos.
SPECIFICATION FairSpec
CONSTANTS
  d1 = d1
  d2 = d2
  d3 = d3
  app = app
  Device = {d1, d2}
  Application = {app}
  Id = {d1, d2, app}
  NoId = NoId
  SIZE = 5
  MAX_SEGMENT_NODES = 5
  MAX_NUMBER_SEGMENTS = 4
  MaxHellos = 3
  Replaceable = {d2}
  Segments <- SegmentsOf
INVARIANTS
  TypeOK
  WholeDocument
PROPERTIES
  ServedInOrder
  HellosServed
  TransfersFinish
CHECK_DEADLOCK FALSE
