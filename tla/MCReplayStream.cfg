SPECIFICATION FairReplay
CONSTANTS
  x = x
  y = y
  NoEvent = NoEvent
  RecordedEvents <- MCEvents
  File <- MCFile
  ReplayMaxSize = 2
PROPERTIES StreamSpec AllDelivered
