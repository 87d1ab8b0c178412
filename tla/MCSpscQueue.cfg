SPECIFICATION FairSpec
CONSTANTS
  a = a
  b = b
  c = c
  d = d
  e = e
  f = f
  g = g
  Nodes <- MCNodes
  Null = Null
  MaxSize = 2
  MaxItems = 6
INVARIANTS MemorySafe
PROPERTIES FifoSpec AllTaken
