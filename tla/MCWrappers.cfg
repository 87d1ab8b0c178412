SPECIFICATION Spec
CONSTANTS
  h1 = h1
  h2 = h2
  h3 = h3
  r1 = r1
  r2 = r2
  Null = Null
  Garbage = Garbage
  Undefined = Undefined
  Languages = {"c", "fortran"}
  Modes = {"record", "replay"}
  Encodes = {0}
  Required = {0, 3}
  Available = {1, 2, 3}
  Handles <- MCHandles
  Vars <- MCVars
  Arrays <- MCArrays
  Risks = {}
INVARIANTS KeptTrue HandlesTrue ResultsRight
CHECK_DEADLOCK FALSE
