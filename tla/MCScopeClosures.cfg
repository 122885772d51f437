SPECIFICATION Spec
CONSTANTS
  Code <- MCCode
  Main = "closures"
  Lists = {1}
  Data = {"x"}
  Defs <- Closures
  Instances <- Records
  Arguments = {"o"}
  Copies <- None
  Raising = FALSE
  MaxCalls = 2
  MaxObjs = 6
  MaxEntries = 9
  MaxSections = 1
INVARIANTS OneOwner
PROPERTIES CapturesKept
CHECK_DEADLOCK FALSE
