SPECIFICATION Spec
CONSTANTS
  Code <- MCCode
  Main = "calls"
  Lists = {1, 2}
  Data = {"x", "y"}
  Defs <- Procedures
  Instances <- None
  Arguments = {"x"}
  Copies <- None
  Raising = TRUE
  MaxCalls = 3
  MaxObjs = 4
  MaxEntries = 7
  MaxSections = 1
INVARIANTS TypeOK NoDangling CallerFramesKept FramesCounted NamesAgree
PROPERTIES ReturnRestores CallersUntouched
CHECK_DEADLOCK FALSE
