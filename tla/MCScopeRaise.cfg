SPECIFICATION Spec
CONSTANTS
  Code <- MCCode
  Main = "methods"
  Lists = {1}
  Data = {"x"}
  Defs <- Methods
  Instances <- Classes
  Arguments = {"x"}
  Copies <- None
  Raising = TRUE
  MaxCalls = 2
  MaxObjs = 4
  MaxEntries = 9
  MaxSections = 1
PROPERTIES RaiseTearsDown
CHECK_DEADLOCK FALSE
