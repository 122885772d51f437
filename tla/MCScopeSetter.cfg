SPECIFICATION Spec
CONSTANTS
  Code <- MCCode
  Main = "methods"
  Lists = {1}
  Data = {"x"}
  Defs <- Setters
  Instances <- Classes
  Arguments = {"x"}
  Copies <- None
  Raising = FALSE
  MaxCalls = 3
  MaxObjs = 5
  MaxEntries = 9
  MaxSections = 1
PROPERTIES MembersKept
CHECK_DEADLOCK FALSE
