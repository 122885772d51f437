SPECIFICATION Spec
CONSTANTS
  Code <- MCCode
  Main = "methods"
  Lists = {1}
  Data = {"x"}
  Defs <- Methods
  Instances <- Classes
  Arguments = {"x"}
  Copies <- MethodToData
  Raising = FALSE
  MaxCalls = 3
  MaxObjs = 4
  MaxEntries = 9
  MaxSections = 1
INVARIANTS NoDangling PointersLive ThisScoped
CHECK_DEADLOCK FALSE
