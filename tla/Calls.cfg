SPECIFICATION SurvivingSpec
CONSTANTS
  MaxVlen = 2
  MaxVdim = 2
  Val <- MCVal
  Types = {int}
  CType = int
  Cast <- MCCast
  Ops = {noop, plus}
  NoOp = noop
  Second = second
  Plus = plus
  Apply <- MCApply
  Absent = absent
  Zombie = zombie
  NotIso = notiso
  NoScalar = noscalar
  HyperSwitch <- QuarterSwitch
  BitmapSwitch <- HalfSwitch
  HyperHash = 0
  Blocking = FALSE
  MemoryMayFail = FALSE
  NewDims <- CallDims
  NewControls <- DefaultControl
  Controls = {}
  Results <- ResizeResults
  Calls = {"set", "remove", "extract", "nvals", "wait", "clear", "assign", "resize"}
  Indices <- CallIndices
  NoVal = noval
INVARIANTS TypeOK StructureSound WorkSound IsoSound HeldAsControlled JumbledStaysSparse
PROPERTIES WaitedIsReadOnly Refines
VIEW View
