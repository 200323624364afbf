SPECIFICATION Spec
CONSTANTS
  MaxVlen = 2
  MaxVdim = 1
  Val <- MCVal
  Types = {int}
  CType = int
  Cast <- MCCast
  Ops = {noop}
  NoOp = noop
  Second = second
  Plus = plus
  Apply <- MCApply
  Absent = absent
  Zombie = zombie
  NotIso = notiso
  NoScalar = noscalar
  HyperSwitch <- QuarterSwitch
  BitmapSwitch <- HalfSwitch
  HyperHash = 0
  Blocking = FALSE
  MemoryMayFail = FALSE
  NewDims <- Dims21
  NewControls <- DefaultControl
  Controls = {}
  Results <- NoResults
  Calls = {"set", "remove", "extract", "nvals", "wait"}
  Indices <- MCIndices
  NoVal = noval
INVARIANT RemoveNeverSearchesFull
CHECK_DEADLOCK FALSE
