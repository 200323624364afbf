SPECIFICATION SurvivingSpec
CONSTANTS
  MaxVlen = 2
  MaxVdim = 3
  Val <- MCVal
  Types = {int}
  CType = int
  Cast <- MCCast
  Ops = {noop, second}
  NoOp = noop
  Second = second
  Plus = plus
  Apply <- MCApply
  Absent = absent
  Zombie = zombie
  NotIso = notiso
  NoScalar = noscalar
  HyperSwitch <- QuarterSwitch
  BitmapSwitch <- HalfSwitch
  HyperHash = 0
  Blocking = FALSE
  MemoryMayFail = FALSE
  NewDims <- Dims12
  NewControls <- DefaultControl
  Controls <- AllControls
  Results <- NoResults
  Calls = {"set", "remove", "extract", "nvals", "wait", "clear", "resize", "control", "hash", "iso"}
  Indices <- Indices12
  NoVal = noval
INVARIANTS StructureSound WorkSound IsoSound HeldAsControlled
PROPERTIES WaitedIsReadOnly Refines
VIEW View
