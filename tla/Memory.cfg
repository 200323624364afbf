SPECIFICATION Spec
CONSTANTS
  MaxVlen = 2
  MaxVdim = 3
  Val <- MCVal
  Types = {int}
  CType = int
  Cast <- MCCast
  Ops = {noop}
  NoOp = noop
  Second = second
  Plus = plus
  Apply <- MCApply
  Absent = absent
  Zombie = zombie
  NotIso = notiso
  NoScalar = noscalar
  HyperSwitch <- QuarterSwitch
  BitmapSwitch <- HalfSwitch
  HyperHash = 0
  Blocking = FALSE
  MemoryMayFail = TRUE
  NewDims <- Dims12
  NewControls <- NonFull
  Controls <- NonFullControls
  Results <- NoResults
  Calls = {"set", "remove", "extract", "nvals", "wait", "clear", "resize", "control", "hash", "iso"}
  Indices <- Indices12
  NoVal = noval
INVARIANTS StructureSound WorkSound FreedSound
PROPERTIES Refines
VIEW View
