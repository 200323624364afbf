SPECIFICATION AssignSpec
CONSTANTS
  MaxVlen = 2
  MaxVdim = 2
  Val <- MCVal
  Types = {int, fp}
  Fp = fp
  NoMatrix = nomatrix
  False = 0
  Assignments <- OnlyM21
  CType = int
  Cast <- MCCast
  Ops = {noop, plus}
  NoOp = noop
  Second = second
  Plus = plus
  Apply <- MCApply
  Absent = absent
  Zombie = zombie
  NotIso = notiso
  NoScalar = noscalar
  HyperSwitch <- HalfSwitch
  BitmapSwitch <- HalfSwitch
  HyperHash = 0
  Blocking = FALSE
  MemoryMayFail = FALSE
  NewDims <- Dims22
  NewControls <- DefaultControl
  Controls = {}
  Results <- NoResults
  Calls = {"set", "remove", "assignment"}
  Indices <- SetIndices
  NoVal = noval
INVARIANT DenseIsSettled
