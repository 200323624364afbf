SPECIFICATION AssignSpec
CONSTANTS
  MaxVlen = 2
  MaxVdim = 2
  Val <- MCVal
  Types = {int}
  Fp = fp
  NoMatrix = nomatrix
  False = 0
  Assignments <- OnlyM26
  CType = int
  Cast <- MCCast
  Ops = {noop}
  NoOp = noop
  Second = second
  Plus = plus
  Apply <- MCApply
  Absent = absent
  Zombie = zombie
  NotIso = notiso
  NoScalar = noscalar
  HyperSwitch <- HalfSwitch
  BitmapSwitch <- HalfSwitch
  HyperHash = 0
  Blocking = FALSE
  MemoryMayFail = FALSE
  NewDims <- Dims22
  NewControls <- HyperOnly
  Controls = {}
  Results <- NoResults
  Calls = {"set", "wait", "assignment"}
  Indices <- Column0
  NoVal = noval
INVARIANT HashIsCurrent
