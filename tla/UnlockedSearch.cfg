\* A PreJIT kernel that another thread may find to be stale
CONSTANTS
  plain = plain
  user = user
  op = op
  pre = pre
  d1 = d1
  d2 = d2
  t1 = t1
  t2 = t2
  Threads <- MCThreads
  Kernels = {op, pre, plain}
  Hash <- MCHashBehind
  UserDefined = {op, pre}
  UserOps = {op}
  Definitions <- MCDefinitions
  BuiltIn = BuiltIn
  PreJIT <- MCPreJIT
  InitialSize = 2
  MayFail = {}
  Nobody = Nobody
  NoCode = NoCode
SPECIFICATION Spec
PROPERTY ReadersUndisturbed
