\* Two user threads, a PreJIT kernel, and kernels that collide in the table
CONSTANTS
  plain = plain
  user = user
  op = op
  pre = pre
  d1 = d1
  d2 = d2
  t1 = t1
  t2 = t2
  Threads <- MCThreads
  Kernels = {plain, op, pre}
  Hash <- MCHash
  UserDefined = {op, pre}
  UserOps = {op}
  Definitions <- MCDefinitions
  BuiltIn = BuiltIn
  PreJIT <- MCPreJIT
  InitialSize = 2
  MayFail = {"compile", "dlsym", "memory"}
  Nobody = Nobody
  NoCode = NoCode
SPECIFICATION Spec
INVARIANTS
  TypeOK
  TableSound
  HandlesBalanced
  KernelRight
  OperatorsFound
  OperatorRight
  ErrorsStop
  LockSound
PROPERTIES
  NoInsertWhileRead
