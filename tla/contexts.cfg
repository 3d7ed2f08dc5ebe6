SPECIFICATION Spec
CONSTANTS
  appA = appA
  appB = appB
  a1 = a1
  ia1 = ia1
  ia2 = ia2
  ib1 = ib1
  ib2 = ib2
  ra1 = ra1
  rb1 = rb1
  n1 = n1
  AppContexts = {a1}
  ImplicitContexts = {ia1, ia2, ib1, ib2}
  RequestContexts = {ra1, rb1}
  AppOf <- MCAppOf
  NoContext = NoContext
  Unset = Unset
  Notes = {n1}
  Failures = {}
  MaxBlocks = 4
  MaxStack = 8
  MaxNotes = 1
INVARIANTS TypeOK PopsMatch RefcntCountsPushes ProxiesServeInnermost NothingLeftBehind
PROPERTY RequestsNest
