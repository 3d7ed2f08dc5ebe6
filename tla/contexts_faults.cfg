SPECIFICATION Spec
CONSTANTS
  appA = appA
  appB = appB
  a1 = a1
  ia1 = ia1
  ia2 = ia2
  ib2 = ib2
  ib1 = ib1
  ra1 = ra1
  rb1 = rb1
  n1 = n1
  AppContexts = {a1}
  ImplicitContexts = {ia1, ia2, ib1}
  RequestContexts = {ra1, rb1}
  AppOf <- MCAppOf
  NoContext = NoContext
  Unset = Unset
  Notes = {n1}
  Failures = {"open_session", "teardown_request", "teardown_appcontext"}
  MaxBlocks = 3
  MaxStack = 3
  MaxNotes = 1
INVARIANTS NoEarlyTeardown RefcntCountsBlocks
