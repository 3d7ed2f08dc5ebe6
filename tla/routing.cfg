SPECIFICATION Spec
CONSTANTS
  t1 = t1
  t2 = t2
  j1 = j1
  j2 = j2
  Threads = {t1, t2}
  Rules = {"hello", "hello world", "ping user", "ping n", "ping any", "ping", "ping default", "say", "presence"}
  Declared <- MCDeclared
  Requests = {"hello world", "ping 07", "ping", "ping me", "say", "presence"}
  Request <- MCRequest
  None = None
  NoMatch = NoMatch
  MaxRules = 3
INVARIANTS TypeOK BestRuleWins LongerTextWins BuildInvertsMatch
SYMMETRY Interchangeable
