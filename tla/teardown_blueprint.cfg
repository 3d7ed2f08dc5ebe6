SPECIFICATION Spec
CONSTANTS
  p1 = p1
  p2 = p2
  j1 = j1
  Processes = {p1}
  Jids = {j1}
  Marks = {1}
  NoJid = NoJid
  Absent = Absent
  Malformed = Malformed
  NotObject = NotObject
  Never = Never
  SessionTTL = 1
  MaxClock = 1
  Blueprints = {"bp", "other"}
  AppWide = AppWide
  Setups <- MCSetups
  Endpoints = {"page", "bp.page"}
  NoRule = NoRule
  BlueprintOf <- MCBlueprintOf
  Values <- MCValues
  Nothing = Nothing
  Commands = {"version"}
  Deployments <- MCTeardownDeployments
  MaxRequests = 1
INVARIANT BlueprintTeardownRuns
CHECK_DEADLOCK FALSE
