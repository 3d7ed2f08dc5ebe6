SPECIFICATION Spec
CONSTANTS
  p1 = p1
  p2 = p2
  j1 = j1
  Processes = {p1, p2}
  Jids = {j1}
  Marks = {1, 2}
  NoJid = NoJid
  Absent = Absent
  Malformed = Malformed
  NotObject = NotObject
  Never = Never
  SessionTTL = 1
  MaxClock = 1
  Blueprints = {"bp", "other"}
  AppWide = AppWide
  Setups <- MCSetups
  Endpoints = {"page", "bp.page"}
  NoRule = NoRule
  BlueprintOf <- MCBlueprintOf
  Values <- MCValues
  Nothing = Nothing
  Commands = {"version"}
  Deployments <- MCDeployments
  MaxRequests = 2
INVARIANTS TypeOK WritesKept AnsweredMeansSaved TeardownComplete HooksInScope ResultsReachAsker
PROPERTY RequestEnds
CHECK_DEADLOCK FALSE
