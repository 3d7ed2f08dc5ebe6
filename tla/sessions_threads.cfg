SPECIFICATION Spec
CONSTANTS
  t1 = t1
  t2 = t2
  s1 = s1
  s2 = s2
  s3 = s3
  j1 = j1
  j2 = j2
  Threads = {t1, t2}
  Jids = {j1, j2}
  Sessions = {s1, s2}
  None = None
  SessionTTL = 0
  MaxClock = 1
INVARIANTS DeleteFindsItsKey StoredUnderOwnJid
PROPERTY LockIsReleased
