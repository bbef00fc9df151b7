SPECIFICATION Spec
CONSTANTS
  ra = ra
  rb = rb
  None = None
  Streams = {s1, s2, s3}
  Uuids = {ra, rb}
  Settings <- MCSettings
  MsPerSecond = 2
  MaxTime = 4
  UpstreamTimes = {0, 2}
SYMMETRY Symmetry
INVARIANTS ClosedBelowSlowLimit CountedWhereChecked
PROPERTIES BreakHonoured
CHECK_DEADLOCK FALSE
