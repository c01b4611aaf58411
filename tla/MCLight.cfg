SPECIFICATION Spec
CONSTANTS
  sensor = sensor
  relay = relay
  relay2 = relay2
  sink = sink
  Sensor = sensor
  Sink = sink
  Motes = {sensor, relay}
  Links <- TwoLinks
  Ranked = {sensor}
  QUEUELENGTH = 2
  LIGHT_BURSTSIZE = 1
  BURSTIDS = 6
  WINDOW = 3
  MISSEDS = 6
  MAXBURSTS = 6
  MAXAGE = 2
CHECK_DEADLOCK FALSE
INVARIANTS
  TypeOK
  MissedCounts
  StateFollowsBurst
PROPERTIES
  BurstsAdvance
