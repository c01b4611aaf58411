SPECIFICATION Spec
CONSTANTS
  sensor = sensor
  relay = relay
  relay2 = relay2
  sink = sink
  Sensor = sensor
  Sink = sink
  Motes = {sensor, relay, relay2}
  Links <- MeshLinks
  Ranked = {}
  QUEUELENGTH = 2
  LIGHT_BURSTSIZE = 1
  BURSTIDS = 6
  WINDOW = 3
  MISSEDS = 4
  MAXBURSTS = 2
  MAXAGE = 1
CHECK_DEADLOCK FALSE
INVARIANTS
  StateFollowsBurst
PROPERTIES
  RelayOnce
