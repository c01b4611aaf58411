SPECIFICATION Spec
CONSTANTS
  sensor = sensor
  relay = relay
  relay2 = relay2
  sink = sink
  Sensor = sensor
  Sink = sink
  Motes = {sensor, relay}
  Links <- TwoLinks
  Ranked = {}
  QUEUELENGTH = 2
  LIGHT_BURSTSIZE = 1
  BURSTIDS = 6
  WINDOW = 2
  MISSEDS = 4
  MAXBURSTS = 5
  MAXAGE = 4
CHECK_DEADLOCK FALSE
PROPERTY BurstsAdvance
