SPECIFICATION Spec
CONSTANTS
  sensor = sensor
  relay = relay
  relay2 = relay2
  sink = sink
  Sensor = sensor
  Sink = sink
  Motes = {sensor, relay, sink}
  Links <- LineLinks
  Ranked = {}
  QUEUELENGTH = 2
  LIGHT_BURSTSIZE = 1
  BURSTIDS = 16
  WINDOW = 7
  MISSEDS = 65536
  MAXBURSTS = 3
  MAXAGE = 3
CHECK_DEADLOCK FALSE
INVARIANT StateOfTheLight
