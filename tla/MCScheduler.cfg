SPECIFICATION Spec
CONSTANTS
  TASK_LIST_DEPTH = 4
  MAXPENDING = 3
INVARIANTS
  TypeOK
  ListSound
  NoStaleCall
PROPERTIES
  LossNeedsRace
  ListServed
