SPECIFICATION Spec
CONSTANTS
  TASK_LIST_DEPTH = 3
  MAXPENDING = 2
PROPERTY ShiftsByOne
