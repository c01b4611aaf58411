SPECIFICATION Spec
CONSTANTS
  MAXNUMNEIGHBORS = 2
  Motes = {m1, m2, m3}
  NoMote = NoMote
  MAXDAGRANK = 4
  NUMRXS = 3
  SWITCHSTABILITYTHRESHOLD = 2
  isDAGroot = FALSE
SYMMETRY MoteSymmetry
INVARIANTS
  TypeOK
  TableSound
  ParentBelow
  AnswersSettle
PROPERTY ChoosesParent
