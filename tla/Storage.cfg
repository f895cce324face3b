CONSTANTS
  Procs = {p1, p2, p3}
  Values = {v1, v2}
  Ids = {i1, i2}
  Missing = Missing
  Torn = Torn
  None = None
SPECIFICATION Spec
SYMMETRY Symmetry
INVARIANTS
  WholeFiles
PROPERTIES
  OnceSpec
