\* The rescaling loops of benchmark-graph.py's plot over two structures,
\* two sweep points and means in {1, 2, 4}.
CONSTANTS
  StructLists <- MCStructLists
  LcrqNames <- MCLcrqNames
  DcbNames <- MCDcbNames
  NameLen <- MCNameLen
  NumPoints = 2
  Means = {1, 2, 4}
  Devs = {1}
SPECIFICATION Spec
INVARIANT NormalizedAsSpec
