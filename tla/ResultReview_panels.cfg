SPECIFICATION Spec
CONSTANTS
  Panels = {p1, p2}
  Builders = {b1}
  Paths = {a, b}
  Changed = {a}
  p1 = p1
  p2 = p2
  b1 = b1
  a = a
  b = b
SYMMETRY PanelsAlike
INVARIANTS CommittedHasLanded NoCommitIsSilent
PROPERTIES UndoAndCommitDoNotCross DecisionOutlivesBuild
