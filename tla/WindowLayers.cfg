SPECIFICATION Spec
CONSTANTS
  Contents = {a, b}
  Extras = {x, y}
  MaxLen = 2
  Derivers = {d}
  Runs = {r}
  Owner = owner
  MaxChanges = 2
  MaxLabels = 2
INVARIANT FreshIsFresh
PROPERTIES
  LinksSettle
  LabelsSurvive
SYMMETRY Symmetry
CHECK_DEADLOCK FALSE
