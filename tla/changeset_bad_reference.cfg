SPECIFICATION Spec
CONSTANTS
  Docs = {"cable", "drawing"}
  Links = {l1}
  ChangeSets = {x1}
  Sessions = {s1, s2}
  Calls = {c1, c2}
  Workers = {w1, w2}
  Writes <- BothOrRemoval
  Source <- FromCable
  Target <- ToDrawing
  MaxOthers = 2
SYMMETRY Interchangeable
PROPERTIES NeverABadReference
CHECK_DEADLOCK FALSE
