\* One candidate of either kind, two requests at a time: four decisions built
\* or approvals given, three calls.
CONSTANTS
  Candidates = {c1}
  Workers = {w1, w2}
  Versions = {v1}
  NoVersion = gone
  MaxStamp = 4
  MaxCall = 3
SPECIFICATION Spec
INVARIANTS
  TypeOK
  OneWritePerPatch
  RevertsArePaired
  CallsAreClosed
  OneSuccessor
PROPERTIES
  DecidedOnPinnedSource
  WrittenOnStandingReview
SYMMETRY Interchangeable
CHECK_DEADLOCK FALSE
