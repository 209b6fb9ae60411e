\* One drawing, two requests at a time.
CONSTANTS
  Docs = {"d1"}
  Sessions = {s1}
  Approvals = {a1}
  Calls = {c1, c2}
  Workers = {w1, w2}
  Intents <- CoreIntents
  MaxRevision = 2
SPECIFICATION Spec
INVARIANTS
  TypeOK
  AppliedWithExactApproval
  OneRevisionPerPinnedApproval
  RowsAgreeWithChain
  RunningCallsAreHeld
SYMMETRY Interchangeable
CHECK_DEADLOCK FALSE
