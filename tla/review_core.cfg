\* Two requests at a time on one drawing with one thread.
CONSTANTS
  Threads = {t1}
  Requests = {w1, w2}
  MaxRevision = 1
  MaxSeq = 5
SPECIFICATION Spec
INVARIANTS
  TypeOK
  ApprovalStandsOnClosedReview
  ApprovedAsJudged
  ChainTellsEachTransitionOnce
PROPERTIES
  ReleasedOnStandingApproval
  GovernanceOnlyGrows
SYMMETRY Interchangeable
CHECK_DEADLOCK FALSE
