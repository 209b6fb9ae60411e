\* Two requests, one approval, and a transaction that expects no revision.
CONSTANTS
  Docs = {"d1"}
  Sessions = {s1}
  Approvals = {a1}
  Calls = {c1, c2}
  Workers = {w1, w2}
  Intents <- UnpinnedIntents
  MaxRevision = 2
SPECIFICATION Spec
INVARIANTS
  OneRevisionPerApproval
SYMMETRY Interchangeable
