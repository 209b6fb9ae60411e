\* One document, two handlers: every interleaving of read and write.
CONSTANTS
  Docs = {d1}
  Workers = {w1, w2}
  Drawings = {blank, x}
  Blank = blank
  HistoryLimit = 2
  MaxRevision = 3
  MaxLives = 2
SPECIFICATION Spec
INVARIANTS
  TypeOK
  NoLostUpdate
  SourceAgreesWithDrawing
  TextReplacesOnlyItsOwn
PROPERTY Linearized
SYMMETRY Interchangeable
CHECK_DEADLOCK FALSE
