\* Two requests of the v1 facade miss its document; one of them creates it and
\* edits it before the other writes.
CONSTANTS
  Docs = {d1}
  Workers = {w1, w2}
  Drawings = {blank, x}
  Blank = blank
  HistoryLimit = 2
  MaxRevision = 3
  MaxLives = 1
  Canvas = d1
SPECIFICATION FacadeSpec
INVARIANTS
  OpeningReplacesNothing
SYMMETRY Interchangeable
