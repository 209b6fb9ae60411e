\* Two calls of the user that change the copy, with the poller and other clients.  A
\* load and a creation end as an import does; they, the grid and a rename are in
\* editor_live.
CONSTANTS
  Users = {u1, u2}
  Pollers = {p1}
  Docs = {d1, d2}
  NoDoc = none
  Ops = {"import", "cad", "open", "delete", "move", "edit", "step", "draw", "plan", "auto"}
  Busy = 1
  MaxFaults = 1
SPECIFICATION Spec
INVARIANTS
  TypeOK
PROPERTIES
  EditsShowThemselves
  NewestOpenWins
  
SYMMETRY Interchangeable
CHECK_DEADLOCK FALSE
