\* Two calls of the user that overtake each other, with the poller, the badge and
\* another client.
CONSTANTS
  Users = {u1, u2}
  Pollers = {p1}
  Docs = {d1}
  NoDoc = none
  Ops = {"load", "create", "cad", "open", "delete", "edit", "step", "grid", "rename", "auto", "drag"}
  Busy = 1
  MaxFaults = 1
SPECIFICATION FairSpec
PROPERTIES
  LoadingEnds
  
CHECK_DEADLOCK FALSE
