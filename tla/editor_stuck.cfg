\* One edit, overtaken by the refresh of another client's write.
CONSTANTS
  Users = {u1}
  Pollers = {p1}
  Docs = {d1}
  NoDoc = none
  Ops = {"edit"}
  Busy = 2
  MaxFaults = 0
SPECIFICATION FairSpec
PROPERTY FollowsTheServer
CHECK_DEADLOCK FALSE
