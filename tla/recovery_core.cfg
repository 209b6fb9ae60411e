\* Two processes, one restore at a time, every kill and power failure.
CONSTANTS
  Procs = {p1, p2}
  Writes = {x1}
  Instances = {i1}
  Current = 2
  Rebuild = 1
  Evidence = {x1}
  Newest = 3
  Missing = missing
  Blank = blank
  Torn = torn
  MaxFiles = 2
SPECIFICATION Spec
INVARIANTS
  TypeOK
  
  NoneIsCutOff
  BackupIsComplete
  ServesCurrentSchema
CHECK_DEADLOCK FALSE
