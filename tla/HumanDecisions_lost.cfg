SPECIFICATION Spec
CONSTANTS
  None = None
  Tasks = {t1, t2}
  Ids = {d1, d2}
  Times = {1}
  Answers = {yes}
  Commands = {c1, c2}
  MaxLeases = 1
  Exclusive = FALSE
CHECK_DEADLOCK FALSE
INVARIANTS WaitIsDocumented
