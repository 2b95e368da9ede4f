SPECIFICATION Spec
CONSTANTS
  None = None
  Tasks = {t1, t2}
  Ids = {d1, d2}
  Times = {1, 2}
  Answers = {yes, no}
  Commands = {c1}
  MaxLeases = 2
  Exclusive = TRUE
CHECK_DEADLOCK FALSE
INVARIANTS WaitIsDocumented AnswersAgree
