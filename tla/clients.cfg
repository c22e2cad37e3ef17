SPECIFICATION Spec
CONSTANTS
  Tree <- MCTree
  Under <- MCUnder
  MAX_TRANSFERS = 1
  None = None
  p1 = p1
  p2 = p2
  t1 = t1
  t2 = t2
  Procs = {p1, p2}
  AliasNames = {A, B}
  Targets = {t1, t2}
  Commands <- MCCommands
  NoTarget = NoTarget
  Keys = {1, 2, 3}
  PageLimit = 1
  Size <- MCSize
  Absent = Absent
INVARIANT ScreenTrue
 
 
 
CHECK_DEADLOCK FALSE
