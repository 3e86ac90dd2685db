CONSTANTS
  n1 = n1
  p1 = p1
  p2 = p2
  t1 = t1
  t2 = t2
  a1 = a1
  a2 = a2
  b1 = b1
  NoItem = NoItem
  NoReading = NoReading
  Callers = {c1, c2}
  Days <- MCDays
  Ids <- MCIds
  Numbers = {}
  Items <- MCItems
  IdOf <- MCIdOf
  DateOf <- MCDateOf
  ValueOf <- MCValueOf
  PointOf <- NoPoint
  DayNumber <- MCDayNumber
  PatternIds <- OnePattern
  Links <- OneLink
  ClientPatterns = {}
  Texts = {t1, t2}
  WindowDays = 2
  HistoryDays = 3
  PageSize = 1
SPECIFICATION Spec
INVARIANTS
  ReturnedIsCached
