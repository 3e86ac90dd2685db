CONSTANTS
  n1 = n1
  p1 = p1
  p2 = p2
  t1 = t1
  t2 = t2
  a1 = a1
  a2 = a2
  b1 = b1
  NoItem = NoItem
  NoReading = NoReading
  Callers = {c1, c2}
  Days <- OneDay
  Ids <- OneId
  Numbers = {}
  Items <- OneItem
  IdOf <- OneIdOf
  DateOf <- OneDate
  ValueOf <- OneValue
  PointOf <- NoPoint
  DayNumber <- OneDayNumber
  PatternIds <- MCPatterns
  Links <- SharedLinks
  ClientPatterns = {p1}
  Texts = {t1}
  WindowDays = 1
  HistoryDays = 1
  PageSize = 1
SYMMETRY CallerSymmetry
SPECIFICATION Spec
INVARIANTS
  CitedPatternsStored
PROPERTIES
  ImplementsReadingRoom
