CONSTANTS
  n1 = n1
  p1 = p1
  p2 = p2
  t1 = t1
  t2 = t2
  a1 = a1
  a2 = a2
  b1 = b1
  NoItem = NoItem
  NoReading = NoReading
  Callers = {c1}
  Days <- MCDays
  Ids <- MCIds
  Numbers <- OneNumber
  Items <- MCItems
  IdOf <- MCIdOf
  DateOf <- MCDateOf
  ValueOf <- MCValueOf
  PointOf <- MCPointOf
  DayNumber <- MCDayNumber
  PatternIds = {}
  Links <- NoPoint
  ClientPatterns = {}
  Texts = {t1}
  WindowDays = 1
  HistoryDays = 2
  PageSize = 1
SPECIFICATION FairCalls
INVARIANTS
  TypeOK
  NothingFromTheFuture
  EvidenceComplete
PROPERTIES
  CallsEnd
