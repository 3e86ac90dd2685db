CONSTANTS
  NoDigest = NoDigest
  NoItem = NoItem
  NoDay = NoDay
  a1 = a1
  a2 = a2
  b1 = b1
  c3 = c3
  Callers = {c1}
  Ids = {1, 2, 3}
  Items <- MCItems
  IdOf <- MCIdOf
  Days <- MCDays
  DateOf <- MCDateOf
  ValueOf <- MCValueOf
  Todays <- MCTodays
  FirstDay = 4
  WindowDays = 2
  SummaryLimit = 2
  PageSize = 2
SPECIFICATION FairCalls
INVARIANTS
  TypeOK
  ReadIsComplete
  WindowStaysRaw
  LabelIsTrue
PROPERTIES
  StandsForTheWholeStretch
  DigestsOnlyGrow
  CallsEnd
