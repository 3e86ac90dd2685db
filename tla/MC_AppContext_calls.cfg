CONSTANTS
  NoCall = NoCall
  NoStore = NoStore
  Calls = {c1, c2}
  Stores = {s1, s2, s3}
SPECIFICATION FairCalls
CHECK_DEADLOCK FALSE
INVARIANTS
  TypeOK
  OneStoreForAll
  StoreInUseIsOpen
  OneBuilder
  NothingLeftOpen
  ReportIsTrue
PROPERTIES
  CallsEnd
