CONSTANTS
  Writers = {w1, w2}
  news = news
  digests = digests
  date = date
  source = source
  start = start
  None = None
  Creators <- MCCreators
  SchemaOf <- MCSchemaOf
SPECIFICATION FairWriters
INVARIANTS
  TypeOK
  IndexedBeforePoints
PROPERTIES
  EnsuredIsComplete
  WritersEnd
