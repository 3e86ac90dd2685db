CONSTANTS
  Fetches = {f1}
  x = x
  x2 = x2
  y = y
  z = z
  u = u
  keyX = keyX
  keyY = keyY
  keyZ = keyZ
  keyU = keyU
  Empty = Empty
  Malformed = Malformed
  NoHint = NoHint
  NoEntry = NoEntry
  Settings <- MCSettings
  KeyOf <- MCKeyOf
  Usable = {x, x2, y, z}
  InRange = {x, x2, y, u}
  Bodies <- MCBodies
  Hints = {3600}
  Backoffs = {15}
SPECIFICATION FairFetches
INVARIANTS
  TypeOK
  NothingIsLost
  DefectsAreLoud
  GivenUpFirstHand
  WaitIsBounded
PROPERTIES
  FetchEnds
