CONSTANTS
  a = a
  b = b
  a1 = a1
  a2 = a2
  b1 = b1
  NoItem = NoItem
  Ids <- MCIds
  Items <- MCItems
  Numbers <- MCNumbers
  IdOf <- MCIdOf
  Stated <- MCStated
  Answers <- MCAnswers
  Runs = {r1}
  Pages <- StrayPages
  MaxAborts = 1
SPECIFICATION Spec
INVARIANTS
  RepeatedWritesOverwrite
