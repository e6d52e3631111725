SPECIFICATION Spec
CONSTANTS
  Items = {i1, i2}
  Predictions = {p1, p2}
  Reviews = {r1, r2}
  Searches = {s1}
  None = None
INVARIANTS TypeOK IndexFollowsRow
PROPERTIES AnswersMatch
