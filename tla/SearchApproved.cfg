SPECIFICATION Spec
CONSTANTS
  Items = {i1}
  Predictions = {p1}
  Reviews = {r1}
  Searches = {s1}
  None = None
INVARIANT ApprovedIsFound
