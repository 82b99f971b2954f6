SPECIFICATION Spec
CONSTANTS
  Callers = {c1, c2}
  Queries <- MCQueries
  Answers <- MCAnswers
  MaxClears = 2
INVARIANTS
  BundleFits
  BestKept
  FreshAfterClear
SYMMETRY MCCallers
