CONSTANTS
  p1 = p1
  p2 = p2
  q1 = q1
  q2 = q2
  Resources <- TwoQueries
  Path <- PathOf
  MaxVersion = 2
  Tasks = {t1, t2}
  Nothing = Nothing
SPECIFICATION MCSpec
INVARIANT OwnBody
