CONSTANTS
  Resources = {r1, r2}
  MaxVersion = 2
  Calls = {c1, c2}
  Nothing = Nothing
SPECIFICATION Spec
INVARIANT CachedBodyOn304
