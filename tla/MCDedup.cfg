CONSTANTS
  Callers = {c1, c2, c3}
  Keys = {k1}
  TwoKeys = {k1, k2}
  Oks = {ok}
  Errs = {err}
  NullBody = {r204}
  Message = Message
  Closed = Closed
  TypeError = TypeError
  Nothing = Nothing
SPECIFICATION MCSpec
INVARIANTS MapsExact NoForeignResult EarlyFollowersServed
PROPERTIES NobodyWaitsForever SharesFlights
