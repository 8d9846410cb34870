CONSTANTS
  MaxRetries = 2
  Key = Key
  NoKey = NoKey
SPECIFICATION Spec
INVARIANT AtMostOnce
