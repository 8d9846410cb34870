CONSTANTS
  MaxRetries = 2
  Key = Key
  NoKey = NoKey
SPECIFICATION MCSpec
INVARIANTS AtMostOnce NoReplayAfterAnswer HonestSuccess
PROPERTIES EveryCallEnds
