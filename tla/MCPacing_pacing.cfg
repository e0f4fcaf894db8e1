SPECIFICATION FairSpec
CONSTANTS
  d = d
  a = a
  b = b
  u = u
  None = None
  Lead = lead
  Devs = {d}
  Keys = {a, b, u}
  Unblocks = {u}
  KeysOf <- MCKeysOf
  MaxFailedSessionRetries = 2
  Threshold = 2
  RetryDelay = 1
  BaseDelay = 2
  MaxDelay = 3
  Cooldown = 2
  Grace = 2
  Starts <- MCStarts
PROPERTIES CancelledAfterGrace RetriesSpaced FailuresBackOff LimitRespected WantedRuns UnwantedStopped
