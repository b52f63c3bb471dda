\* Two tasks, one slot: the hung one does not keep the other waiting for ever.
SPECIFICATION FairClaims
CONSTANTS
  t1 = t1
  t2 = t2
  w1 = w1
  Tasks = {t1, t2}
  Workers = {w1}
  Runners = {r1, r2, r3}
  NoTask = NoTask
  NoWorker = NoWorker
  NoRunner = NoRunner
  Slots = 1
  Policy <- MixedPolicy
  MaxRetries <- OneRetry
  Parents = {}
  Hanging = {t1}
  Returning = {w1}
  Raises = {"known"}
  Env = {"reload", "timeout"}
  MaxCrashes = 1
PROPERTIES
  PendingServed
