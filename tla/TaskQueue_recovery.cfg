\* Two tasks, two workers of one slot: processes die or stop, tasks time out,
\* stuck services reload.
SPECIFICATION Spec
CONSTANTS
  t1 = t1
  t2 = t2
  Tasks = {t1, t2}
  Workers = {w1, w2}
  Runners = {r1, r2, r3}
  NoTask = NoTask
  NoWorker = NoWorker
  NoRunner = NoRunner
  Slots = 1
  Policy <- MixedPolicy
  MaxRetries <- OneRetry
  Parents = {}
  Hanging = {}
  Returning = {}
  Raises = {"known"}
  Env = {"reload", "timeout"}
  MaxCrashes = 1
SYMMETRY Symmetry
INVARIANTS
  TypeOK
  ExclusiveExecution
  SlotsBound
  
PROPERTIES
  LifeSpec
  StartedByOwner
