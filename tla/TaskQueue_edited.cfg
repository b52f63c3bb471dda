\* A user edits a row while its thread finishes.
SPECIFICATION Spec
CONSTANTS
  t1 = t1
  t2 = t2
  Tasks = {t1}
  Workers = {w1}
  Runners = {r1, r2}
  NoTask = NoTask
  NoWorker = NoWorker
  NoRunner = NoRunner
  Slots = 1
  Policy <- MixedPolicy
  MaxRetries <- OneRetry
  Parents = {}
  Hanging = {}
  Returning = {}
  Raises = {"known"}
  Env = {"edit"}
  MaxCrashes = 0
SYMMETRY Symmetry
INVARIANTS
  NoLimbo
