\* One task and every hazard the environment has: starved heartbeats, a worker
\* started again beside its old threads, edits, cancels, lost transactions, crashes.
SPECIFICATION Spec
CONSTANTS
  t1 = t1
  t2 = t2
  Tasks = {t1}
  Workers = {w1}
  Runners = {r1, r2}
  NoTask = NoTask
  NoWorker = NoWorker
  NoRunner = NoRunner
  Slots = 2
  Policy <- AnyPolicy
  MaxRetries <- OneRetry
  Parents = {t1}
  Hanging = {}
  Returning = {}
  Raises = {"other"}
  Env = {"starve", "respawn", "reload", "timeout", "edit", "cancel", "progress", "txfail", "nothread"}
  MaxCrashes = 1
SYMMETRY Symmetry
INVARIANTS
  OwnedRows
PROPERTIES
  DoneByOwner
  LifeSpec
