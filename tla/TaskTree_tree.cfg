\* A root that spawns by hand over a pipeline over a child, two workers, one
\* request: the window is as large as the number of parents.
CONSTANTS
  R = R U = U C = C D = D
  w1 = w1 w2 = w2
  NoTask = NoTask
  Tasks = {R, U, C, D}
  Workers = {w1, w2}
  Parent <- TwoLevels
  Phases <- TwoPhases
  Raw <- RawRoot
  Policy <- ParentRetries
  MaxRetries <- OneRetry
  Order <- RootFirst
  Window = 2
  MaxRequests = 1
SPECIFICATION Spec
INVARIANT TypeOK
PROPERTIES BarrierSpec CancelIsAtomic WaitingResolves
