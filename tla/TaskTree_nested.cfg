\* A pipeline over a pipeline over a child, and a window of one parent.
CONSTANTS
  R = R U = U C = C D = D
  w1 = w1 w2 = w2
  NoTask = NoTask
  Tasks = {R, U, C}
  Workers = {w1}
  Parent <- TwoLevels
  Phases <- TwoPhases
  Raw = {}
  Policy <- ParentRetries
  MaxRetries <- OneRetry
  Order <- RootFirst
  Window = 1
  MaxRequests = 0
SPECIFICATION Spec
PROPERTY CompletedWhenChildrenDone
