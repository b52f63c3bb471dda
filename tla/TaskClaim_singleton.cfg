\* As claim, but a task may become pending ahead of others of its type.
CONSTANTS
  a1 = a1 a2 = a2 a3 = a3 b1 = b1
  w1 = w1 w2 = w2
  Tasks = {a1, a2, a3, b1}
  Claimers = {w1, w2}
  TypeOf <- Types
  Singleton <- Singles
  Serves <- Channels
  Rank <- Ranks
  Limit = 2
  Ahead = TRUE
SPECIFICATION Spec
INVARIANT AtMostOneExecuting
