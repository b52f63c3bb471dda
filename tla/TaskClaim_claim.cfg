\* Two claimers of two slots; tasks become pending in the order of their rank.
CONSTANTS
  a1 = a1 a2 = a2 a3 = a3 b1 = b1
  w1 = w1 w2 = w2
  Tasks = {a1, a2, a3, b1}
  Claimers = {w1, w2}
  TypeOf <- Types
  Singleton <- Singles
  Serves <- Channels
  Rank <- Ranks
  Limit = 2
  Ahead = FALSE
SPECIFICATION Spec
INVARIANTS TypeOK AtMostOneExecuting
PROPERTIES SingletonsInOrder DispatchSpec
