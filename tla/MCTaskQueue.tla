----------------------------- MODULE MCTaskQueue -----------------------------
(***************************************************************************)
(* TaskQueue for TLC: one or two tasks, two workers, as many runner ids as  *)
(* the row columns and the threads can hold at a time.                      *)
(***************************************************************************)
EXTENDS TaskQueueDocs, TLC

CONSTANTS t1, t2

\* One retry for a task that retries on known errors, none for the other.
MixedPolicy == [t \in Tasks |-> IF t = t1 THEN "retry_known" ELSE "no_retry"]
AnyPolicy   == [t \in Tasks |-> "retry_any"]
OneRetry    == [t \in Tasks |-> 1]

\* Tasks differ in policy and behaviour, workers and runner ids do not.
Symmetry == Permutations(Workers) \cup Permutations(Runners)

FairClaims == FairSpec /\ ClaimFairness
==============================================================================
