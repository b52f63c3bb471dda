----------------------------- MODULE MCTaskTree -----------------------------
(* Values of the constants of TaskTree for TLC. *)
EXTENDS TaskTree

CONSTANTS R, U, C, D, w1, w2

\* R is a parent of U and D, and U a parent of C: R decides on a child that
\* itself waits, fails because of C and is retried, while a sibling runs.
TwoLevels == [t \in Tasks |-> CASE t = R -> NoTask [] t \in {U, D} -> R
                                [] OTHER -> U]
TwoPhases == [t \in Tasks |-> CASE t = R -> 1 [] t = U -> 2 [] OTHER -> 0]
RawRoot == {R}
ParentRetries == [t \in Tasks |-> IF t = U THEN "retry_any" ELSE "no_retry"]
OneRetry == [t \in Tasks |-> IF t = U THEN 1 ELSE 0]
RootFirst == [t \in Tasks |-> CASE t = R -> 0 [] t = U -> 1 [] t = C -> 2
                                [] OTHER -> 3]
=============================================================================
